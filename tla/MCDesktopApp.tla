---------------------------- MODULE MCDesktopApp ----------------------------
(***************************************************************************)
(* Two addresses.  Polling and the session share only the gates, so a      *)
(* behaviour moves one of them freely: with focus "polling" an             *)
(* administrator's session is read once and stays, with focus "session"    *)
(* the settings stay.                                                      *)
(***************************************************************************)
EXTENDS DesktopApp

VARIABLE focus

Polling == focus = "polling"
Session == focus = "session"

MCInit ==
  /\ Init
  /\ focus \in {"polling", "session"}
  /\ Polling => /\ store # Missing /\ store.role = "ADMIN"
                /\ settings.auto /\ settings.mode = "live" /\ evidence = "pass"
                /\ \A e \in Endpoints \ {Home} : sidecar[e] = "up"
  /\ Session => /\ settings.mode = "live" /\ ~settings.auto /\ evidence = "absent"
                /\ \A e \in Endpoints : sidecar[e] = "up"

Restore ==
  /\ auth.kind = "loading" /\ store' = store
  /\ AuthBootstrap \/ RefreshDone
  /\ \A r \in refreshes' : ~r.failed

\* Of the answers to a poll, one for every state of the connection,
\* and no receipt that drifts, which only withdraws a verdict.
Heard == {Requests, Requests \ {"readyz"}, Requests \ {"metrics"}, {}}

MCNext ==
  /\ \/ Polling /\ Restore
     \/ Polling /\ auth.kind # "loading" /\ (Poll \/ Operate \/ SidecarChanges \/ EvidenceChanges)
     \/ Session /\ (Authenticate \/ Expires \/ AutoStart \/ StartFailed)
  /\ heard'.ok \in Heard
  /\ telemetry'.receipts # "drift"
  /\ UNCHANGED focus

\* The fairness of DesktopApp, for the part that moves.
MCFairness ==
  /\ WF_vars(Polling /\ Restore) /\ WF_vars(Polling /\ ~loop.demo /\ ~LoggingIn /\ Apply)
  /\ WF_vars(Polling /\ PollAgain) /\ WF_vars(Polling /\ DemoTick)
  /\ WF_vars(Session /\ RefreshStart) /\ WF_vars(Session /\ ~LoggingIn /\ AuthBootstrap)
  /\ WF_vars(Session /\ RefreshDone) /\ WF_vars(Session /\ SessionAnswered)

MCSpec == MCInit /\ [][MCNext]_<<vars, focus>> /\ MCFairness
=============================================================================
