--------------------------- MODULE MCSidecarHttp ---------------------------
(* Small instances of SidecarHttp for TLC. *)
EXTENDS SidecarHttp

CONSTANTS s1, s2, s3

MCInitial == [schema |-> TRUE, trust |-> "valid", integers |-> TRUE]

\* The signed policy the process starts with, an unsigned one, one that is
\* forged and one with a number that has no canonical form.
MCPolicyFiles ==
    {MCInitial,
     [schema |-> TRUE, trust |-> "none", integers |-> TRUE],
     [schema |-> TRUE, trust |-> "invalid", integers |-> TRUE],
     [schema |-> TRUE, trust |-> "none", integers |-> FALSE]}

VARIABLE routes   \* the routes the clients of this behaviour use

MCInit ==
    /\ InitH
    /\ routes \in {{"decide", "activate"}, {"decide", "verify", "replay"}, {"replayRecent"}}

MCNext ==
    /\ NextH
    /\ \A s \in Sockets : handler'[s].route \in routes \cup {"none"}
    /\ "replayRecent" \notin routes => UNCHANGED history
    /\ UNCHANGED routes

MCSpec == MCInit /\ [][MCNext]_<<hvars, routes>> /\ \A g \in Signals : WF_hvars(ShutdownStep(g))
============================================================================
