----------------------------- MODULE DesktopApp -----------------------------
(***************************************************************************)
(* The operator's desktop application (mnde-sidecar-ui): the settings, the *)
(* loop that polls the sidecar they name, the overlay of the live demo's   *)
(* evidence, the start of a local sidecar, the enterprise session, and the *)
(* verdicts derived from all of them.                                      *)
(*                                                                         *)
(* Every change of the settings starts a new polling loop and cancels the  *)
(* one before it, but a request already sent is not cancelled: its answer  *)
(* is applied when it comes.  In the same way a refresh of the session     *)
(* that was sent before a logout is applied after it.  Poll intervals,     *)
(* back-off and freshness limits are left to the order of the steps: no    *)
(* verdict below depends on them.                                          *)
(***************************************************************************)
EXTENDS Naturals, FiniteSets

CONSTANTS
  Endpoints,        \* addresses the settings may name
  Home,             \* the address a sidecar started by the application has
  Roles,            \* the roles of a session, "ADMIN" among them
  MaxEdits,         \* bound: changes of the settings
  MaxChanges,       \* bound: changes of a sidecar or of the demo's evidence
  MaxLogins,        \* bound: sessions ever stored
  MaxRefreshes,     \* bound: refreshes of the session in flight at once
  Missing           \* no session, no request

ASSUME DesktopAssumption ==
  /\ Home \in Endpoints
  /\ {"ADMIN", "VIEWER"} \subseteq Roles
  /\ MaxRefreshes >= 1

VARIABLES
  settings,   \* the settings in force
  revision,   \* how often they were set: each is a new object to React
  loop,       \* the polling loop of the settings in force
  late,       \* requests of cancelled loops, still to be answered
  liveDemo,   \* is the live demo on?
  telemetry,  \* what the screens show
  overlay,    \* the demo evidence they show
  heard,      \* what the poll shown was answered (for the properties)
  sidecar,    \* external: what listens at each address
  evidence,   \* external: the evidence file of the live demo
  changes,    \* how often those two changed
  launch,     \* the start of a sidecar: "idle", "starting", ...
  starting,   \* the settings the start in flight will write back
  promoted,   \* was demo mode left at startup?
  store,      \* external: the session kept by the desktop shell
  logins,     \* how many sessions were ever stored
  dead,       \* sessions past their expiry
  auth,       \* the session the screens use
  refreshes,  \* refreshes of the session in flight
  pending     \* the login, logout or bootstrap in flight

polling == <<settings, revision, loop, late, liveDemo, telemetry, overlay, heard>>
world == <<sidecar, evidence, changes>>
starts == <<launch, starting, promoted>>
session == <<store, logins, dead, auth, refreshes, pending>>
vars == <<polling, world, starts, session>>

Settings == [mode : {"demo", "live"}, endpoint : Endpoints, auto : BOOLEAN]
Requests == {"healthz", "readyz", "metrics", "receipts"}

-----------------------------------------------------------------------------
(* What a poll makes of the sidecar's answers *)

\* The connection state of the requests that were answered.
DeriveLiveConnectionState(ok) ==
  IF {"healthz", "readyz", "metrics"} \subseteq ok THEN "CONNECTED"
  ELSE IF ok # {} THEN "DEGRADED" ELSE "DISCONNECTED"

\* As FallbackMetrics, leaving out the policy's name as a payload may.
FallbackNamesPolicy == [policy |-> "reported", signer |-> "Warning"]

\* Metrics without the metrics endpoint report no policy and a signer in doubt.
FallbackMetrics == [policy |-> "unavailable", signer |-> "Warning"]

\* Metrics read from the endpoint: what is not reported counts as healthy.
NormalizeMetrics == [policy |-> "reported", signer |-> "Healthy"]

\* The receipts shown, by the worst status among them.
NormalizeReceipts(ok, worst) == IF "receipts" \in ok THEN worst ELSE "empty"

\* The telemetry of a poll that was answered at all.
Snapshot(ok, worst) ==
  [mode |-> "live",
   conn |-> DeriveLiveConnectionState(ok),
   metrics |-> IF "metrics" \in ok THEN NormalizeMetrics ELSE FallbackMetrics,
   receipts |-> NormalizeReceipts(ok, worst),
   receiptsOk |-> "receipts" \in ok]

\* Demo telemetry: everything is simulated.
InitialTelemetry ==
  [mode |-> "demo", conn |-> "DEMO_MODE", metrics |-> NormalizeMetrics,
   receipts |-> "clean", receiptsOk |-> FALSE]

\* The demo's next event: the mode and every metric are written again.
AdvanceTelemetry(t) == [InitialTelemetry EXCEPT !.receipts = t.receipts]

\* No request was answered: everything but the proofs of the poll before is
\* withdrawn.
Disconnected(t, unsupported) ==
  [t EXCEPT !.mode = "live",
            !.conn = IF unsupported THEN "UNSUPPORTED_ENDPOINT" ELSE "DISCONNECTED",
            !.metrics = [policy |-> "unavailable", signer |-> "Failed"],
            !.receipts = "empty"]

\* Does the evidence hold events, and a signed authority?
HasEvents(ev) == ev \in {"running", "pass", "fail"}
SignedAuthority(ev) == ev \in {"running", "pass"}

\* The demo's evidence laid over the telemetry: it counts as a connection.
OverlayTelemetry(t, ev) ==
  IF ~HasEvents(ev) THEN t
  ELSE [t EXCEPT !.conn = "CONNECTED",
                 !.metrics.signer = IF SignedAuthority(ev) THEN "Healthy" ELSE @,
                 !.receiptsOk = TRUE]

-----------------------------------------------------------------------------
(* The verdicts the screens derive *)

Expired(s) == s.id \in dead

\* May this session be used in this mode?
IsSessionAllowedForMode(s, mode) == s # Missing /\ ~Expired(s) /\ mode = "live"

\* What a role may do through the buttons.
Can(s, capability) ==
  /\ s # Missing
  /\ ~Expired(s)
  /\ \/ s.role = "ADMIN"
     \/ s.role \in {"OPERATOR", "AUDITOR"} /\ capability = "replay_decisions"

\* The scopes of the session, or of the demo's signed assertion.
DeriveAuthorityScope(s) ==
  IF s = Missing \/ Expired(s) THEN {"LOCAL_ONLY"}
  ELSE CASE s.role = "ADMIN" -> {"ORG_ADMIN", "POLICY_ADMIN", "RUNTIME_CONTROL", "AUDITOR"}
         [] s.role = "OPERATOR" -> {"RUNTIME_CONTROL"}
         [] s.role = "AUDITOR" -> {"AUDITOR"}
         [] OTHER -> {"READ_ONLY"}

LiveDemoAuthorityScope == {"ORG_ADMIN", "POLICY_ADMIN", "RUNTIME_CONTROL", "AUDITOR"}

Scopes ==
  IF liveDemo /\ SignedAuthority(overlay) THEN LiveDemoAuthorityScope
  ELSE DeriveAuthorityScope(auth.session)

\* The proofs that are never reported as valid: the fingerprint of the key set
\* is shown as unverified whatever the sidecar says.
Unverified == {"active key-set fingerprint"}

\* The verdict on the telemetry and the session.
DeriveTrustState(t, s, mode) ==
  IF t.conn \in {"DISCONNECTED", "UNSUPPORTED_ENDPOINT"} THEN "DISCONNECTED"
  ELSE IF t.metrics.policy = "unavailable" THEN "POLICY_INVALID"
  ELSE IF t.receipts = "drift" THEN "REPLAY_UNSAFE"
  ELSE IF t.metrics.signer # "Healthy" THEN "SIGNER_DEGRADED"
  ELSE IF mode # "live" \/ s = Missing \/ (s # Missing /\ Expired(s)) THEN "PARTIAL_AUTHORITY"
  ELSE IF Unverified # {} THEN "UNVERIFIED"
  ELSE IF t.conn # "CONNECTED" THEN "DEGRADED" ELSE "TRUSTED"

\* The verdict on the demo: its own final verdict.
LiveDemoTrustState(ev) ==
  CASE ev = "pass" -> "TRUSTED" [] ev = "fail" -> "FAIL_CLOSED" [] OTHER -> "UNVERIFIED"

Trust ==
  IF liveDemo /\ overlay # "absent" THEN LiveDemoTrustState(overlay)
  ELSE DeriveTrustState(telemetry, auth.session, settings.mode)

\* A protected action needs one of its scopes and a trusted verdict.
GateProtectedAction(scopes) == Scopes \cap scopes # {} /\ Trust = "TRUSTED"

CanActivatePolicy ==
  /\ telemetry.mode = "live"
  /\ Can(auth.session, "activate_policy")
  /\ GateProtectedAction({"ORG_ADMIN", "POLICY_ADMIN"})

\* The last step of the setup screen.
OperationalReady ==
  /\ settings.mode = "live"
  /\ telemetry.conn = "CONNECTED"
  /\ telemetry.metrics = NormalizeMetrics
  /\ telemetry.receipts # "drift"
  /\ telemetry.receiptsOk
  /\ Trust = "TRUSTED"

AuthorityReady == liveDemo \/ IsSessionAllowedForMode(auth.session, settings.mode)

-----------------------------------------------------------------------------
(* The polling loop: useOperationalTelemetry *)

Ticking == [pc |-> "ticking", id |-> 0, settings |-> Missing, demo |-> FALSE]

\* As SetSettings, for an effect that depends on the mode alone.
SetSettingsByMode(s, demo) ==
  /\ settings' = s
  /\ revision' = revision + 1
  /\ IF s.mode = settings.mode /\ demo = liveDemo THEN UNCHANGED <<late, loop, telemetry>>
     ELSE /\ late' = IF loop.pc = "fetching" THEN late \union {loop} ELSE late
          /\ IF s.mode = "demo" /\ ~demo
             THEN loop' = Ticking /\ telemetry' = InitialTelemetry
             ELSE /\ loop' = [pc |-> "fetching", id |-> revision + 1, settings |-> s, demo |-> demo]
                  /\ UNCHANGED telemetry
  /\ UNCHANGED <<overlay, heard>>

\* New settings, a new effect: the loop before is cancelled, its timer cleared,
\* its request left in flight.
SetSettings(s, demo) ==
  /\ settings' = s
  /\ revision' = revision + 1
  /\ late' = IF loop.pc = "fetching" THEN late \union {loop} ELSE late
  /\ IF s.mode = "demo" /\ ~demo
     THEN loop' = Ticking /\ telemetry' = InitialTelemetry
     ELSE /\ loop' = [pc |-> "fetching", id |-> revision + 1, settings |-> s,
                      demo |-> demo]
          /\ UNCHANGED telemetry
  /\ UNCHANGED <<overlay, heard>>

\* The requests of a poll that a listener may answer: each of the four has a
\* time-out of its own and fails by itself, also at a sidecar in good health.
PollAnswers(listener) ==
  CASE listener = "up" -> SUBSET Requests
    [] listener = "unready" -> SUBSET (Requests \ {"readyz"})
    [] OTHER -> {{}}

\* With no answer at all: may one of the failures be an unknown endpoint?
Unsupported(listener) == IF listener = "other" THEN BOOLEAN ELSE {FALSE}

\* The four requests of a poll have been answered or have timed out, and become
\* the telemetry, whether or not the loop was cancelled meanwhile.
Show(r) ==
  LET listener == sidecar[r.settings.endpoint]
      ev == IF r.demo THEN evidence ELSE "absent"
  IN  \E ok \in PollAnswers(listener), worst \in {"clean", "drift"},
         unsupported \in Unsupported(listener) :
        /\ overlay' = ev
        /\ telemetry' = OverlayTelemetry(IF ok = {} THEN Disconnected(telemetry, unsupported)
                                                    ELSE Snapshot(ok, worst), ev)
        /\ heard' = [from |-> r.settings.endpoint, ok |-> ok]

Apply ==
  /\ loop.pc = "fetching"
  /\ Show(loop)
  /\ loop' = [loop EXCEPT !.pc = IF loop.settings.auto THEN "waiting" ELSE "ended"]
  /\ UNCHANGED <<settings, revision, late, liveDemo, world, starts, session>>

ApplyLate ==
  /\ \E r \in late : Show(r) /\ late' = late \ {r}
  /\ UNCHANGED <<settings, revision, loop, liveDemo, world, starts, session>>

\* The timer of the loop fires.
PollAgain ==
  /\ loop.pc = "waiting"
  /\ loop' = [loop EXCEPT !.pc = "fetching"]
  /\ UNCHANGED <<settings, revision, late, liveDemo, telemetry, overlay, heard, world, starts, session>>

\* The demo's interval fires.
DemoTick ==
  /\ loop.pc = "ticking"
  /\ telemetry' = AdvanceTelemetry(telemetry)
  /\ UNCHANGED <<settings, revision, loop, late, liveDemo, overlay, heard, world, starts, session>>

-----------------------------------------------------------------------------
(* The operator's controls and the effect of App *)

\* Only the demo and an allowed session see anything but the login screen.
Unlocked == settings.mode = "demo" \/ AuthorityReady

Budget == revision + Cardinality(starting) < MaxEdits

ChangeSettings ==
  /\ Budget /\ Unlocked
  /\ \E s \in Settings \ {settings} : SetSettings(s, liveDemo)
  /\ UNCHANGED <<liveDemo, world, starts, session>>

HandleReconnect ==
  /\ Budget /\ Unlocked
  /\ SetSettings([settings EXCEPT !.mode = "live", !.auto = TRUE], liveDemo)
  /\ UNCHANGED <<liveDemo, world, starts, session>>

\* The live demo cannot be shown in demo mode.
PromoteLiveDemo ==
  /\ liveDemo /\ settings.mode # "live"
  /\ SetSettings([settings EXCEPT !.mode = "live", !.auto = TRUE], liveDemo)
  /\ UNCHANGED <<liveDemo, world, starts, session>>

\* The desktop leaves demo mode once by itself.
PromoteDesktop ==
  /\ ~liveDemo /\ settings.mode = "demo" /\ ~promoted
  /\ promoted' = TRUE
  /\ SetSettings([settings EXCEPT !.mode = "live"], liveDemo)
  /\ UNCHANGED <<liveDemo, world, launch, starting, session>>

\* A start remembers the settings of the render it was made in.
BeginStart(kind) ==
  starting' = starting \union {[kind |-> kind, id |-> revision, settings |-> settings]}

\* shouldAutoStartSidecar: once, in live mode, with authority.
AutoStart ==
  /\ settings.mode = "live" /\ AuthorityReady /\ launch = "idle"
  /\ launch' = "starting"
  /\ BeginStart("sidecar")
  /\ UNCHANGED <<polling, world, promoted, session>>

HandleStartSidecar ==
  /\ Budget /\ Unlocked /\ settings.mode = "live"
  /\ launch' = "starting"
  /\ BeginStart("sidecar")
  /\ UNCHANGED <<polling, world, promoted, session>>

\* The live demo can be started from the login screen too.
HandleStartLiveDemo ==
  /\ Budget
  /\ ~\E r \in starting : r.kind = "demo"
  /\ BeginStart("demo")
  /\ UNCHANGED <<polling, world, launch, promoted, session>>

\* The shell answers: the settings of that render are written back, in live
\* mode.  (A started sidecar listens at Home.)
Started ==
  /\ \E r \in starting :
       /\ starting' = starting \ {r}
       /\ launch' = IF r.kind = "sidecar" THEN "started" ELSE launch
       /\ liveDemo' = (liveDemo \/ r.kind = "demo")
       /\ sidecar' = [sidecar EXCEPT ![Home] = IF @ = "down" THEN "unready" ELSE @]
       /\ SetSettings([r.settings EXCEPT !.mode = "live", !.auto = @ \/ r.kind = "demo"],
                      liveDemo \/ r.kind = "demo")
  /\ UNCHANGED <<evidence, changes, promoted, session>>

StartFailed ==
  /\ \E r \in starting :
       /\ starting' = starting \ {r}
       /\ launch' = IF r.kind = "sidecar" THEN "failed" ELSE launch
  /\ UNCHANGED <<polling, world, promoted, session>>

-----------------------------------------------------------------------------
(* The session: useAuth and the desktop shell's keeper *)

\* validateSession: an expired session is still handed to the screens.
ValidateSession(s) ==
  [kind |-> IF s = Missing THEN "unauthenticated"
            ELSE IF Expired(s) THEN "expired" ELSE "authenticated",
   session |-> s]

\* As the shell reports an error.
Lost == [kind |-> "auth_lost", session |-> Missing]

\* The interval asks for the session every 15 s, answered or not.
RefreshStart ==
  /\ \E i \in 1..MaxRefreshes :
       /\ \A r \in refreshes : r.id # i
       /\ refreshes' = refreshes \union
                         {[id |-> i, read |-> FALSE, failed |-> FALSE, value |-> Missing]}
  /\ UNCHANGED <<polling, world, starts, store, logins, dead, auth, pending>>

\* A session that the provider vouched for is stored; its role is that of the
\* RBAC policy of the moment, or the lowest.
StoreNew ==
  /\ logins < MaxLogins
  /\ logins' = logins + 1
  /\ \E role \in Roles : store' = [id |-> logins + 1, role |-> role]

\* The role of the stored session becomes that of the policy of the moment.
ReconcileStoredSessionRole == \E role \in Roles : store' = [store EXCEPT !.role = role]

\* auth_bootstrap.  (The commands of the shell are not async: each runs to its
\* end before the next.)  The stored session is renewed when it has expired or
\* is about to, and a renewed one may still be followed by an error; an error
\* of the renewal leaves it, and one that has expired and cannot be renewed is
\* cleared.
AuthBootstrap ==
  /\ \E r \in refreshes, failed \in BOOLEAN :
       /\ ~r.read
       /\ \/ store = Missing /\ UNCHANGED <<store, logins>>
          \/ store # Missing /\ StoreNew
          \/ store # Missing /\ ~Expired(store) /\ ReconcileStoredSessionRole /\ UNCHANGED logins
          \/ store # Missing /\ failed /\ UNCHANGED <<store, logins>>
          \/ store # Missing /\ Expired(store) /\ failed /\ store' = Missing /\ UNCHANGED logins
       /\ refreshes' = (refreshes \ {r}) \union
                         {[r EXCEPT !.read = TRUE, !.failed = failed,
                                    !.value = IF failed THEN Missing ELSE store']}
  /\ UNCHANGED <<polling, world, starts, dead, auth, pending>>

\* current_valid_session: every request to a sidecar, and every command that
\* needs a role, validates the stored session.
CurrentValidSession ==
  /\ store # Missing
  /\ IF Expired(store) THEN store' = Missing ELSE ReconcileStoredSessionRole
  /\ UNCHANGED <<polling, world, starts, logins, dead, auth, refreshes, pending>>

\* As RefreshDone, for an interval that asks only while no session is shown.
RefreshDoneOnce ==
  /\ auth.session = Missing
  /\ \E r \in refreshes :
       /\ r.read
       /\ refreshes' = refreshes \ {r}
       /\ auth' = IF r.failed THEN Lost ELSE ValidateSession(r.value)
  /\ UNCHANGED <<polling, world, starts, store, logins, dead, pending>>

\* The answer is shown, whatever happened meanwhile.
RefreshDone ==
  /\ \E r \in refreshes :
       /\ r.read
       /\ refreshes' = refreshes \ {r}
       /\ auth' = IF r.failed THEN Lost ELSE ValidateSession(r.value)
  /\ UNCHANGED <<polling, world, starts, store, logins, dead, pending>>

Login ==
  /\ pending = Missing /\ ~AuthorityReady /\ settings.mode = "live"
  /\ auth' = [kind |-> "loading", session |-> Missing]
  /\ pending' = [op |-> "login", value |-> Missing]
  /\ UNCHANGED <<polling, world, starts, store, logins, dead, refreshes>>

\* The browser comes back with a login the provider and the shell accept, or
\* one they refuse; the shell waits for it without a time-out.  A session that
\* is stored but cannot be entered in the audit log is answered as an error.
LoggingIn == pending # Missing /\ pending.op = "login"

LoginStored ==
  /\ LoggingIn
  /\ \/ StoreNew /\ \E value \in {store', Missing} : pending' = [op |-> "done", value |-> value]
     \/ pending' = [op |-> "done", value |-> Missing] /\ UNCHANGED <<store, logins>>
  /\ UNCHANGED <<polling, world, starts, dead, auth, refreshes>>

\* rbac_bootstrap_admin: the first custodian's session is rewritten; one that
\* has expired is cleared.  Nothing is shown of that, or of an error afterwards.
BootstrapAdmin ==
  /\ pending = Missing /\ AuthorityReady /\ store # Missing
  /\ IF Expired(store) THEN store' = Missing /\ UNCHANGED pending
     ELSE /\ store' = [store EXCEPT !.role = "ADMIN"]
          /\ pending' \in {Missing, [op |-> "set", value |-> store']}
  /\ UNCHANGED <<polling, world, starts, logins, dead, auth, refreshes>>

\* The answer of a login or a logout is shown; a bootstrapped session is shown
\* as it is.
SessionAnswered ==
  /\ pending # Missing /\ pending.op \in {"done", "set"}
  /\ auth' = IF pending.op = "done" THEN ValidateSession(pending.value)
             ELSE [kind |-> "authenticated", session |-> pending.value]
  /\ pending' = Missing
  /\ UNCHANGED <<polling, world, starts, store, logins, dead, refreshes>>

Logout ==
  /\ pending = Missing /\ AuthorityReady /\ ~liveDemo
  /\ store' = Missing
  /\ pending' = [op |-> "done", value |-> Missing]
  /\ UNCHANGED <<polling, world, starts, logins, dead, auth, refreshes>>

-----------------------------------------------------------------------------
(* The world *)

SidecarChanges ==
  /\ changes < MaxChanges
  /\ changes' = changes + 1
  /\ \E e \in Endpoints, listener \in {"down", "unready", "up", "other"} :
       sidecar[e] # listener /\ sidecar' = [sidecar EXCEPT ![e] = listener]
  /\ UNCHANGED <<polling, evidence, starts, session>>

EvidenceChanges ==
  /\ changes < MaxChanges
  /\ changes' = changes + 1
  /\ evidence' \in {"absent", "empty", "running", "pass", "fail"} \ {evidence}
  /\ UNCHANGED <<polling, sidecar, starts, session>>

Expires ==
  /\ \E s \in {store, auth.session} \ {Missing} : dead' = dead \union {s.id}
  /\ UNCHANGED <<polling, world, starts, store, logins, auth, refreshes, pending>>

-----------------------------------------------------------------------------
(* The specification *)

\* The application opens with saved settings, simulated telemetry and a first
\* refresh under way.
Init ==
  /\ settings \in {s \in Settings : s.endpoint = Home}
  /\ revision = 0
  /\ loop = IF settings.mode = "demo" THEN Ticking
            ELSE [pc |-> "fetching", id |-> 0, settings |-> settings,
                  demo |-> FALSE]
  /\ late = {} /\ liveDemo = FALSE
  /\ telemetry = InitialTelemetry /\ overlay = "absent"
  /\ heard = [from |-> Missing, ok |-> {}]
  /\ sidecar \in [Endpoints -> {"down", "up"}]
  /\ evidence \in {"absent", "pass"} /\ changes = 0
  /\ launch = "idle" /\ starting = {} /\ promoted = FALSE
  /\ store \in {Missing} \union {[id |-> 1, role |-> role] : role \in Roles}
  /\ logins = IF store = Missing THEN 0 ELSE 1
  /\ dead = {} /\ auth = [kind |-> "loading", session |-> Missing]
  /\ refreshes = {[id |-> 1, read |-> FALSE, failed |-> FALSE, value |-> Missing]}
  /\ pending = Missing

Poll == Apply \/ ApplyLate \/ PollAgain \/ DemoTick
Operate ==
  \/ ChangeSettings \/ HandleReconnect \/ PromoteLiveDemo \/ PromoteDesktop
  \/ AutoStart \/ HandleStartSidecar \/ HandleStartLiveDemo \/ Started \/ StartFailed
Authenticate ==
  \/ RefreshStart \/ AuthBootstrap \/ RefreshDone \/ CurrentValidSession
  \/ Login \/ LoginStored \/ BootstrapAdmin \/ SessionAnswered \/ Logout
Change == SidecarChanges \/ EvidenceChanges \/ Expires

Next == Poll \/ Operate \/ Authenticate \/ Change

\* A poll of the four requests ends by their time-outs and timers fire.  A poll
\* for the demo's evidence has no time-out, nothing is promised of the requests
\* of cancelled loops, and a login that waits for the browser keeps the shell's
\* other commands waiting.
PollFairness ==
  /\ WF_vars(~loop.demo /\ ~LoggingIn /\ Apply)
  /\ WF_vars(PollAgain) /\ WF_vars(DemoTick)
SessionFairness ==
  /\ WF_vars(RefreshStart) /\ WF_vars(~LoggingIn /\ AuthBootstrap) /\ WF_vars(RefreshDone)
  /\ WF_vars(SessionAnswered)

Spec == Init /\ [][Next]_vars /\ PollFairness /\ SessionFairness

-----------------------------------------------------------------------------
(* Properties *)

\* Readiness and the activation button are backed by an answer: the setup
\* screen says "Operational Ready" only if the poll shown was answered by the
\* sidecar's metrics, whichever of the other requests failed and whatever the
\* overlay of the demo pretends, and a policy can be activated only under a
\* passed demo, with an administrator's session that has not expired
\* (setupModel.ts, useOperationalTelemetry.ts, App.tsx).
ReadyBacked ==
  /\ OperationalReady => "metrics" \in heard.ok /\ overlay = "pass"
  /\ CanActivatePolicy => overlay = "pass" /\ auth.session.role = "ADMIN"

\* What is shown is what the sidecar of the settings in force answered, and no
\* more than it answered.
Current ==
  /\ telemetry.mode = "live"
  /\ heard.from = settings.endpoint
  /\ heard.ok \in PollAnswers(sidecar[settings.endpoint])
  /\ overlay = IF liveDemo THEN evidence ELSE "absent"
  /\ telemetry.metrics.policy = IF "metrics" \in heard.ok THEN "reported" ELSE "unavailable"
  /\ \/ HasEvents(overlay)
     \/ telemetry.conn = DeriveLiveConnectionState(heard.ok)
     \/ heard.ok = {} /\ telemetry.conn = "UNSUPPORTED_ENDPOINT"

\* A late answer of a cancelled loop is not shown for ever: while live mode
\* polls, the telemetry comes to be that of the address in force, if only polls
\* go on ending, as they do but for the live demo and a login left open; in
\* demo mode it comes to be simulated (useOperationalTelemetry.ts).
ShownSettles ==
  /\ /\ <>[](settings.mode = "live" /\ settings.auto)
     /\ <>[](~liveDemo /\ ~LoggingIn) \/ []<>(loop.pc = "waiting")
     => <>[]Current
  /\ <>[](settings.mode = "demo" /\ ~liveDemo) => <>[](telemetry.mode = "demo")

\* A session that is gone from the shell's store does not stay on the screens:
\* an answer that arrives after a logout, or an expiry the shell notices, is
\* corrected by a later refresh, once no login holds the shell (useAuth.ts).
LogoutSettles ==
  <>[](store = Missing /\ ~LoggingIn) => <>[](auth.kind # "authenticated")
=============================================================================
