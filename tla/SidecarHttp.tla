---------------------------- MODULE SidecarHttp ----------------------------
(***************************************************************************)
(* The HTTP side of the sidecar process: connections and their limits      *)
(* (src/sidecar/http_admission.mjs, socket_registry.mjs), the routes that  *)
(* change something or wait for something, policy activation, the receipt  *)
(* history (src/sidecar/production_api.mjs) and the shutdown two signals   *)
(* may each start (src/mnde-local-sidecar.mjs).                            *)
(*                                                                         *)
(* Every response closes its connection, so a connection has one request.  *)
(* A handler waits for the body of its request and for the worker pool; its*)
(* socket may be destroyed meanwhile, by six different pieces of code, and *)
(* the handler runs on.  "close" is an event of its own, after the destroy.*)
(***************************************************************************)
EXTENDS Naturals, FiniteSets, Sequences

CONSTANTS
    Sockets,      \* connections clients make
    PolicyFiles,  \* policy files on disk, see ValidatePolicyDocument
    Initial,      \* the policy the process starts with
    LineKinds,    \* lines the receipt queue writes, see ReplayStatus
    MaxActiveSockets, \* max_active_sockets of the admission controller
    MaxConnections,   \* max_connections of L0: decisions are shed above it
    MaxOpen,          \* hybrid_503_connections: Node.js accepts no more
    RecentLimit,      \* the limit of /receipts/recent and /replay/recent
    MaxLines          \* bound: lines of the receipt file

\* parseHttpLimitConfig, parseL0LimitConfig: the limits a process starts with.
ValidLimits ==
    /\ {MaxActiveSockets, MaxConnections, MaxOpen} \subseteq Nat \ {0}
    /\ MaxConnections <= MaxOpen

ASSUME HttpAssumption ==
    /\ ValidLimits
    /\ RecentLimit \in Nat \ {0}
    /\ MaxLines \in Nat
    /\ Initial \in PolicyFiles
    /\ LineKinds \subseteq {"valid", "drift", "forged"}

Signals == {"SIGINT", "SIGTERM"}

VARIABLES
    sock,       \* "none", "open", "destroyed" (no close event yet) or "closed"
    tracked,    \* the sockets of the registry
    stale,      \* those without activity for idle_timeout_ms
    activeSockets, l0Active,   \* the two counters
    handler,    \* the request of each connection: where its handler is, and its route
    policy, policyHash,        \* the active policy and the hash reported for it
    activated,  \* policies whose activation was answered ACTIVE, and the first one
    allowed,    \* policies under which a decision was allowed
    history,    \* the receipt file
    replayed,   \* what the last /replay/recent found and reported
    shut,       \* the shutdown each signal started
    running     \* the process has not exited

connVars == <<sock, tracked, stale, activeSockets, l0Active>>
policyVars == <<policy, policyHash, activated>>
hvars == <<connVars, handler, policyVars, allowed, history, replayed, shut, running>>

Listening == running /\ \A g \in Signals : shut[g] = "no"

Open(s) == sock[s] = "open"

----------------------------------------------------------------------------
(* Connections.                                                            *)

\* Node.js accepts while fewer than maxConnections are open; the "connection"
\* handler then takes a socket slot and tracks the socket, or destroys it.
Connect(s) ==
    /\ Listening
    /\ sock[s] = "none"
    /\ Cardinality({x \in Sockets : sock[x] \in {"open", "destroyed"}}) < MaxOpen
    /\ IF activeSockets >= MaxActiveSockets
         THEN /\ sock' = [sock EXCEPT ![s] = "destroyed"]
              /\ UNCHANGED <<tracked, activeSockets, l0Active>>
         ELSE /\ sock' = [sock EXCEPT ![s] = "open"]
              /\ tracked' = tracked \cup {s}
              /\ activeSockets' = activeSockets + 1
              /\ l0Active' = l0Active + 1
    /\ UNCHANGED <<stale, handler, policyVars, allowed, history, replayed, shut, running>>

\* Mutant: the slot is given back where the socket is destroyed, and again here.
CloseTwice(s) ==
    /\ running
    /\ sock[s] = "destroyed"
    /\ sock' = [sock EXCEPT ![s] = "closed"]
    /\ tracked' = tracked \ {s}
    /\ stale' = stale \ {s}
    /\ activeSockets' = IF activeSockets > 0 THEN activeSockets - 1 ELSE 0
    /\ l0Active' = IF l0Active > 0 THEN l0Active - 1 ELSE 0
    /\ UNCHANGED <<handler, policyVars, allowed, history, replayed, shut, running>>

\* The "close" event: the registry's listener and recordL0Close, which gives
\* the slot back once.  A socket that was refused has neither.
Close(s) ==
    /\ running
    /\ sock[s] = "destroyed"
    /\ sock' = [sock EXCEPT ![s] = "closed"]
    /\ tracked' = tracked \ {s}
    /\ stale' = stale \ {s}
    /\ IF s \in tracked
         THEN /\ activeSockets' = IF activeSockets > 0 THEN activeSockets - 1 ELSE 0
              /\ l0Active' = IF l0Active > 0 THEN l0Active - 1 ELSE 0
         ELSE UNCHANGED <<activeSockets, l0Active>>
    /\ UNCHANGED <<handler, policyVars, allowed, history, replayed, shut, running>>

Destroyed(set) == [x \in Sockets |-> IF x \in set /\ Open(x) THEN "destroyed" ELSE sock[x]]

\* The client goes away, a request or its headers take too long ("timeout"), or
\* they are not HTTP ("clientError").
CutSocket(s) ==
    /\ running /\ Open(s)
    /\ sock' = Destroyed({s})
    /\ UNCHANGED <<tracked, stale, activeSockets, l0Active, handler, policyVars, allowed,
                   history, replayed, shut, running>>

\* Nothing arrives on a socket for idle_timeout_ms.  A request being worked on
\* is no activity: markActive and markRequest are called when bytes arrive.
GrowStale(s) ==
    /\ running /\ Open(s) /\ s \in tracked
    /\ stale' = stale \cup {s}
    /\ UNCHANGED <<sock, tracked, activeSockets, l0Active, handler, policyVars, allowed,
                   history, replayed, shut, running>>

\* destroyIdle, on the timer of the registry.
DestroyIdle ==
    /\ Listening
    /\ \E x \in stale : Open(x)
    /\ sock' = Destroyed(stale)
    /\ UNCHANGED <<tracked, stale, activeSockets, l0Active, handler, policyVars, allowed,
                   history, replayed, shut, running>>

\* response: nothing is sent on a destroyed socket; the connection is closed
\* once the bytes are out.  The handler of s is over.
Respond(s) ==
    /\ handler' = [handler EXCEPT ![s] = [pc |-> "done", route |-> "none", under |-> Initial]]
    /\ sock' = Destroyed({s})
    /\ UNCHANGED <<tracked, activeSockets, l0Active>>

----------------------------------------------------------------------------
(* Requests.                                                               *)

Routes == {"decide", "activate", "verify", "replay", "replayRecent"}

\* l0ShedDecision: the fixed 503, or the end of a socket that is gone already.
L0ShedDecision(s) == Respond(s)

\* A request's headers have arrived.  A decision is shed when there are too many
\* connections (l0ShedDecision); an unauthorised authority action is refused.
Request(s, route, authorised) ==
    /\ running /\ Open(s)
    /\ s \in tracked
    /\ handler[s].pc = "none"
    /\ stale' = stale \ {s}
    /\ IF route = "decide" /\ l0Active > MaxConnections THEN L0ShedDecision(s)
       ELSE IF route \in {"activate", "verify", "replayRecent"} /\ ~authorised THEN Respond(s)
         ELSE /\ handler' = [handler EXCEPT ![s] = [@ EXCEPT !.pc = "body", !.route = route]]
              /\ UNCHANGED <<sock, tracked, activeSockets, l0Active>>
    /\ UNCHANGED <<policyVars, allowed, history, replayed, shut, running>>

\* The body cannot be read: too large, not a strict JSON object, or its socket is
\* gone.  Every route answers, without having done anything.
BodyFails(s) ==
    /\ running /\ handler[s].pc = "body"
    /\ handler[s].route # "replayRecent"
    /\ Respond(s)
    /\ UNCHANGED <<stale, policyVars, allowed, history, replayed, shut, running>>

\* validatePolicyDocument: a signature is only looked at when there is one.
ValidatePolicyDocument(p) == p.schema /\ p.trust \in {"none", "valid"}

\* policyHash throws for a policy that has no canonical form (a number that is
\* not a safe integer).
Canonical(p) == p.integers

\* handlePolicyActivate after the body: the policy is assigned before its hash,
\* and a hash that throws answers REFUSED.
Activate(s, p) ==
    /\ running /\ Open(s)
    /\ handler[s].pc = "body" /\ handler[s].route = "activate"
    /\ IF ~ValidatePolicyDocument(p) THEN UNCHANGED policyVars
       ELSE /\ policy' = p
            /\ IF Canonical(p)
                 THEN policyHash' = p /\ activated' = activated \cup {p}
                 ELSE UNCHANGED <<policyHash, activated>>
    /\ Respond(s)
    /\ UNCHANGED <<stale, allowed, history, replayed, shut, running>>

\* What /readyz, /policy/current and the audit bundle say of the policy.
ReadinessSnapshot == [active |-> policy, policy_hash |-> policyHash]

\* Mutant: an ill-formed policy is sent to the workers all the same.
DecideHttpUnchecked(s) ==
    /\ running /\ Open(s)
    /\ handler[s].pc = "body" /\ handler[s].route = "decide"
    /\ handler' = [handler EXCEPT ![s] = [pc |-> "work", route |-> "decide", under |-> policy]]
    /\ UNCHANGED <<sock, tracked, activeSockets, l0Active>>
    /\ UNCHANGED <<stale, policyVars, allowed, history, replayed, shut, running>>

\* handleDecide after the body: the request is given the policy of this moment
\* (createRuntimeInput) and its canonical form goes to the worker pool; one that
\* has no canonical form is refused.
DecideHttp(s) ==
    /\ running /\ Open(s)
    /\ handler[s].pc = "body" /\ handler[s].route = "decide"
    /\ IF Canonical(policy)
         THEN /\ handler' = [handler EXCEPT ![s] =
                               [pc |-> "work", route |-> "decide", under |-> policy]]
              /\ UNCHANGED <<sock, tracked, activeSockets, l0Active>>
         ELSE Respond(s)
    /\ UNCHANGED <<stale, policyVars, allowed, history, replayed, shut, running>>

\* handleVerify answers at once; handleReplay refuses a bad signature, or sends
\* the receipt's own request to the worker pool.
Verify(s) ==
    /\ running /\ Open(s)
    /\ handler[s].pc = "body" /\ handler[s].route \in {"verify", "replay"}
    /\ Respond(s)
    /\ UNCHANGED <<stale, policyVars, allowed, history, replayed, shut, running>>

Replay(s) ==
    /\ running /\ Open(s)
    /\ handler[s].pc = "body" /\ handler[s].route = "replay"
    /\ handler' = [handler EXCEPT ![s].pc = "work"]
    /\ UNCHANGED <<connVars, policyVars, allowed, history, replayed, shut, running>>

\* The worker pool answers.  The response may find its socket destroyed.
Worked(s, decision) ==
    /\ running /\ handler[s].pc = "work"
    /\ allowed' = IF handler[s].route = "decide" /\ decision = "ALLOW"
                    THEN allowed \cup {handler[s].under} ELSE allowed
    /\ Respond(s)
    /\ UNCHANGED <<stale, policyVars, history, replayed, shut, running>>

----------------------------------------------------------------------------
(* The receipt history.  A line is "valid", "drift", "forged" or "torn": an *)
(* append under way, or one a crash cut.                                   *)

\* readRecentReceipts: from the newest line back, until enough were parsed; the
\* torn lines met on the way are reported, not counted.
Scanned(limit) ==
    {i \in DOMAIN history :
       Cardinality({j \in DOMAIN history : j > i /\ history[j] # "torn"}) < limit}

\* Mutant: torn lines are skipped without a word.
ReplayStatusSilent(limit) ==
    LET met == {history[i] : i \in Scanned(limit)}
    IN  IF "forged" \in met THEN "SIGNATURE_FAIL" ELSE IF "drift" \in met THEN "DRIFT" ELSE "PASS"

\* replayRecentReceipts and summarizeReplayStatus
ReplayStatus(limit) ==
    LET met == {history[i] : i \in Scanned(limit)}
    IN  CASE "forged" \in met -> "SIGNATURE_FAIL"
          [] "torn" \in met /\ "forged" \notin met -> "MALFORMED_RECEIPT"
          [] met \cap {"forged", "torn"} = {} /\ "drift" \in met -> "DRIFT"
          [] OTHER -> "PASS"

\* What a reader of the file would look at: its last lines.
Newest == {history[i] : i \in {j \in DOMAIN history : Len(history) - j < RecentLimit}}

\* /replay/recent: a body that cannot be read means the default limit.
ReplayRecent(s) ==
    /\ running
    /\ handler[s].pc = "body" /\ handler[s].route = "replayRecent"
    /\ replayed' = [status |-> ReplayStatus(RecentLimit), newest |-> Newest]
    /\ Respond(s)
    /\ UNCHANGED <<stale, policyVars, allowed, history, shut, running>>

\* /audit/bundle runs without an await: the newest receipts and their replay
\* are written out with the policy, the readiness and the metrics, and a bundle
\* that cannot be written is answered FAIL.
AuditBundle(s) ==
    /\ running /\ Open(s) /\ s \in tracked
    /\ handler[s].pc = "none"
    /\ stale' = stale \ {s}
    /\ replayed' = [status |-> ReplayStatus(RecentLimit), newest |-> Newest]
    /\ Respond(s)
    /\ UNCHANGED <<policyVars, allowed, history, shut, running>>

LineOpen == history # <<>> /\ history[Len(history)] = "torn"

\* The receipt queue appends a line, in two steps a reader may come between.
WriteBegins ==
    /\ running /\ Len(history) < MaxLines
    /\ ~LineOpen
    /\ history' = Append(history, "torn")
    /\ UNCHANGED <<connVars, handler, policyVars, allowed, replayed, shut, running>>

WriteEnds ==
    /\ running
    /\ LineOpen
    /\ \E kind \in LineKinds : history' = [history EXCEPT ![Len(history)] = kind]
    /\ UNCHANGED <<connVars, handler, policyVars, allowed, replayed, shut, running>>

----------------------------------------------------------------------------
(* Shutdown: SIGINT and SIGTERM each run shutdown(), concurrently.         *)

\* watchdog.stop and server.close, up to the drain of the receipt queue.
Signal(g) ==
    /\ running /\ shut[g] = "no"
    /\ shut' = [shut EXCEPT ![g] = "queue"]
    /\ UNCHANGED <<connVars, handler, policyVars, allowed, history, replayed, running>>

\* The receipt queue and the worker pool have shut down (each is bounded by a
\* deadline); socketRegistry.shutdown destroys every socket.
ShutSockets(g) ==
    /\ running /\ shut[g] = "queue"
    /\ shut' = [shut EXCEPT ![g] = "sockets"]
    /\ sock' = Destroyed(tracked)
    /\ UNCHANGED <<tracked, stale, activeSockets, l0Active, handler, policyVars, allowed,
                   history, replayed, running>>

\* Mutant: the registry waits for the sockets without a deadline.
ExitHWhenClosed(g) ==
    /\ running /\ shut[g] = "sockets"
    /\ tracked = {}
    /\ running' = FALSE
    /\ UNCHANGED <<connVars, handler, policyVars, allowed, history, replayed, shut>>

\* All are closed, or shutdown_grace_ms are over: process.exit.
ExitH(g) ==
    /\ running /\ shut[g] = "sockets"
    /\ running' = FALSE
    /\ UNCHANGED <<connVars, handler, policyVars, allowed, history, replayed, shut>>

----------------------------------------------------------------------------
InitH ==
    /\ sock = [s \in Sockets |-> "none"]
    /\ tracked = {} /\ stale = {}
    /\ activeSockets = 0 /\ l0Active = 0
    /\ handler = [s \in Sockets |-> [pc |-> "none", route |-> "none", under |-> Initial]]
    /\ policy = Initial /\ policyHash = Initial /\ activated = {Initial}
    /\ allowed = {}
    /\ history = <<>>
    /\ replayed = [status |-> "PASS", newest |-> {}]
    /\ shut = [g \in Signals |-> "no"]
    /\ running = TRUE

SocketStep(s) ==
    \/ Connect(s) \/ Close(s) \/ CutSocket(s) \/ GrowStale(s)
    \/ \E route \in Routes, authorised \in BOOLEAN : Request(s, route, authorised)
    \/ BodyFails(s) \/ DecideHttp(s) \/ Verify(s) \/ Replay(s) \/ ReplayRecent(s)
    \/ AuditBundle(s)
    \/ \E p \in PolicyFiles : Activate(s, p)
    \/ \E decision \in {"ALLOW", "REFUSE"} : Worked(s, decision)

ShutdownStep(g) == ShutSockets(g) \/ ExitH(g)

NextH ==
    \/ \E s \in Sockets : SocketStep(s)
    \/ DestroyIdle \/ WriteBegins \/ WriteEnds
    \/ \E g \in Signals : Signal(g) \/ ShutdownStep(g)

\* The awaits of shutdown() are timers; nothing is assumed of clients, of
\* sockets or of the worker pool.
SpecH == InitH /\ [][NextH]_hvars /\ \A g \in Signals : WF_hvars(ShutdownStep(g))

----------------------------------------------------------------------------
(* Properties.                                                             *)

\* The two counters and the registry agree in every state: each connection
\* that was let in is counted once until its close event, however many of the
\* idle timer, a timeout, the client, the response and two shutdowns destroyed
\* it.  A counter that drifts would end in a sidecar that sheds everything.
SocketsBalanced ==
    /\ activeSockets = Cardinality(tracked)
    /\ l0Active = Cardinality(tracked)
    /\ activeSockets <= MaxActiveSockets
    /\ \A s \in Sockets : Open(s) => s \in tracked

\* No decision is allowed under a policy whose activation was refused, even
\* though handlePolicyActivate may leave such a policy active.
AllowsUnderActivatedPolicy == allowed \subseteq activated

\* /replay/recent says PASS only if the newest receipts all replay and nothing
\* between them is torn, also when it reads the file while a line is written.
PassMeansWhole ==
    replayed.status = "PASS" => replayed.newest \subseteq {"valid"}

\* A signal ends the process, whatever handlers and sockets are still there.
ShutdownExits == \A g \in Signals : shut[g] # "no" ~> ~running

\* The policy hash /readyz reports is that of the active policy.
ReadyzReportsPolicy == ReadinessSnapshot.policy_hash = ReadinessSnapshot.active
============================================================================
