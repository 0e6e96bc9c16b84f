------------------------- MODULE SidecarHttpProofs --------------------------
(***************************************************************************)
(* Proofs about SidecarHttp for any connections, policies, limits and      *)
(* receipt files.                                                          *)
(***************************************************************************)
EXTENDS SidecarHttp, FiniteSetTheorems, SequenceTheorems, TLAPS

(***************************************************************************)
(* The counters.                                                           *)
(***************************************************************************)
SockType == sock \in [Sockets -> {"none", "open", "destroyed", "closed"}]

\* The registry holds finitely many sockets, each between its connection and
\* its close event, and every open one.
Registry ==
    /\ tracked \subseteq Sockets /\ IsFiniteSet(tracked)
    /\ \A s \in tracked : sock[s] \in {"open", "destroyed"}

SocketInv == SockType /\ Registry /\ SocketsBalanced

\* A step that destroys some open sockets, or none, and nothing else of the
\* connections.
DestroyStep ==
    /\ sock' \in [Sockets -> {"none", "open", "destroyed", "closed"}]
    /\ \A s \in Sockets : sock'[s] = sock[s] \/ (sock[s] = "open" /\ sock'[s] = "destroyed")
    /\ tracked' = tracked /\ activeSockets' = activeSockets /\ l0Active' = l0Active

LEMMA DestroyKeeps == ASSUME SocketInv, DestroyStep PROVE SocketInv'
<1>1. SockType'
  BY DEF SocketInv, SockType, DestroyStep
<1>2. Registry'
  BY DEF SocketInv, Registry, DestroyStep
<1>3. SocketsBalanced'
  BY DEF SocketInv, SocketsBalanced, Open, DestroyStep
<1> QED BY <1>1, <1>2, <1>3 DEF SocketInv

LEMMA DestroyedIs ==
    ASSUME SocketInv, NEW set, sock' = Destroyed(set), tracked' = tracked,
           activeSockets' = activeSockets, l0Active' = l0Active
    PROVE  DestroyStep
  BY DEF SocketInv, SockType, Destroyed, Open, DestroyStep

LEMMA ConnectKeeps == ASSUME SocketInv, NEW s \in Sockets, Connect(s) PROVE SocketInv'
<1>1. sock[s] = "none" /\ s \notin tracked
  BY DEF Connect, SocketInv, Registry
<1>2. MaxActiveSockets \in Nat /\ activeSockets \in Nat
  BY HttpAssumption, FS_CardinalityType DEF ValidLimits, SocketInv, Registry, SocketsBalanced
<1>3. CASE activeSockets >= MaxActiveSockets
  <2>1. /\ sock' = [sock EXCEPT ![s] = "destroyed"] /\ tracked' = tracked
        /\ activeSockets' = activeSockets /\ l0Active' = l0Active
    BY <1>3 DEF Connect
  <2>2. SockType' /\ Registry'
    BY <1>1, <2>1 DEF SocketInv, SockType, Registry
  <2>3. SocketsBalanced'
    BY <2>1 DEF SocketInv, SockType, SocketsBalanced, Open
  <2> QED BY <2>2, <2>3 DEF SocketInv
<1>4. CASE ~(activeSockets >= MaxActiveSockets)
  <2>1. /\ sock' = [sock EXCEPT ![s] = "open"] /\ tracked' = tracked \cup {s}
        /\ activeSockets' = activeSockets + 1 /\ l0Active' = l0Active + 1
    BY <1>4 DEF Connect
  <2>2. IsFiniteSet(tracked') /\ Cardinality(tracked') = Cardinality(tracked) + 1
    BY <1>1, <2>1, FS_AddElement DEF SocketInv, Registry
  <2>3. SockType' /\ Registry'
    BY <1>1, <2>1, <2>2 DEF SocketInv, SockType, Registry
  <2>4. activeSockets' = Cardinality(tracked') /\ l0Active' = Cardinality(tracked')
    BY <2>1, <2>2 DEF SocketInv, SocketsBalanced
  <2>5. activeSockets' <= MaxActiveSockets
    BY <1>2, <1>4, <2>1
  <2>6. \A x \in Sockets : Open(x)' => x \in tracked'
    BY <2>1 DEF SocketInv, SockType, SocketsBalanced, Open
  <2> QED BY <2>3, <2>4, <2>5, <2>6 DEF SocketInv, SocketsBalanced
<1> QED BY <1>3, <1>4

LEMMA CloseKeeps == ASSUME SocketInv, NEW s \in Sockets, Close(s) PROVE SocketInv'
<1>1. /\ sock[s] = "destroyed" /\ sock' = [sock EXCEPT ![s] = "closed"] /\ tracked' = tracked \ {s}
  BY DEF Close
<1>2. /\ IsFiniteSet(tracked') /\ Cardinality(tracked) \in Nat
      /\ Cardinality(tracked') = IF s \in tracked THEN Cardinality(tracked) - 1 ELSE Cardinality(tracked)
      /\ Cardinality(tracked') \in Nat
  BY <1>1, FS_RemoveElement, FS_CardinalityType DEF SocketInv, Registry
<1>3. SockType' /\ Registry'
  BY <1>1, <1>2 DEF SocketInv, SockType, Registry
<1>4. activeSockets = Cardinality(tracked) /\ l0Active = Cardinality(tracked) /\ activeSockets <= MaxActiveSockets
  BY DEF SocketInv, SocketsBalanced
<1>5. activeSockets' = Cardinality(tracked') /\ l0Active' = Cardinality(tracked')
  <2>1. CASE s \in tracked
    <3>1. /\ activeSockets' = IF activeSockets > 0 THEN activeSockets - 1 ELSE 0
          /\ l0Active' = IF l0Active > 0 THEN l0Active - 1 ELSE 0
      BY <2>1 DEF Close
    <3> QED BY <1>2, <1>4, <2>1, <3>1
  <2>2. CASE s \notin tracked
    BY <1>2, <1>4, <2>2 DEF Close
  <2> QED BY <2>1, <2>2
<1>6. activeSockets' <= MaxActiveSockets
  BY <1>2, <1>4, <1>5, HttpAssumption DEF ValidLimits
<1>7. \A x \in Sockets : Open(x)' => x \in tracked'
  BY <1>1 DEF SocketInv, SockType, SocketsBalanced, Open
<1> QED BY <1>3, <1>5, <1>6, <1>7 DEF SocketInv, SocketsBalanced

LEMMA StepSocketInv == SocketInv /\ [NextH]_hvars => SocketInv'
<1> SUFFICES ASSUME SocketInv, [NextH]_hvars PROVE SocketInv'
  OBVIOUS
<1>1. ASSUME NEW s \in Sockets, Connect(s) PROVE SocketInv'
  BY <1>1, ConnectKeeps
<1>2. ASSUME NEW s \in Sockets, Close(s) PROVE SocketInv'
  BY <1>2, CloseKeeps
<1>3. ASSUME NEW s \in Sockets, Respond(s) PROVE SocketInv'
  BY <1>3, DestroyedIs, DestroyKeeps DEF Respond
<1>4. ASSUME sock' = sock, tracked' = tracked, activeSockets' = activeSockets, l0Active' = l0Active
      PROVE  SocketInv'
  <2>1. DestroyStep
    BY <1>4 DEF DestroyStep, SocketInv, SockType
  <2> QED BY <2>1, DestroyKeeps
<1>5. ASSUME NEW s \in Sockets, CutSocket(s) PROVE SocketInv'
  BY <1>5, DestroyedIs, DestroyKeeps DEF CutSocket
<1>6. ASSUME NEW s \in Sockets, NEW route \in Routes, NEW authorised \in BOOLEAN, Request(s, route, authorised)
      PROVE  SocketInv'
  BY <1>3, <1>4, <1>6 DEF Request, L0ShedDecision
<1>7. ASSUME NEW s \in Sockets, BodyFails(s) \/ DecideHttp(s) \/ Verify(s) \/ Replay(s) PROVE SocketInv'
  BY <1>3, <1>4, <1>7 DEF BodyFails, DecideHttp, Verify, Replay, connVars
<1>8. ASSUME NEW s \in Sockets, ReplayRecent(s) \/ AuditBundle(s) PROVE SocketInv'
  BY <1>3, <1>8 DEF ReplayRecent, AuditBundle
<1>9. ASSUME NEW s \in Sockets, NEW p \in PolicyFiles, Activate(s, p) PROVE SocketInv'
  BY <1>3, <1>9 DEF Activate
<1>10. ASSUME NEW s \in Sockets, NEW d \in {"ALLOW", "REFUSE"}, Worked(s, d) PROVE SocketInv'
  BY <1>3, <1>10 DEF Worked
<1>11. ASSUME DestroyIdle \/ \E g \in Signals : ShutSockets(g) PROVE SocketInv'
  <2>1. DestroyStep
    BY <1>11 DEF DestroyIdle, ShutSockets, Destroyed, Open, DestroyStep, SocketInv, SockType
  <2> QED BY <2>1, DestroyKeeps
<1>12. ASSUME \/ \E s \in Sockets : GrowStale(s)
              \/ WriteBegins \/ WriteEnds \/ \E g \in Signals : Signal(g) \/ ExitH(g)
              \/ UNCHANGED hvars
       PROVE  SocketInv'
  <2>1. sock' = sock /\ tracked' = tracked /\ activeSockets' = activeSockets /\ l0Active' = l0Active
    BY <1>12 DEF GrowStale, WriteBegins, WriteEnds, Signal, ExitH, hvars, connVars
  <2> QED BY <1>4, <2>1
<1> QED BY <1>1, <1>2, <1>5, <1>6, <1>7, <1>8, <1>9, <1>10, <1>11, <1>12 DEF NextH, SocketStep, ShutdownStep

\* The admission controller's count, L0's count and the registry agree in every
\* state, for any number of connections and any limits.
THEOREM SocketsCounted == SpecH => []SocketsBalanced
<1>1. InitH => SocketInv
  <2> SUFFICES ASSUME InitH PROVE SocketInv
    OBVIOUS
  <2>1. SockType /\ Registry
    BY FS_EmptySet DEF InitH, SockType, Registry
  <2>2. SocketsBalanced
    BY FS_EmptySet, HttpAssumption DEF InitH, SocketsBalanced, ValidLimits, Open
  <2> QED BY <2>1, <2>2 DEF SocketInv
<1>2. SocketInv => SocketsBalanced
  BY DEF SocketInv
<1> QED BY <1>1, <1>2, StepSocketInv, PTL DEF SpecH
-----------------------------------------------------------------------------
(***************************************************************************)
(* Decisions and policies.                                                 *)
(***************************************************************************)
HandlerType ==
    handler \in [Sockets -> [pc : {"none", "body", "work", "done"}, route : Routes \cup {"none"}, under : PolicyFiles]]

\* The active policy was activated unless it has no canonical form, and a
\* decision being worked on is under a policy that was.
PolicyInv ==
    /\ HandlerType /\ policy \in PolicyFiles
    /\ Canonical(policy) => policy \in activated
    /\ \A s \in Sockets : (handler[s].pc = "work" /\ handler[s].route = "decide") => handler[s].under \in activated
    /\ AllowsUnderActivatedPolicy

\* A step of the handler of s that does not start the work on a decision.
HandlerStep(s) ==
    /\ HandlerType'
    /\ \A x \in Sockets : x # s => handler'[x] = handler[x]
    /\ ~(handler'[s].pc = "work" /\ handler'[s].route = "decide")

LEMMA RespondIs == ASSUME PolicyInv, NEW s \in Sockets, Respond(s) PROVE HandlerStep(s)
<1>1. handler' = [handler EXCEPT ![s] = [pc |-> "done", route |-> "none", under |-> Initial]]
  BY DEF Respond
<1>2. [pc |-> "done", route |-> "none", under |-> Initial] \in
        [pc : {"none", "body", "work", "done"}, route : Routes \cup {"none"}, under : PolicyFiles]
  BY HttpAssumption
<1> QED BY <1>1, <1>2 DEF PolicyInv, HandlerType, HandlerStep

LEMMA HandlerKeeps ==
    ASSUME PolicyInv, NEW s \in Sockets, HandlerStep(s), allowed' \subseteq activated',
           activated \subseteq activated', policy' \in PolicyFiles,
           Canonical(policy') => policy' \in activated'
    PROVE  PolicyInv'
<1>1. \A x \in Sockets : (handler'[x].pc = "work" /\ handler'[x].route = "decide") => handler'[x].under \in activated'
  BY DEF PolicyInv, HandlerStep
<1> QED BY <1>1 DEF PolicyInv, HandlerStep, AllowsUnderActivatedPolicy, Canonical

LEMMA StepPolicyInv == PolicyInv /\ [NextH]_hvars => PolicyInv'
<1> SUFFICES ASSUME PolicyInv, [NextH]_hvars PROVE PolicyInv'
  OBVIOUS
<1>1. ASSUME NEW s \in Sockets, Respond(s), allowed' = allowed, UNCHANGED policyVars PROVE PolicyInv'
  <2>1. HandlerStep(s)
    BY <1>1, RespondIs
  <2> QED BY <1>1, <2>1, HandlerKeeps DEF policyVars, PolicyInv, AllowsUnderActivatedPolicy
<1>2. ASSUME handler' = handler, allowed' = allowed, UNCHANGED policyVars PROVE PolicyInv'
  BY <1>2 DEF policyVars, PolicyInv, HandlerType, AllowsUnderActivatedPolicy
<1>3. ASSUME NEW s \in Sockets, NEW route \in Routes, NEW authorised \in BOOLEAN, Request(s, route, authorised)
      PROVE  PolicyInv'
  <2>1. allowed' = allowed /\ UNCHANGED policyVars
    BY <1>3 DEF Request
  <2>2. CASE Respond(s)
    BY <1>1, <2>1, <2>2
  <2>3. CASE handler' = [handler EXCEPT ![s] = [@ EXCEPT !.pc = "body", !.route = route]]
    <3>1. HandlerStep(s)
      BY <2>3 DEF HandlerStep, PolicyInv, HandlerType
    <3> QED BY <2>1, <3>1, HandlerKeeps DEF policyVars, PolicyInv, AllowsUnderActivatedPolicy
  <2> QED BY <1>3, <2>2, <2>3 DEF Request, L0ShedDecision
<1>4. ASSUME NEW s \in Sockets, DecideHttp(s) PROVE PolicyInv'
  <2>1. allowed' = allowed /\ UNCHANGED policyVars
    BY <1>4 DEF DecideHttp
  <2>2. CASE Canonical(policy)
    <3>1. handler' = [handler EXCEPT ![s] = [pc |-> "work", route |-> "decide", under |-> policy]]
      BY <1>4, <2>2 DEF DecideHttp
    <3>2. policy \in activated /\ policy \in PolicyFiles
      BY <2>2 DEF PolicyInv
    <3>3. HandlerType'
      BY <3>1, <3>2 DEF PolicyInv, HandlerType, Routes
    <3>4. \A x \in Sockets : (handler'[x].pc = "work" /\ handler'[x].route = "decide") => handler'[x].under \in activated
      BY <3>1, <3>2 DEF PolicyInv, HandlerType
    <3> QED BY <2>1, <3>3, <3>4 DEF policyVars, PolicyInv, AllowsUnderActivatedPolicy
  <2>3. CASE ~Canonical(policy)
    BY <1>1, <1>4, <2>1, <2>3 DEF DecideHttp
  <2> QED BY <2>2, <2>3
<1>5. ASSUME NEW s \in Sockets, Replay(s) PROVE PolicyInv'
  <2>1. /\ allowed' = allowed /\ UNCHANGED policyVars /\ handler[s].route = "replay"
        /\ handler' = [handler EXCEPT ![s].pc = "work"]
    BY <1>5 DEF Replay
  <2>2. HandlerStep(s)
    BY <2>1 DEF HandlerStep, PolicyInv, HandlerType
  <2> QED BY <2>1, <2>2, HandlerKeeps DEF policyVars, PolicyInv, AllowsUnderActivatedPolicy
<1>6. ASSUME NEW s \in Sockets, BodyFails(s) \/ Verify(s) \/ ReplayRecent(s) \/ AuditBundle(s) PROVE PolicyInv'
  BY <1>1, <1>6 DEF BodyFails, Verify, ReplayRecent, AuditBundle
<1>7. ASSUME NEW s \in Sockets, NEW p \in PolicyFiles, Activate(s, p) PROVE PolicyInv'
  <2>1. HandlerStep(s) /\ allowed' = allowed
    BY <1>7, RespondIs DEF Activate
  <2>2. /\ activated \subseteq activated' /\ policy' \in PolicyFiles
        /\ Canonical(policy') => policy' \in activated'
    BY <1>7 DEF Activate, policyVars, PolicyInv
  <2> QED BY <2>1, <2>2, HandlerKeeps DEF PolicyInv, AllowsUnderActivatedPolicy
<1>8. ASSUME NEW s \in Sockets, NEW d \in {"ALLOW", "REFUSE"}, Worked(s, d) PROVE PolicyInv'
  <2>1. HandlerStep(s) /\ UNCHANGED policyVars
    BY <1>8, RespondIs DEF Worked
  <2>2. allowed' \subseteq activated
    BY <1>8 DEF Worked, PolicyInv, AllowsUnderActivatedPolicy
  <2> QED BY <2>1, <2>2, HandlerKeeps DEF policyVars, PolicyInv
<1>9. ASSUME \/ \E s \in Sockets : Connect(s) \/ Close(s) \/ CutSocket(s) \/ GrowStale(s)
             \/ DestroyIdle \/ WriteBegins \/ WriteEnds
             \/ \E g \in Signals : Signal(g) \/ ShutSockets(g) \/ ExitH(g)
             \/ UNCHANGED hvars
      PROVE  PolicyInv'
  <2>1. handler' = handler /\ allowed' = allowed /\ UNCHANGED policyVars
    BY <1>9 DEF Connect, Close, CutSocket, GrowStale, DestroyIdle, WriteBegins, WriteEnds, Signal,
                ShutSockets, ExitH, hvars, policyVars
  <2> QED BY <1>2, <2>1
<1> QED BY <1>3, <1>4, <1>5, <1>6, <1>7, <1>8, <1>9 DEF NextH, SocketStep, ShutdownStep

\* No decision is allowed under a policy whose activation was not answered
\* ACTIVE, for any policy files and any interleaving of activations and
\* decisions under way.
THEOREM AllowsActivated == SpecH => []AllowsUnderActivatedPolicy
<1>1. InitH => PolicyInv
  BY HttpAssumption DEF InitH, PolicyInv, HandlerType, AllowsUnderActivatedPolicy
<1>2. PolicyInv => AllowsUnderActivatedPolicy
  BY DEF PolicyInv
<1> QED BY <1>1, <1>2, StepPolicyInv, PTL DEF SpecH
-----------------------------------------------------------------------------
(***************************************************************************)
(* The receipt history.                                                    *)
(***************************************************************************)
HistoryType == history \in Seq({"valid", "drift", "forged", "torn"})

HistoryInv == HistoryType /\ PassMeansWhole

\* The scan goes back at least as far as the newest lines: fewer than limit of
\* those after one of them can have been parsed.
LEMMA NewestScanned == ASSUME HistoryType PROVE Newest \subseteq {history[i] : i \in Scanned(RecentLimit)}
<1> SUFFICES ASSUME NEW i \in DOMAIN history, Len(history) - i < RecentLimit
             PROVE  i \in Scanned(RecentLimit)
  BY DEF Newest
<1> DEFINE later == {j \in DOMAIN history : j > i /\ history[j] # "torn"}
<1>1. Len(history) \in Nat /\ i \in Nat /\ i <= Len(history) /\ DOMAIN history = 1..Len(history)
  BY DEF HistoryType
<1>2. later \subseteq (i + 1)..Len(history)
  BY <1>1
<1>3. /\ IsFiniteSet((i + 1)..Len(history))
      /\ Cardinality((i + 1)..Len(history)) = Len(history) - i
  <2>1. /\ IsFiniteSet((i + 1)..Len(history))
        /\ Cardinality((i + 1)..Len(history)) =
              IF i + 1 > Len(history) THEN 0 ELSE Len(history) - (i + 1) + 1
    <3>1. i + 1 \in Int /\ Len(history) \in Int
      BY <1>1
    <3> QED BY <3>1, FS_Interval
  <2> QED BY <1>1, <2>1
<1>4. IsFiniteSet(later) /\ Cardinality(later) <= Len(history) - i
  BY <1>2, <1>3, FS_Subset
<1>5. Cardinality(later) \in Nat
  BY <1>4, FS_CardinalityType
<1> HIDE DEF later
<1>6. Cardinality(later) < RecentLimit
  BY <1>1, <1>4, <1>5, HttpAssumption
<1> QED BY <1>6 DEF Scanned, later

\* So a replay that says PASS has met nothing but valid receipts among them.
LEMMA PassIsWhole ==
    ASSUME HistoryType, ReplayStatus(RecentLimit) = "PASS"
    PROVE  Newest \subseteq {"valid"}
<1> DEFINE met == {history[i] : i \in Scanned(RecentLimit)}
<1>1. met \subseteq {"valid", "drift", "forged", "torn"}
  <2>1. \A i \in DOMAIN history : history[i] \in {"valid", "drift", "forged", "torn"}
    BY DEF HistoryType
  <2> QED BY <2>1 DEF Scanned
<1>2. ReplayStatus(RecentLimit) =
        CASE "forged" \in met -> "SIGNATURE_FAIL"
          [] "torn" \in met /\ "forged" \notin met -> "MALFORMED_RECEIPT"
          [] met \cap {"forged", "torn"} = {} /\ "drift" \in met -> "DRIFT"
          [] OTHER -> "PASS"
  BY DEF ReplayStatus
<1>3. Newest \subseteq met
  BY NewestScanned
<1> HIDE DEF met
<1>4. "forged" \notin met
  BY <1>2
<1>5. "torn" \notin met
  BY <1>2, <1>4
<1>6. "drift" \notin met
  BY <1>2, <1>4, <1>5
<1> QED BY <1>1, <1>3, <1>4, <1>5, <1>6

LEMMA StepHistoryInv == HistoryInv /\ [NextH]_hvars => HistoryInv'
<1> SUFFICES ASSUME HistoryInv, [NextH]_hvars PROVE HistoryInv'
  OBVIOUS
<1>1. ASSUME NEW s \in Sockets, ReplayRecent(s) \/ AuditBundle(s) PROVE HistoryInv'
  <2>1. history' = history /\ replayed' = [status |-> ReplayStatus(RecentLimit), newest |-> Newest]
    BY <1>1 DEF ReplayRecent, AuditBundle
  <2>2. replayed'.status = "PASS" => replayed'.newest \subseteq {"valid"}
    BY <2>1, PassIsWhole DEF HistoryInv
  <2> QED BY <2>1, <2>2 DEF HistoryInv, HistoryType, PassMeansWhole
<1>2. ASSUME WriteBegins PROVE HistoryInv'
  <2>1. history' = Append(history, "torn") /\ replayed' = replayed
    BY <1>2 DEF WriteBegins
  <2>2. HistoryType'
    BY <2>1 DEF HistoryInv, HistoryType
  <2> QED BY <2>1, <2>2 DEF HistoryInv, PassMeansWhole
<1>3. ASSUME WriteEnds PROVE HistoryInv'
  <2>1. PICK kind \in LineKinds : history' = [history EXCEPT ![Len(history)] = kind]
    BY <1>3 DEF WriteEnds
  <2>2. kind \in {"valid", "drift", "forged"}
    BY HttpAssumption
  <2>3. HistoryType'
    <3> DEFINE L == {"valid", "drift", "forged", "torn"}
    <3>1. history \in Seq(L) /\ kind \in L /\ history # <<>>
      BY <1>3, <2>2 DEF WriteEnds, LineOpen, HistoryInv, HistoryType
    <3> HIDE DEF L
    <3>2. Len(history) \in 1..Len(history)
      BY <3>1
    <3>3. [history EXCEPT ![Len(history)] = kind] \in Seq(L)
      BY <3>1, <3>2, ExceptSeq
    <3> QED BY <2>1, <3>3 DEF HistoryType, L
  <2> QED BY <1>3, <2>3 DEF WriteEnds, HistoryInv, PassMeansWhole
<1>4. ASSUME history' = history, replayed' = replayed PROVE HistoryInv'
  BY <1>4 DEF HistoryInv, HistoryType, PassMeansWhole
<1>5. ASSUME NEW s \in Sockets,
             \/ Connect(s) \/ Close(s) \/ CutSocket(s) \/ GrowStale(s) \/ BodyFails(s)
             \/ DecideHttp(s) \/ Verify(s) \/ Replay(s)
             \/ \E route \in Routes, authorised \in BOOLEAN : Request(s, route, authorised)
             \/ \E p \in PolicyFiles : Activate(s, p)
             \/ \E d \in {"ALLOW", "REFUSE"} : Worked(s, d)
      PROVE  HistoryInv'
  <2>1. history' = history /\ replayed' = replayed
    BY <1>5 DEF Connect, Close, CutSocket, GrowStale, BodyFails, DecideHttp, Verify, Replay, Request,
                Activate, Worked
  <2> QED BY <1>4, <2>1
<1>6. ASSUME DestroyIdle \/ (\E g \in Signals : Signal(g) \/ ShutSockets(g) \/ ExitH(g)) \/ UNCHANGED hvars
      PROVE  HistoryInv'
  <2>1. history' = history /\ replayed' = replayed
    BY <1>6 DEF DestroyIdle, Signal, ShutSockets, ExitH, hvars
  <2> QED BY <1>4, <2>1
<1> QED BY <1>1, <1>2, <1>3, <1>5, <1>6 DEF NextH, SocketStep, ShutdownStep

\* /replay/recent and the audit bundle say PASS only of newest receipts that are
\* all whole and replay, for any limit and any file, one that is being written
\* included.
THEOREM PassWhole == SpecH => []PassMeansWhole
<1>1. InitH => HistoryInv
  BY DEF InitH, HistoryInv, HistoryType, PassMeansWhole
<1>2. HistoryInv => PassMeansWhole
  BY DEF HistoryInv
<1> QED BY <1>1, <1>2, StepHistoryInv, PTL DEF SpecH
============================================================================
