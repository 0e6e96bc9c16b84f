------------------------- MODULE ReceiptQueueProofs -------------------------
(***************************************************************************)
(* Proofs about ReceiptQueue for every set of receipts, every limit and    *)
(* every number of restarts.                                               *)
(***************************************************************************)
EXTENDS ReceiptQueue, SequenceTheorems, TLAPS

\* What splice(0, max_batch_size) does to a queue: two sequences, the first
\* within the batch limit, that together are the queue.
LEMMA SpliceLemma ==
    ASSUME NEW q \in Seq(Receipts)
    PROVE  /\ Taken(q) \in Seq(Receipts) /\ Rest(q) \in Seq(Receipts)
           /\ Len(Taken(q)) <= MaxBatchSize
           /\ Len(Rest(q)) <= Len(q)
           /\ q # <<>> => Len(Rest(q)) < Len(q)
           /\ Taken(q) \o Rest(q) = q
<1> DEFINE n == BatchCount(q)
<1>1. /\ n \in 0..Len(q)
      /\ n <= MaxBatchSize
      /\ q # <<>> => n > 0
      /\ Len(q) \in Nat
  BY ConfigAssumption DEF BatchCount
<1>2. \A i \in 1..Len(q) : q[i] \in Receipts
  OBVIOUS
<1>3. /\ SubSeq(q, 1, n) \in Seq(Receipts)
      /\ Len(SubSeq(q, 1, n)) = n
  BY <1>1, <1>2, SubSeqProperties
<1>4. /\ SubSeq(q, n + 1, Len(q)) \in Seq(Receipts)
      /\ Len(SubSeq(q, n + 1, Len(q))) = Len(q) - n
  BY <1>1, <1>2, SubSeqProperties
<1>5. SubSeq(q, 1, n) \o SubSeq(q, n + 1, Len(q)) = SubSeq(q, 1, Len(q))
  <2>1. /\ 1 \in 1..(Len(q) + 1) /\ n \in (1 - 1)..Len(q) /\ Len(q) \in n..Len(q)
    BY <1>1
  <2>2. QED BY <2>1, ConcatAdjacentSubSeq
<1>6. SubSeq(q, 1, Len(q)) = q
  BY SubSeqFull
<1>7. /\ Taken(q) = SubSeq(q, 1, n)
      /\ Rest(q) = SubSeq(q, n + 1, Len(q))
  BY DEF Taken, Rest
<1> HIDE DEF n
<1>8. Taken(q) \o Rest(q) = q
  BY <1>5, <1>6, <1>7
<1>9. /\ Len(Taken(q)) = n
      /\ Len(Rest(q)) = Len(q) - n
  BY <1>3, <1>4, <1>7
<1>10. Taken(q) \in Seq(Receipts) /\ Rest(q) \in Seq(Receipts)
  BY <1>3, <1>4, <1>7
<1>11. /\ Len(Taken(q)) <= MaxBatchSize
       /\ Len(Rest(q)) <= Len(q)
       /\ q # <<>> => Len(Rest(q)) < Len(q)
  <2>1. Len(q) \in Nat /\ n \in Nat BY <1>1
  <2>2. QED BY <1>1, <1>9, <2>1
<1>12. QED BY <1>8, <1>10, <1>11
-----------------------------------------------------------------------------
(* The inductive invariant.                                                *)

\* A batch is out exactly while an append races its timeout, and it is never
\* empty; an append that lost the race leaves an empty queue failed closed.
AppendState ==
    /\ stage # "writing" => batch = <<>>
    /\ stage = "writing" => batch # <<>>
    /\ late # <<>> => failClosed /\ queue = <<>> /\ stage # "writing"

\* How far shutdown has come, and what that says of the queue.
DrainState ==
    /\ closed <=> drain # "none"
    /\ drain = "first" => stage = "writing"
    /\ drain = "done" /\ ~failClosed => queue = <<>> /\ stage = "idle"

IInv == TypeOK /\ AppendState /\ DrainState /\ NoStranded /\ PendingTracked
-----------------------------------------------------------------------------
(* Type correctness, action by action.                                     *)

\* The whole lines of a sequence of receipts are lines.
LEMMA LinesType ==
    ASSUME NEW s \in Seq(Receipts)
    PROVE  Lines(s) \in Seq(Line)
  BY DEF Lines, Line

\* Whatever a cut-short append leaves is a sequence of lines.
LEMMA CutShortType ==
    ASSUME NEW s \in Seq(Receipts), NEW piece \in CutShort(s)
    PROVE  piece \in Seq(Line)
<1>1. \A k \in 0..Len(s) : SubSeq(s, 1, k) \in Seq(Receipts)
  BY SubSeqProperties
<1>2. CASE \E k \in 0..Len(s) : piece = Lines(SubSeq(s, 1, k))
  BY <1>1, <1>2, LinesType
<1>3. CASE \E k \in 1..Len(s) :
             piece = Append(Lines(SubSeq(s, 1, k - 1)),
                            [receipt |-> s[k], whole |-> FALSE])
  <2>1. PICK k \in 1..Len(s) :
             piece = Append(Lines(SubSeq(s, 1, k - 1)),
                            [receipt |-> s[k], whole |-> FALSE])
    BY <1>3
  <2>2. Lines(SubSeq(s, 1, k - 1)) \in Seq(Line)
    <3>1. k - 1 \in 0..Len(s)
      OBVIOUS
    <3>2. SubSeq(s, 1, k - 1) \in Seq(Receipts)
      BY <1>1, <3>1
    <3>3. QED BY <3>2, LinesType
  <2>3. [receipt |-> s[k], whole |-> FALSE] \in Line
    BY DEF Line
  <2>4. QED BY <2>1, <2>2, <2>3, AppendProperties
<1>4. \/ \E k \in 0..Len(s) : piece = Lines(SubSeq(s, 1, k))
      \/ \E k \in 1..Len(s) :
             piece = Append(Lines(SubSeq(s, 1, k - 1)),
                            [receipt |-> s[k], whole |-> FALSE])
  BY Zenon DEF CutShort
<1>5. QED BY <1>2, <1>3, <1>4

\* Settling a set of promises keeps the outcomes well typed.
LEMMA SettleType ==
    ASSUME TypeOK, NEW s, NEW result \in Outcomes, Settle(s, result)
    PROVE  outcome' \in [Receipts -> Outcomes]
  BY DEF TypeOK, Settle

\* What Flush does, in the terms the invariant is stated in.
LEMMA FlushLemma ==
    ASSUME NEW q \in Seq(Receipts), NEW bytes, Flush(q, bytes),
           q # <<>>, Len(q) <= MaxItems + 1
    PROVE  /\ queue' \in Seq(Receipts) /\ Len(queue') <= MaxItems
           /\ batch' \in Seq(Receipts) /\ Len(batch') <= MaxBatchSize
           /\ batch' # <<>>
           /\ batch' \o queue' = q
           /\ timer' = FALSE
           /\ stage' = "writing"
<1>1. /\ Taken(q) \in Seq(Receipts) /\ Rest(q) \in Seq(Receipts)
      /\ Len(Taken(q)) <= MaxBatchSize
      /\ Len(Rest(q)) < Len(q)
      /\ Taken(q) \o Rest(q) = q
  BY SpliceLemma
<1>2. /\ batch' = Taken(q) /\ queue' = Rest(q)
      /\ timer' = FALSE /\ stage' = "writing"
  BY DEF Flush
<1>3. Taken(q) # <<>>
  <2>1. SUFFICES ASSUME Taken(q) = <<>> PROVE FALSE
    OBVIOUS
  <2>2. <<>> \o Rest(q) = Rest(q)
    BY <1>1, ConcatEmptySeq
  <2>3. Rest(q) = q
    BY <1>1, <2>1, <2>2
  <2>4. Len(q) < Len(q)
    BY <1>1, <2>3
  <2>5. QED BY <2>4
<1>4. Len(Rest(q)) <= MaxItems
  <2>1. Len(Rest(q)) \in Nat /\ Len(q) \in Nat
    BY <1>1
  <2>2. QED BY <1>1, <2>1, ConfigAssumption
<1>5. QED BY <1>1, <1>2, <1>3, <1>4

\* The empty sequence is within every limit.
LEMMA EmptyQueue ==
    /\ \A S : <<>> \in Seq(S)
    /\ Len(<<>>) <= MaxItems /\ Len(<<>>) <= MaxBatchSize
<1>1. Len(<<>>) = 0
  OBVIOUS
<1>2. MaxItems \in Nat /\ MaxBatchSize \in Nat
  BY ConfigAssumption
<1>3. QED BY <1>1, <1>2

\* The types hold in the initial state.
LEMMA TypeInit == Init => TypeOK
<1>1. 0 \in 0..MaxRestarts
  BY ConfigAssumption
<1>2. QED BY <1>1, EmptyQueue DEF Init, TypeOK, Outcomes

\* The enqueue action keeps the limit: a queue with room for one more.
LEMMA AcceptType ==
    ASSUME TypeOK, AppendState, NEW r \in Receipts, EnqueueAccepted(r)
    PROVE  TypeOK'
<1> DEFINE q == Append(queue, r)
<1>1. /\ queue \in Seq(Receipts) /\ Len(queue) < MaxItems
  BY ConfigAssumption DEF TypeOK, EnqueueAccepted, Saturated
<1>2. /\ q \in Seq(Receipts) /\ q # <<>> /\ Len(q) = Len(queue) + 1
  BY <1>1, AppendProperties
<1>3. Len(q) <= MaxItems
  BY <1>1, <1>2, ConfigAssumption
<1>4. outcome' \in [Receipts -> Outcomes]
  BY DEF TypeOK, EnqueueAccepted, Outcomes
<1>5. /\ queue' \in Seq(Receipts) /\ Len(queue') <= MaxItems
      /\ batch' \in Seq(Receipts) /\ Len(batch') <= MaxBatchSize
      /\ timer' \in BOOLEAN
      /\ stage' \in {"idle", "writing", "settled"}
  <2>1. CASE Flush(q, queuedBytes + ByteLength[r])
    <3>1. Len(q) <= MaxItems + 1
      BY <1>1, <1>2, <1>3, ConfigAssumption
    <3>2. QED BY <1>2, <2>1, <3>1, FlushLemma
  <2>2. CASE /\ queue' = q
             /\ timer' = (timer \/ Len(q) < MaxBatchSize)
             /\ UNCHANGED <<stage, batch>>
    BY <1>2, <1>3, <2>2 DEF TypeOK
  <2>3. QED BY <2>1, <2>2 DEF EnqueueAccepted
<1>6. QED BY <1>4, <1>5 DEF TypeOK, EnqueueAccepted

\* Every callback keeps the types and the limits on queue and batch.
LEMMA TypeStep ==
    ASSUME TypeOK, AppendState, [Next]_vars
    PROVE  TypeOK'
<1> USE DEF flushVars
<1>1. CASE Start
  BY <1>1 DEF TypeOK, Start
<1>2. ASSUME NEW r \in Receipts, EnqueueRefused(r) PROVE TypeOK'
  BY <1>2 DEF TypeOK, EnqueueRefused, Outcomes
<1>3. ASSUME NEW r \in Receipts, EnqueueSaturated(r) PROVE TypeOK'
  BY <1>3 DEF TypeOK, EnqueueSaturated, Outcomes
<1>4. ASSUME NEW r \in Receipts, EnqueueAccepted(r) PROVE TypeOK'
  BY <1>4, AcceptType
<1>5. CASE TimerFires
  <2>1. CASE flushActive \/ queue = <<>>
    BY <1>5, <2>1 DEF TypeOK, TimerFires
  <2>2. CASE ~(flushActive \/ queue = <<>>)
    <3>1. Flush(queue, queuedBytes) /\ queue # <<>>
      BY <1>5, <2>2 DEF TimerFires
    <3>2. queue \in Seq(Receipts) /\ Len(queue) <= MaxItems + 1
      BY ConfigAssumption DEF TypeOK
    <3>3. QED BY <1>5, <3>1, <3>2, FlushLemma DEF TypeOK, TimerFires
  <2>3. QED BY <2>1, <2>2
<1>6. CASE AppendSucceeds
  <2>1. Lines(batch) \in Seq(Line)
    BY LinesType DEF TypeOK
  <2>2. file' \in Seq(Line)
    BY <1>6, <2>1, ConcatProperties DEF TypeOK, AppendSucceeds
  <2>3. resolved' \in Seq(Receipts)
    BY <1>6, ConcatProperties DEF TypeOK, AppendSucceeds
  <2>4. outcome' \in [Receipts -> Outcomes]
    BY <1>6, SettleType DEF AppendSucceeds, Outcomes
  <2>5. QED
    BY <1>6, <2>2, <2>3, <2>4, ConfigAssumption
    DEF TypeOK, AppendSucceeds, AfterFirstFlush
<1>7. ASSUME FailClosed, late' \in Seq(Receipts), file' \in Seq(Line)
      PROVE  TypeOK'
  <2>1. outcome' \in [Receipts -> Outcomes]
    BY <1>7, SettleType DEF FailClosed, Outcomes
  <2>2. QED
    BY <1>7, <2>1, ConfigAssumption DEF TypeOK, FailClosed, AfterFirstFlush
<1>8. CASE AppendFails
  <2>1. PICK piece \in CutShort(batch) : file' = file \o piece
    BY <1>8 DEF AppendFails
  <2>2. file' \in Seq(Line)
    BY <2>1, CutShortType, ConcatProperties DEF TypeOK
  <2>3. QED BY <1>7, <1>8, <2>2 DEF AppendFails, TypeOK
<1>9. CASE FlushTimeout
  BY <1>7, <1>9 DEF FlushTimeout, TypeOK
<1>10. CASE LateAppendEnds
  <2>1. PICK piece \in CutShort(late) : file' = file \o piece
    BY <1>10 DEF LateAppendEnds
  <2>2. file' \in Seq(Line)
    BY <2>1, CutShortType, ConcatProperties DEF TypeOK
  <2>3. QED BY <1>10, <2>2 DEF LateAppendEnds, TypeOK
<1>11. CASE FlushFinally
  <2>1. CASE ~failClosed /\ Len(queue) >= MaxBatchSize
    <3>1. Flush(queue, queuedBytes) /\ queue # <<>>
      BY <1>11, <2>1, ConfigAssumption DEF FlushFinally
    <3>2. queue \in Seq(Receipts) /\ Len(queue) <= MaxItems + 1
      BY ConfigAssumption DEF TypeOK
    <3>3. QED BY <1>11, <3>1, <3>2, FlushLemma DEF TypeOK, FlushFinally
  <2>2. CASE ~(~failClosed /\ Len(queue) >= MaxBatchSize)
    BY <1>11, <2>2 DEF TypeOK, FlushFinally
  <2>3. QED BY <2>1, <2>2
<1>12. ASSUME NEW d \in {"first", "waiting"}, DrainTurn(d), timer' = FALSE,
              closed' \in BOOLEAN,
              UNCHANGED <<late, started, failClosed, outcome, resolved, file,
                          restarts>>
       PROVE  TypeOK'
  <2>1. CASE queue # <<>> /\ ~flushActive
    <3>1. Flush(queue, queuedBytes) /\ drain' = d
      BY <1>12, <2>1 DEF DrainTurn
    <3>2. queue \in Seq(Receipts) /\ Len(queue) <= MaxItems + 1
      BY ConfigAssumption DEF TypeOK
    <3>3. QED BY <1>12, <2>1, <3>1, <3>2, FlushLemma DEF TypeOK
  <2>2. CASE ~(queue # <<>> /\ ~flushActive)
    BY <1>12, <2>2 DEF TypeOK, DrainTurn
  <2>3. QED BY <2>1, <2>2
<1>13. CASE Shutdown
  BY <1>12, <1>13 DEF Shutdown, TypeOK
<1>14. CASE ShutdownPoll
  BY <1>12, <1>14 DEF ShutdownPoll, TypeOK
<1>15. CASE ShutdownDeadline
  BY <1>15 DEF ShutdownDeadline, TypeOK
<1>16. CASE Restart
  <2>1. (IF stage = "writing" THEN batch ELSE late) \in Seq(Receipts)
    BY DEF TypeOK
  <2>2. PICK piece \in CutShort(IF stage = "writing" THEN batch ELSE late) :
            file' = file \o piece
    BY <1>16 DEF Restart
  <2>3. file' \in Seq(Line)
    BY <2>1, <2>2, CutShortType, ConcatProperties DEF TypeOK
  <2>4. outcome' \in [Receipts -> Outcomes]
    BY <1>16, SettleType DEF Restart, Outcomes
  <2>5. restarts' \in 0..MaxRestarts
    BY <1>16, ConfigAssumption DEF Restart, TypeOK
  <2>6. QED BY <1>16, <2>3, <2>4, <2>5, EmptyQueue DEF Restart, TypeOK
<1>17. CASE UNCHANGED vars
  BY <1>17 DEF vars, TypeOK
<1>18. QED
  BY <1>1, <1>2, <1>3, <1>4, <1>5, <1>6, <1>8, <1>9, <1>10, <1>11, <1>13,
     <1>14, <1>15, <1>16, <1>17 DEF Next
-----------------------------------------------------------------------------
(* The control part of the invariant: who flushes, and when.               *)

ControlInv == AppendState /\ DrainState /\ NoStranded

\* The control invariant holds in the initial state.
LEMMA ControlInit == Init => ControlInv
  BY DEF Init, ControlInv, AppendState, DrainState, NoStranded

\* A flush of a nonempty queue, started by whichever callback.
LEMMA FlushControl ==
    ASSUME TypeOK, ControlInv, NEW q \in Seq(Receipts), NEW bytes,
           q # <<>>, Len(q) <= MaxItems + 1, Flush(q, bytes),
           late' = <<>>, closed' <=> drain' # "none",
           drain' = "done" => failClosed'
    PROVE  ControlInv'
<1>1. stage' = "writing" /\ batch' # <<>>
  BY FlushLemma
<1>2. QED
  BY <1>1 DEF ControlInv, AppendState, DrainState, NoStranded, flushActive

\* Every callback keeps the control invariant.
LEMMA ControlStep ==
    ASSUME TypeOK, ControlInv, [Next]_vars
    PROVE  ControlInv'
<1> USE DEF flushVars, flushActive, ControlInv, AppendState, DrainState, NoStranded
<1>0. queue \in Seq(Receipts) /\ Len(queue) <= MaxItems + 1
  BY ConfigAssumption DEF TypeOK
<1>1. CASE Start
  BY <1>1 DEF Start
<1>2. ASSUME NEW r \in Receipts, EnqueueRefused(r) PROVE ControlInv'
  BY <1>2 DEF EnqueueRefused
<1>3. ASSUME NEW r \in Receipts, EnqueueSaturated(r) PROVE ControlInv'
  BY <1>3 DEF EnqueueSaturated
<1>4. ASSUME NEW r \in Receipts, EnqueueAccepted(r) PROVE ControlInv'
  <2> DEFINE q == Append(queue, r)
  <2>1. q \in Seq(Receipts) /\ q # <<>> /\ Len(q) = Len(queue) + 1
    BY <1>0, AppendProperties
  <2>2. late = <<>> /\ late' = <<>> /\ ~failClosed /\ failClosed' = failClosed
    BY <1>4 DEF EnqueueAccepted
  <2>3. drain = "none" /\ ~closed /\ UNCHANGED <<drain, closed>>
    BY <1>4 DEF EnqueueAccepted
  <2>4. CASE Flush(q, queuedBytes + ByteLength[r])
    <3>1. Len(q) <= MaxItems + 1
      BY <2>1, ConfigAssumption DEF TypeOK
    <3>2. QED BY <2>1, <2>2, <2>3, <2>4, <3>1, FlushControl
  <2>5. CASE /\ Len(q) < MaxBatchSize \/ flushActive
             /\ queue' = q
             /\ timer' = (timer \/ Len(q) < MaxBatchSize)
             /\ UNCHANGED <<stage, batch>>
    BY <2>2, <2>3, <2>5 DEF TypeOK
  <2>6. QED BY <1>4, <2>4, <2>5 DEF EnqueueAccepted
<1>5. CASE TimerFires
  <2>1. CASE flushActive \/ queue = <<>>
    BY <1>5, <2>1 DEF TimerFires
  <2>2. CASE ~(flushActive \/ queue = <<>>)
    <3>1. Flush(queue, queuedBytes) /\ queue # <<>> /\ late' = <<>>
      BY <1>5, <2>2 DEF TimerFires
    <3>2. UNCHANGED <<drain, closed, failClosed>>
      BY <1>5 DEF TimerFires
    <3>3. drain' = "done" => failClosed'
      BY <2>2, <3>2
    <3>4. closed' <=> drain' # "none"
      BY <3>2
    <3>5. QED BY <1>0, <3>1, <3>3, <3>4, FlushControl
  <2>3. QED BY <2>1, <2>2
<1>6. CASE AppendSucceeds
  BY <1>6 DEF AppendSucceeds, AfterFirstFlush
<1>7. CASE AppendFails
  BY <1>7 DEF AppendFails, FailClosed, AfterFirstFlush
<1>8. CASE FlushTimeout
  BY <1>8 DEF FlushTimeout, FailClosed, AfterFirstFlush
<1>9. CASE LateAppendEnds
  BY <1>9 DEF LateAppendEnds
<1>10. CASE FlushFinally
  <2>1. CASE ~failClosed /\ Len(queue) >= MaxBatchSize
    <3>1. Flush(queue, queuedBytes) /\ queue # <<>> /\ late' = <<>>
      BY <1>10, <2>1, ConfigAssumption DEF FlushFinally
    <3>2. UNCHANGED <<drain, closed, failClosed>>
      BY <1>10 DEF FlushFinally
    <3>3. drain' = "done" => failClosed'
      BY <2>1, <3>1, <3>2
    <3>4. closed' <=> drain' # "none"
      BY <3>2
    <3>5. QED BY <1>0, <3>1, <3>3, <3>4, FlushControl
  <2>2. CASE ~(~failClosed /\ Len(queue) >= MaxBatchSize)
    BY <1>10, <2>2 DEF FlushFinally, TypeOK
  <2>3. QED BY <2>1, <2>2
<1>11. ASSUME NEW d \in {"first", "waiting"}, DrainTurn(d), timer' = FALSE,
              stage # "settled", closed' = TRUE,
              UNCHANGED <<late, failClosed>>
       PROVE  ControlInv'
  <2>1. CASE queue # <<>> /\ ~flushActive
    <3>1. Flush(queue, queuedBytes) /\ drain' = d
      BY <1>11, <2>1 DEF DrainTurn
    <3>2. late' = <<>>
      BY <1>11, <2>1
    <3>3. closed' <=> drain' # "none"
      BY <1>11, <3>1
    <3>4. QED BY <1>0, <2>1, <3>1, <3>2, <3>3, FlushControl
  <2>2. CASE queue = <<>> /\ ~flushActive
    BY <1>11, <2>2 DEF DrainTurn
  <2>3. CASE flushActive
    BY <1>11, <2>3 DEF DrainTurn, TypeOK
  <2>4. QED BY <2>1, <2>2, <2>3
<1>12. CASE Shutdown
  BY <1>11, <1>12 DEF Shutdown
<1>13. CASE ShutdownPoll
  BY <1>11, <1>13 DEF ShutdownPoll
<1>14. CASE ShutdownDeadline
  BY <1>14 DEF ShutdownDeadline
<1>15. CASE Restart
  BY <1>15 DEF Restart
<1>16. CASE UNCHANGED vars
  BY <1>16 DEF vars
<1>17. QED
  BY <1>1, <1>2, <1>3, <1>4, <1>5, <1>6, <1>7, <1>8, <1>9, <1>10, <1>12,
     <1>13, <1>14, <1>15, <1>16 DEF Next
-----------------------------------------------------------------------------
(* What each step does to the line of pending receipts.                    *)

\* With no batch out, what is pending is the queue.
LEMMA EmptyBatchPending ==
    ASSUME TypeOK, batch = <<>>
    PROVE  Pending = queue
  BY ConcatEmptySeq DEF Pending, TypeOK

\* Starting a flush of the queue moves receipts without reordering them.
LEMMA FlushPending ==
    ASSUME TypeOK, ControlInv, stage # "writing", queue # <<>>,
           Flush(queue, queuedBytes)
    PROVE  Pending' = Pending
<1>1. batch = <<>>
  BY DEF ControlInv, AppendState
<1>2. queue \in Seq(Receipts) /\ Len(queue) <= MaxItems + 1
  BY ConfigAssumption DEF TypeOK
<1>3. batch' \o queue' = queue
  BY <1>2, FlushLemma
<1>4. QED BY <1>1, <1>3, EmptyBatchPending DEF Pending

\* enqueue adds its receipt at the end of what is pending.
LEMMA AcceptPending ==
    ASSUME TypeOK, ControlInv, NEW r \in Receipts, EnqueueAccepted(r)
    PROVE  Pending' = Append(Pending, r)
<1> DEFINE q == Append(queue, r)
<1>1. batch \in Seq(Receipts) /\ queue \in Seq(Receipts)
  BY DEF TypeOK
<1>2. q \in Seq(Receipts) /\ q # <<>> /\ Len(q) = Len(queue) + 1
  BY <1>1, AppendProperties
<1>3. CASE ~flushActive /\ Flush(q, queuedBytes + ByteLength[r])
  <2>1. batch = <<>>
    BY <1>3 DEF ControlInv, AppendState, flushActive
  <2>2. Len(q) <= MaxItems + 1
    BY <1>2, ConfigAssumption DEF TypeOK
  <2>3. batch' \o queue' = q
    BY <1>2, <1>3, <2>2, FlushLemma
  <2>4. QED BY <2>1, <2>3, EmptyBatchPending DEF Pending
<1>4. CASE queue' = q /\ batch' = batch
  <2>1. q = queue \o <<r>>
    BY <1>1, AppendIsConcat
  <2>2. batch \o queue \in Seq(Receipts) /\ <<r>> \in Seq(Receipts)
    BY <1>1, ConcatProperties
  <2>3. Append(batch \o queue, r) = (batch \o queue) \o <<r>>
    BY <2>2, AppendIsConcat
  <2>4. (batch \o queue) \o <<r>> = batch \o (queue \o <<r>>)
    BY <1>1, <2>2, ConcatAssociative
  <2>5. QED BY <1>4, <2>1, <2>3, <2>4 DEF Pending
<1>5. QED BY <1>3, <1>4 DEF EnqueueAccepted

\* A successful append takes its batch off the front of what is pending.
LEMMA SuccessPending ==
    ASSUME TypeOK, AppendSucceeds
    PROVE  Pending' = queue
<1>1. batch' = <<>> /\ queue' = queue /\ queue \in Seq(Receipts)
  BY DEF AppendSucceeds, TypeOK
<1>2. QED BY <1>1, ConcatEmptySeq DEF Pending

\* Steps that leave the line of pending receipts as it is.
LEMMA OtherPending ==
    ASSUME TypeOK, ControlInv,
           \/ Start
           \/ \E r \in Receipts : EnqueueRefused(r) \/ EnqueueSaturated(r)
           \/ TimerFires \/ LateAppendEnds \/ FlushFinally
           \/ Shutdown \/ ShutdownPoll \/ ShutdownDeadline
           \/ UNCHANGED vars
    PROVE  Pending' = Pending
<1> USE DEF flushVars
<1>1. ASSUME UNCHANGED <<queue, batch>> PROVE Pending' = Pending
  BY <1>1 DEF Pending
<1>2. CASE TimerFires
  <2>1. CASE flushActive \/ queue = <<>>
    BY <1>1, <1>2, <2>1 DEF TimerFires
  <2>2. CASE ~(flushActive \/ queue = <<>>)
    BY <1>2, <2>2, FlushPending DEF TimerFires, flushActive
  <2>3. QED BY <2>1, <2>2
<1>3. CASE FlushFinally
  <2>1. CASE ~failClosed /\ Len(queue) >= MaxBatchSize
    <3>1. queue # <<>> /\ stage # "writing"
      BY <1>3, <2>1, ConfigAssumption DEF FlushFinally
    <3>2. QED BY <1>3, <2>1, <3>1, FlushPending DEF FlushFinally
  <2>2. CASE ~(~failClosed /\ Len(queue) >= MaxBatchSize)
    BY <1>1, <1>3, <2>2 DEF FlushFinally
  <2>3. QED BY <2>1, <2>2
<1>4. ASSUME NEW d, DrainTurn(d) PROVE Pending' = Pending
  <2>1. CASE queue # <<>> /\ ~flushActive
    BY <1>4, <2>1, FlushPending DEF DrainTurn, flushActive
  <2>2. CASE ~(queue # <<>> /\ ~flushActive)
    BY <1>1, <1>4, <2>2 DEF DrainTurn
  <2>3. QED BY <2>1, <2>2
<1>5. CASE Shutdown \/ ShutdownPoll
  BY <1>4, <1>5 DEF Shutdown, ShutdownPoll
<1>6. CASE \/ Start
           \/ \E r \in Receipts : EnqueueRefused(r) \/ EnqueueSaturated(r)
           \/ LateAppendEnds \/ ShutdownDeadline \/ UNCHANGED vars
  BY <1>1, <1>6 DEF Start, EnqueueRefused, EnqueueSaturated, LateAppendEnds,
                    ShutdownDeadline, vars
<1>7. QED BY <1>2, <1>3, <1>5, <1>6

\* Everything pending is given up: a failed flush, or the end of the process.
LEMMA AbandonPending ==
    ASSUME queue' = <<>>, batch' = <<>>
    PROVE  Pending' = <<>>
  BY ConcatEmptySeq, EmptyQueue DEF Pending
-----------------------------------------------------------------------------
(* A receipt is pending exactly while it is in the line, and once.         *)

\* What is pending is a sequence of receipts.
LEMMA PendingType ==
    ASSUME TypeOK
    PROVE  Pending \in Seq(Receipts)
  BY ConcatProperties DEF TypeOK, Pending

\* enqueue keeps every waiting receipt in exactly one place.
LEMMA TrackedAccept ==
    ASSUME TypeOK, ControlInv, PendingTracked, NEW r \in Receipts,
           EnqueueAccepted(r)
    PROVE  PendingTracked'
<1>1. Pending \in Seq(Receipts)
  BY PendingType
<1>2. Pending' = Append(Pending, r)
  BY AcceptPending
<1>3. outcome[r] = "new" /\ outcome' = [outcome EXCEPT ![r] = "pending"]
  BY DEF EnqueueAccepted
<1>4. outcome \in [Receipts -> Outcomes]
  BY DEF TypeOK
<1> DEFINE P == Pending
           Q == Append(P, r)
<1>5. /\ \A x \in Receipts : outcome[x] = "pending" <=> x \in Range(P)
      /\ \A i, j \in DOMAIN P : P[i] = P[j] => i = j
  BY DEF PendingTracked
<1>6. /\ DOMAIN P = 1..Len(P) /\ DOMAIN Q = 1..(Len(P) + 1) /\ Len(P) \in Nat
      /\ \A i \in 1..Len(P) : Q[i] = P[i]
      /\ Q[Len(P) + 1] = r
  BY <1>1, AppendProperties
<1>7. r \notin Range(P)
  BY <1>3, <1>5
<1> HIDE DEF P, Q
<1>8. \A i \in 1..Len(P) : P[i] \in Range(P)
  BY <1>6 DEF Range
<1>9. ASSUME NEW x \in Receipts
      PROVE  x \in Range(Q) <=> (x \in Range(P) \/ x = r)
  BY <1>6 DEF Range
<1>10. ASSUME NEW i \in DOMAIN Q, NEW j \in DOMAIN Q, Q[i] = Q[j]
       PROVE  i = j
  <2>1. CASE i \in 1..Len(P) /\ j \in 1..Len(P)
    BY <1>5, <1>6, <1>10, <2>1
  <2>2. CASE i \in 1..Len(P) /\ j = Len(P) + 1
    BY <1>6, <1>7, <1>8, <1>10, <2>2
  <2>3. CASE i = Len(P) + 1 /\ j \in 1..Len(P)
    BY <1>6, <1>7, <1>8, <1>10, <2>3
  <2>4. CASE i = Len(P) + 1 /\ j = Len(P) + 1
    BY <2>4
  <2>5. QED BY <1>6, <2>1, <2>2, <2>3, <2>4
<1>11. ASSUME NEW x \in Receipts
       PROVE  outcome'[x] = "pending" <=> x \in Range(Q)
  BY <1>3, <1>4, <1>5, <1>9
<1>12. Pending' = Q
  BY <1>2 DEF P, Q
<1>13. QED BY <1>10, <1>11, <1>12 DEF PendingTracked

\* A successful append keeps every waiting receipt in exactly one place.
LEMMA TrackedSuccess ==
    ASSUME TypeOK, PendingTracked, AppendSucceeds
    PROVE  PendingTracked'
<1> DEFINE P == Pending
<1>1. batch \in Seq(Receipts) /\ queue \in Seq(Receipts)
  BY DEF TypeOK
<1>2. Pending' = queue
  BY SuccessPending
<1>3. \A x \in Receipts :
         outcome'[x] = IF x \in Range(batch) THEN "durable" ELSE outcome[x]
  BY DEF AppendSucceeds, Settle
<1>4. Range(P) = Range(batch) \cup Range(queue)
  BY <1>1, RangeConcatenation DEF Pending
<1>5. /\ \A x \in Receipts : outcome[x] = "pending" <=> x \in Range(P)
      /\ \A i, j \in DOMAIN P : P[i] = P[j] => i = j
  BY DEF PendingTracked
<1>6. /\ P \in Seq(Receipts)
      /\ Len(P) = Len(batch) + Len(queue)
      /\ \A i \in 1..(Len(batch) + Len(queue)) :
            P[i] = IF i <= Len(batch) THEN batch[i] ELSE queue[i - Len(batch)]
  BY <1>1, ConcatProperties DEF Pending
<1> HIDE DEF P
<1>7. /\ DOMAIN P = 1..(Len(batch) + Len(queue))
      /\ DOMAIN batch = 1..Len(batch) /\ DOMAIN queue = 1..Len(queue)
      /\ Len(batch) \in Nat /\ Len(queue) \in Nat
  BY <1>1, <1>6
<1>8. \A j \in 1..Len(queue) :
         /\ Len(batch) + j \in DOMAIN P
         /\ P[Len(batch) + j] = queue[j]
  BY <1>6, <1>7
<1>9. \A i \in 1..Len(batch) : i \in DOMAIN P /\ P[i] = batch[i]
  BY <1>6, <1>7
<1>10. \A i, j \in DOMAIN queue : queue[i] = queue[j] => i = j
  BY <1>5, <1>7, <1>8
<1>11. \A x \in Range(batch) : x \notin Range(queue)
  <2>1. SUFFICES ASSUME NEW i \in 1..Len(batch), NEW j \in 1..Len(queue),
                        batch[i] = queue[j]
                 PROVE  FALSE
    BY <1>7 DEF Range
  <2>2. P[i] = P[Len(batch) + j]
    BY <1>8, <1>9, <2>1
  <2>3. i = Len(batch) + j
    BY <1>5, <1>8, <1>9, <2>2
  <2>4. QED BY <1>7, <2>3
<1>12. ASSUME NEW x \in Receipts
       PROVE  outcome'[x] = "pending" <=> x \in Range(queue)
  BY <1>3, <1>4, <1>5, <1>11
<1>13. QED BY <1>2, <1>10, <1>12 DEF PendingTracked

\* A failure or a restart leaves nothing waiting.
LEMMA TrackedAbandon ==
    ASSUME PendingTracked, Pending' = <<>>,
           NEW result \in {"rejected", "lost"}, Settle(Pending, result)
    PROVE  PendingTracked'
<1>1. Range(<<>>) = {} /\ DOMAIN <<>> = {}
  BY DEF Range
<1>2. ASSUME NEW x \in Receipts PROVE outcome'[x] # "pending"
  BY DEF PendingTracked, Settle
<1>3. QED BY <1>1, <1>2 DEF PendingTracked

\* Every callback keeps every waiting receipt in exactly one place.
LEMMA TrackedStep ==
    ASSUME TypeOK, ControlInv, PendingTracked, [Next]_vars
    PROVE  PendingTracked'
<1>1. ASSUME NEW r \in Receipts, EnqueueAccepted(r) PROVE PendingTracked'
  BY <1>1, TrackedAccept
<1>2. CASE AppendSucceeds
  BY <1>2, TrackedSuccess
<1>3. CASE AppendFails \/ FlushTimeout
  BY <1>3, AbandonPending, TrackedAbandon DEF AppendFails, FlushTimeout, FailClosed
<1>4. CASE Restart
  BY <1>4, AbandonPending, TrackedAbandon DEF Restart
<1>5. ASSUME NEW r \in Receipts, EnqueueRefused(r) \/ EnqueueSaturated(r)
      PROVE  PendingTracked'
  <2>1. Pending' = Pending
    BY <1>5, OtherPending
  <2>2. outcome[r] = "new" /\ outcome' = [outcome EXCEPT ![r] = "refused"]
    BY <1>5 DEF EnqueueRefused, EnqueueSaturated
  <2>3. \A x \in Receipts : outcome'[x] = "pending" <=> outcome[x] = "pending"
    BY <2>2 DEF TypeOK
  <2>4. QED BY <2>1, <2>3 DEF PendingTracked
<1>6. CASE \/ Start \/ TimerFires \/ LateAppendEnds \/ FlushFinally
           \/ Shutdown \/ ShutdownPoll \/ ShutdownDeadline
           \/ UNCHANGED vars
  <2>1. Pending' = Pending
    BY <1>6, OtherPending
  <2>2. outcome' = outcome
    BY <1>6 DEF Start, TimerFires, LateAppendEnds, FlushFinally, Shutdown,
                ShutdownPoll, ShutdownDeadline, vars
  <2>3. QED BY <2>1, <2>2 DEF PendingTracked
<1>7. QED BY <1>1, <1>2, <1>3, <1>4, <1>5, <1>6 DEF Next
-----------------------------------------------------------------------------
(* The theorems.                                                           *)

\* The invariant behind the others holds in every reachable state.
THEOREM Invariance == Spec => []IInv
<1>1. Init => IInv
  <2>1. ASSUME Init PROVE PendingTracked
    <3>1. Pending = <<>>
      BY <2>1, ConcatEmptySeq, EmptyQueue DEF Init, Pending
    <3>2. Range(<<>>) = {} /\ DOMAIN <<>> = {}
      BY DEF Range
    <3>3. QED BY <2>1, <3>1, <3>2 DEF Init, PendingTracked
  <2>2. QED BY <2>1, TypeInit, ControlInit DEF IInv, ControlInv
<1>2. IInv /\ [Next]_vars => IInv'
  BY TypeStep, ControlStep, TrackedStep DEF IInv, ControlInv
<1>3. QED BY <1>1, <1>2, PTL DEF Spec

\* enqueue and flush keep their limits in every state: at most max_items queued
\* receipts and at most max_batch_size in a batch.
THEOREM TypeCorrect == Spec => []TypeOK
<1>1. IInv => TypeOK
  BY DEF IInv
<1>2. QED BY <1>1, Invariance, PTL

\* Every accepted receipt is in the batch or the queue, once, until its promise
\* is settled or the process ends.
THEOREM PendingCorrect == Spec => []PendingTracked
<1>1. IInv => PendingTracked
  BY DEF IInv
<1>2. QED BY <1>1, Invariance, PTL

\* Queued receipts of a queue in service always have a flush coming.
THEOREM NoStrandedCorrect == Spec => []NoStranded
<1>1. IInv => NoStranded
  BY DEF IInv
<1>2. QED BY <1>1, Invariance, PTL

\* No two appends to the receipt file overlap.
THEOREM SingleAppendCorrect == Spec => []SingleAppend
<1>1. IInv => SingleAppend
  BY DEF IInv, AppendState, SingleAppend
<1>2. QED BY <1>1, Invariance, PTL
-----------------------------------------------------------------------------
(* The queue implements ReceiptLog.                                        *)

\* The two halves of a line of receipts, by position.
LEMMA HalvesLemma ==
    ASSUME NEW s \in Seq(Receipts), NEW t \in Seq(Receipts), s # <<>>
    PROVE  /\ SubSeq(s \o t, 1, Len(s)) = s
           /\ SubSeq(s \o t, Len(s) + 1, Len(s \o t)) = t
           /\ Len(s) \in 1..Len(s \o t)
<1>1. /\ s \o t \in Seq(Receipts)
      /\ Len(s \o t) = Len(s) + Len(t)
      /\ Len(s) \in Nat \ {0} /\ Len(t) \in Nat
  <2>1. Len(s) \in Nat \ {0} /\ Len(t) \in Nat
    OBVIOUS
  <2>2. QED BY <2>1, ConcatProperties
<1>2. SubSeq(s \o t, 1, Len(s)) = SubSeq(s, 1, Len(s))
  <2>1. 1 \in 1..Len(s) /\ Len(s) \in 1..Len(s)
    BY <1>1
  <2>2. QED BY <2>1, SubSeqOfConcat1
<1>3. SubSeq(s, 1, Len(s)) = s
  BY SubSeqFull
<1>4. SubSeq(s \o t, Len(s) + 1, Len(s) + Len(t)) = t
  <2>1. CASE t = <<>>
    <3>1. Len(s) + Len(t) < Len(s) + 1
      BY <1>1, <2>1
    <3>2. QED BY <1>1, <2>1, <3>1, SubSeqEmpty
  <2>2. CASE t # <<>>
    <3>1. /\ Len(s) + 1 \in (Len(s) + 1)..(Len(s) + Len(t))
          /\ Len(s) + Len(t) \in (Len(s) + 1)..(Len(s) + Len(t))
          /\ Len(s) + 1 - Len(s) = 1 /\ Len(s) + Len(t) - Len(s) = Len(t)
      BY <1>1, <2>2
    <3>2. SubSeq(s \o t, Len(s) + 1, Len(s) + Len(t))
            = SubSeq(t, Len(s) + 1 - Len(s), Len(s) + Len(t) - Len(s))
      BY <3>1, SubSeqOfConcat2
    <3>3. SubSeq(t, 1, Len(t)) = t
      BY SubSeqFull
    <3>4. QED BY <3>1, <3>2, <3>3
  <2>3. QED BY <2>1, <2>2
<1>5. Len(s) \in 1..Len(s \o t)
  BY <1>1
<1>6. QED BY <1>1, <1>2, <1>3, <1>4, <1>5

\* Every step of the queue is a step of the log, or none.
LEMMA LogStep ==
    ASSUME IInv, [Next]_vars
    PROVE  [Log!LogNext]_(Log!logVars)
<1>0. TypeOK /\ ControlInv /\ PendingTracked
  BY DEF IInv, ControlInv
<1> DEFINE o == started /\ ~closed /\ ~failClosed
<1>1. ASSUME Pending' = Pending, resolved' = resolved
      PROVE  (o' = o => UNCHANGED Log!logVars)
             /\ (o' = TRUE => Log!Open) /\ (o' = FALSE => Log!Close)
  BY <1>1 DEF Log!logVars, Log!Open, Log!Close
<1>2. ASSUME NEW r \in Receipts, EnqueueAccepted(r)
      PROVE  Log!Accept(r)
  <2>1. Pending' = Append(Pending, r)
    BY <1>0, <1>2, AcceptPending
  <2>2. o /\ o' = o /\ resolved' = resolved
    BY <1>2 DEF EnqueueAccepted
  <2>3. QED BY <2>1, <2>2 DEF Log!Accept
<1>3. CASE AppendSucceeds
  <2>1. /\ batch \in Seq(Receipts) /\ queue \in Seq(Receipts) /\ batch # <<>>
    BY <1>0, <1>3 DEF TypeOK, ControlInv, AppendState, AppendSucceeds
  <2>2. /\ SubSeq(Pending, 1, Len(batch)) = batch
        /\ SubSeq(Pending, Len(batch) + 1, Len(Pending)) = queue
        /\ Len(batch) \in 1..Len(Pending)
    BY <2>1, HalvesLemma DEF Pending
  <2>3. Pending' = queue
    BY <1>0, <1>3, SuccessPending
  <2>4. o' = o /\ resolved' = resolved \o batch
    BY <1>3 DEF AppendSucceeds
  <2>5. Log!Commit(Len(batch))
    BY <2>2, <2>3, <2>4 DEF Log!Commit
  <2>6. QED BY <2>2, <2>5 DEF Log!LogNext
<1>4. ASSUME queue' = <<>>, batch' = <<>>, resolved' = resolved, o' = FALSE
      PROVE  Log!Abandon
  BY <1>4, AbandonPending DEF Log!Abandon
<1>5. CASE AppendFails \/ FlushTimeout
  <2>1. queue' = <<>> /\ batch' = <<>> /\ resolved' = resolved /\ failClosed' = TRUE
    BY <1>5 DEF AppendFails, FlushTimeout, FailClosed
  <2>2. QED BY <1>4, <2>1 DEF Log!LogNext
<1>6. CASE Restart
  BY <1>4, <1>6 DEF Restart, Log!LogNext
<1>7. CASE \/ Start
           \/ \E r \in Receipts : EnqueueRefused(r) \/ EnqueueSaturated(r)
           \/ TimerFires \/ LateAppendEnds \/ FlushFinally
           \/ Shutdown \/ ShutdownPoll \/ ShutdownDeadline
           \/ UNCHANGED vars
  <2>1. Pending' = Pending
    BY <1>0, <1>7, OtherPending
  <2>2. resolved' = resolved
    BY <1>7 DEF Start, EnqueueRefused, EnqueueSaturated, TimerFires,
                LateAppendEnds, FlushFinally, Shutdown, ShutdownPoll,
                ShutdownDeadline, vars
  <2>3. o' = TRUE \/ o' = FALSE
    OBVIOUS
  <2>4. QED BY <1>1, <2>1, <2>2, <2>3 DEF Log!LogNext
<1>8. QED BY <1>2, <1>3, <1>5, <1>6, <1>7 DEF Next, Log!LogNext

\* The batching, timing-out, failing and restarting queue keeps the promise of
\* ReceiptLog: receipts become durable in the order in which enqueue accepted
\* them, none is skipped, and none after it was given up.
THEOREM QueueImplementsLog == Spec => ImplementsReceiptLog
<1>1. Init => Log!LogInit
  <2>1. ASSUME Init PROVE Pending = <<>>
    BY <2>1, ConcatEmptySeq, EmptyQueue DEF Init, Pending
  <2>2. QED BY <2>1 DEF Init, Log!LogInit
<1>2. IInv /\ [Next]_vars => [Log!LogNext]_(Log!logVars)
  BY LogStep
<1>3. QED
  BY <1>1, <1>2, Invariance, PTL DEF Spec, ImplementsReceiptLog, Log!LogSpec
=============================================================================
