--------------------------- MODULE SidecarProofs ----------------------------
(***************************************************************************)
(* Proofs about Sidecar for every set of requests and every limit.         *)
(***************************************************************************)
EXTENDS Sidecar, FiniteSetTheorems, SequenceTheorems, TLAPS

\* Types of the handlers, the queue and the process.
TypeOK ==
    /\ strict \in BOOLEAN
    /\ pc \in [Reqs -> {"new", "reading", "working", "durable", "refusing", "done"}]
    /\ after \in [Reqs -> {"none", "end", "release", "finally", "catch", "ALLOW", "REFUSE"}]
    /\ promise \in [Reqs -> {"none", "open", "ok", "rejected"}]
    /\ answer \in [Reqs -> {"none", "ALLOW", "REFUSE", "gone"}]
    /\ open \in BOOLEAN /\ failed \in {"no", "flush", "drain"}
    /\ waiting \in Seq(Receipts) /\ disk \in Seq(Receipts)

\* A handler that has not decided has nothing in the queue; one that waits for
\* its decision's receipt has nothing else there.  So the promise that is told
\* "ok" is told so of that receipt.
QueueEntries ==
    \A r \in Reqs : \A i \in DOMAIN waiting :
        waiting[i][1] = r =>
            /\ pc[r] \notin {"new", "reading", "working"}
            /\ pc[r] = "durable" => waiting[i] = <<r, "decision">>

\* A promise that was resolved for a decision was resolved because the receipt
\* is on disk.
OkIsDurable ==
    \A r \in Reqs : (pc[r] = "durable" /\ promise[r] = "ok") => OnDisk(<<r, "decision">>)

\* A queue that failed closed takes nothing more. When a flush failed it has given
\* up what waited, and no promise of it is about to be found resolved. When the
\* drain was given up the process is about to exit.
FailedClosed ==
    /\ failed # "no" \/ phase = "draining" => ~open
    /\ failed = "flush" => waiting = <<>> /\ \A r \in Reqs : promise[r] # "ok"
    /\ failed = "drain" => phase \notin {"up", "draining"}

\* A handler waits for its decision's receipt in strict_audit only, and remembers
\* that decision.
DurableAfter == \A r \in Reqs : pc[r] = "durable" => strict /\ after[r] \in {"ALLOW", "REFUSE"}

IInv == /\ TypeOK /\ QueueEntries /\ DurableAfter /\ OkIsDurable
        /\ FailedClosed /\ AllowIsDurable
-----------------------------------------------------------------------------
LEMMA InitIInv == Init => IInv
<1> SUFFICES ASSUME Init PROVE IInv
  OBVIOUS
<1>1. waiting = <<>> /\ disk = <<>>
  BY DEF Init
<1>2. TypeOK
  <2>1. waiting \in Seq(Receipts) /\ disk \in Seq(Receipts)
    BY <1>1
  <2>2. strict \in BOOLEAN /\ open \in BOOLEAN /\ failed \in {"no", "flush", "drain"}
    BY DEF Init
  <2> QED BY <2>1, <2>2 DEF Init, TypeOK
<1>3. DOMAIN waiting = {}
  BY <1>1
<1>4. QueueEntries
  BY <1>3 DEF QueueEntries
<1>5. DurableAfter /\ OkIsDurable /\ FailedClosed /\ AllowIsDurable
  BY DEF Init, DurableAfter, OkIsDurable, FailedClosed, AllowIsDurable
<1>6. QED BY <1>2, <1>4, <1>5 DEF IInv

\* What fail does to everything but the two counters: the handler is over with
\* a REFUSE, or in strict_audit waits for its refusal receipt.
FailEffect(r) ==
    /\ promise' \in {[promise EXCEPT ![r] = "none"], [promise EXCEPT ![r] = "open"]}
    /\ \/ /\ pc' = [pc EXCEPT ![r] = "done"]
          /\ \E sent \in {"REFUSE", "gone"} : answer' = [answer EXCEPT ![r] = sent]
          /\ after' = [after EXCEPT ![r] = "none"]
       \/ /\ pc' = [pc EXCEPT ![r] = "refusing"]
          /\ \E how \in {"end", "release", "finally", "catch"} : after' = [after EXCEPT ![r] = how]
          /\ answer' = answer
    /\ \/ waiting' = waiting
       \/ open /\ waiting' = Append(waiting, <<r, "refusal">>)
    /\ open' = open /\ disk' = disk /\ failed' = failed /\ phase' = phase

\* An append to the queue keeps what was there and adds its last entry.
LEMMA AppendEntries ==
    ASSUME NEW s \in Seq(Receipts), NEW e \in Receipts
    PROVE  /\ Append(s, e) \in Seq(Receipts)
           /\ \A i \in DOMAIN Append(s, e) :
                 Append(s, e)[i] = e \/ (i \in DOMAIN s /\ Append(s, e)[i] = s[i])
  OBVIOUS

LEMMA FailKeeps ==
    ASSUME IInv, NEW r \in Reqs, FailEffect(r), strict' = strict
    PROVE  IInv'
<1> DEFINE e == <<r, "refusal">>
<1>1. e \in Receipts /\ e[1] = r
  BY DEF Receipts
<1>2. TypeOK'
  <2>1. Append(waiting, e) \in Seq(Receipts)
    BY <1>1, AppendEntries DEF IInv, TypeOK
  <2>2. waiting' \in Seq(Receipts) /\ disk' \in Seq(Receipts)
    BY <2>1 DEF FailEffect, IInv, TypeOK
  <2>3. pc' \in [Reqs -> {"new", "reading", "working", "durable", "refusing", "done"}]
    BY DEF FailEffect, IInv, TypeOK
  <2>4. after' \in [Reqs -> {"none", "end", "release", "finally", "catch", "ALLOW", "REFUSE"}]
    BY DEF FailEffect, IInv, TypeOK
  <2>5. promise' \in [Reqs -> {"none", "open", "ok", "rejected"}]
    BY DEF FailEffect, IInv, TypeOK
  <2>6. answer' \in [Reqs -> {"none", "ALLOW", "REFUSE", "gone"}]
    BY DEF FailEffect, IInv, TypeOK
  <2>7. strict' \in BOOLEAN /\ open' \in BOOLEAN
        /\ failed' \in {"no", "flush", "drain"}
    BY DEF FailEffect, IInv, TypeOK
  <2> QED BY <2>2, <2>3, <2>4, <2>5, <2>6, <2>7 DEF TypeOK
<1>3. \A i \in DOMAIN waiting' : waiting'[i] = e \/ (i \in DOMAIN waiting /\ waiting'[i] = waiting[i])
  <2>1. waiting \in Seq(Receipts)
    BY DEF IInv, TypeOK
  <2>2. waiting' = waiting \/ waiting' = Append(waiting, e)
    BY DEF FailEffect
  <2>3. \A i \in DOMAIN Append(waiting, e) :
           Append(waiting, e)[i] = e \/ (i \in DOMAIN waiting /\ Append(waiting, e)[i] = waiting[i])
    BY <1>1, <2>1, AppendEntries
  <2> HIDE DEF e
  <2> QED BY <2>2, <2>3
<1>4. \A x \in Reqs : x # r => pc'[x] = pc[x] /\ promise'[x] = promise[x] /\ answer'[x] = answer[x]
  BY DEF FailEffect, IInv, TypeOK
<1>5. /\ pc'[r] \in {"done", "refusing"} /\ promise'[r] \in {"none", "open"}
      /\ answer'[r] \in {"REFUSE", "gone"} \/ answer'[r] = answer[r]
  BY DEF FailEffect, IInv, TypeOK
<1>6. QueueEntries'
  <2> SUFFICES ASSUME NEW x \in Reqs, NEW i \in DOMAIN waiting', waiting'[i][1] = x
               PROVE  /\ pc'[x] \notin {"new", "reading", "working"}
                      /\ pc'[x] = "durable" => waiting'[i] = <<x, "decision">>
    BY DEF QueueEntries
  <2>1. CASE x = r
    BY <2>1, <1>5
  <2>2. CASE x # r
    BY <2>2, <1>1, <1>3, <1>4 DEF QueueEntries, IInv
  <2> QED BY <2>1, <2>2
<1>7. OkIsDurable'
  BY <1>4, <1>5 DEF OkIsDurable, OnDisk, FailEffect, IInv
<1>8. FailedClosed'
  BY <1>4, <1>5 DEF FailedClosed, FailEffect, IInv
<1>9. AllowIsDurable'
  BY <1>4, <1>5 DEF AllowIsDurable, OnDisk, FailEffect, IInv
<1>10. DurableAfter'
  <2>1. \A x \in Reqs : x # r => after'[x] = after[x]
    BY DEF FailEffect, IInv, TypeOK
  <2> QED BY <2>1, <1>4, <1>5 DEF DurableAfter, IInv
<1> QED BY <1>2, <1>6, <1>7, <1>8, <1>9, <1>10 DEF IInv
-----------------------------------------------------------------------------
\* The steps that end in fail.
FailStep(r) ==
    /\ FailEffect(r)
    /\ strict' = strict

LEMMA FailSteps ==
    ASSUME NEW r \in Reqs,
           \/ \E b \in BOOLEAN : ArriveRefused(r, b) \/ ArriveSaturated(r, b)
           \/ BodyRejected(r) \/ SubmitRefused(r) \/ WorkerRefused(r)
           \/ DurableRejected(r) \/ RefusalRejected(r)
    PROVE  FailStep(r)
<1>1. ASSUME NEW b \in BOOLEAN, ArriveRefused(r, b) PROVE FailStep(r)
  BY <1>1 DEF ArriveRefused, Fail, Finish, FailEffect, FailStep, Queue!Accept, queueVars
<1>2. ASSUME NEW b \in BOOLEAN, ArriveSaturated(r, b) PROVE FailStep(r)
  BY <1>2 DEF ArriveSaturated, Fail, Finish, FailEffect, FailStep, Queue!Accept, queueVars
<1>3. ASSUME BodyRejected(r) PROVE FailStep(r)
  BY <1>3 DEF BodyRejected, Fail, Finish, FailEffect, FailStep, Queue!Accept, queueVars
<1>4. ASSUME SubmitRefused(r) PROVE FailStep(r)
  BY <1>4 DEF SubmitRefused, Fail, Finish, FailEffect, FailStep, Queue!Accept, queueVars
<1>5. ASSUME WorkerRefused(r) PROVE FailStep(r)
  BY <1>5 DEF WorkerRefused, Fail, Finish, FailEffect, FailStep, Queue!Accept, queueVars
<1>6. ASSUME DurableRejected(r) PROVE FailStep(r)
  BY <1>6 DEF DurableRejected, Fail, Finish, FailEffect, FailStep, Queue!Accept, queueVars
<1>7. ASSUME RefusalRejected(r) PROVE FailStep(r)
  BY <1>7 DEF RefusalRejected, Fail, Finish, FailEffect, FailStep, Queue!Accept, queueVars
<1> QED BY <1>1, <1>2, <1>3, <1>4, <1>5, <1>6, <1>7
-----------------------------------------------------------------------------
\* A step of one handler that leaves the queue alone: r moves on, to where it
\* has nothing in the queue only if it had nothing there.
HandlerStep(r) ==
    /\ \E p \in {"reading", "working", "done"} : pc' = [pc EXCEPT ![r] = p]
    /\ promise' \in {promise, [promise EXCEPT ![r] = "none"]}
    /\ after' \in {after, [after EXCEPT ![r] = "none"]} /\ strict' = strict
    /\ open' = open /\ waiting' = waiting /\ disk' = disk /\ failed' = failed /\ phase' = phase

LEMMA HandlerKeeps ==
    ASSUME IInv, NEW r \in Reqs, HandlerStep(r),
           pc[r] \in {"new", "reading"} \/ pc'[r] = "done",
           answer' \in [Reqs -> {"none", "ALLOW", "REFUSE", "gone"}],
           \A x \in Reqs : strict /\ answer'[x] = "ALLOW" /\ answer[x] # "ALLOW" => OnDisk(<<x, "decision">>)
    PROVE  IInv'
<1>1. \A x \in Reqs : x # r => pc'[x] = pc[x] /\ promise'[x] = promise[x]
  BY DEF HandlerStep, IInv, TypeOK
<1>2. pc'[r] \in {"reading", "working", "done"} /\ promise'[r] \in {promise[r], "none"}
  BY DEF HandlerStep, IInv, TypeOK
<1>3. TypeOK'
  <2>1. pc' \in [Reqs -> {"new", "reading", "working", "durable", "refusing", "done"}]
    BY DEF HandlerStep, IInv, TypeOK
  <2>2. promise' \in [Reqs -> {"none", "open", "ok", "rejected"}]
    BY DEF HandlerStep, IInv, TypeOK
  <2> QED BY <2>1, <2>2 DEF HandlerStep, IInv, TypeOK
<1>4. QueueEntries'
  <2> SUFFICES ASSUME NEW x \in Reqs, NEW i \in DOMAIN waiting, waiting[i][1] = x
               PROVE  /\ pc'[x] \notin {"new", "reading", "working"}
                      /\ pc'[x] = "durable" => waiting[i] = <<x, "decision">>
    BY DEF QueueEntries, HandlerStep
  <2>1. /\ pc[x] \notin {"new", "reading", "working"}
        /\ pc[x] = "durable" => waiting[i] = <<x, "decision">>
    BY DEF QueueEntries, IInv
  <2>2. CASE x = r
    BY <2>1, <2>2, <1>2
  <2>3. CASE x # r
    BY <2>1, <2>3, <1>1
  <2> QED BY <2>2, <2>3
<1>5. OkIsDurable'
  BY <1>1, <1>2 DEF OkIsDurable, OnDisk, HandlerStep, IInv
<1>6. FailedClosed'
  BY <1>1, <1>2 DEF FailedClosed, HandlerStep, IInv
<1>7. AllowIsDurable'
  BY DEF AllowIsDurable, OnDisk, HandlerStep, IInv
<1>8. DurableAfter'
  <2>1. \A x \in Reqs : x # r => after'[x] = after[x]
    BY DEF HandlerStep, IInv, TypeOK
  <2> QED BY <1>1, <1>2, <2>1 DEF DurableAfter, HandlerStep, IInv
<1> QED BY <1>3, <1>4, <1>5, <1>6, <1>7, <1>8 DEF IInv

\* A step that changes neither a handler nor the queue's contents; it may close
\* the queue.
LEMMA OutsideKeeps ==
    ASSUME IInv, pc' = pc, after' = after, promise' = promise, answer' = answer,
           strict' = strict, waiting' = waiting, disk' = disk, failed' = failed,
           open' \in {open, FALSE}, phase' = "draining" => phase = "draining" \/ ~open',
           phase' \in {"up", "draining"} => phase \in {"up", "draining"}
    PROVE  IInv'
<1>1. TypeOK'
  BY DEF IInv, TypeOK
<1>2. QueueEntries' /\ DurableAfter' /\ OkIsDurable' /\ AllowIsDurable'
  BY DEF IInv, QueueEntries, DurableAfter, OkIsDurable, AllowIsDurable, OnDisk
<1>3. FailedClosed'
  <2>1. failed' # "no" \/ phase' = "draining" => ~open'
    <3>1. failed # "no" \/ phase = "draining" => ~open
      BY DEF IInv, FailedClosed
    <3>2. CASE open' = FALSE
      BY <3>2
    <3>3. CASE open' = open
      <4>1. failed # "no" => ~open'
        BY <3>1, <3>3
      <4>2. phase' = "draining" => ~open'
        BY <3>1, <3>3
      <4> QED BY <4>1, <4>2
    <3> QED BY <3>2, <3>3
  <2>2. failed' = "flush" => waiting' = <<>> /\ \A r \in Reqs : promise'[r] # "ok"
    BY DEF IInv, FailedClosed
  <2>3. failed' = "drain" => phase' \notin {"up", "draining"}
    BY DEF IInv, FailedClosed
  <2> QED BY <2>1, <2>2, <2>3 DEF FailedClosed
<1> QED BY <1>1, <1>2, <1>3 DEF IInv

\* The decision's receipt is queued.  In strict_audit the answer waits for it.
LEMMA DecidedKeeps ==
    ASSUME IInv, NEW r \in Reqs, NEW d \in {"ALLOW", "REFUSE"}, Decided(r, d)
    PROVE  IInv'
<1> DEFINE e == <<r, "decision">>
<1>1. e \in Receipts /\ e[1] = r
  BY DEF Receipts
<1>2. /\ pc[r] = "working" /\ open /\ waiting' = Append(waiting, e)
      /\ open' = open /\ disk' = disk /\ failed' = failed /\ strict' = strict /\ phase' = phase
  BY DEF Decided, MayAccept, Queue!Accept
<1>3. waiting \in Seq(Receipts) /\ waiting' \in Seq(Receipts)
  BY <1>1, <1>2, AppendEntries DEF IInv, TypeOK
<1>4. \A i \in DOMAIN waiting' : waiting'[i] = e \/ (i \in DOMAIN waiting /\ waiting'[i] = waiting[i])
  BY <1>1, <1>2, <1>3, AppendEntries
<1>5. \/ /\ strict /\ answer' = answer /\ pc' = [pc EXCEPT ![r] = "durable"]
         /\ after' = [after EXCEPT ![r] = d] /\ promise' = [promise EXCEPT ![r] = "open"]
      \/ /\ ~strict /\ pc' = [pc EXCEPT ![r] = "done"]
         /\ \E sent \in {d, "gone"} : answer' = [answer EXCEPT ![r] = sent]
         /\ after' = [after EXCEPT ![r] = "none"] /\ promise' = promise
  BY DEF Decided, Finish
<1>6. \A x \in Reqs : x # r => pc'[x] = pc[x] /\ promise'[x] = promise[x] /\ answer'[x] = answer[x]
  BY <1>5 DEF IInv, TypeOK
<1>7. pc'[r] \in {"durable", "done"} /\ (pc'[r] = "durable" => promise'[r] = "open")
  BY <1>5 DEF IInv, TypeOK
<1>8. TypeOK'
  <2>1. pc' \in [Reqs -> {"new", "reading", "working", "durable", "refusing", "done"}]
    BY <1>5 DEF IInv, TypeOK
  <2>2. after' \in [Reqs -> {"none", "end", "release", "finally", "catch", "ALLOW", "REFUSE"}]
    BY <1>5 DEF IInv, TypeOK
  <2>3. promise' \in [Reqs -> {"none", "open", "ok", "rejected"}]
    BY <1>5 DEF IInv, TypeOK
  <2>4. answer' \in [Reqs -> {"none", "ALLOW", "REFUSE", "gone"}]
    BY <1>5 DEF IInv, TypeOK
  <2> QED BY <1>2, <1>3, <2>1, <2>2, <2>3, <2>4 DEF IInv, TypeOK
<1>9. QueueEntries'
  <2> SUFFICES ASSUME NEW x \in Reqs, NEW i \in DOMAIN waiting', waiting'[i][1] = x
               PROVE  /\ pc'[x] \notin {"new", "reading", "working"}
                      /\ pc'[x] = "durable" => waiting'[i] = <<x, "decision">>
    BY DEF QueueEntries
  <2>1. CASE waiting'[i] = e
    BY <2>1, <1>1, <1>7
  <2>2. CASE i \in DOMAIN waiting /\ waiting'[i] = waiting[i]
    <3>1. /\ pc[x] \notin {"new", "reading", "working"}
          /\ pc[x] = "durable" => waiting[i] = <<x, "decision">>
      BY <2>2 DEF QueueEntries, IInv
    <3>2. x # r
      BY <3>1, <1>2
    <3> QED BY <3>1, <3>2, <2>2, <1>6
  <2> QED BY <2>1, <2>2, <1>4
<1>10. OkIsDurable'
  BY <1>2, <1>6, <1>7 DEF OkIsDurable, OnDisk, IInv
<1>11. FailedClosed'
  BY <1>2 DEF FailedClosed, IInv
<1>12. AllowIsDurable'
  BY <1>2, <1>5 DEF AllowIsDurable, OnDisk, IInv
<1>13. DurableAfter'
  <2>1. pc'[r] = "durable" => strict' /\ after'[r] = d
    BY <1>2, <1>5 DEF IInv, TypeOK
  <2>2. \A x \in Reqs : x # r => after'[x] = after[x]
    BY <1>5 DEF IInv, TypeOK
  <2> QED BY <2>1, <2>2, <1>2, <1>6 DEF DurableAfter, IInv
<1> QED BY <1>8, <1>9, <1>10, <1>11, <1>12, <1>13 DEF IInv
-----------------------------------------------------------------------------
\* A commit of the k oldest entries of w: they are on disk, the others wait.
LEMMA CommitEntries ==
    ASSUME NEW w \in Seq(Receipts), NEW d \in Seq(Receipts), NEW k \in 1..Len(w)
    PROVE  LET head == SubSeq(w, 1, k)
               rest == SubSeq(w, k + 1, Len(w))
           IN  /\ rest \in Seq(Receipts) /\ d \o head \in Seq(Receipts)
               /\ \A i \in DOMAIN rest : \E j \in DOMAIN w : rest[i] = w[j]
               /\ \A i \in DOMAIN head : \E j \in DOMAIN w : head[i] = w[j]
               /\ \A i \in DOMAIN head : \E j \in DOMAIN (d \o head) : (d \o head)[j] = head[i]
               /\ \A i \in DOMAIN d : \E j \in DOMAIN (d \o head) : (d \o head)[j] = d[i]
<1> DEFINE head == SubSeq(w, 1, k)
           rest == SubSeq(w, k + 1, Len(w))
<1>1. head \in Seq(Receipts) /\ Len(head) = k /\ \A i \in 1..k : head[i] = w[i]
  OBVIOUS
<1>2. rest \in Seq(Receipts) /\ Len(rest) = Len(w) - k /\ \A i \in 1..Len(w) - k : rest[i] = w[i + k]
  OBVIOUS
<1>3. \A i \in DOMAIN rest : \E j \in DOMAIN w : rest[i] = w[j]
  <2> TAKE i \in DOMAIN rest
  <2>1. i \in 1..Len(w) - k
    BY <1>2
  <2>2. i + k \in DOMAIN w
    BY <2>1
  <2> QED BY <2>1, <2>2, <1>2
<1>4. \A i \in DOMAIN head : i \in DOMAIN w /\ head[i] = w[i]
  BY <1>1
<1> HIDE DEF head, rest
<1>5. /\ d \o head \in Seq(Receipts) /\ Len(d \o head) = Len(d) + Len(head)
      /\ \A i \in 1..Len(d) + Len(head) :
            (d \o head)[i] = IF i <= Len(d) THEN d[i] ELSE head[i - Len(d)]
  BY <1>1, ConcatProperties
<1>6. \A i \in DOMAIN d : i \in DOMAIN (d \o head) /\ (d \o head)[i] = d[i]
  BY <1>1, <1>5
<1>7. \A i \in DOMAIN head : Len(d) + i \in DOMAIN (d \o head) /\ (d \o head)[Len(d) + i] = head[i]
  BY <1>1, <1>5
<1>8. QED BY <1>2, <1>3, <1>4, <1>5, <1>6, <1>7 DEF head, rest

LEMMA FlushSucceedsKeeps ==
    ASSUME IInv, NEW k \in 1..MaxBatch, FlushSucceeds(k)
    PROVE  IInv'
<1> DEFINE head == SubSeq(waiting, 1, k)
<1>1. /\ k \in 1..Len(waiting) /\ waiting' = SubSeq(waiting, k + 1, Len(waiting))
      /\ disk' = disk \o head /\ open' = open /\ failed' = failed /\ strict' = strict
      /\ phase' = phase
      /\ pc' = pc /\ after' = after /\ answer' = answer
      /\ promise' = [r \in Reqs |-> IF promise[r] = "open" /\ \E i \in DOMAIN head : head[i][1] = r
                                    THEN "ok" ELSE promise[r]]
  BY DEF FlushSucceeds, Queue!Commit, Tell
<1>2. waiting \in Seq(Receipts) /\ disk \in Seq(Receipts)
  BY DEF IInv, TypeOK
<1>3. /\ waiting' \in Seq(Receipts) /\ disk' \in Seq(Receipts)
      /\ \A i \in DOMAIN waiting' : \E j \in DOMAIN waiting : waiting'[i] = waiting[j]
      /\ \A i \in DOMAIN head : \E j \in DOMAIN waiting : head[i] = waiting[j]
      /\ \A i \in DOMAIN head : \E j \in DOMAIN disk' : disk'[j] = head[i]
      /\ \A i \in DOMAIN disk : \E j \in DOMAIN disk' : disk'[j] = disk[i]
  <2>1. k \in 1..Len(waiting)
    BY <1>1
  <2>2. /\ SubSeq(waiting, k + 1, Len(waiting)) \in Seq(Receipts) /\ disk \o head \in Seq(Receipts)
        /\ \A i \in DOMAIN SubSeq(waiting, k + 1, Len(waiting)) :
              \E j \in DOMAIN waiting : SubSeq(waiting, k + 1, Len(waiting))[i] = waiting[j]
        /\ \A i \in DOMAIN head : \E j \in DOMAIN waiting : head[i] = waiting[j]
        /\ \A i \in DOMAIN head : \E j \in DOMAIN (disk \o head) : (disk \o head)[j] = head[i]
        /\ \A i \in DOMAIN disk : \E j \in DOMAIN (disk \o head) : (disk \o head)[j] = disk[i]
    BY <1>2, <2>1, CommitEntries, Zenon
  <2>3. waiting' = SubSeq(waiting, k + 1, Len(waiting)) /\ disk' = disk \o head
    BY <1>1
  <2> QED BY <2>2, <2>3, Zenon
<1> HIDE DEF head
<1>4. \A receipt : OnDisk(receipt) => OnDisk(receipt)'
  BY <1>3 DEF OnDisk
<1>5. TypeOK'
  <2>1. promise' \in [Reqs -> {"none", "open", "ok", "rejected"}]
    BY <1>1 DEF IInv, TypeOK
  <2> QED BY <2>1, <1>1, <1>3 DEF IInv, TypeOK
<1>6. QueueEntries'
  BY <1>1, <1>3 DEF IInv, QueueEntries
<1>7. OkIsDurable'
  <2> SUFFICES ASSUME NEW r \in Reqs, pc[r] = "durable", promise'[r] = "ok"
               PROVE  OnDisk(<<r, "decision">>)'
    BY <1>1 DEF OkIsDurable, OnDisk
  <2>1. CASE promise[r] = "ok"
    BY <2>1, <1>4 DEF IInv, OkIsDurable
  <2>2. CASE promise[r] # "ok"
    <3>1. PICK i \in DOMAIN head : head[i][1] = r
      BY <2>2, <1>1
    <3>2. PICK j \in DOMAIN waiting : head[i] = waiting[j]
      BY <1>3
    <3>3. head[i] = <<r, "decision">>
      BY <3>1, <3>2 DEF IInv, QueueEntries
    <3> QED BY <3>3, <1>3 DEF OnDisk
  <2> QED BY <2>1, <2>2
<1>8. FailedClosed'
  <2>1. failed # "flush"
    <3>1. failed = "flush" => waiting = <<>>
      BY DEF IInv, FailedClosed
    <3>2. waiting # <<>>
      BY <1>1
    <3> QED BY <3>1, <3>2
  <2> QED BY <2>1, <1>1 DEF IInv, FailedClosed
<1>9. AllowIsDurable'
  BY <1>1, <1>4 DEF IInv, AllowIsDurable
<1>10. DurableAfter'
  BY <1>1 DEF IInv, DurableAfter
<1> QED BY <1>5, <1>6, <1>7, <1>8, <1>9, <1>10 DEF IInv

\* The flush is tried when no promise waits to be taken up: none is resolved.
LEMMA FlushFailsKeeps ==
    ASSUME IInv, FlushFails
    PROVE  IInv'
<1>1. /\ open' = FALSE /\ waiting' = <<>> /\ disk' = disk /\ failed' = "flush"
      /\ strict' = strict /\ pc' = pc /\ after' = after /\ answer' = answer
      /\ promise' = [r \in Reqs |-> IF promise[r] = "open" /\ \E i \in DOMAIN waiting : waiting[i][1] = r
                                    THEN "rejected" ELSE promise[r]]
      /\ \A r \in Reqs : promise[r] \notin {"ok", "rejected"}
  BY DEF FlushFails, Queue!Abandon, Tell, Idle, Settled
<1>2. TypeOK'
  <2>1. promise' \in [Reqs -> {"none", "open", "ok", "rejected"}]
    BY <1>1 DEF IInv, TypeOK
  <2>2. waiting' \in Seq(Receipts)
    BY <1>1
  <2> QED BY <2>1, <2>2, <1>1 DEF IInv, TypeOK
<1>3. QueueEntries'
  <2>1. DOMAIN waiting' = {}
    BY <1>1
  <2> QED BY <2>1 DEF QueueEntries
<1>4. \A r \in Reqs : promise'[r] # "ok"
  BY <1>1
<1>5. OkIsDurable' /\ FailedClosed'
  BY <1>1, <1>4 DEF OkIsDurable, FailedClosed
<1>6. AllowIsDurable'
  BY <1>1 DEF IInv, AllowIsDurable, OnDisk
<1>7. DurableAfter'
  BY <1>1 DEF IInv, DurableAfter
<1> QED BY <1>2, <1>3, <1>5, <1>6, <1>7 DEF IInv

\* The drain is given up while receipts wait, so no flush has failed.
LEMMA DrainGivenUpKeeps ==
    ASSUME IInv, NEW k \in 0..MaxBatch, DrainGivenUp(k)
    PROVE  IInv'
<1>1. /\ phase = "draining" /\ phase' = "stopping" /\ failed' = "drain" /\ open' = open
      /\ waiting' = waiting /\ disk' = disk /\ strict' = strict
      /\ pc' = pc /\ after' = after /\ promise' = promise /\ answer' = answer
  BY DEF DrainGivenUp, handlerVars
<1>2. TypeOK'
  BY <1>1 DEF IInv, TypeOK
<1>3. QueueEntries' /\ DurableAfter' /\ OkIsDurable' /\ AllowIsDurable'
  BY <1>1 DEF IInv, QueueEntries, DurableAfter, OkIsDurable, AllowIsDurable, OnDisk
<1>4. FailedClosed'
  BY <1>1 DEF IInv, FailedClosed
<1> QED BY <1>2, <1>3, <1>4 DEF IInv
-----------------------------------------------------------------------------
LEMMA StepIInv == IInv /\ [Next]_vars => IInv'
<1> SUFFICES ASSUME IInv, [Next]_vars PROVE IInv'
  OBVIOUS
<1>1. ASSUME NEW r \in Reqs, FailStep(r) PROVE IInv'
  BY <1>1, FailKeeps DEF FailStep
<1>2. ASSUME NEW r \in Reqs, NEW b \in BOOLEAN, ArriveRefused(r, b) \/ ArriveSaturated(r, b) PROVE IInv'
  BY <1>1, <1>2, FailSteps
<1>3. ASSUME NEW r \in Reqs,
             BodyRejected(r) \/ SubmitRefused(r) \/ WorkerRefused(r) \/ DurableRejected(r) \/ RefusalRejected(r)
      PROVE  IInv'
  BY <1>1, <1>3, FailSteps
<1>4. ASSUME NEW r \in Reqs, Arrive(r) \/ Submit(r) PROVE IInv'
  <2>1. /\ pc[r] \in {"new", "reading"} /\ answer' = answer
        /\ HandlerStep(r)
    BY <1>4 DEF Arrive, Submit, HandlerStep, queueVars
  <2> QED BY <2>1, HandlerKeeps DEF IInv, TypeOK
<1>5. ASSUME NEW r \in Reqs, RefusalOk(r) PROVE IInv'
  <2>1. /\ HandlerStep(r) /\ \E sent \in {"REFUSE", "gone"} : answer' = [answer EXCEPT ![r] = sent]
        /\ pc' = [pc EXCEPT ![r] = "done"]
    BY <1>5 DEF RefusalOk, Finish, HandlerStep, queueVars
  <2>2. pc'[r] = "done"
    BY <2>1 DEF IInv, TypeOK
  <2>3. answer' \in [Reqs -> {"none", "ALLOW", "REFUSE", "gone"}]
    BY <2>1 DEF IInv, TypeOK
  <2>4. \A x \in Reqs : answer'[x] = "ALLOW" => answer[x] = "ALLOW"
    BY <2>1 DEF IInv, TypeOK
  <2> QED BY <2>1, <2>2, <2>3, <2>4, HandlerKeeps
<1>6. ASSUME NEW r \in Reqs, DurableOk(r) PROVE IInv'
  <2>1. /\ HandlerStep(r) /\ \E sent \in {after[r], "gone"} : answer' = [answer EXCEPT ![r] = sent]
        /\ pc' = [pc EXCEPT ![r] = "done"] /\ pc[r] = "durable" /\ promise[r] = "ok"
    BY <1>6 DEF DurableOk, Finish, HandlerStep, queueVars
  <2>2. pc'[r] = "done"
    BY <2>1 DEF IInv, TypeOK
  <2>3. after[r] \in {"ALLOW", "REFUSE"}
    BY <2>1 DEF IInv, DurableAfter
  <2>4. answer' \in [Reqs -> {"none", "ALLOW", "REFUSE", "gone"}]
    BY <2>1, <2>3 DEF IInv, TypeOK
  <2>5. OnDisk(<<r, "decision">>)
    BY <2>1 DEF IInv, OkIsDurable
  <2>6. \A x \in Reqs : x # r => answer'[x] = answer[x]
    BY <2>1 DEF IInv, TypeOK
  <2> QED BY <2>1, <2>2, <2>4, <2>5, <2>6, HandlerKeeps
<1>7. ASSUME NEW r \in Reqs, NEW d \in {"ALLOW", "REFUSE"}, Decided(r, d) PROVE IInv'
  BY <1>7, DecidedKeeps
<1>8. ASSUME NEW k \in 1..MaxBatch, FlushSucceeds(k) PROVE IInv'
  BY <1>8, FlushSucceedsKeeps
<1>9. CASE FlushFails
  BY <1>9, FlushFailsKeeps
<1>10. ASSUME \/ \E r \in Reqs : RefusalEscapes(r)
              \/ \E found \in {"fatal", "degraded", "well"} : Tick(found)
              \/ Shutdown \/ Exit \/ UNCHANGED vars
       PROVE  IInv'
  <2>1. /\ pc' = pc /\ after' = after /\ promise' = promise /\ answer' = answer
        /\ strict' = strict /\ waiting' = waiting /\ disk' = disk /\ failed' = failed
    BY <1>10 DEF RefusalEscapes, Tick, Shutdown, Exit, Queue!Close, handlerVars, queueVars, vars
  <2>2. open' = open \/ open' = FALSE
    BY <1>10 DEF RefusalEscapes, Tick, Shutdown, Exit, Queue!Close, handlerVars, queueVars, vars
  <2>3. /\ phase' = "draining" => phase = "draining" \/ ~open'
        /\ phase' \in {"up", "draining"} => phase \in {"up", "draining"}
    BY <1>10 DEF RefusalEscapes, Tick, Shutdown, Exit, Queue!Close, handlerVars, queueVars, vars
  <2> QED BY <2>1, <2>2, <2>3, OutsideKeeps
<1>11. ASSUME NEW k \in 0..MaxBatch, DrainGivenUp(k) PROVE IInv'
  BY <1>11, DrainGivenUpKeeps
<1> QED BY <1>2, <1>3, <1>4, <1>5, <1>6, <1>7, <1>8, <1>9, <1>10, <1>11 DEF Next

\* In strict_audit every ALLOW a client holds has its receipt on disk, for any
\* number of requests, limits and batch size, crashes and shutdown included.
THEOREM AllowDurable == Spec => []AllowIsDurable
<1>1. IInv => AllowIsDurable
  BY DEF IInv
<1> QED BY <1>1, InitIInv, StepIInv, PTL DEF Spec

\* Once a flush has failed no handler sends an ALLOW any more: not one that decides
\* then, and not one that was waiting for its receipt. Once the drain was given up,
\* only the handlers do whose receipts the append then running brought to disk.
THEOREM FailureStopsAllows == Spec => NoAllowAfterFailure
<1> DEFINE New(x) == answer'[x] = "ALLOW" /\ answer[x] # "ALLOW"
           OldAllows == failed = "flush" => \A r \in Reqs : answer'[r] = "ALLOW" => answer[r] = "ALLOW"
           LateAllows == failed = "drain" =>
               /\ \A r \in Reqs : answer'[r] = "ALLOW" /\ answer[r] # "ALLOW" => strict /\ OnDisk(<<r, "decision">>)
               /\ disk' # disk => Len(disk') = Len(disk) + lastBatch /\ lastBatch' = 0
<1>1. ASSUME IInv, Next, failed # "no", NEW x \in Reqs, New(x)
      PROVE  strict /\ failed # "flush" /\ OnDisk(<<x, "decision">>)
  <2>1. ~open
    BY <1>1 DEF IInv, FailedClosed
  <2>2. answer \in [Reqs -> {"none", "ALLOW", "REFUSE", "gone"}]
    BY <1>1 DEF IInv, TypeOK
  <2>3. ASSUME NEW r \in Reqs, FailStep(r) PROVE FALSE
    BY <1>1, <2>2, <2>3 DEF FailStep, FailEffect
  <2>4. ASSUME NEW r \in Reqs, NEW b \in BOOLEAN, ArriveRefused(r, b) \/ ArriveSaturated(r, b)
        PROVE  FALSE
    BY <2>3, <2>4, FailSteps
  <2>5. ASSUME NEW r \in Reqs,
               BodyRejected(r) \/ SubmitRefused(r) \/ WorkerRefused(r) \/ DurableRejected(r) \/ RefusalRejected(r)
        PROVE  FALSE
    BY <2>3, <2>5, FailSteps
  <2>6. ASSUME NEW r \in Reqs, NEW d \in {"ALLOW", "REFUSE"}, Decided(r, d) PROVE FALSE
    BY <2>1, <2>6 DEF Decided, MayAccept
  <2>7. ASSUME NEW r \in Reqs, DurableOk(r)
        PROVE  strict /\ failed # "flush" /\ OnDisk(<<x, "decision">>)
    <3>1. pc[r] = "durable" /\ promise[r] = "ok" /\ \E sent : answer' = [answer EXCEPT ![r] = sent]
      BY <2>7 DEF DurableOk, Finish
    <3>2. x = r
      BY <3>1, <2>2, <1>1
    <3>3. failed # "flush"
      BY <1>1, <3>1 DEF IInv, FailedClosed
    <3>4. strict /\ OnDisk(<<r, "decision">>)
      BY <1>1, <3>1 DEF IInv, OkIsDurable, DurableAfter
    <3> QED BY <3>2, <3>3, <3>4
  <2>8. ASSUME NEW r \in Reqs, RefusalOk(r) PROVE FALSE
    BY <1>1, <2>2, <2>8 DEF RefusalOk, Finish
  <2>9. ASSUME \/ \E r \in Reqs : Arrive(r) \/ Submit(r) \/ RefusalEscapes(r)
               \/ \E k \in 1..MaxBatch : FlushSucceeds(k)
               \/ FlushFails \/ Shutdown \/ Exit
               \/ \E k \in 0..MaxBatch : DrainGivenUp(k)
               \/ \E found \in {"fatal", "degraded", "well"} : Tick(found)
        PROVE  FALSE
    <3>1. answer' = answer
      BY <2>9 DEF Arrive, Submit, RefusalEscapes, FlushSucceeds, FlushFails, Shutdown, Exit,
                  DrainGivenUp, Tick, handlerVars
    <3> QED BY <3>1, <1>1
  <2> QED BY <1>1, <2>4, <2>5, <2>6, <2>7, <2>8, <2>9 DEF Next
<1>2. ASSUME IInv, Next, failed = "drain", disk' # disk
      PROVE  Len(disk') = Len(disk) + lastBatch /\ lastBatch' = 0
  <2>1. PICK k \in 1..MaxBatch : FlushSucceeds(k)
    <3>1. ASSUME NEW r \in Reqs, FailStep(r) PROVE disk' = disk
      BY <3>1 DEF FailStep, FailEffect
    <3>2. ASSUME NEW r \in Reqs,
                 \/ \E b \in BOOLEAN : ArriveRefused(r, b) \/ ArriveSaturated(r, b)
                 \/ BodyRejected(r) \/ SubmitRefused(r) \/ WorkerRefused(r)
                 \/ DurableRejected(r) \/ RefusalRejected(r)
          PROVE  disk' = disk
      BY <3>1, <3>2, FailSteps
    <3>3. ASSUME \/ \E r \in Reqs : \/ Arrive(r) \/ Submit(r) \/ DurableOk(r) \/ RefusalOk(r)
                                    \/ RefusalEscapes(r)
                                    \/ \E d \in {"ALLOW", "REFUSE"} : Decided(r, d)
                 \/ FlushFails \/ Shutdown \/ Exit
                 \/ \E k \in 0..MaxBatch : DrainGivenUp(k)
                 \/ \E found \in {"fatal", "degraded", "well"} : Tick(found)
          PROVE  disk' = disk
      BY <3>3 DEF Arrive, Submit, DurableOk, RefusalOk, RefusalEscapes, Decided, FlushFails, Shutdown,
                  Exit, DrainGivenUp, Tick, Queue!Accept, Queue!Abandon, Queue!Close, queueVars
    <3> QED BY <1>2, <3>2, <3>3 DEF Next
  <2>2. phase = "stopping"
    BY <1>2, <2>1 DEF FlushSucceeds, Idle, Running, IInv, FailedClosed
  <2>3. k = lastBatch /\ lastBatch' = 0 /\ k \in 1..Len(waiting) /\ disk' = disk \o SubSeq(waiting, 1, k)
    BY <2>1, <2>2 DEF FlushSucceeds, Queue!Commit
  <2>4. waiting \in Seq(Receipts) /\ disk \in Seq(Receipts)
    BY <1>2 DEF IInv, TypeOK
  <2>5. SubSeq(waiting, 1, k) \in Seq(Receipts) /\ Len(SubSeq(waiting, 1, k)) = k
    BY <2>3, <2>4
  <2>6. Len(disk') = Len(disk) + k
    BY <2>3, <2>4, <2>5, ConcatProperties
  <2> QED BY <2>3, <2>6
<1>3. IInv /\ [Next]_vars => [OldAllows /\ LateAllows]_vars
  BY <1>1, <1>2
<1>4. Spec => []IInv
  BY InitIInv, StepIInv, PTL DEF Spec
<1> QED BY <1>3, <1>4, PTL DEF Spec, NoAllowAfterFailure, OldAllows, LateAllows
-----------------------------------------------------------------------------
(***************************************************************************)
(* The two counters.                                                       *)
(***************************************************************************)
HasSlot(r) == InBody(r) \/ Refusing(r, {"release", "finally", "catch"})
IsInflight(r) == InBody(r) \/ Refusing(r, {"finally", "catch"})
SlotHolders == {r \in Reqs : HasSlot(r)}
InflightHolders == {r \in Reqs : IsInflight(r)}

\* A handler that waits for its refusal remembers what it still has to release,
\* and only finitely many handlers hold anything.
SlotInv ==
    /\ \A r \in Reqs : pc[r] = "refusing" => after[r] \in {"end", "release", "finally", "catch"}
    /\ IsFiniteSet(SlotHolders) /\ IsFiniteSet(InflightHolders)
    /\ SlotsBalanced

One(b) == IF b THEN 1 ELSE 0

\* A step of r's handler, by what it does to the counters.
CountStep(r) ==
    /\ \A x \in Reqs : x # r => pc'[x] = pc[x] /\ after'[x] = after[x]
    /\ pc'[r] = "refusing" => after'[r] \in {"end", "release", "finally", "catch"}
    /\ active' = active + One(HasSlot(r)') - One(HasSlot(r))
    /\ inflight' = inflight + One(IsInflight(r)') - One(IsInflight(r))
    /\ active' <= MaxActive /\ inflight' <= ShedInflight

\* A finite set that gains or loses one element counts one more or less.
LEMMA Recount ==
    ASSUME NEW S, NEW T, NEW r, IsFiniteSet(S), \A x : x # r => (x \in T <=> x \in S)
    PROVE  /\ IsFiniteSet(T)
           /\ Cardinality(T) = Cardinality(S) + One(r \in T) - One(r \in S)
<1>1. Cardinality(S) \in Nat
  BY FS_CardinalityType
<1>2. CASE r \in S /\ r \in T
  <2>1. S = T
    BY <1>2
  <2> QED BY <2>1, <1>1, <1>2 DEF One
<1>3. CASE r \notin S /\ r \notin T
  <2>1. S = T
    BY <1>3
  <2> QED BY <2>1, <1>1, <1>3 DEF One
<1>4. CASE r \in S /\ r \notin T
  <2>1. T = S \ {r}
    BY <1>4
  <2>2. IsFiniteSet(T) /\ Cardinality(T) = Cardinality(S) - 1
    BY <2>1, <1>4, FS_RemoveElement
  <2> QED BY <2>2, <1>1, <1>4 DEF One
<1>5. CASE r \notin S /\ r \in T
  <2>1. T = S \cup {r}
    BY <1>5
  <2>2. IsFiniteSet(T) /\ Cardinality(T) = Cardinality(S) + 1
    BY <2>1, <1>5, FS_AddElement
  <2> QED BY <2>2, <1>1, <1>5 DEF One
<1> QED BY <1>2, <1>3, <1>4, <1>5

LEMMA CountKeeps ==
    ASSUME SlotInv, NEW r \in Reqs, CountStep(r)
    PROVE  SlotInv'
<1>1. \A x \in Reqs : x # r => (HasSlot(x)' <=> HasSlot(x)) /\ (IsInflight(x)' <=> IsInflight(x))
  BY DEF CountStep, HasSlot, IsInflight, InBody, Refusing
<1>2. /\ \A x : x # r => (x \in SlotHolders' <=> x \in SlotHolders)
      /\ \A x : x # r => (x \in InflightHolders' <=> x \in InflightHolders)
  BY <1>1 DEF SlotHolders, InflightHolders
<1>3. /\ IsFiniteSet(SlotHolders')
      /\ Cardinality(SlotHolders') = Cardinality(SlotHolders) + One(r \in SlotHolders') - One(r \in SlotHolders)
  BY <1>2, Recount DEF SlotInv
<1>4. /\ IsFiniteSet(InflightHolders')
      /\ Cardinality(InflightHolders') =
            Cardinality(InflightHolders) + One(r \in InflightHolders') - One(r \in InflightHolders)
  BY <1>2, Recount DEF SlotInv
<1>5. active = Cardinality(SlotHolders) /\ inflight = Cardinality(InflightHolders)
  BY DEF SlotInv, SlotsBalanced, SlotHolders, InflightHolders, HasSlot, IsInflight
<1>6. active' = Cardinality(SlotHolders')
  <2>1. (r \in SlotHolders <=> HasSlot(r)) /\ (r \in SlotHolders' <=> HasSlot(r)')
    BY DEF SlotHolders
  <2>2. One(r \in SlotHolders) = One(HasSlot(r)) /\ One(r \in SlotHolders') = One(HasSlot(r)')
    BY <2>1, Zenon DEF One
  <2> QED BY <1>3, <1>5, <2>2 DEF CountStep
<1>7. inflight' = Cardinality(InflightHolders')
  <2>1. (r \in InflightHolders <=> IsInflight(r)) /\ (r \in InflightHolders' <=> IsInflight(r)')
    BY DEF InflightHolders
  <2>2. One(r \in InflightHolders) = One(IsInflight(r)) /\ One(r \in InflightHolders') = One(IsInflight(r)')
    BY <2>1, Zenon DEF One
  <2> QED BY <1>4, <1>5, <2>2 DEF CountStep
<1>8. SlotsBalanced'
  BY <1>6, <1>7 DEF CountStep, SlotsBalanced, SlotHolders, InflightHolders, HasSlot, IsInflight
<1>9. \A x \in Reqs : pc'[x] = "refusing" => after'[x] \in {"end", "release", "finally", "catch"}
  BY DEF CountStep, SlotInv
<1> QED BY <1>3, <1>4, <1>8, <1>9 DEF SlotInv

\* The facts every step needs of the state it starts from.
LEMMA SlotFacts ==
    ASSUME IInv, SlotInv
    PROVE  /\ pc \in [Reqs -> {"new", "reading", "working", "durable", "refusing", "done"}]
           /\ after \in [Reqs -> {"none", "end", "release", "finally", "catch", "ALLOW", "REFUSE"}]
           /\ active \in Nat /\ inflight \in Nat /\ active <= MaxActive /\ inflight <= ShedInflight
           /\ MaxActive \in Nat /\ ShedInflight \in Nat
<1>1. active = Cardinality(SlotHolders) /\ inflight = Cardinality(InflightHolders)
  BY DEF SlotInv, SlotsBalanced, SlotHolders, InflightHolders, HasSlot, IsInflight
<1>2. active \in Nat /\ inflight \in Nat
  BY <1>1, FS_CardinalityType DEF SlotInv
<1> QED BY <1>2, SidecarAssumption DEF IInv, TypeOK, SlotInv, SlotsBalanced

\* fail, called with what the handler holds, releases it now or when its refusal
\* is on disk.
LEMMA FailCounts ==
    ASSUME IInv, SlotInv, NEW r \in Reqs, NEW how \in {"finally", "catch"},
           Fail(r, how, active, inflight), IsInflight(r)
    PROVE  CountStep(r)
<1>1. \/ /\ pc' = [pc EXCEPT ![r] = "done"] /\ after' = [after EXCEPT ![r] = "none"]
         /\ active' = active - 1 /\ inflight' = inflight - 1
      \/ /\ pc' = [pc EXCEPT ![r] = "refusing"] /\ after' = [after EXCEPT ![r] = how]
         /\ active' = active /\ inflight' = inflight
  BY DEF Fail, Finish
<1>2. HasSlot(r)
  BY DEF HasSlot, IsInflight, Refusing
<1>3. \/ /\ pc'[r] = "done" /\ ~HasSlot(r)' /\ ~IsInflight(r)'
         /\ active' = active - 1 /\ inflight' = inflight - 1
      \/ /\ pc'[r] = "refusing" /\ after'[r] = how /\ HasSlot(r)' /\ IsInflight(r)'
         /\ active' = active /\ inflight' = inflight
  BY <1>1, SlotFacts DEF HasSlot, IsInflight, InBody, Refusing
<1>4. \A x \in Reqs : x # r => pc'[x] = pc[x] /\ after'[x] = after[x]
  BY <1>1, SlotFacts
<1> QED BY <1>2, <1>3, <1>4, SlotFacts DEF CountStep, One

LEMMA CountSteps ==
    ASSUME IInv, SlotInv, NEW r \in Reqs,
           \/ \E b \in BOOLEAN : ArriveRefused(r, b) \/ ArriveSaturated(r, b)
           \/ Arrive(r) \/ BodyRejected(r) \/ SubmitRefused(r) \/ Submit(r) \/ WorkerRefused(r)
           \/ \E d \in {"ALLOW", "REFUSE"} : Decided(r, d)
           \/ DurableOk(r) \/ DurableRejected(r) \/ RefusalOk(r) \/ RefusalRejected(r)
    PROVE  CountStep(r)
<1>1. ASSUME NEW b \in BOOLEAN, ArriveRefused(r, b) PROVE CountStep(r)
  <2>1. ~HasSlot(r) /\ ~IsInflight(r)
    BY <1>1 DEF ArriveRefused, HasSlot, IsInflight, InBody, Refusing
  <2>2. /\ active' = active /\ inflight' = inflight
        /\ \/ pc' = [pc EXCEPT ![r] = "done"] /\ after' = [after EXCEPT ![r] = "none"]
           \/ pc' = [pc EXCEPT ![r] = "refusing"] /\ after' = [after EXCEPT ![r] = "end"]
    BY <1>1 DEF ArriveRefused, Fail, Finish
  <2>3. ~HasSlot(r)' /\ ~IsInflight(r)'
    BY <2>2, SlotFacts DEF HasSlot, IsInflight, InBody, Refusing
  <2>4. \A x \in Reqs : x # r => pc'[x] = pc[x] /\ after'[x] = after[x]
    BY <2>2, SlotFacts
  <2>5. pc'[r] = "refusing" => after'[r] = "end"
    BY <2>2, SlotFacts
  <2> QED BY <2>1, <2>2, <2>3, <2>4, <2>5, SlotFacts DEF CountStep, One
<1>2. ASSUME NEW b \in BOOLEAN, ArriveSaturated(r, b) PROVE CountStep(r)
  <2>1. ~HasSlot(r) /\ ~IsInflight(r) /\ active < MaxActive
    BY <1>2 DEF ArriveSaturated, HasSlot, IsInflight, InBody, Refusing
  <2>2. /\ inflight' = inflight
        /\ \/ pc' = [pc EXCEPT ![r] = "done"] /\ after' = [after EXCEPT ![r] = "none"] /\ active' = (active + 1) - 1
           \/ /\ pc' = [pc EXCEPT ![r] = "refusing"] /\ after' = [after EXCEPT ![r] = "release"]
              /\ active' = active + 1
    BY <1>2 DEF ArriveSaturated, Fail, Finish
  <2>3. /\ ~IsInflight(r)'
        /\ \/ pc'[r] = "done" /\ ~HasSlot(r)' /\ active' = (active + 1) - 1
           \/ HasSlot(r)' /\ active' = active + 1
    BY <2>2, SlotFacts DEF HasSlot, IsInflight, InBody, Refusing
  <2>4. \A x \in Reqs : x # r => pc'[x] = pc[x] /\ after'[x] = after[x]
    BY <2>2, SlotFacts
  <2>5. pc'[r] = "refusing" => after'[r] = "release"
    BY <2>2, SlotFacts
  <2> QED BY <2>1, <2>2, <2>3, <2>4, <2>5, SlotFacts DEF CountStep, One
<1>3. ASSUME Arrive(r) PROVE CountStep(r)
  <2>1. /\ ~HasSlot(r) /\ ~IsInflight(r) /\ active < MaxActive /\ ~(inflight >= ShedInflight)
        /\ pc' = [pc EXCEPT ![r] = "reading"] /\ after' = after
        /\ active' = active + 1 /\ inflight' = inflight + 1
    BY <1>3 DEF Arrive, SystemSaturated, HasSlot, IsInflight, InBody, Refusing
  <2>2. HasSlot(r)' /\ IsInflight(r)' /\ pc'[r] = "reading"
    BY <2>1, SlotFacts DEF HasSlot, IsInflight, InBody
  <2>3. \A x \in Reqs : x # r => pc'[x] = pc[x] /\ after'[x] = after[x]
    BY <2>1, SlotFacts
  <2> QED BY <2>1, <2>2, <2>3, SlotFacts DEF CountStep, One
<1>4. ASSUME BodyRejected(r) \/ SubmitRefused(r) \/ WorkerRefused(r) \/ DurableRejected(r) \/ RefusalRejected(r)
      PROVE  CountStep(r)
  <2>1. IsInflight(r)
    BY <1>4 DEF BodyRejected, SubmitRefused, WorkerRefused, DurableRejected, RefusalRejected,
                IsInflight, InBody, Refusing
  <2>2. Fail(r, "finally", active, inflight) \/ Fail(r, "catch", active, inflight)
    BY <1>4 DEF BodyRejected, SubmitRefused, WorkerRefused, DurableRejected, RefusalRejected
  <2> QED BY <2>1, <2>2, FailCounts
<1>5. ASSUME Submit(r) \/ DurableOk(r) \/ \E d \in {"ALLOW", "REFUSE"} : Decided(r, d)
      PROVE  CountStep(r)
  <2>1. HasSlot(r) /\ IsInflight(r)
    BY <1>5 DEF Submit, Decided, DurableOk, HasSlot, IsInflight, InBody
  <2>2. \/ /\ pc' = [pc EXCEPT ![r] = "done"] /\ after' = [after EXCEPT ![r] = "none"]
           /\ active' = active - 1 /\ inflight' = inflight - 1
        \/ /\ pc' = [pc EXCEPT ![r] = "working"] \/ pc' = [pc EXCEPT ![r] = "durable"]
           /\ \A x \in Reqs : x # r => after'[x] = after[x]
           /\ active' = active /\ inflight' = inflight
    BY <1>5, SlotFacts DEF Submit, Decided, DurableOk, Finish
  <2>3. \/ pc'[r] = "done" /\ ~HasSlot(r)' /\ ~IsInflight(r)' /\ active' = active - 1 /\ inflight' = inflight - 1
        \/ /\ HasSlot(r)' /\ IsInflight(r)' /\ pc'[r] # "refusing"
           /\ active' = active /\ inflight' = inflight
    BY <2>2, SlotFacts DEF HasSlot, IsInflight, InBody, Refusing
  <2>4. \A x \in Reqs : x # r => pc'[x] = pc[x] /\ after'[x] = after[x]
    BY <2>2, SlotFacts
  <2> QED BY <2>1, <2>3, <2>4, SlotFacts DEF CountStep, One
<1>6. ASSUME RefusalOk(r) PROVE CountStep(r)
  <2>1. /\ pc[r] = "refusing" /\ pc' = [pc EXCEPT ![r] = "done"] /\ after' = [after EXCEPT ![r] = "none"]
        /\ active' = IF after[r] = "end" THEN active ELSE active - 1
        /\ inflight' = IF after[r] \in {"finally", "catch"} THEN inflight - 1 ELSE inflight
    BY <1>6 DEF RefusalOk, Finish
  <2>2. after[r] \in {"end", "release", "finally", "catch"}
    BY <2>1 DEF SlotInv
  <2>3. /\ HasSlot(r) <=> after[r] # "end"
        /\ IsInflight(r) <=> after[r] \in {"finally", "catch"}
    BY <2>1, <2>2 DEF HasSlot, IsInflight, InBody, Refusing
  <2>4. pc'[r] = "done" /\ ~HasSlot(r)' /\ ~IsInflight(r)'
    BY <2>1, SlotFacts DEF HasSlot, IsInflight, InBody, Refusing
  <2>5. \A x \in Reqs : x # r => pc'[x] = pc[x] /\ after'[x] = after[x]
    BY <2>1, SlotFacts
  <2> QED BY <2>1, <2>2, <2>3, <2>4, <2>5, SlotFacts DEF CountStep, One
<1> QED BY <1>1, <1>2, <1>3, <1>4, <1>5, <1>6

LEMMA StepSlotInv == IInv /\ SlotInv /\ [Next]_vars => SlotInv'
<1> SUFFICES ASSUME IInv, SlotInv, [Next]_vars PROVE SlotInv'
  OBVIOUS
<1>1. ASSUME NEW r \in Reqs,
             \/ \E b \in BOOLEAN : ArriveRefused(r, b) \/ ArriveSaturated(r, b)
             \/ Arrive(r) \/ BodyRejected(r) \/ SubmitRefused(r) \/ Submit(r) \/ WorkerRefused(r)
             \/ \E d \in {"ALLOW", "REFUSE"} : Decided(r, d)
             \/ DurableOk(r) \/ DurableRejected(r) \/ RefusalOk(r) \/ RefusalRejected(r)
      PROVE  SlotInv'
  <2>1. CountStep(r)
    BY <1>1, CountSteps
  <2> QED BY <2>1, CountKeeps
<1>2. ASSUME \/ \E r \in Reqs : RefusalEscapes(r)
             \/ \E k \in 1..MaxBatch : FlushSucceeds(k)
             \/ FlushFails \/ Shutdown \/ Exit \/ UNCHANGED vars
             \/ \E k \in 0..MaxBatch : DrainGivenUp(k)
             \/ \E found \in {"fatal", "degraded", "well"} : Tick(found)
      PROVE  SlotInv'
  <2>1. pc' = pc /\ after' = after /\ active' = active /\ inflight' = inflight
    BY <1>2 DEF RefusalEscapes, FlushSucceeds, FlushFails, Shutdown, Exit,
              DrainGivenUp, Tick, handlerVars, vars
  <2> QED BY <2>1 DEF SlotInv, SlotsBalanced, SlotHolders, InflightHolders, HasSlot, IsInflight, InBody, Refusing
<1> QED BY <1>1, <1>2 DEF Next

\* For any limits, the admission controller's slots and the inflight count are
\* exactly those of the handlers that still have to release one, on every path
\* through refusals, rejected flushes and the two catch blocks, and never
\* exceed max_active_requests and the shedding threshold.
THEOREM SlotsCounted == Spec => []SlotsBalanced
<1>1. Init => SlotInv
  <2> SUFFICES ASSUME Init PROVE SlotInv
    OBVIOUS
  <2>1. SlotHolders = {} /\ InflightHolders = {}
    BY DEF Init, SlotHolders, InflightHolders, HasSlot, IsInflight, InBody, Refusing
  <2>2. SlotsBalanced
    <3>1. active = 0 /\ inflight = 0
      BY DEF Init
    <3>2. Cardinality(SlotHolders) = 0 /\ Cardinality(InflightHolders) = 0
      BY <2>1, FS_EmptySet
    <3> QED BY <3>1, <3>2, SidecarAssumption
            DEF SlotsBalanced, SlotHolders, InflightHolders, HasSlot, IsInflight
  <2> QED BY <2>1, <2>2, FS_EmptySet DEF Init, SlotInv
<1>2. SlotInv => SlotsBalanced
  BY DEF SlotInv
<1> QED BY <1>1, <1>2, InitIInv, StepIInv, StepSlotInv, PTL DEF Spec
=============================================================================
