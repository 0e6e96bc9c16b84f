------------------------------ MODULE Sidecar -------------------------------
(***************************************************************************)
(* The decision route of the sidecar process (mnde-local-sidecar.mjs):     *)
(* watchdog, admission, saturation, worker pool, receipt queue, response   *)
(* and shutdown, for many requests at once.                                *)
(*                                                                         *)
(* A request's handler is the async function handleDecide; an action is    *)
(* the code it runs between two awaits.  The receipt queue is its abstract *)
(* specification ReceiptLog, the worker pool a service that refuses or     *)
(* answers.  A handler whose promise has settled continues in a microtask, *)
(* before any other event: Settled.  A rejection nobody handles ends the   *)
(* process, as Node.js does by default; the sidecar installs no handler    *)
(* for it.                                                                 *)
(***************************************************************************)
EXTENDS Integers, Sequences, FiniteSets

CONSTANTS
    Reqs,           \* decision requests, each one made once
    MaxActive,      \* max_active_requests
    ShedInflight,   \* the lower of inflight_shed_threshold and max_inflight
    HighWater,      \* queue_high_watermark_items
    MaxItems,       \* max_items of the receipt queue
    MaxBatch        \* max_batch_size of the receipt queue

ASSUME SidecarAssumption ==
    /\ MaxActive \in Nat \ {0} /\ ShedInflight \in Nat \ {0}
    /\ HighWater \in Nat \ {0} /\ MaxItems \in Nat \ {0} /\ MaxBatch \in Nat \ {0}

VARIABLES
    strict,         \* durability_mode is strict_audit, not throughput; constant
    pc,             \* where each handler is
    after,          \* what a handler that waits for its refusal does next
    promise,        \* the durable promise a handler waits for
    answer,         \* the decision sent to the client; "gone" when its connection
                    \* had been destroyed by then
    active,         \* activeRequests of the admission controller
    inflight,       \* inflight
    open, waiting, disk,    \* the receipt queue: see ReceiptLog
    failed,         \* what made the queue fail closed: "no", a "flush", the end of
                    \* the "drain"
    lastBatch,      \* receipts whose append runs when the drain is given up
    degraded, fatal,        \* the watchdog's flags
    phase           \* the process: "up", "draining", "stopping", "exited", "crashed"

handlerVars == <<pc, after, promise, answer, active, inflight>>
queueVars == <<open, waiting, disk, failed, lastBatch>>
watchdogVars == <<degraded, fatal>>
vars == <<strict, handlerVars, queueVars, watchdogVars, phase>>

\* A request's decision receipt, and the sidecar's refusal receipt for it.
Receipts == Reqs \X {"decision", "refusal"}

Queue == INSTANCE ReceiptLog WITH pending <- waiting, log <- disk

Running == phase \in {"up", "draining", "stopping"}

\* A promise has settled and its handler has not run yet.
Settled == \E r \in Reqs : promise[r] \in {"ok", "rejected"}

\* Another event may be taken from the event loop.
Idle == Running /\ ~Settled

Init ==
    /\ strict \in BOOLEAN
    /\ pc = [r \in Reqs |-> "new"]
    /\ after = [r \in Reqs |-> "none"]
    /\ promise = [r \in Reqs |-> "none"]
    /\ answer = [r \in Reqs |-> "none"]
    /\ active = 0 /\ inflight = 0
    /\ open = TRUE /\ waiting = <<>> /\ disk = <<>> /\ failed = "no" /\ lastBatch = 0
    /\ degraded = FALSE /\ fatal = FALSE
    /\ phase = "up"
-----------------------------------------------------------------------------
\* enqueue may accept.  It may also refuse at any time: the queue is limited by
\* bytes too.  What is waiting includes the batch being written, which max_items
\* does not count.
MayAccept == open /\ Len(waiting) < MaxItems + MaxBatch

\* A handler sends its response and is over; how: what it still holds. The client,
\* a time-out or the eviction of idle sockets may have destroyed the connection
\* while it waited: then nothing is sent.
\* "end": nothing; "release": its slot; "finally", "catch": slot and inflight.
Finish(r, decision, how, act, inf) ==
    /\ \E sent \in {decision, "gone"} : answer' = [answer EXCEPT ![r] = sent]
    /\ pc' = [pc EXCEPT ![r] = "done"]
    /\ after' = [after EXCEPT ![r] = "none"]
    /\ active' = IF how = "end" THEN act ELSE act - 1
    /\ inflight' = IF how \in {"finally", "catch"} THEN inf - 1 ELSE inf

\* fail and persistRefusal: queue a refusal receipt; in strict_audit wait for
\* it; then respond.  act and inf are the counters when fail is called.
Fail(r, how, act, inf) ==
    \/ /\ Finish(r, "REFUSE", how, act, inf)
       /\ promise' = [promise EXCEPT ![r] = "none"]
       /\ UNCHANGED queueVars
    \/ /\ MayAccept
       /\ Queue!Accept(<<r, "refusal">>)
       /\ IF strict
          THEN /\ pc' = [pc EXCEPT ![r] = "refusing"]
               /\ after' = [after EXCEPT ![r] = how]
               /\ promise' = [promise EXCEPT ![r] = "open"]
               /\ active' = act /\ inflight' = inf
               /\ UNCHANGED answer
          ELSE /\ Finish(r, "REFUSE", how, act, inf)
               /\ promise' = [promise EXCEPT ![r] = "none"]
       /\ UNCHANGED <<failed, lastBatch>>

\* shouldRefuse; lag is the event loop's, and of what is waiting at most a batch
\* is not counted by the queue's depth.
SystemSaturated(lag) ==
    \/ inflight >= ShedInflight
    \/ lag
    \/ Len(waiting) > HighWater + MaxBatch

\* handleDecide up to the body, for a request the watchdog, the limit of the
\* socket or the admission controller turns away: no slot is taken.
ArriveRefused(r, socketFull) ==
    /\ Idle /\ pc[r] = "new"
    /\ degraded \/ fatal \/ socketFull \/ active >= MaxActive
    /\ Fail(r, "end", active, inflight)
    /\ UNCHANGED <<strict, watchdogVars, phase>>

\* A request that gets a slot and is then shed by the saturation controller.
ArriveSaturated(r, lag) ==
    /\ Idle /\ pc[r] = "new"
    /\ ~degraded /\ ~fatal /\ active < MaxActive
    /\ SystemSaturated(lag)
    /\ Fail(r, "release", active + 1, inflight)
    /\ UNCHANGED <<strict, watchdogVars, phase>>

\* A request that is let in and waits for its body.
Arrive(r) ==
    /\ Idle /\ pc[r] = "new"
    /\ ~degraded /\ ~fatal /\ active < MaxActive
    /\ ~SystemSaturated(FALSE)
    /\ active' = active + 1 /\ inflight' = inflight + 1
    /\ pc' = [pc EXCEPT ![r] = "reading"]
    /\ UNCHANGED <<after, promise, answer, queueVars, watchdogVars, phase, strict>>

\* The body is too large, not a strict JSON object, or cut off: the catch block.
BodyRejected(r) ==
    /\ Idle /\ pc[r] = "reading"
    /\ Fail(r, "catch", active, inflight)
    /\ UNCHANGED <<strict, watchdogVars, phase>>

\* The body is read and the worker pool refuses the task.
SubmitRefused(r) ==
    /\ Idle /\ pc[r] = "reading"
    /\ Fail(r, "finally", active, inflight)
    /\ UNCHANGED <<strict, watchdogVars, phase>>

\* The body is read and the worker pool takes the task.
Submit(r) ==
    /\ Idle /\ pc[r] = "reading"
    /\ pc' = [pc EXCEPT ![r] = "working"]
    /\ UNCHANGED <<after, promise, answer, active, inflight, queueVars, watchdogVars, phase, strict>>

\* The pool reports a failure or a timeout, the pipeline stopped in preflight, an
\* ALLOW is not signed, or the receipt queue does not take the receipt: a refusal,
\* whatever the decision was.
WorkerRefused(r) ==
    /\ Idle /\ pc[r] = "working"
    /\ Fail(r, "finally", active, inflight)
    /\ UNCHANGED <<strict, watchdogVars, phase>>

\* Mutant: strict_audit responds without waiting.
DecidedEarly(r, decision) ==
    /\ Idle /\ pc[r] = "working"
    /\ MayAccept
    /\ Queue!Accept(<<r, "decision">>)
    /\ Finish(r, decision, "finally", active, inflight)
    /\ UNCHANGED <<promise, failed, lastBatch, watchdogVars, phase, strict>>

\* The pipeline decided and the receipt is queued; strict_audit waits for it.
Decided(r, decision) ==
    /\ Idle /\ pc[r] = "working"
    /\ MayAccept
    /\ Queue!Accept(<<r, "decision">>)
    /\ IF strict
       THEN /\ pc' = [pc EXCEPT ![r] = "durable"]
            /\ after' = [after EXCEPT ![r] = decision]
            /\ promise' = [promise EXCEPT ![r] = "open"]
            /\ UNCHANGED <<answer, active, inflight>>
       ELSE /\ Finish(r, decision, "finally", active, inflight)
            /\ UNCHANGED promise
    /\ UNCHANGED <<failed, lastBatch, watchdogVars, phase, strict>>

\* The receipt is durable: the decision is sent.
DurableOk(r) ==
    /\ Running /\ pc[r] = "durable" /\ promise[r] = "ok"
    /\ Finish(r, after[r], "finally", active, inflight)
    /\ promise' = [promise EXCEPT ![r] = "none"]
    /\ UNCHANGED <<queueVars, watchdogVars, phase, strict>>

\* Mutant: the error of the flush is swallowed.
DurableRejectedIgnored(r) ==
    /\ Running /\ pc[r] = "durable" /\ promise[r] = "rejected"
    /\ Finish(r, after[r], "finally", active, inflight)
    /\ promise' = [promise EXCEPT ![r] = "none"]
    /\ UNCHANGED <<queueVars, watchdogVars, phase, strict>>

\* The flush failed: the catch block refuses.
DurableRejected(r) ==
    /\ Running /\ pc[r] = "durable" /\ promise[r] = "rejected"
    /\ Fail(r, "catch", active, inflight)
    /\ UNCHANGED <<strict, watchdogVars, phase>>

\* The refusal receipt is durable: the refusal is sent.
RefusalOk(r) ==
    /\ Running /\ pc[r] = "refusing" /\ promise[r] = "ok"
    /\ Finish(r, "REFUSE", after[r], active, inflight)
    /\ promise' = [promise EXCEPT ![r] = "none"]
    /\ UNCHANGED <<queueVars, watchdogVars, phase, strict>>

\* Its flush failed inside the try block: the catch block refuses again.
RefusalRejected(r) ==
    /\ Running /\ pc[r] = "refusing" /\ promise[r] = "rejected"
    /\ after[r] = "finally"
    /\ Fail(r, "catch", active, inflight)
    /\ UNCHANGED <<strict, watchdogVars, phase>>

\* Its flush failed before the try block or in the catch block: the handler's
\* own promise is rejected, and nobody handles that.
RefusalEscapes(r) ==
    /\ Running /\ pc[r] = "refusing" /\ promise[r] = "rejected"
    /\ after[r] \in {"end", "release", "catch"}
    /\ phase' = "crashed"
    /\ UNCHANGED <<strict, handlerVars, queueVars, watchdogVars>>
-----------------------------------------------------------------------------
\* Mutant: only the first receipt's handler is told.
TellFirst(s, result) ==
    promise' = [r \in Reqs |->
        IF promise[r] = "open" /\ s[1][1] = r THEN result ELSE promise[r]]

\* The handlers of the receipts in s learn the result.
Tell(s, result) ==
    promise' = [r \in Reqs |->
        IF promise[r] = "open" /\ \E i \in DOMAIN s : s[i][1] = r
        THEN result ELSE promise[r]]

\* A batch is appended. Once the drain has ended no other append is started.
FlushSucceeds(k) ==
    /\ Idle /\ k \in 1..Len(waiting) /\ k <= MaxBatch
    /\ phase = "stopping" => k = lastBatch
    /\ lastBatch' = 0
    /\ Queue!Commit(k)
    /\ Tell(SubSeq(waiting, 1, k), "ok")
    /\ UNCHANGED <<pc, after, answer, active, inflight, failed, watchdogVars, phase, strict>>

\* A flush fails or times out: every receipt that waits is rejected.  In
\* throughput mode no handler waits, so the rejections are unhandled.
FlushFails ==
    /\ Idle /\ waiting # <<>>
    /\ phase = "stopping" => lastBatch > 0
    /\ Queue!Abandon
    /\ failed' = "flush" /\ lastBatch' = 0
    /\ Tell(waiting, "rejected")
    /\ phase' = IF strict THEN phase ELSE "crashed"
    /\ UNCHANGED <<strict, pc, after, answer, active, inflight, watchdogVars>>

\* The watchdog's tick, by what it finds: the fatal flag is never taken back.
Tick(found) ==
    /\ Idle /\ phase = "up"
    /\ fatal' = (fatal \/ found = "fatal")
    /\ degraded' = CASE found \in {"fatal", "degraded"} -> TRUE
                     [] found = "well" /\ failed = "no" -> FALSE
                     [] OTHER -> degraded
    /\ UNCHANGED <<strict, handlerVars, queueVars, phase>>

\* A signal: the watchdog and the server stop, the queue takes nothing more.
Shutdown ==
    /\ Idle /\ phase = "up"
    /\ phase' = "draining"
    /\ Queue!Close
    /\ UNCHANGED <<strict, handlerVars, failed, lastBatch, watchdogVars>>

\* The deadline has passed: the queue fails closed and shutdown goes on. An append
\* of the k oldest receipts may be running, and still ends.
DrainGivenUp(k) ==
    /\ Idle /\ phase = "draining" /\ waiting # <<>>
    /\ k \in 0..Len(waiting) /\ k <= MaxBatch
    /\ phase' = "stopping"
    /\ failed' = "drain" /\ lastBatch' = k
    /\ UNCHANGED <<strict, handlerVars, open, waiting, disk, watchdogVars>>

\* The queue has drained or the drain was given up; the pool has stopped and the
\* sockets are closed: process.exit.
Exit ==
    /\ Idle
    /\ (phase = "draining" /\ waiting = <<>>) \/ phase = "stopping"
    /\ phase' = "exited"
    /\ UNCHANGED <<strict, handlerVars, queueVars, watchdogVars>>

Next ==
    \/ \E r \in Reqs, b \in BOOLEAN : ArriveRefused(r, b) \/ ArriveSaturated(r, b)
    \/ \E r \in Reqs : Arrive(r) \/ BodyRejected(r) \/ SubmitRefused(r) \/ Submit(r)
    \/ \E r \in Reqs : WorkerRefused(r)
    \/ \E r \in Reqs, d \in {"ALLOW", "REFUSE"} : Decided(r, d)
    \/ \E r \in Reqs : DurableOk(r) \/ DurableRejected(r)
    \/ \E r \in Reqs : RefusalOk(r) \/ RefusalRejected(r) \/ RefusalEscapes(r)
    \/ \E k \in 1..MaxBatch : FlushSucceeds(k)
    \/ FlushFails
    \/ \E found \in {"fatal", "degraded", "well"} : Tick(found)
    \/ Shutdown
    \/ \E k \in 0..MaxBatch : DrainGivenUp(k)
    \/ Exit

Spec == Init /\ [][Next]_vars

\* The body arrives or the request timeout cuts it off, the pool answers every
\* task (WorkerPool), the queue settles every receipt or its shutdown returns
\* (ReceiptQueue), the pool and the sockets end (WorkerPool, SidecarHttp), and
\* microtasks run.
Fairness ==
    /\ \A r \in Reqs :
        /\ WF_vars(BodyRejected(r) \/ SubmitRefused(r) \/ Submit(r))
        /\ WF_vars(WorkerRefused(r) \/ \E d \in {"ALLOW", "REFUSE"} : Decided(r, d))
        /\ WF_vars(DurableOk(r) \/ DurableRejected(r))
        /\ WF_vars(RefusalOk(r) \/ RefusalRejected(r) \/ RefusalEscapes(r))
    /\ WF_vars(FlushFails \/ \E k \in 1..MaxBatch : FlushSucceeds(k))
    /\ WF_vars(Exit)

LiveSpec == Spec /\ Fairness
-----------------------------------------------------------------------------
OnDisk(receipt) == \E i \in DOMAIN disk : disk[i] = receipt

InBody(r) == pc[r] \in {"reading", "working", "durable"}
Refusing(r, holds) == pc[r] = "refusing" /\ after[r] \in holds

\* The admission slots and the inflight count are exactly those of the handlers
\* that have them, on every path through refusals, errors and waits, and within
\* the limits; so when no handler runs, none is left taken.
SlotsBalanced ==
    /\ active = Cardinality({r \in Reqs : InBody(r) \/ Refusing(r, {"release", "finally", "catch"})})
    /\ inflight = Cardinality({r \in Reqs : InBody(r) \/ Refusing(r, {"finally", "catch"})})
    /\ active <= MaxActive /\ inflight <= ShedInflight

\* In strict_audit no client ever holds an ALLOW whose receipt is not on disk,
\* even after the process has crashed or exited.
AllowIsDurable ==
    strict => \A r \in Reqs : answer[r] = "ALLOW" => OnDisk(<<r, "decision">>)

\* Once a flush has failed, no client is told ALLOW any more. Once the drain was
\* given up, which fails the queue closed as well, only those are whose receipt the
\* append then running brings to disk: nothing that waits behind it gets there
\* (flush, shutdown, handleDecide).
NoAllowAfterFailure ==
    [][/\ failed = "flush" => \A r \in Reqs : answer'[r] = "ALLOW" => answer[r] = "ALLOW"
       /\ failed = "drain" =>
            /\ \A r \in Reqs : answer'[r] = "ALLOW" /\ answer[r] # "ALLOW" => strict /\ OnDisk(<<r, "decision">>)
            /\ disk' # disk => Len(disk') = Len(disk) + lastBatch /\ lastBatch' = 0]_vars

\* Every handler comes to its end, where it has answered unless the connection was
\* gone, or the process ends.
EventuallyOver ==
    \A r \in Reqs : (pc[r] # "new") ~> (answer[r] # "none" \/ ~Running)

\* docs/SIDECAR_RUNTIME_STABILITY_HARDENING.md: on a flush failure the queue
\* fails closed and readiness reports it, so the process is there to report.
FlushFailureReported == failed = "flush" => (Running \/ phase = "exited")
=============================================================================
