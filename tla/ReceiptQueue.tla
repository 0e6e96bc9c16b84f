---------------------------- MODULE ReceiptQueue ----------------------------
(***************************************************************************)
(* ReceiptPersistenceQueue (sidecar/receipt_persistence_queue.mjs): the    *)
(* bounded in-memory queue between the decision handlers and the JSONL     *)
(* receipt file.                                                           *)
(*                                                                         *)
(* Everything runs on one event loop.  An action is one callback: a call   *)
(* of enqueue, the batch timer, the settlement of the append that races    *)
(* the flush timeout, the .finally of that chain, one turn of the shutdown *)
(* loop.  Between the settlement and its .finally only microtasks run, so  *)
(* timers and the shutdown loop wait, but a handler resumed by the settled *)
(* promise may call enqueue.  The append itself runs in the thread pool:   *)
(* it outlives a timeout, and it may be cut short by an error or by the    *)
(* end of the process, leaving part of a line behind.                      *)
(***************************************************************************)
EXTENDS Integers, Sequences, FiniteSets, SequencesExt

CONSTANTS
    Receipts,       \* receipts handed to enqueue, each one once
    ByteLength,     \* bytes of a receipt's line
    MaxItems,       \* max_items
    MaxBytes,       \* max_bytes
    MaxBatchSize,   \* max_batch_size
    MaxRestarts     \* bound on process lives after the first

ASSUME ConfigAssumption ==
    /\ MaxItems \in Nat \ {0}
    /\ MaxBytes \in Nat \ {0}
    /\ MaxBatchSize \in 1..MaxItems
    /\ MaxRestarts \in Nat

ASSUME ReceiptAssumption == ByteLength \in [Receipts -> Nat \ {0}]

VARIABLES
    queue,          \* #queue
    queuedBytes,    \* #queuedBytes
    timer,          \* #timer is armed
    stage,          \* the flush chain: "idle", "writing", "settled"
    batch,          \* the batch the running flush took from the queue
    late,           \* the batch of an append that lost against the timeout
    started,        \* #started
    closed,         \* #closed
    failClosed,     \* #failClosedReason is set
    drain,          \* shutdown(): "none", "first", "waiting" or "done"
    outcome,        \* what enqueue or the durable promise told the caller
    resolved,       \* the receipts reported durable, in that order, ever
    file,           \* the receipt file: lines, and torn pieces of lines
    restarts        \* process lives so far

vars == <<queue, queuedBytes, timer, stage, batch, late, started, closed,
          failClosed, drain, outcome, resolved, file, restarts>>

flushVars == <<queue, queuedBytes, timer, stage, batch>>

Outcomes == {"new", "refused", "pending", "durable", "rejected", "lost"}

Line == [receipt : Receipts, whole : BOOLEAN]

flushActive == stage # "idle"

\* Accepted receipts whose durable promise is unsettled, oldest first.
Pending == batch \o queue

TotalBytes(s) == FoldSeq(LAMBDA r, sum : ByteLength[r] + sum, 0, s)

Lines(s) == [i \in 1..Len(s) |-> [receipt |-> s[i], whole |-> TRUE]]

\* What an append of s that stops early has put on disk: some whole lines,
\* and possibly the beginning of the next one.
CutShort(s) ==
    {Lines(SubSeq(s, 1, k)) : k \in 0..Len(s)} \cup
    {Append(Lines(SubSeq(s, 1, k - 1)), [receipt |-> s[k], whole |-> FALSE]) :
        k \in 1..Len(s)}

\* shutdown's deadline lies one flush_timeout_ms after its call, so the flush
\* that runs when its loop first sleeps ("first") is over before the deadline.
AfterFirstFlush == IF drain = "first" THEN "waiting" ELSE drain

Settle(s, result) ==
    outcome' = [r \in Receipts |-> IF r \in Range(s) THEN result ELSE outcome[r]]
-----------------------------------------------------------------------------
Init ==
    /\ queue = <<>>
    /\ queuedBytes = 0
    /\ timer = FALSE
    /\ stage = "idle"
    /\ batch = <<>>
    /\ late = <<>>
    /\ started = FALSE
    /\ closed = FALSE
    /\ failClosed = FALSE
    /\ drain = "none"
    /\ outcome = [r \in Receipts |-> "new"]
    /\ resolved = <<>>
    /\ file = <<>>
    /\ restarts = 0

Start ==
    /\ ~started
    /\ started' = TRUE
    /\ UNCHANGED <<flushVars, late, closed, failClosed, drain, outcome,
                   resolved, file, restarts>>

\* splice(0, max_batch_size): what it takes from a queue, and what it leaves.
BatchCount(q) == IF Len(q) < MaxBatchSize THEN Len(q) ELSE MaxBatchSize
Taken(q) == SubSeq(q, 1, BatchCount(q))
Rest(q) == SubSeq(q, BatchCount(q) + 1, Len(q))

\* Mutants of Flush: one receipt is skipped; splice takes one more than the
\* batch limit; the newest receipts are taken instead of the oldest.
FlushSkipsOne(q, bytes) ==
    /\ batch' = Taken(q)
    /\ queue' = SubSeq(q, BatchCount(q) + 2, Len(q))
    /\ queuedBytes' = TotalBytes(queue')
    /\ timer' = FALSE
    /\ stage' = "writing"

FlushTakesOneMore(q, bytes) ==
    /\ batch' = IF Len(q) > MaxBatchSize THEN SubSeq(q, 1, MaxBatchSize + 1) ELSE q
    /\ queue' = SubSeq(q, MaxBatchSize + 2, Len(q))
    /\ queuedBytes' = TotalBytes(queue')
    /\ timer' = FALSE
    /\ stage' = "writing"

FlushNewest(q, bytes) ==
    /\ batch' = SubSeq(q, Len(q) - BatchCount(q) + 1, Len(q))
    /\ queue' = SubSeq(q, 1, Len(q) - BatchCount(q))
    /\ queuedBytes' = bytes - TotalBytes(batch')
    /\ timer' = FALSE
    /\ stage' = "writing"

\* flush() past its early return: q and bytes are the queue as flush finds it.
Flush(q, bytes) ==
    /\ batch' = Taken(q)
    /\ queue' = Rest(q)
    /\ queuedBytes' = bytes - TotalBytes(Taken(q))
    /\ timer' = FALSE
    /\ stage' = "writing"

\* enqueue's first return: not started, closed or failed closed.
EnqueueRefused(r) ==
    /\ outcome[r] = "new"
    /\ ~started \/ closed \/ failClosed
    /\ outcome' = [outcome EXCEPT ![r] = "refused"]
    /\ UNCHANGED <<flushVars, late, started, closed, failClosed, drain,
                   resolved, file, restarts>>

\* The queue is at one of its two limits.
Saturated(r) ==
    \/ Len(queue) >= MaxItems
    \/ queuedBytes + ByteLength[r] > MaxBytes

EnqueueSaturated(r) ==
    /\ outcome[r] = "new"
    /\ started /\ ~closed /\ ~failClosed
    /\ Saturated(r)
    /\ outcome' = [outcome EXCEPT ![r] = "refused"]
    /\ UNCHANGED <<flushVars, late, started, closed, failClosed, drain,
                   resolved, file, restarts>>

\* enqueue accepts, and starts a flush or arms the batch timer before it
\* returns; a full batch that finds a flush running waits for its .finally.
EnqueueAccepted(r) ==
    /\ outcome[r] = "new"
    /\ started /\ ~closed /\ ~failClosed
    /\ ~Saturated(r)
    /\ outcome' = [outcome EXCEPT ![r] = "pending"]
    /\ LET q     == Append(queue, r)
           bytes == queuedBytes + ByteLength[r]
       IN  \/ /\ Len(q) >= MaxBatchSize
              /\ ~flushActive
              /\ Flush(q, bytes)
           \/ /\ Len(q) < MaxBatchSize \/ flushActive
              /\ queue' = q
              /\ queuedBytes' = bytes
              /\ timer' = (timer \/ Len(q) < MaxBatchSize)
              /\ UNCHANGED <<stage, batch>>
    /\ UNCHANGED <<late, started, closed, failClosed, drain, resolved, file,
                   restarts>>

\* The batch timer: #timer is null again before flush is called.
TimerFires ==
    /\ timer
    /\ stage # "settled"
    /\ IF flushActive \/ queue = <<>>
       THEN timer' = FALSE /\ UNCHANGED <<queue, queuedBytes, stage, batch>>
       ELSE Flush(queue, queuedBytes)
    /\ UNCHANGED <<late, started, closed, failClosed, drain, outcome, resolved,
                   file, restarts>>

\* The append wins the race: .then resolves the batch.
AppendSucceeds ==
    /\ stage = "writing"
    /\ file' = file \o Lines(batch)
    /\ Settle(batch, "durable")
    /\ resolved' = resolved \o batch
    /\ stage' = "settled"
    /\ batch' = <<>>
    /\ drain' = AfterFirstFlush
    /\ UNCHANGED <<queue, queuedBytes, timer, late, started, closed, failClosed,
                   restarts>>

\* .catch: the batch and everything queued behind it is rejected.
FailClosed ==
    /\ failClosed' = TRUE
    /\ Settle(Pending, "rejected")
    /\ queue' = <<>>
    /\ queuedBytes' = 0
    /\ stage' = "settled"
    /\ batch' = <<>>
    /\ drain' = AfterFirstFlush
    /\ UNCHANGED <<timer, started, closed, resolved, restarts>>

AppendFails ==
    /\ stage = "writing"
    /\ \E piece \in CutShort(batch) : file' = file \o piece
    /\ FailClosed
    /\ UNCHANGED late

\* Mutant of FlushTimeout: the batch is rejected but the queue stays open.
FlushTimeoutOpen ==
    /\ stage = "writing"
    /\ late' = batch
    /\ Settle(batch, "rejected")
    /\ stage' = "settled"
    /\ batch' = <<>>
    /\ drain' = AfterFirstFlush
    /\ UNCHANGED <<queue, queuedBytes, timer, started, closed, failClosed,
                   resolved, file, restarts>>

\* flush_timeout_ms passes first; the append is not cancelled.
FlushTimeout ==
    /\ stage = "writing"
    /\ late' = batch
    /\ FailClosed
    /\ UNCHANGED file

\* The abandoned append ends, nobody listens.
LateAppendEnds ==
    /\ late # <<>>
    /\ \E piece \in CutShort(late) : file' = file \o piece
    /\ late' = <<>>
    /\ UNCHANGED <<flushVars, started, closed, failClosed, drain, outcome,
                   resolved, restarts>>

\* Mutants of FlushFinally: receipts that arrived during the flush get no timer;
\* #flushActive is not reset after a success.
FlushFinallyForgets ==
    /\ stage = "settled"
    /\ stage' = "idle"
    /\ UNCHANGED <<queue, queuedBytes, timer, batch, late, started, closed,
                   failClosed, drain, outcome, resolved, file, restarts>>

FlushFinallyStaysActive ==
    /\ stage = "settled"
    /\ failClosed
    /\ stage' = "idle"
    /\ UNCHANGED <<queue, queuedBytes, timer, batch, late, started, closed,
                   failClosed, drain, outcome, resolved, file, restarts>>

\* .finally: flush again, or arm the timer, for what arrived meanwhile.
FlushFinally ==
    /\ stage = "settled"
    /\ IF ~failClosed /\ Len(queue) >= MaxBatchSize
       THEN Flush(queue, queuedBytes)
       ELSE /\ stage' = "idle"
            /\ timer' = (timer \/ (~failClosed /\ queue # <<>> /\ ~closed))
            /\ UNCHANGED <<queue, queuedBytes, batch>>
    /\ UNCHANGED <<late, started, closed, failClosed, drain, outcome, resolved,
                   file, restarts>>
-----------------------------------------------------------------------------
\* Mutant: the shutdown loop waits for an empty queue but never flushes.
DrainTurnOnlyWaits(sleeping) ==
    /\ drain' = IF queue = <<>> /\ ~flushActive THEN "done" ELSE sleeping
    /\ UNCHANGED <<queue, queuedBytes, stage, batch>>

\* One test of shutdown's loop condition, with the flush of its body.
DrainTurn(sleeping) ==
    \/ /\ queue = <<>> /\ ~flushActive
       /\ drain' = "done"
       /\ UNCHANGED <<queue, queuedBytes, stage, batch>>
    \/ /\ queue # <<>> /\ ~flushActive
       /\ drain' = sleeping
       /\ Flush(queue, queuedBytes)
    \/ /\ flushActive
       /\ drain' = sleeping
       /\ UNCHANGED <<queue, queuedBytes, stage, batch>>

\* shutdown() up to the first sleep of its loop.
Shutdown ==
    /\ started /\ drain = "none"
    /\ stage # "settled"
    /\ closed' = TRUE
    /\ timer' = FALSE
    /\ DrainTurn("first")
    /\ UNCHANGED <<late, started, failClosed, outcome, resolved, file, restarts>>

\* A later turn of the loop, before the deadline.  While the first flush runs
\* the turns change nothing.
ShutdownPoll ==
    /\ drain = "waiting"
    /\ stage # "settled"
    /\ timer' = FALSE
    /\ DrainTurn("waiting")
    /\ UNCHANGED <<late, started, closed, failClosed, outcome, resolved, file,
                   restarts>>

\* A turn after the deadline: the loop is left with receipts outstanding.
ShutdownDeadline ==
    /\ drain = "waiting"
    /\ stage # "settled"
    /\ queue # <<>> \/ flushActive
    /\ failClosed' = TRUE
    /\ drain' = "done"
    /\ UNCHANGED <<flushVars, late, started, closed, outcome, resolved, file,
                   restarts>>

\* The process ends, by a crash or by process.exit, and is started again.  The
\* running append, if any, is cut short; the next life appends to the file.
Restart ==
    /\ restarts < MaxRestarts
    /\ restarts' = restarts + 1
    /\ \E piece \in CutShort(IF stage = "writing" THEN batch ELSE late) :
          file' = file \o piece
    /\ Settle(Pending, "lost")
    /\ queue' = <<>> /\ queuedBytes' = 0 /\ timer' = FALSE
    /\ stage' = "idle" /\ batch' = <<>> /\ late' = <<>>
    /\ started' = FALSE /\ closed' = FALSE /\ failClosed' = FALSE
    /\ drain' = "none"
    /\ UNCHANGED resolved

Next ==
    \/ Start
    \/ \E r \in Receipts :
          EnqueueRefused(r) \/ EnqueueSaturated(r) \/ EnqueueAccepted(r)
    \/ TimerFires
    \/ AppendSucceeds \/ AppendFails \/ FlushTimeout \/ LateAppendEnds
    \/ FlushFinally
    \/ Shutdown \/ ShutdownPoll \/ ShutdownDeadline
    \/ Restart

Spec == Init /\ [][Next]_vars

\* The event loop runs every due callback, and the flush timeout bounds every
\* append; nothing makes a caller enqueue, an operator stop the sidecar, or a
\* deadline pass before the queue is empty.
Fairness ==
    /\ WF_vars(TimerFires)
    /\ WF_vars(AppendSucceeds \/ AppendFails \/ FlushTimeout)
    /\ WF_vars(FlushFinally)
    /\ WF_vars(ShutdownPoll)

LiveSpec == Spec /\ Fairness
-----------------------------------------------------------------------------
\* Types, and the limits enqueue and flush keep: the queue never holds more
\* than max_items and a batch never more than max_batch_size receipts.
TypeOK ==
    /\ queue \in Seq(Receipts) /\ Len(queue) <= MaxItems
    /\ batch \in Seq(Receipts) /\ Len(batch) <= MaxBatchSize
    /\ late \in Seq(Receipts)
    /\ timer \in BOOLEAN /\ started \in BOOLEAN
    /\ closed \in BOOLEAN /\ failClosed \in BOOLEAN
    /\ stage \in {"idle", "writing", "settled"}
    /\ drain \in {"none", "first", "waiting", "done"}
    /\ outcome \in [Receipts -> Outcomes]
    /\ resolved \in Seq(Receipts)
    /\ file \in Seq(Line)
    /\ restarts \in 0..MaxRestarts

\* A receipt waits for its promise exactly while it is in the running batch or
\* in the queue, and it is there once: no accepted receipt is misplaced.
PendingTracked ==
    /\ \A r \in Receipts : outcome[r] = "pending" <=> r \in Range(Pending)
    /\ \A i, j \in DOMAIN Pending : Pending[i] = Pending[j] => i = j

\* While the queue is in service, queued receipts always have something that
\* will flush them: the timer, a running flush, or the shutdown loop.
NoStranded ==
    (queue # <<>> /\ ~failClosed) => (timer \/ flushActive \/ drain = "waiting")

\* Two appends to the receipt file never run at the same time, although a
\* timed-out append goes on in the background.
SingleAppend == late # <<>> => stage # "writing" /\ failClosed

\* The queue keeps the promise of ReceiptLog.
Log == INSTANCE ReceiptLog WITH
          open <- started /\ ~closed /\ ~failClosed,
          pending <- Pending,
          log <- resolved
ImplementsReceiptLog == Log!LogSpec
-----------------------------------------------------------------------------
\* Every accepted receipt is settled, unless shutdown ran into its deadline.
EventuallySettled ==
    \A r \in Receipts :
        outcome[r] = "pending" ~> (outcome[r] # "pending" \/ drain = "done")

\* A shutdown returns, unless the process is ended before.
ShutdownReturns == closed ~> (drain = "done" \/ ~closed)

\* docs/SIDECAR_PRODUCTION_LATENCY_SCALING.md:39, "No receipts are silently
\* dropped": when shutdown returns, every accepted receipt has been handed to an
\* append or been rejected; none is left in the queue with its promise open.
NoSilentDrop == drain = "done" => queue = <<>>

\* A receipt reported durable can be read back: its line is whole, and it does
\* not continue a torn line that an earlier failed append left without newline.
DurableReadable ==
    \A i \in DOMAIN file :
        (file[i].whole /\ outcome[file[i].receipt] = "durable" /\ i > 1)
            => file[i - 1].whole
=============================================================================
