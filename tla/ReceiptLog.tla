----------------------------- MODULE ReceiptLog -----------------------------
(***************************************************************************)
(* What the receipt persistence queue promises its callers, with no        *)
(* batches, timers or files: accepted receipts wait in one line, become    *)
(* durable from the front of that line, and are never reordered, skipped   *)
(* or made durable after having been given up.  ReceiptQueue is shown to   *)
(* implement this specification.                                           *)
(***************************************************************************)
EXTENDS Naturals, Sequences

CONSTANT Receipts     \* the signed receipts the sidecar ever produces

VARIABLES open,       \* the log takes new receipts
          pending,    \* accepted receipts whose durable promise is unsettled
          log         \* receipts reported durable, over all process lives

logVars == <<open, pending, log>>

LogInit ==
    /\ open = FALSE
    /\ pending = <<>>
    /\ log = <<>>

Open ==
    /\ open' = TRUE
    /\ UNCHANGED <<pending, log>>

Accept(r) ==
    /\ open
    /\ pending' = Append(pending, r)
    /\ UNCHANGED <<open, log>>

\* The k oldest accepted receipts become durable together.
Commit(k) ==
    /\ log' = log \o SubSeq(pending, 1, k)
    /\ pending' = SubSeq(pending, k + 1, Len(pending))
    /\ UNCHANGED open

\* Shutting down: nothing more is accepted, what waits may still commit.
Close ==
    /\ open' = FALSE
    /\ UNCHANGED <<pending, log>>

\* A failed flush, or the end of the process: everything that waits is given
\* up at once, and the log stays closed until it is opened again.
Abandon ==
    /\ open' = FALSE
    /\ pending' = <<>>
    /\ UNCHANGED log

LogNext ==
    \/ Open
    \/ \E r \in Receipts : Accept(r)
    \/ \E k \in 1..Len(pending) : Commit(k)
    \/ Close
    \/ Abandon

LogSpec == LogInit /\ [][LogNext]_logVars
=============================================================================
