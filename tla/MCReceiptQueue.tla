--------------------------- MODULE MCReceiptQueue ---------------------------
(* Instances of ReceiptQueue for TLC. *)
EXTENDS ReceiptQueue

CONSTANTS r1, r2, r3, r4

\* One receipt is longer than the others, so that sometimes the byte limit and
\* sometimes the item limit is the one that refuses.
SomeBytes == [r \in Receipts |-> IF r = r1 THEN 3 ELSE 1]
=============================================================================
