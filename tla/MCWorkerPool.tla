---------------------------- MODULE MCWorkerPool ----------------------------
(***************************************************************************)
(* Tasks are numbered in the order they are submitted in: tasks not yet    *)
(* submitted are alike, so nothing is lost.                                *)
(***************************************************************************)
EXTENDS WorkerPool

InOrder == \A t \in Tasks \ {1} : outcome[t] # "none" => outcome[t - 1] # "none"

MCSpec == Init /\ [][Next /\ InOrder']_vars /\ Fairness
=============================================================================
