----------------------------- MODULE MCPipeline -----------------------------
(* Small instances of Pipeline for TLC. *)
EXTENDS Pipeline

CONSTANTS i1, i2, b1

Policy == [maxCost |-> 8, autoScale |-> TRUE, maxGpus |-> 4, maxHours |-> 3,
           maxRetries |-> 1, approvalAbove |-> 3]

\* A request that is allowed at a cost of 2.
Plain(i, b) ==
    [faults |-> {}, intent |-> {}, id |-> i, token |-> b, approved |-> FALSE,
     gpus |-> 1, hours |-> 1, price |-> 2, auto |-> FALSE, scale |-> 3,
     retry |-> FALSE, retries |-> 0, policy |-> Policy,
     kill |-> FALSE, seenGpus |-> 0, seenHours |-> 0, seenCost |-> 0]

\* Requests on both ids, with and without a token, at two costs.
Contending ==
    {[Plain(i, b) EXCEPT !.gpus = g] : i \in {i1, i2}, b \in {b1, NoToken}, g \in 1..2}

\* Requests that one check refuses; the observation is checked after the budget.
Refused ==
    {[Plain(i1, b1) EXCEPT !.kill = TRUE],
     [Plain(i2, b1) EXCEPT !.seenGpus = 2],
     [Plain(i1, b1) EXCEPT !.seenHours = 2],
     [Plain(i1, b1) EXCEPT !.seenCost = 3],
     [Plain(i1, b1) EXCEPT !.hours = 4],
     [Plain(i1, b1) EXCEPT !.gpus = 5],
     [Plain(i1, b1) EXCEPT !.auto = TRUE, !.policy.autoScale = FALSE],
     [Plain(i1, NoToken) EXCEPT !.retries = 2],
     [Plain(i1, NoToken) EXCEPT !.faults = {"syntax"}],
     [Plain(i2, b1) EXCEPT !.faults = {"integer_type", "integer_unsafe"}],
     [Plain(i2, b1) EXCEPT !.faults = {"trust_signature"}, !.kill = TRUE]}
    \cup {[Plain(i1, NoToken) EXCEPT !.intent = {f}] :
            f \in {"not_armed", "several_actions", "forbidden", "other_calls"}}

\* Costs from 2 to past MaxSafe, by every combination of the factors.
Priced ==
    {[Plain(i2, NoToken) EXCEPT !.gpus = g, !.hours = h, !.auto = a, !.retry = n = 1, !.retries = n] :
        g \in {1, 4}, h \in {1, 3}, a \in BOOLEAN, n \in 0..1}

MCRequests == Contending \cup Refused \cup Priced
=============================================================================
