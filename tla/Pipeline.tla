------------------------------ MODULE Pipeline ------------------------------
(***************************************************************************)
(* The decision pipeline: preflight, orbit, arm and ram0na                 *)
(* (preflight/engine.ts, orbit/engine.ts, arm/engine.ts, ram0na/engine.ts, *)
(* audit/node_runtime.ts), and the two stores arm keeps between requests   *)
(* (shared/state.ts): execution ids and budget tokens.                     *)
(*                                                                         *)
(* A request is a record of what the checks look at.  Its text faults are  *)
(* named by the check that finds them; hashes and signatures are left out, *)
(* a receipt being the record of what they cover.  A decision worker       *)
(* (sidecar/deterministic_worker.mjs) clears the stores before every task; *)
(* the other callers of executeDeterministicPipeline keep them.            *)
(***************************************************************************)
EXTENDS Integers, Sequences

CONSTANTS
    Requests,           \* the inputs that are submitted
    Ids,                \* execution ids
    Tokens,             \* budget tokens
    NoToken,            \* budget_token absent
    Budgets,            \* the limits a token is defined with
    MaxSafe             \* Number.MAX_SAFE_INTEGER

VARIABLES
    worker,             \* the caller is a decision worker; never changes
    executions,         \* executionAuthorityStore: id -> status
    budgets,            \* budgetTokenStore: token -> limit and consumption
    last,               \* what the last call returned
    allows,             \* times each id was allowed since the last reset
    spent,              \* cost allowed on each token since it was defined
    withheld            \* cost reserved on each token for a refused request

stores == <<executions, budgets>>
vars == <<worker, executions, budgets, last, allows, spent, withheld>>

None == "none"
Undefined == [limit |-> -1, consumed |-> 0]
NoExecutions == [i \in Ids |-> None]
NoBudgets == [b \in Tokens |-> Undefined]

\* The reason of the first check that fails; checks are <<fails, reason>>.
FirstFailure(checks, ok) ==
    LET failing == {k \in DOMAIN checks : checks[k][1]}
    IN  IF failing = {} THEN ok
        ELSE checks[CHOOSE k \in failing : \A j \in failing : k <= j][2]
-----------------------------------------------------------------------------
(* Preflight *)

\* The checks of runStrictPreflight in their order.  An "unknown" or a "reserved"
\* fault is that of the first key that is not allowed, a fault in a list that of
\* its first offending item, so an input has at most one of each such group.
PreflightChecks ==
    <<"syntax", "duplicate_key", "literal",
      "root_shape", "root_unknown", "root_reserved", "section_shape",
      "request_unknown", "request_reserved", "part_shape", "part_unknown", "part_reserved",
      "policy_unknown", "policy_reserved", "rules_shape", "rules_unknown", "rules_reserved",
      "string", "budget_token",
      "tools_shape", "tools_reserved", "tools_field", "tools_priority",
      "parameters_shape", "parameters_reserved",
      "signatures_shape", "signatures_reserved", "signatures_field",
      "payload_shape", "payload_reserved", "payload_unknown",
      "payload_tools_shape", "payload_tools_field", "payload_tools_priority",
      "integer_unsafe", "integer_type", "boolean", "policy_version",
      "trust_shape", "trust_unknown", "trust_reserved", "trust_field", "trust_key_id",
      "trust_signature">>

\* The reason each gives; the other checks are of a shape or of unknown keys.
PreflightReason(check) ==
    CASE check = "syntax" -> "ERR_INVALID_JSON_SYNTAX"
      [] check = "duplicate_key" -> "ERR_DUPLICATE_JSON_KEYS"
      [] check \in {"literal", "tools_priority", "payload_tools_priority", "integer_unsafe"} ->
            "ERR_INVALID_JSON_NUMBER"
      [] check \in {"root_reserved", "request_reserved", "part_reserved", "policy_reserved",
                    "rules_reserved", "tools_reserved", "parameters_reserved",
                    "signatures_reserved", "payload_reserved", "trust_reserved"} ->
            "ERR_NON_DETERMINISTIC_INPUT"
      [] check \in {"string", "budget_token", "tools_field", "signatures_field",
                    "payload_tools_field", "integer_type", "boolean"} -> "ERR_TYPE_MISMATCH"
      [] check = "policy_version" -> "ERR_POLICY_VERSION_MISMATCH"
      [] check = "trust_key_id" -> "ERR_POLICY_KEY_ID_MISMATCH"
      [] check \in {"trust_shape", "trust_field", "trust_signature"} -> "ERR_INVALID_POLICY_SIGNATURE"
      [] OTHER -> "ERR_SCHEMA_VALIDATION"

\* What is wrong with a request, by the check that finds it.
Faults == {PreflightChecks[k] : k \in DOMAIN PreflightChecks}
IntentFaults == {"not_armed", "several_actions", "forbidden", "other_calls"}

\* What preflight guarantees of the numbers of a request it lets through;
\* approved: its hold_state is APPROVED, which no layer reads.
RequestType ==
    [faults : SUBSET Faults, intent : SUBSET IntentFaults, id : Ids, token : Tokens \cup {NoToken},
     approved : BOOLEAN,
     gpus : Nat \ {0}, hours : Nat \ {0}, price : Nat \ {0},
     auto : BOOLEAN, scale : Nat \ {0}, retry : BOOLEAN, retries : Nat,
     policy : [maxCost : Nat \ {0}, autoScale : BOOLEAN, maxGpus : Nat \ {0},
               maxHours : Nat \ {0}, maxRetries : Nat, approvalAbove : Nat],
     kill : BOOLEAN, seenGpus : Nat, seenHours : Nat, seenCost : Nat]

ASSUME PipelineAssumption ==
    /\ \A r \in Requests : r \in RequestType
    /\ NoToken \notin Tokens
    /\ Budgets \subseteq Nat
    /\ MaxSafe \in Nat

Preflight(r) ==
    FirstFailure([k \in DOMAIN PreflightChecks |->
                    <<PreflightChecks[k] \in r.faults, PreflightReason(PreflightChecks[k])>>],
                 "OK")
-----------------------------------------------------------------------------
(* Orbit: the intent *)

\* runStrictOrbit: the intent is armed, holds one action, nothing forbidden, and
\* the tool calls it was made for.
Orbit(r) ==
    FirstFailure(<<<<"not_armed" \in r.intent, "ERR_TOOL_CALL_SEQUENCE">>,
                   <<"several_actions" \in r.intent, "ERR_ORBIT_MULTIPLE_ACTIONS">>,
                   <<"forbidden" \in r.intent, "ERR_FORBIDDEN_ACTION_IN_PARAMETERS">>,
                   <<"other_calls" \in r.intent, "ERR_TOOL_CALL_SEQUENCE">>>>,
                 "OK_ORBIT")
-----------------------------------------------------------------------------
(* Arm: cost, limits, execution id, budget *)

Overflow == -1

\* Mutant: the product is not checked, and loses what does not fit.
MultiplyUnchecked(a, b) ==
    IF a = Overflow THEN Overflow ELSE (a * b) % (MaxSafe + 1)

\* multiplyChecked, null being Overflow.
MultiplyChecked(a, b) ==
    IF a = Overflow \/ a * b > MaxSafe THEN Overflow ELSE a * b

ProjectedCost(r) ==
    LET base   == MultiplyChecked(r.gpus, r.hours)
        priced == MultiplyChecked(base, r.price)
        scaled == MultiplyChecked(priced, IF r.auto THEN r.scale ELSE 1)
    IN  MultiplyChecked(scaled, IF r.retry THEN r.retries + 1 ELSE 1)

Lesser(a, b) == IF a <= b THEN a ELSE b

\* BudgetTokenStore.reserve would refuse.
Exhausted(b, cost) == b.limit = -1 \/ b.consumed + cost > b.limit

\* Mutant: an id that was refused before is taken up again.
ArmRetriesRefused(r, execs, buds) ==
    LET cost == ProjectedCost(r)
    IN  FirstFailure(<<<<cost = Overflow, "ERR_INTEGER_OVERFLOW">>,
            <<Orbit(r) # "OK_ORBIT", Orbit(r)>>,
            <<r.auto /\ ~r.policy.autoScale, "ERR_AUTO_SCALE_DENIED">>,
            <<r.gpus > r.policy.maxGpus, "ERR_GPU_LIMIT">>,
            <<r.hours > r.policy.maxHours, "ERR_HOURS_LIMIT">>,
            <<r.retries > r.policy.maxRetries, "ERR_RETRY_LIMIT">>,
            <<cost > r.policy.maxCost, "ERR_COST_LIMIT">>,
            <<r.token # NoToken /\ Exhausted(buds[r.token], cost), "ERR_BUDGET_TOKEN_EXHAUSTED">>>>,
          "OK_ARM")

\* Mutant: reserve allows what is left plus one request.
ArmReservesLate(r, execs, buds) ==
    LET cost == ProjectedCost(r)
    IN  FirstFailure(<<<<cost = Overflow, "ERR_INTEGER_OVERFLOW">>,
            <<execs[r.id] = "inflight", "ERR_EXECUTION_ID_ALREADY_CONSUMED">>,
            <<execs[r.id] = "allowed", "ERR_EXECUTION_ID_REPLAYED">>,
            <<Orbit(r) # "OK_ORBIT", Orbit(r)>>,
            <<r.auto /\ ~r.policy.autoScale, "ERR_AUTO_SCALE_DENIED">>,
            <<r.gpus > r.policy.maxGpus, "ERR_GPU_LIMIT">>,
            <<r.hours > r.policy.maxHours, "ERR_HOURS_LIMIT">>,
            <<r.retries > r.policy.maxRetries, "ERR_RETRY_LIMIT">>,
            <<cost > r.policy.maxCost, "ERR_COST_LIMIT">>,
            <<r.token # NoToken /\ Exhausted(buds[r.token], 0), "ERR_BUDGET_TOKEN_EXHAUSTED">>>>,
          "OK_ARM")

\* The reason runStrictArm gives, over stores execs and buds.
Arm(r, execs, buds) ==
    LET cost == ProjectedCost(r)
    IN  FirstFailure(<<<<cost = Overflow, "ERR_INTEGER_OVERFLOW">>,
            <<execs[r.id] = "inflight", "ERR_EXECUTION_ID_ALREADY_CONSUMED">>,
            <<execs[r.id] = "allowed", "ERR_EXECUTION_ID_REPLAYED">>,
            <<Orbit(r) # "OK_ORBIT", Orbit(r)>>,
            <<r.auto /\ ~r.policy.autoScale, "ERR_AUTO_SCALE_DENIED">>,
            <<r.gpus > r.policy.maxGpus, "ERR_GPU_LIMIT">>,
            <<r.hours > r.policy.maxHours, "ERR_HOURS_LIMIT">>,
            <<r.retries > r.policy.maxRetries, "ERR_RETRY_LIMIT">>,
            <<cost > r.policy.maxCost, "ERR_COST_LIMIT">>,
            <<r.token # NoToken /\ Exhausted(buds[r.token], cost), "ERR_BUDGET_TOKEN_EXHAUSTED">>>>,
          "OK_ARM")

\* begin and commitAllow: the execution store after a decision.  Every request
\* whose cost can be computed takes its id, and a refused one keeps it.
ExecutionsAfter(r, execs, reason) ==
    IF ProjectedCost(r) = Overflow THEN execs
    ELSE [execs EXCEPT ![r.id] = IF reason = "OK_ALLOW" THEN "allowed"
                                 ELSE IF @ = None THEN "inflight" ELSE @]

\* reserve: the budget store after arm.
BudgetsAfter(r, arm, buds) ==
    IF arm = "OK_ARM" /\ r.token # NoToken
    THEN [buds EXCEPT ![r.token].consumed = @ + ProjectedCost(r)]
    ELSE buds
-----------------------------------------------------------------------------
(* Ram0na: the runtime observation; and the receipt *)

\* runStrictRamona.
Ramona(r, arm) ==
    FirstFailure(<<<<arm # "OK_ARM", arm>>,
                   <<r.kill, "ERR_KILL_SWITCH">>,
                   <<r.seenGpus > r.gpus, "ERR_RUNTIME_GPU_DRIFT">>,
                   <<r.seenHours > r.hours, "ERR_RUNTIME_HOURS_DRIFT">>,
                   <<r.seenCost > ProjectedCost(r), "ERR_RUNTIME_COST_DRIFT">>>>,
                 "OK_RAM0NA")

\* The decision part of buildReceipt.
Receipt(r, arm) ==
    LET ramona  == Ramona(r, arm)
        allow   == ramona = "OK_RAM0NA"
        total   == IF ProjectedCost(r) = Overflow THEN 0 ELSE ProjectedCost(r)
        allowed == Lesser(total, r.policy.maxCost)
    IN  [kind      |-> "receipt",
         request   |-> r,
         decision  |-> IF allow THEN "ALLOW" ELSE "REFUSE",
         reason    |-> IF allow THEN "OK_ALLOW" ELSE ramona,
         total     |-> total,
         allowed   |-> allowed,
         prevented |-> total - allowed]

\* A typed failure of preflight: no receipt.
Failure(r) ==
    [kind |-> "failure", request |-> r, decision |-> "REFUSE", reason |-> Preflight(r),
     total |-> 0, allowed |-> 0, prevented |-> 0]

\* Mutant: the stores are not reset before the request is run again.
ReplaysOverStores(receipt) ==
    /\ Preflight(receipt.request) = "OK"
    /\ Receipt(receipt.request, Arm(receipt.request, executions, budgets)) = receipt

\* replayReceiptDeterministically and replayReceiptStore: run the request again
\* over empty stores and compare.
Replays(receipt) ==
    /\ Preflight(receipt.request) = "OK"
    /\ Receipt(receipt.request, Arm(receipt.request, NoExecutions, NoBudgets)) = receipt
-----------------------------------------------------------------------------
Init ==
    /\ worker \in BOOLEAN
    /\ executions = NoExecutions
    /\ budgets = NoBudgets
    /\ last = [kind |-> "nothing"]
    /\ allows = [i \in Ids |-> 0]
    /\ spent = [b \in Tokens |-> 0]
    /\ withheld = [b \in Tokens |-> 0]

\* The stores a call starts from: a decision worker resets them.
StoresAtStart ==
    IF worker THEN [executions |-> NoExecutions, budgets |-> NoBudgets]
    ELSE [executions |-> executions, budgets |-> budgets]

\* executeDeterministicPipeline stopped by preflight.
ExecuteMalformed(r) ==
    /\ Preflight(r) # "OK"
    /\ last' = Failure(r)
    /\ executions' = StoresAtStart.executions
    /\ budgets' = StoresAtStart.budgets
    /\ UNCHANGED <<worker, allows, spent, withheld>>

\* executeDeterministicPipeline through all layers, commitArmAllow included.
ExecuteDecided(r) ==
    LET execs   == StoresAtStart.executions
        buds    == StoresAtStart.budgets
        arm     == Arm(r, execs, buds)
        receipt == Receipt(r, arm)
    IN  /\ Preflight(r) = "OK"
        /\ last' = receipt
        /\ executions' = ExecutionsAfter(r, execs, receipt.reason)
        /\ budgets' = BudgetsAfter(r, arm, buds)
        /\ allows' = IF receipt.decision = "ALLOW"
                     THEN [allows EXCEPT ![r.id] = Lesser(@ + 1, 2)] ELSE allows
        /\ spent' = IF receipt.decision = "ALLOW" /\ r.token # NoToken
                    THEN [spent EXCEPT ![r.token] = @ + receipt.total] ELSE spent
        /\ withheld' = IF arm = "OK_ARM" /\ receipt.decision = "REFUSE" /\ r.token # NoToken
                       THEN [withheld EXCEPT ![r.token] = @ + receipt.total] ELSE withheld
        /\ UNCHANGED worker

\* seedBudgetToken, which also redefines a token.
Seed(b, limit) ==
    /\ ~worker
    /\ budgets' = [budgets EXCEPT ![b] = [limit |-> limit, consumed |-> 0]]
    /\ spent' = [spent EXCEPT ![b] = 0]
    /\ withheld' = [withheld EXCEPT ![b] = 0]
    /\ UNCHANGED <<worker, executions, last, allows>>

\* resetRuntimeState called between requests.
Reset ==
    /\ ~worker
    /\ executions' = NoExecutions
    /\ budgets' = NoBudgets
    /\ allows' = [i \in Ids |-> 0]
    /\ spent' = [b \in Tokens |-> 0]
    /\ withheld' = [b \in Tokens |-> 0]
    /\ UNCHANGED <<worker, last>>

Next ==
    \/ \E r \in Requests : ExecuteMalformed(r) \/ ExecuteDecided(r)
    \/ \E b \in Tokens, limit \in Budgets : Seed(b, limit)
    \/ Reset

Spec == Init /\ [][Next]_vars
-----------------------------------------------------------------------------
\* Single use of an execution id: in a process that keeps its stores, an id is
\* allowed at most once between two resets, in whatever order requests with that
\* id are refused, allowed, malformed or overflow.
AllowedOnce == ~worker => \A i \in Ids : allows[i] <= 1

\* A budget is never overdrawn: the costs allowed on a token since it was defined
\* and those reserved for requests ram0na then refused make up its consumption,
\* which stays within the limit.
BudgetKept ==
    \A b \in Tokens :
        budgets[b] # Undefined =>
            /\ budgets[b].consumed = spent[b] + withheld[b]
            /\ budgets[b].consumed <= budgets[b].limit

\* The cost in full integer arithmetic.
ExactCost(r) ==
    r.gpus * r.hours * r.price * (IF r.auto THEN r.scale ELSE 1)
           * (IF r.retry THEN r.retries + 1 ELSE 1)

\* Whatever the stores hold, an ALLOW is within the policy and the observation
\* within the request, by the exact cost: overflow never lets a request through.
AllowWithinPolicy ==
    (last.kind = "receipt" /\ last.decision = "ALLOW") =>
        LET r == last.request
        IN  /\ r.faults = {} /\ r.intent = {} /\ ~r.kill
            /\ last.total = ExactCost(r)
            /\ ExactCost(r) <= r.policy.maxCost
            /\ r.gpus <= r.policy.maxGpus /\ r.hours <= r.policy.maxHours
            /\ r.retries <= r.policy.maxRetries
            /\ r.auto => r.policy.autoScale
            /\ r.seenGpus <= r.gpus /\ r.seenHours <= r.hours
            /\ r.seenCost <= ExactCost(r)

\* Where the stores are kept, a receipt fails to replay only for what the stores
\* contribute: a used execution id, or a budget token.
ReplayOnlyDriftsByStores ==
    (last.kind = "receipt" /\ ~Replays(last)) =>
        \/ last.reason \in {"ERR_EXECUTION_ID_ALREADY_CONSUMED", "ERR_EXECUTION_ID_REPLAYED"}
        \/ last.request.token # NoToken

\* docs/ARCHITECTURE.md, "arm/ enforces ... approval rules", and the case PX-015
\* of audit/run_proof_expansion.ts: above the threshold a request whose hold_state
\* is not APPROVED is refused.
ApprovalEnforced ==
    (last.kind = "receipt" /\ last.decision = "ALLOW" /\ ~last.request.approved) =>
        last.total <= last.request.policy.approvalAbove
=============================================================================
