--------------------------- MODULE PipelineProofs ---------------------------
(***************************************************************************)
(* Proofs about Pipeline for every set of requests, ids, tokens and limits,*)
(* and then about ReceiptVerification for any requests and any edits.      *)
(***************************************************************************)
EXTENDS ReceiptVerification, WellFoundedInduction, TLAPS

\* A non-empty set of natural numbers has a least element.
LEMMA LeastNatural ==
    ASSUME NEW S \in SUBSET Nat, S # {}
    PROVE  \E k \in S : \A j \in S : k <= j
<1>1. \E k \in S : \A j \in S : <<j, k>> \notin OpToRel(<, Nat)
  BY WFMin, NatLessThanWellFounded
<1>2. \A j, k \in Nat : j < k => <<j, k>> \in OpToRel(<, Nat)
  BY Zenon DEF OpToRel
<1> HIDE DEF OpToRel
<1>3. PICK k \in S : \A j \in S : <<j, k>> \notin OpToRel(<, Nat)
  BY <1>1, Zenon
<1>4. \A j \in S : ~(j < k)
  BY <1>2, <1>3, Zenon
<1> QED BY <1>4

\* FirstFailure is ok when no check fails, and else the reason of a check that
\* fails while none before it does.
LEMMA FirstFailureIs ==
    ASSUME NEW checks, DOMAIN checks \subseteq Nat, NEW ok
    PROVE  \/ /\ \A k \in DOMAIN checks : ~checks[k][1]
              /\ FirstFailure(checks, ok) = ok
           \/ \E k \in DOMAIN checks :
                 /\ checks[k][1]
                 /\ \A j \in DOMAIN checks : checks[j][1] => k <= j
                 /\ FirstFailure(checks, ok) = checks[k][2]
<1> DEFINE failing == {k \in DOMAIN checks : checks[k][1]}
           first == CHOOSE k \in failing : \A j \in failing : k <= j
<1>1. FirstFailure(checks, ok) = IF failing = {} THEN ok ELSE checks[first][2]
  BY DEF FirstFailure
<1>2. CASE failing = {}
  BY <1>1, <1>2
<1>3. CASE failing # {}
  <2>1. \E k \in failing : \A j \in failing : k <= j
    BY <1>3, LeastNatural
  <2>2. first \in failing /\ \A j \in failing : first <= j
    BY <2>1
  <2> QED BY <1>1, <1>3, <2>2
<1> QED BY <1>2, <1>3

\* What preflight lets through has none of the faults it looks for.
LEMMA PreflightOk ==
    ASSUME NEW r \in RequestType, Preflight(r) = "OK"
    PROVE  r.faults = {}
<1>1. DOMAIN PreflightChecks \subseteq Nat
  BY DEF PreflightChecks
<1>2. \A f : PreflightReason(f) # "OK"
  BY DEF PreflightReason
<1> DEFINE checks == [k \in DOMAIN PreflightChecks |->
                        <<PreflightChecks[k] \in r.faults, PreflightReason(PreflightChecks[k])>>]
<1>3. \A k \in DOMAIN PreflightChecks : PreflightChecks[k] \notin r.faults
  <2>1. DOMAIN checks = DOMAIN PreflightChecks
    OBVIOUS
  <2>2. \A k \in DOMAIN PreflightChecks :
            /\ checks[k][1] = (PreflightChecks[k] \in r.faults)
            /\ checks[k][2] = PreflightReason(PreflightChecks[k])
    OBVIOUS
  <2>3. FirstFailure(checks, "OK") = "OK"
    BY DEF Preflight
  <2> HIDE DEF checks
  <2>4. \A k \in DOMAIN checks : ~checks[k][1]
    BY <1>1, <1>2, <2>1, <2>2, <2>3, FirstFailureIs
  <2> QED BY <2>1, <2>2, <2>4
<1>4. r.faults \subseteq Faults
  BY DEF RequestType
<1> QED BY <1>3, <1>4 DEF Faults

\* So does orbit.
LEMMA OrbitResult ==
    ASSUME NEW r \in RequestType
    PROVE  /\ Orbit(r) \in {"OK_ORBIT", "ERR_TOOL_CALL_SEQUENCE", "ERR_ORBIT_MULTIPLE_ACTIONS",
                            "ERR_FORBIDDEN_ACTION_IN_PARAMETERS"}
           /\ Orbit(r) = "OK_ORBIT" => r.intent = {}
<1> DEFINE checks == <<<<"not_armed" \in r.intent, "ERR_TOOL_CALL_SEQUENCE">>,
                       <<"several_actions" \in r.intent, "ERR_ORBIT_MULTIPLE_ACTIONS">>,
                       <<"forbidden" \in r.intent, "ERR_FORBIDDEN_ACTION_IN_PARAMETERS">>,
                       <<"other_calls" \in r.intent, "ERR_TOOL_CALL_SEQUENCE">>>>
<1>1. DOMAIN checks = 1..4 /\ Orbit(r) = FirstFailure(checks, "OK_ORBIT")
  BY DEF Orbit
<1>2. \A k \in 1..4 : checks[k][2] \in {"ERR_TOOL_CALL_SEQUENCE", "ERR_ORBIT_MULTIPLE_ACTIONS",
                            "ERR_FORBIDDEN_ACTION_IN_PARAMETERS"}
  OBVIOUS
<1>3. (\A k \in 1..4 : ~checks[k][1]) => r.intent = {}
  <2> SUFFICES ASSUME \A k \in 1..4 : ~checks[k][1] PROVE r.intent = {}
    OBVIOUS
  <2>1. ~checks[1][1] /\ ~checks[2][1] /\ ~checks[3][1] /\ ~checks[4][1]
    OBVIOUS
  <2>2. r.intent \subseteq IntentFaults
    BY DEF RequestType
  <2> QED BY <2>1, <2>2 DEF IntentFaults
<1> HIDE DEF checks
<1> QED BY <1>1, <1>2, <1>3, FirstFailureIs
-----------------------------------------------------------------------------
\* multiplyChecked is null, or the product.
LEMMA MultiplyResult ==
    ASSUME NEW a, NEW b, MultiplyChecked(a, b) # Overflow
    PROVE  a # Overflow /\ MultiplyChecked(a, b) = a * b
  BY DEF MultiplyChecked

\* The cost is exact where it is not null: an overflow at any of the four
\* products is seen in the result.
LEMMA CostExact ==
    ASSUME NEW r \in RequestType, ProjectedCost(r) # Overflow
    PROVE  ProjectedCost(r) = ExactCost(r) /\ ProjectedCost(r) \in Nat
<1> DEFINE times  == IF r.auto THEN r.scale ELSE 1
           tries  == IF r.retry THEN r.retries + 1 ELSE 1
           base   == MultiplyChecked(r.gpus, r.hours)
           priced == MultiplyChecked(base, r.price)
           scaled == MultiplyChecked(priced, times)
           cost   == MultiplyChecked(scaled, tries)
<1>1. r.gpus \in Nat /\ r.hours \in Nat /\ r.price \in Nat /\ times \in Nat /\ tries \in Nat
  BY DEF RequestType
<1>2. /\ ProjectedCost(r) = cost
      /\ ExactCost(r) = r.gpus * r.hours * r.price * times * tries
  BY DEF ProjectedCost, ExactCost
<1>3. scaled # Overflow /\ cost = scaled * tries
  BY <1>2, MultiplyResult
<1>4. priced # Overflow /\ scaled = priced * times
  BY <1>3, MultiplyResult
<1>5. base # Overflow /\ priced = base * r.price
  BY <1>4, MultiplyResult
<1>6. base = r.gpus * r.hours
  BY <1>5, MultiplyResult
<1> HIDE DEF times, tries, base, priced, scaled, cost
<1>7. ProjectedCost(r) = ExactCost(r)
  BY <1>2, <1>3, <1>4, <1>5, <1>6
<1>8. base \in Nat
  BY <1>1, <1>6
<1>9. priced \in Nat
  BY <1>1, <1>5, <1>8
<1>10. scaled \in Nat
  BY <1>1, <1>4, <1>9
<1>11. cost \in Nat
  BY <1>1, <1>3, <1>10
<1> QED BY <1>2, <1>7, <1>11

\* The checks of arm.
ArmChecks(r, execs, buds) ==
    <<<<ProjectedCost(r) = Overflow, "ERR_INTEGER_OVERFLOW">>,
      <<execs[r.id] = "inflight", "ERR_EXECUTION_ID_ALREADY_CONSUMED">>,
      <<execs[r.id] = "allowed", "ERR_EXECUTION_ID_REPLAYED">>,
      <<Orbit(r) # "OK_ORBIT", Orbit(r)>>,
      <<r.auto /\ ~r.policy.autoScale, "ERR_AUTO_SCALE_DENIED">>,
      <<r.gpus > r.policy.maxGpus, "ERR_GPU_LIMIT">>,
      <<r.hours > r.policy.maxHours, "ERR_HOURS_LIMIT">>,
      <<r.retries > r.policy.maxRetries, "ERR_RETRY_LIMIT">>,
      <<ProjectedCost(r) > r.policy.maxCost, "ERR_COST_LIMIT">>,
      <<r.token # NoToken /\ Exhausted(buds[r.token], ProjectedCost(r)), "ERR_BUDGET_TOKEN_EXHAUSTED">>>>

LEMMA ArmIs ==
    ASSUME NEW r \in RequestType, NEW execs, NEW buds
    PROVE  LET checks == ArmChecks(r, execs, buds)
           IN  /\ DOMAIN checks = 1..10
               /\ Arm(r, execs, buds) = FirstFailure(checks, "OK_ARM")
               /\ \A k \in 1..10 : checks[k][2] \notin {"OK_ARM", "OK_RAM0NA", "OK_ALLOW"}
<1>1. Orbit(r) \notin {"OK_ARM", "OK_RAM0NA", "OK_ALLOW"}
  BY OrbitResult
<1>2. Arm(r, execs, buds) = FirstFailure(ArmChecks(r, execs, buds), "OK_ARM")
  BY DEF Arm, ArmChecks
<1>3. DOMAIN ArmChecks(r, execs, buds) = 1..10
  BY DEF ArmChecks
<1>4. \A k \in 1..10 : ArmChecks(r, execs, buds)[k][2] \notin {"OK_ARM", "OK_RAM0NA", "OK_ALLOW"}
  BY <1>1 DEF ArmChecks
<1> QED BY <1>2, <1>3, <1>4

\* What arm has made sure of when it lets a request through.
LEMMA ArmOk ==
    ASSUME NEW r \in RequestType, NEW execs, NEW buds, Arm(r, execs, buds) = "OK_ARM"
    PROVE  /\ ProjectedCost(r) # Overflow
           /\ execs[r.id] \notin {"inflight", "allowed"}
           /\ r.intent = {}
           /\ r.auto => r.policy.autoScale
           /\ ~(r.gpus > r.policy.maxGpus) /\ ~(r.hours > r.policy.maxHours)
           /\ ~(r.retries > r.policy.maxRetries) /\ ~(ProjectedCost(r) > r.policy.maxCost)
           /\ r.token # NoToken => ~Exhausted(buds[r.token], ProjectedCost(r))
<1> DEFINE checks == ArmChecks(r, execs, buds)
<1>1. /\ checks[1][1] = (ProjectedCost(r) = Overflow) /\ checks[2][1] = (execs[r.id] = "inflight")
      /\ checks[3][1] = (execs[r.id] = "allowed") /\ checks[4][1] = (Orbit(r) # "OK_ORBIT")
      /\ checks[5][1] = (r.auto /\ ~r.policy.autoScale)
      /\ checks[6][1] = (r.gpus > r.policy.maxGpus) /\ checks[7][1] = (r.hours > r.policy.maxHours)
      /\ checks[8][1] = (r.retries > r.policy.maxRetries)
      /\ checks[9][1] = (ProjectedCost(r) > r.policy.maxCost)
      /\ checks[10][1] = (r.token # NoToken /\ Exhausted(buds[r.token], ProjectedCost(r)))
  BY DEF ArmChecks
<1>2. /\ DOMAIN checks = 1..10 /\ FirstFailure(checks, "OK_ARM") = "OK_ARM"
      /\ \A k \in 1..10 : checks[k][2] # "OK_ARM"
  BY ArmIs
<1> HIDE DEF checks
<1>3. \A k \in 1..10 : ~checks[k][1]
  BY <1>2, FirstFailureIs
<1>4. /\ ~checks[1][1] /\ ~checks[2][1] /\ ~checks[3][1] /\ ~checks[4][1] /\ ~checks[5][1]
      /\ ~checks[6][1] /\ ~checks[7][1] /\ ~checks[8][1] /\ ~checks[9][1] /\ ~checks[10][1]
  BY <1>3
<1> QED BY <1>1, <1>4, OrbitResult, Zenon

\* arm never answers with ram0na's word, or with the receipt's.
LEMMA ArmReason ==
    ASSUME NEW r \in RequestType, NEW execs, NEW buds
    PROVE  Arm(r, execs, buds) \notin {"OK_RAM0NA", "OK_ALLOW"}
<1> DEFINE checks == ArmChecks(r, execs, buds)
<1>1. /\ DOMAIN checks = 1..10 /\ Arm(r, execs, buds) = FirstFailure(checks, "OK_ARM")
      /\ \A k \in 1..10 : checks[k][2] \notin {"OK_ARM", "OK_RAM0NA", "OK_ALLOW"}
  BY ArmIs
<1> HIDE DEF checks
<1> QED BY <1>1, FirstFailureIs

\* ram0na passes on what arm refused, and else refuses by the observation.
LEMMA RamonaIs ==
    ASSUME NEW r \in RequestType, NEW arm, arm \notin {"OK_RAM0NA", "OK_ALLOW"}
    PROVE  /\ Ramona(r, arm) # "OK_ALLOW"
           /\ arm # "OK_ARM" => Ramona(r, arm) = arm
           /\ Ramona(r, arm) = "OK_RAM0NA" =>
                /\ arm = "OK_ARM" /\ ~r.kill
                /\ ~(r.seenGpus > r.gpus) /\ ~(r.seenHours > r.hours)
                /\ ~(r.seenCost > ProjectedCost(r))
<1> DEFINE checks == <<<<arm # "OK_ARM", arm>>,
                   <<r.kill, "ERR_KILL_SWITCH">>,
                   <<r.seenGpus > r.gpus, "ERR_RUNTIME_GPU_DRIFT">>,
                   <<r.seenHours > r.hours, "ERR_RUNTIME_HOURS_DRIFT">>,
                   <<r.seenCost > ProjectedCost(r), "ERR_RUNTIME_COST_DRIFT">>>>
<1>1. DOMAIN checks = 1..5 /\ Ramona(r, arm) = FirstFailure(checks, "OK_RAM0NA")
  BY DEF Ramona
<1>2. \A k \in 1..5 : checks[k][2] \notin {"OK_RAM0NA", "OK_ALLOW"}
  OBVIOUS
<1>3. /\ checks[1][1] = (arm # "OK_ARM") /\ checks[1][2] = arm /\ checks[2][1] = r.kill
      /\ checks[3][1] = (r.seenGpus > r.gpus) /\ checks[4][1] = (r.seenHours > r.hours)
      /\ checks[5][1] = (r.seenCost > ProjectedCost(r))
  OBVIOUS
<1> HIDE DEF checks
<1>4. ASSUME arm # "OK_ARM" PROVE Ramona(r, arm) = arm
  <2>0. checks[1][1]
    BY <1>3, <1>4, Zenon
  <2>1. 1 \in DOMAIN checks /\ checks[1][1]
    BY <1>1, <2>0
  <2>2. PICK k \in DOMAIN checks : /\ \A j \in DOMAIN checks : checks[j][1] => k <= j
                                   /\ FirstFailure(checks, "OK_RAM0NA") = checks[k][2]
    BY <1>1, <2>1, FirstFailureIs
  <2>3. k = 1
    BY <1>1, <2>1, <2>2
  <2> QED BY <1>1, <1>3, <2>2, <2>3
<1>5. ASSUME Ramona(r, arm) = "OK_RAM0NA"
      PROVE  /\ arm = "OK_ARM" /\ ~r.kill
             /\ ~(r.seenGpus > r.gpus) /\ ~(r.seenHours > r.hours)
             /\ ~(r.seenCost > ProjectedCost(r))
  <2>1. \A k \in 1..5 : ~checks[k][1]
    BY <1>1, <1>2, <1>5, FirstFailureIs
  <2>2. ~checks[1][1] /\ ~checks[2][1] /\ ~checks[3][1] /\ ~checks[4][1] /\ ~checks[5][1]
    BY <2>1
  <2> QED BY <1>3, <2>2, Zenon
<1>6. Ramona(r, arm) # "OK_ALLOW"
  BY <1>1, <1>2, FirstFailureIs
<1> QED BY <1>4, <1>5, <1>6

\* The receipt of a request that all layers let through.
LEMMA ReceiptIs ==
    ASSUME NEW r \in RequestType, NEW execs, NEW buds
    PROVE  LET arm == Arm(r, execs, buds)
               receipt == Receipt(r, arm)
           IN  /\ receipt.request = r /\ receipt.kind = "receipt"
               /\ receipt.decision \in {"ALLOW", "REFUSE"}
               /\ receipt.decision = "ALLOW" <=> receipt.reason = "OK_ALLOW"
               /\ receipt.decision = "ALLOW" => arm = "OK_ARM" /\ Ramona(r, arm) = "OK_RAM0NA"
               /\ arm # "OK_ARM" => receipt.reason = arm
               /\ ProjectedCost(r) # Overflow => receipt.total = ProjectedCost(r)
<1> DEFINE arm == Arm(r, execs, buds)
           ramona == Ramona(r, arm)
           receipt == Receipt(r, arm)
<1>1. arm \notin {"OK_RAM0NA", "OK_ALLOW"}
  BY ArmReason
<1> HIDE DEF arm
<1>2. /\ arm # "OK_ARM" => ramona = arm
      /\ ramona = "OK_RAM0NA" => arm = "OK_ARM"
      /\ ramona # "OK_ALLOW"
  BY <1>1, RamonaIs
<1>3. /\ receipt.request = r /\ receipt.kind = "receipt"
      /\ receipt.decision = IF ramona = "OK_RAM0NA" THEN "ALLOW" ELSE "REFUSE"
      /\ receipt.reason = IF ramona = "OK_RAM0NA" THEN "OK_ALLOW" ELSE ramona
      /\ receipt.total = IF ProjectedCost(r) = Overflow THEN 0 ELSE ProjectedCost(r)
  BY DEF Receipt
<1> HIDE DEF receipt, ramona
<1>4. /\ receipt.request = r /\ receipt.kind = "receipt"
      /\ receipt.decision \in {"ALLOW", "REFUSE"}
      /\ receipt.decision = "ALLOW" <=> receipt.reason = "OK_ALLOW"
      /\ receipt.decision = "ALLOW" => arm = "OK_ARM" /\ ramona = "OK_RAM0NA"
      /\ arm # "OK_ARM" => receipt.reason = arm
      /\ ProjectedCost(r) # Overflow => receipt.total = ProjectedCost(r)
  BY <1>1, <1>2, <1>3
<1> QED BY <1>4 DEF receipt, ramona, arm
-----------------------------------------------------------------------------
\* Types of the stores and of what is counted about them.
TypeOK ==
    /\ worker \in BOOLEAN
    /\ executions \in [Ids -> {None, "inflight", "allowed"}]
    /\ budgets \in [Tokens -> [limit : Nat \cup {-1}, consumed : Nat]]
    /\ allows \in [Ids -> Nat]
    /\ spent \in [Tokens -> Nat] /\ withheld \in [Tokens -> Nat]

\* An id that was allowed is marked in the store: that is what refuses it.
IdsMarked == ~worker => \A i \in Ids : allows[i] <= 1 /\ (allows[i] # 0 => executions[i] = "allowed")

\* A decision worker's stores are empty at every call, so it knows no budget.
WorkerUnbudgeted == worker => budgets = NoBudgets

IInv == TypeOK /\ IdsMarked /\ WorkerUnbudgeted /\ BudgetKept /\ AllowWithinPolicy /\ ReplayOnlyDriftsByStores

LEMMA InitIInv == Init => IInv
<1> SUFFICES ASSUME Init PROVE IInv
  OBVIOUS
<1>1. TypeOK
  BY DEF Init, TypeOK, NoExecutions, NoBudgets, Undefined, None
<1>2. IdsMarked /\ WorkerUnbudgeted /\ BudgetKept
  BY DEF Init, IdsMarked, WorkerUnbudgeted, BudgetKept, NoBudgets
<1>3. AllowWithinPolicy /\ ReplayOnlyDriftsByStores
  BY DEF Init, AllowWithinPolicy, ReplayOnlyDriftsByStores
<1> QED BY <1>1, <1>2, <1>3 DEF IInv

\* The stores a call starts from have the types, and what they mark.
LEMMA StartStores ==
    ASSUME IInv
    PROVE  /\ StoresAtStart.executions \in [Ids -> {None, "inflight", "allowed"}]
           /\ StoresAtStart.budgets = budgets
           /\ ~worker => StoresAtStart.executions = executions
  BY DEF IInv, TypeOK, WorkerUnbudgeted, StoresAtStart, NoExecutions, None

\* Without a budget token, the stores change arm's answer only to one about the
\* execution id.
LEMMA ArmWithoutStores ==
    ASSUME NEW r \in RequestType, NEW execs, NEW buds, r.token = NoToken,
           Arm(r, execs, buds) \notin {"ERR_EXECUTION_ID_ALREADY_CONSUMED", "ERR_EXECUTION_ID_REPLAYED"}
    PROVE  Arm(r, execs, buds) = Arm(r, NoExecutions, NoBudgets)
<1> DEFINE A == ArmChecks(r, execs, buds)
           B == ArmChecks(r, NoExecutions, NoBudgets)
<1>1. /\ DOMAIN A = 1..10 /\ Arm(r, execs, buds) = FirstFailure(A, "OK_ARM")
      /\ DOMAIN B = 1..10 /\ Arm(r, NoExecutions, NoBudgets) = FirstFailure(B, "OK_ARM")
  BY ArmIs
<1>2. NoExecutions[r.id] = "none"
  BY DEF NoExecutions, None, RequestType
<1>3. /\ A[2][2] = "ERR_EXECUTION_ID_ALREADY_CONSUMED" /\ A[3][2] = "ERR_EXECUTION_ID_REPLAYED"
      /\ \A k \in 1..10 : A[k][2] = B[k][2]
  BY DEF ArmChecks
<1>4. ~B[2][1] /\ ~B[3][1]
  BY <1>2 DEF ArmChecks
<1>5. \A k \in 1..10 : k \notin {2, 3} => (A[k][1] <=> B[k][1])
  <2>1. A[1][1] <=> B[1][1]
    BY DEF ArmChecks
  <2>2. \A k \in 4..9 : A[k][1] <=> B[k][1]
    BY DEF ArmChecks
  <2>3. ~A[10][1] /\ ~B[10][1]
    BY DEF ArmChecks
  <2> HIDE DEF A, B
  <2>4. \A k \in 1..10 : k \notin {2, 3} => k = 1 \/ k \in 4..9 \/ k = 10
    OBVIOUS
  <2> QED BY <2>1, <2>2, <2>3, <2>4
<1> HIDE DEF A, B
<1>6. CASE A[1][1]
  <2>1. 1 \in 1..10 /\ B[1][1]
    BY <1>5, <1>6
  <2>2. PICK k \in DOMAIN A : /\ \A j \in DOMAIN A : A[j][1] => k <= j
                              /\ FirstFailure(A, "OK_ARM") = A[k][2]
    BY <1>1, <1>6, <2>1, FirstFailureIs
  <2>3. PICK m \in DOMAIN B : /\ \A j \in DOMAIN B : B[j][1] => m <= j
                              /\ FirstFailure(B, "OK_ARM") = B[m][2]
    BY <1>1, <2>1, FirstFailureIs
  <2>4. k = 1 /\ m = 1
    BY <1>1, <1>6, <2>1, <2>2, <2>3
  <2> QED BY <1>1, <1>3, <2>1, <2>2, <2>3, <2>4
<1>7. CASE ~A[1][1]
  <2>1. ~A[2][1] /\ ~A[3][1]
    <3>1. ASSUME A[2][1] \/ A[3][1] PROVE FALSE
      <4>1. 2 \in DOMAIN A /\ 3 \in DOMAIN A
        BY <1>1
      <4>2. PICK k \in DOMAIN A : /\ A[k][1] /\ \A j \in DOMAIN A : A[j][1] => k <= j
                                  /\ FirstFailure(A, "OK_ARM") = A[k][2]
        BY <1>1, <3>1, <4>1, FirstFailureIs
      <4>3. k \in {1, 2, 3}
        BY <1>1, <3>1, <4>1, <4>2
      <4> QED BY <1>1, <1>3, <1>7, <4>2, <4>3
    <3> QED BY <3>1
  <2>2. \A k \in 1..10 : A[k][1] <=> B[k][1]
    BY <1>4, <1>5, <2>1
  <2>3. CASE \A k \in 1..10 : ~A[k][1]
    BY <1>1, <2>2, <2>3, FirstFailureIs
  <2>4. CASE \E k \in 1..10 : A[k][1]
    <3>1. PICK k \in DOMAIN A : /\ A[k][1] /\ \A j \in DOMAIN A : A[j][1] => k <= j
                                /\ FirstFailure(A, "OK_ARM") = A[k][2]
      BY <1>1, <2>4, FirstFailureIs
    <3>2. PICK m \in DOMAIN B : /\ B[m][1] /\ \A j \in DOMAIN B : B[j][1] => m <= j
                                /\ FirstFailure(B, "OK_ARM") = B[m][2]
      BY <1>1, <2>2, <2>4, FirstFailureIs
    <3>3. k = m
      BY <1>1, <2>2, <3>1, <3>2
    <3> QED BY <1>1, <1>3, <3>1, <3>2, <3>3
  <2> QED BY <2>3, <2>4
<1> QED BY <1>6, <1>7
-----------------------------------------------------------------------------
\* What a decided request does, in terms of the layers' answers.
DecidedEffect(r, execs, arm, receipt) ==
    /\ last' = receipt
    /\ executions' = ExecutionsAfter(r, execs, receipt.reason)
    /\ budgets' = BudgetsAfter(r, arm, budgets)
    /\ allows' = IF receipt.decision = "ALLOW" THEN [allows EXCEPT ![r.id] = Lesser(@ + 1, 2)] ELSE allows
    /\ spent' = IF receipt.decision = "ALLOW" /\ r.token # NoToken
                THEN [spent EXCEPT ![r.token] = @ + receipt.total] ELSE spent
    /\ withheld' = IF arm = "OK_ARM" /\ receipt.decision = "REFUSE" /\ r.token # NoToken
                   THEN [withheld EXCEPT ![r.token] = @ + receipt.total] ELSE withheld
    /\ worker' = worker

LEMMA DecidedKeeps ==
    ASSUME IInv, NEW r \in Requests, ExecuteDecided(r)
    PROVE  IInv'
<1> DEFINE execs == StoresAtStart.executions
           arm == Arm(r, execs, budgets)
           receipt == Receipt(r, arm)
           cost == ProjectedCost(r)
<1>1. r \in RequestType /\ r.id \in Ids /\ r.token \in Tokens \cup {NoToken} /\ NoToken \notin Tokens
  BY PipelineAssumption DEF RequestType
<1>2. DecidedEffect(r, execs, arm, receipt) /\ Preflight(r) = "OK"
  BY StartStores DEF ExecuteDecided, DecidedEffect
<1>3. execs \in [Ids -> {None, "inflight", "allowed"}] /\ (~worker => execs = executions)
  BY StartStores
<1>4. /\ receipt.request = r /\ receipt.kind = "receipt"
      /\ receipt.decision \in {"ALLOW", "REFUSE"}
      /\ receipt.decision = "ALLOW" <=> receipt.reason = "OK_ALLOW"
      /\ receipt.decision = "ALLOW" => arm = "OK_ARM" /\ Ramona(r, arm) = "OK_RAM0NA"
      /\ arm # "OK_ARM" => receipt.reason = arm
      /\ cost # Overflow => receipt.total = cost
  BY <1>1, ReceiptIs
<1>5. arm = "OK_ARM" =>
      /\ cost # Overflow /\ cost = ExactCost(r) /\ cost \in Nat
      /\ execs[r.id] \notin {"inflight", "allowed"}
      /\ r.intent = {} /\ (r.auto => r.policy.autoScale)
      /\ ~(r.gpus > r.policy.maxGpus) /\ ~(r.hours > r.policy.maxHours)
      /\ ~(r.retries > r.policy.maxRetries) /\ ~(cost > r.policy.maxCost)
      /\ r.token # NoToken => ~Exhausted(budgets[r.token], cost)
  BY <1>1, ArmOk, CostExact
<1>6. Ramona(r, arm) = "OK_RAM0NA" =>
      ~r.kill /\ ~(r.seenGpus > r.gpus) /\ ~(r.seenHours > r.hours) /\ ~(r.seenCost > cost)
  BY <1>1, ArmReason, RamonaIs
<1>7. r.faults = {}
  BY <1>1, <1>2, PreflightOk
<1>8. ReplayOnlyDriftsByStores'
  <2>1. SUFFICES ASSUME r.token = NoToken,
                        receipt.reason \notin {"ERR_EXECUTION_ID_ALREADY_CONSUMED", "ERR_EXECUTION_ID_REPLAYED"}
                 PROVE  Replays(receipt)
    BY <1>2, <1>4 DEF ReplayOnlyDriftsByStores, DecidedEffect, Replays
  <2>2. arm \notin {"ERR_EXECUTION_ID_ALREADY_CONSUMED", "ERR_EXECUTION_ID_REPLAYED"}
    BY <1>4, <2>1
  <2>3. arm = Arm(r, NoExecutions, NoBudgets)
    BY <1>1, <2>1, <2>2, ArmWithoutStores
  <2> QED BY <1>2, <1>4, <2>3 DEF Replays
<1> HIDE DEF execs, arm, receipt, cost
<1>9. AllowWithinPolicy'
  <2>1. SUFFICES ASSUME receipt.decision = "ALLOW"
                 PROVE  /\ r.faults = {} /\ r.intent = {} /\ ~r.kill
                        /\ receipt.total = ExactCost(r)
                        /\ ExactCost(r) <= r.policy.maxCost
                        /\ r.gpus <= r.policy.maxGpus /\ r.hours <= r.policy.maxHours
                        /\ r.retries <= r.policy.maxRetries
                        /\ r.auto => r.policy.autoScale
                        /\ r.seenGpus <= r.gpus /\ r.seenHours <= r.hours
                        /\ r.seenCost <= ExactCost(r)
    BY <1>2, <1>4, Zenon DEF AllowWithinPolicy, DecidedEffect, ExactCost
  <2>2. /\ r.policy.maxCost \in Nat /\ r.policy.maxGpus \in Nat /\ r.policy.maxHours \in Nat
        /\ r.policy.maxRetries \in Nat /\ r.gpus \in Nat /\ r.hours \in Nat /\ r.retries \in Nat
        /\ r.seenGpus \in Nat /\ r.seenHours \in Nat /\ r.seenCost \in Nat
    BY <1>1 DEF RequestType
  <2>3. receipt.total = ExactCost(r) /\ ExactCost(r) \in Nat /\ ExactCost(r) = cost
    BY <1>4, <1>5, <2>1
  <2>4. /\ ExactCost(r) <= r.policy.maxCost
        /\ r.gpus <= r.policy.maxGpus /\ r.hours <= r.policy.maxHours
        /\ r.retries <= r.policy.maxRetries
        /\ r.seenGpus <= r.gpus /\ r.seenHours <= r.hours
        /\ r.seenCost <= ExactCost(r)
    BY <1>4, <1>5, <1>6, <2>1, <2>2, <2>3
  <2> QED BY <1>4, <1>5, <1>6, <1>7, <2>1, <2>3, <2>4
<1>10. executions' \in [Ids -> {None, "inflight", "allowed"}]
  BY <1>2, <1>3 DEF DecidedEffect, ExecutionsAfter
<1>11. CASE worker
  <2>1. arm = "OK_ARM" => r.token = NoToken
    <3>1. r.token # NoToken => budgets[r.token] = Undefined
      BY <1>1, <1>11 DEF IInv, WorkerUnbudgeted, NoBudgets
    <3>2. r.token # NoToken => Exhausted(budgets[r.token], cost)
      BY <3>1 DEF Exhausted, Undefined
    <3> QED BY <1>5, <3>2
  <2>2. budgets' = budgets /\ spent' = spent /\ withheld' = withheld /\ worker' = worker
    BY <1>2, <1>4, <2>1 DEF DecidedEffect, BudgetsAfter
  <2>3. allows' \in [Ids -> Nat]
    <3>1. allows' = allows \/ allows' = [allows EXCEPT ![r.id] = Lesser(allows[r.id] + 1, 2)]
      BY <1>2 DEF DecidedEffect
    <3>2. Lesser(allows[r.id] + 1, 2) \in Nat
      BY <1>1 DEF IInv, TypeOK, Lesser
    <3> QED BY <3>1, <3>2 DEF IInv, TypeOK
  <2>4. TypeOK'
    BY <1>10, <2>2, <2>3 DEF IInv, TypeOK
  <2>5. IdsMarked' /\ WorkerUnbudgeted' /\ BudgetKept'
    BY <1>11, <2>2 DEF IInv, IdsMarked, WorkerUnbudgeted, BudgetKept
  <2> QED BY <1>8, <1>9, <2>4, <2>5 DEF IInv
<1>12. CASE ~worker
  <2>1. worker' = worker /\ execs = executions
    BY <1>2, <1>3, <1>12 DEF DecidedEffect
  <2>2. IdsMarked' /\ allows' \in [Ids -> Nat]
    <3>1. CASE receipt.decision = "ALLOW"
      <4>1. arm = "OK_ARM" /\ cost # Overflow /\ executions[r.id] # "allowed"
        BY <1>4, <1>5, <2>1, <3>1
      <4>2. allows[r.id] = 0
        BY <1>1, <1>12, <4>1 DEF IInv, TypeOK, IdsMarked
      <4>3. allows' = [allows EXCEPT ![r.id] = 1]
        BY <1>2, <3>1, <4>2 DEF DecidedEffect, Lesser
      <4>4. executions' = [executions EXCEPT ![r.id] = "allowed"]
        BY <1>2, <1>4, <2>1, <3>1, <4>1 DEF DecidedEffect, ExecutionsAfter, cost
      <4> QED BY <1>1, <1>12, <2>1, <4>3, <4>4 DEF IInv, TypeOK, IdsMarked
    <3>2. CASE receipt.decision # "ALLOW"
      <4>1. allows' = allows
        BY <1>2, <3>2 DEF DecidedEffect
      <4>2. receipt.reason # "OK_ALLOW"
        BY <1>4, <3>2
      <4>3. \A i \in Ids : executions[i] = "allowed" => executions'[i] = "allowed"
        BY <1>2, <2>1, <4>2 DEF DecidedEffect, ExecutionsAfter, IInv, TypeOK, None
      <4> QED BY <1>12, <2>1, <4>1, <4>3 DEF IInv, TypeOK, IdsMarked
    <3> QED BY <3>1, <3>2
  <2>3. /\ budgets' \in [Tokens -> [limit : Nat \cup {-1}, consumed : Nat]]
        /\ spent' \in [Tokens -> Nat] /\ withheld' \in [Tokens -> Nat]
        /\ BudgetKept'
    <3>1. CASE arm = "OK_ARM" /\ r.token # NoToken
      <4> DEFINE b == r.token
      <4>1. b \in Tokens /\ cost \in Nat /\ ~Exhausted(budgets[b], cost) /\ receipt.total = cost
        BY <1>1, <1>4, <1>5, <3>1
      <4>2. budgets' = [budgets EXCEPT ![b].consumed = @ + cost]
        BY <1>2, <3>1 DEF DecidedEffect, BudgetsAfter, cost
      <4>3. \/ spent' = [spent EXCEPT ![b] = @ + cost] /\ withheld' = withheld
            \/ spent' = spent /\ withheld' = [withheld EXCEPT ![b] = @ + cost]
        BY <1>2, <1>4, <3>1, <4>1 DEF DecidedEffect
      <4> HIDE DEF b
      <4>4. budgets' \in [Tokens -> [limit : Nat \cup {-1}, consumed : Nat]]
        BY <4>1, <4>2 DEF IInv, TypeOK
      <4>5. spent' \in [Tokens -> Nat] /\ withheld' \in [Tokens -> Nat]
        BY <4>1, <4>3 DEF IInv, TypeOK
      <4>6. \A x \in Tokens : x # b => budgets'[x] = budgets[x] /\ spent'[x] = spent[x] /\ withheld'[x] = withheld[x]
        BY <4>1, <4>2, <4>3 DEF IInv, TypeOK
      <4>7. /\ budgets'[b].limit = budgets[b].limit
            /\ budgets'[b].consumed = budgets[b].consumed + cost
        BY <4>1, <4>2 DEF IInv, TypeOK
      <4>8. spent'[b] + withheld'[b] = spent[b] + withheld[b] + cost
        BY <4>1, <4>3 DEF IInv, TypeOK
      <4>9. /\ budgets[b].limit # -1 /\ ~(budgets[b].consumed + cost > budgets[b].limit)
            /\ budgets[b].limit \in Nat /\ budgets[b].consumed \in Nat
        BY <4>1 DEF Exhausted, IInv, TypeOK
      <4>10. budgets[b].consumed = spent[b] + withheld[b]
        BY <4>1, <4>9 DEF IInv, BudgetKept, Undefined
      <4>11. budgets'[b].consumed = spent'[b] + withheld'[b] /\ budgets'[b].consumed <= budgets'[b].limit
        BY <4>1, <4>7, <4>8, <4>9, <4>10
      <4>12. BudgetKept'
        BY <4>6, <4>11 DEF IInv, BudgetKept
      <4> QED BY <4>4, <4>5, <4>12
    <3>2. CASE ~(arm = "OK_ARM" /\ r.token # NoToken)
      <4>1. budgets' = budgets /\ spent' = spent /\ withheld' = withheld
        BY <1>2, <1>4, <3>2 DEF DecidedEffect, BudgetsAfter
      <4> QED BY <4>1 DEF IInv, TypeOK, BudgetKept
    <3> QED BY <3>1, <3>2
  <2>4. TypeOK'
    BY <1>10, <2>1, <2>2, <2>3 DEF IInv, TypeOK
  <2>5. WorkerUnbudgeted'
    BY <1>12, <2>1 DEF WorkerUnbudgeted
  <2> QED BY <1>8, <1>9, <2>2, <2>3, <2>4, <2>5 DEF IInv
<1> QED BY <1>11, <1>12

LEMMA StepIInv == IInv /\ [Next]_vars => IInv'
<1> SUFFICES ASSUME IInv, [Next]_vars PROVE IInv'
  OBVIOUS
<1>1. ASSUME NEW r \in Requests, ExecuteMalformed(r) PROVE IInv'
  <2>1. /\ last'.kind = "failure" /\ worker' = worker /\ allows' = allows
        /\ spent' = spent /\ withheld' = withheld
        /\ executions' = StoresAtStart.executions /\ budgets' = budgets
    BY <1>1, StartStores DEF ExecuteMalformed, Failure
  <2>2. TypeOK' /\ WorkerUnbudgeted' /\ BudgetKept'
    BY <2>1, StartStores DEF IInv, TypeOK, WorkerUnbudgeted, BudgetKept
  <2>3. IdsMarked'
    BY <2>1, StartStores DEF IInv, IdsMarked
  <2>4. AllowWithinPolicy' /\ ReplayOnlyDriftsByStores'
    BY <2>1 DEF AllowWithinPolicy, ReplayOnlyDriftsByStores
  <2> QED BY <2>2, <2>3, <2>4 DEF IInv
<1>2. ASSUME NEW r \in Requests, ExecuteDecided(r) PROVE IInv'
  BY <1>2, DecidedKeeps
<1>3. ASSUME last' = last PROVE AllowWithinPolicy' /\ ReplayOnlyDriftsByStores'
  BY <1>3 DEF IInv, AllowWithinPolicy, ReplayOnlyDriftsByStores, Replays
<1>4. ASSUME NEW b \in Tokens, NEW limit \in Budgets, Seed(b, limit) PROVE IInv'
  <2>1. limit \in Nat
    BY PipelineAssumption
  <2>2. /\ ~worker /\ worker' = worker /\ last' = last /\ executions' = executions /\ allows' = allows
        /\ budgets' = [budgets EXCEPT ![b] = [limit |-> limit, consumed |-> 0]]
        /\ spent' = [spent EXCEPT ![b] = 0] /\ withheld' = [withheld EXCEPT ![b] = 0]
    BY <1>4 DEF Seed
  <2>3. TypeOK'
    BY <2>1, <2>2 DEF IInv, TypeOK
  <2>4. IdsMarked' /\ WorkerUnbudgeted'
    BY <2>2 DEF IInv, IdsMarked, WorkerUnbudgeted
  <2>5. BudgetKept'
    BY <2>1, <2>2 DEF IInv, TypeOK, BudgetKept
  <2> QED BY <1>3, <2>2, <2>3, <2>4, <2>5 DEF IInv
<1>5. ASSUME Reset PROVE IInv'
  <2>1. /\ ~worker /\ worker' = worker /\ last' = last /\ executions' = NoExecutions
        /\ budgets' = NoBudgets /\ allows' = [i \in Ids |-> 0]
        /\ spent' = [b \in Tokens |-> 0] /\ withheld' = [b \in Tokens |-> 0]
    BY <1>5 DEF Reset
  <2>2. TypeOK'
    BY <2>1 DEF IInv, TypeOK, NoExecutions, NoBudgets, Undefined, None
  <2>3. IdsMarked' /\ WorkerUnbudgeted' /\ BudgetKept'
    BY <2>1 DEF IdsMarked, WorkerUnbudgeted, BudgetKept, NoBudgets
  <2> QED BY <1>3, <2>1, <2>2, <2>3 DEF IInv
<1>6. CASE UNCHANGED vars
  BY <1>3, <1>6 DEF vars, IInv, TypeOK, IdsMarked, WorkerUnbudgeted, BudgetKept
<1> QED BY <1>1, <1>2, <1>4, <1>5, <1>6 DEF Next

LEMMA Invariance == Spec => []IInv
  BY InitIInv, StepIInv, PTL DEF Spec

\* A process that keeps its stores allows an execution id at most once between
\* two resets, whatever requests come in whatever order.
THEOREM IdsAllowedOnce == Spec => []AllowedOnce
<1>1. IInv => AllowedOnce
  BY DEF IInv, IdsMarked, AllowedOnce
<1> QED BY <1>1, Invariance, PTL

\* No budget token is overdrawn, and its consumption is what was allowed on it
\* and what was reserved for requests ram0na then refused.
THEOREM BudgetsKept == Spec => []BudgetKept
<1>1. IInv => BudgetKept
  BY DEF IInv
<1> QED BY <1>1, Invariance, PTL

\* An ALLOW is within the policy and the observation within the request, by the
\* cost in exact arithmetic, for every MAX_SAFE_INTEGER: no product that
\* overflows lets a request through.
THEOREM AllowsWithinPolicy == Spec => []AllowWithinPolicy
<1>1. IInv => AllowWithinPolicy
  BY DEF IInv
<1> QED BY <1>1, Invariance, PTL

\* A receipt replays over empty stores unless its execution id was used or it
\* names a budget token.
THEOREM ReplayDrift == Spec => []ReplayOnlyDriftsByStores
<1>1. IInv => ReplayOnlyDriftsByStores
  BY DEF IInv
<1> QED BY <1>1, Invariance, PTL

\* Every receipt of a decision worker replays: the worker resets the stores
\* before a task, and the replay starts from empty ones.
WorkerReceiptsReplay == (worker /\ last.kind = "receipt") => Replays(last)

\* Where the stores are reset before every task, as in a decision worker, each
\* receipt replays to itself, whatever its decision, id or budget token.
THEOREM WorkersReplay == Spec => []WorkerReceiptsReplay
<1>1. Init => WorkerReceiptsReplay
  BY DEF Init, WorkerReceiptsReplay
<1>2. IInv /\ WorkerReceiptsReplay /\ [Next]_vars => WorkerReceiptsReplay'
  <2> SUFFICES ASSUME IInv, WorkerReceiptsReplay, [Next]_vars, worker', last'.kind = "receipt"
               PROVE  Replays(last')
    BY DEF WorkerReceiptsReplay, Replays
  <2>1. ASSUME NEW r \in Requests, ExecuteMalformed(r) PROVE FALSE
    BY <2>1 DEF ExecuteMalformed, Failure
  <2>2. ASSUME NEW r \in Requests, ExecuteDecided(r) PROVE Replays(last')
    <3>1. worker /\ Preflight(r) = "OK" /\ last' = Receipt(r, Arm(r, NoExecutions, NoBudgets))
      BY <2>2 DEF ExecuteDecided, StoresAtStart
    <3>2. last'.request = r
      BY <3>1 DEF Receipt
    <3> QED BY <3>1, <3>2 DEF Replays
  <2>3. ASSUME worker' = worker, last' = last PROVE Replays(last')
    BY <2>3 DEF WorkerReceiptsReplay
  <2> QED BY <2>1, <2>2, <2>3 DEF Next, Seed, Reset, vars
<1> QED BY <1>1, <1>2, Invariance, PTL DEF Spec
-----------------------------------------------------------------------------
(* Receipts on paper.                                                       *)

\* The fields of the payload of a receipt.
LEMMA PayloadIs ==
    ASSUME NEW receipt
    PROVE  LET b == PayloadOf(receipt)
               r == receipt.request
           IN  /\ DOMAIN b = PayloadFields
               /\ b.schema = "ecs.receipt.v2" /\ b.text = Text(r)
               /\ b.request_hash = Hash(Text(r)) /\ b.decision_request_hash = Hash(Text(r))
               /\ b.preflight_request_hash = Hash(Text(r))
               /\ b.decision = receipt.decision /\ b.decision_hash = DecisionHashOf(b)
               /\ b.reason_code = receipt.reason /\ b.ramona = receipt.reason
               /\ b.policy_version = PolicyVersion /\ b.policy_hash = PolicyHash(r)
               /\ b.preflight_policy_hash = PolicyHash(r)
               /\ b.execution_id = r.id /\ b.arm_execution_id = r.id /\ b.orbit = Orbit(r)
               /\ b.total_usd = Usd(receipt.total) /\ b.allowed_usd = Usd(receipt.allowed)
               /\ b.prevented_usd = Usd(receipt.prevented)
               /\ b.arm_total = receipt.total /\ b.arm_allowed = receipt.allowed
               /\ b.arm_prevented = receipt.prevented
<1> HIDE DEF Text, Hash, PolicyHash, PolicyVersion, Usd, Orbit
<1> QED BY DEF PayloadOf, PayloadFields, DecisionHashOf

\* The shape of a receipt, and what edits leave of its signatures: a payload is
\* signed with the signing key only if it is the one that was issued.
SignParts == {"algorithm", "key_id", "fingerprint", "public_key_pem", "value"}
Shaped(p) ==
    /\ DOMAIN p = {"body", "hmac", "sign"} /\ DOMAIN p.sign = SignParts
    /\ DOMAIN p.sign.value = {"key", "of"} /\ DOMAIN p.hmac = {"key", "of"}
SignedAs(p, b) ==
    /\ p.hmac.of = b
    /\ p.sign.value.key = SigningKey => p.sign.value.of = b
FreshOf(o, r) ==
    /\ Preflight(r) = "OK" /\ o.body = Decided(r)
    /\ o.sign = SignatureBy(SigningKey, o.body)

PaperInv ==
    paper # Absent =>
        /\ Shaped(paper) /\ SignedAs(paper, original.body)
        /\ origin = "fresh" => \E r \in PaperRequests : FreshOf(original, r)
        /\ origin = "sidecar" => paper.sign.public_key_pem # SigningKey

\* An untouched receipt of a decision over empty stores verifies.
LEMMA FreshVerifies ==
    ASSUME NEW o, NEW r \in PaperRequests, FreshOf(o, r)
    PROVE  Verified(o)
<1>1. PICK receipt : receipt = Receipt(r, Arm(r, NoExecutions, NoBudgets))
  OBVIOUS
<1>2. PICK b : b = o.body
  OBVIOUS
<1>3. b = PayloadOf(receipt) /\ b = Decided(r) /\ Preflight(r) = "OK"
  BY <1>1, <1>2 DEF FreshOf, Decided
<1>4. receipt.request = r /\ receipt.decision \in {"ALLOW", "REFUSE"}
  BY <1>1 DEF Receipt
<1>5. /\ b.schema = "ecs.receipt.v2" /\ b.text = Text(r)
      /\ b.request_hash = Hash(Text(r)) /\ b.decision_request_hash = Hash(Text(r))
      /\ b.preflight_request_hash = Hash(Text(r))
      /\ b.decision = receipt.decision /\ b.decision_hash = DecisionHashOf(b)
      /\ b.policy_hash = PolicyHash(r) /\ b.preflight_policy_hash = PolicyHash(r)
  BY <1>3, <1>4, PayloadIs, Zenon
<1>6. \A f \in PayloadFields : b[f] \notin {Absent, Other}
  BY <1>3, MarksAssumption
<1>7. Absent \notin PaperRequests /\ Absent # SigningKey /\ Absent # "ed25519"
  BY MarksAssumption
<1>8. Text(r).req = r /\ Text(r).canonical
  BY DEF Text
<1>9. PICK sign : sign = o.sign
  OBVIOUS
<1>10. /\ DOMAIN sign = SignParts
       /\ sign.algorithm = "ed25519" /\ sign.key_id = SigningKey /\ sign.fingerprint = SigningKey
       /\ sign.public_key_pem = SigningKey /\ sign.value = [key |-> SigningKey, of |-> b]
       /\ sign.value.key = SigningKey
  BY <1>2, <1>9 DEF FreshOf, SignatureBy, SignParts
<1>11. Required(o)
  <2>1. /\ \A f \in {"text", "request_hash", "decision_hash", "decision_request_hash", "reason_code",
                     "policy_version", "policy_hash", "execution_id", "orbit", "ramona",
                     "arm_execution_id"} : b[f] # Absent
        /\ \A f \in {"arm_total", "arm_allowed", "arm_prevented"} : b[f] \notin {Absent, Other}
    BY <1>6 DEF PayloadFields
  <2>2. \A f \in SignParts \ {"value"} : sign[f] # Absent
    BY <1>7, <1>10 DEF SignParts
  <2> QED BY <1>2, <1>4, <1>5, <1>7, <1>9, <1>10, <2>1, <2>2 DEF Required
<1>12. Canonical(b.text)
  <2>1. b.text \notin {Absent, Other}
    BY <1>6 DEF PayloadFields
  <2> QED BY <1>5, <1>7, <1>8, <2>1 DEF Canonical
<1>13. RequestHashMatches(b) /\ PolicyHashMatches(b) /\ DecisionHashOf(b) = b.decision_hash
  BY <1>5, <1>8 DEF RequestHashMatches, PolicyHashMatches
<1>14. VerifyReceiptPublicSignature(o)
  BY <1>2, <1>7, <1>9, <1>10 DEF VerifyReceiptPublicSignature
<1>15. ReplayMatches(b)
  BY <1>3, <1>5, <1>8 DEF ReplayMatches
<1> QED BY <1>2, <1>11, <1>12, <1>13, <1>14, <1>15 DEF Verified

LEMMA PaperInvDetects == PaperInv => (paper # Absent => UnderTheIssuersKey)
<1> SUFFICES ASSUME PaperInv, paper # Absent
             PROVE  UnderTheIssuersKey
  BY DEF UnderTheIssuersKey
<1>1. PICK p, o : p = paper /\ o = original
  OBVIOUS
<1>2. /\ SignedAs(p, o.body)
      /\ origin = "fresh" => \E r \in PaperRequests : FreshOf(o, r)
      /\ origin = "sidecar" => p.sign.public_key_pem # SigningKey
  BY <1>1 DEF PaperInv
<1>3. origin = "fresh" /\ p = o => Verified(p)
  BY <1>2, FreshVerifies
<1>4. VerifyReceiptPublicSignature(p) => p.body = o.body \/ p.sign.public_key_pem # SigningKey
  <2> SUFFICES ASSUME VerifyReceiptPublicSignature(p), p.sign.public_key_pem = SigningKey
               PROVE  p.body = o.body
    OBVIOUS
  <2>1. p.sign.value = [key |-> SigningKey, of |-> p.body]
    BY DEF VerifyReceiptPublicSignature
  <2>2. p.sign.value.key = SigningKey /\ p.sign.value.of = p.body
    BY <2>1
  <2> QED BY <1>2, <2>2 DEF SignedAs
<1>5. p.hmac = [key |-> "secret", of |-> p.body] => p.body = o.body
  <2> SUFFICES ASSUME p.hmac = [key |-> "secret", of |-> p.body] PROVE p.body = o.body
    OBVIOUS
  <2>1. p.hmac.of = p.body
    OBVIOUS
  <2> QED BY <1>2, <2>1 DEF SignedAs
<1>6. Verified(p) \/ VerifyReceiptSignature(p) => p.body = o.body \/ p.sign.public_key_pem # SigningKey
  BY <1>4, <1>5 DEF Verified, VerifyReceiptSignature
<1> QED BY <1>1, <1>2, <1>3, <1>6 DEF UnderTheIssuersKey

LEMMA DecisionIssued ==
    ASSUME IssueDecision PROVE PaperInv'
<1>1. PICK r \in PaperRequests, fresh \in BOOLEAN :
        LET execs == IF fresh THEN NoExecutions ELSE [NoExecutions EXCEPT ![r.id] = "allowed"]
            payload == PayloadOf(Receipt(r, Arm(r, execs, NoBudgets)))
        IN  /\ Preflight(r) = "OK"
            /\ original' = SignPayload(payload)
            /\ paper' = original'
            /\ origin' = IF fresh THEN "fresh" ELSE "used"
  BY DEF IssueDecision
<1>2. PICK execs : execs = IF fresh THEN NoExecutions ELSE [NoExecutions EXCEPT ![r.id] = "allowed"]
  OBVIOUS
<1>3. PICK payload : payload = PayloadOf(Receipt(r, Arm(r, execs, NoBudgets)))
  OBVIOUS
<1>4. PICK o : o = SignPayload(payload)
  OBVIOUS
<1>5. /\ original' = o /\ paper' = o /\ origin' = (IF fresh THEN "fresh" ELSE "used")
      /\ Preflight(r) = "OK"
  BY <1>1, <1>2, <1>3, <1>4
<1>6. /\ DOMAIN o = {"body", "hmac", "sign"} /\ DOMAIN o.hmac = {"key", "of"}
      /\ o.body = payload /\ o.hmac.of = payload /\ o.sign = SignatureBy(SigningKey, payload)
  BY <1>4 DEF SignPayload
<1>7. Shaped(o) /\ SignedAs(o, o.body)
  BY <1>6 DEF Shaped, SignedAs, SignatureBy, SignParts
<1>8. fresh => FreshOf(o, r)
  BY <1>2, <1>3, <1>5, <1>6 DEF FreshOf, Decided
<1>9. /\ paper' = o /\ original' = o /\ origin' # "sidecar"
      /\ origin' = "fresh" => \E q \in PaperRequests : FreshOf(o, q)
  BY <1>5, <1>8
<1> HIDE DEF Shaped, SignedAs, FreshOf
<1> QED BY <1>7, <1>9 DEF PaperInv

LEMMA RefusalIssued ==
    ASSUME IssueRefusal PROVE PaperInv'
<1>1. PICK r \in PaperRequests, parses \in BOOLEAN :
        LET text == IF parses THEN Text(r) ELSE [req |-> Absent, canonical |-> FALSE]
            payload == RefusalPayload(text, "ERR_SIDECAR_REFUSED")
        IN  original' = SignRefusal(payload) /\ paper' = original'
  BY DEF IssueRefusal
<1>2. PICK payload : original' = SignRefusal(payload) /\ paper' = original'
  BY <1>1
<1>3. PICK o : o = SignRefusal(payload)
  OBVIOUS
<1>4. original' = o /\ paper' = o /\ origin' = "sidecar"
  BY <1>2, <1>3 DEF IssueRefusal
<1>5. /\ DOMAIN o = {"body", "hmac", "sign"} /\ DOMAIN o.hmac = {"key", "of"}
      /\ o.body = payload /\ o.hmac.of = payload
      /\ o.sign = [SignatureBy(SigningKey, payload) EXCEPT !.public_key_pem = Absent]
  BY <1>3 DEF SignRefusal
<1>6. /\ DOMAIN o.sign = SignParts /\ o.sign.public_key_pem = Absent
      /\ o.sign.value = [key |-> SigningKey, of |-> payload]
  BY <1>5 DEF SignatureBy, SignParts
<1>7. Shaped(o) /\ SignedAs(o, o.body)
  BY <1>5, <1>6 DEF Shaped, SignedAs
<1>8. o.sign.public_key_pem # SigningKey
  BY <1>6, MarksAssumption
<1> QED BY <1>4, <1>7, <1>8 DEF PaperInv

LEMMA PaperEdited ==
    ASSUME PaperInv, EditPaper PROVE PaperInv'
<1>1. paper # Absent /\ Shaped(paper) /\ SignedAs(paper, original.body)
  BY DEF PaperInv, EditPaper, MayEdit
<1>2. PICK f, v : paper' = [paper EXCEPT !.body[f] = v]
  BY DEF EditPaper
<1>3. DOMAIN paper' = DOMAIN paper /\ paper'.sign = paper.sign /\ paper'.hmac = paper.hmac
  BY <1>1, <1>2 DEF Shaped
<1>4. Shaped(paper') /\ SignedAs(paper', original.body)
  BY <1>1, <1>3 DEF Shaped, SignedAs
<1>5. original' = original /\ origin' = origin
  BY DEF EditPaper
<1> QED BY <1>1, <1>3, <1>4, <1>5 DEF PaperInv

LEMMA SignatureEdited ==
    ASSUME PaperInv, EditSignature PROVE PaperInv'
<1>1. PICK p, o : p = paper /\ o = original
  OBVIOUS
<1>2. /\ paper # Absent /\ Shaped(p) /\ SignedAs(p, o.body)
      /\ origin = "sidecar" => p.sign.public_key_pem # SigningKey
  BY <1>1 DEF PaperInv, EditSignature, MayEdit
<1>3. PICK v \in {Absent, Other} :
        \/ \E f \in SignParts \ {"value"} : paper' = [p EXCEPT !.sign[f] = v]
        \/ paper' = [p EXCEPT !.sign.value.key = v]
        \/ paper' = [p EXCEPT !.hmac.key = v]
  BY <1>1, <1>2 DEF EditSignature, Shaped
<1>4. v # SigningKey
  BY MarksAssumption
<1>5. /\ Shaped(paper') /\ SignedAs(paper', o.body)
      /\ origin = "sidecar" => paper'.sign.public_key_pem # SigningKey
  <2>1. CASE \E f \in SignParts \ {"value"} : paper' = [p EXCEPT !.sign[f] = v]
    <3>1. PICK f \in SignParts \ {"value"} : paper' = [p EXCEPT !.sign[f] = v]
      BY <2>1
    <3>2. /\ DOMAIN paper' = DOMAIN p /\ paper'.hmac = p.hmac
          /\ paper'.sign = [p.sign EXCEPT ![f] = v]
      BY <1>2, <3>1 DEF Shaped
    <3>3. /\ DOMAIN paper'.sign = SignParts /\ paper'.sign.value = p.sign.value
          /\ paper'.sign.public_key_pem \in {p.sign.public_key_pem, v}
      BY <1>2, <3>1, <3>2 DEF Shaped, SignParts
    <3> QED BY <1>2, <1>4, <3>2, <3>3 DEF Shaped, SignedAs
  <2>2. CASE paper' = [p EXCEPT !.sign.value.key = v]
    <3>1. /\ DOMAIN paper' = DOMAIN p /\ paper'.hmac = p.hmac
          /\ paper'.sign = [p.sign EXCEPT !.value.key = v]
      BY <1>2, <2>2 DEF Shaped
    <3>2. /\ DOMAIN paper'.sign = SignParts
          /\ paper'.sign.public_key_pem = p.sign.public_key_pem
          /\ paper'.sign.value = [p.sign.value EXCEPT !.key = v]
      BY <1>2, <3>1 DEF Shaped, SignParts
    <3>3. DOMAIN paper'.sign.value = {"key", "of"} /\ paper'.sign.value.key = v
      BY <1>2, <3>2 DEF Shaped
    <3> QED BY <1>2, <1>4, <3>1, <3>2, <3>3 DEF Shaped, SignedAs
  <2>3. CASE paper' = [p EXCEPT !.hmac.key = v]
    <3>1. /\ DOMAIN paper' = DOMAIN p /\ paper'.sign = p.sign
          /\ paper'.hmac = [p.hmac EXCEPT !.key = v]
      BY <1>2, <2>3 DEF Shaped
    <3>2. DOMAIN paper'.hmac = {"key", "of"} /\ paper'.hmac.of = p.hmac.of
      BY <1>2, <3>1 DEF Shaped
    <3> QED BY <1>2, <3>1, <3>2 DEF Shaped, SignedAs
  <2> QED BY <1>3, <2>1, <2>2, <2>3
<1>6. original' = original /\ origin' = origin
  BY DEF EditSignature
<1>7. origin = "fresh" => \E r \in PaperRequests : FreshOf(original, r)
  BY <1>2 DEF PaperInv
<1> QED BY <1>1, <1>5, <1>6, <1>7 DEF PaperInv

LEMMA PaperResigned ==
    ASSUME PaperInv, Resign PROVE PaperInv'
<1>1. paper # Absent /\ Shaped(paper) /\ SignedAs(paper, original.body)
  BY DEF PaperInv, Resign
<1>2. PICK b \in {paper.body, Rehashed(paper.body)} :
            paper' = [paper EXCEPT !.body = b, !.sign = SignatureBy(Other, b)]
  BY DEF Resign
<1>3. /\ DOMAIN paper' = DOMAIN paper /\ paper'.hmac = paper.hmac
      /\ paper'.sign = SignatureBy(Other, b)
  BY <1>1, <1>2 DEF Shaped
<1>4. Other # SigningKey
  BY MarksAssumption
<1>5. PICK sign : sign = SignatureBy(Other, b)
  OBVIOUS
<1>6. /\ DOMAIN sign = SignParts /\ DOMAIN sign.value = {"key", "of"}
      /\ sign.public_key_pem = Other /\ sign.value.key = Other
  BY <1>5 DEF SignatureBy, SignParts
<1>7. /\ Shaped(paper') /\ SignedAs(paper', original.body)
      /\ paper'.sign.public_key_pem # SigningKey
  BY <1>1, <1>3, <1>4, <1>5, <1>6 DEF Shaped, SignedAs
<1>8. original' = original /\ origin' = origin
  BY DEF Resign
<1> QED BY <1>1, <1>7, <1>8 DEF PaperInv

\* Hashes of different texts differ, and so do decision hashes of payloads that
\* differ in what they cover.
LEMMA HashesTell ==
    ASSUME NEW a, NEW b
    PROVE  /\ Hash(a) = Hash(b) => a = b
           /\ DecisionHashOf(a) = DecisionHashOf(b) =>
                /\ a.arm_execution_id = b.arm_execution_id /\ a.arm_total = b.arm_total
                /\ a.arm_allowed = b.arm_allowed /\ a.arm_prevented = b.arm_prevented
<1>1. \A x : Hash(x).sha256 = x
  BY DEF Hash
<1>2. ASSUME DecisionHashOf(a) = DecisionHashOf(b)
      PROVE  <<a.request_hash, a.policy_hash, a.decision, a.reason_code, a.policy_version,
               a.arm_execution_id, a.arm_total, a.arm_allowed, a.arm_prevented>>
             = <<b.request_hash, b.policy_hash, b.decision, b.reason_code, b.policy_version,
                 b.arm_execution_id, b.arm_total, b.arm_allowed, b.arm_prevented>>
  <2> HIDE DEF Hash
  <2> QED BY <1>1, <1>2, Zenon DEF DecisionHashOf
<1>3. Hash(a) = Hash(b) => a = b
  <2>1. Hash(a).sha256 = a /\ Hash(b).sha256 = b
    BY <1>1
  <2> HIDE DEF Hash
  <2> QED BY <2>1
<1> QED BY <1>2, <1>3

\* Whoever signed it, what tools/verify-receipt.mjs verifies is what the pipeline
\* decides of the request over empty stores, in every field but the results of orbit
\* and ram0na and a missing copy of a hash.
LEMMA VerifiedAreDecided == UnderAnyKey
<1> SUFFICES ASSUME Verified(paper) PROVE UnderAnyKey
  BY DEF UnderAnyKey
<1>1. PICK p : p = paper
  OBVIOUS
<1>2. PICK b, r : b = p.body /\ r = b.text.req
  OBVIOUS
<1>3. PICK receipt : receipt = Receipt(r, Arm(r, NoExecutions, NoBudgets))
  OBVIOUS
<1>4. PICK again : again = PayloadOf(receipt)
  OBVIOUS
<1>5. again = Decided(r) /\ receipt.request = r
  BY <1>3, <1>4 DEF Decided, Receipt
<1>6. /\ again.schema = "ecs.receipt.v2" /\ again.text = Text(r)
      /\ again.request_hash = Hash(Text(r)) /\ again.decision_request_hash = Hash(Text(r))
      /\ again.preflight_request_hash = Hash(Text(r))
      /\ again.decision_hash = DecisionHashOf(again)
      /\ again.policy_hash = PolicyHash(r) /\ again.preflight_policy_hash = PolicyHash(r)
  BY <1>4, <1>5, PayloadIs, Zenon
<1>7. /\ b.schema = "ecs.receipt.v2" /\ RequestHashMatches(b) /\ PolicyHashMatches(b)
      /\ DecisionHashOf(b) = b.decision_hash /\ ReplayMatches(b)
  BY <1>1, <1>2 DEF Verified, Required
<1>8. /\ Preflight(r) = "OK"
      /\ \A f \in {"request_hash", "decision", "reason_code", "decision_hash", "policy_hash",
                   "policy_version", "execution_id", "total_usd", "allowed_usd",
                   "prevented_usd"} : b[f] = again[f]
  BY <1>2, <1>5, <1>7 DEF ReplayMatches
<1>9. /\ b.text = again.text /\ b.decision_request_hash = again.decision_request_hash
      /\ b.preflight_request_hash \in {again.preflight_request_hash, Absent}
      /\ b.preflight_policy_hash \in {again.preflight_policy_hash, Absent}
  <2>1. Hash(b.text) = Hash(Text(r)) => b.text = Text(r)
    BY HashesTell
  <2>2. Hash(b.text) = b.request_hash /\ b.request_hash = Hash(Text(r))
    BY <1>6, <1>7, <1>8 DEF RequestHashMatches
  <2>3. b.policy_hash = PolicyHash(r)
    BY <1>6, <1>8
  <2> HIDE DEF Hash, Text, PolicyHash
  <2> QED BY <1>6, <1>7, <2>1, <2>2, <2>3 DEF RequestHashMatches, PolicyHashMatches
<1>10. /\ b.arm_execution_id = again.arm_execution_id /\ b.arm_total = again.arm_total
       /\ b.arm_allowed = again.arm_allowed /\ b.arm_prevented = again.arm_prevented
  <2>1. DecisionHashOf(b) = DecisionHashOf(again)
    BY <1>6, <1>7, <1>8
  <2> QED BY <2>1, HashesTell
<1>11. \A f \in PayloadFields \ {"orbit", "ramona", "preflight_request_hash",
                                 "preflight_policy_hash"} : b[f] = again[f]
  BY <1>6, <1>7, <1>8, <1>9, <1>10 DEF PayloadFields
<1> QED BY <1>1, <1>2, <1>5, <1>8, <1>9, <1>11 DEF UnderAnyKey

\* tools/verify-receipt.mjs accepts every untouched receipt of a decision over empty
\* stores; it and verifyReceiptSignature accept no receipt a field of whose payload
\* was changed or lost, and the former no refusal of the sidecar, under the key that
\* signed it; under any key the former accepts only what the pipeline decides.
THEOREM EditsAreDetected == SpecP => []EditsDetected
<1>1. InitP => PaperInv
  BY DEF InitP, PaperInv
<1>2. PaperInv /\ [NextP]_pvars => PaperInv'
  <2> SUFFICES ASSUME PaperInv, [NextP]_pvars PROVE PaperInv'
    OBVIOUS
  <2>1. CASE NextPaper
    BY <2>1 DEF NextPaper, PaperInv
  <2>2. CASE UNCHANGED pvars
    BY <2>2 DEF pvars, PaperInv
  <2> QED BY <2>1, <2>2, DecisionIssued, RefusalIssued, PaperEdited, SignatureEdited, PaperResigned
       DEF NextP
<1>3. PaperInv => EditsDetected
  BY PaperInvDetects, VerifiedAreDecided DEF EditsDetected
<1> QED BY <1>1, <1>2, <1>3, PTL DEF SpecP
=============================================================================
