------------------------ MODULE ReceiptVerification ------------------------
(***************************************************************************)
(* Signed receipts on paper: how the pipeline (ram0na/engine.ts) and the   *)
(* sidecar's refusals (sidecar/refusal_receipt.mjs) issue them, and what   *)
(* tools/verify-receipt.mjs and verifyReceiptSignature say of a receipt    *)
(* file in which fields were changed or lost.                              *)
(*                                                                         *)
(* A hash is the record of what it covers, a signature that of the key and *)
(* the payload.  The decision is recomputed by the operators of Pipeline.  *)
(* The verifiers take the public key from the receipt and know no key of   *)
(* their own: a receipt may be signed again by whoever holds it.           *)
(***************************************************************************)
EXTENDS Pipeline, FiniteSets

CONSTANTS
    PaperRequests,  \* the requests receipts are followed for
    SigningKey,     \* the receipt signing key
    Other,          \* another string where a string is expected; as a key, one
                    \* the holder of a receipt made
    Absent,         \* a missing field
    MaxPaperEdits   \* bound: fields changed

ASSUME ReceiptVerificationAssumption ==
    MaxPaperEdits \in Nat /\ PaperRequests \subseteq Requests

VARIABLES
    paper,     \* the receipt file, or Absent
    original,  \* the receipt as it was issued
    origin,    \* who issued it, and whether over empty stores
    secret     \* the process has an HMAC secret (MNDE_RECEIPT_HMAC_SECRET)

pvars == <<paper, original, origin, secret>>

Hash(x) == [sha256 |-> x]
PolicyHash(r) == [policy |-> r.policy]
PolicyVersion == "v1"

\* The text of a request: [req, canonical]; req is Absent for a text that does
\* not parse.
Text(r) == [req |-> r, canonical |-> TRUE]

DecisionHashOf(b) ==
    Hash(<<b.request_hash, b.policy_hash, b.decision, b.reason_code, b.policy_version,
           b.arm_execution_id, b.arm_total, b.arm_allowed, b.arm_prevented>>)

\* formatUsdFromCents: one string for every amount.
Usd(cents) == [usd |-> cents]

PayloadFields ==
    {"schema", "text", "request_hash", "decision", "decision_hash", "decision_request_hash",
     "reason_code", "policy_version", "policy_hash", "execution_id", "total_usd", "allowed_usd",
     "prevented_usd", "preflight_request_hash", "preflight_policy_hash", "orbit", "ramona",
     "arm_execution_id", "arm_total", "arm_allowed", "arm_prevented"}

-----------------------------------------------------------------------------
(* Issuing.                                                                 *)

\* The payload of buildReceipt for what the pipeline decided.
PayloadOf(receipt) ==
    LET r == receipt.request
        b == [schema |-> "ecs.receipt.v2", text |-> Text(r), request_hash |-> Hash(Text(r)),
              decision |-> receipt.decision, decision_hash |-> Absent,
              decision_request_hash |-> Hash(Text(r)), reason_code |-> receipt.reason,
              policy_version |-> PolicyVersion, policy_hash |-> PolicyHash(r), execution_id |-> r.id,
              total_usd |-> Usd(receipt.total), allowed_usd |-> Usd(receipt.allowed),
              prevented_usd |-> Usd(receipt.prevented),
              preflight_request_hash |-> Hash(Text(r)), preflight_policy_hash |-> PolicyHash(r),
              orbit |-> Orbit(r), ramona |-> receipt.reason, arm_execution_id |-> r.id,
              arm_total |-> receipt.total, arm_allowed |-> receipt.allowed,
              arm_prevented |-> receipt.prevented]
    IN  [b EXCEPT !.decision_hash = DecisionHashOf(b)]

\* The payload of what the pipeline decides of r over empty stores.
Decided(r) == PayloadOf(Receipt(r, Arm(r, NoExecutions, NoBudgets)))

\* The two marks are nothing a receipt is issued with.
ASSUME MarksAssumption ==
    /\ Absent # Other
    /\ \A mark \in {Absent, Other} :
            /\ mark \notin PaperRequests /\ mark \notin {SigningKey, "ed25519"}
            /\ \A r \in PaperRequests, f \in PayloadFields :
                    Preflight(r) = "OK" => Decided(r)[f] # mark

\* The payload of buildSidecarRefusalReceipt for a request that was refused
\* before the pipeline saw it.  Its decision hash covers no cost.
RefusalPayload(text, reason) ==
    [schema |-> "ecs.receipt.v2", text |-> text, request_hash |-> Hash(text),
     decision |-> "REFUSE",
     decision_hash |-> Hash(<<Hash(text), Other, "REFUSE", reason, PolicyVersion, "sidecar-refusal">>),
     decision_request_hash |-> Hash(text), reason_code |-> reason,
     policy_version |-> PolicyVersion, policy_hash |-> Other, execution_id |-> "sidecar-refusal",
     total_usd |-> Usd(0), allowed_usd |-> Usd(0), prevented_usd |-> Usd(0),
     preflight_request_hash |-> Hash(text), preflight_policy_hash |-> Other,
     orbit |-> reason, ramona |-> reason, arm_execution_id |-> "sidecar-refusal",
     arm_total |-> 0, arm_allowed |-> 0, arm_prevented |-> 0]

SignatureBy(key, payload) ==
    [algorithm |-> "ed25519", key_id |-> key, fingerprint |-> key, public_key_pem |-> key,
     value |-> [key |-> key, of |-> payload]]

\* signPayload: without a secret the HMAC is empty.
SignPayload(payload) ==
    [body |-> payload,
     hmac |-> [key |-> IF secret THEN "secret" ELSE Absent, of |-> payload],
     sign |-> SignatureBy(SigningKey, payload)]

\* signPayload of refusal_receipt.mjs: a fixed HMAC secret, and no public key.
SignRefusal(payload) ==
    [body |-> payload, hmac |-> [key |-> Other, of |-> payload],
     sign |-> [SignatureBy(SigningKey, payload) EXCEPT !.public_key_pem = Absent]]

-----------------------------------------------------------------------------
(* Verification (tools/verify-receipt.mjs).                                 *)

\* validateSchema
Required(p) ==
    /\ p.body.schema = "ecs.receipt.v2"
    /\ p.body.decision \in {"ALLOW", "REFUSE"}
    /\ \A f \in {"text", "request_hash", "decision_hash", "decision_request_hash", "reason_code",
                 "policy_version", "policy_hash", "execution_id", "orbit", "ramona",
                 "arm_execution_id"} : p.body[f] # Absent
    /\ \A f \in {"arm_total", "arm_allowed", "arm_prevented"} : p.body[f] \notin {Absent, Other}
    /\ \A f \in DOMAIN p.sign \ {"value"} : p.sign[f] # Absent
    /\ p.sign.value.key # Absent

\* verifyCanonicalization
Canonical(text) == text \notin {Absent, Other} /\ text.req # Absent /\ text.canonical

\* verifyRequestHash: the two copies are compared when they are present.
RequestHashMatches(b) ==
    /\ Hash(b.text) = b.request_hash
    /\ b.decision_request_hash = b.request_hash
    /\ b.preflight_request_hash \in {Absent, b.request_hash}

\* verifyPolicyHash
PolicyHashMatches(b) ==
    /\ PolicyHash(b.text.req) = b.policy_hash
    /\ b.preflight_policy_hash \in {Absent, b.policy_hash}

\* verifyReceiptPublicSignature: the key is the one the receipt brings, and it
\* is compared with no other.
VerifyReceiptPublicSignature(p) ==
    LET key == p.sign.public_key_pem
    IN  /\ key # Absent
        /\ p.sign.algorithm = "ed25519"
        /\ p.sign.key_id = key
        /\ p.sign.fingerprint = key
        /\ p.sign.value = [key |-> key, of |-> p.body]

\* verifyReplayDeterminism: the layers run again over empty stores.
ReplayMatches(b) ==
    /\ Preflight(b.text.req) = "OK"
    /\ \A f \in {"request_hash", "decision", "reason_code", "decision_hash", "policy_hash",
                 "policy_version", "execution_id", "total_usd", "allowed_usd", "prevented_usd"} :
            b[f] = Decided(b.text.req)[f]

\* A verification that leaves the decision hash to the replay.
ReplayCoversHash(p) ==
    /\ Required(p) /\ Canonical(p.body.text)
    /\ RequestHashMatches(p.body) /\ PolicyHashMatches(p.body)
    /\ VerifyReceiptPublicSignature(p) /\ ReplayMatches(p.body)

\* verifyReceiptFile and verificationPassed
Verified(p) ==
    /\ Required(p)
    /\ Canonical(p.body.text)
    /\ RequestHashMatches(p.body)
    /\ DecisionHashOf(p.body) = p.body.decision_hash
    /\ PolicyHashMatches(p.body)
    /\ VerifyReceiptPublicSignature(p)
    /\ ReplayMatches(p.body)

\* verifyReceiptSignature: the HMAC, or else the public signature.
VerifyReceiptSignature(p) ==
    \/ secret /\ p.hmac = [key |-> "secret", of |-> p.body]
    \/ VerifyReceiptPublicSignature(p)

-----------------------------------------------------------------------------
\* executeDeterministicPipeline wrote a receipt; the process may have seen the
\* execution id before.
IssueDecision ==
    /\ paper = Absent
    /\ \E r \in PaperRequests, fresh \in BOOLEAN :
        LET execs == IF fresh THEN NoExecutions ELSE [NoExecutions EXCEPT ![r.id] = "allowed"]
            payload == PayloadOf(Receipt(r, Arm(r, execs, NoBudgets)))
        IN  /\ Preflight(r) = "OK"
            /\ original' = SignPayload(payload)
            /\ paper' = original'
            /\ origin' = IF fresh THEN "fresh" ELSE "used"
    /\ UNCHANGED secret

\* The sidecar refused the request itself.
IssueRefusal ==
    /\ paper = Absent
    /\ \E r \in PaperRequests, parses \in BOOLEAN :
        LET text == IF parses THEN Text(r) ELSE [req |-> Absent, canonical |-> FALSE]
            payload == RefusalPayload(text, "ERR_SIDECAR_REFUSED")
        IN  original' = SignRefusal(payload) /\ paper' = original'
    /\ origin' = "sidecar"
    /\ UNCHANGED secret

ChangedFields == {f \in DOMAIN paper.body : paper.body[f] # original.body[f]}
ChangedParts == {f \in DOMAIN paper.sign : paper.sign[f] # original.sign[f]}
MayEdit ==
    /\ paper # Absent
    /\ Cardinality(ChangedFields) + Cardinality(ChangedParts) < MaxPaperEdits

\* A field of the file is lost, or changed to another value of its kind.
EditPaper ==
    /\ MayEdit
    /\ \E f \in DOMAIN paper.body \ ChangedFields :
        \E v \in CASE f = "text" -> {Absent, Other, [paper.body.text EXCEPT !.canonical = FALSE]}
                                    \cup {Text(r) : r \in PaperRequests}
                   [] f = "decision" -> {Absent, "ALLOW", "REFUSE"}
                   [] f \in {"arm_total", "arm_allowed", "arm_prevented"} -> {Absent, Other, paper.body[f] + 1}
                   [] OTHER -> {Absent, Other} :
            paper' = [paper EXCEPT !.body[f] = v]
    /\ UNCHANGED <<original, origin, secret>>

\* So is a part of the signatures.
EditSignature ==
    /\ MayEdit
    /\ \E v \in {Absent, Other} :
        \/ \E f \in DOMAIN paper.sign \ {"value"} : paper' = [paper EXCEPT !.sign[f] = v]
        \/ paper' = [paper EXCEPT !.sign.value.key = v]
        \/ paper' = [paper EXCEPT !.hmac.key = v]
    /\ UNCHANGED <<original, origin, secret>>

\* Every hash of the payload is made to agree with the request in it.
Rehashed(b) ==
    LET h == Hash(b.text)
        p == IF Canonical(b.text) THEN PolicyHash(b.text.req) ELSE b.policy_hash
        c == [b EXCEPT !.request_hash = h, !.decision_request_hash = h,
                       !.preflight_request_hash = h, !.policy_hash = p,
                       !.preflight_policy_hash = p]
    IN  [c EXCEPT !.decision_hash = DecisionHashOf(c)]

\* The payload, perhaps made consistent, is signed by its holder's own key.
Resign ==
    /\ paper # Absent
    /\ \E b \in {paper.body, Rehashed(paper.body)} :
        paper' = [paper EXCEPT !.body = b, !.sign = SignatureBy(Other, b)]
    /\ UNCHANGED <<original, origin, secret>>

\* The reader turns to another receipt.
NextPaper ==
    /\ paper # Absent
    /\ paper' = Absent /\ original' = Absent /\ origin' = "none"
    /\ UNCHANGED secret

InitP ==
    /\ paper = Absent /\ original = Absent /\ origin = "none"
    /\ secret \in BOOLEAN

NextP == IssueDecision \/ IssueRefusal \/ EditPaper \/ EditSignature \/ Resign \/ NextPaper

SpecP == InitP /\ [][NextP]_pvars
-----------------------------------------------------------------------------
\* An untouched receipt of a decision over empty stores verifies.  Under the key
\* that signed it, a receipt any field of whose payload was changed or lost passes
\* no verifier, and a refusal of the sidecar not tools/verify-receipt.mjs.
UnderTheIssuersKey ==
    /\ (origin = "fresh" /\ paper = original) => Verified(paper)
    /\ (Verified(paper) \/ VerifyReceiptSignature(paper)) =>
            paper.body = original.body \/ paper.sign.public_key_pem # SigningKey
    /\ (Verified(paper) /\ origin = "sidecar") => paper.sign.public_key_pem # SigningKey

\* Under any key, what verifies is what the pipeline decides of its request over
\* empty stores.  That covers the costs and the execution id of the arm layer,
\* which no check compares, and leaves the results of orbit and ram0na and a
\* missing copy of a hash.
UnderAnyKey ==
    Verified(paper) =>
        LET b == paper.body
            again == Decided(b.text.req)
            copies == {"preflight_request_hash", "preflight_policy_hash"}
        IN  /\ Preflight(b.text.req) = "OK"
            /\ \A f \in PayloadFields \ ({"orbit", "ramona"} \cup copies) : b[f] = again[f]
            /\ \A f \in copies : b[f] \in {again[f], Absent}

\* No sequence of edits gets past the verifiers with something the issuer, or at
\* least the pipeline, would not have said.  The key is the one the receipt
\* brings: whoever edits a receipt may sign it again with his own
\* (tools/verify-receipt.mjs, verifyReceiptSignature).
EditsDetected == paper # Absent => UnderTheIssuersKey /\ UnderAnyKey
=============================================================================
