-------------------------- MODULE CustodySidecar --------------------------
(***************************************************************************)
(* The custody sidecar (src/sidecar-custody/server.js): a decision service *)
(* that holds no key.  It decides a request, has the customer's signing    *)
(* service sign the receipt, checks the signature against the configuration*)
(* it loaded when it started, appends the receipt and answers.  When       *)
(* anything fails on the way it records and answers an unsigned refusal.   *)
(*                                                                         *)
(* The code between two awaits is one step: a handler waits for the body of*)
(* its request and for the signing service, nowhere else.  The append is   *)
(* synchronous; it may fail, leaving part of the line behind.  The process *)
(* may be killed, and the operator may change the configuration file and   *)
(* rotate the key of the signing service at any time.                      *)
(*                                                                         *)
(* Hashes stand for what they are taken of.                                *)
(***************************************************************************)
EXTENDS Naturals, FiniteSets, Sequences, SequencesExt

CONSTANTS
    Handlers,     \* connections with one POST /v1/decisions each
    Bodies,       \* request bodies sent, see Parsed
    SignerConfigs,\* contents the configuration file has, see ValidConfig
    Keys,         \* key pairs of the customer
    Responses,    \* answers of the signing service, see ResponseError
    Null,         \* null: no signer, no signature, no configuration
    MaxFaultsC,   \* bound: kills and failing writes
    MaxEditsC     \* bound: changes of the configuration and of the key

ASSUME CustodySidecarAssumption ==
    /\ {MaxFaultsC, MaxEditsC} \subseteq Nat
    /\ IsFiniteSet(Handlers)

VARIABLES
    file,      \* the signer configuration on disk
    loaded,    \* the configuration the running process loaded, or Null
    svcKey,    \* the key the signing service signs with
    handler,   \* what each handler is doing
    sent,      \* responses of the signing service on their way, per handler
    lines,     \* the receipt file
    partial,   \* its last line lacks the newline
    answer,    \* the receipt each client was answered with, or Null
    faulted      \* [faults, edits] so far

cvars == <<file, loaded, svcKey, handler, sent, lines, partial, answer, faulted>>

----------------------------------------------------------------------------
(* The configuration.                                                      *)

\* validateCustodySignerConfig.  "timeouts" says that the three latency fields
\* are integers with timeout_ms > latency_slo_ms > latency_target_ms.
Modes == {"external_http", "aws_kms", "azure_key_vault", "gcp_cloud_kms", "offline_operator"}

ValidConfig(c) ==
    LET on == {i \in DOMAIN c.signers : c.signers[i].enabled}
    IN  /\ c.version # Null
        /\ c.threshold >= 1
        /\ \A i \in DOMAIN c.signers :
              /\ c.signers[i].mode \in Modes
              /\ c.signers[i].key \in Keys
              /\ c.signers[i].mode = "external_http" => c.signers[i].endpoint
              /\ c.signers[i].timeouts
              /\ \A j \in DOMAIN c.signers :
                    i # j => /\ c.signers[i].id # c.signers[j].id
                             /\ c.signers[i].key # c.signers[j].key
        /\ Cardinality(on) >= c.threshold

\* enabledSigner: the first enabled signer, of the requested name if there is one.
EnabledSigner(c, id) ==
    LET fits == {i \in DOMAIN c.signers :
                   c.signers[i].enabled /\ id \in {Null, c.signers[i].id}}
    IN  IF fits = {} THEN Null
        ELSE c.signers[CHOOSE i \in fits : \A j \in fits : i <= j]

----------------------------------------------------------------------------
(* Requests and receipts.                                                  *)

\* readBody and JSON.parse: an empty body is the request {}, and so is, for the
\* receipt of its refusal, a body that is too large or not JSON.
EmptyRequest == [over |-> {}, signer |-> Null]

Parsed(b) == b.kind \in {"json", "null", "empty"}

RequestOf(b) == IF b.kind = "json" THEN [over |-> b.over, signer |-> b.signer]
                ELSE IF b.kind = "null" THEN Null
                ELSE EmptyRequest

\* decide: the limits are tried in this order; "over" are those exceeded.
Limits == <<"gpu", "hours", "retries", "cost">>

Decide(q) ==
    LET hit == {i \in 1..4 : Limits[i] \in q.over}
    IN  IF hit = {} THEN [decision |-> "ALLOW", reason |-> "OK_ALLOW"]
        ELSE [decision |-> "REFUSE", reason |-> Limits[CHOOSE i \in hit : \A j \in hit : i <= j]]

\* decision_hash.
DecisionHash(q, outcome) == <<q, outcome.decision, outcome.reason>>

\* buildUnsignedReceipt
UnsignedReceipt(q, outcome, c, signer) ==
    [request |-> q, decision_hash |-> DecisionHash(q, outcome),
     decision |-> outcome.decision, reason |-> outcome.reason, version |-> c.version,
     signer |-> signer.id, mode |-> signer.mode, config |-> c]

\* The receipt handleSignerFailure builds.
RefusalReceipt(q, reason, c) ==
    LET outcome == [decision |-> "REFUSE", reason |-> reason]
    IN  [payload |-> [UnsignedReceipt(q, outcome, c, [id |-> Null, mode |-> Null])
                        EXCEPT !.decision = "REFUSE"],
         signature |-> Null]

\* verifyReceipt of verify-custody-receipt.js, for the configuration file c.
VerifyReceipt(c, r, historical) ==
    LET p == r.payload
    IN  /\ p.version = c.version
        /\ p.config = c \/ historical
        /\ \E i \in DOMAIN c.signers :
              /\ c.signers[i].id = p.signer
              /\ \A j \in 1..(i - 1) : c.signers[j].id # p.signer
              /\ c.signers[i].mode = p.mode
              /\ r.signature = [key |-> c.signers[i].key, over |-> p]
        /\ p.decision_hash = DecisionHash(p.request, p)

----------------------------------------------------------------------------
(* The receipt file.  Each append either succeeds, fails before it writes  *)
(* or fails with part of the line written.                                 *)

WriteResults == {"ok", "nothing", "part"}

\* A line is what can be read from it: one receipt, <<receipt>>, or nothing.
Unreadable == <<>>

\* What the file holds after a first and a second append with these results.
Written(ls, open, receipt, result) ==
    CASE result = "ok" -> [ls |-> Append(ls, IF open THEN Unreadable ELSE <<receipt>>), open |-> FALSE]
      [] result = "nothing" -> [ls |-> ls, open |-> open]
      [] result = "part" -> [ls |-> ls, open |-> TRUE]

Done(h, r) == /\ handler' = [handler EXCEPT ![h] = [pc |-> "done", payload |-> Null]]
              /\ answer' = [answer EXCEPT ![h] = r]

Lost == [pc |-> "lost", payload |-> Null]

\* An unhandled rejection, or a kill, ends the process and every handler.
Die ==
    /\ loaded' = Null
    /\ sent' = [h \in Handlers |-> Null]
    /\ handler' = [h \in Handlers |->
                     IF handler[h].pc = "signing" THEN Lost ELSE handler[h]]

Spend(n) == /\ faulted.faults + n <= MaxFaultsC
            /\ faulted' = [faulted EXCEPT !.faults = @ + n]

Failures(results) == Cardinality({i \in DOMAIN results : results[i] # "ok"})

\* handleSignerFailure: append the refusal, then log it; either failing rejects
\* the promise nobody waits for.  The file had the content f before.
SignerFailure(h, f, q, reason, before) ==
    \E result \in WriteResults, logged \in {"ok", "nothing"} :
      LET r == RefusalReceipt(q, reason, loaded)
          g == Written(f.ls, f.open, r, result)
      IN  /\ result # "ok" => logged = "ok"
          /\ Spend(Failures(<<result, logged>>) + before)
          /\ lines' = g.ls /\ partial' = g.open
          /\ IF result = "ok" /\ logged = "ok"
               THEN Done(h, r) /\ UNCHANGED loaded
               ELSE /\ loaded' = Null
                    /\ answer' = answer
                    /\ handler' = [x \in Handlers |->
                         IF x = h \/ handler[x].pc = "signing"
                           THEN Lost ELSE handler[x]]

\* The end of handleDecision: append the signed receipt and answer; a failed
\* append goes to handleSignerFailure with the error of the file system.
Record(h, receipt) ==
    \E result \in WriteResults :
      LET f == Written(lines, partial, receipt, result)
      IN  IF result = "ok"
            THEN /\ lines' = f.ls /\ partial' = f.open
                 /\ Done(h, receipt) /\ UNCHANGED <<loaded, faulted>>
            ELSE SignerFailure(h, f, receipt.payload.request, "ENOSPC", 1)

----------------------------------------------------------------------------
(* The handler.                                                            *)

\* A request's body has been read: decide it and call the signing service, or
\* refuse it.
Receive(h) ==
    /\ loaded # Null
    /\ handler[h].pc = "idle"
    /\ \E b \in Bodies :
        LET q == RequestOf(b)
            signer == IF q = Null THEN Null ELSE EnabledSigner(loaded, q.signer)
            fail(reason) == SignerFailure(h, [ls |-> lines, open |-> partial], q, reason, 0)
        IN  IF ~Parsed(b) THEN fail("ERR_BODY")
            ELSE IF q = Null THEN fail("ERR_CUSTODY_SIGNER_UNAVAILABLE")
            ELSE IF signer = Null THEN fail("ERR_UNKNOWN_SIGNER")
            ELSE IF signer.mode # "external_http" THEN fail("ERR_CUSTODY_SIGNER_UNAVAILABLE")
            ELSE /\ handler' = [handler EXCEPT ![h] =
                       [pc |-> "signing",
                        payload |-> UnsignedReceipt(q, Decide(q), loaded, signer)]]
                 /\ UNCHANGED <<loaded, lines, partial, answer, faulted>>
    /\ UNCHANGED <<file, svcKey, sent>>

\* The signing service (external) answers a call: with its signature, with
\* another signer's name or version, without a signature, or with an error.
SignerAnswers(h) ==
    /\ handler[h].pc = "signing"
    /\ sent[h] = Null
    /\ \E kind \in Responses :
         sent' = [sent EXCEPT ![h] =
                    [kind |-> kind,
                     signature |-> [key |-> svcKey, over |-> handler[h].payload]]]
    /\ UNCHANGED <<file, loaded, svcKey, handler, lines, partial, answer, faulted>>

\* callExternalSigner after the fetch: the error of an answer, or "OK".
ResponseError(h, body) ==
    LET signer == EnabledSigner(loaded, handler[h].payload.signer)
    IN  CASE body.kind = "error" -> "ERR_CUSTODY_SIGNER_UNAVAILABLE"
          [] body.kind = "wrong_id" -> "ERR_UNKNOWN_SIGNER"
          [] body.kind = "wrong_version" -> "ERR_UNKNOWN_KEY_SET_VERSION"
          [] body.kind = "unsigned" -> "ERR_CUSTODY_SIGNATURE_INVALID"
          [] body.signature # [key |-> signer.key, over |-> handler[h].payload] ->
               "ERR_CUSTODY_SIGNATURE_VERIFY_FAILED"
          [] OTHER -> "OK"

\* signCustomerReceipt and the rest of handleDecision, when the answer arrives.
Deliver(h) ==
    /\ loaded # Null
    /\ handler[h].pc = "signing"
    /\ sent[h] # Null
    /\ LET error == ResponseError(h, sent[h])
           p == handler[h].payload
       IN  IF error = "OK"
             THEN Record(h, [payload |-> p, signature |-> sent[h].signature])
             ELSE SignerFailure(h, [ls |-> lines, open |-> partial], p.request, error, 0)
    /\ sent' = [sent EXCEPT ![h] = Null]
    /\ UNCHANGED <<file, svcKey>>

\* Mutant of TimeoutC: the call is not aborted.
TimeoutCUnaborted(h) ==
    /\ loaded # Null
    /\ handler[h].pc = "signing"
    /\ lines' = Append(lines, <<RefusalReceipt(handler[h].payload.request,
                                              "ERR_CUSTODY_SIGNER_TIMEOUT", loaded)>>)
    /\ UNCHANGED <<file, loaded, svcKey, handler, sent, partial, answer, faulted>>

\* The timer of callExternalSigner aborts the call; a later answer is dropped.
TimeoutC(h) ==
    /\ loaded # Null
    /\ handler[h].pc = "signing"
    /\ SignerFailure(h, [ls |-> lines, open |-> partial], handler[h].payload.request,
                     "ERR_CUSTODY_SIGNER_TIMEOUT", 0)
    /\ sent' = [sent EXCEPT ![h] = Null]
    /\ UNCHANGED <<file, svcKey>>

----------------------------------------------------------------------------
(* The process and its operator.                                           *)

\* startup: the configuration is loaded and checked; otherwise the process exits.
StartC ==
    /\ loaded = Null
    /\ ValidConfig(file)
    /\ loaded' = file
    /\ UNCHANGED <<file, svcKey, handler, sent, lines, partial, answer, faulted>>

\* The process is killed, an append of some handler under way or not.
KillC ==
    /\ loaded # Null
    /\ Die
    /\ Spend(1)
    /\ partial' \in {partial, \E h \in Handlers : handler[h].pc = "signing"}
    /\ partial => partial'
    /\ UNCHANGED <<file, svcKey, lines, answer>>

\* The operator writes another configuration, or the customer rotates the key.
EditFile ==
    /\ faulted.edits < MaxEditsC
    /\ \E c \in SignerConfigs \ {file} : file' = c
    /\ faulted' = [faulted EXCEPT !.edits = @ + 1]
    /\ UNCHANGED <<loaded, svcKey, handler, sent, lines, partial, answer>>

RotateKey ==
    /\ faulted.edits < MaxEditsC
    /\ \E k \in Keys \ {svcKey} : svcKey' = k
    /\ faulted' = [faulted EXCEPT !.edits = @ + 1]
    /\ UNCHANGED <<file, loaded, handler, sent, lines, partial, answer>>

InitC ==
    /\ file \in SignerConfigs
    /\ loaded = Null
    /\ svcKey \in Keys
    /\ handler = [h \in Handlers |-> [pc |-> "idle", payload |-> Null]]
    /\ sent = [h \in Handlers |-> Null]
    /\ lines = <<>>
    /\ partial = FALSE
    /\ answer = [h \in Handlers |-> Null]
    /\ faulted = [faults |-> 0, edits |-> 0]

HandlerStep(h) == Receive(h) \/ SignerAnswers(h) \/ Deliver(h) \/ TimeoutC(h)

NextC ==
    \/ \E h \in Handlers : HandlerStep(h)
    \/ StartC \/ KillC \/ EditFile \/ RotateKey

SpecC == InitC /\ [][NextC]_cvars

----------------------------------------------------------------------------
(* Properties.                                                             *)

Readable == {lines[i][1] : i \in {j \in DOMAIN lines : lines[j] # Unreadable}}

\* What a client was told is on disk: every answer has its receipt in the
\* file, but for one answer for each write cut short (a line appended to a
\* fragment cannot be read, server.js appendReceipt).  And no request is
\* recorded twice: an answer of the signing service that loses the race with
\* the timer adds no receipt to the refusal already there.
AnswersRecorded ==
    LET told == {h \in Handlers : answer[h] # Null}
        ended == {h \in Handlers : handler[h].pc \in {"done", "lost"}}
        whole == {i \in DOMAIN lines : lines[i] # Unreadable}
    IN  /\ Cardinality({h \in told : answer[h] \notin Readable}) <= faulted.faults
        /\ Cardinality(told) <= Cardinality(whole) + faulted.faults
        /\ Cardinality(whole) <= Cardinality(ended)
============================================================================
