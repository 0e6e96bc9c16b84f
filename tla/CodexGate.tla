------------------------------ MODULE CodexGate ------------------------------
(***************************************************************************)
(* The command gate: processes of mnde-run.mjs that ask whether a command  *)
(* may run, run it and append a signed receipt to one shared file, and the *)
(* proof bundle that replays the file (codex-mnde/lib).                    *)
(*                                                                         *)
(* The policy file and the receipt file are shared by processes that know  *)
(* nothing of each other, so each read and each append is a step.  The     *)
(* canonical text of a value and its hash are the value itself; a regular  *)
(* expression of a policy is the set of command names it matches.          *)
(***************************************************************************)
EXTENDS Naturals, Sequences, FiniteSets, SequencesExt

CONSTANTS
  Runs,       \* processes of mnde-run.mjs
  Inputs,     \* how one is called: records with the command (name, text, git,
              \* network, protected), the mode, the directory and the key
  Policies,   \* contents of a policy file: records, see PolicyHash
  Foreign,    \* reasons of a decision service that knows none of Policies
  MaxEditsG,   \* bound on the changes made to the policy file
  None,       \* no value; undefined in an answer, a missing file
  Cut,        \* a line without its end
  Garbage     \* a line that JSON.parse refuses

VARIABLES
  policyFile, \* what MNDE_CODEX_POLICY holds, or None
  edits,      \* changes made to it so far
  log,        \* lines of MNDE_RECEIPT_LOG
  run,        \* per process: where it is and what it has read
  ran,        \* processes whose command was started
  bundle      \* the process that generates the proof bundle

gvars == <<policyFile, edits, log, run, ran, bundle>>

----------------------------------------------------------------------------
(* The decision engine. *)

\* Every field but policy_hash and signatures.
PolicyHash(p) == [p EXCEPT !.stated = None]

\* A missing file, or a stated hash that is not the one computed, throws.
LoadPolicy(p) ==
  IF p = None \/ p.stated \notin {None, "right"} THEN None
                                                 ELSE [p EXCEPT !.stated = "right"]

CreateDecisionRequest(cmd, inside, version) ==
  [cmd |-> cmd, inside |-> inside, version |-> version]

BuildDecision(request, p, decision, reason) ==
  [decision |-> decision, reason |-> reason, request |-> request,
   hash |-> <<decision, reason, PolicyHash(p), request>>]

\* Only git commands get here; None when no rule of git speaks.
DecideGit(cmd, p) ==
  CASE cmd.git = "push protected" -> <<"REFUSE", "ERR_GIT_PROTECTED_PUSH">>
    [] cmd.git = "push"           -> <<"PROMPT_REQUIRED", "PROMPT_GIT_PUSH">>
    [] cmd.git = "tag"            -> <<"PROMPT_REQUIRED", "PROMPT_GIT_TAG">>
    [] cmd.git = "destructive"    -> <<"REFUSE", "ERR_GIT">>
    [] OTHER -> IF cmd.name \in p.gitAllow THEN <<"ALLOW", "OK_GIT">> ELSE None

\* The first rule that speaks decides; nothing that is not listed is allowed.
Classify(request, p) ==
  LET cmd == request.cmd
      git == IF cmd.git = None THEN None ELSE DecideGit(cmd, p)
  IN CASE request.version # p.version -> <<"REFUSE", "ERR_POLICY_VERSION_MISMATCH">>
       [] ~request.inside             -> <<"REFUSE", "ERR_WORKDIR_OUTSIDE_WORKSPACE">>
       [] cmd.name \in p.refuse       -> <<"REFUSE", "ERR_PATTERN">>
       [] cmd.name \in p.prompt       -> <<"PROMPT_REQUIRED", "PROMPT_PATTERN">>
       [] cmd.network # None /\ cmd.network \notin p.domains
                                      -> <<"REFUSE", "ERR_UNKNOWN_NETWORK_DOMAIN">>
       [] cmd.protected               -> <<"REFUSE", "ERR_PROTECTED_AUDIT_ARTIFACT">>
       [] git # None                  -> git
       [] cmd.name \in p.allow        -> <<"ALLOW", "OK_PATTERN">>
       [] OTHER                       -> <<"PROMPT_REQUIRED", "PROMPT_UNCLASSIFIED_COMMAND">>

\* A command without text fails validation: decide throws.
ValidRequest(request) == request.cmd.text

Decide(request, p) ==
  LET c == Classify(request, p) IN BuildDecision(request, p, c[1], c[2])

----------------------------------------------------------------------------
(* The receipt file. *)

\* signReceipt throws on a decision without hashes: canonicalJson(undefined).
Signable(decision) == decision.hash # None

\* The signature is made with the key of the environment, and carries the
\* public key of the default one.  by names the process, not a field.
SignReceipt(r, decision, status) ==
  [by |-> r, request |-> decision.request, decision |-> decision.decision,
   reason |-> decision.reason, hash |-> decision.hash, status |-> status,
   key |-> run[r].key]

VerifyReceiptSignature(receipt) == receipt.key = "default"

\* One append.  What follows a line cut short becomes part of it.
AppendReceipt(lines, receipt) ==
  IF lines # <<>> /\ Last(lines) = Cut
    THEN Front(lines) \o <<Garbage>>
    ELSE Append(lines, receipt)

\* An append that stops half way: a full disk, or the end of the process.
CutAppend(lines) ==
  IF lines # <<>> /\ Last(lines) = Cut THEN lines ELSE Append(lines, Cut)

\* readReceipts as a careless reader would have it: unreadable lines skipped.
ReadReceiptsLenient(lines) == SelectSeq(lines, LAMBDA l : l \notin {Cut, Garbage})

\* One line that JSON.parse refuses makes the whole file unreadable.
ReadReceipts(lines) ==
  IF \E i \in DOMAIN lines : lines[i] \in {Cut, Garbage} THEN None ELSE lines

Drifts(receipt, p) ==
  LET replayed == Decide(receipt.request, p)
  IN \/ replayed.decision # receipt.decision
     \/ replayed.reason # receipt.reason
     \/ replayed.hash # receipt.hash

\* None when the file cannot be read, or a replay throws.
VerifyReceiptLog(lines, p) ==
  LET receipts == ReadReceipts(lines)
      signed   == {i \in DOMAIN receipts : VerifyReceiptSignature(receipts[i])}
      drifted  == {i \in signed : Drifts(receipts[i], p)}
  IN IF receipts = None \/ \E i \in signed : ~ValidRequest(receipts[i].request)
       THEN None
       ELSE [count |-> Len(receipts), tampered |-> Len(receipts) - Cardinality(signed),
             drifted |-> Cardinality(drifted),
             valid |-> Cardinality(signed \ drifted)]

----------------------------------------------------------------------------
(* A process of mnde-run.mjs. *)

Idle == [pc |-> "idle", key |-> None, decision |-> None, request |-> None, status |-> None]

\* Leaves the receipt file as it is and reports a refusal: exit 2.
FailRun(r) ==
  /\ run' = [run EXCEPT ![r].pc = "failed closed"]
  /\ UNCHANGED <<policyFile, edits, log, bundle>>

\* Reads the policy, builds the request and, in local mode, decides.
Begin(r) ==
  /\ run[r].pc = "idle"
  /\ UNCHANGED ran
  /\ \E in \in Inputs :
       LET p       == LoadPolicy(policyFile)
           request == CreateDecisionRequest(in.cmd, in.inside, p.version)
           local   == in.mode = "local"
       IN IF p = None \/ (local /\ ~ValidRequest(request))
            THEN FailRun(r)
            ELSE /\ run' = [run EXCEPT ![r] =
                      [pc |-> IF local THEN "decided" ELSE "asked", key |-> in.key,
                       request |-> request, status |-> None,
                       decision |-> IF local THEN Decide(request, p) ELSE None]]
                 /\ UNCHANGED <<policyFile, edits, log, bundle>>

\* What a decision service may answer: by a policy of its own, by rules that
\* know nothing of commands (sidecar-custody/server.js), or without hashes.
Answers(request) ==
  {Decide(request, p) : p \in {q \in Policies : ValidRequest(request)}}
    \cup [decision : {"ALLOW", "REFUSE"}, reason : Foreign, request : {request},
          hash : Foreign \cup {None}]

\* The 2xx answer with a known decision, taken over as it stands.
RemoteDecision(r) ==
  /\ run[r].pc = "asked"
  /\ \E d \in Answers(run[r].request) :
       run' = [run EXCEPT ![r].pc = "decided", ![r].decision = d]
  /\ UNCHANGED <<policyFile, edits, log, ran, bundle>>

\* A time-out, a refused connection, another status, malformed or unknown.
RemoteFails(r) == run[r].pc = "asked" /\ FailRun(r) /\ UNCHANGED ran

\* decision is not ALLOW: a signed refusal, exit 2 or 3.
Refuse(r) ==
  /\ run[r].pc = "decided" /\ run[r].decision.decision # "ALLOW"
  /\ UNCHANGED ran
  /\ IF Signable(run[r].decision)
       THEN /\ log' = AppendReceipt(log,
                        SignReceipt(r, run[r].decision, "REFUSED_NOT_EXECUTED"))
            /\ run' = [run EXCEPT ![r].pc = "refused"]
            /\ UNCHANGED <<policyFile, edits, bundle>>
       ELSE FailRun(r)

\* spawnSync.  It never starts an empty command; an error without a start, and
\* output over its limit, both give EXECUTION_SPAWN_FAILED.
Spawn(r) ==
  /\ run[r].pc = "decided" /\ run[r].decision.decision = "ALLOW"
  /\ IF run[r].request.cmd.text
       THEN /\ \E started \in BOOLEAN,
                  status \in {"EXECUTED_EXIT_0", "EXECUTED_NONZERO", "EXECUTION_SPAWN_FAILED"} :
                 /\ started \/ status = "EXECUTION_SPAWN_FAILED"
                 /\ run' = [run EXCEPT ![r].pc = "spawned", ![r].status = status]
                 /\ ran' = IF started THEN ran \cup {r} ELSE ran
            /\ UNCHANGED <<policyFile, edits, log, bundle>>
       ELSE FailRun(r) /\ UNCHANGED ran

\* The receipt of what was run; without hashes the process fails closed after
\* the command has run.
Record(r) ==
  /\ run[r].pc = "spawned"
  /\ UNCHANGED ran
  /\ IF Signable(run[r].decision)
       THEN /\ log' = AppendReceipt(log, SignReceipt(r, run[r].decision, run[r].status))
            /\ run' = [run EXCEPT ![r].pc = "recorded"]
            /\ UNCHANGED <<policyFile, edits, bundle>>
       ELSE FailRun(r)

\* The process ends, or its disk is full, during the append.
CutShort(r) ==
  /\ run[r].pc \in {"decided", "spawned"} /\ Signable(run[r].decision)
  /\ run[r].pc = "decided" => run[r].decision.decision # "ALLOW"
  /\ log' = CutAppend(log)
  /\ run' = [run EXCEPT ![r].pc = "ended"]
  /\ UNCHANGED <<policyFile, edits, ran, bundle>>

\* The process is ended from outside; a command it started goes on.
Kill(r) ==
  /\ run[r].pc \in {"asked", "decided", "spawned"}
  /\ run' = [run EXCEPT ![r].pc = "ended"]
  /\ UNCHANGED <<policyFile, edits, log, ran, bundle>>

EditPolicy ==
  /\ edits < MaxEditsG
  /\ edits' = edits + 1
  /\ policyFile' \in (Policies \cup {None}) \ {policyFile}
  /\ UNCHANGED <<log, run, ran, bundle>>

----------------------------------------------------------------------------
(* generateProofBundle reads the receipts twice. *)

NoBundle == [pc |-> "idle", policy |-> None, counted |-> None, report |-> None]

\* The policy and, for the counts by decision, the receipts.
BundleRead ==
  /\ bundle.pc = "idle"
  /\ LET p == LoadPolicy(policyFile)  receipts == ReadReceipts(log)
     IN bundle' = IF p = None \/ receipts = None
                    THEN [NoBundle EXCEPT !.pc = "failed"]
                    ELSE [NoBundle EXCEPT !.pc = "read", !.policy = p, !.counted = receipts]
  /\ UNCHANGED <<policyFile, edits, log, run, ran>>

\* verifyReceiptLog, the replays of one request and the eight reports.
BundleWrite ==
  /\ bundle.pc = "read"
  /\ LET report == VerifyReceiptLog(log, bundle.policy)
     IN bundle' = IF report = None THEN [NoBundle EXCEPT !.pc = "failed"]
                                   ELSE [bundle EXCEPT !.pc = "written", !.report = report]
  /\ UNCHANGED <<policyFile, edits, log, run, ran>>

InitG ==
  /\ policyFile \in Policies
  /\ edits = 0 /\ log = <<>> /\ ran = {}
  /\ run = [r \in Runs |-> Idle]
  /\ bundle = NoBundle

NextG ==
  \/ \E r \in Runs : \/ Begin(r) \/ RemoteDecision(r) \/ RemoteFails(r) \/ Refuse(r)
                     \/ Spawn(r) \/ Record(r) \/ CutShort(r) \/ Kill(r)
  \/ EditPolicy \/ BundleRead \/ BundleWrite

SpecG == InitG /\ [][NextG]_gvars

----------------------------------------------------------------------------
(* Properties. *)

\* A receipt file that readReceipts accepts holds the receipt of every process
\* that ended with one appended: an append cut short, and the receipt of another
\* process that was joined to it, are never passed over in silence.
ReadableIsWhole ==
  ReadReceipts(log) # None =>
    \A r \in Runs : run[r].pc \in {"refused", "recorded"} =>
      \E i \in DOMAIN ReadReceipts(log) : ReadReceipts(log)[i].by = r

=============================================================================
