-------------------------- MODULE CustodyRuntime --------------------------
(***************************************************************************)
(* The custody runtime (src/custody/runtime.ts) and the receipt store and  *)
(* log it writes (src/shared/operations.js).                               *)
(*                                                                         *)
(* Several commands of the command line run as processes of their own over *)
(* the same files: "serve" (the service), "check" (custody --check-startup)*)
(* and "preflight" (preflight-check).  The code is synchronous, but every  *)
(* file it reads or writes is a step, because the operator and the other   *)
(* processes may come between: the configuration, the package, the policy  *)
(* (read up to three times), the preflight lock, the receipt file (rotated,*)
(* appended to, read back).  A process may be killed between two steps, and*)
(* within an append.                                                       *)
(*                                                                         *)
(* A policy stands for its hash and a configuration for its own.           *)
(***************************************************************************)
EXTENDS ReleaseIntegrity, Sequences

CONSTANTS
    Procs,          \* processes started by the service manager or an operator
    Policies,       \* validly signed policies
    BrokenPolicies, \* kinds of broken policy file met (see PolicyError)
    Configs,        \* configurations an operator writes
    NoPolicy,       \* policy_hash: null
    Nothing,        \* no such file, no value
    Torn,           \* a line or a file cut while it was being written
    Files,          \* the files of the published package
    LockFile,       \* config path + ".preflight-lock.json"
    HostFiles,      \* the service host an installation adds (lifecycle/install.ps1)
    InPackage,      \* the configuration file lies inside the package (the default)
    DisabledAllowed,\* MNDE_CUSTODY_ALLOW_DISABLED_POLICY_MODE = "true"
    MaxCount,       \* receipts.max_count (rotation_mode "count")
    MaxFiles,       \* logging.max_files
    MaxStarts,      \* bound: commands started
    MaxEdits,       \* bound: files changed by the operator
    MaxFaults       \* bound: kills, failing writes and reads

ASSUME CustodyAssumption ==
    /\ NoPolicy \notin Policies
    /\ {MaxCount, MaxFiles, MaxStarts, MaxEdits, MaxFaults} \subseteq Nat
    /\ MaxCount > 0 /\ MaxFiles > 0
    /\ Nothing \notin {"probe", "refusal", "opening"}

Hashes == Policies \cup {NoPolicy}
Commands == {"serve", "check", "preflight"}

VARIABLES
    package,     \* the release package on disk
    config,      \* the configuration file
    policy,      \* the policy file: a policy or a kind of broken file
    lock,        \* the preflight lock: [config, policy], Nothing or Torn
    receipts,    \* the active receipt file, or Nothing
    archive,     \* archived receipt files, by time stamp
    log,         \* the runtime log and its rotated files, 0 the newest
    clock,       \* the time stamp archiveName() would use
    disk,        \* the free space is above disk.min_free_bytes
    proc,        \* what each process is doing
    serving,     \* who is bound to the port, or Nothing
    used,        \* commands started, edits and faults so far
    history      \* receipts appended, receipts overwritten by an archive,
                 \* and the starts a torn receipt file refused

kvars == <<package, config, policy, lock, receipts, archive, log,
          clock, disk, proc, serving, used, history>>

files == <<package, config, policy, lock>>
store == <<receipts, archive>>

----------------------------------------------------------------------------
(* Values.                                                                 *)

\* The error a broken policy file gives.
PolicyError ==
    [missing |-> "ERR_POLICY_FILE_MISSING", unreadable |-> "ERR_POLICY_FILE_UNREADABLE",
     unparsable |-> "ERR_POLICY_JSON_PARSE_FAILED", malformed |-> "ERR_POLICY_SCHEMA_INVALID",
     forged |-> "ERR_POLICY_SIGNATURE_INVALID"]

ASSUME PolicyErrorAssumption == BrokenPolicies \subseteq DOMAIN PolicyError

\* validateConfiguredPolicy
ValidateConfiguredPolicy(mode, expected) ==
    IF mode = "disabled" THEN [code |-> "OK", hash |-> NoPolicy]
    ELSE IF policy \in BrokenPolicies THEN [code |-> PolicyError[policy], hash |-> NoPolicy]
    ELSE IF expected \notin {NoPolicy, policy}
      THEN [code |-> "ERR_POLICY_HASH_MISMATCH", hash |-> policy]
    ELSE [code |-> "OK", hash |-> policy]

\* readCustodyConfig: whether the file is a configuration the runtime takes.
ReadableConfig(c) ==
    /\ c.wellFormed
    /\ c.mode = "disabled" => DisabledAllowed

\* buildAuditReceipt: the startup receipt of process p, for a decision.
AuditReceipt(p, decision) ==
    [start |-> proc[p].start, decision |-> decision, policy |-> proc[p].bound]

\* A receipt file is its lines and whether the last one lacks its newline; a
\* line is a receipt or Torn.  Appending to an unfinished line spoils both.
Empty == [lines |-> <<>>, open |-> FALSE]

AuditReceipts == [start : Nat, decision : {"ALLOW", "REFUSE"}, policy : Hashes]
ReceiptFiles == [lines : Seq(AuditReceipts \cup {Torn}), open : BOOLEAN]

ASSUME FileAssumption == Nothing \notin ReceiptFiles

WithLine(file, line) ==
    LET old == IF file = Nothing THEN Empty ELSE file
        n == Len(old.lines)
    IN  IF old.open THEN [lines |-> [old.lines EXCEPT ![n] = Torn], open |-> FALSE]
        ELSE [lines |-> Append(old.lines, line), open |-> FALSE]

WithFragment(file) ==
    LET old == IF file = Nothing THEN Empty ELSE file
    IN  IF old.open THEN old ELSE [lines |-> Append(old.lines, Torn), open |-> TRUE]

Lines(file) == IF file = Nothing THEN {} ELSE {file.lines[i] : i \in 1..Len(file.lines)}

Stored == Lines(receipts) \cup UNION {Lines(archive[t]) : t \in DOMAIN archive}

Idle == [pc |-> "idle", cmd |-> Nothing, start |-> 0, cfg |-> Nothing, seen |-> NoPolicy,
         bound |-> NoPolicy, code |-> Nothing, job |-> Nothing, active |-> Nothing,
         healthy |-> TRUE, since |-> 0]

AtStep(p, pc) == proc[p].pc = pc

\* The process goes on at pc, with the fields of new changed.
Goto(p, pc, new) ==
    proc' = [proc EXCEPT ![p] =
        IF pc = "idle" THEN Idle
        ELSE [f \in DOMAIN @ |-> IF f = "pc" THEN pc
                                 ELSE IF f \in DOMAIN new THEN new[f] ELSE @[f]]]

NoNews == [x \in {} |-> x]
Continue(p, pc) == Goto(p, pc, NoNews)

\* checkCustodyStartup returns a refusal; logStartupResult appends it.
Refuse(p, code) == Goto(p, "rotate", [code |-> code, job |-> "refusal"])

Fault == used.faults < MaxFaults /\ used' = [used EXCEPT !.faults = @ + 1]

----------------------------------------------------------------------------
(* Commands: reading the configuration and checking the package.           *)

\* release/cli.ts: a process starts a command.
Start(p, cmd) ==
    /\ AtStep(p, "idle")
    /\ used.starts < MaxStarts
    /\ used' = [used EXCEPT !.starts = @ + 1]
    /\ proc' = [proc EXCEPT ![p] =
          [Idle EXCEPT !.pc = "config", !.cmd = cmd, !.start = used.starts + 1]]
    /\ UNCHANGED <<files, store, log, clock, disk, serving, history>>

\* runCustodyRuntime and runPreflightCheck: readCustodyConfig or end.
ReadConfig(p) ==
    /\ AtStep(p, "config")
    /\ IF ReadableConfig(config) THEN Goto(p, "package", [cfg |-> config])
                                 ELSE Continue(p, "idle")
    /\ UNCHANGED <<files, store, log, clock, disk, serving, used, history>>

\* The content scan and verifyReleaseIntegrity.  Preflight notes the result
\* and goes on with its other checks; a start is refused at once.
CheckPackage(p) ==
    /\ AtStep(p, "package")
    /\ LET reasons == VerifyReleaseIntegrity(package)
       IN  \/ /\ proc[p].cmd = "preflight"
              /\ Goto(p, "probes", [healthy |-> reasons = {}])
           \/ /\ proc[p].cmd # "preflight"
              /\ ForbiddenFiles(package) # {}
              /\ Refuse(p, "ERR_FORBIDDEN_ARTIFACT_PRESENT")
           \/ /\ proc[p].cmd # "preflight"
              /\ ForbiddenFiles(package) = {}
              /\ \/ reasons = {} /\ Continue(p, "lockpolicy")
                 \/ \E r \in reasons : Refuse(p, r)
    /\ UNCHANGED <<files, store, log, clock, disk, serving, used, history>>

----------------------------------------------------------------------------
(* runPreflightCheck.                                                      *)

\* writePathProbe on the receipt and the log directory, which may fail.
PreflightProbes(p) ==
    /\ AtStep(p, "probes")
    /\ \/ Continue(p, "prepolicy") /\ UNCHANGED used
       \/ Fault /\ Goto(p, "prepolicy", [healthy |-> FALSE])
    /\ UNCHANGED <<files, store, log, clock, disk, serving, history>>

\* The policy check; the lock is written only if every check passed.
PreflightPolicy(p) ==
    /\ AtStep(p, "prepolicy")
    /\ LET v == ValidateConfiguredPolicy(proc[p].cfg.mode, proc[p].cfg.expected)
       IN  IF proc[p].healthy /\ v.code = "OK"
           THEN Goto(p, "locktruncate", [seen |-> v.hash])
           ELSE Continue(p, "idle")
    /\ UNCHANGED <<files, store, log, clock, disk, serving, used, history>>

\* writeFileSync(lockPath) truncates the file, then writes it.
LockTruncate(p) ==
    /\ AtStep(p, "locktruncate")
    /\ lock' = Torn
    /\ package' = IF InPackage
                  THEN [package EXCEPT !.files =
                          [f \in DOMAIN @ \cup {LockFile} |->
                              IF f = LockFile THEN LockFile ELSE @[f]]]
                  ELSE package
    /\ Continue(p, "lockwrite")
    /\ UNCHANGED <<config, policy, store, log, clock, disk, serving, used, history>>

LockWrite(p) ==
    /\ AtStep(p, "lockwrite")
    /\ lock' = [config |-> proc[p].cfg, policy |-> proc[p].seen]
    /\ Continue(p, "idle")
    /\ UNCHANGED <<package, config, policy, store, log, clock, disk,
                   serving, used, history>>

----------------------------------------------------------------------------
(* checkCustodyStartup: the lock and the policy.                           *)

\* policyForLockComparison: the policy file without the expected hash.
ReadLockPolicy(p) ==
    /\ AtStep(p, "lockpolicy")
    /\ LET v == ValidateConfiguredPolicy(proc[p].cfg.mode, NoPolicy)
       IN  IF v.code = "OK"
           THEN Goto(p, "lock", [seen |-> v.hash, bound |-> v.hash, since |-> used.edits])
           ELSE Refuse(p, v.code)
    /\ UNCHANGED <<files, store, log, clock, disk, serving, used, history>>

\* validatePreflightLock
CheckLock(p) ==
    /\ AtStep(p, "lock")
    /\ \/ lock \in {Nothing, Torn} /\ Refuse(p, "ERR_PREFLIGHT_LOCK_MISSING")
       \/ /\ lock \notin {Nothing, Torn}
          /\ lock.config # proc[p].cfg
          /\ Refuse(p, "ERR_PREFLIGHT_CONFIG_MISMATCH")
       \/ /\ lock \notin {Nothing, Torn}
          /\ lock.config = proc[p].cfg
          /\ IF lock.policy = proc[p].seen THEN Continue(p, "expected")
             ELSE Refuse(p, "ERR_PREFLIGHT_POLICY_MISMATCH")
    /\ UNCHANGED <<files, store, log, clock, disk, serving, used, history>>

\* Mutant of ReadExpectedPolicy: the expected hash is forgotten.
ReadExpectedPolicyUnpinned(p) ==
    /\ AtStep(p, "expected")
    /\ LET v == ValidateConfiguredPolicy(proc[p].cfg.mode, NoPolicy)
       IN  Goto(p, "rotate",
                [bound |-> v.hash, code |-> IF v.code = "OK" THEN Nothing ELSE v.code,
                 job |-> IF v.code = "OK" THEN "probe" ELSE "refusal"])
    /\ UNCHANGED <<files, store, log, clock, disk, serving, used, history>>

\* The second reading of the policy file, now with the expected hash: the
\* policy the startup receipt binds.
ReadExpectedPolicy(p) ==
    /\ AtStep(p, "expected")
    /\ LET v == ValidateConfiguredPolicy(proc[p].cfg.mode, proc[p].cfg.expected)
       IN  Goto(p, "rotate",
                [bound |-> v.hash, code |-> IF v.code = "OK" THEN Nothing ELSE v.code,
                 job |-> IF v.code = "OK" THEN "probe" ELSE "refusal"])
    /\ UNCHANGED <<files, store, log, clock, disk, serving, used, history>>

----------------------------------------------------------------------------
(* shared/operations.js: the receipt file.  A process rotates it and       *)
(* appends to it for its probe, for its refusal, and rotates it once more  *)
(* when the service opens.                                                 *)

AfterRotation(p) == IF proc[p].job = "opening" THEN "listen" ELSE "append"

\* rotateReceiptsIfNeeded: is the file full?
Rotate(p) ==
    /\ AtStep(p, "rotate")
    /\ Continue(p, IF receipts # Nothing /\ Len(receipts.lines) >= MaxCount
                   THEN "rename" ELSE AfterRotation(p))
    /\ UNCHANGED <<files, store, log, clock, disk, serving, used, history>>

\* ERR_RECEIPT_ARCHIVE_FAILED: refuses the probe, is a warning for a refusal,
\* and leaves an opening service not ready.
ArchiveFailed(p) ==
    \/ proc[p].job = "probe" /\ Refuse(p, "ERR_RECEIPT_ARCHIVE_FAILED")
    \/ proc[p].job = "refusal" /\ Continue(p, "idle")
    \/ proc[p].job = "opening" /\ Goto(p, "listen", [healthy |-> FALSE])

\* Mutant of Rename: the full file is dropped instead of archived.
RenameDrops(p) ==
    /\ AtStep(p, "rename")
    /\ receipts # Nothing
    /\ receipts' = Nothing
    /\ Continue(p, "create")
    /\ UNCHANGED <<files, archive, log, clock, disk, serving, used, history>>

\* renameSync(receipts.path, archive): an archive of the same time stamp is
\* replaced.  Another process may have renamed the file first.
Rename(p) ==
    /\ AtStep(p, "rename")
    /\ receipts # Nothing
    /\ archive' = [t \in DOMAIN archive \cup {clock} |->
                      IF t = clock THEN receipts ELSE archive[t]]
    /\ history' = [history EXCEPT !.overwritten =
                      @ \cup IF clock \in DOMAIN archive THEN Lines(archive[clock]) ELSE {}]
    /\ receipts' = Nothing
    /\ Continue(p, "create")
    /\ UNCHANGED <<files, log, clock, disk, serving, used>>

RenameFails(p) ==
    /\ AtStep(p, "rename")
    /\ IF receipts = Nothing THEN UNCHANGED used ELSE Fault
    /\ ArchiveFailed(p)
    /\ UNCHANGED <<files, store, log, clock, disk, serving, history>>

\* writeFileSync(receipts.path, "", { flag: "wx" }) fails if the file exists.
Create(p) ==
    /\ AtStep(p, "create")
    /\ \/ /\ receipts = Nothing
          /\ receipts' = Empty
          /\ Continue(p, AfterRotation(p))
       \/ /\ receipts # Nothing
          /\ ArchiveFailed(p)
          /\ UNCHANGED receipts
    /\ UNCHANGED <<files, archive, log, clock, disk, serving, used, history>>

\* appendFileSync of the probe or of the refusal; a refused start then ends.
AppendReceipt(p) ==
    /\ AtStep(p, "append")
    /\ LET r == AuditReceipt(p, IF proc[p].job = "probe" THEN "ALLOW" ELSE "REFUSE")
       IN  /\ receipts' = WithLine(receipts, r)
           /\ history' = [history EXCEPT !.appended = @ \cup {r}]
    /\ Continue(p, IF proc[p].job = "probe" THEN "readback" ELSE "idle")
    /\ UNCHANGED <<files, archive, log, clock, disk, serving, used>>

\* The append fails, before or after part of the line was written.
AppendFails(p) ==
    /\ AtStep(p, "append")
    /\ Fault
    /\ receipts' \in {receipts, WithFragment(receipts)}
    /\ IF proc[p].job = "probe" THEN Refuse(p, "ERR_RECEIPT_WRITE_FAILED")
                                ELSE Continue(p, "idle")
    /\ UNCHANGED <<files, archive, log, clock, disk, serving, history>>

\* safeReadJsonLine and verifyAuditReceiptSignature on the last line, then the
\* end of checkCustodyStartup: "check" ends, "serve" goes on.
ReadBack(p) ==
    /\ AtStep(p, "readback")
    /\ \/ /\ Lines(receipts) # {}
          /\ receipts.lines[Len(receipts.lines)] # Torn
          /\ Continue(p, IF proc[p].cmd = "check" THEN "idle" ELSE "active")
          /\ UNCHANGED used
       \/ /\ Lines(receipts) # {} => receipts.lines[Len(receipts.lines)] = Torn
          /\ Refuse(p, "ERR_RECEIPT_READ_FAILED")
          /\ UNCHANGED used
       \/ Fault /\ Refuse(p, "ERR_RECEIPT_READ_FAILED")
    /\ UNCHANGED <<files, store, log, clock, disk, serving, history>>

----------------------------------------------------------------------------
(* runCustodyRuntime: the service.                                         *)

\* The third reading of the policy file, reported by the ready path; then the
\* receipt file is rotated once more.
ReadActivePolicy(p) ==
    /\ AtStep(p, "active")
    /\ Goto(p, "rotate",
            [active |-> ValidateConfiguredPolicy(proc[p].cfg.mode, proc[p].cfg.expected),
             job |-> "opening"])
    /\ UNCHANGED <<files, store, log, clock, disk, serving, used, history>>

\* Mutant of RotatedLog: the rotated files are not shifted.
RotatedLogUnshifted(k) ==
    IF k <= MaxFiles THEN log ELSE [log EXCEPT ![1] = log[0], ![0] = <<>>]

\* rotateFile on the log, up to its k-th operation: the oldest file is
\* removed, every other moves up by one, and the active file moves last.
RotatedLog(k) ==
    [i \in 0..MaxFiles |->
        LET moved(j) == k >= MaxFiles + 1 - j   \* file j was removed or moved up
        IN  IF i > 0 /\ moved(i - 1) /\ log[i - 1] # <<>> THEN log[i - 1]
            ELSE IF moved(i) THEN <<>> ELSE log[i]]

\* writeBoundedLog: the log is rotated when it is full (here, when it holds an
\* event) and the event appended.
LoggedEvents == UNION {{log[i][j] : j \in 1..Len(log[i])} : i \in DOMAIN log}
WrittenOut(l, e) == [l EXCEPT ![0] = Append(@, e)]
WithEvent == WrittenOut(IF log[0] # <<>> THEN RotatedLog(MaxFiles + 1) ELSE log,
                     history.events + 1)

\* server.listen: the first process gets the port and logs its start; another
\* logs the refusal and ends.  A log that cannot be written ends the process
\* too when it is required for audit integrity.
Listen(p) ==
    /\ AtStep(p, "listen")
    /\ \/ /\ log' = WithEvent
          /\ history' = [history EXCEPT !.events = @ + 1]
          /\ IF serving = Nothing
             THEN serving' = p /\ Continue(p, "serving")
             ELSE UNCHANGED serving /\ Continue(p, "idle")
          /\ UNCHANGED used
       \/ /\ Fault
          /\ IF serving = Nothing /\ ~proc[p].cfg.audited
             THEN serving' = p /\ Continue(p, "serving")
             ELSE UNCHANGED serving /\ Continue(p, "idle")
          /\ UNCHANGED <<log, history>>
    /\ UNCHANGED <<files, store, clock, disk>>

\* A health or ready request calls currentHealth, which also records what it
\* found: a receipt store once found without disk space stays not ready.
Health(p) ==
    /\ AtStep(p, "serving")
    /\ disk' \in BOOLEAN
    /\ Goto(p, "serving", [healthy |-> proc[p].healthy /\ disk'])
    /\ UNCHANGED <<files, store, log, clock, serving, used, history>>

Ready(p) == AtStep(p, "serving") /\ proc[p].healthy /\ disk

\* stop.cmd ends the service; it has nothing to finish.
Stop(p) ==
    /\ AtStep(p, "serving")
    /\ serving' = Nothing
    /\ Continue(p, "idle")
    /\ UNCHANGED <<files, store, log, clock, disk, used, history>>

\* A process is killed; an append or a log rotation may be cut anywhere.
Kill(p) ==
    /\ proc[p].pc \notin {"idle", "serving"}
    /\ Fault
    /\ Continue(p, "idle")
    /\ receipts' \in IF AtStep(p, "append") THEN {receipts, WithFragment(receipts)} ELSE {receipts}
    /\ log' \in IF AtStep(p, "listen") /\ log[0] # <<>>
                THEN {RotatedLog(k) : k \in 0..MaxFiles + 1} ELSE {log}
    /\ UNCHANGED <<files, archive, clock, disk, serving, history>>

\* replayStartupReceipt: a stored receipt against the policy of today.
ReplayStartupReceipt(r) ==
    r.policy = ValidateConfiguredPolicy(config.mode, config.expected).hash

----------------------------------------------------------------------------
(* The operator, the clock and the disk.  A file is changed, and the clock  *)
(* moves, just before a process that is about to read it: any earlier       *)
(* moment since the last reading has the same effect.                       *)

Edit(readers) ==
    /\ \E p \in Procs : proc[p].pc \in readers
    /\ used.edits < MaxEdits
    /\ used' = [used EXCEPT !.edits = @ + 1]

EditPolicy ==
    /\ Edit({"prepolicy", "lockpolicy", "expected", "active"})
    /\ policy' \in (Policies \cup BrokenPolicies) \ {policy}
    /\ UNCHANGED <<package, config, lock, store, log, clock, disk, proc,
                   serving, history>>

EditConfig ==
    /\ Edit({"config"})
    /\ config' \in Configs \ {config}
    /\ UNCHANGED <<package, policy, lock, store, log, clock, disk, proc,
                   serving, history>>

\* A file of the package is lost, changed, or replaced by forbidden content.
EditPackage ==
    /\ Edit({"package"})
    /\ \E f \in Files, c \in ForbiddenTexts \cup {Garbage, Nothing} :
          package' = [package EXCEPT !.files =
             IF c = Nothing THEN [g \in DOMAIN @ \ {f} |-> @[g]]
             ELSE [g \in DOMAIN @ \cup {f} |-> IF g = f THEN c ELSE @[g]]]
    /\ UNCHANGED <<config, policy, lock, store, log, clock, disk, proc,
                   serving, history>>

\* lifecycle/install.ps1: copies the package, then compiles the service host
\* and writes its settings into the copy.
Install ==
    /\ \E p \in Procs : AtStep(p, "package")
    /\ ~(HostFiles \subseteq PackageFiles(package))
    /\ package' = [package EXCEPT !.files =
                      [f \in DOMAIN @ \cup HostFiles |->
                          IF f \in HostFiles THEN f ELSE @[f]]]
    /\ UNCHANGED <<config, policy, lock, store, log, clock, disk, proc,
                   serving, used, history>>

\* The millisecond of the last archive passes, or not, before the next one.
Tick ==
    /\ clock \in DOMAIN archive
    /\ \E p \in Procs : AtStep(p, "rename")
    /\ clock' = clock + 1
    /\ UNCHANGED <<files, store, log, disk, proc, serving, used, history>>

\* The published package, before any command or after a preflight that passed;
\* the log is full of earlier events.
InitK ==
    /\ package = Published([f \in Files |-> f])
    /\ config \in {c \in Configs : ReadableConfig(c)}
    /\ policy \in Policies
    /\ \/ lock = Nothing
       \/ /\ ReadableConfig(config) /\ ~InPackage
          /\ ValidateConfiguredPolicy(config.mode, config.expected).code = "OK"
          /\ lock = [config |-> config,
                     policy |-> ValidateConfiguredPolicy(config.mode, config.expected).hash]
    /\ receipts = Nothing
    /\ archive = NoNews
    /\ log = [i \in 0..MaxFiles |-> <<MaxFiles + 1 - i>>]
    /\ clock = 1
    /\ disk = TRUE
    /\ proc = [p \in Procs |-> Idle]
    /\ serving = Nothing
    /\ used = [starts |-> 0, edits |-> 0, faults |-> 0]
    /\ history = [appended |-> {}, overwritten |-> {}, events |-> MaxFiles + 1]

Step(p) ==
    \/ \E cmd \in Commands : Start(p, cmd)
    \/ ReadConfig(p) \/ CheckPackage(p)
    \/ PreflightProbes(p) \/ PreflightPolicy(p) \/ LockTruncate(p) \/ LockWrite(p)
    \/ ReadLockPolicy(p) \/ CheckLock(p) \/ ReadExpectedPolicy(p)
    \/ Rotate(p) \/ Rename(p) \/ RenameFails(p) \/ Create(p)
    \/ AppendReceipt(p) \/ AppendFails(p) \/ ReadBack(p)
    \/ ReadActivePolicy(p) \/ Listen(p) \/ Health(p) \/ Stop(p) \/ Kill(p)

NextK ==
    \/ \E p \in Procs : Step(p)
    \/ EditPolicy \/ EditConfig \/ EditPackage \/ Install \/ Tick

SpecK == InitK /\ [][NextK]_kvars

----------------------------------------------------------------------------
(* Properties.                                                             *)

Admitted(p) == proc[p].job \in {"probe", "opening"} /\ proc[p].pc # "idle"

\* The policy a start binds, and the one the service reports, is the policy
\* of the preflight lock; only without a configured hash, and only if a file
\* was edited while the process was starting, can it be another.  (The policy
\* file is read three times, the lock compared with the first reading.)
LockedUnlessEdited ==
    \A p \in Procs : Admitted(p) =>
        \/ /\ proc[p].bound = proc[p].seen
           /\ proc[p].active # Nothing /\ proc[p].active.code = "OK"
                => proc[p].active.hash = proc[p].seen
        \/ proc[p].cfg.expected = NoPolicy /\ used.edits > proc[p].since

\* No startup receipt that was appended disappears, through rotations, crashes
\* and several processes: each fault spoils at most one, and otherwise only a
\* second archive of the same time stamp can destroy any.
ReceiptsKept ==
    Cardinality((history.appended \ Stored) \ history.overwritten) <= used.faults

\* The log keeps the newest events without a gap, in the order of its files,
\* wherever a rotation was cut.
LogKeepsNewest ==
    /\ \A e \in LoggedEvents : e..history.events \subseteq LoggedEvents
    /\ \A i, j \in 0..MaxFiles : i < j =>
          \A m \in 1..Len(log[i]), n \in 1..Len(log[j]) : log[i][m] > log[j][n]
============================================================================
