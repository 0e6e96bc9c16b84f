--------------------------- MODULE CustodyProofs ---------------------------
(***************************************************************************)
(* Proofs about the custody side of the product, for any processes,        *)
(* policies, configurations, handlers, signers, tenants and bounds: first  *)
(* CustodyRuntime, then CustodySidecar, SignerRegistry and ReleaseBuild.   *)
(***************************************************************************)
EXTENDS CustodyRuntime, CustodySidecar, SignerRegistry, ReleaseBuild,
        FiniteSetTheorems, SequenceTheorems, WellFoundedInduction, TLAPS

-----------------------------------------------------------------------------
(* Processes are records; a step changes the one of its process.            *)

Fields == {"pc", "cmd", "start", "cfg", "seen", "bound", "code", "job", "active",
           "healthy", "since"}

ProcShape == /\ DOMAIN proc = Procs
             /\ \A p \in Procs : DOMAIN proc[p] = Fields

\* The record of a process that goes on at pc with the fields of new changed.
Moved(r, pc, new) ==
    [f \in DOMAIN r |-> IF f = "pc" THEN pc ELSE IF f \in DOMAIN new THEN new[f] ELSE r[f]]

LEMMA IdleShape == DOMAIN Idle = Fields
  BY DEF Idle, Fields

\* A process goes on.
LEMMA GotoIs ==
    ASSUME ProcShape, NEW p \in Procs, NEW pc, NEW new, Goto(p, pc, new), pc # "idle"
    PROVE  /\ ProcShape'
           /\ \A q \in Procs : q # p => proc'[q] = proc[q]
           /\ proc'[p] = Moved(proc[p], pc, new)
           /\ proc'[p].pc = pc
           /\ \A f \in Fields \ {"pc"} :
                  proc'[p][f] = IF f \in DOMAIN new THEN new[f] ELSE proc[p][f]
<1>1. proc' = [proc EXCEPT ![p] = Moved(proc[p], pc, new)]
  BY DEF Goto, Moved
<1>2. proc'[p] = Moved(proc[p], pc, new) /\ DOMAIN proc' = Procs
      /\ \A q \in Procs : q # p => proc'[q] = proc[q]
  BY <1>1 DEF ProcShape
<1>3. DOMAIN Moved(proc[p], pc, new) = Fields
  BY DEF Moved, ProcShape
<1>4. "pc" \in Fields
  BY DEF Fields
<1> QED BY <1>2, <1>3, <1>4 DEF Moved, ProcShape

\* A process ends.
LEMMA EndIs ==
    ASSUME ProcShape, NEW p \in Procs, NEW new, Goto(p, "idle", new)
    PROVE  /\ ProcShape' /\ proc'[p] = Idle
           /\ \A q \in Procs : q # p => proc'[q] = proc[q]
<1>1. proc' = [proc EXCEPT ![p] = Idle]
  BY DEF Goto
<1> QED BY <1>1, IdleShape DEF ProcShape

-----------------------------------------------------------------------------
(* What a starting process knows of the policy file.                        *)

UsedType == [starts : Nat, edits : Nat, faults : Nat]

\* h is a hash that the configuration c accepts: with a configured hash there
\* is only one.
Pinned(c, h) ==
    /\ c.mode = "disabled" => h = NoPolicy
    /\ c.mode # "disabled" /\ c.expected # NoPolicy => h = c.expected

\* If nothing was edited since process r first read the policy file, then the
\* file, pol, is still what it read.
Fresh(r, e, pol) ==
    e = r.since => IF r.cfg.mode = "disabled" THEN r.seen = NoPolicy
                   ELSE pol \notin BrokenPolicies /\ r.seen = pol

\* A later reading gave the hash of the first, or LockedUnlessEdited's excuse.
Agreed(r, e, h) == h = r.seen \/ (r.cfg.expected = NoPolicy /\ e > r.since)

Early == {"idle", "config", "package", "probes", "prepolicy", "locktruncate", "lockwrite",
          "lockpolicy", "lock", "expected"}

\* The invariant of a process record r, for e edits so far and the policy file pol.
ProcOK(r, e, pol) ==
    /\ r.since \in Nat /\ r.since <= e
    /\ r.start \in Nat /\ r.bound \in Hashes
    /\ r.pc \in Early => r.job \notin {"probe", "opening"} /\ r.active = Nothing
    /\ r.pc \in {"readback", "active"} => r.job = "probe"
    /\ r.pc \in {"locktruncate", "lockwrite", "expected"} => Pinned(r.cfg, r.seen)
    /\ r.pc \in {"lock", "expected"} => Fresh(r, e, pol)
    /\ r.job \in {"probe", "opening"} =>
         /\ Fresh(r, e, pol) /\ Pinned(r.cfg, r.seen) /\ Agreed(r, e, r.bound)
         /\ r.active # Nothing /\ r.active.code = "OK" => Agreed(r, e, r.active.hash)

LockOK == lock \notin {Nothing, Torn} => Pinned(lock.config, lock.policy)

StartInv ==
    /\ ProcShape /\ used \in UsedType
    /\ policy \in Policies \cup BrokenPolicies
    /\ \A p \in Procs : ProcOK(proc[p], used.edits, policy)
    /\ LockOK

\* What a valid reading of the policy file says.
LEMMA ReadingIs ==
    ASSUME NEW c, NEW expected, policy \in Policies \cup BrokenPolicies
    PROVE  LET v == ValidateConfiguredPolicy(c.mode, expected)
           IN  /\ v.hash \in Hashes
               /\ v.code = "OK" =>
                    /\ c.mode = "disabled" => v.hash = NoPolicy
                    /\ c.mode # "disabled" =>
                         policy \notin BrokenPolicies /\ v.hash = policy
                         /\ (expected # NoPolicy => v.hash = expected)
<1> DEFINE v == ValidateConfiguredPolicy(c.mode, expected)
<1>1. \A b \in BrokenPolicies : PolicyError[b] # "OK"
  BY PolicyErrorAssumption DEF PolicyError
<1>2. CASE c.mode = "disabled"
  BY <1>2 DEF ValidateConfiguredPolicy, Hashes
<1>3. CASE c.mode # "disabled" /\ policy \in BrokenPolicies
  BY <1>1, <1>3 DEF ValidateConfiguredPolicy, Hashes
<1>4. CASE c.mode # "disabled" /\ policy \notin BrokenPolicies
  BY <1>4 DEF ValidateConfiguredPolicy, Hashes
<1> QED BY <1>2, <1>3, <1>4

\* A second reading under the configuration gives the hash of the first one, or
\* a file was edited and no hash is configured.
LEMMA Rereading ==
    ASSUME NEW r, NEW e, NEW pol, NEW h, Fresh(r, e, pol), Pinned(r.cfg, r.seen),
           Pinned(r.cfg, h), r.cfg.mode # "disabled" => h = pol,
           e \in Nat, r.since \in Nat, r.since <= e
    PROVE  Agreed(r, e, h)
<1>1. CASE r.cfg.mode = "disabled"
  BY <1>1 DEF Pinned, Agreed
<1>2. CASE r.cfg.mode # "disabled" /\ r.cfg.expected # NoPolicy
  BY <1>2 DEF Pinned, Agreed
<1>3. CASE r.cfg.mode # "disabled" /\ r.cfg.expected = NoPolicy
  BY <1>3 DEF Fresh, Agreed
<1> QED BY <1>1, <1>2, <1>3

\* A process that goes on elsewhere and has changed nothing that matters.
LEMMA Carries ==
    ASSUME NEW r, NEW s, NEW e, NEW pol, ProcOK(r, e, pol),
           \A f \in {"since", "start", "bound", "cfg", "seen", "active", "job"} : s[f] = r[f],
           s.pc \notin {"locktruncate", "lockwrite", "lock", "expected"},
           s.pc \in Early => r.pc \in Early,
           s.pc \in {"readback", "active"} => r.job = "probe"
    PROVE  ProcOK(s, e, pol)
<1>1. /\ s.since = r.since /\ s.start = r.start /\ s.bound = r.bound /\ s.cfg = r.cfg
      /\ s.seen = r.seen /\ s.active = r.active /\ s.job = r.job
  OBVIOUS
<1> QED BY <1>1 DEF ProcOK, Fresh, Agreed

\* A process that goes on to log its refusal.
LEMMA Refuses ==
    ASSUME NEW r, NEW s, NEW e, NEW pol, ProcOK(r, e, pol),
           \A f \in {"since", "start", "bound"} : s[f] = r[f],
           s.pc = "rotate", s.job = "refusal"
    PROVE  ProcOK(s, e, pol)
<1>1. s.since = r.since /\ s.start = r.start /\ s.bound = r.bound
  OBVIOUS
<1> QED BY <1>1 DEF ProcOK, Early

LEMMA IdleOK ==
    ASSUME NEW e \in Nat, NEW pol
    PROVE  ProcOK(Idle, e, pol)
  BY CustodyAssumption DEF ProcOK, Idle, Hashes

\* An edit: one more edit than before, the policy file or another one.
LEMMA EditOK ==
    ASSUME NEW r, NEW e \in Nat, NEW pol, NEW other, ProcOK(r, e, pol)
    PROVE  ProcOK(r, e + 1, other)
  BY DEF ProcOK, Fresh, Agreed

-----------------------------------------------------------------------------
(* Steps of a process.                                                      *)

\* A step leaves what the invariant of the other processes is about.
Reads == policy' = policy /\ used' \in UsedType /\ used'.edits = used.edits

LEMMA OneProc ==
    ASSUME StartInv, NEW p \in Procs, ProcShape', Reads, LockOK',
           \A q \in Procs : q # p => proc'[q] = proc[q],
           ProcOK(proc'[p], used.edits, policy)
    PROVE  StartInv'
  BY DEF StartInv, Reads

LEMMA EndKeeps ==
    ASSUME StartInv, NEW p \in Procs, NEW new, Goto(p, "idle", new), Reads, LockOK'
    PROVE  StartInv'
<1>1. /\ ProcShape' /\ proc'[p] = Idle
      /\ \A q \in Procs : q # p => proc'[q] = proc[q]
  BY EndIs DEF StartInv
<1>2. used.edits \in Nat
  BY DEF StartInv, UsedType
<1>3. ProcOK(proc'[p], used.edits, policy)
  BY <1>1, <1>2, IdleOK
<1> QED BY <1>1, <1>3, OneProc

\* The process goes on with what it knows.
LEMMA GotoKeeps ==
    ASSUME StartInv, NEW p \in Procs, NEW pc, NEW new, Goto(p, pc, new), Reads, LockOK',
           DOMAIN new \subseteq {"healthy"},
           pc \notin {"locktruncate", "lockwrite", "lock", "expected"},
           pc \in Early => proc[p].pc \in Early,
           pc \in {"readback", "active"} => proc[p].job = "probe"
    PROVE  StartInv'
<1>1. CASE pc = "idle"
  BY <1>1, EndKeeps
<1>2. CASE pc # "idle"
  <2>1. /\ ProcShape' /\ proc'[p].pc = pc
        /\ \A q \in Procs : q # p => proc'[q] = proc[q]
        /\ \A f \in Fields \ {"pc"} :
               proc'[p][f] = IF f \in DOMAIN new THEN new[f] ELSE proc[p][f]
    BY <1>2, GotoIs DEF StartInv
  <2>2. \A f \in {"since", "start", "bound", "cfg", "seen", "active", "job"} :
            proc'[p][f] = proc[p][f]
    BY <2>1 DEF Fields
  <2>3. ProcOK(proc[p], used.edits, policy)
    BY DEF StartInv
  <2>4. ProcOK(proc'[p], used.edits, policy)
    BY <2>1, <2>2, <2>3, Carries
  <2> QED BY <2>1, <2>4, OneProc
<1> QED BY <1>1, <1>2

LEMMA ContinueKeeps ==
    ASSUME StartInv, NEW p \in Procs, NEW pc, Continue(p, pc), Reads, LockOK',
           pc \notin {"locktruncate", "lockwrite", "lock", "expected"},
           pc \in Early => pc = "idle" \/ proc[p].pc \in Early,
           pc \in {"readback", "active"} => proc[p].job = "probe"
    PROVE  StartInv'
<1>1. Goto(p, pc, NoNews) /\ DOMAIN NoNews = {}
  BY DEF Continue, NoNews
<1>2. CASE pc = "idle"
  BY <1>1, <1>2, EndKeeps
<1>3. CASE pc # "idle"
  BY <1>1, <1>3, GotoKeeps
<1> QED BY <1>2, <1>3

\* The process is refused.
LEMMA RefuseKeeps ==
    ASSUME StartInv, NEW p \in Procs, NEW code, Refuse(p, code), Reads, LockOK'
    PROVE  StartInv'
<1>1. PICK new : new = [code |-> code, job |-> "refusal"]
  OBVIOUS
<1>2. Goto(p, "rotate", new) /\ DOMAIN new = {"code", "job"} /\ new["job"] = "refusal"
  BY <1>1 DEF Refuse
<1>3. /\ ProcShape' /\ proc'[p].pc = "rotate"
      /\ \A q \in Procs : q # p => proc'[q] = proc[q]
      /\ \A f \in Fields \ {"pc"} :
             proc'[p][f] = IF f \in DOMAIN new THEN new[f] ELSE proc[p][f]
  BY <1>2, GotoIs DEF StartInv
<1>4. /\ \A f \in {"since", "start", "bound"} : proc'[p][f] = proc[p][f]
      /\ proc'[p].job = "refusal"
  BY <1>2, <1>3 DEF Fields
<1>5. ProcOK(proc[p], used.edits, policy)
  BY DEF StartInv
<1>6. ProcOK(proc'[p], used.edits, policy)
  BY <1>3, <1>4, <1>5, Refuses
<1> QED BY <1>3, <1>6, OneProc

\* The steps that read no file.
LEMMA FaultReads ==
    ASSUME StartInv, policy' = policy, Fault \/ UNCHANGED used
    PROVE  Reads
  BY DEF StartInv, Fault, UsedType, Reads

LEMMA SameLock ==
    ASSUME StartInv, lock' = lock
    PROVE  LockOK'
  BY DEF StartInv, LockOK

LEMMA StartOK ==
    ASSUME StartInv, NEW p \in Procs, NEW cmd, Start(p, cmd)
    PROVE  StartInv'
<1> DEFINE r == [Idle EXCEPT !.pc = "config", !.cmd = cmd, !.start = used.starts + 1]
<1>1. used' \in UsedType /\ used'.edits = used.edits /\ used.starts + 1 \in Nat /\ used.edits \in Nat
  BY DEF StartInv, UsedType, Start
<1>2. policy' = policy /\ lock' = lock /\ proc' = [proc EXCEPT ![p] = r]
  BY DEF Start, files
<1>3. /\ r.since = 0 /\ r.start = used.starts + 1 /\ r.bound = NoPolicy /\ r.pc = "config"
      /\ r.job = Nothing /\ r.active = Nothing /\ DOMAIN r = Fields
  BY DEF Idle, Fields
<1> HIDE DEF r
<1>4. ProcOK(r, used.edits, policy)
  BY <1>1, <1>3, CustodyAssumption DEF ProcOK, Hashes
<1>5. ProcShape' /\ proc'[p] = r /\ \A q \in Procs : q # p => proc'[q] = proc[q]
  BY <1>2, <1>3 DEF StartInv, ProcShape
<1>6. Reads
  BY <1>1, <1>2 DEF Reads
<1> QED BY <1>2, <1>4, <1>5, <1>6, OneProc, SameLock

LEMMA ReadConfigOK ==
    ASSUME StartInv, NEW p \in Procs, ReadConfig(p)
    PROVE  StartInv'
<1>1. Reads /\ LockOK' /\ proc[p].pc = "config"
  BY FaultReads, SameLock DEF ReadConfig, files, AtStep
<1>2. CASE Continue(p, "idle")
  BY <1>1, <1>2, ContinueKeeps
<1>3. CASE Goto(p, "package", [cfg |-> config])
  <2>1. PICK new : new = [cfg |-> config]
    OBVIOUS
  <2>2. Goto(p, "package", new) /\ DOMAIN new = {"cfg"}
    BY <1>3, <2>1
  <2>3. /\ ProcShape' /\ proc'[p].pc = "package"
        /\ \A q \in Procs : q # p => proc'[q] = proc[q]
        /\ \A f \in Fields \ {"pc"} :
               proc'[p][f] = IF f \in DOMAIN new THEN new[f] ELSE proc[p][f]
    BY <2>2, GotoIs DEF StartInv
  <2>4. \A f \in {"since", "start", "bound", "active", "job"} : proc'[p][f] = proc[p][f]
    BY <2>2, <2>3 DEF Fields
  <2>5. /\ proc'[p].since = proc[p].since /\ proc'[p].start = proc[p].start
        /\ proc'[p].bound = proc[p].bound /\ proc'[p].active = proc[p].active
        /\ proc'[p].job = proc[p].job
    BY <2>4
  <2>6. ProcOK(proc[p], used.edits, policy)
    BY DEF StartInv
  <2>7. ProcOK(proc'[p], used.edits, policy)
    BY <1>1, <2>3, <2>5, <2>6 DEF ProcOK, Early
  <2> QED BY <1>1, <2>3, <2>7, OneProc
<1> QED BY <1>2, <1>3 DEF ReadConfig

\* preflight-check: what it saw is a hash that its configuration accepts.
LEMMA PreflightPolicyOK ==
    ASSUME StartInv, NEW p \in Procs, PreflightPolicy(p)
    PROVE  StartInv'
<1>1. Reads /\ LockOK' /\ proc[p].pc = "prepolicy"
  BY FaultReads, SameLock DEF PreflightPolicy, files, AtStep
<1>2. PICK v : v = ValidateConfiguredPolicy(proc[p].cfg.mode, proc[p].cfg.expected)
  OBVIOUS
<1>3. CASE Continue(p, "idle")
  BY <1>1, <1>3, ContinueKeeps
<1>4. CASE v.code = "OK" /\ Goto(p, "locktruncate", [seen |-> v.hash])
  <2>1. PICK new : new = [seen |-> v.hash]
    OBVIOUS
  <2>2. Goto(p, "locktruncate", new) /\ DOMAIN new = {"seen"} /\ new["seen"] = v.hash
    BY <1>4, <2>1
  <2>3. /\ ProcShape' /\ proc'[p].pc = "locktruncate"
        /\ \A q \in Procs : q # p => proc'[q] = proc[q]
        /\ \A f \in Fields \ {"pc"} :
               proc'[p][f] = IF f \in DOMAIN new THEN new[f] ELSE proc[p][f]
    BY <2>2, GotoIs DEF StartInv
  <2>4. \A f \in {"since", "start", "bound", "active", "job", "cfg"} : proc'[p][f] = proc[p][f]
    BY <2>2, <2>3 DEF Fields
  <2>5. /\ proc'[p].since = proc[p].since /\ proc'[p].start = proc[p].start
        /\ proc'[p].bound = proc[p].bound /\ proc'[p].active = proc[p].active
        /\ proc'[p].job = proc[p].job /\ proc'[p].cfg = proc[p].cfg
    BY <2>4
  <2>6. proc'[p].seen = v.hash
    BY <2>2, <2>3 DEF Fields
  <2>7. Pinned(proc[p].cfg, v.hash)
    BY <1>2, <1>4, ReadingIs DEF StartInv, Pinned
  <2>8. ProcOK(proc[p], used.edits, policy)
    BY DEF StartInv
  <2>9. ProcOK(proc'[p], used.edits, policy)
    BY <1>1, <2>3, <2>5, <2>6, <2>7, <2>8 DEF ProcOK, Early
  <2> QED BY <1>1, <2>3, <2>9, OneProc
<1> QED BY <1>2, <1>3, <1>4 DEF PreflightPolicy

LEMMA LockTruncateOK ==
    ASSUME StartInv, NEW p \in Procs, LockTruncate(p)
    PROVE  StartInv'
<1>1. Reads /\ LockOK' /\ proc[p].pc = "locktruncate"
  BY FaultReads DEF LockTruncate, AtStep, LockOK
<1>2. Goto(p, "lockwrite", NoNews) /\ DOMAIN NoNews = {}
  BY DEF LockTruncate, Continue, NoNews
<1>3. /\ ProcShape' /\ proc'[p].pc = "lockwrite"
      /\ \A q \in Procs : q # p => proc'[q] = proc[q]
      /\ \A f \in Fields \ {"pc"} :
             proc'[p][f] = IF f \in DOMAIN NoNews THEN NoNews[f] ELSE proc[p][f]
  BY <1>2, GotoIs DEF StartInv
<1>4. \A f \in {"since", "start", "bound", "active", "job", "cfg", "seen"} :
          proc'[p][f] = proc[p][f]
  BY <1>2, <1>3 DEF Fields
<1>5. /\ proc'[p].since = proc[p].since /\ proc'[p].start = proc[p].start
      /\ proc'[p].bound = proc[p].bound /\ proc'[p].active = proc[p].active
      /\ proc'[p].job = proc[p].job /\ proc'[p].cfg = proc[p].cfg
      /\ proc'[p].seen = proc[p].seen
  BY <1>4
<1>6. ProcOK(proc[p], used.edits, policy)
  BY DEF StartInv
<1>7. ProcOK(proc'[p], used.edits, policy)
  BY <1>1, <1>3, <1>5, <1>6 DEF ProcOK, Early
<1> QED BY <1>1, <1>3, <1>7, OneProc

LEMMA LockWriteOK ==
    ASSUME StartInv, NEW p \in Procs, LockWrite(p)
    PROVE  StartInv'
<1>1. Reads
  BY FaultReads DEF LockWrite
<1>2. Pinned(proc[p].cfg, proc[p].seen)
  BY DEF StartInv, ProcOK, LockWrite, AtStep
<1>3. lock'.config = proc[p].cfg /\ lock'.policy = proc[p].seen
  BY DEF LockWrite
<1>4. LockOK'
  BY <1>2, <1>3 DEF LockOK
<1> QED BY <1>1, <1>4, ContinueKeeps DEF LockWrite

\* The first reading.
LEMMA ReadLockPolicyOK ==
    ASSUME StartInv, NEW p \in Procs, ReadLockPolicy(p)
    PROVE  StartInv'
<1>1. Reads /\ LockOK' /\ proc[p].pc = "lockpolicy"
  BY FaultReads, SameLock DEF ReadLockPolicy, files, AtStep
<1>2. PICK v : v = ValidateConfiguredPolicy(proc[p].cfg.mode, NoPolicy)
  OBVIOUS
<1>3. CASE Refuse(p, v.code)
  BY <1>1, <1>3, RefuseKeeps
<1>4. CASE v.code = "OK" /\ Goto(p, "lock", [seen |-> v.hash, bound |-> v.hash, since |-> used.edits])
  <2>1. PICK new : new = [seen |-> v.hash, bound |-> v.hash, since |-> used.edits]
    OBVIOUS
  <2>2. /\ Goto(p, "lock", new) /\ DOMAIN new = {"seen", "bound", "since"}
        /\ new["seen"] = v.hash /\ new["bound"] = v.hash /\ new["since"] = used.edits
    BY <1>4, <2>1
  <2>3. /\ ProcShape' /\ proc'[p].pc = "lock"
        /\ \A q \in Procs : q # p => proc'[q] = proc[q]
        /\ \A f \in Fields \ {"pc"} :
               proc'[p][f] = IF f \in DOMAIN new THEN new[f] ELSE proc[p][f]
    BY <2>2, GotoIs DEF StartInv
  <2>4. \A f \in {"start", "active", "job", "cfg"} : proc'[p][f] = proc[p][f]
    BY <2>2, <2>3 DEF Fields
  <2>5. /\ proc'[p].start = proc[p].start /\ proc'[p].active = proc[p].active
        /\ proc'[p].job = proc[p].job /\ proc'[p].cfg = proc[p].cfg
    BY <2>4
  <2>6. proc'[p].seen = v.hash /\ proc'[p].bound = v.hash /\ proc'[p].since = used.edits
    BY <2>2, <2>3 DEF Fields
  <2>7. /\ v.hash \in Hashes
        /\ proc[p].cfg.mode = "disabled" => v.hash = NoPolicy
        /\ proc[p].cfg.mode # "disabled" => policy \notin BrokenPolicies /\ v.hash = policy
    BY <1>2, <1>4, ReadingIs DEF StartInv
  <2>8. ProcOK(proc[p], used.edits, policy) /\ used.edits \in Nat
    BY DEF StartInv, UsedType
  <2>9. Fresh(proc'[p], used.edits, policy)
    BY <2>5, <2>6, <2>7 DEF Fresh
  <2>10. ProcOK(proc'[p], used.edits, policy)
    BY <1>1, <2>3, <2>5, <2>6, <2>7, <2>8, <2>9 DEF ProcOK, Early
  <2> QED BY <1>1, <2>3, <2>10, OneProc
<1> QED BY <1>2, <1>3, <1>4 DEF ReadLockPolicy

\* The lock was written for this configuration and the policy that was read.
LEMMA CheckLockOK ==
    ASSUME StartInv, NEW p \in Procs, CheckLock(p)
    PROVE  StartInv'
<1>1. Reads /\ LockOK' /\ proc[p].pc = "lock"
  BY FaultReads, SameLock DEF CheckLock, files, AtStep
<1>2. CASE \E code : Refuse(p, code)
  BY <1>1, <1>2, RefuseKeeps
<1>3. CASE /\ lock \notin {Nothing, Torn} /\ lock.config = proc[p].cfg
           /\ lock.policy = proc[p].seen /\ Continue(p, "expected")
  <2>1. Goto(p, "expected", NoNews) /\ DOMAIN NoNews = {}
    BY <1>3 DEF Continue, NoNews
  <2>2. /\ ProcShape' /\ proc'[p].pc = "expected"
        /\ \A q \in Procs : q # p => proc'[q] = proc[q]
        /\ \A f \in Fields \ {"pc"} :
               proc'[p][f] = IF f \in DOMAIN NoNews THEN NoNews[f] ELSE proc[p][f]
    BY <2>1, GotoIs DEF StartInv
  <2>3. \A f \in {"since", "start", "bound", "active", "job", "cfg", "seen"} :
            proc'[p][f] = proc[p][f]
    BY <2>1, <2>2 DEF Fields
  <2>4. /\ proc'[p].since = proc[p].since /\ proc'[p].start = proc[p].start
        /\ proc'[p].bound = proc[p].bound /\ proc'[p].active = proc[p].active
        /\ proc'[p].job = proc[p].job /\ proc'[p].cfg = proc[p].cfg
        /\ proc'[p].seen = proc[p].seen
    BY <2>3
  <2>5. Pinned(proc[p].cfg, proc[p].seen)
    BY <1>3 DEF StartInv, LockOK
  <2>6. ProcOK(proc[p], used.edits, policy)
    BY DEF StartInv
  <2>7. ProcOK(proc'[p], used.edits, policy)
    BY <1>1, <2>2, <2>4, <2>5, <2>6 DEF ProcOK, Early, Fresh
  <2> QED BY <1>1, <2>2, <2>7, OneProc
<1> QED BY <1>2, <1>3 DEF CheckLock

\* The second reading, which the startup receipt binds.
LEMMA ReadExpectedPolicyOK ==
    ASSUME StartInv, NEW p \in Procs, ReadExpectedPolicy(p)
    PROVE  StartInv'
<1>1. Reads /\ LockOK' /\ proc[p].pc = "expected"
  BY FaultReads, SameLock DEF ReadExpectedPolicy, files, AtStep
<1>2. PICK v : v = ValidateConfiguredPolicy(proc[p].cfg.mode, proc[p].cfg.expected)
  OBVIOUS
<1>3. PICK new : new = [bound |-> v.hash, code |-> IF v.code = "OK" THEN Nothing ELSE v.code,
                        job |-> IF v.code = "OK" THEN "probe" ELSE "refusal"]
  OBVIOUS
<1>4. /\ Goto(p, "rotate", new) /\ DOMAIN new = {"bound", "code", "job"}
      /\ new["bound"] = v.hash /\ new["job"] = IF v.code = "OK" THEN "probe" ELSE "refusal"
  BY <1>2, <1>3 DEF ReadExpectedPolicy
<1>5. /\ ProcShape' /\ proc'[p].pc = "rotate"
      /\ \A q \in Procs : q # p => proc'[q] = proc[q]
      /\ \A f \in Fields \ {"pc"} :
             proc'[p][f] = IF f \in DOMAIN new THEN new[f] ELSE proc[p][f]
  BY <1>4, GotoIs DEF StartInv
<1>6. \A f \in {"since", "start", "active", "cfg", "seen"} : proc'[p][f] = proc[p][f]
  BY <1>4, <1>5 DEF Fields
<1>7. /\ proc'[p].since = proc[p].since /\ proc'[p].start = proc[p].start
      /\ proc'[p].active = proc[p].active /\ proc'[p].cfg = proc[p].cfg
      /\ proc'[p].seen = proc[p].seen
  BY <1>6
<1>8. /\ proc'[p].bound = v.hash
      /\ proc'[p].job = IF v.code = "OK" THEN "probe" ELSE "refusal"
  BY <1>4, <1>5 DEF Fields
<1>9. /\ v.hash \in Hashes
      /\ v.code = "OK" => /\ Pinned(proc[p].cfg, v.hash)
                          /\ proc[p].cfg.mode # "disabled" => v.hash = policy
  BY <1>2, ReadingIs DEF StartInv, Pinned
<1>10. /\ ProcOK(proc[p], used.edits, policy) /\ used.edits \in Nat
       /\ Pinned(proc[p].cfg, proc[p].seen) /\ Fresh(proc[p], used.edits, policy)
       /\ proc[p].active = Nothing /\ proc[p].since \in Nat /\ proc[p].since <= used.edits
  BY <1>1 DEF StartInv, UsedType, ProcOK, Early
<1>11. v.code = "OK" => Agreed(proc[p], used.edits, v.hash)
  BY <1>9, <1>10, Rereading
<1>12. ProcOK(proc'[p], used.edits, policy)
  BY <1>5, <1>7, <1>8, <1>9, <1>10, <1>11 DEF ProcOK, Early, Fresh, Agreed
<1> QED BY <1>1, <1>5, <1>12, OneProc

\* The third reading, which the ready path reports.
LEMMA ReadActivePolicyOK ==
    ASSUME StartInv, NEW p \in Procs, ReadActivePolicy(p)
    PROVE  StartInv'
<1>1. Reads /\ LockOK' /\ proc[p].pc = "active"
  BY FaultReads, SameLock DEF ReadActivePolicy, files, AtStep
<1>2. PICK v : v = ValidateConfiguredPolicy(proc[p].cfg.mode, proc[p].cfg.expected)
  OBVIOUS
<1>3. PICK new : new = [active |-> v, job |-> "opening"]
  OBVIOUS
<1>4. /\ Goto(p, "rotate", new) /\ DOMAIN new = {"active", "job"}
      /\ new["active"] = v /\ new["job"] = "opening"
  BY <1>2, <1>3 DEF ReadActivePolicy
<1>5. /\ ProcShape' /\ proc'[p].pc = "rotate"
      /\ \A q \in Procs : q # p => proc'[q] = proc[q]
      /\ \A f \in Fields \ {"pc"} :
             proc'[p][f] = IF f \in DOMAIN new THEN new[f] ELSE proc[p][f]
  BY <1>4, GotoIs DEF StartInv
<1>6. \A f \in {"since", "start", "bound", "cfg", "seen"} : proc'[p][f] = proc[p][f]
  BY <1>4, <1>5 DEF Fields
<1>7. /\ proc'[p].since = proc[p].since /\ proc'[p].start = proc[p].start
      /\ proc'[p].bound = proc[p].bound /\ proc'[p].cfg = proc[p].cfg
      /\ proc'[p].seen = proc[p].seen
  BY <1>6
<1>8. proc'[p].active = v /\ proc'[p].job = "opening"
  BY <1>4, <1>5 DEF Fields
<1>9. v.code = "OK" => /\ Pinned(proc[p].cfg, v.hash)
                       /\ proc[p].cfg.mode # "disabled" => v.hash = policy
  BY <1>2, ReadingIs DEF StartInv, Pinned
<1>10. /\ ProcOK(proc[p], used.edits, policy) /\ used.edits \in Nat
       /\ Pinned(proc[p].cfg, proc[p].seen) /\ Fresh(proc[p], used.edits, policy)
       /\ Agreed(proc[p], used.edits, proc[p].bound)
       /\ proc[p].since \in Nat /\ proc[p].since <= used.edits
  BY <1>1 DEF StartInv, UsedType, ProcOK
<1>11. v.code = "OK" => Agreed(proc[p], used.edits, v.hash)
  BY <1>9, <1>10, Rereading
<1>12. ProcOK(proc'[p], used.edits, policy)
  BY <1>5, <1>7, <1>8, <1>10, <1>11 DEF ProcOK, Early, Fresh, Agreed
<1> QED BY <1>1, <1>5, <1>12, OneProc

\* ERR_RECEIPT_ARCHIVE_FAILED.
LEMMA ArchiveFailedOK ==
    ASSUME StartInv, NEW p \in Procs, ArchiveFailed(p), Reads, LockOK'
    PROVE  StartInv'
<1>1. CASE Refuse(p, "ERR_RECEIPT_ARCHIVE_FAILED")
  BY <1>1, RefuseKeeps
<1>2. CASE Continue(p, "idle")
  BY <1>2, ContinueKeeps
<1>3. CASE Goto(p, "listen", [healthy |-> FALSE])
  <2>1. PICK new : new = [healthy |-> FALSE]
    OBVIOUS
  <2>2. Goto(p, "listen", new) /\ DOMAIN new \subseteq {"healthy"}
    BY <1>3, <2>1
  <2>3. "listen" \notin Early
    BY DEF Early
  <2> QED BY <2>2, <2>3, GotoKeeps
<1> QED BY <1>1, <1>2, <1>3 DEF ArchiveFailed

\* The steps that take no decision about the policy.
LEMMA OtherStepsOK ==
    ASSUME StartInv, NEW p \in Procs,
           \/ CheckPackage(p) \/ PreflightProbes(p) \/ Rotate(p) \/ Rename(p)
           \/ RenameFails(p) \/ Create(p) \/ AppendReceipt(p) \/ AppendFails(p)
           \/ ReadBack(p) \/ Listen(p) \/ Health(p) \/ Stop(p) \/ Kill(p)
    PROVE  StartInv'
<1>1. lock' = lock /\ policy' = policy /\ (Fault \/ UNCHANGED used)
  BY DEF CheckPackage, PreflightProbes, Rotate, Rename, RenameFails, Create, AppendReceipt,
         AppendFails, ReadBack, Listen, Health, Stop, Kill, files
<1>2. Reads /\ LockOK'
  BY <1>1, FaultReads, SameLock
<1>3. {"package", "probes", "prepolicy", "lockpolicy", "idle"} \subseteq Early
  BY DEF Early
<1>4. {"append", "listen", "rename", "create", "readback", "active", "serving"} \cap Early = {}
  BY DEF Early
<1>5. CASE CheckPackage(p)
  <2>1. proc[p].pc = "package"
    BY <1>5 DEF CheckPackage, AtStep
  <2>2. CASE Goto(p, "probes", [healthy |-> VerifyReleaseIntegrity(package) = {}])
    <3>1. PICK new : new = [healthy |-> VerifyReleaseIntegrity(package) = {}]
      OBVIOUS
    <3>2. Goto(p, "probes", new) /\ DOMAIN new \subseteq {"healthy"}
      BY <2>2, <3>1
    <3> QED BY <1>2, <1>3, <2>1, <3>2, GotoKeeps
  <2>3. CASE \E code : Refuse(p, code)
    BY <1>2, <2>3, RefuseKeeps
  <2>4. CASE Continue(p, "lockpolicy")
    BY <1>2, <1>3, <2>1, <2>4, ContinueKeeps
  <2> QED BY <1>5, <2>2, <2>3, <2>4 DEF CheckPackage
<1>6. CASE PreflightProbes(p)
  <2>1. proc[p].pc = "probes"
    BY <1>6 DEF PreflightProbes, AtStep
  <2>2. CASE Continue(p, "prepolicy")
    BY <1>2, <1>3, <2>1, <2>2, ContinueKeeps
  <2>3. CASE Goto(p, "prepolicy", [healthy |-> FALSE])
    <3>1. PICK new : new = [healthy |-> FALSE]
      OBVIOUS
    <3>2. Goto(p, "prepolicy", new) /\ DOMAIN new \subseteq {"healthy"}
      BY <2>3, <3>1
    <3> QED BY <1>2, <1>3, <2>1, <3>2, GotoKeeps
  <2> QED BY <1>6, <2>2, <2>3 DEF PreflightProbes
<1>7. CASE Continue(p, "idle")
  BY <1>2, <1>7, ContinueKeeps
<1>8. CASE \E pc \in {"append", "listen", "rename", "create", "serving"} : Continue(p, pc)
  BY <1>2, <1>4, <1>8, ContinueKeeps
<1>9. CASE \E code : Refuse(p, code)
  BY <1>2, <1>9, RefuseKeeps
<1>10. CASE ArchiveFailed(p)
  BY <1>2, <1>10, ArchiveFailedOK
<1>11. CASE proc[p].job = "probe" /\ Continue(p, "readback")
  BY <1>2, <1>4, <1>11, ContinueKeeps
<1>12. CASE ReadBack(p)
  <2>1. proc[p].job = "probe"
    BY <1>12 DEF ReadBack, AtStep, StartInv, ProcOK
  <2>2. CASE Continue(p, "active")
    BY <1>2, <1>4, <2>1, <2>2, ContinueKeeps
  <2> QED BY <1>7, <1>9, <1>12, <2>2 DEF ReadBack
<1>13. CASE Health(p)
  <2>1. PICK new : new = [healthy |-> proc[p].healthy /\ disk']
    OBVIOUS
  <2>2. Goto(p, "serving", new) /\ DOMAIN new \subseteq {"healthy"}
    BY <1>13, <2>1 DEF Health
  <2> QED BY <1>2, <1>4, <2>2, GotoKeeps
<1> QED BY <1>5, <1>6, <1>7, <1>8, <1>9, <1>10, <1>11, <1>12, <1>13
        DEF Rotate, Rename, RenameFails, Create, AppendReceipt, AppendFails, Listen, Stop, Kill,
            AfterRotation

\* Edits.
LEMMA EditsOK ==
    ASSUME StartInv, EditPolicy \/ EditConfig \/ EditPackage
    PROVE  StartInv'
<1>1. /\ used' = [used EXCEPT !.edits = @ + 1] /\ proc' = proc /\ lock' = lock
      /\ policy' \in Policies \cup BrokenPolicies
  BY DEF EditPolicy, EditConfig, EditPackage, Edit, StartInv
<1>2. used \in UsedType /\ used.edits \in Nat
  BY DEF StartInv, UsedType
<1>3. used' \in UsedType /\ used'.edits = used.edits + 1
  BY <1>1, <1>2 DEF UsedType
<1>4. \A p \in Procs : ProcOK(proc[p], used.edits + 1, policy')
  BY <1>2, EditOK DEF StartInv
<1> QED BY <1>1, <1>3, <1>4, SameLock DEF StartInv, ProcShape

LEMMA StartInvInit == InitK => StartInv
<1> SUFFICES ASSUME InitK PROVE StartInv
  OBVIOUS
<1>1. policy \in Policies \cup BrokenPolicies /\ used \in UsedType /\ used.edits = 0
  BY DEF InitK, UsedType
<1>2. ProcShape /\ \A p \in Procs : proc[p] = Idle
  BY IdleShape DEF InitK, ProcShape
<1>3. \A p \in Procs : ProcOK(proc[p], used.edits, policy)
  BY <1>1, <1>2, IdleOK
<1>4. LockOK
  <2>1. CASE lock = Nothing
    BY <2>1 DEF LockOK
  <2>2. CASE lock # Nothing
    <3>1. PICK v : v = ValidateConfiguredPolicy(config.mode, config.expected)
      OBVIOUS
    <3>2. v.code = "OK" /\ lock.config = config /\ lock.policy = v.hash
      BY <2>2, <3>1 DEF InitK
    <3>3. Pinned(config, v.hash)
      BY <1>1, <3>1, <3>2, ReadingIs DEF Pinned
    <3> QED BY <3>2, <3>3 DEF LockOK
  <2> QED BY <2>1, <2>2
<1> QED BY <1>1, <1>2, <1>3, <1>4 DEF StartInv

LEMMA StartInvNext == StartInv /\ [NextK]_kvars => StartInv'
<1> SUFFICES ASSUME StartInv, [NextK]_kvars PROVE StartInv'
  OBVIOUS
<1>1. ASSUME NEW p \in Procs, Step(p) PROVE StartInv'
  BY <1>1, StartOK, ReadConfigOK, PreflightPolicyOK, LockTruncateOK, LockWriteOK,
     ReadLockPolicyOK, CheckLockOK, ReadExpectedPolicyOK, ReadActivePolicyOK, OtherStepsOK
     DEF Step
<1>2. CASE EditPolicy \/ EditConfig \/ EditPackage
  BY <1>2, EditsOK
<1>3. CASE Install \/ Tick \/ UNCHANGED kvars
  <2>1. proc' = proc /\ lock' = lock /\ policy' = policy /\ used' = used
    BY <1>3 DEF Install, Tick, kvars, files
  <2> QED BY <2>1 DEF StartInv, ProcShape, LockOK
<1> QED BY <1>1, <1>2, <1>3 DEF NextK

LEMMA StartInvAlways == SpecK => []StartInv
  BY StartInvInit, StartInvNext, PTL DEF SpecK

\* checkCustodyStartup and runCustodyRuntime: however edits, kills and other
\* commands come between its three readings of the policy file, a start binds
\* and reports the policy of the preflight lock, unless no hash is configured
\* and a file was edited meanwhile.
THEOREM PolicyLocked == SpecK => []LockedUnlessEdited
<1>1. StartInv => LockedUnlessEdited
  BY DEF StartInv, LockedUnlessEdited, Admitted, ProcOK, Agreed
<1> QED BY <1>1, StartInvAlways, PTL

-----------------------------------------------------------------------------
(* The receipt store.                                                       *)

\* The receipts ReceiptsKept counts, and the file whose next line is spoiled.
LostReceipts == (history.appended \ Stored) \ history.overwritten
Unfinished == receipts # Nothing /\ receipts.open
Spoiling == IF Unfinished THEN 1 ELSE 0

FileOK ==
    /\ receipts # Nothing => receipts \in ReceiptFiles
    /\ Unfinished => receipts.lines # <<>> /\ receipts.lines[Len(receipts.lines)] = Torn

HistoryShape ==
    /\ DOMAIN history = {"appended", "overwritten", "events"}
    /\ IsFiniteSet(history.appended)

\* An unfinished line has cost a fault and will spoil at most one receipt.
StoreInv ==
    /\ FileOK /\ HistoryShape
    /\ Cardinality(LostReceipts) + Spoiling <= used.faults

\* No more receipts are lost than before, and no more can be spoiled.
LEMMA NoMoreLost ==
    ASSUME StoreInv, StartInv, FileOK', HistoryShape', LostReceipts' \subseteq LostReceipts,
           used'.faults \in Nat, Spoiling' - Spoiling <= used'.faults - used.faults
    PROVE  StoreInv'
<1>1. PICK A : A = LostReceipts
  OBVIOUS
<1>2. PICK B : B = LostReceipts'
  OBVIOUS
<1>3. IsFiniteSet(A)
  <2>1. A \in SUBSET history.appended /\ IsFiniteSet(history.appended)
    BY <1>1 DEF LostReceipts, StoreInv, HistoryShape
  <2> QED BY <2>1, FS_Subset
<1>4. B \in SUBSET A
  BY <1>1, <1>2
<1>5. IsFiniteSet(B) /\ Cardinality(B) <= Cardinality(A)
  BY <1>3, <1>4, FS_Subset
<1>6. Cardinality(A) \in Nat /\ Cardinality(B) \in Nat
  BY <1>3, <1>5, FS_CardinalityType
<1>7. used.faults \in Nat /\ Spoiling \in {0, 1} /\ Spoiling' \in {0, 1}
  BY DEF StartInv, UsedType, Spoiling
<1>8. Cardinality(A) + Spoiling <= used.faults
  BY <1>1 DEF StoreInv
<1>9. Cardinality(B) + Spoiling' <= used'.faults
  BY <1>5, <1>6, <1>7, <1>8
<1> QED BY <1>2, <1>9 DEF StoreInv

\* A step that leaves the store alone.
LEMMA StoreSame ==
    ASSUME StoreInv, StartInv, UNCHANGED store, history'.appended = history.appended,
           history'.overwritten = history.overwritten, DOMAIN history' = DOMAIN history,
           used'.faults \in Nat, used.faults <= used'.faults
    PROVE  StoreInv'
<1>1. receipts' = receipts /\ archive' = archive
  BY DEF store
<1>2. FileOK' /\ HistoryShape'
  BY <1>1 DEF StoreInv, FileOK, HistoryShape, Unfinished
<1>3. LostReceipts' = LostReceipts /\ Spoiling' = Spoiling
  BY <1>1 DEF LostReceipts, Stored, Spoiling, Unfinished
<1>4. used.faults \in Nat /\ Spoiling \in {0, 1}
  BY DEF StartInv, UsedType, Spoiling
<1> QED BY <1>2, <1>3, <1>4, NoMoreLost

LEMMA AppendLines ==
    ASSUME NEW S, NEW s \in Seq(S), NEW e \in S, NEW t, t = Append(s, e)
    PROVE  /\ t \in Seq(S) /\ t # <<>> /\ t[Len(t)] = e
           /\ {t[i] : i \in 1..Len(t)} = {s[i] : i \in 1..Len(s)} \cup {e}
<1>1. t \in Seq(S) /\ Len(t) = Len(s) + 1 /\ Len(s) \in Nat /\ t[Len(t)] = e
  OBVIOUS
<1>2. \A i \in 1..Len(s) : t[i] = s[i]
  OBVIOUS
<1>3. 1..Len(t) = 1..Len(s) \cup {Len(t)}
  BY <1>1
<1>4. t # <<>>
  BY <1>1
<1> QED BY <1>1, <1>2, <1>3, <1>4

\* The file an append starts from.
Before == IF receipts = Nothing THEN Empty ELSE receipts

LEMMA BeforeIs ==
    ASSUME FileOK
    PROVE  /\ Before \in ReceiptFiles /\ Before # Nothing /\ Lines(Before) = Lines(receipts)
           /\ Before.open = Unfinished /\ Before.lines \in Seq(AuditReceipts \cup {Torn})
           /\ Unfinished => Before = receipts
<1>1. CASE receipts = Nothing
  <2>1. Empty \in ReceiptFiles /\ Empty.open = FALSE /\ Empty.lines = <<>> /\ Before = Empty
    BY <1>1 DEF Empty, ReceiptFiles, Before
  <2>2. Empty # Nothing
    BY <2>1, FileAssumption
  <2>3. Lines(Empty) = {} /\ Lines(receipts) = {}
    BY <1>1, <2>1, <2>2 DEF Lines
  <2>4. Unfinished = FALSE
    BY <1>1, Zenon DEF Unfinished
  <2>5. Empty.lines \in Seq(AuditReceipts \cup {Torn})
    BY <2>1
  <2> QED BY <2>1, <2>2, <2>3, <2>4, <2>5
<1>2. CASE receipts # Nothing
  <2>1. Before = receipts /\ receipts \in ReceiptFiles
    BY <1>2 DEF FileOK, Before
  <2> QED BY <1>2, <2>1, FileAssumption DEF Unfinished, ReceiptFiles
<1> QED BY <1>1, <1>2

\* A fragment: the file is unfinished, and this has cost a fault.
LEMMA FragmentOK ==
    ASSUME StoreInv, StartInv, receipts' \in {receipts, WithFragment(receipts)},
           archive' = archive, history' = history, Fault
    PROVE  StoreInv'
<1>1. used'.faults = used.faults + 1 /\ used.faults \in Nat
  BY DEF StartInv, UsedType, Fault
<1>2. FileOK /\ HistoryShape /\ HistoryShape'
  BY DEF StoreInv, HistoryShape
<1>3. CASE receipts' = receipts
  <2>1. UNCHANGED store
    BY <1>3 DEF store
  <2> QED BY <1>1, <2>1, StoreSame
<1>4. CASE Unfinished /\ receipts' = WithFragment(receipts)
  <2>1. WithFragment(receipts) = IF Before.open THEN Before
                                 ELSE [lines |-> Append(Before.lines, Torn), open |-> TRUE]
    BY DEF WithFragment, Before
  <2>2. receipts' = receipts
    BY <1>2, <1>4, <2>1, BeforeIs
  <2> QED BY <1>3, <2>2
<1>5. CASE ~Unfinished /\ receipts' = WithFragment(receipts)
  <2>1. PICK t : t = Append(Before.lines, Torn)
    OBVIOUS
  <2>2. WithFragment(receipts) = IF Before.open THEN Before ELSE [lines |-> t, open |-> TRUE]
    BY <2>1 DEF WithFragment, Before
  <2>3. receipts' = [lines |-> t, open |-> TRUE]
    BY <1>2, <1>5, <2>2, BeforeIs
  <2>4. /\ t \in Seq(AuditReceipts \cup {Torn}) /\ t # <<>> /\ t[Len(t)] = Torn
        /\ {t[i] : i \in 1..Len(t)}
             = {Before.lines[i] : i \in 1..Len(Before.lines)} \cup {Torn}
    BY <1>2, <2>1, BeforeIs, AppendLines
  <2>5. receipts'.lines = t /\ receipts'.open = TRUE /\ receipts' \in ReceiptFiles
    BY <2>3, <2>4 DEF ReceiptFiles
  <2>6. receipts' # Nothing
    BY <2>5, FileAssumption
  <2>7. Lines(receipts)  \subseteq Lines(receipts')
    <3>1. Lines(receipts) = Lines(Before) /\ Before # Nothing
      BY <1>2, BeforeIs
    <3>2. Lines(Before) = {Before.lines[i] : i \in 1..Len(Before.lines)}
      BY <3>1 DEF Lines
    <3>3. Lines(receipts') = {t[i] : i \in 1..Len(t)}
      BY <2>5, <2>6 DEF Lines
    <3> QED BY <2>4, <3>1, <3>2, <3>3
  <2>8. FileOK'
    BY <2>4, <2>5 DEF FileOK
  <2>9. LostReceipts' \subseteq LostReceipts
    BY <2>7 DEF LostReceipts, Stored
  <2>10. Spoiling' = 1 /\ Spoiling = 0
    BY <1>5, <2>5, <2>6 DEF Spoiling, Unfinished
  <2> QED BY <1>1, <1>2, <2>8, <2>9, <2>10, NoMoreLost
<1> QED BY <1>3, <1>4, <1>5

\* appendFileSync: the receipt is stored, or spoilt by the unfinished line, which
\* then spoils no other.
LEMMA AppendOK ==
    ASSUME StoreInv, StartInv, NEW p \in Procs, AppendReceipt(p)
    PROVE  StoreInv'
<1>1. PICK r : r = AuditReceipt(p, IF proc[p].job = "probe" THEN "ALLOW" ELSE "REFUSE")
  OBVIOUS
<1>2. /\ receipts' = WithLine(receipts, r) /\ archive' = archive /\ used' = used
      /\ history' = [history EXCEPT !.appended = @ \cup {r}]
  BY <1>1 DEF AppendReceipt
<1>3. r \in AuditReceipts
  BY <1>1 DEF AuditReceipt, AuditReceipts, StartInv, ProcOK
<1>4. FileOK /\ HistoryShape /\ IsFiniteSet(history.appended) /\ used.faults \in Nat
  BY DEF StoreInv, HistoryShape, StartInv, UsedType
<1>5. /\ history'.appended = history.appended \cup {r}
      /\ history'.overwritten = history.overwritten /\ DOMAIN history' = DOMAIN history
  BY <1>2, <1>4 DEF HistoryShape
<1>6. HistoryShape'
  BY <1>4, <1>5, FS_AddElement DEF HistoryShape
<1>7. PICK b : b = Before
  OBVIOUS
<1>8. /\ b \in ReceiptFiles /\ b # Nothing /\ Lines(b) = Lines(receipts)
      /\ b.open = Unfinished /\ b.lines \in Seq(AuditReceipts \cup {Torn})
      /\ Unfinished => b = receipts
  BY <1>4, <1>7, BeforeIs
<1>9. Lines(b) = {b.lines[i] : i \in 1..Len(b.lines)}
  BY <1>8 DEF Lines
<1>10. WithLine(receipts, r) =
         IF b.open THEN [lines |-> [b.lines EXCEPT ![Len(b.lines)] = Torn], open |-> FALSE]
         ELSE [lines |-> Append(b.lines, r), open |-> FALSE]
  BY <1>7 DEF WithLine, Before
<1>11. CASE ~Unfinished
  <2>1. PICK t : t = Append(b.lines, r)
    OBVIOUS
  <2>2. receipts' = [lines |-> t, open |-> FALSE]
    BY <1>2, <1>8, <1>10, <1>11, <2>1
  <2>3. /\ t \in Seq(AuditReceipts \cup {Torn})
        /\ {t[i] : i \in 1..Len(t)} = {b.lines[i] : i \in 1..Len(b.lines)} \cup {r}
    BY <1>3, <1>8, <2>1, AppendLines
  <2>4. receipts'.lines = t /\ receipts'.open = FALSE /\ receipts' \in ReceiptFiles
    BY <2>2, <2>3 DEF ReceiptFiles
  <2>5. receipts' # Nothing
    BY <2>4, FileAssumption
  <2>6. Lines(receipts') = {t[i] : i \in 1..Len(t)}
    BY <2>4, <2>5 DEF Lines
  <2>7. Lines(receipts') = Lines(receipts) \cup {r}
    BY <1>8, <1>9, <2>3, <2>6
  <2>8. FileOK' /\ Spoiling' = 0 /\ Spoiling = 0
    BY <1>11, <2>4 DEF FileOK, Unfinished, Spoiling
  <2>9. LostReceipts' \subseteq LostReceipts
    BY <1>2, <1>5, <2>7 DEF LostReceipts, Stored
  <2> QED BY <1>2, <1>4, <1>6, <2>8, <2>9, NoMoreLost
<1>12. CASE Unfinished
  <2>1. PICK t : t = [b.lines EXCEPT ![Len(b.lines)] = Torn]
    OBVIOUS
  <2>2. receipts' = [lines |-> t, open |-> FALSE]
    BY <1>2, <1>8, <1>10, <1>12, <2>1
  <2>3. b.lines # <<>> /\ b.lines[Len(b.lines)] = Torn
    BY <1>4, <1>8, <1>12 DEF FileOK
  <2>4. t = b.lines
    BY <1>8, <2>1, <2>3
  <2>5. receipts'.lines = b.lines /\ receipts'.open = FALSE /\ receipts' \in ReceiptFiles
    BY <1>8, <2>2, <2>4 DEF ReceiptFiles
  <2>6. receipts' # Nothing
    BY <2>5, FileAssumption
  <2>7. Lines(receipts') = {b.lines[i] : i \in 1..Len(b.lines)}
    BY <2>5, <2>6 DEF Lines
  <2>8. Lines(receipts') = Lines(receipts)
    BY <1>8, <1>9, <2>7
  <2>9. FileOK' /\ Spoiling' = 0 /\ Spoiling = 1
    BY <1>12, <2>5 DEF FileOK, Unfinished, Spoiling
  <2>10. PICK A : A = LostReceipts
    OBVIOUS
  <2>11. PICK B : B = LostReceipts'
    OBVIOUS
  <2>12. B \in SUBSET (A \cup {r})
    BY <1>2, <1>5, <2>8, <2>10, <2>11 DEF LostReceipts, Stored
  <2>13. A \in SUBSET history.appended
    BY <2>10 DEF LostReceipts
  <2>14. IsFiniteSet(A)
    BY <1>4, <2>13, FS_Subset
  <2>15. Cardinality(A) \in Nat
    BY <2>14, FS_CardinalityType
  <2>16. IsFiniteSet(A \cup {r}) /\ Cardinality(A \cup {r}) <= Cardinality(A) + 1
    <3>1. /\ IsFiniteSet(A \cup {r})
          /\ Cardinality(A \cup {r}) = IF r \in A THEN Cardinality(A) ELSE Cardinality(A) + 1
      BY <2>14, FS_AddElement, Zenon
    <3> QED BY <2>15, <3>1
  <2>17. IsFiniteSet(B) /\ Cardinality(B) <= Cardinality(A \cup {r})
    BY <2>12, <2>16, FS_Subset
  <2>18. Cardinality(A \cup {r}) \in Nat /\ Cardinality(B) \in Nat
    BY <2>16, <2>17, FS_CardinalityType
  <2>19. Cardinality(A) + 1 <= used.faults
    BY <2>9, <2>10 DEF StoreInv
  <2>20. Cardinality(B) + Spoiling' <= used'.faults
    BY <1>2, <1>4, <2>9, <2>15, <2>16, <2>17, <2>18, <2>19
  <2> QED BY <1>6, <2>9, <2>11, <2>20 DEF StoreInv
<1> QED BY <1>11, <1>12

\* renameSync: what the archive held under the same time stamp is overwritten.
LEMMA RenameOK ==
    ASSUME StoreInv, StartInv, NEW p \in Procs, Rename(p)
    PROVE  StoreInv'
<1>1. PICK over : over = IF clock \in DOMAIN archive THEN Lines(archive[clock]) ELSE {}
  OBVIOUS
<1>2. /\ receipts' = Nothing /\ used' = used /\ receipts # Nothing
      /\ history' = [history EXCEPT !.overwritten = @ \cup over]
      /\ archive' = [t \in DOMAIN archive \cup {clock} |->
                        IF t = clock THEN receipts ELSE archive[t]]
  BY <1>1 DEF Rename
<1>3. HistoryShape /\ used.faults \in Nat
  BY DEF StoreInv, StartInv, UsedType
<1>4. /\ history'.appended = history.appended /\ DOMAIN history' = DOMAIN history
      /\ history'.overwritten = history.overwritten \cup over
  BY <1>2, <1>3 DEF HistoryShape
<1>5. HistoryShape' /\ FileOK'
  BY <1>2, <1>3, <1>4 DEF HistoryShape, FileOK, Unfinished
<1>6. Spoiling' = 0 /\ Spoiling \in {0, 1}
  BY <1>2 DEF Spoiling, Unfinished
<1>7. DOMAIN archive' = DOMAIN archive \cup {clock} /\ archive'[clock] = receipts
      /\ \A t \in DOMAIN archive : t # clock => archive'[t] = archive[t]
  BY <1>2
<1>8. Stored \subseteq Stored' \cup over
  <2>1. SUFFICES ASSUME NEW x \in Stored PROVE x \in Stored' \cup over
    OBVIOUS
  <2>2. CASE x \in Lines(receipts)
    BY <1>7, <2>2 DEF Stored
  <2>3. ASSUME NEW t \in DOMAIN archive, x \in Lines(archive[t]) PROVE x \in Stored' \cup over
    <3>1. CASE t = clock
      BY <1>1, <2>3, <3>1
    <3>2. CASE t # clock
      BY <1>7, <2>3, <3>2 DEF Stored
    <3> QED BY <3>1, <3>2
  <2> QED BY <2>1, <2>2, <2>3 DEF Stored
<1>9. LostReceipts' \subseteq LostReceipts
  BY <1>4, <1>8 DEF LostReceipts
<1> QED BY <1>2, <1>3, <1>5, <1>6, <1>9, NoMoreLost

LEMMA CreateStoreOK ==
    ASSUME StoreInv, StartInv, NEW p \in Procs, Create(p)
    PROVE  StoreInv'
<1>1. archive' = archive /\ used' = used /\ history' = history /\ used.faults \in Nat
  BY DEF Create, StartInv, UsedType
<1>2. CASE receipts' = receipts
  <2>1. UNCHANGED store
    BY <1>1, <1>2 DEF store
  <2> QED BY <1>1, <2>1, StoreSame
<1>3. CASE receipts = Nothing /\ receipts' = Empty
  <2>1. /\ Empty \in ReceiptFiles /\ Empty.open = FALSE
    BY DEF Empty, ReceiptFiles
  <2>2. FileOK' /\ Spoiling' = 0 /\ Spoiling = 0
    BY <1>3, <2>1 DEF FileOK, Unfinished, Spoiling
  <2>3. Lines(receipts) = {}
    BY <1>3 DEF Lines
  <2>4. LostReceipts' \subseteq LostReceipts
    BY <1>1, <2>3 DEF LostReceipts, Stored
  <2>5. HistoryShape'
    BY <1>1 DEF StoreInv, HistoryShape
  <2> QED BY <1>1, <2>2, <2>4, <2>5, NoMoreLost
<1> QED BY <1>2, <1>3 DEF Create

LEMMA StoreInvInit == InitK => StoreInv
<1> SUFFICES ASSUME InitK PROVE StoreInv
  OBVIOUS
<1>1. FileOK /\ Spoiling = 0 /\ used.faults = 0
  BY DEF InitK, FileOK, Unfinished, Spoiling
<1>2. HistoryShape /\ LostReceipts = {}
  BY FS_EmptySet DEF InitK, HistoryShape, LostReceipts
<1> QED BY <1>1, <1>2, FS_EmptySet DEF StoreInv

LEMMA StoreInvNext == StoreInv /\ StartInv /\ [NextK]_kvars => StoreInv'
<1> SUFFICES ASSUME StoreInv, StartInv, [NextK]_kvars PROVE StoreInv'
  OBVIOUS
<1>1. used \in UsedType /\ used.faults \in Nat
  BY DEF StartInv, UsedType
<1>2. DOMAIN history = {"appended", "overwritten", "events"}
  BY DEF StoreInv, HistoryShape
<1>3. CASE UNCHANGED <<store, history, used>>
  BY <1>1, <1>3, StoreSame
<1>4. CASE UNCHANGED <<store, history>> /\ Fault
  BY <1>1, <1>4, StoreSame DEF Fault, UsedType
<1>5. ASSUME NEW p \in Procs, Step(p) PROVE StoreInv'
  <2>1. CASE \E cmd \in Commands : Start(p, cmd)
    <3>1. used' = [used EXCEPT !.starts = @ + 1] /\ UNCHANGED <<store, history>>
      BY <2>1 DEF Start
    <3> QED BY <1>1, <3>1, StoreSame DEF UsedType
  <2>2. CASE \/ ReadConfig(p) \/ CheckPackage(p) \/ PreflightProbes(p) \/ PreflightPolicy(p)
             \/ LockTruncate(p) \/ LockWrite(p) \/ ReadLockPolicy(p) \/ CheckLock(p)
             \/ ReadExpectedPolicy(p) \/ Rotate(p) \/ RenameFails(p) \/ ReadBack(p)
             \/ ReadActivePolicy(p) \/ Health(p) \/ Stop(p)
    BY <1>3, <1>4, <2>2
       DEF ReadConfig, CheckPackage, PreflightProbes, PreflightPolicy, LockTruncate, LockWrite,
           ReadLockPolicy, CheckLock, ReadExpectedPolicy, Rotate, RenameFails, ReadBack,
           ReadActivePolicy, Health, Stop
  <2>3. CASE Rename(p)
    BY <2>3, RenameOK
  <2>4. CASE Create(p)
    BY <2>4, CreateStoreOK
  <2>5. CASE AppendReceipt(p)
    BY <2>5, AppendOK
  <2>6. CASE AppendFails(p) \/ Kill(p)
    BY <2>6, FragmentOK DEF AppendFails, Kill
  <2>7. CASE Listen(p)
    <3>1. CASE Fault /\ UNCHANGED <<log, history>>
      BY <1>4, <2>7, <3>1 DEF Listen
    <3>2. CASE history' = [history EXCEPT !.events = @ + 1] /\ UNCHANGED used
      <4>1. /\ history'.appended = history.appended /\ DOMAIN history' = DOMAIN history
            /\ history'.overwritten = history.overwritten /\ UNCHANGED store
        BY <1>2, <2>7, <3>2 DEF Listen
      <4> QED BY <1>1, <3>2, <4>1, StoreSame
    <3> QED BY <2>7, <3>1, <3>2 DEF Listen
  <2> QED BY <1>5, <2>1, <2>2, <2>3, <2>4, <2>5, <2>6, <2>7 DEF Step
<1>6. CASE EditPolicy \/ EditConfig \/ EditPackage
  <2>1. used' = [used EXCEPT !.edits = @ + 1] /\ UNCHANGED <<store, history>>
    BY <1>6 DEF EditPolicy, EditConfig, EditPackage, Edit
  <2> QED BY <1>1, <2>1, StoreSame DEF UsedType
<1>7. CASE Install \/ Tick \/ UNCHANGED kvars
  BY <1>3, <1>7 DEF Install, Tick, kvars, store
<1> QED BY <1>5, <1>6, <1>7 DEF NextK

LEMMA StoreInvAlways == SpecK => []StoreInv
  BY StoreInvInit, StoreInvNext, StartInvAlways, PTL DEF SpecK

\* shared/operations.js: however rotations, appends, kills and failing writes of
\* several processes interleave, each fault spoils at most one startup receipt,
\* and otherwise only a second archive of the same time stamp can destroy any.
THEOREM ReceiptsNotLost == SpecK => []ReceiptsKept
<1>1. StoreInv /\ StartInv => ReceiptsKept
  <2> SUFFICES ASSUME StoreInv, StartInv PROVE ReceiptsKept
    OBVIOUS
  <2>1. LostReceipts \in SUBSET history.appended /\ IsFiniteSet(history.appended)
    BY DEF StoreInv, HistoryShape, LostReceipts
  <2>2. PICK A : A = LostReceipts
    OBVIOUS
  <2>3. IsFiniteSet(A)
    BY <2>1, <2>2, FS_Subset
  <2>4. Cardinality(A) \in Nat
    BY <2>3, FS_CardinalityType
  <2>5. Cardinality(A) <= used.faults
    BY <2>2, <2>4 DEF StoreInv, Spoiling, StartInv, UsedType
  <2> QED BY <2>2, <2>5 DEF ReceiptsKept, LostReceipts
<1> QED BY <1>1, StoreInvAlways, StartInvAlways, PTL

-----------------------------------------------------------------------------
(* The runtime log.                                                         *)

\* A file of the log l holds at most one event, none newer than the n-th.
FilesOK(l, n) ==
    /\ DOMAIN l = 0..MaxFiles
    /\ \A i \in 0..MaxFiles : l[i] = <<>> \/ \E e \in 1..n : l[i] = <<e>>

\* The events of l are in the order of its files and go on to the n-th.
Newest(l, n) ==
    /\ \A i, j \in 0..MaxFiles :
          i < j /\ l[i] # <<>> /\ l[j] # <<>> => l[i][1] > l[j][1]
    /\ \A i \in 0..MaxFiles : l[i] # <<>> =>
          \A e \in l[i][1]..n : \E j \in 0..MaxFiles : l[j] = <<e>>

LogInv == HistoryShape /\ history.events \in Nat /\ FilesOK(log, history.events)
          /\ Newest(log, history.events)

LEMMA OneEvent ==
    ASSUME NEW n \in Nat, NEW l, FilesOK(l, n), NEW i \in 0..MaxFiles, l[i] # <<>>
    PROVE  l[i][1] \in 1..n /\ l[i] = <<l[i][1]>> /\ Len(l[i]) = 1
<1>1. PICK e \in 1..n : l[i] = <<e>>
  BY DEF FilesOK
<1> QED BY <1>1

LEMMA NewestIs == LogInv => LogKeepsNewest
<1> SUFFICES ASSUME LogInv PROVE LogKeepsNewest
  OBVIOUS
<1>1. PICK n : n = history.events
  OBVIOUS
<1>2. n \in Nat /\ FilesOK(log, n) /\ Newest(log, n) /\ DOMAIN log = 0..MaxFiles
  BY <1>1 DEF LogInv, FilesOK
<1>3. \A e : e \in LoggedEvents <=> \E i \in 0..MaxFiles : log[i] = <<e>>
  <2>1. ASSUME NEW e, NEW i \in 0..MaxFiles, log[i] = <<e>> PROVE e \in LoggedEvents
    <3>1. Len(log[i]) = 1 /\ log[i][1] = e
      BY <2>1
    <3>2. e \in {log[i][j] : j \in 1..Len(log[i])}
      BY <3>1
    <3> QED BY <1>2, <3>2 DEF LoggedEvents
  <2>2. ASSUME NEW e \in LoggedEvents PROVE \E i \in 0..MaxFiles : log[i] = <<e>>
    <3>1. PICK i \in 0..MaxFiles : e \in {log[i][j] : j \in 1..Len(log[i])}
      BY <1>2, <2>2 DEF LoggedEvents
    <3>2. PICK j \in 1..Len(log[i]) : e = log[i][j]
      BY <3>1
    <3>3. log[i] # <<>>
      BY <3>2
    <3>4. log[i] = <<log[i][1]>> /\ Len(log[i]) = 1
      BY <1>2, <3>3, OneEvent
    <3>5. j = 1
      BY <3>2, <3>4
    <3> QED BY <3>2, <3>4, <3>5
  <2> QED BY <2>1, <2>2
<1>4. ASSUME NEW e \in LoggedEvents PROVE e..n \subseteq LoggedEvents
  <2>1. PICK i \in 0..MaxFiles : log[i] = <<e>>
    BY <1>3, <1>4
  <2>2. log[i] # <<>> /\ log[i][1] = e
    BY <2>1
  <2> QED BY <1>2, <1>3, <2>2 DEF Newest
<1>5. ASSUME NEW i \in 0..MaxFiles, NEW j \in 0..MaxFiles, i < j,
             NEW a \in 1..Len(log[i]), NEW b \in 1..Len(log[j])
      PROVE  log[i][a] > log[j][b]
  <2>1. log[i] # <<>> /\ log[j] # <<>>
    BY <1>5
  <2>2. Len(log[i]) = 1 /\ Len(log[j]) = 1
    BY <1>2, <2>1, OneEvent
  <2>3. a = 1 /\ b = 1
    BY <1>5, <2>2
  <2> QED BY <1>2, <1>5, <2>1, <2>3 DEF Newest
<1> QED BY <1>1, <1>4, <1>5 DEF LogKeepsNewest

\* Up to its k-th operation rotateFile has moved the files from m on.
LEMMA RotatedIs ==
    ASSUME NEW k \in 0..(MaxFiles + 1), NEW m, m = MaxFiles + 1 - k, NEW l, l = RotatedLog(k)
    PROVE  /\ DOMAIN l = 0..MaxFiles
           /\ \A i \in 0..MaxFiles : /\ i < m => l[i] = log[i]
                                     /\ i = m => l[i] = <<>>
                                     /\ i > m => l[i] = log[i - 1]
<1>1. MaxFiles \in Nat
  BY CustodyAssumption
<1> QED BY <1>1 DEF RotatedLog

\* Wherever it is cut, a rotation drops only the oldest event.
LEMMA RotatedOK ==
    ASSUME NEW n \in Nat, FilesOK(log, n), Newest(log, n),
           NEW k \in 0..(MaxFiles + 1), NEW l, l = RotatedLog(k)
    PROVE  FilesOK(l, n) /\ Newest(l, n)
<1>1. MaxFiles \in Nat
  BY CustodyAssumption
<1>2. PICK m : m = MaxFiles + 1 - k
  OBVIOUS
<1>3. m \in 0..(MaxFiles + 1)
  BY <1>1, <1>2
<1>4. /\ DOMAIN l = 0..MaxFiles
      /\ \A i \in 0..MaxFiles : /\ i < m => l[i] = log[i]
                                /\ i = m => l[i] = <<>>
                                /\ i > m => l[i] = log[i - 1]
  BY <1>2, RotatedIs
<1> DEFINE Down(i) == IF i < m THEN i ELSE i - 1
<1>5. \A i \in 0..MaxFiles : l[i] # <<>> => i # m /\ Down(i) \in 0..MaxFiles /\ l[i] = log[Down(i)]
  BY <1>1, <1>3, <1>4
<1>6. FilesOK(l, n)
  BY <1>4, <1>5 DEF FilesOK
<1>7. ASSUME NEW i \in 0..MaxFiles, NEW j \in 0..MaxFiles, i < j, l[i] # <<>>, l[j] # <<>>
      PROVE  l[i][1] > l[j][1]
  <2>1. Down(i) < Down(j)
    BY <1>1, <1>3, <1>5, <1>7
  <2> QED BY <1>5, <1>7, <2>1 DEF Newest
<1>8. ASSUME NEW i \in 0..MaxFiles, l[i] # <<>>, NEW e \in l[i][1]..n
      PROVE  \E j \in 0..MaxFiles : l[j] = <<e>>
  <2>1. PICK d \in 0..MaxFiles : d = Down(i) /\ l[i] = log[d]
    BY <1>5, <1>8
  <2>2. PICK j \in 0..MaxFiles : log[j] = <<e>>
    BY <1>8, <2>1 DEF Newest
  <2>3. CASE j < m
    BY <1>4, <2>2, <2>3
  <2>4. CASE j >= m
    <3>1. j # MaxFiles
      <4>1. SUFFICES ASSUME j = MaxFiles PROVE FALSE
        OBVIOUS
      <4>2. d < MaxFiles
        BY <1>1, <1>3, <1>5, <1>8, <2>1, <2>4, <4>1
      <4>3. log[d] # <<>> /\ log[j] # <<>> /\ log[j][1] = e
        BY <1>8, <2>1, <2>2
      <4>4. log[d][1] > e
        BY <4>1, <4>2, <4>3 DEF Newest
      <4>5. log[d][1] \in 1..n
        BY <4>3, OneEvent
      <4> QED BY <1>8, <2>1, <4>4, <4>5
    <3>2. j + 1 \in 0..MaxFiles /\ j + 1 > m /\ (j + 1) - 1 = j
      BY <1>1, <1>3, <2>4, <3>1
    <3>3. l[j + 1] = <<e>>
      BY <1>4, <2>2, <3>2
    <3> QED BY <3>2, <3>3
  <2> QED BY <1>3, <2>3, <2>4
<1> QED BY <1>6, <1>7, <1>8 DEF Newest

\* An event is written to an empty active file.
LEMMA WrittenOK ==
    ASSUME NEW n \in Nat, NEW g, FilesOK(g, n), Newest(g, n), g[0] = <<>>,
           NEW l, l = WrittenOut(g, n + 1)
    PROVE  FilesOK(l, n + 1) /\ Newest(l, n + 1)
<1>1. MaxFiles \in Nat /\ 0 \in 0..MaxFiles
  BY CustodyAssumption
<1>2. l = [g EXCEPT ![0] = Append(g[0], n + 1)]
  BY DEF WrittenOut
<1>3. Append(g[0], n + 1) = <<n + 1>>
  OBVIOUS
<1>4. /\ DOMAIN l = 0..MaxFiles /\ l[0] = <<n + 1>>
      /\ \A i \in 0..MaxFiles : i # 0 => l[i] = g[i]
  BY <1>1, <1>2, <1>3 DEF FilesOK
<1>5. FilesOK(l, n + 1)
  <2>1. ASSUME NEW i \in 0..MaxFiles PROVE l[i] = <<>> \/ \E e \in 1..(n + 1) : l[i] = <<e>>
    <3>1. CASE i = 0
      BY <1>4, <3>1
    <3>2. CASE i # 0 /\ l[i] # <<>>
      <4>1. PICK e \in 1..n : g[i] = <<e>>
        BY <1>4, <3>2 DEF FilesOK
      <4> QED BY <1>4, <3>2, <4>1
    <3> QED BY <3>1, <3>2
  <2> QED BY <1>4, <2>1 DEF FilesOK
<1>6. ASSUME NEW i \in 0..MaxFiles, NEW j \in 0..MaxFiles, i < j, l[i] # <<>>, l[j] # <<>>
      PROVE  l[i][1] > l[j][1]
  <2>1. l[j] = g[j] /\ g[j] # <<>> /\ g[j][1] \in 1..n
    BY <1>4, <1>6, OneEvent
  <2>2. CASE i = 0
    BY <1>4, <2>1, <2>2
  <2>3. CASE i # 0
    BY <1>4, <1>6, <2>1, <2>3 DEF Newest
  <2> QED BY <2>2, <2>3
<1>7. ASSUME NEW i \in 0..MaxFiles, l[i] # <<>>, NEW e \in l[i][1]..(n + 1)
      PROVE  \E j \in 0..MaxFiles : l[j] = <<e>>
  <2>1. CASE i = 0
    <3>1. e = n + 1
      BY <1>4, <1>7, <2>1
    <3> QED BY <1>1, <1>4, <3>1
  <2>2. CASE i # 0 /\ e = n + 1
    BY <1>1, <1>4, <2>2
  <2>3. CASE i # 0 /\ e # n + 1
    <3>1. l[i] = g[i] /\ g[i] # <<>> /\ g[i][1] \in 1..n
      BY <1>4, <1>7, <2>3, OneEvent
    <3>2. e \in g[i][1]..n
      BY <1>7, <2>3, <3>1
    <3>3. PICK j \in 0..MaxFiles : g[j] = <<e>>
      BY <3>1, <3>2 DEF Newest
    <3>4. j # 0
      <4>1. Len(g[j]) = 1 /\ Len(g[0]) = 0
        BY <3>3
      <4> QED BY <4>1
    <3> QED BY <1>4, <3>3, <3>4
  <2> QED BY <2>1, <2>2, <2>3
<1> QED BY <1>5, <1>6, <1>7 DEF Newest

LEMMA LogSame ==
    ASSUME LogInv, log' = log, history'.events = history.events, HistoryShape'
    PROVE  LogInv'
  BY DEF LogInv, FilesOK, Newest

LEMMA LogInvInit == InitK => LogInv
<1> SUFFICES ASSUME InitK PROVE LogInv
  OBVIOUS
<1>1. MaxFiles \in Nat
  BY CustodyAssumption
<1>2. HistoryShape /\ history.events = MaxFiles + 1
  BY FS_EmptySet DEF InitK, HistoryShape
<1>3. DOMAIN log = 0..MaxFiles /\ \A i \in 0..MaxFiles : log[i] = <<MaxFiles + 1 - i>>
  BY DEF InitK
<1>4. \A i \in 0..MaxFiles : MaxFiles + 1 - i \in 1..(MaxFiles + 1)
  BY <1>1
<1>5. FilesOK(log, MaxFiles + 1)
  BY <1>3, <1>4 DEF FilesOK
<1>6. \A i \in 0..MaxFiles : log[i][1] = MaxFiles + 1 - i
  BY <1>3
<1>7. ASSUME NEW i \in 0..MaxFiles, NEW e \in log[i][1]..(MaxFiles + 1)
      PROVE  \E j \in 0..MaxFiles : log[j] = <<e>>
  <2>1. e \in (MaxFiles + 1 - i)..(MaxFiles + 1)
    BY <1>6, <1>7
  <2>2. MaxFiles + 1 - e \in 0..MaxFiles /\ MaxFiles + 1 - (MaxFiles + 1 - e) = e
    BY <1>1, <2>1
  <2>3. log[MaxFiles + 1 - e] = <<MaxFiles + 1 - (MaxFiles + 1 - e)>>
    BY <1>3, <2>2
  <2>4. log[MaxFiles + 1 - e] = <<e>>
    BY <2>2, <2>3
  <2> QED BY <2>2, <2>4
<1>8. ASSUME NEW i \in 0..MaxFiles, NEW j \in 0..MaxFiles, i < j
      PROVE  log[i][1] > log[j][1]
  BY <1>1, <1>6, <1>8
<1>9. Newest(log, MaxFiles + 1)
  BY <1>7, <1>8 DEF Newest
<1> QED BY <1>1, <1>2, <1>5, <1>9 DEF LogInv

LEMMA LogInvNext == LogInv /\ HistoryShape' /\ [NextK]_kvars => LogInv'
<1> SUFFICES ASSUME LogInv, HistoryShape', [NextK]_kvars PROVE LogInv'
  OBVIOUS
<1>1. PICK n : n = history.events
  OBVIOUS
<1>2. /\ n \in Nat /\ FilesOK(log, n) /\ Newest(log, n)
      /\ DOMAIN history = {"appended", "overwritten", "events"}
  BY <1>1 DEF LogInv, HistoryShape
<1>3. MaxFiles \in Nat
  BY CustodyAssumption
<1>4. CASE UNCHANGED <<log, history>>
  BY <1>4, LogSame
<1>5. ASSUME NEW p \in Procs, Step(p) PROVE LogInv'
  <2>1. CASE \/ \E cmd \in Commands : Start(p, cmd)
             \/ ReadConfig(p) \/ CheckPackage(p) \/ PreflightProbes(p) \/ PreflightPolicy(p)
             \/ LockTruncate(p) \/ LockWrite(p) \/ ReadLockPolicy(p) \/ CheckLock(p)
             \/ ReadExpectedPolicy(p) \/ Rotate(p) \/ RenameFails(p) \/ ReadBack(p)
             \/ ReadActivePolicy(p) \/ Health(p) \/ Stop(p) \/ Create(p) \/ AppendFails(p)
    BY <1>4, <2>1
       DEF Start, ReadConfig, CheckPackage, PreflightProbes, PreflightPolicy, LockTruncate,
           LockWrite, ReadLockPolicy, CheckLock, ReadExpectedPolicy, Rotate, RenameFails,
           ReadBack, ReadActivePolicy, Health, Stop, Create, AppendFails
  <2>2. CASE Rename(p) \/ AppendReceipt(p)
    <3>1. log' = log /\ history'.events = history.events
      BY <1>2, <2>2 DEF Rename, AppendReceipt
    <3> QED BY <3>1, LogSame
  <2>3. CASE Listen(p)
    <3>1. CASE UNCHANGED <<log, history>>
      BY <1>4, <3>1
    <3>2. CASE log' = WithEvent /\ history' = [history EXCEPT !.events = @ + 1]
      <4>1. PICK g : g = IF log[0] # <<>> THEN RotatedLog(MaxFiles + 1) ELSE log
        OBVIOUS
      <4>2. FilesOK(g, n) /\ Newest(g, n) /\ g[0] = <<>>
        <5>1. CASE log[0] = <<>>
          BY <1>2, <4>1, <5>1
        <5>2. CASE log[0] # <<>>
          <6>1. g = RotatedLog(MaxFiles + 1) /\ MaxFiles + 1 \in 0..(MaxFiles + 1)
            BY <1>3, <4>1, <5>2
          <6>2. FilesOK(g, n) /\ Newest(g, n)
            BY <1>2, <6>1, RotatedOK
          <6>3. PICK m : m = MaxFiles + 1 - (MaxFiles + 1)
            OBVIOUS
          <6>4. m = 0 /\ 0 \in 0..MaxFiles
            BY <1>3, <6>3
          <6>5. g[0] = <<>>
            BY <6>1, <6>3, <6>4, RotatedIs
          <6> QED BY <6>2, <6>5
        <5> QED BY <5>1, <5>2
      <4>3. PICK l : l = WrittenOut(g, n + 1)
        OBVIOUS
      <4>4. FilesOK(l, n + 1) /\ Newest(l, n + 1)
        BY <1>2, <4>2, <4>3, WrittenOK
      <4>5. log' = l /\ history'.events = n + 1
        BY <1>1, <1>2, <3>2, <4>1, <4>3 DEF WithEvent
      <4>6. FilesOK(log', n + 1) /\ Newest(log', n + 1)
        BY <4>4, <4>5
      <4>7. (history.events)' \in Nat /\ FilesOK(log', (history.events)') /\ Newest(log', (history.events)')
        BY <1>2, <4>5, <4>6
      <4> QED BY <4>7 DEF LogInv, FilesOK, Newest
    <3> QED BY <2>3, <3>1, <3>2 DEF Listen
  <2>4. CASE Kill(p)
    <3>1. history' = history /\ (log' = log \/ \E k \in 0..(MaxFiles + 1) : log' = RotatedLog(k))
      BY <2>4 DEF Kill
    <3>2. CASE log' = log
      BY <1>4, <3>1, <3>2
    <3>3. ASSUME NEW k \in 0..(MaxFiles + 1), log' = RotatedLog(k) PROVE LogInv'
      <4>1. PICK l : l = RotatedLog(k)
        OBVIOUS
      <4>2. FilesOK(l, n) /\ Newest(l, n)
        BY <1>2, <4>1, RotatedOK
      <4>3. log' = l /\ history'.events = n
        BY <1>1, <3>1, <3>3, <4>1
      <4> QED BY <1>2, <4>2, <4>3 DEF LogInv, FilesOK, Newest
    <3> QED BY <3>1, <3>2, <3>3
  <2> QED BY <1>5, <2>1, <2>2, <2>3, <2>4 DEF Step
<1>6. CASE EditPolicy \/ EditConfig \/ EditPackage \/ Install \/ Tick \/ UNCHANGED kvars
  BY <1>4, <1>6 DEF EditPolicy, EditConfig, EditPackage, Install, Tick, kvars
<1> QED BY <1>5, <1>6 DEF NextK

\* writeBoundedLog and rotateFile: wherever a kill cuts a rotation, the log keeps
\* the newest events without a gap, in the order of its files.
THEOREM NewestLogged == SpecK => []LogKeepsNewest
<1>1. StoreInv => HistoryShape
  BY DEF StoreInv
<1>2. SpecK => []LogInv
  BY <1>1, StoreInvAlways, LogInvInit, LogInvNext, PTL DEF SpecK
<1> QED BY <1>2, NewestIs, PTL

-----------------------------------------------------------------------------
(* The custody sidecar.                                                     *)

Told == {h \in Handlers : answer[h] # Null}
Ended == {h \in Handlers : handler[h].pc \in {"done", "lost"}}
Whole == {i \in DOMAIN lines : lines[i] # Unreadable}
Unbacked == {h \in Told : answer[h] \notin Readable}

\* A fragment at the end of the file will spoil the next line.
Fragment == IF partial = TRUE THEN 1 ELSE 0

SidecarShape ==
    /\ DOMAIN handler = Handlers /\ DOMAIN answer = Handlers
    /\ \E S : lines \in Seq(S)
    /\ partial \in BOOLEAN
    /\ faulted \in [faults : Nat, edits : Nat]

RecordInv ==
    /\ SidecarShape
    /\ Cardinality(Unbacked) + Fragment <= faulted.faults
    /\ Cardinality(Told) + Fragment <= Cardinality(Whole) + faulted.faults
    /\ Cardinality(Whole) <= Cardinality(Ended)

LEMMA SidecarFinite ==
    ASSUME SidecarShape
    PROVE  /\ IsFiniteSet(Told) /\ IsFiniteSet(Ended) /\ IsFiniteSet(Unbacked) /\ IsFiniteSet(Whole)
           /\ Cardinality(Told) \in Nat /\ Cardinality(Ended) \in Nat
           /\ Cardinality(Unbacked) \in Nat /\ Cardinality(Whole) \in Nat
           /\ Fragment \in {0, 1} /\ faulted.faults \in Nat
<1>1. IsFiniteSet(Handlers)
  BY CustodySidecarAssumption
<1>2. /\ Told \in SUBSET Handlers /\ Ended \in SUBSET Handlers /\ Unbacked \in SUBSET Handlers
  BY DEF Told, Ended, Unbacked
<1>3. IsFiniteSet(Told) /\ IsFiniteSet(Ended) /\ IsFiniteSet(Unbacked)
  BY <1>1, <1>2, FS_Subset
<1>4. IsFiniteSet(Whole)
  <2>1. PICK S : lines \in Seq(S)
    BY DEF SidecarShape
  <2>2. PICK n \in Nat : DOMAIN lines = 1..n
    BY <2>1
  <2>3. 1 \in Int /\ n \in Int
    OBVIOUS
  <2>4. IsFiniteSet(1..n)
    BY <2>3, FS_Interval
  <2>5. Whole \in SUBSET (1..n)
    BY <2>2 DEF Whole
  <2> QED BY <2>4, <2>5, FS_Subset
<1>5. Fragment \in {0, 1} /\ faulted.faults \in Nat
  BY DEF Fragment, SidecarShape
<1> QED BY <1>3, <1>4, <1>5, FS_CardinalityType

LEMMA CardSub ==
    ASSUME NEW A, NEW B, IsFiniteSet(B), A \subseteq B
    PROVE  /\ IsFiniteSet(A) /\ Cardinality(A) <= Cardinality(B)
           /\ Cardinality(A) \in Nat /\ Cardinality(B) \in Nat
  BY FS_Subset, FS_CardinalityType

LEMMA CardAdd ==
    ASSUME NEW A, NEW B, NEW x, IsFiniteSet(B), A \subseteq B \cup {x}
    PROVE  /\ IsFiniteSet(A) /\ Cardinality(A) <= Cardinality(B) + 1
           /\ Cardinality(A) \in Nat /\ Cardinality(B) \in Nat
<1>1. /\ IsFiniteSet(B \cup {x})
      /\ Cardinality(B \cup {x}) = IF x \in B THEN Cardinality(B) ELSE Cardinality(B) + 1
  BY FS_AddElement, Zenon
<1>2. IsFiniteSet(A) /\ Cardinality(A) <= Cardinality(B \cup {x})
  BY <1>1, FS_Subset
<1>3. Cardinality(A) \in Nat /\ Cardinality(B) \in Nat /\ Cardinality(B \cup {x}) \in Nat
  BY <1>1, <1>2, FS_CardinalityType
<1> QED BY <1>1, <1>2, <1>3

LEMMA CardNew ==
    ASSUME NEW A, NEW B, NEW x, IsFiniteSet(B), B \cup {x} \subseteq A, IsFiniteSet(A), x \notin B
    PROVE  Cardinality(B) + 1 <= Cardinality(A)
<1>1. IsFiniteSet(B \cup {x}) /\ Cardinality(B \cup {x}) = Cardinality(B) + 1
  BY FS_AddElement
<1>2. Cardinality(B \cup {x}) <= Cardinality(A)
  BY FS_Subset
<1> QED BY <1>1, <1>2

\* No line is added: a fragment may be, which costs a fault.
LEMMA NotAppended ==
    ASSUME RecordInv, SidecarShape', lines' = lines, answer' = answer, Ended \subseteq Ended',
           NEW extra \in Nat, faulted'.faults = faulted.faults + extra,
           Fragment' <= Fragment + extra
    PROVE  RecordInv'
<1>1. SidecarShape
  BY DEF RecordInv
<1>2. Told' = Told /\ Whole' = Whole /\ Unbacked' = Unbacked
  BY DEF Told, Whole, Unbacked, Readable
<1>3. /\ IsFiniteSet(Ended) /\ Cardinality(Ended) \in Nat
      /\ Cardinality(Told) \in Nat /\ Cardinality(Unbacked) \in Nat /\ Cardinality(Whole) \in Nat
      /\ Fragment \in {0, 1} /\ faulted.faults \in Nat
  BY <1>1, SidecarFinite
<1>4. Fragment' \in {0, 1} /\ IsFiniteSet(Ended)' /\ Cardinality(Ended)' \in Nat
  <2>1. (SidecarShape => Fragment \in {0, 1} /\ IsFiniteSet(Ended) /\ Cardinality(Ended) \in Nat)'
    BY SidecarFinite, PTL
  <2> QED BY <2>1
<1>5. Cardinality(Ended) <= Cardinality(Ended)'
  <2>1. PICK A : A = Ended
    OBVIOUS
  <2>2. PICK B : B = Ended'
    OBVIOUS
  <2>3. Cardinality(A) <= Cardinality(B)
    BY <1>4, <2>1, <2>2, CardSub
  <2> QED BY <2>1, <2>2, <2>3
<1>6. Cardinality(Unbacked)' = Cardinality(Unbacked) /\ Cardinality(Told)' = Cardinality(Told)
      /\ Cardinality(Whole)' = Cardinality(Whole)
  BY <1>2
<1>7. /\ Cardinality(Unbacked) + Fragment <= faulted.faults
      /\ Cardinality(Told) + Fragment <= Cardinality(Whole) + faulted.faults
      /\ Cardinality(Whole) <= Cardinality(Ended)
  BY DEF RecordInv
<1>8. /\ (Cardinality(Unbacked) + Fragment <= faulted.faults)'
      /\ (Cardinality(Told) + Fragment <= Cardinality(Whole) + faulted.faults)'
      /\ (Cardinality(Whole) <= Cardinality(Ended))'
  BY <1>3, <1>4, <1>5, <1>6, <1>7
<1> QED BY <1>8 DEF RecordInv

\* A line is added for handler h, which ends with it: a receipt, or, after a
\* fragment, a line that cannot be read.
LEMMA LineAppended ==
    ASSUME RecordInv, SidecarShape', NEW h \in Handlers, h \notin Ended, Ended \cup {h} \subseteq Ended',
           NEW line, NEW receipt1, lines' = Append(lines, line), partial' = FALSE,
           NEW extra \in Nat, faulted'.faults = faulted.faults + extra,
           answer' = answer \/ answer' = [answer EXCEPT ![h] = receipt1],
           \/ line = <<receipt1>> /\ partial = FALSE
           \/ line = Unreadable /\ Fragment + extra >= 1
    PROVE  RecordInv'
<1>1. SidecarShape
  BY DEF RecordInv
<1>2. PICK S : lines \in Seq(S)
  BY <1>1 DEF SidecarShape
<1>3. PICK n : n = Len(lines) + 1
  OBVIOUS
<1>4. /\ DOMAIN lines' = DOMAIN lines \cup {n} /\ n \notin DOMAIN lines /\ lines'[n] = line
      /\ \A i \in DOMAIN lines : lines'[i] = lines[i]
  <2>1. lines \in Seq(S \cup {line}) /\ line \in S \cup {line}
    BY <1>2
  <2> QED BY <1>3, <2>1
<1>5. Fragment' = 0
  BY DEF Fragment
<1>6. /\ IsFiniteSet(Ended) /\ IsFiniteSet(Told) /\ IsFiniteSet(Unbacked) /\ IsFiniteSet(Whole)
      /\ Cardinality(Ended) \in Nat
      /\ Cardinality(Told) \in Nat /\ Cardinality(Unbacked) \in Nat /\ Cardinality(Whole) \in Nat
      /\ Fragment \in {0, 1} /\ faulted.faults \in Nat
  BY <1>1, SidecarFinite
<1>7. /\ IsFiniteSet(Ended)' /\ IsFiniteSet(Told)' /\ IsFiniteSet(Unbacked)' /\ IsFiniteSet(Whole)'
      /\ Cardinality(Ended)' \in Nat
      /\ Cardinality(Told)' \in Nat /\ Cardinality(Unbacked)' \in Nat /\ Cardinality(Whole)' \in Nat
  <2>1. (SidecarShape =>
           /\ IsFiniteSet(Ended) /\ IsFiniteSet(Told) /\ IsFiniteSet(Unbacked) /\ IsFiniteSet(Whole)
           /\ Cardinality(Ended) \in Nat /\ Cardinality(Told) \in Nat
           /\ Cardinality(Unbacked) \in Nat /\ Cardinality(Whole) \in Nat)'
    BY SidecarFinite, PTL
  <2> QED BY <2>1
<1>8. \A x \in Handlers : x # h => answer'[x] = answer[x]
  BY <1>1 DEF SidecarShape
<1>9. Readable \subseteq Readable'
  BY <1>4 DEF Readable
<1>10. Told' \subseteq Told \cup {h} /\ Unbacked' \subseteq Unbacked \cup {h}
  BY <1>8, <1>9 DEF Told, Unbacked
<1>11. Cardinality(Told)' <= Cardinality(Told) + 1
       /\ Cardinality(Unbacked)' <= Cardinality(Unbacked) + 1
  <2>1. PICK A, B, C, D : A = Told /\ B = Told' /\ C = Unbacked /\ D = Unbacked'
    OBVIOUS
  <2>2. Cardinality(B) <= Cardinality(A) + 1
    BY <1>6, <1>10, <2>1, CardAdd
  <2>3. Cardinality(D) <= Cardinality(C) + 1
    BY <1>6, <1>10, <2>1, CardAdd
  <2> QED BY <2>1, <2>2, <2>3
<1>12. Cardinality(Ended) + 1 <= Cardinality(Ended)'
  <2>1. PICK A, B : A = Ended /\ B = Ended'
    OBVIOUS
  <2>2. Cardinality(A) + 1 <= Cardinality(B)
    BY <1>6, <1>7, <2>1, CardNew
  <2> QED BY <2>1, <2>2
<1>13. /\ Cardinality(Unbacked) + Fragment <= faulted.faults
       /\ Cardinality(Told) + Fragment <= Cardinality(Whole) + faulted.faults
       /\ Cardinality(Whole) <= Cardinality(Ended)
  BY DEF RecordInv
<1>14. CASE line = <<receipt1>> /\ partial = FALSE
  <2>1. line # Unreadable /\ line[1] = receipt1
    BY <1>14 DEF Unreadable
  <2>2. Whole' = Whole \cup {n} /\ n \notin Whole
    BY <1>4, <2>1 DEF Whole
  <2>3. Cardinality(Whole)' = Cardinality(Whole) + 1
    <3>1. PICK A, B : A = Whole /\ B = Whole'
      OBVIOUS
    <3>2. Cardinality(B) <= Cardinality(A) + 1 /\ Cardinality(A) + 1 <= Cardinality(B)
          /\ Cardinality(A) \in Nat /\ Cardinality(B) \in Nat
      BY <1>6, <1>7, <2>2, <3>1, CardAdd, CardNew
    <3> QED BY <3>1, <3>2
  <2>4. receipt1 \in Readable'
    <3>1. n \in DOMAIN lines' /\ lines'[n] # Unreadable /\ lines'[n][1] = receipt1
      BY <1>4, <2>1
    <3> QED BY <3>1, Zenon DEF Readable
  <2>5. Unbacked' \subseteq Unbacked
    <3>1. answer'[h] = answer[h] \/ answer'[h] = receipt1
      BY <1>1 DEF SidecarShape
    <3> QED BY <1>8, <1>9, <2>4, <3>1 DEF Told, Unbacked
  <2>6. Cardinality(Unbacked)' <= Cardinality(Unbacked)
    <3>1. PICK A, B : A = Unbacked /\ B = Unbacked'
      OBVIOUS
    <3>2. Cardinality(B) <= Cardinality(A)
      BY <1>6, <2>5, <3>1, CardSub
    <3> QED BY <3>1, <3>2
  <2>7. Fragment = 0
    BY <1>14 DEF Fragment
  <2>8. /\ Cardinality(Unbacked)' + Fragment' <= faulted'.faults
        /\ Cardinality(Told)' + Fragment' <= Cardinality(Whole)' + faulted'.faults
        /\ Cardinality(Whole)' <= Cardinality(Ended)'
    <3>1. PICK u, u2, t, t2, w, w2, e, e2 :
             /\ u = Cardinality(Unbacked) /\ u2 = Cardinality(Unbacked)'
             /\ t = Cardinality(Told) /\ t2 = Cardinality(Told)'
             /\ w = Cardinality(Whole) /\ w2 = Cardinality(Whole)'
             /\ e = Cardinality(Ended) /\ e2 = Cardinality(Ended)'
      OBVIOUS
    <3>2. PICK f, f2 : f = faulted.faults /\ f2 = faulted'.faults
      OBVIOUS
    <3>3. /\ {u, u2, t, t2, w, w2, e, e2} \subseteq Nat /\ f \in Nat
      BY <1>6, <1>7, <3>1, <3>2
    <3>4. /\ f2 = f + extra /\ u + 0 <= f /\ t + 0 <= w + f /\ w <= e
      BY <1>13, <2>7, <3>1, <3>2
    <3>5. /\ u2 <= u /\ t2 <= t + 1 /\ e + 1 <= e2 /\ w2 = w + 1
      BY <1>11, <1>12, <2>3, <2>6, <3>1, <3>2
    <3>6. u2 <= f2 /\ t2 <= w2 + f2 /\ w2 <= e2 /\ f2 \in Nat
      BY <3>3, <3>4, <3>5
    <3>7. u2 + 0 = u2 /\ t2 + 0 = t2
      BY <3>3
    <3> QED BY <1>5, <3>1, <3>2, <3>6, <3>7
  <2> QED BY <2>8 DEF RecordInv
<1>15. CASE line = Unreadable /\ Fragment + extra >= 1
  <2>1. Whole' = Whole
    BY <1>4, <1>15 DEF Whole
  <2>2. Cardinality(Whole)' = Cardinality(Whole)
    BY <2>1
  <2>3. /\ Cardinality(Unbacked)' + Fragment' <= faulted'.faults
        /\ Cardinality(Told)' + Fragment' <= Cardinality(Whole)' + faulted'.faults
        /\ Cardinality(Whole)' <= Cardinality(Ended)'
    <3>1. PICK u, u2, t, t2, w, w2, e, e2 :
             /\ u = Cardinality(Unbacked) /\ u2 = Cardinality(Unbacked)'
             /\ t = Cardinality(Told) /\ t2 = Cardinality(Told)'
             /\ w = Cardinality(Whole) /\ w2 = Cardinality(Whole)'
             /\ e = Cardinality(Ended) /\ e2 = Cardinality(Ended)'
      OBVIOUS
    <3>2. PICK g, f, f2 : g = Fragment /\ f = faulted.faults /\ f2 = faulted'.faults
      OBVIOUS
    <3>3. /\ {u, u2, t, t2, w, w2, e, e2} \subseteq Nat /\ g \in {0, 1} /\ f \in Nat
      BY <1>6, <1>7, <3>1, <3>2
    <3>4. /\ f2 = f + extra /\ u + g <= f /\ t + g <= w + f /\ w <= e
      BY <1>13, <3>1, <3>2
    <3>5. /\ u2 <= u + 1 /\ t2 <= t + 1 /\ e + 1 <= e2 /\ w2 = w /\ g + extra >= 1
      BY <1>11, <1>12, <1>15, <2>2, <3>1, <3>2
    <3>6. u2 <= f2 /\ t2 <= w2 + f2 /\ w2 <= e2 /\ f2 \in Nat
      <4>1. u \in Nat /\ u2 \in Nat /\ t \in Nat /\ t2 \in Nat /\ w \in Nat /\ e \in Nat /\ e2 \in Nat
            /\ f2 \in Nat
        BY <3>3, <3>4
      <4>2. g \in Nat /\ f \in Nat /\ 1 <= g + extra
        BY <3>3, <3>5
      <4>3. u + 1 <= f2
        BY <3>4, <4>1, <4>2
      <4>4. t + 1 <= w + f2
        BY <3>4, <4>1, <4>2
      <4> QED BY <3>4, <3>5, <4>1, <4>3, <4>4
    <3>7. u2 + 0 = u2 /\ t2 + 0 = t2
      BY <3>3
    <3> QED BY <1>5, <3>1, <3>2, <3>6, <3>7
  <2> QED BY <2>3 DEF RecordInv
<1> QED BY <1>14, <1>15

LEMMA FailuresAre ==
    ASSUME NEW a, NEW b
    PROVE  Failures(<<a, b>>) \in Nat /\ (a # "ok" \/ b # "ok" => Failures(<<a, b>>) >= 1)
<1>1. PICK F : F = {i \in DOMAIN <<a, b>> : <<a, b>>[i] # "ok"}
  OBVIOUS
<1>2. F \subseteq {1, 2} /\ (a # "ok" => 1 \in F) /\ (b # "ok" => 2 \in F)
  BY <1>1
<1>3. IsFiniteSet({1, 2})
  <2>1. IsFiniteSet({}) /\ IsFiniteSet({1})
    BY FS_EmptySet, FS_Singleton
  <2>2. IsFiniteSet({1} \cup {2})
    BY <2>1, FS_AddElement, Zenon
  <2>3. {1} \cup {2} = {1, 2}
    OBVIOUS
  <2> QED BY <2>2, <2>3
<1>4. IsFiniteSet(F) /\ Cardinality(F) \in Nat
  BY <1>2, <1>3, FS_Subset, FS_CardinalityType
<1>5. F # {} => Cardinality(F) >= 1
  BY <1>4, FS_EmptySet
<1>6. Failures(<<a, b>>) = Cardinality(F)
  BY <1>1 DEF Failures
<1> QED BY <1>2, <1>4, <1>5, <1>6

\* handleSignerFailure, when the file may have got a fragment just before.
LEMMA FailureOK ==
    ASSUME RecordInv, NEW h \in Handlers, h \notin Ended,
           NEW r, NEW open \in BOOLEAN, NEW before \in {0, 1},
           partial = TRUE => open = TRUE, open = TRUE => partial = TRUE \/ before = 1,
           NEW result \in WriteResults, NEW logged \in {"ok", "nothing"},
           Spend(Failures(<<result, logged>>) + before),
           lines' = Written(lines, open, r, result).ls,
           partial' = Written(lines, open, r, result).open,
           IF result = "ok" /\ logged = "ok"
             THEN Done(h, r)
             ELSE /\ answer' = answer
                  /\ handler' = [x \in Handlers |->
                       IF x = h \/ handler[x].pc = "signing" THEN Lost ELSE handler[x]]
    PROVE  RecordInv'
<1>1. SidecarShape
  BY DEF RecordInv
<1>2. PICK extra : extra = Failures(<<result, logged>>) + before
  OBVIOUS
<1>3. extra \in Nat /\ (result # "ok" \/ before = 1 => extra >= 1)
  BY <1>2, FailuresAre
<1>4. faulted'.faults = faulted.faults + extra /\ faulted' \in [faults : Nat, edits : Nat]
  BY <1>1, <1>2, <1>3 DEF Spend, SidecarShape
<1>5. /\ DOMAIN handler' = Handlers /\ DOMAIN answer' = Handlers /\ Ended \cup {h} \subseteq Ended'
      /\ answer' = answer \/ answer' = [answer EXCEPT ![h] = r]
  <2>1. CASE result = "ok" /\ logged = "ok"
    BY <1>1, <2>1 DEF Done, SidecarShape, Ended
  <2>2. CASE ~(result = "ok" /\ logged = "ok")
    BY <1>1, <2>2 DEF Lost, SidecarShape, Ended
  <2> QED BY <2>1, <2>2
<1>6. PICK S : lines \in Seq(S)
  BY <1>1 DEF SidecarShape
<1>7. CASE result = "ok"
  <2>1. PICK line : line = IF open THEN Unreadable ELSE <<r>>
    OBVIOUS
  <2>2. lines' = Append(lines, line) /\ partial' = FALSE
    BY <1>7, <2>1 DEF Written
  <2>3. SidecarShape'
    <3>1. lines \in Seq(S \cup {line}) /\ line \in S \cup {line}
      BY <1>6
    <3>2. lines' \in Seq(S \cup {line})
      BY <2>2, <3>1
    <3> QED BY <1>4, <1>5, <2>2, <3>2 DEF SidecarShape
  <2>4. \/ line = <<r>> /\ partial = FALSE
        \/ line = Unreadable /\ Fragment + extra >= 1
    <3>1. CASE open = TRUE
      <4>1. line = Unreadable
        BY <2>1, <3>1
      <4>2. Fragment \in {0, 1} /\ (partial = TRUE => Fragment = 1)
        BY DEF Fragment
      <4> QED BY <1>3, <3>1, <4>1, <4>2
    <3>2. CASE open = FALSE
      BY <1>1, <2>1, <3>2 DEF SidecarShape
    <3> QED BY <3>1, <3>2
  <2> QED BY <1>3, <1>4, <1>5, <2>2, <2>3, <2>4, LineAppended
<1>8. CASE result # "ok"
  <2>1. lines' = lines /\ partial' \in BOOLEAN
    BY <1>8 DEF Written, WriteResults
  <2>2. SidecarShape'
    BY <1>4, <1>5, <1>6, <2>1 DEF SidecarShape
  <2>3. Fragment' <= Fragment + extra
    <3>1. Fragment \in {0, 1} /\ Fragment' \in {0, 1}
      BY DEF Fragment
    <3> QED BY <1>3, <1>8, <3>1
  <2>4. answer' = answer
    BY <1>8
  <2> QED BY <1>3, <1>4, <1>5, <2>1, <2>2, <2>3, <2>4, NotAppended
<1> QED BY <1>7, <1>8

LEMMA SignerFailureOK ==
    ASSUME RecordInv, NEW h \in Handlers, h \notin Ended, NEW q, NEW reason,
           SignerFailure(h, [ls |-> lines, open |-> partial], q, reason, 0)
    PROVE  RecordInv'
<1>1. PICK r, open : r = RefusalReceipt(q, reason, loaded) /\ open = partial
  OBVIOUS
<1>2. PICK result \in WriteResults, logged \in {"ok", "nothing"} :
        /\ Spend(Failures(<<result, logged>>) + 0)
        /\ lines' = Written(lines, open, r, result).ls
        /\ partial' = Written(lines, open, r, result).open
        /\ IF result = "ok" /\ logged = "ok"
             THEN Done(h, r)
             ELSE /\ answer' = answer
                  /\ handler' = [x \in Handlers |->
                       IF x = h \/ handler[x].pc = "signing" THEN Lost ELSE handler[x]]
  BY <1>1, Zenon DEF SignerFailure
<1>3. open \in BOOLEAN
  BY <1>1 DEF RecordInv, SidecarShape
<1> QED BY <1>1, <1>2, <1>3, FailureOK

LEMMA RecordOK ==
    ASSUME RecordInv, NEW h \in Handlers, h \notin Ended, NEW receipt, Record(h, receipt)
    PROVE  RecordInv'
<1>1. SidecarShape
  BY DEF RecordInv
<1>2. PICK first \in WriteResults :
        LET f == Written(lines, partial, receipt, first)
        IN  IF first = "ok"
              THEN /\ lines' = f.ls /\ partial' = f.open
                   /\ Done(h, receipt) /\ UNCHANGED <<loaded, faulted>>
              ELSE SignerFailure(h, f, receipt.payload.request, "ENOSPC", 1)
  BY DEF Record
<1>3. CASE first = "ok"
  <2>1. PICK line : line = IF partial THEN Unreadable ELSE <<receipt>>
    OBVIOUS
  <2>2. lines' = Append(lines, line) /\ partial' = FALSE /\ Done(h, receipt) /\ faulted' = faulted
    BY <1>2, <1>3, <2>1 DEF Written
  <2>3. PICK S : lines \in Seq(S)
    BY <1>1 DEF SidecarShape
  <2>4. SidecarShape' /\ Ended \cup {h} \subseteq Ended' /\ answer' = [answer EXCEPT ![h] = receipt]
    <3>1. lines \in Seq(S \cup {line}) /\ line \in S \cup {line}
      BY <2>3
    <3>2. lines' \in Seq(S \cup {line})
      BY <2>2, <3>1
    <3>3. DOMAIN handler' = Handlers /\ DOMAIN answer' = Handlers
      BY <1>1, <2>2 DEF Done, SidecarShape
    <3>4. Ended \cup {h} \subseteq Ended' /\ answer' = [answer EXCEPT ![h] = receipt]
      BY <1>1, <2>2 DEF Done, SidecarShape, Ended
    <3> QED BY <1>1, <2>2, <3>2, <3>3, <3>4 DEF SidecarShape
  <2>5. faulted'.faults = faulted.faults + 0 /\ 0 \in Nat
    BY <1>1, <2>2 DEF SidecarShape
  <2>6. \/ line = <<receipt>> /\ partial = FALSE
        \/ line = Unreadable /\ Fragment + 0 >= 1
    BY <1>1, <2>1 DEF SidecarShape, Fragment
  <2> QED BY <2>2, <2>4, <2>5, <2>6, LineAppended
<1>4. CASE first # "ok"
  <2>1. PICK open : open = Written(lines, partial, receipt, first).open
    OBVIOUS
  <2>2. Written(lines, partial, receipt, first).ls = lines /\ open \in BOOLEAN
        /\ (partial = TRUE => open = TRUE)
    BY <1>1, <1>4, <2>1 DEF Written, WriteResults, SidecarShape
  <2>3. PICK r : r = RefusalReceipt(receipt.payload.request, "ENOSPC", loaded)
    OBVIOUS
  <2>4. SignerFailure(h, Written(lines, partial, receipt, first), receipt.payload.request, "ENOSPC", 1)
    BY <1>2, <1>4
  <2>5. PICK result \in WriteResults, logged \in {"ok", "nothing"} :
          /\ Spend(Failures(<<result, logged>>) + 1)
          /\ lines' = Written(lines, open, r, result).ls
          /\ partial' = Written(lines, open, r, result).open
          /\ IF result = "ok" /\ logged = "ok"
               THEN Done(h, r)
               ELSE /\ answer' = answer
                    /\ handler' = [x \in Handlers |->
                         IF x = h \/ handler[x].pc = "signing" THEN Lost ELSE handler[x]]
    BY <2>1, <2>2, <2>3, <2>4, Zenon DEF SignerFailure
  <2> QED BY <2>2, <2>5, FailureOK
<1> QED BY <1>3, <1>4

\* A step that adds no line and answers nobody, and ends no handler wrongly.
LEMMA QuietOK ==
    ASSUME RecordInv, lines' = lines, partial' = partial, answer' = answer,
           DOMAIN handler' = Handlers, Ended \subseteq Ended',
           faulted' \in [faults : Nat, edits : Nat], faulted'.faults = faulted.faults
    PROVE  RecordInv'
<1>1. SidecarShape'
  BY DEF RecordInv, SidecarShape
<1>2. faulted'.faults = faulted.faults + 0 /\ 0 \in Nat
  BY DEF RecordInv, SidecarShape
<1>3. Fragment' <= Fragment + 0
  BY DEF Fragment
<1> QED BY <1>1, <1>2, <1>3, NotAppended

LEMMA HandlerStepOK ==
    ASSUME RecordInv, NEW h \in Handlers, HandlerStep(h)
    PROVE  RecordInv'
<1>1. SidecarShape
  BY DEF RecordInv
<1>2. handler[h].pc \in {"idle", "signing"} => h \notin Ended
  BY DEF Ended
<1>3. faulted \in [faults : Nat, edits : Nat] /\ DOMAIN handler = Handlers
  BY <1>1 DEF SidecarShape
<1>4. CASE Receive(h)
  <2>1. h \notin Ended
    BY <1>2, <1>4 DEF Receive
  <2>2. \/ \E q, reason : SignerFailure(h, [ls |-> lines, open |-> partial], q, reason, 0)
        \/ /\ \E p : handler' = [handler EXCEPT ![h] = [pc |-> "signing", payload |-> p]]
           /\ UNCHANGED <<loaded, lines, partial, answer, faulted>>
    BY <1>4, Zenon DEF Receive
  <2>3. CASE \E q, reason : SignerFailure(h, [ls |-> lines, open |-> partial], q, reason, 0)
    BY <2>1, <2>3, SignerFailureOK
  <2>4. CASE /\ \E p : handler' = [handler EXCEPT ![h] = [pc |-> "signing", payload |-> p]]
             /\ UNCHANGED <<loaded, lines, partial, answer, faulted>>
    <3>1. DOMAIN handler' = Handlers /\ Ended \subseteq Ended'
      BY <1>3, <2>1, <2>4 DEF Ended
    <3> QED BY <1>3, <2>4, <3>1, QuietOK
  <2> QED BY <2>2, <2>3, <2>4
<1>5. CASE SignerAnswers(h)
  <2>1. UNCHANGED <<handler, lines, partial, answer, faulted>>
    BY <1>5 DEF SignerAnswers
  <2>2. Ended' = Ended
    BY <2>1 DEF Ended
  <2> QED BY <1>3, <2>1, <2>2, QuietOK
<1>6. CASE Deliver(h)
  <2>1. h \notin Ended
    BY <1>2, <1>6 DEF Deliver
  <2>2. \/ \E receipt : Record(h, receipt)
        \/ \E q, reason : SignerFailure(h, [ls |-> lines, open |-> partial], q, reason, 0)
    BY <1>6, Zenon DEF Deliver
  <2> QED BY <2>1, <2>2, RecordOK, SignerFailureOK
<1>7. CASE TimeoutC(h)
  <2>1. h \notin Ended
    BY <1>2, <1>7 DEF TimeoutC
  <2>2. \E q, reason : SignerFailure(h, [ls |-> lines, open |-> partial], q, reason, 0)
    BY <1>7, Zenon DEF TimeoutC
  <2> QED BY <2>1, <2>2, SignerFailureOK
<1> QED BY <1>4, <1>5, <1>6, <1>7 DEF HandlerStep

LEMMA KillOK ==
    ASSUME RecordInv, KillC
    PROVE  RecordInv'
<1>1. SidecarShape
  BY DEF RecordInv
<1>2. faulted'.faults = faulted.faults + 1 /\ faulted' \in [faults : Nat, edits : Nat] /\ 1 \in Nat
  BY <1>1 DEF KillC, Spend, SidecarShape
<1>3. partial' \in BOOLEAN
  <2>1. partial \in BOOLEAN
    BY <1>1 DEF SidecarShape
  <2> QED BY <2>1, Zenon DEF KillC
<1>4. lines' = lines /\ answer' = answer /\ DOMAIN handler' = Handlers
  BY DEF KillC, Die
<1>5. Ended \subseteq Ended'
  BY DEF KillC, Die, Ended
<1>6. SidecarShape'
  BY <1>1, <1>2, <1>3, <1>4 DEF SidecarShape
<1>7. Fragment' <= Fragment + 1
  BY DEF Fragment
<1> QED BY <1>2, <1>4, <1>5, <1>6, <1>7, NotAppended

\* The receipt file and the clients agree, but for one answer or one line for
\* each fault: every answer beyond the faults has its receipt in the file, and
\* no request has two.  A fragment at the end of the file holds back one of the
\* faults: that is the strengthening (appendReceipt, handleSignerFailure).
THEOREM AnswersBacked == SpecC => []AnswersRecorded
<1>1. InitC => RecordInv
  <2> SUFFICES ASSUME InitC PROVE RecordInv
    OBVIOUS
  <2>1. SidecarShape
    <3>1. lines \in Seq({})
      BY DEF InitC
    <3> QED BY <3>1 DEF InitC, SidecarShape
  <2>2. Told = {} /\ Unbacked = {} /\ Whole = {} /\ Ended = {} /\ Fragment = 0 /\ faulted.faults = 0
    BY DEF InitC, Told, Unbacked, Whole, Ended, Fragment
  <2>3. Cardinality({}) = 0
    BY FS_EmptySet
  <2> QED BY <2>1, <2>2, <2>3 DEF RecordInv
<1>2. RecordInv /\ [NextC]_cvars => RecordInv'
  <2> SUFFICES ASSUME RecordInv, [NextC]_cvars PROVE RecordInv'
    OBVIOUS
  <2>1. faulted \in [faults : Nat, edits : Nat] /\ DOMAIN handler = Handlers
    BY DEF RecordInv, SidecarShape
  <2>2. CASE \E h \in Handlers : HandlerStep(h)
    BY <2>2, HandlerStepOK
  <2>3. CASE KillC
    BY <2>3, KillOK
  <2>4. CASE StartC \/ EditFile \/ RotateKey \/ UNCHANGED cvars
    <3>1. UNCHANGED <<handler, lines, partial, answer>>
      BY <2>4 DEF StartC, EditFile, RotateKey, cvars
    <3>2. faulted' \in [faults : Nat, edits : Nat] /\ faulted'.faults = faulted.faults
      BY <2>1, <2>4 DEF StartC, EditFile, RotateKey, cvars
    <3>3. Ended' = Ended
      BY <3>1 DEF Ended
    <3> QED BY <2>1, <3>1, <3>2, <3>3, QuietOK
  <2> QED BY <2>2, <2>3, <2>4 DEF NextC
<1>3. RecordInv => AnswersRecorded
  <2> SUFFICES ASSUME RecordInv PROVE AnswersRecorded
    OBVIOUS
  <2>1. /\ Cardinality(Told) \in Nat /\ Cardinality(Ended) \in Nat
        /\ Cardinality(Unbacked) \in Nat /\ Cardinality(Whole) \in Nat
        /\ Fragment \in {0, 1} /\ faulted.faults \in Nat
    BY SidecarFinite DEF RecordInv
  <2>2. /\ Cardinality(Unbacked) <= faulted.faults
        /\ Cardinality(Told) <= Cardinality(Whole) + faulted.faults
        /\ Cardinality(Whole) <= Cardinality(Ended)
    BY <2>1 DEF RecordInv
  <2> QED BY <2>2 DEF AnswersRecorded, Told, Ended, Whole, Unbacked
<1> QED BY <1>1, <1>2, <1>3, PTL DEF SpecC

-----------------------------------------------------------------------------
(* The signer registry.                                                     *)

Renamed(q, r) == [q EXCEPT !.signer = r.signer]
Signers == SignerRecords \cup {Renamed(q, r) : q, r \in SignerRecords}
SignerSets == [version : Nat, status : {"pending", "active", "historical"},
               signers : Seq(Signers), quorum : BOOLEAN]
TenantEntries == [tenant : Tenants, sets : Seq(SignerSets)]

RegistryOK ==
    /\ registry \in Seq(TenantEntries)
    /\ \A t \in DOMAIN registry :
          /\ registry[t].sets # <<>> /\ registry[t].sets[1].signers # <<>>
          /\ registry[t].sets[1].signers[1] \in SignerRecords

\* The entry a receipt was issued for is still there, and its hash is the key's.
IssuedOK == \A r \in issued : r.hash = r.signedBy /\ Matches(r) # {}

RegistryInv == RegistryOK /\ IssuedOK

\* The file only grows; of what is there only the status of a set changes.
Grows ==
    \A t \in DOMAIN registry :
        /\ t \in DOMAIN registry' /\ registry'[t].tenant = registry[t].tenant
        /\ \A s \in DOMAIN registry[t].sets :
              /\ s \in DOMAIN registry'[t].sets
              /\ registry'[t].sets[s].version = registry[t].sets[s].version
              /\ registry'[t].sets[s].signers = registry[t].sets[s].signers

LEMMA EntriesAre ==
    \A e : e \in Entries <=>
        /\ e \in (DOMAIN registry) \X (1..MaxSets) \X (1..2)
        /\ e[2] \in DOMAIN registry[e[1]].sets
        /\ e[3] \in DOMAIN registry[e[1]].sets[e[2]].signers
  BY DEF Entries

LEMMA EntriesStay ==
    ASSUME Grows, NEW e \in Entries
    PROVE  /\ e \in Entries' /\ At(e)' = At(e) /\ TenantOf(e)' = TenantOf(e)
           /\ SetOf(e)'.version = SetOf(e).version
<1>1. PICK t \in DOMAIN registry, s \in 1..MaxSets, i \in 1..2 : e = <<t, s, i>>
  BY EntriesAre
<1>2. s \in DOMAIN registry[t].sets /\ i \in DOMAIN registry[t].sets[s].signers
  BY <1>1, EntriesAre
<1>3. /\ t \in DOMAIN registry' /\ registry'[t].tenant = registry[t].tenant
      /\ s \in DOMAIN registry'[t].sets
      /\ registry'[t].sets[s].version = registry[t].sets[s].version
      /\ registry'[t].sets[s].signers = registry[t].sets[s].signers
  BY <1>1, <1>2 DEF Grows
<1>4. e \in Entries'
  BY <1>1, <1>2, <1>3 DEF Entries
<1> QED BY <1>1, <1>3, <1>4 DEF At, TenantOf, SetOf

LEMMA MatchesStay ==
    ASSUME Grows, NEW r
    PROVE  Matches(r) \subseteq Matches(r)'
  BY EntriesStay DEF Matches

\* An entry in the file, by tenant entry, set and position.
LEMMA EntryIs ==
    ASSUME RegistryOK, NEW e \in Entries
    PROVE  /\ e = <<e[1], e[2], e[3]>> /\ e[1] \in DOMAIN registry
           /\ e[2] \in DOMAIN registry[e[1]].sets
           /\ e[3] \in DOMAIN registry[e[1]].sets[e[2]].signers
<1>1. PICK t \in DOMAIN registry, s \in 1..MaxSets, i \in 1..2 : e = <<t, s, i>>
  BY EntriesAre
<1> QED BY <1>1, EntriesAre

\* In an accepted registry a receipt of a tenant listed once names at most one entry.
LEMMA OneMatch ==
    ASSUME RegistryOK, ValidRegistry, NEW r, ListedOnce(r.tenant),
           NEW e \in Matches(r), NEW f \in Matches(r)
    PROVE  e = f
<1>1. /\ e \in Entries /\ f \in Entries /\ TenantOf(e) = r.tenant /\ TenantOf(f) = r.tenant
      /\ SetOf(e).version = SetOf(f).version /\ At(e).signer = At(f).signer
  BY DEF Matches
<1>2. e[1] \in DOMAIN registry /\ f[1] \in DOMAIN registry
  BY <1>1, EntryIs
<1>3. e[1] = f[1]
  BY <1>1, <1>2 DEF ListedOnce, TenantOf
<1> QED BY <1>1, <1>2, <1>3 DEF ValidRegistry, ValidTenant

\* In an accepted registry a set that is no quorum is alone active, with one signer.
LEMMA OneActive ==
    ASSUME RegistryOK, ValidRegistry, NEW e \in Entries, NEW f \in Entries,
           TenantOf(e) = TenantOf(f), SetOf(e).status = "active", SetOf(f).status = "active",
           ~SetOf(e).quorum, ListedOnce(TenantOf(e))
    PROVE  e = f
<1>1. PICK t : t = e[1]
  OBVIOUS
<1>2. /\ e = <<e[1], e[2], e[3]>> /\ t \in DOMAIN registry /\ e[2] \in DOMAIN registry[t].sets
      /\ e[3] \in DOMAIN registry[t].sets[e[2]].signers
  BY <1>1, EntryIs
<1>3. /\ f = <<f[1], f[2], f[3]>> /\ f[1] \in DOMAIN registry
      /\ f[2] \in DOMAIN registry[f[1]].sets
      /\ f[3] \in DOMAIN registry[f[1]].sets[f[2]].signers
  BY EntryIs
<1>4. f[1] = t
  BY <1>1, <1>2, <1>3 DEF ListedOnce, TenantOf
<1> DEFINE on == {s \in DOMAIN registry[t].sets : registry[t].sets[s].status = "active"}
<1>5. registry[t] \in TenantEntries
  BY <1>2 DEF RegistryOK
<1>6. registry[t].sets \in Seq(SignerSets)
  BY <1>5 DEF TenantEntries
<1>7. Cardinality(on) = 1
  BY <1>2 DEF ValidRegistry, ValidTenant
<1>8. IsFiniteSet(on)
  <2>1. PICK n \in Nat : DOMAIN registry[t].sets = 1..n
    BY <1>6
  <2>2. 1 \in Int /\ n \in Int
    OBVIOUS
  <2>3. IsFiniteSet(1..n)
    BY <2>2, FS_Interval
  <2>4. on \in SUBSET (1..n)
    BY <2>1
  <2> HIDE DEF on
  <2> QED BY <2>3, <2>4, FS_Subset
<1>9. e[2] \in on /\ f[2] \in on
  BY <1>1, <1>2, <1>3, <1>4 DEF SetOf
<1>10. PICK x : on = {x}
  <2> HIDE DEF on
  <2> QED BY <1>7, <1>8, FS_Singleton
<1>11. e[2] = f[2]
  BY <1>9, <1>10
<1>12. Len(registry[t].sets[e[2]].signers) = 1
  <2>1. ValidTenant(t)
    BY <1>2 DEF ValidRegistry
  <2>2. \/ registry[t].sets[e[2]].quorum
        \/ Len(registry[t].sets[e[2]].signers) = 1
    BY <1>2, <2>1, Zenon DEF ValidTenant
  <2>3. SetOf(e) = registry[t].sets[e[2]]
    BY <1>1 DEF SetOf
  <2> QED BY <2>2, <2>3, Zenon
<1>13. registry[t].sets[e[2]].signers \in Seq(Signers)
  <2>1. registry[t].sets[e[2]] \in SignerSets
    BY <1>2, <1>6
  <2> QED BY <2>1 DEF SignerSets
<1>14. e[3] = 1 /\ f[3] = 1
  BY <1>2, <1>3, <1>4, <1>11, <1>12, <1>13
<1> QED BY <1>1, <1>2, <1>3, <1>4, <1>11, <1>14

LEMMA RegistrySafe == RegistryInv => RotationSafe
<1> SUFFICES ASSUME RegistryInv, ValidRegistry
             PROVE  RotationSafe
  BY DEF RotationSafe
<1>1. RegistryOK /\ IssuedOK
  BY DEF RegistryInv
<1>2. ASSUME NEW r \in issued
      PROVE  /\ Matches(r) # {} /\ \A e \in Matches(r) : At(e).key = r.signedBy
             /\ ListedOnce(r.tenant) => VerifyCustodyReceipt(r)
             /\ \A e \in Entries : At(e).key = r.signedBy => TenantOf(e) = r.tenant
  <2>1. PICK f : f \in Matches(r)
    BY <1>1 DEF IssuedOK
  <2>2. r.hash = r.signedBy /\ f \in Entries /\ At(f).hash = r.hash /\ TenantOf(f) = r.tenant
    BY <1>1, <2>1 DEF IssuedOK, Matches
  <2>3. \A e \in Entries : At(e).hash = At(e).key
    BY DEF ValidRegistry, Normalizes
  <2>4. \A e \in Matches(r) : At(e).key = r.signedBy
    BY <2>2, <2>3 DEF Matches
  <2>5. ASSUME ListedOnce(r.tenant) PROVE VerifyCustodyReceipt(r)
    <3>1. Matches(r) = {f}
      BY <1>1, <2>1, <2>5, OneMatch
    <3>2. Cardinality(Matches(r)) = 1
      BY <3>1, FS_Singleton
    <3> QED BY <2>4, <3>2 DEF VerifyCustodyReceipt
  <2>6. ASSUME NEW e \in Entries, At(e).key = r.signedBy PROVE TenantOf(e) = r.tenant
    <3>1. Isolated(e, f)
      BY <2>2 DEF ValidRegistry
    <3>2. At(e).hash = At(f).hash
      BY <2>2, <2>3, <2>6
    <3> QED BY <2>2, <3>1, <3>2 DEF Isolated
  <2> QED BY <2>1, <2>4, <2>5, <2>6
<1>3. ASSUME NEW e \in Entries, SetOf(e).status = "active", ~SetOf(e).quorum,
             ListedOnce(TenantOf(e))
      PROVE  Cardinality(ActiveSigners(TenantOf(e))) = 1
  <2>1. ActiveSigners(TenantOf(e)) = {e}
    BY <1>1, <1>3, OneActive DEF ActiveSigners
  <2> QED BY <2>1, FS_Singleton
<1> QED BY <1>2, <1>3 DEF RotationSafe

LEMMA NewSetIs ==
    ASSUME NEW sets \in Seq(SignerSets), NEW status \in {"pending", "active", "historical"},
           NEW signers \in Seq(Signers)
    PROVE  NewSet(sets, status, signers) \in SignerSets
<1>1. Len(sets) + 1 \in Nat /\ (Len(signers) > 1) \in BOOLEAN
  OBVIOUS
<1> QED BY <1>1 DEF NewSet, Version, SignerSets

\* Of one tenant entry the sets are replaced by longer ones, or other states.
LEMMA SetsReplaced ==
    ASSUME RegistryOK, NEW t \in DOMAIN registry, NEW new \in Seq(SignerSets),
           registry' = [registry EXCEPT ![t].sets = new],
           \A s \in DOMAIN registry[t].sets :
              /\ s \in DOMAIN new
              /\ new[s].version = registry[t].sets[s].version
              /\ new[s].signers = registry[t].sets[s].signers
    PROVE  RegistryOK' /\ Grows
<1>1. registry \in Seq(TenantEntries) /\ registry[t] \in TenantEntries
  BY DEF RegistryOK
<1>2. PICK entry : entry = [registry[t] EXCEPT !.sets = new]
  OBVIOUS
<1>3. entry \in TenantEntries /\ entry.tenant = registry[t].tenant /\ entry.sets = new
  BY <1>1, <1>2 DEF TenantEntries
<1>4. registry' = [registry EXCEPT ![t] = entry]
  BY <1>2
<1>5. /\ registry' \in Seq(TenantEntries) /\ DOMAIN registry' = DOMAIN registry
      /\ registry'[t] = entry /\ \A u \in DOMAIN registry : u # t => registry'[u] = registry[u]
  BY <1>1, <1>3, <1>4
<1>6. Grows
  <2>1. ASSUME NEW u \in DOMAIN registry
        PROVE  /\ u \in DOMAIN registry' /\ registry'[u].tenant = registry[u].tenant
               /\ \A s \in DOMAIN registry[u].sets :
                     /\ s \in DOMAIN registry'[u].sets
                     /\ registry'[u].sets[s].version = registry[u].sets[s].version
                     /\ registry'[u].sets[s].signers = registry[u].sets[s].signers
    <3>1. CASE u = t
      <4>1. /\ registry'[u] = entry /\ entry.tenant = registry[u].tenant
            /\ registry'[u].sets = new /\ u \in DOMAIN registry'
        BY <1>3, <1>5, <3>1
      <4>2. \A s \in DOMAIN registry[u].sets :
               /\ s \in DOMAIN new /\ new[s].version = registry[u].sets[s].version
               /\ new[s].signers = registry[u].sets[s].signers
        BY <3>1
      <4> QED BY <4>1, <4>2, Zenon
    <3>2. CASE u # t
      <4>1. registry'[u] = registry[u] /\ u \in DOMAIN registry'
        BY <1>5, <3>2
      <4> QED BY <4>1, Zenon
    <3> QED BY <3>1, <3>2
  <2> QED BY <2>1 DEF Grows
<1>7. ASSUME NEW u \in DOMAIN registry
      PROVE  /\ registry'[u].sets # <<>> /\ registry'[u].sets[1].signers # <<>>
             /\ registry'[u].sets[1].signers[1] \in SignerRecords
  <2>1. /\ registry[u].sets # <<>> /\ registry[u].sets[1].signers # <<>>
        /\ registry[u].sets[1].signers[1] \in SignerRecords
    BY DEF RegistryOK
  <2>2. CASE u # t
    BY <1>5, <2>1, <2>2
  <2>3. CASE u = t
    <3>1. registry[t].sets \in Seq(SignerSets)
      BY <1>1 DEF TenantEntries
    <3>2. 1 \in DOMAIN registry[t].sets
      BY <2>1, <2>3, <3>1
    <3>3. 1 \in DOMAIN new /\ new[1].signers = registry[t].sets[1].signers
      BY <3>2
    <3>4. new # <<>>
      BY <3>3
    <3> QED BY <1>3, <1>5, <2>1, <2>3, <3>3, <3>4
  <2> QED BY <2>2, <2>3
<1>8. \A u \in DOMAIN registry : registry'[u].tenant = registry[u].tenant
  BY <1>6 DEF Grows
<1> QED BY <1>5, <1>6, <1>7, <1>8 DEF RegistryOK

LEMMA EnrolOK ==
    ASSUME RegistryOK, Enrol
    PROVE  RegistryOK' /\ Grows
<1>1. PICK tenant \in Tenants, r \in SignerRecords :
         registry' = Append(registry, [tenant |-> tenant,
                                       sets |-> <<NewSet(<<>>, "active", <<r>>)>>])
  BY DEF Enrol
<1>2. PICK entry : entry = [tenant |-> tenant, sets |-> <<NewSet(<<>>, "active", <<r>>)>>]
  OBVIOUS
<1>3. PICK first : first = NewSet(<<>>, "active", <<r>>)
  OBVIOUS
<1>4. first \in SignerSets /\ first.signers = <<r>>
  <2>1. <<>> \in Seq(SignerSets) /\ <<r>> \in Seq(Signers)
    BY DEF Signers
  <2> QED BY <1>3, <2>1, NewSetIs DEF NewSet
<1>5. entry.tenant = tenant /\ entry.sets = <<first>>
  BY <1>2, <1>3
<1>6. entry \in TenantEntries
  BY <1>2, <1>3, <1>4 DEF TenantEntries
<1>7. registry \in Seq(TenantEntries) /\ registry' = Append(registry, entry)
  BY <1>1, <1>2 DEF RegistryOK
<1>8. PICK n : n = Len(registry) + 1
  OBVIOUS
<1>9. /\ registry' \in Seq(TenantEntries) /\ DOMAIN registry' = DOMAIN registry \cup {n}
      /\ registry'[n] = entry /\ n \notin DOMAIN registry
      /\ \A t \in DOMAIN registry : registry'[t] = registry[t]
  BY <1>6, <1>7, <1>8
<1>10. /\ entry.sets # <<>> /\ entry.sets[1].signers # <<>>
       /\ entry.sets[1].signers[1] \in SignerRecords
  <2>1. entry.sets[1] = first /\ entry.sets # <<>>
    BY <1>5
  <2>2. first.signers[1] = r /\ first.signers # <<>>
    BY <1>4
  <2> QED BY <2>1, <2>2
<1>11. Grows
  BY <1>9 DEF Grows
<1> QED BY <1>9, <1>10, <1>11 DEF RegistryOK

LEMMA AddPendingOK ==
    ASSUME RegistryOK, AddPending
    PROVE  RegistryOK' /\ Grows
<1>1. PICK t \in DOMAIN registry, r \in SignerRecords :
         \E signers \in {<<r>>, <<r, [registry[t].sets[1].signers[1] EXCEPT !.signer = r.signer]>>} :
            registry' = [registry EXCEPT ![t].sets =
                           Append(@, NewSet(registry[t].sets, "pending", signers))]
  BY DEF AddPending
<1>2. PICK q \in SignerRecords : q = registry[t].sets[1].signers[1]
  BY DEF RegistryOK
<1>3. PICK signers \in {<<r>>, <<r, Renamed(q, r)>>} :
            registry' = [registry EXCEPT ![t].sets =
                           Append(@, NewSet(registry[t].sets, "pending", signers))]
  BY <1>1, <1>2 DEF Renamed
<1>4. signers \in Seq(Signers)
  <2>1. r \in Signers /\ Renamed(q, r) \in Signers
    BY DEF Signers
  <2>2. PICK x : x = Renamed(q, r)
    OBVIOUS
  <2>3. <<r>> \in Seq(Signers) /\ <<r, x>> \in Seq(Signers)
    BY <2>1, <2>2
  <2> QED BY <1>3, <2>2, <2>3
<1>5. registry[t].sets \in Seq(SignerSets)
  <2>1. registry[t] \in TenantEntries
    BY DEF RegistryOK
  <2> QED BY <2>1 DEF TenantEntries
<1>6. PICK added : added = NewSet(registry[t].sets, "pending", signers)
  OBVIOUS
<1>7. added \in SignerSets
  BY <1>4, <1>5, <1>6, NewSetIs
<1>8. PICK new : new = Append(registry[t].sets, added)
  OBVIOUS
<1>9. new \in Seq(SignerSets) /\ \A s \in DOMAIN registry[t].sets :
                                    s \in DOMAIN new /\ new[s] = registry[t].sets[s]
  BY <1>5, <1>7, <1>8 DEF Activated
<1>10. registry' = [registry EXCEPT ![t].sets = new]
  BY <1>3, <1>6, <1>8
<1> QED BY <1>9, <1>10, SetsReplaced

LEMMA ActivateOK ==
    ASSUME RegistryOK, Activate
    PROVE  RegistryOK' /\ Grows
<1>1. PICK t \in DOMAIN registry : \E s \in DOMAIN registry[t].sets :
         registry' = [registry EXCEPT ![t].sets = Activated(@, s)]
  BY DEF Activate
<1>2. PICK s \in DOMAIN registry[t].sets :
         registry' = [registry EXCEPT ![t].sets = Activated(@, s)]
  BY <1>1
<1>3. PICK old : old = registry[t].sets
  OBVIOUS
<1>4. old \in Seq(SignerSets)
  <2>1. registry[t] \in TenantEntries
    BY DEF RegistryOK
  <2> QED BY <1>3, <2>1 DEF TenantEntries
<1>5. PICK new : new = Activated(old, s)
  OBVIOUS
<1>6. registry' = [registry EXCEPT ![t].sets = new]
  BY <1>2, <1>3, <1>5
<1>7. \A u \in DOMAIN old : /\ new[u] \in SignerSets /\ new[u].version = old[u].version
                            /\ new[u].signers = old[u].signers
  <2>1. SUFFICES ASSUME NEW u \in DOMAIN old
                 PROVE  /\ new[u] \in SignerSets /\ new[u].version = old[u].version
                        /\ new[u].signers = old[u].signers
    OBVIOUS
  <2>2. old[u] \in SignerSets
    BY <1>4
  <2>3. PICK st : st = IF u = s THEN "active"
                       ELSE IF old[u].status = "active" THEN "historical" ELSE old[u].status
    OBVIOUS
  <2>4. new[u] = [old[u] EXCEPT !.status = st]
    BY <1>5, <2>3 DEF Activated
  <2>5. st \in {"pending", "active", "historical"}
    BY <2>2, <2>3 DEF SignerSets
  <2> QED BY <2>2, <2>4, <2>5 DEF SignerSets
<1>8. PICK n \in Nat : DOMAIN old = 1..n
  BY <1>4
<1>9. new \in [1..n -> SignerSets]
  BY <1>5, <1>7, <1>8 DEF Activated
<1>10. new \in Seq(SignerSets)
  BY <1>9, SeqDef
<1>11. DOMAIN new = DOMAIN old
  BY <1>5 DEF Activated
<1> QED BY <1>3, <1>6, <1>7, <1>10, <1>11, SetsReplaced

LEMMA IssueOK ==
    ASSUME RegistryInv, Issue
    PROVE  RegistryInv'
<1>1. ValidRegistry /\ registry' = registry
  BY DEF Issue
<1>2. PICK e \in Entries : issued' = issued \cup
        {[tenant |-> TenantOf(e), version |-> SetOf(e).version, signer |-> At(e).signer,
          keyId |-> At(e).keyId, hash |-> At(e).hash, signedBy |-> At(e).key]}
  BY DEF Issue, ActiveSigners
<1>3. PICK r : r = [tenant |-> TenantOf(e), version |-> SetOf(e).version, signer |-> At(e).signer,
                    keyId |-> At(e).keyId, hash |-> At(e).hash, signedBy |-> At(e).key]
  OBVIOUS
<1>4. r.hash = r.signedBy
  BY <1>1, <1>3 DEF ValidRegistry, Normalizes
<1>5. e \in Matches(r)
  BY <1>3 DEF Matches
<1>6. \A x : Matches(x)' = Matches(x)
  BY <1>1 DEF Matches, Entries, At, TenantOf, SetOf
<1>7. issued' = issued \cup {r}
  BY <1>2, <1>3
<1>8. IssuedOK'
  BY <1>4, <1>5, <1>6, <1>7 DEF RegistryInv, IssuedOK
<1> QED BY <1>1, <1>8 DEF RegistryInv, RegistryOK

\* shared/custody_keys.js: whatever enrolments and rotations of whatever tenants lead
\* to a registry that is accepted, a receipt issued before names its signer alone and
\* verifies unless its tenant is listed twice, no key that has signed is another
\* tenant's, and a tenant listed once, without a quorum, can go on issuing.
THEOREM RotationsSafe == SpecR => []RotationSafe
<1>1. InitR => RegistryInv
  BY DEF InitR, RegistryInv, RegistryOK, IssuedOK
<1>2. RegistryInv /\ [NextR]_rvars => RegistryInv'
  <2> SUFFICES ASSUME RegistryInv, [NextR]_rvars PROVE RegistryInv'
    OBVIOUS
  <2>1. ASSUME RegistryOK', Grows, issued' = issued PROVE RegistryInv'
    BY <2>1, MatchesStay DEF RegistryInv, IssuedOK
  <2>2. CASE Enrol
    BY <2>1, <2>2, EnrolOK DEF RegistryInv, Enrol, Edited
  <2>3. CASE AddPending
    BY <2>1, <2>3, AddPendingOK DEF RegistryInv, AddPending, Edited
  <2>4. CASE Activate
    BY <2>1, <2>4, ActivateOK DEF RegistryInv, Activate, Edited
  <2>5. CASE Issue
    BY <2>5, IssueOK
  <2>6. CASE UNCHANGED rvars
    <3>1. RegistryOK' /\ Grows /\ issued' = issued
      BY <2>6 DEF rvars, RegistryInv, RegistryOK, Grows
    <3> QED BY <2>1, <3>1
  <2> QED BY <2>2, <2>3, <2>4, <2>5, <2>6 DEF NextR
<1> QED BY <1>1, <1>2, RegistrySafe, PTL DEF SpecR

-----------------------------------------------------------------------------
(* The custody package and its distributions.                               *)

Versions == {VersionOf[r] : r \in Revisions}
Names == Copied["custody"]
CopiedUpTo(n) == {Names[i] : i \in 1..n}
BuildFields == {"kind", "pc", "n", "version", "key", "extract"}
Packing == {"clean", "manifest", "assert", "publish", "distribute"}

BuildShape ==
    /\ tree \in Revisions /\ head \in Revisions \cup {NoFile}
    /\ DOMAIN build = BuildFields
    /\ DOMAIN out = Kinds /\ DOMAIN listing = Kinds
    /\ DOMAIN dist = Versions /\ DOMAIN reported = Versions

\* What the output directory, its manifest and the distribution in the making
\* hold, by the step of the build b: files o, artifacts l, distributions d and
\* reports r.
StageOK(b, o, l, d, r) ==
    b.kind = "custody" =>
      /\ b.pc = "copy" => /\ b.n \in Nat /\ b.n < Len(Names)
                          /\ o \in [CopiedUpTo(b.n) -> Contents]
      /\ b.pc = "provenance" => o \in [ToSet(Names) -> Contents]
      /\ b.pc \in Packing => o \in [BuildFiles -> Contents] /\ b.version \in Versions
      /\ b.pc \in Packing \ {"clean"} => Forbidden(o) = {}
      /\ b.pc \in {"assert", "publish", "distribute"} => l = ArtifactsOf(o)
      /\ b.pc = "distribute" =>
           /\ d[b.version] \in Distributions /\ r[b.version] = NoFile
           /\ \A f \in DOMAIN d[b.version].files : d[b.version].files[f] = o[f]
           /\ d[b.version].artifacts \in {NoFile, l}

Verifies(d) == VerifyReleaseIntegrity(PackageAt(d.files, d.artifacts)) = {}

\* Every directory is a part of one build, and a reported one is as reported.
DistOK(d, r) ==
    \A v \in Versions :
        /\ d[v] = NoFile \/ d[v] \in Distributions
        /\ r[v] # NoFile => d[v] = r[v] /\ Verifies(d[v])

BuildInv ==
    /\ BuildShape
    /\ StageOK(build, out["custody"], listing["custody"], dist, reported)
    /\ DistOK(dist, reported)

\* Verification finds every listed file, and no other.
LEMMA VerifiedIsWhole ==
    ASSUME NEW d \in Distributions, Verifies(d)
    PROVE  DOMAIN d.files = BuildFiles
<1>1. d.files \in FileTrees /\ d.artifacts \in Listings \cup {NoFile, Severed}
  BY DEF Distributions
<1>2. PICK D \in SUBSET BuildFiles : d.files \in [D -> Contents \cup {Severed}]
  BY <1>1 DEF FileTrees
<1>3. PICK pkg : pkg = PackageAt(d.files, d.artifacts)
  OBVIOUS
<1>4. pkg.files = d.files
  BY <1>3 DEF PackageAt
<1>5. d.artifacts \notin {NoFile, Severed}
  <2> SUFFICES ASSUME d.artifacts \in {NoFile, Severed} PROVE FALSE
    OBVIOUS
  <2>1. pkg.manifest \in {"missing", "unparsable"}
    BY <1>3 DEF PackageAt
  <2>2. VerifyReleaseIntegrity(pkg) # {}
    BY <2>1 DEF VerifyReleaseIntegrity
  <2> QED BY <1>3, <2>2 DEF Verifies
<1>6. pkg.artifacts = d.artifacts /\ DOMAIN pkg.artifacts = BuildFiles
  BY <1>1, <1>3, <1>5 DEF PackageAt, Listings
<1>7. /\ UNION {ArtifactReason(pkg, f) : f \in DOMAIN pkg.artifacts} = {}
      /\ PackageFiles(pkg) \subseteq DOMAIN pkg.artifacts
  <2>1. VerifyReleaseIntegrity(pkg) = {}
    BY <1>3 DEF Verifies
  <2> QED BY <2>1 DEF VerifyReleaseIntegrity
<1>8. \A f \in BuildFiles : ArtifactReason(pkg, f) = {}
  BY <1>6, <1>7
<1>9. \A f \in BuildFiles : f \in PackageFiles(pkg)
  BY <1>8 DEF ArtifactReason
<1> QED BY <1>2, <1>4, <1>9 DEF PackageFiles

\* A complete copy of a clean build verifies.
LEMMA CopyVerifies ==
    ASSUME NEW o \in [BuildFiles -> Contents], Forbidden(o) = {}
    PROVE  Verifies([files |-> o, artifacts |-> ArtifactsOf(o)])
<1>1. ArtifactsOf(o) \in Listings
  BY DEF ArtifactsOf, Listings
<1>2. PICK pkg : pkg = PackageAt(o, ArtifactsOf(o))
  OBVIOUS
<1>3. pkg.files = o /\ pkg.artifacts = ArtifactsOf(o) /\ pkg.manifest = "ok"
  BY <1>1, <1>2, BuildFilesAssumption DEF PackageAt
<1>4. ProvenanceState(pkg) = "ok"
  <2>1. Provenance \in BuildFiles /\ o[Provenance] \in Contents
    BY DEF BuildFiles
  <2> QED BY <1>3, <2>1, BuildFilesAssumption DEF ProvenanceState, PackageFiles
<1>5. ForbiddenFiles(pkg) = {}
  BY <1>3 DEF ForbiddenFiles, Forbidden, PackageFiles
<1>6. \A f \in DOMAIN pkg.artifacts : ArtifactReason(pkg, f) = {}
  BY <1>3 DEF ArtifactReason, ArtifactsOf, PackageFiles
<1>7. PackageFiles(pkg) \subseteq DOMAIN pkg.artifacts
  BY <1>3 DEF ArtifactsOf, PackageFiles
<1>8. UNION {ArtifactReason(pkg, f) : f \in DOMAIN pkg.artifacts} = {}
  BY <1>6
<1>9. VerifyReleaseIntegrity(pkg) = {}
  BY <1>3, <1>4, <1>5, <1>7, <1>8 DEF VerifyReleaseIntegrity
<1> QED BY <1>2, <1>9 DEF Verifies

LEMMA BuildInvIs == BuildInv => DistributionsWhole
<1> SUFFICES ASSUME BuildInv, NEW v \in DOMAIN dist
             PROVE  /\ reported[v] # NoFile => dist[v] = reported[v] /\ Verifies(dist[v])
                    /\ dist[v] # NoFile => (Verifies(dist[v]) =>
                          DOMAIN dist[v].files = ToSet(Copied["custody"]) \cup {Provenance})
  BY DEF DistributionsWhole, Verifies
<1>1. /\ dist[v] = NoFile \/ dist[v] \in Distributions
      /\ reported[v] # NoFile => dist[v] = reported[v] /\ Verifies(dist[v])
  BY DEF BuildInv, BuildShape, DistOK
<1>2. dist[v] \in Distributions /\ Verifies(dist[v]) => DOMAIN dist[v].files = BuildFiles
  <2>1. PICK d : d = dist[v]
    OBVIOUS
  <2>2. d \in Distributions /\ Verifies(d) => DOMAIN d.files = BuildFiles
    BY VerifiedIsWhole
  <2> QED BY <2>1, <2>2
<1> QED BY <1>1, <1>2 DEF BuildFiles

LEMMA WithTree ==
    ASSUME NEW t, NEW x, NEW v, NEW D, NEW C, t \in [D -> C], v \in C
    PROVE  With(t, x, v) \in [D \cup {x} -> C]
  BY DEF With

\* Steps after which no custody build is at work, and that leave the
\* distributions alone.
LEMMA BuildIdleOK ==
    ASSUME BuildInv, BuildShape', UNCHANGED <<dist, reported>>,
           build'.kind # "custody" \/ build'.pc = "off"
    PROVE  BuildInv'
  BY DEF BuildInv, StageOK, Packing

LEMMA StartBuildOK == BuildInv /\ StartBuild => BuildInv'
<1> SUFFICES ASSUME BuildInv, StartBuild PROVE BuildInv'
  OBVIOUS
<1>1. BuildShape
  BY DEF BuildInv
<1>2. PICK kind \in Kinds, key \in BuildKeys \cup {NoFile} :
        /\ build' = [NoBuild EXCEPT !.kind = kind, !.pc = "copy", !.key = key]
        /\ out' = [out EXCEPT ![kind] = NoFiles]
        /\ listing' = [listing EXCEPT ![kind] = NoFile]
        /\ UNCHANGED <<tree, head, dist, reported>>
  BY DEF StartBuild, repo
<1>3. DOMAIN build' = BuildFields /\ build'.kind = kind /\ build'.pc = "copy" /\ build'.n = 0
  BY <1>2 DEF NoBuild, BuildFields
<1>4. BuildShape'
  BY <1>1, <1>2, <1>3 DEF BuildShape
<1>5. CASE kind = "custody"
  <2>1. out'["custody"] = NoFiles
    BY <1>1, <1>2, <1>5 DEF BuildShape
  <2>2. NoFiles \in [CopiedUpTo(0) -> Contents]
    BY DEF NoFiles, CopiedUpTo
  <2>3. 0 < Len(Names)
    BY BuildFilesAssumption DEF Names
  <2>4. StageOK(build, out["custody"], listing["custody"], dist, reported)'
    BY <1>3, <2>1, <2>2, <2>3 DEF StageOK, Packing
  <2> QED BY <1>2, <1>4, <2>4 DEF BuildInv
<1>6. CASE kind # "custody"
  BY <1>2, <1>3, <1>4, <1>6, BuildIdleOK
<1> QED BY <1>5, <1>6

LEMMA CopyOK == BuildInv /\ CopyFile => BuildInv'
<1> SUFFICES ASSUME BuildInv, CopyFile PROVE BuildInv'
  OBVIOUS
<1>1. BuildShape /\ build.kind = "custody" /\ build.pc = "copy"
  BY DEF BuildInv, CopyFile, In
<1>2. PICK n, f, v, o :
        /\ n = build.n /\ o = out["custody"] /\ f = Names[n + 1] /\ v \in Contents
        /\ out' = [out EXCEPT !["custody"] = With(o, f, v)]
        /\ build' = [build EXCEPT !.n = n + 1, !.pc = IF n + 1 = Len(Names) THEN "provenance" ELSE "copy"]
  <2>1. (IF Names[build.n + 1] \in Generated THEN Fixed ELSE tree) \in Contents
    BY <1>1 DEF BuildShape, Contents
  <2> QED BY <1>1, <2>1 DEF CopyFile, CopyNext, Names, BuildShape, BuildFields, Kinds
<1>3. UNCHANGED <<tree, head, listing, dist, reported>>
  BY DEF CopyFile, repo
<1>4. n \in Nat /\ n < Len(Names) /\ o \in [CopiedUpTo(n) -> Contents]
  BY <1>1, <1>2 DEF BuildInv, StageOK
<1>5. CopiedUpTo(n) \cup {f} = CopiedUpTo(n + 1)
  <2>1. 1..(n + 1) = 1..n \cup {n + 1}
    BY <1>4
  <2> QED BY <1>2, <2>1 DEF CopiedUpTo
<1>6. With(o, f, v) \in [CopiedUpTo(n + 1) -> Contents]
  <2>1. PICK D : D = CopiedUpTo(n)
    OBVIOUS
  <2>2. o \in [D -> Contents] /\ v \in Contents
    BY <1>2, <1>4, <2>1
  <2>3. With(o, f, v) \in [D \cup {f} -> Contents]
    BY <2>2, WithTree
  <2>4. D \cup {f} = CopiedUpTo(n + 1)
    BY <1>5, <2>1
  <2> QED BY <2>3, <2>4
<1>7. /\ DOMAIN build' = BuildFields /\ build'.n = n + 1 /\ build'.kind = "custody"
      /\ build'.pc = IF n + 1 = Len(Names) THEN "provenance" ELSE "copy"
  BY <1>1, <1>2 DEF BuildShape, BuildFields
<1>8. BuildShape' /\ out'["custody"] = With(o, f, v)
  BY <1>1, <1>2, <1>3, <1>7 DEF BuildShape, Kinds
<1>9. Names \in Seq(AllowedPaths)
  BY BuildFilesAssumption DEF Names
<1>10. CASE n + 1 = Len(Names)
  <2>1. CopiedUpTo(n + 1) = ToSet(Names)
    BY <1>9, <1>10 DEF ToSet, CopiedUpTo
  <2>2. StageOK(build, out["custody"], listing["custody"], dist, reported)'
    BY <1>6, <1>7, <1>8, <1>10, <2>1 DEF StageOK, Packing
  <2> QED BY <1>3, <1>8, <2>2 DEF BuildInv
<1>11. CASE n + 1 # Len(Names)
  <2>1. n + 1 \in Nat /\ n + 1 < Len(Names)
    BY <1>4, <1>9, <1>11
  <2>2. StageOK(build, out["custody"], listing["custody"], dist, reported)'
    BY <1>6, <1>7, <1>8, <1>11, <2>1 DEF StageOK, Packing
  <2> QED BY <1>3, <1>8, <2>2 DEF BuildInv
<1> QED BY <1>10, <1>11

LEMMA ProvenanceOK == BuildInv /\ WriteProvenance => BuildInv'
<1> SUFFICES ASSUME BuildInv, WriteProvenance PROVE BuildInv'
  OBVIOUS
<1>1. BuildShape /\ build.kind = "custody" /\ build.pc = "provenance"
  BY DEF BuildInv, WriteProvenance, In
<1>2. UNCHANGED <<tree, head, listing, dist, reported>>
  BY DEF WriteProvenance, repo
<1>3. CASE Ends /\ UNCHANGED out
  <2>1. BuildShape' /\ build'.pc = "off"
    BY <1>1, <1>2, <1>3 DEF BuildShape, Ends, NoBuild, BuildFields
  <2> QED BY <1>2, <2>1, BuildIdleOK
<1>4. CASE /\ out' = [out EXCEPT !["custody"] = With(@, Provenance, NamedCommit)]
           /\ build' = [build EXCEPT !.pc = "clean", !.version = VersionOf[tree]]
  <2>1. PICK o, v : o = out["custody"] /\ v = NamedCommit
    OBVIOUS
  <2>2. o \in [ToSet(Names) -> Contents] /\ v \in Contents
    BY <1>1, <2>1 DEF BuildInv, StageOK, BuildShape, NamedCommit, ReadGitCommit, Contents
  <2>3. With(o, Provenance, v) \in [BuildFiles -> Contents]
    BY <2>2, WithTree DEF BuildFiles, Names
  <2>4. /\ DOMAIN build' = BuildFields /\ build'.kind = "custody" /\ build'.pc = "clean"
        /\ build'.version \in Versions
    BY <1>1, <1>4 DEF BuildShape, BuildFields, Versions
  <2>5. BuildShape' /\ out'["custody"] = With(o, Provenance, v)
    BY <1>1, <1>2, <1>4, <2>1, <2>4 DEF BuildShape, Kinds
  <2>6. StageOK(build, out["custody"], listing["custody"], dist, reported)'
    BY <2>3, <2>4, <2>5 DEF StageOK, Packing
  <2> QED BY <1>2, <2>5, <2>6 DEF BuildInv
<1> QED BY <1>3, <1>4 DEF WriteProvenance

LEMMA CleanOK == BuildInv /\ AssertClean => BuildInv'
<1> SUFFICES ASSUME BuildInv, AssertClean PROVE BuildInv'
  OBVIOUS
<1>1. BuildShape /\ build.pc \in {"clean", "clean again"}
  BY DEF BuildInv, AssertClean
<1>2. UNCHANGED <<tree, head, out, listing, dist, reported>>
  BY DEF AssertClean, repo
<1>3. CASE Ends
  <2>1. BuildShape' /\ build'.pc = "off"
    BY <1>1, <1>2, <1>3 DEF BuildShape, Ends, NoBuild, BuildFields
  <2> QED BY <1>2, <2>1, BuildIdleOK
<1>4. CASE /\ Forbidden(out[build.kind]) = {}
           /\ Continues(IF build.pc = "clean" THEN "manifest" ELSE "zip")
  <2>1. /\ DOMAIN build' = BuildFields /\ build'.kind = build.kind /\ build'.version = build.version
        /\ build'.pc = IF build.pc = "clean" THEN "manifest" ELSE "zip"
    BY <1>1, <1>4 DEF BuildShape, BuildFields, Continues
  <2>2. BuildShape'
    BY <1>1, <1>2, <2>1 DEF BuildShape
  <2>3. StageOK(build, out["custody"], listing["custody"], dist, reported)'
    <3>1. CASE build.kind = "custody" /\ build.pc = "clean"
      <4>1. out["custody"] \in [BuildFiles -> Contents] /\ build.version \in Versions
        BY <3>1 DEF BuildInv, StageOK, Packing
      <4> QED BY <1>2, <1>4, <2>1, <3>1, <4>1 DEF StageOK, Packing
    <3>2. CASE build.kind = "custody" /\ build.pc # "clean"
      BY <2>1, <3>2 DEF StageOK, Packing
    <3>3. CASE build.kind # "custody"
      BY <2>1, <3>3 DEF StageOK
    <3> QED BY <3>1, <3>2, <3>3
  <2> QED BY <1>2, <2>2, <2>3 DEF BuildInv
<1> QED BY <1>3, <1>4 DEF AssertClean

LEMMA ManifestOK == BuildInv /\ WriteManifest => BuildInv'
<1> SUFFICES ASSUME BuildInv, WriteManifest PROVE BuildInv'
  OBVIOUS
<1>1. BuildShape /\ build.kind = "custody" /\ build.pc = "manifest"
  BY DEF BuildInv, WriteManifest, In
<1>2. UNCHANGED <<tree, head, out, dist, reported>>
  BY DEF WriteManifest, repo
<1>3. CASE Ends /\ UNCHANGED listing
  <2>1. BuildShape' /\ build'.pc = "off"
    BY <1>1, <1>2, <1>3 DEF BuildShape, Ends, NoBuild, BuildFields
  <2> QED BY <1>2, <2>1, BuildIdleOK
<1>4. CASE /\ listing' = [listing EXCEPT !["custody"] = ArtifactsOf(out["custody"])]
           /\ Continues("assert")
  <2>1. /\ DOMAIN build' = BuildFields /\ build'.kind = "custody" /\ build'.version = build.version
        /\ build'.pc = "assert"
    BY <1>1, <1>4 DEF BuildShape, BuildFields, Continues
  <2>2. BuildShape' /\ listing'["custody"] = ArtifactsOf(out["custody"])
    BY <1>1, <1>2, <1>4, <2>1 DEF BuildShape, Kinds
  <2>3. /\ out["custody"] \in [BuildFiles -> Contents] /\ build.version \in Versions
        /\ Forbidden(out["custody"]) = {}
    BY <1>1 DEF BuildInv, StageOK, Packing
  <2>4. StageOK(build, out["custody"], listing["custody"], dist, reported)'
    BY <1>2, <2>1, <2>2, <2>3 DEF StageOK, Packing
  <2> QED BY <1>2, <2>2, <2>4 DEF BuildInv
<1> QED BY <1>3, <1>4 DEF WriteManifest

LEMMA MatchOK == BuildInv /\ AssertManifestMatchesExactly => BuildInv'
<1> SUFFICES ASSUME BuildInv, AssertManifestMatchesExactly PROVE BuildInv'
  OBVIOUS
<1>1. BuildShape /\ build.kind = "custody" /\ build.pc = "assert"
  BY DEF BuildInv, AssertManifestMatchesExactly, In
<1>2. UNCHANGED <<tree, head, out, listing, dist, reported>>
  BY DEF AssertManifestMatchesExactly, repo
<1>3. CASE Ends
  <2>1. BuildShape' /\ build'.pc = "off"
    BY <1>1, <1>2, <1>3 DEF BuildShape, Ends, NoBuild, BuildFields
  <2> QED BY <1>2, <2>1, BuildIdleOK
<1>4. CASE Continues("publish")
  <2>1. /\ DOMAIN build' = BuildFields /\ build'.kind = "custody" /\ build'.version = build.version
        /\ build'.pc = "publish"
    BY <1>1, <1>4 DEF BuildShape, BuildFields, Continues
  <2>2. BuildShape'
    BY <1>1, <1>2, <2>1 DEF BuildShape
  <2>3. StageOK(build, out["custody"], listing["custody"], dist, reported)'
    BY <1>1, <1>2, <2>1 DEF BuildInv, StageOK, Packing
  <2> QED BY <1>2, <2>2, <2>3 DEF BuildInv
<1> QED BY <1>3, <1>4 DEF AssertManifestMatchesExactly

\* The distribution of one version that was not reported becomes d.
LEMMA DistributionOK ==
    ASSUME BuildInv, NEW v \in Versions, reported[v] = NoFile, NEW d \in Distributions,
           dist' = [dist EXCEPT ![v] = d], reported' = reported
    PROVE  DistOK(dist, reported)' /\ dist'[v] = d
<1>1. DOMAIN dist = Versions
  BY DEF BuildInv, BuildShape
<1>2. dist'[v] = d /\ \A w \in Versions : w # v => dist'[w] = dist[w]
  BY <1>1
<1> QED BY <1>2 DEF DistOK, BuildInv

LEMMA PublishOK == BuildInv /\ Publish => BuildInv'
<1> SUFFICES ASSUME BuildInv, Publish PROVE BuildInv'
  OBVIOUS
<1>1. BuildShape /\ build.kind = "custody" /\ build.pc = "publish"
  BY DEF BuildInv, Publish, In
<1>2. UNCHANGED <<tree, head, out, listing, reported>>
  BY DEF Publish, repo
<1>3. CASE Ends /\ UNCHANGED dist
  <2>1. BuildShape' /\ build'.pc = "off"
    BY <1>1, <1>2, <1>3 DEF BuildShape, Ends, NoBuild, BuildFields
  <2> QED BY <1>2, <1>3, <2>1, BuildIdleOK
<1>4. CASE /\ dist[build.version] = NoFile
           /\ dist' = [dist EXCEPT ![build.version] = [files |-> NoFiles, artifacts |-> NoFile]]
           /\ Continues("distribute")
  <2>1. PICK v, d : v = build.version /\ d = [files |-> NoFiles, artifacts |-> NoFile]
    OBVIOUS
  <2>2. v \in Versions /\ out["custody"] \in [BuildFiles -> Contents] /\ Forbidden(out["custody"]) = {}
        /\ listing["custody"] = ArtifactsOf(out["custody"])
    BY <1>1, <2>1 DEF BuildInv, StageOK, Packing
  <2>3. d \in Distributions
    <3>1. NoFiles \in [{} -> Contents \cup {Severed}] /\ {} \in SUBSET BuildFiles
      BY DEF NoFiles
    <3>2. NoFiles \in FileTrees
      BY <3>1 DEF FileTrees
    <3> QED BY <2>1, <3>2 DEF Distributions
  <2>4. reported[v] = NoFile
    BY <1>4, <2>1, <2>2 DEF BuildInv, DistOK
  <2>5. DistOK(dist, reported)' /\ dist'[v] = d
    BY <1>2, <1>4, <2>1, <2>2, <2>3, <2>4, DistributionOK
  <2>6. /\ DOMAIN build' = BuildFields /\ build'.kind = "custody" /\ build'.version = v
        /\ build'.pc = "distribute"
    BY <1>1, <1>4, <2>1 DEF BuildShape, BuildFields, Continues
  <2>7. BuildShape'
    BY <1>1, <1>2, <1>4, <2>6 DEF BuildShape
  <2>8. d.artifacts = NoFile /\ DOMAIN d.files = {}
    BY <2>1 DEF NoFiles
  <2>9. StageOK(build, out["custody"], listing["custody"], dist, reported)'
    BY <1>2, <2>2, <2>3, <2>4, <2>5, <2>6, <2>8 DEF StageOK, Packing
  <2> QED BY <2>5, <2>7, <2>9 DEF BuildInv
<1> QED BY <1>3, <1>4 DEF Publish

LEMMA TreeWith ==
    ASSUME NEW t \in FileTrees, NEW f \in BuildFiles, NEW c \in Contents \cup {Severed}
    PROVE  With(t, f, c) \in FileTrees
<1>1. PICK D \in SUBSET BuildFiles : t \in [D -> Contents \cup {Severed}]
  BY DEF FileTrees
<1>2. PICK C : C = Contents \cup {Severed}
  OBVIOUS
<1>3. With(t, f, c) \in [D \cup {f} -> C]
  BY <1>1, <1>2, WithTree
<1>4. D \cup {f} \in SUBSET BuildFiles
  BY <1>1
<1> QED BY <1>2, <1>3, <1>4 DEF FileTrees

\* One field of one distribution changes.
FilesSet(g, v, x) == [g EXCEPT ![v].files = x]
ArtifactsSet(g, v, x) == [g EXCEPT ![v].artifacts = x]
Replaced(g, v, d) == [g EXCEPT ![v] = d]

Made(written, artifacts) == [files |-> written, artifacts |-> artifacts]

LEMMA FilesChanged ==
    ASSUME NEW g, NEW v, NEW t, NEW a, NEW x, g[v] = Made(t, a)
    PROVE  FilesSet(g, v, x) = Replaced(g, v, Made(x, a))
<1>1. [g[v] EXCEPT !.files = x] = Made(x, a)
  BY DEF Made
<1>2. FilesSet(g, v, x) = [g EXCEPT ![v] = [g[v] EXCEPT !.files = x]]
  BY DEF FilesSet
<1> QED BY <1>1, <1>2 DEF Replaced

LEMMA ArtifactsChanged ==
    ASSUME NEW g, NEW v, NEW t, NEW a, NEW x, g[v] = Made(t, a)
    PROVE  ArtifactsSet(g, v, x) = Replaced(g, v, Made(t, x))
<1>1. [g[v] EXCEPT !.artifacts = x] = Made(t, x)
  BY DEF Made
<1>2. ArtifactsSet(g, v, x) = [g EXCEPT ![v] = [g[v] EXCEPT !.artifacts = x]]
  BY DEF ArtifactsSet
<1> QED BY <1>1, <1>2 DEF Replaced

\* While the copy is made.
LEMMA Distributing ==
    ASSUME BuildInv, In("custody", "distribute")
    PROVE  /\ BuildShape /\ build.version \in Versions
           /\ out["custody"] \in [BuildFiles -> Contents] /\ Forbidden(out["custody"]) = {}
           /\ listing["custody"] = ArtifactsOf(out["custody"]) /\ listing["custody"] \in Listings
           /\ Distributed \in Distributions /\ reported[build.version] = NoFile
           /\ \A f \in DOMAIN Distributed.files : Distributed.files[f] = out["custody"][f]
           /\ Distributed.artifacts \in {NoFile, listing["custody"]}
<1>1. build.kind = "custody" /\ build.pc = "distribute"
  BY DEF In
<1>2. /\ BuildShape /\ build.version \in Versions
      /\ out["custody"] \in [BuildFiles -> Contents] /\ Forbidden(out["custody"]) = {}
      /\ listing["custody"] = ArtifactsOf(out["custody"])
  BY <1>1 DEF BuildInv, StageOK, Packing
<1>3. listing["custody"] \in Listings
  BY <1>2 DEF ArtifactsOf, Listings
<1> QED BY <1>1, <1>2, <1>3 DEF BuildInv, StageOK, Distributed

LEMMA CopyToDistributionOK == BuildInv /\ CopyToDistribution => BuildInv'
<1> SUFFICES ASSUME BuildInv, CopyToDistribution PROVE BuildInv'
  OBVIOUS
<1>1. In("custody", "distribute") /\ UNCHANGED <<tree, head, build, out, listing, reported>>
  BY DEF CopyToDistribution, repo
<1>2. PICK v, d, o, l : v = build.version /\ d = Distributed /\ o = out["custody"] /\ l = listing["custody"]
  OBVIOUS
<1>3. /\ BuildShape /\ v \in Versions
      /\ o \in [BuildFiles -> Contents] /\ l \in Listings
      /\ d \in Distributions /\ reported[v] = NoFile
      /\ \A f \in DOMAIN d.files : d.files[f] = o[f]
      /\ d.artifacts \in {NoFile, l}
  BY <1>1, <1>2, Distributing
<1>4. d.files \in FileTrees /\ d.artifacts \in Listings \cup {NoFile, Severed}
      /\ d = [files |-> d.files, artifacts |-> d.artifacts]
  BY <1>3 DEF Distributions
<1>5. PICK e : /\ e \in Distributions /\ dist' = [dist EXCEPT ![v] = e]
               /\ \A f \in DOMAIN e.files : e.files[f] = o[f]
               /\ e.artifacts \in {NoFile, l}
  <2>1. CASE \E f \in DOMAIN o \ DOMAIN d.files :
               dist' = [dist EXCEPT ![v].files = With(@, f, o[f])]
    <3>1. PICK f \in DOMAIN o \ DOMAIN d.files : dist' = [dist EXCEPT ![v].files = With(@, f, o[f])]
      BY <2>1
    <3>2. PICK t : t = With(d.files, f, o[f])
      OBVIOUS
    <3>3. t \in FileTrees
      BY <1>3, <1>4, <3>1, <3>2, TreeWith
    <3>4. \A x \in DOMAIN t : t[x] = o[x]
      <4>1. /\ DOMAIN t = DOMAIN d.files \cup {f} /\ t[f] = o[f]
            /\ \A y \in DOMAIN d.files : y # f => t[y] = d.files[y]
        BY <3>2 DEF With
      <4> QED BY <1>3, <4>1
    <3>5. dist[v] = [files |-> d.files, artifacts |-> d.artifacts]
      BY <1>2, <1>4 DEF Distributed
    <3>6. dist[v].files = d.files
      BY <3>5
    <3>7. dist' = [dist EXCEPT ![v].files = t]
      BY <3>1, <3>2, <3>6
    <3>8. PICK g, e : g = dist /\ e = [files |-> t, artifacts |-> d.artifacts]
      OBVIOUS
    <3>9. FilesSet(g, v, t) = Replaced(g, v, [files |-> t, artifacts |-> d.artifacts])
      <4>1. PICK t0, a0 : t0 = d.files /\ a0 = d.artifacts
        OBVIOUS
      <4>2. g[v] = Made(t0, a0)
        BY <3>5, <3>8, <4>1 DEF Made
      <4>3. FilesSet(g, v, t) = Replaced(g, v, Made(t, a0))
        BY <4>2, FilesChanged
      <4> QED BY <4>1, <4>3 DEF Made
    <3>10. dist' = [dist EXCEPT ![v] = e]
      BY <3>7, <3>8, <3>9 DEF FilesSet, Replaced
    <3>11. e \in Distributions /\ e.files = t /\ e.artifacts = d.artifacts
      BY <1>4, <3>3, <3>8 DEF Distributions
    <3> QED BY <1>3, <3>4, <3>10, <3>11
  <2>2. CASE dist' = [dist EXCEPT ![v].artifacts = l]
    <3>1. dist[v] = [files |-> d.files, artifacts |-> d.artifacts]
      BY <1>2, <1>4 DEF Distributed
    <3>2. PICK g, e : g = dist /\ e = [files |-> d.files, artifacts |-> l]
      OBVIOUS
    <3>3. ArtifactsSet(g, v, l) = Replaced(g, v, [files |-> d.files, artifacts |-> l])
      <4>1. PICK t0, a0 : t0 = d.files /\ a0 = d.artifacts
        OBVIOUS
      <4>2. g[v] = Made(t0, a0)
        BY <3>1, <3>2, <4>1 DEF Made
      <4>3. ArtifactsSet(g, v, l) = Replaced(g, v, Made(t0, l))
        BY <4>2, ArtifactsChanged
      <4> QED BY <4>1, <4>3 DEF Made
    <3>4. dist' = [dist EXCEPT ![v] = e]
      BY <2>2, <3>2, <3>3 DEF ArtifactsSet, Replaced
    <3>5. e \in Distributions /\ e.files = d.files /\ e.artifacts = l
      BY <1>3, <1>4, <3>2 DEF Distributions
    <3> QED BY <1>3, <3>4, <3>5
  <2> QED BY <1>2, <2>1, <2>2 DEF CopyToDistribution, Distributed
<1>6. DistOK(dist, reported)' /\ dist'[v] = e
  BY <1>1, <1>3, <1>5, DistributionOK
<1>7. BuildShape'
  BY <1>1, <1>3, <1>5 DEF BuildShape
<1>8. StageOK(build, out["custody"], listing["custody"], dist, reported)'
  BY <1>1, <1>2, <1>3, <1>5, <1>6 DEF BuildInv, StageOK, Packing, In
<1> QED BY <1>6, <1>7, <1>8 DEF BuildInv

LEMMA ReportOK == BuildInv /\ ReportDistribution => BuildInv'
<1> SUFFICES ASSUME BuildInv, ReportDistribution PROVE BuildInv'
  OBVIOUS
<1>1. /\ In("custody", "distribute") /\ UNCHANGED <<tree, head, out, listing, dist>> /\ Ends
      /\ Distributed.artifacts # NoFile
      /\ DOMAIN out["custody"] \subseteq DOMAIN Distributed.files
      /\ reported' = [reported EXCEPT ![build.version] = Distributed]
  BY DEF ReportDistribution, repo
<1>2. PICK v, d, o, l : v = build.version /\ d = Distributed /\ o = out["custody"] /\ l = listing["custody"]
  OBVIOUS
<1>3. /\ BuildShape /\ v \in Versions
      /\ o \in [BuildFiles -> Contents] /\ Forbidden(o) = {} /\ l = ArtifactsOf(o)
      /\ d \in Distributions
      /\ \A f \in DOMAIN d.files : d.files[f] = o[f]
      /\ d.artifacts \in {NoFile, l}
  BY <1>1, <1>2, Distributing
<1>4. d.files = o
  <2>1. PICK D \in SUBSET BuildFiles : d.files \in [D -> Contents \cup {Severed}]
    BY <1>3 DEF Distributions, FileTrees
  <2>2. D = BuildFiles
    BY <1>1, <1>2, <1>3, <2>1
  <2> QED BY <1>3, <2>1, <2>2
<1>5. d = [files |-> o, artifacts |-> ArtifactsOf(o)]
  BY <1>1, <1>2, <1>3, <1>4 DEF Distributions
<1>6. Verifies(d)
  BY <1>3, <1>5, CopyVerifies
<1>7. reported' = [reported EXCEPT ![v] = d] /\ dist' = dist /\ dist[v] = d
  BY <1>1, <1>2 DEF Distributed
<1>8. DistOK(dist, reported)'
  BY <1>3, <1>6, <1>7 DEF BuildInv, BuildShape, DistOK
<1>9. BuildShape' /\ build'.pc = "off"
  BY <1>1, <1>3, <1>7 DEF BuildShape, Ends, NoBuild, BuildFields
<1> QED BY <1>8, <1>9 DEF BuildInv, StageOK, Packing

LEMMA KillBuildOK == BuildInv /\ KillBuild => BuildInv'
<1> SUFFICES ASSUME BuildInv, KillBuild PROVE BuildInv'
  OBVIOUS
<1>1. Ends /\ UNCHANGED <<tree, head, out, listing, reported>>
  BY DEF KillBuild, repo
<1>2. BuildShape /\ DOMAIN build' = BuildFields /\ build'.pc = "off"
  BY <1>1 DEF BuildInv, Ends, NoBuild, BuildFields
<1>3. CASE UNCHANGED dist
  <2>1. BuildShape'
    BY <1>1, <1>2, <1>3 DEF BuildShape
  <2> QED BY <1>1, <1>2, <1>3, <2>1, BuildIdleOK
<1>4. CASE /\ In("custody", "distribute")
           /\ \/ \E f \in DOMAIN out["custody"] \ DOMAIN Distributed.files :
                   dist' = [dist EXCEPT ![build.version].files = With(@, f, Severed)]
              \/ dist' = [dist EXCEPT ![build.version].artifacts = Severed]
  <2>1. PICK v, d : v = build.version /\ d = Distributed
    OBVIOUS
  <2>2. /\ v \in Versions /\ d \in Distributions /\ reported[v] = NoFile
        /\ DOMAIN out["custody"] = BuildFiles
    BY <1>4, <2>1, Distributing
  <2>3. d.files \in FileTrees /\ d.artifacts \in Listings \cup {NoFile, Severed}
        /\ d = [files |-> d.files, artifacts |-> d.artifacts]
    BY <2>2 DEF Distributions
  <2>4. dist[v] = [files |-> d.files, artifacts |-> d.artifacts] /\ dist[v].files = d.files
    BY <2>1, <2>3 DEF Distributed
  <2>5. PICK e \in Distributions : dist' = [dist EXCEPT ![v] = e]
    <3>1. CASE \E f \in BuildFiles : dist' = [dist EXCEPT ![v].files = With(@, f, Severed)]
      <4>1. PICK f \in BuildFiles : dist' = [dist EXCEPT ![v].files = With(@, f, Severed)]
        BY <3>1
      <4>2. PICK t : t = With(d.files, f, Severed)
        OBVIOUS
      <4>3. t \in FileTrees
        BY <2>3, <4>2, TreeWith
      <4>4. dist' = [dist EXCEPT ![v].files = t]
        BY <2>4, <4>1, <4>2
      <4>5. PICK g : g = dist
        OBVIOUS
      <4>6. FilesSet(g, v, t) = Replaced(g, v, [files |-> t, artifacts |-> d.artifacts])
        <5>1. PICK t0, a0 : t0 = d.files /\ a0 = d.artifacts
          OBVIOUS
        <5>2. g[v] = Made(t0, a0)
          BY <2>4, <4>5, <5>1 DEF Made
        <5>3. FilesSet(g, v, t) = Replaced(g, v, Made(t, a0))
          BY <5>2, FilesChanged
        <5> QED BY <5>1, <5>3 DEF Made
      <4>7. [files |-> t, artifacts |-> d.artifacts] \in Distributions
        BY <2>3, <4>3 DEF Distributions
      <4> QED BY <4>4, <4>5, <4>6, <4>7 DEF FilesSet, Replaced
    <3>2. CASE dist' = [dist EXCEPT ![v].artifacts = Severed]
      <4>1. PICK g : g = dist
        OBVIOUS
      <4>2. ArtifactsSet(g, v, Severed) = Replaced(g, v, [files |-> d.files, artifacts |-> Severed])
        <5>1. PICK t0, a0 : t0 = d.files /\ a0 = d.artifacts
          OBVIOUS
        <5>2. g[v] = Made(t0, a0)
          BY <2>4, <4>1, <5>1 DEF Made
        <5>3. ArtifactsSet(g, v, Severed) = Replaced(g, v, Made(t0, Severed))
          BY <5>2, ArtifactsChanged
        <5> QED BY <5>1, <5>3 DEF Made
      <4>3. [files |-> d.files, artifacts |-> Severed] \in Distributions
        BY <2>3 DEF Distributions
      <4> QED BY <3>2, <4>1, <4>2, <4>3 DEF ArtifactsSet, Replaced
    <3> QED BY <1>4, <2>1, <2>2, <3>1, <3>2
  <2>6. DistOK(dist, reported)'
    BY <1>1, <2>2, <2>5, DistributionOK
  <2>7. BuildShape'
    BY <1>1, <1>2, <2>5 DEF BuildShape
  <2> QED BY <1>2, <2>6, <2>7 DEF BuildInv, StageOK, Packing
<1> QED BY <1>3, <1>4 DEF KillBuild

\* The steps of the sidecar's build.
SidecarBuildStep ==
    \/ CopyReleaseFile \/ WriteProvenanceSidecar \/ WriteManifestAndSignature
    \/ WriteZip \/ VerifyExtract \/ ReportZip

LEMMA SidecarBuildOK == BuildInv /\ SidecarBuildStep => BuildInv'
<1> SUFFICES ASSUME BuildInv, SidecarBuildStep PROVE BuildInv'
  OBVIOUS
<1>1. BuildShape /\ build.kind = "sidecar"
  BY DEF BuildInv, SidecarBuildStep, CopyReleaseFile, WriteProvenanceSidecar,
         WriteManifestAndSignature, WriteZip, VerifyExtract, ReportZip, In
<1>2. UNCHANGED <<tree, head, dist, reported>>
  BY DEF SidecarBuildStep, CopyReleaseFile, WriteProvenanceSidecar,
         WriteManifestAndSignature, WriteZip, VerifyExtract, ReportZip, repo
<1>3. DOMAIN out' = Kinds /\ DOMAIN listing' = Kinds
  BY <1>1 DEF BuildShape, SidecarBuildStep, CopyReleaseFile, CopyNext, WriteProvenanceSidecar,
              WriteManifestAndSignature, WriteZip, VerifyExtract, ReportZip
<1>4. DOMAIN build' = BuildFields /\ (build'.kind # "custody" \/ build'.pc = "off")
  <2>1. CASE Ends
    BY <2>1 DEF Ends, NoBuild, BuildFields
  <2>2. CASE \E n, pc : build' = [build EXCEPT !.n = n, !.pc = pc]
    BY <1>1, <2>2 DEF BuildShape, BuildFields
  <2>3. CASE \E pc : Continues(pc)
    BY <1>1, <2>3 DEF BuildShape, BuildFields, Continues
  <2>4. CASE \E pc, extract : build' = [build EXCEPT !.pc = pc, !.extract = extract]
    BY <1>1, <2>4 DEF BuildShape, BuildFields
  <2>5. CASE CopyReleaseFile
    BY <2>2, <2>5, Zenon DEF CopyReleaseFile, CopyNext
  <2>6. CASE WriteProvenanceSidecar \/ WriteManifestAndSignature \/ WriteZip
    BY <2>3, <2>6 DEF WriteProvenanceSidecar, WriteManifestAndSignature, WriteZip
  <2>7. CASE VerifyExtract
    BY <2>1, <2>4, <2>7 DEF VerifyExtract
  <2>8. CASE ReportZip
    BY <2>1, <2>8 DEF ReportZip
  <2> QED BY <2>5, <2>6, <2>7, <2>8 DEF SidecarBuildStep
<1>5. BuildShape'
  BY <1>1, <1>2, <1>3, <1>4 DEF BuildShape
<1> QED BY <1>2, <1>4, <1>5, BuildIdleOK

\* Changes of the repository.
LEMMA RepositoryOK ==
    ASSUME BuildInv, tree' \in Revisions, head' \in Revisions \cup {NoFile},
           UNCHANGED <<build, out, listing, dist, reported>>
    PROVE  BuildInv'
<1>1. BuildShape'
  BY DEF BuildInv, BuildShape
<1>2. StageOK(build, out["custody"], listing["custody"], dist, reported)'
  BY DEF BuildInv, StageOK
<1>3. DistOK(dist, reported)'
  BY DEF BuildInv, DistOK
<1> QED BY <1>1, <1>2, <1>3 DEF BuildInv

LEMMA BuildInvInit == InitL => BuildInv
<1> SUFFICES ASSUME InitL PROVE BuildInv
  OBVIOUS
<1>1. BuildShape
  BY DEF InitL, BuildShape, NoBuild, BuildFields, Versions
<1>2. build.pc = "off"
  BY DEF InitL, NoBuild
<1>3. \A v \in Versions : dist[v] = NoFile /\ reported[v] = NoFile
  BY DEF InitL, Versions
<1> QED BY <1>1, <1>2, <1>3 DEF BuildInv, StageOK, Packing, DistOK

LEMMA BuildInvStep == BuildInv /\ [NextL]_lvars => BuildInv'
<1> SUFFICES ASSUME BuildInv, [NextL]_lvars PROVE BuildInv'
  OBVIOUS
<1>1. tree \in Revisions /\ head \in Revisions \cup {NoFile}
  BY DEF BuildInv, BuildShape
<1>2. CASE StartBuild \/ CopyFile \/ WriteProvenance \/ AssertClean \/ WriteManifest
           \/ AssertManifestMatchesExactly \/ Publish \/ CopyToDistribution
           \/ ReportDistribution \/ KillBuild
  BY <1>2, StartBuildOK, CopyOK, ProvenanceOK, CleanOK, ManifestOK, MatchOK, PublishOK,
     CopyToDistributionOK, ReportOK, KillBuildOK
<1>3. CASE SidecarBuildStep
  BY <1>3, SidecarBuildOK
<1>4. CASE EditTree \/ CommitTree \/ TagHead \/ PackRefs
  <2>1. UNCHANGED <<build, out, listing, dist, reported>>
    BY <1>4 DEF EditTree, CommitTree, TagHead, PackRefs, NotBuilt
  <2>2. tree' \in Revisions /\ head' \in Revisions \cup {NoFile}
    BY <1>1, <1>4 DEF EditTree, CommitTree, TagHead, PackRefs
  <2> QED BY <2>1, <2>2, RepositoryOK
<1>5. CASE UNCHANGED lvars
  BY <1>1, <1>5, RepositoryOK DEF lvars
<1> QED BY <1>2, <1>3, <1>4, <1>5 DEF NextL, SidecarBuildStep

\* However builds are killed and the repository changes under them, a
\* distribution directory that passes verification holds one whole build, and
\* what was reported stays as it was reported and verifies
\* (publishImmutableDistribution, verifyReleaseIntegrity).
THEOREM DistributionsStayWhole == SpecL => []DistributionsWhole
  BY BuildInvInit, BuildInvStep, BuildInvIs, PTL DEF SpecL

-----------------------------------------------------------------------------
(* The zip file of the sidecar and its reader. A stream of entries is a      *)
(* sequence of units; what the reader finds of an entry depends on the units *)
(* from its header to its last one only.                                    *)

\* A set of naturals that is not empty has a least one.
LEMMA LeastNatural ==
    ASSUME NEW S \in SUBSET Nat, S # {}
    PROVE  \E k \in S : \A j \in S : k <= j
<1>1. \E k \in S : \A j \in S : <<j, k>> \notin OpToRel(<, Nat)
  BY WFMin, NatLessThanWellFounded
<1>2. \A j, k \in Nat : j < k => <<j, k>> \in OpToRel(<, Nat)
  BY Zenon DEF OpToRel
<1> HIDE DEF OpToRel
<1>3. PICK k \in S : \A j \in S : <<j, k>> \notin OpToRel(<, Nat)
  BY <1>1, Zenon
<1>4. \A j \in S : ~(j < k)
  BY <1>2, <1>3, Zenon
<1> QED BY <1>4

\* Induction over the naturals, of a set.
LEMMA Induct ==
    ASSUME NEW T \in SUBSET Nat, 0 \in T, \A n \in T : n + 1 \in T
    PROVE  T = Nat
<1> SUFFICES ASSUME Nat \ T # {} PROVE FALSE
  OBVIOUS
<1>1. PICK n \in Nat \ T : \A m \in Nat \ T : n <= m
  BY LeastNatural
<1>2. n # 0
  OBVIOUS
<1>3. n - 1 \in Nat /\ ~(n <= n - 1)
  BY <1>2
<1>4. n - 1 \in T
  BY <1>1, <1>3
<1>5. (n - 1) + 1 \in T
  BY <1>4
<1> QED BY <1>1, <1>5

\* FlattenSeq is defined by recursion; these are the equations it satisfies.
Flattening(f, s, n) ==
    /\ f[1] = s[1] /\ FlattenSeq(s) = f[n]
    /\ \A i \in 2..n : f[i] = f[i - 1] \o s[i]

LEMMA FlattenIs ==
    ASSUME NEW U, NEW n \in Nat \ {0}, NEW s \in [1..n -> Seq(U)]
    PROVE  \E f \in [1..n -> Seq(U)] : Flattening(f, s, n)
<1> DEFINE Nth(f, i) == IF i = 1 THEN s[i] ELSE f[i - 1] \o s[i]
           Begun(k) == \E g \in [1..n -> Seq(U)] : \A i \in 1..(k + 1) : g[i] = Nth(g, i)
           T == {k \in Nat : k < n => Begun(k)}
<1>1. 0 \in T
  <2>1. \A i \in 1..(0 + 1) : i = 1
    OBVIOUS
  <2>2. \A i \in 1..(0 + 1) : s[i] = Nth(s, i)
    BY <2>1
  <2> QED BY <2>2
<1>2. \A k \in T : k + 1 \in T
  <2> HIDE DEF Begun
  <2> SUFFICES ASSUME NEW k \in T, k + 1 < n PROVE Begun(k + 1)
    OBVIOUS
  <2> USE DEF Begun
  <2>1. PICK g \in [1..n -> Seq(U)] : \A i \in 1..(k + 1) : g[i] = Nth(g, i)
    OBVIOUS
  <2>2. k + 1 \in 1..n /\ k + 2 \in 1..n
    OBVIOUS
  <2>3. g[k + 1] \o s[k + 2] \in Seq(U)
    BY <2>2, ConcatProperties
  <2> DEFINE h == [g EXCEPT ![k + 2] = g[k + 1] \o s[k + 2]]
  <2>4. h \in [1..n -> Seq(U)]
    BY <2>3
  <2>5. \A i \in 1..(k + 1) : h[i] = g[i]
    BY <2>2
  <2>6. h[k + 2] = g[k + 1] \o s[k + 2]
    BY <2>2
  <2> HIDE DEF h
  <2>7. \A i \in 1..(k + 1) : h[i] = Nth(h, i)
    BY <2>1, <2>5
  <2>8. h[k + 2] = Nth(h, k + 2)
    <3>1. k + 1 \in 1..(k + 1) /\ (k + 2) - 1 = k + 1 /\ k + 2 # 1
      OBVIOUS
    <3> QED BY <2>5, <2>6, <3>1
  <2>9. \A i \in 1..(k + 1 + 1) : i \in 1..(k + 1) \/ i = k + 2
    OBVIOUS
  <2> QED BY <2>4, <2>7, <2>8, <2>9
<1>3. T = Nat
  <2> HIDE DEF T
  <2>1. T \subseteq Nat
    BY DEF T
  <2> QED BY <1>1, <1>2, <2>1, Induct
<1>4. PICK g \in [1..n -> Seq(U)] : \A i \in 1..n : g[i] = Nth(g, i)
  <2>1. n - 1 \in Nat /\ n - 1 < n /\ (n - 1) + 1 = n
    OBVIOUS
  <2>2. n - 1 \in T
    BY <1>3, <2>1
  <2> QED BY <2>1, <2>2
<1> HIDE DEF T
<1> DEFINE Eq(f) == f = [i \in 1..n |-> Nth(f, i)]
           F == CHOOSE f : Eq(f)
<1>5. Eq(g)
  BY <1>4
<1>6. Eq(F)
  BY <1>5
<1>7. FlattenSeq(s) = F[n]
  <2>1. Len(s) = n
    OBVIOUS
  <2>2. n # 0
    OBVIOUS
  <2> QED BY <2>1, <2>2, Zenon DEF FlattenSeq
<1> HIDE DEF F
<1>8. /\ DOMAIN F = 1..n /\ F[1] = s[1]
      /\ \A i \in 2..n : F[i] = F[i - 1] \o s[i]
  <2>1. DOMAIN F = 1..n /\ \A i \in 1..n : F[i] = Nth(F, i)
    BY <1>6
  <2>2. 1 \in 1..n /\ \A i \in 2..n : i \in 1..n /\ i # 1
    OBVIOUS
  <2> QED BY <2>1, <2>2
<1>9. \A i \in 1..n : F[i] \in Seq(U)
  <2> DEFINE P == {k \in Nat : k < n => F[k + 1] \in Seq(U)}
  <2>1. 0 \in P
    BY <1>8
  <2>2. \A k \in P : k + 1 \in P
    <3> SUFFICES ASSUME NEW k \in P, k + 1 < n PROVE F[k + 2] \in Seq(U)
      OBVIOUS
    <3>1. F[k + 1] \in Seq(U) /\ s[k + 2] \in Seq(U)
      OBVIOUS
    <3>2. k + 2 \in 2..n /\ (k + 2) - 1 = k + 1
      OBVIOUS
    <3>3. F[k + 2] = F[k + 1] \o s[k + 2]
      BY <1>8, <3>2
    <3> QED BY <3>1, <3>3, ConcatProperties
  <2> HIDE DEF P
  <2>3. P = Nat
    <3>1. P \subseteq Nat
      BY DEF P
    <3> QED BY <2>1, <2>2, <3>1, Induct
  <2> SUFFICES ASSUME NEW i \in 1..n PROVE F[i] \in Seq(U)
    OBVIOUS
  <2>4. i - 1 \in P
    BY <2>3
  <2> QED BY <2>4 DEF P
<1>10. F \in [1..n -> Seq(U)]
  <2>1. F = [i \in 1..n |-> F[i]]
    BY <1>6
  <2> QED BY <1>9, <2>1
<1> QED BY <1>7, <1>8, <1>10 DEF Flattening

\* The units of records of files named by a member of N with a content in C.
Units(N, C) ==
    {[is |-> "local"], [is |-> "central"], [is |-> "end"]}
    \cup [is : {"sizes"}, size : Nat]
    \cup [is : {"name"}, name : N]
    \cup [is : {"data"}, content : C]

EntryLists(n, N, C) == [1..n -> [name : N, content : C, size : Nat]]

\* In the stream s the record of the entry e[i] begins after offset a[i], and
\* what follows the last record is none.
Layout(s, e, n, a) ==
    /\ a \in [1..(n + 1) -> Nat] /\ a[1] = 0
    /\ \A i \in 1..n :
         /\ a[i + 1] = a[i] + 3 + e[i].size
         /\ s[a[i] + 1].is = "local"
         /\ s[a[i] + 2].size = e[i].size
         /\ s[a[i] + 3].name = e[i].name
         /\ \A p \in 1..e[i].size : s[a[i] + 3 + p].content = e[i].content
    /\ a[n + 1] < Len(s) /\ s[a[n + 1] + 1].is # "local"

\* The units r record the entry e.
Records(r, e) ==
    /\ Len(r) = 3 + e.size
    /\ r[1].is = "local" /\ r[2].size = e.size /\ r[3].name = e.name
    /\ \A p \in 1..e.size : r[3 + p].content = e.content

LEMMA RecordIs ==
    ASSUME NEW N, NEW C, NEW e \in [name : N, content : C, size : Nat]
    PROVE  LocalRecord(e) \in Seq(Units(N, C)) /\ Records(LocalRecord(e), e)
<1> DEFINE U == Units(N, C)
           h == <<[is |-> "local"], [is |-> "sizes", size |-> e.size], [is |-> "name", name |-> e.name]>>
           x == [is |-> "data", content |-> e.content]
           d == [i \in 1 .. e.size |-> x]
<1>1. [is |-> "local"] \in U /\ [is |-> "sizes", size |-> e.size] \in U
      /\ [is |-> "name", name |-> e.name] \in U /\ x \in U
  BY DEF Units
<1>2. h \in Seq(U) /\ Len(h) = 3
  BY <1>1
<1>3. d \in Seq(U) /\ Len(d) = e.size
  <2>1. e.size \in Nat
    OBVIOUS
  <2>2. x \in U
    BY <1>1
  <2> HIDE DEF U, x
  <2> QED BY <2>1, <2>2
<1>4. h[1].is = "local" /\ h[2].size = e.size /\ h[3].name = e.name
  OBVIOUS
<1>5. \A p \in 1..e.size : d[p].content = e.content
  OBVIOUS
<1>6. LocalRecord(e) = h \o d
  BY DEF LocalRecord
<1> HIDE DEF h, d, U
<1>7. /\ h \o d \in Seq(U) /\ Len(h \o d) = 3 + e.size
      /\ \A i \in 1 .. 3 + e.size : (h \o d)[i] = IF i <= 3 THEN h[i] ELSE d[i - 3]
  <2>1. /\ h \o d \in Seq(U) /\ Len(h \o d) = Len(h) + Len(d)
        /\ \A i \in 1 .. Len(h) + Len(d) : (h \o d)[i] = IF i <= Len(h) THEN h[i] ELSE d[i - Len(h)]
    BY <1>2, <1>3, ConcatProperties, Zenon
  <2>2. Len(h) + Len(d) = 3 + e.size
    BY <1>2, <1>3
  <2> QED BY <1>2, <2>1, <2>2, Zenon
<1>8. /\ (h \o d)[1] = h[1] /\ (h \o d)[2] = h[2] /\ (h \o d)[3] = h[3]
      /\ \A p \in 1..e.size : (h \o d)[3 + p] = d[p]
  <2>1. e.size \in Nat
    OBVIOUS
  <2>2. \A p \in 1..e.size : 3 + p \in 1..3 + e.size /\ ~(3 + p <= 3) /\ (3 + p) - 3 = p
    BY <2>1
  <2> QED BY <1>7, <2>1, <2>2
<1>9. \A p \in 1..e.size : (h \o d)[3 + p].content = e.content
  BY <1>5, <1>8
<1>10. Records(h \o d, e)
  BY <1>4, <1>7, <1>8, <1>9 DEF Records
<1> QED BY <1>6, <1>7, <1>10, Zenon DEF U

\* The sequence x is s and then t.
Joined(x, s, t) ==
    /\ Len(s) \in Nat /\ Len(t) \in Nat /\ Len(x) = Len(s) + Len(t)
    /\ \A p \in 1..Len(s) : x[p] = s[p]
    /\ \A p \in 1..Len(t) : x[Len(s) + p] = t[p]

LEMMA JoinedIs ==
    ASSUME NEW U, NEW s \in Seq(U), NEW t \in Seq(U)
    PROVE  s \o t \in Seq(U) /\ Joined(s \o t, s, t)
<1>1. /\ s \o t \in Seq(U) /\ Len(s \o t) = Len(s) + Len(t)
      /\ \A i \in 1 .. Len(s) + Len(t) : (s \o t)[i] = IF i <= Len(s) THEN s[i] ELSE t[i - Len(s)]
  BY ConcatProperties, Zenon
<1>2. Len(s) \in Nat /\ Len(t) \in Nat
  BY LenProperties
<1>3. PICK m, n : m = Len(s) /\ n = Len(t)
  OBVIOUS
<1>4. m \in Nat /\ n \in Nat
  BY <1>2, <1>3
<1>5. \A p \in 1..m : p \in 1 .. m + n /\ p <= m
  BY <1>4
<1>6. \A p \in 1..n : m + p \in 1 .. m + n /\ ~(m + p <= m) /\ (m + p) - m = p
  BY <1>4
<1>7. \A i \in 1 .. m + n : (s \o t)[i] = IF i <= m THEN s[i] ELSE t[i - m]
  BY <1>1, <1>3
<1>8. \A p \in 1..m : (s \o t)[p] = s[p]
  BY <1>5, <1>7, Zenon
<1>9. \A p \in 1..n : (s \o t)[m + p] = t[p]
  <2> SUFFICES ASSUME NEW p \in 1..n PROVE (s \o t)[m + p] = t[p]
    OBVIOUS
  <2>1. (s \o t)[m + p] = t[(m + p) - m]
    BY <1>6, <1>7, Zenon
  <2> QED BY <1>6, <2>1
<1>10. Joined(s \o t, s, t)
  BY <1>1, <1>2, <1>3, <1>8, <1>9, Zenon DEF Joined
<1> QED BY <1>1, <1>10

\* Each part s[i] of t begins after offset a[i].
Placed(t, s, n, a) ==
    /\ a[1] = 0 /\ a[n + 1] = Len(t)
    /\ \A i \in 1..n :
         /\ a[i + 1] = a[i] + Len(s[i]) /\ a[i + 1] <= a[n + 1]
         /\ \A p \in 1..Len(s[i]) : t[a[i] + p] = s[i][p]

LEMMA FlatLayout ==
    ASSUME NEW U, NEW n \in Nat \ {0}, NEW s \in [1..n -> Seq(U)]
    PROVE  /\ FlattenSeq(s) \in Seq(U)
           /\ \E a \in [1..(n + 1) -> Nat] : Placed(FlattenSeq(s), s, n, a)
<1>1. PICK f \in [1..n -> Seq(U)] :
        /\ f[1] = s[1] /\ FlattenSeq(s) = f[n]
        /\ \A i \in 2..n : f[i] = f[i - 1] \o s[i]
  <2>1. \E f \in [1..n -> Seq(U)] : Flattening(f, s, n)
    BY FlattenIs
  <2> QED BY <2>1 DEF Flattening
<1> DEFINE a == [i \in 1..(n + 1) |-> IF i = 1 THEN 0 ELSE Len(f[i - 1])]
<1>2. \A i \in 1..n : Len(f[i]) \in Nat /\ Len(s[i]) \in Nat /\ f[i] \in Seq(U) /\ s[i] \in Seq(U)
  BY LenProperties
<1>3. a \in [1..(n + 1) -> Nat] /\ a[1] = 0
  <2>1. \A i \in 1..(n + 1) : i = 1 \/ i - 1 \in 1..n
    OBVIOUS
  <2>2. \A i \in 1..(n + 1) : (IF i = 1 THEN 0 ELSE Len(f[i - 1])) \in Nat
    BY <1>2, <2>1
  <2>3. 1 \in 1..(n + 1)
    OBVIOUS
  <2> QED BY <2>2, <2>3
<1>4. \A i \in 1..n : a[i + 1] = Len(f[i])
  <2>1. \A i \in 1..n : i + 1 \in 1..(n + 1) /\ i + 1 # 1 /\ (i + 1) - 1 = i
    OBVIOUS
  <2> QED BY <2>1
<1> HIDE DEF a
\* One more part.
<1>5. \A k \in 2..n :
        /\ k - 1 \in 1..n /\ a[k] = Len(f[k - 1]) /\ a[k + 1] = a[k] + Len(s[k])
        /\ \A p \in 1..a[k] : f[k][p] = f[k - 1][p]
        /\ \A p \in 1..Len(s[k]) : f[k][a[k] + p] = s[k][p]
  <2> SUFFICES ASSUME NEW k \in 2..n
               PROVE  /\ k - 1 \in 1..n /\ a[k] = Len(f[k - 1]) /\ a[k + 1] = a[k] + Len(s[k])
                      /\ \A p \in 1..a[k] : f[k][p] = f[k - 1][p]
                      /\ \A p \in 1..Len(s[k]) : f[k][a[k] + p] = s[k][p]
    OBVIOUS
  <2>1. k - 1 \in 1..n /\ k \in 1..n /\ (k - 1) + 1 = k
    OBVIOUS
  <2>2. a[k] = Len(f[k - 1]) /\ a[k + 1] = Len(f[k]) /\ f[k - 1] \in Seq(U) /\ s[k] \in Seq(U)
    BY <1>2, <1>4, <2>1
  <2>3. f[k] = f[k - 1] \o s[k]
    BY <1>1
  <2>4. PICK t, u : t = f[k - 1] /\ u = s[k]
    OBVIOUS
  <2>5. t \in Seq(U) /\ u \in Seq(U)
    BY <2>2, <2>4
  <2>6. Joined(t \o u, t, u)
    BY <2>5, JoinedIs
  <2> QED BY <2>1, <2>2, <2>3, <2>4, <2>6 DEF Joined
<1>6. \A i \in 1..n : a[i + 1] = a[i] + Len(s[i])
                      /\ \A p \in 1..Len(s[i]) : f[i][a[i] + p] = s[i][p]
  <2> SUFFICES ASSUME NEW i \in 1..n
               PROVE  a[i + 1] = a[i] + Len(s[i])
                      /\ \A p \in 1..Len(s[i]) : f[i][a[i] + p] = s[i][p]
    OBVIOUS
  <2>1. CASE i = 1
    <3>1. a[2] = Len(s[1]) /\ Len(s[1]) \in Nat
      <4>1. 1 \in 1..n /\ 1 + 1 = 2
        OBVIOUS
      <4> QED BY <1>1, <1>2, <1>4, <4>1
    <3>2. a[1] = 0 /\ f[1] = s[1]
      BY <1>1, <1>3
    <3>3. \A p \in 1..Len(s[1]) : 0 + p = p
      BY <3>1
    <3> QED BY <2>1, <3>1, <3>2, <3>3
  <2>2. CASE i # 1
    <3>1. i \in 2..n
      BY <2>2
    <3> QED BY <1>5, <3>1
  <2> QED BY <2>1, <2>2
\* What was there stays.
<1> DEFINE Keeps(k) == \A i \in 1..k : a[i + 1] <= a[k + 1]
                                       /\ \A p \in 1..a[i + 1] : f[k][p] = f[i][p]
           T == {k \in Nat : k < n => Keeps(k + 1)}
<1>7. 0 \in T
  <2>1. \A i \in 1..1 : i = 1
    OBVIOUS
  <2>2. a[2] <= a[2]
    <3>1. 2 \in 1..(n + 1)
      OBVIOUS
    <3>2. a[2] \in Nat
      BY <1>3, <3>1
    <3> QED BY <3>2
  <2>3. Keeps(1)
    BY <2>1, <2>2
  <2> HIDE DEF Keeps
  <2> QED BY <2>3
<1>8. \A k \in T : k + 1 \in T
  <2> HIDE DEF Keeps
  <2> SUFFICES ASSUME NEW k \in T, k + 1 < n PROVE Keeps(k + 2)
    OBVIOUS
  <2>1. Keeps(k + 1)
    OBVIOUS
  <2> USE DEF Keeps
  <2>2. k + 2 \in 2..n /\ (k + 2) - 1 = k + 1 /\ k + 2 \in 1..(n + 1) /\ k + 3 \in 1..(n + 1)
        /\ (k + 1) + 1 = k + 2 /\ (k + 2) + 1 = k + 3
    OBVIOUS
  <2>3. a[k + 2] \in Nat /\ a[k + 3] \in Nat /\ Len(s[k + 2]) \in Nat
    BY <1>2, <1>3, <2>2
  <2>4. a[k + 3] = a[k + 2] + Len(s[k + 2]) /\ \A p \in 1..a[k + 2] : f[k + 2][p] = f[k + 1][p]
    BY <1>5, <2>2
  <2>5. a[k + 2] <= a[k + 3]
    BY <2>3, <2>4
  <2> SUFFICES ASSUME NEW i \in 1..(k + 2)
               PROVE  a[i + 1] <= a[k + 3] /\ \A p \in 1..a[i + 1] : f[k + 2][p] = f[i][p]
    BY <2>2
  <2>6. CASE i = k + 2
    BY <2>2, <2>3, <2>6
  <2>7. CASE i # k + 2
    <3>1. i \in 1..(k + 1) /\ i + 1 \in 1..(n + 1)
      BY <2>7
    <3>2. a[i + 1] <= a[k + 2] /\ \A p \in 1..a[i + 1] : f[k + 1][p] = f[i][p]
      BY <2>1, <2>2, <3>1
    <3>3. a[i + 1] \in Nat
      BY <1>3, <3>1
    <3>4. a[i + 1] <= a[k + 3] /\ \A p \in 1..a[i + 1] : p \in 1..a[k + 2]
      <4>1. PICK x, y, z : x = a[i + 1] /\ y = a[k + 2] /\ z = a[k + 3]
        OBVIOUS
      <4>2. x \in Nat /\ y \in Nat /\ z \in Nat /\ x <= y /\ y <= z
        BY <2>3, <2>5, <3>2, <3>3, <4>1
      <4>3. x <= z /\ \A p \in 1..x : p \in 1..y
        BY <4>2
      <4> QED BY <4>1, <4>3
    <3> QED BY <2>4, <3>2, <3>4
  <2> QED BY <2>6, <2>7
<1>9. Keeps(n)
  <2> HIDE DEF T
  <2>1. T \subseteq Nat
    BY DEF T
  <2>2. T = Nat
    BY <1>7, <1>8, <2>1, Induct
  <2>3. n - 1 \in T /\ n - 1 < n /\ (n - 1) + 1 = n
    BY <2>2
  <2> HIDE DEF Keeps
  <2> QED BY <2>3 DEF T
<1>10. a[n + 1] = Len(FlattenSeq(s))
  BY <1>1, <1>4
<1>11. \A i \in 1..n : \A p \in 1..Len(s[i]) : f[n][a[i] + p] = s[i][p]
  <2> SUFFICES ASSUME NEW i \in 1..n, NEW p \in 1..Len(s[i]) PROVE f[n][a[i] + p] = s[i][p]
    OBVIOUS
  <2>1. a[i] \in Nat /\ Len(s[i]) \in Nat /\ a[i + 1] = a[i] + Len(s[i])
    BY <1>2, <1>3, <1>6
  <2>2. a[i] + p \in 1..a[i + 1]
    BY <2>1
  <2>3. f[n][a[i] + p] = f[i][a[i] + p]
    BY <1>9, <2>2
  <2> QED BY <1>6, <2>3
<1>12. FlattenSeq(s) \in Seq(U) /\ \A i \in 1..n : a[i + 1] <= a[n + 1]
  <2>1. n \in 1..n
    OBVIOUS
  <2>2. \A i \in 1..n : a[i + 1] <= a[n + 1]
    BY <1>9
  <2> QED BY <1>1, <2>1, <2>2
<1> HIDE DEF Keeps, T
<1>13. \A i \in 1..n : \A p \in 1..Len(s[i]) : FlattenSeq(s)[a[i] + p] = s[i][p]
  BY <1>1, <1>11
<1>14. Placed(FlattenSeq(s), s, n, a)
  BY <1>3, <1>6, <1>10, <1>12, <1>13 DEF Placed
<1> QED BY <1>3, <1>12, <1>14

LEMMA StreamIs ==
    ASSUME NEW N, NEW C, NEW n \in Nat \ {0}, NEW e \in EntryLists(n, N, C)
    PROVE  /\ ZipStream(e) \in Seq(Units(N, C))
           /\ \E a : Layout(ZipStream(e), e, n, a)
<1> DEFINE U == Units(N, C)
           s == [i \in 1..n |-> LocalRecord(e[i])]
           c == [i \in 1..n |-> [is |-> "central"]]
           z == <<[is |-> "end"]>>
           fl == FlattenSeq(s)
<1>1. \A i \in 1..n : /\ LocalRecord(e[i]) \in Seq(U) /\ Records(LocalRecord(e[i]), e[i])
                      /\ e[i].size \in Nat
  <2> SUFFICES ASSUME NEW i \in 1..n
               PROVE  /\ LocalRecord(e[i]) \in Seq(U) /\ Records(LocalRecord(e[i]), e[i])
                      /\ e[i].size \in Nat
    OBVIOUS
  <2>1. PICK b : b = e[i]
    OBVIOUS
  <2>2. b \in [name : N, content : C, size : Nat]
    BY <2>1 DEF EntryLists
  <2>3. LocalRecord(b) \in Seq(U) /\ Records(LocalRecord(b), b)
    BY <2>2, RecordIs
  <2> QED BY <2>1, <2>2, <2>3
<1>2. c \in Seq(U) /\ z \in Seq(U) /\ Len(c) = n /\ Len(z) = 1 /\ c[1].is = "central"
  <2>1. [is |-> "central"] \in U /\ [is |-> "end"] \in U
    BY DEF Units
  <2> HIDE DEF U
  <2>2. 1 \in 1..n
    OBVIOUS
  <2>3. c \in Seq(U) /\ Len(c) = n
    BY <2>1
  <2>4. z \in Seq(U) /\ Len(z) = 1
    BY <2>1
  <2> QED BY <2>2, <2>3, <2>4
<1>3. ZipStream(e) = (fl \o c) \o z
  <2>1. DOMAIN e = 1..n
    BY DEF EntryLists
  <2> QED BY <2>1, Zenon DEF ZipStream
<1>4. s \in [1..n -> Seq(U)]
  BY <1>1
<1>5. \A i \in 1..n : s[i] = LocalRecord(e[i])
  OBVIOUS
<1> HIDE DEF U, s, c, z
<1>6. PICK a \in [1..(n + 1) -> Nat] : Placed(fl, s, n, a)
  BY <1>4, FlatLayout
<1>7. fl \in Seq(U)
  BY <1>4, FlatLayout
<1> HIDE DEF fl
<1>8. PICK t : t = fl \o c
  OBVIOUS
<1>9. /\ t \in Seq(U) /\ Len(t) = Len(fl) + n /\ Len(fl) \in Nat
      /\ \A p \in 1..Len(fl) : t[p] = fl[p]
      /\ t[Len(fl) + 1] = c[1]
  <2>1. fl \o c \in Seq(U) /\ Joined(fl \o c, fl, c)
    BY <1>2, <1>7, JoinedIs
  <2>2. 1 \in 1..n
    OBVIOUS
  <2> QED BY <1>2, <1>8, <2>1, <2>2 DEF Joined
<1>10. PICK x : x = t \o z
  OBVIOUS
<1>11. /\ x \in Seq(U) /\ Len(x) = Len(fl) + n + 1
       /\ \A p \in 1..Len(fl) : x[p] = fl[p]
       /\ x[Len(fl) + 1] = c[1]
  <2>1. t \o z \in Seq(U) /\ Joined(t \o z, t, z)
    <3>1. t \in Seq(U) /\ z \in Seq(U)
      BY <1>2, <1>9
    <3> QED BY <3>1, JoinedIs
  <2>2. Len(fl) + 1 \in 1..Len(t) /\ \A p \in 1..Len(fl) : p \in 1..Len(t)
    BY <1>9
  <2> QED BY <1>2, <1>9, <1>10, <2>1, <2>2 DEF Joined
<1>12. \A i \in 1..n :
         /\ a[i + 1] = a[i] + 3 + e[i].size
         /\ x[a[i] + 1].is = "local" /\ x[a[i] + 2].size = e[i].size /\ x[a[i] + 3].name = e[i].name
         /\ \A p \in 1..e[i].size : x[a[i] + 3 + p].content = e[i].content
  <2> SUFFICES ASSUME NEW i \in 1..n
               PROVE  /\ a[i + 1] = a[i] + 3 + e[i].size
                      /\ x[a[i] + 1].is = "local" /\ x[a[i] + 2].size = e[i].size
                      /\ x[a[i] + 3].name = e[i].name
                      /\ \A p \in 1..e[i].size : x[a[i] + 3 + p].content = e[i].content
    OBVIOUS
  <2>1. PICK at, size, m, r : at = a[i] /\ size = e[i].size /\ m = Len(fl) /\ r = LocalRecord(e[i])
    OBVIOUS
  <2>2. i + 1 \in 1..(n + 1) /\ i \in 1..(n + 1)
    OBVIOUS
  <2>3. at \in Nat /\ size \in Nat /\ m \in Nat /\ Records(r, e[i]) /\ s[i] = r /\ a[i + 1] \in Nat
    BY <1>1, <1>5, <1>9, <2>1, <2>2
  <2>4. Len(r) = 3 + size
    BY <2>1, <2>3 DEF Records
  <2>5. a[i + 1] = at + (3 + size) /\ at + (3 + size) <= m
        /\ \A p \in 1..(3 + size) : fl[at + p] = r[p]
    <3>1. /\ a[n + 1] = m /\ a[i + 1] = at + Len(r) /\ a[i + 1] <= a[n + 1]
          /\ \A p \in 1..Len(r) : fl[at + p] = r[p]
      BY <1>6, <2>1, <2>3 DEF Placed
    <3> QED BY <2>3, <2>4, <3>1
  <2>6. \A p \in 1..(3 + size) : at + p \in 1..m
    BY <2>3, <2>5
  <2>7. \A p \in 1..(3 + size) : x[at + p] = r[p]
    BY <1>11, <2>1, <2>5, <2>6
  <2>8. 1 \in 1..(3 + size) /\ 2 \in 1..(3 + size) /\ 3 \in 1..(3 + size)
        /\ \A p \in 1..size : 3 + p \in 1..(3 + size) /\ at + 3 + p = at + (3 + p)
    BY <2>3
  <2>9. x[at + 1].is = "local" /\ x[at + 2].size = size /\ x[at + 3].name = e[i].name
    BY <2>1, <2>3, <2>7, <2>8 DEF Records
  <2>10. \A p \in 1..size : x[at + 3 + p].content = e[i].content
    <3>1. \A p \in 1..size : r[3 + p].content = e[i].content
      BY <2>1, <2>3 DEF Records
    <3>2. \A p \in 1..size : x[at + (3 + p)] = r[3 + p]
      BY <2>7, <2>8
    <3> QED BY <2>8, <3>1, <3>2
  <2>11. a[i + 1] = at + 3 + size
    BY <2>3, <2>5
  <2> QED BY <2>1, <2>9, <2>10, <2>11
<1>14. a[1] = 0 /\ a[n + 1] < Len(x) /\ x[a[n + 1] + 1].is # "local"
  <2>1. a[1] = 0 /\ a[n + 1] = Len(fl)
    BY <1>6 DEF Placed
  <2> QED BY <1>2, <1>9, <1>11, <2>1
<1>15. Layout(x, e, n, a)
  BY <1>6, <1>12, <1>14 DEF Layout
<1> QED BY <1>3, <1>8, <1>10, <1>11, <1>15 DEF U

\* After the signature of a record come its sizes.
Sized(s) ==
    \A p \in 1..Len(s) : s[p].is = "local" => p + 1 <= Len(s) /\ s[p + 1].size \in Nat

\* The same, of a file that may be cut.
Scannable(b) ==
    /\ Len(b) \in Nat
    /\ \A p \in 1..Len(b) : b[p].is = "local" /\ p + 1 <= Len(b) => b[p + 1].size \in Nat

LEMMA SizedConcat ==
    ASSUME NEW U, NEW s \in Seq(U), NEW t \in Seq(U), Sized(s), Sized(t)
    PROVE  Sized(s \o t)
<1>1. PICK m, n, x : m = Len(s) /\ n = Len(t) /\ x = s \o t
  OBVIOUS
<1>2. /\ m \in Nat /\ n \in Nat /\ Len(x) = m + n
      /\ \A p \in 1..m : x[p] = s[p]
      /\ \A p \in 1..n : x[m + p] = t[p]
  <2>1. Joined(s \o t, s, t)
    BY JoinedIs
  <2> QED BY <1>1, <2>1 DEF Joined
<1> SUFFICES ASSUME NEW p \in 1..(m + n), x[p].is = "local"
             PROVE  p + 1 <= m + n /\ x[p + 1].size \in Nat
  BY <1>1, <1>2 DEF Sized
<1>3. CASE p <= m
  <2>1. p \in 1..m
    BY <1>2, <1>3
  <2>2. s[p].is = "local"
    BY <1>2, <2>1
  <2>3. p + 1 <= m /\ s[p + 1].size \in Nat
    BY <1>1, <2>1, <2>2 DEF Sized
  <2>4. p + 1 \in 1..m
    BY <1>2, <2>1, <2>3
  <2>5. x[p + 1] = s[p + 1]
    BY <1>2, <2>4
  <2> QED BY <1>2, <2>3, <2>5
<1>4. CASE ~(p <= m)
  <2>1. p - m \in 1..n /\ m + (p - m) = p /\ m + ((p - m) + 1) = p + 1
    BY <1>2, <1>4
  <2>2. x[p] = t[p - m]
    BY <1>2, <2>1
  <2>3. (p - m) + 1 <= n /\ t[(p - m) + 1].size \in Nat
    BY <1>1, <2>1, <2>2 DEF Sized
  <2>4. (p - m) + 1 \in 1..n
    BY <1>2, <2>1, <2>3
  <2>5. x[p + 1] = t[(p - m) + 1]
    BY <1>2, <2>1, <2>4
  <2> QED BY <1>2, <2>1, <2>3, <2>5
<1> QED BY <1>3, <1>4

LEMMA FlatSized ==
    ASSUME NEW U, NEW n \in Nat \ {0}, NEW s \in [1..n -> Seq(U)], \A i \in 1..n : Sized(s[i])
    PROVE  Sized(FlattenSeq(s))
<1>1. PICK f \in [1..n -> Seq(U)] : Flattening(f, s, n)
  BY FlattenIs
<1> DEFINE Good(k) == Sized(f[k + 1])
           P == {k \in Nat : k < n => Good(k)}
<1>2. 0 \in P
  <2>1. 1 \in 1..n
    OBVIOUS
  <2>2. Sized(f[1])
    BY <1>1, <2>1 DEF Flattening
  <2> QED BY <2>2
<1>3. \A k \in P : k + 1 \in P
  <2> HIDE DEF Good
  <2> SUFFICES ASSUME NEW k \in P, k + 1 < n PROVE Good(k + 1)
    OBVIOUS
  <2> USE DEF Good
  <2>1. k + 2 \in 2..n /\ k + 2 \in 1..n /\ (k + 2) - 1 = k + 1 /\ k + 1 \in 1..n
    OBVIOUS
  <2>2. PICK t, u : t = f[k + 1] /\ u = s[k + 2]
    OBVIOUS
  <2>3. t \in Seq(U) /\ u \in Seq(U) /\ Sized(t) /\ Sized(u)
    BY <2>1, <2>2
  <2>4. Sized(t \o u)
    BY <2>3, SizedConcat
  <2>5. f[k + 2] = t \o u
    BY <1>1, <2>1, <2>2 DEF Flattening
  <2>6. k + 1 + 1 = k + 2
    OBVIOUS
  <2> QED BY <2>4, <2>5, <2>6
<1>4. n - 1 \in P /\ n - 1 < n /\ (n - 1) + 1 = n
  <2> HIDE DEF P
  <2>1. P \subseteq Nat
    BY DEF P
  <2>2. P = Nat
    BY <1>2, <1>3, <2>1, Induct
  <2> QED BY <2>2
<1>5. Sized(f[n])
  BY <1>4
<1> QED BY <1>1, <1>5 DEF Flattening

\* What the reader makes of an offset depends on later offsets only.
LEMMA LaterOnly ==
    ASSUME NEW b, Scannable(b), NEW o \in 0..Len(b), NEW f, NEW g,
           \A p \in (o + 1)..Len(b) : f[p] = g[p]
    PROVE  ExtractAt(b, o, f) = ExtractAt(b, o, g)
<1>1. PICK n : n = Len(b)
  OBVIOUS
<1>2. n \in Nat /\ o \in 0..n
  BY <1>1 DEF Scannable
<1>3. CASE o + 1 > n \/ b[o + 1].is # "local"
  BY <1>1, <1>3 DEF ExtractAt
<1>4. CASE ~(o + 1 > n \/ b[o + 1].is # "local") /\ o + 2 > n
  BY <1>1, <1>4 DEF ExtractAt, HeaderUnits
<1>5. CASE ~(o + 1 > n \/ b[o + 1].is # "local") /\ ~(o + 2 > n)
  <2>1. PICK size : size = b[o + 2].size
    OBVIOUS
  <2>2. size \in Nat
    <3>1. o + 1 \in 1..n /\ (o + 1) + 1 = o + 2 /\ (o + 1) + 1 <= n
      BY <1>2, <1>5
    <3> QED BY <1>1, <1>5, <2>1, <3>1 DEF Scannable
  <2>3. o + 2 + 1 + size > n \/ o + 2 + 1 + size \in (o + 1)..n
    BY <1>2, <2>2
  <2>4. (IF o + 2 + 1 + size > n THEN NoFiles ELSE f[o + 2 + 1 + size])
        = (IF o + 2 + 1 + size > n THEN NoFiles ELSE g[o + 2 + 1 + size])
    BY <1>1, <2>3
  <2> QED BY <1>1, <1>5, <2>1, <2>4 DEF ExtractAt, HeaderUnits, NameUnits
<1> QED BY <1>3, <1>4, <1>5

\* ExtractStoredZip is defined by recursion; this is the equation it satisfies.
Reading(f, b) == f = [o \in 0..Len(b) |-> ExtractAt(b, o, f)]

LEMMA ReaderIs ==
    ASSUME NEW b, Scannable(b)
    PROVE  \E f : Reading(f, b) /\ ExtractStoredZip(b) = f[0]
<1>1. PICK n : n = Len(b)
  OBVIOUS
<1>2. n \in Nat
  BY <1>1 DEF Scannable
<1> DEFINE Begun(k) == \E g : \A o \in (n - k)..n : g[o] = ExtractAt(b, o, g)
           T == {k \in Nat : k <= n => Begun(k)}
<1>3. 0 \in T
  <2> DEFINE g == [o \in 0..n |-> NoFiles]
  <2>1. \A o \in (n - 0)..n : o = n /\ o \in 0..n
    BY <1>2
  <2>2. ExtractAt(b, n, g) = NoFiles
    BY <1>1, <1>2 DEF ExtractAt
  <2>3. g[n] = NoFiles
    BY <1>2
  <2> HIDE DEF g
  <2>4. \A o \in (n - 0)..n : g[o] = ExtractAt(b, o, g)
    BY <2>1, <2>2, <2>3
  <2>5. Begun(0)
    BY <2>4
  <2> HIDE DEF Begun
  <2> QED BY <2>5
<1>4. \A k \in T : k + 1 \in T
  <2> HIDE DEF Begun
  <2> SUFFICES ASSUME NEW k \in T, k + 1 <= n PROVE Begun(k + 1)
    OBVIOUS
  <2>1. Begun(k) /\ k \in Nat
    BY <1>2
  <2>2. PICK g : \A o \in (n - k)..n : g[o] = ExtractAt(b, o, g)
    BY <2>1 DEF Begun
  <2>3. PICK m : m = n - (k + 1)
    OBVIOUS
  <2>4. m \in 0..n /\ m + 1 = n - k
    BY <1>2, <2>1, <2>3
  <2> DEFINE h == [o \in 0..n |-> IF o = m THEN ExtractAt(b, m, g) ELSE g[o]]
  <2>5. \A o \in (m + 1)..n : o \in 0..n /\ o # m
    BY <1>2, <2>4
  <2>6. h[m] = ExtractAt(b, m, g) /\ \A o \in (m + 1)..n : h[o] = g[o]
    BY <2>4, <2>5
  <2> HIDE DEF h
  <2>7. \A o \in m..n : ExtractAt(b, o, h) = ExtractAt(b, o, g)
    <3> SUFFICES ASSUME NEW o \in m..n PROVE ExtractAt(b, o, h) = ExtractAt(b, o, g)
      OBVIOUS
    <3>1. o \in 0..n /\ \A p \in (o + 1)..n : p \in (m + 1)..n
      BY <1>2, <2>4
    <3>2. \A p \in (o + 1)..n : h[p] = g[p]
      BY <2>6, <3>1
    <3> QED BY <1>1, <3>1, <3>2, LaterOnly
  <2>8. \A o \in m..n : o = m \/ o \in (m + 1)..n
    BY <1>2, <2>4
  <2>9. \A o \in m..n : h[o] = ExtractAt(b, o, h)
    BY <2>2, <2>4, <2>6, <2>7, <2>8
  <2> QED BY <2>3, <2>9 DEF Begun
<1>5. n \in T
  <2> HIDE DEF T
  <2>1. T \subseteq Nat
    BY DEF T
  <2> QED BY <1>2, <1>3, <1>4, <2>1, Induct
<1>6. PICK g : \A o \in 0..n : g[o] = ExtractAt(b, o, g)
  <2>1. n <= n /\ n - n = 0
    BY <1>2
  <2>2. Begun(n)
    BY <1>5, <2>1
  <2> QED BY <2>1, <2>2
<1> HIDE DEF T, Begun
<1>7. \E f : Reading(f, b)
  <2> DEFINE f == [o \in 0..n |-> g[o]]
  <2>1. \A o \in 0..n : f[o] = g[o]
    OBVIOUS
  <2>2. f = [o \in 0..n |-> ExtractAt(b, o, g)]
    BY <1>6
  <2> HIDE DEF f
  <2>3. \A o \in 0..n : ExtractAt(b, o, f) = ExtractAt(b, o, g)
    <3> SUFFICES ASSUME NEW o \in 0..n PROVE ExtractAt(b, o, f) = ExtractAt(b, o, g)
      OBVIOUS
    <3>1. \A p \in (o + 1)..n : p \in 0..n
      BY <1>2
    <3>2. \A p \in (o + 1)..n : f[p] = g[p]
      BY <2>1, <3>1
    <3> QED BY <1>1, <3>2, LaterOnly
  <2>4. f = [o \in 0..n |-> ExtractAt(b, o, f)]
    BY <2>2, <2>3
  <2> QED BY <1>1, <2>4 DEF Reading
<1> DEFINE F == CHOOSE f : f = [o \in 0..Len(b) |-> ExtractAt(b, o, f)]
<1>8. Reading(F, b)
  BY <1>7 DEF Reading
<1>9. ExtractStoredZip(b) = F[0]
  BY Zenon DEF ExtractStoredZip
<1> QED BY <1>8, <1>9

LEMMA RecordSized ==
    ASSUME NEW N, NEW C, NEW e \in [name : N, content : C, size : Nat]
    PROVE  Sized(LocalRecord(e))
<1> DEFINE U == Units(N, C)
           h == <<[is |-> "local"], [is |-> "sizes", size |-> e.size], [is |-> "name", name |-> e.name]>>
           x == [is |-> "data", content |-> e.content]
           d == [i \in 1 .. e.size |-> x]
<1>1. [is |-> "local"] \in U /\ [is |-> "sizes", size |-> e.size] \in U
      /\ [is |-> "name", name |-> e.name] \in U /\ x \in U /\ e.size \in Nat
  BY DEF Units
<1>2. h \in Seq(U) /\ Len(h) = 3
  BY <1>1
<1>3. d \in Seq(U) /\ Len(d) = e.size
  <2> HIDE DEF U, x
  <2> QED BY <1>1
<1>4. Sized(h)
  <2>1. h[2].is # "local" /\ h[3].is # "local" /\ h[2].size = e.size
    OBVIOUS
  <2>2. \A p \in 1..3 : p = 1 \/ p = 2 \/ p = 3
    OBVIOUS
  <2> HIDE DEF h
  <2> QED BY <1>1, <1>2, <2>1, <2>2 DEF Sized
<1>5. Sized(d)
  <2>1. \A p \in 1..e.size : d[p].is # "local"
    OBVIOUS
  <2> HIDE DEF d
  <2> QED BY <1>3, <2>1 DEF Sized
<1>6. LocalRecord(e) = h \o d
  BY DEF LocalRecord
<1> HIDE DEF h, d, U
<1> QED BY <1>2, <1>3, <1>4, <1>5, <1>6, SizedConcat

LEMMA StreamSized ==
    ASSUME NEW N, NEW C, NEW n \in Nat \ {0}, NEW e \in EntryLists(n, N, C)
    PROVE  Sized(ZipStream(e))
<1> DEFINE U == Units(N, C)
           s == [i \in 1..n |-> LocalRecord(e[i])]
           c == [i \in 1..n |-> [is |-> "central"]]
           z == <<[is |-> "end"]>>
<1>1. \A i \in 1..n : LocalRecord(e[i]) \in Seq(U) /\ Sized(LocalRecord(e[i]))
  <2> SUFFICES ASSUME NEW i \in 1..n
               PROVE  LocalRecord(e[i]) \in Seq(U) /\ Sized(LocalRecord(e[i]))
    OBVIOUS
  <2>1. PICK b : b = e[i]
    OBVIOUS
  <2>2. b \in [name : N, content : C, size : Nat]
    BY <2>1 DEF EntryLists
  <2>3. LocalRecord(b) \in Seq(U) /\ Sized(LocalRecord(b))
    BY <2>2, RecordIs, RecordSized
  <2> QED BY <2>1, <2>3
<1>2. c \in Seq(U) /\ z \in Seq(U) /\ Sized(c) /\ Sized(z)
  <2>1. [is |-> "central"] \in U /\ [is |-> "end"] \in U
    BY DEF Units
  <2> HIDE DEF U
  <2>2. c \in Seq(U) /\ Len(c) = n /\ \A p \in 1..n : c[p].is # "local"
    BY <2>1
  <2>3. z \in Seq(U) /\ Len(z) = 1 /\ \A p \in 1..1 : z[p].is # "local"
    BY <2>1
  <2> HIDE DEF c, z
  <2> QED BY <2>2, <2>3 DEF Sized
<1>3. ZipStream(e) = (FlattenSeq(s) \o c) \o z
  <2>1. DOMAIN e = 1..n
    BY DEF EntryLists
  <2> QED BY <2>1, Zenon DEF ZipStream
<1>4. s \in [1..n -> Seq(U)] /\ \A i \in 1..n : Sized(s[i])
  BY <1>1
<1> HIDE DEF U, s, c, z
<1>5. PICK t : t = FlattenSeq(s)
  OBVIOUS
<1>6. t \in Seq(U) /\ Sized(t)
  <2>1. FlattenSeq(s) \in Seq(U)
    BY <1>4, FlatLayout
  <2>2. Sized(FlattenSeq(s))
    BY <1>4, FlatSized
  <2> QED BY <1>5, <2>1, <2>2
<1>7. PICK x : x = t \o c
  OBVIOUS
<1>8. x \in Seq(U) /\ Sized(x)
  <2>1. t \o c \in Seq(U) /\ Sized(t \o c)
    BY <1>2, <1>6, JoinedIs, SizedConcat
  <2> QED BY <1>7, <2>1
<1>9. Sized(x \o z)
  BY <1>2, <1>8, SizedConcat
<1> QED BY <1>3, <1>5, <1>7, <1>9

\* What is left of a stream that was cut, and of a whole one.
BeginsWith(b, s) == Len(b) \in 0..Len(s) /\ \A p \in 1..Len(b) : b[p] = s[p]

LEMMA BeginningScannable ==
    ASSUME NEW U, NEW s \in Seq(U), Sized(s), NEW b, BeginsWith(b, s)
    PROVE  Scannable(b)
<1>1. PICK m, n : m = Len(b) /\ n = Len(s)
  OBVIOUS
<1>2. n \in Nat /\ m \in 0..n
  BY <1>1 DEF BeginsWith
<1> SUFFICES ASSUME NEW p \in 1..m, b[p].is = "local", p + 1 <= m
             PROVE  b[p + 1].size \in Nat
  BY <1>1, <1>2 DEF Scannable
<1>3. p + 1 \in 1..m /\ p \in 1..n
  BY <1>2
<1> QED BY <1>1, <1>3 DEF BeginsWith, Sized

\* The names of the entries from the i-th on.
NamesFrom(e, i, n) == {e[j].name : j \in i..n}

\* No two entries have one name, none the name NoFile, and only the fixed
\* content is empty; what is extracted is never taken for NoFile.
Distinct(e, n, N, C) ==
    /\ \A j, k \in 1..n : e[j].name = e[k].name => j = k
    /\ \A j \in 1..n : e[j].size = 0 => e[j].content = Fixed
    /\ NoFile \notin N
    /\ \A D \in SUBSET N : NoFile \notin [D -> C]

\* What may be extracted of the entries from the i-th on, and what all of them are.
Partly(t, e, i, n) ==
    /\ DOMAIN t \subseteq NamesFrom(e, i, n)
    /\ \A j \in i..n : e[j].name \in DOMAIN t /\ e[j].size # 0
                         => t[e[j].name] \in {e[j].content, Severed}
Wholly(t, e, i, n, C) ==
    /\ t \in [NamesFrom(e, i, n) -> C]
    /\ \A j \in i..n : t[e[j].name] = e[j].content

\* One more file.
LEMMA WithPartly ==
    ASSUME NEW n \in Nat, NEW i \in 1..n, NEW e, NEW t, NEW v, Partly(t, e, i + 1, n),
           \A j, k \in 1..n : e[j].name = e[k].name => j = k,
           e[i].size # 0 => v \in {e[i].content, Severed}
    PROVE  Partly(With(t, e[i].name, v), e, i, n)
<1>1. PICK u : u = With(t, e[i].name, v)
  OBVIOUS
<1>2. /\ DOMAIN u = DOMAIN t \cup {e[i].name} /\ u[e[i].name] = v
      /\ \A x \in DOMAIN t : x # e[i].name => u[x] = t[x]
  BY <1>1 DEF With
<1>3. \A j \in i..n : j = i \/ j \in (i + 1)..n
  OBVIOUS
<1>4. \A j \in (i + 1)..n : j \in i..n /\ j \in 1..n /\ j # i
  OBVIOUS
<1>5. i \in i..n
  OBVIOUS
<1>6. DOMAIN u \subseteq NamesFrom(e, i, n)
  BY <1>2, <1>4, <1>5 DEF Partly, NamesFrom
<1>7. ASSUME NEW j \in i..n, e[j].name \in DOMAIN u, e[j].size # 0
      PROVE  u[e[j].name] \in {e[j].content, Severed}
  <2>1. CASE j = i
    BY <1>2, <1>7, <2>1
  <2>2. CASE j \in (i + 1)..n
    <3>1. e[j].name # e[i].name
      BY <1>4, <2>2
    <3>2. e[j].name \in DOMAIN t
      BY <1>2, <1>7, <3>1
    <3>3. u[e[j].name] = t[e[j].name]
      BY <1>2, <3>1, <3>2
    <3> QED BY <1>7, <2>2, <3>2, <3>3 DEF Partly
  <2> QED BY <1>3, <2>1, <2>2
<1> QED BY <1>1, <1>6, <1>7 DEF Partly

LEMMA WithWholly ==
    ASSUME NEW n \in Nat, NEW i \in 1..n, NEW e, NEW C, NEW t, Wholly(t, e, i + 1, n, C),
           \A j, k \in 1..n : e[j].name = e[k].name => j = k, e[i].content \in C
    PROVE  Wholly(With(t, e[i].name, e[i].content), e, i, n, C)
<1>1. PICK u, D : u = With(t, e[i].name, e[i].content) /\ D = NamesFrom(e, i + 1, n)
  OBVIOUS
<1>2. t \in [D -> C]
  BY <1>1 DEF Wholly
<1>3. /\ u \in [D \cup {e[i].name} -> C] /\ u[e[i].name] = e[i].content
      /\ \A x \in D : x # e[i].name => u[x] = t[x]
  BY <1>1, <1>2 DEF With
<1>4. \A j \in i..n : j = i \/ j \in (i + 1)..n
  OBVIOUS
<1>5. \A j \in (i + 1)..n : j \in i..n /\ j \in 1..n /\ j # i
  OBVIOUS
<1>6. i \in i..n
  OBVIOUS
<1>7. NamesFrom(e, i, n) = D \cup {e[i].name}
  BY <1>1, <1>4, <1>5, <1>6 DEF NamesFrom
<1>8. ASSUME NEW j \in i..n PROVE u[e[j].name] = e[j].content
  <2>1. CASE j = i
    BY <1>3, <2>1
  <2>2. CASE j \in (i + 1)..n
    <3>1. e[j].name # e[i].name
      BY <1>5, <2>2
    <3>2. e[j].name \in D
      BY <1>1, <2>2 DEF NamesFrom
    <3>3. u[e[j].name] = t[e[j].name]
      BY <1>3, <3>1, <3>2
    <3> QED BY <2>2, <3>3 DEF Wholly
  <2> QED BY <1>4, <2>1, <2>2
<1>9. u \in [NamesFrom(e, i, n) -> C]
  BY <1>3, <1>7
<1> QED BY <1>1, <1>8, <1>9 DEF Wholly

\* What the reader makes of the record of the i-th entry.
LEMMA RecordRead ==
    ASSUME NEW n \in Nat \ {0}, NEW N, NEW C, NEW e \in EntryLists(n, N, C), NEW s, NEW a,
           Layout(s, e, n, a), NEW b, BeginsWith(b, s), NEW later, NoFile \notin N,
           NEW i \in 1..n, a[i] <= Len(b)
    PROVE  \/ /\ ExtractAt(b, a[i], later) \in {NoFiles, NoFile}
              /\ a[i] + 3 + e[i].size > Len(b)
           \/ LET rest == IF a[i + 1] > Len(b) THEN NoFiles ELSE later[a[i + 1]]
                  read == IF e[i].size = 0 THEN Fixed
                          ELSE IF a[i + 1] <= Len(b) THEN e[i].content ELSE Severed
              IN  ExtractAt(b, a[i], later)
                    = IF rest = NoFile THEN NoFile ELSE With(rest, e[i].name, read)
<1>1. PICK at, size, m, name :
        at = a[i] /\ size = e[i].size /\ m = Len(b) /\ name = e[i].name
  OBVIOUS
<1>2. i \in 1..(n + 1) /\ i + 1 \in 1..(n + 1)
  OBVIOUS
<1>3. at \in Nat /\ size \in Nat /\ m \in Nat /\ name \in N /\ a[i + 1] = at + 3 + size /\ at <= m
  <2>1. e[i] \in [name : N, content : C, size : Nat]
    BY DEF EntryLists
  <2>2. a[i] \in Nat /\ a[i + 1] = a[i] + 3 + e[i].size
    BY <1>2 DEF Layout
  <2>3. m \in Nat
    BY <1>1 DEF BeginsWith
  <2> QED BY <1>1, <2>1, <2>2, <2>3
<1>4. /\ at + 1 <= m => b[at + 1].is = "local"
      /\ at + 2 <= m => b[at + 2].size = size
      /\ at + 3 <= m => b[at + 3].name = name
      /\ \A p \in 1..size : at + 3 + p <= m => b[at + 3 + p].content = e[i].content
  <2>1. \A p \in Nat : 1 <= p /\ p <= m => b[p] = s[p]
    BY <1>1, <1>3 DEF BeginsWith
  <2>2. /\ s[at + 1].is = "local" /\ s[at + 2].size = size /\ s[at + 3].name = name
        /\ \A p \in 1..size : s[at + 3 + p].content = e[i].content
    BY <1>1 DEF Layout
  <2>3. /\ at + 1 \in Nat /\ at + 2 \in Nat /\ at + 3 \in Nat
        /\ 1 <= at + 1 /\ 1 <= at + 2 /\ 1 <= at + 3
        /\ \A p \in 1..size : at + 3 + p \in Nat /\ 1 <= at + 3 + p
    BY <1>3
  <2> QED BY <2>1, <2>2, <2>3
<1>5. CASE at + 1 > m
  <2>1. ExtractAt(b, at, later) = NoFiles
    BY <1>1, <1>5 DEF ExtractAt
  <2>2. at + 3 + size > m
    BY <1>3, <1>5
  <2> QED BY <1>1, <2>1, <2>2
<1>6. CASE ~(at + 1 > m) /\ at + 2 > m
  <2>1. ExtractAt(b, at, later) = NoFile
    BY <1>1, <1>3, <1>4, <1>6 DEF ExtractAt, HeaderUnits
  <2>2. at + 3 + size > m
    BY <1>3, <1>6
  <2> QED BY <1>1, <2>1, <2>2
<1>7. CASE ~(at + 1 > m) /\ ~(at + 2 > m)
  <2>1. b[at + 1].is = "local" /\ b[at + 2].size = size
    BY <1>3, <1>4, <1>7
  <2>2. PICK found, rest :
          /\ found = IF at + 2 + 1 > m THEN NoFile ELSE b[at + 2 + 1].name
          /\ rest = IF at + 2 + 1 + size > m THEN NoFiles ELSE later[at + 2 + 1 + size]
    OBVIOUS
  <2>3. ExtractAt(b, at, later) = IF found = NoFile \/ rest = NoFile THEN NoFile
                                  ELSE With(rest, found, DataAt(b, at + 2 + 1, size))
    BY <1>1, <1>7, <2>1, <2>2 DEF ExtractAt, HeaderUnits, NameUnits
  <2>4. at + 2 + 1 = at + 3
    BY <1>3
  <2>5. CASE at + 3 > m
    <3>1. ExtractAt(b, at, later) = NoFile
      BY <2>2, <2>3, <2>4, <2>5
    <3>2. at + 3 + size > m
      BY <1>3, <2>5
    <3> QED BY <1>1, <3>1, <3>2
  <2>6. CASE ~(at + 3 > m)
    <3>1. found = name /\ found # NoFile
      BY <1>3, <1>4, <2>2, <2>4, <2>6
    <3>2. rest = IF a[i + 1] > m THEN NoFiles ELSE later[a[i + 1]]
      BY <1>3, <2>2, <2>4
    <3>3. DataAt(b, at + 3, size) = IF size = 0 THEN Fixed
                                    ELSE IF a[i + 1] <= m THEN e[i].content ELSE Severed
      <4>1. size # 0 /\ at + 3 + size <= m => b[at + 3 + 1].content = e[i].content
        <5> SUFFICES ASSUME size # 0, at + 3 + size <= m
                     PROVE  b[at + 3 + 1].content = e[i].content
          OBVIOUS
        <5>1. 1 \in 1..size /\ at + 3 + 1 <= m
          BY <1>3
        <5> QED BY <1>4, <5>1
      <4> QED BY <1>1, <1>3, <4>1 DEF DataAt
    <3>4. ExtractAt(b, at, later)
            = IF rest = NoFile THEN NoFile ELSE With(rest, name, DataAt(b, at + 3, size))
      BY <2>3, <2>4, <3>1
    <3> QED BY <1>1, <3>2, <3>3, <3>4
  <2> QED BY <2>5, <2>6
<1> QED BY <1>5, <1>6, <1>7

\* However much of a stream is left, each extracted file is one of its entries,
\* whole or cut.
LEMMA ReadPart ==
    ASSUME NEW n \in Nat \ {0}, NEW N, NEW C, NEW e \in EntryLists(n, N, C), NEW s, NEW a,
           Layout(s, e, n, a), NEW b, BeginsWith(b, s), Distinct(e, n, N, C),
           NEW f, Reading(f, b)
    PROVE  f[0] = NoFile \/ Partly(f[0], e, 1, n)
<1>1. PICK m : m = Len(b)
  OBVIOUS
<1>2. m \in Nat
  BY <1>1 DEF BeginsWith
<1>3. \A o \in 0..m : f[o] = ExtractAt(b, o, f)
  BY <1>1 DEF Reading
<1> DEFINE Good(i) == a[i] <= m => f[a[i]] = NoFile \/ Partly(f[a[i]], e, i, n)
           T == {k \in Nat : k <= n => Good(n + 1 - k)}
<1> HIDE DEF Good
<1>4. \A i \in 1..(n + 1) : Partly(NoFiles, e, i, n)
  BY DEF Partly, NoFiles, NamesFrom
<1>5. 0 \in T
  <2>1. Good(n + 1)
    <3>1. a[n + 1] \in Nat /\ s[a[n + 1] + 1].is # "local"
      BY DEF Layout
    <3>2. PICK o : o = a[n + 1]
      OBVIOUS
    <3>3. ASSUME o <= m PROVE f[o] = NoFiles
      <4>1. o \in 0..m
        BY <1>2, <3>1, <3>2, <3>3
      <4>2. o + 1 > Len(b) \/ b[o + 1].is # "local"
        <5>1. CASE o + 1 > m
          BY <1>1, <5>1
        <5>2. CASE ~(o + 1 > m)
          <6>1. o + 1 \in 1..m
            BY <1>2, <4>1, <5>2
          <6>2. b[o + 1] = s[o + 1]
            BY <1>1, <6>1 DEF BeginsWith
          <6> QED BY <3>1, <3>2, <6>2
        <5> QED BY <5>1, <5>2
      <4>3. ExtractAt(b, o, f) = NoFiles
        BY <4>2 DEF ExtractAt
      <4> QED BY <1>3, <4>1, <4>3
    <3>4. n + 1 \in 1..(n + 1)
      OBVIOUS
    <3> QED BY <1>4, <3>2, <3>3, <3>4 DEF Good
  <2>2. n + 1 - 0 = n + 1
    OBVIOUS
  <2> QED BY <2>1, <2>2
<1>6. ASSUME NEW i \in 1..n, Good(i + 1) PROVE Good(i)
  <2> SUFFICES ASSUME a[i] <= m, f[a[i]] # NoFile PROVE Partly(f[a[i]], e, i, n)
    BY DEF Good
  <2>1. i \in 1..(n + 1) /\ i + 1 \in 1..(n + 1)
    OBVIOUS
  <2>2. a[i] \in Nat /\ a[i + 1] \in Nat
    BY <2>1 DEF Layout
  <2>3. f[a[i]] = ExtractAt(b, a[i], f)
    BY <1>2, <1>3, <2>2
  <2>4. NoFile \notin N /\ \A j, k \in 1..n : e[j].name = e[k].name => j = k
    BY DEF Distinct
  <2>5. PICK rest, read :
          /\ rest = IF a[i + 1] > Len(b) THEN NoFiles ELSE f[a[i + 1]]
          /\ read = IF e[i].size = 0 THEN Fixed
                    ELSE IF a[i + 1] <= Len(b) THEN e[i].content ELSE Severed
    OBVIOUS
  <2>6. \/ ExtractAt(b, a[i], f) \in {NoFiles, NoFile}
        \/ ExtractAt(b, a[i], f) = IF rest = NoFile THEN NoFile ELSE With(rest, e[i].name, read)
    <3>1. a[i] <= Len(b)
      BY <1>1
    <3> QED BY <2>4, <2>5, <3>1, RecordRead
  <2>7. CASE ExtractAt(b, a[i], f) \in {NoFiles, NoFile}
    BY <1>4, <2>1, <2>3, <2>7
  <2>8. CASE ExtractAt(b, a[i], f) = IF rest = NoFile THEN NoFile ELSE With(rest, e[i].name, read)
    <3>1. rest # NoFile /\ f[a[i]] = With(rest, e[i].name, read)
      BY <2>3, <2>8
    <3>2. Partly(rest, e, i + 1, n)
      <4>1. CASE a[i + 1] > m
        BY <1>1, <1>4, <2>1, <2>5, <4>1
      <4>2. CASE ~(a[i + 1] > m)
        <5>1. rest = f[a[i + 1]] /\ a[i + 1] <= m
          BY <1>1, <1>2, <2>2, <2>5, <4>2
        <5> QED BY <1>6, <3>1, <5>1 DEF Good
      <4> QED BY <4>1, <4>2
    <3>3. e[i].size # 0 => read \in {e[i].content, Severed}
      BY <2>5
    <3>4. Partly(With(rest, e[i].name, read), e, i, n)
      BY <2>4, <3>2, <3>3, WithPartly
    <3> QED BY <3>1, <3>4
  <2> QED BY <2>6, <2>7, <2>8
<1>7. \A k \in T : k + 1 \in T
  <2> SUFFICES ASSUME NEW k \in T, k + 1 <= n PROVE Good(n + 1 - (k + 1))
    OBVIOUS
  <2>1. Good(n + 1 - k)
    OBVIOUS
  <2>2. n + 1 - (k + 1) \in 1..n /\ (n + 1 - (k + 1)) + 1 = n + 1 - k
    OBVIOUS
  <2> QED BY <1>6, <2>1, <2>2
<1>8. Good(1)
  <2> HIDE DEF T
  <2>1. T \subseteq Nat
    BY DEF T
  <2>2. n \in T
    BY <1>5, <1>7, <2>1, Induct
  <2>3. n <= n /\ n + 1 - n = 1
    OBVIOUS
  <2> QED BY <2>2, <2>3 DEF T
<1>9. a[1] = 0
  BY DEF Layout
<1> QED BY <1>2, <1>8, <1>9 DEF Good

\* Of a whole stream the reader makes all its entries.
LEMMA ReadWhole ==
    ASSUME NEW n \in Nat \ {0}, NEW N, NEW C, NEW e \in EntryLists(n, N, C), NEW s, NEW a,
           Layout(s, e, n, a), Len(s) \in Nat, Distinct(e, n, N, C), NEW f, Reading(f, s)
    PROVE  f[0] # NoFile /\ Wholly(f[0], e, 1, n, C)
<1>1. PICK m : m = Len(s) /\ m \in Nat
  OBVIOUS
<1>2. BeginsWith(s, s)
  BY <1>1 DEF BeginsWith
<1>3. \A o \in 0..m : f[o] = ExtractAt(s, o, f)
  BY <1>1 DEF Reading
<1> DEFINE Good(i) == a[i] <= m => f[a[i]] # NoFile /\ Wholly(f[a[i]], e, i, n, C)
           T == {k \in Nat : k <= n => a[n + 1 - k] <= m /\ Good(n + 1 - k)}
<1> HIDE DEF Good
<1>4. \A i \in 1..(n + 1) : \A t : Wholly(t, e, i, n, C) => t # NoFile
  <2> SUFFICES ASSUME NEW i \in 1..(n + 1), NEW t, Wholly(t, e, i, n, C) PROVE t # NoFile
    OBVIOUS
  <2>1. \A j \in i..n : j \in 1..n
    OBVIOUS
  <2>2. \A j \in 1..n : e[j] \in [name : N, content : C, size : Nat]
    BY DEF EntryLists
  <2>3. NamesFrom(e, i, n) \in SUBSET N
    BY <2>1, <2>2 DEF NamesFrom
  <2> QED BY <2>3 DEF Wholly, Distinct
<1>5. 0 \in T
  <2>1. PICK o : o = a[n + 1]
    OBVIOUS
  <2>2. o \in Nat /\ o < m /\ s[o + 1].is # "local"
    BY <1>1, <2>1 DEF Layout
  <2>3. o \in 0..m
    BY <1>1, <2>2
  <2>4. f[o] = NoFiles
    BY <1>3, <2>2, <2>3 DEF ExtractAt
  <2>5. Wholly(NoFiles, e, n + 1, n, C)
    <3>1. (n + 1)..n = {}
      OBVIOUS
    <3> QED BY <3>1 DEF Wholly, NoFiles, NamesFrom
  <2>6. n + 1 \in 1..(n + 1) /\ n + 1 - 0 = n + 1
    OBVIOUS
  <2>7. Good(n + 1) /\ a[n + 1] <= m
    <3>1. NoFiles # NoFile
      BY <1>4, <2>5, <2>6
    <3>2. a[n + 1] <= m
      BY <1>1, <2>1, <2>2
    <3> QED BY <2>1, <2>4, <2>5, <3>1, <3>2 DEF Good
  <2> QED BY <2>6, <2>7
<1>6. ASSUME NEW i \in 1..n, a[i + 1] <= m, Good(i + 1) PROVE a[i] <= m /\ Good(i)
  <2>1. i \in 1..(n + 1) /\ i + 1 \in 1..(n + 1)
    OBVIOUS
  <2>2. a[i] \in Nat /\ a[i + 1] \in Nat /\ e[i].size \in Nat /\ e[i].content \in C
        /\ a[i + 1] = a[i] + 3 + e[i].size
    <3>1. e[i] \in [name : N, content : C, size : Nat]
      BY DEF EntryLists
    <3> QED BY <2>1, <3>1 DEF Layout
  <2>3. a[i] <= m /\ ~(a[i] + 3 + e[i].size > m) /\ ~(a[i + 1] > m)
    BY <1>1, <1>6, <2>2
  <2>4. f[a[i]] = ExtractAt(s, a[i], f)
    BY <1>1, <1>3, <2>2, <2>3
  <2>5. PICK rest, read :
          /\ rest = IF a[i + 1] > Len(s) THEN NoFiles ELSE f[a[i + 1]]
          /\ read = IF e[i].size = 0 THEN Fixed
                    ELSE IF a[i + 1] <= Len(s) THEN e[i].content ELSE Severed
    OBVIOUS
  <2>6. ExtractAt(s, a[i], f) = IF rest = NoFile THEN NoFile ELSE With(rest, e[i].name, read)
    <3>1. a[i] <= Len(s) /\ ~(a[i] + 3 + e[i].size > Len(s))
      BY <1>1, <2>3
    <3>2. NoFile \notin N
      BY DEF Distinct
    <3> QED BY <1>2, <2>5, <3>1, <3>2, RecordRead
  <2>7. rest # NoFile /\ Wholly(rest, e, i + 1, n, C)
    BY <1>1, <1>6, <2>3, <2>5 DEF Good
  <2>8. read = e[i].content
    BY <1>1, <1>6, <2>5 DEF Distinct
  <2>9. Wholly(With(rest, e[i].name, e[i].content), e, i, n, C)
    <3>1. \A j, k \in 1..n : e[j].name = e[k].name => j = k
      BY DEF Distinct
    <3> QED BY <2>2, <2>7, <3>1, WithWholly
  <2>10. Wholly(f[a[i]], e, i, n, C)
    BY <2>4, <2>6, <2>7, <2>8, <2>9
  <2>11. f[a[i]] # NoFile
    BY <1>4, <2>1, <2>10
  <2> QED BY <2>3, <2>10, <2>11 DEF Good
<1>7. \A k \in T : k + 1 \in T
  <2> SUFFICES ASSUME NEW k \in T, k + 1 <= n
               PROVE  a[n + 1 - (k + 1)] <= m /\ Good(n + 1 - (k + 1))
    OBVIOUS
  <2>1. a[n + 1 - k] <= m /\ Good(n + 1 - k)
    OBVIOUS
  <2>2. n + 1 - (k + 1) \in 1..n /\ (n + 1 - (k + 1)) + 1 = n + 1 - k
    OBVIOUS
  <2> QED BY <1>6, <2>1, <2>2
<1>8. a[1] <= m /\ Good(1)
  <2> HIDE DEF T
  <2>1. T \subseteq Nat
    BY DEF T
  <2>2. n \in T
    BY <1>5, <1>7, <2>1, Induct
  <2>3. n <= n /\ n + 1 - n = 1
    OBVIOUS
  <2> QED BY <2>2, <2>3 DEF T
<1>9. a[1] = 0
  BY DEF Layout
<1> QED BY <1>8, <1>9 DEF Good

-----------------------------------------------------------------------------
(* The entries of a package: what is extracted of it, and verified.         *)

\* The entries of a package with files o, signed with key.
EntriesOf(o, l, key) ==
    [i \in 1 .. Len(Copied["sidecar"]) |->
        [name |-> Copied["sidecar"][i], content |-> o[Copied["sidecar"][i]],
         size |-> SizeOf[o[Copied["sidecar"][i]]]]]
    \o << [name |-> Manifest, content |-> l, size |-> 1],
          [name |-> Signature, content |-> [key |-> key, of |-> l], size |-> 1],
          [name |-> Provenance, content |-> o[Provenance], size |-> SizeOf[o[Provenance]]] >>

\* Each entry is a file of the package, its manifest or its signature.
Lists(e, n, o, key) ==
    /\ n \in Nat \ {0}
    /\ e \in EntryLists(n, ZipNames, ZipContents)
    /\ Distinct(e, n, ZipNames, ZipContents)
    /\ NamesFrom(e, 1, n) = ZipNames
    /\ \A j \in 1..n :
        \/ e[j].name \in SidecarFiles /\ e[j].content = o[e[j].name]
        \/ e[j].name = Manifest /\ e[j].content = ArtifactsOf(o) /\ e[j].size = 1
        \/ /\ e[j].name = Signature /\ e[j].size = 1
           /\ e[j].content = [key |-> key, of |-> ArtifactsOf(o)]

LEMMA ArtifactsAre ==
    ASSUME NEW o \in [SidecarFiles -> SidecarContents]
    PROVE  /\ ArtifactsOf(o) \in SidecarListings /\ DOMAIN ArtifactsOf(o) = SidecarFiles
           /\ \A f \in SidecarFiles : ArtifactsOf(o)[f] = [sha256 |-> o[f], bytes |-> SizeOf[o[f]]]
  BY DEF ArtifactsOf, SidecarListings

LEMMA EntriesListed ==
    ASSUME NEW o \in [SidecarFiles -> SidecarContents], NEW key \in BuildKeys
    PROVE  \E n : Lists(EntriesOf(o, ArtifactsOf(o), key), n, o, key)
<1> DEFINE U == [name : ZipNames, content : ZipContents, size : Nat]
           c == Copied["sidecar"]
           l == ArtifactsOf(o)
           m == Len(c)
           ent(f) == [name |-> f, content |-> o[f], size |-> SizeOf[o[f]]]
           x == [i \in 1..m |-> ent(c[i])]
           man == [name |-> Manifest, content |-> l, size |-> 1]
           sig == [name |-> Signature, content |-> [key |-> key, of |-> l], size |-> 1]
           y == <<man, sig, ent(Provenance)>>
<1>1. EntriesOf(o, l, key) = x \o y
  BY DEF EntriesOf
<1>2. /\ m \in Nat /\ DOMAIN c = 1..m
      /\ \A f : f \in ToSet(c) <=> \E i \in 1..m : f = c[i]
      /\ \A i, j \in 1..m : c[i] = c[j] => i = j
      /\ {Manifest, Signature, Provenance} \cap ToSet(c) = {}
      /\ Provenance \notin {Manifest, Signature} /\ Manifest # Signature
  <2>1. c \in Seq(ToSet(c)) /\ \A i, j \in DOMAIN c : c[i] = c[j] => i = j
    BY ZipAssumption
  <2>2. m \in Nat /\ DOMAIN c = 1..m
    BY <2>1, LenProperties
  <2>3. \A f : f \in ToSet(c) <=> \E i \in 1..m : f = c[i]
    BY <2>2 DEF ToSet
  <2>4. /\ {Manifest, Signature, Provenance} \cap ToSet(c) = {}
        /\ Provenance \notin {Manifest, Signature} /\ Manifest # Signature
    BY ZipAssumption
  <2>5. \A i, j \in 1..m : c[i] = c[j] => i = j
    BY <2>1, <2>2
  <2> HIDE DEF c
  <2> QED BY <2>2, <2>3, <2>4, <2>5
<1>3. SidecarFiles = ToSet(c) \cup {Provenance} /\ ZipNames = SidecarFiles \cup {Manifest, Signature}
  BY DEF SidecarFiles, ZipNames
<1>4. \A f \in SidecarFiles :
        /\ o[f] \in SidecarContents /\ SizeOf[o[f]] \in Nat /\ ent(f) \in U
        /\ SizeOf[o[f]] = 0 => o[f] = Fixed
  <2> SUFFICES ASSUME NEW f \in SidecarFiles
               PROVE  /\ o[f] \in SidecarContents /\ SizeOf[o[f]] \in Nat /\ ent(f) \in U
                      /\ SizeOf[o[f]] = 0 => o[f] = Fixed
    OBVIOUS
  <2>1. o[f] \in SidecarContents
    OBVIOUS
  <2>2. SizeOf[o[f]] \in Nat /\ (SizeOf[o[f]] = 0 => o[f] = Fixed)
    BY <2>1, ZipAssumption
  <2>3. ent(f) \in U
    BY <2>1, <2>2 DEF ZipNames, ZipContents
  <2> QED BY <2>1, <2>2, <2>3
<1>5. man \in U /\ sig \in U
  <2>1. l \in SidecarListings
    BY ArtifactsAre
  <2> HIDE DEF l
  <2>2. [key |-> key, of |-> l] \in Signatures
    BY <2>1 DEF Signatures
  <2> QED BY <2>1, <2>2 DEF ZipNames, ZipContents
<1> HIDE DEF U, c, m, ent, man, sig, l
<1>6. x \in Seq(U) /\ y \in Seq(U) /\ Len(x) = m /\ Len(y) = 3
      /\ y[1] = man /\ y[2] = sig /\ y[3] = ent(Provenance)
      /\ \A i \in 1..m : x[i] = ent(c[i])
  <2>1. \A i \in 1..m : c[i] \in SidecarFiles
    BY <1>2, <1>3
  <2>2. \A i \in 1..m : ent(c[i]) \in U
    BY <1>4, <2>1
  <2>3. ent(Provenance) \in U
    BY <1>3, <1>4
  <2>4. x \in Seq(U) /\ Len(x) = m
    BY <1>2, <2>2
  <2>5. y \in Seq(U) /\ Len(y) = 3
    BY <1>5, <2>3
  <2> QED BY <2>4, <2>5
<1> HIDE DEF x, y
<1>7. PICK e, n : e = x \o y /\ n = m + 3
  OBVIOUS
<1>8. e \in Seq(U) /\ Joined(e, x, y)
  BY <1>6, <1>7, JoinedIs
<1>9. n \in Nat \ {0} /\ Len(e) = n /\ e \in [1..n -> U]
  <2>1. n \in Nat \ {0} /\ Len(e) = n
    BY <1>2, <1>6, <1>7, <1>8 DEF Joined
  <2> QED BY <1>8, <2>1, LenProperties
<1>10. /\ \A i \in 1..m : e[i] = ent(c[i])
       /\ e[m + 1] = man /\ e[m + 2] = sig /\ e[m + 3] = ent(Provenance)
  <2>1. 1 \in 1..3 /\ 2 \in 1..3 /\ 3 \in 1..3
    OBVIOUS
  <2> QED BY <1>6, <1>8, <2>1 DEF Joined
<1>11. \A j \in 1..n : j \in 1..m \/ j = m + 1 \/ j = m + 2 \/ j = m + 3
  BY <1>2, <1>7
<1>12. m + 1 \in 1..n /\ m + 2 \in 1..n /\ m + 3 \in 1..n /\ \A j \in 1..m : j \in 1..n
  BY <1>2, <1>7
<1>13. /\ \A f : ent(f).name = f /\ ent(f).content = o[f] /\ ent(f).size = SizeOf[o[f]]
       /\ man.name = Manifest /\ man.content = l /\ man.size = 1
       /\ sig.name = Signature /\ sig.content = [key |-> key, of |-> l] /\ sig.size = 1
  BY DEF ent, man, sig
<1>14. /\ \A j \in 1..m : e[j].name = c[j] /\ c[j] \in ToSet(c) /\ c[j] \in SidecarFiles
       /\ e[m + 1].name = Manifest /\ e[m + 2].name = Signature /\ e[m + 3].name = Provenance
  BY <1>2, <1>3, <1>10, <1>13
<1>15. \A j, k \in 1..n : e[j].name = e[k].name => j = k
  BY <1>2, <1>11, <1>14
<1>16. \A j \in 1..n :
        \/ /\ e[j].name \in SidecarFiles /\ e[j].content = o[e[j].name]
           /\ e[j].size = SizeOf[o[e[j].name]]
        \/ e[j].name = Manifest /\ e[j].content = l /\ e[j].size = 1
        \/ /\ e[j].name = Signature /\ e[j].size = 1
           /\ e[j].content = [key |-> key, of |-> l]
  BY <1>3, <1>10, <1>11, <1>13, <1>14
<1>17. \A j \in 1..n : e[j].size = 0 => e[j].content = Fixed
  BY <1>4, <1>16
<1>18. Distinct(e, n, ZipNames, ZipContents)
  BY <1>15, <1>17, ZipAssumption DEF Distinct
<1>19. NamesFrom(e, 1, n) = ZipNames
  <2>1. NamesFrom(e, 1, n) \subseteq ZipNames
    BY <1>3, <1>16 DEF NamesFrom
  <2>2. \A f \in ToSet(c) : \E j \in 1..n : f = e[j].name
    BY <1>2, <1>12, <1>14
  <2>3. \A f \in {Manifest, Signature, Provenance} : \E j \in 1..n : f = e[j].name
    BY <1>12, <1>14
  <2>4. \A f \in ZipNames : \E j \in 1..n : f = e[j].name
    BY <1>3, <2>2, <2>3
  <2> QED BY <2>1, <2>4 DEF NamesFrom
<1>20. Lists(e, n, o, key)
  <2>1. e \in EntryLists(n, ZipNames, ZipContents)
    BY <1>9 DEF EntryLists, U
  <2>2. \A j \in 1..n :
        \/ e[j].name \in SidecarFiles /\ e[j].content = o[e[j].name]
        \/ e[j].name = Manifest /\ e[j].content = ArtifactsOf(o) /\ e[j].size = 1
        \/ /\ e[j].name = Signature /\ e[j].size = 1
           /\ e[j].content = [key |-> key, of |-> ArtifactsOf(o)]
    BY <1>16 DEF l
  <2> QED BY <1>9, <1>18, <1>19, <2>1, <2>2 DEF Lists
<1> QED BY <1>1, <1>7, <1>20 DEF l

\* What is extracted of a zip file that was cut.
LEMMA CutExtract ==
    ASSUME NEW e, NEW n, NEW o, NEW key, Lists(e, n, o, key),
           NEW k \in 0..Len(ZipStream(e)), NEW t, t = ExtractStoredZip(SubSeq(ZipStream(e), 1, k))
    PROVE  t = NoFile \/ Partly(t, e, 1, n)
<1>1. PICK s : s = ZipStream(e)
  OBVIOUS
<1>2. n \in Nat \ {0} /\ e \in EntryLists(n, ZipNames, ZipContents) /\ Distinct(e, n, ZipNames, ZipContents)
  BY DEF Lists
<1>3. s \in Seq(Units(ZipNames, ZipContents)) /\ Sized(s) /\ \E a : Layout(s, e, n, a)
  BY <1>1, <1>2, StreamIs, StreamSized
<1>4. PICK a : Layout(s, e, n, a)
  BY <1>3
<1>5. PICK b : b = SubSeq(s, 1, k)
  OBVIOUS
<1>6. BeginsWith(b, s)
  <2>1. PICK m, U : m = Len(s) /\ U = Units(ZipNames, ZipContents)
    OBVIOUS
  <2>2. m \in Nat /\ s \in Seq(U) /\ k \in 0..m
    BY <1>1, <1>3, <2>1, LenProperties
  <2>3. \A i \in 1..k : s[i] \in U
    BY <2>1, <2>2, ElementOfSeq
  <2>4. k \in Int /\ 1 \in Int
    BY <2>2
  <2>5. /\ Len(SubSeq(s, 1, k)) = IF 1 <= k THEN k - 1 + 1 ELSE 0
        /\ \A i \in 1 .. k - 1 + 1 : SubSeq(s, 1, k)[i] = s[1 + i - 1]
    BY <2>3, <2>4, SubSeqProperties
  <2>6. k - 1 + 1 = k /\ \A i \in 1..k : 1 + i - 1 = i
    BY <2>4
  <2>7. Len(b) = k /\ \A i \in 1..k : b[i] = s[i]
    BY <1>5, <2>2, <2>5, <2>6
  <2> QED BY <2>1, <2>2, <2>7 DEF BeginsWith
<1>7. Scannable(b)
  BY <1>3, <1>6, BeginningScannable
<1>8. PICK f : Reading(f, b) /\ ExtractStoredZip(b) = f[0]
  BY <1>7, ReaderIs
<1>9. f[0] = NoFile \/ Partly(f[0], e, 1, n)
  BY <1>2, <1>4, <1>6, <1>8, ReadPart
<1> QED BY <1>1, <1>5, <1>8, <1>9

\* What is extracted of a whole one.
LEMMA WholeExtract ==
    ASSUME NEW e, NEW n, NEW o, NEW key, Lists(e, n, o, key),
           NEW t, t = ExtractStoredZip(ZipStream(e))
    PROVE  t # NoFile /\ Wholly(t, e, 1, n, ZipContents)
<1>1. PICK s : s = ZipStream(e)
  OBVIOUS
<1>2. n \in Nat \ {0} /\ e \in EntryLists(n, ZipNames, ZipContents) /\ Distinct(e, n, ZipNames, ZipContents)
  BY DEF Lists
<1>3. s \in Seq(Units(ZipNames, ZipContents)) /\ Sized(s) /\ \E a : Layout(s, e, n, a)
  BY <1>1, <1>2, StreamIs, StreamSized
<1>4. PICK a : Layout(s, e, n, a)
  BY <1>3
<1>5. Len(s) \in Nat
  BY <1>3, LenProperties
<1>6. BeginsWith(s, s)
  BY <1>5 DEF BeginsWith
<1>7. Scannable(s)
  BY <1>3, <1>6, BeginningScannable
<1>8. PICK f : Reading(f, s) /\ ExtractStoredZip(s) = f[0]
  BY <1>7, ReaderIs
<1>9. f[0] # NoFile /\ Wholly(f[0], e, 1, n, ZipContents)
  BY <1>2, <1>4, <1>5, <1>8, ReadWhole
<1> QED BY <1>1, <1>8, <1>9

\* An extract that passes verification is complete, and nothing of it is cut.
LEMMA PartVerifies ==
    ASSUME NEW e, NEW n, NEW key, NEW o \in [SidecarFiles -> SidecarContents],
           Lists(e, n, o, key), NEW t, Partly(t, e, 1, n), VerifyRelease(t)
    PROVE  DOMAIN t = ZipNames /\ \A f \in DOMAIN t : t[f] # Severed
<1>1. PICK l : l = ArtifactsOf(o)
  OBVIOUS
<1>2. /\ l \in SidecarListings /\ DOMAIN l = SidecarFiles
      /\ \A f \in SidecarFiles : l[f] = [sha256 |-> o[f], bytes |-> SizeOf[o[f]]]
  BY <1>1, ArtifactsAre
<1>3. /\ Manifest \in DOMAIN t /\ Signature \in DOMAIN t /\ t[Signature] # Severed
      /\ t[Manifest] # Severed
      /\ Missing(t, t[Manifest]) = {} /\ Mismatched(t, t[Manifest]) = {}
  BY DEF VerifyRelease, SignatureVerifies
<1>4. t[Manifest] = l
  <2>1. PICK j \in 1..n : e[j].name = Manifest
    BY DEF Lists, NamesFrom, ZipNames
  <2>2. Manifest \notin SidecarFiles /\ Manifest # Signature
    BY ZipAssumption DEF SidecarFiles
  <2>3. e[j].content = l /\ e[j].size = 1
    BY <1>1, <2>1, <2>2 DEF Lists
  <2>4. t[Manifest] \in {l, Severed}
    BY <1>3, <2>1, <2>3 DEF Partly
  <2> QED BY <1>3, <2>4
<1>5. SidecarFiles \subseteq DOMAIN t
  BY <1>2, <1>3, <1>4 DEF Missing
<1>6. \A f \in SidecarFiles : t[f] = o[f]
  <2>1. \A f \in SidecarFiles : t[f] = l[f].sha256
    BY <1>2, <1>3, <1>4, <1>5 DEF Mismatched
  <2> QED BY <1>2, <2>1
<1>7. DOMAIN t = ZipNames
  <2>1. DOMAIN t \subseteq ZipNames
    BY DEF Partly, Lists
  <2> QED BY <1>3, <1>5, <2>1 DEF ZipNames
<1>8. \A f \in SidecarFiles : t[f] # Severed
  BY <1>6, ZipAssumption DEF ZipContents
<1> QED BY <1>3, <1>7, <1>8 DEF ZipNames

\* The whole extract of a clean build passes verification.
LEMMA WholeVerifies ==
    ASSUME NEW e, NEW n, NEW key \in BuildKeys, NEW o \in [SidecarFiles -> SidecarContents],
           Lists(e, n, o, key), NEW t, Wholly(t, e, 1, n, ZipContents),
           o[Verifier] = key, Forbidden(o) = {}
    PROVE  VerifyRelease(t)
<1>1. PICK l : l = ArtifactsOf(o)
  OBVIOUS
<1>2. /\ l \in SidecarListings /\ DOMAIN l = SidecarFiles
      /\ \A f \in SidecarFiles : l[f] = [sha256 |-> o[f], bytes |-> SizeOf[o[f]]]
  BY <1>1, ArtifactsAre
<1>3. DOMAIN t = ZipNames
  BY DEF Lists, Wholly
<1>4. \A f \in ZipNames : \E j \in 1..n : e[j].name = f /\ t[f] = e[j].content
  <2>1. \A f \in ZipNames : \E j \in 1..n : e[j].name = f
    BY DEF Lists, NamesFrom
  <2> QED BY <2>1 DEF Wholly
<1>5. Manifest \notin SidecarFiles /\ Signature \notin SidecarFiles /\ Manifest # Signature
  BY ZipAssumption DEF SidecarFiles
<1>6. \A f \in SidecarFiles : t[f] = o[f]
  BY <1>4, <1>5 DEF Lists, ZipNames
<1>7. t[Manifest] = l
  <2>1. Manifest \in ZipNames
    BY DEF ZipNames
  <2> QED BY <1>1, <1>4, <1>5, <2>1 DEF Lists
<1>8. t[Signature] = [key |-> key, of |-> l]
  <2>1. Signature \in ZipNames
    BY DEF ZipNames
  <2> QED BY <1>1, <1>4, <1>5, <2>1 DEF Lists
<1>9. Verifier \in SidecarFiles
  BY ZipAssumption DEF SidecarFiles
<1>10. l \notin {NoFile, Severed} /\ [key |-> key, of |-> l] # Severed
  <2>1. [key |-> key, of |-> l] \in Signatures
    BY <1>2 DEF Signatures
  <2> QED BY <1>2, <2>1, ZipAssumption DEF ZipContents
<1>11. SignatureVerifies(t)
  BY <1>3, <1>6, <1>7, <1>8, <1>9, <1>10 DEF SignatureVerifies, ZipNames
<1>12. Missing(t, l) = {} /\ Extra(t, l) = {}
  BY <1>2, <1>3 DEF Missing, Extra, ZipNames
<1>13. Mismatched(t, l) = {}
  <2>1. \A f \in SidecarFiles : t[f] = l[f].sha256 /\ SizeOf[t[f]] = l[f].bytes
    BY <1>2, <1>6
  <2> QED BY <1>2, <2>1 DEF Mismatched
<1>14. Forbidden([f \in DOMAIN t \ {Manifest, Signature} |-> t[f]]) = {}
  <2>1. DOMAIN t \ {Manifest, Signature} = SidecarFiles
    BY <1>3, <1>5 DEF ZipNames
  <2>2. PICK u : u = [f \in SidecarFiles |-> t[f]]
    OBVIOUS
  <2>3. u = o
    BY <1>6, <2>2
  <2> QED BY <2>1, <2>2, <2>3
<1> QED BY <1>3, <1>6, <1>7, <1>9, <1>10, <1>11, <1>12, <1>13, <1>14 DEF VerifyRelease, ZipNames

-----------------------------------------------------------------------------
(* The sidecar's build.                                                     *)

PackedUpTo(n) == {Copied["sidecar"][i] : i \in 1..n}
Signed == {"clean again", "zip", "verify"}

\* The files o are those of a package verified by key.
Package(o, key) ==
    key \in BuildKeys /\ o \in [SidecarFiles -> SidecarContents] /\ o[Verifier] = key

\* What the output directory, its manifest and the zip file hold, by the step of
\* the build b: files o, artifacts l, zip z.
PackingOK(b, o, l, z) ==
    b.kind = "sidecar" =>
      /\ b.pc \in {"copy", "provenance"} => b.key \in BuildKeys
      /\ b.pc = "copy" =>
           /\ b.n \in Nat /\ b.n < Len(Copied["sidecar"])
           /\ o \in [PackedUpTo(b.n) -> SidecarContents]
           /\ Verifier \in PackedUpTo(b.n) => o[Verifier] = b.key
      /\ b.pc = "provenance" =>
           o \in [ToSet(Copied["sidecar"]) -> SidecarContents] /\ o[Verifier] = b.key
      /\ b.pc \in {"clean", "manifest"} \cup Signed => Package(o, b.key)
      /\ b.pc \in {"manifest"} \cup Signed => Forbidden(o) = {}
      /\ b.pc \in Signed => l = ArtifactsOf(o)
      /\ b.pc = "verify" => z = ZipStream(EntriesOf(o, l, b.key))

\* A zip file is what a kill left of a package's, if anything.
ZipOK(z) ==
    z # NoFile =>
        \E o, key : /\ Package(o, key)
                    /\ LET s == ZipStream(EntriesOf(o, ArtifactsOf(o), key))
                       IN  \E k \in 0..Len(s) : z = SubSeq(s, 1, k)

ZipInv == PackingOK(build, out["sidecar"], listing["sidecar"], zip) /\ ZipOK(zip)

\* What the build lists and signs is what the lemmas on packages are about.
LEMMA ZipEntriesAre ==
    ZipEntries = EntriesOf(out["sidecar"], listing["sidecar"], build.key)
  BY DEF ZipEntries, EntriesOf

\* A zip file as it is read.
LEMMA ZipFileSafe ==
    ASSUME NEW z, z # NoFile, ZipOK(z), NEW t, t = ExtractStoredZip(z), t # NoFile, VerifyRelease(t)
    PROVE  DOMAIN t = ZipNames /\ \A f \in DOMAIN t : t[f] # Severed
<1>1. PICK o, key : /\ Package(o, key)
                    /\ LET s == ZipStream(EntriesOf(o, ArtifactsOf(o), key))
                       IN  \E k \in 0..Len(s) : z = SubSeq(s, 1, k)
  BY DEF ZipOK
<1>2. PICK e : e = EntriesOf(o, ArtifactsOf(o), key)
  OBVIOUS
<1>3. PICK k \in 0..Len(ZipStream(e)) : z = SubSeq(ZipStream(e), 1, k)
  BY <1>1, <1>2
<1>4. key \in BuildKeys /\ o \in [SidecarFiles -> SidecarContents]
  BY <1>1 DEF Package
<1>5. PICK n : Lists(e, n, o, key)
  BY <1>2, <1>4, EntriesListed
<1>6. Partly(t, e, 1, n)
  BY <1>3, <1>5, CutExtract
<1> QED BY <1>4, <1>5, <1>6, PartVerifies

LEMMA ZipFilePasses ==
    ASSUME NEW o, NEW key, Package(o, key), Forbidden(o) = {},
           NEW t, t = ExtractStoredZip(ZipStream(EntriesOf(o, ArtifactsOf(o), key)))
    PROVE  t # NoFile /\ VerifyRelease(t)
<1>1. PICK e : e = EntriesOf(o, ArtifactsOf(o), key)
  OBVIOUS
<1>2. key \in BuildKeys /\ o \in [SidecarFiles -> SidecarContents] /\ o[Verifier] = key
  BY DEF Package
<1>3. PICK n : Lists(e, n, o, key)
  BY <1>1, <1>2, EntriesListed
<1>4. t # NoFile /\ Wholly(t, e, 1, n, ZipContents)
  BY <1>1, <1>3, WholeExtract
<1> QED BY <1>2, <1>3, <1>4, WholeVerifies

LEMMA ZipInvIs == ZipInv => ZipWhole
<1> SUFFICES ASSUME ZipInv, zip # NoFile PROVE ZipWhole
  BY DEF ZipWhole
<1>1. PICK z, t : z = zip /\ t = ExtractStoredZip(z)
  OBVIOUS
<1>2. t # NoFile /\ VerifyRelease(t) =>
        DOMAIN t = ZipNames /\ \A f \in DOMAIN t : t[f] # Severed
  BY <1>1, ZipFileSafe DEF ZipInv
<1>3. In("sidecar", "verify") => t # NoFile /\ VerifyRelease(t)
  <2> SUFFICES ASSUME In("sidecar", "verify") PROVE t # NoFile /\ VerifyRelease(t)
    OBVIOUS
  <2>1. PICK o, key : o = out["sidecar"] /\ key = build.key
    OBVIOUS
  <2>2. /\ Package(o, key) /\ Forbidden(o) = {}
        /\ z = ZipStream(EntriesOf(o, ArtifactsOf(o), key))
    BY <1>1, <2>1 DEF ZipInv, PackingOK, In, Signed
  <2> QED BY <1>1, <2>2, ZipFilePasses
<1>4. ZipNames = ToSet(Copied["sidecar"]) \cup {Manifest, Signature, Provenance}
  BY DEF ZipNames, SidecarFiles
<1> QED BY <1>1, <1>2, <1>3, <1>4 DEF ZipWhole

\* Steps after which no sidecar build is at work, and that leave the zip alone.
LEMMA ZipIdleOK ==
    ASSUME ZipInv, zip' = zip, build'.kind # "sidecar" \/ build'.pc = "off"
    PROVE  ZipInv'
  BY DEF ZipInv, PackingOK, Signed

\* Steps that change nothing a sidecar build looks at.
LEMMA ZipStays ==
    ASSUME ZipInv, UNCHANGED <<build, out, listing, zip>>
    PROVE  ZipInv'
  BY DEF ZipInv

LEMMA StartZipOK ==
    ASSUME BuildShape, ZipInv, StartBuild
    PROVE  ZipInv'
<1>1. PICK kind \in Kinds, key \in BuildKeys \cup {NoFile} :
        /\ kind = "sidecar" => key \in BuildKeys
        /\ build' = [NoBuild EXCEPT !.kind = kind, !.pc = "copy", !.key = key]
        /\ out' = [out EXCEPT ![kind] = NoFiles]
        /\ UNCHANGED zip
  BY DEF StartBuild
<1>2. build'.kind = kind /\ build'.pc = "copy" /\ build'.n = 0 /\ build'.key = key
  BY <1>1 DEF NoBuild
<1>3. CASE kind = "sidecar"
  <2>1. out'["sidecar"] = NoFiles
    BY <1>1, <1>3 DEF BuildShape
  <2>2. PackedUpTo(0) = {}
    BY DEF PackedUpTo
  <2>3. NoFiles \in [PackedUpTo(0) -> SidecarContents]
    BY <2>2 DEF NoFiles
  <2>4. 0 < Len(Copied["sidecar"])
    <3>1. PICK c : c = Copied["sidecar"]
      OBVIOUS
    <3>2. c \in Seq(ToSet(c)) /\ Verifier \in ToSet(c)
      BY <3>1, ZipAssumption
    <3>3. Len(c) \in Nat /\ DOMAIN c = 1..Len(c)
      BY <3>2, LenProperties
    <3>4. \E i \in 1..Len(c) : Verifier = c[i]
      BY <3>2, <3>3 DEF ToSet
    <3> QED BY <3>1, <3>3, <3>4
  <2>5. PackingOK(build, out["sidecar"], listing["sidecar"], zip)'
    BY <1>1, <1>2, <1>3, <2>1, <2>2, <2>3, <2>4 DEF PackingOK, Signed
  <2> QED BY <1>1, <2>5 DEF ZipInv
<1>4. CASE kind # "sidecar"
  BY <1>1, <1>2, <1>4, ZipIdleOK
<1> QED BY <1>3, <1>4

LEMMA CopyReleaseOK ==
    ASSUME BuildShape, ZipInv, CopyReleaseFile
    PROVE  ZipInv'
<1>1. In("sidecar", "copy") /\ UNCHANGED zip
  BY DEF CopyReleaseFile
<1>2. PICK g, o, n, key, c :
        g = out /\ o = out["sidecar"] /\ n = build.n /\ c = Copied["sidecar"] /\ key = build.key
  OBVIOUS
<1>3. PICK f, v :
         /\ f = c[n + 1]
         /\ v = IF f = Verifier THEN key ELSE IF f \in Generated THEN Fixed ELSE tree
  OBVIOUS
<1>4. /\ out' = [out EXCEPT !["sidecar"] = With(o, f, v)]
       /\ build' = [build EXCEPT !.n = n + 1, !.pc = IF n + 1 = Len(c) THEN "provenance" ELSE "copy"]
  <2>1. build.kind = "sidecar" /\ "sidecar" \in DOMAIN out
    BY <1>1 DEF In, BuildShape, Kinds
  <2>2. /\ out' = [g EXCEPT !["sidecar"] = With(@, f, v)]
        /\ build' = [build EXCEPT !.n = @ + 1, !.pc = IF n + 1 = Len(c) THEN "provenance" ELSE "copy"]
    BY <1>2, <1>3, <2>1 DEF CopyReleaseFile, CopyNext
  <2>3. out' = [out EXCEPT !["sidecar"] = With(o, f, v)]
    BY <1>2, <2>1, <2>2
  <2>4. build' = [build EXCEPT !.n = n + 1, !.pc = IF n + 1 = Len(c) THEN "provenance" ELSE "copy"]
    BY <1>2, <2>2
  <2> QED BY <2>3, <2>4
<1>5. /\ n \in Nat /\ n < Len(c) /\ o \in [PackedUpTo(n) -> SidecarContents] /\ key \in BuildKeys
      /\ Verifier \in PackedUpTo(n) => o[Verifier] = key
  BY <1>1, <1>2 DEF ZipInv, PackingOK, In
<1>6. v \in SidecarContents /\ (f = Verifier => v = key)
  BY <1>5, <1>3 DEF BuildShape, SidecarContents, Contents
<1>7. PackedUpTo(n + 1) = PackedUpTo(n) \cup {f}
  <2>1. 1..(n + 1) = 1..n \cup {n + 1}
    BY <1>5
  <2> QED BY <1>2, <1>3, <2>1 DEF PackedUpTo
<1>8. PICK t : t = With(o, f, v)
  OBVIOUS
<1>9. t \in [PackedUpTo(n + 1) -> SidecarContents]
  <2>1. PICK D : D = PackedUpTo(n)
    OBVIOUS
  <2>2. With(o, f, v) \in [D \cup {f} -> SidecarContents]
    BY <1>5, <1>6, <2>1, WithTree
  <2> QED BY <1>7, <1>8, <2>1, <2>2
<1>10. Verifier \in PackedUpTo(n + 1) => t[Verifier] = key
  BY <1>5, <1>6, <1>7, <1>8 DEF With
<1>11. /\ build'.kind = "sidecar" /\ build'.n = n + 1 /\ build'.key = key
       /\ build'.pc = IF n + 1 = Len(c) THEN "provenance" ELSE "copy"
       /\ out'["sidecar"] = t
  <2>1. DOMAIN build = BuildFields /\ build.kind = "sidecar" /\ build.key = key /\ "sidecar" \in DOMAIN out
    BY <1>1, <1>2 DEF BuildShape, In, Kinds
  <2>2. {"kind", "pc", "n", "key"} \subseteq BuildFields
    BY DEF BuildFields
  <2>3. /\ build'.kind = build.kind /\ build'.n = n + 1 /\ build'.key = build.key
        /\ build'.pc = IF n + 1 = Len(c) THEN "provenance" ELSE "copy"
    BY <1>4, <2>1, <2>2
  <2>4. out'["sidecar"] = t
    BY <1>4, <1>8, <2>1
  <2> QED BY <2>1, <2>3, <2>4
<1>12. Len(c) \in Nat /\ DOMAIN c = 1..Len(c) /\ Verifier \in ToSet(c)
  <2>1. c \in Seq(ToSet(c)) /\ Verifier \in ToSet(c)
    BY <1>2, ZipAssumption
  <2> QED BY <2>1, LenProperties
<1>13. CASE n + 1 = Len(c)
  <2>1. PackedUpTo(n + 1) = ToSet(c)
    BY <1>2, <1>12, <1>13 DEF PackedUpTo, ToSet
  <2>2. t \in [ToSet(c) -> SidecarContents] /\ t[Verifier] = key
    BY <1>9, <1>10, <1>12, <2>1
  <2>3. PackingOK(build, out["sidecar"], listing["sidecar"], zip)'
    <3>1. build'.kind = "sidecar" /\ build'.pc = "provenance" /\ build'.key = key
          /\ out'["sidecar"] = t /\ c = Copied["sidecar"]
      BY <1>2, <1>11, <1>13
    <3> QED BY <1>5, <2>2, <3>1 DEF PackingOK, Signed
  <2> QED BY <1>1, <2>3 DEF ZipInv
<1>14. CASE n + 1 # Len(c)
  <2>1. n + 1 \in Nat /\ n + 1 < Len(c)
    <3>1. PICK m : m = Len(c)
      OBVIOUS
    <3>2. m \in Nat /\ n \in Nat /\ n < m /\ n + 1 # m
      BY <1>5, <1>12, <1>14, <3>1
    <3>3. n + 1 \in Nat /\ n + 1 < m
      BY <3>2
    <3> QED BY <3>1, <3>3
  <2>2. PackingOK(build, out["sidecar"], listing["sidecar"], zip)'
    <3>1. build'.kind = "sidecar" /\ build'.pc = "copy" /\ build'.key = key
          /\ build'.n = n + 1 /\ n + 1 < Len(Copied["sidecar"]) /\ out'["sidecar"] = t
      BY <1>2, <1>11, <1>14, <2>1
    <3> QED BY <1>5, <1>9, <1>10, <2>1, <3>1 DEF PackingOK, Signed
  <2> QED BY <1>1, <2>2 DEF ZipInv
<1> QED BY <1>13, <1>14

\* A step of the sidecar's build from pc to next, which leaves the key as it is.
LEMMA PackingGoes ==
    ASSUME BuildShape, build.kind = "sidecar", NEW next, Continues(next)
    PROVE  build'.kind = "sidecar" /\ build'.pc = next /\ build'.key = build.key
<1>1. DOMAIN build = BuildFields /\ {"kind", "pc", "key"} \subseteq BuildFields
  BY DEF BuildShape, BuildFields
<1> QED BY <1>1 DEF Continues

LEMMA ProvenanceSidecarOK ==
    ASSUME BuildShape, ZipInv, WriteProvenanceSidecar
    PROVE  ZipInv'
<1>1. /\ build.kind = "sidecar" /\ build.pc = "provenance" /\ Continues("clean") /\ zip' = zip
      /\ out' = [out EXCEPT !["sidecar"] = With(@, Provenance, NamedCommit)]
  BY DEF WriteProvenanceSidecar, In
<1>2. PICK o, v, key, t :
        o = out["sidecar"] /\ v = NamedCommit /\ key = build.key /\ t = With(o, Provenance, v)
  OBVIOUS
<1>3. /\ o \in [ToSet(Copied["sidecar"]) -> SidecarContents] /\ o[Verifier] = key /\ key \in BuildKeys
  BY <1>1, <1>2 DEF ZipInv, PackingOK
<1>4. v \in SidecarContents
  BY <1>2 DEF NamedCommit, ReadGitCommit, BuildShape, SidecarContents, Contents
<1>5. t \in [SidecarFiles -> SidecarContents]
  BY <1>2, <1>3, <1>4, WithTree DEF SidecarFiles
<1>6. t[Verifier] = key
  <2>1. Verifier \in ToSet(Copied["sidecar"]) /\ Provenance \notin ToSet(Copied["sidecar"])
    BY ZipAssumption
  <2> QED BY <1>2, <1>3, <2>1 DEF With
<1>7. out'["sidecar"] = t
  BY <1>1, <1>2 DEF BuildShape, Kinds
<1>8. build'.kind = "sidecar" /\ build'.pc = "clean" /\ build'.key = key
  BY <1>1, <1>2, PackingGoes
<1>9. PackingOK(build, out["sidecar"], listing["sidecar"], zip)'
  BY <1>3, <1>5, <1>6, <1>7, <1>8 DEF PackingOK, Signed, Package
<1> QED BY <1>1, <1>9 DEF ZipInv

LEMMA CleanSidecarOK ==
    ASSUME BuildShape, ZipInv, AssertClean
    PROVE  ZipInv'
<1>1. /\ build.pc \in {"clean", "clean again"} /\ UNCHANGED <<out, listing, zip>>
      /\ \/ Ends
         \/ /\ Forbidden(out[build.kind]) = {}
            /\ Continues(IF build.pc = "clean" THEN "manifest" ELSE "zip")
  BY DEF AssertClean
<1>2. CASE Ends
  BY <1>1, <1>2, ZipIdleOK DEF Ends, NoBuild
<1>3. CASE ~Ends /\ build.kind # "sidecar"
  <2>1. build'.kind = build.kind
    BY <1>1, <1>3 DEF Continues, BuildShape, BuildFields
  <2> QED BY <1>1, <1>3, <2>1, ZipIdleOK
<1>4. CASE ~Ends /\ build.kind = "sidecar"
  <2>1. PICK o, key, next : o = out["sidecar"] /\ key = build.key
                            /\ next = IF build.pc = "clean" THEN "manifest" ELSE "zip"
    OBVIOUS
  <2>2. Package(o, key) /\ Forbidden(o) = {}
        /\ (build.pc = "clean again" => listing["sidecar"] = ArtifactsOf(o))
    BY <1>1, <1>4, <2>1 DEF ZipInv, PackingOK, Signed
  <2>3. build'.kind = "sidecar" /\ build'.pc = next /\ build'.key = key
    BY <1>1, <1>4, <2>1, PackingGoes
  <2>4. PackingOK(build, out["sidecar"], listing["sidecar"], zip)'
    BY <1>1, <2>1, <2>2, <2>3 DEF PackingOK, Signed, Package
  <2> QED BY <1>1, <2>4 DEF ZipInv
<1> QED BY <1>2, <1>3, <1>4

LEMMA ManifestSidecarOK ==
    ASSUME BuildShape, ZipInv, WriteManifestAndSignature
    PROVE  ZipInv'
<1>1. /\ build.kind = "sidecar" /\ build.pc = "manifest" /\ Continues("clean again")
      /\ UNCHANGED <<out, zip>>
      /\ listing' = [listing EXCEPT !["sidecar"] = ArtifactsOf(out["sidecar"])]
  BY DEF WriteManifestAndSignature, In
<1>2. PICK o, key : o = out["sidecar"] /\ key = build.key
  OBVIOUS
<1>3. Package(o, key) /\ Forbidden(o) = {}
  BY <1>1, <1>2 DEF ZipInv, PackingOK
<1>4. listing'["sidecar"] = ArtifactsOf(o) /\ out'["sidecar"] = o
  BY <1>1, <1>2 DEF BuildShape, Kinds
<1>5. build'.kind = "sidecar" /\ build'.pc = "clean again" /\ build'.key = key
  BY <1>1, <1>2, PackingGoes
<1>6. PackingOK(build, out["sidecar"], listing["sidecar"], zip)'
  BY <1>3, <1>4, <1>5 DEF PackingOK, Signed
<1> QED BY <1>1, <1>6 DEF ZipInv

\* What is written is a package's, up to where it is cut.
LEMMA ZipWritten ==
    ASSUME NEW o, NEW key, Package(o, key), NEW s, s = ZipStream(EntriesOf(o, ArtifactsOf(o), key))
    PROVE  /\ \A k \in 0..Len(s) : ZipOK(SubSeq(s, 1, k))
           /\ Len(s) \in Nat /\ SubSeq(s, 1, Len(s)) = s
<1>1. PICK e : e = EntriesOf(o, ArtifactsOf(o), key)
  OBVIOUS
<1>2. key \in BuildKeys /\ o \in [SidecarFiles -> SidecarContents]
  BY DEF Package
<1>3. PICK n : Lists(e, n, o, key)
  BY <1>1, <1>2, EntriesListed
<1>4. s \in Seq(Units(ZipNames, ZipContents))
  BY <1>1, <1>3, StreamIs DEF Lists
<1>5. Len(s) \in Nat /\ SubSeq(s, 1, Len(s)) = s
  BY <1>4, LenProperties, SubSeqFull
<1> QED BY <1>5, Zenon DEF ZipOK

LEMMA WriteZipOK ==
    ASSUME BuildShape, ZipInv, WriteZip
    PROVE  ZipInv'
<1>1. /\ build.kind = "sidecar" /\ build.pc = "zip" /\ Continues("verify")
      /\ UNCHANGED <<out, listing>> /\ zip' = ZipStream(ZipEntries)
  BY DEF WriteZip, In
<1>2. PICK o, key, l, s : /\ o = out["sidecar"] /\ key = build.key /\ l = listing["sidecar"]
                          /\ s = ZipStream(EntriesOf(o, l, key))
  OBVIOUS
<1>3. Package(o, key) /\ Forbidden(o) = {} /\ l = ArtifactsOf(o)
  BY <1>1, <1>2 DEF ZipInv, PackingOK, Signed
<1>4. zip' = s
  BY <1>1, <1>2, ZipEntriesAre
<1>5. build'.kind = "sidecar" /\ build'.pc = "verify" /\ build'.key = key
  BY <1>1, <1>2, PackingGoes
<1>6. PackingOK(build, out["sidecar"], listing["sidecar"], zip)'
  BY <1>1, <1>2, <1>3, <1>4, <1>5 DEF PackingOK, Signed
<1>7. ZipOK(s)
  <2>1. /\ \A k \in 0..Len(s) : ZipOK(SubSeq(s, 1, k))
        /\ Len(s) \in Nat /\ SubSeq(s, 1, Len(s)) = s
    BY <1>2, <1>3, ZipWritten
  <2>2. Len(s) \in 0..Len(s)
    BY <2>1
  <2> QED BY <2>1, <2>2
<1> QED BY <1>4, <1>6, <1>7 DEF ZipInv

LEMMA VerifyExtractOK ==
    ASSUME BuildShape, ZipInv, VerifyExtract
    PROVE  ZipInv'
<1>1. build.kind = "sidecar" /\ UNCHANGED <<out, listing, zip>>
  BY DEF VerifyExtract, In
<1>2. Ends \/ \E t : build' = [build EXCEPT !.pc = "zipped", !.extract = t]
  BY DEF VerifyExtract
<1>3. CASE Ends
  BY <1>1, <1>3, ZipIdleOK DEF Ends, NoBuild
<1>4. CASE \E t : build' = [build EXCEPT !.pc = "zipped", !.extract = t]
  <2>1. build'.pc = "zipped"
    BY <1>4 DEF BuildShape, BuildFields
  <2> QED BY <1>1, <2>1 DEF ZipInv, PackingOK, Signed
<1> QED BY <1>2, <1>3, <1>4

LEMMA KillSidecarOK ==
    ASSUME BuildShape, ZipInv, KillBuild
    PROVE  ZipInv'
<1>1. build'.pc = "off"
  BY DEF KillBuild, Ends, NoBuild
<1>2. CASE zip' = zip
  BY <1>1, <1>2, ZipIdleOK
<1>3. CASE /\ In("sidecar", "zip")
           /\ \E n \in 0 .. Len(ZipStream(ZipEntries)) : zip' = SubSeq(ZipStream(ZipEntries), 1, n)
  <2>1. PICK o, key, l, s : /\ o = out["sidecar"] /\ key = build.key /\ l = listing["sidecar"]
                            /\ s = ZipStream(EntriesOf(o, l, key))
    OBVIOUS
  <2>2. Package(o, key) /\ l = ArtifactsOf(o)
    BY <1>3, <2>1 DEF ZipInv, PackingOK, Signed, In
  <2>3. PICK n \in 0..Len(s) : zip' = SubSeq(s, 1, n)
    BY <1>3, <2>1, ZipEntriesAre
  <2>4. ZipOK(SubSeq(s, 1, n))
    BY <2>1, <2>2, ZipWritten
  <2>5. PICK z : z = SubSeq(s, 1, n)
    OBVIOUS
  <2>6. ZipOK(zip)'
    BY <2>3, <2>4
  <2> QED BY <1>1, <2>6 DEF ZipInv, PackingOK, Signed
<1> QED BY <1>2, <1>3 DEF KillBuild

\* The steps of the custody build, and the report of the sidecar's.
LEMMA CustodyBuildZipOK ==
    ASSUME BuildShape, ZipInv,
           CopyFile \/ WriteProvenance \/ WriteManifest \/ AssertManifestMatchesExactly
             \/ Publish \/ CopyToDistribution \/ ReportDistribution \/ ReportZip
    PROVE  ZipInv'
<1>1. zip' = zip
  BY DEF CopyFile, WriteProvenance, WriteManifest, AssertManifestMatchesExactly,
         Publish, CopyToDistribution, ReportDistribution, ReportZip
<1>2. build'.kind # "sidecar" \/ build'.pc = "off"
  <2>1. CASE Ends
    BY <2>1 DEF Ends, NoBuild
  <2>2. CASE build'.kind = build.kind /\ build.kind = "custody"
    BY <2>2
  <2>3. "kind" \in DOMAIN build
    BY DEF BuildShape, BuildFields
  <2>4. CASE CopyFile
    BY <2>3, <2>4 DEF CopyFile, CopyNext, In
  <2>5. CASE WriteProvenance
    <3>1. build.kind = "custody" /\ (Ends \/ build' = [build EXCEPT !.pc = "clean", !.version = VersionOf[tree]])
      BY <2>5 DEF WriteProvenance, In
    <3> QED BY <2>1, <2>3, <3>1
  <2>6. CASE WriteManifest \/ AssertManifestMatchesExactly \/ Publish
    <3>1. build.kind = "custody" /\ (Ends \/ \E next : Continues(next))
      BY <2>6 DEF WriteManifest, AssertManifestMatchesExactly, Publish, In
    <3> QED BY <2>1, <2>3, <3>1 DEF Continues
  <2>7. CASE CopyToDistribution
    BY <2>7 DEF CopyToDistribution, In
  <2>8. CASE ReportDistribution \/ ReportZip
    BY <2>1, <2>8 DEF ReportDistribution, ReportZip
  <2> QED BY <2>4, <2>5, <2>6, <2>7, <2>8
<1> QED BY <1>1, <1>2, ZipIdleOK

LEMMA ZipInvInit == InitL => ZipInv
<1> SUFFICES ASSUME InitL PROVE ZipInv
  OBVIOUS
<1>1. build.kind # "sidecar" \/ build.pc = "off"
  BY DEF InitL, NoBuild
<1>2. zip = NoFile
  BY DEF InitL
<1> QED BY <1>1, <1>2 DEF ZipInv, PackingOK, Signed, ZipOK

LEMMA ZipInvStep == BuildInv /\ ZipInv /\ [NextL]_lvars => ZipInv'
<1> SUFFICES ASSUME BuildInv, ZipInv, [NextL]_lvars PROVE ZipInv'
  OBVIOUS
<1>1. BuildShape
  BY DEF BuildInv
<1>2. CASE StartBuild \/ CopyReleaseFile \/ WriteProvenanceSidecar \/ AssertClean
             \/ WriteManifestAndSignature \/ WriteZip \/ VerifyExtract \/ KillBuild
  BY <1>1, <1>2, StartZipOK, CopyReleaseOK, ProvenanceSidecarOK, CleanSidecarOK, ManifestSidecarOK,
     WriteZipOK, VerifyExtractOK, KillSidecarOK
<1>3. CASE CopyFile \/ WriteProvenance \/ WriteManifest \/ AssertManifestMatchesExactly
             \/ Publish \/ CopyToDistribution \/ ReportDistribution \/ ReportZip
  BY <1>1, <1>3, CustodyBuildZipOK
<1>4. CASE EditTree \/ CommitTree \/ TagHead \/ PackRefs
  <2>1. UNCHANGED <<build, out, listing, zip>>
    BY <1>4 DEF EditTree, CommitTree, TagHead, PackRefs, NotBuilt
  <2> QED BY <2>1, ZipStays
<1>5. CASE UNCHANGED lvars
  <2>1. UNCHANGED <<build, out, listing, zip>>
    BY <1>5 DEF lvars
  <2> QED BY <2>1, ZipStays
<1> QED BY <1>2, <1>3, <1>4, <1>5 DEF NextL

\* However builds of the sidecar are killed, mid-write of its zip included, the
\* zip file that is found is not passed by the verifier while a file of it is
\* missing or cut, and the one the build goes on to verify passes (writeZip,
\* extractStoredZip, verifyReleaseIntegrity).
THEOREM ZipsAreWhole == SpecL => []ZipWhole
<1>1. BuildInv /\ ZipInv /\ [NextL]_lvars => (BuildInv /\ ZipInv)'
  BY BuildInvStep, ZipInvStep
<1>2. InitL => BuildInv /\ ZipInv
  BY BuildInvInit, ZipInvInit
<1> QED BY <1>1, <1>2, ZipInvIs, PTL DEF SpecL
=============================================================================
