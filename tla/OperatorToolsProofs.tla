------------------------ MODULE OperatorToolsProofs ------------------------
(***************************************************************************)
(* Proofs about the command gate (CodexGate), the browser console          *)
(* (BrowserConsole) and the desktop application (DesktopApp) for any       *)
(* number of processes, operations and addresses.                          *)
(***************************************************************************)
EXTENDS CodexGate, BrowserConsole, DesktopApp, TLAPS

-----------------------------------------------------------------------------
(* The command gate.                                                        *)

RunShape ==
  /\ DOMAIN run = Runs
  /\ \A r \in Runs : DOMAIN run[r] = {"pc", "key", "decision", "request", "status"}

Readable(lines) == \A i \in DOMAIN lines : lines[i] \notin {Cut, Garbage}

\* The processes that ended with their receipt appended.
Finished(r) == run[r].pc \in {"refused", "recorded"}

\* An unreadable line is never removed, and until there is one no receipt is lost.
GateInv ==
  /\ RunShape
  /\ \E S : log \in Seq(S)
  /\ Readable(log) => \A r \in Runs : Finished(r) => \E i \in DOMAIN log : log[i].by = r

\* What an append makes of the file.
LEMMA AppendIs ==
  ASSUME NEW S, NEW lines \in Seq(S), NEW x, NEW new, new = Append(lines, x)
  PROVE  /\ new \in Seq(S \cup {x}) /\ DOMAIN new = DOMAIN lines \cup {Len(lines) + 1}
         /\ \A i \in DOMAIN lines : new[i] = lines[i]
         /\ new[Len(lines) + 1] = x
<1>1. lines \in Seq(S \cup {x}) /\ x \in S \cup {x}
  OBVIOUS
<1> QED BY <1>1

\* A step of process r that appends nothing and does not end in a receipt.
LEMMA RunOnly ==
  ASSUME GateInv, NEW r \in Runs, RunShape', log' = log,
         \A q \in Runs : q # r => run'[q] = run[q],
         run'[r].pc \notin {"refused", "recorded"}
  PROVE  GateInv'
  BY DEF GateInv, Finished

\* The file becomes, or stays, unreadable.
LEMMA Spoilt ==
  ASSUME RunShape', \E S : log' \in Seq(S), NEW i \in DOMAIN log', log'[i] \in {Cut, Garbage}
  PROVE  GateInv'
  BY DEF GateInv, Readable

\* A process ends with its receipt appended.
LEMMA AppendKeeps ==
  ASSUME GateInv, NEW r \in Runs, NEW receipt1, receipt1.by = r, RunShape',
         log' = AppendReceipt(log, receipt1),
         \A q \in Runs : q # r => run'[q] = run[q]
  PROVE  GateInv'
<1>1. PICK S : log \in Seq(S)
  BY DEF GateInv
<1>2. CASE log # <<>> /\ Last(log) = Cut
  <2>1. log' = SubSeq(log, 1, Len(log) - 1) \o <<Garbage>>
    BY <1>2 DEF AppendReceipt, Front
  <2>2. PICK f : f = SubSeq(log, 1, Len(log) - 1)
    OBVIOUS
  <2>3. f \in Seq(S \cup {Garbage})
    <3>1. f \in Seq(S)
      BY <1>1, <1>2, <2>2
    <3> QED BY <3>1
  <2>4. PICK g : g = f \o <<Garbage>>
    OBVIOUS
  <2>5. g \in Seq(S \cup {Garbage}) /\ Len(f) + 1 \in DOMAIN g /\ g[Len(f) + 1] = Garbage
    BY <2>3, <2>4
  <2>6. log' = g
    BY <2>1, <2>2, <2>4
  <2> QED BY <2>5, <2>6, Spoilt
<1>3. CASE ~(log # <<>> /\ Last(log) = Cut)
  <2>1. PICK new : new = Append(log, receipt1)
    OBVIOUS
  <2>2. log' = new
    BY <1>3, <2>1 DEF AppendReceipt
  <2>3. /\ new \in Seq(S \cup {receipt1}) /\ DOMAIN new = DOMAIN log \cup {Len(log) + 1}
        /\ \A i \in DOMAIN log : new[i] = log[i]
        /\ new[Len(log) + 1] = receipt1
    BY <1>1, <2>1, AppendIs
  <2>4. Readable(new) => Readable(log)
    BY <2>3 DEF Readable
  <2>5. ASSUME Readable(new), NEW q \in Runs, Finished(q)' PROVE \E i \in DOMAIN new : new[i].by = q
    <3>1. CASE q = r
      BY <2>3, <3>1
    <3>2. CASE q # r
      BY <2>3, <2>4, <2>5, <3>2 DEF GateInv, Finished
    <3> QED BY <3>1, <3>2
  <2>6. (\E T : log \in Seq(T))'
    BY <2>2, <2>3
  <2>7. (Readable(log) => \A q \in Runs : Finished(q) => \E i \in DOMAIN log : log[i].by = q)'
    BY <2>2, <2>5 DEF Readable
  <2> QED BY <2>6, <2>7 DEF GateInv
<1> QED BY <1>2, <1>3

LEMMA CutKeeps ==
  ASSUME GateInv, RunShape', log' = CutAppend(log)
  PROVE  GateInv'
<1>1. PICK S : log \in Seq(S)
  BY DEF GateInv
<1>2. CASE log # <<>> /\ Last(log) = Cut
  <2>1. log' = log /\ Len(log) \in DOMAIN log /\ log[Len(log)] = Cut
    BY <1>1, <1>2 DEF CutAppend, Last
  <2> QED BY <1>1, <2>1, Spoilt
<1>3. CASE ~(log # <<>> /\ Last(log) = Cut)
  <2>1. PICK new : new = Append(log, Cut)
    OBVIOUS
  <2>2. log' = new
    BY <1>3, <2>1 DEF CutAppend
  <2>3. /\ new \in Seq(S \cup {Cut}) /\ DOMAIN new = DOMAIN log \cup {Len(log) + 1}
        /\ new[Len(log) + 1] = Cut
    BY <1>1, <2>1, AppendIs
  <2> QED BY <2>2, <2>3, Spoilt
<1> QED BY <1>2, <1>3

LEMMA GateNext == GateInv /\ [NextG]_gvars => GateInv'
<1> SUFFICES ASSUME GateInv, [NextG]_gvars PROVE GateInv'
  OBVIOUS
<1>1. RunShape
  BY DEF GateInv
<1>2. ASSUME NEW r \in Runs, FailRun(r) PROVE GateInv'
  <2>1. run' = [run EXCEPT ![r].pc = "failed closed"] /\ log' = log
    BY <1>2 DEF FailRun
  <2> QED BY <1>1, <2>1, RunOnly DEF RunShape
<1>3. ASSUME NEW r \in Runs, Begin(r) PROVE GateInv'
  <2>1. CASE FailRun(r)
    BY <1>2, <2>1
  <2>2. CASE ~FailRun(r)
    <3>1. PICK new : /\ new.pc \in {"decided", "asked"} /\ log' = log
                     /\ DOMAIN new = {"pc", "key", "decision", "request", "status"}
                     /\ run' = [run EXCEPT ![r] = new]
      BY <1>3, <2>2 DEF Begin
    <3> QED BY <1>1, <3>1, RunOnly DEF RunShape
  <2> QED BY <2>1, <2>2
<1>4. ASSUME NEW r \in Runs, RemoteDecision(r) PROVE GateInv'
  <2>1. PICK d : run' = [run EXCEPT ![r].pc = "decided", ![r].decision = d] /\ log' = log
    BY <1>4 DEF RemoteDecision
  <2> QED BY <1>1, <2>1, RunOnly DEF RunShape
<1>5. ASSUME NEW r \in Runs, Refuse(r) PROVE GateInv'
  <2>1. CASE FailRun(r)
    BY <1>2, <2>1
  <2>2. CASE ~FailRun(r)
    <3>1. PICK line : line = SignReceipt(r, run[r].decision, "REFUSED_NOT_EXECUTED")
      OBVIOUS
    <3>2. /\ log' = AppendReceipt(log, line) /\ run' = [run EXCEPT ![r].pc = "refused"]
          /\ line.by = r
      BY <1>5, <2>2, <3>1 DEF Refuse, SignReceipt
    <3> QED BY <1>1, <3>2, AppendKeeps DEF RunShape
  <2> QED BY <2>1, <2>2
<1>6. ASSUME NEW r \in Runs, Spawn(r) PROVE GateInv'
  <2>1. CASE FailRun(r)
    BY <1>2, <2>1
  <2>2. CASE ~FailRun(r)
    <3>1. PICK status : run' = [run EXCEPT ![r].pc = "spawned", ![r].status = status] /\ log' = log
      BY <1>6, <2>2 DEF Spawn
    <3> QED BY <1>1, <3>1, RunOnly DEF RunShape
  <2> QED BY <2>1, <2>2
<1>7. ASSUME NEW r \in Runs, Record(r) PROVE GateInv'
  <2>1. CASE FailRun(r)
    BY <1>2, <2>1
  <2>2. CASE ~FailRun(r)
    <3>1. PICK line : line = SignReceipt(r, run[r].decision, run[r].status)
      OBVIOUS
    <3>2. /\ log' = AppendReceipt(log, line) /\ run' = [run EXCEPT ![r].pc = "recorded"]
          /\ line.by = r
      BY <1>7, <2>2, <3>1 DEF Record, SignReceipt
    <3> QED BY <1>1, <3>2, AppendKeeps DEF RunShape
  <2> QED BY <2>1, <2>2
<1>8. ASSUME NEW r \in Runs, CutShort(r) PROVE GateInv'
  BY <1>1, <1>8, CutKeeps DEF CutShort, RunShape
<1>9. ASSUME NEW r \in Runs, Kill(r) PROVE GateInv'
  <2>1. run' = [run EXCEPT ![r].pc = "ended"] /\ log' = log
    BY <1>9 DEF Kill
  <2> QED BY <1>1, <2>1, RunOnly DEF RunShape
<1>10. CASE EditPolicy \/ BundleRead \/ BundleWrite \/ UNCHANGED gvars
  <2>1. run' = run /\ log' = log
    BY <1>10 DEF EditPolicy, BundleRead, BundleWrite, gvars
  <2> QED BY <2>1 DEF GateInv, RunShape, Finished
<1> QED BY <1>2, <1>3, <1>4, <1>5, <1>6, <1>7, <1>8, <1>9, <1>10 DEF NextG, RemoteFails

\* codex-mnde/lib/receipts.mjs: however appends of several processes are cut
\* short and joined, a receipt file that readReceipts accepts holds the receipt
\* of every process that ended with one appended.
THEOREM NoReceiptPassedOver == SpecG => []ReadableIsWhole
<1>1. InitG => GateInv
  <2> SUFFICES ASSUME InitG PROVE GateInv
    OBVIOUS
  <2>1. RunShape /\ \A r \in Runs : run[r].pc = "idle"
    BY DEF InitG, RunShape, Idle
  <2>2. log \in Seq({})
    BY DEF InitG
  <2> QED BY <2>1, <2>2 DEF GateInv, Finished
<1>2. GateInv => ReadableIsWhole
  BY DEF GateInv, ReadableIsWhole, ReadReceipts, Readable, Finished
<1> QED BY <1>1, <1>2, GateNext, PTL DEF SpecG

-----------------------------------------------------------------------------
(* The browser console.                                                     *)

LEMMA ConsoleNext == ShownIsHeld /\ [NextB]_bvars => ShownIsHeld'
<1> SUFFICES ASSUME ShownIsHeld, [NextB]_bvars PROVE ShownIsHeld'
  OBVIOUS
<1>1. CASE UNCHANGED <<receipt, badge, enabled, viewer>>
  BY <1>1 DEF ShownIsHeld
<1>2. CASE receipt' = Null /\ enabled' = FALSE
  BY <1>2 DEF ShownIsHeld
<1>3. CASE \E r \in Receipts : SetReceipt(r)
  BY <1>3, ConsoleAssumption DEF ShownIsHeld, SetReceipt, Render
<1>4. CASE Edit \/ LoadPreset \/ SyncObserved \/ EditJson
  BY <1>1, <1>4 DEF Edit, LoadPreset, SyncObserved, EditJson, screen
<1>5. ASSUME NEW doc, LoadRequest(doc) PROVE ShownIsHeld'
  BY <1>1, <1>2, <1>5 DEF LoadRequest, FailClosed, screen
<1>6. CASE SetTab
  BY <1>6 DEF SetTab, Render, ShownIsHeld
<1>7. ASSUME NEW o \in Ops, Send(o) \/ SendDone(o) PROVE ShownIsHeld'
  BY <1>1, <1>2, <1>3, <1>7 DEF Send, SendDone
<1>8. ASSUME NEW o \in Ops, ReceiptAction(o) \/ ReceiptActionDone(o) \/ Import(o)
      PROVE  ShownIsHeld'
  BY <1>1, <1>8 DEF ReceiptAction, ReceiptActionDone, Import, screen
<1>9. ASSUME NEW o \in Ops, RequestFileRead(o) \/ ReceiptFileRead(o) \/ OpFails(o)
      PROVE  ShownIsHeld'
  BY <1>2, <1>3, <1>5, <1>9 DEF RequestFileRead, ReceiptFileRead, OpFails, FailClosed
<1>10. CASE UNCHANGED bvars
  BY <1>1, <1>10 DEF bvars
<1> QED BY <1>4, <1>5, <1>6, <1>7, <1>8, <1>9, <1>10 DEF NextB, ApplyJson

\* main.js: in whatever order answers, files and failures come, the decision and
\* the text shown are those of the receipt that is held.
THEOREM HeldIsShown == SpecB => []ShownIsHeld
<1>1. InitB => ShownIsHeld
  BY DEF InitB, ShownIsHeld
<1> QED BY <1>1, ConsoleNext, PTL DEF SpecB

-----------------------------------------------------------------------------
(* The desktop application.                                                 *)

LoopFields == {"pc", "id", "settings", "demo"}
TelemetryFields == {"mode", "conn", "metrics", "receipts", "receiptsOk"}

\* A poll asks for the demo's evidence only once the demo is on, which it then
\* stays; while evidence is shown, metrics that look reported were answered.
PollInv ==
  /\ DOMAIN loop = LoopFields /\ DOMAIN telemetry = TelemetryFields
  /\ liveDemo \in BOOLEAN
  /\ \A r \in late \cup {loop} : r.demo \in BOOLEAN /\ (r.demo = TRUE => liveDemo = TRUE)
  /\ loop.pc = "ticking" => liveDemo = FALSE
  /\ overlay # "absent" => liveDemo = TRUE
  /\ overlay # "absent" /\ telemetry.metrics.policy # "unavailable" => "metrics" \in heard.ok

LEMMA TrustedIs == Trust = "TRUSTED" => liveDemo /\ overlay = "pass"
<1>1. DeriveTrustState(telemetry, auth.session, settings.mode) # "TRUSTED"
  BY DEF DeriveTrustState, Unverified
<1>2. LiveDemoTrustState(overlay) = "TRUSTED" => overlay = "pass"
  BY DEF LiveDemoTrustState
<1> QED BY <1>1, <1>2 DEF Trust

LEMMA ReadyIsBacked == PollInv => ReadyBacked
<1> SUFFICES ASSUME PollInv PROVE ReadyBacked
  OBVIOUS
<1>1. OperationalReady => "metrics" \in heard.ok /\ overlay = "pass"
  BY TrustedIs DEF PollInv, OperationalReady, NormalizeMetrics
<1>2. CanActivatePolicy => overlay = "pass"
  BY TrustedIs DEF CanActivatePolicy, GateProtectedAction
<1>3. CanActivatePolicy => auth.session.role = "ADMIN"
  BY DEF CanActivatePolicy, Can
<1> QED BY <1>1, <1>2, <1>3 DEF ReadyBacked

\* What a poll shows.
LEMMA ShowOK ==
  ASSUME PollInv, NEW r \in late \cup {loop}, Show(r)
  PROVE  /\ DOMAIN telemetry' = TelemetryFields
         /\ overlay' # "absent" => r.demo = TRUE
         /\ telemetry'.metrics.policy # "unavailable" => "metrics" \in heard'.ok
<1>1. PICK ok, worst, unsupported, ev :
        /\ ev = IF r.demo THEN evidence ELSE "absent"
        /\ overlay' = ev
        /\ telemetry' = OverlayTelemetry(IF ok = {} THEN Disconnected(telemetry, unsupported)
                                                    ELSE Snapshot(ok, worst), ev)
        /\ heard'.ok = ok
  BY DEF Show
<1>2. PICK t : t = IF ok = {} THEN Disconnected(telemetry, unsupported) ELSE Snapshot(ok, worst)
  OBVIOUS
<1>3. /\ DOMAIN t = TelemetryFields /\ DOMAIN t.metrics = {"policy", "signer"}
      /\ t.metrics.policy # "unavailable" => "metrics" \in ok
  <2>1. CASE ok = {}
    <3>1. /\ DOMAIN t = DOMAIN telemetry
          /\ t.metrics = [policy |-> "unavailable", signer |-> "Failed"]
      BY <1>2, <2>1 DEF Disconnected, PollInv, TelemetryFields
    <3> QED BY <3>1 DEF PollInv
  <2>2. CASE ok # {}
    BY <1>2, <2>2 DEF Snapshot, TelemetryFields, FallbackMetrics, NormalizeMetrics
  <2> QED BY <2>1, <2>2
<1>4. telemetry' = OverlayTelemetry(t, ev)
  BY <1>1, <1>2
<1>5. DOMAIN telemetry' = TelemetryFields /\ telemetry'.metrics.policy = t.metrics.policy
  BY <1>3, <1>4 DEF OverlayTelemetry, TelemetryFields
<1>6. r.demo \in BOOLEAN
  BY DEF PollInv
<1>7. overlay' # "absent" => r.demo = TRUE
  BY <1>1, <1>6
<1> QED BY <1>1, <1>3, <1>5, <1>7

\* The settings are set: the loop begins anew.
LEMMA SetSettingsOK ==
  ASSUME PollInv, NEW demo \in BOOLEAN, liveDemo = TRUE => demo = TRUE, liveDemo' = demo,
         NEW s, SetSettings(s, demo)
  PROVE  PollInv'
<1>1. /\ late' \subseteq late \cup {loop} /\ overlay' = overlay /\ heard' = heard
  BY DEF SetSettings
<1>2. \/ loop' = Ticking /\ telemetry' = InitialTelemetry /\ demo = FALSE
      \/ /\ \E i : loop' = [pc |-> "fetching", id |-> i, settings |-> s, demo |-> demo]
         /\ telemetry' = telemetry
  BY DEF SetSettings
<1>3. DOMAIN loop' = LoopFields /\ loop'.demo \in BOOLEAN /\ (loop'.demo = TRUE => demo = TRUE)
      /\ (loop'.pc = "ticking" => demo = FALSE)
  <2>1. CASE loop' = Ticking /\ demo = FALSE
    BY <2>1 DEF Ticking, LoopFields
  <2>2. CASE \E i : loop' = [pc |-> "fetching", id |-> i, settings |-> s, demo |-> demo]
    BY <2>2 DEF LoopFields
  <2> QED BY <1>2, <2>1, <2>2
<1>4. DOMAIN telemetry' = TelemetryFields /\ (telemetry' = telemetry \/ demo = FALSE)
  BY <1>2 DEF InitialTelemetry, TelemetryFields, PollInv
<1>5. \A r \in late' \cup {loop'} : r.demo \in BOOLEAN /\ (r.demo = TRUE => demo = TRUE)
  BY <1>1, <1>3 DEF PollInv
<1>6. overlay' # "absent" => demo = TRUE
  BY <1>1 DEF PollInv
<1>7. overlay' # "absent" /\ telemetry'.metrics.policy # "unavailable" => "metrics" \in heard'.ok
  BY <1>1, <1>4, <1>6 DEF PollInv
<1> QED BY <1>3, <1>4, <1>5, <1>6, <1>7 DEF PollInv

LEMMA PollOK == PollInv /\ Poll => PollInv'
<1> SUFFICES ASSUME PollInv, Poll PROVE PollInv'
  OBVIOUS
<1>1. CASE Apply
  <2>1. /\ Show(loop) /\ late' = late /\ liveDemo' = liveDemo
        /\ \E pc \in {"waiting", "ended"} : loop' = [loop EXCEPT !.pc = pc]
    BY <1>1 DEF Apply, world, starts, session
  <2>2. /\ DOMAIN telemetry' = TelemetryFields
        /\ overlay' # "absent" => loop.demo = TRUE
        /\ telemetry'.metrics.policy # "unavailable" => "metrics" \in heard'.ok
    <3>1. PICK r : r = loop
      OBVIOUS
    <3>2. Show(r)
      BY <2>1, <3>1 DEF Show
    <3> QED BY <3>1, <3>2, ShowOK
  <2>3. DOMAIN loop' = LoopFields /\ loop'.demo = loop.demo /\ loop'.pc # "ticking"
    BY <2>1 DEF PollInv, LoopFields
  <2> QED BY <2>1, <2>2, <2>3 DEF PollInv
<1>2. CASE ApplyLate
  <2>1. PICK r \in late : Show(r) /\ late' = late \ {r}
    BY <1>2 DEF ApplyLate
  <2>2. loop' = loop /\ liveDemo' = liveDemo
    BY <1>2 DEF ApplyLate
  <2>3. /\ DOMAIN telemetry' = TelemetryFields
        /\ overlay' # "absent" => r.demo = TRUE
        /\ telemetry'.metrics.policy # "unavailable" => "metrics" \in heard'.ok
    BY <2>1, ShowOK
  <2> QED BY <2>1, <2>2, <2>3 DEF PollInv
<1>3. CASE PollAgain
  <2>1. /\ loop' = [loop EXCEPT !.pc = "fetching"]
        /\ UNCHANGED <<late, liveDemo, telemetry, overlay, heard>>
    BY <1>3 DEF PollAgain
  <2>2. DOMAIN loop' = LoopFields /\ loop'.demo = loop.demo /\ loop'.pc # "ticking"
    BY <2>1 DEF PollInv, LoopFields
  <2> QED BY <2>1, <2>2 DEF PollInv
<1>4. CASE DemoTick
  <2>1. /\ loop.pc = "ticking" /\ telemetry' = AdvanceTelemetry(telemetry)
        /\ UNCHANGED <<late, liveDemo, loop, overlay, heard>>
    BY <1>4 DEF DemoTick
  <2>2. DOMAIN telemetry' = TelemetryFields
    BY <2>1 DEF AdvanceTelemetry, InitialTelemetry, TelemetryFields
  <2>3. overlay = "absent"
    BY <2>1 DEF PollInv
  <2> QED BY <2>1, <2>2, <2>3 DEF PollInv
<1> QED BY <1>1, <1>2, <1>3, <1>4 DEF Poll

LEMMA StillOK ==
  ASSUME PollInv, UNCHANGED <<loop, late, liveDemo, telemetry, overlay, heard>>
  PROVE  PollInv'
  BY DEF PollInv

LEMMA OperateOK == PollInv /\ Operate => PollInv'
<1> SUFFICES ASSUME PollInv, Operate PROVE PollInv'
  OBVIOUS
<1>1. CASE ChangeSettings \/ HandleReconnect \/ PromoteLiveDemo \/ PromoteDesktop
  <2>1. liveDemo' = liveDemo /\ \E s : SetSettings(s, liveDemo)
    BY <1>1, Zenon DEF ChangeSettings, HandleReconnect, PromoteLiveDemo, PromoteDesktop
  <2>2. PICK s : SetSettings(s, liveDemo)
    BY <2>1
  <2>3. PICK demo : demo = liveDemo
    OBVIOUS
  <2>4. SetSettings(s, demo) /\ demo \in BOOLEAN
    BY <2>2, <2>3 DEF PollInv, SetSettings
  <2> QED BY <2>1, <2>3, <2>4, SetSettingsOK
<1>2. CASE AutoStart \/ HandleStartSidecar \/ HandleStartLiveDemo \/ StartFailed
  BY <1>2, StillOK DEF AutoStart, HandleStartSidecar, HandleStartLiveDemo, StartFailed, polling
<1>3. CASE Started
  <2>1. PICK demo \in BOOLEAN : (liveDemo = TRUE => demo = TRUE) /\ liveDemo' = demo
                                /\ \E s : SetSettings(s, demo)
    <3>1. PICK r \in starting :
             /\ liveDemo' = (liveDemo \/ r.kind = "demo")
             /\ \E s : SetSettings(s, liveDemo \/ r.kind = "demo")
      BY <1>3, Zenon DEF Started
    <3>2. PICK demo : demo = (liveDemo \/ r.kind = "demo")
      OBVIOUS
    <3>3. demo \in BOOLEAN /\ (liveDemo = TRUE => demo = TRUE)
      BY <3>2
    <3> QED BY <3>1, <3>2, <3>3, Zenon
  <2> QED BY <2>1, SetSettingsOK
<1> QED BY <1>1, <1>2, <1>3 DEF Operate

\* The setup screen says ready, and a policy can be activated, only with an
\* answer behind it, for any addresses, roles and numbers of changes.
THEOREM ReadyIsAlwaysBacked == Spec => []ReadyBacked
<1>1. Init => PollInv
  <2> SUFFICES ASSUME Init PROVE PollInv
    OBVIOUS
  <2>1. /\ DOMAIN loop = LoopFields /\ loop.demo = FALSE
    <3>1. CASE settings.mode = "demo"
      BY <3>1 DEF Init, Ticking, LoopFields
    <3>2. CASE settings.mode # "demo"
      BY <3>2 DEF Init, LoopFields
    <3> QED BY <3>1, <3>2
  <2>2. DOMAIN telemetry = TelemetryFields
    BY DEF Init, InitialTelemetry, TelemetryFields
  <2>3. late = {} /\ liveDemo = FALSE /\ overlay = "absent"
    BY DEF Init
  <2> QED BY <2>1, <2>2, <2>3 DEF PollInv
<1>2. PollInv /\ [Next]_vars => PollInv'
  <2> SUFFICES ASSUME PollInv, [Next]_vars PROVE PollInv'
    OBVIOUS
  <2>1. CASE Poll
    BY <2>1, PollOK
  <2>2. CASE Operate
    BY <2>2, OperateOK
  <2>3. CASE Authenticate
    <3>1. CASE RefreshStart \/ AuthBootstrap \/ RefreshDone \/ CurrentValidSession
      <4>1. UNCHANGED polling
        BY <3>1, Zenon DEF RefreshStart, AuthBootstrap, RefreshDone, CurrentValidSession
      <4> QED BY <4>1, StillOK DEF polling
    <3>2. CASE Login \/ LoginStored \/ BootstrapAdmin \/ SessionAnswered \/ Logout
      BY <3>2, StillOK DEF Login, LoginStored, BootstrapAdmin, SessionAnswered, Logout, polling
    <3> QED BY <2>3, <3>1, <3>2 DEF Authenticate
  <2>4. CASE Change
    BY <2>4, StillOK DEF Change, SidecarChanges, EvidenceChanges, Expires, polling
  <2>5. CASE UNCHANGED vars
    BY <2>5, StillOK DEF vars, polling
  <2> QED BY <2>1, <2>2, <2>3, <2>4, <2>5 DEF Next
<1> QED BY <1>1, <1>2, ReadyIsBacked, PTL DEF Spec
=============================================================================
