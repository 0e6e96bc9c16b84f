# A verification of the MNDe sidecar in TLA+

MNDe is a pre-execution authority: a client asks whether a job may run, and gets
ALLOW or REFUSE with a signed receipt. This directory models the parts of the
repository that decide, record, answer, keep keys, ship and operate it, checks
them with TLC on small instances, and proves the most important facts with TLAPS
for all sizes.

## 1. Inventory

| Component | State | Operations | What makes it correct |
|---|---|---|---|
| Decision route (`mnde-local-sidecar.mjs`, `sidecar/runtime_watchdog.mjs`) | request slots, `inflight`, watchdog flags, one suspended handler per request | `handleDecide`, `fail`, `persistRefusal`, watchdog tick, shutdown | in `strict_audit` an ALLOW is on disk before the client has it; no ALLOW after a flush failure; every handler ends, with an answer unless its client is gone |
| HTTP front (`mnde-local-sidecar.mjs`, `sidecar/http_admission.mjs`, `sidecar/socket_registry.mjs`, `sidecar/production_api.mjs`) | sockets and their request state, active policy, hash and path, the receipt file | connect, admit, shed, route, activate a policy, read and replay receipts, evict, shut down | a socket is counted once; decisions use an activated policy; a passed replay read whole receipts; shutdown exits |
| Receipt queue (`sidecar/receipt_persistence_queue.mjs`) | queue, byte count, batch timer, running flush, fail-closed reason, file | `enqueue`, `flush`, timer, timeout, shutdown | one append at a time; accepted order; every accepted receipt is settled |
| Worker pool (`sidecar/deterministic_worker_pool.mjs`, `deterministic_worker.mjs`) | handles, idle list, queue, task timers | `submit`, message, error, exit, task timeout, shutdown | slots and tasks are conserved; every task is answered |
| Pipeline (`preflight/`, `orbit/`, `arm/`, `ram0na/` `engine.ts`, `shared/state.ts`, `audit/node_runtime.ts`, `sidecar/replay_engine.mjs`) | execution-id store, budget store | `executeDeterministicPipeline`, seed, reset, replay | single use of an id, no overdrawn budget, exact limits, receipts replay |
| Receipt verification (`sidecar/refusal_receipt.mjs`, `tools/verify-receipt.mjs`) | a receipt on paper | edit, re-sign, verify | under the key that signed it no edit passes; under any key, what passes is what the pipeline decides |
| Strict JSON (`shared/json.ts`, the console's copy) | none | parse, print canonically | the parser accepts exactly the grammar without repeated keys; the two copies agree; one meaning has one text |
| Authority assertions (`sidecar/auth_authority.mjs`) | nonce cache in memory and in a file | `authorizeAuthorityAction` | an assertion is accepted once, across restarts |
| Custody runtime (`custody/runtime.ts`, `shared/operations.js`, `shared/forbidden_content.js`) | configuration, preflight lock, policy file, log and receipt files, service process | preflight, run, tick, rotate, stop, crash | what preflight locked is what the service uses; rotation loses no receipt and keeps the newest log |
| Signer registry (`shared/custody_keys.js`) | tenants and their signer sets: pending, active, historical | validate, resolve, rotate, revoke, verify | rotation loses no old receipt, mixes no tenants and leaves each a signer |
| Custody sidecar (`sidecar-custody/server.js`, `verify-custody-receipt.js`) | handlers suspended on the signer, receipt file | decide, external signer call, timeout, write, answer | an answer is recorded before it is given |
| Release (`release/`, `scripts/build_*.mjs`, `scripts/release_provenance_helpers.mjs`, `sidecar-custody/verify-release.js`) | repository tree, output tree, distributions, zip | build step by step, publish, zip, verify | a published version is whole and from one tree; a verified zip holds what was packed |
| Desktop application (`mnde-sidecar-ui/src`) | settings, telemetry, polls in flight, session, sidecar process | poll, change settings, promote, start, stop, log in, renew, refresh, log out | READY is backed by an answer; the display settles on the truth; logout holds |
| Command gate (`mnde-run.mjs`, `codex-mnde/lib`) | receipt log | decide, execute, append, verify, bundle | what can be read from the log was wholly written |
| Browser console (`main.js`, `request-builder.js`) | controls, editor text, current receipt, requests in flight | edit, load, send, import, verify, replay | the decision shown belongs to the receipt held |

Interactions. `handleDecide` calls admission and saturation synchronously, posts
to the worker pool and awaits its promise, hands the receipt to the queue and,
in `strict_audit`, awaits the durable promise. A worker thread runs the pipeline
with stores of its own, reset before each task. The watchdog reads snapshots on
a timer. Privileged routes call `authorizeAuthorityAction` first. The production
API reads the file the queue appends to. The desktop application polls the HTTP
front and starts and stops it; the console and the gate send it requests. The
custody runtime starts the custody service after comparing policy, lock and
release manifest; the custody sidecar chooses its key through the signer
registry. The builds copy these programs and sign the manifest that
`release/integrity.ts` checks on start.

What is hard. The sidecar is one event loop with suspended handlers, a thread
pool for appends and worker threads for decisions: an append outlives its
timeout, a replaced worker still sends messages, a flush failure wakes many
handlers at once, the process may end inside a write. Operators edit policies,
keys and settings between a check and a use; the interfaces' answers arrive out
of order. The hazards are listed line by line in `PROJECT.json`.

## 2. Modules

| Module | Models | Notes |
|---|---|---|
| `ReceiptLog` | what the queue promises: an ordered log | abstract specification |
| `ReceiptQueue` | the queue, callback by callback | refines `ReceiptLog` |
| `ReceiptQueueProofs` | | theorems |
| `WorkerPool` | the pool and the threads around it | |
| `WorkerPoolProofs` | | theorems |
| `Pipeline` | four layers, stores, receipts, replay | |
| `PipelineProofs` | | theorems about `Pipeline` and `ReceiptVerification` |
| `ReceiptVerification` | receipts as records of hashed fields, the offline verifier | extends `Pipeline`: the receipts are those the pipeline issues |
| `Sidecar` | `handleDecide` for concurrent requests | composes `ReceiptLog`; the pool is a service that refuses or answers |
| `SidecarProofs` | | theorems |
| `SidecarHttp` | connections, admission, all routes, policy activation, shutdown | a decision is one step here, `Sidecar` has its interior |
| `SidecarHttpProofs` | | theorems |
| `StrictJson` | parser and canonical printer over lexemes | uses `RECURSIVE` operators: TLC only |
| `NonceAuthority` | assertion window, nonce cache, cache file | |
| `NonceAuthorityProofs` | | theorems |
| `CustodyRuntime` | preflight, lock, service, rotation | uses `ReleaseIntegrity` |
| `ReleaseIntegrity` | manifests and the comparison of a tree with one | |
| `SignerRegistry` | registry validation, resolution, rotation | |
| `CustodySidecar` | the custody service's handlers | |
| `CustodyProofs` | | theorems about `CustodyRuntime`, `CustodySidecar`, `SignerRegistry`, `ReleaseBuild` |
| `ReleaseBuild` | both builds, distributions, the zip and its reader | uses `ReleaseIntegrity` |
| `DesktopApp` | the window's polls, settings and process, the session and the shell's commands on it | |
| `CodexGate` | the command gate and its log | |
| `BrowserConsole` | the console page | |
| `OperatorToolsProofs` | | theorems about `CodexGate`, `BrowserConsole`, `DesktopApp` |
| `MC*` | instances for TLC | `MCReceipts` and `MCOperatorTools` hold several components, see section 3 |

Definitions marked "Mutant" are versions of the definition below them with a
plausible bug. No action uses them; each shows that a property can fail.

### How state and actions correspond to the code

*ReceiptQueue.* Variables are the private fields of `ReceiptPersistenceQueue`, the
promise chain of `flush` (`stage`, `batch`), the append that lost against the
timeout (`late`), the callers' view (`outcome`, `resolved`) and the file as a
sequence of lines that may be torn. `stage = "settled"` is the gap between the
settlement of the race and its `.finally`, in which a resumed handler may call
`enqueue`.

*WorkerPool.* A handle is the state object of one worker thread. A replaced handle
keeps its listeners. The environment delivers replies, `error` and `exit` events
and timeouts in any order; a thread may die with or without an `error` event and
with exit code 0, for which the pool does nothing.

*Pipeline.* A request is a record of the faults its text has and the numbers
preflight lets through. `Preflight`, `Orbit`, `Arm` and `Ramona` list the checks
in the order of the code; the first that fails gives the reason. A receipt
contains its request, and equal receipts stand for equal hashes. `MaxSafe` is
`Number.MAX_SAFE_INTEGER` scaled down. `worker` tells whether the caller is a
decision worker, which resets the stores before each task, or a process that
keeps them (`audit/`, the tools).

*ReceiptVerification.* A hash is the record of what it covers, a signature that of
a key and a payload. Fields and parts of the signature are changed or removed one at
a time (`EditPaper`, `EditSignature`), or the payload, perhaps first made consistent
again, is signed with a key of somebody else's (`Resign`). The verifiers take the
public key from the receipt, as `ram0na/engine.ts` does, and compare it with none;
their checks are made in the order of `tools/verify-receipt.mjs`, the last of which
decides the request again with the operators of `Pipeline`.

*Sidecar.* An action is the code of a handler between two awaits. `Fail` is `fail`
and `persistRefusal`; its parameter says what the handler still holds. A settled
promise's handler runs before any other event (`Idle`). A rejection that nobody
handles ends the process, the default of Node.js; the repository installs no
handler. The queue may refuse at any time, as its byte limit is not counted here.
A queue fails closed for one of two reasons (`failed`): a flush failed, or the drain
of a shutdown was given up at its deadline (`DrainGivenUp`), after which the append
then running may still reach the disk and its handler still answer. An answer to a
connection that has been destroyed goes nowhere: `response` returns without a word,
and the request ends as "gone".

*SidecarHttp.* A connection has one request, since every response closes it. Six
pieces of code may destroy a socket while its handler waits; the `close` event is
a step of its own. Shutdown is a sequence of awaits and may run twice, once for
each signal. The receipt file is a sequence of lines of which the last may be
half written when a route reads it.

*NonceAuthority.* One call is one action, as the code has no await. A write of the
file succeeds, fails before it changes anything, or fails half way and leaves a
file that does not parse; `Restart(TRUE)` is an end of the process inside the
write. `cacheLost` records that a process started on such a file: the code then
starts with an empty cache, so single use is claimed only up to that point.

*StrictJson.* A source is a sequence of lexemes that grows by one in each step, so
that TLC visits every short text. The reference is a grammar, given as the set of
meanings of a text, with no position, look-ahead or error in it.

*CustodyRuntime, ReleaseIntegrity.* Commands are processes over shared files, and
every read or write of a file is a step. `VerifyReleaseIntegrity` compares what is on
disk with the manifest in the order of `release/integrity.ts`. A process may be
killed between steps and inside an append; the operator edits policy and lock.

*SignerRegistry.* The registry is a file the customer edits, and every use validates
all of it. The edits are those of `custody.md`: a set is added, for a tenant that is
new or listed already, in one of its entries or in a second one, and the two steps of
a rotation change the status of a set. Sets are not removed, as `custody.md` asks to
keep historical ones; a removed set makes its receipts unverifiable, which needs no
model. A set of signers is pending, active or historical, and a receipt keeps the
signer that was active when it was issued.

*CustodySidecar.* A handler waits for its body and for the signer. The timer
aborts the call, so that an answer and the abort may race; the append may be cut.

*ReleaseBuild.* One step per file copied or written, with edits of the working
tree and kills between; the zip is a sequence of units, each of which may be the
last one that reached the disk, read by the loop of `extractStoredZip`.

*DesktopApp.* Each change of the settings starts a polling loop; requests that
were sent are a set and are answered in any order. The four requests of a poll fail
each by itself, so a poll may have any part of the answers. The session commands of
the native shell (`main.rs`) are steps: they are not async and run one after another.
`AuthBootstrap` renews the stored session, reconciles its role with the RBAC policy,
clears it or fails; `CurrentValidSession` is what every other command does to it first.
What the identity provider answers and what the policy file says is free.

*CodexGate, BrowserConsole.* Processes of the gate share a policy file and a
receipt file; each read and append is a step. The page's fetches and file reads
are a set of operations that end in any order.

## 3. Runs

| Run | Instance | Distinct states | Shows |
|---|---|---|---|
| `receipt_queue` | 4 receipts, 3 items, batches of 2, 1 restart | 124 782 | safety, refinement, settlement, shutdown |
| `worker_pool` | 1 worker, 3 tasks, queue of 1, 5 handles, 1 death | 118 664 | conservation, answers, shutdown |
| `receipts` | seven instances, see below | 1 188 407 | from the decision to the shipped verifier |
| `sidecar` | 3 requests, 2 slots, both modes | 363 328 | durability, failure, answers |
| `sidecar_http` | 3 sockets, 2 let in, 1 request served, 4 policy files, 2 lines | 812 666 | sockets, policy, replay, shutdown |
| `desktop_app` | 2 addresses, 2 edits, 2 sessions, 2 refreshes | 567 952 | display and session settle |
| `operator_tools` | four instances, see below | 1 139 307 | nonces, gate, console, JSON |
| `receipt_queue_shutdown` | 3 receipts | violation | receipts left at the deadline |
| `receipt_queue_torn` | 3 receipts, 1 restart | violation | a durable receipt on a torn line |
| `pipeline_approval` | as in `receipts` | violation | no approval check |
| `sidecar_flush_failure` | 2 requests | violation | a flush failure ends the process |
| `sidecar_http_policy` | as `sidecar_http` | violation | a refused policy reported under the old hash |

`MCReceipts` and `MCOperatorTools` each hold components that share no state. A
behaviour of such a module is a behaviour of one of the components (`which`), and
the others stand still, so that the state space is the sum of theirs and not the
product. Nothing is lost by it: no step of one can enable a step of another.

Bounds. Four receipts with a queue of three and batches of two fill the queue
while a batch is being written and have one refused; one receipt is three times as
long as the others, so that either limit can be the one that refuses. Three tasks
occupy the worker and the queue and have one refused; five handles are one for the
start, one for each timeout and one for the death, so that the bound never
withholds a replacement. The tasks are numbered in the order they are submitted
in, which loses nothing, as tasks not yet submitted are alike, and unlike a symmetry
set is sound for liveness. The nonce clock runs past the longest retention, so
entries are cleaned up and windows end. `MaxSafe = 15` is passed by some of the
requests' products and not by others. Three requests with two slots have one
refused by admission while two are suspended. Two edits of a receipt are enough to
change a field and the hash that covers it. Two signer sets and four edits perform
a whole rotation and undo it. Two revisions, one of which names something
forbidden, and two edits let a build read each from a different file; a rebuild
follows a crash. Two custody processes, two starts and two faults put a crash into
a rotation and another process beside it. Custody starts from the first of two
policies, which are alike but for the pinned hash; an edit brings in the second. Two gate processes put one's torn append
in front of the other's receipt. The JSON texts are all those up to the
length named in `MCAlphabets`, of which every prefix could be continued, over
several small alphabets, which include nesting, repeated keys in two spellings, and
numbers past the safe range. `desktop_app` moves either the polls or the session;
of the answers to a poll it takes one for every state of the connection, among them
that only the metrics failed, and leaves out receipts that drift, which can only
withdraw a verdict. Symmetry is used
only in runs without liveness properties (over processes in `receipts`, over nonces
in `operator_tools`). Deadlock is not checked: in each instance every receipt,
task, request or edit is used up, and the system may then stand still.

## 4. Properties

- `ReceiptQueue`: `PendingTracked` (the open promises are exactly the receipts in
  batch and queue, once, in order), `NoStranded` (a queue that is not empty has a
  flush, a timer or a shutdown loop to serve it), `SingleAppend`,
  `ImplementsReceiptLog`; `EventuallySettled`, `ShutdownReturns`.
- `WorkerPool`: `SlotsConserved`, `WorkConserving` (no idle worker beside a queued
  task), `TasksAccounted`; `EventuallyAnswered`, `ShutdownReturns`. `TypeOK`,
  `QueueBounded`, `OneTaskPerThread` and `AnsweredOnce` are proved and are not part
  of a run.
- `Pipeline`: `AllowedOnce`, `BudgetKept`, `AllowWithinPolicy` (by the exact cost,
  so overflow lets nothing through), `ReplayOnlyDriftsByStores`; `WorkerReceiptsReplay`
  (in `PipelineProofs`) is proved.
- `ReceiptVerification`: `EditsDetected` (`UnderTheIssuersKey`: with the key that signed
  it, only the original passes; `UnderAnyKey`: whoever signed it, what passes
  `tools/verify-receipt.mjs` is what the pipeline decides of its request).
- `Sidecar`: `AllowIsDurable`, `NoAllowAfterFailure` (after a failed flush none; after
  a drain given up only what the last append brings to disk); `EventuallyOver`.
  `SlotsBalanced` (the admission counters are the numbers of requests that hold a
  slot) is proved.
- `SidecarHttp`: `SocketsBalanced`, `AllowsUnderActivatedPolicy`,
  `PassMeansWhole`; `ShutdownExits`.
- `NonceAuthority`: `AcceptedOnce`, `PersistedBeforeAccepted`; `Recorded` and
  `TypeOK` are proved.
- `StrictJson`: `ParserIsGrammar` (of both copies of the parser, but for members named
  `__proto__` in the console's), `CanonicalIsUnique`.
- `CustodyRuntime`: `LockedUnlessEdited` (the policy in use is the locked one,
  unless the configuration pins none and a file was edited during the start),
  `ReceiptsKept`, `LogKeepsNewest`.
- `SignerRegistry`: `RotationSafe` (what needs its tenant listed once says so).
  `CustodySidecar`: `AnswersRecorded`.
- `ReleaseBuild`: `DistributionsWhole`, `ZipWhole`.
- `DesktopApp`: `ReadyBacked`; `ShownSettles`, `LogoutSettles`.
- `CodexGate`: `ReadableIsWhole`. `BrowserConsole`: `ShownIsHeld`.

## 5. Fairness

- `ReceiptQueue`: timers fire and an append ends or its timeout fires: the
  timeout is a timer, so nothing is assumed of the disk. The `.finally` and the
  poll of the shutdown loop run: microtasks and timers.
- `WorkerPool`: armed task timers fire and a terminated thread stops. No worker is
  assumed to reply, and no message or event to arrive.
- `Sidecar`: a body arrives or the request timeout cuts it off; the pool answers
  and the queue settles or its drain is given up (the liveness checked by
  `worker_pool` and `receipt_queue`); a shutdown that has drained exits (checked by
  `sidecar_http`); microtasks run. Nothing is assumed of clients, arrivals, the
  watchdog or signals.
- `SidecarHttp`: the awaits of a shutdown that has begun are resumed (the queue
  and the pool return, the socket grace is a timer). Nothing is assumed of clients.
- `DesktopApp`: the polling and session timers fire; a poll of the four requests ends
  by their time-outs, and the shell's commands return, unless a login that waits for
  the browser holds the shell. A poll of the live demo also awaits the evidence, which
  has no time-out, and is not assumed to end; `ShownSettles` takes it as a premise
  there that polls go on ending. Nothing is assumed of requests of cancelled loops, of
  the operator or of the sidecar.

## 6. Findings

1. `shutdown()` of the queue leaves its loop at the deadline with receipts in the
   queue (`receipt_queue_shutdown`); the documentation says none is dropped
   silently.
2. A torn line left by a cut-short append is continued by the first append after
   a restart (`receipt_queue_torn`): that receipt is reported durable and cannot
   be read back.
3. `require_manual_approval_above_cents` is validated and never compared
   (`pipeline_approval`), against the documentation and the audit case PX-015.
4. In throughput mode a flush failure ends the process by an unhandled rejection
   (`sidecar_flush_failure`). In `strict_audit` the same happens when the handler
   that waits is in a refusal outside the `try` block; handlers inside it refuse.
5. A policy activation that fails while hashing is answered REFUSED and leaves the
   new policy active beside the old hash (`sidecar_http_policy`). No decision is
   allowed under it (`AllowsUnderActivatedPolicy`), because a request is given the
   policy of the moment and needs a canonical form, which fails in the same way.

### Other divergences met while modelling

The models have these behaviours; no run is devoted to them.

- *Pipeline.* Workers reset the stores before each task, so an execution id that
  was consumed is allowed again (`sidecar/deterministic_worker.mjs:9`, against
  `docs/SECURITY_MODEL.md:3`). `AllowedOnce` is therefore claimed of processes that
  keep their stores.
- *Receipts.* The verifiers trust whatever key a receipt brings
  (`ram0na/engine.ts:200-224`): an edited receipt signed again with another key passes
  `verifyReceiptSignature`, and `tools/verify-receipt.mjs` too if the pipeline decides
  what it says. The results of the orbit and ram0na layers it states, and a missing copy
  of a hash, are compared with nothing. A refusal written by the sidecar carries no `public_key_pem` and its
  decision hash leaves out the costs, so `tools/verify-receipt.mjs` refuses every
  one. A refusal that came from a store never verifies by replay.
- *HTTP.* Idle eviction after 500 ms cuts sockets whose decision is still being
  made (`sidecar/socket_registry.mjs:110`). With the defaults the 72 connections of
  the 503 limit are reached before the 128 sockets of socket admission, which is
  then unreachable. A policy activated in cluster mode is active in one process. The
  handler of a socket destroyed while it waits goes on and answers nobody
  (`mnde-local-sidecar.mjs:306`): its decision may be on disk and unknown to the client.
- *Queue and shutdown.* A drain given up at the deadline fails the queue closed, as a
  failed flush does, but the append then running may still succeed
  (`receipt_persistence_queue.mjs:151`) and its ALLOW be answered before the exit.
- *Custody runtime.* Without a pinned hash the service runs on a policy that was
  edited between its readings (`scripts/test_custody_audit_hardening.mjs` tests one
  such edit only). An installed package that nobody edited fails verification,
  because the installer adds files (`operator_runbook.md:49`, `lifecycle/install.ps1`).
- *Custody sidecar and keys.* Malformed bodies share the request hash of `{}`, and
  an empty body is allowed. A quorum set passes validation and has no active
  signer. A tenant listed twice passes validation (`shared/custody_keys.js:95`): it may
  have two active signers, and its old receipts match two sets and no longer verify.
- *Builds.* A loose annotated tag is not recognised until the refs are packed; a
  dirty tree is still "complete" provenance; the conflict check of
  `AUDIT_PROVENANCE_REPORT.md:84` is a `??`; the sidecar build reuses its version
  and zip name with a new key, where `RELEASE_INTEGRITY.md:3` asks for a new
  version; a crash during publication leaves a partial directory that blocks the
  version; the zip's checksums are written and never checked.
- *Desktop.* A late poll overwrites newer telemetry until the next poll; a refresh
  sent before logout shows the session again until the next refresh;
  `handleStartSidecar` writes back settings it read before it waited; promotion
  undoes the first switch to demo; the key-set fingerprint is always "unverified",
  so TRUSTED is reached only in the live demo, whose overlay counts as a connection
  and as a healthy signer even when the sidecar's metrics failed. A poll of the live
  demo whose evidence is never answered is the last one, and a login left open in the
  browser keeps the shell from answering. A renewal that fails leaves an expired
  session in the store; a first administrator is told of no error after the write.
- *Gate.* A remote ALLOW without hashes runs the command and then fails to sign:
  it prints REFUSE and leaves no receipt, while the proof bundle states
  `dropped_decisions: 0`. A command whose output passes `maxBuffer` is reported as
  not spawned though it ran. A torn append joins the next receipt, and the log can
  then not be read at all.
- *Console.* A late verification result is shown beside another receipt; sends may
  be answered out of order; `fetchJson` falls back to the lenient `JSON.parse`; an
  empty number field counts as 0; its parser loses a key named `__proto__`.

## 7. Proofs

`ReceiptQueueProofs` assumes `ConfigAssumption` (positive limits, a batch no larger
than the queue, as the constructor requires) and `ReceiptAssumption` (lines have
positive length). The invariant is

    IInv == TypeOK /\ AppendState /\ DrainState /\ NoStranded /\ PendingTracked

`NoStranded` is not inductive by itself: whether somebody serves the queue depends
on how `stage`, `batch`, `late` and the fail-closed flag fit together
(`AppendState`) and on where the shutdown loop stands (`DrainState`).
`PendingTracked` needs that batch and queue are disjoint and repeat nothing. From
it follow `TypeCorrect`, `PendingCorrect`, `NoStrandedCorrect`,
`SingleAppendCorrect` and the refinement `QueueImplementsLog`, in which every
action maps to one step of `ReceiptLog` or to none.

`NonceAuthorityProofs` assumes only that the lifetime is positive and the skew a
natural number. `IInv == TypeOK /\ Recorded /\ AcceptedOnce`: single use rests on
every used and still valid nonce being remembered, which rests on the retention
time reaching past the validity of any assertion that can be accepted. Theorems:
`TypeCorrect`, `SingleUse`, `RecordedCorrect`, `PersistCorrect`.

`WorkerPoolProofs` assumes positive numbers of workers and queue places, enough
handles for the first workers and that no task is `NoTask`. `PoolInv` is `TypeOK`,
`SlotsConserved`, `WorkConserving`, `TasksAccounted` and `QueueBounded` together
with: `idle` repeats no handle, a closed pool queues nothing, a pool not started
has nothing, only handles in use have a task, and events come only from threads
that were started. The parts need each
other: since no task waits while a worker is free, each handler's `dispatch` makes
at most one pair, and this is what keeps slots and tasks accounted. Theorems
`PoolTypeCorrect`, `SlotsKept`, `NoIdleWait`, `QueueDepthKept`, `TasksKept`, and
the action property `AnswersFinal`. `ThreadInv` adds what was posted to a thread,
and gives `ThreadsAlone`.

`PipelineProofs` assumes well-formed requests and natural budgets. `IInv` adds to
the checked invariants that, where the stores are kept, an allowed id is marked in
them (`IdsMarked`) and that a decision worker, whose stores are reset, has no budget
(`WorkerUnbudgeted`). Theorems `IdsAllowedOnce`, `BudgetsKept`,
`AllowsWithinPolicy`, `ReplayDrift`, `WorkersReplay`. For the receipts on paper,
`PaperInv` says that the paper has all of a receipt's parts, that its HMAC and any
signature of the issuer's key are over the original's payload, and that a fresh
original is what the pipeline decides over empty stores; a paper that passes with the
issuer's key therefore has the original's payload (`PaperInvDetects`). Whatever the
key, the verifier decides the request again and compares; what it does not compare
itself follows from the hashes (`VerifiedAreDecided`). Together they give the theorem
`EditsAreDetected`. It assumes that the two marks for an absent and for a changed value
are no value a receipt is issued with (`MarksAssumption`).

`SidecarProofs` assumes positive limits. `AllowIsDurable` needs that a
decision's resolved promise has its receipt on disk (`OkIsDurable`), that what a
waiting handler has in the queue is its decision (`QueueEntries`), and that such a
handler remembers that decision (`DurableAfter`); `FailedClosed` - a failed queue
takes nothing; after a failed flush it holds nothing and none of its promises is found
resolved, and after a drain that was given up the process only waits to exit - gives
the action property `FailureStopsAllows`.
`SlotInv` counts the holders of slots and gives `SlotsCounted`.

`SidecarHttpProofs` has three separate invariants: `SocketInv` (a socket in the
registry is open, or destroyed with its `close` event to come), `PolicyInv` (a canonical
policy in force was activated, and a decision in progress is under one) and
`HistoryInv` (a scan of the receipt file reaches past the newest lines). Theorems
`SocketsCounted`, `AllowsActivated`, `PassWhole`.

`CustodyProofs`, on `CustodyRuntime`: `StartInv` says of every process what it
knows at its step - nothing yet, or the hash pinned by its configuration, or a
hash that agreed with the file since the last edit - and that the lock is pinned;
`StoreInv` bounds the receipts lost, plus one for a line that is still unfinished,
by the faults so far; `LogInv` says that every log file holds at most one batch
and the files hold the newest ones in order. Theorems `PolicyLocked`,
`ReceiptsNotLost`, `NewestLogged`. Besides bounds they assume that the error of
every broken policy is known and that `Nothing` is neither a receipt file nor a
kind of audit event. On `CustodySidecar`, for finitely many handlers: `RecordInv`
strengthens each bound of `AnswersRecorded` by a fragment at the end of the file,
which holds back one fault for the line it will spoil; theorem `AnswersBacked`. On
`SignerRegistry`: edits only add entries and change the status of a set, so the
entry a receipt was issued under still matches it, and every other match has the same
key; if the tenant is listed once, validation leaves no second match; theorem
`RotationsSafe`. On `ReleaseBuild`: `BuildInv` says by the
step of a custody build which files its output directory holds, from which step on
they are clean and the manifest lists exactly them, and that a distribution in the
making holds a part of them, unchanged and not yet reported; of the distribution
directories it says that each is a part of one build, whatever a kill left of it.
What verifies is then complete, since the manifest is written last and lists every
file; theorem `DistributionsStayWhole`. It assumes that the custody package copies at
least one file and that the markers for an absent or unparsable file are no
content, listing or distribution. The sidecar's build touches no distribution.
`ZipInv` says the same by the step of the sidecar's build: what its output
directory holds, that from its second clean check on the signed manifest lists
exactly that, and that the zip file, whatever a kill left of it, is a beginning of
the stream of entries of one such package; theorem `ZipsAreWhole`. The lemmas before
it show where each entry of a stream lies (`FlatLayout`), that the reader needs no
more than the units from an entry's header to its last one (`ReaderIs`), that it
gets of a cut stream the first entries, the last of them perhaps cut (`ReadPart`),
and of a whole one every entry (`ReadWhole`). The zip and its reader are recursive
functions over sequences; as the library's induction theorems cannot be used, these
lemmas go by the least element of a set of naturals (`LeastNatural`, `Induct`). A
cut extract fails verification because the manifest lists every artifact with its
content and a cut one has another (`PartVerifies`); an empty file has nothing to
cut. Assumed are one file per path, that only the fixed content may be empty, and
that the marks for a cut and for an absent file are no name, content, manifest,
signature or extract (`ZipAssumption`, which TLC evaluates on `receipts`).

`OperatorToolsProofs`: `GateInv` (until a line is unreadable the receipt of every
finished process is in the file) gives `NoReceiptPassedOver`; `ShownIsHeld` is
inductive as it stands when `Null` is no receipt (`HeldIsShown`); `PollInv` says
that evidence is shown only while the demo is on, which is for good, and that
metrics shown with it as reported were answered, for any part of a poll's answers
(`ReadyIsAlwaysBacked`).

Only model-checked: liveness (TLAPS has no fairness reasoning here), and the two
invariants of `StrictJson`, whose parser and grammar are `RECURSIVE` operators, which
the prover cannot use.

## 8. Not modelled

Hashing and signatures (a hash stands for what it covers), metrics, timings,
wording and layout: no property is about them. String escapes inside a JSON
string are one lexeme. Of the Rust shell of the desktop application only the session
commands are modelled, and of rendering components nothing. The cluster fork, several
processes on one nonce file, a clock that runs backwards and two builds at once
are left out: the code makes no provision for them, so there is nothing to check.
`mnde-core/` imports `../ramona/index.ts`, which does not exist, and cannot run.
The OIDC helper, the static server, the installers and the audit, benchmark and
scenario harnesses are drivers and I/O around the modelled parts; they are a
large part of the repository's code and keep no state of the system.

## 9. Plan

Modelling follows the inventory and is done but for what section 8 names. Of the
safety invariants the runs check, all are proved but the two of `StrictJson`, which
are about operators that recur over their data and stay with TLC, as do the liveness
properties.
