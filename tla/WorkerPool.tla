----------------------------- MODULE WorkerPool -----------------------------
(***************************************************************************)
(* The pool of decision workers (sidecar/deterministic_worker_pool.mjs).   *)
(*                                                                         *)
(* The pool runs on the main thread and keeps one state object, here a     *)
(* handle, per worker thread.  A worker that fails or whose task times out *)
(* is terminated and gets a new handle; the old handle's listeners stay,   *)
(* so its late messages and events still arrive.  Each handler runs to     *)
(* completion and is one action; threads, messages in flight and timers    *)
(* are the environment it interleaves with.  Metrics are left out.         *)
(***************************************************************************)
EXTENDS Integers, Sequences, FiniteSets, SequencesExt

CONSTANTS
    Tasks,              \* the inputs callers submit, each one once
    NoTask,             \* active_task = null
    WorkerCount,        \* worker_count
    MaxQueueDepth,      \* max_queue_depth
    MaxHandles,         \* bound on the worker state objects ever created
    MaxDeaths           \* bound on threads that end on their own

ASSUME PoolAssumption ==
    /\ WorkerCount \in Nat \ {0}
    /\ MaxQueueDepth \in Nat \ {0}
    /\ MaxHandles \in Nat /\ MaxHandles >= WorkerCount
    /\ MaxDeaths \in Nat
    /\ NoTask \notin Tasks

VARIABLES
    workers,            \* #workers, the handles in use
    idle,               \* #idle
    queue,              \* #queue
    closed,             \* #closed
    active,             \* active_task of each handle
    replacing,          \* the handles whose replacing flag is set
    made,               \* handles 1..made have been created
    outcome,            \* what each caller has: see Outcomes
    timers,             \* armed task timeouts <<handle, task>>
    thread,             \* what each handle's thread is doing
    inbox,              \* tasks posted to a thread and not answered by it
    replies,            \* answers on their way to the main thread
    events,             \* "error" and "exit" events on their way
    deaths,             \* threads that ended on their own so far
    down                \* shutdown() has returned

poolVars == <<workers, idle, queue, closed, active, replacing, made, timers, down>>
envVars == <<thread, inbox, replies, events, deaths>>
vars == <<poolVars, envVars, outcome>>

Handles == 1..MaxHandles

\* A caller holds nothing, a pending promise, or one of the results.
Outcomes == {"none", "pending", "refused", "reply", "timeout", "failed"}

Init ==
    /\ workers = {} /\ idle = <<>> /\ queue = <<>>
    /\ closed = FALSE /\ down = FALSE
    /\ active = [w \in Handles |-> NoTask]
    /\ replacing = {}
    /\ made = 0
    /\ outcome = [t \in Tasks |-> "none"]
    /\ timers = {}
    /\ thread = [w \in Handles |-> "none"]
    /\ inbox = [w \in Handles |-> {}]
    /\ replies = {} /\ events = {} /\ deaths = 0

\* start: one handle per slot, all idle.  submit calls it first, so a submit to
\* a pool that has not been started is this step followed by Submit.
Start ==
    /\ workers = {} /\ ~closed
    /\ made' = WorkerCount
    /\ workers' = 1..WorkerCount
    /\ idle' = [k \in 1..WorkerCount |-> k]
    /\ thread' = [w \in Handles |-> IF w <= WorkerCount THEN "running" ELSE "none"]
    /\ UNCHANGED <<queue, closed, active, replacing, outcome, timers, inbox,
                   replies, events, deaths, down>>

Lesser(a, b) == IF a <= b THEN a ELSE b

\* What dispatch hands out from idle list i and queue q: idle handles and queued
\* tasks are paired off in order until one list is empty.
Pairs(i, q) == {<<i[k], q[k]>> : k \in 1..Lesser(Len(i), Len(q))}

\* assignTask for each pair of given: active_task, and the task posted.
Holding(a, given) ==
    [w \in Handles |-> IF \E t \in Tasks : <<w, t>> \in given
                       THEN CHOOSE t \in Tasks : <<w, t>> \in given ELSE a[w]]

Posted(posts, given) ==
    [w \in Handles |-> posts[w] \cup {t \in Tasks : <<w, t>> \in given}]

\* dispatch from idle list i, queue q, active tasks a and armed timers.
Dispatch(i, q, a, armed) ==
    LET n == Lesser(Len(i), Len(q))
    IN  /\ idle' = SubSeq(i, n + 1, Len(i))
        /\ queue' = SubSeq(q, n + 1, Len(q))
        /\ active' = Holding(a, Pairs(i, q))
        /\ inbox' = Posted(inbox, Pairs(i, q))
        /\ timers' = armed \cup Pairs(i, q)

\* submit has no idle worker and no room in the queue.
Saturated == idle = <<>> /\ Len(queue) >= MaxQueueDepth

\* submit on a closed or saturated pool.
SubmitRefused(t) ==
    /\ outcome[t] = "none"
    /\ closed \/ (workers # {} /\ Saturated)
    /\ outcome' = [outcome EXCEPT ![t] = "refused"]
    /\ UNCHANGED <<poolVars, envVars>>

\* submit: queue the task and dispatch.
Submit(t) ==
    /\ outcome[t] = "none"
    /\ ~closed /\ workers # {} /\ ~Saturated
    /\ outcome' = [outcome EXCEPT ![t] = "pending"]
    /\ Dispatch(idle, Append(queue, t), active, timers)
    /\ UNCHANGED <<workers, closed, replacing, made, down,
                   thread, replies, events, deaths>>

\* Mutant: dispatch is not called after a reply.
HandleMessageNoDispatch(m) ==
    /\ m \in replies
    /\ replies' = replies \ {m}
    /\ active[m.from] = m.task
    /\ outcome' = [outcome EXCEPT ![m.task] = "reply"]
    /\ active' = [active EXCEPT ![m.from] = NoTask]
    /\ timers' = timers \ {<<m.from, m.task>>}
    /\ idle' = IF closed THEN idle ELSE Append(idle, m.from)
    /\ UNCHANGED <<queue, inbox, workers, closed, replacing, made, down,
                   thread, events, deaths>>

\* handleMessage for the handle's active task.
HandleMessage(m) ==
    /\ m \in replies
    /\ replies' = replies \ {m}
    /\ active[m.from] = m.task
    /\ outcome' = [outcome EXCEPT ![m.task] = "reply"]
    /\ Dispatch(IF closed THEN idle ELSE Append(idle, m.from), queue,
                [active EXCEPT ![m.from] = NoTask],
                timers \ {<<m.from, m.task>>})
    /\ UNCHANGED <<workers, closed, replacing, made, down, thread, events, deaths>>

\* handleMessage with no active task, or with another one: ignored.
HandleStaleMessage(m) ==
    /\ m \in replies
    /\ active[m.from] # m.task
    /\ replies' = replies \ {m}
    /\ UNCHANGED <<poolVars, outcome, thread, inbox, events, deaths>>

\* filter((item) => item !== w): the kept elements of s, each at its rank among
\* them.  SelectSeq says the same, but nothing can be proved about it.
Without(s, w) ==
    LET kept == {k \in DOMAIN s : s[k] # w}
        Rank(k) == Cardinality({x \in kept : x <= k})
    IN  [j \in 1..Cardinality(kept) |-> s[CHOOSE k \in kept : Rank(k) = j]]

\* What handleWorkerFailure and handleTaskTimeout share: the handle loses its
\* task, leaves the idle list, and replaceWorker terminates its thread and puts
\* a new handle in its place; then dispatch.
Retire(w, armed) ==
    LET others == Without(idle, w)
    IN  /\ IF closed
           THEN UNCHANGED <<made, replacing, workers, thread>>
           ELSE /\ made < MaxHandles
                /\ made' = made + 1
                /\ replacing' = replacing \cup {w}
                /\ workers' = (workers \ {w}) \cup {made + 1}
                /\ thread' = [thread EXCEPT ![made + 1] = "running",
                                            ![w] = IF @ = "running" THEN "stopping" ELSE @]
        /\ Dispatch(IF closed THEN others ELSE Append(others, made + 1), queue,
                    [active EXCEPT ![w] = NoTask], armed)

\* Mutant: the task of the failed worker is not answered.
FailureDropsTask(w) ==
    /\ outcome' = outcome
    /\ Retire(w, timers \ {<<w, active[w]>>})
    /\ UNCHANGED <<closed, down>>

\* handleWorkerFailure on a handle that is not being replaced.
Failure(w) ==
    /\ outcome' = [t \in Tasks |-> IF t = active[w] THEN "failed" ELSE outcome[t]]
    /\ Retire(w, timers \ {<<w, active[w]>>})
    /\ UNCHANGED <<closed, down>>

\* The "error" event.
HandleError(w) ==
    /\ <<w, "error">> \in events
    /\ events' = events \ {<<w, "error">>}
    /\ IF w \in replacing
       THEN UNCHANGED <<poolVars, thread, inbox, outcome>>
       ELSE Failure(w)
    /\ UNCHANGED <<replies, deaths>>

\* Mutant: the replacing flag is not tested.
HandleExitTwice(w) ==
    /\ <<w, "exit">> \in events /\ <<w, "error">> \notin events
    /\ events' = events \ {<<w, "exit">>}
    /\ IF closed
       THEN UNCHANGED <<poolVars, thread, inbox, outcome>>
       ELSE Failure(w)
    /\ UNCHANGED <<replies, deaths>>

\* The "exit" event with a code other than 0, which follows an "error".
HandleExit(w) ==
    /\ <<w, "exit">> \in events /\ <<w, "error">> \notin events
    /\ events' = events \ {<<w, "exit">>}
    /\ IF closed \/ w \in replacing
       THEN UNCHANGED <<poolVars, thread, inbox, outcome>>
       ELSE Failure(w)
    /\ UNCHANGED <<replies, deaths>>

\* handleTaskTimeout; a timer of a task that is no longer active does nothing.
HandleTaskTimeout(w, t) ==
    /\ <<w, t>> \in timers
    /\ IF active[w] = t
       THEN /\ outcome' = [outcome EXCEPT ![t] = "timeout"]
            /\ Retire(w, timers \ {<<w, t>>})
       ELSE /\ timers' = timers \ {<<w, t>>}
            /\ UNCHANGED <<workers, idle, queue, active, replacing, made,
                           outcome, thread, inbox>>
    /\ UNCHANGED <<closed, down, replies, events, deaths>>

\* Mutant: the queued tasks are not answered.
ShutdownDrops ==
    /\ ~closed /\ closed' = TRUE
    /\ outcome' = outcome
    /\ queue' = <<>>
    /\ thread' = [w \in Handles |->
                    IF w \in workers /\ thread[w] = "running" THEN "stopping" ELSE thread[w]]
    /\ UNCHANGED <<workers, idle, active, replacing, made, timers, down,
                   inbox, replies, events, deaths>>

\* Mutant: only the idle workers are told to stop.
ShutdownSparesBusy ==
    /\ ~closed /\ closed' = TRUE
    /\ outcome' = [t \in Tasks |-> IF t \in Range(queue) THEN "failed" ELSE outcome[t]]
    /\ queue' = <<>>
    /\ thread' = [w \in Handles |->
                    IF w \in Range(idle) /\ thread[w] = "running" THEN "stopping" ELSE thread[w]]
    /\ UNCHANGED <<workers, idle, active, replacing, made, timers, down,
                   inbox, replies, events, deaths>>

\* shutdown up to its await: queued tasks fail, every worker is told to stop.
\* A second call finds nothing left to do.
Shutdown ==
    /\ ~closed /\ closed' = TRUE
    /\ outcome' = [t \in Tasks |-> IF t \in Range(queue) THEN "failed" ELSE outcome[t]]
    /\ queue' = <<>>
    /\ thread' = [w \in Handles |->
                    IF w \in workers /\ thread[w] = "running" THEN "stopping" ELSE thread[w]]
    /\ UNCHANGED <<workers, idle, active, replacing, made, timers, down,
                   inbox, replies, events, deaths>>

\* shutdown after its await: every thread has ended.
ShutdownDone ==
    /\ closed /\ ~down /\ down' = TRUE
    /\ \A w \in workers : thread[w] = "gone"
    /\ workers' = {} /\ idle' = <<>>
    /\ UNCHANGED <<queue, closed, active, replacing, made, timers, outcome, envVars>>

\* A thread finishes a task and posts its answer; it can still do so between
\* the request to terminate and its end.
Reply(w, t) ==
    /\ thread[w] \in {"running", "stopping"}
    /\ t \in inbox[w]
    /\ inbox' = [inbox EXCEPT ![w] = @ \ {t}]
    /\ replies' = replies \cup {[from |-> w, task |-> t]}
    /\ UNCHANGED <<poolVars, outcome, thread, events, deaths>>

\* A terminated thread ends.
Stop(w) ==
    /\ thread[w] = "stopping"
    /\ thread' = [thread EXCEPT ![w] = "gone"]
    /\ events' = events \cup {<<w, "exit">>}
    /\ UNCHANGED <<poolVars, outcome, inbox, replies, deaths>>

\* A thread ends on its own: with an error, by an exit with a code, or by an
\* exit with code 0, which no handler reacts to.
Die(w, announced) ==
    /\ deaths < MaxDeaths
    /\ thread[w] = "running"
    /\ deaths' = deaths + 1
    /\ thread' = [thread EXCEPT ![w] = "gone"]
    /\ events' = events \cup {<<w, e>> : e \in announced}
    /\ UNCHANGED <<poolVars, outcome, inbox, replies>>

Announcements == {{"error", "exit"}, {"exit"}, {}}

Next ==
    \/ Start
    \/ \E t \in Tasks : SubmitRefused(t) \/ Submit(t)
    \/ \E m \in replies : HandleMessage(m) \/ HandleStaleMessage(m)
    \/ \E w \in Handles : HandleError(w) \/ HandleExit(w)
    \/ \E w \in Handles, t \in Tasks : HandleTaskTimeout(w, t)
    \/ Shutdown
    \/ ShutdownDone
    \/ \E w \in Handles, t \in Tasks : Reply(w, t)
    \/ \E w \in Handles : Stop(w)
    \/ \E w \in Handles, announced \in Announcements : Die(w, announced)

Spec == Init /\ [][Next]_vars

\* Timers fire and terminate() ends a thread.  No worker is assumed to answer,
\* and no message or event to arrive.
Fairness ==
    /\ WF_vars(\E w \in Handles, t \in Tasks : HandleTaskTimeout(w, t))
    /\ WF_vars(\E w \in Handles : Stop(w))
    /\ WF_vars(ShutdownDone)

LiveSpec == Spec /\ Fairness
-----------------------------------------------------------------------------
Answered == {"reply", "timeout", "failed"}

\* Types; a handle that has been replaced is out of use.
TypeOK ==
    /\ workers \subseteq 1..made /\ replacing \subseteq (1..made) \ workers
    /\ made \in 0..MaxHandles
    /\ idle \in Seq(Handles) /\ queue \in Seq(Tasks)
    /\ closed \in BOOLEAN /\ down \in BOOLEAN
    /\ active \in [Handles -> Tasks \cup {NoTask}]
    /\ outcome \in [Tasks -> Outcomes]
    /\ timers \subseteq Handles \X Tasks
    /\ thread \in [Handles -> {"none", "running", "stopping", "gone"}]
    /\ inbox \in [Handles -> SUBSET Tasks]
    /\ replies \subseteq [from : Handles, task : Tasks]
    /\ events \subseteq Handles \X {"error", "exit"}
    /\ deaths \in 0..MaxDeaths

\* No slot is lost or used twice: while the pool is open there are worker_count
\* handles, and each is in the idle list once or has a task, however failures,
\* timeouts and late events of replaced workers interleave.
SlotsConserved ==
    (workers # {} /\ ~closed) =>
        /\ Cardinality(workers) = WorkerCount
        /\ IsInjective(idle)
        /\ Range(idle) = {w \in workers : active[w] = NoTask}

\* A task never waits while a worker is free.
WorkConserving == ~closed => (idle = <<>> \/ queue = <<>>)

\* The queue keeps to max_queue_depth, though submit looks at its length only
\* when no worker is idle: this rests on WorkConserving.
QueueBounded == Len(queue) <= MaxQueueDepth

\* Every accepted task is in exactly one place, once: the queue, or one handle,
\* whose timer for it is armed; and only unanswered tasks are in those places.
TasksAccounted ==
    /\ IsInjective(queue)
    /\ \A t \in Tasks :
        LET holders == {w \in Handles : active[w] = t}
        IN  IF outcome[t] = "pending"
            THEN \/ t \in Range(queue) /\ holders = {}
                 \/ t \notin Range(queue) /\ \E w \in Handles :
                        holders = {w} /\ <<w, t>> \in timers
            ELSE t \notin Range(queue) /\ holders = {}

\* A worker is alone with its task: what a handle of an open pool has posted to
\* its thread or is about to receive from it is at most its active task.
OneTaskPerThread ==
    ~closed => \A w \in workers :
        inbox[w] \cup {m.task : m \in {r \in replies : r.from = w}} \subseteq {active[w]}

\* A caller's result is final: resolve is called at most once for each task.
AnsweredOnce ==
    [][\A t \in Tasks : outcome[t] \in Answered \cup {"refused"} =>
            outcome'[t] = outcome[t]]_vars

\* Every accepted task is answered, even if no worker ever replies.
EventuallyAnswered ==
    \A t \in Tasks : (outcome[t] = "pending") ~> (outcome[t] \in Answered)

\* shutdown() returns.
ShutdownReturns == closed ~> down
=============================================================================
