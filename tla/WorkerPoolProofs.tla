-------------------------- MODULE WorkerPoolProofs --------------------------
(***************************************************************************)
(* Proofs about WorkerPool for any tasks, workers, queue depth and number  *)
(* of replacements.                                                        *)
(***************************************************************************)
EXTENDS WorkerPool, FiniteSetTheorems, SequenceTheorems, TLAPS

\* Removing a handle that occurs at most once: what is kept stays in order.
LEMMA WithoutIs ==
    ASSUME NEW S, NEW s \in Seq(S), NEW w, IsInjective(s)
    PROVE  /\ Without(s, w) \in Seq(S)
           /\ IsInjective(Without(s, w))
           /\ Range(Without(s, w)) = Range(s) \ {w}
           /\ w \notin Range(s) => Without(s, w) = s
<1> DEFINE n == Len(s)
           kept == {k \in DOMAIN s : s[k] # w}
           Rank(k) == Cardinality({x \in kept : x <= k})
           At(j) == CHOOSE k \in kept : Rank(k) = j
           r == [j \in 1..Cardinality(kept) |-> s[At(j)]]
<1>1. n \in Nat /\ DOMAIN s = 1..n /\ Without(s, w) = r
  BY DEF Without
<1>0. \A m \in Nat : IsFiniteSet(1..m) /\ Cardinality(1..m) = m
  <2> TAKE m \in Nat
  <2>1. 1 \in Int /\ m \in Int
    OBVIOUS
  <2>2. IsFiniteSet(1..m) /\ Cardinality(1..m) = IF 1 > m THEN 0 ELSE m - 1 + 1
    BY <2>1, FS_Interval
  <2> QED BY <2>2
<1>2. CASE w \notin Range(s)
  <2>1. kept = 1..n
    BY <1>1, <1>2 DEF Range
  <2>2. Cardinality(kept) = n
    BY <1>0, <1>1, <2>1
  <2>3. \A k \in 1..n : Rank(k) = k
    <3> TAKE k \in 1..n
    <3>1. {x \in kept : x <= k} = 1..k /\ k \in Nat
      BY <1>1, <2>1
    <3> QED BY <1>0, <3>1
  <2> HIDE DEF Rank
  <2>4. \A j \in 1..n : At(j) = j
    BY <2>1, <2>3
  <2> HIDE DEF At, kept
  <2>5. r = [j \in 1..n |-> s[j]]
    BY <2>2, <2>4
  <2>6. s = [j \in 1..n |-> s[j]]
    BY <1>1
  <2>7. r = s
    BY <2>5, <2>6
  <2>8. Range(s) \ {w} = Range(s)
    BY <1>2
  <2> HIDE DEF r
  <2> QED BY <1>1, <2>7, <2>8
<1>3. CASE w \in Range(s)
  <2>1. PICK p \in 1..n : s[p] = w
    BY <1>1, <1>3 DEF Range
  <2>2. kept = (1..n) \ {p}
    BY <1>1, <2>1 DEF IsInjective
  <2>4. Cardinality(kept) = n - 1
    BY <1>1, <2>1, <2>2, <1>0, FS_RemoveElement
  <2>5. \A k \in kept : Rank(k) = IF k < p THEN k ELSE k - 1
    <3> TAKE k \in kept
    <3>1. k \in 1..n /\ k # p /\ k \in Nat
      BY <1>1, <2>2
    <3>2. CASE k < p
      <4>1. {x \in kept : x <= k} = 1..k
        BY <1>1, <2>1, <2>2, <3>1, <3>2
      <4> QED BY <1>0, <3>1, <3>2, <4>1
    <3>3. CASE k > p
      <4>1. {x \in kept : x <= k} = (1..k) \ {p}
        BY <1>1, <2>1, <2>2, <3>1, <3>3
      <4>2. p \in 1..k
        BY <2>1, <3>1, <3>3
      <4>3. Cardinality((1..k) \ {p}) = k - 1
        BY <1>0, <3>1, <4>2, FS_RemoveElement
      <4>4. ~(k < p)
        BY <2>1, <3>1, <3>3
      <4> QED BY <4>1, <4>3, <4>4
    <3> QED BY <2>1, <3>1, <3>2, <3>3
  <2> HIDE DEF Rank
  <2>6. \A j \in 1..(n - 1) : At(j) = IF j < p THEN j ELSE j + 1
    <3> TAKE j \in 1..(n - 1)
    <3> DEFINE m == IF j < p THEN j ELSE j + 1
    <3>1. m \in kept /\ Rank(m) = j
      BY <1>1, <2>1, <2>2, <2>5
    <3>2. \A k \in kept : Rank(k) = j => k = m
      BY <1>1, <2>1, <2>2, <2>5
    <3> HIDE DEF m
    <3>3. At(j) = m
      BY <3>1, <3>2
    <3> QED BY <3>3 DEF m
  <2> HIDE DEF At, kept
  <2>7. r = [j \in 1..(n - 1) |-> s[IF j < p THEN j ELSE j + 1]]
    BY <2>4, <2>6
  <2> DEFINE q == [j \in 1..(n - 1) |-> s[IF j < p THEN j ELSE j + 1]]
  <2>8. \A j \in 1..(n - 1) : (IF j < p THEN j ELSE j + 1) \in (1..n) \ {p}
    BY <1>1, <2>1
  <2>9. q \in Seq(S)
    <3>1. n - 1 \in Nat
      BY <1>1, <2>1
    <3>2. \A k \in 1..n : s[k] \in S
      BY <1>1
    <3>3. q \in [1..(n - 1) -> S]
      BY <2>8, <3>2
    <3> HIDE DEF q, n
    <3> QED BY <3>1, <3>3, SeqDef
  <2>10. IsInjective(q)
    <3>1. \A a, b \in 1..(n - 1) :
              (IF a < p THEN a ELSE a + 1) = (IF b < p THEN b ELSE b + 1) => a = b
      BY <1>1, <2>1
    <3>2. \A a, b \in 1..n : s[a] = s[b] => a = b
      BY <1>1 DEF IsInjective
    <3>3. \A a, b \in DOMAIN q : q[a] = q[b] => a = b
      BY <2>8, <3>1, <3>2
    <3> HIDE DEF q
    <3> QED BY <3>3 DEF IsInjective
  <2>11. \A k \in (1..n) \ {p} : \E j \in 1..(n - 1) : k = IF j < p THEN j ELSE j + 1
    <3> TAKE k \in (1..n) \ {p}
    <3>1. CASE k < p
      <4>1. k \in 1..(n - 1)
        BY <1>1, <2>1, <3>1
      <4> QED BY <3>1, <4>1
    <3>2. CASE k > p
      <4>1. k - 1 \in 1..(n - 1) /\ ~(k - 1 < p) /\ k = (k - 1) + 1
        BY <1>1, <2>1, <3>2
      <4> QED BY <4>1
    <3> QED BY <1>1, <2>1, <3>1, <3>2
  <2>12. Range(q) = Range(s) \ {w}
    <3>1. Range(q) \subseteq Range(s) \ {w}
      BY <1>1, <2>1, <2>8 DEF Range, IsInjective
    <3>2. \A k \in (1..n) \ {p} : s[k] \in Range(q)
      BY <2>11 DEF Range
    <3>3. Range(s) \ {w} \subseteq Range(q)
      BY <1>1, <2>1, <3>2 DEF Range
    <3> QED BY <3>1, <3>3
  <2> HIDE DEF q, r
  <2> QED BY <1>1, <1>3, <2>7, <2>9, <2>10, <2>12 DEF q
<1> QED BY <1>2, <1>3

-----------------------------------------------------------------------------
(* What one round of dispatch hands out.                                    *)

Actives == [Handles -> Tasks \cup {NoTask}]
Inboxes == [Handles -> SUBSET Tasks]

\* With an empty list on one side, dispatch does nothing.
LEMMA PairsNone ==
    ASSUME NEW i \in Seq(Handles), NEW q \in Seq(Tasks),
           NEW a \in Actives, NEW posts \in Inboxes,
           i = <<>> \/ q = <<>>
    PROVE  /\ SubSeq(i, Lesser(Len(i), Len(q)) + 1, Len(i)) = i
           /\ SubSeq(q, Lesser(Len(i), Len(q)) + 1, Len(q)) = q
           /\ Pairs(i, q) = {}
           /\ Holding(a, Pairs(i, q)) = a
           /\ Posted(posts, Pairs(i, q)) = posts
<1>1. Lesser(Len(i), Len(q)) = 0
  BY DEF Lesser
<1>2. SubSeq(i, 1, Len(i)) = i /\ SubSeq(q, 1, Len(q)) = q
  OBVIOUS
<1>3. Pairs(i, q) = {}
  BY <1>1 DEF Pairs
<1>4. Holding(a, {}) = a
  BY DEF Holding, Actives
<1>5. Posted(posts, {}) = posts
  BY DEF Posted, Inboxes
<1> QED BY <1>1, <1>2, <1>3, <1>4, <1>5

\* With one element on one side and some on the other, dispatch makes one pair.
LEMMA PairsOne ==
    ASSUME NEW i \in Seq(Handles), NEW q \in Seq(Tasks),
           NEW a \in Actives, NEW posts \in Inboxes,
           i # <<>>, q # <<>>, Len(i) = 1 \/ Len(q) = 1
    PROVE  /\ SubSeq(i, Lesser(Len(i), Len(q)) + 1, Len(i)) = Tail(i)
           /\ SubSeq(q, Lesser(Len(i), Len(q)) + 1, Len(q)) = Tail(q)
           /\ Pairs(i, q) = {<<i[1], q[1]>>}
           /\ Holding(a, Pairs(i, q)) = [a EXCEPT ![i[1]] = q[1]]
           /\ Posted(posts, Pairs(i, q)) = [posts EXCEPT ![i[1]] = @ \cup {q[1]}]
<1>1. Lesser(Len(i), Len(q)) = 1
  BY DEF Lesser
<1>2. SubSeq(i, 2, Len(i)) = Tail(i) /\ SubSeq(q, 2, Len(q)) = Tail(q)
  OBVIOUS
<1>3. Pairs(i, q) = {<<i[1], q[1]>>}
  BY <1>1 DEF Pairs
<1>4. i[1] \in Handles /\ q[1] \in Tasks
  OBVIOUS
<1> DEFINE h == i[1]
           t == q[1]
<1> HIDE DEF h, t
<1>5. h \in Handles /\ t \in Tasks
  BY <1>4 DEF h, t
<1>6. Holding(a, {<<h, t>>}) = [a EXCEPT ![h] = t]
  <2>1. \A w \in Handles : w # h => ~\E u \in Tasks : <<w, u>> \in {<<h, t>>}
    OBVIOUS
  <2>2. (CHOOSE u \in Tasks : <<h, u>> \in {<<h, t>>}) = t
    BY <1>5
  <2> QED BY <1>5, <2>1, <2>2 DEF Holding, Actives
<1>7. Posted(posts, {<<h, t>>}) = [posts EXCEPT ![h] = @ \cup {t}]
  BY <1>5 DEF Posted, Inboxes
<1> QED BY <1>1, <1>2, <1>3, <1>6, <1>7 DEF h, t

\* Appending an element that a sequence does not have.
LEMMA AppendDistinct ==
    ASSUME NEW S, NEW s \in Seq(S), NEW x \in S
    PROVE  /\ Append(s, x) \in Seq(S)
           /\ Range(Append(s, x)) = Range(s) \cup {x}
           /\ (IsInjective(s) /\ x \notin Range(s)) => IsInjective(Append(s, x))
<1>1. Append(s, x) \in Seq(S) /\ DOMAIN Append(s, x) = 1..(Len(s) + 1)
  OBVIOUS
<1>2. \A k \in 1..(Len(s) + 1) :
          Append(s, x)[k] = IF k <= Len(s) THEN s[k] ELSE x
  OBVIOUS
<1>3. DOMAIN s = 1..Len(s) /\ Len(s) \in Nat
  OBVIOUS
<1>4. Range(Append(s, x)) = Range(s) \cup {x}
  <2>1. Range(Append(s, x)) \subseteq Range(s) \cup {x}
    BY <1>1, <1>2, <1>3 DEF Range
  <2>2. Len(s) + 1 \in 1..(Len(s) + 1) /\ Append(s, x)[Len(s) + 1] = x
    BY <1>2, <1>3
  <2>3. \A k \in 1..Len(s) : k \in 1..(Len(s) + 1) /\ Append(s, x)[k] = s[k]
    BY <1>2, <1>3
  <2>4. x \in Range(Append(s, x))
    BY <1>1, <2>2 DEF Range
  <2>5. Range(s) \subseteq Range(Append(s, x))
    BY <1>1, <1>3, <2>3 DEF Range
  <2> QED BY <2>1, <2>4, <2>5
<1>5. ASSUME IsInjective(s), x \notin Range(s)
      PROVE  IsInjective(Append(s, x))
  <2>1. \A k \in 1..Len(s) : s[k] # x
    BY <1>3, <1>5 DEF Range
  <2>2. \A a, b \in 1..Len(s) : s[a] = s[b] => a = b
    BY <1>3, <1>5 DEF IsInjective
  <2>3. \A a, b \in 1..(Len(s) + 1) : Append(s, x)[a] = Append(s, x)[b] => a = b
    BY <1>2, <1>3, <2>1, <2>2
  <2> QED BY <1>1, <2>3 DEF IsInjective
<1> QED BY <1>1, <1>4, <1>5

\* Taking the first element off a sequence without duplicates.
LEMMA TailDistinct ==
    ASSUME NEW S, NEW s \in Seq(S), s # <<>>, IsInjective(s)
    PROVE  /\ Tail(s) \in Seq(S) /\ Len(Tail(s)) = Len(s) - 1
           /\ s[1] \in Range(s) /\ s[1] \in S
           /\ Range(Tail(s)) = Range(s) \ {s[1]}
           /\ IsInjective(Tail(s))
<1>1. /\ DOMAIN s = 1..Len(s) /\ Len(s) \in Nat /\ 1 \in 1..Len(s) /\ s[1] \in S
      /\ Tail(s) \in Seq(S) /\ DOMAIN Tail(s) = 1..(Len(s) - 1)
      /\ Len(Tail(s)) = Len(s) - 1
  OBVIOUS
<1>2. \A k \in 1..(Len(s) - 1) : Tail(s)[k] = s[k + 1]
  OBVIOUS
<1>3. \A a, b \in 1..Len(s) : s[a] = s[b] => a = b
  BY <1>1 DEF IsInjective
<1>4. Range(Tail(s)) \subseteq Range(s) \ {s[1]}
  BY <1>1, <1>2, <1>3 DEF Range
<1>5. \A k \in 2..Len(s) : k - 1 \in 1..(Len(s) - 1) /\ Tail(s)[k - 1] = s[k]
  BY <1>1, <1>2
<1>6. Range(s) \ {s[1]} \subseteq Range(Tail(s))
  <2>1. \A k \in 1..Len(s) : k = 1 \/ k \in 2..Len(s)
    BY <1>1
  <2>2. \A k \in 2..Len(s) : s[k] \in Range(Tail(s))
    BY <1>1, <1>5 DEF Range
  <2> QED BY <1>1, <2>1, <2>2 DEF Range
<1>7. IsInjective(Tail(s))
  <2>1. \A a, b \in 1..(Len(s) - 1) : Tail(s)[a] = Tail(s)[b] => a = b
    BY <1>1, <1>2, <1>3
  <2> QED BY <1>1, <2>1 DEF IsInjective
<1>8. s[1] \in Range(s)
  BY <1>1 DEF Range
<1> QED BY <1>1, <1>4, <1>6, <1>7, <1>8

-----------------------------------------------------------------------------
(* The inductive invariant.                                                 *)

\* shutdown empties the queue, and nothing is queued after it.
ClosedDrained == closed => queue = <<>>

\* Before start there are no handles and nothing to do.
NotStarted == (workers = {} /\ ~closed) => made = 0 /\ idle = <<>> /\ queue = <<>>

\* While the pool is open, a handle in use or retired is one of those created,
\* and only a handle in use has a task.
HandlesInUse ==
    ~closed => /\ 1..made = workers \cup replacing
               /\ \A w \in Handles : active[w] # NoTask => w \in workers

\* Events come from threads that were started.
EventsMade == \A w \in Handles : /\ thread[w] # "none" => w \in 1..made
                                 /\ \A e \in {"error", "exit"} :
                                        <<w, e>> \in events => w \in 1..made

\* Nothing was posted to a handle that does not exist yet, or came from it.
Unposted ==
    \A w \in Handles : w > made =>
        inbox[w] = {} /\ \A t \in Tasks : [from |-> w, task |-> t] \notin replies

\* A posted task is with the thread or on its way back, not both.
PostedOnce ==
    ~closed => \A w \in workers : \A t \in inbox[w] : [from |-> w, task |-> t] \notin replies

\* OneTaskPerThread, task by task.
Alone ==
    ~closed => \A w \in workers, t \in Tasks :
        (t \in inbox[w] \/ [from |-> w, task |-> t] \in replies) => active[w] = t

PoolInv ==
    /\ TypeOK /\ IsInjective(idle)
    /\ SlotsConserved /\ WorkConserving /\ TasksAccounted /\ QueueBounded
    /\ ClosedDrained /\ NotStarted /\ HandlesInUse /\ EventsMade

ThreadInv == Alone /\ PostedOnce /\ Unposted

-----------------------------------------------------------------------------
(* The effects of the handlers.  As no task waits while a worker is free,   *)
(* dispatch makes at most one pair in each handler.                         *)

\* submit queues the task, or hands it to the first idle worker.
SubmitEffect(t) ==
    /\ outcome[t] = "none" /\ ~closed /\ workers # {}
    /\ outcome' = [outcome EXCEPT ![t] = "pending"]
    /\ UNCHANGED <<workers, closed, replacing, made, down, thread, replies, events, deaths>>
    /\ \/ /\ idle = <<>> /\ Len(queue) < MaxQueueDepth
          /\ idle' = <<>> /\ queue' = Append(queue, t)
          /\ active' = active /\ inbox' = inbox /\ timers' = timers
       \/ /\ idle # <<>> /\ queue = <<>>
          /\ idle' = Tail(idle) /\ queue' = <<>>
          /\ active' = [active EXCEPT ![idle[1]] = t]
          /\ inbox' = [inbox EXCEPT ![idle[1]] = @ \cup {t}]
          /\ timers' = timers \cup {<<idle[1], t>>}

\* The lists after handle x lost its task and handle h became free.
HandedOn(x, h) ==
    \/ /\ queue = <<>> /\ queue' = <<>>
       /\ IF closed THEN idle' \in {idle, Without(idle, x)}
                    ELSE idle' = Append(Without(idle, x), h)
       /\ active' = [active EXCEPT ![x] = NoTask]
       /\ inbox' = inbox
       /\ timers' = timers \ {<<x, active[x]>>}
    \/ /\ ~closed /\ queue # <<>> /\ idle = <<>>
       /\ idle' = <<>> /\ queue' = Tail(queue)
       /\ active' = [[active EXCEPT ![x] = NoTask] EXCEPT ![h] = queue[1]]
       /\ inbox' = [inbox EXCEPT ![h] = @ \cup {queue[1]}]
       /\ timers' = (timers \ {<<x, active[x]>>}) \cup {<<h, queue[1]>>}

\* Handle x loses its task with this result, and handle h (x itself, or the
\* one that replaces it) is free and takes the first queued task.
Freed(x, h, result) ==
    /\ ~closed => x \in workers
    /\ outcome' = [t \in Tasks |-> IF t = active[x] THEN result ELSE outcome[t]]
    /\ UNCHANGED <<closed, down, deaths>>
    /\ events' \subseteq events /\ replies' \subseteq replies
    /\ HandedOn(x, h)

\* The handles stay, or the next one replaces x.
SameHandles == UNCHANGED <<workers, made, replacing, thread>>

Replaced(x) ==
    /\ ~closed /\ made < MaxHandles
    /\ made' = made + 1
    /\ replacing' = replacing \cup {x}
    /\ workers' = (workers \ {x}) \cup {made + 1}
    /\ thread' = [thread EXCEPT ![made + 1] = "running",
                                ![x] = IF @ = "running" THEN "stopping" ELSE @]

Release(x, h, result) ==
    /\ Freed(x, h, result)
    /\ \/ (closed \/ h = x) /\ SameHandles
       \/ h = made + 1 /\ Replaced(x)

\* The types that the effects are about.
LEMMA PoolTypes ==
    ASSUME TypeOK
    PROVE  /\ idle \in Seq(Handles) /\ queue \in Seq(Tasks)
           /\ active \in Actives /\ inbox \in Inboxes
           /\ made \in Nat /\ made <= MaxHandles /\ MaxHandles \in Nat
           /\ workers \subseteq Handles
  BY PoolAssumption DEF TypeOK, Actives, Inboxes, Handles

\* submit
LEMMA SubmitIs ==
    ASSUME PoolInv, NEW t \in Tasks, Submit(t)
    PROVE  SubmitEffect(t)
<1>1. idle \in Seq(Handles) /\ queue \in Seq(Tasks) /\ active \in Actives /\ inbox \in Inboxes
  BY PoolTypes DEF PoolInv
<1>2. idle = <<>> \/ queue = <<>>
  BY DEF PoolInv, WorkConserving, Submit
<1>3. Append(queue, t) \in Seq(Tasks) /\ Append(queue, t) # <<>>
  BY <1>1
<1> DEFINE q == Append(queue, t)
<1>6. /\ idle' = SubSeq(idle, Lesser(Len(idle), Len(q)) + 1, Len(idle))
      /\ queue' = SubSeq(q, Lesser(Len(idle), Len(q)) + 1, Len(q))
      /\ active' = Holding(active, Pairs(idle, q))
      /\ inbox' = Posted(inbox, Pairs(idle, q))
      /\ timers' = timers \cup Pairs(idle, q)
  BY DEF Submit, Dispatch
<1> HIDE DEF q
<1>7. q \in Seq(Tasks) /\ q # <<>>
  BY <1>3 DEF q
<1>4. CASE idle = <<>>
  <2>1. /\ idle' = idle /\ queue' = q /\ active' = active
        /\ inbox' = inbox /\ timers' = timers \cup {}
    <3>1. /\ SubSeq(idle, Lesser(Len(idle), Len(q)) + 1, Len(idle)) = idle
          /\ SubSeq(q, Lesser(Len(idle), Len(q)) + 1, Len(q)) = q
          /\ Pairs(idle, q) = {}
          /\ Holding(active, Pairs(idle, q)) = active
          /\ Posted(inbox, Pairs(idle, q)) = inbox
      BY <1>1, <1>4, <1>7, PairsNone, Zenon
    <3> QED BY <1>6, <3>1, Zenon
  <2>2. Len(queue) < MaxQueueDepth
    BY <1>1, <1>4, PoolAssumption DEF Submit, Saturated
  <2> QED BY <1>4, <2>1, <2>2 DEF SubmitEffect, Submit, q
<1>5. CASE idle # <<>>
  <2>1. queue = <<>>
    BY <1>2, <1>5
  <2>2. Len(q) = 1 /\ q[1] = t /\ Tail(q) = <<>>
    BY <2>1 DEF q
  <2>3. /\ idle' = Tail(idle) /\ queue' = Tail(q)
        /\ active' = [active EXCEPT ![idle[1]] = q[1]]
        /\ inbox' = [inbox EXCEPT ![idle[1]] = @ \cup {q[1]}]
        /\ timers' = timers \cup {<<idle[1], q[1]>>}
    <3>1. /\ SubSeq(idle, Lesser(Len(idle), Len(q)) + 1, Len(idle)) = Tail(idle)
          /\ SubSeq(q, Lesser(Len(idle), Len(q)) + 1, Len(q)) = Tail(q)
          /\ Pairs(idle, q) = {<<idle[1], q[1]>>}
          /\ Holding(active, Pairs(idle, q)) = [active EXCEPT ![idle[1]] = q[1]]
          /\ Posted(inbox, Pairs(idle, q)) = [inbox EXCEPT ![idle[1]] = @ \cup {q[1]}]
      BY <1>1, <1>5, <1>7, <2>2, PairsOne, Zenon
    <3> QED BY <1>6, <3>1, Zenon
  <2> QED BY <1>5, <2>1, <2>2, <2>3 DEF SubmitEffect, Submit
<1> QED BY <1>4, <1>5

\* dispatch when handle x lost its task and h, unless the pool is closed, was
\* put at the end of the idle list.
LEMMA HandedOnIs ==
    ASSUME PoolInv, NEW x \in Handles, NEW h \in Handles, NEW i,
           IF closed THEN i \in {idle, Without(idle, x)}
                     ELSE i = Append(Without(idle, x), h),
           Dispatch(i, queue, [active EXCEPT ![x] = NoTask], timers \ {<<x, active[x]>>})
    PROVE  HandedOn(x, h)
<1>1. idle \in Seq(Handles) /\ queue \in Seq(Tasks) /\ active \in Actives /\ inbox \in Inboxes
  BY PoolTypes DEF PoolInv
<1> DEFINE others == Without(idle, x)
           a == [active EXCEPT ![x] = NoTask]
           armed == timers \ {<<x, active[x]>>}
<1>2. others \in Seq(Handles)
  BY <1>1, WithoutIs DEF PoolInv
<1>3. a \in Actives
  BY <1>1 DEF Actives
<1>4. /\ idle' = SubSeq(i, Lesser(Len(i), Len(queue)) + 1, Len(i))
      /\ queue' = SubSeq(queue, Lesser(Len(i), Len(queue)) + 1, Len(queue))
      /\ active' = Holding(a, Pairs(i, queue))
      /\ inbox' = Posted(inbox, Pairs(i, queue))
      /\ timers' = armed \cup Pairs(i, queue)
  BY DEF Dispatch
<1> HIDE DEF others, a, armed
<1>5. i \in Seq(Handles)
  BY <1>1, <1>2 DEF others
<1>6. CASE queue = <<>>
  <2>1. /\ SubSeq(i, Lesser(Len(i), Len(queue)) + 1, Len(i)) = i
        /\ SubSeq(queue, Lesser(Len(i), Len(queue)) + 1, Len(queue)) = queue
        /\ Pairs(i, queue) = {}
        /\ Holding(a, Pairs(i, queue)) = a
        /\ Posted(inbox, Pairs(i, queue)) = inbox
    <3>1. queue \in Seq(Tasks) /\ inbox \in Inboxes /\ (i = <<>> \/ queue = <<>>)
      BY <1>1, <1>6
    <3> QED BY <1>3, <1>5, <3>1, PairsNone, ZenonT(60)
  <2>2. idle' = i /\ queue' = queue /\ active' = a /\ inbox' = inbox /\ timers' = armed \cup {}
    BY <1>4, <2>1, Zenon
  <2>3. timers' = armed
    BY <2>2
  <2> QED BY <1>6, <2>2, <2>3 DEF HandedOn, a, armed
<1>7. CASE queue # <<>>
  <2>1. ~closed /\ idle = <<>>
    BY <1>7 DEF PoolInv, ClosedDrained, WorkConserving
  <2>2. Range(idle) = {}
    BY <2>1 DEF Range
  <2>3. others = idle
    BY <1>1, <2>2, WithoutIs DEF PoolInv, others
  <2>4. i = Append(<<>>, h)
    BY <2>1, <2>3 DEF others
  <2>5. i # <<>> /\ Len(i) = 1 /\ i[1] = h /\ Tail(i) = <<>>
    BY <2>4
  <2>6. /\ SubSeq(i, Lesser(Len(i), Len(queue)) + 1, Len(i)) = Tail(i)
        /\ SubSeq(queue, Lesser(Len(i), Len(queue)) + 1, Len(queue)) = Tail(queue)
        /\ Pairs(i, queue) = {<<i[1], queue[1]>>}
        /\ Holding(a, Pairs(i, queue)) = [a EXCEPT ![i[1]] = queue[1]]
        /\ Posted(inbox, Pairs(i, queue)) = [inbox EXCEPT ![i[1]] = @ \cup {queue[1]}]
    BY <1>1, <1>3, <1>5, <1>7, <2>5, PairsOne, Zenon
  <2>7. /\ idle' = Tail(i) /\ queue' = Tail(queue)
        /\ active' = [a EXCEPT ![i[1]] = queue[1]]
        /\ inbox' = [inbox EXCEPT ![i[1]] = @ \cup {queue[1]}]
        /\ timers' = armed \cup {<<i[1], queue[1]>>}
    BY <1>4, <2>6, Zenon
  <2> QED BY <1>7, <2>1, <2>5, <2>7 DEF HandedOn, a, armed
<1> QED BY <1>6, <1>7

\* handleMessage
LEMMA MessageIs ==
    ASSUME PoolInv, NEW m \in replies, HandleMessage(m)
    PROVE  m.from \in Handles /\ Release(m.from, m.from, "reply")
<1> DEFINE x == m.from
<1>1. x \in Handles /\ m.task \in Tasks /\ active[x] = m.task /\ m.task # NoTask
  BY PoolAssumption DEF PoolInv, TypeOK, HandleMessage
<1>2. idle \in Seq(Handles) /\ active \in Actives /\ outcome \in [Tasks -> Outcomes]
  BY PoolTypes DEF PoolInv, TypeOK
<1>3. ~closed => x \in workers /\ x \notin Range(idle)
  BY <1>1 DEF PoolInv, HandlesInUse, SlotsConserved
<1>4. ~closed => Without(idle, x) = idle
  BY <1>2, <1>3, WithoutIs DEF PoolInv
<1> HIDE DEF x
<1>5. PICK i : i = IF closed THEN idle ELSE Append(idle, x)
  OBVIOUS
<1>6. Dispatch(i, queue, [active EXCEPT ![x] = NoTask], timers \ {<<x, active[x]>>})
  BY <1>1, <1>5 DEF HandleMessage, Dispatch, x
<1>7. IF closed THEN i \in {idle, Without(idle, x)} ELSE i = Append(Without(idle, x), x)
  BY <1>4, <1>5
<1>8. HandedOn(x, x)
  BY <1>1, <1>6, <1>7, HandedOnIs
<1>9. outcome' = [t \in Tasks |-> IF t = active[x] THEN "reply" ELSE outcome[t]]
  BY <1>1, <1>2 DEF HandleMessage, x
<1>10. Freed(x, x, "reply") /\ SameHandles
  BY <1>3, <1>8, <1>9 DEF Freed, SameHandles, HandleMessage
<1> QED BY <1>1, <1>10 DEF Release, x

\* handleWorkerFailure and handleTaskTimeout, once the handle has its result.
Retired(w, result) ==
    /\ outcome' = [t \in Tasks |-> IF t = active[w] THEN result ELSE outcome[t]]
    /\ Retire(w, timers \ {<<w, active[w]>>})
    /\ UNCHANGED <<closed, down, deaths, replies>>
    /\ events' \subseteq events

LEMMA RetiredIs ==
    ASSUME PoolInv, NEW w \in Handles, NEW result, ~closed => w \in workers,
           Retired(w, result)
    PROVE  \E h \in Handles : Release(w, h, result)
<1>1. idle \in Seq(Handles) /\ made \in Nat /\ MaxHandles \in Nat
  BY PoolTypes DEF PoolInv
<1>2. PICK i : i = IF closed THEN Without(idle, w) ELSE Append(Without(idle, w), made + 1)
  OBVIOUS
<1>3. Dispatch(i, queue, [active EXCEPT ![w] = NoTask], timers \ {<<w, active[w]>>})
  BY <1>2 DEF Retired, Retire, Dispatch
<1>4. PICK h \in Handles : ~closed => h = made + 1
  <2>1. CASE closed
    BY <2>1
  <2>2. CASE ~closed
    <3>1. made + 1 \in Handles
      BY <1>1, <2>2 DEF Retired, Retire, Handles
    <3> QED BY <3>1
  <2> QED BY <2>1, <2>2
<1>5. IF closed THEN i \in {idle, Without(idle, w)} ELSE i = Append(Without(idle, w), h)
  BY <1>2, <1>4
<1>6. HandedOn(w, h)
  BY <1>3, <1>5, HandedOnIs
<1>7. Freed(w, h, result)
  BY <1>6 DEF Freed, Retired
<1>8. \/ closed /\ SameHandles
      \/ h = made + 1 /\ Replaced(w)
  BY <1>4 DEF Retired, Retire, SameHandles, Replaced
<1> QED BY <1>7, <1>8 DEF Release

-----------------------------------------------------------------------------
(* A handle that loses its task.                                            *)

\* What PoolInv says of the handles x and h of a release from an open pool.
LEMMA ReleaseHandles ==
    ASSUME PoolInv, NEW x \in Handles, NEW h \in Handles, NEW result,
           Release(x, h, result), ~closed
    PROVE  /\ x \in workers /\ workers' = (workers \ {x}) \cup {h}
           /\ h = x \/ (h \notin workers /\ h # x /\ active[h] = NoTask /\ h = made + 1)
<1>1. x \in workers
  BY DEF Release, Freed
<1>2. CASE h = x /\ SameHandles
  BY <1>1, <1>2 DEF SameHandles
<1>3. CASE h = made + 1 /\ Replaced(x)
  <2>1. made \in Nat /\ workers \subseteq 1..made /\ made + 1 \notin 1..made
    BY PoolTypes DEF PoolInv, TypeOK
  <2>2. h \notin workers
    BY <1>3, <2>1
  <2> QED BY <1>1, <1>3, <2>2 DEF Replaced, PoolInv, HandlesInUse
<1> QED BY <1>2, <1>3 DEF Release

LEMMA ReleaseTypes ==
    ASSUME PoolInv, NEW x \in Handles, NEW h \in Handles, NEW result \in Answered,
           Release(x, h, result)
    PROVE  TypeOK' /\ EventsMade'
<1>1. /\ idle \in Seq(Handles) /\ queue \in Seq(Tasks)
      /\ active \in [Handles -> Tasks \cup {NoTask}]
      /\ inbox \in [Handles -> SUBSET Tasks]
  BY DEF PoolInv, TypeOK
<1>2. Without(idle, x) \in Seq(Handles)
  BY <1>1, WithoutIs DEF PoolInv
<1>3. /\ idle' \in Seq(Handles) /\ queue' \in Seq(Tasks)
      /\ active' \in [Handles -> Tasks \cup {NoTask}]
      /\ inbox' \in [Handles -> SUBSET Tasks]
      /\ timers' \subseteq Handles \X Tasks
  <2>1. timers \subseteq Handles \X Tasks
    BY DEF PoolInv, TypeOK
  <2>2. CASE queue = <<>>
    <3>1. Append(Without(idle, x), h) \in Seq(Handles)
      BY <1>2
    <3>2. idle' \in Seq(Handles)
      BY <1>1, <1>2, <2>2, <3>1 DEF Release, Freed, HandedOn
    <3>3. /\ queue' = <<>> /\ active' = [active EXCEPT ![x] = NoTask]
          /\ inbox' = inbox /\ timers' \subseteq timers
      BY <2>2 DEF Release, Freed, HandedOn
    <3> QED BY <1>1, <2>1, <3>2, <3>3
  <2>3. CASE queue # <<>>
    <3>1. queue[1] \in Tasks /\ Tail(queue) \in Seq(Tasks)
      BY <1>1, <2>3
    <3>2. /\ idle' = <<>> /\ queue' = Tail(queue)
          /\ active' = [[active EXCEPT ![x] = NoTask] EXCEPT ![h] = queue[1]]
          /\ inbox' = [inbox EXCEPT ![h] = @ \cup {queue[1]}]
          /\ timers' \subseteq timers \cup {<<h, queue[1]>>}
      BY <2>3 DEF Release, Freed, HandedOn
    <3>3. active' \in [Handles -> Tasks \cup {NoTask}]
      BY <1>1, <3>1, <3>2
    <3>4. inbox' \in [Handles -> SUBSET Tasks]
      BY <1>1, <3>1, <3>2
    <3>5. timers' \subseteq Handles \X Tasks
      BY <2>1, <3>1, <3>2
    <3> QED BY <3>1, <3>2, <3>3, <3>4, <3>5
  <2> QED BY <2>2, <2>3
<1>4. outcome' \in [Tasks -> Outcomes]
  BY DEF PoolInv, TypeOK, Release, Freed, Answered, Outcomes
<1>5. /\ closed' \in BOOLEAN /\ down' \in BOOLEAN /\ deaths' \in 0..MaxDeaths
      /\ replies' \subseteq [from : Handles, task : Tasks]
      /\ events' \subseteq Handles \X {"error", "exit"}
  BY DEF PoolInv, TypeOK, Release, Freed
<1>6. /\ workers' \subseteq 1..made' /\ replacing' \subseteq (1..made') \ workers'
      /\ made' \in 0..MaxHandles
      /\ thread' \in [Handles -> {"none", "running", "stopping", "gone"}]
      /\ EventsMade'
  <2>0. made \in Nat /\ MaxHandles \in Nat /\ workers \subseteq 1..made
    BY PoolTypes DEF PoolInv, TypeOK
  <2>1. CASE SameHandles
    <3>1. events' \subseteq events
      BY DEF Release, Freed
    <3> QED BY <2>1, <3>1 DEF SameHandles, PoolInv, TypeOK, EventsMade
  <2>2. CASE h = made + 1 /\ Replaced(x)
    <3>1. x \in workers
      BY <2>2 DEF Release, Freed, Replaced
    <3>2. workers' \subseteq 1..made' /\ made' \in 0..MaxHandles
      BY <2>0, <2>2 DEF Replaced
    <3>3. replacing' \subseteq (1..made') \ workers'
      <4>1. replacing \subseteq (1..made) \ workers
        BY DEF PoolInv, TypeOK
      <4>2. made + 1 \notin 1..made /\ x \in 1..made
        BY <2>0, <3>1
      <4>3. 1..made \subseteq 1..made'
        BY <2>0, <2>2 DEF Replaced
      <4>4. /\ replacing' = replacing \cup {x}
            /\ workers' = (workers \ {x}) \cup {made + 1}
        BY <2>2 DEF Replaced
      <4> QED BY <4>1, <4>2, <4>3, <4>4
    <3>4. thread' \in [Handles -> {"none", "running", "stopping", "gone"}]
      BY <2>2 DEF Replaced, PoolInv, TypeOK
    <3>5. \A w \in Handles : thread'[w] # "none" => w \in 1..made'
      <4> TAKE w \in Handles
      <4>1. CASE w = made + 1
        BY <2>0, <2>2, <4>1 DEF Replaced
      <4>2. CASE w # made + 1
        <5>1. thread'[w] # "none" => thread[w] # "none"
          BY <2>2, <4>2 DEF Replaced, PoolInv, TypeOK
        <5>2. 1..made \subseteq 1..made'
          BY <2>0, <2>2 DEF Replaced
        <5> QED BY <5>1, <5>2 DEF PoolInv, EventsMade
      <4> QED BY <4>1, <4>2
    <3>6. \A w \in Handles, e \in {"error", "exit"} : <<w, e>> \in events' => w \in 1..made'
      <4>1. events' \subseteq events
        BY DEF Release, Freed
      <4>2. 1..made \subseteq 1..made'
        BY <2>0, <2>2 DEF Replaced
      <4> QED BY <4>1, <4>2 DEF PoolInv, EventsMade
    <3> QED BY <3>2, <3>3, <3>4, <3>5, <3>6 DEF EventsMade
  <2> QED BY <2>1, <2>2 DEF Release
<1> QED BY <1>3, <1>4, <1>5, <1>6 DEF TypeOK

\* The number of handles in use stays the same.
LEMMA ReleaseCount ==
    ASSUME PoolInv, NEW x \in Handles, NEW h \in Handles, NEW result,
           Release(x, h, result), ~closed
    PROVE  Cardinality(workers') = WorkerCount
<1>1. made \in Nat /\ workers \subseteq 1..made /\ 1 \in Int /\ made \in Int
  BY PoolTypes DEF PoolInv, TypeOK
<1>2. IsFiniteSet(1..made)
  BY <1>1, FS_Interval
<1>3. IsFiniteSet(workers)
  BY <1>1, <1>2, FS_Subset
<1>4. x \in workers /\ Cardinality(workers) = WorkerCount
  BY ReleaseHandles DEF PoolInv, SlotsConserved
<1>5. CASE h = x
  <2>1. workers' = workers
    BY <1>4, <1>5, ReleaseHandles
  <2> QED BY <1>4, <2>1
<1>6. CASE h # x
  <2>1. h \notin workers /\ workers' = (workers \ {x}) \cup {h}
    BY <1>6, ReleaseHandles
  <2>2. IsFiniteSet(workers \ {x}) /\ Cardinality(workers \ {x}) = Cardinality(workers) - 1
    BY <1>3, <1>4, FS_RemoveElement
  <2>3. Cardinality((workers \ {x}) \cup {h}) = Cardinality(workers \ {x}) + 1
    BY <2>1, <2>2, FS_AddElement
  <2> QED BY <1>4, <2>1, <2>2, <2>3, PoolAssumption
<1> QED BY <1>5, <1>6

LEMMA ReleaseIdle ==
    ASSUME PoolInv, NEW x \in Handles, NEW h \in Handles, NEW result,
           Release(x, h, result)
    PROVE  /\ IsInjective(idle')
           /\ ~closed => Range(idle') = {w \in workers' : active'[w] = NoTask}
<1>1. idle \in Seq(Handles) /\ IsInjective(idle) /\ queue \in Seq(Tasks)
      /\ active \in [Handles -> Tasks \cup {NoTask}] /\ workers \subseteq Handles
  BY PoolTypes DEF PoolInv, TypeOK
<1>2. /\ Without(idle, x) \in Seq(Handles) /\ IsInjective(Without(idle, x))
      /\ Range(Without(idle, x)) = Range(idle) \ {x}
  BY <1>1, WithoutIs
<1>3. CASE closed
  <2>1. idle' \in {idle, Without(idle, x)}
    BY <1>3 DEF Release, Freed, HandedOn
  <2> QED BY <1>1, <1>2, <1>3, <2>1
<1>4. CASE ~closed
  <2>1. /\ x \in workers /\ workers' = (workers \ {x}) \cup {h}
        /\ h = x \/ (h \notin workers /\ h # x /\ active[h] = NoTask)
    BY <1>4, ReleaseHandles
  <2>2. Range(idle) = {w \in workers : active[w] = NoTask}
    BY <1>4, <2>1 DEF PoolInv, SlotsConserved
  <2>3. CASE queue = <<>>
    <3>1. idle' = Append(Without(idle, x), h) /\ active' = [active EXCEPT ![x] = NoTask]
      BY <1>4, <2>3 DEF Release, Freed, HandedOn
    <3>2. h \notin Range(idle) \ {x}
      BY <2>1, <2>2
    <3>3. /\ Range(idle') = (Range(idle) \ {x}) \cup {h}
          /\ IsInjective(idle')
      BY <1>2, <3>1, <3>2, AppendDistinct
    <3>4. \A w \in Handles : active'[w] = IF w = x THEN NoTask ELSE active[w]
      BY <1>1, <3>1
    <3>5. Range(idle') = {w \in workers' : active'[w] = NoTask}
      BY <1>1, <2>1, <2>2, <3>3, <3>4
    <3> QED BY <3>3, <3>5
  <2>4. CASE queue # <<>>
    <3>1. /\ idle = <<>> /\ idle' = <<>>
          /\ active' = [[active EXCEPT ![x] = NoTask] EXCEPT ![h] = queue[1]]
      BY <2>4 DEF Release, Freed, HandedOn
    <3>2. Range(<<>>) = {} /\ IsInjective(<<>>)
      BY DEF Range, IsInjective
    <3>3. queue[1] \in Tasks /\ queue[1] # NoTask
      BY <1>1, <2>4, PoolAssumption
    <3>4. \A w \in Handles : active'[w] = IF w = h THEN queue[1]
                                          ELSE IF w = x THEN NoTask ELSE active[w]
      BY <1>1, <3>1
    <3>5. \A w \in workers' : active'[w] # NoTask
      BY <1>1, <2>1, <2>2, <3>1, <3>2, <3>3, <3>4
    <3> QED BY <3>1, <3>2, <3>5
  <2> QED BY <2>3, <2>4
<1> QED BY <1>3, <1>4

LEMMA ReleaseSlots ==
    ASSUME PoolInv, NEW x \in Handles, NEW h \in Handles, NEW result,
           Release(x, h, result)
    PROVE  /\ IsInjective(idle') /\ SlotsConserved' /\ WorkConserving' /\ QueueBounded'
           /\ ClosedDrained' /\ NotStarted' /\ HandlesInUse'
<1>1. queue \in Seq(Tasks) /\ closed' = closed
  BY DEF PoolInv, TypeOK, Release, Freed
<1>2. IsInjective(idle') /\ SlotsConserved'
  BY <1>1, ReleaseIdle, ReleaseCount DEF SlotsConserved
<1>3. WorkConserving' /\ ClosedDrained'
  BY <1>1 DEF Release, Freed, HandedOn, WorkConserving, ClosedDrained
<1>4. QueueBounded'
  <2>1. CASE queue = <<>>
    BY <2>1, PoolAssumption DEF Release, Freed, HandedOn, QueueBounded
  <2>2. CASE queue # <<>>
    <3>1. queue' = Tail(queue) /\ Len(queue) <= MaxQueueDepth
      BY <2>2 DEF Release, Freed, HandedOn, PoolInv, QueueBounded
    <3> QED BY <1>1, <2>2, <3>1, PoolAssumption DEF QueueBounded
  <2> QED BY <2>1, <2>2
<1>5. NotStarted' /\ HandlesInUse'
  <2>1. CASE closed
    BY <1>1, <2>1 DEF NotStarted, HandlesInUse
  <2>2. CASE ~closed
    <3>1. /\ x \in workers /\ workers' = (workers \ {x}) \cup {h}
          /\ h = x \/ (h \notin workers /\ h # x /\ active[h] = NoTask)
      BY <2>2, ReleaseHandles
    <3>2. 1..made = workers \cup replacing /\ made \in Nat
      BY <2>2, PoolTypes DEF PoolInv, HandlesInUse
    <3>3. 1..made' = workers' \cup replacing'
      <4>1. CASE SameHandles
        BY <3>2, <4>1 DEF SameHandles
      <4>2. CASE h = made + 1 /\ Replaced(x)
        <5>1. 1..(made + 1) = (1..made) \cup {made + 1}
          BY <3>2
        <5> QED BY <3>1, <3>2, <4>2, <5>1 DEF Replaced
      <4> QED BY <2>2, <4>1, <4>2 DEF Release
    <3>4. \A w \in Handles : w # h /\ active'[w] # NoTask => w \in workers'
      <4>1. active \in [Handles -> Tasks \cup {NoTask}]
        BY DEF PoolInv, TypeOK
      <4>2. \A w \in Handles : w # h => active'[w] = IF w = x THEN NoTask ELSE active[w]
        BY <4>1 DEF Release, Freed, HandedOn
      <4> QED BY <2>2, <3>1, <4>2 DEF PoolInv, HandlesInUse
    <3>5. h \in workers'
      BY <3>1
    <3> QED BY <3>3, <3>4, <3>5 DEF NotStarted, HandlesInUse
  <2> QED BY <2>1, <2>2
<1> QED BY <1>2, <1>3, <1>4, <1>5

\* TasksAccounted of one task, without sets of handles: either no handle has
\* it, and it is in the queue just when it is pending, or it is pending, not in
\* the queue, and one handle has it and the timer for it.
Accounted(t) ==
    \/ /\ \A w \in Handles : active[w] # t
       /\ outcome[t] = "pending" <=> t \in Range(queue)
    \/ /\ outcome[t] = "pending" /\ t \notin Range(queue)
       /\ \E w \in Handles : /\ active[w] = t /\ <<w, t>> \in timers
                             /\ \A v \in Handles : active[v] = t => v = w

LEMMA TasksAccountedIs ==
    TasksAccounted <=> IsInjective(queue) /\ \A t \in Tasks : Accounted(t)
<1>1. ASSUME NEW t \in Tasks
      PROVE  (LET holders == {w \in Handles : active[w] = t}
              IN  IF outcome[t] = "pending"
                  THEN \/ t \in Range(queue) /\ holders = {}
                       \/ t \notin Range(queue) /\ \E w \in Handles :
                              holders = {w} /\ <<w, t>> \in timers
                  ELSE t \notin Range(queue) /\ holders = {})
             <=> Accounted(t)
  <2> DEFINE holders == {w \in Handles : active[w] = t}
  <2>1. holders = {} <=> \A w \in Handles : active[w] # t
    OBVIOUS
  <2>2. \A w \in Handles : holders = {w} <=>
            active[w] = t /\ \A v \in Handles : active[v] = t => v = w
    OBVIOUS
  <2> HIDE DEF holders
  <2>3. (IF outcome[t] = "pending"
         THEN \/ t \in Range(queue) /\ holders = {}
              \/ t \notin Range(queue) /\ \E w \in Handles :
                     holders = {w} /\ <<w, t>> \in timers
         ELSE t \notin Range(queue) /\ holders = {}) <=> Accounted(t)
    BY <2>1, <2>2 DEF Accounted
  <2> QED BY <2>3 DEF holders
<1> QED BY <1>1 DEF TasksAccounted

LEMMA TasksAccountedNext ==
    TasksAccounted' <=> IsInjective(queue') /\ \A t \in Tasks : Accounted(t)'
<1>1. (TasksAccounted <=> IsInjective(queue) /\ \A t \in Tasks : Accounted(t))'
  BY TasksAccountedIs, PTL
<1> QED BY <1>1

LEMMA AccountedSame ==
    ASSUME TasksAccounted, UNCHANGED <<queue, active, outcome, timers>>
    PROVE  TasksAccounted'
<1>1. IsInjective(queue) /\ \A t \in Tasks : Accounted(t)
  BY TasksAccountedIs
<1>2. \A t \in Tasks : Accounted(t)'
  BY <1>1 DEF Accounted
<1> QED BY <1>1, <1>2, TasksAccountedNext

LEMMA ReleaseTasks ==
    ASSUME PoolInv, NEW x \in Handles, NEW h \in Handles, NEW result \in Answered,
           Release(x, h, result)
    PROVE  TasksAccounted'
<1>1. queue \in Seq(Tasks) /\ active \in [Handles -> Tasks \cup {NoTask}]
  BY DEF PoolInv, TypeOK
<1>2. IsInjective(queue) /\ \A t \in Tasks : Accounted(t)
  BY TasksAccountedIs DEF PoolInv
<1>3. /\ \A t \in Tasks : outcome'[t] = IF t = active[x] THEN result ELSE outcome[t]
      /\ result # "pending"
  BY DEF Release, Freed, Answered
<1>4. CASE queue = <<>>
  <2>1. /\ queue' = queue /\ active' = [active EXCEPT ![x] = NoTask]
        /\ timers' = timers \ {<<x, active[x]>>}
    BY <1>4 DEF Release, Freed, HandedOn
  <2>2. \A w \in Handles : active'[w] = IF w = x THEN NoTask ELSE active[w]
    BY <1>1, <2>1
  <2>3. ASSUME NEW t \in Tasks
        PROVE  Accounted(t)'
    <3>1. t # NoTask /\ Accounted(t)
      BY <1>2, PoolAssumption
    <3>2. CASE t = active[x]
      <4>1. t \notin Range(queue) /\ \A w \in Handles : active[w] = t => w = x
        BY <3>1, <3>2 DEF Accounted
      <4>2. \A w \in Handles : active'[w] # t
        BY <2>2, <3>1, <4>1
      <4> QED BY <1>3, <2>1, <3>2, <4>1, <4>2 DEF Accounted
    <3>3. CASE t # active[x]
      <4>1. \A w \in Handles : active'[w] = t <=> active[w] = t
        BY <2>2, <3>1, <3>3
      <4>2. \A w \in Handles : <<w, t>> \in timers => <<w, t>> \in timers'
        BY <2>1, <3>3
      <4>3. outcome'[t] = outcome[t] /\ queue' = queue
        BY <1>3, <2>1, <3>3
      <4> QED BY <3>1, <4>1, <4>2, <4>3 DEF Accounted
    <3> QED BY <3>2, <3>3
  <2> QED BY <1>2, <2>1, <2>3, TasksAccountedNext
<1>5. CASE queue # <<>>
  <2>1. /\ ~closed /\ queue' = Tail(queue)
        /\ active' = [[active EXCEPT ![x] = NoTask] EXCEPT ![h] = queue[1]]
        /\ timers' = (timers \ {<<x, active[x]>>}) \cup {<<h, queue[1]>>}
    BY <1>5 DEF Release, Freed, HandedOn
  <2>2. \A w \in Handles : active'[w] = IF w = h THEN queue[1]
                                        ELSE IF w = x THEN NoTask ELSE active[w]
    BY <1>1, <2>1
  <2>3. /\ queue[1] \in Tasks /\ queue[1] \in Range(queue)
        /\ Range(queue') = Range(queue) \ {queue[1]}
        /\ IsInjective(queue')
    BY <1>1, <1>2, <1>5, <2>1, TailDistinct
  <2>4. h = x \/ active[h] = NoTask
    BY <2>1, ReleaseHandles
  <2>5. ASSUME NEW t \in Tasks
        PROVE  Accounted(t)'
    <3>1. t # NoTask /\ Accounted(t)
      BY <1>2, PoolAssumption
    <3>2. CASE t = queue[1]
      <4>1. outcome[t] = "pending" /\ \A w \in Handles : active[w] # t
        BY <2>3, <3>1, <3>2 DEF Accounted
      <4>2. outcome'[t] = "pending" /\ t \notin Range(queue')
        BY <1>3, <2>3, <3>2, <4>1
      <4>3. active'[h] = t /\ <<h, t>> \in timers'
        BY <2>1, <2>2, <3>2
      <4>4. \A v \in Handles : active'[v] = t => v = h
        BY <2>2, <3>1, <4>1
      <4> QED BY <4>2, <4>3, <4>4 DEF Accounted
    <3>3. CASE t # queue[1] /\ t = active[x]
      <4>1. \A w \in Handles : active[w] = t => w = x
        BY <3>1, <3>3 DEF Accounted
      <4>2. t \notin Range(queue)
        BY <3>1, <3>3 DEF Accounted
      <4>3. \A w \in Handles : active'[w] # t
        BY <2>2, <3>1, <3>3, <4>1
      <4> QED BY <1>3, <2>3, <3>3, <4>2, <4>3 DEF Accounted
    <3>4. CASE t # queue[1] /\ t # active[x]
      <4>1. \A w \in Handles : active'[w] = t <=> active[w] = t
        BY <2>2, <2>4, <3>1, <3>4
      <4>2. \A w \in Handles : <<w, t>> \in timers => <<w, t>> \in timers'
        BY <2>1, <3>4
      <4> QED BY <1>3, <2>3, <3>1, <3>4, <4>1, <4>2 DEF Accounted
    <3> QED BY <3>2, <3>3, <3>4
  <2> QED BY <2>3, <2>5, TasksAccountedNext
<1> QED BY <1>4, <1>5

\* A handle that loses its task preserves the invariant.
LEMMA ReleaseKeeps ==
    ASSUME PoolInv, NEW x \in Handles, NEW h \in Handles, NEW result \in Answered,
           Release(x, h, result)
    PROVE  PoolInv'
  BY ReleaseTypes, ReleaseSlots, ReleaseTasks DEF PoolInv

-----------------------------------------------------------------------------
(* The other handlers, and the steps of the threads.                        *)

LEMMA SubmitKeeps ==
    ASSUME PoolInv, NEW t \in Tasks, SubmitEffect(t)
    PROVE  PoolInv'
<1>1. /\ idle \in Seq(Handles) /\ queue \in Seq(Tasks) /\ IsInjective(idle)
      /\ active \in [Handles -> Tasks \cup {NoTask}]
      /\ inbox \in [Handles -> SUBSET Tasks] /\ outcome \in [Tasks -> Outcomes]
      /\ timers \subseteq Handles \X Tasks
  BY DEF PoolInv, TypeOK
<1>2. IsInjective(queue) /\ \A u \in Tasks : Accounted(u) /\ u # NoTask
  BY TasksAccountedIs, PoolAssumption DEF PoolInv
<1>3. /\ ~closed /\ workers # {} /\ outcome[t] = "none"
      /\ \A u \in Tasks : outcome'[u] = IF u = t THEN "pending" ELSE outcome[u]
      /\ outcome' \in [Tasks -> Outcomes]
  BY <1>1 DEF SubmitEffect, Outcomes
<1>4. t \notin Range(queue) /\ \A w \in Handles : active[w] # t
  BY <1>2, <1>3 DEF Accounted
<1>5. Range(idle) = {w \in workers : active[w] = NoTask}
  BY <1>3 DEF PoolInv, SlotsConserved
<1>6. CASE idle = <<>>
  <2>1. /\ queue' = Append(queue, t) /\ Len(queue) < MaxQueueDepth
        /\ UNCHANGED <<idle, active, inbox, timers>>
    BY <1>6 DEF SubmitEffect
  <2>2. /\ queue' \in Seq(Tasks) /\ IsInjective(queue')
        /\ Range(queue') = Range(queue) \cup {t}
    BY <1>1, <1>2, <1>4, <2>1, AppendDistinct
  <2>3. Len(queue') = Len(queue) + 1
    BY <1>1, <2>1
  <2>4. QueueBounded'
    BY <1>1, <2>1, <2>3, PoolAssumption DEF QueueBounded
  <2>5. ASSUME NEW u \in Tasks PROVE Accounted(u)'
    <3>1. CASE u = t
      <4>1. outcome'[t] = "pending" /\ t \in Range(queue') /\ active' = active
        BY <1>3, <2>1, <2>2
      <4> QED BY <1>4, <3>1, <4>1 DEF Accounted
    <3>2. CASE u # t
      <4>1. /\ outcome'[u] = outcome[u] /\ active' = active /\ timers' = timers
            /\ u \in Range(queue') <=> u \in Range(queue)
        BY <1>3, <2>1, <2>2, <3>2
      <4> QED BY <1>2, <4>1 DEF Accounted
    <3> QED BY <3>1, <3>2
  <2>6. TasksAccounted'
    BY <2>2, <2>5, TasksAccountedNext
  <2>7. TypeOK'
    BY <1>3, <2>1, <2>2 DEF PoolInv, TypeOK, SubmitEffect
  <2>8. IsInjective(idle') /\ WorkConserving'
    BY <1>1, <1>6, <2>1 DEF WorkConserving
  <2>9. ClosedDrained' /\ NotStarted'
    BY <1>3 DEF SubmitEffect, ClosedDrained, NotStarted
  <2>10. SlotsConserved' /\ HandlesInUse' /\ EventsMade'
    BY <2>1 DEF SubmitEffect, PoolInv, SlotsConserved, HandlesInUse, EventsMade
  <2> QED BY <2>4, <2>6, <2>7, <2>8, <2>9, <2>10 DEF PoolInv
<1>7. CASE idle # <<>>
  <2> DEFINE h == idle[1]
  <2>1. /\ queue = <<>> /\ queue' = <<>> /\ idle' = Tail(idle)
        /\ active' = [active EXCEPT ![h] = t]
        /\ inbox' = [inbox EXCEPT ![h] = @ \cup {t}]
        /\ timers' = timers \cup {<<h, t>>}
    BY <1>7 DEF SubmitEffect
  <2>2. /\ idle' \in Seq(Handles) /\ IsInjective(idle')
        /\ Range(idle') = Range(idle) \ {h}
        /\ h \in Range(idle) /\ h \in Handles
    BY <1>1, <1>7, <2>1, TailDistinct
  <2>3. h \in workers /\ active[h] = NoTask
    BY <1>5, <2>2
  <2> HIDE DEF h
  <2>4. \A w \in Handles : active'[w] = IF w = h THEN t ELSE active[w]
    BY <1>1, <2>1, <2>2
  <2>5. ASSUME NEW u \in Tasks PROVE Accounted(u)'
    <3>1. CASE u = t
      <4>1. \A w \in Handles : active'[w] = t <=> w = h
        BY <1>4, <2>2, <2>4
      <4>2. <<h, t>> \in timers' /\ t \notin Range(queue') /\ outcome'[t] = "pending"
        BY <1>3, <1>4, <2>1
      <4> QED BY <2>2, <3>1, <4>1, <4>2 DEF Accounted
    <3>2. CASE u # t
      <4>1. \A w \in Handles : active'[w] = u <=> active[w] = u
        BY <1>2, <2>3, <2>4, <3>2
      <4>2. outcome'[u] = outcome[u] /\ queue' = queue /\ timers \subseteq timers'
        BY <1>3, <2>1, <3>2
      <4> QED BY <1>2, <4>1, <4>2 DEF Accounted
    <3> QED BY <3>1, <3>2
  <2>6. TasksAccounted'
    BY <1>2, <2>1, <2>5, TasksAccountedNext
  <2>7. TypeOK'
    <3>1. active' \in [Handles -> Tasks \cup {NoTask}] /\ inbox' \in [Handles -> SUBSET Tasks]
      BY <1>1, <2>1
    <3>2. timers' \subseteq Handles \X Tasks /\ queue' \in Seq(Tasks)
      BY <1>1, <2>1, <2>2
    <3> QED BY <1>3, <2>2, <3>1, <3>2 DEF PoolInv, TypeOK, SubmitEffect
  <2>8. WorkConserving' /\ QueueBounded'
    BY <2>1, PoolAssumption DEF WorkConserving, QueueBounded
  <2>9. ClosedDrained' /\ NotStarted'
    BY <1>3 DEF SubmitEffect, ClosedDrained, NotStarted
  <2>10. SlotsConserved'
    <3>1. workers' = workers /\ workers \subseteq Handles /\ Cardinality(workers) = WorkerCount
      BY <1>3, PoolTypes DEF SubmitEffect, PoolInv, SlotsConserved
    <3>2. Range(idle') = {w \in workers' : active'[w] = NoTask}
      BY <1>2, <1>5, <2>2, <2>4, <3>1
    <3> QED BY <2>2, <3>1, <3>2 DEF SlotsConserved
  <2>11. HandlesInUse' /\ EventsMade'
    BY <2>3, <2>4 DEF SubmitEffect, PoolInv, HandlesInUse, EventsMade
  <2> QED BY <2>2, <2>6, <2>7, <2>8, <2>9, <2>10, <2>11 DEF PoolInv
<1> QED BY <1>6, <1>7

LEMMA StartKeeps ==
    ASSUME PoolInv, Start
    PROVE  PoolInv'
<1>1. /\ made = 0 /\ idle = <<>> /\ queue = <<>> /\ ~closed /\ workers = {}
      /\ 1..made = workers \cup replacing
      /\ \A w \in Handles : active[w] = NoTask
  BY DEF PoolInv, NotStarted, HandlesInUse, Start
<1>2. replacing = {}
  BY <1>1
<1>3. WorkerCount \in Nat /\ WorkerCount # 0 /\ WorkerCount <= MaxHandles /\ MaxHandles \in Nat
  BY PoolAssumption
<1>4. idle' = [k \in 1..WorkerCount |-> k] /\ workers' = 1..WorkerCount /\ made' = WorkerCount
  BY DEF Start
<1>5. /\ workers' \subseteq Handles /\ Range(idle') = workers' /\ IsInjective(idle')
  BY <1>3, <1>4 DEF Handles, Range, IsInjective
<1>6. idle' \in Seq(Handles)
  <2>1. idle' \in [1..WorkerCount -> Handles]
    BY <1>3, <1>4 DEF Handles
  <2> QED BY <1>3, <2>1, SeqDef
<1>7. Cardinality(workers') = WorkerCount
  <2>1. 1 \in Int /\ WorkerCount \in Int
    BY <1>3
  <2>2. Cardinality(1..WorkerCount) = IF 1 > WorkerCount THEN 0 ELSE WorkerCount - 1 + 1
    BY <2>1, FS_Interval
  <2> QED BY <1>3, <1>4, <2>2
<1>8. TypeOK'
  <2>1. thread' \in [Handles -> {"none", "running", "stopping", "gone"}]
    BY DEF Start
  <2>2. made' \in 0..MaxHandles /\ workers' \subseteq 1..made' /\ replacing' = {}
    BY <1>2, <1>3, <1>4 DEF Start
  <2> QED BY <1>6, <2>1, <2>2 DEF Start, PoolInv, TypeOK
<1>9. SlotsConserved' /\ HandlesInUse'
  BY <1>1, <1>2, <1>4, <1>5, <1>7 DEF Start, SlotsConserved, HandlesInUse
<1>10. WorkConserving' /\ QueueBounded' /\ ClosedDrained'
  <2>1. queue' = queue /\ closed' = closed
    BY DEF Start
  <2> QED BY <1>1, <2>1 DEF PoolInv, WorkConserving, QueueBounded, ClosedDrained
<1>11. NotStarted'
  <2>1. 1 \in 1..WorkerCount
    BY <1>3
  <2> QED BY <1>4, <2>1 DEF NotStarted
<1>12. TasksAccounted'
  <2>1. UNCHANGED <<queue, active, outcome, timers>>
    BY DEF Start
  <2> QED BY <2>1, AccountedSame DEF PoolInv
<1>13. EventsMade'
  <2>1. \A w \in Handles : thread'[w] # "none" => w \in 1..made'
    BY <1>3, <1>4 DEF Start, Handles
  <2>2. \A w \in Handles, e \in {"error", "exit"} : <<w, e>> \notin events'
    <3>1. 1..made = {} /\ events' = events
      BY <1>1 DEF Start
    <3> QED BY <3>1 DEF PoolInv, EventsMade
  <2> QED BY <2>1, <2>2 DEF EventsMade
<1> QED BY <1>5, <1>8, <1>9, <1>10, <1>11, <1>12, <1>13 DEF PoolInv

\* Steps that change no list and no handle, but what is on its way.
LEMMA QuietKeeps ==
    ASSUME PoolInv, TypeOK', EventsMade',
           UNCHANGED <<workers, idle, queue, closed, active, replacing, made>>,
           TasksAccounted'
    PROVE  PoolInv'
  BY DEF PoolInv, SlotsConserved, WorkConserving, QueueBounded, ClosedDrained,
         NotStarted, HandlesInUse

\* A stale timer.
LEMMA StaleTimer ==
    ASSUME PoolInv, NEW w \in Handles, NEW t \in Tasks, active[w] # t,
           timers' = timers \ {<<w, t>>}, UNCHANGED <<queue, active, outcome>>
    PROVE  TasksAccounted'
<1>1. IsInjective(queue) /\ \A u \in Tasks : Accounted(u)
  BY TasksAccountedIs DEF PoolInv
<1>2. ASSUME NEW u \in Tasks PROVE Accounted(u)'
  <2>1. \A v \in Handles : active[v] = u /\ <<v, u>> \in timers => <<v, u>> \in timers'
    OBVIOUS
  <2> QED BY <1>1, <2>1 DEF Accounted
<1> QED BY <1>1, <1>2, TasksAccountedNext

LEMMA ShutdownKeeps ==
    ASSUME PoolInv, Shutdown
    PROVE  PoolInv'
<1>1. IsInjective(queue) /\ \A t \in Tasks : Accounted(t)
  BY TasksAccountedIs DEF PoolInv
<1>2. /\ queue' = <<>> /\ closed' = TRUE /\ active' = active /\ timers' = timers
      /\ outcome' = [t \in Tasks |-> IF t \in Range(queue) THEN "failed" ELSE outcome[t]]
  BY DEF Shutdown
<1>3. Range(<<>>) = {} /\ IsInjective(<<>>)
  BY DEF Range, IsInjective
<1>4. ASSUME NEW t \in Tasks PROVE Accounted(t)'
  <2>1. CASE t \in Range(queue)
    <3>1. \A w \in Handles : active[w] # t
      BY <1>1, <2>1 DEF Accounted
    <3>2. outcome'[t] = "failed" /\ t \notin Range(queue')
      BY <1>2, <1>3, <2>1
    <3> QED BY <1>2, <3>1, <3>2 DEF Accounted
  <2>2. CASE t \notin Range(queue)
    <3>1. outcome'[t] = outcome[t] /\ t \notin Range(queue')
      BY <1>2, <1>3, <2>2
    <3> QED BY <1>1, <1>2, <2>2, <3>1 DEF Accounted
  <2> QED BY <2>1, <2>2
<1>5. TasksAccounted'
  BY <1>2, <1>3, <1>4, TasksAccountedNext
<1>6. TypeOK'
  BY <1>2 DEF PoolInv, TypeOK, Shutdown, Outcomes
<1>7. EventsMade'
  <2>1. \A w \in Handles : thread'[w] # "none" => thread[w] # "none"
    BY DEF Shutdown
  <2>2. events' = events /\ made' = made
    BY DEF Shutdown
  <2> QED BY <2>1, <2>2 DEF PoolInv, EventsMade
<1>8. IsInjective(idle') /\ SlotsConserved' /\ WorkConserving' /\ ClosedDrained'
      /\ NotStarted' /\ HandlesInUse'
  BY <1>2 DEF Shutdown, PoolInv, SlotsConserved, WorkConserving, ClosedDrained,
              NotStarted, HandlesInUse
<1>9. QueueBounded'
  BY <1>2, PoolAssumption DEF QueueBounded
<1> QED BY <1>5, <1>6, <1>7, <1>8, <1>9 DEF PoolInv

LEMMA ShutdownDoneKeeps ==
    ASSUME PoolInv, ShutdownDone
    PROVE  PoolInv'
<1>1. /\ closed /\ UNCHANGED <<queue, closed, active, replacing, made, timers, outcome>>
      /\ workers' = {} /\ idle' = <<>> /\ down' = TRUE /\ UNCHANGED envVars
  BY DEF ShutdownDone
<1>2. TasksAccounted'
  BY <1>1, AccountedSame DEF PoolInv
<1>3. TypeOK'
  BY <1>1 DEF PoolInv, TypeOK, envVars
<1>4. IsInjective(idle')
  BY <1>1 DEF IsInjective
<1>5. /\ SlotsConserved' /\ WorkConserving' /\ QueueBounded' /\ ClosedDrained'
      /\ NotStarted' /\ HandlesInUse' /\ EventsMade'
  BY <1>1 DEF PoolInv, SlotsConserved, WorkConserving, QueueBounded, ClosedDrained,
              NotStarted, HandlesInUse, EventsMade, envVars
<1> QED BY <1>2, <1>3, <1>4, <1>5 DEF PoolInv

\* handleWorkerFailure, from the "error" or the "exit" event.
LEMMA FailureIs ==
    ASSUME PoolInv, NEW w \in Handles, NEW e \in {"error", "exit"},
           <<w, e>> \in events, w \notin replacing, Failure(w),
           events' \subseteq events, UNCHANGED <<replies, deaths>>
    PROVE  \E h \in Handles : Release(w, h, "failed")
<1>1. ~closed => w \in workers
  BY DEF PoolInv, EventsMade, HandlesInUse
<1>2. Retired(w, "failed")
  BY DEF Failure, Retired
<1> QED BY <1>1, <1>2, RetiredIs

\* handleTaskTimeout of an active task.
LEMMA TimeoutIs ==
    ASSUME PoolInv, NEW w \in Handles, NEW t \in Tasks, active[w] = t,
           HandleTaskTimeout(w, t)
    PROVE  \E h \in Handles : Release(w, h, "timeout")
<1>1. ~closed => w \in workers
  BY PoolAssumption DEF PoolInv, HandlesInUse
<1>2. outcome' = [u \in Tasks |-> IF u = active[w] THEN "timeout" ELSE outcome[u]]
  BY DEF HandleTaskTimeout, PoolInv, TypeOK
<1>3. Retired(w, "timeout")
  BY <1>2 DEF HandleTaskTimeout, Retired
<1> QED BY <1>1, <1>3, RetiredIs

\* The steps that hand nothing out: refusals, stale messages, events and timers,
\* and the steps of the threads.
Quiet ==
    /\ UNCHANGED <<workers, idle, queue, closed, active, replacing, made, down>>
    /\ \/ /\ \E t \in Tasks : outcome[t] = "none" /\ outcome' = [outcome EXCEPT ![t] = "refused"]
          /\ UNCHANGED <<timers, envVars>>
       \/ UNCHANGED <<timers, outcome>>
       \/ /\ \E w \in Handles, t \in Tasks :
                active[w] # t /\ timers' = timers \ {<<w, t>>}
          /\ UNCHANGED <<outcome, envVars>>

\* The steps of Next: each one starts or stops the pool, takes a task, frees a
\* handle, or is quiet.
LEMMA StepIs ==
    ASSUME PoolInv, [Next]_vars
    PROVE  \/ Start \/ Shutdown \/ ShutdownDone
           \/ \E t \in Tasks : SubmitEffect(t)
           \/ \E x \in Handles, h \in Handles, result \in Answered : Release(x, h, result)
           \/ Quiet /\ TypeOK' /\ EventsMade'
<1> USE DEF Answered
<1>1. CASE \E t \in Tasks : Submit(t)
  BY <1>1, SubmitIs
<1>2. CASE \E m \in replies : HandleMessage(m)
  <2>1. PICK m \in replies : HandleMessage(m)
    BY <1>2
  <2> QED BY <2>1, MessageIs
<1>3. ASSUME NEW w \in Handles, HandleError(w), w \notin replacing
      PROVE  \E h \in Handles : Release(w, h, "failed")
  <2>1. /\ <<w, "error">> \in events /\ Failure(w)
        /\ events' \subseteq events /\ UNCHANGED <<replies, deaths>>
    BY <1>3 DEF HandleError
  <2> QED BY <1>3, <2>1, FailureIs
<1>4. ASSUME NEW w \in Handles, HandleExit(w), ~(closed \/ w \in replacing)
      PROVE  \E h \in Handles : Release(w, h, "failed")
  <2>1. /\ <<w, "exit">> \in events /\ Failure(w)
        /\ events' \subseteq events /\ UNCHANGED <<replies, deaths>>
    BY <1>4 DEF HandleExit
  <2> QED BY <1>4, <2>1, FailureIs
<1>5. ASSUME NEW w \in Handles, NEW t \in Tasks, HandleTaskTimeout(w, t), active[w] = t
      PROVE  \E h \in Handles : Release(w, h, "timeout")
  BY <1>5, TimeoutIs
<1>6. ASSUME NEW t \in Tasks, SubmitRefused(t)
      PROVE  Quiet /\ TypeOK' /\ EventsMade'
  <2>1. Quiet
    BY <1>6 DEF SubmitRefused, Quiet, poolVars
  <2>2. outcome' \in [Tasks -> Outcomes]
    BY <1>6 DEF SubmitRefused, PoolInv, TypeOK, Outcomes
  <2>3. UNCHANGED <<poolVars, envVars>>
    BY <1>6 DEF SubmitRefused
  <2> QED BY <2>1, <2>2, <2>3 DEF PoolInv, TypeOK, EventsMade, poolVars, envVars
<1>7. ASSUME NEW m \in replies, HandleStaleMessage(m)
      PROVE  Quiet /\ TypeOK' /\ EventsMade'
  BY <1>7 DEF HandleStaleMessage, Quiet, PoolInv, TypeOK, EventsMade, poolVars
<1>8. ASSUME NEW w \in Handles, HandleError(w), w \in replacing
      PROVE  Quiet /\ TypeOK' /\ EventsMade'
  BY <1>8 DEF HandleError, Quiet, PoolInv, TypeOK, EventsMade, poolVars
<1>9. ASSUME NEW w \in Handles, HandleExit(w), closed \/ w \in replacing
      PROVE  Quiet /\ TypeOK' /\ EventsMade'
  BY <1>9 DEF HandleExit, Quiet, PoolInv, TypeOK, EventsMade, poolVars
<1>10. ASSUME NEW w \in Handles, NEW t \in Tasks, HandleTaskTimeout(w, t), active[w] # t
       PROVE  Quiet /\ TypeOK' /\ EventsMade'
  <2>1. /\ timers' = timers \ {<<w, t>>}
        /\ UNCHANGED <<workers, idle, queue, active, replacing, made, outcome, thread, inbox,
                       closed, down, replies, events, deaths>>
    BY <1>10 DEF HandleTaskTimeout
  <2> QED BY <1>10, <2>1 DEF Quiet, PoolInv, TypeOK, EventsMade, envVars
<1>11. ASSUME NEW w \in Handles, NEW t \in Tasks, Reply(w, t)
       PROVE  Quiet /\ TypeOK' /\ EventsMade'
  BY <1>11 DEF Reply, Quiet, PoolInv, TypeOK, EventsMade, poolVars
<1>12. ASSUME NEW w \in Handles, Stop(w)
       PROVE  Quiet /\ TypeOK' /\ EventsMade'
  <2>1. thread[w] # "none" /\ Quiet /\ UNCHANGED <<poolVars, outcome, inbox, replies, deaths>>
    BY <1>12 DEF Stop, Quiet, poolVars
  <2>2. /\ thread' = [thread EXCEPT ![w] = "gone"]
        /\ events' = events \cup {<<w, "exit">>}
    BY <1>12 DEF Stop
  <2>3. TypeOK'
    BY <2>1, <2>2 DEF PoolInv, TypeOK, poolVars
  <2>4. EventsMade'
    BY <2>1, <2>2 DEF PoolInv, TypeOK, EventsMade, poolVars
  <2> QED BY <2>1, <2>3, <2>4
<1>13. ASSUME NEW w \in Handles, NEW announced \in Announcements, Die(w, announced)
       PROVE  Quiet /\ TypeOK' /\ EventsMade'
  <2>1. thread[w] # "none" /\ Quiet /\ UNCHANGED <<poolVars, outcome, inbox, replies>>
    BY <1>13 DEF Die, Quiet, poolVars
  <2>2. /\ thread' = [thread EXCEPT ![w] = "gone"]
        /\ events' \subseteq events \cup {<<w, "error">>, <<w, "exit">>}
        /\ deaths' \in 0..MaxDeaths
    BY <1>13, PoolAssumption DEF Die, PoolInv, TypeOK, Announcements
  <2>3. TypeOK'
    BY <2>1, <2>2 DEF PoolInv, TypeOK, poolVars
  <2>4. EventsMade'
    BY <2>1, <2>2 DEF PoolInv, TypeOK, EventsMade, poolVars
  <2> QED BY <2>1, <2>3, <2>4
<1>14. ASSUME UNCHANGED vars
       PROVE  Quiet /\ TypeOK' /\ EventsMade'
  BY <1>14 DEF Quiet, PoolInv, TypeOK, EventsMade, vars, poolVars, envVars
<1> QED BY <1>1, <1>2, <1>3, <1>4, <1>5, <1>6, <1>7, <1>8, <1>9, <1>10, <1>11, <1>12,
           <1>13, <1>14 DEF Next

\* Every step preserves the invariant.
LEMMA PoolStep ==
    ASSUME PoolInv, [Next]_vars
    PROVE  PoolInv'
<1>1. CASE Start
  BY <1>1, StartKeeps
<1>2. CASE Shutdown
  BY <1>2, ShutdownKeeps
<1>3. CASE ShutdownDone
  BY <1>3, ShutdownDoneKeeps
<1>4. CASE \E t \in Tasks : SubmitEffect(t)
  BY <1>4, SubmitKeeps
<1>5. CASE \E x \in Handles, h \in Handles, result \in Answered : Release(x, h, result)
  BY <1>5, ReleaseKeeps
<1>6. CASE Quiet /\ TypeOK' /\ EventsMade'
  <2>1. UNCHANGED <<workers, idle, queue, closed, active, replacing, made>>
    BY <1>6 DEF Quiet
  <2>2. TasksAccounted'
    <3>1. CASE UNCHANGED <<timers, outcome>>
      BY <2>1, <3>1, AccountedSame DEF PoolInv
    <3>2. CASE \E w \in Handles, t \in Tasks :
                   active[w] # t /\ timers' = timers \ {<<w, t>>} /\ outcome' = outcome
      BY <2>1, <3>2, StaleTimer
    <3>3. CASE \E t \in Tasks : /\ outcome[t] = "none" /\ timers' = timers
                                /\ outcome' = [outcome EXCEPT ![t] = "refused"]
      <4>1. PICK t \in Tasks : /\ outcome[t] = "none" /\ timers' = timers
                               /\ outcome' = [outcome EXCEPT ![t] = "refused"]
        BY <3>3
      <4>2. IsInjective(queue) /\ \A u \in Tasks : Accounted(u)
        BY TasksAccountedIs DEF PoolInv
      <4>3. \A u \in Tasks : outcome'[u] = "pending" <=> outcome[u] = "pending"
        BY <4>1 DEF PoolInv, TypeOK
      <4>4. \A u \in Tasks : Accounted(u)'
        BY <2>1, <4>1, <4>2, <4>3 DEF Accounted
      <4> QED BY <2>1, <4>2, <4>4, TasksAccountedNext
    <3> QED BY <1>6, <3>1, <3>2, <3>3 DEF Quiet
  <2> QED BY <1>6, <2>1, <2>2, QuietKeeps
<1> QED BY <1>1, <1>2, <1>3, <1>4, <1>5, <1>6, StepIs

LEMMA PoolInit == Init => PoolInv
<1> SUFFICES ASSUME Init PROVE PoolInv
  OBVIOUS
<1>1. Range(<<>>) = {} /\ IsInjective(<<>>)
  BY DEF Range, IsInjective
<1>2. TypeOK
  <2>1. 0 \in 0..MaxHandles /\ 0 \in 0..MaxDeaths
    BY PoolAssumption
  <2>2. outcome \in [Tasks -> Outcomes] /\ active \in [Handles -> Tasks \cup {NoTask}]
    BY DEF Init, Outcomes
  <2>3. /\ thread \in [Handles -> {"none", "running", "stopping", "gone"}]
        /\ inbox \in [Handles -> SUBSET Tasks]
    BY DEF Init
  <2>4. <<>> \in Seq(Handles) /\ <<>> \in Seq(Tasks)
    OBVIOUS
  <2> QED BY <2>1, <2>2, <2>3, <2>4 DEF Init, TypeOK
<1>3. TasksAccounted
  <2>1. \A t \in Tasks : Accounted(t)
    BY <1>1, PoolAssumption DEF Init, Accounted
  <2> QED BY <1>1, <2>1, TasksAccountedIs DEF Init
<1>4. QueueBounded
  <2>1. Len(<<>>) = 0 /\ 0 <= MaxQueueDepth
    BY PoolAssumption
  <2> QED BY <2>1 DEF Init, QueueBounded
<1>5. HandlesInUse
  BY DEF Init, HandlesInUse
<1> QED BY <1>1, <1>2, <1>3, <1>4, <1>5
        DEF Init, PoolInv, SlotsConserved, WorkConserving, ClosedDrained, NotStarted, EventsMade

LEMMA PoolInvariant == Spec => []PoolInv
<1>1. Init => PoolInv
  BY PoolInit
<1>2. PoolInv /\ [Next]_vars => PoolInv'
  BY PoolStep
<1> QED BY <1>1, <1>2, PTL DEF Spec

\* The pool keeps its types, and a replaced handle is out of use for good.
THEOREM PoolTypeCorrect == Spec => []TypeOK
<1>1. PoolInv => TypeOK
  BY DEF PoolInv
<1> QED BY <1>1, PoolInvariant, PTL

\* However many workers, failures, timeouts and late events of replaced workers
\* there are, an open pool has worker_count handles, each in the idle list once
\* or with a task.
THEOREM SlotsKept == Spec => []SlotsConserved
<1>1. PoolInv => SlotsConserved
  BY DEF PoolInv
<1> QED BY <1>1, PoolInvariant, PTL

\* No task waits in #queue while #idle has a worker.
THEOREM NoIdleWait == Spec => []WorkConserving
<1>1. PoolInv => WorkConserving
  BY DEF PoolInv
<1> QED BY <1>1, PoolInvariant, PTL

\* The queue never grows past max_queue_depth.
THEOREM QueueDepthKept == Spec => []QueueBounded
<1>1. PoolInv => QueueBounded
  BY DEF PoolInv
<1> QED BY <1>1, PoolInvariant, PTL

\* Every accepted task is in the queue once, or with one handle whose timer for
\* it is armed, and no answered task is in either place.
THEOREM TasksKept == Spec => []TasksAccounted
<1>1. PoolInv => TasksAccounted
  BY DEF PoolInv
<1> QED BY <1>1, PoolInvariant, PTL

\* No caller's promise is resolved twice: a result, once given, stays.
THEOREM AnswersFinal == Spec => AnsweredOnce
<1>1. ASSUME PoolInv, [Next]_vars, NEW t \in Tasks, outcome[t] \in Answered \cup {"refused"}
      PROVE  outcome'[t] = outcome[t]
  <2>1. t \notin Range(queue) /\ \A w \in Handles : active[w] # t
    <3>1. Accounted(t)
      BY <1>1, TasksAccountedIs DEF PoolInv
    <3>2. outcome[t] # "pending"
      BY <1>1 DEF Answered
    <3> QED BY <3>1, <3>2 DEF Accounted
  <2>2. CASE Start \/ ShutdownDone
    BY <2>2 DEF Start, ShutdownDone
  <2>3. CASE Shutdown
    BY <2>1, <2>3 DEF Shutdown
  <2>4. CASE \E u \in Tasks : SubmitEffect(u)
    BY <1>1, <2>4 DEF SubmitEffect, Answered, PoolInv, TypeOK
  <2>5. CASE \E x \in Handles, h \in Handles, result \in Answered : Release(x, h, result)
    BY <2>1, <2>5 DEF Release, Freed
  <2>6. CASE Quiet
    BY <1>1, <2>6 DEF Quiet, Answered, PoolInv, TypeOK
  <2> QED BY <1>1, <2>2, <2>3, <2>4, <2>5, <2>6, StepIs
<1>2. PoolInv /\ [Next]_vars =>
        [\A t \in Tasks : outcome[t] \in Answered \cup {"refused"} =>
            outcome'[t] = outcome[t]]_vars
  BY <1>1
<1> QED BY <1>2, PoolInvariant, PTL DEF Spec, AnsweredOnce

-----------------------------------------------------------------------------
(* A worker is alone with its task.                                         *)

LEMMA AloneIs ==
    ASSUME TypeOK, Alone
    PROVE  OneTaskPerThread
<1> SUFFICES ASSUME ~closed, NEW w \in workers
             PROVE  inbox[w] \cup {m.task : m \in {r \in replies : r.from = w}} \subseteq {active[w]}
  BY DEF OneTaskPerThread
<1>1. w \in Handles /\ inbox[w] \subseteq Tasks
  BY PoolTypes DEF Inboxes
<1>2. \A m \in replies : m.from = w => m.task \in Tasks /\ m = [from |-> w, task |-> m.task]
  BY DEF TypeOK
<1> QED BY <1>1, <1>2 DEF Alone

\* Steps that post nothing and change no active task.
LEMMA NothingPosted ==
    ASSUME ThreadInv, replies' \subseteq replies,
           UNCHANGED <<workers, closed, active, made, inbox>>
    PROVE  ThreadInv'
  BY DEF ThreadInv, Alone, PostedOnce, Unposted

\* After Shutdown only Unposted is left to show.
LEMMA ClosedThreads ==
    ASSUME ThreadInv, closed', inbox' = inbox, replies' \subseteq replies, made' = made
    PROVE  ThreadInv'
  BY DEF ThreadInv, Alone, PostedOnce, Unposted

\* A task t is posted to handle h, which has nothing posted.
LEMMA Posting ==
    ASSUME ThreadInv, TypeOK, NEW h \in Handles, NEW t \in Tasks, ~closed, closed' = closed,
           \A u \in Tasks : u \notin inbox[h] /\ [from |-> h, task |-> u] \notin replies',
           replies' \subseteq replies, inbox' = [inbox EXCEPT ![h] = @ \cup {t}],
           active'[h] = t, workers' \subseteq Handles, workers' \ {h} \subseteq workers,
           \A w \in workers : w # h => active'[w] = active[w] \/ w \notin workers',
           made \in Nat, made' \in Nat, made <= made', h <= made'
    PROVE  ThreadInv'
<1>1. \A w \in Handles : inbox'[w] = IF w = h THEN inbox[w] \cup {t} ELSE inbox[w]
  BY DEF TypeOK
<1>2. inbox[h] = {}
  BY DEF TypeOK
<1>3. Alone'
  <2> SUFFICES ASSUME NEW w \in workers', NEW u \in Tasks,
                      u \in inbox'[w] \/ [from |-> w, task |-> u] \in replies'
               PROVE  active'[w] = u
    BY DEF Alone
  <2>1. CASE w = h
    BY <1>1, <1>2, <2>1
  <2>2. CASE w # h
    BY <1>1, <2>2 DEF ThreadInv, Alone
  <2> QED BY <2>1, <2>2
<1>4. PostedOnce'
  <2> SUFFICES ASSUME NEW w \in workers', NEW u \in inbox'[w]
               PROVE  [from |-> w, task |-> u] \notin replies'
    BY DEF PostedOnce
  <2>1. CASE w = h
    BY <1>1, <1>2, <2>1
  <2>2. CASE w # h
    BY <1>1, <2>2 DEF ThreadInv, PostedOnce
  <2> QED BY <2>1, <2>2
<1>5. Unposted'
  <2> SUFFICES ASSUME NEW w \in Handles, w > made'
               PROVE  inbox'[w] = {} /\ \A u \in Tasks : [from |-> w, task |-> u] \notin replies'
    BY DEF Unposted
  <2>1. w # h /\ w > made
    BY PoolAssumption DEF Handles
  <2> QED BY <1>1, <2>1 DEF ThreadInv, Unposted
<1> QED BY <1>3, <1>4, <1>5 DEF ThreadInv

\* Handle h, which has nothing posted, becomes free.
LEMMA Freeing ==
    ASSUME ThreadInv, NEW h \in Handles, ~closed, closed' = closed,
           \A u \in Tasks : u \notin inbox[h] /\ [from |-> h, task |-> u] \notin replies',
           replies' \subseteq replies, inbox' = inbox, inbox[h] \subseteq Tasks,
           workers' \ {h} \subseteq workers,
           \A w \in workers : w # h => active'[w] = active[w] \/ w \notin workers',
           made \in Nat, made' \in Nat, made <= made'
    PROVE  ThreadInv'
<1>1. Alone'
  <2> SUFFICES ASSUME NEW w \in workers', NEW u \in Tasks,
                      u \in inbox'[w] \/ [from |-> w, task |-> u] \in replies'
               PROVE  active'[w] = u
    BY DEF Alone
  <2>1. w # h
    OBVIOUS
  <2> QED BY <2>1 DEF ThreadInv, Alone
<1>2. PostedOnce'
  BY DEF ThreadInv, PostedOnce
<1>3. Unposted'
  <2> SUFFICES ASSUME NEW w \in Handles, w > made'
               PROVE  inbox'[w] = {} /\ \A u \in Tasks : [from |-> w, task |-> u] \notin replies'
    BY DEF Unposted
  <2>1. w > made
    BY PoolAssumption DEF Handles
  <2> QED BY <2>1 DEF ThreadInv, Unposted
<1> QED BY <1>1, <1>2, <1>3 DEF ThreadInv

LEMMA ReleaseThreads ==
    ASSUME PoolInv, ThreadInv, NEW x \in Handles, NEW h \in Handles, NEW result \in Answered,
           Release(x, h, result), ~closed,
           \A u \in Tasks : u \notin inbox[h] /\ [from |-> h, task |-> u] \notin replies'
    PROVE  ThreadInv'
<1>1. /\ x \in workers /\ workers' = (workers \ {x}) \cup {h}
      /\ h = x \/ (h \notin workers /\ h # x /\ h = made + 1)
  BY ReleaseHandles
<1>2. /\ TypeOK /\ active \in [Handles -> Tasks \cup {NoTask}] /\ workers \subseteq Handles
      /\ queue \in Seq(Tasks) /\ inbox[h] \subseteq Tasks
      /\ made \in Nat /\ workers \subseteq 1..made
  BY PoolTypes DEF PoolInv, TypeOK
<1>3. closed' = closed /\ replies' \subseteq replies
  BY DEF Release, Freed
<1>4. made' \in Nat /\ made <= made' /\ h <= made'
  <2>1. CASE h = x /\ SameHandles
    BY <1>1, <1>2, <2>1 DEF SameHandles
  <2>2. CASE h = made + 1 /\ Replaced(x)
    BY <1>2, <2>2 DEF Replaced
  <2> QED BY <2>1, <2>2 DEF Release
<1>5. workers' \subseteq Handles /\ workers' \ {h} \subseteq workers
  BY <1>1, <1>2
<1>6. \A w \in workers : w # h => active'[w] = active[w] \/ w \notin workers'
  <2>1. \A w \in Handles : w # h /\ w # x => active'[w] = active[w]
    BY <1>2 DEF Release, Freed, HandedOn
  <2> QED BY <1>1, <1>2, <2>1
<1>7. CASE queue = <<>>
  <2>1. inbox' = inbox
    BY <1>7 DEF Release, Freed, HandedOn
  <2> QED BY <1>2, <1>3, <1>4, <1>5, <1>6, <2>1, Freeing
<1>8. CASE queue # <<>>
  <2>1. /\ active' = [[active EXCEPT ![x] = NoTask] EXCEPT ![h] = queue[1]]
        /\ inbox' = [inbox EXCEPT ![h] = @ \cup {queue[1]}]
    BY <1>8 DEF Release, Freed, HandedOn
  <2>2. queue[1] \in Tasks /\ active'[h] = queue[1]
    BY <1>2, <1>8, <2>1
  <2> QED BY <1>2, <1>3, <1>4, <1>5, <1>6, <2>1, <2>2, Posting
<1> QED BY <1>7, <1>8

\* A worker failure or a timeout.
LEMMA RetiredThreads ==
    ASSUME PoolInv, ThreadInv, NEW w \in Handles, NEW h \in Handles, NEW result \in Answered,
           Release(w, h, result), closed \/ made' = made + 1
    PROVE  ThreadInv'
<1>1. CASE closed
  <2>1. closed' /\ inbox' = inbox /\ replies' \subseteq replies
    BY <1>1 DEF Release, Freed, HandedOn
  <2>2. made' = made
    BY <1>1 DEF Release, SameHandles, Replaced
  <2> QED BY <2>1, <2>2, ClosedThreads
<1>2. CASE ~closed
  <2>1. made \in Nat
    BY PoolTypes DEF PoolInv
  <2>2. h = made + 1
    BY <1>2, <2>1 DEF Release, SameHandles
  <2>3. \A u \in Tasks : u \notin inbox[h] /\ [from |-> h, task |-> u] \notin replies
    BY <2>1, <2>2 DEF ThreadInv, Unposted
  <2>4. replies' \subseteq replies
    BY DEF Release, Freed
  <2> QED BY <1>2, <2>3, <2>4, ReleaseThreads
<1> QED BY <1>1, <1>2

LEMMA MessageThreads ==
    ASSUME PoolInv, ThreadInv, NEW m \in replies, HandleMessage(m)
    PROVE  ThreadInv'
<1> DEFINE x == m.from
<1>1. /\ x \in Handles /\ m.task \in Tasks /\ active[x] = m.task
      /\ m = [from |-> x, task |-> m.task] /\ Release(x, x, "reply")
  BY MessageIs DEF PoolInv, TypeOK, HandleMessage
<1>2. replies' = replies \ {m} /\ made' = made
  BY DEF HandleMessage
<1> HIDE DEF x
<1>3. CASE closed
  <2>1. closed' /\ inbox' = inbox
    BY <1>1, <1>3 DEF Release, Freed, HandedOn
  <2> QED BY <1>2, <2>1, ClosedThreads
<1>4. CASE ~closed
  <2>1. x \in workers
    BY <1>1, <1>4 DEF Release, Freed
  <2>2. ASSUME NEW u \in Tasks PROVE u \notin inbox[x] /\ [from |-> x, task |-> u] \notin replies'
    <3>1. u \in inbox[x] \/ [from |-> x, task |-> u] \in replies => u = m.task
      BY <1>1, <1>4, <2>1 DEF ThreadInv, Alone
    <3>2. m.task \notin inbox[x]
      BY <1>1, <1>4, <2>1 DEF ThreadInv, PostedOnce
    <3> QED BY <1>1, <1>2, <3>1, <3>2
  <2>3. "reply" \in Answered
    BY DEF Answered
  <2> QED BY <1>1, <1>4, <2>2, <2>3, ReleaseThreads
<1> QED BY <1>3, <1>4

LEMMA SubmitThreads ==
    ASSUME PoolInv, ThreadInv, NEW t \in Tasks, SubmitEffect(t)
    PROVE  ThreadInv'
<1>1. /\ closed' = closed /\ ~closed /\ workers' = workers /\ made' = made
      /\ replies' = replies /\ workers # {}
  BY DEF SubmitEffect
<1>2. CASE idle = <<>>
  <2>1. inbox' = inbox /\ active' = active
    BY <1>2 DEF SubmitEffect
  <2> QED BY <1>1, <2>1, NothingPosted
<1>3. CASE idle # <<>>
  <2>1. PICK h : h = idle[1]
    OBVIOUS
  <2>2. /\ active' = [active EXCEPT ![h] = t]
        /\ inbox' = [inbox EXCEPT ![h] = @ \cup {t}]
    BY <1>3, <2>1 DEF SubmitEffect
  <2>3. /\ idle \in Seq(Handles) /\ IsInjective(idle) /\ TypeOK
        /\ active \in [Handles -> Tasks \cup {NoTask}]
        /\ inbox \in [Handles -> SUBSET Tasks]
        /\ workers \subseteq 1..made /\ made \in Nat /\ workers \subseteq Handles
    BY PoolTypes DEF PoolInv, TypeOK
  <2>4. h \in Range(idle) /\ h \in Handles
    BY <1>3, <2>1, <2>3, TailDistinct
  <2>5. h \in workers /\ active[h] = NoTask
    BY <1>1, <2>4 DEF PoolInv, SlotsConserved
  <2>6. \A u \in Tasks : u \notin inbox[h] /\ [from |-> h, task |-> u] \notin replies'
    BY <1>1, <2>5, PoolAssumption DEF ThreadInv, Alone
  <2>7. active'[h] = t /\ \A w \in workers : w # h => active'[w] = active[w]
    BY <2>2, <2>3, <2>4
  <2>8. h <= made
    BY <2>3, <2>5
  <2>9. /\ made' \in Nat /\ made <= made' /\ h <= made' /\ replies' \subseteq replies
        /\ workers' \subseteq Handles /\ workers' \ {h} \subseteq workers
        /\ \A w \in workers : w # h => active'[w] = active[w] \/ w \notin workers'
    BY <1>1, <2>3, <2>7, <2>8
  <2> QED BY <1>1, <2>2, <2>3, <2>4, <2>6, <2>7, <2>9, Posting
<1> QED BY <1>2, <1>3

LEMMA ReplyThreads ==
    ASSUME PoolInv, ThreadInv, NEW w \in Handles, NEW t \in Tasks, Reply(w, t)
    PROVE  ThreadInv'
<1>1. /\ t \in inbox[w] /\ inbox' = [inbox EXCEPT ![w] = @ \ {t}]
      /\ replies' = replies \cup {[from |-> w, task |-> t]}
      /\ UNCHANGED <<workers, closed, active, made>>
  BY DEF Reply, poolVars
<1>2. inbox \in [Handles -> SUBSET Tasks] /\ workers \subseteq Handles /\ made \in Nat
  BY PoolTypes DEF PoolInv, TypeOK
<1>3. \A v \in Handles : inbox'[v] = IF v = w THEN inbox[v] \ {t} ELSE inbox[v]
  BY <1>1, <1>2
<1>4. \A v \in Handles, u \in Tasks :
          [from |-> v, task |-> u] \in replies' =>
              (v = w /\ u = t) \/ [from |-> v, task |-> u] \in replies
  BY <1>1
<1>5. Alone'
  <2> SUFFICES ASSUME ~closed, NEW v \in workers, NEW u \in Tasks,
                      u \in inbox'[v] \/ [from |-> v, task |-> u] \in replies'
               PROVE  active[v] = u
    BY <1>1 DEF Alone
  <2>1. u \in inbox[v] \/ [from |-> v, task |-> u] \in replies
    BY <1>1, <1>2, <1>3, <1>4
  <2> QED BY <2>1 DEF ThreadInv, Alone
<1>6. PostedOnce'
  <2> SUFFICES ASSUME ~closed, NEW v \in workers, NEW u \in inbox'[v]
               PROVE  [from |-> v, task |-> u] \notin replies'
    BY <1>1 DEF PostedOnce
  <2>1. v \in Handles /\ u \in inbox[v] /\ ~(v = w /\ u = t) /\ u \in Tasks
    BY <1>2, <1>3
  <2>2. [from |-> v, task |-> u] \notin replies
    BY <2>1 DEF ThreadInv, PostedOnce
  <2> QED BY <1>4, <2>1, <2>2
<1>7. Unposted'
  <2> SUFFICES ASSUME NEW v \in Handles, v > made
               PROVE  inbox'[v] = {} /\ \A u \in Tasks : [from |-> v, task |-> u] \notin replies'
    BY <1>1 DEF Unposted
  <2>1. inbox[v] = {} /\ \A u \in Tasks : [from |-> v, task |-> u] \notin replies
    BY DEF ThreadInv, Unposted
  <2>2. v # w
    BY <1>1, <2>1
  <2> QED BY <1>3, <1>4, <2>1, <2>2
<1> QED BY <1>5, <1>6, <1>7 DEF ThreadInv

LEMMA StartThreads ==
    ASSUME PoolInv, ThreadInv, Start
    PROVE  ThreadInv'
<1>1. made = 0 /\ made' = WorkerCount /\ workers' = 1..WorkerCount
      /\ UNCHANGED <<inbox, replies, closed>> /\ 1..WorkerCount \subseteq Handles
  BY PoolAssumption DEF Start, PoolInv, NotStarted, Handles
<1>2. \A w \in Handles : inbox[w] = {} /\ \A u \in Tasks : [from |-> w, task |-> u] \notin replies
  BY <1>1, PoolAssumption DEF ThreadInv, Unposted, Handles
<1>3. \A w \in workers' : w \in Handles /\ inbox'[w] = {}
                          /\ \A u \in Tasks : [from |-> w, task |-> u] \notin replies'
  BY <1>1, <1>2
<1>4. Alone' /\ PostedOnce'
  BY <1>3 DEF Alone, PostedOnce
<1>5. Unposted'
  BY <1>1, <1>2 DEF Unposted
<1> QED BY <1>4, <1>5 DEF ThreadInv

LEMMA ThreadStep ==
    ASSUME PoolInv, ThreadInv, [Next]_vars
    PROVE  ThreadInv'
<1> USE DEF Answered
<1>1. CASE Start
  BY <1>1, StartThreads
<1>2. CASE \E t \in Tasks : Submit(t)
  BY <1>2, SubmitIs, SubmitThreads
<1>3. CASE \E m \in replies : HandleMessage(m)
  BY <1>3, MessageThreads
<1>4. CASE \E w \in Handles, t \in Tasks : Reply(w, t)
  BY <1>4, ReplyThreads
<1>5. CASE Shutdown
  BY <1>5, ClosedThreads DEF Shutdown
<1>6. CASE ShutdownDone
  BY <1>6, ClosedThreads DEF ShutdownDone, envVars
<1>7. ASSUME NEW w \in Handles, HandleError(w)
      PROVE  ThreadInv'
  <2>1. CASE w \in replacing
    BY <1>7, <2>1, NothingPosted DEF HandleError, poolVars
  <2>2. CASE w \notin replacing
    <3>1. /\ <<w, "error">> \in events /\ Failure(w)
          /\ events' \subseteq events /\ UNCHANGED <<replies, deaths>>
      BY <1>7, <2>2 DEF HandleError
    <3>2. closed \/ made' = made + 1
      BY <3>1 DEF Failure, Retire
    <3>3. PICK h \in Handles : Release(w, h, "failed")
      BY <2>2, <3>1, FailureIs
    <3> QED BY <3>2, <3>3, RetiredThreads
  <2> QED BY <2>1, <2>2
<1>8. ASSUME NEW w \in Handles, HandleExit(w)
      PROVE  ThreadInv'
  <2>1. CASE closed \/ w \in replacing
    BY <1>8, <2>1, NothingPosted DEF HandleExit, poolVars
  <2>2. CASE ~(closed \/ w \in replacing)
    <3>1. /\ <<w, "exit">> \in events /\ Failure(w)
          /\ events' \subseteq events /\ UNCHANGED <<replies, deaths>>
      BY <1>8, <2>2 DEF HandleExit
    <3>2. closed \/ made' = made + 1
      BY <3>1 DEF Failure, Retire
    <3>3. PICK h \in Handles : Release(w, h, "failed")
      BY <2>2, <3>1, FailureIs
    <3> QED BY <3>2, <3>3, RetiredThreads
  <2> QED BY <2>1, <2>2
<1>9. ASSUME NEW w \in Handles, NEW t \in Tasks, HandleTaskTimeout(w, t)
      PROVE  ThreadInv'
  <2>1. CASE active[w] # t
    BY <1>9, <2>1, NothingPosted DEF HandleTaskTimeout
  <2>2. CASE active[w] = t
    <3>1. closed \/ made' = made + 1
      BY <1>9, <2>2 DEF HandleTaskTimeout, Retire
    <3>2. PICK h \in Handles : Release(w, h, "timeout")
      BY <1>9, <2>2, TimeoutIs
    <3> QED BY <3>1, <3>2, RetiredThreads
  <2> QED BY <2>1, <2>2
<1>10. ASSUME NEW t \in Tasks, SubmitRefused(t) PROVE ThreadInv'
  BY <1>10, NothingPosted DEF SubmitRefused, poolVars, envVars
<1>11. ASSUME NEW m \in replies, HandleStaleMessage(m) PROVE ThreadInv'
  BY <1>11, NothingPosted DEF HandleStaleMessage, poolVars
<1>12. ASSUME NEW w \in Handles, Stop(w) PROVE ThreadInv'
  BY <1>12, NothingPosted DEF Stop, poolVars
<1>13. ASSUME NEW w \in Handles, NEW announced \in Announcements, Die(w, announced)
       PROVE  ThreadInv'
  BY <1>13, NothingPosted DEF Die, poolVars
<1>14. CASE UNCHANGED vars
  BY <1>14, NothingPosted DEF vars, poolVars, envVars
<1> QED BY <1>1, <1>2, <1>3, <1>4, <1>5, <1>6, <1>7, <1>8, <1>9, <1>10, <1>11, <1>12,
           <1>13, <1>14 DEF Next

\* A thread of an open pool never has two tasks, and what it has or is about to
\* deliver is the task its handle waits for: a late answer of a replaced worker
\* cannot be taken for the answer of the worker in its place.
THEOREM ThreadsAlone == Spec => []OneTaskPerThread
<1>1. Init => ThreadInv
  BY DEF Init, ThreadInv, Alone, PostedOnce, Unposted
<1>2. PoolInv /\ ThreadInv /\ [Next]_vars => ThreadInv'
  BY ThreadStep
<1>3. PoolInv /\ ThreadInv => OneTaskPerThread
  BY AloneIs DEF PoolInv, ThreadInv
<1> QED BY <1>1, <1>2, <1>3, PoolInvariant, PTL DEF Spec
=============================================================================
