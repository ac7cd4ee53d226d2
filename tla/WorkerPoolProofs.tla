-------------------------- MODULE WorkerPoolProofs --------------------------
(***************************************************************************)
(* Proofs about WorkerPool, for any calls, images, profile and size of     *)
(* the pool.                                                               *)
(***************************************************************************)
EXTENDS WorkerPool, NumberLemmas, SequenceTheorems, TLAPS

USE NoneIsNothing, PoolAssumption

----------------------------------------------------------------------------
(***************************************************************************)
(* Queues: sequences in which nothing occurs twice.                        *)
(***************************************************************************)
In(q, v) == \E k \in 1 .. Len(q) : q[k] = v
Distinct(q) == \A k, l \in 1 .. Len(q) : q[k] = q[l] => k = l

\* Of an empty queue.
LEMMA EmptyQueue ==
  /\ << >> \in Seq(Uploads) /\ Distinct(<< >>)
  /\ \A v : ~In(<< >>, v)
  BY EmptySeq DEF In, Distinct

\* A task is added at the end.
LEMMA Appended ==
  ASSUME NEW q \in Seq(Uploads), Distinct(q), NEW u \in Uploads, ~In(q, u)
  PROVE  /\ Append(q, u) \in Seq(Uploads) /\ Distinct(Append(q, u))
         /\ \A v : In(Append(q, u), v) <=> In(q, v) \/ v = u
<1> DEFINE p == Append(q, u)
<1>1. /\ p \in Seq(Uploads) /\ Len(p) = Len(q) + 1 /\ Len(q) \in Nat
      /\ \A k \in 1 .. Len(q) : p[k] = q[k]
      /\ p[Len(q) + 1] = u
  BY AppendProperties, LenProperties
<1> HIDE DEF p
<1>2. 1 .. Len(p) = 1 .. Len(q) \union {Len(q) + 1}
  BY <1>1
<1>3. Distinct(p)
  BY <1>1, <1>2 DEF In, Distinct
<1>4. \A v : In(p, v) <=> In(q, v) \/ v = u
  BY <1>1, <1>2 DEF In
<1>5. QED
  BY <1>1, <1>3, <1>4 DEF p

\* The first task is taken.
LEMMA Taken ==
  ASSUME NEW q \in Seq(Uploads), Distinct(q), q # << >>
  PROVE  /\ Head(q) \in Uploads /\ In(q, Head(q))
         /\ Tail(q) \in Seq(Uploads) /\ Distinct(Tail(q))
         /\ \A v : In(Tail(q), v) <=> In(q, v) /\ v # Head(q)
<1> DEFINE p == Tail(q)
<1>1. /\ Len(q) \in Nat \ {0} /\ Head(q) = q[1] /\ Head(q) \in Uploads
      /\ p \in Seq(Uploads) /\ Len(p) = Len(q) - 1
      /\ \A k \in 1 .. Len(p) : p[k] = q[k + 1]
  BY HeadTailProperties, EmptySeq, LenProperties
<1> HIDE DEF p
<1>2. Distinct(p)
  <2>1. ASSUME NEW k \in 1 .. Len(p), NEW l \in 1 .. Len(p), p[k] = p[l] PROVE k = l
    <3>1. k + 1 \in 1 .. Len(q) /\ l + 1 \in 1 .. Len(q) /\ q[k + 1] = q[l + 1]
      BY <1>1, <2>1
    <3>2. QED
      BY <1>1, <3>1 DEF Distinct
  <2>2. QED
    BY <2>1 DEF Distinct
<1>3. ASSUME NEW v, In(p, v) PROVE In(q, v) /\ v # Head(q)
  <2>1. PICK k \in 1 .. Len(p) : p[k] = v
    BY <1>3 DEF In
  <2>2. k + 1 \in 1 .. Len(q) /\ q[k + 1] = v /\ k + 1 # 1 /\ 1 \in 1 .. Len(q)
    BY <1>1, <2>1
  <2>3. QED
    BY <1>1, <2>2 DEF In, Distinct
<1>4. ASSUME NEW v, In(q, v), v # Head(q) PROVE In(p, v)
  <2>1. PICK k \in 1 .. Len(q) : q[k] = v
    BY <1>4 DEF In
  <2>2. k - 1 \in 1 .. Len(p) /\ p[k - 1] = v
    BY <1>1, <1>4, <2>1
  <2>3. QED
    BY <2>2 DEF In
<1>5. In(q, Head(q))
  BY <1>1, 1 \in 1 .. Len(q) DEF In
<1>6. QED
  BY <1>1, <1>2, <1>3, <1>4, <1>5 DEF p

\* The task in place k is taken out.
LEMMA DequeuedTask ==
  ASSUME queue \in Seq(Uploads), Distinct(queue), NEW k \in 1 .. Len(queue)
  PROVE  /\ Dequeued(k) \in Seq(Uploads) /\ Distinct(Dequeued(k))
         /\ \A v : In(Dequeued(k), v) <=> In(queue, v) /\ v # queue[k]
<1> DEFINE p == Dequeued(k)
           At(l) == IF l < k THEN l ELSE l + 1
<1>1. Len(queue) \in Nat /\ Len(queue) - 1 \in Nat
  BY LenProperties
<1>2. \A l \in 1 .. Len(queue) - 1 : At(l) \in 1 .. Len(queue) /\ At(l) # k
  BY <1>1
<1>3. p = [l \in 1 .. Len(queue) - 1 |-> queue[At(l)]]
  BY DEF Dequeued
<1>4. p \in [1 .. Len(queue) - 1 -> Uploads]
  BY <1>2, <1>3, ElementOfSeq
<1>5. p \in Seq(Uploads) /\ Len(p) = Len(queue) - 1
  BY <1>1, <1>4
<1>6. \A l \in 1 .. Len(p) : p[l] = queue[At(l)]
  BY <1>3, <1>5
<1> HIDE DEF p
<1>7. Distinct(p)
  <2>1. ASSUME NEW l \in 1 .. Len(p), NEW m \in 1 .. Len(p), p[l] = p[m] PROVE l = m
    <3>1. At(l) = At(m)
      BY <1>2, <1>5, <1>6, <2>1 DEF Distinct
    <3>2. QED
      BY <1>1, <1>5, <3>1
  <2>2. QED
    BY <2>1 DEF Distinct
<1>8. ASSUME NEW v, In(p, v) PROVE In(queue, v) /\ v # queue[k]
  <2>1. PICK l \in 1 .. Len(p) : p[l] = v
    BY <1>8 DEF In
  <2>2. At(l) \in 1 .. Len(queue) /\ queue[At(l)] = v /\ At(l) # k
    BY <1>2, <1>5, <1>6, <2>1
  <2>3. QED
    BY <2>2 DEF In, Distinct
<1>9. ASSUME NEW v, In(queue, v), v # queue[k] PROVE In(p, v)
  <2>1. PICK m \in 1 .. Len(queue) : queue[m] = v
    BY <1>9 DEF In
  <2>2. m # k
    BY <1>9, <2>1
  <2>3. PICK l \in 1 .. Len(p) : At(l) = m
    <3>1. CASE m < k
      <4>1. m \in 1 .. Len(p) /\ At(m) = m
        BY <1>1, <1>5, <3>1
      <4>2. QED
        BY <4>1
    <3>2. CASE m > k
      <4>1. m - 1 \in 1 .. Len(p) /\ At(m - 1) = m
        BY <1>1, <1>5, <3>2
      <4>2. QED
        BY <4>1
    <3>3. QED
      BY <1>1, <2>2, <3>1, <3>2
  <2>4. p[l] = v
    BY <1>6, <2>1, <2>3
  <2>5. QED
    BY <2>4 DEF In
<1>10. QED
  BY <1>5, <1>7, <1>8, <1>9 DEF p

----------------------------------------------------------------------------
(***************************************************************************)
(* Threads.                                                                *)
(***************************************************************************)
States == {"off", "starting", "idle"} \union Busy

\* The number of threads is positive, and no more than the cap.
LEMMA ThreadCount == MaxThreads \in Nat \ {0} /\ MaxThreads <= MaxThreadsCap
  BY DEF MaxThreads, Larger, Smaller

\* The thread that is started next is one of those that are off.
LEMMA NextIsOff ==
  ASSUME NEW off \in SUBSET Threads, off # {}
  PROVE  NextOff(off) \in off
<1>1. off \in SUBSET Nat
  BY ThreadCount DEF Threads
<1>2. PICK n \in off : \A m \in off : n <= m
  BY <1>1, LeastNumber
<1>3. QED
  BY <1>2 DEF NextOff

\* A thread that worked is gone: its task is nobody's, the tasks of the others are
\* theirs, and a thread that was starting is still starting.
LEMMA ThreadReplaced ==
  ASSUME TypeOK, NEW w \in Threads, thread[w] \in Busy
  PROVE  LET gone == [task EXCEPT ![w] = None] IN
         /\ Replaced(w) \in [Threads -> States]
         /\ gone \in [Threads -> Uploads \union {None}]
         /\ \A x \in Threads : gone[x] # None <=> Replaced(w)[x] \in Busy
         /\ \A x \in Starting : Replaced(w)[x] = "starting"
<1> DEFINE left == Alive \ {w}
           next == NextOff(Threads \ left)
<1>1. next \in Threads \ left
  BY NextIsOff
<1>2. \A x \in Threads : Replaced(w)[x] =
        IF x = next /\ Cardinality(left) < MinThreads /\ pool = "open" THEN "starting"
        ELSE IF x = w THEN "off" ELSE thread[x]
  BY Zenon DEF Replaced
<1>3. Replaced(w) \in [Threads -> States]
  BY DEF Replaced, TypeOK, States
<1>4. ASSUME NEW x \in Starting PROVE Replaced(w)[x] = "starting"
  BY <1>1, <1>2 DEF Starting, Alive, Busy
<1>5. ASSUME NEW x \in Threads PROVE [task EXCEPT ![w] = None][x] # None <=> Replaced(w)[x] \in Busy
  BY <1>1, <1>2 DEF Alive, Busy, TypeOK
<1>6. QED
  BY <1>3, <1>4, <1>5 DEF TypeOK

----------------------------------------------------------------------------
(***************************************************************************)
(* Where the tasks are.                                                    *)
(***************************************************************************)
On(t, u) == \E w \in Threads : t[w] = u

\* TasksArePending, of any calls c, queue q and tasks t of the threads.
Placed(c, q, t) ==
  /\ \A u \in Uploads : c[u] = "pending" <=> In(q, u) \/ On(t, u)
  /\ \A u \in Uploads : ~(In(q, u) /\ On(t, u))
  /\ Distinct(q)
  /\ \A w, x \in Threads : t[w] = t[x] /\ t[w] # None => w = x

LEMMA PlacedTasks == TasksArePending <=> Placed(call, queue, task)
  BY DEF TasksArePending, Placed, Queued, Running, In, On, Distinct

LEMMA PlacedTasksNext == TasksArePending' <=> Placed(call', queue', task')
  BY DEF TasksArePending, Placed, Queued, Running, In, On, Distinct

\* A task that is no more is on no thread, and the call is answered.
LEMMA TaskGone ==
  ASSUME TypeOK, TasksArePending, NEW w \in Threads, task[w] # None, NEW a \in Answers
  PROVE  Placed([call EXCEPT ![task[w]] = a], queue, [task EXCEPT ![w] = None])
<1> DEFINE u == task[w]
           c == [call EXCEPT ![u] = a]
           t == [task EXCEPT ![w] = None]
<1>1. u \in Uploads /\ a # "pending"
  BY DEF TypeOK, Answers
<1>2. /\ \A v \in Uploads : c[v] = IF v = u THEN a ELSE call[v]
      /\ \A x \in Threads : t[x] = IF x = w THEN None ELSE task[x]
  BY DEF TypeOK
<1>3. Placed(call, queue, task)
  BY PlacedTasks
<1> HIDE DEF u, c, t
<1>4. \A v \in Uploads : On(t, v) <=> On(task, v) /\ v # u
  BY <1>2, <1>3 DEF On, Placed, u
<1>5. On(task, u)
  BY DEF On, u
<1>6. Placed(c, queue, t)
  BY <1>1, <1>2, <1>3, <1>4, <1>5 DEF Placed
<1>7. QED
  BY <1>6 DEF u, c, t

\* A thread without a task takes the first of the queue.
LEMMA TaskTaken ==
  ASSUME NEW c, NEW t \in [Threads -> Uploads \union {None}], NEW w \in Threads, t[w] = None,
         queue \in Seq(Uploads), queue # << >>, Placed(c, queue, t)
  PROVE  Placed(c, Tail(queue), [t EXCEPT ![w] = Head(queue)])
<1> DEFINE h == Head(queue)
           q == Tail(queue)
           s == [t EXCEPT ![w] = h]
<1>1. /\ h \in Uploads /\ In(queue, h) /\ Distinct(q)
      /\ \A v : In(q, v) <=> In(queue, v) /\ v # h
  BY Taken DEF Placed
<1>2. \A x \in Threads : s[x] = IF x = w THEN h ELSE t[x]
  OBVIOUS
<1> HIDE DEF h, q, s
<1>3. \A v \in Uploads : On(s, v) <=> On(t, v) \/ v = h
  BY <1>2 DEF On
<1>4. ~On(t, h)
  BY <1>1 DEF Placed
<1>5. \A x, y \in Threads : s[x] = s[y] /\ s[x] # None => x = y
  BY <1>2, <1>4 DEF On, Placed
<1>6. Placed(c, q, s)
  BY <1>1, <1>3, <1>4, <1>5 DEF Placed
<1>7. QED
  BY <1>6 DEF h, q, s

\* A thread that is free of its task takes the next one.
LEMMA NextTaken ==
  ASSUME TypeOK, NEW w \in Threads, NEW c, Placed(c, queue, [task EXCEPT ![w] = None]), TakeNext(w)
  PROVE  /\ thread' \in [Threads -> States] /\ task' \in [Threads -> Uploads \union {None}]
         /\ \A x \in Threads : task'[x] # None <=> thread'[x] \in Busy
         /\ \A x \in Threads \ {w} : thread'[x] = thread[x]
         /\ thread'[w] # "starting"
         /\ queue' \in Seq(Uploads) /\ Len(queue') \in Nat /\ Len(queue) \in Nat
         /\ Len(queue') = 0 \/ Len(queue') = Len(queue) - 1
         /\ Placed(c, queue', task')
<1> DEFINE t == [task EXCEPT ![w] = None]
<1>1. t \in [Threads -> Uploads \union {None}] /\ t[w] = None
  BY DEF TypeOK
<1>2. queue \in Seq(Uploads) /\ Len(queue) \in Nat
  BY LenProperties DEF TypeOK
<1>3. CASE queue = << >>
  <2>1. thread' = [thread EXCEPT ![w] = "idle"] /\ task' = t /\ queue' = queue
    BY <1>3 DEF TakeNext
  <2>2. Len(queue') = 0
    BY <1>3, <2>1, EmptySeq
  <2>3. \A x \in Threads : task'[x] # None <=> thread'[x] \in Busy
    BY <2>1 DEF TypeOK, Busy
  <2>4. QED
    BY <1>1, <1>2, <2>1, <2>2, <2>3 DEF TypeOK, States
<1>4. CASE queue # << >>
  <2>1. /\ thread' = [thread EXCEPT ![w] = "working"]
        /\ task' = [task EXCEPT ![w] = Head(queue)]
        /\ queue' = Tail(queue)
    BY <1>4 DEF TakeNext
  <2>2. Head(queue) \in Uploads /\ queue' \in Seq(Uploads) /\ Len(queue') = Len(queue) - 1
    BY <1>2, <1>4, <2>1, HeadTailProperties
  <2>3. Placed(c, queue', task')
    <3>1. task' = [t EXCEPT ![w] = Head(queue)]
      BY <2>1 DEF TypeOK
    <3>2. QED
      BY <1>1, <1>2, <1>4, <2>1, <3>1, TaskTaken
  <2>4. \A x \in Threads : task'[x] # None <=> thread'[x] \in Busy
    BY <2>1, <2>2 DEF TypeOK, Busy
  <2>5. Len(queue') \in Nat
    BY <2>2, LenProperties
  <2>6. thread' \in [Threads -> States] /\ task' \in [Threads -> Uploads \union {None}]
    BY <2>1, <2>2 DEF TypeOK, States, Busy
  <2>7. QED
    BY <1>2, <2>1, <2>2, <2>3, <2>4, <2>5, <2>6 DEF TypeOK
<1>5. QED
  BY <1>3, <1>4

\* The task of a call that had none is given to a thread or queued.
LEMMA TaskPlaced ==
  ASSUME TypeOK, TasksArePending, NEW u \in Uploads, call[u] # "pending", Run(u)
  PROVE  /\ thread' \in [Threads -> States] /\ task' \in [Threads -> Uploads \union {None}]
         /\ \A x \in Threads : task'[x] # None <=> thread'[x] \in Busy
         /\ \A x \in Starting : thread'[x] = "starting"
         /\ queue' \in Seq(Uploads)
         /\ queue' = queue \/ Len(queue') = Len(queue) + 1
         /\ Placed([call EXCEPT ![u] = "pending"], queue', task')
<1> DEFINE c == [call EXCEPT ![u] = "pending"]
<1>1. Placed(call, queue, task) /\ queue \in Seq(Uploads)
  BY PlacedTasks DEF TypeOK
<1>2. ~In(queue, u) /\ ~On(task, u)
  BY <1>1 DEF Placed
<1>3. \A v \in Uploads : c[v] = IF v = u THEN "pending" ELSE call[v]
  BY DEF TypeOK
<1>4. CASE Idle # {}
  <2> DEFINE w == CHOOSE w \in Idle : TRUE
  <2>1. w \in Threads /\ thread[w] = "idle"
    BY <1>4 DEF Idle
  <2>2. /\ thread' = [thread EXCEPT ![w] = "working"]
        /\ task' = [task EXCEPT ![w] = u]
        /\ queue' = queue
    BY <1>4 DEF Run
  <2> HIDE DEF w, c
  <2>3. /\ \A x \in Threads : thread'[x] = IF x = w THEN "working" ELSE thread[x]
        /\ \A x \in Threads : task'[x] = IF x = w THEN u ELSE task[x]
        /\ task[w] = None
    BY <2>1, <2>2 DEF TypeOK, Busy
  <2>4. \A v \in Uploads : On(task', v) <=> On(task, v) \/ v = u
    BY <2>1, <2>3 DEF On
  <2>5. \A x, y \in Threads : task'[x] = task'[y] /\ task'[x] # None => x = y
    BY <1>1, <1>2, <2>3 DEF On, Placed
  <2>6. Placed(c, queue', task')
    BY <1>1, <1>2, <1>3, <2>2, <2>4, <2>5 DEF Placed
  <2>7. \A x \in Threads : task'[x] # None <=> thread'[x] \in Busy
    BY <2>3 DEF TypeOK, Busy
  <2>8. \A x \in Starting : thread'[x] = "starting"
    BY <2>1, <2>3 DEF Starting
  <2>9. thread' \in [Threads -> States] /\ task' \in [Threads -> Uploads \union {None}]
    BY <2>2 DEF TypeOK, States, Busy
  <2>10. QED
    BY <1>1, <2>2, <2>6, <2>7, <2>8, <2>9 DEF c
<1>5. CASE Idle = {}
  <2>1. /\ queue' = Append(queue, u) /\ task' = task
        /\ \/ thread' = thread
           \/ /\ Alive # Threads
              /\ thread' = [thread EXCEPT ![NextOff(Threads \ Alive)] = "starting"]
    BY <1>5, Zenon DEF Run
  <2>2. /\ queue' \in Seq(Uploads) /\ Distinct(queue')
        /\ \A v : In(queue', v) <=> In(queue, v) \/ v = u
    BY <1>1, <1>2, <2>1, Appended DEF Placed
  <2>3. Len(queue') = Len(queue) + 1
    BY <1>1, <2>1, AppendProperties
  <2> HIDE DEF c
  <2>4. Placed(c, queue', task')
    BY <1>1, <1>2, <1>3, <2>1, <2>2 DEF Placed
  <2>5. /\ thread' \in [Threads -> States]
        /\ \A x \in Threads : task'[x] # None <=> thread'[x] \in Busy
        /\ \A x \in Starting : thread'[x] = "starting"
    <3>1. CASE thread' = thread
      BY <2>1, <3>1 DEF TypeOK, States, Starting
    <3>2. CASE Alive # Threads /\ thread' = [thread EXCEPT ![NextOff(Threads \ Alive)] = "starting"]
      <4> DEFINE next == NextOff(Threads \ Alive)
      <4>1. next \in Threads \ Alive
        BY <3>2, NextIsOff DEF Alive
      <4> HIDE DEF next
      <4>2. thread' = [thread EXCEPT ![next] = "starting"]
        BY <3>2 DEF next
      <4>3. QED
        BY <2>1, <4>1, <4>2 DEF TypeOK, States, Starting, Alive, Busy
    <3>3. QED
      BY <2>1, <3>1, <3>2
  <2>6. QED
    BY <2>1, <2>2, <2>3, <2>4, <2>5 DEF c, TypeOK
<1>6. QED
  BY <1>4, <1>5

----------------------------------------------------------------------------
(***************************************************************************)
(* Threads that are starting, counted.                                     *)
(***************************************************************************)

\* There are finitely many.
LEMMA StartingIsFinite ==
  /\ IsFiniteSet(Starting) /\ Cardinality(Starting) \in Nat
  /\ IsFiniteSet(Starting') /\ Cardinality(Starting') \in Nat
<1>1. IsFiniteSet(Threads)
  BY ThreadCount, UpTo DEF Threads
<1>2. Starting \in SUBSET Threads /\ Starting' \in SUBSET Threads
  BY DEF Starting
<1>3. QED
  BY <1>1, <1>2, FS_Subset, FS_CardinalityType, Zenon

\* If all that were starting still are, there are not fewer.
LEMMA StillStarting ==
  ASSUME \A x \in Starting : thread'[x] = "starting"
  PROVE  Cardinality(Starting) <= Cardinality(Starting')
<1>1. Starting \in SUBSET Starting'
  BY DEF Starting
<1>2. QED
  BY <1>1, StartingIsFinite, FS_Subset, Zenon

\* The queue of the next state fits, if it is not longer than that of this one and all
\* the threads that were starting still are.
LEMMA StillFits ==
  ASSUME QueueFits, Len(queue) \in Nat, Len(queue') \in Nat, Len(queue') <= Len(queue),
         \A x \in Starting : thread'[x] = "starting"
  PROVE  QueueFits'
<1>1. MaxQueue \in Nat
  BY ThreadCount DEF MaxQueue
<1> HIDE DEF MaxQueue
<1>2. Cardinality(Starting) <= Cardinality(Starting')
  BY StillStarting
<1>3. QED
  BY <1>1, <1>2, StartingIsFinite DEF QueueFits

----------------------------------------------------------------------------
(***************************************************************************)
(* The invariant.                                                          *)
(***************************************************************************)

\* The parts of the invariant about one step at a time; ThreadsServe is apart.
Kept ==
  /\ TypeOK
  /\ TasksArePending
  /\ ClosingIsFlagged
  /\ ClosedIsQuiet
  /\ QueueFits

\* It holds in the beginning.
LEMMA InitInv == Init => IInv
<1> SUFFICES ASSUME Init PROVE IInv
  OBVIOUS
<1>1. TypeOK
  <2>1. /\ call \in [Uploads -> {"idle", "pending"} \union Answers]
        /\ task \in [Threads -> Uploads \union {None}]
    BY DEF Init
  <2>2. /\ thread \in [Threads -> {"off", "starting", "idle"} \union Busy]
        /\ \A w \in Threads : task[w] # None <=> thread[w] \in Busy
    BY DEF Init, Busy
  <2>3. queue \in Seq(Uploads) /\ crashes \in 0 .. MaxCrashes
    BY EmptyQueue DEF Init
  <2>4. QED
    BY <2>1, <2>2, <2>3 DEF Init, TypeOK
<1>2. TasksArePending
  <2>1. Placed(call, queue, task)
    BY EmptyQueue DEF Init, Placed, On
  <2>2. QED
    BY <2>1, PlacedTasks
<1>3. QueueFits
  <2>1. MaxQueue \in Nat /\ Len(queue) = 0
    BY ThreadCount, EmptySeq DEF MaxQueue, Init
  <2>2. QED
    BY <2>1, StartingIsFinite DEF QueueFits
<1>4. ThreadsServe
  <2>1. Alive = 1 .. MinThreads
    BY ThreadCount DEF Init, Alive, Threads, MaxThreads, Larger
  <2>2. Cardinality(Alive) = MinThreads
    BY <2>1, UpTo
  <2>3. QED
    BY <2>2 DEF Init, ThreadsServe
<1>5. QED
  BY <1>1, <1>2, <1>3, <1>4 DEF Init, IInv, ClosingIsFlagged, ClosedIsQuiet

\* A call is refused, or asked again: it is not pending before and after.
LEMMA CallInv ==
  ASSUME IInv, NEW u \in Uploads, Refuse(u) \/ Again(u)
  PROVE  Kept'
<1>1. /\ call[u] # "pending"
      /\ \E a \in {"idle", "unavailable"} : call' = [call EXCEPT ![u] = a]
      /\ UNCHANGED <<piscina, service>>
  BY DEF Refuse, Again, Answers
<1>2. TypeOK'
  BY <1>1 DEF IInv, TypeOK, Answers, piscina, service, Busy
<1>3. TasksArePending'
  <2>1. Placed(call, queue, task)
    BY PlacedTasks DEF IInv
  <2>2. \A v \in Uploads : call'[v] = "pending" <=> call[v] = "pending"
    BY <1>1 DEF IInv, TypeOK
  <2>3. Placed(call', queue', task')
    BY <1>1, <2>1, <2>2 DEF Placed, piscina
  <2>4. QED
    BY <2>3, PlacedTasksNext
<1>4. ClosedIsQuiet'
  BY <1>1 DEF IInv, TypeOK, ClosedIsQuiet, Alive, piscina, service
<1>5. ClosingIsFlagged' /\ QueueFits'
  BY <1>1 DEF IInv, ClosingIsFlagged, QueueFits, Starting, piscina, service
<1>6. QED
  BY <1>2, <1>3, <1>4, <1>5 DEF Kept

\* A task is admitted.
LEMMA SubmitInv ==
  ASSUME IInv, NEW u \in Uploads, Submit(u)
  PROVE  Kept'
<1>1. /\ TypeOK /\ TasksArePending /\ call[u] # "pending" /\ Run(u)
      /\ call' = [call EXCEPT ![u] = "pending"]
      /\ validated' = TRUE
      /\ UNCHANGED <<closing, pool, crashes>>
  BY DEF IInv, Submit
<1>2. /\ thread' \in [Threads -> States] /\ task' \in [Threads -> Uploads \union {None}]
      /\ \A x \in Threads : task'[x] # None <=> thread'[x] \in Busy
      /\ \A x \in Starting : thread'[x] = "starting"
      /\ queue' \in Seq(Uploads)
      /\ queue' = queue \/ Len(queue') = Len(queue) + 1
      /\ Placed(call', queue', task')
  BY <1>1, TaskPlaced
<1>3. TypeOK'
  BY <1>1, <1>2 DEF TypeOK, States
<1>4. TasksArePending'
  BY <1>2, PlacedTasksNext
<1>5. ClosingIsFlagged' /\ ClosedIsQuiet'
  BY <1>1 DEF IInv, ClosingIsFlagged, ClosedIsQuiet, Submit, Accepting
<1>6. QueueFits'
  <2>1. MaxQueue \in Nat /\ Len(queue) \in Nat
    BY <1>1, ThreadCount, LenProperties DEF MaxQueue, TypeOK
  <2> HIDE DEF MaxQueue
  <2>2. Len(queue) - Cardinality(Starting) < MaxQueue
    BY <2>1, StartingIsFinite DEF Submit, Accepting, QueueSize, Larger
  <2>3. Cardinality(Starting) <= Cardinality(Starting')
    BY <1>2, StillStarting
  <2>4. Len(queue') <= Len(queue) + 1
    BY <1>2, <2>1
  <2>5. Len(queue') \in Nat
    BY <1>2, LenProperties
  <2>6. QED
    BY <2>1, <2>2, <2>3, <2>4, <2>5, StartingIsFinite DEF QueueFits
<1>7. QED
  BY <1>3, <1>4, <1>5, <1>6 DEF Kept

\* A thread is up, or its result is received: it takes the next task.
LEMMA TakeInv ==
  ASSUME IInv, NEW w \in Threads, Ready(w) \/ Deliver(w)
  PROVE  Kept'
<1> DEFINE t == [task EXCEPT ![w] = None]
<1>1. /\ TypeOK /\ TasksArePending /\ TakeNext(w) /\ UNCHANGED service
      /\ thread[w] \in {"starting", "posted"}
  BY DEF IInv, Ready, Deliver, service
<1>2. /\ Placed(call', queue, t)
      /\ call' \in [Uploads -> {"idle", "pending"} \union Answers]
      /\ \A v \in Uploads : call'[v] = "pending" => call[v] = "pending"
  <2>1. CASE Ready(w)
    <3>1. t = task /\ call' = call
      BY <1>1, <2>1 DEF Ready, TypeOK, Busy
    <3>2. QED
      BY <1>1, <3>1, PlacedTasks DEF TypeOK
  <2>2. CASE Deliver(w)
    <3>1. task[w] \in Uploads /\ task[w] # None
      BY <1>1, <2>2 DEF Deliver, TypeOK, Busy
    <3>2. PICK a \in Answers : call' = [call EXCEPT ![task[w]] = a]
      BY <2>2, Zenon DEF Deliver, Answers
    <3>3. Placed([call EXCEPT ![task[w]] = a], queue, t)
      BY <1>1, <3>1, TaskGone
    <3>4. QED
      BY <1>1, <3>1, <3>2, <3>3 DEF TypeOK, Answers
  <2>3. QED
    BY <2>1, <2>2
<1>3. /\ thread' \in [Threads -> States] /\ task' \in [Threads -> Uploads \union {None}]
      /\ \A x \in Threads : task'[x] # None <=> thread'[x] \in Busy
      /\ \A x \in Threads \ {w} : thread'[x] = thread[x]
      /\ thread'[w] # "starting"
      /\ queue' \in Seq(Uploads) /\ Len(queue') \in Nat /\ Len(queue) \in Nat
      /\ Len(queue') = 0 \/ Len(queue') = Len(queue) - 1
      /\ Placed(call', queue', task')
  BY <1>1, <1>2, NextTaken
<1>4. TypeOK'
  BY <1>1, <1>2, <1>3 DEF TypeOK, States, service
<1>5. TasksArePending'
  BY <1>3, PlacedTasksNext
<1>6. ClosingIsFlagged' /\ ClosedIsQuiet'
  BY <1>1 DEF IInv, ClosingIsFlagged, ClosedIsQuiet, Alive, service
<1>7. QueueFits'
  <2>1. MaxQueue \in Nat
    BY ThreadCount DEF MaxQueue
  <2> HIDE DEF MaxQueue
  <2>2. Starting' = Starting \ {w}
    BY <1>3 DEF Starting
  <2>3. Cardinality(Starting') >= Cardinality(Starting) - 1
    BY <2>2, StartingIsFinite, FS_RemoveElement
  <2>4. QED
    BY <1>3, <2>1, <2>3, StartingIsFinite DEF IInv, QueueFits
<1>8. QED
  BY <1>4, <1>5, <1>6, <1>7 DEF Kept

\* A result is posted.
LEMMA PostInv ==
  ASSUME IInv, NEW w \in Threads, Post(w)
  PROVE  Kept'
<1>1. /\ TypeOK /\ thread[w] = "working" /\ thread' = [thread EXCEPT ![w] = "posted"]
      /\ UNCHANGED <<call, queue, task, service>>
  BY DEF IInv, Post
<1>2. TypeOK'
  BY <1>1 DEF TypeOK, Busy, service
<1>3. TasksArePending'
  BY <1>1, PlacedTasks, PlacedTasksNext DEF IInv
<1>4. ClosingIsFlagged' /\ ClosedIsQuiet'
  BY <1>1 DEF IInv, ClosingIsFlagged, ClosedIsQuiet, Alive, service
<1>5. QueueFits'
  <2>1. Starting' = Starting
    BY <1>1 DEF Starting, TypeOK
  <2>2. QED
    BY <1>1, <2>1 DEF IInv, QueueFits
<1>6. QED
  BY <1>2, <1>3, <1>4, <1>5 DEF Kept

\* A thread is lost with its task, by the timer or by itself.
LEMMA ThreadLostInv ==
  ASSUME IInv, NEW w \in Threads, thread[w] \in Busy,
         call' = [call EXCEPT ![task[w]] = "unavailable"],
         thread' = Replaced(w), task' = [task EXCEPT ![w] = None],
         UNCHANGED <<queue, validated, closing, pool>>, crashes' \in 0 .. MaxCrashes
  PROVE  Kept'
<1>1. TypeOK /\ TasksArePending /\ task[w] \in Uploads /\ task[w] # None
  BY DEF IInv, TypeOK
<1>2. /\ thread' \in [Threads -> States]
      /\ task' \in [Threads -> Uploads \union {None}]
      /\ \A x \in Threads : task'[x] # None <=> thread'[x] \in Busy
      /\ \A x \in Starting : thread'[x] = "starting"
  BY <1>1, ThreadReplaced
<1>3. TypeOK'
  BY <1>1, <1>2 DEF TypeOK, States, Answers
<1>4. TasksArePending'
  <2>1. Placed(call', queue', task')
    BY <1>1, TaskGone, "unavailable" \in Answers DEF Answers
  <2>2. QED
    BY <2>1, PlacedTasksNext
<1>5. ClosingIsFlagged' /\ ClosedIsQuiet'
  BY DEF IInv, ClosingIsFlagged, ClosedIsQuiet, Alive, Busy
<1>6. QueueFits'
  BY <1>1, <1>2, StillFits, LenProperties DEF IInv, TypeOK
<1>7. QED
  BY <1>3, <1>4, <1>5, <1>6 DEF Kept

\* The timer of a task fires.
LEMMA TimeOutInv ==
  ASSUME IInv, NEW u \in Uploads, TimeOut(u)
  PROVE  Kept'
<1>1. /\ TypeOK /\ TasksArePending /\ call[u] = "pending"
      /\ call' = [call EXCEPT ![u] = "unavailable"]
      /\ UNCHANGED service
  BY DEF IInv, TimeOut
<1>2. ASSUME NEW w \in Threads, task[w] = u, thread' = Replaced(w),
             task' = [task EXCEPT ![w] = None], UNCHANGED queue
      PROVE  Kept'
  <2>1. thread[w] \in Busy
    BY <1>1, <1>2 DEF TypeOK
  <2>2. QED
    BY <1>1, <1>2, <2>1, ThreadLostInv DEF service, TypeOK
<1>3. ASSUME NEW k \in 1 .. Len(queue), queue[k] = u, queue' = Dequeued(k), UNCHANGED <<thread, task>>
      PROVE  Kept'
  <2>1. Placed(call, queue, task) /\ queue \in Seq(Uploads) /\ Distinct(queue)
    BY <1>1, PlacedTasks DEF TypeOK, Placed
  <2>2. /\ queue' \in Seq(Uploads) /\ Distinct(queue')
        /\ \A v : In(queue', v) <=> In(queue, v) /\ v # u
    BY <1>3, <2>1, DequeuedTask
  <2>3. In(queue, u)
    BY <1>3 DEF In
  <2>4. \A v \in Uploads : call'[v] = "pending" <=> call[v] = "pending" /\ v # u
    BY <1>1 DEF TypeOK
  <2>5. Placed(call', queue', task')
    BY <1>3, <2>1, <2>2, <2>3, <2>4 DEF Placed
  <2>6. TasksArePending'
    BY <2>5, PlacedTasksNext
  <2>7. TypeOK'
    BY <1>1, <1>3, <2>2 DEF TypeOK, Answers, service, Busy
  <2>8. ClosingIsFlagged' /\ ClosedIsQuiet'
    BY <1>1 DEF IInv, ClosingIsFlagged, ClosedIsQuiet, service
  <2>9. QueueFits'
    <3>1. Len(queue) \in Nat /\ Len(queue) > 0
      BY <1>3, <2>1, LenProperties
    <3>2. Len(queue') = Len(queue) - 1
      BY <1>3, <2>2, <3>1, LenProperties DEF Dequeued
    <3>3. QED
      BY <1>3, <3>1, <3>2, StillFits DEF IInv, Starting
  <2>10. QED
    BY <2>6, <2>7, <2>8, <2>9 DEF Kept
<1>4. QED
  BY <1>2, <1>3 DEF TimeOut

\* A thread dies.
LEMMA CrashInv ==
  ASSUME IInv, NEW w \in Threads, Crash(w)
  PROVE  Kept'
<1>1. crashes' \in 0 .. MaxCrashes
  BY DEF IInv, TypeOK, Crash
<1>2. QED
  BY <1>1, ThreadLostInv DEF Crash, Busy

\* A thread that idles ends.
LEMMA ReapInv ==
  ASSUME IInv, NEW w \in Threads, Reap(w)
  PROVE  Kept'
<1>1. /\ TypeOK /\ thread[w] = "idle" /\ thread' = [thread EXCEPT ![w] = "off"]
      /\ UNCHANGED <<call, queue, task, service>>
  BY DEF IInv, Reap
<1>2. TypeOK'
  BY <1>1 DEF TypeOK, Busy, service
<1>3. TasksArePending'
  BY <1>1, PlacedTasks, PlacedTasksNext DEF IInv
<1>4. ClosingIsFlagged' /\ ClosedIsQuiet'
  BY <1>1 DEF IInv, ClosingIsFlagged, ClosedIsQuiet, Alive, service
<1>5. QueueFits'
  <2>1. Starting' = Starting
    BY <1>1 DEF Starting, TypeOK
  <2>2. QED
    BY <1>1, <2>1 DEF IInv, QueueFits
<1>6. QED
  BY <1>2, <1>3, <1>4, <1>5 DEF Kept

\* The pool is to be closed.
LEMMA ShutdownInv ==
  ASSUME IInv, Shutdown
  PROVE  Kept'
<1>1. /\ ~closing /\ closing' = TRUE /\ pool' = "closing"
      /\ UNCHANGED <<call, piscina, validated, crashes>>
  BY DEF Shutdown
<1>2. TypeOK'
  BY <1>1 DEF IInv, TypeOK, piscina, Busy, Answers
<1>3. TasksArePending'
  BY <1>1, PlacedTasks, PlacedTasksNext DEF IInv, piscina
<1>4. ClosingIsFlagged' /\ ClosedIsQuiet' /\ QueueFits'
  BY <1>1 DEF IInv, ClosingIsFlagged, ClosedIsQuiet, QueueFits, Starting, piscina
<1>5. QED
  BY <1>2, <1>3, <1>4 DEF Kept

\* The pool is closed.
LEMMA ClosedInv ==
  ASSUME IInv, Closed
  PROVE  Kept'
<1>1. /\ pool = "closing" /\ pool' = "closed"
      /\ call' = [u \in Uploads |-> IF call[u] = "pending" THEN "unavailable" ELSE call[u]]
      /\ queue' = << >>
      /\ thread' = [w \in Threads |-> "off"]
      /\ task' = [w \in Threads |-> None]
      /\ UNCHANGED <<validated, closing, crashes>>
  BY DEF Closed
<1>2. TypeOK'
  BY <1>1, EmptyQueue DEF IInv, TypeOK, Answers, Busy
<1>3. TasksArePending'
  <2>1. Placed(call', queue', task')
    BY <1>1, EmptyQueue DEF Placed, On
  <2>2. QED
    BY <2>1, PlacedTasksNext
<1>4. ClosingIsFlagged' /\ ClosedIsQuiet'
  BY <1>1 DEF IInv, ClosingIsFlagged, ClosedIsQuiet, Alive
<1>5. QueueFits'
  <2>1. MaxQueue \in Nat /\ Len(queue') = 0
    BY <1>1, ThreadCount, EmptySeq DEF MaxQueue
  <2> HIDE DEF MaxQueue
  <2>2. QED
    BY <2>1, StartingIsFinite DEF QueueFits
<1>6. QED
  BY <1>2, <1>3, <1>4, <1>5 DEF Kept


\* Every step keeps these parts.
LEMMA NextKept == IInv /\ [Next]_vars => Kept'
<1> SUFFICES ASSUME IInv, [Next]_vars PROVE Kept'
  OBVIOUS
<1>1. CASE UNCHANGED vars
  BY <1>1 DEF vars, piscina, service, IInv, Kept, TypeOK, TasksArePending, Queued, Running,
     ClosingIsFlagged, ClosedIsQuiet, QueueFits, Alive, Starting
<1>2. CASE \E u \in Uploads : Refuse(u) \/ Submit(u) \/ TimeOut(u) \/ Again(u)
  BY <1>2, CallInv, SubmitInv, TimeOutInv
<1>3. CASE \E w \in Threads : Work(w) \/ Crash(w) \/ Reap(w)
  BY <1>3, TakeInv, PostInv, CrashInv, ReapInv DEF Work
<1>4. CASE Shutdown
  BY <1>4, ShutdownInv
<1>5. CASE Closed
  BY <1>5, ClosedInv
<1>6. QED
  BY <1>1, <1>2, <1>3, <1>4, <1>5 DEF Next

----------------------------------------------------------------------------
(***************************************************************************)
(* Threads at work.                                                        *)
(***************************************************************************)

\* There are finitely many.
LEMMA AliveIsFinite ==
  /\ IsFiniteSet(Alive) /\ Cardinality(Alive) \in Nat
  /\ IsFiniteSet(Alive') /\ Cardinality(Alive') \in Nat
<1>1. IsFiniteSet(Threads)
  BY ThreadCount, UpTo DEF Threads
<1>2. Alive \in SUBSET Threads /\ Alive' \in SUBSET Threads
  BY DEF Alive
<1>3. QED
  BY <1>1, <1>2, FS_Subset, FS_CardinalityType, Zenon

\* Threads go on serving if none comes to idle, no task is queued where none was, and
\* no thread ends.
LEMMA StillServing ==
  ASSUME ThreadsServe, Idle' \subseteq Idle, queue' # << >> => queue # << >>,
         Alive \subseteq Alive', pool' = pool
  PROVE  ThreadsServe'
<1>1. Cardinality(Alive) <= Cardinality(Alive')
  BY AliveIsFinite, FS_Subset, Alive \in SUBSET Alive', Zenon
<1>2. QED
  BY <1>1, AliveIsFinite DEF ThreadsServe

\* A thread that is gone is replaced if too few are left.
LEMMA StillServingOthers ==
  ASSUME TypeOK, ThreadsServe, NEW w \in Threads, thread[w] \in Busy, thread' = Replaced(w),
         UNCHANGED <<queue, pool>>
  PROVE  ThreadsServe'
<1> DEFINE left == Alive \ {w}
           next == NextOff(Threads \ left)
           few == Cardinality(left) < MinThreads /\ pool = "open"
<1>1. next \in Threads \ left
  BY NextIsOff
<1>2. \A x \in Threads : thread'[x] =
        IF x = next /\ few THEN "starting" ELSE IF x = w THEN "off" ELSE thread[x]
  BY Zenon DEF Replaced
<1> HIDE DEF next
<1>3. Idle' \subseteq Idle
  BY <1>2 DEF Idle
<1>4. Alive' = IF few THEN left \union {next} ELSE left
  BY <1>1, <1>2 DEF Alive
<1>5. IsFiniteSet(left) /\ Cardinality(left) = Cardinality(Alive) - 1
  BY AliveIsFinite, FS_RemoveElement DEF Alive, Busy
<1>6. Cardinality(left \union {next}) = Cardinality(left) + 1
  BY <1>1, <1>5, FS_AddElement
<1>7. Cardinality(left) \in Nat
  BY <1>5, FS_CardinalityType
<1> HIDE DEF left
<1>8. pool' = "open" => Cardinality(Alive') >= MinThreads
  BY <1>4, <1>5, <1>6, <1>7, AliveIsFinite DEF ThreadsServe
<1>9. QED
  BY <1>3, <1>8 DEF ThreadsServe

\* A thread that has no task any more takes one that waits, or idles where none waits.
LEMMA TakerServes ==
  ASSUME TypeOK, ThreadsServe, NEW w \in Threads, thread[w] # "off", TakeNext(w), pool' = pool
  PROVE  ThreadsServe'
<1>0. thread \in [Threads -> States]
  BY DEF TypeOK, States
<1>1. CASE queue = << >>
  <2>1. queue' = << >> /\ thread' = [thread EXCEPT ![w] = "idle"]
    BY <1>1 DEF TakeNext
  <2>2. Alive' = Alive
    BY <1>0, <2>1 DEF Alive
  <2>3. QED
    BY <2>1, <2>2 DEF ThreadsServe
<1>2. CASE queue # << >>
  <2>1. thread' = [thread EXCEPT ![w] = "working"]
    BY <1>2 DEF TakeNext
  <2>2. Alive' = Alive /\ Idle' \subseteq Idle
    BY <1>0, <2>1 DEF Alive, Idle
  <2>3. QED
    BY <1>2, <2>2, StillServing
<1>3. QED
  BY <1>1, <1>2

\* A task that is admitted gets an idle thread, or finds none.
LEMMA RunnerServes ==
  ASSUME TypeOK, ThreadsServe, NEW u, Run(u), pool' = pool
  PROVE  ThreadsServe'
<1>0. thread \in [Threads -> States]
  BY DEF TypeOK, States
<1>1. CASE Idle # {}
  <2> DEFINE w == CHOOSE w \in Idle : TRUE
  <2>1. w \in Threads /\ thread[w] = "idle"
    BY <1>1 DEF Idle
  <2>2. queue' = queue /\ thread' = [thread EXCEPT ![w] = "working"]
    BY <1>1 DEF Run
  <2> HIDE DEF w
  <2>3. Alive \subseteq Alive' /\ Idle' \subseteq Idle
    BY <1>0, <2>1, <2>2 DEF Alive, Idle
  <2>4. QED
    BY <2>2, <2>3, StillServing
<1>2. CASE Idle = {}
  <2>1. \/ thread' = thread
        \/ /\ Alive # Threads
           /\ thread' = [thread EXCEPT ![NextOff(Threads \ Alive)] = "starting"]
    BY <1>2, Zenon DEF Run
  <2>2. Alive \subseteq Alive' /\ Idle' = {}
    BY <1>0, <1>2, <2>1 DEF Alive, Idle
  <2>3. Cardinality(Alive) <= Cardinality(Alive')
    BY <2>2, AliveIsFinite, FS_Subset, Alive \in SUBSET Alive', Zenon
  <2>4. QED
    BY <2>2, <2>3, AliveIsFinite DEF ThreadsServe
<1>3. QED
  BY <1>1, <1>2

\* A thread that idles ends only if enough threads are left.
LEMMA ReaperServes ==
  ASSUME TypeOK, ThreadsServe, NEW w \in Threads, Reap(w)
  PROVE  ThreadsServe'
<1>1. /\ Cardinality(Alive) > MinThreads
      /\ thread' = [thread EXCEPT ![w] = "off"]
      /\ w \in Alive /\ UNCHANGED <<queue, pool>>
  BY DEF Reap, Alive, service
<1>2. Alive' = Alive \ {w} /\ Idle' \subseteq Idle
  BY <1>1 DEF Alive, Idle, TypeOK
<1>3. Cardinality(Alive') = Cardinality(Alive) - 1
  BY <1>1, <1>2, AliveIsFinite, FS_RemoveElement
<1>4. Cardinality(Alive') >= MinThreads
  BY <1>1, <1>3, AliveIsFinite, PoolAssumption
<1>5. QED
  BY <1>1, <1>2, <1>4 DEF ThreadsServe

\* No thread idles while a task waits, and there are threads enough, after every step.
LEMMA NextServes == IInv /\ [Next]_vars => ThreadsServe'
<1> SUFFICES ASSUME IInv, [Next]_vars PROVE ThreadsServe'
  OBVIOUS
<1>0. TypeOK /\ ThreadsServe
  BY DEF IInv
<1>1. CASE UNCHANGED <<piscina, pool>>
  BY <1>0, <1>1 DEF piscina, ThreadsServe, Idle, Alive
<1>2. CASE \E u \in Uploads : Submit(u)
  BY <1>0, <1>2, RunnerServes DEF Submit
<1>3. CASE \E u \in Uploads : TimeOut(u)
  <2>1. PICK u \in Uploads : TimeOut(u)
    BY <1>3
  <2>2. u # None /\ pool' = pool
    BY <2>1 DEF TimeOut, service
  <2>3. ASSUME NEW k \in 1 .. Len(queue), UNCHANGED thread PROVE ThreadsServe'
    <3>1. queue # << >>
      BY <2>3, EmptySeq
    <3>2. QED
      BY <1>0, <2>2, <2>3, <3>1 DEF ThreadsServe, Idle, Alive
  <2>4. ASSUME NEW w \in Threads, task[w] = u, thread' = Replaced(w), UNCHANGED queue
        PROVE  ThreadsServe'
    BY <1>0, <2>2, <2>4, StillServingOthers DEF TypeOK
  <2>5. QED
    BY <2>1, <2>3, <2>4 DEF TimeOut
<1>4. CASE \E w \in Threads : Ready(w) \/ Deliver(w)
  BY <1>0, <1>4, TakerServes DEF Ready, Deliver, service
<1>5. CASE \E w \in Threads : Post(w)
  <2>1. PICK w \in Threads : thread[w] = "working" /\ thread' = [thread EXCEPT ![w] = "posted"]
                             /\ UNCHANGED <<queue, pool>>
    BY <1>5 DEF Post, service
  <2>2. Alive' = Alive /\ Idle' = Idle
    BY <1>0, <2>1 DEF Alive, Idle, TypeOK
  <2>3. QED
    BY <1>0, <2>1, <2>2 DEF ThreadsServe
<1>6. CASE \E w \in Threads : Crash(w)
  BY <1>0, <1>6, StillServingOthers DEF Crash, Busy
<1>7. CASE \E w \in Threads : Reap(w)
  BY <1>0, <1>7, ReaperServes
<1>8. CASE Shutdown
  BY <1>0, <1>8 DEF Shutdown, piscina, ThreadsServe, Idle
<1>9. CASE Closed
  BY <1>9 DEF Closed, ThreadsServe
<1>10. QED
  BY <1>1, <1>2, <1>3, <1>4, <1>5, <1>6, <1>7, <1>8, <1>9
     DEF Next, Work, Refuse, Again, service, vars

\* Every step keeps the invariant.
LEMMA NextInv == IInv /\ [Next]_vars => IInv'
  BY NextKept, NextServes DEF IInv, Kept

\* Whatever is uploaded, times out, crashes or is closed: the invariant holds.
THEOREM Invariant == Spec => []IInv
<1>1. QED
  BY InitInv, NextInv, PTL DEF Spec

\* Every variable stays in its range.
THEOREM TypeCorrect == Spec => []TypeOK
<1>1. IInv => TypeOK
  BY DEF IInv
<1>2. QED
  BY <1>1, Invariant, PTL

\* Exactly the calls that are pending have a task, queued or on a thread, each once.
THEOREM NoTaskIsLost == Spec => []TasksArePending
<1>1. IInv => TasksArePending
  BY DEF IInv
<1>2. QED
  BY <1>1, Invariant, PTL

\* A closed pool has no thread, no task and no caller who waits.
THEOREM NothingIsLeft == Spec => []ClosedIsQuiet
<1>1. IInv => ClosedIsQuiet
  BY DEF IInv
<1>2. QED
  BY <1>1, Invariant, PTL

----------------------------------------------------------------------------
(***************************************************************************)
(* The load.                                                               *)
(***************************************************************************)
BusyThreads == {w \in Threads : thread[w] \in Busy}

\* Every call that is pending has one task, in one place of the queue or on one busy
\* thread: there are as many.
LEMMA PendingIsCounted ==
  ASSUME TypeOK, TasksArePending, IsFiniteSet(BusyThreads)
  PROVE  LET pending == {u \in Uploads : call[u] = "pending"} IN
         /\ Cardinality(pending) \in Nat
         /\ Cardinality(pending) = Len(queue) + Cardinality(BusyThreads)
<1> DEFINE pending == {u \in Uploads : call[u] = "pending"}
           waiting == {queue[k] : k \in 1 .. Len(queue)}
           running == {task[w] : w \in BusyThreads}
<1>1. Len(queue) \in Nat
  BY LenProperties DEF TypeOK
<1>2. IsFiniteSet(waiting) /\ Cardinality(waiting) = Len(queue)
  <2> DEFINE f == [k \in 1 .. Len(queue) |-> queue[k]]
  <2>1. f \in Surjection(1 .. Len(queue), waiting)
    BY DEF Surjection
  <2>2. f \in Injection(1 .. Len(queue), waiting)
    BY DEF Injection, IsInjective, TasksArePending
  <2>3. IsFiniteSet(1 .. Len(queue)) /\ Cardinality(1 .. Len(queue)) = Len(queue)
    BY ONLY <1>1, UpTo
  <2> HIDE DEF waiting, f
  <2>4. IsFiniteSet(waiting) /\ Cardinality(waiting) = Cardinality(1 .. Len(queue))
    BY <2>1, <2>2, <2>3, FS_Surjection, Zenon
  <2>5. QED
    BY <2>3, <2>4
<1>3. IsFiniteSet(running) /\ Cardinality(running) = Cardinality(BusyThreads)
  <2> DEFINE f == [w \in BusyThreads |-> task[w]]
  <2>1. f \in Surjection(BusyThreads, running)
    BY DEF Surjection
  <2>2. f \in Injection(BusyThreads, running)
    BY DEF Injection, IsInjective, TasksArePending, TypeOK, BusyThreads
  <2> HIDE DEF running, f
  <2>3. QED
    BY <2>1, <2>2, FS_Surjection, Zenon
<1>4. pending = waiting \union running
  <2>1. ASSUME NEW u \in pending PROVE u \in waiting \union running
    <3>1. CASE Queued(u)
      BY <3>1 DEF Queued
    <3>2. CASE Running(u)
      BY <3>2 DEF Running, BusyThreads, TypeOK
    <3>3. QED
      BY <2>1, <3>1, <3>2 DEF TasksArePending
  <2>2. ASSUME NEW k \in 1 .. Len(queue) PROVE queue[k] \in pending
    <3>1. queue[k] \in Uploads
      BY ElementOfSeq DEF TypeOK
    <3>2. QED
      BY <3>1 DEF TasksArePending, Queued
  <2>3. ASSUME NEW w \in BusyThreads PROVE task[w] \in pending
    <3>1. w \in Threads /\ task[w] \in Uploads
      BY DEF TypeOK, BusyThreads
    <3>2. QED
      BY <3>1 DEF TasksArePending, Running
  <2>4. QED
    BY <2>1, <2>2, <2>3
<1>5. waiting \cap running = {}
  <2>1. ASSUME NEW k \in 1 .. Len(queue), NEW w \in BusyThreads, queue[k] = task[w] PROVE FALSE
    <3>1. w \in Threads /\ task[w] \in Uploads
      BY DEF TypeOK, BusyThreads
    <3>2. Queued(task[w]) /\ Running(task[w])
      BY <2>1, <3>1 DEF Queued, Running
    <3>3. QED
      BY <3>1, <3>2 DEF TasksArePending
  <2>2. QED
    BY <2>1
<1> HIDE DEF pending, waiting, running
<1>6. /\ IsFiniteSet(waiting \union running)
      /\ Cardinality(waiting \union running)
           = Cardinality(waiting) + Cardinality(running) - Cardinality(waiting \cap running)
  BY <1>2, <1>3, FS_Union
<1>7. Cardinality(waiting \cap running) = 0
  BY <1>5, FS_EmptySet
<1>8. Cardinality(BusyThreads) \in Nat
  BY FS_CardinalityType
<1>9. Cardinality(pending) = Len(queue) + Cardinality(BusyThreads)
  BY <1>1, <1>2, <1>3, <1>4, <1>6, <1>7, <1>8
<1>10. QED
  BY <1>1, <1>8, <1>9 DEF pending

\* Busy and starting threads are alive, and different ones.
LEMMA ThreadsAreCounted ==
  /\ IsFiniteSet(BusyThreads) /\ Cardinality(BusyThreads) \in Nat
  /\ Cardinality(BusyThreads \union Starting) = Cardinality(BusyThreads) + Cardinality(Starting)
  /\ BusyThreads \union Starting \in SUBSET Alive
  /\ Cardinality(BusyThreads) + Cardinality(Starting) <= Cardinality(Alive)
  /\ Cardinality(Alive) <= MaxThreads
<1>1. IsFiniteSet(Threads) /\ Cardinality(Threads) = MaxThreads
  BY ThreadCount, UpTo DEF Threads
<1>2. /\ Alive \in SUBSET Threads /\ BusyThreads \in SUBSET Threads
      /\ BusyThreads \union Starting \in SUBSET Alive /\ BusyThreads \cap Starting = {}
  BY DEF Alive, Starting, BusyThreads, Busy
<1>3. Cardinality(Alive) <= MaxThreads /\ IsFiniteSet(BusyThreads)
  BY <1>1, <1>2, FS_Subset
<1>4. Cardinality(BusyThreads \union Starting) <= Cardinality(Alive)
  BY <1>2, AliveIsFinite, FS_Subset, Zenon
<1>5. Cardinality(BusyThreads) \in Nat
  BY <1>3, FS_CardinalityType
<1>6. Cardinality(BusyThreads \union Starting)
        = Cardinality(BusyThreads) + Cardinality(Starting) - Cardinality(BusyThreads \cap Starting)
  BY <1>3, StartingIsFinite, FS_Union, Zenon
<1>7. Cardinality(BusyThreads \cap Starting) = 0
  BY <1>2, FS_EmptySet
<1>8. QED
  BY <1>2, <1>3, <1>4, <1>5, <1>6, <1>7, StartingIsFinite

\* The queue of all threads is no longer than that of as many as there may be.
LEMMA QueueIsBounded ==
  /\ MaxQueue \in Nat \ {0} /\ MaxThreadsCap * QueueMultiplier \in Nat
  /\ MaxQueue <= MaxThreadsCap * QueueMultiplier
<1>1. \A m \in Nat \ {0} : \A n, k \in Nat : m <= n => m * k <= n * k /\ n * k \in Nat
  OBVIOUS
<1>2. \A m, k \in Nat \ {0} : m * k \in Nat \ {0}
  OBVIOUS
<1>3. QED
  BY <1>1, <1>2, ThreadCount DEF MaxQueue

\* The invariant bounds the load.
LEMMA LoadFits == IInv => LoadIsBounded
<1> SUFFICES ASSUME IInv PROVE LoadIsBounded
  OBVIOUS
<1> DEFINE pending == {u \in Uploads : call[u] = "pending"}
           room == MaxThreadsCap * QueueMultiplier
<1>1. /\ Cardinality(pending) \in Nat
      /\ Cardinality(pending) = Len(queue) + Cardinality(BusyThreads)
  BY ThreadsAreCounted, PendingIsCounted DEF IInv
<1>2. MaxQueue \in Nat /\ room \in Nat /\ MaxQueue <= room
  BY QueueIsBounded
<1>3. Len(queue) \in Nat /\ Len(queue) <= MaxQueue + Cardinality(Starting)
  BY LenProperties DEF IInv, TypeOK, QueueFits
<1> HIDE DEF pending, room, MaxQueue
<1>4. Cardinality(Alive) <= MaxThreadsCap
  BY AliveIsFinite, ThreadsAreCounted, ThreadCount
<1>5. Cardinality(pending) <= Cardinality(Alive) + room
  BY <1>1, <1>2, <1>3, ThreadsAreCounted, StartingIsFinite, AliveIsFinite
<1>6. QED
  BY <1>4, <1>5 DEF LoadIsBounded, pending, room

\* No burst of uploads makes more threads than the cap, or more tasks than these
\* threads and the queue of each can hold.
THEOREM LoadStaysBounded == Spec => []LoadIsBounded
<1>1. QED
  BY LoadFits, Invariant, PTL

----------------------------------------------------------------------------
(***************************************************************************)
(* The answers.                                                            *)
(***************************************************************************)

\* What the worker refuses is what is not acceptable, if one frame is accepted.
LEMMA RefusalsAreRight ==
  ASSUME MaxPages = 1, NEW i \in Image
  PROVE  Invalid(i) <=> ~Acceptable(i)
<1> USE ProfileAssumption
<1>1. /\ i.pages \in Nat \ {0} /\ i.width \in Nat /\ i.height \in Nat
      /\ i.decodes \in BOOLEAN
  BY DEF Image
<1>2. i.width * i.height \in Nat
  BY <1>1
<1>3. Smaller(i.width, i.height) < MinShortestSide
        <=> ~(i.width >= MinShortestSide /\ i.height >= MinShortestSide)
  BY <1>1 DEF Smaller
<1>4. i.width = 0 \/ i.height = 0 => ~(i.width >= MinShortestSide /\ i.height >= MinShortestSide)
  BY <1>1
<1>5. i.width * i.height > PixelLimit <=> ~(i.width * i.height <= PixelLimit)
  BY <1>2
<1>6. i.pages > MaxPages <=> i.pages # 1
  BY <1>1
<1>7. QED
  BY <1>3, <1>4, <1>5, <1>6, Zenon DEF Invalid, Acceptable

\* Every step keeps the answers right.
LEMMA AnswersInv ==
  ASSUME MaxPages = 1, IInv, AnswersFitImages, [Next]_vars
  PROVE  AnswersFitImages'
<1> DEFINE Answered(v, c) ==
             /\ c = "normalized" => Acceptable(ImageOf[v])
             /\ c = "invalid" => ~Acceptable(ImageOf[v])
<1>1. TypeOK /\ \A v \in Uploads : Answered(v, call[v])
  BY DEF IInv, AnswersFitImages
<1>2. SUFFICES \A v \in Uploads : Answered(v, call'[v])
  BY DEF AnswersFitImages
<1>3. \A v \in Uploads : \A c \in {"idle", "pending", "unavailable"} : Answered(v, c)
  OBVIOUS
<1> HIDE DEF Answered
<1>4. CASE UNCHANGED call
  BY <1>1, <1>4
<1>5. ASSUME NEW u \in Uploads, Refuse(u) \/ Submit(u) \/ TimeOut(u) \/ Again(u)
      PROVE  \A v \in Uploads : Answered(v, call'[v])
  <2>1. \E a \in {"idle", "pending", "unavailable"} : call' = [call EXCEPT ![u] = a]
    BY <1>5 DEF Refuse, Submit, TimeOut, Again
  <2>2. QED
    BY <1>1, <1>3, <2>1 DEF TypeOK
<1>6. ASSUME NEW w \in Threads, Deliver(w)
      PROVE  \A v \in Uploads : Answered(v, call'[v])
  <2> DEFINE u == task[w]
             answer == IF Invalid(ImageOf[u]) THEN "invalid" ELSE "normalized"
  <2>1. u \in Uploads
    BY <1>1, <1>6 DEF Deliver, TypeOK, Busy
  <2>2. Answered(u, answer)
    BY <2>1, RefusalsAreRight, ImagesAssumption DEF Answered
  <2>3. call' = [call EXCEPT ![u] = answer]
    BY <1>6 DEF Deliver
  <2> HIDE DEF u, answer
  <2>4. QED
    BY <1>1, <2>1, <2>2, <2>3 DEF TypeOK
<1>7. ASSUME NEW w \in Threads, Crash(w)
      PROVE  \A v \in Uploads : Answered(v, call'[v])
  <2>1. task[w] \in Uploads /\ call' = [call EXCEPT ![task[w]] = "unavailable"]
    BY <1>1, <1>7 DEF Crash, TypeOK, Busy
  <2>2. QED
    BY <1>1, <1>3, <2>1 DEF TypeOK
<1>8. CASE Closed
  BY <1>1, <1>3, <1>8 DEF Closed
<1>9. CASE Shutdown \/ \E w \in Threads : Ready(w) \/ Post(w) \/ Reap(w)
  BY <1>4, <1>9 DEF Shutdown, Ready, Post, Reap
<1>10. QED
  BY <1>4, <1>5, <1>6, <1>7, <1>8, <1>9 DEF Next, Work, vars

\* With a profile of one frame, a call is answered 200 only for an acceptable image
\* of its own, and 422 only for one that is not.
THEOREM AnswersAreRight == MaxPages = 1 /\ Spec => []AnswersFitImages
<1>1. Init => AnswersFitImages
  BY DEF Init, AnswersFitImages
<1>2. MaxPages = 1 /\ IInv /\ AnswersFitImages /\ [Next]_vars => AnswersFitImages'
  BY AnswersInv
<1>3. CASE MaxPages = 1
  <2>1. IInv /\ AnswersFitImages /\ [Next]_vars => AnswersFitImages'
    BY <1>2, <1>3
  <2>2. QED
    BY <1>1, <2>1, Invariant, PTL DEF Spec
<1>4. QED
  BY <1>3

----------------------------------------------------------------------------
(***************************************************************************)
(* The pool implements ImageService.                                       *)
(***************************************************************************)

\* ImageService counts as the pool does.
LEMMA SameCount == \A S : Service!Cardinality(S) = Cardinality(S)
  BY DEF Service!Cardinality, Cardinality

\* When a task is not accepted by an open pool, all places are taken: the queue is not
\* empty, so no thread idles, and each that is alive works on a task or is going to.
LEMMA FullIsFull ==
  ASSUME IInv, pool = "open", QueueSize >= MaxQueue
  PROVE  Cardinality(Service!Pending) >= MaxQueue + MinThreads
<1>1. TypeOK /\ ThreadsServe /\ TasksArePending
  BY DEF IInv
<1>2. Len(queue) \in Nat
  BY <1>1, LenProperties DEF TypeOK
<1>3. Cardinality(Service!Pending) = Len(queue) + Cardinality(BusyThreads)
  BY <1>1, ThreadsAreCounted, PendingIsCounted DEF Service!Pending
<1>4. MaxQueue \in Nat \ {0}
  BY QueueIsBounded
<1> HIDE DEF MaxQueue
<1>5. Len(queue) >= MaxQueue + Cardinality(Starting)
  BY <1>2, <1>4, StartingIsFinite DEF QueueSize, Larger
<1>6. Alive = BusyThreads \union Starting
  <2>1. queue # << >>
    BY <1>4, <1>5, StartingIsFinite, EmptySeq
  <2>2. Idle = {}
    BY <1>1, <2>1 DEF ThreadsServe
  <2>3. \A w \in Threads : thread[w] \in {"off", "starting", "idle"} \union Busy
    BY <1>1 DEF TypeOK
  <2>4. QED
    BY <2>2, <2>3 DEF Alive, Idle, BusyThreads, Starting, Busy
<1>7. Cardinality(BusyThreads) + Cardinality(Starting) >= MinThreads
  BY <1>1, <1>6, ThreadsAreCounted DEF ThreadsServe
<1>8. QED
  BY <1>2, <1>3, <1>4, <1>5, <1>7, ThreadsAreCounted, StartingIsFinite

\* When a task is accepted, there is room for it.
LEMMA RoomIsThere ==
  ASSUME IInv, QueueSize < MaxQueue
  PROVE  Cardinality(Service!Pending) < MaxThreadsCap * (1 + QueueMultiplier)
<1> DEFINE room == MaxThreadsCap * QueueMultiplier
<1>1. TypeOK /\ TasksArePending
  BY DEF IInv
<1>2. Len(queue) \in Nat
  BY <1>1, LenProperties DEF TypeOK
<1>3. Cardinality(Service!Pending) = Len(queue) + Cardinality(BusyThreads)
  BY <1>1, ThreadsAreCounted, PendingIsCounted DEF Service!Pending
<1>4. MaxQueue \in Nat \ {0} /\ room \in Nat /\ MaxQueue <= room
  BY QueueIsBounded
<1>5. MaxThreadsCap * (1 + QueueMultiplier) = MaxThreadsCap + room
  OBVIOUS
<1> HIDE DEF MaxQueue, room
<1>6. Len(queue) < MaxQueue + Cardinality(Starting)
  BY <1>2, <1>4, StartingIsFinite DEF QueueSize, Larger
<1>7. Cardinality(BusyThreads) + Cardinality(Starting) <= MaxThreadsCap
  BY ThreadsAreCounted, ThreadCount, StartingIsFinite, AliveIsFinite
<1>8. QED
  BY <1>2, <1>3, <1>4, <1>5, <1>6, <1>7, ThreadsAreCounted, StartingIsFinite

\* Every step of the pool is one of the service, or nothing its callers can see.
LEMMA NextServed ==
  ASSUME MaxPages = 1, IInv, [Next]_vars
  PROVE  [Service!Next]_(Service!vars)
<1>1. TypeOK /\ TasksArePending /\ (closing <=> pool # "open")
  BY DEF IInv, ClosingIsFlagged
<1>2. SUFFICES Service!Next \/ UNCHANGED <<call, pool, validated>>
  BY DEF Service!vars
<1>3. CASE UNCHANGED <<call, pool, validated>>
  BY <1>3
<1>4. ASSUME NEW u \in Uploads, Refuse(u) PROVE Service!TurnAway(u)
  <2>1. /\ call[u] = "idle" /\ call' = [call EXCEPT ![u] = "unavailable"]
        /\ UNCHANGED <<pool, validated>>
    BY <1>4 DEF Refuse, service
  <2>2. closing \/ ~(QueueSize < MaxQueue) \/ ~validated \/ pool = "closing"
    BY <1>4 DEF Refuse, Accepting
  <2>3. pool # "open" \/ ~validated \/ Cardinality(Service!Pending) >= MaxQueue + MinThreads
    <3>1. MaxQueue \in Nat /\ QueueSize \in Nat
      BY <1>1, QueueIsBounded, StartingIsFinite, LenProperties DEF TypeOK, QueueSize, Larger
    <3>2. QED
      BY <1>1, <2>2, <3>1, FullIsFull
  <2>4. QED
    BY <2>1, <2>3, SameCount DEF Service!TurnAway
<1>5. ASSUME NEW u \in Uploads, Submit(u) PROVE Service!Admit(u)
  <2>1. Cardinality(Service!Pending) < MaxThreadsCap * (1 + QueueMultiplier)
    BY <1>5, RoomIsThere DEF Submit, Accepting
  <2>2. QED
    BY <1>1, <1>5, <2>1, SameCount DEF Submit, Accepting, Service!Admit
<1>6. ASSUME NEW u \in Uploads, TimeOut(u) PROVE Service!Answer(u)
  BY <1>6 DEF TimeOut, service, Service!Answer
<1>7. ASSUME NEW u \in Uploads, Again(u) PROVE Service!Again(u)
  BY <1>7 DEF Again, Answers, service, Service!Again
<1>8. ASSUME NEW w \in Threads, Deliver(w) PROVE \E u \in Uploads : Service!Answer(u)
  <2> DEFINE u == task[w]
  <2>1. u \in Uploads /\ call[u] = "pending"
    BY <1>1, <1>8 DEF Deliver, TypeOK, Busy, TasksArePending, Running
  <2>2. (IF Invalid(ImageOf[u]) THEN "invalid" ELSE "normalized")
          = IF Acceptable(ImageOf[u]) THEN "normalized" ELSE "invalid"
    BY <2>1, RefusalsAreRight, ImagesAssumption
  <2>3. /\ call' = [call EXCEPT ![u] = IF Acceptable(ImageOf[u]) THEN "normalized" ELSE "invalid"]
        /\ UNCHANGED <<pool, validated>>
    BY <1>8, <2>2 DEF Deliver, service
  <2> HIDE DEF u
  <2>4. Service!Answer(u)
    BY <2>1, <2>3 DEF Service!Answer
  <2>5. QED
    BY <2>1, <2>4
<1>9. ASSUME NEW w \in Threads, Crash(w) PROVE \E u \in Uploads : Service!Answer(u)
  <2> DEFINE u == task[w]
  <2>1. u \in Uploads /\ call[u] = "pending"
    BY <1>1, <1>9 DEF Crash, TypeOK, Busy, TasksArePending, Running
  <2>2. call' = [call EXCEPT ![u] = "unavailable"] /\ UNCHANGED <<pool, validated>>
    BY <1>9 DEF Crash
  <2> HIDE DEF u
  <2>3. Service!Answer(u)
    BY <2>1, <2>2 DEF Service!Answer
  <2>4. QED
    BY <2>1, <2>3
<1>10. ASSUME NEW w \in Threads, Ready(w) \/ Post(w) \/ Reap(w)
       PROVE  UNCHANGED <<call, pool, validated>>
  BY <1>10 DEF Ready, Post, Reap, service
<1>11. CASE Shutdown
  BY <1>1, <1>11 DEF Shutdown, TypeOK, Service!Close, Service!Next
<1>12. CASE Closed
  BY <1>12 DEF Closed, Service!Closed, Service!Next
<1>13. QED
  BY <1>3, <1>4, <1>5, <1>6, <1>7, <1>8, <1>9, <1>10, <1>11, <1>12
     DEF Next, Work, vars, service, Service!Next

\* With a profile of one frame, the pool is what its callers may take it for: an image
\* service that turns nobody away while it has a promised place left, and answers
\* everybody it admits with the verdict on their own image, or not at all.
THEOREM PoolImplementsService == MaxPages = 1 /\ Spec => ImplementsService
<1>1. Init => Service!Init
  BY DEF Init, Service!Init
<1>2. CASE MaxPages = 1
  <2>1. IInv /\ [Next]_vars => [Service!Next]_(Service!vars)
    BY <1>2, NextServed
  <2>2. QED
    BY <1>1, <2>1, Invariant, PTL DEF Spec, ImplementsService, Service!Spec
<1>3. QED
  BY <1>2
=============================================================================
