----------------------------- MODULE WorkerPool -----------------------------
(***************************************************************************)
(* Normalizing an image on a worker thread: ImageProcessingService, the    *)
(* process-wide PiscinaPoolService in front of Piscina, and what the       *)
(* worker decides about an image.                                          *)
(*                                                                         *)
(* PiscinaPoolService has no await before pool.run, so its checks and the  *)
(* admission are one step of the event loop, and so are a message of a     *)
(* worker, a time-out or an exit with everything it settles.  What races   *)
(* is the threads: a result may be posted and not yet received.            *)
(*                                                                         *)
(* Piscina itself is modelled as the service uses it: a queue in order of  *)
(* arrival; a task given to an idle thread, or queued while another thread *)
(* is started if there may be one more; a task that is aborted leaves the  *)
(* queue, or its thread is terminated; the least number of threads is kept *)
(* up while the pool is open, the first of them taken to be up at once,    *)
(* and others end when they idle; close ends, at the latest after its      *)
(* time-out, by rejecting what is left.                                    *)
(***************************************************************************)
EXTENDS Naturals, Sequences, FiniteSets

CONSTANTS
  Uploads,          \* calls of process at the same time
  ImageOf,          \* what each uploads
  None,             \* no task
  Cpus,             \* availableParallelism()
  MinThreads,       \* MIN_THREADS
  MaxThreadsCap,    \* MAX_THREADS_CAP
  QueueMultiplier,  \* QUEUE_MULTIPLIER
  AcceptedFormats,  \* profile.acceptedFormats
  MaxPages,         \* profile.maxPages
  PixelLimit,       \* profile.limitInputPixels
  MinShortestSide,  \* profile.minShortestSide
  MaxCrashes        \* bound: threads that die by themselves

\* What sharp finds in the bytes: a format ("none" if it cannot read the header),
\* frames, oriented sides (0 if unknown), and whether the pixels decode to the end.
Image == [format : STRING, pages : Nat \ {0}, width : Nat, height : Nat, decodes : BOOLEAN]

ASSUME ImagesAssumption == ImageOf \in [Uploads -> Image]
ASSUME NoneIsNothing == None \notin Uploads
ASSUME PoolAssumption ==
  /\ Cpus \in Nat \ {0}
  /\ MinThreads \in Nat \ {0}
  /\ MaxThreadsCap \in Nat /\ MinThreads <= MaxThreadsCap
  /\ QueueMultiplier \in Nat \ {0}
  /\ MaxCrashes \in Nat
ASSUME ProfileAssumption ==
  MaxPages \in Nat /\ PixelLimit \in Nat /\ MinShortestSide \in Nat \ {0}

VARIABLES
  call,       \* per upload: "idle", "pending", or how process ended
  queue,      \* Piscina: tasks nobody works on yet
  thread,     \* Piscina: state of each thread
  task,       \* Piscina: what each thread works on
  validated,  \* the worker's path has been found
  closing,    \* PiscinaPoolService.closing
  pool,       \* Piscina: "open", "closing" or "closed"
  crashes

piscina == <<queue, thread, task>>
service == <<validated, closing, pool, crashes>>
vars == <<call, piscina, service>>

Smaller(m, n) == IF m < n THEN m ELSE n
Larger(m, n) == IF m > n THEN m ELSE n

MaxThreads == Larger(MinThreads, Smaller(MaxThreadsCap, Cpus - 1))
MaxQueue == MaxThreads * QueueMultiplier
Threads == 1 .. MaxThreads

Busy == {"working", "posted"}
Answers == {"normalized", "invalid", "unavailable"}

Init ==
  /\ call = [u \in Uploads |-> "idle"]
  /\ queue = << >>
  /\ thread = [w \in Threads |-> IF w <= MinThreads THEN "idle" ELSE "off"]
  /\ task = [w \in Threads |-> None]
  /\ validated = FALSE
  /\ closing = FALSE
  /\ pool = "open"
  /\ crashes = 0

----------------------------------------------------------------------------
\* (A variant for mutation runs: the shortest side must exceed the minimum.)
InvalidAtMinimum(i) ==
  \/ i.format \notin AcceptedFormats
  \/ i.pages > MaxPages
  \/ i.width = 0 \/ i.height = 0
  \/ i.width * i.height > PixelLimit
  \/ Smaller(i.width, i.height) <= MinShortestSide
  \/ ~i.decodes

\* processImageTask refuses: readMetadata throws, validateMetadata finds a
\* violation, or the transformation throws.
Invalid(i) ==
  \/ i.format \notin AcceptedFormats
  \/ i.pages > MaxPages
  \/ i.width = 0 \/ i.height = 0
  \/ i.width * i.height > PixelLimit
  \/ Smaller(i.width, i.height) < MinShortestSide
  \/ ~i.decodes

----------------------------------------------------------------------------
(***************************************************************************)
(* Piscina.                                                                *)
(***************************************************************************)
Alive == {w \in Threads : thread[w] # "off"}
Starting == {w \in Threads : thread[w] = "starting"}
Idle == {w \in Threads : thread[w] = "idle"}

\* Threads are alike: the first that is off is the next to start.
NextOff(off) == CHOOSE w \in off : \A x \in off : w <= x

\* queueSize does not count what the starting threads will take.
QueueSize == Larger(0, Len(queue) - Cardinality(Starting))

\* Without the task in place k.
Dequeued(k) == [l \in 1 .. Len(queue) - 1 |-> queue[IF l < k THEN l ELSE l + 1]]

\* (A variant for mutation runs: the thread is left to end by itself.)
ReplacedNot(w) == thread

\* The thread is gone, and another is started if too few are left.
Replaced(w) ==
  LET left == Alive \ {w}
      next == NextOff(Threads \ left)
  IN  [x \in Threads |->
        IF x = next /\ Cardinality(left) < MinThreads /\ pool = "open" THEN "starting"
        ELSE IF x = w THEN "off" ELSE thread[x]]

\* A thread that is free takes the first task of the queue.
TakeNext(w) ==
  IF queue = << >>
  THEN /\ thread' = [thread EXCEPT ![w] = "idle"]
       /\ task' = [task EXCEPT ![w] = None]
       /\ UNCHANGED queue
  ELSE /\ thread' = [thread EXCEPT ![w] = "working"]
       /\ task' = [task EXCEPT ![w] = Head(queue)]
       /\ queue' = Tail(queue)

\* pool.run: an idle thread gets the task; otherwise it is queued, and a thread
\* is started if there may be one more.  (Its own limit is that of QueueSize.)
Run(u) ==
  IF Idle # {}
  THEN LET w == CHOOSE w \in Idle : TRUE IN
       /\ thread' = [thread EXCEPT ![w] = "working"]
       /\ task' = [task EXCEPT ![w] = u]
       /\ UNCHANGED queue
  ELSE /\ thread' = IF Alive = Threads THEN thread
                    ELSE [thread EXCEPT ![NextOff(Threads \ Alive)] = "starting"]
       /\ queue' = Append(queue, u)
       /\ UNCHANGED task

----------------------------------------------------------------------------
(***************************************************************************)
(* PiscinaPoolService and ImageProcessingService.                          *)
(***************************************************************************)

\* (A variant for mutation runs: the flag is not looked at.)
AcceptingWhileClosing == QueueSize < MaxQueue

\* (A variant for mutation runs: a full queue takes one more.)
AcceptingOneMore == ~closing /\ QueueSize <= MaxQueue

\* (A variant for mutation runs: the last place of the queue is never taken.)
AcceptingOneLess == ~closing /\ QueueSize + 1 < MaxQueue

\* assertAccepting.
Accepting == ~closing /\ QueueSize < MaxQueue

\* assertAccepting throws, assertWorkerPath does not find the file (a path that
\* was found is not looked for again), or Piscina is closing: 503.
Refuse(u) ==
  /\ call[u] = "idle"
  /\ ~Accepting \/ ~validated \/ pool = "closing"
  /\ call' = [call EXCEPT ![u] = "unavailable"]
  /\ UNCHANGED <<piscina, service>>

\* The timer is set, and the task is Piscina's.
Submit(u) ==
  /\ call[u] = "idle"
  /\ Accepting
  /\ pool # "closing"
  /\ validated' = TRUE
  /\ call' = [call EXCEPT ![u] = "pending"]
  /\ Run(u)
  /\ UNCHANGED <<closing, pool, crashes>>

\* A thread is up.
Ready(w) ==
  /\ thread[w] = "starting"
  /\ TakeNext(w)
  /\ UNCHANGED <<call, service>>

\* The worker has its result and posts it ...
Post(w) ==
  /\ thread[w] = "working"
  /\ thread' = [thread EXCEPT ![w] = "posted"]
  /\ UNCHANGED <<call, queue, task, service>>

\* ... the event loop receives it, and the call is answered 200 or 422.
Deliver(w) ==
  /\ thread[w] = "posted"
  /\ call' = [call EXCEPT ![task[w]] =
       IF Invalid(ImageOf[task[w]]) THEN "invalid" ELSE "normalized"]
  /\ TakeNext(w)
  /\ UNCHANGED service

\* (A variant for mutation runs: the answer does not wait, the task goes on.)
TimeOutWithoutAbort(u) ==
  /\ call[u] = "pending"
  /\ call' = [call EXCEPT ![u] = "unavailable"]
  /\ UNCHANGED <<piscina, service>>

\* (A variant for mutation runs: the thread is terminated, and not replaced.)
TimeOutUnreplaced(u) ==
  /\ call[u] = "pending"
  /\ call' = [call EXCEPT ![u] = "unavailable"]
  /\ \/ /\ \E k \in 1 .. Len(queue) : queue[k] = u /\ queue' = Dequeued(k)
        /\ UNCHANGED <<thread, task>>
     \/ \E w \in Threads :
          /\ task[w] = u
          /\ thread' = [thread EXCEPT ![w] = "off"]
          /\ task' = [task EXCEPT ![w] = None]
          /\ UNCHANGED queue
  /\ UNCHANGED service

\* The timer fires and aborts the task, queued, under way or posted: 503.
TimeOut(u) ==
  /\ call[u] = "pending"
  /\ call' = [call EXCEPT ![u] = "unavailable"]
  /\ \/ /\ \E k \in 1 .. Len(queue) : queue[k] = u /\ queue' = Dequeued(k)
        /\ UNCHANGED <<thread, task>>
     \/ \E w \in Threads :
          /\ task[w] = u
          /\ thread' = Replaced(w)
          /\ task' = [task EXCEPT ![w] = None]
          /\ UNCHANGED queue
  /\ UNCHANGED service

\* A thread dies of its task: 503.
Crash(w) ==
  /\ crashes < MaxCrashes
  /\ crashes' = crashes + 1
  /\ thread[w] = "working"
  /\ call' = [call EXCEPT ![task[w]] = "unavailable"]
  /\ thread' = Replaced(w)
  /\ task' = [task EXCEPT ![w] = None]
  /\ UNCHANGED <<queue, validated, closing, pool>>

\* Piscina ends a thread that idles (the service sets no idleTimeout, so at once) as
\* long as more than the least number of threads is left.
Reap(w) ==
  /\ thread[w] = "idle"
  /\ Cardinality(Alive) > MinThreads
  /\ thread' = [thread EXCEPT ![w] = "off"]
  /\ UNCHANGED <<call, queue, task, service>>

\* The client has its answer.
Again(u) ==
  /\ call[u] \in Answers
  /\ call' = [call EXCEPT ![u] = "idle"]
  /\ UNCHANGED <<piscina, service>>

\* onApplicationShutdown: the flag, and pool.close ...
Shutdown ==
  /\ ~closing
  /\ closing' = TRUE
  /\ pool' = "closing"
  /\ UNCHANGED <<call, piscina, validated, crashes>>

\* ... which ends when the threads have nothing left to do or its time-out is
\* over: what is left is rejected, and the threads are terminated.
Closed ==
  /\ pool = "closing"
  /\ pool' = "closed"
  /\ call' = [u \in Uploads |-> IF call[u] = "pending" THEN "unavailable" ELSE call[u]]
  /\ queue' = << >>
  /\ thread' = [w \in Threads |-> "off"]
  /\ task' = [w \in Threads |-> None]
  /\ UNCHANGED <<validated, closing, crashes>>

Work(w) == Ready(w) \/ Post(w) \/ Deliver(w)

Next ==
  \/ \E u \in Uploads : Refuse(u) \/ Submit(u) \/ TimeOut(u) \/ Again(u)
  \/ \E w \in Threads : Work(w) \/ Crash(w) \/ Reap(w)
  \/ Shutdown
  \/ Closed

Spec == Init /\ [][Next]_vars

\* Threads run, and pool.close has a time-out.  Timers need not fire: a task is
\* not to depend on being given up.
FairSpec ==
  /\ Spec
  /\ \A w \in Threads : WF_vars(Work(w))
  /\ WF_vars(Closed)

----------------------------------------------------------------------------
(***************************************************************************)
(* Properties                                                              *)
(***************************************************************************)

\* Every variable stays in its range.
TypeOK ==
  /\ call \in [Uploads -> {"idle", "pending"} \union Answers]
  /\ queue \in Seq(Uploads)
  /\ thread \in [Threads -> {"off", "starting", "idle"} \union Busy]
  /\ task \in [Threads -> Uploads \union {None}]
  /\ \A w \in Threads : task[w] # None <=> thread[w] \in Busy
  /\ validated \in BOOLEAN
  /\ closing \in BOOLEAN
  /\ pool \in {"open", "closing", "closed"}
  /\ crashes \in 0 .. MaxCrashes

\* Where the task of upload u is.
Queued(u) == \E k \in 1 .. Len(queue) : queue[k] = u
Running(u) == \E w \in Threads : task[w] = u

\* No work without a caller, no caller without work: exactly the calls that are
\* pending have a task, each once, whatever times out, crashes or is closed.
TasksArePending ==
  /\ \A u \in Uploads : (call[u] = "pending") <=> (Queued(u) \/ Running(u))
  /\ \A u \in Uploads : ~(Queued(u) /\ Running(u))
  /\ \A k, l \in 1 .. Len(queue) : queue[k] = queue[l] => k = l
  /\ \A w, x \in Threads : task[w] = task[x] /\ task[w] # None => w = x

\* A burst of uploads does not starve the process: no more threads than the cap,
\* and no more tasks than these threads and the queue of each can hold, although the
\* admission does not count what starting threads will take and threads come and go.
LoadIsBounded ==
  /\ Cardinality(Alive) <= MaxThreadsCap
  /\ Cardinality({u \in Uploads : call[u] = "pending"})
       <= Cardinality(Alive) + MaxThreadsCap * QueueMultiplier

\* After the shutdown nothing is left behind: no thread, no task and no caller
\* who still waits.
ClosedIsQuiet ==
  pool = "closed" =>
    /\ Alive = {}
    /\ queue = << >>
    /\ \A u \in Uploads : call[u] # "pending"

\* What docs/api/users.md promises to normalize: an accepted format, one frame,
\* not below the shortest side, not above the pixel limit, readable to the end.
Acceptable(i) ==
  /\ i.format \in AcceptedFormats
  /\ i.pages = 1
  /\ i.width >= MinShortestSide /\ i.height >= MinShortestSide
  /\ i.width * i.height <= PixelLimit
  /\ i.decodes

\* The answer is about the caller's own image: 200 only for an acceptable one,
\* 422 only for one that is not.
AnswersFitImages ==
  \A u \in Uploads :
    /\ call[u] = "normalized" => Acceptable(ImageOf[u])
    /\ call[u] = "invalid" => ~Acceptable(ImageOf[u])

\* The flag is set when the pool is closed.
ClosingIsFlagged == closing <=> pool # "open"

\* No more is queued than the queue may hold and starting threads are going to take.
QueueFits == Len(queue) <= MaxQueue + Cardinality(Starting)

\* No thread idles while a task waits, and the least number of threads is kept up.
ThreadsServe ==
  /\ queue # << >> => Idle = {}
  /\ pool = "open" => Cardinality(Alive) >= MinThreads

\* The invariants about the pool hold because these do, together, after every step.
IInv ==
  /\ TypeOK
  /\ TasksArePending
  /\ ClosingIsFlagged
  /\ ClosedIsQuiet
  /\ QueueFits
  /\ ThreadsServe

\* Queues, threads, posted results, time-outs and deaths: for the callers they are
\* whole steps of ImageService, one at a time.
Service == INSTANCE ImageService WITH
  Verdict <- [u \in Uploads |-> IF Acceptable(ImageOf[u]) THEN "normalized" ELSE "invalid"],
  Places <- MaxQueue + MinThreads,
  Capacity <- MaxThreadsCap * (1 + QueueMultiplier),
  phase <- pool,
  installed <- validated

ImplementsService == Service!Spec

\* An admitted task ends although no timer fires: no time-out or crash of another
\* task leaves it queued for a thread that never comes, and no shutdown leaves its
\* caller waiting.
AdmittedTasksEnd ==
  \A u \in Uploads : call[u] = "pending" ~> call[u] # "pending"
=============================================================================
