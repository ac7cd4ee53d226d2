----------------------------- MODULE EmailQueue -----------------------------
(***************************************************************************)
(* The email queue: EmailQueueProducer, EmailProcessor with the handlers   *)
(* of its registry, and SmtpMailSender, over one BullMQ queue in Redis.    *)
(*                                                                         *)
(* A job is its id.  BullMQ ignores the addition of an id that exists,     *)
(* whatever the data, so an id is free again only when its job is gone:    *)
(* at once when it completes (removeOnComplete), after a day, or a         *)
(* thousand later failures, when it failed for good (removeOnFail).  One worker takes one job at a time.    *)
(* The order in which jobs wait is left open: back-off reorders them.      *)
(***************************************************************************)
EXTENDS Naturals

CONSTANTS
  JobIds,     \* the ids jobs can have
  Data,       \* what a job says, beyond its id
  Attempts    \* EMAIL_QUEUE_ATTEMPTS

VARIABLE
  jobs        \* per id: the job in Redis

Free == "free"
Job == [state : {Free, "waiting", "active", "failed"},
        data : Data,
        attemptsMade : 0 .. Attempts]

NoJob == [state |-> Free, data |-> CHOOSE d \in Data : TRUE, attemptsMade |-> 0]

\* Queue.add.
Added(j, d) ==
  IF jobs[j].state = Free
  THEN [jobs EXCEPT ![j] = [state |-> "waiting", data |-> d, attemptsMade |-> 0]]
  ELSE jobs

----------------------------------------------------------------------------
\* The worker hands a job to its handler.
Take(j) ==
  /\ \A i \in JobIds : jobs[i].state # "active"
  /\ jobs[j].state = "waiting"
  /\ jobs' = [jobs EXCEPT ![j].state = "active"]

\* sendMail resolves and the job completes, which removes it.
Send(j) ==
  /\ jobs[j].state = "active"
  /\ jobs' = [jobs EXCEPT ![j] = NoJob]

\* (A variant for mutation runs: the attempts are not counted.)
SendFailsUncounted(j) ==
  /\ jobs[j].state = "active"
  /\ jobs' = [jobs EXCEPT ![j].state = "waiting"]

\* (A variant for mutation runs: off by one at the last attempt.)
SendFailsOnceMore(j) ==
  /\ jobs[j].state = "active"
  /\ LET made == jobs[j].attemptsMade + 1 IN
     jobs' = [jobs EXCEPT ![j].attemptsMade = made,
                          ![j].state = IF made <= Attempts THEN "waiting" ELSE "failed"]

\* sendMail throws, perhaps after the server has taken the mail: one attempt is
\* gone, and with the last one the job has failed.
SendFails(j) ==
  /\ jobs[j].state = "active"
  /\ LET made == jobs[j].attemptsMade + 1 IN
     jobs' = [jobs EXCEPT ![j].attemptsMade = made,
                          ![j].state = IF made < Attempts THEN "waiting" ELSE "failed"]

\* A failed job is a day old, or a thousand have failed since.
Forget(j) ==
  /\ jobs[j].state = "failed"
  /\ jobs' = [jobs EXCEPT ![j] = NoJob]

\* What the worker had taken when it died stalls and waits again.
Stalled ==
  [j \in JobIds |-> IF jobs[j].state = "active"
                     THEN [jobs[j] EXCEPT !.state = "waiting"]
                     ELSE jobs[j]]

Work == \E j \in JobIds : Take(j) \/ Send(j) \/ SendFails(j)

\* A job that waits or is under way has an attempt left.
AttemptLeft ==
  \A j \in JobIds : jobs[j].state \in {"waiting", "active"} => jobs[j].attemptsMade < Attempts
=============================================================================
