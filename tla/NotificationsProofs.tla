------------------------- MODULE NotificationsProofs -------------------------
(***************************************************************************)
(* Proofs about Notifications, for any followers, readers and requests,    *)
(* any number of attempts and any bounds.                                  *)
(***************************************************************************)
EXTENDS Notifications, NumberLemmas, SequenceTheorems, TLAPS

USE EventsAssumption

----------------------------------------------------------------------------
(***************************************************************************)
(* What a step does to the queue.                                          *)
(***************************************************************************)

\* A job added keeps the queue one, and only its own id is taken by it.
LEMMA AddedJobs ==
  ASSUME jobs \in [JobIds -> Job], AttemptLeft,
         NEW j \in JobIds, NEW d \in Readers \union {Author}, jobs' = Added(j, d)
  PROVE  /\ jobs' \in [JobIds -> Job] /\ AttemptLeft'
         /\ \A i \in JobIds : i # j /\ jobs'[i].state # Free => jobs[i].state # Free
<1> DEFINE x == [state |-> "waiting", data |-> d, attemptsMade |-> 0]
<1>1. x \in Job
  BY DEF Job
<1>2. jobs' = jobs \/ jobs' = [jobs EXCEPT ![j] = x]
  BY DEF Added
<1>3. CASE jobs' = jobs
  BY <1>3 DEF AttemptLeft
<1>4. CASE jobs' = [jobs EXCEPT ![j] = x]
  BY <1>1, <1>4 DEF AttemptLeft
<1>5. QED
  BY <1>2, <1>3, <1>4

\* The worker, the age of a failed job and a restart add none.
LEMMA WorkedJobs ==
  ASSUME jobs \in [JobIds -> Job], AttemptLeft,
         Work \/ (\E j \in JobIds : Forget(j)) \/ jobs' = Stalled \/ UNCHANGED jobs
  PROVE  /\ jobs' \in [JobIds -> Job] /\ AttemptLeft'
         /\ \A i \in JobIds : jobs'[i].state # Free => jobs[i].state # Free
<1>1. NoJob \in Job
  <2>1. (CHOOSE d \in Readers \union {Author} : TRUE) \in Readers \union {Author}
    OBVIOUS
  <2>2. QED
    BY <2>1 DEF NoJob, Job, Free
<1>2. ASSUME NEW j \in JobIds, NEW x \in Job, jobs' = [jobs EXCEPT ![j] = x],
             jobs[j].state # Free,
             x.state \in {"waiting", "active"} => x.attemptsMade < Attempts
      PROVE  /\ jobs' \in [JobIds -> Job] /\ AttemptLeft'
             /\ \A i \in JobIds : jobs'[i].state # Free => jobs[i].state # Free
  BY <1>2 DEF AttemptLeft
<1>3. ASSUME NEW j \in JobIds, Take(j) \/ Send(j) \/ SendFails(j) \/ Forget(j)
      PROVE  \E x \in Job : /\ jobs' = [jobs EXCEPT ![j] = x]
                            /\ jobs[j].state # Free
                            /\ x.state \in {"waiting", "active"} => x.attemptsMade < Attempts
  <2> DEFINE old == jobs[j]
  <2>1. /\ old \in Job /\ old.attemptsMade \in Nat /\ old.data \in Readers \union {Author}
        /\ old = [state |-> old.state, data |-> old.data, attemptsMade |-> old.attemptsMade]
    BY DEF Job
  <2>2. CASE Take(j)
    <3> DEFINE x == [state |-> "active", data |-> old.data, attemptsMade |-> old.attemptsMade]
    <3>1. x \in Job /\ old.state = "waiting" /\ old.attemptsMade < Attempts
      BY <2>1, <2>2 DEF Take, Job, AttemptLeft
    <3>2. [old EXCEPT !.state = "active"] = x
      BY <2>1
    <3>3. jobs' = [jobs EXCEPT ![j] = [old EXCEPT !.state = "active"]]
      BY <2>2 DEF Take
    <3>4. QED
      BY <3>1, <3>2, <3>3 DEF Free
  <2>3. CASE Send(j) \/ Forget(j)
    <3>1. NoJob.state = Free
      BY DEF NoJob
    <3>2. jobs' = [jobs EXCEPT ![j] = NoJob] /\ old.state # Free
      BY <2>3 DEF Send, Forget, Free
    <3>3. QED
      BY <1>1, <3>1, <3>2 DEF Free
  <2>4. CASE SendFails(j)
    <3> DEFINE made == old.attemptsMade + 1
               x == [state |-> IF made < Attempts THEN "waiting" ELSE "failed",
                     data |-> old.data, attemptsMade |-> made]
    <3>1. old.state = "active" /\ made \in Nat /\ made <= Attempts
      BY <2>1, <2>4 DEF SendFails, AttemptLeft
    <3>2. x \in Job
      BY <2>1, <3>1 DEF Job
    <3>3. jobs' = [jobs EXCEPT ![j] = x]
      BY <2>1, <2>4 DEF SendFails
    <3>4. QED
      BY <3>1, <3>2, <3>3 DEF Free
  <2>5. QED
    BY <1>3, <2>2, <2>3, <2>4
<1>4. CASE Work \/ \E j \in JobIds : Forget(j)
  <2>1. PICK j \in JobIds : Take(j) \/ Send(j) \/ SendFails(j) \/ Forget(j)
    BY <1>4 DEF Work
  <2>2. QED
    BY <1>2, <1>3, <2>1
<1>5. CASE jobs' = Stalled
  BY <1>5 DEF Stalled, Job, Free, AttemptLeft
<1>6. CASE UNCHANGED jobs
  BY <1>6 DEF AttemptLeft
<1>7. QED
  BY <1>4, <1>5, <1>6

\* Event names and job ids.
LEMMA Names ==
  /\ \A e \in Events : e = <<e[1], e[2]>> /\ e[1] \in Topics
       /\ (e[1] = "created" => e[2] = Author) /\ (e[1] = "favorited" => e[2] \in Readers)
       /\ e[2] \in Readers \union {Author}
  /\ \A j \in JobIds : j = <<j[1], j[2]>> /\ j[1] \in Topics
  /\ \A u \in Followers : JobId("created", u) \in JobIds
  /\ JobId("favorited", Author) \in JobIds
  BY DEF Events, Topics, JobIds, JobId

\* The handler has an event in hand whenever it has somebody to tell, and the jobs
\* it adds for it are jobs.
LEMMA InHand ==
  ASSUME TypeOK, Causes, NEW p \in todo
  PROVE  /\ handling \in Topics /\ <<handling, NextEvent(handling)>> \in Events
         /\ NextEvent(handling) \in Readers \union {Author}
         /\ handling = "created" => NextEvent(handling) = Author
         /\ \A q \in todo : JobId(handling, q) \in JobIds
<1>1. handling \in Topics
  BY DEF TypeOK, Causes
<1>2. position[handling] \in Nat /\ position[handling] < Len(topic[handling])
  BY <1>1 DEF TypeOK, Causes, Topics, Nothing
<1>3. Len(topic[handling]) \in Nat
  BY <1>1, LenProperties DEF TypeOK
<1>4. <<handling, NextEvent(handling)>> \in Events
  <2>1. position[handling] + 1 \in 1 .. Len(topic[handling])
    BY <1>2, <1>3
  <2>2. QED
    BY <1>1, <2>1 DEF Causes, NextEvent
<1>5. \A q \in todo : JobId(handling, q) \in JobIds
  BY <1>1 DEF TypeOK, Causes, Topics, Nothing, JobIds, JobId
<1>6. QED
  BY <1>1, <1>4, <1>5 DEF Events, Topics

\* An event goes from a request to its topic, and the handler takes it from there.
LEMMA StepCauses == TypeOK /\ Causes /\ [Next]_vars => Causes'
<1> SUFFICES ASSUME TypeOK, Causes, [Next]_vars PROVE Causes'
  OBVIOUS
<1> USE DEF Goto, Finish, database, requests, producer, consumer, history, TypeOK, Causes
<1>1. ASSUME NEW r \in Requests, Create(r) PROVE Causes'
  BY <1>1 DEF Create
<1>2. ASSUME NEW r \in Requests, NEW u \in Readers, FavoriteRead(r, u) PROVE Causes'
  BY <1>2 DEF FavoriteRead
<1>3. ASSUME NEW r \in Requests, NEW u \in Readers, UnfavoriteRead(r, u) PROVE Causes'
  BY <1>3 DEF UnfavoriteRead
<1>4. ASSUME NEW r \in Requests, FavoriteWrite(r) PROVE Causes'
  BY <1>4 DEF FavoriteWrite, Connect
<1>5. ASSUME NEW r \in Requests, FavoriteCollides(r) PROVE Causes'
  BY <1>5 DEF FavoriteCollides
<1>6. ASSUME NEW r \in Requests, FavoriteReread(r) PROVE Causes'
  BY <1>6 DEF FavoriteReread
<1>7. ASSUME NEW r \in Requests, ArticleGone(r) PROVE Causes'
  BY <1>7 DEF ArticleGone
<1>8. ASSUME NEW r \in Requests, Emit(r) PROVE Causes'
  BY <1>8 DEF Emit, EventOf
<1>9. ASSUME NEW r \in Requests, UnfavoriteWrite(r) PROVE Causes'
  BY <1>9 DEF UnfavoriteWrite
<1>10. ASSUME NEW r \in Requests, ActorLookupFails(r) PROVE Causes'
  BY <1>10 DEF ActorLookupFails, Connect, Fault
<1>11. ASSUME Delete PROVE Causes'
  BY <1>11 DEF Delete
<1>12. ASSUME NEW e \in Events, Publish(e) PROVE Causes'
  <2>1. /\ e[1] \in Topics /\ e[2] \in People /\ <<e[1], e[2]>> \in Events
    BY Names DEF People
  <2>2. /\ \A t \in Topics \ {e[1]} : topic'[t] = topic[t]
        /\ topic'[e[1]] = Append(topic[e[1]], e[2])
        /\ UNCHANGED <<requests, consumer>>
    BY <1>12, <2>1 DEF Publish
  <2>3. /\ Len(topic[e[1]]) \in Nat /\ Len(topic'[e[1]]) = Len(topic[e[1]]) + 1
        /\ \A i \in 1 .. Len(topic[e[1]]) : topic'[e[1]][i] = topic[e[1]][i]
        /\ topic'[e[1]][Len(topic[e[1]]) + 1] = e[2]
    BY <2>1, <2>2, AppendProperties, LenProperties
  <2>4. ASSUME NEW t \in Topics, NEW i \in 1 .. Len(topic'[t])
        PROVE  <<t, topic'[t][i]>> \in Events
    <3>1. CASE t # e[1]
      BY <2>2, <3>1
    <3>2. CASE t = e[1]
      <4>1. i \in 1 .. Len(topic[e[1]]) + 1
        BY <2>3, <3>2
      <4>2. i \in 1 .. Len(topic[e[1]]) \/ i = Len(topic[e[1]]) + 1
        BY <2>3, <4>1
      <4>3. CASE i \in 1 .. Len(topic[e[1]])
        BY <2>1, <2>3, <3>2, <4>3
      <4>4. CASE i = Len(topic[e[1]]) + 1
        BY <2>1, <2>3, <3>2, <4>4
      <4>5. QED
        BY <4>2, <4>3, <4>4
    <3>3. QED
      BY <3>1, <3>2
  <2>5. handling # Nothing => position[handling] < Len(topic'[handling])
    <3> SUFFICES ASSUME handling # Nothing PROVE position[handling] < Len(topic'[handling])
      OBVIOUS
    <3>1. handling \in Topics /\ position[handling] < Len(topic[handling])
      OBVIOUS
    <3>2. position[handling] \in Nat
      BY <3>1
    <3>3. CASE handling # e[1]
      BY ONLY <2>2, <3>1, <3>3
    <3>4. CASE handling = e[1]
      BY ONLY <2>3, <3>1, <3>2, <3>4
    <3>5. QED
      BY <3>3, <3>4
  <2>6. QED
    BY <2>2, <2>4, <2>5
<1>13. ASSUME NEW e \in Events, EmitFails(e) PROVE Causes'
  BY <1>13 DEF EmitFails, Fault
<1>14. ASSUME SkipOwnFavorite PROVE Causes'
  BY <1>14 DEF SkipOwnFavorite, Advance
<1>15. ASSUME NEW t \in Topics, Handle(t) PROVE Causes'
  <2>1. /\ UNCHANGED <<topic, position, stray, requests>> /\ handling' = t
        /\ position[t] < Len(topic[t])
        /\ recipients' \subseteq IF t = "created" THEN Followers ELSE {Author}
    BY <1>15 DEF Handle
  <2>2. t # Nothing
    BY DEF Topics, Nothing
  <2>3. QED
    BY <2>1, <2>2
<1>16. ASSUME NEW p \in People, Enqueue(p) PROVE Causes'
  BY <1>16 DEF Enqueue, AddJob
<1>17. ASSUME Handled PROVE Causes'
  BY <1>17 DEF Handled, Advance
<1>18. ASSUME NEW p \in People, EnqueueFails(p) PROVE Causes'
  <2>1. /\ UNCHANGED <<topic, requests>> /\ handling' = Nothing /\ recipients' = {}
        /\ stray' = stray \union {<<JobId(handling, q), NextEvent(handling)>> : q \in todo \ {p}}
        /\ p \in todo
    BY <1>18 DEF EnqueueFails
  <2>2. <<handling, NextEvent(handling)>> \in Events
    BY <2>1, InHand
  <2>3. ASSUME NEW m \in stray' PROVE <<m[1][1], m[2]>> \in Events
    <3>1. CASE m \in stray
      BY <3>1
    <3>2. CASE m \notin stray
      <4>1. PICK q \in todo : m = <<JobId(handling, q), NextEvent(handling)>>
        BY <2>1, <3>2
      <4>2. m[1][1] = handling /\ m[2] = NextEvent(handling)
        BY <4>1 DEF JobId
      <4>3. QED
        BY <2>2, <4>2
    <3>3. QED
      BY <3>1, <3>2
  <2>4. QED
    BY <2>1, <2>3 DEF Nothing
<1>19. ASSUME NEW m \in stray, EnqueueStray(m) PROVE Causes'
  BY <1>19 DEF EnqueueStray, AddJob
<1>20. ASSUME Worker PROVE Causes'
  BY <1>20 DEF Worker, others
<1>21. ASSUME NEW j \in JobIds, FailedJobExpires(j) PROVE Causes'
  BY <1>21 DEF FailedJobExpires, others
<1>22. ASSUME Crash PROVE Causes'
  BY <1>22 DEF Crash, Fault
<1>23. ASSUME UNCHANGED vars PROVE Causes'
  BY <1>23 DEF vars
<1>24. QED
  BY <1>1, <1>2, <1>3, <1>4, <1>5, <1>6, <1>7, <1>8, <1>9, <1>10, <1>11, <1>12,
     <1>13, <1>14, <1>15, <1>16, <1>17, <1>18, <1>19, <1>20, <1>21, <1>22, <1>23 DEF Next, Arrive, Serve, Consume

\* Fewer requests that may emit, and fewer events in flight, fit as well ...
LEMMA Settled ==
  ASSUME EventsFit, emitted \in Nat,
         Emitting' \subseteq Emitting, emitted' = emitted,
         \A e \in Events : inFlight[e] \in Nat /\ inFlight'[e] \in Nat /\ inFlight'[e] <= inFlight[e]
  PROVE  EventsFit'
<1>1. /\ IsFiniteSet(Emitting') /\ Cardinality(Emitting') <= Cardinality(Emitting)
  BY FS_Subset DEF EventsFit
<1>2. Cardinality(Emitting') \in Nat /\ Cardinality(Emitting) \in Nat
  BY <1>1, FS_CardinalityType DEF EventsFit
<1>3. QED
  BY <1>1, <1>2 DEF EventsFit

\* ... and one more request does while an event is left.
LEMMA Begun ==
  ASSUME EventsFit, emitted \in Nat, NEW r,
         emitted + Cardinality(Emitting) < MaxEvents,
         Emitting' = Emitting \union {r}, emitted' = emitted, inFlight' = inFlight
  PROVE  EventsFit'
<1>1. /\ IsFiniteSet(Emitting \union {r})
      /\ Cardinality(Emitting \union {r}) =
           IF r \in Emitting THEN Cardinality(Emitting) ELSE Cardinality(Emitting) + 1
  BY FS_AddElement DEF EventsFit
<1>2. Cardinality(Emitting \union {r}) \in Nat /\ Cardinality(Emitting) \in Nat
  BY <1>1, FS_CardinalityType DEF EventsFit
<1>3. QED
  BY <1>1, <1>2 DEF EventsFit

\* An event is emitted by a request for which there is room.
LEMMA StepEventsFit == TypeOK /\ EventsFit /\ [Next]_vars => EventsFit'
<1> SUFFICES ASSUME TypeOK, EventsFit, [Next]_vars PROVE EventsFit'
  OBVIOUS
<1> USE DEF Goto, Finish, database, requests, producer, consumer, history, TypeOK
<1>0. /\ emitted \in Nat /\ MaxEvents \in Nat
      /\ inFlight \in [Events -> 0 .. MaxEvents] /\ \A e \in Events : inFlight[e] \in Nat
  OBVIOUS
<1>1. ASSUME NEW r \in Requests, Create(r) PROVE EventsFit'
  <2>1. Emitting' = Emitting \union {r} /\ emitted' = emitted /\ inFlight' = inFlight
    BY <1>1 DEF Create, Emitting
  <2>2. emitted + Cardinality(Emitting) < MaxEvents
    BY <1>1 DEF Create, EventsLeft
  <2>3. QED
    BY <1>0, <2>1, <2>2, Begun
<1>2. ASSUME NEW r \in Requests, NEW u \in Readers, FavoriteRead(r, u) PROVE EventsFit'
  <2>1. Emitting' = Emitting \union {r} /\ emitted' = emitted /\ inFlight' = inFlight
    BY <1>2 DEF FavoriteRead, Emitting
  <2>2. emitted + Cardinality(Emitting) < MaxEvents
    BY <1>2 DEF FavoriteRead, EventsLeft
  <2>3. QED
    BY <1>0, <2>1, <2>2, Begun
<1>3. ASSUME NEW r \in Requests, NEW u \in Readers, UnfavoriteRead(r, u) PROVE EventsFit'
  <2>1. /\ Emitting' \subseteq Emitting /\ emitted' = emitted
        /\ \A d \in Events : inFlight'[d] \in Nat /\ inFlight'[d] <= inFlight[d]
    BY <1>3, <1>0 DEF UnfavoriteRead, Emitting
  <2>2. QED
    BY <1>0, <2>1, Settled
<1>4. ASSUME NEW r \in Requests, FavoriteWrite(r) PROVE EventsFit'
  <2>1. /\ Emitting' \subseteq Emitting /\ emitted' = emitted
        /\ \A d \in Events : inFlight'[d] \in Nat /\ inFlight'[d] <= inFlight[d]
    BY <1>4, <1>0 DEF FavoriteWrite, Connect, Emitting
  <2>2. QED
    BY <1>0, <2>1, Settled
<1>5. ASSUME NEW r \in Requests, FavoriteCollides(r) PROVE EventsFit'
  <2>1. /\ Emitting' \subseteq Emitting /\ emitted' = emitted
        /\ \A d \in Events : inFlight'[d] \in Nat /\ inFlight'[d] <= inFlight[d]
    BY <1>5, <1>0 DEF FavoriteCollides, Emitting
  <2>2. QED
    BY <1>0, <2>1, Settled
<1>6. ASSUME NEW r \in Requests, FavoriteReread(r) PROVE EventsFit'
  <2>1. /\ Emitting' \subseteq Emitting /\ emitted' = emitted
        /\ \A d \in Events : inFlight'[d] \in Nat /\ inFlight'[d] <= inFlight[d]
    BY <1>6, <1>0 DEF FavoriteReread, Emitting
  <2>2. QED
    BY <1>0, <2>1, Settled
<1>7. ASSUME NEW r \in Requests, ArticleGone(r) PROVE EventsFit'
  <2>1. /\ Emitting' \subseteq Emitting /\ emitted' = emitted
        /\ \A d \in Events : inFlight'[d] \in Nat /\ inFlight'[d] <= inFlight[d]
    BY <1>7, <1>0 DEF ArticleGone, Emitting
  <2>2. QED
    BY <1>0, <2>1, Settled
<1>8. ASSUME NEW r \in Requests, Emit(r) PROVE EventsFit'
  <2>1. Emitting' = Emitting \ {r} /\ r \in Emitting /\ emitted' = emitted + 1
    BY <1>8 DEF Emit, Emitting
  <2>2. \A e \in Events : inFlight'[e] = inFlight[e] \/ inFlight'[e] = inFlight[e] + 1
    BY <1>8 DEF Emit
  <2>3. /\ IsFiniteSet(Emitting \ {r})
        /\ emitted + 1 + Cardinality(Emitting \ {r}) <= MaxEvents
    BY <1>0, <2>1, Room DEF EventsFit
  <2> HIDE DEF TypeOK
  <2>4. \A e \in Events : inFlight'[e] <= emitted'
    BY <1>0, <2>1, <2>2 DEF EventsFit
  <2>5. QED
    BY <2>1, <2>3, <2>4 DEF EventsFit
<1>9. ASSUME NEW r \in Requests, UnfavoriteWrite(r) PROVE EventsFit'
  <2>1. /\ Emitting' \subseteq Emitting /\ emitted' = emitted
        /\ \A d \in Events : inFlight'[d] \in Nat /\ inFlight'[d] <= inFlight[d]
    BY <1>9, <1>0 DEF UnfavoriteWrite, Emitting
  <2>2. QED
    BY <1>0, <2>1, Settled
<1>10. ASSUME NEW r \in Requests, ActorLookupFails(r) PROVE EventsFit'
  <2>1. /\ Emitting' \subseteq Emitting /\ emitted' = emitted
        /\ \A d \in Events : inFlight'[d] \in Nat /\ inFlight'[d] <= inFlight[d]
    BY <1>10, <1>0 DEF ActorLookupFails, Connect, Fault, Emitting
  <2>2. QED
    BY <1>0, <2>1, Settled
<1>11. ASSUME Delete PROVE EventsFit'
  <2>1. /\ Emitting' \subseteq Emitting /\ emitted' = emitted
        /\ \A d \in Events : inFlight'[d] \in Nat /\ inFlight'[d] <= inFlight[d]
    BY <1>11, <1>0 DEF Delete, Emitting
  <2>2. QED
    BY <1>0, <2>1, Settled
<1>12. ASSUME NEW e \in Events, Publish(e) PROVE EventsFit'
  <2>1. /\ Emitting' \subseteq Emitting /\ emitted' = emitted
        /\ \A d \in Events : inFlight'[d] \in Nat /\ inFlight'[d] <= inFlight[d]
    BY <1>12, <1>0 DEF Publish, Emitting
  <2>2. QED
    BY <1>0, <2>1, Settled
<1>13. ASSUME NEW e \in Events, EmitFails(e) PROVE EventsFit'
  <2>1. /\ Emitting' \subseteq Emitting /\ emitted' = emitted
        /\ \A d \in Events : inFlight'[d] \in Nat /\ inFlight'[d] <= inFlight[d]
    BY <1>13, <1>0 DEF EmitFails, Fault, Emitting
  <2>2. QED
    BY <1>0, <2>1, Settled
<1>14. ASSUME SkipOwnFavorite PROVE EventsFit'
  <2>1. /\ Emitting' \subseteq Emitting /\ emitted' = emitted
        /\ \A d \in Events : inFlight'[d] \in Nat /\ inFlight'[d] <= inFlight[d]
    BY <1>14, <1>0 DEF SkipOwnFavorite, Advance, Emitting
  <2>2. QED
    BY <1>0, <2>1, Settled
<1>15. ASSUME NEW t \in Topics, Handle(t) PROVE EventsFit'
  <2>1. /\ Emitting' \subseteq Emitting /\ emitted' = emitted
        /\ \A d \in Events : inFlight'[d] \in Nat /\ inFlight'[d] <= inFlight[d]
    BY <1>15, <1>0 DEF Handle, Emitting
  <2>2. QED
    BY <1>0, <2>1, Settled
<1>16. ASSUME NEW p \in People, Enqueue(p) PROVE EventsFit'
  <2>1. /\ Emitting' \subseteq Emitting /\ emitted' = emitted
        /\ \A d \in Events : inFlight'[d] \in Nat /\ inFlight'[d] <= inFlight[d]
    BY <1>16, <1>0 DEF Enqueue, AddJob, Emitting
  <2>2. QED
    BY <1>0, <2>1, Settled
<1>17. ASSUME Handled PROVE EventsFit'
  <2>1. /\ Emitting' \subseteq Emitting /\ emitted' = emitted
        /\ \A d \in Events : inFlight'[d] \in Nat /\ inFlight'[d] <= inFlight[d]
    BY <1>17, <1>0 DEF Handled, Advance, Emitting
  <2>2. QED
    BY <1>0, <2>1, Settled
<1>18. ASSUME NEW p \in People, EnqueueFails(p) PROVE EventsFit'
  <2>1. /\ Emitting' \subseteq Emitting /\ emitted' = emitted
        /\ \A d \in Events : inFlight'[d] \in Nat /\ inFlight'[d] <= inFlight[d]
    BY <1>18, <1>0 DEF EnqueueFails, AddJob, Fault, Emitting
  <2>2. QED
    BY <1>0, <2>1, Settled
<1>19. ASSUME NEW m \in stray, EnqueueStray(m) PROVE EventsFit'
  <2>1. /\ Emitting' \subseteq Emitting /\ emitted' = emitted
        /\ \A d \in Events : inFlight'[d] \in Nat /\ inFlight'[d] <= inFlight[d]
    BY <1>19, <1>0 DEF EnqueueStray, AddJob, Emitting
  <2>2. QED
    BY <1>0, <2>1, Settled
<1>20. ASSUME Worker PROVE EventsFit'
  <2>1. /\ Emitting' \subseteq Emitting /\ emitted' = emitted
        /\ \A d \in Events : inFlight'[d] \in Nat /\ inFlight'[d] <= inFlight[d]
    BY <1>20, <1>0 DEF Worker, others, Emitting
  <2>2. QED
    BY <1>0, <2>1, Settled
<1>21. ASSUME NEW j \in JobIds, FailedJobExpires(j) PROVE EventsFit'
  <2>1. /\ Emitting' \subseteq Emitting /\ emitted' = emitted
        /\ \A d \in Events : inFlight'[d] \in Nat /\ inFlight'[d] <= inFlight[d]
    BY <1>21, <1>0 DEF FailedJobExpires, others, Emitting
  <2>2. QED
    BY <1>0, <2>1, Settled
<1>22. ASSUME Crash PROVE EventsFit'
  <2>1. /\ Emitting' \subseteq Emitting /\ emitted' = emitted
        /\ \A d \in Events : inFlight'[d] \in Nat /\ inFlight'[d] <= inFlight[d]
    BY <1>22, <1>0 DEF Crash, Fault, Emitting
  <2>2. QED
    BY <1>0, <2>1, Settled
<1>23. ASSUME UNCHANGED vars PROVE EventsFit'
  <2>1. /\ Emitting' \subseteq Emitting /\ emitted' = emitted
        /\ \A d \in Events : inFlight'[d] \in Nat /\ inFlight'[d] <= inFlight[d]
    BY <1>23, <1>0 DEF vars, Emitting
  <2>2. QED
    BY <1>0, <2>1, Settled
<1>24. QED
  BY <1>1, <1>2, <1>3, <1>4, <1>5, <1>6, <1>7, <1>8, <1>9, <1>10, <1>11, <1>12,
     <1>13, <1>14, <1>15, <1>16, <1>17, <1>18, <1>19, <1>20, <1>21, <1>22, <1>23 DEF Next, Arrive, Serve, Consume

\* TypeOK in parts: requests and articles, events, the consumer, and history.
RequestTypes ==
  /\ article \in {"none", "published", "deleted"}
  /\ favorited \subseteq Readers
  /\ pc \in [Requests -> {"idle", "connect", "reread", "emit", "emitCreated", "disconnect"}]
  /\ user \in [Requests -> People]
EventTypes ==
  /\ inFlight \in [Events -> 0 .. MaxEvents]
  /\ emitted \in 0 .. MaxEvents
  /\ faults \in 0 .. MaxFaults
ConsumerTypes ==
  /\ topic \in [Topics -> Seq(People)]
  /\ position \in [Topics -> Nat]
  /\ \A t \in Topics : position[t] <= Len(topic[t])
  /\ handling \in Topics \union {Nothing}
  /\ todo \subseteq recipients
  /\ recipients \subseteq People
  /\ stray \subseteq JobIds \X People

HistoryTypes ==
  /\ told \in [Followers -> Nat]
  /\ added \in [Readers -> Nat]
  /\ lost \in [Readers -> Nat]

\* The parts and the queue are all of it.
LEMMA TypeParts == TypeOK <=> /\ RequestTypes /\ EventTypes /\ ConsumerTypes /\ HistoryTypes
                              /\ jobs \in [JobIds -> Job]
  BY DEF TypeOK, RequestTypes, EventTypes, ConsumerTypes, HistoryTypes

\* Requests stay where the service can be.
LEMMA StepRequestTypes == RequestTypes /\ Causes /\ [Next]_vars => RequestTypes'
<1> SUFFICES ASSUME RequestTypes, Causes, [Next]_vars PROVE RequestTypes'
  OBVIOUS
<1> USE DEF Goto, Finish, database, requests, producer, consumer, history, RequestTypes, Causes, People
<1>1. ASSUME NEW r \in Requests, Create(r) PROVE RequestTypes'
  BY <1>1 DEF Create
<1>2. ASSUME NEW r \in Requests, NEW u \in Readers, FavoriteRead(r, u) PROVE RequestTypes'
  BY <1>2 DEF FavoriteRead
<1>3. ASSUME NEW r \in Requests, NEW u \in Readers, UnfavoriteRead(r, u) PROVE RequestTypes'
  BY <1>3 DEF UnfavoriteRead
<1>4. ASSUME NEW r \in Requests, FavoriteWrite(r) PROVE RequestTypes'
  BY <1>4 DEF FavoriteWrite, Connect
<1>5. ASSUME NEW r \in Requests, FavoriteCollides(r) PROVE RequestTypes'
  BY <1>5 DEF FavoriteCollides
<1>6. ASSUME NEW r \in Requests, FavoriteReread(r) PROVE RequestTypes'
  BY <1>6 DEF FavoriteReread
<1>7. ASSUME NEW r \in Requests, ArticleGone(r) PROVE RequestTypes'
  BY <1>7 DEF ArticleGone
<1>8. ASSUME NEW r \in Requests, Emit(r) PROVE RequestTypes'
  BY <1>8 DEF Emit, EventOf
<1>9. ASSUME NEW r \in Requests, UnfavoriteWrite(r) PROVE RequestTypes'
  BY <1>9 DEF UnfavoriteWrite
<1>10. ASSUME NEW r \in Requests, ActorLookupFails(r) PROVE RequestTypes'
  BY <1>10 DEF ActorLookupFails, Connect, Fault
<1>11. ASSUME Delete PROVE RequestTypes'
  BY <1>11 DEF Delete
<1>12. ASSUME NEW e \in Events, Publish(e) PROVE RequestTypes'
  BY <1>12 DEF Publish
<1>13. ASSUME NEW e \in Events, EmitFails(e) PROVE RequestTypes'
  BY <1>13 DEF EmitFails, Fault
<1>14. ASSUME SkipOwnFavorite PROVE RequestTypes'
  BY <1>14 DEF SkipOwnFavorite, Advance
<1>15. ASSUME NEW t \in Topics, Handle(t) PROVE RequestTypes'
  BY <1>15 DEF Handle
<1>16. ASSUME NEW p \in People, Enqueue(p) PROVE RequestTypes'
  BY <1>16 DEF Enqueue, AddJob
<1>17. ASSUME Handled PROVE RequestTypes'
  BY <1>17 DEF Handled, Advance
<1>18. ASSUME NEW p \in People, EnqueueFails(p) PROVE RequestTypes'
  BY <1>18 DEF EnqueueFails, AddJob, Fault
<1>19. ASSUME NEW m \in stray, EnqueueStray(m) PROVE RequestTypes'
  BY <1>19 DEF EnqueueStray, AddJob
<1>20. ASSUME Worker PROVE RequestTypes'
  BY <1>20 DEF Worker, others
<1>21. ASSUME NEW j \in JobIds, FailedJobExpires(j) PROVE RequestTypes'
  BY <1>21 DEF FailedJobExpires, others
<1>22. ASSUME Crash PROVE RequestTypes'
  BY <1>22 DEF Crash, Fault
<1>23. ASSUME UNCHANGED vars PROVE RequestTypes'
  BY <1>23 DEF vars
<1>24. QED
  BY <1>1, <1>2, <1>3, <1>4, <1>5, <1>6, <1>7, <1>8, <1>9, <1>10, <1>11, <1>12,
     <1>13, <1>14, <1>15, <1>16, <1>17, <1>18, <1>19, <1>20, <1>21, <1>22, <1>23 DEF Next, Arrive, Serve, Consume

\* Events are counted within their bounds.
LEMMA StepEventTypes == EventTypes /\ EventsFit /\ Causes /\ [Next]_vars => EventTypes'
<1> SUFFICES ASSUME EventTypes, EventsFit, Causes, [Next]_vars PROVE EventTypes'
  OBVIOUS
<1> USE DEF Goto, Finish, database, requests, producer, consumer, history, EventTypes
<1>1. ASSUME NEW r \in Requests, Create(r) PROVE EventTypes'
  BY <1>1 DEF Create
<1>2. ASSUME NEW r \in Requests, NEW u \in Readers, FavoriteRead(r, u) PROVE EventTypes'
  BY <1>2 DEF FavoriteRead
<1>3. ASSUME NEW r \in Requests, NEW u \in Readers, UnfavoriteRead(r, u) PROVE EventTypes'
  BY <1>3 DEF UnfavoriteRead
<1>4. ASSUME NEW r \in Requests, FavoriteWrite(r) PROVE EventTypes'
  BY <1>4 DEF FavoriteWrite, Connect
<1>5. ASSUME NEW r \in Requests, FavoriteCollides(r) PROVE EventTypes'
  BY <1>5 DEF FavoriteCollides
<1>6. ASSUME NEW r \in Requests, FavoriteReread(r) PROVE EventTypes'
  BY <1>6 DEF FavoriteReread
<1>7. ASSUME NEW r \in Requests, ArticleGone(r) PROVE EventTypes'
  BY <1>7 DEF ArticleGone
<1>8. ASSUME NEW r \in Requests, Emit(r) PROVE EventTypes'
  <2>1. EventOf(r) \in Events /\ r \in Emitting
    BY <1>8 DEF Emit, EventOf, Events, Causes, Emitting
  <2>2. emitted + 1 + Cardinality(Emitting \ {r}) <= MaxEvents /\ Cardinality(Emitting \ {r}) \in Nat
    <3>1. /\ IsFiniteSet(Emitting) /\ emitted \in Nat /\ MaxEvents \in Nat
          /\ emitted + Cardinality(Emitting) <= MaxEvents
      BY DEF EventsFit
    <3>2. QED
      BY ONLY <2>1, <3>1, Room
  <2>3. emitted + 1 <= MaxEvents
    BY <2>2
  <2>4. /\ inFlight' = [inFlight EXCEPT ![EventOf(r)] = inFlight[EventOf(r)] + 1]
        /\ inFlight[EventOf(r)] + 1 \in 0 .. MaxEvents
    BY <1>8, <2>1, <2>3 DEF Emit, EventsFit
  <2>5. emitted' \in 0 .. MaxEvents /\ UNCHANGED faults
    BY <1>8, <2>3 DEF Emit
  <2>6. inFlight' \in [Events -> 0 .. MaxEvents]
    BY <2>1, <2>4
  <2>7. QED
    BY <2>5, <2>6
<1>9. ASSUME NEW r \in Requests, UnfavoriteWrite(r) PROVE EventTypes'
  BY <1>9 DEF UnfavoriteWrite
<1>10. ASSUME NEW r \in Requests, ActorLookupFails(r) PROVE EventTypes'
  BY <1>10 DEF ActorLookupFails, Connect, Fault
<1>11. ASSUME Delete PROVE EventTypes'
  BY <1>11 DEF Delete
<1>12. ASSUME NEW e \in Events, Publish(e) PROVE EventTypes'
  BY <1>12 DEF Publish
<1>13. ASSUME NEW e \in Events, EmitFails(e) PROVE EventTypes'
  BY <1>13 DEF EmitFails, Fault
<1>14. ASSUME SkipOwnFavorite PROVE EventTypes'
  BY <1>14 DEF SkipOwnFavorite, Advance
<1>15. ASSUME NEW t \in Topics, Handle(t) PROVE EventTypes'
  BY <1>15 DEF Handle
<1>16. ASSUME NEW p \in People, Enqueue(p) PROVE EventTypes'
  BY <1>16 DEF Enqueue, AddJob
<1>17. ASSUME Handled PROVE EventTypes'
  BY <1>17 DEF Handled, Advance
<1>18. ASSUME NEW p \in People, EnqueueFails(p) PROVE EventTypes'
  BY <1>18 DEF EnqueueFails, AddJob, Fault
<1>19. ASSUME NEW m \in stray, EnqueueStray(m) PROVE EventTypes'
  BY <1>19 DEF EnqueueStray, AddJob
<1>20. ASSUME Worker PROVE EventTypes'
  BY <1>20 DEF Worker, others
<1>21. ASSUME NEW j \in JobIds, FailedJobExpires(j) PROVE EventTypes'
  BY <1>21 DEF FailedJobExpires, others
<1>22. ASSUME Crash PROVE EventTypes'
  BY <1>22 DEF Crash, Fault
<1>23. ASSUME UNCHANGED vars PROVE EventTypes'
  BY <1>23 DEF vars
<1>24. QED
  BY <1>1, <1>2, <1>3, <1>4, <1>5, <1>6, <1>7, <1>8, <1>9, <1>10, <1>11, <1>12,
     <1>13, <1>14, <1>15, <1>16, <1>17, <1>18, <1>19, <1>20, <1>21, <1>22, <1>23 DEF Next, Arrive, Serve, Consume

\* The consumer keeps to its topics.
LEMMA StepConsumerTypes == TypeOK /\ ConsumerTypes /\ Causes /\ [Next]_vars => ConsumerTypes'
<1> SUFFICES ASSUME TypeOK, ConsumerTypes, Causes, [Next]_vars PROVE ConsumerTypes'
  OBVIOUS
<1> USE DEF Goto, Finish, database, requests, producer, consumer, history, ConsumerTypes
<1>1. ASSUME NEW r \in Requests, Create(r) PROVE ConsumerTypes'
  BY <1>1 DEF Create
<1>2. ASSUME NEW r \in Requests, NEW u \in Readers, FavoriteRead(r, u) PROVE ConsumerTypes'
  BY <1>2 DEF FavoriteRead
<1>3. ASSUME NEW r \in Requests, NEW u \in Readers, UnfavoriteRead(r, u) PROVE ConsumerTypes'
  BY <1>3 DEF UnfavoriteRead
<1>4. ASSUME NEW r \in Requests, FavoriteWrite(r) PROVE ConsumerTypes'
  BY <1>4 DEF FavoriteWrite, Connect
<1>5. ASSUME NEW r \in Requests, FavoriteCollides(r) PROVE ConsumerTypes'
  BY <1>5 DEF FavoriteCollides
<1>6. ASSUME NEW r \in Requests, FavoriteReread(r) PROVE ConsumerTypes'
  BY <1>6 DEF FavoriteReread
<1>7. ASSUME NEW r \in Requests, ArticleGone(r) PROVE ConsumerTypes'
  BY <1>7 DEF ArticleGone
<1>8. ASSUME NEW r \in Requests, Emit(r) PROVE ConsumerTypes'
  BY <1>8 DEF Emit, EventOf
<1>9. ASSUME NEW r \in Requests, UnfavoriteWrite(r) PROVE ConsumerTypes'
  BY <1>9 DEF UnfavoriteWrite
<1>10. ASSUME NEW r \in Requests, ActorLookupFails(r) PROVE ConsumerTypes'
  BY <1>10 DEF ActorLookupFails, Connect, Fault
<1>11. ASSUME Delete PROVE ConsumerTypes'
  BY <1>11 DEF Delete
<1>12. ASSUME NEW e \in Events, Publish(e) PROVE ConsumerTypes'
  <2>1. e[1] \in Topics /\ e[2] \in People
    BY Names DEF People
  <2>2. /\ topic' = [topic EXCEPT ![e[1]] = Append(topic[e[1]], e[2])]
        /\ UNCHANGED <<position, handling, todo, recipients, stray>>
    BY <1>12 DEF Publish
  <2>3. /\ Append(topic[e[1]], e[2]) \in Seq(People)
        /\ Len(Append(topic[e[1]], e[2])) = Len(topic[e[1]]) + 1
        /\ \A t \in Topics : Len(topic[t]) \in Nat
    BY <2>1, AppendProperties, LenProperties
  <2>4. \A t \in Topics : position[t] <= Len(topic'[t])
    BY <2>1, <2>2, <2>3
  <2>5. QED
    BY <2>1, <2>2, <2>3, <2>4
<1>13. ASSUME NEW e \in Events, EmitFails(e) PROVE ConsumerTypes'
  BY <1>13 DEF EmitFails, Fault
<1>14. ASSUME SkipOwnFavorite PROVE ConsumerTypes'
  <2>1. /\ position["favorited"] < Len(topic["favorited"])
        /\ position' = [position EXCEPT !["favorited"] = position["favorited"] + 1]
        /\ UNCHANGED <<topic, stray>> /\ handling' = Nothing /\ recipients' = {} /\ todo' = {}
    BY <1>14 DEF SkipOwnFavorite, Advance
  <2>2. \A t \in Topics : Len(topic[t]) \in Nat
    BY LenProperties
  <2>3. QED
    BY <2>1, <2>2 DEF Topics
<1>15. ASSUME NEW t \in Topics, Handle(t) PROVE ConsumerTypes'
  <2>1. /\ UNCHANGED <<topic, position, stray>> /\ handling' = t /\ todo' = recipients'
        /\ recipients' \subseteq Followers \union {Author}
    BY <1>15 DEF Handle
  <2>2. QED
    BY <2>1 DEF People
<1>16. ASSUME NEW p \in People, Enqueue(p) PROVE ConsumerTypes'
  BY <1>16 DEF Enqueue, AddJob
<1>17. ASSUME Handled PROVE ConsumerTypes'
  <2>1. /\ handling \in Topics
        /\ position' = [position EXCEPT ![handling] = position[handling] + 1]
        /\ UNCHANGED <<topic, stray>> /\ handling' = Nothing /\ recipients' = {} /\ todo' = {}
    BY <1>17 DEF Handled, Advance
  <2>2. position[handling] < Len(topic[handling]) /\ \A t \in Topics : Len(topic[t]) \in Nat
    BY <2>1, LenProperties DEF Causes, Topics, Nothing
  <2>3. QED
    BY <2>1, <2>2
<1>18. ASSUME NEW p \in People, EnqueueFails(p) PROVE ConsumerTypes'
  <2>1. /\ UNCHANGED <<topic, position>> /\ handling' = Nothing /\ recipients' = {} /\ todo' = {}
        /\ p \in todo
        /\ stray' = stray \union {<<JobId(handling, q), NextEvent(handling)>> : q \in todo \ {p}}
    BY <1>18 DEF EnqueueFails
  <2>2. stray' \subseteq JobIds \X People
    BY <2>1, InHand DEF People
  <2>3. QED
    BY <2>1, <2>2
<1>19. ASSUME NEW m \in stray, EnqueueStray(m) PROVE ConsumerTypes'
  BY <1>19 DEF EnqueueStray, AddJob
<1>20. ASSUME Worker PROVE ConsumerTypes'
  BY <1>20 DEF Worker, others
<1>21. ASSUME NEW j \in JobIds, FailedJobExpires(j) PROVE ConsumerTypes'
  BY <1>21 DEF FailedJobExpires, others
<1>22. ASSUME Crash PROVE ConsumerTypes'
  BY <1>22 DEF Crash, Fault
<1>23. ASSUME UNCHANGED vars PROVE ConsumerTypes'
  BY <1>23 DEF vars
<1>24. QED
  BY <1>1, <1>2, <1>3, <1>4, <1>5, <1>6, <1>7, <1>8, <1>9, <1>10, <1>11, <1>12,
     <1>13, <1>14, <1>15, <1>16, <1>17, <1>18, <1>19, <1>20, <1>21, <1>22, <1>23 DEF Next, Arrive, Serve, Consume

\* Jobs keep their form and an attempt; a follower's job only comes with its mail
\* noted as queued, and notes are never taken back.
LEMMA JobsMove ==
  ASSUME TypeOK, AttemptLeft, Causes, [Next]_vars
  PROVE  /\ jobs' \in [JobIds -> Job] /\ AttemptLeft' /\ queued \subseteq queued'
         /\ \A u \in Followers : jobs'[JobId("created", u)].state # Free =>
              jobs[JobId("created", u)].state # Free \/ MailOf(u) \in queued'
<1>0. jobs \in [JobIds -> Job]
  BY DEF TypeOK
<1>1. ASSUME NEW j \in JobIds, NEW d \in Readers \union {Author}, AddJob(j, d),
             \A u \in Followers : j = JobId("created", u) => d = Author
      PROVE  /\ jobs' \in [JobIds -> Job] /\ AttemptLeft' /\ queued \subseteq queued'
             /\ \A u \in Followers : jobs'[JobId("created", u)].state # Free =>
                  jobs[JobId("created", u)].state # Free \/ MailOf(u) \in queued'
  <2>1. /\ jobs' \in [JobIds -> Job] /\ AttemptLeft'
        /\ \A i \in JobIds : i # j /\ jobs'[i].state # Free => jobs[i].state # Free
    BY <1>0, <1>1, AddedJobs DEF AddJob
  <2>2. queued \subseteq queued' /\ (jobs[j].state = Free => <<j, d>> \in queued')
    BY <1>1 DEF AddJob
  <2>3. QED
    BY <1>1, <2>1, <2>2, Names DEF MailOf
<1>2. ASSUME Work \/ (\E j \in JobIds : Forget(j)) \/ jobs' = Stalled \/ UNCHANGED jobs,
             UNCHANGED queued
      PROVE  /\ jobs' \in [JobIds -> Job] /\ AttemptLeft' /\ queued \subseteq queued'
             /\ \A u \in Followers : jobs'[JobId("created", u)].state # Free =>
                  jobs[JobId("created", u)].state # Free \/ MailOf(u) \in queued'
  BY <1>0, <1>2, WorkedJobs, Names
<1>3. ASSUME NEW p \in todo, AddJob(JobId(handling, p), NextEvent(handling))
      PROVE  \E j \in JobIds, d \in Readers \union {Author} :
               /\ AddJob(j, d)
               /\ \A u \in Followers : j = JobId("created", u) => d = Author
  <2>1. /\ JobId(handling, p) \in JobIds /\ NextEvent(handling) \in Readers \union {Author}
        /\ handling = "created" => NextEvent(handling) = Author
    BY InHand
  <2>2. \A u : JobId(handling, p) = JobId("created", u) => handling = "created"
    BY DEF JobId
  <2>3. QED
    BY <1>3, <2>1, <2>2
<1>4. ASSUME NEW p \in People, Enqueue(p) \/ EnqueueFails(p)
      PROVE  \/ \E j \in JobIds, d \in Readers \union {Author} :
                  /\ AddJob(j, d)
                  /\ \A u \in Followers : j = JobId("created", u) => d = Author
             \/ UNCHANGED <<jobs, queued>>
  <2>1. p \in todo
    BY <1>4 DEF Enqueue, EnqueueFails
  <2>2. AddJob(JobId(handling, p), NextEvent(handling)) \/ UNCHANGED <<jobs, queued>>
    BY <1>4 DEF Enqueue, EnqueueFails
  <2>3. QED
    BY <1>3, <2>1, <2>2
<1>5. ASSUME NEW m \in stray, EnqueueStray(m)
      PROVE  \E j \in JobIds, d \in Readers \union {Author} :
               /\ AddJob(j, d)
               /\ \A u \in Followers : j = JobId("created", u) => d = Author
  <2>1. m[1] \in JobIds /\ <<m[1][1], m[2]>> \in Events
    BY DEF TypeOK, Causes
  <2>2. m[2] \in Readers \union {Author} /\ (m[1][1] = "created" => m[2] = Author)
    BY <2>1 DEF Events
  <2>3. \A u : m[1] = JobId("created", u) => m[1][1] = "created"
    BY DEF JobId
  <2>4. QED
    BY <1>5, <2>1, <2>2, <2>3 DEF EnqueueStray
<1>6. ASSUME NEW r \in Requests, Arrive(r) \/ Serve(r) \/ ActorLookupFails(r)
      PROVE  UNCHANGED <<jobs, queued>>
  BY <1>6 DEF Arrive, Serve, Create, FavoriteRead, UnfavoriteRead, FavoriteWrite, FavoriteCollides,
              FavoriteReread, ArticleGone, Emit, UnfavoriteWrite, ActorLookupFails, history
<1>7. ASSUME NEW e \in Events, Publish(e) \/ EmitFails(e) PROVE UNCHANGED <<jobs, queued>>
  BY <1>7 DEF Publish, EmitFails, history
<1>8. ASSUME \/ Delete \/ SkipOwnFavorite \/ Handled \/ UNCHANGED vars
             \/ \E t \in Topics : Handle(t)
      PROVE  UNCHANGED <<jobs, queued>>
  BY <1>8 DEF Delete, SkipOwnFavorite, Handled, Handle, vars, history
<1>9. ASSUME Worker \/ (\E j \in JobIds : FailedJobExpires(j)) \/ Crash
      PROVE  /\ Work \/ (\E j \in JobIds : Forget(j)) \/ jobs' = Stalled
             /\ UNCHANGED queued
  BY <1>9 DEF Worker, FailedJobExpires, Crash, others, history
<1>10. QED
  BY <1>1, <1>2, <1>4, <1>5, <1>6, <1>7, <1>8, <1>9 DEF Next, Consume

\* The handler resolves only when every recipient's mail was queued, and neither
\* failures nor redelivery take a note back.
LEMMA StepFollowersInHand ==
  TypeOK /\ AttemptLeft /\ Causes /\ FollowersInHand /\ [Next]_vars => FollowersInHand'
<1> SUFFICES ASSUME TypeOK, AttemptLeft, Causes, FollowersInHand, [Next]_vars
             PROVE  FollowersInHand'
  OBVIOUS
<1>0. /\ queued \subseteq queued'
      /\ \A u \in Followers : jobs'[JobId("created", u)].state # Free =>
           jobs[JobId("created", u)].state # Free \/ MailOf(u) \in queued'
  BY JobsMove
<1>1. \A u \in Followers : jobs'[JobId("created", u)].state # Free => MailOf(u) \in queued'
  BY <1>0 DEF FollowersInHand
<1>2. ASSUME UNCHANGED <<handling, recipients, todo>> PROVE FollowersInHand'
  BY <1>0, <1>1, <1>2 DEF FollowersInHand, MailOf
<1>3. ASSUME handling' = Nothing \/ todo' = recipients' PROVE FollowersInHand'
  BY <1>1, <1>3 DEF FollowersInHand, MailOf, Nothing
<1>4. ASSUME NEW p \in People, Enqueue(p) PROVE FollowersInHand'
  <2>1. /\ p \in todo /\ todo' = todo \ {p} /\ UNCHANGED <<handling, recipients>>
        /\ AddJob(JobId(handling, p), NextEvent(handling))
    BY <1>4 DEF Enqueue
  <2>2. ASSUME handling = "created" PROVE MailOf(p) \in queued'
    <3>1. p \in Followers /\ NextEvent(handling) = Author
      BY <2>1, <2>2, InHand DEF Causes, TypeOK, Nothing
    <3>2. CASE jobs[JobId("created", p)].state = Free
      BY <2>1, <2>2, <3>1, <3>2 DEF AddJob, MailOf
    <3>3. CASE jobs[JobId("created", p)].state # Free
      BY <1>0, <3>1, <3>3 DEF FollowersInHand
    <3>4. QED
      BY <3>2, <3>3
  <2>3. QED
    BY <1>0, <1>1, <2>1, <2>2 DEF FollowersInHand, MailOf
<1>5. ASSUME NEW r \in Requests, Arrive(r) \/ Serve(r) \/ ActorLookupFails(r)
      PROVE  UNCHANGED <<handling, recipients, todo>>
  BY <1>5 DEF Arrive, Serve, Create, FavoriteRead, UnfavoriteRead, FavoriteWrite, FavoriteCollides,
              FavoriteReread, ArticleGone, Emit, UnfavoriteWrite, ActorLookupFails, consumer
<1>6. ASSUME NEW e \in Events, Publish(e) \/ EmitFails(e)
      PROVE  UNCHANGED <<handling, recipients, todo>>
  BY <1>6 DEF Publish, EmitFails, consumer
<1>7. ASSUME \/ Delete \/ Worker \/ UNCHANGED vars
             \/ \E m \in stray : EnqueueStray(m)
             \/ \E j \in JobIds : FailedJobExpires(j)
      PROVE  UNCHANGED <<handling, recipients, todo>>
  BY <1>7 DEF Delete, Worker, EnqueueStray, FailedJobExpires, others, vars, consumer
<1>8. ASSUME \/ SkipOwnFavorite \/ Handled \/ Crash
             \/ \E t \in Topics : Handle(t)
             \/ \E p \in People : EnqueueFails(p)
      PROVE  handling' = Nothing \/ todo' = recipients'
  BY <1>8 DEF SkipOwnFavorite, Handled, Advance, Crash, Handle, EnqueueFails
<1>9. QED
  BY <1>2, <1>3, <1>4, <1>5, <1>6, <1>7, <1>8 DEF Next, Consume

\* Nobody is owed a mail that was not queued.
LEMMA StepFollowersAreQueued ==
  TypeOK /\ AttemptLeft /\ Causes /\ FollowersInHand /\ FollowersAreQueued /\ [Next]_vars
    => FollowersAreQueued'
<1> SUFFICES ASSUME TypeOK, AttemptLeft, Causes, FollowersInHand, FollowersAreQueued, [Next]_vars
             PROVE  FollowersAreQueued'
  OBVIOUS
<1>1. queued \subseteq queued'
  BY JobsMove
<1>2. CASE Handled
  <2>1. owed' \subseteq owed \union (IF handling = "created" THEN recipients ELSE {}) /\ todo = {}
    BY <1>2 DEF Handled
  <2>2. handling = "created" => \A u \in recipients : MailOf(u) \in queued
    BY <2>1 DEF FollowersInHand
  <2>3. QED
    BY <1>1, <2>1, <2>2 DEF FollowersAreQueued, MailOf
<1>3. CASE ~Handled
  <2>1. ASSUME NEW r \in Requests, Arrive(r) \/ Serve(r) \/ ActorLookupFails(r) PROVE UNCHANGED owed
    BY <2>1 DEF Arrive, Serve, Create, FavoriteRead, UnfavoriteRead, FavoriteWrite, FavoriteCollides,
                FavoriteReread, ArticleGone, Emit, UnfavoriteWrite, ActorLookupFails, history
  <2>2. ASSUME NEW e \in Events, Publish(e) \/ EmitFails(e) PROVE UNCHANGED owed
    BY <2>2 DEF Publish, EmitFails, history
  <2>3. ASSUME \/ Delete \/ Worker \/ Crash \/ SkipOwnFavorite \/ UNCHANGED vars
               \/ \E m \in stray : EnqueueStray(m)
               \/ \E j \in JobIds : FailedJobExpires(j)
               \/ \E t \in Topics : Handle(t)
               \/ \E p \in People : Enqueue(p) \/ EnqueueFails(p)
        PROVE  UNCHANGED owed
    BY <2>3 DEF Delete, Worker, Crash, SkipOwnFavorite, EnqueueStray, FailedJobExpires, Handle,
                Enqueue, EnqueueFails, others, vars, history
  <2>4. UNCHANGED owed
    BY <1>3, <2>1, <2>2, <2>3 DEF Next, Consume
  <2>5. QED
    BY <1>1, <2>4 DEF FollowersAreQueued
<1>4. QED
  BY <1>2, <1>3

\* The counts of a user's events are numbers.
LEMMA Counts ==
  ASSUME TypeOK, EventsFit, NEW u \in Readers
  PROVE  /\ IsFiniteSet(InTopic(u)) /\ Cardinality(InTopic(u)) \in Nat
         /\ IsFiniteSet(AboutToEmit(u)) /\ Cardinality(AboutToEmit(u)) \in Nat
         /\ <<"favorited", u>> \in Events /\ inFlight[<<"favorited", u>>] \in Nat
<1>1. Len(topic["favorited"]) \in Nat
  BY LenProperties DEF TypeOK, Topics
<1>2. IsFiniteSet(1 .. Len(topic["favorited"])) /\ InTopic(u) \subseteq 1 .. Len(topic["favorited"])
  BY <1>1, UpTo DEF InTopic
<1>3. IsFiniteSet(Emitting) /\ AboutToEmit(u) \subseteq Emitting
  BY DEF EventsFit, AboutToEmit, Emitting
<1>4. IsFiniteSet(InTopic(u)) /\ IsFiniteSet(AboutToEmit(u))
  BY <1>2, <1>3, FS_Subset
<1>5. <<"favorited", u>> \in Events /\ inFlight[<<"favorited", u>>] \in Nat
  BY DEF TypeOK, Events
<1>6. QED
  BY <1>4, <1>5, FS_CardinalityType

\* After the step they still are.
LEMMA CountsNext ==
  ASSUME TypeOK', EventsFit', NEW u \in Readers
  PROVE  /\ IsFiniteSet(InTopic(u)') /\ Cardinality(InTopic(u)') \in Nat
         /\ IsFiniteSet(AboutToEmit(u)') /\ Cardinality(AboutToEmit(u)') \in Nat
         /\ inFlight'[<<"favorited", u>>] \in Nat
<1>1. Len(topic'["favorited"]) \in Nat
  BY LenProperties DEF TypeOK, Topics
<1>2. /\ IsFiniteSet(1 .. Len(topic'["favorited"]))
      /\ InTopic(u)' \subseteq 1 .. Len(topic'["favorited"])
  BY <1>1, UpTo DEF InTopic
<1>3. IsFiniteSet(Emitting') /\ AboutToEmit(u)' \subseteq Emitting'
  BY DEF EventsFit, AboutToEmit, Emitting
<1>4. IsFiniteSet(InTopic(u)') /\ IsFiniteSet(AboutToEmit(u)')
  BY <1>2, <1>3, FS_Subset
<1>5. inFlight'[<<"favorited", u>>] \in Nat
  BY DEF TypeOK, Events
<1>6. QED
  BY <1>4, <1>5, FS_CardinalityType

\* A step that adds no edge and loses nothing keeps the account while no request stops
\* being about to emit.
LEMMA NothingLost ==
  ASSUME TypeOK, EventsFit, FavoritesAreAnnounced, TypeOK', EventsFit',
         UNCHANGED <<topic, inFlight, added, lost>>,
         \A q \in Requests : pc[q] = "emit" => pc'[q] = "emit" /\ user'[q] = user[q]
  PROVE  FavoritesAreAnnounced'
<1> SUFFICES ASSUME NEW u \in Readers
             PROVE  added'[u] <= Cardinality(InTopic(u)') + OnTheWay(u)' + lost'[u]
  BY DEF FavoritesAreAnnounced
<1>1. InTopic(u)' = InTopic(u) /\ AboutToEmit(u) \subseteq AboutToEmit(u)'
  BY DEF InTopic, AboutToEmit
<1>2. Cardinality(AboutToEmit(u)) <= Cardinality(AboutToEmit(u)')
  BY <1>1, CountsNext, FS_Subset
<1>3. added[u] <= Cardinality(InTopic(u)) + OnTheWay(u) + lost[u]
  BY DEF FavoritesAreAnnounced
<1>4. added[u] \in Nat /\ lost[u] \in Nat
  BY DEF TypeOK
<1>5. QED
  BY <1>1, <1>2, <1>3, <1>4, Counts, CountsNext DEF OnTheWay

\* What is written into the account of favorites, by whom.
LEMMA AccountMoves ==
  ASSUME TypeOK, Causes, [Next]_vars
  PROVE  \/ UNCHANGED <<topic, inFlight, added, lost>>
         \/ \E r \in Requests : FavoriteWrite(r) \/ ActorLookupFails(r) \/ Emit(r)
         \/ \E e \in Events : Publish(e) \/ EmitFails(e)
         \/ Crash
<1>1. ASSUME NEW r \in Requests, Arrive(r) \/ Serve(r)
      PROVE  \/ UNCHANGED <<topic, inFlight, added, lost>>
             \/ FavoriteWrite(r) \/ Emit(r)
  BY <1>1 DEF Arrive, Serve, Create, FavoriteRead, UnfavoriteRead, FavoriteCollides,
              FavoriteReread, ArticleGone, UnfavoriteWrite, history, producer
<1>2. ASSUME \/ Delete \/ Consume \/ Worker \/ UNCHANGED vars
             \/ \E p \in People : EnqueueFails(p)
             \/ \E m \in stray : EnqueueStray(m)
             \/ \E j \in JobIds : FailedJobExpires(j)
      PROVE  UNCHANGED <<topic, inFlight, added, lost>>
  BY <1>2 DEF Delete, Consume, SkipOwnFavorite, Handle, Enqueue, Handled, Worker, EnqueueFails,
              EnqueueStray, FailedJobExpires, others, vars, history, producer
<1>3. QED
  BY <1>1, <1>2 DEF Next

\* Nor does a request stop being about to emit, but by emitting and by a restart.
LEMMA StillAboutToEmit ==
  ASSUME TypeOK, [Next]_vars, NEW q \in Requests, pc[q] = "emit"
  PROVE  (pc'[q] = "emit" /\ user'[q] = user[q]) \/ Emit(q) \/ Crash
<1>0. pc \in [Requests -> {"idle", "connect", "reread", "emit", "emitCreated", "disconnect"}]
  BY DEF TypeOK
<1>1. ASSUME NEW r \in Requests, Arrive(r) \/ Serve(r) \/ ActorLookupFails(r), ~Emit(q)
      PROVE  pc'[q] = "emit" /\ user'[q] = user[q]
  BY <1>0, <1>1 DEF Arrive, Serve, Create, FavoriteRead, UnfavoriteRead, FavoriteWrite,
              FavoriteCollides, FavoriteReread, ArticleGone, Emit, UnfavoriteWrite,
              ActorLookupFails, Goto, Finish, TypeOK
<1>2. ASSUME \/ Delete \/ Consume \/ Worker \/ UNCHANGED vars
             \/ \E e \in Events : Publish(e) \/ EmitFails(e)
             \/ \E p \in People : EnqueueFails(p)
             \/ \E m \in stray : EnqueueStray(m)
             \/ \E j \in JobIds : FailedJobExpires(j)
      PROVE  UNCHANGED requests
  BY <1>2 DEF Delete, Consume, SkipOwnFavorite, Handle, Enqueue, Handled, Worker, EnqueueFails,
              EnqueueStray, FailedJobExpires, Publish, EmitFails, others, vars
<1>3. QED
  BY <1>1, <1>2 DEF Next, requests

\* A new edge brings a request about to emit or is noted as lost; from there on its
\* event is only moved, or noted as lost.
LEMMA StepFavoritesAreAnnounced ==
  TypeOK /\ Causes /\ EventsFit /\ FavoritesAreAnnounced /\ [Next]_vars /\ TypeOK' /\ EventsFit'
    => FavoritesAreAnnounced'
<1> SUFFICES ASSUME TypeOK, Causes, EventsFit, FavoritesAreAnnounced, [Next]_vars,
                    TypeOK', EventsFit'
             PROVE  FavoritesAreAnnounced'
  OBVIOUS
<1>0. /\ pc \in [Requests -> {"idle", "connect", "reread", "emit", "emitCreated", "disconnect"}]
      /\ user \in [Requests -> People] /\ inFlight \in [Events -> Nat]
      /\ added \in [Readers -> Nat] /\ lost \in [Readers -> Nat]
      /\ \A r \in Requests : pc[r] \notin {"idle", "emitCreated"} => user[r] \in Readers
  BY DEF TypeOK, Causes
<1>u. ASSUME NEW u \in Readers
      PROVE  /\ added[u] <= Cardinality(InTopic(u)) + OnTheWay(u) + lost[u]
             /\ added[u] \in Nat /\ lost[u] \in Nat
  BY <1>0 DEF FavoritesAreAnnounced
<1>1. ASSUME NEW r \in Requests, FavoriteWrite(r) PROVE FavoritesAreAnnounced'
  <2>1. /\ pc[r] = "connect" /\ pc' = [pc EXCEPT ![r] = "emit"] /\ user' = user
        /\ added' = added \/ added' = [added EXCEPT ![user[r]] = added[user[r]] + 1]
        /\ UNCHANGED <<topic, inFlight, lost>> /\ user[r] \in Readers
    BY <1>0, <1>1 DEF FavoriteWrite, Connect, Goto, producer
  <2> SUFFICES ASSUME NEW u \in Readers
               PROVE  added'[u] <= Cardinality(InTopic(u)') + OnTheWay(u)' + lost'[u]
    BY DEF FavoritesAreAnnounced
  <2>2. InTopic(u)' = InTopic(u) /\ lost'[u] = lost[u]
        /\ inFlight'[<<"favorited", u>>] = inFlight[<<"favorited", u>>]
    BY <2>1 DEF InTopic
  <2>3. CASE u = user[r]
    <3>1. AboutToEmit(u)' = AboutToEmit(u) \union {r} /\ r \notin AboutToEmit(u)
      BY <1>0, <2>1, <2>3 DEF AboutToEmit
    <3>2. Cardinality(AboutToEmit(u)') = Cardinality(AboutToEmit(u)) + 1
      BY <3>1, Counts, FS_AddElement
    <3>3. added'[u] <= added[u] + 1
      BY <1>0, <2>1, <2>3
    <3>4. added'[u] \in Nat
      BY DEF TypeOK
    <3>5. QED
      BY <1>u, <2>2, <3>2, <3>3, <3>4, Counts DEF OnTheWay
  <2>4. CASE u # user[r]
    <3>1. AboutToEmit(u)' = AboutToEmit(u) /\ added'[u] = added[u]
      BY <1>0, <2>1, <2>4 DEF AboutToEmit
    <3>2. QED
      BY <1>u, <2>2, <3>1 DEF OnTheWay
  <2>5. QED
    BY <2>3, <2>4
<1>2. ASSUME NEW r \in Requests, ActorLookupFails(r) PROVE FavoritesAreAnnounced'
  <2>1. /\ pc[r] = "connect" /\ pc' = [pc EXCEPT ![r] = "idle"]
        /\ user' = [user EXCEPT ![r] = Author]
        /\ added' = added \/ added' = [added EXCEPT ![user[r]] = added[user[r]] + 1]
        /\ lost' = [lost EXCEPT ![user[r]] = lost[user[r]] + 1]
        /\ UNCHANGED <<topic, inFlight>> /\ user[r] \in Readers
    BY <1>0, <1>2 DEF ActorLookupFails, Connect, Finish, producer
  <2> SUFFICES ASSUME NEW u \in Readers
               PROVE  added'[u] <= Cardinality(InTopic(u)') + OnTheWay(u)' + lost'[u]
    BY DEF FavoritesAreAnnounced
  <2>2. InTopic(u)' = InTopic(u) /\ AboutToEmit(u)' = AboutToEmit(u)
        /\ inFlight'[<<"favorited", u>>] = inFlight[<<"favorited", u>>]
    BY <1>0, <2>1 DEF InTopic, AboutToEmit
  <2>3. added'[u] - added[u] <= lost'[u] - lost[u] /\ added'[u] \in Nat /\ lost'[u] \in Nat
    BY <1>0, <2>1
  <2>4. QED
    BY <1>u, <2>2, <2>3, Counts DEF OnTheWay
<1>3. ASSUME NEW r \in Requests, Emit(r) PROVE FavoritesAreAnnounced'
  <2>1. /\ pc[r] \in {"emit", "emitCreated"} /\ pc' = [pc EXCEPT ![r] = "idle"]
        /\ user' = [user EXCEPT ![r] = Author]
        /\ inFlight' = [inFlight EXCEPT ![EventOf(r)] = inFlight[EventOf(r)] + 1]
        /\ UNCHANGED <<topic, added, lost>>
    BY <1>3 DEF Emit, Finish, history
  <2>2. EventOf(r) \in Events
    BY <1>0, <2>1 DEF EventOf, Events
  <2> SUFFICES ASSUME NEW u \in Readers
               PROVE  added'[u] <= Cardinality(InTopic(u)') + OnTheWay(u)' + lost'[u]
    BY DEF FavoritesAreAnnounced
  <2>3. InTopic(u)' = InTopic(u) /\ added'[u] = added[u] /\ lost'[u] = lost[u]
    BY <2>1 DEF InTopic
  <2>4. CASE pc[r] = "emit" /\ user[r] = u
    <3>1. EventOf(r) = <<"favorited", u>>
      BY <2>4 DEF EventOf
    <3>2. inFlight'[<<"favorited", u>>] = inFlight[<<"favorited", u>>] + 1
      BY <1>0, <2>1, <2>2, <3>1
    <3>3. AboutToEmit(u)' = AboutToEmit(u) \ {r} /\ r \in AboutToEmit(u)
      BY <1>0, <2>1, <2>4 DEF AboutToEmit
    <3>4. Cardinality(AboutToEmit(u)') = Cardinality(AboutToEmit(u)) - 1
      BY <3>3, Counts, FS_RemoveElement
    <3>5. QED
      BY <1>u, <2>3, <3>2, <3>4, Counts DEF OnTheWay
  <2>5. CASE ~(pc[r] = "emit" /\ user[r] = u)
    <3>1. EventOf(r) # <<"favorited", u>>
      BY <2>1, <2>5 DEF EventOf
    <3>2. inFlight'[<<"favorited", u>>] = inFlight[<<"favorited", u>>]
      BY <1>0, <2>1, <2>2, <3>1, Counts
    <3>3. AboutToEmit(u)' = AboutToEmit(u)
      BY <1>0, <2>1, <2>5 DEF AboutToEmit
    <3>4. QED
      BY <1>u, <2>3, <3>2, <3>3 DEF OnTheWay
  <2>6. QED
    BY <2>4, <2>5
<1>4. ASSUME NEW e \in Events, Publish(e) PROVE FavoritesAreAnnounced'
  <2>1. /\ inFlight' = [inFlight EXCEPT ![e] = inFlight[e] - 1]
        /\ topic' = [topic EXCEPT ![e[1]] = Append(topic[e[1]], e[2])]
        /\ UNCHANGED <<pc, user, added, lost>>
    BY <1>4 DEF Publish, requests, history
  <2>2. /\ e[1] \in Topics /\ e[2] \in People /\ e = <<e[1], e[2]>>
        /\ "favorited" \in Topics /\ topic \in [Topics -> Seq(People)]
    BY Names DEF People, TypeOK, Topics
  <2> SUFFICES ASSUME NEW u \in Readers
               PROVE  added'[u] <= Cardinality(InTopic(u)') + OnTheWay(u)' + lost'[u]
    BY DEF FavoritesAreAnnounced
  <2>3. AboutToEmit(u)' = AboutToEmit(u) /\ added'[u] = added[u] /\ lost'[u] = lost[u]
    BY <2>1 DEF AboutToEmit
  <2> DEFINE n == Len(topic["favorited"])
  <2>4. n \in Nat
    BY <2>2, LenProperties
  <2>5. e[1] = "favorited" =>
          /\ Len(topic'["favorited"]) = n + 1
          /\ topic'["favorited"][n + 1] = e[2]
          /\ \A i \in 1 .. n : topic'["favorited"][i] = topic["favorited"][i]
    BY <2>1, <2>2, AppendProperties
  <2>6. CASE e = <<"favorited", u>>
    <3>1. InTopic(u)' = InTopic(u) \union {n + 1} /\ n + 1 \notin InTopic(u)
      BY <2>4, <2>5, <2>6 DEF InTopic
    <3>2. Cardinality(InTopic(u)') = Cardinality(InTopic(u)) + 1
      BY <3>1, Counts, FS_AddElement
    <3>3. inFlight'[<<"favorited", u>>] = inFlight[<<"favorited", u>>] - 1
      BY <1>0, <2>1, <2>6
    <3>4. QED
      BY <1>u, <2>3, <3>2, <3>3, Counts DEF OnTheWay
  <2>7. CASE e # <<"favorited", u>>
    <3>1. inFlight'[<<"favorited", u>>] = inFlight[<<"favorited", u>>]
      BY <1>0, <2>1, <2>7, Counts
    <3>2. InTopic(u)' = InTopic(u)
      <4>1. CASE e[1] = "favorited"
        <5>1. e[2] # u
          BY <2>2, <2>7, <4>1
        <5>2. QED
          BY <2>4, <2>5, <4>1, <5>1 DEF InTopic
      <4>2. CASE e[1] # "favorited"
        BY <2>1, <2>2, <4>2 DEF InTopic
      <4>3. QED
        BY <4>1, <4>2
    <3>3. QED
      BY <1>u, <2>3, <3>1, <3>2 DEF OnTheWay
  <2>8. QED
    BY <2>6, <2>7
<1>5. ASSUME NEW e \in Events, EmitFails(e) PROVE FavoritesAreAnnounced'
  <2>1. /\ inFlight' = [inFlight EXCEPT ![e] = inFlight[e] - 1]
        /\ lost' = IF e[1] = "favorited" THEN [lost EXCEPT ![e[2]] = lost[e[2]] + 1] ELSE lost
        /\ UNCHANGED <<pc, user, topic, added>>
    BY <1>5 DEF EmitFails, requests
  <2>2. e = <<e[1], e[2]>> /\ (e[1] = "favorited" => e[2] \in Readers)
    BY Names
  <2> SUFFICES ASSUME NEW u \in Readers
               PROVE  added'[u] <= Cardinality(InTopic(u)') + OnTheWay(u)' + lost'[u]
    BY DEF FavoritesAreAnnounced
  <2>3. AboutToEmit(u)' = AboutToEmit(u) /\ InTopic(u)' = InTopic(u) /\ added'[u] = added[u]
    BY <2>1 DEF AboutToEmit, InTopic
  <2>4. CASE e = <<"favorited", u>>
    <3>1. /\ inFlight'[<<"favorited", u>>] = inFlight[<<"favorited", u>>] - 1
          /\ lost'[u] = lost[u] + 1
      BY <1>0, <2>1, <2>4
    <3>2. QED
      BY <1>u, <2>3, <3>1, Counts DEF OnTheWay
  <2>5. CASE e # <<"favorited", u>>
    <3>1. inFlight'[<<"favorited", u>>] = inFlight[<<"favorited", u>>]
      BY <1>0, <2>1, <2>5, Counts
    <3>2. lost'[u] = lost[u]
      BY <1>0, <2>1, <2>2, <2>5
    <3>3. QED
      BY <1>u, <2>3, <3>1, <3>2 DEF OnTheWay
  <2>6. QED
    BY <2>4, <2>5
<1>6. ASSUME Crash PROVE FavoritesAreAnnounced'
  <2>1. lost' = [u \in Readers |-> lost[u] + OnTheWay(u)] /\ UNCHANGED <<topic, added>>
    BY <1>6 DEF Crash
  <2> SUFFICES ASSUME NEW u \in Readers
               PROVE  added'[u] <= Cardinality(InTopic(u)') + OnTheWay(u)' + lost'[u]
    BY DEF FavoritesAreAnnounced
  <2>2. /\ InTopic(u)' = InTopic(u) /\ added'[u] = added[u]
        /\ lost'[u] = lost[u] + OnTheWay(u)
    BY <2>1 DEF InTopic
  <2>3. OnTheWay(u) \in Nat /\ OnTheWay(u)' \in Nat
    BY Counts, CountsNext DEF OnTheWay
  <2>4. Cardinality(InTopic(u)) \in Nat
    BY Counts
  <2>5. QED
    BY <1>u, <2>2, <2>3, <2>4
<1>7. ASSUME UNCHANGED <<topic, inFlight, added, lost>>, \A q \in Requests : ~Emit(q), ~Crash
      PROVE  FavoritesAreAnnounced'
  <2>1. \A q \in Requests : pc[q] = "emit" => pc'[q] = "emit" /\ user'[q] = user[q]
    BY <1>7, StillAboutToEmit
  <2>2. QED
    BY <1>7, <2>1, NothingLost
<1>8. QED
  BY <1>1, <1>2, <1>3, <1>4, <1>5, <1>6, <1>7, AccountMoves

\* The article is created and emitted once, and no failure brings its event back.
LEMMA StepAnnouncedOnce == TypeOK /\ Causes /\ AnnouncedOnce /\ [Next]_vars => AnnouncedOnce'
<1> SUFFICES ASSUME TypeOK, Causes, AnnouncedOnce, [Next]_vars PROVE AnnouncedOnce'
  OBVIOUS
<1> USE DEF Goto, Finish, database, requests, producer, consumer, history, AnnouncedOnce
<1>0. /\ pc \in [Requests -> {"idle", "connect", "reread", "emit", "emitCreated", "disconnect"}]
      /\ faults \in Nat /\ inFlight[<<"created", Author>>] \in Nat
      /\ inFlight \in [Events -> 0 .. MaxEvents] /\ <<"created", Author>> \in Events
      /\ "created" \in Topics /\ topic["created"] \in Seq(People) /\ Len(topic["created"]) \in Nat
      /\ topic \in [Topics -> Seq(People)] /\ position["created"] \in Nat
      /\ position \in [Topics -> Nat]
  BY LenProperties DEF TypeOK, Events, Topics
<1>1. ASSUME NEW r \in Requests, Create(r) PROVE AnnouncedOnce'
  BY <1>1, <1>0 DEF Create
<1>2. ASSUME NEW r \in Requests, NEW u \in Readers, FavoriteRead(r, u) PROVE AnnouncedOnce'
  BY <1>2, <1>0 DEF FavoriteRead
<1>3. ASSUME NEW r \in Requests, NEW u \in Readers, UnfavoriteRead(r, u) PROVE AnnouncedOnce'
  BY <1>3, <1>0 DEF UnfavoriteRead
<1>4. ASSUME NEW r \in Requests, FavoriteWrite(r) PROVE AnnouncedOnce'
  BY <1>4, <1>0 DEF FavoriteWrite, Connect
<1>5. ASSUME NEW r \in Requests, FavoriteCollides(r) PROVE AnnouncedOnce'
  BY <1>5, <1>0 DEF FavoriteCollides
<1>6. ASSUME NEW r \in Requests, FavoriteReread(r) PROVE AnnouncedOnce'
  BY <1>6, <1>0 DEF FavoriteReread
<1>7. ASSUME NEW r \in Requests, ArticleGone(r) PROVE AnnouncedOnce'
  BY <1>7, <1>0 DEF ArticleGone
<1>8. ASSUME NEW r \in Requests, Emit(r) PROVE AnnouncedOnce'
  <2>1. CASE pc[r] = "emit"
    <3>1. EventOf(r) # <<"created", Author>>
      BY <2>1 DEF EventOf
    <3>2. inFlight'[<<"created", Author>>] = inFlight[<<"created", Author>>]
      BY <1>8, <1>0, <3>1 DEF Emit
    <3>3. /\ pc' = [pc EXCEPT ![r] = "idle"]
          /\ UNCHANGED <<article, topic, position, handling, todo, stray, queued, faults>>
      BY <1>8 DEF Emit
    <3>4. QED
      BY <1>0, <3>2, <3>3
  <2>2. CASE pc[r] = "emitCreated"
    <3>1. inFlight' = [inFlight EXCEPT ![<<"created", Author>>] = inFlight[<<"created", Author>>] + 1]
      BY <1>8, <2>2 DEF Emit, EventOf
    <3>2. inFlight'[<<"created", Author>>] = inFlight[<<"created", Author>>] + 1
      BY <1>0, <3>1
    <3>3. /\ pc' = [pc EXCEPT ![r] = "idle"]
          /\ UNCHANGED <<article, topic, position, handling, todo, stray, queued, faults>>
      BY <1>8 DEF Emit
    <3>4. \A q \in Requests : pc'[q] # "emitCreated"
      BY <1>0, <2>2, <3>3
    <3>5. article # "none" /\ inFlight[<<"created", Author>>] + Len(topic["created"]) = 0
      BY <2>2
    <3> HIDE DEF AnnouncedOnce
    <3>6. QED
      BY <1>0, <3>2, <3>3, <3>4, <3>5 DEF AnnouncedOnce
  <2>3. QED
    BY <1>8, <2>1, <2>2 DEF Emit
<1>9. ASSUME NEW r \in Requests, UnfavoriteWrite(r) PROVE AnnouncedOnce'
  BY <1>9, <1>0 DEF UnfavoriteWrite
<1>10. ASSUME NEW r \in Requests, ActorLookupFails(r) PROVE AnnouncedOnce'
  BY <1>10, <1>0 DEF ActorLookupFails, Connect, Fault
<1>11. ASSUME Delete PROVE AnnouncedOnce'
  BY <1>11, <1>0 DEF Delete
<1>12. ASSUME NEW e \in Events, Publish(e) PROVE AnnouncedOnce'
  <2>1. /\ inFlight[e] > 0 /\ inFlight' = [inFlight EXCEPT ![e] = inFlight[e] - 1]
        /\ topic' = [topic EXCEPT ![e[1]] = Append(topic[e[1]], e[2])]
        /\ UNCHANGED <<article, pc, position, handling, todo, stray, queued, faults>>
    BY <1>12 DEF Publish
  <2>2. /\ e[1] \in Topics /\ e[2] \in People /\ e = <<e[1], e[2]>>
        /\ e[1] = "created" => e = <<"created", Author>>
        /\ e = <<"created", Author>> => e[1] = "created"
    BY Names DEF People
  <2>3. inFlight'[<<"created", Author>>] + Len(topic'["created"])
          = inFlight[<<"created", Author>>] + Len(topic["created"])
    <3>1. CASE e = <<"created", Author>>
      <4>1. topic'["created"] = Append(topic["created"], e[2])
        BY <1>0, <2>1, <2>2, <3>1
      <4>2. Len(topic'["created"]) = Len(topic["created"]) + 1
        BY <1>0, <2>2, <4>1, AppendProperties
      <4>3. inFlight'[<<"created", Author>>] = inFlight[<<"created", Author>>] - 1
        BY <1>0, <2>1, <3>1
      <4>4. QED
        BY <1>0, <4>2, <4>3
    <3>2. CASE e # <<"created", Author>>
      BY <1>0, <2>1, <2>2, <3>2
    <3>3. QED
      BY <3>1, <3>2
  <2>4. QED
    BY <2>1, <2>3
<1>13. ASSUME NEW e \in Events, EmitFails(e) PROVE AnnouncedOnce'
  <2>1. /\ inFlight[e] > 0 /\ inFlight' = [inFlight EXCEPT ![e] = inFlight[e] - 1]
        /\ UNCHANGED <<article, pc, topic>>
    BY <1>13 DEF EmitFails
  <2>2. \/ inFlight'[<<"created", Author>>] = inFlight[<<"created", Author>>]
        \/ /\ inFlight[<<"created", Author>>] > 0
           /\ inFlight'[<<"created", Author>>] = inFlight[<<"created", Author>>] - 1
    BY <1>0, <2>1
  <2>3. /\ inFlight'[<<"created", Author>>] + Len(topic["created"])
             <= inFlight[<<"created", Author>>] + Len(topic["created"])
        /\ inFlight'[<<"created", Author>>] + Len(topic["created"]) \in Nat
    BY <1>0, <2>2
  <2>4. /\ inFlight'[<<"created", Author>>] + Len(topic["created"]) <= 1
        /\ inFlight[<<"created", Author>>] + Len(topic["created"]) = 0 =>
             inFlight'[<<"created", Author>>] + Len(topic["created"]) = 0
    BY <1>0, <2>3
  <2>5. QED
    BY <2>1, <2>4
<1>14. ASSUME SkipOwnFavorite PROVE AnnouncedOnce'
  BY <1>14 DEF SkipOwnFavorite, Advance
<1>15. ASSUME NEW t \in Topics, Handle(t) PROVE AnnouncedOnce'
  BY <1>15 DEF Handle
<1>16. ASSUME NEW p \in People, Enqueue(p) PROVE AnnouncedOnce'
  BY <1>16 DEF Enqueue
<1>17. ASSUME Handled PROVE AnnouncedOnce'
  BY <1>17 DEF Handled, Advance
<1>18. ASSUME NEW p \in People, EnqueueFails(p) PROVE AnnouncedOnce'
  BY <1>18, <1>0 DEF EnqueueFails, AddJob, Fault
<1>19. ASSUME NEW m \in stray, EnqueueStray(m) PROVE AnnouncedOnce'
  BY <1>19, <1>0 DEF EnqueueStray
<1>20. ASSUME Worker PROVE AnnouncedOnce'
  BY <1>20 DEF Worker, others
<1>21. ASSUME NEW j \in JobIds, FailedJobExpires(j) PROVE AnnouncedOnce'
  BY <1>21 DEF FailedJobExpires, others
<1>22. ASSUME Crash PROVE AnnouncedOnce'
  <2>1. /\ \A r \in Requests : pc'[r] = "idle"
        /\ inFlight'[<<"created", Author>>] = 0
        /\ UNCHANGED <<article, topic>>
    BY <1>22, <1>0 DEF Crash
  <2>2. QED
    BY <1>0, <2>1
<1>23. ASSUME UNCHANGED vars PROVE AnnouncedOnce'
  BY <1>23 DEF vars
<1>24. QED
  BY <1>1, <1>2, <1>3, <1>4, <1>5, <1>6, <1>7, <1>8, <1>9, <1>10, <1>11, <1>12,
     <1>13, <1>14, <1>15, <1>16, <1>17, <1>18, <1>19, <1>20, <1>21, <1>22, <1>23 DEF Next, Arrive, Serve, Consume

\* A job added is one more for one follower at most, and none while its id is taken.
LEMMA ToldMoves ==
  ASSUME TypeOK, NEW j \in JobIds, NEW d, AddJob(j, d)
  PROVE  /\ told' \in [Followers -> Nat]
         /\ \A u \in Followers :
              told'[u] = told[u] \/ (j = JobId("created", u) /\ told'[u] = told[u] + 1)
<1>1. told \in [Followers -> Nat]
  BY DEF TypeOK
<1>2. j[1] = "created" => j[2] \in Followers /\ j = JobId("created", j[2])
  BY DEF JobIds, JobId
<1>3. CASE told' = told
  BY <1>1, <1>3
<1>4. CASE j[1] = "created" /\ told' = [told EXCEPT ![j[2]] = told[j[2]] + 1]
  <2>1. j[2] \in Followers /\ j = JobId("created", j[2])
    BY <1>2, <1>4
  <2>2. told' \in [Followers -> Nat]
    BY <1>1, <1>4, <2>1
  <2>3. \A u \in Followers : IF u = j[2] THEN told'[u] = told[u] + 1 ELSE told'[u] = told[u]
    BY <1>1, <1>4, <2>1
  <2>4. QED
    BY <2>1, <2>2, <2>3
<1>5. QED
  BY <1>3, <1>4 DEF AddJob

\* The steps that add no job.
LEMMA NobodyTold ==
  ASSUME [Next]_vars
  PROVE  \/ UNCHANGED told
         \/ \E p \in People : Enqueue(p) \/ EnqueueFails(p)
         \/ \E m \in stray : EnqueueStray(m)
<1>1. ASSUME NEW r \in Requests, Arrive(r) \/ Serve(r) \/ ActorLookupFails(r)
      PROVE  UNCHANGED told
  BY <1>1 DEF Arrive, Serve, Create, FavoriteRead, UnfavoriteRead, FavoriteWrite, FavoriteCollides,
              FavoriteReread, ArticleGone, Emit, UnfavoriteWrite, ActorLookupFails, history
<1>2. ASSUME \/ Delete \/ SkipOwnFavorite \/ Handled \/ Worker \/ Crash \/ UNCHANGED vars
             \/ \E e \in Events : Publish(e) \/ EmitFails(e)
             \/ \E t \in Topics : Handle(t)
             \/ \E j \in JobIds : FailedJobExpires(j)
      PROVE  UNCHANGED told
  BY <1>2 DEF Delete, SkipOwnFavorite, Handled, Worker, Crash, Publish, EmitFails, Handle,
              FailedJobExpires, others, vars, history
<1>3. QED
  BY <1>1, <1>2 DEF Next, Consume

\* The notes of history stay counts.
LEMMA StepHistoryTypes == TypeOK /\ EventsFit /\ Causes /\ [Next]_vars => HistoryTypes'
<1> SUFFICES ASSUME TypeOK, EventsFit, Causes, [Next]_vars PROVE HistoryTypes'
  OBVIOUS
<1>0. /\ told \in [Followers -> Nat] /\ added \in [Readers -> Nat] /\ lost \in [Readers -> Nat]
      /\ \A r \in Requests : pc[r] = "connect" => user[r] \in Readers
  BY DEF TypeOK, Causes
<1>1. told' \in [Followers -> Nat]
  <2>1. ASSUME NEW p \in People, Enqueue(p) \/ EnqueueFails(p) PROVE told' \in [Followers -> Nat]
    <3>1. p \in todo /\ (UNCHANGED told \/ AddJob(JobId(handling, p), NextEvent(handling)))
      BY <2>1 DEF Enqueue, EnqueueFails
    <3>2. JobId(handling, p) \in JobIds
      BY <3>1, InHand
    <3>3. QED
      BY <1>0, <3>1, <3>2, ToldMoves
  <2>2. ASSUME NEW m \in stray, EnqueueStray(m) PROVE told' \in [Followers -> Nat]
    <3>1. m[1] \in JobIds /\ AddJob(m[1], m[2])
      BY <2>2 DEF EnqueueStray, TypeOK
    <3>2. QED
      BY <3>1, ToldMoves
  <2>3. QED
    BY <1>0, <2>1, <2>2, NobodyTold
<1>2. added' \in [Readers -> Nat] /\ lost' \in [Readers -> Nat]
  <2>1. ASSUME NEW r \in Requests, FavoriteWrite(r) \/ ActorLookupFails(r) \/ Emit(r)
        PROVE  added' \in [Readers -> Nat] /\ lost' \in [Readers -> Nat]
    BY <1>0, <2>1 DEF FavoriteWrite, ActorLookupFails, Emit, Connect, Goto, history
  <2>2. ASSUME NEW e \in Events, Publish(e) \/ EmitFails(e)
        PROVE  added' \in [Readers -> Nat] /\ lost' \in [Readers -> Nat]
    <3>1. e[1] = "favorited" => e[2] \in Readers
      BY Names
    <3>2. QED
      BY <1>0, <2>2, <3>1 DEF Publish, EmitFails, history
  <2>3. ASSUME Crash PROVE added' \in [Readers -> Nat] /\ lost' \in [Readers -> Nat]
    <3>1. ASSUME NEW u \in Readers PROVE OnTheWay(u) \in Nat
      BY Counts DEF OnTheWay
    <3>2. lost' = [u \in Readers |-> lost[u] + OnTheWay(u)] /\ added' = added
      BY <2>3 DEF Crash
    <3>3. QED
      BY <1>0, <3>1, <3>2
  <2>4. QED
    BY <1>0, <2>1, <2>2, <2>3, AccountMoves
<1>3. QED
  BY <1>1, <1>2 DEF HistoryTypes

\* The handler takes the event of the article from the head of its topic, once.
LEMMA FirstAndOnly ==
  ASSUME TypeOK, AnnouncedOnce, position["created"] < Len(topic["created"])
  PROVE  position["created"] = 0
<1>1. /\ position["created"] \in Nat /\ Len(topic["created"]) \in Nat
      /\ inFlight[<<"created", Author>>] \in Nat
  BY LenProperties DEF TypeOK, Topics, Events
<1>2. QED
  BY <1>1 DEF AnnouncedOnce

\* What is still to come to a follower shrinks when it comes, and grows by one with a
\* fault: the handler gives up and is called again, or goes back in the topic.
LEMMA StepFewRepeats ==
  TypeOK /\ Causes /\ AnnouncedOnce /\ FewRepeats /\ [Next]_vars => FewRepeats'
<1> SUFFICES ASSUME TypeOK, Causes, AnnouncedOnce, FewRepeats, [Next]_vars, NEW u \in Followers
             PROVE  told'[u] + LeftBehind(u)' + ToCome(u)' <= 1 + faults'
  BY DEF FewRepeats
<1>0. /\ told[u] \in Nat /\ faults \in Nat
      /\ told[u] + LeftBehind(u) + ToCome(u) <= 1 + faults
      /\ LeftBehind(u) \in {0, 1} /\ ToCome(u) \in {0, 1}
      /\ LeftBehind(u)' \in {0, 1} /\ ToCome(u)' \in {0, 1}
      /\ MailOf(u)' = MailOf(u)
  BY DEF TypeOK, FewRepeats, LeftBehind, ToCome, MailOf
<1>1. ASSUME UNCHANGED <<told, stray, position, handling, todo>>,
             faults' = faults \/ faults' = faults + 1
      PROVE  told'[u] + LeftBehind(u)' + ToCome(u)' <= 1 + faults'
  <2>1. LeftBehind(u)' = LeftBehind(u) /\ ToCome(u)' = ToCome(u)
    BY <1>1 DEF LeftBehind, ToCome, MailOf
  <2>2. QED
    BY <1>0, <1>1, <2>1
<1>2. ASSUME SkipOwnFavorite PROVE told'[u] + LeftBehind(u)' + ToCome(u)' <= 1 + faults'
  <2>1. /\ handling = Nothing /\ handling' = Nothing
        /\ position'["created"] = position["created"] /\ UNCHANGED <<told, stray, faults>>
    BY <1>2 DEF SkipOwnFavorite, Advance, TypeOK, history, Topics
  <2>2. LeftBehind(u)' = LeftBehind(u) /\ ToCome(u)' = ToCome(u)
    BY <2>1 DEF LeftBehind, ToCome, MailOf, Nothing
  <2>3. QED
    BY <1>0, <2>1, <2>2
<1>3. ASSUME NEW t \in Topics, Handle(t)
      PROVE  told'[u] + LeftBehind(u)' + ToCome(u)' <= 1 + faults'
  <2>1. /\ handling = Nothing /\ handling' = t /\ position[t] < Len(topic[t])
        /\ UNCHANGED <<position, told, stray, faults>>
    BY <1>3 DEF Handle, history
  <2>2. t = "created" => position["created"] = 0
    BY <2>1, FirstAndOnly
  <2>3. LeftBehind(u)' = LeftBehind(u) /\ ToCome(u)' <= ToCome(u)
    BY <2>1, <2>2 DEF LeftBehind, ToCome, MailOf, Nothing
  <2>4. QED
    BY <1>0, <2>1, <2>3
<1>4. ASSUME Handled PROVE told'[u] + LeftBehind(u)' + ToCome(u)' <= 1 + faults'
  <2>1. /\ handling \in Topics /\ handling' = Nothing /\ todo = {}
        /\ position' = [position EXCEPT ![handling] = position[handling] + 1]
        /\ position[handling] < Len(topic[handling]) /\ position["created"] \in Nat
        /\ UNCHANGED <<told, stray, faults>>
    BY <1>4 DEF Handled, Advance, TypeOK, Causes, Topics
  <2>2. LeftBehind(u)' = LeftBehind(u)
    BY <2>1 DEF LeftBehind, MailOf
  <2>3. CASE handling = "created"
    <3>1. position'["created"] = 1
      BY <2>1, <2>3, FirstAndOnly DEF TypeOK
    <3>2. ToCome(u)' = 0
      BY <2>1, <3>1 DEF ToCome, Nothing
    <3>3. QED
      BY <1>0, <2>1, <2>2, <3>2
  <2>4. CASE handling = "favorited"
    <3>1. position'["created"] = position["created"]
      BY <2>1, <2>4 DEF TypeOK
    <3>2. ToCome(u)' = ToCome(u)
      BY <2>1, <2>4, <3>1 DEF ToCome, Nothing
    <3>3. QED
      BY <1>0, <2>1, <2>2, <3>2
  <2>5. QED
    BY <2>1, <2>3, <2>4 DEF Topics
<1>5. ASSUME NEW p \in People, Enqueue(p)
      PROVE  told'[u] + LeftBehind(u)' + ToCome(u)' <= 1 + faults'
  <2>1. /\ p \in todo /\ todo' = todo \ {p} /\ JobId(handling, p) \in JobIds
        /\ AddJob(JobId(handling, p), NextEvent(handling))
        /\ UNCHANGED <<position, handling, stray, faults>>
    BY <1>5, InHand DEF Enqueue
  <2>2. LeftBehind(u)' = LeftBehind(u)
    BY <2>1 DEF LeftBehind, MailOf
  <2>3. CASE handling = "created" /\ p = u
    <3>1. ToCome(u) = 1 /\ ToCome(u)' = 0
      BY <2>1, <2>3 DEF ToCome
    <3>2. told'[u] = told[u] \/ told'[u] = told[u] + 1
      BY <2>1, ToldMoves
    <3>3. QED
      BY <1>0, <2>1, <2>2, <3>1, <3>2
  <2>4. CASE ~(handling = "created" /\ p = u)
    <3>1. ToCome(u)' = ToCome(u)
      BY <2>1, <2>4 DEF ToCome
    <3>2. JobId(handling, p) # JobId("created", u)
      BY <2>4 DEF JobId
    <3>3. told'[u] = told[u]
      BY <2>1, <3>2, ToldMoves
    <3>4. QED
      BY <1>0, <2>1, <2>2, <3>1, <3>3
  <2>5. QED
    BY <2>3, <2>4
<1>6. ASSUME NEW p \in People, EnqueueFails(p)
      PROVE  told'[u] + LeftBehind(u)' + ToCome(u)' <= 1 + faults'
  <2>1. /\ p \in todo /\ handling' = Nothing /\ JobId(handling, p) \in JobIds
        /\ AddJob(JobId(handling, p), NextEvent(handling)) \/ UNCHANGED told
        /\ stray' = stray \union {<<JobId(handling, q), NextEvent(handling)>> : q \in todo \ {p}}
        /\ UNCHANGED position /\ faults' = faults + 1 /\ handling \in Topics
    BY <1>6, InHand DEF EnqueueFails, Fault
  <2>2. told'[u] = told[u] \/ (/\ JobId(handling, p) = JobId("created", u)
                               /\ told'[u] = told[u] + 1)
    BY <2>1, ToldMoves
  <2>3. MailOf(u) \in stray' => MailOf(u) \in stray \/ (handling = "created" /\ u \in todo \ {p})
    BY <2>1 DEF MailOf, JobId
  <2>4. CASE handling = "created"
    <3>1. CASE u \in todo
      <4>1. ToCome(u) = 1
        BY <2>4, <3>1 DEF ToCome
      <4>2. told'[u] + LeftBehind(u)' <= told[u] + LeftBehind(u) + 1
        <5>1. CASE u = p
          <6>1. LeftBehind(u)' <= LeftBehind(u)
            BY <2>3, <5>1 DEF LeftBehind, MailOf
          <6>2. QED
            BY <1>0, <2>2, <6>1
        <5>2. CASE u # p
          <6>1. told'[u] = told[u]
            BY <2>2, <5>2 DEF JobId
          <6>2. QED
            BY <1>0, <6>1
        <5>3. QED
          BY <5>1, <5>2
      <4>3. told'[u] \in Nat
        BY <1>0, <2>2
      <4>4. QED
        BY <1>0, <2>1, <4>1, <4>2, <4>3
    <3>2. CASE u \notin todo
      <4>1. told'[u] = told[u]
        BY <2>1, <2>2, <3>2 DEF JobId
      <4>2. LeftBehind(u)' <= LeftBehind(u)
        BY <2>3, <3>2 DEF LeftBehind, MailOf
      <4>3. QED
        BY <1>0, <2>1, <4>1, <4>2
    <3>3. QED
      BY <3>1, <3>2
  <2>5. CASE handling # "created"
    <3>1. told'[u] = told[u]
      BY <2>2, <2>5 DEF JobId
    <3>2. LeftBehind(u)' <= LeftBehind(u) /\ ToCome(u)' = ToCome(u)
      BY <2>1, <2>3, <2>5 DEF LeftBehind, ToCome, MailOf, Nothing
    <3>3. QED
      BY <1>0, <2>1, <3>1, <3>2
  <2>6. QED
    BY <2>4, <2>5
<1>7. ASSUME NEW m \in stray, EnqueueStray(m)
      PROVE  told'[u] + LeftBehind(u)' + ToCome(u)' <= 1 + faults'
  <2>1. /\ stray' = stray \ {m} /\ m[1] \in JobIds /\ AddJob(m[1], m[2])
        /\ m = <<m[1], m[2]>> /\ <<m[1][1], m[2]>> \in Events
        /\ UNCHANGED <<position, handling, todo, faults>>
    BY <1>7 DEF EnqueueStray, TypeOK, Causes
  <2>2. ToCome(u)' = ToCome(u)
    BY <2>1 DEF ToCome
  <2>3. CASE m[1] = JobId("created", u)
    <3>1. m = MailOf(u)
      BY <2>1, <2>3 DEF MailOf, JobId, Events
    <3>2. LeftBehind(u) = 1 /\ LeftBehind(u)' = 0
      BY <2>1, <3>1 DEF LeftBehind, MailOf
    <3>3. told'[u] = told[u] \/ told'[u] = told[u] + 1
      BY <2>1, ToldMoves
    <3>4. QED
      BY <1>0, <2>1, <2>2, <3>2, <3>3
  <2>4. CASE m[1] # JobId("created", u)
    <3>1. told'[u] = told[u]
      BY <2>1, <2>4, ToldMoves
    <3>2. LeftBehind(u)' = LeftBehind(u)
      BY <2>1, <2>4 DEF LeftBehind, MailOf
    <3>3. QED
      BY <1>0, <2>1, <2>2, <3>1, <3>2
  <2>5. QED
    BY <2>3, <2>4
<1>8. ASSUME Crash PROVE told'[u] + LeftBehind(u)' + ToCome(u)' <= 1 + faults'
  <2>1. stray' = {} /\ told' = told /\ faults' = faults + 1
    BY <1>8 DEF Crash, Fault
  <2>2. LeftBehind(u)' = 0
    BY <2>1 DEF LeftBehind
  <2>3. QED
    BY <1>0, <2>1, <2>2
<1>9. ASSUME NEW r \in Requests, Arrive(r) \/ Serve(r) \/ ActorLookupFails(r)
      PROVE  /\ UNCHANGED <<told, stray, position, handling, todo>>
             /\ faults' = faults \/ faults' = faults + 1
  BY <1>9 DEF Arrive, Serve, Create, FavoriteRead, UnfavoriteRead, FavoriteWrite, FavoriteCollides,
              FavoriteReread, ArticleGone, Emit, UnfavoriteWrite, ActorLookupFails, Fault,
              history, consumer
<1>10. ASSUME \/ Delete \/ Worker \/ UNCHANGED vars
              \/ \E e \in Events : Publish(e) \/ EmitFails(e)
              \/ \E j \in JobIds : FailedJobExpires(j)
       PROVE  /\ UNCHANGED <<told, stray, position, handling, todo>>
              /\ faults' = faults \/ faults' = faults + 1
  BY <1>10 DEF Delete, Worker, Publish, EmitFails, FailedJobExpires, Fault, others, vars,
               history, consumer
<1>11. QED
  BY <1>1, <1>2, <1>3, <1>4, <1>5, <1>6, <1>7, <1>8, <1>9, <1>10 DEF Next, Consume

----------------------------------------------------------------------------
(***************************************************************************)
(* The invariant.                                                          *)
(***************************************************************************)

\* At the start nothing is requested, emitted or queued.
LEMMA InitIInv == Init => IInv
<1> SUFFICES ASSUME Init PROVE IInv
  OBVIOUS
<1>1. /\ NoJob \in Job /\ NoJob.state = Free
  <2>1. (CHOOSE d \in Readers \union {Author} : TRUE) \in Readers \union {Author}
    OBVIOUS
  <2>2. QED
    BY <2>1 DEF NoJob, Job, Free
<1>2. TypeOK
  <2>1. RequestTypes
    BY DEF Init, RequestTypes, People
  <2>2. EventTypes
    BY DEF Init, EventTypes
  <2>3. ConsumerTypes
    BY DEF Init, ConsumerTypes
  <2>4. jobs \in [JobIds -> Job]
    BY <1>1 DEF Init
  <2>5. HistoryTypes
    BY DEF Init, HistoryTypes
  <2>6. QED
    BY <2>1, <2>2, <2>3, <2>4, <2>5, TypeParts
<1>3. AttemptLeft
  BY <1>1 DEF Init, AttemptLeft, Free
<1>4. EventsFit
  <2>1. Emitting = {}
    BY DEF Init, Emitting
  <2>2. IsFiniteSet(Emitting) /\ Cardinality(Emitting) = 0
    BY <2>1, FS_EmptySet
  <2>3. QED
    BY <2>2 DEF Init, EventsFit
<1>5. Causes
  BY DEF Init, Causes, Nothing
<1>6. FollowersInHand
  BY <1>1, Names DEF Init, FollowersInHand, Nothing
<1>7. FollowersAreQueued
  BY DEF Init, FollowersAreQueued
<1>8. AnnouncedOnce
  BY DEF Init, AnnouncedOnce, Events, Topics
<1>9. FavoritesAreAnnounced
  <2> SUFFICES ASSUME NEW u \in Readers
               PROVE  added[u] <= Cardinality(InTopic(u)) + OnTheWay(u) + lost[u]
    BY DEF FavoritesAreAnnounced
  <2>1. added[u] = 0 /\ lost[u] = 0 /\ inFlight[<<"favorited", u>>] = 0
    BY DEF Init, Events
  <2>2. Cardinality(InTopic(u)) \in Nat /\ Cardinality(AboutToEmit(u)) \in Nat
    BY <1>2, <1>4, Counts
  <2>3. QED
    BY <2>1, <2>2 DEF OnTheWay
<1>10. FewRepeats
  BY DEF Init, FewRepeats, LeftBehind, ToCome, Nothing
<1>11. QED
  BY <1>2, <1>3, <1>4, <1>5, <1>6, <1>7, <1>8, <1>9, <1>10 DEF IInv

\* A step keeps it.
LEMMA StepIInv == IInv /\ [Next]_vars => IInv'
<1> SUFFICES ASSUME IInv, [Next]_vars PROVE IInv'
  OBVIOUS
<1>1. /\ TypeOK /\ AttemptLeft /\ EventsFit /\ Causes /\ FollowersInHand /\ FollowersAreQueued
      /\ FavoritesAreAnnounced /\ AnnouncedOnce /\ FewRepeats
  BY DEF IInv
<1>2. RequestTypes /\ EventTypes /\ ConsumerTypes /\ HistoryTypes
  BY <1>1, TypeParts
<1>3. jobs' \in [JobIds -> Job] /\ AttemptLeft'
  BY <1>1, JobsMove
<1>4. RequestTypes' /\ EventTypes' /\ ConsumerTypes' /\ HistoryTypes'
  BY <1>1, <1>2, StepRequestTypes, StepEventTypes, StepConsumerTypes, StepHistoryTypes
<1>5. TypeOK'
  BY <1>3, <1>4 DEF TypeOK, RequestTypes, EventTypes, ConsumerTypes, HistoryTypes
<1>6. EventsFit' /\ Causes'
  BY <1>1, StepEventsFit, StepCauses
<1>7. FollowersInHand' /\ FollowersAreQueued'
  BY <1>1, StepFollowersInHand, StepFollowersAreQueued
<1>8. FavoritesAreAnnounced'
  BY <1>1, <1>5, <1>6, StepFavoritesAreAnnounced
<1>9. AnnouncedOnce' /\ FewRepeats'
  BY <1>1, StepAnnouncedOnce, StepFewRepeats
<1>10. QED
  BY <1>3, <1>5, <1>6, <1>7, <1>8, <1>9 DEF IInv

----------------------------------------------------------------------------
(***************************************************************************)
(* The theorems.                                                           *)
(***************************************************************************)

\* The invariant holds in every state the service, Kafka and Redis can reach.
THEOREM Invariant == Spec => []IInv
  BY InitIInv, StepIInv, PTL DEF Spec

\* Every variable stays in its range.
THEOREM TypeCorrect == Spec => []TypeOK
<1>1. IInv => TypeOK
  BY DEF IInv
<1>2. QED
  BY <1>1, Invariant, PTL

\* Whatever fails, dies or is delivered twice, no follower whom the consumer has
\* read is passed over when the handler of article.created resolves.
THEOREM NoFollowerIsPassedOver == Spec => []FollowersAreQueued
<1>1. IInv => FollowersAreQueued
  BY DEF IInv
<1>2. QED
  BY <1>1, Invariant, PTL

\* Each time a favorite's edge is added one more event of it is about to be emitted, on
\* its way or in the topic, however requests for and against it interleave, unless a
\* call, the broker or the process lost it.
THEOREM NoFavoriteIsSilent == Spec => []FavoritesAreAnnounced
<1>1. IInv => FavoritesAreAnnounced
  BY DEF IInv
<1>2. QED
  BY <1>1, Invariant, PTL

\* The mail about the article is queued at most once per follower, and once more for
\* each fault, also after the first has been sent and its job id is free again.
THEOREM AnnouncedToEachOnce == Spec => []RepeatsHaveCause
<1>1. IInv => RepeatsHaveCause
  <2> SUFFICES ASSUME IInv, NEW u \in Followers PROVE told[u] <= 1 + faults
    BY DEF RepeatsHaveCause
  <2>1. told[u] \in Nat /\ faults \in Nat /\ told[u] + LeftBehind(u) + ToCome(u) <= 1 + faults
    BY DEF IInv, TypeOK, FewRepeats
  <2>2. LeftBehind(u) \in {0, 1} /\ ToCome(u) \in {0, 1}
    BY DEF LeftBehind, ToCome
  <2>3. QED
    BY <2>1, <2>2
<1>2. QED
  BY <1>1, Invariant, PTL

=============================================================================
