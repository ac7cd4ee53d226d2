--------------------------- MODULE Notifications ---------------------------
(***************************************************************************)
(* From a favorite, or a new article, to an email: FavoritesService and    *)
(* ArticlesService, ArticleEventProducer, the two Kafka topics,            *)
(* ArticleNotificationConsumer and the email queue.                        *)
(*                                                                         *)
(* One author and one article.  Publishing it is announced to the author's *)
(* followers, a favorite to the author.  emit returns before Kafka has the *)
(* event, so events travel by themselves (`inFlight').  All of it runs in  *)
(* one process, which may die: then its requests, events in flight and the *)
(* consumer's position are lost, while PostgreSQL, the topics and Redis    *)
(* stay.                                                                   *)
(***************************************************************************)
EXTENDS Naturals, Sequences, FiniteSets

CONSTANTS
  Author,
  Followers,   \* users who may follow the author
  Readers,     \* users who may favorite the article, perhaps its author
  Requests,    \* HTTP requests that can be served at the same time
  Attempts,    \* EMAIL_QUEUE_ATTEMPTS
  MaxEvents,   \* bound: events emitted
  MaxFaults    \* bound: lost events, failed calls and crashes

ASSUME AuthorAssumption == Author \notin Followers
ASSUME EventsAssumption ==
  Attempts \in Nat \ {0} /\ MaxEvents \in Nat /\ MaxFaults \in Nat

VARIABLES
  article,     \* "none", "published" or "deleted"
  favorited,   \* users with a favorite edge to the article
  pc,          \* per request: what it does next
  user,        \* per request: who it is served for
  inFlight,    \* how many events of each kind the producer is sending
  emitted,     \* how many were ever emitted
  topic,       \* per topic: the events in it, each named by who caused it
  position,    \* per topic: events the consumer has handled
  handling,    \* the topic whose next event is being handled, or Nothing
  recipients,  \* whom it is for, once they are read
  todo,        \* those not yet added to the queue
  stray,       \* jobs that calls left behind by a failed handler are still adding
  jobs,        \* the email queue
  queued,      \* history: mails for which a job was created
  owed,        \* history: recipients of the handled article.created event
  told,        \* history: how many jobs were created for the mail of each follower
  added,       \* history: how often each user's favorite edge was added
  lost,        \* history: how many events of each user's favorites were lost
  faults       \* lost events, failed calls and crashes so far

People == Followers \union Readers \union {Author}
Topics == {"created", "favorited"}
Nothing == "nothing"
Events == {"created"} \X {Author} \union {"favorited"} \X Readers

\* ARTICLE_NOTIFICATION_JOB_ID_PREFIX, event type, article and recipient: who
\* caused the event is in the data only.
JobId(t, p) == <<t, p>>

JobIds == ({"created"} \X Followers) \union {JobId("favorited", Author)}

INSTANCE EmailQueue WITH Data <- Readers \union {Author}

requests == <<pc, user>>
producer == <<inFlight, emitted>>
consumer == <<position, handling, recipients, todo, stray>>
history == <<queued, owed, told, added, lost>>
vars == <<article, favorited, requests, producer, topic, consumer,
          jobs, history, faults>>

\* The article may be older than the events considered, or yet to be published.
Init ==
  /\ article \in {"none", "published"}
  /\ favorited = {}
  /\ pc = [r \in Requests |-> "idle"]
  /\ user = [r \in Requests |-> Author]
  /\ inFlight = [e \in Events |-> 0]
  /\ emitted = 0
  /\ topic = [t \in Topics |-> << >>]
  /\ position = [t \in Topics |-> 0]
  /\ handling = Nothing
  /\ recipients = {}
  /\ todo = {}
  /\ stray = {}
  /\ jobs = [j \in JobIds |-> NoJob]
  /\ queued = {}
  /\ owed = {}
  /\ told = [u \in Followers |-> 0]
  /\ added = [u \in Readers |-> 0]
  /\ lost = [u \in Readers |-> 0]
  /\ faults = 0

Goto(r, from, to) ==
  /\ pc[r] = from
  /\ pc' = [pc EXCEPT ![r] = to]

Finish(r) ==
  /\ pc' = [pc EXCEPT ![r] = "idle"]
  /\ user' = [user EXCEPT ![r] = Author]

Fault ==
  /\ faults < MaxFaults
  /\ faults' = faults + 1

----------------------------------------------------------------------------
(***************************************************************************)
(* Requests.                                                               *)
(***************************************************************************)
database == <<article, favorited>>

\* Bound: a request that may emit starts only while its event fits.
Emitting == {r \in Requests : pc[r] \in {"connect", "reread", "emit", "emitCreated"}}
EventsLeft == emitted + Cardinality(Emitting) < MaxEvents

\* ArticlesService.create: the article is there before its event.
Create(r) ==
  /\ article = "none"
  /\ EventsLeft
  /\ Goto(r, "idle", "emitCreated")
  /\ article' = "published"
  /\ UNCHANGED <<favorited, user, producer, topic, consumer, jobs, history, faults>>

\* ArticlesService.remove; the edges go with the row.
Delete ==
  /\ article = "published"
  /\ article' = "deleted"
  /\ favorited' = {}
  /\ UNCHANGED <<requests, producer, topic, consumer, jobs, history, faults>>

\* favorite, the answer of requireArticle: an article that is gone (404) or
\* already a favorite changes nothing.
FavoriteRead(r, u) ==
  /\ article = "published"
  /\ u \notin favorited
  /\ EventsLeft
  /\ Goto(r, "idle", "connect")
  /\ user' = [user EXCEPT ![r] = u]
  /\ UNCHANGED <<database, producer, topic, consumer, jobs, history, faults>>

\* connect: the edge is there, and was perhaps there before.
Connect(u) ==
  /\ article = "published"
  /\ favorited' = favorited \union {u}
  /\ added' = IF u \in favorited THEN added ELSE [added EXCEPT ![u] = @ + 1]

\* Events of a user's favorites that are in the topic, or not there yet.
InTopic(u) == {i \in 1 .. Len(topic["favorited"]) : topic["favorited"][i] = u}
AboutToEmit(u) == {r \in Requests : pc[r] = "emit" /\ user[r] = u}
OnTheWay(u) == inFlight[<<"favorited", u>>] + Cardinality(AboutToEmit(u))

\* (A variant for mutation runs: who was announced once is not announced again.)
FavoriteWriteOnce(r) ==
  /\ pc[r] = "connect"
  /\ Connect(user[r])
  /\ IF InTopic(user[r]) = {}
     THEN Goto(r, "connect", "emit") /\ UNCHANGED user
     ELSE Finish(r)
  /\ UNCHANGED <<article, producer, topic, consumer, jobs, queued, owed, told, lost, faults>>

\* connect adds the edge, and findById answers.
FavoriteWrite(r) ==
  /\ Goto(r, "connect", "emit")
  /\ Connect(user[r])
  /\ UNCHANGED <<article, user, producer, topic, consumer, jobs, queued, owed, told, lost, faults>>

\* P2002, the edge was added since: the article is read again.
FavoriteCollides(r) ==
  /\ user[r] \in favorited
  /\ Goto(r, "connect", "reread")
  /\ UNCHANGED <<database, user, producer, topic, consumer, jobs, history, faults>>

FavoriteReread(r) ==
  /\ article = "published"
  /\ Goto(r, "reread", "emit")
  /\ UNCHANGED <<database, user, producer, topic, consumer, jobs, history, faults>>

\* findById fails: the request is answered 500, and connect goes on without it.
ActorLookupFails(r) ==
  /\ pc[r] = "connect"
  /\ Fault
  /\ Connect(user[r])
  /\ lost' = [lost EXCEPT ![user[r]] = @ + 1]
  /\ Finish(r)
  /\ UNCHANGED <<article, producer, topic, consumer, jobs, queued, owed, told>>

\* The article is gone: P2025, or nothing to read again.
ArticleGone(r) ==
  /\ article = "deleted"
  /\ pc[r] \in {"connect", "reread", "disconnect"}
  /\ Finish(r)
  /\ UNCHANGED <<database, producer, topic, consumer, jobs, history, faults>>

\* The event a request is about to emit.
EventOf(r) == IF pc[r] = "emitCreated" THEN <<"created", Author>> ELSE <<"favorited", user[r]>>

\* emitArticleFavorited, emitArticleCreated: handed to the client, not awaited.
Emit(r) ==
  /\ pc[r] \in {"emit", "emitCreated"}
  /\ emitted' = emitted + 1
  /\ inFlight' = [inFlight EXCEPT ![EventOf(r)] = @ + 1]
  /\ Finish(r)
  /\ UNCHANGED <<database, topic, consumer, jobs, history, faults>>

\* unfavorite: nobody is told.  (Bound: only while there are events left, which is
\* when the edge matters.)
UnfavoriteRead(r, u) ==
  /\ u \in favorited
  /\ emitted < MaxEvents
  /\ Goto(r, "idle", "disconnect")
  /\ user' = [user EXCEPT ![r] = u]
  /\ UNCHANGED <<database, producer, topic, consumer, jobs, history, faults>>

UnfavoriteWrite(r) ==
  /\ pc[r] = "disconnect"
  /\ article = "published"
  /\ favorited' = favorited \ {user[r]}
  /\ Finish(r)
  /\ UNCHANGED <<article, producer, topic, consumer, jobs, history, faults>>

----------------------------------------------------------------------------
(***************************************************************************)
(* Kafka and its consumer.                                                 *)
(***************************************************************************)

\* An event reaches its topic ...
Publish(e) ==
  /\ inFlight[e] > 0
  /\ inFlight' = [inFlight EXCEPT ![e] = @ - 1]
  /\ topic' = [topic EXCEPT ![e[1]] = Append(@, e[2])]
  /\ UNCHANGED <<database, requests, emitted, consumer, jobs, history, faults>>

\* ... or the broker is lost, which is only logged.
EmitFails(e) ==
  /\ inFlight[e] > 0
  /\ Fault
  /\ inFlight' = [inFlight EXCEPT ![e] = @ - 1]
  /\ lost' = IF e[1] = "favorited" THEN [lost EXCEPT ![e[2]] = @ + 1] ELSE lost
  /\ UNCHANGED <<database, requests, emitted, topic, consumer, jobs, queued, owed, told, added>>

NextEvent(t) == topic[t][position[t] + 1]

\* The consumer moves on to its next event.
Advance(t) ==
  /\ position' = [position EXCEPT ![t] = @ + 1]
  /\ handling' = Nothing
  /\ recipients' = {}
  /\ todo' = {}

\* handleArticleFavorited: the author's own favorite is skipped.
SkipOwnFavorite ==
  /\ handling = Nothing
  /\ position["favorited"] < Len(topic["favorited"])
  /\ NextEvent("favorited") = Author
  /\ Advance("favorited")
  /\ UNCHANGED <<database, requests, producer, topic, stray, jobs, history, faults>>

\* Whom to tell: findFollowersByAuthorId, or the author.
Handle(t) ==
  /\ handling = Nothing
  /\ position[t] < Len(topic[t])
  /\ t = "favorited" => NextEvent(t) # Author
  /\ handling' = t
  /\ recipients' \in IF t = "created" THEN SUBSET Followers ELSE {{Author}}
  /\ todo' = recipients'
  /\ UNCHANGED <<database, requests, producer, topic, position, stray, jobs, history, faults>>

\* Adding a job, and what history keeps of it.
AddJob(j, about) ==
  /\ jobs' = Added(j, about)
  /\ IF jobs[j].state = Free
     THEN /\ queued' = queued \union {<<j, about>>}
          /\ told' = IF j[1] = "created" THEN [told EXCEPT ![j[2]] = @ + 1] ELSE told
     ELSE UNCHANGED <<queued, told>>

\* enqueueArticleNotification for one of them.
Enqueue(p) ==
  /\ p \in todo
  /\ AddJob(JobId(handling, p), NextEvent(handling))
  /\ todo' = todo \ {p}
  /\ UNCHANGED <<database, requests, producer, topic, position, handling, recipients, stray,
                 owed, added, lost, faults>>

\* (A variant for mutation runs: Promise.allSettled, and nobody looks.)
EnqueueFailsSettled(p) ==
  /\ p \in todo
  /\ Fault
  /\ todo' = todo \ {p}
  /\ UNCHANGED <<database, requests, producer, topic, position, handling, recipients, stray,
                 jobs, history>>

\* It fails, whether or not Redis has the job: Promise.all rejects at once and
\* Kafka will deliver the event again; the other calls go on.
EnqueueFails(p) ==
  /\ p \in todo
  /\ Fault
  /\ \/ AddJob(JobId(handling, p), NextEvent(handling))
     \/ UNCHANGED <<jobs, queued, told>>
  /\ stray' = stray \union {<<JobId(handling, q), NextEvent(handling)>> : q \in todo \ {p}}
  /\ handling' = Nothing
  /\ recipients' = {}
  /\ todo' = {}
  /\ UNCHANGED <<database, requests, producer, topic, position, owed, added, lost>>

EnqueueStray(m) ==
  /\ m \in stray
  /\ stray' = stray \ {m}
  /\ AddJob(m[1], m[2])
  /\ UNCHANGED <<database, requests, producer, topic, position, handling, recipients, todo,
                 owed, added, lost, faults>>

\* (A variant for mutation runs: the offset is not moved on.)
HandledAgain ==
  /\ handling # Nothing
  /\ todo = {}
  /\ handling' = Nothing
  /\ recipients' = {}
  /\ owed' = IF handling = "created" THEN owed \union recipients ELSE owed
  /\ UNCHANGED <<database, requests, producer, topic, position, todo, stray, jobs, queued,
                 told, added, lost, faults>>

\* The handler resolves.
Handled ==
  /\ handling # Nothing
  /\ todo = {}
  /\ Advance(handling)
  /\ owed' = IF handling = "created" THEN owed \union recipients ELSE owed
  /\ UNCHANGED <<database, requests, producer, topic, stray, jobs, queued, told, added, lost,
                 faults>>

----------------------------------------------------------------------------
(***************************************************************************)
(* The worker and the process.                                             *)
(***************************************************************************)
others == <<database, requests, producer, topic, consumer, history, faults>>

Worker == Work /\ UNCHANGED others

FailedJobExpires(j) == Forget(j) /\ UNCHANGED others

\* The process dies and starts again.  Offsets are committed some time after the
\* events are handled, so the consumer may go back to any of them.
Crash ==
  /\ Fault
  /\ lost' = [u \in Readers |-> lost[u] + OnTheWay(u)]
  /\ pc' = [r \in Requests |-> "idle"]
  /\ user' = [r \in Requests |-> Author]
  /\ inFlight' = [e \in Events |-> 0]
  /\ position' \in [Topics -> 0 .. MaxEvents]
  /\ \A t \in Topics : position'[t] <= position[t]
  /\ handling' = Nothing
  /\ recipients' = {}
  /\ todo' = {}
  /\ stray' = {}
  /\ jobs' = Stalled
  /\ UNCHANGED <<database, emitted, topic, queued, owed, told, added>>

Serve(r) ==
  \/ FavoriteWrite(r)
  \/ FavoriteCollides(r)
  \/ FavoriteReread(r)
  \/ ArticleGone(r)
  \/ Emit(r)
  \/ UnfavoriteWrite(r)

Arrive(r) ==
  \/ Create(r)
  \/ \E u \in Readers : FavoriteRead(r, u)
  \/ \E u \in Readers : UnfavoriteRead(r, u)

Consume ==
  \/ SkipOwnFavorite
  \/ \E t \in Topics : Handle(t)
  \/ \E p \in People : Enqueue(p)
  \/ Handled

Next ==
  \/ \E r \in Requests : Arrive(r) \/ Serve(r) \/ ActorLookupFails(r)
  \/ Delete
  \/ \E e \in Events : Publish(e) \/ EmitFails(e)
  \/ Consume
  \/ \E p \in People : EnqueueFails(p)
  \/ \E m \in stray : EnqueueStray(m)
  \/ Worker
  \/ \E j \in JobIds : FailedJobExpires(j)
  \/ Crash

Spec == Init /\ [][Next]_vars

\* The consumer polls and the worker takes jobs as long as there are any.
\* Nothing makes a client call, or a failed job grow old.
FairSpec == Spec /\ WF_vars(Consume) /\ WF_vars(Worker)

----------------------------------------------------------------------------
(***************************************************************************)
(* Properties                                                              *)
(***************************************************************************)

\* Every variable stays in its range.
TypeOK ==
  /\ article \in {"none", "published", "deleted"}
  /\ favorited \subseteq Readers
  /\ pc \in [Requests -> {"idle", "connect", "reread", "emit", "emitCreated", "disconnect"}]
  /\ user \in [Requests -> People]
  /\ inFlight \in [Events -> 0 .. MaxEvents]
  /\ emitted \in 0 .. MaxEvents
  /\ topic \in [Topics -> Seq(People)]
  /\ position \in [Topics -> Nat]
  /\ \A t \in Topics : position[t] <= Len(topic[t])
  /\ handling \in Topics \union {Nothing}
  /\ todo \subseteq recipients
  /\ recipients \subseteq People
  /\ stray \subseteq JobIds \X People
  /\ jobs \in [JobIds -> Job]
  /\ told \in [Followers -> Nat]
  /\ added \in [Readers -> Nat]
  /\ lost \in [Readers -> Nat]
  /\ faults \in 0 .. MaxFaults

\* A follower the consumer has read is never passed over: once the handler of
\* article.created resolves, each of them has had a job, whatever failed, was
\* added twice or was delivered again on the way.
FollowersAreQueued ==
  \A u \in owed : <<JobId("created", u), Author>> \in queued

\* No favorite is swallowed: each time a user's edge to the article is added, by the
\* first favorite, by one after an unfavorite, or by either of two at once, one more
\* event of that user is in the topic, on its way or about to be emitted, unless its
\* request failed, the broker or the process lost it.
FavoritesAreAnnounced ==
  \A u \in Readers : added[u] <= Cardinality(InTopic(u)) + OnTheWay(u) + lost[u]

\* A fault repeats a mail at most once.  Redelivery after a partial failure of
\* Promise.all, the calls that failure left behind and a restart that goes back in the
\* topic may add a follower's job again once the first is sent and gone, but each of
\* them costs the follower one more mail at the most, and without them there is one.
RepeatsHaveCause == \A u \in Followers : told[u] <= 1 + faults

\* What the README says of a favorite: the consumer takes the event and puts an
\* email to the author into the jobs, unless the author caused it.
FavoritesAreQueued ==
  \A i \in 1 .. position["favorited"] :
    topic["favorited"][i] # Author =>
      <<JobId("favorited", Author), topic["favorited"][i]>> \in queued

\* What is in a topic reaches its end: the consumer handles every event, although
\* calls fail, the process dies and events are delivered again, and each mail
\* that comes of them is sent or runs out of attempts.
EventsAreSettled ==
  \A t \in Topics :
    Len(topic[t]) > 0 ~>
      /\ position[t] = Len(topic[t])
      /\ \A j \in JobIds : j[1] = t => jobs[j].state \in {Free, "failed"}

(***************************************************************************)
(* Why the safety properties hold: the inductive invariant.                *)
(***************************************************************************)

\* Whoever may emit has room for its event, and only what was emitted is in flight.
EventsFit ==
  /\ IsFiniteSet(Emitting)
  /\ emitted + Cardinality(Emitting) <= MaxEvents
  /\ \A e \in Events : inFlight[e] <= emitted

\* Every event says who caused it, wherever it is, and the handler has one that is
\* not handled yet.
Causes ==
  /\ \A r \in Requests : pc[r] \notin {"idle", "emitCreated"} => user[r] \in Readers
  /\ \A t \in Topics : \A i \in 1 .. Len(topic[t]) : <<t, topic[t][i]>> \in Events
  /\ handling = Nothing => recipients = {}
  /\ handling # Nothing =>
       /\ position[handling] < Len(topic[handling])
       /\ recipients \subseteq IF handling = "created" THEN Followers ELSE {Author}
  /\ \A m \in stray : <<m[1][1], m[2]>> \in Events

\* A follower's job was queued in the name of the author, and the handler has
\* queued one for each follower that is off its list.
MailOf(u) == <<JobId("created", u), Author>>
FollowersInHand ==
  /\ \A u \in Followers : jobs[JobId("created", u)].state # Free => MailOf(u) \in queued
  /\ handling = "created" => \A u \in recipients \ todo : MailOf(u) \in queued

\* The article is announced at most once: it is created once, and an event in flight is
\* not sent twice.
AnnouncedOnce ==
  /\ inFlight[<<"created", Author>>] + Len(topic["created"]) <= 1
  /\ \A r \in Requests : pc[r] = "emitCreated" =>
       /\ inFlight[<<"created", Author>>] + Len(topic["created"]) = 0
       /\ \A q \in Requests \ {r} : pc[q] # "emitCreated"
  /\ article = "none" =>
       /\ inFlight[<<"created", Author>>] + Len(topic["created"]) = 0
       /\ \A r \in Requests : pc[r] # "emitCreated"

\* A follower may get one more mail from a call left behind, and one more from the
\* handler that has yet to serve it or has yet to take the event (again).
ToCome(u) ==
  IF IF handling = "created" THEN u \in todo ELSE position["created"] = 0 THEN 1 ELSE 0
LeftBehind(u) == IF MailOf(u) \in stray THEN 1 ELSE 0
FewRepeats == \A u \in Followers : told[u] + LeftBehind(u) + ToCome(u) <= 1 + faults

IInv ==
  /\ TypeOK
  /\ AttemptLeft
  /\ EventsFit
  /\ Causes
  /\ FollowersInHand
  /\ FollowersAreQueued
  /\ FavoritesAreAnnounced
  /\ AnnouncedOnce
  /\ FewRepeats
============================================================================
