--------------------------- MODULE ProviderLinks ---------------------------
(***************************************************************************)
(* Signing in through a provider: AccountResolverService, which finds or   *)
(* creates the account of a verified identity, and ProviderLinkService     *)
(* with PendingProviderLinkRepository, which mail a confirmation token     *)
(* when the identity's address belongs to an account it is not linked to;  *)
(* the mail is a job of EmailQueue, for ProviderLinkConfirmationHandler.   *)
(*                                                                         *)
(* One provider exists (Google), so an identity is its subject.  An account *)
(* is its email address: the column is unique and nothing updates it.  A   *)
(* pending row is named by its id, and its token by the same id: every     *)
(* row is inserted with a token of its own.                                *)
(*                                                                         *)
(* Every await is a step, and so is everything a statement may have to     *)
(* wait for: each row of a DELETE and each unique key of an INSERT, in the *)
(* order of its indexes.  Postgres runs at READ COMMITTED; what an open    *)
(* transaction holds is said by Holds... and `removing'.  Transactions may *)
(* wait in a circle (OnCircle), and Postgres ends one of them (Victim).    *)
(***************************************************************************)
EXTENDS Naturals, FiniteSets, Functions

CONSTANTS
  Subjects,     \* provider account ids
  Accounts,     \* email addresses
  Requests,     \* HTTP requests and sweeps that can run at the same time
  None,         \* SQL null, a missing row
  Cooldown,     \* PENDING_LINK_RESEND_COOLDOWN_MS, in clock ticks
  LinkTtl,      \* LINK_TTL_MS, in clock ticks
  MaxLinks,     \* bound: pending rows ever inserted
  MaxTime,      \* bound: clock ticks
  Attempts,     \* EMAIL_QUEUE_ATTEMPTS
  MaxRefusals,  \* bound: failed calls of the email queue
  MaxCrashes    \* bound: requests that die half-way, and deaths of the worker

ASSUME NoneAssumption == None \notin Subjects \union Accounts
ASSUME TimesAssumption ==
  Cooldown \in Nat \ {0} /\ LinkTtl \in Nat \ {0} /\ Cooldown <= LinkTtl
ASSUME LinkBoundsAssumption ==
  /\ MaxLinks \in Nat /\ MaxTime \in Nat
  /\ Attempts \in Nat \ {0} /\ MaxRefusals \in Nat /\ MaxCrashes \in Nat

VARIABLES
  registered,   \* accounts with a user row
  creator,      \* the subject an account was created for, None for a password account
  linked,       \* AuthProvider: the account of each subject
  pending,      \* ids of the committed PendingAuthProviderLink rows
  link,         \* columns of each id
  nextId,       \* the sequence of ids
  pc,           \* per request: what it does next
  sub,          \* per request: the subject it is about
  account,      \* per request: the account it is about
  at,           \* per request: the `now' it captured
  id,           \* per request: the pending row it inserted, or was given
  found,        \* per request: the rows its DELETE has found and not come to yet
  removing,     \* per request: the rows its transaction has deleted
  jobs,         \* the email queue: the job of each token
  now,          \* the clock
  mailed,       \* tokens whose mail the SMTP server may have taken
  refusals,     \* failed queue calls so far
  crashes       \* deaths so far

users == <<registered, creator, linked>>
rows == <<pending, link, nextId>>
locals == <<pc, sub, account, at, id, found, removing>>
world == <<jobs, now, mailed, refusals, crashes>>
vars == <<users, rows, locals, world>>

Ids == 1 .. MaxLinks

\* A job is named for its row and token; what it says is the token's.
INSTANCE EmailQueue WITH JobIds <- Ids, Data <- {"confirmation"}

Clock == 0 .. MaxTime

Link == [account : Accounts \union {None}, sub : Subjects \union {None}, createdAt : Clock]
BlankLink == [account |-> None, sub |-> None, createdAt |-> 0]

Pc == {"idle", "byEmail", "create", "createLink", "createCommit",
       "issueRead", "clear", "clearing", "insert", "insertAccount", "issueCommit",
       "reread", "enqueue", "compensate",
       "claim", "lookup", "link", "linkCommit", "recheck", "sweeping"}

Init ==
  /\ registered \in SUBSET Accounts
  /\ creator = [a \in Accounts |-> None]
  /\ linked = [s \in Subjects |-> None]
  /\ pending = {}
  /\ link = [i \in Ids |-> BlankLink]
  /\ nextId = 1
  /\ pc = [r \in Requests |-> "idle"]
  /\ sub = [r \in Requests |-> None]
  /\ account = [r \in Requests |-> None]
  /\ at = [r \in Requests |-> 0]
  /\ id = [r \in Requests |-> 0]
  /\ found = [r \in Requests |-> {}]
  /\ removing = [r \in Requests |-> {}]
  /\ jobs = [i \in Ids |-> NoJob]
  /\ now = 0
  /\ mailed = {}
  /\ refusals = 0
  /\ crashes = 0

\* A request goes on to its next await ...
Goto(r, from, to) ==
  /\ pc[r] = from
  /\ pc' = [pc EXCEPT ![r] = to]

\* ... or ends, whatever it answers, and what it has not committed is undone.
Finish(r) ==
  /\ pc' = [pc EXCEPT ![r] = "idle"]
  /\ sub' = [sub EXCEPT ![r] = None]
  /\ account' = [account EXCEPT ![r] = None]
  /\ at' = [at EXCEPT ![r] = 0]
  /\ id' = [id EXCEPT ![r] = 0]
  /\ found' = [found EXCEPT ![r] = {}]
  /\ removing' = [removing EXCEPT ![r] = {}]

----------------------------------------------------------------------------
Expires(i) == link[i].createdAt + LinkTtl

\* The rows `provider and providerAccountId, or userId and provider' asks for.
Matches(i, r) == link[i].sub = sub[r] \/ link[i].account = account[r]
Matching(r) == {i \in pending : Matches(i, r)}

----------------------------------------------------------------------------
(***************************************************************************)
(* What open transactions hold, and who waits for it.                      *)
(***************************************************************************)

\* A row that q has inserted and not committed has the unique key: the address
\* of User, ...
HoldsAddress(q, a) == pc[q] \in {"createLink", "createCommit"} /\ account[q] = a

\* ... the provider's id of AuthProvider, ...
HoldsSubject(q, s) == pc[q] \in {"createCommit", "linkCommit"} /\ sub[q] = s

\* ... or one of the two keys of PendingAuthProviderLink, which q may also hold
\* because it is deleting the row that has it.
HoldsOfferSubject(q, s) ==
  \/ pc[q] \in {"insertAccount", "issueCommit"} /\ sub[q] = s
  \/ \E i \in removing[q] : link[i].sub = s
HoldsOfferAccount(q, a) ==
  \/ pc[q] = "issueCommit" /\ account[q] = a
  \/ \E i \in removing[q] : link[i].account = a

\* r has come, or may come next, to a row or key that q holds.  (A DELETE comes
\* to its rows in an order nobody states.)
WaitsFor(r, q) ==
  /\ q # r
  /\ \/ found[r] \intersect removing[q] # {}
     \/ pc[r] \in {"claim", "compensate"} /\ id[r] \in removing[q]
     \/ pc[r] = "create" /\ HoldsAddress(q, account[r])
     \/ pc[r] \in {"createLink", "link"} /\ HoldsSubject(q, sub[r])
     \/ pc[r] = "insert" /\ HoldsOfferSubject(q, sub[r])
     \/ pc[r] = "insertAccount" /\ HoldsOfferAccount(q, account[r])

Waits(r) == \E q \in Requests : WaitsFor(r, q)

\* r waits for a transaction that waits for another, and so on back to r.
OnCircle(r) ==
  \E C \in SUBSET {q \in Requests : Waits(q)} :
    r \in C /\ \E next \in Bijection(C, C) : \A q \in C : WaitsFor(q, next[q])

----------------------------------------------------------------------------
\* A password account appears (AuthService.register).
Register(a) ==
  /\ a \notin registered
  /\ \A q \in Requests : ~HoldsAddress(q, a)
  /\ registered' = registered \union {a}
  /\ UNCHANGED <<creator, linked, rows, locals, world>>

\* resolve: findAccountByProvider.  A linked subject just signs in.
Resolve(r, s, a) ==
  /\ pc[r] = "idle"
  /\ IF linked[s] = None
     THEN /\ pc' = [pc EXCEPT ![r] = "byEmail"]
          /\ sub' = [sub EXCEPT ![r] = s]
          /\ account' = [account EXCEPT ![r] = a]
     ELSE UNCHANGED <<pc, sub, account>>
  /\ UNCHANGED <<users, rows, at, id, found, removing, world>>

\* findIdByEmail finds nobody.
ResolveUnknown(r) ==
  /\ account[r] \notin registered
  /\ Goto(r, "byEmail", "create")
  /\ UNCHANGED <<users, rows, sub, account, at, id, found, removing, world>>

\* linkToExisting refuses an address the provider has not verified.
RefuseUnverified(r) ==
  /\ pc[r] = "byEmail"
  /\ account[r] \in registered
  /\ Finish(r)
  /\ UNCHANGED <<users, rows, world>>

\* (A variant for mutation runs: a verified address is proof enough.)
LinkToExistingAtOnce(r) ==
  /\ account[r] \in registered
  /\ Goto(r, "byEmail", "link")
  /\ at' = [at EXCEPT ![r] = now]
  /\ UNCHANGED <<users, rows, sub, account, id, found, removing, world>>

\* Bound: the sequence of ids is a short one.
IdsLeft == nextId <= MaxLinks

\* (Bound: nobody asks for a link when there is no id left.)
\* linkToExisting goes on to requestLink, which fixes `now' and the token.
LinkToExisting(r) ==
  /\ account[r] \in registered
  /\ IdsLeft
  /\ Goto(r, "byEmail", "issueRead")
  /\ at' = [at EXCEPT ![r] = now]
  /\ UNCHANGED <<users, rows, sub, account, id, found, removing, world>>

\* createAccount: the user row, unless its address (or its generated user name)
\* is taken, a unique violation nobody catches: the request fails.
CreateUser(r) ==
  /\ ~Waits(r)
  /\ account[r] \notin registered
  /\ Goto(r, "create", "createLink")
  /\ UNCHANGED <<users, rows, sub, account, at, id, found, removing, world>>

CreateUserTaken(r) ==
  /\ pc[r] = "create"
  /\ ~Waits(r)
  /\ Finish(r)
  /\ UNCHANGED <<users, rows, world>>

\* (A variant for mutation runs: the transaction goes on to delete the pending
\* rows of its subject.)
CreateLinkThenClear(r) ==
  /\ pc[r] = "createLink"
  /\ ~Waits(r)
  /\ IF linked[sub[r]] = None
     THEN /\ pc' = [pc EXCEPT ![r] = "createCommit"]
          /\ found' = [found EXCEPT ![r] = {i \in pending : link[i].sub = sub[r]}]
          /\ UNCHANGED <<sub, account, at, id, removing>>
     ELSE Finish(r)
  /\ UNCHANGED <<users, rows, world>>

\* Then its link, in the same transaction; a subject that is taken ends it too.
CreateLink(r) ==
  /\ pc[r] = "createLink"
  /\ ~Waits(r)
  /\ IF linked[sub[r]] = None
     THEN /\ pc' = [pc EXCEPT ![r] = "createCommit"]
          /\ UNCHANGED <<sub, account, at, id, found, removing>>
     ELSE Finish(r)
  /\ UNCHANGED <<users, rows, world>>

\* (A variant for mutation runs: the user is committed, the link is not.)
CreateAccountCommitUserOnly(r) ==
  /\ pc[r] = "createCommit"
  /\ registered' = registered \union {account[r]}
  /\ creator' = [creator EXCEPT ![account[r]] = sub[r]]
  /\ Finish(r)
  /\ UNCHANGED <<linked, rows, world>>

CreateAccountCommit(r) ==
  /\ pc[r] = "createCommit"
  /\ registered' = registered \union {account[r]}
  /\ creator' = [creator EXCEPT ![account[r]] = sub[r]]
  /\ linked' = [linked EXCEPT ![sub[r]] = account[r]]
  /\ Finish(r)
  /\ UNCHANGED <<rows, world>>

----------------------------------------------------------------------------
\* The newest matching row is younger than the cooldown.
CoolingDown(r) == \E i \in Matching(r) : at[r] < link[i].createdAt + Cooldown

\* issue: findExisting, outside the transaction; within the cooldown nothing
\* is sent and the answer is the same 202.
IssueRead(r) ==
  /\ pc[r] = "issueRead"
  /\ IF CoolingDown(r)
     THEN Finish(r)
     ELSE /\ pc' = [pc EXCEPT ![r] = "clear"]
          /\ UNCHANGED <<sub, account, at, id, found, removing>>
  /\ UNCHANGED <<users, rows, world>>

\* deleteMany: the statement takes its snapshot ...
IssueDeleteStart(r) ==
  /\ Goto(r, "clear", IF Matching(r) = {} THEN "insert" ELSE "clearing")
  /\ found' = [found EXCEPT ![r] = Matching(r)]
  /\ UNCHANGED <<users, rows, sub, account, at, id, removing, world>>

\* ... and comes to one row after the other: it waits for whoever is deleting the
\* row, and deletes it if it is still there.
IssueDelete(r) ==
  /\ pc[r] = "clearing"
  /\ \E i \in found[r] :
       /\ \A q \in Requests \ {r} : i \notin removing[q]
       /\ found' = [found EXCEPT ![r] = found[r] \ {i}]
       /\ removing' = [removing EXCEPT ![r] = removing[r] \union ({i} \intersect pending)]
       /\ pc' = IF found[r] = {i} THEN [pc EXCEPT ![r] = "insert"] ELSE pc
  /\ UNCHANGED <<users, rows, sub, account, at, id, world>>

\* (A variant for mutation runs: no unique index on account and provider.)
OfferAccountNeverTaken(r) == FALSE

\* A row that r is not deleting has its subject, or its account.
OfferSubjectTaken(r) == \E i \in pending \ removing[r] : link[i].sub = sub[r]
OfferAccountTaken(r) == \E i \in pending \ removing[r] : link[i].account = account[r]

\* P2002: the transaction is rolled back.
RollBackToReread(r) ==
  /\ pc' = [pc EXCEPT ![r] = "reread"]
  /\ removing' = [removing EXCEPT ![r] = {}]

\* create enters its row into one unique index after the other: by subject ...
IssueInsertSubject(r) ==
  /\ pc[r] = "insert"
  /\ ~Waits(r)
  /\ IF OfferSubjectTaken(r)
     THEN RollBackToReread(r)
     ELSE pc' = [pc EXCEPT ![r] = "insertAccount"] /\ UNCHANGED removing
  /\ UNCHANGED <<users, rows, sub, account, at, id, found, world>>

NewLink(r) == [account |-> account[r], sub |-> sub[r], createdAt |-> at[r]]

\* ... and by account.
IssueInsertAccount(r) ==
  /\ pc[r] = "insertAccount"
  /\ ~Waits(r)
  /\ IF OfferAccountTaken(r)
     THEN RollBackToReread(r) /\ UNCHANGED <<link, nextId, id>>
     ELSE /\ IdsLeft
          /\ link' = [link EXCEPT ![nextId] = NewLink(r)]
          /\ nextId' = nextId + 1
          /\ id' = [id EXCEPT ![r] = nextId]
          /\ pc' = [pc EXCEPT ![r] = "issueCommit"]
          /\ UNCHANGED removing
  /\ UNCHANGED <<users, pending, sub, account, at, found, world>>

\* The sequence has come to its end: the statement fails.
IssueInsertFails(r) ==
  /\ pc[r] \in {"insert", "insertAccount"}
  /\ ~IdsLeft
  /\ Finish(r)
  /\ UNCHANGED <<users, rows, world>>

IssueCommit(r) ==
  /\ Goto(r, "issueCommit", "enqueue")
  /\ pending' = (pending \ removing[r]) \union {id[r]}
  /\ removing' = [removing EXCEPT ![r] = {}]
  /\ UNCHANGED <<users, link, nextId, sub, account, at, id, found, world>>

\* After P2002 the conflicting row is read again: there, the answer is
\* `cooldown'; gone, the error is thrown.  The database does not change.
IssueReread(r) ==
  /\ pc[r] = "reread"
  /\ Finish(r)
  /\ UNCHANGED <<users, rows, world>>

\* The job is queued and the request answers `issued'.
Enqueue(r) ==
  /\ pc[r] = "enqueue"
  /\ jobs' = Added(id[r], "confirmation")
  /\ Finish(r)
  /\ UNCHANGED <<users, rows, now, mailed, refusals, crashes>>

\* The queue call throws, whether or not Redis has taken the job.
EnqueueFails(r) ==
  /\ refusals < MaxRefusals
  /\ refusals' = refusals + 1
  /\ Goto(r, "enqueue", "compensate")
  /\ jobs' \in {jobs, Added(id[r], "confirmation")}
  /\ UNCHANGED <<users, rows, sub, account, at, id, found, removing, now, mailed, crashes>>

\* (A variant for mutation runs: the row is left behind.)
CompensateNothing(r) ==
  /\ pc[r] = "compensate"
  /\ Finish(r)
  /\ UNCHANGED <<users, rows, world>>

\* deleteIfCurrent takes the row back, if it is still there; the answer is 503.
Compensate(r) ==
  /\ pc[r] = "compensate"
  /\ ~Waits(r)
  /\ pending' = pending \ {id[r]}
  /\ Finish(r)
  /\ UNCHANGED <<users, link, nextId, world>>

----------------------------------------------------------------------------
(***************************************************************************)
(* ProviderLinkConfirmationHandler, called by the worker.                  *)
(***************************************************************************)

\* The handler's own clock; whether the row is still there it does not ask.
Expired(i) == now >= Expires(i)

\* Too late: the job completes without a mail.
Skip(i) ==
  /\ Expired(i)
  /\ \A j \in Ids : jobs[j].state # "active"
  /\ jobs[i].state = "waiting"
  /\ jobs' = [jobs EXCEPT ![i] = NoJob]
  /\ UNCHANGED <<users, rows, locals, now, mailed, refusals, crashes>>

\* The mail is rendered and sendMail called, at the first attempt or a later one ...
Deliver(i) ==
  /\ ~Expired(i)
  /\ Take(i)
  /\ UNCHANGED <<users, rows, locals, now, mailed, refusals, crashes>>

\* ... it resolves ...
Delivered(i) ==
  /\ Send(i)
  /\ mailed' = mailed \union {i}
  /\ UNCHANGED <<users, rows, locals, now, refusals, crashes>>

\* ... or throws, whether or not the server has taken the mail.
DeliveryFails(i) ==
  /\ SendFails(i)
  /\ mailed' \in {mailed, mailed \union {i}}
  /\ UNCHANGED <<users, rows, locals, now, refusals, crashes>>

Worker == \E i \in Ids : Skip(i) \/ Deliver(i) \/ Delivered(i) \/ DeliveryFails(i)

\* A failed job is removed when it is a day old; its token has expired long before.
\* (A thousand failures within the life of a token are beyond MaxLinks.)
FailedJobExpires(i) ==
  /\ Expired(i)
  /\ Forget(i)
  /\ UNCHANGED <<users, rows, locals, now, mailed, refusals, crashes>>

\* The worker dies while a mail is under way: the job stalls and is taken again.
WorkerDies(i) ==
  /\ crashes < MaxCrashes
  /\ jobs[i].state = "active"
  /\ crashes' = crashes + 1
  /\ jobs' = Stalled
  /\ mailed' \in {mailed, mailed \union {i}}
  /\ UNCHANGED <<users, rows, locals, now, refusals>>

----------------------------------------------------------------------------
\* confirm: findValid, by hash and expiresAt > now; otherwise 400.
ConfirmFind(r, i) ==
  /\ pc[r] = "idle"
  /\ IF i \in pending /\ now < Expires(i)
     THEN /\ pc' = [pc EXCEPT ![r] = "claim"]
          /\ sub' = [sub EXCEPT ![r] = link[i].sub]
          /\ account' = [account EXCEPT ![r] = link[i].account]
          /\ at' = [at EXCEPT ![r] = now]
          /\ id' = [id EXCEPT ![r] = i]
     ELSE UNCHANGED <<pc, sub, account, at, id>>
  /\ UNCHANGED <<users, rows, found, removing, world>>

\* claim: deletes the row if it is still there once nobody else is deleting it.
ConfirmClaim(r) ==
  /\ ~Waits(r)
  /\ Goto(r, "claim", "lookup")
  /\ removing' = [removing EXCEPT ![r] = {id[r]} \intersect pending]
  /\ UNCHANGED <<users, rows, sub, account, at, id, found, world>>

\* (A variant for mutation runs: an unclaimed row is linked all the same.)
MayLinkUnclaimed(r) == linked[sub[r]] = None

\* findAccountByProvider finds nobody and the row was claimed.
MayLink(r) == linked[sub[r]] = None /\ removing[r] # {}

\* findAccountByProvider inside the transaction: linked to this account is
\* `already-confirmed' and commits the claim; linked to another (409) or not
\* claimed (400) rolls it back; otherwise the link is to be created.
ConfirmLookup(r) ==
  /\ pc[r] = "lookup"
  /\ IF MayLink(r)
     THEN /\ pc' = [pc EXCEPT ![r] = "link"]
          /\ UNCHANGED <<pending, sub, account, at, id, found, removing>>
     ELSE /\ pending' = IF linked[sub[r]] = account[r] THEN pending \ removing[r]
                                                        ELSE pending
          /\ Finish(r)
  /\ UNCHANGED <<users, link, nextId, world>>

\* create: waits for another insert of the subject; taken is P2002 and a rollback.
ConfirmLink(r) ==
  /\ pc[r] = "link"
  /\ ~Waits(r)
  /\ IF linked[sub[r]] = None
     THEN /\ pc' = [pc EXCEPT ![r] = "linkCommit"]
          /\ UNCHANGED removing
     ELSE /\ pc' = [pc EXCEPT ![r] = "recheck"]
          /\ removing' = [removing EXCEPT ![r] = {}]
  /\ UNCHANGED <<users, rows, sub, account, at, id, found, world>>

ConfirmCommit(r) ==
  /\ pc[r] = "linkCommit"
  /\ linked' = [linked EXCEPT ![sub[r]] = account[r]]
  /\ pending' = pending \ removing[r]
  /\ Finish(r)
  /\ UNCHANGED <<registered, creator, link, nextId, world>>

\* After P2002 the winner is read: `already-confirmed' or 409, nothing changes.
ConfirmRecheck(r) ==
  /\ pc[r] = "recheck"
  /\ Finish(r)
  /\ UNCHANGED <<users, rows, world>>

----------------------------------------------------------------------------
Sweepable == {i \in pending : Expires(i) <= now}

\* The 04:00 job: deleteExpired finds rows to delete ...
RemoveExpiredLinks(r) ==
  /\ Sweepable # {}
  /\ Goto(r, "idle", "sweeping")
  /\ found' = [found EXCEPT ![r] = Sweepable]
  /\ UNCHANGED <<users, rows, sub, account, at, id, removing, world>>

\* ... and comes to one after the other, as above; with the last it commits.
DeleteExpired(r) ==
  /\ pc[r] = "sweeping"
  /\ \E i \in found[r] :
       /\ \A q \in Requests \ {r} : i \notin removing[q]
       /\ IF found[r] = {i}
          THEN pending' = pending \ (removing[r] \union {i}) /\ Finish(r)
          ELSE /\ found' = [found EXCEPT ![r] = found[r] \ {i}]
               /\ removing' = [removing EXCEPT ![r] = removing[r] \union ({i} \intersect pending)]
               /\ UNCHANGED <<pending, pc, sub, account, at, id>>
  /\ UNCHANGED <<users, link, nextId, world>>

\* Postgres ends a transaction on a circle.  Its error is not P2002: issue throws
\* it on, and the sweep catches and logs it.
Victim(r) ==
  /\ OnCircle(r)
  /\ Finish(r)
  /\ UNCHANGED <<users, rows, world>>

\* A request dies between two awaits: the process stops, or a statement fails.
Abort(r) ==
  /\ crashes < MaxCrashes
  /\ pc[r] # "idle"
  /\ crashes' = crashes + 1
  /\ Finish(r)
  /\ UNCHANGED <<users, rows, jobs, now, mailed, refusals>>

Tick ==
  /\ now < MaxTime
  /\ now' = now + 1
  /\ UNCHANGED <<users, rows, locals, jobs, mailed, refusals, crashes>>

Arrive(r) ==
  \/ \E s \in Subjects, a \in Accounts : Resolve(r, s, a)
  \/ \E i \in mailed : ConfirmFind(r, i)
  \/ RemoveExpiredLinks(r)

Serve(r) ==
  \/ ResolveUnknown(r)
  \/ RefuseUnverified(r)
  \/ LinkToExisting(r)
  \/ CreateUser(r)
  \/ CreateUserTaken(r)
  \/ CreateLink(r)
  \/ CreateAccountCommit(r)
  \/ IssueRead(r)
  \/ IssueDeleteStart(r)
  \/ IssueDelete(r)
  \/ IssueInsertSubject(r)
  \/ IssueInsertAccount(r)
  \/ IssueInsertFails(r)
  \/ IssueCommit(r)
  \/ IssueReread(r)
  \/ Enqueue(r)
  \/ EnqueueFails(r)
  \/ Compensate(r)
  \/ ConfirmClaim(r)
  \/ ConfirmLookup(r)
  \/ ConfirmLink(r)
  \/ ConfirmCommit(r)
  \/ ConfirmRecheck(r)
  \/ DeleteExpired(r)

Next ==
  \/ \E a \in Accounts : Register(a)
  \/ \E r \in Requests : Arrive(r)
  \/ \E r \in Requests : Serve(r)
  \/ \E r \in Requests : Victim(r)
  \/ \E r \in Requests : Abort(r)
  \/ Worker
  \/ \E i \in Ids : FailedJobExpires(i) \/ WorkerDies(i)
  \/ Tick

Spec == Init /\ [][Next]_vars

\* An accepted request keeps running (see RefreshTokens).  Postgres queues the
\* waiters of a row lock, so one that is free again and again is granted: the
\* fairness is strong.  A circle is found after deadlock_timeout.  The worker takes
\* jobs and its calls end.
Fairness ==
  /\ \A r \in Requests : SF_vars(Serve(r))
  /\ WF_vars(\E r \in Requests : Victim(r))
  /\ WF_vars(Worker)

FairSpec == Spec /\ Fairness

----------------------------------------------------------------------------
(***************************************************************************)
(* Properties                                                              *)
(***************************************************************************)

\* Every variable stays in its range.
TypeOK ==
  /\ registered \subseteq Accounts
  /\ creator \in [Accounts -> Subjects \union {None}]
  /\ linked \in [Subjects -> Accounts \union {None}]
  /\ pending \subseteq Ids
  /\ link \in [Ids -> Link]
  /\ nextId \in 1 .. MaxLinks + 1
  /\ pc \in [Requests -> Pc]
  /\ sub \in [Requests -> Subjects \union {None}]
  /\ account \in [Requests -> Accounts \union {None}]
  /\ at \in [Requests -> Clock]
  /\ id \in [Requests -> Ids \union {0}]
  /\ found \in [Requests -> SUBSET Ids]
  /\ removing \in [Requests -> SUBSET Ids]
  /\ jobs \in [Ids -> Job]
  /\ now \in Clock
  /\ mailed \subseteq Ids
  /\ refusals \in 0 .. MaxRefusals
  /\ crashes \in 0 .. MaxCrashes

\* A subject signs in to an account only if the account was created for it, or a
\* token for exactly this pair went to the account's address.
LinksAreProven ==
  \A s \in Subjects : linked[s] # None =>
    \/ creator[linked[s]] = s
    \/ \E i \in mailed : link[i].sub = s /\ link[i].account = linked[s]

\* An account created without a password can always be signed in to: the link of
\* the subject it was created for is there and points at it.
PasswordlessAccountsReachable ==
  \A a \in Accounts : creator[a] # None => a \in registered /\ linked[creator[a]] = a

\* Confirming and consuming the token are one step: a link to an account that
\* already existed appears only when a pending row for this very pair goes,
\* whatever resends, sweeps and other confirmations run in between; and a link
\* that is there never moves to another account.
ConsumesToken ==
  \A s \in Subjects : linked'[s] # linked[s] =>
    /\ linked[s] = None
    /\ \/ linked'[s] \notin registered
       \/ \E i \in pending \ pending' : link[i].sub = s /\ link[i].account = linked'[s]

\* Every step of confirm, resolve and the others is so: a token works once.
LinkConsumesToken == [][ConsumesToken]_vars

\* No token is lost on its way: as long as a pending row can be confirmed, its mail
\* is out, or its job waits, is tried again or has failed for good, or the request
\* that inserted the row is about to queue the job or to take the row back, unless a
\* request has died.
PendingIsMailed ==
  crashes = 0 =>
    \A i \in pending : now < Expires(i) =>
      \/ i \in mailed
      \/ jobs[i].state # Free
      \/ \E r \in Requests : pc[r] \in {"enqueue", "compensate"} /\ id[r] = i

\* Requests by what they are doing.
Issuing ==
  {r \in Requests : pc[r] \in {"issueRead", "clear", "clearing", "insert", "insertAccount",
                                "issueCommit", "reread", "enqueue", "compensate"}}
Confirming == {r \in Requests : pc[r] \in {"claim", "lookup", "link", "linkCommit", "recheck"}}
Creating == {r \in Requests : pc[r] \in {"createLink", "createCommit"}}
Inserting == {r \in Requests : pc[r] \in {"createCommit", "linkCommit"}}

\* Ids are drawn from their sequence.
Allocation ==
  /\ pending \union mailed \subseteq 1 .. nextId - 1
  /\ \A i \in Ids : jobs[i].state # Free => i < nextId
  /\ \A r \in Requests : id[r] < nextId

\* A row is about a subject and an account that is there, and so is a request.
Reference ==
  /\ \A i \in 1 .. nextId - 1 : link[i].sub \in Subjects /\ link[i].account \in registered
  /\ \A r \in Requests : pc[r] \notin {"idle", "sweeping"} => sub[r] \in Subjects /\ account[r] \in Accounts
  /\ \A r \in Issuing : account[r] \in registered
  /\ \A r \in Requests : pc[r] \in {"issueCommit", "enqueue", "compensate"} => id[r] \in Ids

\* What is confirmed is a token that was mailed, for its subject and its account.
Proof ==
  \A r \in Confirming :
    id[r] \in mailed /\ link[id[r]].sub = sub[r] /\ link[id[r]].account = account[r]

Deleting == {"clearing", "insert", "insertAccount", "issueCommit", "lookup", "link",
             "linkCommit", "sweeping"}

\* Rows that are being deleted are there, and in the hands of one request.
RowLocks ==
  /\ \A r \in Requests : removing[r] \subseteq pending
  /\ \A q, r \in Requests : q # r => removing[q] \intersect removing[r] = {}
  /\ \A r \in Requests : removing[r] # {} => pc[r] \in Deleting
  /\ \A r \in Requests : found[r] # {} => pc[r] \in {"clearing", "sweeping"}
  /\ \A r \in Requests : pc[r] \in {"lookup", "link", "linkCommit"} => removing[r] \subseteq {id[r]}
  /\ \A r \in Requests : pc[r] \in {"link", "linkCommit"} => removing[r] = {id[r]}

\* Keys that are being inserted are free, and in the hands of one request.
KeyLocks ==
  /\ \A r \in Inserting : linked[sub[r]] = None
  /\ \A q, r \in Inserting : q # r => sub[q] # sub[r]
  /\ \A r \in Creating : account[r] \notin registered
  /\ \A q, r \in Creating : q # r => account[q] # account[r]

\* A row is about the same subject or account as the request that found it and is
\* going to replace it.
Replacing ==
  /\ \A r \in Requests : pc[r] = "clearing" => \A i \in found[r] : i < nextId /\ Matches(i, r)
  /\ \A r \in Requests : pc[r] \in {"clearing", "insert", "insertAccount", "issueCommit"} =>
       \A i \in removing[r] : Matches(i, r)

\* A row that is inserted and not committed is about what its request is about, and
\* in nobody else's hands.
Uncommitted ==
  \A r \in Requests : pc[r] = "issueCommit" =>
    /\ link[id[r]].sub = sub[r] /\ link[id[r]].account = account[r]
    /\ id[r] \notin pending \union mailed /\ jobs[id[r]].state = Free
    /\ \A q \in Requests \ {r} :
         pc[q] \in {"issueCommit", "enqueue", "compensate"} => id[q] # id[r]

\* A row that is only in the index by subject has that key to itself.
HalfInserted ==
  \A r \in Requests : pc[r] = "insertAccount" =>
    /\ ~OfferSubjectTaken(r)
    /\ \A q \in Requests \ {r} : pc[q] \in {"insertAccount", "issueCommit"} => sub[q] # sub[r]

SameKey(i, j) == link[i].sub = link[j].sub \/ link[i].account = link[j].account

\* The two unique keys of PendingAuthProviderLink, of committed rows and of those
\* about to be: a row takes the place of all that have one of its keys.
UniqueKeys ==
  /\ \A i, j \in pending : SameKey(i, j) => i = j
  /\ \A r \in Requests : pc[r] = "issueCommit" =>
       /\ \A i \in pending \ removing[r] : ~SameKey(i, id[r])
       /\ \A q \in Requests \ {r} : pc[q] = "issueCommit" => ~SameKey(id[q], id[r])

\* Subjects are linked to accounts that are there.
LinkedAreRegistered == \A s \in Subjects : linked[s] # None => linked[s] \in registered

\* The invariants hold because these do, together, after every step.
IInv ==
  /\ TypeOK
  /\ AttemptLeft
  /\ Allocation
  /\ Reference
  /\ Proof
  /\ RowLocks
  /\ KeyLocks
  /\ Replacing
  /\ Uncommitted
  /\ HalfInserted
  /\ UniqueKeys
  /\ LinkedAreRegistered
  /\ PasswordlessAccountsReachable
  /\ LinksAreProven
  /\ PendingIsMailed

\* The offers behind the rows, the jobs and the requests: a job may be queued as long
\* as its request is about to, or to take the row back.
OfferOf(i) == [token |-> i, sub |-> link[i].sub, account |-> link[i].account]
Underway ==
  {i \in Ids : \/ jobs[i].state # Free
               \/ \E r \in Requests : pc[r] \in {"enqueue", "compensate"} /\ id[r] = i}

Offers == INSTANCE LinkOffers WITH
  Tokens <- Ids,
  offers <- {OfferOf(i) : i \in pending},
  underway <- {OfferOf(i) : i \in Underway},
  delivered <- {OfferOf(i) : i \in mailed}

\* Transactions that wait, roll back and race, mails tried again, deaths and sweeps:
\* for subjects and accounts they are whole steps of LinkOffers, one at a time.
ImplementsOffers == Offers!Spec

\* The resend cooldown: a transaction about to commit a new token replaces only
\* rows that have been there for a cooldown.
CooldownBeforeRotation ==
  \A r \in Requests : pc[r] = "issueCommit" =>
    \A i \in removing[r] : link[i].createdAt + Cooldown <= link[id[r]].createdAt

\* Transactions can wait in a circle, but only among those that replace pending rows
\* or sweep them: whatever the order of locks, a sign-up, a confirmation and the
\* delete that takes a row back are never the victim.
OnlyReplacementsDeadlock ==
  \A r \in Requests : OnCircle(r) =>
    pc[r] \in {"clearing", "insert", "insertAccount", "sweeping"}

\* A row that is about to be committed, or whose job is about to be queued, waits
\* or is tried.
InHand(i) ==
  \/ jobs[i].state \in {"waiting", "active"}
  \/ \E r \in Requests : pc[r] \in {"issueCommit", "enqueue", "compensate"} /\ id[r] = i

\* Every mail ends: from the insert of its row on, the request that queues the job or
\* takes the row back is never held up for good, and the job is sent, skipped or
\* failed, whatever waits, expires, throws or stalls.
MailsAreSettled == \A i \in Ids : InHand(i) ~> ~InHand(i)
============================================================================
