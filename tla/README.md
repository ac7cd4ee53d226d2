# A TLA+ development of the RealWorld API

TLA+ models of the server under `src/` (NestJS, Prisma on PostgreSQL, Kafka,
BullMQ on Redis, an S3 object store), the TLC configurations that check them on
small instances, and TLAPS proofs about the core. Paths below are relative to
the repository; the code is in `src/src/` there.

The server has little arithmetic and a lot of concurrency: one Node process (or
several) serves many requests, each `await` lets others run, every statement is
its own transaction unless a `$transaction` says otherwise, PostgreSQL runs at
READ COMMITTED, and several operations span a database and something that is in
no transaction with it. The models are about exactly that.

## 1. Inventory

| Component | State it keeps | Operations | Interacts with | What is hard | What makes it correct |
| --- | --- | --- | --- | --- | --- |
| Refresh tokens (`auth/token`) | `RefreshToken` rows | issue, rotate, revoke, revoke all, nightly sweep | auth service; the database | rotation reads outside its transaction; replay detection races rotation, logout and sweep; crashes between rollback and revoke-all | a session is one chain; replay revokes; nobody is logged out without a cause |
| Provider linking (`auth/account-linking`) | `PendingAuthProviderLink` rows | requestLink, issue, confirm, claim, compensating delete, sweep | account resolution, email queue | cooldown decided on a stale read; two unique keys; queue and database not atomic; confirm races resend | links only on proof; a token is consumed once; no row without a mail |
| Account resolution (`auth/account`) | `User`, `AuthProvider` rows | resolve, create, link | Google strategy, provider linking | lookup and insert are apart; registration in between | a passwordless account can be signed in to |
| Auth service, guards | none of its own | register, login, refresh, logout, callbacks | all of the above | answers depend on the above | – |
| Avatar replacement (`users`) | `User.image`, objects in the store | replace, clear | file storage, image processing | row lock, upload before and delete after the transaction, failures at each step | the avatar exists; superseded objects go |
| File storage, image processing | objects; none | put, delete; process | S3; worker pool | both fail | – |
| Worker pool (`worker-pool`) | pool and queue of Piscina, closing flag | run, shutdown | image processing | limits checked before submission; time-out against completion; a dying thread; shutdown against queue | admitted work ends, once; the load is bounded; nothing outlives the shutdown |
| Email queue (`email`) | jobs in Redis | enqueue, process, retry, give up, forget | consumer, provider linking, SMTP | de-duplication by id; retries; at-least-once delivery | a job ends; nothing owed is dropped |
| Kafka events (`kafka`) | topics, consumer offsets | emit, consume | favorites, articles, email queue | fire-and-forget emission, redelivery, partly failed fan-out | events in a topic lead to mails |
| Favorites (`favorites`) | join table | favorite, unfavorite | articles, events | read before write; P2002; article deleted in between | one edge; an edge has an event |
| Articles, comments (`articles`, `comments`) | `Article`, `Tag`, `Comment` rows | create with slug allocation, update, delete, comment | events | slug candidates race; ownership, existence and the old title are checked on a read | only authors change their words; the slug follows the title; an attempt is lost only to a rival |
| Profiles (`profiles`) | follow edges | follow, unfollow | the feed, the consumer | changes while the feed is read | – |
| Pagination (`prisma.extension`) | none | count, findMany, page arithmetic | all lists | boundaries; two statements; offsets into a list that changes | page count and flags agree with the data; what stays in the list is shown |
| Content preview, health, HTTP layer, logging, configuration, seed | none | – | – | – | – |

Requests share no memory apart from the database, Redis and the object store;
components call each other directly, except that favorites and articles reach
the consumer through Kafka and the consumer and provider linking reach SMTP
through BullMQ. Two cron jobs sweep expired rows. `PROJECT.json` lists the
components with what is modelled of each, and the hazards at their lines.

## 2. Modules

| Module | Models | Role |
| --- | --- | --- |
| `RefreshTokens` | `TokenService`, `RefreshTokenRepository`, `ExpiredTokenCleanupService` | detailed specification, the core |
| `SessionLedger` | – | abstract specification: what rotation promises |
| `RefreshTokensProofs` | – | theorems about `RefreshTokens` |
| `SessionLedgerProofs` | – | that `RefreshTokens` implements `SessionLedger` |
| `ProviderLinks` | `AccountResolverService`, `ProviderLinkService` and their repositories, the sweep | detailed specification |
| `LinkOffers` | – | abstract specification: what signing in through a provider promises |
| `ProviderLinksProofs` | – | theorems about `ProviderLinks`, and that it implements `LinkOffers` |
| `AvatarReplacement` | `UsersService.updateUser`, `AvatarReplacementService`, `FileStorageService` | detailed specification |
| `AvatarStore` | – | abstract specification: what replacing an avatar promises |
| `AvatarReplacementProofs` | – | theorems about `AvatarReplacement`, and that it implements `AvatarStore` |
| `EmailQueue` | `EmailQueueProducer`, `EmailProcessor` and handlers over one BullMQ queue | component, instantiated by `Notifications` and `ProviderLinks` |
| `Notifications` | favorites, article publication, the two topics, the consumer, with `EmailQueue` | composition |
| `NotificationsProofs` | – | theorems about `Notifications` and its queue |
| `WorkerPool` | `ImageProcessingService`, `PiscinaPoolService`, the image worker, with Piscina | detailed specification |
| `ImageService` | – | abstract specification: what normalizing an image promises |
| `WorkerPoolProofs` | – | theorems about `WorkerPool`, and that it implements `ImageService` |
| `Articles` | `ArticlesService`, `ArticleSlugService`, `CommentsService`, their repositories, pagination | detailed specification |
| `Feed` | `ArticlesService.feed`, `paginate`, `ProfilesService`, a client who turns the pages | composition with `Articles` |
| `ArticlesProofs` | – | theorems about `Articles` and `Feed` |
| `NumberLemmas` | – | facts about numbers several proofs need: least elements, room in a set, quotients |
| `MC...` | – | symmetry sets and values of constants for TLC, and assumptions TLC evaluates about pure operators |

Conventions. A request `r` has a program counter `pc[r]` and its local
variables; an action runs from one `await` to the next, so its guard is what the
code tests there and its primed variables are what the awaited statement
commits. A transaction's uncommitted rows are visible to nobody else; a row it
has written is locked, and other writers of the row are disabled until the
transaction ends and then test their `WHERE` again, which is what READ COMMITTED
does. A rollback gives back everything except ids drawn from a sequence.
`Abort`, `Crash` and the `...Fails` actions are failures: a request dies between
two awaits, a call fails, sometimes after it took effect. Variables called
`history` record what properties speak of; no guard reads them. Definitions
marked as a variant for mutation runs are plausible bugs: each shows, put in the
place of the definition below it, that a property can fail.

### RefreshTokens

`table` and `token` are the rows: a row counts once its id is in `table`.
`IssueTokens` is `issueTokens` (login, registration, link confirmation).
`rotate` is `RotateRead` (`findByHash`), then one of `RotateRefuse`,
`RotateReplayed`, or `RotateCreate` (the insert), and `RotateMark` or
`RotateLost` (`markAsUsed` counted 1 or 0), and `RotateCommit`. Replay, and a
lost race, lead to `RevokeAllStart` and `RevokeAllFinish`, the snapshot of the
one `UPDATE` and its writes. `LogoutRead` and `LogoutRevoke` are `revoke`;
`RemoveExpiredTokens` is the 03:00 job. `Reply` hands the raw token to the
client, and only tokens that were handed over can come back. A session is a
login and what is rotated from it: the code keeps no such column, the model
remembers it to speak of chains. `ended` are the sessions of which a completed
revoke-all found a row, `raced` those of which a rotation was under way meanwhile, and
`loggedOut` those whose current token a logout revoked with no rotation under way.

### ProviderLinks

`Resolve` starts with a verified identity from Google and signs in, goes to
`linkToExisting` and `requestLink`, or to `createAccount` (`CreateUser`,
`CreateLink`, `CreateAccountCommit`). `issue` is
`IssueRead` (cooldown), `IssueDeleteStart` (the snapshot of the `DELETE`) and
`IssueDelete` for each row it found, `IssueInsertSubject` and `IssueInsertAccount`
(the two unique keys, in the order of their indexes), `IssueCommit`, and `IssueReread`
after P2002. `Enqueue`, `EnqueueFails` and `Compensate` are the queue call and
the compensating delete. The sweep is `RemoveExpiredLinks` and `DeleteExpired`, row by
row as well, in an order nobody states. What an open transaction holds follows from
where it is (`HoldsAddress`, `HoldsSubject`, `HoldsOfferSubject`, `HoldsOfferAccount`)
and from what it has deleted (`removing`); `WaitsFor` is the relation of those who have
come to it. Two resends that find each other's rows, or a resend and the sweep, may wait
for each other: `OnCircle` is a cycle of that relation, and `Victim` is PostgreSQL, which
ends one of its transactions with an error that is not P2002: `issue` throws it
(`pending-provider-link.repository.ts:68`), the sweep logs it. `confirm` is `ConfirmFind`, `ConfirmClaim`,
`ConfirmLookup`, `ConfirmLink`, `ConfirmCommit`, `ConfirmRecheck`. `Register`
lets a password account appear at any time. A pending row is named by its id,
and its token by the same id. The mail of a token is a job of `EmailQueue`, which
the module instantiates with the ids as job ids (the code's job id is the row's id
with a prefix of the token's hash): `Deliver` and `Skip` are the handler's expiry
check, `Delivered` and `DeliveryFails` how `sendMail` ends, `WorkerDies` leaves a
stalled job. The handler does not ask whether the row is still there, so mails of
replaced, consumed and compensated tokens go out too; `ConfirmFind` starts with
any token that may have been mailed.

`LinkOffers` says the same with neither requests nor rows: accounts, the links of
subjects, and offers, each a token for one subject and one account. `Make` replaces
the offers to the same subject or account, `Deliver` is the mail, `Confirm` links
and uses up in one step an offer whose mail was out, `SignUp` creates an account
with its link. Offers may be withdrawn at any time (`Withdraw`): what expires when,
and what a request is answered, is not promised there. `Offers` in `ProviderLinks`
is the mapping: an offer is a committed row with the columns of its id, one is
underway while there is a job or a request that is about to queue it, and delivered
once its mail may have been taken.

### AvatarReplacement

`Replace`, `Process`, `Upload`, `LockImage`, `Commit`, `Delete` are the steps of
`replace`; `Clear` starts at `LockImage`. `RollBack` and `UploadFails` lead to
`cleanupFailedUpload`, `Commit` to `cleanupPreviousAvatar`; `Doomed` is the
object each is going to delete. `CommitUnacknowledged` is a COMMIT that succeeds
and is reported as failed.

`AvatarStore` is what that looks like to those who look at avatars: one is switched in
one step, to an object that is stored and was nobody's avatar before (`Show`, `Hide`);
the key it had is retired for good, and only retired keys are removed (`Remove`).
`Avatars` in `AvatarReplacement` is the mapping: a key is retired once it was
generated, is nobody's avatar and no request may still make it one. All this holds
until a COMMIT that succeeded is reported as failed (`misled`, finding 3).

### EmailQueue and Notifications

`EmailQueue` has one variable, `jobs`: BullMQ ignores the addition of an id it
has (`Added`), a worker takes a job (`Take`), sends it (`Send`, which frees the
id) or fails (`SendFails`, counting attempts; with the last the job is `failed`
and keeps its id until `Forget`). `Notifications` has one author and one article
and instantiates the queue for its jobs. `favorite` is `FavoriteRead`,
`FavoriteWrite` or `FavoriteCollides` and `FavoriteReread` (P2002), and `Emit`;
`Publish` and `EmitFails` are what becomes of an event that nobody waits for.
The consumer takes one event at a time (`Handle`, `SkipOwnFavorite`), adds a job
per recipient (`Enqueue`), and moves on (`Handled`) or has the event delivered
again (`EnqueueFails`), when the other calls of the `Promise.all` go on by
themselves (`EnqueueStray`). `Crash` may take the consumer back to any event.
Who follows the author changes at any time (`ProfilesService`), so `Handle` may
read any set of followers.

### WorkerPool

`call[u]` is how `ImageProcessingService.process` stands for upload `u`. There
is no `await` between `assertAccepting` and `pool.run`, so `Submit` (the checks,
the timer, the admission) is one step, as is `Refuse`. A thread posts its result
(`Post`) and the event loop receives it (`Deliver`); between the two the timer
may fire (`TimeOut`), which aborts: a queued task leaves the queue, the thread of
any other is terminated. `Crash` is a thread that dies of its task. `Shutdown` is
`onApplicationShutdown` and `Closed` the end of `pool.close()`. `Invalid` is the
decision table of the worker, with the metadata of an image as a record. What a
call uploads (`ImageOf`) is a constant of the call: nothing depends on it before
its result is there.

Piscina is external. As the service uses it, it hands a task to an idle thread or
queues it and starts a thread if it may; keeps `minThreads` alive while it is
open, takes the first of them to be up from the beginning, and ends others as soon as
they idle (`Reap`: the service sets no `idleTimeout`); refuses tasks while closing; does
not count in `queueSize` what starting threads will take; and ends a close by rejecting what is left, at any time, as
the close time-out allows. A worker file that fails to load is not modelled.

`ImageService` says the same to the callers, with no queue, threads or timers: a call
is admitted or turned away at once (`Admit`, `TurnAway`), and one that was admitted is
answered with the verdict on its own image, or as unavailable (`Answer`, `Closed`).
`Service` in `WorkerPool` is the mapping. At most `MAX_THREADS_CAP * (1 +
QUEUE_MULTIPLIER)` calls wait at once, whatever the number of processors; and while
the service is open and its program there, nobody is turned away before as many wait
as the queue has places and the pool has threads at the least.

### Articles

A slug is the sequence of its parts between dashes: `toBaseSlug` gives a title
its base (`BaseSlug`), a suffix is one more part, and `startsWith` is a longer
sequence. `Create` and `Update` start a request (the update after
`requireOwnedArticle` has found the article, with the title it had),
`CreateCandidate` reads the slugs in use, and `Insert` or `Rewrite` commits, or
`Collide`s: another attempt, or 409 after `MaxRetries`. `Rewrite` is by id and
leaves the slug alone if the title was the one that was read. `Remove` and
`Delete` are `remove`; `CommentOn`, `InsertComment`, `Uncomment`, `FindComment`,
`DeleteComment` are the comments. `Gone` is a row deleted meanwhile (P2025, or
the foreign key of a comment). Requests that stop with 403 or 404 at their first
read change nothing and are left out, and so are updates without a title.
P2002 is assumed to name the column in `meta.target`, as `isSlugConflict` expects.
`Page`, `LastPage` and `HasNextPage` are the pagination of a list in one state.

### Feed

One reader, who is none of the authors, asks for the first page (`Open`) and goes
on as long as `has_next_page` says so (`Turn`). A page is `CountRows` and
`FindRows`, the two statements of the `Promise.all`, in either order and with
anything between them: `Elsewhere` is a step of `Articles`, `Follow` and
`Unfollow` are the statements of `ProfilesService`. `owed` is a history variable:
the articles that have been in the list since the first page and were not shown
yet. `Shifted` keeps it up to date, and gives up where nothing can be promised:
when an article goes that the reader had been past, all later ones move up by one.

## 3. What TLC checks

| Run | Instance | Shows |
| --- | --- | --- |
| `MCRefreshTokens` | 2 requests, 1 account, 3 tokens, 2 ticks, 1 death | `OneCurrentTokenPerSession`, `NoDanglingSuccessor`, `RevokeAllHasCause`, `OnlyRacingSessionsSurvive` (of revoke-all and of logout), the inductive invariant `IInv`, and `ImplementsLedger`: the service implements `SessionLedger` |
| `MCRefreshTokensReplayRace` | 2 requests, 4 tokens | **violation** of `RevokedSessionsStayRevoked` (finding 1) |
| `MCRefreshTokensLive` | 2 requests, 3 tokens, 1 death, fair | `ReplayRevokesEveryRow`: replay that a request meets, on its read or by losing a race, is followed up, also when an earlier follow-up died or a response was lost |
| `MCProviderLinks` | 2 requests, 2 subjects, 2 addresses, 2 rows, 1 attempt per mail, 1 death | `LinksAreProven`, `PasswordlessAccountsReachable`, `LinkConsumesToken`, the inductive invariant `IInv`, `OnlyReplacementsDeadlock`: transactions wait in a circle only if they replace or sweep pending rows, and `ImplementsOffers`: the services implement `LinkOffers` |
| `MCProviderLinksCooldownRace` | 2 requests, 1 subject | **violation** of `CooldownBeforeRotation` (finding 2) |
| `MCProviderLinksLive` | 2 requests, 1 subject, 1 address, 2 rows, 1 failed queue call, 2 attempts, 1 death, fair | `PendingIsMailed`, and `MailsAreSettled`: from the insert of its row on, every mail ends |
| `MCAvatarReplacement` | 2 requests, 2 users, 3 objects, 1 fault, 1 lost acknowledgement, fair | `AvatarExists`, `OrphansHaveCause`, `DoomedIsUnreferenced`, the inductive invariant `IInv`, `ImplementsAvatars`: the service implements `AvatarStore`, and `OrphansAreReclaimed` |
| `MCAvatarReplacementLostAck` | 1 request | **violation** of `FailedUploadIsUnreferenced` (finding 3) |
| `MCNotifications` | 2 requests, 2 followers, a reader and the author, 2 events, 1 fault or crash, fair | `FollowersAreQueued`, `FavoritesAreAnnounced`: each favorite that is added has an event of its own, `RepeatsHaveCause`: a mail is queued again once per fault at most, the inductive invariant `IInv`, and `EventsAreSettled`: events in a topic are handled and mails end |
| `MCNotificationsDeduplicated` | 1 request, 2 readers, no fault | **violation** of `FavoritesAreQueued` (finding 4) |
| `MCWorkerPool` | 5 uploads, one at the limits of the profile and four beyond them in a way each, 2 threads, a queue of 2, 1 dying thread, fair | `TasksArePending`, `LoadIsBounded`, `ClosedIsQuiet`, `AnswersFitImages`, the inductive invariant `IInv`, `ImplementsService`: the pool implements `ImageService`, and `AdmittedTasksEnd` |
| `MCArticles` | 2 requests, 2 users, 2 titles, 2 articles, 1 comment, a reader with pages of 1 | `OnlyAuthorsWrite`, `LostAttemptsHaveRivals`, `SlugFollowsTitle`, `PagesCoverTheList`, the inductive invariants `IInv` and `FeedInv`, and `NothingIsSkipped`: paging by offset loses nothing that stays, with two exceptions |

Each module also has its type invariant in a run, as the first conjunct of `IInv` (of
`Feed`, of `FeedInv`). With `MCArticles`, TLC evaluates
that `createCandidate` gives the first free slug whatever slugs are in use
(`FirstFreeIsFirst`).

**Bounds.** Two concurrent requests: every hazard listed is a race of two
actors, and a third actor (the sweep, the worker, the consumer, the clock) is
there besides. Three tokens are a login, its successor and either a second
rotation or a second session; with a lifetime of one tick and two ticks a token
reaches its expiry, where rotation refuses, and passes it, where the sweep takes
it. In `MCRefreshTokensLive` one request may die anywhere, which includes the gap
between the rollback of a lost race and its revoke-all. Two pending rows let a resend replace a row; at the last
tick, when the first row has expired, requests that are under way go on but none
arrives before they are answered (`Quiet` in `MCProviderLinks`), except the sweep; and no
more requests ask for a link than there are ids, but for one that meets another on its
way to a taken key (`IdForEach`). With that, two resends that each hold a key the other
wants, and two sweeps, do wait in a circle in the run. A circle of two deletes by two
keys needs a third row; `OnlyReplacementsAreVictims` is about any number. Three object keys let a
replacement supersede a replacement while a third upload fails. The article is
there from the start or published meanwhile, so two events are two favorites of
one user that race or come one after the other with an unfavorite in between, or the
publication and a favorite. Either readers favorite the article or its author does
(`OneSide` in `MCNotifications`): the two meet only in the order of their events in the
topic, and the author's is skipped. Of the five uploads
one shows a picture as narrow and as large as may be, and four are wrong in one way
each: a side one too short, a pixel too many, an unknown side, pixels that do not
decode. The queue has one place per thread, where the code has two, so that five uploads are one
more than threads and queue can hold. "Tea" and "Tea 2" are titles of which the second
has for its base the first suffixed slug of the first; two articles suffice for a
collision, a rename onto a slug that another leaves, and a deletion in between. While
the feed is read one other request is under way at a time and nobody comments
(`Quiet` in `MCArticles`): the list shows only commits, which come one by one anyway. With a
page of one, two articles are two pages, and one published, removed or coming by a
follow in between is all a row can be shifted by. One fault or death falls at every
point of every operation; two add combinations of independent failures only.
`Attempts = 2` (3 in the code) is the least number with a retry and an end. The
proofs below have none of these bounds: each of these bounds on who asks when is part of an `MCSpec` (or `MCFairSpec`), which
the run checks, and not of `Spec` or `FeedSpec`, which the theorems are about.

**Fairness.** For tokens, a request that was accepted takes its next step if it
stays enabled: Node resumes every settled await (`WF` per request). For provider
links and avatars a request may wait for a row that is free again and again;
PostgreSQL queues lock waiters, so fairness is strong there; it looks for circles after
`deadlock_timeout`, so one is found (`WF` of `Victim`); the email worker runs (`WF`). For notifications
the consumer polls and the worker takes jobs (`WF` of each). For the worker pool
each thread runs (`WF` of what it does next) and `pool.close` ends, as it has a
time-out; the timer of a task is not assumed to fire. Nothing is assumed
of clients, the clock, the sweeps, failures, or the events in flight.

**Deadlock.** Checked everywhere except in the notification and article runs,
where a quiet system with its bounded events, or ids, used up has nothing left to
do.

### Findings

1. *A rotation in flight survives the revoke-all.* `revokeAllForUser` is one
   `UPDATE` in a transaction of its own; a rotation that marked its token before
   commits a successor which the `UPDATE` neither sees nor waits for
   (`refresh-token.repository.ts:60`). `docs/api/authentication.md:131` says
   every session is revoked. What does hold is `OnlyRacingSessionsSurvive`:
   only a session with a rotation between read and commit at that time survives, and
   the same is true of a logout.
2. *Two requests both send within the cooldown.* `issue` tests the cooldown
   before its transaction (`pending-provider-link.repository.ts:19`); a second
   request that read earlier deletes the row the first has just committed. The
   documentation (`docs/api/authentication.md:192`) promises the cooldown before
   rotation. Still, `LinkConsumesToken` holds and only the newest token works.
3. *A lost acknowledgement deletes the avatar in use.* `replace` takes every
   error of the transaction for a rollback (`avatar-replacement.service.ts:45`)
   although the COMMIT may have succeeded. `AvatarExists` therefore has the
   premise that no acknowledgement was lost.
4. *A favorite may go without its mail.* The job id leaves out who favorited
   (`email-queue.producer.ts:57`); while one such mail waits, or failed within a
   day, BullMQ ignores the next.

Also met, and no promise against it: a pending row whose request dies between
the commit and the queue call has no mail (`PendingIsMailed` has the premise
that nothing died); two resends that wait for each other's keys may end as a 500, as a
deadlock is not P2002; and a logout does not stop a rotation of the same token that
has read it, because `markAsUsed` does not ask for `revokedAt`. An update that
repeats the title it has read keeps the slug (`articles.service.ts:131`); if
another update has changed both meanwhile, the article ends with the title of the
one and the slug of the other, although a changed title is to get a new slug
(`docs/api/articles.md:238`): `SlugFollowsTitle` excepts those articles (`stale`).
Lists are paged by offset, although `docs/project-changelog.md:329` speaks of
cursors. A reader sees a row again when one is published, and misses one in two
cases, which `NothingIsSkipped` excepts and TLC finds at once without: an article
of a page that was read is removed, or its author is no longer followed, and the
rows behind it move up; or the list grows between the `count` and the `findMany` of
what `count` says is the last page (`prisma.extension.ts:65`). A thread that is
terminated while more than `MIN_THREADS` are left is not replaced before the next
submission: with a queue, one thread less works it off, but it is worked off
(`AdmittedTasksEnd`).

## 4. What is proved

**Tokens.** `RefreshTokensProofs`, for every set of users and of requests, every lifetime of
at least one tick and every value of the bounds (`UsersAssumption`,
`TtlAssumption`, `BoundsAssumption` are all that is assumed):

- `TypeCorrect`: `Spec => []TypeOK`.
- `Invariant`: `Spec => []IInv`, the inductive invariant.
- `RotationIsLinear`: `Spec => []OneCurrentTokenPerSession`.
- `SuccessorsExist`: `Spec => []NoDanglingSuccessor`.
- `RevokeAllIsJustified`: `Spec => []RevokeAllHasCause`.
- `EndedSessionsStayDead`: `Spec => []OnlyRacingSessionsSurvive`.
- `ServiceImplementsLedger` (in `SessionLedgerProofs`): `Spec => ImplementsLedger`.
- `TokensHaveOneSession`: `Spec => []Ledger!OneHolder`, and `SpentTokensStaySpent`:
  `Spec => Ledger!SpentForGood`, two properties of `SessionLedger` that the mapping
  brings over: a token is good for one session, and never again once it was replaced.

None of the four properties is inductive. Linearity breaks in a state in which
two transactions have marked the same token, or in which an uncommitted row
belongs to the wrong session, or is shared. `IInv` rules such states out:
`Allocation` bounds ids by the sequence and dates by the clock; `Private` says
that an uncommitted row is one request's; `Continues` that it belongs to the
session and user of the token it replaces and does not expire earlier;
`LockHolds` that between `markAsUsed` and the commit the token stays in the
table, unreplaced, and in one transaction's hands. `RotateCommit` then replaces
the session's one current token by one new one. The dates in `Continues` carry
`SuccessorsExist` through the sweep, which could otherwise take a successor
before its predecessor. `Presentations` ties the history of presentations to
what requests and rows show: a replaced row was presented before, and two
rotations of one token presented it twice.

`Dead`, in `OnlyRacingSessionsSurvive`, has the sessions that a completed revoke-all
saw and that were not being rotated, and those of which a logout revoked the current
token with no rotation in flight. That an ended session stays dead needs to know what a revoke-all holds while it
runs: `Gathered` says that it has the live row of every session it found a row of,
except for sessions a rotation gave a new row since, which have raced. When it
ends, the rest have no live row, and `EndedAreDead` says that they have no
rotation in flight either, so none comes back; a logout ends a session with its one
current row, by linearity. `Sessions` (a session has one user)
is why a revoke-all of one user leaves no row of the session out.

The refinement maps a session to its current row and calls a token spent that was
committed once and is no longer current. Every step is then a login, a rotation,
the disappearance of expired sessions, or a stutter: `CommitPasses` shows that a
commit passes the session on to a token nobody had, by linearity and `LockHolds`;
`SweepForgets` that the sweep takes whole sessions from the ledger, as `Continues`
has the current row expire last; `CreateStutters` and `RollbackStutters` that
uncommitted rows are not noticed.

Each part of `IInv` has a lemma (`StepAllocation`, `StepPrivate`, ...) from the
parts it depends on, with a step per action; TLC checks `IInv` in
`MCRefreshTokens` as well.

**Provider links.** `ProviderLinksProofs`, for every set of subjects, accounts and
requests, any cooldown and lifetime, any number of attempts and any bounds
(`NoneAssumption`, `TimesAssumption`, `LinkBoundsAssumption`):

- `TypeCorrect`, `Invariant`: `Spec => []TypeOK`, `Spec => []IInv`.
- `LinksAreAlwaysProven`: `Spec => []LinksAreProven`.
- `PasswordlessStayReachable`: `Spec => []PasswordlessAccountsReachable`.
- `NoTokenIsLost`: `Spec => []PendingIsMailed`.
- `OnlyReplacementsAreVictims`: `Spec => []OnlyReplacementsDeadlock`.
- `TokensAreConsumed`: `Spec => LinkConsumesToken`.
- `ServiceImplementsOffers`: `Spec => ImplementsOffers`.
- `SpentTokensStaySpent`: `Spec => Offers!SpentStaysSpent`, and `OnlyOneOfferEach`:
  `Spec => []Offers!OneOfferEach`, which the mapping brings over from `LinkOffers`.

What `LinksAreProven` and `PasswordlessAccountsReachable` say about links is not inductive: a link is
committed from what a request read several steps before. `Proof` says what a
confirming request holds: a token that was mailed, with the row's own subject and
account, and rows are never updated (`WorldGrows`). `RowLocks` says that a row
that is being deleted is there and one transaction's, which is why a request that
claimed a row still consumes it when it commits, whatever resends, compensations
and the sweep do meanwhile; `KeyLocks` that a subject or an address with an
uncommitted insert is free and one transaction's, so a commit overwrites no link.
`Allocation` and `Reference` are about ids and foreign keys. `PendingIsMailed`
needs only the ids: a job that is gone was sent, or its token had expired
(`JobsEndRightly`), and a request that holds an unqueued row goes on until it has
queued the job or taken the row back (`IssuersFinish`).

For the refinement, the step that has to be explained is the commit of a new row,
which must replace every offer to the same subject or account and no other, though
the rows were found several steps earlier and others commit meanwhile. `HalfInserted`
says that a row in the first index has its subject to itself, and `UniqueKeys`
says so of every row that is inserted and not committed: it shares no key with a
committed row its transaction does not delete, nor with another such row. An insert
establishes it because at each index it waits for rows with its key that are being
inserted or deleted and is undone if one is left (P2002); `Replacing` says that a
transaction deletes nothing else, and `Uncommitted` that the new row is about what
its request is about and that nobody has seen its token. `MakeStep`, `SignUpStep`,
`ConfirmStep` and `MailingStep` are the steps that count; `WithdrawStep` covers the
rest: no committed row appears in them, and no mail that was not to come.

Whoever is on a circle holds something and waits, and waits for one that waits. A claim,
the delete that takes a row back and the insert of a user come with empty hands; a
sign-up with its user inserted, or a confirmation with its row deleted, waits for a
subject, and who holds a subject is at its commit and waits for nobody. That leaves
replacements and sweeps (`CircleOfReplacements`, from `RowLocks`), for circles of any
length; in the run two requests are all a circle can have.

**Avatars.** `AvatarReplacementProofs`, for every set of users and requests and any
number of keys, faults and lost acknowledgements (`KeysAssumption`,
`FaultsAssumption`):

- `TypeCorrect`, `Invariant`: `Spec => []TypeOK`, `Spec => []IInv`.
- `AvatarsStay`: `Spec => []AvatarExists`.
- `OrphansAreKnown`: `Spec => []OrphansHaveCause`.
- `DoomedStayUnreferenced`: `Spec => []DoomedIsUnreferenced`.
- `ServiceImplementsAvatars`: `Spec => ImplementsAvatars`.
- `SupersededStaySuperseded`: `Spec => Avatars!RetiredForGood`.

`KeysHaveOneHolder` is the heart of it: as long as every COMMIT that was reported
as failed has failed, a key is the avatar of one user or in the hands of one
request, never both. A commit swaps the two: the uploaded key becomes the avatar
and the key that was there comes into the hands of the request, and for the second
`RowLocks` must know that what `lockImage` returned is still there, which is what
`FOR UPDATE` is for. `OrphansHaveCause` needs only the locks, so it holds after
lost acknowledgements as well.

The same two invariants carry the refinement. A key a request has uploaded is its
promise (`PromisesAreKept`): it is no avatar yet and nobody else's, so the commit may
show it (`CommitSwitches`), and any failure retires it (`PromiseBroken`); what the
cleanups delete was retired before (`DoomedAreRetired`).

**Notifications.** `NotificationsProofs`, for every set of followers, readers and
requests, any number of attempts and any bounds (`EventsAssumption`):

- `TypeCorrect`, `Invariant`: `Spec => []TypeOK`, `Spec => []IInv`.
- `NoFollowerIsPassedOver`: `Spec => []FollowersAreQueued`.
- `NoFavoriteIsSilent`: `Spec => []FavoritesAreAnnounced`.
- `AnnouncedToEachOnce`: `Spec => []RepeatsHaveCause`.

A handler that resolves has queued every recipient it read, for each one off its
list was queued by it or found the id taken, and `FollowersInHand` knows that a
follower's taken id means that the mail was queued before, in this delivery or an
earlier one (`JobsMove`). `Causes` carries the name in an event from the request
to the job. `FavoritesAreAnnounced` counts: what the requests, the broker and the topic
have of a user's events is at least what was added, less what was lost. `RepeatsHaveCause`
needs to know what is still to come: with the mails a follower was queued, `FewRepeats`
counts the call that a failed handler has left behind (`LeftBehind`) and the one the
handler has yet to make (`ToCome`). A fault adds one to the sum at the most, whether it
sends the handler back, leaves a call behind or takes the consumer to an earlier event;
`AnnouncedOnce` says that there is one event to handle.

**The worker pool.** `WorkerPoolProofs`, for every set of uploads and images, any
number of processors, threads and places in the queue, and any bound on crashes
(`PoolAssumption`, `ProfileAssumption`, `ImagesAssumption`, `NoneIsNothing`):

- `TypeCorrect`, `Invariant`: `Spec => []TypeOK`, `Spec => []IInv`.
- `NoTaskIsLost`: `Spec => []TasksArePending`.
- `NothingIsLeft`: `Spec => []ClosedIsQuiet`.
- `LoadStaysBounded`: `Spec => []LoadIsBounded`.
- `AnswersAreRight`: `MaxPages = 1 /\ Spec => []AnswersFitImages`. The premise is
  what `docs/api/users.md` says of the profile; the worker itself takes any limit.
- `PoolImplementsService`: `MaxPages = 1 /\ Spec => ImplementsService`.

`TasksArePending` is inductive with the types: `Placed` states it of any calls,
queue and tasks, and one lemma each says what taking, queuing, removing or losing
a task does to it; below these, lemmas about sequences without duplicates say what
`Append`, `Tail` and `Dequeued` do. `ClosedIsQuiet` needs `ClosingIsFlagged`, or a
closed pool might take a task. `LoadIsBounded` is not inductive: the admission
compares only what `queueSize` reports, which leaves out what starting threads
will take. `QueueFits` bounds the queue by its places and the threads that are
starting; it survives because a thread that is up takes a task with it, if
there is one, and because a thread that replaces another never replaces one that
is starting. The load then follows by counting: a pending call has one place in the
queue or one busy thread, exactly, and busy and starting threads are different threads.

The same count gives the refinement its two steps that are not obvious. A call that is
admitted finds room (`RoomIsThere`). A call that is turned away by an open pool finds
all places taken (`FullIsFull`), which needs `ThreadsServe`: no thread idles while a
task waits, and the least number of threads is alive, however threads were terminated,
died and were replaced. With a task in the queue every thread that is alive works or is
starting, and `queueSize` has left out the starting ones. That no answer goes to a call
that is not waiting for it is `TasksArePending` again.

**Articles and comments.** `ArticlesProofs`, for every set of users, titles and
requests, any base slugs, number of attempts and bounds (`BaseSlugAssumption`,
`ArticlesAssumption`):

- `TypeCorrect`, `Invariant`: `Spec => []TypeOK`, `Spec => []IInv`.
- `AttemptsAreLostToRivals`: `Spec => []LostAttemptsHaveRivals`.
- `SlugsFollowTitles`: `Spec => []SlugFollowsTitle`.
- `WordsAreTheAuthors`: `Spec => OnlyAuthorsWrite`.
- `ListsArePagedWhole`: `Spec => []PagesCoverTheList`.
- `ReaderInvariant`: `FeedSpec => []FeedInv`.
- `OffsetsSkipNothing`: `FeedSpec => NothingIsSkipped`, for any page size
  (`PageSizeAssumption`) and any requests under way while the reader reads.

`CandidateIsFree` is where the slugs come in: fewer slugs in use than suffixes, and
different suffixes give different slugs, so `createCandidate` ends with a slug
that was free (the pigeonhole is `FS_Injection`). `SlugsStartWithBase` says that
`startsWith` finds every slug of the title, so "was free" means free in the whole
table, and a candidate that is taken later was taken by a rival's write.
`Allocation` keeps ids from being drawn twice and every request in progress from
running out of them; with it, the row a request has found is the row it writes,
or is gone. `Ownership` says so of authors: whoever is about to write or remove
is the author of what is there by then, which no rename or removal in between can
change, as nothing changes an author. `Naming` says that a slug in hand belongs
to the title in hand, and that a slug is only left alone where there is one. For
the pages, `Ranks` numbers the rows of a list from 1 on without a gap (an injection
between sets of one size), and `LastPageRoundsUp` says that pages go on exactly as
long as they do not hold all rows. For the reader, `FeedInv` keeps every article
that is owed behind the pages read. `StaysBehind` carries it through a change of the
list: rows that come can only push a row back, and rows that go from behind the
pages read leave what lies before it; the first `k` rows are then still there and
newer. At the last page all rows are before its end, so nothing owed is behind it.
`FeedIsArticles` lets the reader use what is proved of `Articles`.

**Only model-checked**: liveness (it needs `ENABLED`, which is beyond the proof
system here): `ReplayRevokesEveryRow`, `MailsAreSettled`, `OrphansAreReclaimed`, `EventsAreSettled` and `AdmittedTasksEnd`. `PendingIsMailed`
and every other safety property of the passing runs is proved. The findings are
counterexamples; nothing is proved of them.

## 5. Not modelled, and why

Passwords, JWTs and guards keep no state. Names, titles, texts and image bytes
are data no property tells apart: a generated user name is taken or not, a title
is its base slug, an image is its metadata. Tags, descriptions and bodies change
with the row they belong to; the two ways a tag can make a write fail (the unique
name, two transactions that wait for each other) are the failure `Fail`. A
follow edge is one idempotent statement (`ProfilesService`) in `Feed`; for the
consumer it decides whom it reads, which is any set of followers. The lists order
rows by `createdAt` alone (`articles.repository.ts:16`); the models take creation
as a total order, so rows of one millisecond, which PostgreSQL may order
differently from page to page, are not covered. Content preview is a pure
function behind a call; health checks read; the HTTP layer and logging format.
PostgreSQL, Kafka, BullMQ, Redis, Piscina and S3 are modelled as the code uses
them, and marked external where a definition stands for them alone. A deadlock
is modelled where pending rows are replaced (`ProviderLinks`). In `RefreshTokens` the
`UPDATE` of many rows, and each `DELETE` of a sweep, takes its rows in one step; a
revoke-all and a sweep, or two revoke-alls, that wait for each other's rows end as the
victim's error, which is `Abort` there. Emission
with `ENABLE_KAFKA=false` is left out of `Notifications`, which also has the email
queue to itself, as has `ProviderLinks`: in the code their jobs wait for the same
worker. Two thirds of the implementation's lines are the generated
Prisma client, which is not modelled but by what its calls do.

## 6. Plan

Done so far, in order: `RefreshTokens` with its ledger and proofs (the most
important behaviour: it decides who is logged in), `ProviderLinks`,
`AvatarReplacement`, `EmailQueue` with `Notifications`, `WorkerPool`, `Articles`,
`Feed`; then the abstract specifications `LinkOffers`, `ImageService` and `AvatarStore`
and the proofs that the services implement them. Next:

1. Tags: the unique names that articles connect or create in one transaction, in
   any order, and the circle of two transactions that wait for each other's names.
2. One email queue for both kinds of mail, as in the code: what a burst of one kind
   does to the other.
3. A death between the commit of a pending row and its queue call in the fair
   model: that a resend or the sweep repairs it.
4. Abstract specifications of the other services, to be implemented and proved: an
   announcement that reaches each recipient, a table of articles whose names are unique.
