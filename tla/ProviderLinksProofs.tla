------------------------- MODULE ProviderLinksProofs -------------------------
(***************************************************************************)
(* Proofs about ProviderLinks, for any subjects, accounts and requests and *)
(* any bounds.                                                             *)
(***************************************************************************)
EXTENDS ProviderLinks, TLAPS

USE NoneAssumption, TimesAssumption, LinkBoundsAssumption DEF Ids, Clock

----------------------------------------------------------------------------
(***************************************************************************)
(* What a step changes.                                                    *)
(***************************************************************************)

\* A step of a request, or of Postgres for it.
Moves(r) == Arrive(r) \/ Serve(r) \/ Victim(r) \/ Abort(r)

\* The other requests are where they were.
Others(r) ==
  \A q \in Requests \ {r} :
    /\ pc'[q] = pc[q] /\ sub'[q] = sub[q] /\ account'[q] = account[q] /\ at'[q] = at[q]
    /\ id'[q] = id[q] /\ found'[q] = found[q] /\ removing'[q] = removing[q]

\* A request that ends leaves nothing behind in its own variables.
LEMMA FinishEnds ==
  ASSUME TypeOK, NEW r \in Requests, Finish(r)
  PROVE  /\ Others(r)
         /\ pc'[r] = "idle" /\ sub'[r] = None /\ account'[r] = None /\ at'[r] = 0
         /\ id'[r] = 0 /\ found'[r] = {} /\ removing'[r] = {}
  BY DEF TypeOK, Finish, Others

\* Its variables keep their types.
LEMMA FinishTyped ==
  ASSUME TypeOK, NEW r \in Requests, Finish(r)
  PROVE  /\ pc' \in [Requests -> Pc]
         /\ sub' \in [Requests -> Subjects \union {None}]
         /\ account' \in [Requests -> Accounts \union {None}]
         /\ at' \in [Requests -> Clock]
         /\ id' \in [Requests -> Ids \union {0}]
         /\ found' \in [Requests -> SUBSET Ids]
         /\ removing' \in [Requests -> SUBSET Ids]
  BY DEF TypeOK, Finish, Pc

\* The queue keeps its type, whatever is added, sent, failed, forgotten or stalled.
LEMMA JobsTyped ==
  ASSUME TypeOK, AttemptLeft, NEW i \in Ids
  PROVE  /\ NoJob \in Job
         /\ Added(i, "confirmation") \in [Ids -> Job]
         /\ Take(i) \/ Send(i) \/ SendFails(i) \/ Forget(i) => jobs' \in [Ids -> Job]
         /\ [jobs EXCEPT ![i] = NoJob] \in [Ids -> Job]
         /\ Stalled \in [Ids -> Job]
<1>1. NoJob \in Job
  BY DEF NoJob, Job, Free
<1>2. jobs \in [Ids -> Job] /\ jobs[i] \in Job
  BY DEF TypeOK
<1>3. Added(i, "confirmation") \in [Ids -> Job]
  BY <1>1, <1>2 DEF Added, Job
<1>4. Take(i) => jobs' \in [Ids -> Job]
  BY <1>2 DEF Take, Job
<1>5. Send(i) \/ Forget(i) => jobs' \in [Ids -> Job]
  BY <1>1, <1>2 DEF Send, Forget
<1>6. SendFails(i) => jobs' \in [Ids -> Job]
  <2>1. SUFFICES ASSUME SendFails(i) PROVE jobs' \in [Ids -> Job]
    OBVIOUS
  <2> DEFINE made == jobs[i].attemptsMade + 1
             end  == IF made < Attempts THEN "waiting" ELSE "failed"
  <2>2. jobs' = [jobs EXCEPT ![i].attemptsMade = made, ![i].state = end]
    BY <2>1 DEF SendFails
  <2>3. made \in 0 .. Attempts
    BY <1>2, <2>1 DEF SendFails, Job, AttemptLeft
  <2>4. end \in {Free, "waiting", "active", "failed"}
    OBVIOUS
  <2>5. [jobs[i] EXCEPT !.attemptsMade = made, !.state = end] \in Job
    <3> HIDE DEF made, end
    <3>1. QED
      BY <1>2, <2>3, <2>4 DEF Job
  <2>6. jobs' = [jobs EXCEPT ![i] = [jobs[i] EXCEPT !.attemptsMade = made, !.state = end]]
    <3> HIDE DEF made, end
    <3>1. QED
      BY <1>2, <2>2
  <2>7. QED
    <3> HIDE DEF made, end
    <3>1. QED
      BY <1>2, <2>5, <2>6
<1>7. Stalled \in [Ids -> Job]
  BY <1>2 DEF Stalled, Job
<1>8. QED
  BY <1>1, <1>2, <1>3, <1>4, <1>5, <1>6, <1>7

\* A request changes its own variables only.
LEMMA RequestsMoveAlone ==
  ASSUME TypeOK, NEW r \in Requests, Moves(r)
  PROVE  Others(r)
<1> USE DEF users, rows, locals, world
<1>1. CASE \E s \in Subjects, a \in Accounts : Resolve(r, s, a)
  BY <1>1 DEF TypeOK, Others, Resolve
<1>2. CASE \E i \in mailed : ConfirmFind(r, i)
  BY <1>2 DEF TypeOK, Others, ConfirmFind
<1>3. CASE \/ ResolveUnknown(r) \/ LinkToExisting(r) \/ CreateUser(r) \/ RemoveExpiredLinks(r)
  BY <1>3 DEF TypeOK, Others, ResolveUnknown, LinkToExisting, CreateUser, RemoveExpiredLinks, Goto
<1>4. CASE \/ RefuseUnverified(r) \/ CreateUserTaken(r) \/ CreateAccountCommit(r) \/ IssueReread(r)
           \/ IssueInsertFails(r) \/ Enqueue(r) \/ Compensate(r) \/ ConfirmCommit(r)
           \/ ConfirmRecheck(r) \/ Victim(r) \/ Abort(r)
  BY <1>4, FinishEnds DEF RefuseUnverified, CreateUserTaken, CreateAccountCommit, IssueReread,
    IssueInsertFails, Enqueue, Compensate, ConfirmCommit, ConfirmRecheck, Victim, Abort
<1>5. CASE CreateLink(r) \/ IssueRead(r) \/ ConfirmLookup(r) \/ DeleteExpired(r)
  <2>1. CASE Finish(r)
    BY <2>1, FinishEnds
  <2>2. CASE ~Finish(r)
    BY <1>5, <2>2 DEF TypeOK, Others, CreateLink, IssueRead, ConfirmLookup, DeleteExpired
  <2>3. QED
    BY <2>1, <2>2
<1>6. CASE \/ IssueDeleteStart(r) \/ IssueDelete(r) \/ IssueInsertSubject(r)
           \/ IssueInsertAccount(r) \/ IssueCommit(r) \/ EnqueueFails(r)
  BY <1>6 DEF TypeOK, Others, IssueDeleteStart, IssueDelete, IssueInsertSubject, IssueInsertAccount,
    RollBackToReread, IssueCommit, EnqueueFails, Goto
<1>7. CASE ConfirmClaim(r) \/ ConfirmLink(r)
  BY <1>7 DEF TypeOK, Others, ConfirmClaim, ConfirmLink, Goto
<1>8. QED
  BY <1>1, <1>2, <1>3, <1>4, <1>5, <1>6, <1>7 DEF Moves, Arrive, Serve

\* The initial state has every part of the invariant.
LEMMA InitInv == Init => IInv
<1> SUFFICES ASSUME Init PROVE IInv
  OBVIOUS
<1> USE DEF Init
<1>1. TypeOK
  BY DEF TypeOK, BlankLink, Link, Pc, NoJob, Job, Free
<1>2. Allocation
  BY DEF Allocation, NoJob, Free
<1>3. AttemptLeft /\ Reference /\ Proof /\ RowLocks /\ KeyLocks
  BY DEF AttemptLeft, NoJob, Free, Reference, Issuing, Proof, Confirming, RowLocks, KeyLocks,
    Inserting, Creating
<1>4. Replacing /\ Uncommitted /\ HalfInserted /\ UniqueKeys
  BY DEF Replacing, Uncommitted, HalfInserted, UniqueKeys
<1>5. LinkedAreRegistered /\ PasswordlessAccountsReachable /\ LinksAreProven /\ PendingIsMailed
  BY DEF LinkedAreRegistered, PasswordlessAccountsReachable, LinksAreProven, PendingIsMailed
<1>6. QED
  BY <1>1, <1>2, <1>3, <1>4, <1>5 DEF IInv

----------------------------------------------------------------------------
(***************************************************************************)
(* Ids.                                                                    *)
(***************************************************************************)

\* An id that is drawn is one of the sequence.
LEMMA AnIdIsLeft ==
  ASSUME TypeOK, IdsLeft
  PROVE  nextId \in Ids /\ nextId + 1 \in 1 .. MaxLinks + 1
  BY DEF TypeOK, IdsLeft

\* Every step keeps the types.
LEMMA StepTyped == TypeOK /\ AttemptLeft /\ Allocation /\ Reference /\ [Next]_vars => TypeOK'
<1> SUFFICES ASSUME TypeOK, AttemptLeft, Allocation, Reference, [Next]_vars PROVE TypeOK'
  OBVIOUS
<1> USE DEF users, rows, locals, world
<1>0. ASSUME NEW r \in Requests, NEW to,
             pc' = [pc EXCEPT ![r] = to],
             to \in {"byEmail", "create", "createLink", "createCommit", "issueRead", "clear", "clearing",
                     "insert", "insertAccount", "issueCommit", "reread", "enqueue", "compensate", "claim", "lookup", "link",
                     "linkCommit", "recheck", "sweeping"}
      PROVE  pc' \in [Requests -> Pc]
  <2>1. to \in Pc
    BY <1>0 DEF Pc
  <2>2. pc \in [Requests -> Pc]
    BY DEF TypeOK
  <2>3. QED
    BY <1>0, <2>1, <2>2
<1>a. ASSUME NEW a \in Accounts, Register(a) PROVE TypeOK'
  BY <1>a DEF TypeOK, Register
<1>b. ASSUME NEW r \in Requests, NEW s \in Subjects, NEW a \in Accounts, Resolve(r, s, a) PROVE TypeOK'
  <2>1. CASE linked[s] = None
    <3>1. pc' \in [Requests -> Pc]
      BY <1>0, <1>b, <2>1 DEF Resolve
    <3>2. QED
      <4>1. sub' \in [Requests -> Subjects \union {None}]
        BY <1>b, <2>1 DEF TypeOK, Resolve
      <4>2. account' \in [Requests -> Accounts \union {None}]
        BY <1>b, <2>1 DEF TypeOK, Resolve
      <4>3. UNCHANGED <<users, rows, at, id, found, removing, world>>
        BY <1>b DEF Resolve
      <4>4. QED
        BY <3>1, <4>1, <4>2, <4>3 DEF TypeOK
  <2>2. CASE linked[s] # None
    BY <1>b, <2>2 DEF TypeOK, Resolve
  <2>3. QED
    BY <2>1, <2>2
<1>c. ASSUME NEW r \in Requests, NEW i \in mailed, ConfirmFind(r, i) PROVE TypeOK'
  <2>1. i \in Ids /\ link[i] \in Link
    BY DEF TypeOK
  <2>2. CASE i \in pending /\ now < Expires(i)
    <3>1. pc' \in [Requests -> Pc]
      BY <1>0, <1>c, <2>2 DEF ConfirmFind
    <3>2. QED
      <4>1. sub' \in [Requests -> Subjects \union {None}]
        BY <1>c, <2>1, <2>2 DEF TypeOK, ConfirmFind, Link
      <4>2. account' \in [Requests -> Accounts \union {None}]
        BY <1>c, <2>1, <2>2 DEF TypeOK, ConfirmFind, Link
      <4>3. at' \in [Requests -> Clock] /\ id' \in [Requests -> Ids \union {0}]
        <5>1. /\ at \in [Requests -> Clock] /\ id \in [Requests -> Ids \union {0}]
              /\ now \in Clock
          BY DEF TypeOK
        <5>2. at' = [at EXCEPT ![r] = now] /\ id' = [id EXCEPT ![r] = i]
          BY <1>c, <2>2 DEF ConfirmFind
        <5>3. QED
          BY <2>1, <5>1, <5>2
      <4>4. UNCHANGED <<users, rows, found, removing, world>>
        BY <1>c DEF ConfirmFind
      <4>5. QED
        BY <3>1, <4>1, <4>2, <4>3, <4>4 DEF TypeOK
  <2>3. CASE ~(i \in pending /\ now < Expires(i))
    BY  <1>c, <2>3 DEF TypeOK, ConfirmFind
  <2>4. QED
    BY <2>2, <2>3
<1>d. ASSUME NEW r \in Requests, ResolveUnknown(r) \/ LinkToExisting(r) \/ CreateUser(r)
      PROVE  TypeOK'
  <2>1. pc' \in [Requests -> Pc]
    BY <1>0, <1>d DEF ResolveUnknown, LinkToExisting, CreateUser, Goto
  <2>2. at' \in [Requests -> Clock]
    BY <1>d DEF TypeOK, ResolveUnknown, LinkToExisting, CreateUser
  <2>3. UNCHANGED <<users, rows, sub, account, id, found, removing, world>>
    BY <1>d DEF ResolveUnknown, LinkToExisting, CreateUser
  <2>4. QED
    BY <2>1, <2>2, <2>3 DEF TypeOK
<1>e. ASSUME NEW r \in Requests,
             \/ RefuseUnverified(r) \/ CreateUserTaken(r) \/ IssueInsertFails(r) \/ IssueReread(r)
             \/ ConfirmRecheck(r) \/ Victim(r) \/ Abort(r)
      PROVE  TypeOK'
  <2>1. Finish(r) /\ UNCHANGED <<users, rows, jobs, now, mailed, refusals>>
    BY <1>e DEF RefuseUnverified, CreateUserTaken, IssueInsertFails, IssueReread, ConfirmRecheck,
      Victim, Abort, world
  <2>2. crashes' \in 0 .. MaxCrashes
    BY <1>e DEF TypeOK, RefuseUnverified, CreateUserTaken, IssueInsertFails, IssueReread,
      ConfirmRecheck, Victim, Abort, world
  <2>3. QED
    BY <2>1, <2>2, FinishTyped DEF TypeOK
<1>f. ASSUME NEW r \in Requests, CreateAccountCommit(r) PROVE TypeOK'
  <2>1. sub[r] \in Subjects /\ account[r] \in Accounts
    BY <1>f DEF Reference, CreateAccountCommit
  <2>2. QED
    BY <1>f, <2>1, FinishTyped DEF TypeOK, CreateAccountCommit
<1>g. ASSUME NEW r \in Requests, IssueRead(r) PROVE TypeOK'
  <2>1. CASE CoolingDown(r)
    BY  <1>g, <2>1, FinishTyped DEF TypeOK, IssueRead
  <2>2. CASE ~CoolingDown(r)
    <3>1. pc' \in [Requests -> Pc]
      BY <1>0, <1>g, <2>2 DEF IssueRead
    <3>2. QED
      BY <1>g, <2>2, <3>1 DEF TypeOK, IssueRead
  <2>3. QED
    BY <2>1, <2>2
<1>h. ASSUME NEW r \in Requests, IssueDeleteStart(r) \/ IssueDelete(r) PROVE TypeOK'
  <2>0. /\ found \in [Requests -> SUBSET Ids] /\ removing \in [Requests -> SUBSET Ids]
        /\ pc \in [Requests -> Pc] /\ pending \subseteq Ids
    BY DEF TypeOK
  <2>1. UNCHANGED <<users, rows, sub, account, at, id, world>>
    BY <1>h DEF IssueDeleteStart, IssueDelete
  <2>2. CASE IssueDeleteStart(r)
    <3>1. Matching(r) \in SUBSET Ids
      BY <2>0 DEF Matching
    <3>2. pc' \in [Requests -> Pc]
      BY <1>0, <2>2 DEF IssueDeleteStart, Goto
    <3>3. found' \in [Requests -> SUBSET Ids] /\ removing' = removing
      BY <2>0, <2>2, <3>1 DEF IssueDeleteStart
    <3>4. QED
      BY <2>0, <2>1, <3>2, <3>3 DEF TypeOK
  <2>3. CASE IssueDelete(r)
    <3>1. PICK i \in found[r] :
            /\ found' = [found EXCEPT ![r] = found[r] \ {i}]
            /\ removing' = [removing EXCEPT ![r] = removing[r] \union ({i} \intersect pending)]
            /\ pc' = IF found[r] = {i} THEN [pc EXCEPT ![r] = "insert"] ELSE pc
      BY <2>3 DEF IssueDelete
    <3>2. pc' \in [Requests -> Pc]
      BY <1>0, <2>0, <3>1
    <3>3. found' \in [Requests -> SUBSET Ids] /\ removing' \in [Requests -> SUBSET Ids]
      BY <2>0, <3>1
    <3>4. QED
      BY <2>1, <3>2, <3>3 DEF TypeOK
  <2>4. QED
    BY <1>h, <2>2, <2>3
<1>i. ASSUME NEW r \in Requests, IssueInsertSubject(r) \/ IssueInsertAccount(r) PROVE TypeOK'
  <2>0. /\ removing \in [Requests -> SUBSET Ids] /\ link \in [Ids -> Link]
        /\ id \in [Requests -> Ids \union {0}]
    BY DEF TypeOK
  <2>1. pc' \in [Requests -> Pc]
    BY <1>0, <1>i DEF IssueInsertSubject, IssueInsertAccount, RollBackToReread
  <2>2. removing' \in [Requests -> SUBSET Ids]
    BY <1>i, <2>0 DEF IssueInsertSubject, IssueInsertAccount, RollBackToReread
  <2>3. UNCHANGED <<users, pending, sub, account, at, found, world>>
    BY <1>i DEF IssueInsertSubject, IssueInsertAccount
  <2>4. link' \in [Ids -> Link] /\ nextId' \in 1 .. MaxLinks + 1 /\ id' \in [Requests -> Ids \union {0}]
    <3>1. CASE UNCHANGED <<link, nextId, id>>
      BY <3>1 DEF TypeOK
    <3>2. CASE ~UNCHANGED <<link, nextId, id>>
      <4>1. /\ IdsLeft /\ nextId' = nextId + 1
            /\ link' = [link EXCEPT ![nextId] = NewLink(r)] /\ id' = [id EXCEPT ![r] = nextId]
        BY <1>i, <3>2 DEF IssueInsertSubject, IssueInsertAccount
      <4>2. NewLink(r) \in Link
        BY DEF TypeOK, NewLink, Link
      <4>3. QED
        BY <2>0, <4>1, <4>2, AnIdIsLeft
    <3>3. QED
      BY <3>1, <3>2
  <2>5. QED
    BY <2>1, <2>2, <2>3, <2>4 DEF TypeOK
<1>j. ASSUME NEW r \in Requests, IssueCommit(r) PROVE TypeOK'
  <2>1. id[r] \in Ids
    BY  <1>j DEF Reference, IssueCommit, Goto
  <2>2. QED
    <3>1. pc' \in [Requests -> Pc]
      BY <1>0, <1>j DEF IssueCommit, Goto
    <3>2. QED
      BY <1>j, <2>1, <3>1 DEF TypeOK, IssueCommit
<1>k. ASSUME NEW r \in Requests, Enqueue(r) \/ EnqueueFails(r) PROVE TypeOK'
  <2>1. id[r] \in Ids
    BY <1>k DEF Reference, Enqueue, EnqueueFails, Goto
  <2>2. Added(id[r], "confirmation") \in [Ids -> Job]
    BY <2>1, JobsTyped
  <2>3. CASE Enqueue(r)
    BY <2>2, <2>3, FinishTyped DEF TypeOK, Enqueue
  <2>4. CASE EnqueueFails(r)
    <3>1. pc' \in [Requests -> Pc]
      BY <1>0, <2>4 DEF EnqueueFails, Goto
    <3>2. jobs' \in [Ids -> Job] /\ refusals' \in 0 .. MaxRefusals
      BY <2>2, <2>4 DEF TypeOK, EnqueueFails
    <3>3. QED
      BY <2>4, <3>1, <3>2 DEF TypeOK, EnqueueFails
  <2>5. QED
    BY <1>k, <2>3, <2>4
<1>l. ASSUME NEW r \in Requests, Compensate(r) PROVE TypeOK'
  BY <1>l, FinishTyped DEF TypeOK, Compensate
<1>m. ASSUME NEW r \in Requests, ConfirmClaim(r) \/ ConfirmLink(r) PROVE TypeOK'
  <2>1. {id[r]} \intersect pending \in SUBSET Ids
    BY DEF TypeOK
  <2>2. QED
    <3>1. pc' \in [Requests -> Pc]
      BY <1>0, <1>m DEF ConfirmClaim, ConfirmLink, Goto
    <3>2. removing' \in [Requests -> SUBSET Ids]
      BY <1>m, <2>1 DEF TypeOK, ConfirmClaim, ConfirmLink
    <3>3. UNCHANGED <<users, rows, sub, account, at, id, found, world>>
      BY <1>m DEF ConfirmClaim, ConfirmLink
    <3>4. QED
      BY <3>1, <3>2, <3>3 DEF TypeOK
<1>n. ASSUME NEW r \in Requests, ConfirmLookup(r) PROVE TypeOK'
  <2>1. CASE MayLink(r)
    <3>1. pc' \in [Requests -> Pc]
      BY <1>0, <1>n, <2>1 DEF ConfirmLookup
    <3>2. QED
      BY <1>n, <2>1, <3>1 DEF TypeOK, ConfirmLookup
  <2>2. CASE ~MayLink(r)
    BY <1>n, <2>2, FinishTyped DEF TypeOK, ConfirmLookup
  <2>3. QED
    BY <2>1, <2>2
<1>o. ASSUME NEW r \in Requests, ConfirmCommit(r) PROVE TypeOK'
  BY <1>o, FinishTyped DEF TypeOK, ConfirmCommit
<1>p. ASSUME NEW i \in Ids, \/ Skip(i) \/ Deliver(i) \/ Delivered(i) \/ DeliveryFails(i)
                            \/ FailedJobExpires(i) \/ WorkerDies(i)
      PROVE  TypeOK'
  <2>1. jobs' \in [Ids -> Job]
    BY <1>p, JobsTyped DEF Skip, Deliver, Delivered, DeliveryFails, FailedJobExpires, WorkerDies
  <2>2. mailed \subseteq Ids /\ crashes \in 0 .. MaxCrashes
    BY DEF TypeOK
  <2>5. mailed' \subseteq Ids
    BY <1>p, <2>2 DEF Skip, Deliver, Delivered, DeliveryFails, FailedJobExpires, WorkerDies
  <2>6. crashes' \in 0 .. MaxCrashes
    BY <1>p, <2>2 DEF Skip, Deliver, Delivered, DeliveryFails, FailedJobExpires, WorkerDies
  <2>3. UNCHANGED <<users, rows, locals, now, refusals>>
    BY <1>p DEF Skip, Deliver, Delivered, DeliveryFails, FailedJobExpires, WorkerDies
  <2>4. QED
    BY <2>1, <2>5, <2>6, <2>3 DEF TypeOK
<1>q. ASSUME Tick PROVE TypeOK'
  <2>1. now' \in 0 .. MaxTime
    BY <1>q DEF TypeOK, Tick
  <2>2. QED
    BY <1>q, <2>1 DEF TypeOK, Tick
<1>s. ASSUME NEW r \in Requests, CreateLink(r) PROVE TypeOK'
  <2>1. CASE Finish(r)
    BY <1>s, <2>1, FinishTyped DEF TypeOK, CreateLink
  <2>2. CASE ~Finish(r)
    <3>1. pc' \in [Requests -> Pc]
      BY <1>0, <1>s, <2>2 DEF CreateLink
    <3>2. QED
      BY <1>s, <2>2, <3>1 DEF TypeOK, CreateLink
  <2>3. QED
    BY <2>1, <2>2
<1>t. ASSUME NEW r \in Requests, RemoveExpiredLinks(r) PROVE TypeOK'
  <2>1. pc' \in [Requests -> Pc]
    BY <1>0, <1>t DEF RemoveExpiredLinks, Goto
  <2>2. found' \in [Requests -> SUBSET Ids]
    BY <1>t DEF TypeOK, RemoveExpiredLinks, Sweepable
  <2>3. QED
    BY <1>t, <2>1, <2>2 DEF TypeOK, RemoveExpiredLinks
<1>u. ASSUME NEW r \in Requests, DeleteExpired(r) PROVE TypeOK'
  <2>1. UNCHANGED <<users, link, nextId, world>>
    BY <1>u DEF DeleteExpired
  <2>2. pending' \subseteq Ids
    BY <1>u DEF TypeOK, DeleteExpired
  <2>3. CASE Finish(r)
    BY <2>1, <2>2, <2>3, FinishTyped DEF TypeOK
  <2>4. CASE ~Finish(r)
    <3>1. PICK i \in found[r] :
            /\ found' = [found EXCEPT ![r] = found[r] \ {i}]
            /\ removing' = [removing EXCEPT ![r] = removing[r] \union ({i} \intersect pending)]
            /\ UNCHANGED <<pending, pc, sub, account, at, id>>
      BY <1>u, <2>4 DEF DeleteExpired
    <3>2. found' \in [Requests -> SUBSET Ids] /\ removing' \in [Requests -> SUBSET Ids]
      <4>1. found \in [Requests -> SUBSET Ids] /\ removing \in [Requests -> SUBSET Ids]
        BY DEF TypeOK
      <4>2. pending \subseteq Ids
        BY DEF TypeOK
      <4>3. QED
        BY <3>1, <4>1, <4>2
    <3>3. QED
      BY <2>1, <3>1, <3>2 DEF TypeOK
  <2>5. QED
    BY <2>3, <2>4
<1>r. ASSUME UNCHANGED vars PROVE TypeOK'
  BY <1>r DEF TypeOK, vars
<1>v. QED
  BY <1>a, <1>b, <1>c, <1>d, <1>e, <1>f, <1>g, <1>h, <1>i, <1>j, <1>k, <1>l, <1>m, <1>n, <1>o,
     <1>p, <1>q, <1>r, <1>s, <1>t, <1>u DEF Next, Arrive, Serve, Worker

\* A job that waits again after a failure has an attempt left.
LEMMA StepAttemptLeft == TypeOK /\ AttemptLeft /\ Reference /\ [Next]_vars => AttemptLeft'
<1> SUFFICES ASSUME TypeOK, AttemptLeft, Reference, [Next]_vars PROVE AttemptLeft'
  OBVIOUS
<1> USE DEF users, rows, locals, world
<1>0. jobs \in [Ids -> Job]
  BY DEF TypeOK
<1>1. ASSUME NEW r \in Requests, Enqueue(r) \/ EnqueueFails(r) PROVE AttemptLeft'
  <2>1. id[r] \in Ids
    BY <1>1 DEF Reference, Enqueue, EnqueueFails, Goto
  <2>2. jobs' = jobs \/ jobs' = [jobs EXCEPT ![id[r]] =
                                  [state |-> "waiting", data |-> "confirmation", attemptsMade |-> 0]]
    BY <1>1 DEF Enqueue, EnqueueFails, Added, NoJob
  <2>3. QED
    BY <1>0, <2>1, <2>2 DEF AttemptLeft
<1>2. ASSUME NEW i \in Ids, Skip(i) \/ Delivered(i) \/ FailedJobExpires(i) PROVE AttemptLeft'
  <2>1. jobs' = [jobs EXCEPT ![i] = NoJob]
    BY <1>2 DEF Skip, Delivered, FailedJobExpires, Send, Forget
  <2>2. QED
    BY <1>0, <2>1 DEF AttemptLeft, NoJob, Free
<1>3. ASSUME NEW i \in Ids, Deliver(i) PROVE AttemptLeft'
  BY <1>0, <1>3 DEF AttemptLeft, Deliver, Take, Job
<1>4. ASSUME NEW i \in Ids, DeliveryFails(i) PROVE AttemptLeft'
  <2> DEFINE made == jobs[i].attemptsMade + 1
  <2>1. jobs' = [jobs EXCEPT ![i] = [state |-> IF made < Attempts THEN "waiting" ELSE "failed",
                                     data |-> jobs[i].data, attemptsMade |-> made]]
    BY <1>0, <1>4 DEF DeliveryFails, SendFails, Job
  <2>2. QED
    BY <1>0, <2>1 DEF AttemptLeft
<1>5. ASSUME NEW i \in Ids, WorkerDies(i) PROVE AttemptLeft'
  BY <1>0, <1>5 DEF AttemptLeft, WorkerDies, Stalled, Job
<1>6. ASSUME UNCHANGED jobs PROVE AttemptLeft'
  BY <1>6 DEF AttemptLeft
<1>7. ASSUME NEW r \in Requests, Moves(r), ~Enqueue(r), ~EnqueueFails(r)
      PROVE  UNCHANGED jobs
  BY <1>7 DEF Moves, Arrive, Resolve, ConfirmFind, RemoveExpiredLinks, Victim, Serve,
    ResolveUnknown, RefuseUnverified, LinkToExisting, CreateUser, CreateUserTaken, CreateLink,
    CreateAccountCommit, DeleteExpired, IssueRead, IssueDeleteStart, IssueDelete,
    IssueInsertSubject, IssueInsertAccount, IssueInsertFails, RollBackToReread, IssueCommit,
    IssueReread, Compensate, ConfirmClaim, ConfirmLookup, ConfirmLink, ConfirmCommit,
    ConfirmRecheck, Abort
<1>8. ASSUME \/ \E a \in Accounts : Register(a)
             \/ Tick \/ UNCHANGED vars
      PROVE  UNCHANGED jobs
  BY <1>8 DEF Register, Tick, vars
<1>9. QED
  BY <1>1, <1>2, <1>3, <1>4, <1>5, <1>6, <1>7, <1>8 DEF Next, Moves, Worker, Serve

\* An id is drawn once.
LEMMA StepAllocation == TypeOK /\ Allocation /\ Reference /\ [Next]_vars => Allocation'
<1> SUFFICES ASSUME TypeOK, Allocation, Reference, [Next]_vars PROVE Allocation'
  OBVIOUS
<1> USE DEF users, rows, locals, world
<1>0. /\ nextId \in Nat /\ 0 < nextId /\ id \in [Requests -> Ids \union {0}] /\ jobs \in [Ids -> Job]
      /\ pending \subseteq Nat /\ mailed \subseteq Nat
  BY DEF TypeOK
\* A request that draws no id and queues no job.
<1>1. ASSUME NEW r \in Requests, Others(r), nextId' = nextId, id'[r] < nextId,
             pending' \subseteq pending, UNCHANGED <<mailed, jobs>>
      PROVE  Allocation'
  <2>1. \A q \in Requests : id'[q] < nextId'
    BY <1>1 DEF Allocation, Others
  <2>2. QED
    BY <1>1, <2>1 DEF Allocation
<1>2. ASSUME NEW r \in Requests, Finish(r), nextId' = nextId, pending' \subseteq pending,
             UNCHANGED <<mailed, jobs>>
      PROVE  Allocation'
  BY <1>0, <1>1, <1>2, FinishEnds
<1>3. ASSUME NEW r \in Requests, NEW i \in mailed, ConfirmFind(r, i) PROVE Allocation'
  <2>1. i < nextId
    BY <1>0 DEF Allocation
  <2>2. id'[r] < nextId
    BY <1>0, <1>3, <2>1 DEF ConfirmFind, Allocation
  <2>3. Others(r)
    BY <1>3, RequestsMoveAlone DEF Moves, Arrive
  <2>4. QED
    BY <1>1, <1>3, <2>2, <2>3 DEF ConfirmFind
<1>4. ASSUME NEW r \in Requests, Moves(r), ~\E i \in mailed : ConfirmFind(r, i), ~Finish(r),
             ~IssueInsertAccount(r), ~IssueCommit(r), ~EnqueueFails(r)
      PROVE  Allocation'
  <2>1. id' = id /\ nextId' = nextId /\ pending' \subseteq pending /\ UNCHANGED <<mailed, jobs>>
    BY <1>4 DEF Moves, Arrive, Resolve, RemoveExpiredLinks, Victim, Serve, ResolveUnknown,
      RefuseUnverified, LinkToExisting, CreateUser, CreateUserTaken, CreateLink,
      CreateAccountCommit, DeleteExpired, IssueRead, IssueDeleteStart, IssueDelete,
      IssueInsertSubject, IssueInsertFails, IssueReread, Enqueue, Compensate, ConfirmClaim,
      ConfirmLookup, ConfirmLink, ConfirmCommit, ConfirmRecheck, Abort
  <2>2. id'[r] < nextId
    BY <2>1 DEF Allocation
  <2>3. QED
    BY <1>1, <1>4, <2>1, <2>2, RequestsMoveAlone
<1>5. ASSUME NEW r \in Requests, Moves(r), Finish(r),
             ~IssueInsertAccount(r), ~IssueCommit(r), ~Enqueue(r), ~EnqueueFails(r)
      PROVE  Allocation'
  <2>1. nextId' = nextId /\ pending' \subseteq pending /\ UNCHANGED <<mailed, jobs>>
    BY <1>5 DEF Moves, Arrive, Resolve, ConfirmFind, RemoveExpiredLinks, Victim, Serve,
      ResolveUnknown, RefuseUnverified, LinkToExisting, CreateUser, CreateUserTaken, CreateLink,
      CreateAccountCommit, DeleteExpired, IssueRead, IssueDeleteStart, IssueDelete,
      IssueInsertSubject, IssueInsertFails, IssueReread, Compensate, ConfirmClaim, ConfirmLookup,
      ConfirmLink, ConfirmCommit, ConfirmRecheck, Abort
  <2>2. QED
    BY <1>2, <1>5, <2>1
<1>6. ASSUME NEW r \in Requests, IssueInsertAccount(r) PROVE Allocation'
  <2>1. Others(r)
    BY <1>6, RequestsMoveAlone DEF Moves, Serve
  <2>2. UNCHANGED <<pending, mailed, jobs>>
    BY <1>6 DEF IssueInsertAccount
  <2>3. \/ nextId' = nextId /\ id' = id
        \/ nextId' = nextId + 1 /\ id'[r] = nextId
    BY <1>0, <1>6 DEF IssueInsertAccount
  <2>4. \A q \in Requests : id'[q] < nextId'
    <3>1. \A q \in Requests : id[q] \in Nat /\ id[q] < nextId
      BY <1>0 DEF Allocation
    <3>2. QED
      BY <1>0, <2>1, <2>3, <3>1 DEF Others
  <2>5. pending' \union mailed' \subseteq 1 .. nextId' - 1
    BY <1>0, <2>2, <2>3 DEF Allocation
  <2>6. \A i \in Ids : jobs'[i].state # Free => i < nextId'
    BY <1>0, <2>2, <2>3 DEF Allocation
  <2>7. QED
    BY <2>4, <2>5, <2>6 DEF Allocation
<1>7. ASSUME NEW r \in Requests, IssueCommit(r) PROVE Allocation'
  <2>1. id[r] \in 1 .. nextId - 1
    <3>1. id[r] \in Ids /\ id[r] < nextId
      BY <1>7 DEF IssueCommit, Goto, Reference, Allocation
    <3>2. QED
      BY <1>0, <3>1
  <2>2. pending' \union mailed' \subseteq 1 .. nextId' - 1
    BY <1>7, <2>1 DEF IssueCommit, Allocation
  <2>3. QED
    BY <1>7, <2>2 DEF IssueCommit, Allocation
<1>8. ASSUME NEW r \in Requests, Enqueue(r) \/ EnqueueFails(r) PROVE Allocation'
  <2>1. Others(r)
    BY <1>8, RequestsMoveAlone DEF Moves, Serve
  <2>2. id'[r] < nextId
    <3>1. CASE Enqueue(r)
      BY <1>0, <3>1, FinishEnds DEF Enqueue
    <3>2. CASE EnqueueFails(r)
      BY <3>2 DEF EnqueueFails, Allocation
    <3>3. QED
      BY <1>8, <3>1, <3>2
  <2>3. id[r] \in Ids /\ id[r] < nextId
    BY <1>8 DEF Enqueue, EnqueueFails, Goto, Reference, Allocation
  <2>4. \A i \in Ids : i # id[r] => jobs'[i].state = jobs[i].state
    BY <1>0, <1>8, <2>3 DEF Enqueue, EnqueueFails, Added
  <2>5. UNCHANGED <<nextId, pending, mailed>>
    BY <1>8 DEF Enqueue, EnqueueFails
  <2>6. \A i \in Ids : jobs'[i].state # Free => i < nextId'
    BY <2>3, <2>4, <2>5 DEF Allocation
  <2>7. \A q \in Requests : id'[q] < nextId'
    BY <2>1, <2>2, <2>5 DEF Allocation, Others
  <2>8. QED
    BY <2>5, <2>6, <2>7 DEF Allocation
<1>9. ASSUME NEW i \in Ids, \/ Skip(i) \/ Deliver(i) \/ Delivered(i) \/ DeliveryFails(i)
                            \/ FailedJobExpires(i) \/ WorkerDies(i)
      PROVE  Allocation'
  <2>1. UNCHANGED <<rows, locals>> /\ jobs[i].state # Free /\ mailed' \subseteq mailed \union {i}
    BY <1>9 DEF Skip, Deliver, Delivered, DeliveryFails, FailedJobExpires, WorkerDies, Take, Send,
      SendFails, Forget, Free
  <2>2. \A j \in Ids : jobs'[j].state # Free => jobs[j].state # Free
    BY <1>9 DEF Skip, Deliver, Delivered, DeliveryFails, FailedJobExpires, WorkerDies, Take, Send,
      SendFails, Forget, Stalled, NoJob, Free, TypeOK, Job
  <2>3. i \in 1 .. nextId - 1
    <3>1. i < nextId
      BY <2>1 DEF Allocation
    <3>2. QED
      BY <1>0, <3>1
  <2>4. QED
    BY <2>1, <2>2, <2>3 DEF Allocation
<1>10. ASSUME (\E a \in Accounts : Register(a)) \/ Tick \/ UNCHANGED vars PROVE Allocation'
  <2>1. UNCHANGED <<locals, nextId, mailed, jobs, pending>>
    BY <1>10 DEF Register, Tick, vars
  <2>2. QED
    BY <2>1 DEF Allocation
<1>11. ASSUME NEW r \in Requests, Moves(r) PROVE Allocation'
  BY <1>3, <1>4, <1>5, <1>6, <1>7, <1>8, <1>11
<1>12. QED
  BY <1>9, <1>10, <1>11 DEF Next, Moves, Worker

----------------------------------------------------------------------------
(***************************************************************************)
(* Rows and requests.                                                      *)
(***************************************************************************)

\* Only an insert touches the columns of a row, and they are those of a new one.
LEMMA OnlyInsertsWriteRows ==
  ASSUME TypeOK, [Next]_vars, \A r \in Requests : ~IssueInsertAccount(r)
  PROVE  UNCHANGED <<link, nextId>>
<1> USE DEF users, rows, locals, world
<1>1. ASSUME NEW r \in Requests, Moves(r) PROVE UNCHANGED <<link, nextId>>
  BY <1>1 DEF Moves, Arrive, Resolve, ConfirmFind, RemoveExpiredLinks, Victim, Serve,
    ResolveUnknown, RefuseUnverified, LinkToExisting, CreateUser, CreateUserTaken, CreateLink,
    CreateAccountCommit, DeleteExpired, IssueRead, IssueDeleteStart, IssueDelete,
    IssueInsertSubject, IssueInsertFails, IssueCommit, IssueReread, Enqueue, EnqueueFails,
    Compensate, ConfirmClaim, ConfirmLookup, ConfirmLink, ConfirmCommit, ConfirmRecheck, Abort
<1>2. ASSUME NEW i \in Ids, \/ Skip(i) \/ Deliver(i) \/ Delivered(i) \/ DeliveryFails(i)
                            \/ FailedJobExpires(i) \/ WorkerDies(i)
      PROVE  UNCHANGED <<link, nextId>>
  BY <1>2 DEF Skip, Deliver, Delivered, DeliveryFails, FailedJobExpires, WorkerDies
<1>3. ASSUME \/ \E a \in Accounts : Register(a)
             \/ Tick \/ UNCHANGED vars
      PROVE  UNCHANGED <<link, nextId>>
  BY <1>3 DEF Register, Tick, vars
<1>4. QED
  BY <1>1, <1>2, <1>3 DEF Next, Moves, Worker

\* Rows that were inserted are never updated, mail is not recalled, and accounts stay.
LEMMA WorldGrows ==
  ASSUME TypeOK, Allocation, [Next]_vars
  PROVE  /\ nextId' = nextId \/ nextId' = nextId + 1
         /\ \A i \in 1 .. nextId - 1 : link'[i] = link[i]
         /\ nextId' = nextId => UNCHANGED link
         /\ mailed \subseteq mailed'
         /\ registered \subseteq registered'
<1> USE DEF users, rows, locals, world
<1>1. nextId \in Nat /\ link \in [Ids -> Link] /\ nextId # nextId + 1
  BY DEF TypeOK
<1>2. /\ nextId' = nextId \/ nextId' = nextId + 1
      /\ \A i \in 1 .. nextId - 1 : link'[i] = link[i]
      /\ nextId' = nextId => UNCHANGED link
  <2>1. ASSUME NEW r \in Requests, IssueInsertAccount(r)
        PROVE  \/ UNCHANGED <<link, nextId>>
               \/ nextId' = nextId + 1 /\ link' = [link EXCEPT ![nextId] = NewLink(r)]
    BY <2>1 DEF IssueInsertAccount
  <2>2. \A i \in 1 .. nextId - 1 : i # nextId
    BY <1>1
  <2>3. QED
    BY <1>1, <2>1, <2>2, OnlyInsertsWriteRows
<1>3. mailed \subseteq mailed' /\ registered \subseteq registered'
  <2>1. ASSUME NEW r \in Requests, Moves(r)
        PROVE  mailed' = mailed /\ registered \subseteq registered'
    BY <2>1 DEF Moves, Arrive, Resolve, ConfirmFind, RemoveExpiredLinks, Victim, Serve,
      ResolveUnknown, RefuseUnverified, LinkToExisting, CreateUser, CreateUserTaken, CreateLink,
      CreateAccountCommit, DeleteExpired, IssueRead, IssueDeleteStart, IssueDelete,
      IssueInsertSubject, IssueInsertAccount, IssueInsertFails, RollBackToReread, IssueCommit,
      IssueReread, Enqueue, EnqueueFails, Compensate, ConfirmClaim, ConfirmLookup, ConfirmLink,
      ConfirmCommit, ConfirmRecheck, Abort
  <2>2. ASSUME NEW i \in Ids, \/ Skip(i) \/ Deliver(i) \/ Delivered(i) \/ DeliveryFails(i)
                              \/ FailedJobExpires(i) \/ WorkerDies(i)
        PROVE  mailed \subseteq mailed' /\ registered' = registered
    BY <2>2 DEF Skip, Deliver, Delivered, DeliveryFails, FailedJobExpires, WorkerDies
  <2>3. ASSUME \/ \E a \in Accounts : Register(a)
               \/ Tick \/ UNCHANGED vars
        PROVE  mailed' = mailed /\ registered \subseteq registered'
    BY <2>3 DEF Register, Tick, vars
  <2>4. QED
    BY <2>1, <2>2, <2>3 DEF Next, Moves, Worker
<1>4. QED
  BY <1>2, <1>3

\* Steps of no request leave every request where it was.
LEMMA RequestsRest ==
  ASSUME \/ \E a \in Accounts : Register(a)
         \/ Worker
         \/ \E i \in Ids : FailedJobExpires(i) \/ WorkerDies(i)
         \/ Tick \/ UNCHANGED vars
  PROVE  UNCHANGED locals /\ UNCHANGED <<creator, linked, link, nextId>>
  BY DEF Register, Worker, Skip, Deliver, Delivered, DeliveryFails, FailedJobExpires, WorkerDies,
    Tick, vars, users, rows, world

\* Rows and requests stay about a subject and an account that is there.
LEMMA StepReference == TypeOK /\ Allocation /\ Reference /\ [Next]_vars => Reference'
<1> SUFFICES ASSUME TypeOK, Allocation, Reference, [Next]_vars PROVE Reference'
  OBVIOUS
<1> USE DEF users, rows, locals, world
<1>0. /\ pc \in [Requests -> Pc] /\ id \in [Requests -> Ids \union {0}]
      /\ sub \in [Requests -> Subjects \union {None}]
      /\ account \in [Requests -> Accounts \union {None}]
      /\ link \in [Ids -> Link] /\ registered \subseteq Accounts /\ nextId \in Nat /\ mailed \subseteq Ids
  BY DEF TypeOK
<1> DEFINE About(r) == /\ pc[r] \notin {"idle", "sweeping"} => sub[r] \in Subjects /\ account[r] \in Accounts
                       /\ r \in Issuing => account[r] \in registered
                       /\ pc[r] \in {"issueCommit", "enqueue", "compensate"} => id[r] \in Ids
<1>1. \A r \in Requests : About(r)
  BY DEF Reference
\* The rows.
<1>2. \A i \in 1 .. nextId' - 1 : link'[i].sub \in Subjects /\ link'[i].account \in registered'
  <2>1. CASE nextId' = nextId
    BY <2>1, WorldGrows DEF Reference
  <2>2. CASE nextId' # nextId
    <3>1. PICK r \in Requests : IssueInsertAccount(r)
      BY <2>2, OnlyInsertsWriteRows
    <3>2. nextId \in Ids
      BY <2>2, <3>1, AnIdIsLeft DEF IssueInsertAccount
    <3>3. nextId' = nextId + 1 /\ link' = [link EXCEPT ![nextId] = NewLink(r)]
      BY <2>2, <3>1 DEF IssueInsertAccount
    <3>4. sub[r] \in Subjects /\ account[r] \in registered
      BY <1>1, <3>1 DEF IssueInsertAccount, Issuing
    <3>5. link'[nextId].sub \in Subjects /\ link'[nextId].account \in registered
      BY <1>0, <3>2, <3>3, <3>4 DEF NewLink
    <3>6. ASSUME NEW i \in 1 .. nextId' - 1 PROVE i = nextId \/ i \in 1 .. nextId - 1
      BY <1>0, <3>3
    <3>7. QED
      BY <3>5, <3>6, WorldGrows DEF Reference
  <2>3. QED
    BY <2>1, <2>2
\* The requests that do nothing.
<1>3. ASSUME NEW r \in Requests, Others(r), About(r)' PROVE Reference'
  <2>1. \A q \in Requests \ {r} : About(q)'
    BY <1>1, <1>3, WorldGrows DEF Others, Issuing
  <2>2. \A q \in Requests : About(q)'
    BY <1>3, <2>1
  <2>3. QED
    BY <1>2, <2>2 DEF Reference, Issuing
\* The request that takes the step.
<1>4. ASSUME NEW r \in Requests, Finish(r) PROVE About(r)'
  BY <1>4, FinishEnds DEF Issuing
<1>5. ASSUME NEW r \in Requests, NEW s \in Subjects, NEW a \in Accounts, Resolve(r, s, a)
      PROVE  About(r)'
  BY <1>0, <1>1, <1>5 DEF Resolve, Issuing
<1>6. ASSUME NEW r \in Requests, NEW i \in mailed, ConfirmFind(r, i) PROVE About(r)'
  <2>1. link[i].sub \in Subjects /\ link[i].account \in registered
    BY DEF Allocation, Reference
  <2>2. QED
    BY <1>0, <1>1, <1>6, <2>1 DEF ConfirmFind, Issuing
<1>7. ASSUME NEW r \in Requests,
             \/ RefuseUnverified(r) \/ CreateUserTaken(r) \/ CreateAccountCommit(r) \/ IssueReread(r)
             \/ IssueInsertFails(r) \/ Enqueue(r) \/ Compensate(r) \/ ConfirmCommit(r)
             \/ ConfirmRecheck(r) \/ Victim(r) \/ Abort(r)
      PROVE  About(r)'
  BY <1>4, <1>7 DEF RefuseUnverified, CreateUserTaken, CreateAccountCommit, IssueReread,
    IssueInsertFails, Enqueue, Compensate, ConfirmCommit, ConfirmRecheck, Victim, Abort
<1>8. ASSUME NEW r \in Requests, \/ ResolveUnknown(r) \/ CreateUser(r) \/ LinkToExisting(r)
                                 \/ RemoveExpiredLinks(r)
      PROVE  About(r)'
  BY <1>0, <1>1, <1>8 DEF ResolveUnknown, CreateUser, LinkToExisting, RemoveExpiredLinks,
    Goto, Issuing
<1>9. ASSUME NEW r \in Requests, CreateLink(r) \/ IssueRead(r) \/ ConfirmLookup(r) \/ DeleteExpired(r)
      PROVE  About(r)'
  <2>1. CASE Finish(r)
    BY <1>4, <2>1
  <2>2. CASE ~Finish(r)
    BY <1>0, <1>1, <1>9, <2>2 DEF CreateLink, IssueRead, ConfirmLookup, DeleteExpired, Issuing
  <2>3. QED
    BY <2>1, <2>2
<1>10. ASSUME NEW r \in Requests, \/ IssueDeleteStart(r) \/ IssueDelete(r) \/ IssueCommit(r)
                                  \/ IssueInsertSubject(r) \/ EnqueueFails(r)
       PROVE  About(r)'
  BY <1>0, <1>1, <1>10 DEF IssueDeleteStart, IssueDelete, IssueCommit,
    IssueInsertSubject, RollBackToReread, EnqueueFails, Goto, Issuing
<1>11. ASSUME NEW r \in Requests, IssueInsertAccount(r) PROVE About(r)'
  <2>1. CASE OfferAccountTaken(r)
    BY <1>0, <1>1, <1>11, <2>1 DEF IssueInsertAccount, RollBackToReread, Issuing
  <2>2. CASE ~OfferAccountTaken(r)
    <3>1. nextId \in Ids
      BY <1>11, <2>2, AnIdIsLeft DEF IssueInsertAccount
    <3>2. QED
      BY <1>0, <1>1, <1>11, <2>2, <3>1 DEF IssueInsertAccount, Issuing
  <2>3. QED
    BY <2>1, <2>2
<1>12. ASSUME NEW r \in Requests, ConfirmClaim(r) \/ ConfirmLink(r) PROVE About(r)'
  BY <1>0, <1>1, <1>12 DEF ConfirmClaim, ConfirmLink, Goto, Issuing
<1>13. ASSUME NEW r \in Requests, Moves(r) PROVE Reference'
  <2>1. Others(r)
    BY <1>13, RequestsMoveAlone
  <2>2. About(r)'
    BY <1>5, <1>6, <1>7, <1>8, <1>9, <1>10, <1>11, <1>12, <1>13 DEF Moves, Arrive, Serve
  <2>3. QED
    BY <1>3, <2>1, <2>2
<1>14. ASSUME UNCHANGED locals PROVE Reference'
  <2>1. \A r \in Requests : About(r)'
    BY <1>1, <1>14, WorldGrows DEF Issuing
  <2>2. QED
    BY <1>2, <2>1 DEF Reference, Issuing
<1>15. QED
  BY <1>13, <1>14, RequestsRest DEF Next, Moves

\* What is confirmed stays a token that was mailed, for its subject and its account.
LEMMA StepProof == TypeOK /\ Allocation /\ Proof /\ [Next]_vars => Proof'
<1> SUFFICES ASSUME TypeOK, Allocation, Proof, [Next]_vars PROVE Proof'
  OBVIOUS
<1> USE DEF users, rows, locals, world
<1>0. /\ pc \in [Requests -> Pc] /\ id \in [Requests -> Ids \union {0}]
      /\ sub \in [Requests -> Subjects \union {None}]
      /\ account \in [Requests -> Accounts \union {None}] /\ nextId \in Nat
  BY DEF TypeOK
<1> DEFINE Proven(r) == id[r] \in mailed /\ link[id[r]].sub = sub[r] /\ link[id[r]].account = account[r]
\* A request that holds what it held.
<1>1. ASSUME NEW r \in Confirming, id'[r] = id[r], sub'[r] = sub[r], account'[r] = account[r]
      PROVE  Proven(r)'
  <2>1. Proven(r) /\ id[r] \in 1 .. nextId - 1
    BY DEF Proof, Allocation
  <2>2. QED
    BY <1>1, <2>1, WorldGrows
<1>2. ASSUME NEW r \in Requests, Others(r), r \in Confirming' => Proven(r)' PROVE Proof'
  <2>1. \A q \in Requests \ {r} : q \in Confirming' => Proven(q)'
    BY <1>1, <1>2 DEF Others, Confirming
  <2>2. QED
    BY <1>2, <2>1 DEF Proof, Confirming
<1>3. ASSUME NEW r \in Requests, NEW i \in mailed, ConfirmFind(r, i), r \in Confirming' PROVE Proven(r)'
  <2>1. i \in pending /\ now < Expires(i)
    BY <1>0, <1>3 DEF ConfirmFind, Confirming
  <2>2. QED
    BY <1>0, <1>3, <2>1 DEF ConfirmFind
<1>4. ASSUME NEW r \in Requests, NEW s \in Subjects, NEW a \in Accounts, Resolve(r, s, a)
      PROVE  r \notin Confirming'
  BY <1>0, <1>4 DEF Resolve, Confirming
<1>5. ASSUME NEW r \in Requests,
             \/ RefuseUnverified(r) \/ CreateUserTaken(r) \/ CreateAccountCommit(r) \/ IssueReread(r)
             \/ IssueInsertFails(r) \/ Enqueue(r) \/ Compensate(r) \/ ConfirmCommit(r)
             \/ ConfirmRecheck(r) \/ Victim(r) \/ Abort(r)
      PROVE  r \notin Confirming'
  BY <1>5, FinishEnds DEF Confirming, RefuseUnverified, CreateUserTaken, CreateAccountCommit,
    IssueReread, IssueInsertFails, Enqueue, Compensate, ConfirmCommit, ConfirmRecheck, Victim, Abort
<1>6. ASSUME NEW r \in Requests,
             \/ ResolveUnknown(r) \/ CreateUser(r) \/ LinkToExisting(r) \/ RemoveExpiredLinks(r)
             \/ IssueDeleteStart(r) \/ IssueDelete(r) \/ IssueCommit(r) \/ EnqueueFails(r)
      PROVE  r \notin Confirming'
  BY <1>0, <1>6 DEF Confirming, ResolveUnknown, CreateUser, LinkToExisting, RemoveExpiredLinks,
    IssueDeleteStart, IssueDelete, IssueCommit, EnqueueFails, Goto
<1>7. ASSUME NEW r \in Requests,
             \/ CreateLink(r) \/ IssueRead(r) \/ IssueInsertSubject(r) \/ IssueInsertAccount(r)
             \/ DeleteExpired(r)
      PROVE  r \notin Confirming'
  BY <1>0, <1>7, FinishEnds DEF Confirming, CreateLink, IssueRead, IssueInsertSubject,
    IssueInsertAccount, RollBackToReread, DeleteExpired
<1>8. ASSUME NEW r \in Requests, ConfirmClaim(r) \/ ConfirmLink(r) PROVE Proven(r)'
  BY <1>0, <1>1, <1>8 DEF Confirming, ConfirmClaim, ConfirmLink, Goto
<1>9. ASSUME NEW r \in Requests, ConfirmLookup(r), r \in Confirming' PROVE Proven(r)'
  <2>1. CASE MayLink(r)
    BY <1>1, <1>9, <2>1 DEF Confirming, ConfirmLookup
  <2>2. CASE ~MayLink(r)
    BY <1>9, <2>2, FinishEnds DEF Confirming, ConfirmLookup
  <2>3. QED
    BY <2>1, <2>2
<1>10. ASSUME NEW r \in Requests, Moves(r) PROVE Proof'
  <2>1. Others(r)
    BY <1>10, RequestsMoveAlone
  <2>2. r \in Confirming' => Proven(r)'
    BY <1>3, <1>4, <1>5, <1>6, <1>7, <1>8, <1>9, <1>10 DEF Moves, Arrive, Serve
  <2>3. QED
    BY <1>2, <2>1, <2>2
<1>11. ASSUME UNCHANGED locals PROVE Proof'
  BY <1>1, <1>11 DEF Proof, Confirming
<1>12. QED
  BY <1>10, <1>11, RequestsRest DEF Next, Moves

----------------------------------------------------------------------------
(***************************************************************************)
(* What transactions lock.                                                 *)
(***************************************************************************)

\* A request that takes a step without deleting rows, with what it already had.
LEMMA KeepingLocks ==
  ASSUME TypeOK, RowLocks, NEW r \in Requests, Others(r),
         removing'[r] \subseteq removing[r], pending \subseteq pending'
  PROVE  /\ removing'[r] \subseteq pending'
         /\ \A q \in Requests \ {r} : removing[q] \subseteq pending'
         /\ \A q \in Requests \ {r} : removing[q] \intersect removing'[r] = {}
  BY DEF RowLocks

\* Rows that are being deleted stay there, and in the hands of one request.
LEMMA StepRowLocks == TypeOK /\ Allocation /\ RowLocks /\ [Next]_vars => RowLocks'
<1> SUFFICES ASSUME TypeOK, Allocation, RowLocks, [Next]_vars PROVE RowLocks'
  OBVIOUS
<1> USE DEF users, rows, locals, world
<1>0. /\ pc \in [Requests -> Pc] /\ id \in [Requests -> Ids \union {0}]
      /\ removing \in [Requests -> SUBSET Ids] /\ found \in [Requests -> SUBSET Ids]
  BY DEF TypeOK
<1> DEFINE Held(r) == /\ removing[r] # {} => pc[r] \in Deleting
                      /\ found[r] # {} => pc[r] \in {"clearing", "sweeping"}
                      /\ pc[r] \in {"lookup", "link", "linkCommit"} => removing[r] \subseteq {id[r]}
                      /\ pc[r] \in {"link", "linkCommit"} => removing[r] = {id[r]}
           Apart(r) == /\ removing'[r] \subseteq pending'
                       /\ \A q \in Requests \ {r} : removing[q] \subseteq pending'
                       /\ \A q \in Requests \ {r} : removing[q] \intersect removing'[r] = {}
<1>1. \A r \in Requests : Held(r)
  BY DEF RowLocks
<1>2. ASSUME NEW r \in Requests, Others(r), Apart(r), Held(r)' PROVE RowLocks'
  <2>1. \A q \in Requests : Held(q)'
    BY <1>1, <1>2 DEF Others
  <2>2. \A q \in Requests : removing'[q] \subseteq pending'
    BY <1>2 DEF Others
  <2>3. \A p, q \in Requests : p # q => removing'[p] \intersect removing'[q] = {}
    BY <1>2 DEF Others, RowLocks
  <2>4. QED
    BY <2>1, <2>2, <2>3 DEF RowLocks
\* A request that ends, and takes only its own rows along.
<1>3. ASSUME NEW r \in Requests, Finish(r),
             \A q \in Requests \ {r} : removing[q] \subseteq pending'
      PROVE  RowLocks'
  BY <1>2, <1>3, FinishEnds
<1>4. ASSUME NEW r \in Requests, Finish(r), pending' = pending PROVE RowLocks'
  BY <1>3, <1>4 DEF RowLocks
<1>5. ASSUME NEW r \in Requests,
             \/ RefuseUnverified(r) \/ CreateUserTaken(r) \/ CreateAccountCommit(r)
             \/ IssueInsertFails(r) \/ IssueReread(r) \/ Enqueue(r) \/ ConfirmRecheck(r)
             \/ Victim(r) \/ Abort(r)
      PROVE  RowLocks'
  BY <1>4, <1>5 DEF RefuseUnverified, CreateUserTaken, CreateAccountCommit, IssueInsertFails,
    IssueReread, Enqueue, ConfirmRecheck, Victim, Abort
<1>6. ASSUME NEW r \in Requests, Compensate(r) PROVE RowLocks'
  <2>1. pc[r] = "compensate" /\ ~Waits(r) /\ pending' = pending \ {id[r]} /\ Finish(r)
    BY <1>6 DEF Compensate
  <2>2. \A q \in Requests \ {r} : id[r] \notin removing[q]
    BY <2>1 DEF Waits, WaitsFor
  <2>3. QED
    BY <1>3, <2>1, <2>2 DEF RowLocks
<1>7. ASSUME NEW r \in Requests, ConfirmCommit(r) PROVE RowLocks'
  BY <1>3, <1>7 DEF ConfirmCommit, RowLocks
<1>8. ASSUME NEW r \in Requests, ConfirmLookup(r) PROVE RowLocks'
  <2>1. CASE MayLink(r)
    <3>1. /\ pc[r] = "lookup" /\ pc'[r] = "link" /\ removing[r] # {}
          /\ UNCHANGED <<removing, found, id, pending>>
      BY <1>0, <1>8, <2>1 DEF ConfirmLookup, MayLink
    <3>2. Held(r)'
      BY <1>1, <3>1 DEF Deleting
    <3>3. Others(r) /\ Apart(r)
      BY <1>8, <3>1, KeepingLocks, RequestsMoveAlone DEF Moves, Serve
    <3>4. QED
      BY <1>2, <3>2, <3>3
  <2>2. CASE ~MayLink(r)
    BY <1>3, <1>8, <2>2 DEF ConfirmLookup, RowLocks
  <2>3. QED
    BY <2>1, <2>2
<1>9. ASSUME NEW r \in Requests, Arrive(r) PROVE RowLocks'
  <2>1. pc[r] = "idle" /\ removing' = removing /\ pending' = pending
    BY <1>9 DEF Arrive, Resolve, ConfirmFind, RemoveExpiredLinks, Goto
  <2>2. /\ pc'[r] \notin {"lookup", "link", "linkCommit"}
        /\ found'[r] # {} => pc'[r] = "sweeping"
        /\ removing[r] = {}
    BY <1>0, <1>1, <1>9, <2>1 DEF Arrive, Resolve, ConfirmFind, RemoveExpiredLinks, Goto, Deleting
  <2>3. Others(r) /\ Apart(r)
    BY <1>9, <2>1, KeepingLocks, RequestsMoveAlone DEF Moves
  <2>4. QED
    BY <1>2, <2>1, <2>2, <2>3
<1>10. ASSUME NEW r \in Requests,
              \/ ResolveUnknown(r) \/ LinkToExisting(r) \/ CreateUser(r) \/ EnqueueFails(r)
              \/ IssueDeleteStart(r)
              \/ CreateLink(r) /\ ~Finish(r)
              \/ IssueRead(r) /\ ~Finish(r)
       PROVE  RowLocks'
  <2>1. removing' = removing /\ pending' = pending
    BY <1>10 DEF ResolveUnknown, LinkToExisting, CreateUser, IssueDeleteStart, EnqueueFails,
      CreateLink, IssueRead
  <2>2. /\ pc[r] \notin Deleting
        /\ pc'[r] \notin {"lookup", "link", "linkCommit"}
        /\ \/ found'[r] = {}
           \/ found'[r] = found[r] /\ pc[r] # "clearing"
           \/ pc'[r] = "clearing"
    BY <1>0, <1>10 DEF ResolveUnknown, LinkToExisting, CreateUser, IssueDeleteStart, EnqueueFails,
      CreateLink, IssueRead, Goto, Deleting
  <2>3. Others(r) /\ Apart(r)
    BY <1>10, <2>1, KeepingLocks, RequestsMoveAlone DEF Moves, Serve
  <2>4. Held(r)'
    BY <1>1, <2>1, <2>2 DEF Deleting
  <2>5. QED
    BY <1>2, <2>3, <2>4
<1>11. ASSUME NEW r \in Requests, CreateLink(r) \/ IssueRead(r) PROVE RowLocks'
  BY <1>4, <1>10, <1>11 DEF CreateLink, IssueRead
\* A delete comes to a row that nobody else is deleting.
<1>12. ASSUME NEW r \in Requests, NEW i \in found[r], Others(r), pending' = pending,
              pc[r] \in {"clearing", "sweeping"},
              \A q \in Requests \ {r} : i \notin removing[q],
              found' = [found EXCEPT ![r] = found[r] \ {i}],
              removing' = [removing EXCEPT ![r] = removing[r] \union ({i} \intersect pending)],
              pc'[r] = pc[r] \/ (found[r] = {i} /\ pc'[r] = "insert")
       PROVE  RowLocks'
  <2>1. /\ found'[r] = found[r] \ {i}
        /\ removing'[r] = removing[r] \union ({i} \intersect pending)
    BY <1>0, <1>12
  <2>2. Apart(r)
    BY <1>12, <2>1 DEF RowLocks
  <2>3. Held(r)'
    BY <1>12, <2>1 DEF Deleting
  <2>4. QED
    BY <1>2, <1>12, <2>2, <2>3
<1>13. ASSUME NEW r \in Requests, IssueDelete(r) PROVE RowLocks'
  <2>1. PICK i \in found[r] :
          /\ \A q \in Requests \ {r} : i \notin removing[q]
          /\ found' = [found EXCEPT ![r] = found[r] \ {i}]
          /\ removing' = [removing EXCEPT ![r] = removing[r] \union ({i} \intersect pending)]
          /\ pc' = IF found[r] = {i} THEN [pc EXCEPT ![r] = "insert"] ELSE pc
    BY <1>13 DEF IssueDelete
  <2>2. pc[r] = "clearing" /\ pending' = pending /\ Others(r)
    BY <1>13, RequestsMoveAlone DEF IssueDelete, Moves, Serve
  <2>3. pc'[r] = pc[r] \/ (found[r] = {i} /\ pc'[r] = "insert")
    BY <1>0, <2>1
  <2>4. QED
    BY <1>12, <2>1, <2>2, <2>3
<1>14. ASSUME NEW r \in Requests, DeleteExpired(r) PROVE RowLocks'
  <2>1. PICK i \in found[r] :
          /\ \A q \in Requests \ {r} : i \notin removing[q]
          /\ IF found[r] = {i}
             THEN pending' = pending \ (removing[r] \union {i}) /\ Finish(r)
             ELSE /\ found' = [found EXCEPT ![r] = found[r] \ {i}]
                  /\ removing' = [removing EXCEPT ![r] = removing[r] \union ({i} \intersect pending)]
                  /\ UNCHANGED <<pending, pc, sub, account, at, id>>
    BY <1>14 DEF DeleteExpired
  <2>2. CASE found[r] = {i}
    <3>1. \A q \in Requests \ {r} : removing[q] \subseteq pending'
      BY <2>1, <2>2 DEF RowLocks
    <3>2. QED
      BY <1>3, <2>1, <2>2, <3>1
  <2>3. CASE found[r] # {i}
    <3>1. pc[r] = "sweeping" /\ Others(r)
      BY <1>14, RequestsMoveAlone DEF DeleteExpired, Moves, Serve
    <3>2. QED
      BY <1>12, <2>1, <2>3, <3>1
  <2>4. QED
    BY <2>2, <2>3
<1>15. ASSUME NEW r \in Requests, IssueInsertSubject(r) \/ IssueInsertAccount(r) PROVE RowLocks'
  <2>1. Others(r)
    BY <1>15, RequestsMoveAlone DEF Moves, Serve
  <2>2. /\ removing'[r] \subseteq removing[r] /\ pending' = pending /\ found' = found
        /\ pc[r] \notin {"clearing", "sweeping"}
        /\ pc'[r] \in {"insertAccount", "issueCommit", "reread"}
        /\ pc'[r] = "reread" => removing'[r] = {}
    BY <1>0, <1>15 DEF IssueInsertSubject, IssueInsertAccount, RollBackToReread
  <2>3. Held(r)'
    BY <1>1, <2>2 DEF Deleting
  <2>4. QED
    BY <1>2, <2>1, <2>2, <2>3, KeepingLocks
<1>16. ASSUME NEW r \in Requests, IssueCommit(r) PROVE RowLocks'
  <2>1. Others(r)
    BY <1>16, RequestsMoveAlone DEF Moves, Serve
  <2>2. /\ removing'[r] = {} /\ pc[r] = "issueCommit" /\ pc'[r] = "enqueue"
        /\ pending \ removing[r] \subseteq pending' /\ found' = found
    BY <1>0, <1>16 DEF IssueCommit, Goto
  <2>3. Apart(r)
    BY <2>2 DEF RowLocks
  <2>4. Held(r)'
    BY <1>1, <2>2
  <2>5. QED
    BY <1>2, <2>1, <2>3, <2>4
<1>17. ASSUME NEW r \in Requests, ConfirmClaim(r) PROVE RowLocks'
  <2>1. /\ removing'[r] = {id[r]} \intersect pending /\ pc[r] = "claim" /\ pc'[r] = "lookup"
        /\ id' = id /\ pending' = pending /\ found' = found
    BY <1>0, <1>17 DEF ConfirmClaim, Goto
  <2>2. \A q \in Requests \ {r} : id[r] \notin removing[q]
    BY <1>17, <2>1 DEF ConfirmClaim, Waits, WaitsFor
  <2>3. Apart(r)
    BY <2>1, <2>2 DEF RowLocks
  <2>4. Held(r)'
    BY <1>1, <2>1 DEF Deleting
  <2>5. Others(r)
    BY <1>17, RequestsMoveAlone DEF Moves, Serve
  <2>6. QED
    BY <1>2, <2>3, <2>4, <2>5
<1>18. ASSUME NEW r \in Requests, ConfirmLink(r) PROVE RowLocks'
  <2>1. Others(r)
    BY <1>18, RequestsMoveAlone DEF Moves, Serve
  <2>2. /\ pc[r] = "link" /\ pending' = pending /\ id' = id /\ found' = found
        /\ \/ pc'[r] = "linkCommit" /\ removing'[r] = removing[r]
           \/ pc'[r] = "recheck" /\ removing'[r] = {}
    BY <1>0, <1>18 DEF ConfirmLink
  <2>3. Held(r)'
    BY <1>1, <2>2 DEF Deleting
  <2>4. QED
    BY <1>2, <2>1, <2>2, <2>3, KeepingLocks
<1>19. ASSUME \/ \E a \in Accounts : Register(a)
              \/ Worker
              \/ \E i \in Ids : FailedJobExpires(i) \/ WorkerDies(i)
              \/ Tick \/ UNCHANGED vars
       PROVE  RowLocks'
  <2>1. UNCHANGED locals /\ pending' = pending
    BY <1>19 DEF Register, Worker, Skip, Deliver, Delivered, DeliveryFails, FailedJobExpires,
      WorkerDies, Tick, vars
  <2>2. QED
    BY <2>1 DEF RowLocks
<1>20. ASSUME NEW r \in Requests, Serve(r) PROVE RowLocks'
  <2>1. CASE \/ ResolveUnknown(r) \/ RefuseUnverified(r) \/ LinkToExisting(r) \/ CreateUser(r)
             \/ CreateUserTaken(r) \/ CreateLink(r) \/ CreateAccountCommit(r)
    BY <1>5, <1>10, <1>11, <2>1
  <2>2. CASE \/ IssueRead(r) \/ IssueDeleteStart(r) \/ IssueDelete(r) \/ IssueInsertSubject(r)
             \/ IssueInsertAccount(r) \/ IssueInsertFails(r) \/ IssueCommit(r) \/ IssueReread(r)
    BY <1>5, <1>10, <1>11, <1>13, <1>15, <1>16, <2>2
  <2>3. CASE Enqueue(r) \/ EnqueueFails(r) \/ Compensate(r) \/ DeleteExpired(r)
    BY <1>5, <1>6, <1>10, <1>14, <2>3
  <2>4. CASE \/ ConfirmClaim(r) \/ ConfirmLookup(r) \/ ConfirmLink(r) \/ ConfirmCommit(r)
             \/ ConfirmRecheck(r)
    BY <1>5, <1>7, <1>8, <1>17, <1>18, <2>4
  <2>5. QED
    BY <1>20, <2>1, <2>2, <2>3, <2>4 DEF Serve
<1>21. QED
  BY <1>5, <1>9, <1>19, <1>20 DEF Next

\* Links are inserted by commits alone, and accounts by commits and registration.
LEMMA OnlyCommitsLink ==
  ASSUME TypeOK, NEW r \in Requests, Moves(r)
  PROVE  /\ ~CreateAccountCommit(r) => UNCHANGED <<registered, creator>>
         /\ ~CreateAccountCommit(r) /\ ~ConfirmCommit(r) => UNCHANGED linked
  BY DEF Moves, Arrive, Resolve, ConfirmFind, RemoveExpiredLinks, Victim, Serve, ResolveUnknown,
    RefuseUnverified, LinkToExisting, CreateUser, CreateUserTaken, CreateLink, CreateAccountCommit,
    DeleteExpired, IssueRead, IssueDeleteStart, IssueDelete, IssueInsertSubject, IssueInsertAccount,
    IssueInsertFails, RollBackToReread, IssueCommit, IssueReread, Enqueue, EnqueueFails, Compensate,
    ConfirmClaim, ConfirmLookup, ConfirmLink, ConfirmCommit, ConfirmRecheck, Abort, users

\* Keys that are being inserted stay free, and in the hands of one request.
LEMMA StepKeyLocks == TypeOK /\ Reference /\ KeyLocks /\ [Next]_vars => KeyLocks'
<1> SUFFICES ASSUME TypeOK, Reference, KeyLocks, [Next]_vars PROVE KeyLocks'
  OBVIOUS
<1> USE DEF users, rows, locals, world
<1>0. /\ pc \in [Requests -> Pc] /\ linked \in [Subjects -> Accounts \union {None}]
      /\ sub \in [Requests -> Subjects \union {None}]
      /\ account \in [Requests -> Accounts \union {None}]
  BY DEF TypeOK
\* Nobody holds a key that is waited for when the wait is over.
<1>w. ASSUME NEW r \in Requests, ~Waits(r)
      PROVE  /\ pc[r] \in {"createLink", "link"} => \A q \in Inserting \ {r} : sub[q] # sub[r]
             /\ pc[r] = "create" => \A q \in Creating \ {r} : account[q] # account[r]
  BY <1>w DEF Waits, WaitsFor, HoldsSubject, HoldsAddress, Inserting, Creating
\* A request that does not begin an insert, and commits none.
<1>1. ASSUME NEW r \in Requests, Others(r), r \notin Inserting' \union Creating',
             UNCHANGED <<registered, linked>>
      PROVE  KeyLocks'
  <2>1. /\ \A q \in Inserting' : q \in Inserting /\ q # r
        /\ \A q \in Creating' : q \in Creating /\ q # r
    BY <1>1 DEF Others, Inserting, Creating
  <2>2. QED
    BY <1>1, <2>1 DEF KeyLocks, Others, Inserting, Creating
\* A request that enters its row under the address, or under the subject.
<1>2. ASSUME NEW r \in Requests, CreateUser(r) PROVE KeyLocks'
  <2>1. /\ pc[r] = "create" /\ ~Waits(r) /\ account[r] \notin registered
        /\ pc' = [pc EXCEPT ![r] = "createLink"]
        /\ UNCHANGED <<sub, account, registered, linked>>
    BY <1>2 DEF CreateUser, Goto
  <2>2. Inserting' = Inserting /\ Creating' = Creating \union {r}
    BY <1>0, <2>1 DEF Inserting, Creating
  <2>3. \A q \in Creating \ {r} : account[q] # account[r]
    BY <1>w, <2>1
  <2>4. QED
    BY <2>1, <2>2, <2>3 DEF KeyLocks
<1>3. ASSUME NEW r \in Requests, CreateLink(r) \/ ConfirmLink(r), linked[sub[r]] = None PROVE KeyLocks'
  <2>1. /\ ~Waits(r) /\ UNCHANGED <<sub, account, registered, linked>>
        /\ \/ pc[r] = "createLink" /\ pc' = [pc EXCEPT ![r] = "createCommit"]
           \/ pc[r] = "link" /\ pc' = [pc EXCEPT ![r] = "linkCommit"]
    BY <1>3 DEF CreateLink, ConfirmLink
  <2>2. Inserting' = Inserting \union {r} /\ Creating' = Creating
    BY <1>0, <2>1 DEF Inserting, Creating
  <2>3. \A q \in Inserting \ {r} : sub[q] # sub[r]
    BY <1>w, <2>1
  <2>4. QED
    BY <1>3, <2>1, <2>2, <2>3 DEF KeyLocks
<1>4. ASSUME NEW r \in Requests, CreateLink(r) \/ ConfirmLink(r), linked[sub[r]] # None PROVE KeyLocks'
  <2>1. r \notin Inserting' \union Creating' /\ UNCHANGED <<registered, linked>>
    BY <1>0, <1>4, FinishEnds DEF CreateLink, ConfirmLink, Inserting, Creating
  <2>2. QED
    BY <1>1, <1>4, <2>1, RequestsMoveAlone DEF Moves, Serve
<1>5. ASSUME NEW r \in Requests, CreateAccountCommit(r) \/ ConfirmCommit(r) PROVE KeyLocks'
  <2>1. /\ Others(r) /\ pc'[r] = "idle"
        /\ linked' = [linked EXCEPT ![sub[r]] = account[r]]
    BY <1>5, FinishEnds DEF CreateAccountCommit, ConfirmCommit
  <2>2. r \in Inserting /\ (CreateAccountCommit(r) => r \in Creating)
    BY <1>5 DEF CreateAccountCommit, ConfirmCommit, Inserting, Creating
  <2>3. /\ \A q \in Inserting' : q \in Inserting /\ q # r /\ sub'[q] = sub[q]
        /\ \A q \in Creating' : q \in Creating /\ q # r /\ account'[q] = account[q]
    BY <2>1 DEF Others, Inserting, Creating
  <2>4. \A q \in Inserting \ {r} : sub[q] # sub[r] /\ sub[q] \in Subjects
    BY <2>2 DEF KeyLocks, Reference, Inserting
  <2>5. \A q \in Inserting' : linked'[sub'[q]] = None
    BY <1>0, <2>1, <2>3, <2>4 DEF KeyLocks
  <2>6. \A q \in Creating' : account'[q] \notin registered'
    <3>1. CASE CreateAccountCommit(r)
      <4>1. registered' = registered \union {account[r]}
        BY <3>1 DEF CreateAccountCommit
      <4>2. QED
        BY <2>2, <2>3, <3>1, <4>1 DEF KeyLocks
    <3>2. CASE ConfirmCommit(r)
      BY <2>3, <3>2 DEF KeyLocks, ConfirmCommit
    <3>3. QED
      BY <1>5, <3>1, <3>2
  <2>7. QED
    BY <2>3, <2>5, <2>6 DEF KeyLocks
<1>6. ASSUME NEW r \in Requests, Moves(r), ~CreateUser(r), ~CreateLink(r), ~ConfirmLink(r),
             ~CreateAccountCommit(r), ~ConfirmCommit(r)
      PROVE  KeyLocks'
  <2>1. r \notin Inserting' \union Creating'
    <3>1. CASE Finish(r)
      BY <3>1, FinishEnds DEF Inserting, Creating
    <3>2. CASE Arrive(r)
      BY <1>0, <3>2 DEF Arrive, Resolve, ConfirmFind, RemoveExpiredLinks, Goto, Inserting, Creating
    <3>3. CASE ResolveUnknown(r) \/ LinkToExisting(r) \/ IssueDeleteStart(r) \/ IssueDelete(r)
      BY <1>0, <3>3 DEF ResolveUnknown, LinkToExisting, IssueDeleteStart, IssueDelete, Goto,
        Inserting, Creating
    <3>4. CASE \/ IssueRead(r) /\ ~Finish(r)
               \/ IssueInsertSubject(r) \/ IssueInsertAccount(r)
               \/ IssueCommit(r) \/ EnqueueFails(r)
      BY <1>0, <3>4 DEF IssueRead, IssueInsertSubject, IssueInsertAccount, RollBackToReread,
        IssueCommit, EnqueueFails, Goto, Inserting, Creating
    <3>5. CASE \/ ConfirmClaim(r)
               \/ ConfirmLookup(r) /\ ~Finish(r)
               \/ DeleteExpired(r) /\ ~Finish(r)
      BY <1>0, <3>5 DEF ConfirmClaim, ConfirmLookup, DeleteExpired, Goto, Inserting, Creating
    <3>6. QED
      BY <1>6, <3>1, <3>2, <3>3, <3>4, <3>5 DEF Moves, Victim, Serve, RefuseUnverified,
        CreateUserTaken, IssueInsertFails, IssueReread, Enqueue, Compensate, ConfirmRecheck, Abort
  <2>2. QED
    BY <1>1, <1>6, <2>1, RequestsMoveAlone, OnlyCommitsLink
<1>7. ASSUME NEW a \in Accounts, Register(a) PROVE KeyLocks'
  <2>1. UNCHANGED locals /\ linked' = linked /\ registered' = registered \union {a}
    BY <1>7 DEF Register
  <2>2. \A r \in Creating : account[r] # a
    BY <1>7 DEF Register, HoldsAddress, Creating
  <2>3. QED
    BY <2>1, <2>2 DEF KeyLocks, Inserting, Creating
<1>8. ASSUME \/ Worker
             \/ \E i \in Ids : FailedJobExpires(i) \/ WorkerDies(i)
             \/ Tick \/ UNCHANGED vars
      PROVE  KeyLocks'
  <2>1. UNCHANGED locals /\ UNCHANGED <<registered, linked>>
    BY <1>8 DEF Worker, Skip, Deliver, Delivered, DeliveryFails, FailedJobExpires, WorkerDies, Tick,
      vars
  <2>2. QED
    BY <2>1 DEF KeyLocks, Inserting, Creating
<1>9. QED
  BY <1>2, <1>3, <1>4, <1>5, <1>6, <1>7, <1>8 DEF Next, Moves

\* Who is on a circle of waiting transactions holds something, and waits: whoever
\* inserts into AuthProvider waits for one that waits for nobody.
LEMMA CircleOfReplacements ==
  ASSUME RowLocks, NEW r \in Requests, OnCircle(r)
  PROVE  pc[r] \in {"clearing", "insert", "insertAccount", "sweeping"}
<1>1. PICK C \in SUBSET {q \in Requests : Waits(q)} :
        r \in C /\ \E next \in Bijection(C, C) : \A q \in C : WaitsFor(q, next[q])
  BY DEF OnCircle
<1>2. PICK next \in Bijection(C, C) : \A q \in C : WaitsFor(q, next[q])
  BY <1>1
<1>3. PICK p \in C : next[p] = r
  BY <1>1 DEF Bijection, Surjection
<1>4. next[r] \in C /\ C \subseteq Requests
  BY <1>1 DEF Bijection, Injection, IsInjective
\* Some other waits for r, ...
<1>5. pc[r] \in Deleting \union {"createLink", "createCommit"}
  <2>1. \/ removing[r] # {}
        \/ pc[r] \in {"createLink", "createCommit", "linkCommit", "insertAccount", "issueCommit"}
    BY <1>2, <1>3 DEF WaitsFor, HoldsAddress, HoldsSubject, HoldsOfferSubject, HoldsOfferAccount
  <2>2. QED
    BY <2>1 DEF RowLocks, Deleting
\* ... and r and the one it waits for wait.
<1>6. ASSUME NEW q \in C
      PROVE  pc[q] \in {"clearing", "sweeping", "claim", "compensate", "create", "createLink",
                         "link", "insert", "insertAccount"}
  BY <1>2, <1>4, <1>6 DEF WaitsFor, RowLocks
<1>7. pc[r] \notin {"createLink", "link"}
  <2>1. SUFFICES ASSUME pc[r] \in {"createLink", "link"} PROVE FALSE
    OBVIOUS
  <2>2. found[r] = {}
    BY <2>1 DEF RowLocks
  <2>3. HoldsSubject(next[r], sub[r])
    BY <1>1, <1>2, <2>1, <2>2 DEF WaitsFor
  <2>4. QED
    BY <1>4, <1>6, <2>3 DEF HoldsSubject
<1>8. QED
  BY <1>1, <1>5, <1>6, <1>7 DEF Deleting

----------------------------------------------------------------------------
(***************************************************************************)
(* Links.                                                                  *)
(***************************************************************************)

\* Without a commit, links stay; accounts may be registered.
LEMMA LinksRest ==
  ASSUME TypeOK, [Next]_vars, \A r \in Requests : ~CreateAccountCommit(r) /\ ~ConfirmCommit(r)
  PROVE  UNCHANGED <<linked, creator>>
<1>1. ASSUME NEW r \in Requests, Moves(r) PROVE UNCHANGED <<linked, creator>>
  BY <1>1, OnlyCommitsLink
<1>2. QED
  BY <1>1, RequestsRest DEF Next, Moves

\* A request that commits a link holds the key of its subject, which is free; the
\* account it creates is not there, and the one it confirms is its token's.
LEMMA CommitsAreDue ==
  ASSUME TypeOK, Allocation, Reference, Proof, RowLocks, KeyLocks, NEW r \in Requests
  PROVE  /\ CreateAccountCommit(r) =>
              /\ sub[r] \in Subjects /\ account[r] \in Accounts
              /\ linked[sub[r]] = None /\ account[r] \notin registered
         /\ ConfirmCommit(r) =>
              /\ sub[r] \in Subjects /\ account[r] \in registered
              /\ linked[sub[r]] = None
              /\ removing[r] = {id[r]} /\ id[r] \in pending /\ id[r] \in mailed
              /\ link[id[r]].sub = sub[r] /\ link[id[r]].account = account[r]
<1>1. CreateAccountCommit(r) =>
        /\ sub[r] \in Subjects /\ account[r] \in Accounts
        /\ linked[sub[r]] = None /\ account[r] \notin registered
  BY DEF CreateAccountCommit, Reference, KeyLocks, Inserting, Creating
<1>2. SUFFICES ASSUME ConfirmCommit(r)
               PROVE  /\ sub[r] \in Subjects /\ account[r] \in registered
                      /\ linked[sub[r]] = None
                      /\ removing[r] = {id[r]} /\ id[r] \in pending /\ id[r] \in mailed
                      /\ link[id[r]].sub = sub[r] /\ link[id[r]].account = account[r]
  BY <1>1
<1>3. pc[r] = "linkCommit"
  BY <1>2 DEF ConfirmCommit
<1>4. sub[r] \in Subjects /\ linked[sub[r]] = None
  BY <1>3 DEF Reference, KeyLocks, Inserting
<1>5. removing[r] = {id[r]} /\ id[r] \in pending
  BY <1>3 DEF RowLocks
<1>6. id[r] \in mailed /\ link[id[r]].sub = sub[r] /\ link[id[r]].account = account[r]
  BY <1>3 DEF Proof, Confirming
<1>7. account[r] \in registered
  BY <1>6 DEF Allocation, Reference
<1>8. QED
  BY <1>4, <1>5, <1>6, <1>7

\* Links stay to accounts that are there, proven, and those of accounts without a
\* password stay where they are.
LEMMA StepLinks ==
  /\ TypeOK /\ Allocation /\ Reference /\ Proof /\ RowLocks /\ KeyLocks
  /\ LinkedAreRegistered /\ PasswordlessAccountsReachable /\ LinksAreProven
  /\ [Next]_vars
  => LinkedAreRegistered' /\ PasswordlessAccountsReachable' /\ LinksAreProven'
<1> SUFFICES ASSUME TypeOK, Allocation, Reference, Proof, RowLocks, KeyLocks,
                    LinkedAreRegistered, PasswordlessAccountsReachable, LinksAreProven, [Next]_vars
             PROVE  LinkedAreRegistered' /\ PasswordlessAccountsReachable' /\ LinksAreProven'
  OBVIOUS
<1> USE DEF users, rows, locals, world
<1>0. /\ linked \in [Subjects -> Accounts \union {None}]
      /\ creator \in [Accounts -> Subjects \union {None}]
      /\ registered \subseteq Accounts
  BY DEF TypeOK
\* Mail that proves a link goes on proving it.
<1>1. \A i \in mailed : i \in mailed' /\ link'[i] = link[i]
  BY WorldGrows DEF Allocation
<1>2. registered \subseteq registered'
  BY WorldGrows
<1>3. ASSUME NEW r \in Requests, CreateAccountCommit(r)
      PROVE  LinkedAreRegistered' /\ PasswordlessAccountsReachable' /\ LinksAreProven'
  <2>1. /\ sub[r] \in Subjects /\ account[r] \in Accounts
        /\ linked[sub[r]] = None /\ account[r] \notin registered
    BY <1>3, CommitsAreDue
  <2>2. /\ account[r] \in registered'
        /\ linked'[sub[r]] = account[r] /\ creator'[account[r]] = sub[r]
        /\ \A s \in Subjects \ {sub[r]} : linked'[s] = linked[s]
        /\ \A a \in Accounts \ {account[r]} : creator'[a] = creator[a]
    BY <1>0, <1>3, <2>1 DEF CreateAccountCommit
  <2>3. LinkedAreRegistered'
    BY <1>2, <2>2 DEF LinkedAreRegistered
  <2>4. PasswordlessAccountsReachable'
    <3>1. SUFFICES ASSUME NEW a \in Accounts, creator'[a] # None
                   PROVE  a \in registered' /\ linked'[creator'[a]] = a
      BY DEF PasswordlessAccountsReachable
    <3>2. CASE a = account[r]
      BY <2>2, <3>2
    <3>3. CASE a # account[r]
      <4>1. creator'[a] = creator[a] /\ creator[a] \in Subjects
        BY <1>0, <2>2, <3>1, <3>3
      <4>2. a \in registered /\ linked[creator[a]] = a
        BY <3>1, <4>1 DEF PasswordlessAccountsReachable
      <4>3. creator[a] # sub[r]
        BY <2>1, <4>2
      <4>4. QED
        BY <1>2, <2>2, <4>1, <4>2, <4>3
    <3>4. QED
      BY <3>2, <3>3
  <2>5. LinksAreProven'
    <3>1. SUFFICES ASSUME NEW s \in Subjects, linked'[s] # None
                   PROVE  \/ creator'[linked'[s]] = s
                          \/ \E i \in mailed' : link'[i].sub = s /\ link'[i].account = linked'[s]
      BY DEF LinksAreProven
    <3>2. CASE s = sub[r]
      BY <2>2, <3>2
    <3>3. CASE s # sub[r]
      <4>1. linked'[s] = linked[s] /\ linked[s] \in registered
        BY <2>2, <3>1, <3>3 DEF LinkedAreRegistered
      <4>2. creator'[linked[s]] = creator[linked[s]]
        BY <1>0, <2>1, <2>2, <4>1
      <4>3. QED
        BY <1>1, <3>1, <4>1, <4>2 DEF LinksAreProven
    <3>4. QED
      BY <3>2, <3>3
  <2>6. QED
    BY <2>3, <2>4, <2>5
<1>4. ASSUME NEW r \in Requests, ConfirmCommit(r)
      PROVE  LinkedAreRegistered' /\ PasswordlessAccountsReachable' /\ LinksAreProven'
  <2>1. /\ sub[r] \in Subjects /\ account[r] \in registered
        /\ linked[sub[r]] = None
        /\ id[r] \in mailed /\ link[id[r]].sub = sub[r] /\ link[id[r]].account = account[r]
    BY <1>4, CommitsAreDue
  <2>2. /\ linked'[sub[r]] = account[r] /\ creator' = creator /\ registered' = registered
        /\ \A s \in Subjects \ {sub[r]} : linked'[s] = linked[s]
    BY <1>0, <1>4, <2>1 DEF ConfirmCommit
  <2>3. LinkedAreRegistered'
    BY <2>1, <2>2 DEF LinkedAreRegistered
  <2>4. PasswordlessAccountsReachable'
    <3>1. SUFFICES ASSUME NEW a \in Accounts, creator[a] # None
                   PROVE  a \in registered /\ linked'[creator[a]] = a
      BY <2>2 DEF PasswordlessAccountsReachable
    <3>2. creator[a] \in Subjects /\ a \in registered /\ linked[creator[a]] = a
      BY <1>0, <3>1 DEF PasswordlessAccountsReachable
    <3>3. creator[a] # sub[r]
      BY <2>1, <3>2
    <3>4. QED
      BY <2>2, <3>2, <3>3
  <2>5. LinksAreProven'
    <3>1. SUFFICES ASSUME NEW s \in Subjects, linked'[s] # None
                   PROVE  \/ creator[linked'[s]] = s
                          \/ \E i \in mailed' : link'[i].sub = s /\ link'[i].account = linked'[s]
      BY <2>2 DEF LinksAreProven
    <3>2. CASE s = sub[r]
      BY <1>1, <2>1, <2>2, <3>2
    <3>3. CASE s # sub[r]
      BY <1>1, <2>2, <3>1, <3>3 DEF LinksAreProven
    <3>4. QED
      BY <3>2, <3>3
  <2>6. QED
    BY <2>3, <2>4, <2>5
<1>5. ASSUME \A r \in Requests : ~CreateAccountCommit(r) /\ ~ConfirmCommit(r)
      PROVE  LinkedAreRegistered' /\ PasswordlessAccountsReachable' /\ LinksAreProven'
  <2>1. UNCHANGED <<linked, creator>>
    BY <1>5, LinksRest
  <2>2. QED
    BY <1>1, <1>2, <2>1 DEF LinkedAreRegistered, PasswordlessAccountsReachable, LinksAreProven
<1>6. QED
  BY <1>3, <1>4, <1>5

\* A link that appears is the new account's, or goes with a token for its pair.
LEMMA StepConsumesToken ==
  /\ TypeOK /\ Allocation /\ Reference /\ Proof /\ RowLocks /\ KeyLocks /\ [Next]_vars
  => [ConsumesToken]_vars
<1> SUFFICES ASSUME TypeOK, Allocation, Reference, Proof, RowLocks, KeyLocks, [Next]_vars,
                    NEW s \in Subjects, linked'[s] # linked[s]
             PROVE  /\ linked[s] = None
                    /\ \/ linked'[s] \notin registered
                       \/ \E i \in pending \ pending' : link[i].sub = s /\ link[i].account = linked'[s]
  BY DEF ConsumesToken
<1>0. linked \in [Subjects -> Accounts \union {None}]
  BY DEF TypeOK
<1>1. PICK r \in Requests : CreateAccountCommit(r) \/ ConfirmCommit(r)
  BY LinksRest
<1>2. linked' = [linked EXCEPT ![sub[r]] = account[r]]
  BY <1>1 DEF CreateAccountCommit, ConfirmCommit
<1>3. s = sub[r] /\ linked'[s] = account[r]
  BY <1>0, <1>2
<1>4. CASE CreateAccountCommit(r)
  BY <1>3, <1>4, CommitsAreDue
<1>5. CASE ConfirmCommit(r)
  <2>1. id[r] \in pending \ pending'
    BY <1>5, CommitsAreDue DEF ConfirmCommit
  <2>2. QED
    BY <1>3, <1>5, <2>1, CommitsAreDue
<1>6. QED
  BY <1>1, <1>4, <1>5

----------------------------------------------------------------------------
(***************************************************************************)
(* Tokens on their way.                                                    *)
(***************************************************************************)

\* Time does not go back, deaths are counted, and a row appears only by the commit
\* of the request that inserted it.
LEMMA PendingMoves ==
  ASSUME TypeOK, [Next]_vars
  PROVE  /\ now' = now \/ now' = now + 1
         /\ crashes' = crashes \/ crashes' = crashes + 1
         /\ pending' \subseteq pending \/ \E r \in Requests : IssueCommit(r)
<1> USE DEF users, rows, locals, world
<1>1. ASSUME NEW r \in Requests, Arrive(r) \/ Serve(r) \/ Victim(r)
      PROVE  /\ UNCHANGED <<now, crashes>>
             /\ pending' \subseteq pending \/ IssueCommit(r)
  BY <1>1 DEF Moves, Arrive, Resolve, ConfirmFind, RemoveExpiredLinks, Victim, Serve,
    ResolveUnknown, RefuseUnverified, LinkToExisting, CreateUser, CreateUserTaken, CreateLink,
    CreateAccountCommit, DeleteExpired, IssueRead, IssueDeleteStart, IssueDelete,
    IssueInsertSubject, IssueInsertAccount, IssueInsertFails, RollBackToReread, IssueReread,
    Enqueue, EnqueueFails, Compensate, ConfirmClaim, ConfirmLookup, ConfirmLink, ConfirmCommit,
    ConfirmRecheck, IssueCommit
<1>2. ASSUME NEW r \in Requests, Abort(r)
      PROVE  now' = now /\ crashes' = crashes + 1 /\ pending' = pending
  BY <1>2 DEF Abort
<1>3. ASSUME NEW i \in Ids, \/ Skip(i) \/ Deliver(i) \/ Delivered(i) \/ DeliveryFails(i)
                            \/ FailedJobExpires(i) \/ WorkerDies(i)
      PROVE  now' = now /\ pending' = pending /\ (crashes' = crashes \/ crashes' = crashes + 1)
  BY <1>3 DEF Skip, Deliver, Delivered, DeliveryFails, FailedJobExpires, WorkerDies
<1>4. ASSUME \/ \E a \in Accounts : Register(a)
             \/ Tick \/ UNCHANGED vars
      PROVE  (now' = now \/ now' = now + 1) /\ crashes' = crashes /\ pending' \subseteq pending
  BY <1>4 DEF Register, Tick, vars
<1>5. QED
  BY <1>1, <1>2, <1>3, <1>4 DEF Next, Worker

\* A job is gone only when its mail is out or its token has expired.
LEMMA JobsEndRightly ==
  ASSUME TypeOK, Reference, [Next]_vars, NEW i \in Ids, jobs[i].state # Free, ~Expired(i)
  PROVE  i \in mailed' \/ jobs'[i].state # Free
<1> USE DEF users, rows, locals, world
<1>0. jobs \in [Ids -> Job]
  BY DEF TypeOK
<1>1. ASSUME NEW r \in Requests, Enqueue(r) \/ EnqueueFails(r) PROVE jobs'[i].state # Free
  <2>1. id[r] \in Ids
    BY <1>1 DEF Reference, Enqueue, EnqueueFails, Goto
  <2>2. jobs' = jobs \/ jobs' = [jobs EXCEPT ![id[r]] =
                                  [state |-> "waiting", data |-> "confirmation", attemptsMade |-> 0]]
    BY <1>1 DEF Enqueue, EnqueueFails, Added, NoJob
  <2>3. QED
    BY <1>0, <2>1, <2>2 DEF Free
<1>2. ASSUME NEW r \in Requests, Moves(r), ~Enqueue(r), ~EnqueueFails(r)
      PROVE  UNCHANGED jobs
  BY <1>2 DEF Moves, Arrive, Resolve, ConfirmFind, RemoveExpiredLinks, Victim, Serve,
    ResolveUnknown, RefuseUnverified, LinkToExisting, CreateUser, CreateUserTaken, CreateLink,
    CreateAccountCommit, DeleteExpired, IssueRead, IssueDeleteStart, IssueDelete,
    IssueInsertSubject, IssueInsertAccount, IssueInsertFails, RollBackToReread, IssueCommit,
    IssueReread, Compensate, ConfirmClaim, ConfirmLookup, ConfirmLink, ConfirmCommit,
    ConfirmRecheck, Abort
<1>3. ASSUME NEW j \in Ids, Skip(j) \/ FailedJobExpires(j) PROVE jobs'[i].state # Free
  BY <1>0, <1>3 DEF Skip, FailedJobExpires, Forget
<1>4. ASSUME NEW j \in Ids, Delivered(j) PROVE i \in mailed' \/ jobs'[i].state # Free
  BY <1>0, <1>4 DEF Delivered, Send
<1>5. ASSUME NEW j \in Ids, Deliver(j) PROVE jobs'[i].state # Free
  BY <1>0, <1>5 DEF Deliver, Take, Free, Job
<1>6. ASSUME NEW j \in Ids, DeliveryFails(j) PROVE jobs'[i].state # Free
  <2> DEFINE made == jobs[j].attemptsMade + 1
  <2>1. jobs' = [jobs EXCEPT ![j] = [state |-> IF made < Attempts THEN "waiting" ELSE "failed",
                                     data |-> jobs[j].data, attemptsMade |-> made]]
    BY <1>0, <1>6 DEF DeliveryFails, SendFails, Job
  <2>2. QED
    BY <1>0, <2>1 DEF Free
<1>7. ASSUME NEW j \in Ids, WorkerDies(j) PROVE jobs'[i].state # Free
  BY <1>0, <1>7 DEF WorkerDies, Stalled, Free, Job
<1>8. ASSUME \/ \E a \in Accounts : Register(a)
             \/ Tick \/ UNCHANGED vars
      PROVE  UNCHANGED jobs
  BY <1>8 DEF Register, Tick, vars
<1>9. QED
  BY <1>1, <1>2, <1>3, <1>4, <1>5, <1>6, <1>7, <1>8 DEF Next, Moves, Worker

\* A request that is about to queue the job, or to take the row back, goes on doing so
\* until it has, unless it dies.
LEMMA IssuersFinish ==
  ASSUME TypeOK, Reference, RowLocks, [Next]_vars, NEW r \in Requests, pc[r] \in {"enqueue", "compensate"}
  PROVE  \/ pc'[r] \in {"enqueue", "compensate"} /\ id'[r] = id[r]
         \/ jobs'[id[r]].state # Free
         \/ id[r] \notin pending'
         \/ crashes' = crashes + 1
<1> USE DEF users, rows, locals, world
<1>1. CASE \E q \in Requests \ {r} : Moves(q)
  BY <1>1, RequestsMoveAlone DEF Others
<1>2. CASE Moves(r)
  <2>1. CASE Enqueue(r)
    <3>1. id[r] \in Ids /\ jobs \in [Ids -> Job]
      BY <2>1 DEF Enqueue, Reference, TypeOK
    <3>2. jobs'[id[r]].state # Free
      BY <2>1, <3>1 DEF Enqueue, Added, NoJob, Free
    <3>3. QED
      BY <3>2
  <2>2. CASE EnqueueFails(r)
    BY <2>2 DEF EnqueueFails, Goto, TypeOK
  <2>3. CASE Compensate(r)
    BY <2>3 DEF Compensate
  <2>4. CASE Abort(r)
    BY <2>4 DEF Abort
  <2>5. CASE Victim(r)
    BY <2>5, CircleOfReplacements DEF Victim
  <2>6. QED
    BY <1>2, <2>1, <2>2, <2>3, <2>4, <2>5 DEF Moves, Arrive, Resolve, ConfirmFind,
      RemoveExpiredLinks, Serve, ResolveUnknown, RefuseUnverified, LinkToExisting, CreateUser,
      CreateUserTaken, CreateLink, CreateAccountCommit, DeleteExpired, IssueRead, IssueDeleteStart,
      IssueDelete, IssueInsertSubject, IssueInsertAccount, IssueInsertFails, RollBackToReread,
      IssueCommit, IssueReread, ConfirmClaim, ConfirmLookup, ConfirmLink, ConfirmCommit,
      ConfirmRecheck, Goto
<1>3. CASE \/ \E a \in Accounts : Register(a)
           \/ Worker
           \/ \E i \in Ids : FailedJobExpires(i) \/ WorkerDies(i)
           \/ Tick \/ UNCHANGED vars
  BY <1>3, RequestsRest
<1>4. QED
  BY <1>1, <1>2, <1>3 DEF Next, Moves

\* No token is lost on its way.
LEMMA StepPendingIsMailed ==
  TypeOK /\ Allocation /\ Reference /\ RowLocks /\ PendingIsMailed /\ [Next]_vars => PendingIsMailed'
<1> SUFFICES ASSUME TypeOK, Allocation, Reference, RowLocks, PendingIsMailed, [Next]_vars,
                    crashes' = 0, NEW i \in pending', now' < Expires(i)'
             PROVE  \/ i \in mailed'
                    \/ jobs'[i].state # Free
                    \/ \E r \in Requests : pc'[r] \in {"enqueue", "compensate"} /\ id'[r] = i
  BY DEF PendingIsMailed
<1>0. /\ now \in Nat /\ crashes \in Nat /\ LinkTtl \in Nat
      /\ link \in [Ids -> Link] /\ pending \subseteq Ids /\ nextId \in Nat
  BY DEF TypeOK
<1>1. crashes = 0
  BY <1>0, PendingMoves
<1>2. CASE i \in pending
  <2>1. link'[i] = link[i] /\ link[i].createdAt \in Nat
    BY <1>0, <1>2, WorldGrows DEF Allocation, Link
  <2>2. now < Expires(i)
    BY <1>0, <2>1, PendingMoves DEF Expires
  <2>3. ~Expired(i)
    BY <1>0, <2>1, <2>2 DEF Expired, Expires
  <2>4. \/ i \in mailed
        \/ jobs[i].state # Free
        \/ \E r \in Requests : pc[r] \in {"enqueue", "compensate"} /\ id[r] = i
    BY <1>1, <1>2, <2>2 DEF PendingIsMailed
  <2>5. CASE i \in mailed
    BY <2>5, WorldGrows
  <2>6. CASE jobs[i].state # Free
    BY <1>0, <1>2, <2>3, <2>6, JobsEndRightly
  <2>7. ASSUME NEW r \in Requests, pc[r] \in {"enqueue", "compensate"}, id[r] = i
        PROVE  jobs'[i].state # Free \/ (pc'[r] \in {"enqueue", "compensate"} /\ id'[r] = i)
    BY <1>0, <1>1, <2>7, IssuersFinish
  <2>8. QED
    BY <2>4, <2>5, <2>6, <2>7
<1>3. CASE i \notin pending
  <2>1. PICK r \in Requests : IssueCommit(r)
    BY <1>3, PendingMoves
  <2>2. i = id[r]
    BY <1>3, <2>1 DEF IssueCommit
  <2>3. pc'[r] = "enqueue" /\ id'[r] = i
    BY <2>1, <2>2 DEF IssueCommit, Goto, TypeOK
  <2>4. QED
    BY <2>3
<1>4. QED
  BY <1>2, <1>3

----------------------------------------------------------------------------
(***************************************************************************)
(* Keys.                                                                   *)
(***************************************************************************)

\* A request looks for rows to replace, deletes, inserts, commits or queues.
Issues(r) ==
  \/ IssueDeleteStart(r) \/ IssueDelete(r) \/ IssueInsertSubject(r) \/ IssueInsertAccount(r)
  \/ IssueCommit(r) \/ Enqueue(r) \/ EnqueueFails(r)

\* Any other step brings no row, no mail and no job, and does not begin to.
LEMMA OtherServing ==
  ASSUME TypeOK, NEW r \in Requests, Moves(r), ~Issues(r)
  PROVE  /\ pc'[r] \notin {"clearing", "insert", "insertAccount", "issueCommit", "enqueue", "compensate"}
         /\ pending' \subseteq pending
         /\ UNCHANGED <<link, nextId, jobs, mailed>>
<1> USE DEF users, rows, locals, world, Issues
<1>0. pc \in [Requests -> Pc]
  BY DEF TypeOK
<1>1. CASE Finish(r)
  <2>1. pc'[r] = "idle"
    BY <1>1, FinishEnds
  <2>2. pending' \subseteq pending /\ UNCHANGED <<link, nextId, jobs, mailed>>
    BY DEF Moves, Arrive, Resolve, ConfirmFind, RemoveExpiredLinks, Victim, Serve, ResolveUnknown,
      RefuseUnverified, LinkToExisting, CreateUser, CreateUserTaken, CreateLink,
      CreateAccountCommit, DeleteExpired, IssueRead, IssueInsertFails, IssueReread, Compensate,
      ConfirmClaim, ConfirmLookup, ConfirmLink, ConfirmCommit, ConfirmRecheck, Abort
  <2>3. QED
    BY <2>1, <2>2
<1>2. CASE ~Finish(r)
  <2>1. CASE Arrive(r)
    BY <1>0, <2>1 DEF Arrive, Resolve, ConfirmFind, RemoveExpiredLinks, Goto
  <2>2. CASE ResolveUnknown(r) \/ LinkToExisting(r) \/ CreateUser(r)
    BY <1>0, <2>2 DEF ResolveUnknown, LinkToExisting, CreateUser, Goto
  <2>3. CASE CreateLink(r) \/ IssueRead(r) \/ ConfirmLookup(r) \/ DeleteExpired(r)
    BY <1>0, <1>2, <2>3 DEF CreateLink, IssueRead, ConfirmLookup, DeleteExpired
  <2>4. CASE ConfirmClaim(r) \/ ConfirmLink(r)
    BY <1>0, <2>4 DEF ConfirmClaim, ConfirmLink, Goto
  <2>5. QED
    BY <1>2, <2>1, <2>2, <2>3, <2>4 DEF Moves, Victim, Serve, RefuseUnverified, CreateUserTaken,
      CreateAccountCommit, IssueInsertFails, IssueReread, Compensate, ConfirmCommit, ConfirmRecheck,
      Abort
<1>3. QED
  BY <1>1, <1>2

\* Registration, the worker and the clock bring no row, and mail and jobs
\* only where a job was.
LEMMA OthersBringNoRow ==
  ASSUME TypeOK,
         \/ \E a \in Accounts : Register(a)
         \/ Worker
         \/ \E i \in Ids : FailedJobExpires(i) \/ WorkerDies(i)
         \/ Tick \/ UNCHANGED vars
  PROVE  /\ UNCHANGED locals /\ UNCHANGED <<link, nextId>>
         /\ pending' \subseteq pending
         /\ \A i \in Ids : jobs'[i].state # Free => jobs[i].state # Free
         /\ \A i \in mailed' : i \in mailed \/ jobs[i].state # Free
<1> USE DEF users, rows, world
<1>1. ASSUME NEW i \in Ids, \/ Skip(i) \/ Deliver(i) \/ Delivered(i) \/ DeliveryFails(i)
                            \/ FailedJobExpires(i) \/ WorkerDies(i)
      PROVE  /\ pending' = pending
             /\ \A j \in Ids : jobs'[j].state # Free => jobs[j].state # Free
             /\ \A j \in mailed' : j \in mailed \/ jobs[j].state # Free
  <2>1. /\ pending' = pending /\ jobs[i].state # Free
        /\ mailed' \subseteq mailed \union {i}
    BY <1>1 DEF Skip, Deliver, Delivered, DeliveryFails, FailedJobExpires, WorkerDies, Take, Send,
      SendFails, Forget, Free
  <2>2. \A j \in Ids : jobs'[j].state # Free => jobs[j].state # Free
    BY <1>1 DEF Skip, Deliver, Delivered, DeliveryFails, FailedJobExpires, WorkerDies, Take, Send,
      SendFails, Forget, Stalled, NoJob, Free, TypeOK, Job
  <2>3. QED
    BY <2>1, <2>2
<1>2. ASSUME \/ \E a \in Accounts : Register(a)
             \/ Tick \/ UNCHANGED vars
      PROVE  pending' \subseteq pending /\ UNCHANGED <<jobs, mailed>>
  BY <1>2 DEF Register, Tick, vars
<1>3. QED
  BY <1>1, <1>2, RequestsRest DEF Worker

\* A row that is inserted is a new one, about what its request is about.
LEMMA InsertedRow ==
  ASSUME TypeOK, Allocation, HalfInserted, NEW r \in Requests, IssueInsertAccount(r),
         pc'[r] = "issueCommit"
  PROVE  /\ nextId \in Ids /\ id'[r] = nextId /\ link'[nextId] = NewLink(r)
         /\ \A i \in Ids \ {nextId} : link'[i] = link[i]
         /\ Matching(r) \subseteq removing[r]
         /\ UNCHANGED <<sub, account, removing, pending, mailed, jobs>>
<1>1. pc \in [Requests -> Pc] /\ id \in [Requests -> Ids \union {0}] /\ link \in [Ids -> Link]
  BY DEF TypeOK
<1>2. ~OfferAccountTaken(r) /\ ~OfferSubjectTaken(r)
  BY <1>1 DEF IssueInsertAccount, RollBackToReread, HalfInserted
<1>3. Matching(r) \subseteq removing[r]
  BY <1>2 DEF Matching, Matches, OfferAccountTaken, OfferSubjectTaken
<1>4. /\ IdsLeft /\ link' = [link EXCEPT ![nextId] = NewLink(r)] /\ id' = [id EXCEPT ![r] = nextId]
      /\ UNCHANGED <<sub, account, removing, pending, mailed, jobs>>
  BY <1>2 DEF IssueInsertAccount, world
<1>5. QED
  BY <1>1, <1>3, <1>4, AnIdIsLeft

\* Rows that were found, and those that are going to be replaced, stay about the
\* subject or the account of their request.
LEMMA StepReplacing == TypeOK /\ Allocation /\ RowLocks /\ Replacing /\ [Next]_vars => Replacing'
<1> SUFFICES ASSUME TypeOK, Allocation, RowLocks, Replacing, [Next]_vars PROVE Replacing'
  OBVIOUS
<1> DEFINE Good(r) == /\ pc[r] = "clearing" => \A i \in found[r] : i < nextId /\ Matches(i, r)
                      /\ pc[r] \in {"clearing", "insert", "insertAccount", "issueCommit"} =>
                           \A i \in removing[r] : Matches(i, r)
<1>0. /\ pc \in [Requests -> Pc] /\ found \in [Requests -> SUBSET Ids]
      /\ removing \in [Requests -> SUBSET Ids] /\ nextId \in Nat /\ pending \subseteq Ids
  BY DEF TypeOK
<1>1. \A r \in Requests : Good(r)
  BY DEF Replacing
\* What was inserted keeps its columns.
<1>2. /\ \A i \in Ids : i < nextId => link'[i] = link[i] /\ i < nextId'
      /\ \A i \in pending : i \in Ids /\ i < nextId
      /\ \A r \in Requests : removing[r] \subseteq pending
  <2>1. /\ nextId' = nextId \/ nextId' = nextId + 1
        /\ \A i \in 1 .. nextId - 1 : link'[i] = link[i]
    BY WorldGrows
  <2>2. \A i \in Ids : i < nextId => i \in 1 .. nextId - 1 /\ i < nextId'
    BY <1>0, <2>1
  <2>3. \A i \in pending : i \in Ids /\ i < nextId
    BY <1>0 DEF Allocation
  <2>4. QED
    BY <2>1, <2>2, <2>3 DEF RowLocks
\* The requests that do nothing.
<1>3. ASSUME NEW q \in Requests, pc'[q] = pc[q], sub'[q] = sub[q], account'[q] = account[q],
             found'[q] = found[q], removing'[q] = removing[q]
      PROVE  Good(q)'
  <2>1. pc[q] = "clearing" => \A i \in found[q] : i \in Ids /\ i < nextId /\ Matches(i, q)
    BY <1>0, <1>1
  <2>2. pc[q] \in {"clearing", "insert", "insertAccount", "issueCommit"} =>
          \A i \in removing[q] : i \in Ids /\ i < nextId /\ Matches(i, q)
    BY <1>1, <1>2
  <2>3. QED
    BY <1>2, <1>3, <2>1, <2>2 DEF Matches
<1>4. ASSUME NEW r \in Requests, Others(r), Good(r)' PROVE Replacing'
  <2>1. \A q \in Requests : Good(q)'
    BY <1>3, <1>4 DEF Others
  <2>2. QED
    BY <2>1 DEF Replacing
<1>5. ASSUME NEW r \in Requests, Moves(r) PROVE Replacing'
  <2>1. Others(r)
    BY <1>5, RequestsMoveAlone
  <2>2. CASE IssueDeleteStart(r)
    <3>1. /\ found'[r] = Matching(r) /\ pc[r] = "clear" /\ pc'[r] \in {"clearing", "insert"}
          /\ UNCHANGED <<link, sub, account, nextId, removing>>
      BY <1>0, <2>2 DEF IssueDeleteStart, Goto, rows
    <3>2. removing'[r] = {}
      BY <3>1 DEF RowLocks, Deleting
    <3>3. QED
      BY <1>2, <1>4, <2>1, <3>1, <3>2 DEF Matching, Matches
  <2>3. CASE IssueDelete(r)
    <3>1. /\ pc[r] = "clearing" /\ found'[r] \subseteq found[r]
          /\ removing'[r] \subseteq removing[r] \union found[r]
          /\ UNCHANGED <<link, sub, account, nextId>>
      BY <1>0, <2>3 DEF IssueDelete, rows
    <3>2. QED
      BY <1>1, <1>4, <2>1, <3>1 DEF Matches
  <2>4. CASE IssueInsertSubject(r) \/ IssueInsertAccount(r)
    <3>1. /\ pc[r] \in {"insert", "insertAccount"} /\ pc'[r] \in {"insertAccount", "issueCommit", "reread"}
          /\ removing'[r] \subseteq removing[r] /\ UNCHANGED <<sub, account>>
      BY <1>0, <2>4 DEF IssueInsertSubject, IssueInsertAccount, RollBackToReread
    <3>2. \A i \in removing[r] : Matches(i, r) /\ link'[i] = link[i]
      BY <1>1, <1>2, <3>1
    <3>3. QED
      BY <1>4, <2>1, <3>1, <3>2 DEF Matches
  <2>5. CASE IssueCommit(r) \/ Enqueue(r) \/ EnqueueFails(r)
    <3>1. pc'[r] \notin {"clearing", "insert", "insertAccount", "issueCommit"}
      BY <1>0, <2>5, FinishEnds DEF IssueCommit, Enqueue, EnqueueFails, Goto
    <3>2. QED
      BY <1>4, <2>1, <3>1
  <2>6. CASE ~Issues(r)
    <3>1. pc'[r] \notin {"clearing", "insert", "insertAccount", "issueCommit"}
      BY <1>5, <2>6, OtherServing
    <3>2. QED
      BY <1>4, <2>1, <3>1
  <2>7. QED
    BY <2>2, <2>3, <2>4, <2>5, <2>6 DEF Issues
<1>6. ASSUME \/ \E a \in Accounts : Register(a)
             \/ Worker
             \/ \E i \in Ids : FailedJobExpires(i) \/ WorkerDies(i)
             \/ Tick \/ UNCHANGED vars
      PROVE  Replacing'
  <2>1. UNCHANGED locals
    BY <1>6, RequestsRest
  <2>2. \A q \in Requests : Good(q)'
    BY <1>3, <2>1 DEF locals
  <2>3. QED
    BY <2>2 DEF Replacing
<1>7. QED
  BY <1>5, <1>6 DEF Next, Moves

\* A row that is inserted and not committed stays in the hands of its request.
LEMMA StepUncommitted ==
  TypeOK /\ Allocation /\ Reference /\ HalfInserted /\ Uncommitted /\ [Next]_vars => Uncommitted'
<1> SUFFICES ASSUME TypeOK, Allocation, Reference, HalfInserted, Uncommitted, [Next]_vars
             PROVE  Uncommitted'
  OBVIOUS
<1> DEFINE Holding == {"issueCommit", "enqueue", "compensate"}
<1>0. /\ pc \in [Requests -> Pc] /\ id \in [Requests -> Ids \union {0}] /\ nextId \in Nat
      /\ jobs \in [Ids -> Job] /\ pending \subseteq Ids /\ mailed \subseteq Ids
  BY DEF TypeOK
<1>1. \A r \in Requests : pc[r] \in Holding => id[r] \in Ids /\ id[r] < nextId
  BY DEF Reference, Allocation
<1>2. \A i \in Ids : i < nextId => link'[i] = link[i]
  <2>1. \A i \in Ids : i < nextId => i \in 1 .. nextId - 1
    BY <1>0
  <2>2. QED
    BY <2>1, WorldGrows
\* Rows that are held and were before, and are not touched.
<1>3. ASSUME \A q \in Requests : pc'[q] \in Holding =>
               pc[q] \in Holding /\ id'[q] = id[q] /\ (pc'[q] = "issueCommit" => pc[q] = "issueCommit"),
             \A q \in Requests : pc'[q] = "issueCommit" => sub'[q] = sub[q] /\ account'[q] = account[q],
             \A q \in Requests : pc'[q] = "issueCommit" =>
               id[q] \notin pending' \union mailed' /\ jobs'[id[q]].state = Free
      PROVE  Uncommitted'
  <2> SUFFICES ASSUME NEW r \in Requests, pc'[r] = "issueCommit"
               PROVE  /\ link'[id'[r]].sub = sub'[r] /\ link'[id'[r]].account = account'[r]
                      /\ id'[r] \notin pending' \union mailed' /\ jobs'[id'[r]].state = Free
                      /\ \A q \in Requests \ {r} : pc'[q] \in Holding => id'[q] # id'[r]
    BY DEF Uncommitted
  <2>1. pc[r] = "issueCommit" /\ id'[r] = id[r] /\ sub'[r] = sub[r] /\ account'[r] = account[r]
    BY <1>3
  <2>2. link'[id[r]] = link[id[r]]
    BY <1>1, <1>2, <2>1
  <2>3. link[id[r]].sub = sub[r] /\ link[id[r]].account = account[r]
    BY <2>1 DEF Uncommitted
  <2>4. \A q \in Requests \ {r} : pc[q] \in Holding => id[q] # id[r]
    BY <2>1 DEF Uncommitted
  <2>5. QED
    BY <1>3, <2>1, <2>2, <2>3, <2>4
<1>4. ASSUME NEW r \in Requests, Moves(r) PROVE Uncommitted'
  <2>1. Others(r)
    BY <1>4, RequestsMoveAlone
  <2>2. \A q \in Requests \ {r} :
          /\ pc'[q] = pc[q] /\ id'[q] = id[q] /\ sub'[q] = sub[q] /\ account'[q] = account[q]
    BY <2>1 DEF Others
  <2>3. \A q \in Requests : pc[q] = "issueCommit" =>
          id[q] \notin pending \union mailed /\ jobs[id[q]].state = Free
    BY DEF Uncommitted
  <2>4. CASE IssueInsertAccount(r) /\ pc'[r] = "issueCommit"
    <3>1. /\ nextId \in Ids /\ id'[r] = nextId /\ link'[nextId] = NewLink(r)
          /\ UNCHANGED <<sub, account, pending, mailed, jobs>>
      BY <2>4, InsertedRow
    <3>2. link'[nextId].sub = sub[r] /\ link'[nextId].account = account[r]
      BY <3>1 DEF NewLink
    <3>3. nextId \notin pending \union mailed /\ jobs[nextId].state = Free
      BY <1>0, <3>1 DEF Allocation
    <3>4. \A q \in Requests \ {r} : pc'[q] \in Holding => id'[q] # nextId
      BY <1>0, <1>1, <2>2
    <3>5. ASSUME NEW q \in Requests \ {r}, pc'[q] = "issueCommit"
          PROVE  /\ link'[id'[q]].sub = sub'[q] /\ link'[id'[q]].account = account'[q]
                 /\ \A p \in Requests \ {q} : pc'[p] \in Holding => id'[p] # id'[q]
      <4>1. pc[q] = "issueCommit" /\ id'[q] = id[q] /\ link'[id[q]] = link[id[q]]
        BY <1>1, <1>2, <2>2, <3>5
      <4>2. /\ link[id[q]].sub = sub[q] /\ link[id[q]].account = account[q]
            /\ \A p \in Requests \ {q} : pc[p] \in Holding => id[p] # id[q]
        BY <4>1 DEF Uncommitted
      <4>3. id[q] # nextId
        BY <3>4, <3>5, <4>1
      <4>4. QED
        BY <2>2, <3>1, <4>1, <4>2, <4>3
    <3>6. QED
      BY <2>2, <2>3, <3>1, <3>2, <3>3, <3>4, <3>5 DEF Uncommitted
  <2>5. CASE IssueInsertSubject(r) \/ (IssueInsertAccount(r) /\ pc'[r] # "issueCommit")
    <3>1. pc'[r] \in {"insertAccount", "reread"} /\ UNCHANGED <<pending, mailed, jobs>>
      BY <1>0, <2>5 DEF IssueInsertSubject, IssueInsertAccount, RollBackToReread, rows, world
    <3>2. QED
      BY <1>3, <2>2, <2>3, <3>1
  <2>6. CASE IssueCommit(r)
    <3>1. /\ pc[r] = "issueCommit" /\ pc'[r] = "enqueue" /\ id'[r] = id[r]
          /\ pending' \subseteq pending \union {id[r]} /\ UNCHANGED <<mailed, jobs>>
      BY <1>0, <2>6 DEF IssueCommit, Goto, world
    <3>2. \A q \in Requests \ {r} : pc[q] = "issueCommit" => id[q] # id[r]
      BY <3>1 DEF Uncommitted
    <3>3. QED
      BY <1>3, <2>2, <2>3, <3>1, <3>2
  <2>7. CASE Enqueue(r) \/ EnqueueFails(r)
    <3>1. /\ pc[r] = "enqueue" /\ pc'[r] \in {"idle", "compensate"} /\ UNCHANGED <<pending, mailed>>
          /\ pc'[r] = "compensate" => id'[r] = id[r]
          /\ jobs' \in {jobs, Added(id[r], "confirmation")}
      <4>1. CASE Enqueue(r)
        BY <4>1, FinishEnds DEF Enqueue, rows
      <4>2. CASE EnqueueFails(r)
        BY <1>0, <4>2 DEF EnqueueFails, Goto, rows
      <4>3. QED
        BY <2>7, <4>1, <4>2
    <3>2. \A q \in Requests \ {r} : pc[q] = "issueCommit" => id[q] # id[r] /\ id[q] \in Ids
      BY <1>1, <3>1 DEF Uncommitted
    <3>3. \A q \in Requests \ {r} : pc[q] = "issueCommit" => jobs'[id[q]] = jobs[id[q]]
      BY <1>0, <3>1, <3>2 DEF Added
    <3>4. QED
      BY <1>3, <2>2, <2>3, <3>1, <3>3
  <2>8. CASE IssueDeleteStart(r) \/ IssueDelete(r)
    <3>1. pc'[r] \in {"clearing", "insert"} /\ UNCHANGED <<pending, mailed, jobs>>
      BY <1>0, <2>8 DEF IssueDeleteStart, IssueDelete, Goto, rows, world
    <3>2. QED
      BY <1>3, <2>2, <2>3, <3>1
  <2>9. CASE ~Issues(r)
    <3>1. pc'[r] \notin Holding /\ pending' \subseteq pending /\ UNCHANGED <<mailed, jobs>>
      BY <1>4, <2>9, OtherServing
    <3>2. QED
      BY <1>3, <2>2, <2>3, <3>1
  <2>10. QED
    BY <2>4, <2>5, <2>6, <2>7, <2>8, <2>9 DEF Issues
<1>5. ASSUME \/ \E a \in Accounts : Register(a)
             \/ Worker
             \/ \E i \in Ids : FailedJobExpires(i) \/ WorkerDies(i)
             \/ Tick \/ UNCHANGED vars
      PROVE  Uncommitted'
  <2>1. /\ UNCHANGED locals /\ pending' \subseteq pending
        /\ \A i \in Ids : jobs'[i].state # Free => jobs[i].state # Free
        /\ \A i \in mailed' : i \in mailed \/ jobs[i].state # Free
    BY <1>5, OthersBringNoRow
  <2>2. \A q \in Requests : pc[q] = "issueCommit" =>
          id[q] \notin pending' \union mailed' /\ jobs'[id[q]].state = Free
    BY <1>1, <2>1 DEF Uncommitted
  <2>3. QED
    BY <1>3, <2>1, <2>2 DEF locals
<1>6. QED
  BY <1>4, <1>5 DEF Next, Moves

\* A row that is in one index only has that key to itself, and keeps it.
LEMMA StepHalfInserted ==
  TypeOK /\ Allocation /\ Uncommitted /\ HalfInserted /\ [Next]_vars => HalfInserted'
<1> SUFFICES ASSUME TypeOK, Allocation, Uncommitted, HalfInserted, [Next]_vars PROVE HalfInserted'
  OBVIOUS
<1> DEFINE Entered == {"insertAccount", "issueCommit"}
           Alone(r) == /\ \A i \in pending \ removing[r] : link[i].sub # sub[r]
                       /\ \A q \in Requests \ {r} : pc[q] \in Entered => sub[q] # sub[r]
<1>0. pc \in [Requests -> Pc] /\ nextId \in Nat /\ pending \subseteq Ids
  BY DEF TypeOK
<1>1. \A r \in Requests : pc[r] = "insertAccount" => Alone(r)
  BY DEF HalfInserted, OfferSubjectTaken
<1>2. ASSUME \A r \in Requests : pc'[r] = "insertAccount" => Alone(r)' PROVE HalfInserted'
  BY <1>2 DEF HalfInserted, OfferSubjectTaken
<1>3. \A i \in pending : link'[i] = link[i]
  BY WorldGrows DEF Allocation
<1> HIDE DEF Alone
\* Nobody enters a row into the index.
<1>4. ASSUME \A i \in pending' \ pending : \A q \in Requests : pc'[q] = "insertAccount" => link'[i].sub # sub[q],
             \A q \in Requests : pc'[q] = "insertAccount" => pc[q] = "insertAccount" /\ removing'[q] = removing[q],
             \A q \in Requests : pc'[q] \in Entered => pc[q] \in Entered /\ sub'[q] = sub[q]
      PROVE  HalfInserted'
  <2>1. SUFFICES ASSUME NEW r \in Requests, pc'[r] = "insertAccount" PROVE Alone(r)'
    BY <1>2
  <2>2. Alone(r) /\ removing'[r] = removing[r] /\ sub'[r] = sub[r]
    BY <1>1, <1>4, <2>1
  <2>3. QED
    BY <1>3, <1>4, <2>1, <2>2 DEF Alone
<1>5. ASSUME NEW r \in Requests, Moves(r) PROVE HalfInserted'
  <2>1. \A q \in Requests \ {r} :
          pc'[q] = pc[q] /\ sub'[q] = sub[q] /\ removing'[q] = removing[q]
    BY <1>5, RequestsMoveAlone DEF Others
  <2>2. CASE IssueInsertSubject(r) /\ ~OfferSubjectTaken(r)
    <3>1. /\ pc[r] = "insert" /\ ~Waits(r) /\ pc'[r] = "insertAccount"
          /\ UNCHANGED <<pending, link, sub, removing>>
      BY <1>0, <2>2 DEF IssueInsertSubject, rows
    <3>2. \A q \in Requests \ {r} : pc[q] \in Entered => sub[q] # sub[r]
      BY <3>1 DEF Waits, WaitsFor, HoldsOfferSubject
    <3>3. Alone(r)'
      BY <2>1, <2>2, <3>1, <3>2 DEF Alone, OfferSubjectTaken
    <3>4. ASSUME NEW q \in Requests \ {r}, pc'[q] = "insertAccount" PROVE Alone(q)'
      BY <1>1, <2>1, <3>1, <3>2, <3>4 DEF Alone
    <3>5. QED
      BY <1>2, <3>3, <3>4
  <2>3. CASE (IssueInsertSubject(r) /\ OfferSubjectTaken(r)) \/ IssueInsertAccount(r)
    <3>1. /\ pc'[r] \in {"issueCommit", "reread"} /\ UNCHANGED <<pending, sub>>
          /\ pc'[r] = "issueCommit" => pc[r] = "insertAccount"
      BY <1>0, <2>3 DEF IssueInsertSubject, IssueInsertAccount, RollBackToReread, rows
    <3>2. QED
      BY <1>4, <2>1, <3>1
  <2>4. CASE IssueCommit(r)
    <3>1. /\ pc[r] = "issueCommit" /\ pc'[r] = "enqueue" /\ link' = link
          /\ pending' \subseteq pending \union {id[r]}
      BY <1>0, <2>4 DEF IssueCommit, Goto
    <3>2. link[id[r]].sub = sub[r]
      BY <3>1 DEF Uncommitted
    <3>3. \A q \in Requests \ {r} : pc[q] = "insertAccount" => sub[q] # sub[r]
      BY <1>1, <3>1 DEF Alone
    <3>4. QED
      BY <1>4, <2>1, <3>1, <3>2, <3>3
  <2>5. CASE IssueDeleteStart(r) \/ IssueDelete(r) \/ Enqueue(r) \/ EnqueueFails(r)
    <3>1. pc'[r] \notin Entered /\ pending' = pending
      BY <1>0, <2>5, FinishEnds DEF IssueDeleteStart, IssueDelete, Enqueue, EnqueueFails, Goto, rows
    <3>2. QED
      BY <1>4, <2>1, <3>1
  <2>6. CASE ~Issues(r)
    <3>1. pc'[r] \notin Entered /\ pending' \subseteq pending
      BY <1>5, <2>6, OtherServing
    <3>2. QED
      BY <1>4, <2>1, <3>1
  <2>7. QED
    BY <2>2, <2>3, <2>4, <2>5, <2>6 DEF Issues
<1>6. ASSUME \/ \E a \in Accounts : Register(a)
             \/ Worker
             \/ \E i \in Ids : FailedJobExpires(i) \/ WorkerDies(i)
             \/ Tick \/ UNCHANGED vars
      PROVE  HalfInserted'
  BY <1>4, <1>6, OthersBringNoRow DEF locals
<1>7. QED
  BY <1>5, <1>6 DEF Next, Moves

\* The unique keys stay so.
LEMMA StepUniqueKeys ==
  /\ TypeOK /\ Allocation /\ Reference /\ RowLocks /\ Uncommitted /\ HalfInserted /\ UniqueKeys
  /\ [Next]_vars
  => UniqueKeys'
<1> SUFFICES ASSUME TypeOK, Allocation, Reference, RowLocks, Uncommitted, HalfInserted, UniqueKeys,
                    [Next]_vars
             PROVE  UniqueKeys'
  OBVIOUS
<1>0. /\ pc \in [Requests -> Pc] /\ id \in [Requests -> Ids \union {0}] /\ nextId \in Nat
      /\ removing \in [Requests -> SUBSET Ids] /\ pending \subseteq Ids
  BY DEF TypeOK
<1> DEFINE Old == {i \in Ids : i < nextId}
           Clash(i, j) == link'[i].sub = link'[j].sub \/ link'[i].account = link'[j].account
<1>1. /\ pending \subseteq Old
      /\ \A r \in Requests : pc[r] = "issueCommit" => id[r] \in Old
  BY <1>0 DEF Allocation, Reference
<1>2. \A i \in Old : link'[i] = link[i]
  <2>1. \A i \in Old : i \in 1 .. nextId - 1
    BY <1>0
  <2>2. QED
    BY <2>1, WorldGrows
<1>c. \A i, j \in Old : Clash(i, j) <=> SameKey(i, j)
  BY <1>2 DEF SameKey
<1>k. UniqueKeys' <=>
        /\ \A i, j \in pending' : Clash(i, j) => i = j
        /\ \A r \in Requests : pc'[r] = "issueCommit" =>
             /\ \A i \in pending' \ removing'[r] : ~Clash(i, id'[r])
             /\ \A q \in Requests \ {r} : pc'[q] = "issueCommit" => ~Clash(id'[q], id'[r])
  BY DEF UniqueKeys, SameKey
<1> HIDE DEF Old, Clash
\* No new row, committed or not, and what is being replaced is replaced.
<1>3. ASSUME pending' \subseteq pending,
             \A q \in Requests : pc'[q] = "issueCommit" =>
               pc[q] = "issueCommit" /\ id'[q] = id[q] /\ removing'[q] = removing[q]
      PROVE  UniqueKeys'
  <2>1. \A i, j \in pending' : Clash(i, j) => i = j
    BY <1>1, <1>c, <1>3 DEF UniqueKeys
  <2>2. ASSUME NEW r \in Requests, pc'[r] = "issueCommit"
        PROVE  /\ \A i \in pending' \ removing'[r] : ~Clash(i, id'[r])
               /\ \A q \in Requests \ {r} : pc'[q] = "issueCommit" => ~Clash(id'[q], id'[r])
    BY <1>1, <1>c, <1>3, <2>2 DEF UniqueKeys
  <2>3. QED
    BY <1>k, <2>1, <2>2
<1>4. ASSUME NEW r \in Requests, Moves(r) PROVE UniqueKeys'
  <2>1. \A q \in Requests \ {r} :
          /\ pc'[q] = pc[q] /\ id'[q] = id[q] /\ removing'[q] = removing[q]
    BY <1>4, RequestsMoveAlone DEF Others
  <2>2. CASE IssueInsertAccount(r) /\ pc'[r] = "issueCommit"
    <3>1. /\ id'[r] = nextId /\ link'[nextId] = NewLink(r)
          /\ Matching(r) \subseteq removing[r]
          /\ UNCHANGED <<removing, pending>>
      BY <2>2, InsertedRow
    <3>2. \A q \in Requests \ {r} : pc[q] = "issueCommit" => ~Matches(id[q], r)
      <4>1. pc[r] = "insertAccount" /\ ~Waits(r)
        BY <2>2 DEF IssueInsertAccount
      <4>2. ASSUME NEW q \in Requests \ {r}, pc[q] = "issueCommit" PROVE ~Matches(id[q], r)
        <5>1. link[id[q]].sub = sub[q] /\ link[id[q]].account = account[q]
          BY <4>2 DEF Uncommitted
        <5>2. sub[q] # sub[r]
          BY <4>1, <4>2 DEF HalfInserted
        <5>3. account[q] # account[r]
          BY <4>1, <4>2 DEF Waits, WaitsFor, HoldsOfferAccount
        <5>4. QED
          BY <5>1, <5>2, <5>3 DEF Matches
      <4>3. QED
        BY <4>2
    <3>3. \A i \in Old : /\ Clash(i, nextId) <=> Matches(i, r)
                         /\ Clash(nextId, i) <=> Matches(i, r)
      BY <1>2, <3>1 DEF Clash, Matches, NewLink
    <3>4. \A i \in pending \ removing[r] : ~Clash(i, nextId)
      BY <1>1, <3>1, <3>3 DEF Matching
    <3>5. \A q \in Requests \ {r} : pc[q] = "issueCommit" =>
            ~Clash(id[q], nextId) /\ ~Clash(nextId, id[q])
      BY <1>1, <3>2, <3>3
    <3>6. \A q \in Requests \ {r} : pc[q] = "issueCommit" =>
            /\ \A i \in pending \ removing[q] : ~Clash(i, id[q])
            /\ \A p \in Requests \ {q} : p # r /\ pc[p] = "issueCommit" => ~Clash(id[p], id[q])
      BY <1>1, <1>c DEF UniqueKeys
    <3>7. \A i, j \in pending : Clash(i, j) => i = j
      BY <1>1, <1>c DEF UniqueKeys
    <3>8. QED
      BY <1>k, <2>1, <3>1, <3>4, <3>5, <3>6, <3>7
  <2>3. CASE IssueInsertAccount(r) /\ pc'[r] # "issueCommit"
    <3>1. pending' = pending
      BY <2>3 DEF IssueInsertAccount
    <3>2. QED
      BY <1>3, <2>1, <2>3, <3>1
  <2>4. CASE IssueCommit(r)
    <3>1. /\ pc[r] = "issueCommit" /\ pc'[r] = "enqueue"
          /\ pending' = (pending \ removing[r]) \union {id[r]}
      BY <1>0, <2>4 DEF IssueCommit, Goto
    <3>2. /\ \A i \in pending \ removing[r] : ~SameKey(i, id[r])
          /\ \A i, j \in pending : SameKey(i, j) => i = j
      BY <3>1 DEF UniqueKeys
    <3>3. \A i, j \in pending' : SameKey(i, j) => i = j
      BY <3>1, <3>2 DEF SameKey
    <3>4. \A q \in Requests \ {r} : pc[q] = "issueCommit" =>
            /\ \A i \in pending' \ removing[q] : ~SameKey(i, id[q])
            /\ \A p \in Requests \ {q} : pc[p] = "issueCommit" => ~SameKey(id[p], id[q])
      BY <3>1 DEF UniqueKeys
    <3>5. pending' \subseteq Old
      BY <1>1, <3>1
    <3>6. QED
      BY <1>1, <1>c, <1>k, <2>1, <3>1, <3>3, <3>4, <3>5
  <2>5. CASE IssueDeleteStart(r) \/ IssueDelete(r) \/ IssueInsertSubject(r) \/ Enqueue(r) \/ EnqueueFails(r)
    <3>1. pc'[r] # "issueCommit" /\ pending' = pending
      BY <1>0, <2>5, FinishEnds DEF IssueDeleteStart, IssueDelete, IssueInsertSubject,
        RollBackToReread, Enqueue, EnqueueFails, Goto, rows
    <3>2. QED
      BY <1>3, <2>1, <3>1
  <2>6. CASE ~Issues(r)
    <3>1. pc'[r] # "issueCommit" /\ pending' \subseteq pending
      BY <1>4, <2>6, OtherServing
    <3>2. QED
      BY <1>3, <2>1, <3>1
  <2>7. QED
    BY <2>2, <2>3, <2>4, <2>5, <2>6 DEF Issues
<1>5. ASSUME \/ \E a \in Accounts : Register(a)
             \/ Worker
             \/ \E i \in Ids : FailedJobExpires(i) \/ WorkerDies(i)
             \/ Tick \/ UNCHANGED vars
      PROVE  UniqueKeys'
  BY <1>3, <1>5, OthersBringNoRow DEF locals
<1>6. QED
  BY <1>4, <1>5 DEF Next, Moves

----------------------------------------------------------------------------
(***************************************************************************)
(* Theorems.                                                               *)
(***************************************************************************)

\* The parts of the invariant hold together after every step.
LEMMA StepInv == IInv /\ [Next]_vars => IInv'
  BY StepTyped, StepAttemptLeft, StepAllocation, StepReference, StepProof, StepRowLocks,
    StepKeyLocks, StepReplacing, StepUncommitted, StepHalfInserted, StepUniqueKeys, StepLinks,
    StepPendingIsMailed DEF IInv

\* The inductive invariant holds, for any subjects, accounts, requests and bounds.
THEOREM Invariant == Spec => []IInv
  BY InitInv, StepInv, PTL DEF Spec

\* Every variable stays in its range.
THEOREM TypeCorrect == Spec => []TypeOK
<1>1. IInv => TypeOK
  BY DEF IInv
<1>2. QED
  BY <1>1, Invariant, PTL

\* Nobody gets into an account that is not theirs (AccountResolverService,
\* ProviderLinkService): a linked subject is the one the account was created for,
\* or a token for this very pair was mailed to the account's address.
THEOREM LinksAreAlwaysProven == Spec => []LinksAreProven
<1>1. IInv => LinksAreProven
  BY DEF IInv
<1>2. QED
  BY <1>1, Invariant, PTL

\* Nobody is locked out of an account without a password (createAccount): the
\* subject it was created for stays linked to it.
THEOREM PasswordlessStayReachable == Spec => []PasswordlessAccountsReachable
<1>1. IInv => PasswordlessAccountsReachable
  BY DEF IInv
<1>2. QED
  BY <1>1, Invariant, PTL

\* A row that can be confirmed is one whose token is mailed or on its way, unless a
\* request died (ProviderLinkService.issueAndSend and the email queue).
THEOREM NoTokenIsLost == Spec => []PendingIsMailed
<1>1. IInv => PendingIsMailed
  BY DEF IInv
<1>2. QED
  BY <1>1, Invariant, PTL

\* Transactions can wait in a circle (PendingProviderLinkRepository.issue deletes by
\* two keys and inserts under two; deleteExpired deletes many rows), but only such
\* transactions: a sign-up, a confirmation and a compensation are never its victim.
THEOREM OnlyReplacementsAreVictims == Spec => []OnlyReplacementsDeadlock
<1>1. IInv => OnlyReplacementsDeadlock
  BY CircleOfReplacements DEF IInv, OnlyReplacementsDeadlock
<1>2. QED
  BY <1>1, Invariant, PTL

\* A token works once, and only with the link it was issued for
\* (PendingProviderLinkRepository.confirm).
THEOREM TokensAreConsumed == Spec => LinkConsumesToken
<1>1. IInv /\ [Next]_vars => [ConsumesToken]_vars
  BY StepConsumesToken DEF IInv
<1>2. QED
  BY <1>1, Invariant, PTL DEF Spec, LinkConsumesToken

----------------------------------------------------------------------------
(***************************************************************************)
(* The offers behind the rows (LinkOffers).                                *)
(***************************************************************************)
offers == {OfferOf(i) : i \in pending}
underway == {OfferOf(i) : i \in Underway}
delivered == {OfferOf(i) : i \in mailed}

\* An offer is told by its token.
LEMMA OffersAreNamed == \A i, j : OfferOf(i) = OfferOf(j) => i = j
<1> SUFFICES ASSUME NEW i, NEW j, OfferOf(i) = OfferOf(j) PROVE i = j
  OBVIOUS
<1>1. OfferOf(i).token = i /\ OfferOf(j).token = j
  BY DEF OfferOf
<1>2. QED
  BY <1>1

\* Rows, jobs and mails are about offers that can be made, and a step leaves what an
\* offer is about alone.
LEMMA OffersAreKept ==
  ASSUME TypeOK, Allocation, Reference
  PROVE  /\ pending \union mailed \union Underway \subseteq 1 .. nextId - 1
         /\ \A i \in 1 .. nextId - 1 : i \in Ids /\ OfferOf(i) \in Offers!Offer
         /\ [Next]_vars => \A i \in 1 .. nextId - 1 : OfferOf(i)' = OfferOf(i)
<1>0. nextId \in 1 .. MaxLinks + 1 /\ registered \subseteq Accounts
  BY DEF TypeOK
<1>1. Underway \subseteq 1 .. nextId - 1
  <2>1. \A i \in Underway : i \in Ids /\ i < nextId
    BY DEF Underway, Allocation
  <2>2. QED
    BY <1>0, <2>1
<1>2. \A i \in 1 .. nextId - 1 : i \in Ids /\ OfferOf(i) \in Offers!Offer
  <2>1. \A i \in 1 .. nextId - 1 : i \in Ids
    BY <1>0
  <2>2. \A i \in 1 .. nextId - 1 : link[i].sub \in Subjects /\ link[i].account \in Accounts
    BY <1>0 DEF Reference
  <2>3. QED
    BY <2>1, <2>2 DEF Offers!Offer, OfferOf
<1>3. [Next]_vars => \A i \in 1 .. nextId - 1 : OfferOf(i)' = OfferOf(i)
  BY WorldGrows DEF OfferOf
<1>4. QED
  BY <1>1, <1>2, <1>3 DEF Allocation

\* A request that comes to queue no job, and leaves the jobs, adds no mail to come.
LEMMA UnderwayShrinks ==
  ASSUME NEW r \in Requests, Others(r), UNCHANGED jobs,
         pc'[r] \notin {"enqueue", "compensate"}
  PROVE  /\ Underway' \subseteq Underway
         /\ pc[r] \notin {"enqueue", "compensate"} => Underway' = Underway
<1>1. \A q \in Requests \ {r} : pc'[q] = pc[q] /\ id'[q] = id[q]
  BY DEF Others
<1>2. QED
  BY <1>1 DEF Underway

\* No step makes an offer of what was none, if no row comes.
LEMMA WithdrawStep ==
  ASSUME TypeOK, Allocation, Reference, [Next]_vars,
         pending' \subseteq pending, Underway' \subseteq Underway, UNCHANGED <<mailed, users>>
  PROVE  Offers!Withdraw
<1>1. \A i \in pending \union mailed \union Underway : OfferOf(i)' = OfferOf(i)
  BY OffersAreKept
<1>2. offers' \subseteq offers /\ underway' \subseteq underway /\ delivered' = delivered
  BY <1>1 DEF offers, underway, delivered
<1>3. QED
  BY <1>2 DEF Offers!Withdraw, offers, underway, delivered, users

\* A commit makes the offer of the row: nothing is left of the token it names, and
\* what it replaces is all that has one of its keys.
LEMMA MakeStep ==
  ASSUME IInv, [Next]_vars, NEW r \in Requests, IssueCommit(r), NEW o, o = OfferOf(id[r])
  PROVE  o \in Offers!Offer /\ Offers!Make(o)
<1> USE DEF IInv
<1>0. /\ pc \in [Requests -> Pc] /\ id \in [Requests -> Ids \union {0}]
  BY DEF TypeOK
<1>1. /\ pc[r] = "issueCommit" /\ pc'[r] = "enqueue" /\ id' = id
      /\ pending' = (pending \ removing[r]) \union {id[r]}
      /\ UNCHANGED <<link, mailed, jobs, users>>
  BY <1>0 DEF IssueCommit, Goto, world
<1>2. /\ link[id[r]].sub = sub[r] /\ link[id[r]].account = account[r]
      /\ id[r] \notin pending \union mailed /\ jobs[id[r]].state = Free
      /\ \A q \in Requests \ {r} : pc[q] \in {"issueCommit", "enqueue", "compensate"} => id[q] # id[r]
  BY <1>1 DEF Uncommitted
<1>3. /\ id[r] \in 1 .. nextId - 1 /\ account[r] \in registered
  <2>1. id[r] \in Ids /\ id[r] < nextId /\ account[r] \in registered
    BY <1>1 DEF Reference, Allocation, Issuing
  <2>2. nextId \in Nat
    BY DEF TypeOK
  <2>3. QED
    BY <2>1, <2>2
<1>4. o.token = id[r] /\ o.sub = sub[r] /\ o.account = account[r] /\ o \in Offers!Offer
  BY <1>2, <1>3, OffersAreKept DEF OfferOf
<1>5. id[r] \notin Underway /\ Underway' = Underway \union {id[r]}
  <2>1. \A q \in Requests \ {r} : pc'[q] = pc[q]
    BY RequestsMoveAlone DEF Others, Moves, Serve
  <2>2. QED
    BY <1>1, <1>2, <1>3, <2>1, OffersAreKept DEF Underway
<1>6. \A i \in pending : i \in removing[r] <=> SameKey(i, id[r])
  <2>1. \A i \in removing[r] : Matches(i, r)
    BY <1>1 DEF Replacing
  <2>2. \A i \in removing[r] : SameKey(i, id[r])
    BY <1>2, <2>1 DEF Matches, SameKey
  <2>3. QED
    BY <1>1, <2>2 DEF UniqueKeys
<1>7. \A i : OfferOf(i)' = OfferOf(i)
  BY <1>1 DEF OfferOf
<1>8. offers' = {p \in offers : p.sub # o.sub /\ p.account # o.account} \union {o}
  <2>1. \A i : OfferOf(i).sub = link[i].sub /\ OfferOf(i).account = link[i].account
    BY DEF OfferOf
  <2>2. \A i \in pending : i \notin removing[r] <=>
          OfferOf(i).sub # o.sub /\ OfferOf(i).account # o.account
    BY <1>6, <2>1 DEF SameKey
  <2>3. offers' = {OfferOf(i) : i \in (pending \ removing[r]) \union {id[r]}}
    BY <1>1, <1>7 DEF offers
  <2>4. QED
    BY <2>2, <2>3 DEF offers
<1>9. underway' = underway \union {o} /\ delivered' = delivered
  BY <1>1, <1>5, <1>7 DEF underway, delivered
<1>10. \A p \in offers \union underway \union delivered : p.token # o.token
  <2>1. \A i : OfferOf(i).token = i
    BY DEF OfferOf
  <2>2. QED
    BY <1>2, <1>4, <1>5, <2>1 DEF offers, underway, delivered
<1> HIDE DEF IInv
<1>11. QED
  BY <1>1, <1>3, <1>4, <1>8, <1>9, <1>10
     DEF Offers!Make, Offers!Fresh, offers, underway, delivered, users

\* An account and its first link appear in one step, and nothing else moves.
LEMMA SignUpStep ==
  ASSUME IInv, NEW r \in Requests, CreateAccountCommit(r)
  PROVE  /\ sub[r] \in Subjects /\ account[r] \in Accounts
         /\ Offers!SignUp(sub[r], account[r])
<1>1. TypeOK /\ Allocation /\ Reference /\ Proof /\ RowLocks /\ KeyLocks
  BY DEF IInv
<1>2. /\ sub[r] \in Subjects /\ account[r] \in Accounts
      /\ linked[sub[r]] = None /\ account[r] \notin registered
  BY <1>1, CommitsAreDue
<1>3. /\ registered' = registered \union {account[r]}
      /\ creator' = [creator EXCEPT ![account[r]] = sub[r]]
      /\ linked' = [linked EXCEPT ![sub[r]] = account[r]]
      /\ UNCHANGED <<pending, link, jobs, mailed>>
  BY DEF CreateAccountCommit, rows, world
<1>4. Underway' = Underway
  <2>1. pc[r] = "createCommit" /\ Others(r) /\ pc'[r] = "idle"
    BY <1>1, FinishEnds DEF CreateAccountCommit
  <2>2. QED
    BY <1>3, <2>1, UnderwayShrinks
<1>5. \A i : OfferOf(i)' = OfferOf(i)
  BY <1>3 DEF OfferOf
<1>6. offers' = offers /\ underway' = underway /\ delivered' = delivered
  BY <1>3, <1>4, <1>5 DEF offers, underway, delivered
<1>7. QED
  BY <1>2, <1>3, <1>6 DEF Offers!SignUp, offers, underway, delivered

\* Linking and using up the offer are one step; the mail was out.
LEMMA ConfirmStep ==
  ASSUME IInv, NEW r \in Requests, ConfirmCommit(r), NEW o, o = OfferOf(id[r])
  PROVE  o \in Offers!Offer /\ Offers!Confirm(o)
<1>1. TypeOK /\ Allocation /\ Reference /\ Proof /\ RowLocks /\ KeyLocks
  BY DEF IInv
<1>2. /\ linked[sub[r]] = None /\ removing[r] = {id[r]} /\ id[r] \in pending /\ id[r] \in mailed
      /\ link[id[r]].sub = sub[r] /\ link[id[r]].account = account[r]
  BY <1>1, CommitsAreDue
<1>3. /\ linked' = [linked EXCEPT ![sub[r]] = account[r]]
      /\ pending' = pending \ {id[r]}
      /\ UNCHANGED <<registered, creator, link, jobs, mailed>>
  BY <1>2 DEF ConfirmCommit, world
<1>4. o \in Offers!Offer
  BY <1>1, <1>2, OffersAreKept
<1>5. o.sub = sub[r] /\ o.account = account[r]
  BY <1>2 DEF OfferOf
<1>6. Underway' = Underway
  <2>1. pc[r] = "linkCommit" /\ Others(r) /\ pc'[r] = "idle"
    BY <1>1, FinishEnds DEF ConfirmCommit
  <2>2. QED
    BY <1>3, <2>1, UnderwayShrinks
<1>7. \A i : OfferOf(i)' = OfferOf(i)
  BY <1>3 DEF OfferOf
<1>8. underway' = underway /\ delivered' = delivered
  BY <1>3, <1>6, <1>7 DEF underway, delivered
<1>9. offers' = offers \ {o}
  <2>1. offers' = {OfferOf(i) : i \in pending \ {id[r]}}
    BY <1>3, <1>7 DEF offers
  <2>2. QED
    BY <2>1, OffersAreNamed DEF offers
<1>10. o \in offers \intersect delivered
  BY <1>2 DEF offers, delivered
<1>11. QED
  BY <1>2, <1>3, <1>4, <1>5, <1>8, <1>9, <1>10 DEF Offers!Confirm, offers, underway, delivered

\* A queue call puts the job of the request's own row, and of none other, on its way.
LEMMA QueueingStep ==
  ASSUME IInv, [Next]_vars, NEW r \in Requests, Enqueue(r) \/ EnqueueFails(r)
  PROVE  Offers!Withdraw
<1>1. TypeOK /\ Allocation /\ Reference
  BY DEF IInv
<1>2. /\ pc[r] = "enqueue"
      /\ jobs' = jobs \/ jobs' = Added(id[r], "confirmation")
      /\ UNCHANGED <<users, pending, mailed>>
  BY DEF Enqueue, EnqueueFails, Goto, rows
<1>3. id[r] \in Underway
  BY <1>1, <1>2 DEF Reference, Underway
<1>4. \A i \in Ids : jobs'[i].state # Free => jobs[i].state # Free \/ i = id[r]
  BY <1>1, <1>2 DEF Added, TypeOK
<1>5. pc'[r] \in {"enqueue", "compensate"} => id'[r] = id[r]
  <2>1. CASE Enqueue(r)
    BY <1>1, <2>1, FinishEnds DEF Enqueue
  <2>2. CASE EnqueueFails(r)
    BY <2>2 DEF EnqueueFails
  <2>3. QED
    BY <2>1, <2>2
<1>6. \A q \in Requests \ {r} : pc'[q] = pc[q] /\ id'[q] = id[q]
  BY <1>1, RequestsMoveAlone DEF Others, Moves, Serve
<1>7. Underway' \subseteq Underway
  BY <1>3, <1>4, <1>5, <1>6 DEF Underway
<1>8. QED
  BY <1>1, <1>2, <1>7, WithdrawStep

\* What a request does is one step for subjects and accounts.
LEMMA ServingSteps ==
  ASSUME IInv, [Next]_vars, NEW r \in Requests, Moves(r)
  PROVE  Offers!Next
<1>1. TypeOK /\ Allocation /\ Reference
  BY DEF IInv
<1>2. Others(r)
  BY <1>1, RequestsMoveAlone
<1>3. CASE IssueCommit(r)
  BY <1>3, MakeStep DEF Offers!Next
<1>4. CASE CreateAccountCommit(r)
  BY <1>4, SignUpStep DEF Offers!Next
<1>5. CASE ConfirmCommit(r)
  BY <1>5, ConfirmStep DEF Offers!Next
<1>6. CASE Enqueue(r) \/ EnqueueFails(r)
  BY <1>6, QueueingStep DEF Offers!Next
<1>7. CASE IssueDeleteStart(r) \/ IssueDelete(r) \/ IssueInsertSubject(r) \/ IssueInsertAccount(r)
  <2>1. /\ pc'[r] \notin {"enqueue", "compensate"}
        /\ UNCHANGED <<users, pending, mailed, jobs>>
    BY <1>1, <1>7 DEF IssueDeleteStart, IssueDelete, IssueInsertSubject, IssueInsertAccount,
      RollBackToReread, Goto, rows, world, TypeOK
  <2>2. QED
    BY <1>1, <1>2, <2>1, UnderwayShrinks, WithdrawStep DEF Offers!Next
<1>8. CASE ~Issues(r) /\ ~CreateAccountCommit(r) /\ ~ConfirmCommit(r)
  <2>1. /\ pc'[r] \notin {"enqueue", "compensate"}
        /\ pending' \subseteq pending /\ UNCHANGED <<mailed, jobs>>
    BY <1>1, <1>8, OtherServing
  <2>2. UNCHANGED users
    BY <1>1, <1>8, OnlyCommitsLink DEF users
  <2>3. QED
    BY <1>1, <1>2, <2>1, <2>2, UnderwayShrinks, WithdrawStep DEF Offers!Next
<1>9. QED
  BY <1>3, <1>4, <1>5, <1>6, <1>7, <1>8 DEF Issues

\* The worker mails what is under way, once more or for the last time.
LEMMA MailingStep ==
  ASSUME IInv, [Next]_vars, NEW i \in Ids, Delivered(i) \/ DeliveryFails(i) \/ WorkerDies(i)
  PROVE  Offers!Next
<1>1. TypeOK /\ Allocation /\ Reference
  BY DEF IInv
<1>2. /\ mailed' = mailed \/ mailed' = mailed \union {i}
      /\ UNCHANGED <<users, rows, locals>>
      /\ jobs[i].state # Free
  BY DEF Delivered, DeliveryFails, WorkerDies, Send, SendFails, Free
<1>3. i \in Underway
  BY <1>2 DEF Underway
<1>4. /\ \A j \in Ids : jobs'[j].state # Free => jobs[j].state # Free
      /\ \A j \in Ids \ {i} : jobs[j].state # Free => jobs'[j].state # Free
  <2>1. CASE Delivered(i)
    BY <1>1, <2>1 DEF Delivered, Send, NoJob, Free, TypeOK
  <2>2. CASE DeliveryFails(i)
    BY <1>1, <2>2 DEF DeliveryFails, SendFails, Free, TypeOK, Job
  <2>3. CASE WorkerDies(i)
    BY <1>1, <2>3 DEF WorkerDies, Stalled, Free, TypeOK, Job
  <2>4. QED
    BY <2>1, <2>2, <2>3
<1>5. Underway' = Underway \/ Underway' = Underway \ {i}
  BY <1>2, <1>3, <1>4 DEF Underway, locals
<1>6. \A j : OfferOf(j)' = OfferOf(j)
  BY <1>2 DEF OfferOf, rows
<1>7. CASE mailed' = mailed
  BY <1>1, <1>2, <1>5, <1>7, WithdrawStep DEF Offers!Next, rows
<1>8. CASE mailed' = mailed \union {i}
  <2>1. offers' = offers /\ delivered' = delivered \union {OfferOf(i)} /\ OfferOf(i) \in underway
    BY <1>2, <1>3, <1>6, <1>8 DEF offers, delivered, underway, rows
  <2>2. underway' = underway \/ underway' = underway \ {OfferOf(i)}
    <3>1. underway' = {OfferOf(j) : j \in Underway'}
      BY <1>6 DEF underway
    <3>2. QED
      BY <1>5, <3>1, OffersAreNamed DEF underway
  <2>3. OfferOf(i) \in Offers!Offer
    BY <1>1, <1>3, OffersAreKept
  <2>4. Offers!Deliver(OfferOf(i))
    BY <1>2, <2>1, <2>2 DEF Offers!Deliver, offers, underway, delivered, users
  <2>5. QED
    BY <2>3, <2>4 DEF Offers!Next
<1>9. QED
  BY <1>2, <1>7, <1>8

\* Whatever nobody asked for is a withdrawal, a mail or nothing.
LEMMA OtherSteps ==
  ASSUME IInv, [Next]_vars,
         \/ \E a \in Accounts : Register(a)
         \/ Worker
         \/ \E i \in Ids : FailedJobExpires(i) \/ WorkerDies(i)
         \/ Tick \/ UNCHANGED vars
  PROVE  Offers!Next
<1>1. TypeOK /\ Allocation /\ Reference
  BY DEF IInv
<1>2. CASE \E i \in Ids : Delivered(i) \/ DeliveryFails(i) \/ WorkerDies(i)
  BY <1>2, MailingStep
<1>3. CASE \E a \in Accounts : Register(a)
  <2>1. PICK a \in Accounts : Register(a)
    BY <1>3
  <2>2. UNCHANGED <<creator, linked, pending, link, pc, id, jobs, mailed>>
    BY <2>1 DEF Register, rows, locals, world
  <2>3. Underway' = Underway /\ \A i : OfferOf(i)' = OfferOf(i)
    BY <2>2 DEF Underway, OfferOf
  <2>4. offers' = offers /\ underway' = underway /\ delivered' = delivered
    BY <2>2, <2>3 DEF offers, underway, delivered
  <2>5. Offers!Register(a)
    BY <2>1, <2>2, <2>4 DEF Register, Offers!Register, offers, underway, delivered
  <2>6. QED
    BY <2>5 DEF Offers!Next
<1>4. CASE \/ \E i \in Ids : Skip(i) \/ Deliver(i) \/ FailedJobExpires(i)
           \/ Tick \/ UNCHANGED vars
  <2>1. UNCHANGED locals /\ pending' \subseteq pending /\ UNCHANGED <<users, mailed>>
    BY <1>4 DEF Skip, Deliver, FailedJobExpires, Tick, vars, rows, world
  <2>2. \A i \in Ids : jobs'[i].state # Free => jobs[i].state # Free
    BY <1>1, OthersBringNoRow
  <2>3. Underway' \subseteq Underway
    BY <2>1, <2>2 DEF Underway, locals
  <2>4. QED
    BY <1>1, <2>1, <2>3, WithdrawStep DEF Offers!Next
<1>5. QED
  BY <1>2, <1>3, <1>4 DEF Worker

\* The service starts with no offer.
LEMMA OffersInit == Init => Offers!Init
<1>1. Init => pending = {} /\ mailed = {} /\ Underway = {}
  BY DEF Init, Underway, NoJob, Free
<1>2. QED
  BY <1>1 DEF Init, Offers!Init

\* Every step of the service is one of LinkOffers.
LEMMA OffersStep == IInv /\ [Next]_vars => Offers!Next
  BY ServingSteps, OtherSteps DEF Next, Moves

\* Rows, transactions, jobs and deaths keep the promise of LinkOffers: the provider
\* services (AccountResolverService, ProviderLinkService, the repository's transactions
\* and the queued mail) implement it.
THEOREM ServiceImplementsOffers == Spec => ImplementsOffers
<1>1. IInv /\ [Next]_vars => [Offers!Next]_(Offers!vars)
  BY OffersStep
<1>2. QED
  BY <1>1, OffersInit, Invariant, PTL DEF Spec, ImplementsOffers, Offers!Spec

\* A spent token stays spent (PendingProviderLinkRepository.confirm and issue): once its
\* mail may be out and its row is gone, nothing the service does lets it be confirmed.
THEOREM SpentTokensStaySpent == Spec => Offers!SpentStaysSpent
<1> DEFINE Spent == (delivered \ offers) \intersect offers' = {}
<1>1. ASSUME Offers!Next PROVE Spent
  <2>1. CASE \E o \in Offers!Offer : Offers!Make(o)
    <3>1. PICK o \in Offers!Offer : Offers!Make(o)
      BY <2>1
    <3>2. offers' \subseteq offers \union {o}
      BY <3>1 DEF Offers!Make, offers
    <3>3. \A p \in delivered : p.token # o.token
      BY <3>1 DEF Offers!Make, Offers!Fresh, delivered
    <3>4. QED
      BY <3>2, <3>3
  <2>2. CASE ~\E o \in Offers!Offer : Offers!Make(o)
    <3>1. offers' \subseteq offers
      BY <1>1, <2>2 DEF Offers!Next, Offers!Withdraw, Offers!Register, Offers!SignUp,
        Offers!Deliver, Offers!Confirm, offers
    <3>2. QED
      BY <3>1
  <2>3. QED
    BY <2>1, <2>2
<1>2. IInv /\ [Next]_vars => [(delivered \ offers) \intersect offers' = {}]_(Offers!vars)
  BY <1>1, OffersStep
<1>3. QED
  BY <1>2, Invariant, PTL DEF Spec, Offers!SpentStaysSpent, offers, delivered

\* A subject and an account have one offer at most (the unique keys of
\* PendingAuthProviderLink): a mail that was sent earlier is no use any more.
THEOREM OnlyOneOfferEach == Spec => []Offers!OneOfferEach
<1>1. IInv => Offers!OneOfferEach
  <2>1. SUFFICES ASSUME UniqueKeys, NEW i \in pending, NEW j \in pending,
                        OfferOf(i).sub = OfferOf(j).sub \/ OfferOf(i).account = OfferOf(j).account
                 PROVE  OfferOf(i) = OfferOf(j)
    BY DEF IInv, Offers!OneOfferEach
  <2>2. SameKey(i, j)
    BY <2>1 DEF OfferOf, SameKey
  <2>3. QED
    BY <2>1, <2>2 DEF UniqueKeys
<1>2. QED
  BY <1>1, Invariant, PTL
=============================================================================
