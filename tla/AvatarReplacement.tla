------------------------- MODULE AvatarReplacement -------------------------
(***************************************************************************)
(* The avatar of a user: UsersService.updateUser with                      *)
(* AvatarReplacementService, which keep a column of PostgreSQL and an      *)
(* object store consistent although no transaction spans both.             *)
(*                                                                         *)
(* A request replaces the avatar (process, upload, transaction, delete the *)
(* previous object) or clears it (the same without process and upload).    *)
(* The other profile columns are left out: what matters of them is that a  *)
(* user name taken since the check makes the transaction fail.             *)
(*                                                                         *)
(* SELECT ... FOR UPDATE holds the row of the user until the transaction   *)
(* ends, so the UPDATE after it and the COMMIT are one step.               *)
(***************************************************************************)
EXTENDS Naturals

CONSTANTS
  Users,
  Requests,     \* PUT /user requests that can be served at the same time
  MaxKeys,      \* bound: object keys generated
  MaxFaults,    \* bound: storage calls that fail and requests that die
  MaxLostAcks   \* bound: COMMITs that succeed and are reported as failed

ASSUME KeysAssumption == MaxKeys \in Nat
ASSUME FaultsAssumption == MaxFaults \in Nat /\ MaxLostAcks \in Nat

VARIABLES
  image,      \* User.image: the key of each user's avatar
  objects,    \* keys in the object store
  nextKey,    \* keys are random UUIDs: each is new
  pc,         \* per request: what it does next
  user,       \* per request: the user it is about
  uploaded,   \* per request: the key it has generated, NoKey when clearing
  previous,   \* per request: the key lockImage returned
  leaked,     \* history: keys whose removal failed or was never tried
  faults,
  lostAcks

store == <<image, objects, nextKey>>
locals == <<pc, user, uploaded, previous>>
faulty == <<leaked, faults, lostAcks>>
vars == <<store, locals, faulty>>

Keys == 1 .. MaxKeys
NoKey == 0
Pc == {"idle", "process", "upload", "lock", "locked", "cleanup", "reclaim"}

Init ==
  /\ image = [u \in Users |-> NoKey]
  /\ objects = {}
  /\ nextKey = 1
  /\ pc = [r \in Requests |-> "idle"]
  /\ user \in [Requests -> Users]
  /\ uploaded = [r \in Requests |-> NoKey]
  /\ previous = [r \in Requests |-> NoKey]
  /\ leaked = {}
  /\ faults = 0
  /\ lostAcks = 0

Goto(r, from, to) ==
  /\ pc[r] = from
  /\ pc' = [pc EXCEPT ![r] = to]

Finish(r) ==
  /\ pc' = [pc EXCEPT ![r] = "idle"]
  /\ uploaded' = [uploaded EXCEPT ![r] = NoKey]
  /\ previous' = [previous EXCEPT ![r] = NoKey]
  /\ UNCHANGED user

Fault ==
  /\ faults < MaxFaults
  /\ faults' = faults + 1

----------------------------------------------------------------------------
\* updateUser has found the new user name free, and there is a file ...
Replace(r, u) ==
  /\ Goto(r, "idle", "process")
  /\ user' = [user EXCEPT ![r] = u]
  /\ UNCHANGED <<store, uploaded, previous, faulty>>

\* ... or `image: null'.
Clear(r, u) ==
  /\ Goto(r, "idle", "lock")
  /\ user' = [user EXCEPT ![r] = u]
  /\ UNCHANGED <<store, uploaded, previous, faulty>>

\* The image is refused (422) or the pool cannot serve it (503).
ProcessFails(r) ==
  /\ pc[r] = "process"
  /\ Finish(r)
  /\ UNCHANGED <<store, faulty>>

\* (A variant for mutation runs: the key is not new.)
ProcessSameKey(r) ==
  /\ nextKey <= MaxKeys
  /\ Goto(r, "process", "upload")
  /\ uploaded' = [uploaded EXCEPT ![r] = nextKey]
  /\ UNCHANGED <<image, objects, nextKey, user, previous, faulty>>

\* The image is normalised and gets a key.
Process(r) ==
  /\ nextKey <= MaxKeys
  /\ Goto(r, "process", "upload")
  /\ uploaded' = [uploaded EXCEPT ![r] = nextKey]
  /\ nextKey' = nextKey + 1
  /\ UNCHANGED <<image, objects, user, previous, faulty>>

Upload(r) ==
  /\ Goto(r, "upload", "lock")
  /\ objects' = objects \union {uploaded[r]}
  /\ UNCHANGED <<image, nextKey, user, uploaded, previous, faulty>>

\* The put throws, whether or not the store has kept the object; the request is
\* answered 502 and nobody deletes it.
UploadFails(r) ==
  /\ pc[r] = "upload"
  /\ Fault
  /\ objects' \in {objects, objects \union {uploaded[r]}}
  /\ leaked' = leaked \union {uploaded[r]}
  /\ Finish(r)
  /\ UNCHANGED <<image, nextKey, lostAcks>>

----------------------------------------------------------------------------
\* (A variant for mutation runs: a SELECT without FOR UPDATE.)
RowIsFreeAlways(r) == pc[r] = "lock"

\* Nobody else holds the row of r's user.
RowIsFree(r) == \A q \in Requests \ {r} : pc[q] = "locked" => user[q] # user[r]

\* lockImage.
LockImage(r) ==
  /\ RowIsFree(r)
  /\ Goto(r, "lock", "locked")
  /\ previous' = [previous EXCEPT ![r] = image[user[r]]]
  /\ UNCHANGED <<store, user, uploaded, faulty>>

\* update and COMMIT.
Commit(r) ==
  /\ Goto(r, "locked", "reclaim")
  /\ image' = [image EXCEPT ![user[r]] = uploaded[r]]
  /\ UNCHANGED <<objects, nextKey, user, uploaded, previous, faulty>>

\* The transaction fails and rolls back: a unique violation of the user name, a
\* timeout while waiting for the row, a lost connection.  replace goes on to
\* cleanupFailedUpload; clear just throws.
RollBack(r) ==
  /\ pc[r] \in {"lock", "locked"}
  /\ IF uploaded[r] = NoKey
     THEN Finish(r)
     ELSE /\ pc' = [pc EXCEPT ![r] = "cleanup"]
          /\ UNCHANGED <<user, uploaded, previous>>
  /\ UNCHANGED <<store, faulty>>

\* The connection is lost after COMMIT was done and before it was acknowledged:
\* the same error to the code, which takes the same path.
CommitUnacknowledged(r) ==
  /\ lostAcks < MaxLostAcks
  /\ lostAcks' = lostAcks + 1
  /\ pc[r] = "locked"
  /\ image' = [image EXCEPT ![user[r]] = uploaded[r]]
  /\ leaked' = leaked \union ({previous[r]} \ {NoKey})
  /\ IF uploaded[r] = NoKey
     THEN Finish(r)
     ELSE /\ pc' = [pc EXCEPT ![r] = "cleanup"]
          /\ UNCHANGED <<user, uploaded, previous>>
  /\ UNCHANGED <<objects, nextKey, faults>>

\* (A variant for mutation runs: without the test for null.)
DoomedNullToo(r) == IF pc[r] = "cleanup" THEN {uploaded[r]} ELSE {previous[r]}

\* (A variant for mutation runs: the failed transaction's previous object goes too.)
DoomedPreviousToo(r) ==
  (IF pc[r] = "cleanup" THEN {uploaded[r], previous[r]} ELSE {previous[r]}) \ {NoKey}

\* (A variant for mutation runs: after the commit nothing is deleted.)
DoomedUploadOnly(r) == IF pc[r] = "cleanup" THEN {uploaded[r]} ELSE {}

\* The object cleanupFailedUpload, or cleanupPreviousAvatar, deletes.
Doomed(r) == (IF pc[r] = "cleanup" THEN {uploaded[r]} ELSE {previous[r]}) \ {NoKey}

\* The delete, which succeeds on a missing object too ...
Delete(r) ==
  /\ pc[r] \in {"cleanup", "reclaim"}
  /\ objects' = objects \ Doomed(r)
  /\ Finish(r)
  /\ UNCHANGED <<image, nextKey, faulty>>

\* ... or fails and is only logged.
DeleteFails(r) ==
  /\ pc[r] \in {"cleanup", "reclaim"}
  /\ Doomed(r) # {}
  /\ Fault
  /\ leaked' = leaked \union Doomed(r)
  /\ Finish(r)
  /\ UNCHANGED <<store, lostAcks>>

\* The keys a request is still going to do something about.
InHand(r) ==
  CASE pc[r] \in {"upload", "lock", "locked"} -> {uploaded[r]} \ {NoKey}
    [] pc[r] \in {"cleanup", "reclaim"} -> Doomed(r)
    [] OTHER -> {}

\* The process stops between two awaits; an open transaction rolls back.
Abort(r) ==
  /\ pc[r] # "idle"
  /\ Fault
  /\ leaked' = leaked \union InHand(r)
  /\ Finish(r)
  /\ UNCHANGED <<store, lostAcks>>

Serve(r) ==
  \/ ProcessFails(r)
  \/ Process(r)
  \/ Upload(r)
  \/ UploadFails(r)
  \/ LockImage(r)
  \/ Commit(r)
  \/ RollBack(r)
  \/ CommitUnacknowledged(r)
  \/ Delete(r)
  \/ DeleteFails(r)

Next ==
  \/ \E r \in Requests, u \in Users : Replace(r, u)
  \/ \E r \in Requests, u \in Users : Clear(r, u)
  \/ \E r \in Requests : Serve(r)
  \/ \E r \in Requests : Abort(r)

Spec == Init /\ [][Next]_vars

\* A request that was accepted keeps running; the waiters of a row lock are queued.
Fairness == \A r \in Requests : SF_vars(Serve(r))

FairSpec == Spec /\ Fairness

----------------------------------------------------------------------------
(***************************************************************************)
(* Properties                                                              *)
(***************************************************************************)

\* Every variable stays in its range.
TypeOK ==
  /\ image \in [Users -> Keys \union {NoKey}]
  /\ objects \subseteq Keys
  /\ nextKey \in 1 .. MaxKeys + 1
  /\ pc \in [Requests -> Pc]
  /\ user \in [Requests -> Users]
  /\ uploaded \in [Requests -> Keys \union {NoKey}]
  /\ previous \in [Requests -> Keys \union {NoKey}]
  /\ leaked \subseteq Keys
  /\ faults \in 0 .. MaxFaults
  /\ lostAcks \in 0 .. MaxLostAcks

Referenced == {image[u] : u \in Users} \ {NoKey}

\* No user's avatar is missing from the store, however replacements of the same
\* avatar interleave, fail and die, as long as a COMMIT that was reported as
\* failed has failed.
AvatarExists == lostAcks = 0 => Referenced \subseteq objects

\* The row lock orders concurrent writers: each object that is stored and not an
\* avatar is still in the hands of a request, or its removal failed.  Two
\* replacements of one avatar never leave the loser's object behind.
OrphansHaveCause ==
  objects \subseteq Referenced \union leaked \union UNION {InHand(r) : r \in Requests}

\* An object is doomed by at most one request and is nobody's avatar, so
\* reclaiming a superseded object cannot hit one that is served (same condition).
DoomedIsUnreferenced ==
  lostAcks = 0 =>
    \A r \in Requests : pc[r] \in {"cleanup", "reclaim"} =>
      /\ Doomed(r) \intersect Referenced = {}
      /\ \A q \in Requests \ {r} : Doomed(r) \intersect InHand(q) = {}

\* Keys are generated in order.
KeyBounds ==
  /\ \A u \in Users : image[u] < nextKey
  /\ \A r \in Requests : uploaded[r] < nextKey /\ previous[r] < nextKey

\* Until it commits, the transaction that holds the row has read what is there; a
\* request has a key of its own once the image is processed.
RowLocks ==
  /\ \A r \in Requests : pc[r] = "locked" => previous[r] = image[user[r]]
  /\ \A q, r \in Requests : pc[q] = "locked" /\ pc[r] = "locked" /\ q # r => user[q] # user[r]
  /\ \A r \in Requests : pc[r] \in {"upload", "cleanup"} => uploaded[r] # NoKey
  /\ \A r \in Requests : pc[r] \in {"idle", "process"} => uploaded[r] = NoKey

\* A key is one user's avatar or in the hands of one request, and is stored before it
\* is committed (same condition).
KeysHaveOneHolder ==
  lostAcks = 0 =>
    /\ \A u, v \in Users : u # v /\ image[u] = image[v] => image[u] = NoKey
    /\ \A r \in Requests : InHand(r) \intersect Referenced = {}
    /\ \A q, r \in Requests : q # r => InHand(q) \intersect InHand(r) = {}
    /\ \A r \in Requests : pc[r] \in {"lock", "locked"} => InHand(r) \subseteq objects

\* The invariants hold because these do, together, after every step.
IInv ==
  /\ TypeOK
  /\ KeyBounds
  /\ RowLocks
  /\ KeysHaveOneHolder
  /\ AvatarExists
  /\ OrphansHaveCause

\* Keys of objects that may still become avatars, and keys that cannot any more.
Promised == {uploaded[r] : r \in {q \in Requests : pc[q] \in {"upload", "lock", "locked"}}}
Retired == {k \in Keys : k < nextKey} \ (Referenced \union Promised)

Avatars == INSTANCE AvatarStore WITH
  None <- NoKey,
  avatar <- image,
  stored <- objects,
  retired <- Retired,
  misled <- lostAcks > 0

\* Uploads that overtake each other, transactions that fail and clean up, deletes that
\* come late: for whoever looks at avatars they are whole steps of AvatarStore.
ImplementsAvatars == Avatars!Spec

\* What the comment on cleanupFailedUpload says: the rows rolled back, so the new
\* object is unreferenced.
FailedUploadIsUnreferenced ==
  \A r \in Requests : pc[r] = "cleanup" => uploaded[r] \notin Referenced

\* The store is cleaned up: an object that is stored and is not an avatar becomes
\* one or goes, unless its removal failed or was never tried.
OrphansAreReclaimed ==
  \A k \in Keys :
    k \in objects \ Referenced ~> k \in Referenced \union leaked \/ k \notin objects
============================================================================
