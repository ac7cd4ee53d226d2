----------------------- MODULE AvatarReplacementProofs -----------------------
(***************************************************************************)
(* Proofs about AvatarReplacement, for any users and requests, any number  *)
(* of keys, faults and lost acknowledgements.                              *)
(***************************************************************************)
EXTENDS AvatarReplacement, TLAPS

USE KeysAssumption, FaultsAssumption DEF Keys, NoKey

----------------------------------------------------------------------------
(***************************************************************************)
(* What a step changes.                                                    *)
(***************************************************************************)

\* The other requests are where they were.
Others(r) ==
  \A q \in Requests \ {r} :
    pc'[q] = pc[q] /\ user'[q] = user[q] /\ uploaded'[q] = uploaded[q] /\ previous'[q] = previous[q]

\* A request that ends has nothing in its hands.
LEMMA FinishEnds ==
  ASSUME TypeOK, NEW r \in Requests, Finish(r)
  PROVE  /\ Others(r)
         /\ pc'[r] = "idle" /\ user'[r] = user[r] /\ uploaded'[r] = NoKey /\ previous'[r] = NoKey
         /\ InHand(r)' = {}
  BY DEF TypeOK, Finish, Others, InHand

\* What the others have in their hands stays there.
LEMMA OthersKeep ==
  ASSUME NEW r \in Requests, Others(r), NEW q \in Requests \ {r}
  PROVE  InHand(q)' = InHand(q)
  BY DEF Others, InHand, Doomed

\* A request changes its own variables only.
LEMMA RequestsMoveAlone ==
  ASSUME TypeOK, NEW r \in Requests,
         (\E u \in Users : Replace(r, u) \/ Clear(r, u)) \/ Serve(r) \/ Abort(r)
  PROVE  Others(r)
<1>1. CASE Finish(r)
  BY <1>1, FinishEnds
<1>2. CASE ~Finish(r)
  BY <1>2 DEF TypeOK, Others, Replace, Clear, Serve, ProcessFails, Process, Upload, UploadFails,
    LockImage, Commit, RollBack, CommitUnacknowledged, Delete, DeleteFails, Abort, Goto
<1>3. QED
  BY <1>1, <1>2

\* What InHand is, by where the request is.
LEMMA InHandCases ==
  ASSUME NEW r \in Requests
  PROVE  /\ pc[r] \in {"upload", "lock", "locked", "cleanup"} => InHand(r) = {uploaded[r]} \ {NoKey}
         /\ pc[r] = "reclaim" => InHand(r) = {previous[r]} \ {NoKey}
         /\ pc[r] \in {"idle", "process"} => InHand(r) = {}
         /\ pc[r] \in {"cleanup", "reclaim"} => InHand(r) = Doomed(r)
  BY DEF InHand, Doomed

\* The initial state has every part of the invariant.
LEMMA InitInv == Init => IInv
<1> SUFFICES ASSUME Init PROVE IInv
  OBVIOUS
<1> USE DEF Init
<1>1. TypeOK
  BY DEF TypeOK, Pc
<1>2. KeyBounds /\ RowLocks
  BY DEF KeyBounds, RowLocks
<1>3. \A r \in Requests : InHand(r) = {}
  BY InHandCases
<1>4. KeysHaveOneHolder /\ AvatarExists /\ OrphansHaveCause
  BY <1>3 DEF KeysHaveOneHolder, AvatarExists, OrphansHaveCause, Referenced
<1>5. QED
  BY <1>1, <1>2, <1>4 DEF IInv

----------------------------------------------------------------------------
(***************************************************************************)
(* Types, keys and locks.                                                  *)
(***************************************************************************)

\* Every step keeps the types.
LEMMA StepTyped == TypeOK /\ RowLocks /\ [Next]_vars => TypeOK'
<1> SUFFICES ASSUME TypeOK, RowLocks, [Next]_vars PROVE TypeOK'
  OBVIOUS
<1> USE DEF store, locals, faulty, TypeOK, Pc
<1>1. ASSUME NEW r \in Requests, Finish(r)
      PROVE  /\ pc' \in [Requests -> Pc] /\ user' \in [Requests -> Users]
             /\ uploaded' \in [Requests -> Keys \union {NoKey}]
             /\ previous' \in [Requests -> Keys \union {NoKey}]
  BY <1>1 DEF Finish
<1>2. ASSUME NEW r \in Requests, NEW u \in Users, Replace(r, u) \/ Clear(r, u) PROVE TypeOK'
  BY <1>2 DEF Replace, Clear, Goto
<1>3. ASSUME NEW r \in Requests, ProcessFails(r) PROVE TypeOK'
  BY <1>1, <1>3 DEF ProcessFails
<1>4. ASSUME NEW r \in Requests, Process(r) PROVE TypeOK'
  BY <1>4 DEF Process, Goto
<1>5. ASSUME NEW r \in Requests, Upload(r) PROVE TypeOK'
  <2>1. uploaded[r] \in Keys
    BY <1>5 DEF Upload, Goto, RowLocks
  <2>2. QED
    BY <1>5, <2>1 DEF Upload, Goto
<1>6. ASSUME NEW r \in Requests, UploadFails(r) PROVE TypeOK'
  <2>1. uploaded[r] \in Keys
    BY <1>6 DEF UploadFails, RowLocks
  <2>2. QED
    <3>1. objects' \subseteq Keys /\ leaked' \subseteq Keys
      BY <1>6, <2>1 DEF UploadFails
    <3>2. faults' \in 0 .. MaxFaults
      BY <1>6 DEF UploadFails, Fault
    <3>3. Finish(r) /\ UNCHANGED <<image, nextKey, lostAcks>>
      BY <1>6 DEF UploadFails
    <3>4. QED
      BY <1>1, <3>1, <3>2, <3>3
<1>7. ASSUME NEW r \in Requests, LockImage(r) \/ Commit(r) PROVE TypeOK'
  BY <1>7 DEF LockImage, Commit, Goto
<1>8. ASSUME NEW r \in Requests, RollBack(r) PROVE TypeOK'
  BY <1>1, <1>8 DEF RollBack
<1>9. ASSUME NEW r \in Requests, CommitUnacknowledged(r) PROVE TypeOK'
  <2>1. image' \in [Users -> Keys \union {NoKey}] /\ leaked' \subseteq Keys
    BY <1>9 DEF CommitUnacknowledged
  <2>2. lostAcks' \in 0 .. MaxLostAcks /\ UNCHANGED <<objects, nextKey, faults>>
    BY <1>9 DEF CommitUnacknowledged
  <2>3. /\ pc' \in [Requests -> Pc] /\ user' \in [Requests -> Users]
        /\ uploaded' \in [Requests -> Keys \union {NoKey}]
        /\ previous' \in [Requests -> Keys \union {NoKey}]
    <3>1. CASE uploaded[r] = NoKey
      BY <1>1, <1>9, <3>1 DEF CommitUnacknowledged
    <3>2. CASE uploaded[r] # NoKey
      BY <1>9, <3>2 DEF CommitUnacknowledged
    <3>3. QED
      BY <3>1, <3>2
  <2>4. QED
    BY <2>1, <2>2, <2>3
<1>10. ASSUME NEW r \in Requests PROVE InHand(r) \subseteq Keys /\ Doomed(r) \subseteq Keys
  BY DEF InHand, Doomed
<1>11. ASSUME NEW r \in Requests, Delete(r) PROVE TypeOK'
  BY <1>1, <1>11 DEF Delete
<1>12. ASSUME NEW r \in Requests, DeleteFails(r) \/ Abort(r) PROVE TypeOK'
  <2>0. leaked' \subseteq Keys
    BY <1>10, <1>12 DEF DeleteFails, Abort
  <2>1. faults' \in 0 .. MaxFaults
    <3>1. Fault
      BY <1>12 DEF DeleteFails, Abort
    <3>2. QED
      BY <3>1 DEF Fault
  <2>2. Finish(r) /\ UNCHANGED <<store, lostAcks>>
    BY <1>12 DEF DeleteFails, Abort
  <2>3. QED
    BY <1>1, <2>0, <2>1, <2>2
<1>13. ASSUME UNCHANGED vars PROVE TypeOK'
  BY <1>13 DEF vars
<1>14. QED
  BY <1>2, <1>3, <1>4, <1>5, <1>6, <1>7, <1>8, <1>9, <1>11, <1>12, <1>13 DEF Next, Serve

\* Keys are generated in order.
LEMMA StepKeyBounds == TypeOK /\ KeyBounds /\ [Next]_vars => KeyBounds'
<1> SUFFICES ASSUME TypeOK, KeyBounds, [Next]_vars PROVE KeyBounds'
  OBVIOUS
<1> USE DEF store, locals, faulty
<1>0. /\ nextKey \in Nat /\ 0 < nextKey
      /\ image \in [Users -> Nat] /\ uploaded \in [Requests -> Nat] /\ previous \in [Requests -> Nat]
      /\ user \in [Requests -> Users]
  BY DEF TypeOK
<1>1. ASSUME NEW r \in Requests, Others(r), nextKey' = nextKey,
             uploaded'[r] < nextKey, previous'[r] < nextKey,
             \A u \in Users : image'[u] < nextKey
      PROVE  KeyBounds'
  BY <1>1 DEF Others, KeyBounds
<1>2. ASSUME NEW r \in Requests, Finish(r), nextKey' = nextKey, \A u \in Users : image'[u] < nextKey
      PROVE  KeyBounds'
  BY <1>0, <1>1, <1>2, FinishEnds
<1>3. ASSUME NEW r \in Requests, NEW u \in Users, Replace(r, u) \/ Clear(r, u) PROVE KeyBounds'
  BY <1>3 DEF Replace, Clear, KeyBounds
<1>4. ASSUME NEW r \in Requests,
             \/ ProcessFails(r) \/ UploadFails(r) \/ Delete(r) \/ DeleteFails(r) \/ Abort(r)
      PROVE  KeyBounds'
  BY <1>2, <1>4 DEF ProcessFails, UploadFails, Delete, DeleteFails, Abort, KeyBounds
<1>5. ASSUME NEW r \in Requests, Process(r) PROVE KeyBounds'
  <2>1. nextKey' = nextKey + 1 /\ uploaded' = [uploaded EXCEPT ![r] = nextKey] /\ UNCHANGED <<image, previous>>
    BY <1>5 DEF Process
  <2>2. QED
    BY <1>0, <2>1 DEF KeyBounds
<1>6. ASSUME NEW r \in Requests, Upload(r) PROVE KeyBounds'
  BY <1>6 DEF Upload, KeyBounds
<1>7. ASSUME NEW r \in Requests, LockImage(r) PROVE KeyBounds'
  BY <1>0, <1>7 DEF LockImage, KeyBounds
<1>8. ASSUME NEW r \in Requests, Commit(r) PROVE KeyBounds'
  BY <1>0, <1>8 DEF Commit, KeyBounds
<1>9. ASSUME NEW r \in Requests, RollBack(r) \/ CommitUnacknowledged(r) PROVE KeyBounds'
  <2>1. nextKey' = nextKey /\ \A u \in Users : image'[u] < nextKey
    BY <1>0, <1>9 DEF RollBack, CommitUnacknowledged, KeyBounds
  <2>2. CASE uploaded[r] = NoKey
    BY <1>2, <1>9, <2>1, <2>2 DEF RollBack, CommitUnacknowledged
  <2>3. CASE uploaded[r] # NoKey
    BY <1>9, <2>1, <2>3 DEF RollBack, CommitUnacknowledged, KeyBounds
  <2>4. QED
    BY <2>2, <2>3
<1>10. ASSUME UNCHANGED vars PROVE KeyBounds'
  BY <1>10 DEF vars, KeyBounds
<1>11. QED
  BY <1>3, <1>4, <1>5, <1>6, <1>7, <1>8, <1>9, <1>10 DEF Next, Serve

\* What the transaction that holds the row has read stays what is there.
LEMMA StepRowLocks == TypeOK /\ RowLocks /\ [Next]_vars => RowLocks'
<1> SUFFICES ASSUME TypeOK, RowLocks, [Next]_vars PROVE RowLocks'
  OBVIOUS
<1> USE DEF store, locals, faulty
<1>0. /\ nextKey \in Nat /\ 0 < nextKey
      /\ image \in [Users -> Nat] /\ uploaded \in [Requests -> Nat] /\ previous \in [Requests -> Nat]
      /\ user \in [Requests -> Users] /\ pc \in [Requests -> Pc]
  BY DEF TypeOK
<1>1. ASSUME NEW r \in Requests, Others(r), pc'[r] # "locked",
             pc'[r] \in {"upload", "cleanup"} => uploaded'[r] # NoKey,
             pc'[r] \in {"idle", "process"} => uploaded'[r] = NoKey,
             \/ image' = image
             \/ pc[r] = "locked" /\ \E k : image' = [image EXCEPT ![user[r]] = k]
      PROVE  RowLocks'
  BY <1>0, <1>1 DEF Others, RowLocks
<1>2. ASSUME NEW r \in Requests, Finish(r),
             \/ image' = image
             \/ pc[r] = "locked" /\ \E k : image' = [image EXCEPT ![user[r]] = k]
      PROVE  RowLocks'
  <2>1. Others(r) /\ pc'[r] = "idle" /\ uploaded'[r] = NoKey
    BY <1>2, FinishEnds
  <2>2. QED
    BY <1>1, <1>2, <2>1
<1>3. ASSUME NEW r \in Requests, NEW u \in Users, Replace(r, u) \/ Clear(r, u) PROVE RowLocks'
  <2>1. Others(r)
    BY <1>3, RequestsMoveAlone
  <2>2. pc'[r] \in {"process", "lock"} /\ image' = image /\ uploaded'[r] = NoKey
    BY <1>0, <1>3 DEF Replace, Clear, Goto, RowLocks
  <2>3. QED
    BY <1>1, <2>1, <2>2
<1>4. ASSUME NEW r \in Requests,
             \/ ProcessFails(r) \/ UploadFails(r) \/ Delete(r) \/ DeleteFails(r) \/ Abort(r)
      PROVE  RowLocks'
  BY <1>2, <1>4 DEF ProcessFails, UploadFails, Delete, DeleteFails, Abort
<1>5. ASSUME NEW r \in Requests, Process(r) PROVE RowLocks'
  <2>1. Others(r)
    BY <1>5, RequestsMoveAlone DEF Serve
  <2>2. pc'[r] = "upload" /\ uploaded'[r] = nextKey /\ image' = image
    BY <1>0, <1>5 DEF Process, Goto
  <2>3. QED
    BY <1>0, <1>1, <2>1, <2>2
<1>6. ASSUME NEW r \in Requests, Upload(r) PROVE RowLocks'
  <2>1. Others(r)
    BY <1>6, RequestsMoveAlone DEF Serve
  <2>2. pc'[r] = "lock" /\ image' = image
    BY <1>0, <1>6 DEF Upload, Goto
  <2>3. QED
    BY <1>1, <2>1, <2>2
<1>7. ASSUME NEW r \in Requests, LockImage(r) PROVE RowLocks'
  <2>1. Others(r)
    BY <1>7, RequestsMoveAlone DEF Serve
  <2>2. /\ pc'[r] = "locked" /\ previous'[r] = image[user[r]]
        /\ UNCHANGED <<image, user, uploaded>>
    BY <1>0, <1>7 DEF LockImage, Goto
  <2>3. \A q \in Requests \ {r} : pc[q] = "locked" => user[q] # user[r]
    BY <1>7 DEF LockImage, RowIsFree
  <2>4. QED
    BY <2>1, <2>2, <2>3 DEF RowLocks, Others
<1>8. ASSUME NEW r \in Requests, Commit(r) PROVE RowLocks'
  <2>1. Others(r)
    BY <1>8, RequestsMoveAlone DEF Serve
  <2>2. pc[r] = "locked" /\ pc'[r] = "reclaim" /\ image' = [image EXCEPT ![user[r]] = uploaded[r]]
    BY <1>0, <1>8 DEF Commit, Goto
  <2>3. QED
    BY <1>1, <2>1, <2>2
<1>9. ASSUME NEW r \in Requests, RollBack(r) \/ CommitUnacknowledged(r) PROVE RowLocks'
  <2>1. \/ image' = image
        \/ pc[r] = "locked" /\ \E k : image' = [image EXCEPT ![user[r]] = k]
    BY <1>9 DEF RollBack, CommitUnacknowledged
  <2>2. CASE uploaded[r] = NoKey
    BY <1>2, <1>9, <2>1, <2>2 DEF RollBack, CommitUnacknowledged
  <2>3. CASE uploaded[r] # NoKey
    <3>1. Others(r)
      BY <1>9, RequestsMoveAlone DEF Serve
    <3>2. pc'[r] = "cleanup" /\ uploaded' = uploaded
      BY <1>0, <1>9, <2>3 DEF RollBack, CommitUnacknowledged
    <3>3. QED
      BY <1>1, <2>1, <2>3, <3>1, <3>2
  <2>4. QED
    BY <2>2, <2>3
<1>10. ASSUME UNCHANGED vars PROVE RowLocks'
  BY <1>10 DEF vars, RowLocks
<1>11. QED
  BY <1>3, <1>4, <1>5, <1>6, <1>7, <1>8, <1>9, <1>10 DEF Next, Serve

----------------------------------------------------------------------------
(***************************************************************************)
(* Avatars and objects.                                                    *)
(***************************************************************************)

\* What a step puts into the hands of the request that takes it.
LEMMA HandsMove ==
  ASSUME TypeOK, RowLocks, NEW r \in Requests
  PROVE  /\ \A u \in Users : Replace(r, u) \/ Clear(r, u) => InHand(r)' = {}
         /\ Process(r) => InHand(r)' = {nextKey}
         /\ Upload(r) => InHand(r) = {uploaded[r]} /\ InHand(r)' = InHand(r)
         /\ LockImage(r) => InHand(r)' = InHand(r)
         /\ RollBack(r) => InHand(r)' = InHand(r)
         /\ Commit(r) => /\ InHand(r) = {uploaded[r]} \ {NoKey}
                         /\ InHand(r)' = {image[user[r]]} \ {NoKey}
         /\ CommitUnacknowledged(r) => /\ InHand(r) = {uploaded[r]} \ {NoKey}
                                       /\ InHand(r)' = InHand(r)
                                       /\ leaked' = leaked \union ({image[user[r]]} \ {NoKey})
<1>0. /\ nextKey \in Nat /\ 0 < nextKey /\ pc \in [Requests -> Pc]
      /\ uploaded \in [Requests -> Nat] /\ previous \in [Requests -> Nat]
  BY DEF TypeOK
<1>1. ASSUME NEW u \in Users, Replace(r, u) \/ Clear(r, u) PROVE InHand(r)' = {}
  <2>1. pc'[r] \in {"process", "lock"} /\ uploaded'[r] = NoKey
    BY <1>0, <1>1 DEF Replace, Clear, Goto, RowLocks
  <2>2. QED
    BY <2>1 DEF InHand
<1>2. ASSUME Process(r) PROVE InHand(r)' = {nextKey}
  <2>1. pc'[r] = "upload" /\ uploaded'[r] = nextKey
    BY <1>0, <1>2 DEF Process, Goto
  <2>2. QED
    BY <1>0, <2>1 DEF InHand
<1>3. ASSUME Upload(r) PROVE InHand(r) = {uploaded[r]} /\ InHand(r)' = InHand(r)
  <2>1. pc[r] = "upload" /\ uploaded[r] # NoKey /\ pc'[r] = "lock" /\ uploaded' = uploaded
    BY <1>0, <1>3 DEF Upload, Goto, RowLocks
  <2>2. QED
    BY <2>1 DEF InHand
<1>4. ASSUME LockImage(r) PROVE InHand(r)' = InHand(r)
  <2>1. pc[r] = "lock" /\ pc'[r] = "locked" /\ uploaded' = uploaded
    BY <1>0, <1>4 DEF LockImage, Goto
  <2>2. QED
    BY <2>1 DEF InHand
\* A failed transaction leaves the uploaded object to the cleanup.
<1>5. ASSUME pc[r] \in {"lock", "locked"},
             IF uploaded[r] = NoKey
             THEN Finish(r)
             ELSE /\ pc' = [pc EXCEPT ![r] = "cleanup"]
                  /\ UNCHANGED <<user, uploaded, previous>>
      PROVE  InHand(r) = {uploaded[r]} \ {NoKey} /\ InHand(r)' = InHand(r)
  <2>1. InHand(r) = {uploaded[r]} \ {NoKey}
    BY <1>5, InHandCases
  <2>2. CASE uploaded[r] = NoKey
    BY <1>5, <2>1, <2>2, FinishEnds
  <2>3. CASE uploaded[r] # NoKey
    <3>1. pc'[r] = "cleanup" /\ uploaded' = uploaded
      BY <1>0, <1>5, <2>3
    <3>2. QED
      BY <2>1, <3>1 DEF InHand, Doomed
  <2>4. QED
    BY <2>1, <2>2, <2>3
<1>6. ASSUME Commit(r)
      PROVE  InHand(r) = {uploaded[r]} \ {NoKey} /\ InHand(r)' = {image[user[r]]} \ {NoKey}
  <2>1. /\ pc[r] = "locked" /\ previous[r] = image[user[r]]
        /\ pc'[r] = "reclaim" /\ previous' = previous
    BY <1>0, <1>6 DEF Commit, Goto, RowLocks
  <2>2. QED
    BY <2>1 DEF InHand, Doomed
<1>7. ASSUME CommitUnacknowledged(r)
      PROVE  /\ InHand(r) = {uploaded[r]} \ {NoKey}
             /\ InHand(r)' = InHand(r)
             /\ leaked' = leaked \union ({image[user[r]]} \ {NoKey})
  <2>1. pc[r] = "locked" /\ previous[r] = image[user[r]]
    BY <1>7 DEF CommitUnacknowledged, RowLocks
  <2>2. QED
    BY <1>5, <1>7, <2>1 DEF CommitUnacknowledged
<1>8. QED
  BY <1>1, <1>2, <1>3, <1>4, <1>5, <1>6, <1>7 DEF RollBack

\* A key never gets a second holder, and no avatar is deleted.
LEMMA StepHolders ==
  TypeOK /\ KeyBounds /\ RowLocks /\ KeysHaveOneHolder /\ AvatarExists /\ [Next]_vars
    => KeysHaveOneHolder' /\ AvatarExists'
<1> DEFINE Holders == /\ \A u, v \in Users : u # v /\ image[u] = image[v] => image[u] = NoKey
                      /\ \A r \in Requests : InHand(r) \intersect Referenced = {}
                      /\ \A q, r \in Requests : q # r => InHand(q) \intersect InHand(r) = {}
                      /\ \A r \in Requests : pc[r] \in {"lock", "locked"} => InHand(r) \subseteq objects
                      /\ Referenced \subseteq objects
<1> SUFFICES ASSUME TypeOK, KeyBounds, RowLocks, KeysHaveOneHolder, AvatarExists, [Next]_vars,
                    lostAcks' = 0
             PROVE  Holders'
  BY DEF KeysHaveOneHolder, AvatarExists
<1> USE DEF store, locals, faulty
<1>0. /\ nextKey \in Nat /\ 0 < nextKey /\ pc \in [Requests -> Pc] /\ lostAcks \in Nat
      /\ image \in [Users -> Nat] /\ uploaded \in [Requests -> Nat] /\ previous \in [Requests -> Nat]
      /\ user \in [Requests -> Users]
  BY DEF TypeOK
<1>1. ASSUME NEW r \in Requests, CommitUnacknowledged(r) PROVE FALSE
  BY <1>0, <1>1 DEF CommitUnacknowledged
<1>2. lostAcks = 0
  <2>1. ASSUME \A r \in Requests : ~CommitUnacknowledged(r) PROVE lostAcks' = lostAcks
    BY <2>1 DEF Next, Replace, Clear, Serve, ProcessFails, Process, Upload, UploadFails, LockImage,
      Commit, RollBack, Delete, DeleteFails, Abort, vars
  <2>2. QED
    BY <1>1, <2>1
<1>3. Holders
  BY <1>2 DEF KeysHaveOneHolder, AvatarExists
<1> HIDE DEF Holders
\* A request that takes nothing new into its hands, while no object goes.
<1>4. ASSUME NEW r \in Requests, Others(r), image' = image, objects \subseteq objects',
             InHand(r)' \subseteq InHand(r),
             pc'[r] \in {"lock", "locked"} => InHand(r)' \subseteq objects'
      PROVE  Holders'
  <2>1. Referenced' = Referenced
    BY <1>4 DEF Referenced
  <2>2. \A q \in Requests \ {r} : InHand(q)' = InHand(q) /\ pc'[q] = pc[q]
    BY <1>4, OthersKeep DEF Others
  <2>3. \A q \in Requests : InHand(q)' \subseteq InHand(q)
    BY <1>4, <2>2
  <2>4. QED
    BY <1>3, <1>4, <2>1, <2>2, <2>3 DEF Holders
<1>5. ASSUME NEW r \in Requests, Finish(r), image' = image, objects \subseteq objects' PROVE Holders'
  <2>1. Others(r) /\ InHand(r)' = {}
    BY <1>5, FinishEnds
  <2>2. QED
    BY <1>4, <1>5, <2>1
<1>6. ASSUME NEW r \in Requests, NEW u \in Users, Replace(r, u) \/ Clear(r, u) PROVE Holders'
  <2>1. Others(r)
    BY <1>6, RequestsMoveAlone
  <2>2. InHand(r)' = {}
    BY <1>6, HandsMove
  <2>3. image' = image /\ objects' = objects
    BY <1>6 DEF Replace, Clear
  <2>4. QED
    BY <1>4, <2>1, <2>2, <2>3
<1>7. ASSUME NEW r \in Requests, ProcessFails(r) \/ UploadFails(r) \/ DeleteFails(r) \/ Abort(r)
      PROVE  Holders'
  BY <1>5, <1>7 DEF ProcessFails, UploadFails, DeleteFails, Abort
<1>8. ASSUME NEW r \in Requests, Process(r) PROVE Holders'
  <2>1. Others(r)
    BY <1>8, RequestsMoveAlone DEF Serve
  <2>2. InHand(r)' = {nextKey} /\ pc'[r] = "upload"
    BY <1>0, <1>8, HandsMove DEF Process, Goto
  <2>3. UNCHANGED <<image, objects>>
    BY <1>8 DEF Process
  <2>4. nextKey \notin Referenced /\ \A q \in Requests : nextKey \notin InHand(q)
    <3>1. \A u \in Users : image[u] # nextKey
      BY <1>0 DEF KeyBounds
    <3>2. \A q \in Requests : uploaded[q] # nextKey /\ previous[q] # nextKey
      BY <1>0 DEF KeyBounds
    <3>3. QED
      BY <3>1, <3>2 DEF Referenced, InHand, Doomed
  <2>5. Referenced' = Referenced
    BY <2>3 DEF Referenced
  <2>6. \A q \in Requests \ {r} : InHand(q)' = InHand(q) /\ pc'[q] = pc[q]
    BY <2>1, OthersKeep DEF Others
  <2>7. QED
    BY <1>3, <2>2, <2>3, <2>4, <2>5, <2>6 DEF Holders
<1>9. ASSUME NEW r \in Requests, Upload(r) PROVE Holders'
  <2>1. Others(r)
    BY <1>9, RequestsMoveAlone DEF Serve
  <2>2. InHand(r)' = InHand(r) /\ InHand(r) = {uploaded[r]}
    BY <1>9, HandsMove
  <2>3. image' = image /\ objects' = objects \union InHand(r)
    BY <1>9, <2>2 DEF Upload
  <2>4. QED
    BY <1>4, <2>1, <2>2, <2>3
<1>10. ASSUME NEW r \in Requests, LockImage(r) PROVE Holders'
  <2>1. Others(r)
    BY <1>10, RequestsMoveAlone DEF Serve
  <2>2. InHand(r)' = InHand(r) /\ UNCHANGED <<image, objects>> /\ pc[r] = "lock"
    BY <1>10, HandsMove DEF LockImage, Goto
  <2>3. InHand(r) \subseteq objects
    BY <1>3, <2>2 DEF Holders
  <2>4. QED
    BY <1>4, <2>1, <2>2, <2>3
<1>11. ASSUME NEW r \in Requests, RollBack(r) PROVE Holders'
  <2>1. Others(r)
    BY <1>11, RequestsMoveAlone DEF Serve
  <2>2. InHand(r)' = InHand(r) /\ UNCHANGED <<image, objects>> /\ pc[r] \in {"lock", "locked"}
    BY <1>11, HandsMove DEF RollBack
  <2>3. InHand(r) \subseteq objects
    BY <1>3, <2>2 DEF Holders
  <2>4. QED
    BY <1>4, <2>1, <2>2, <2>3
<1>12. ASSUME NEW r \in Requests, Commit(r) PROVE Holders'
  <2>1. Others(r)
    BY <1>12, RequestsMoveAlone DEF Serve
  <2>2. /\ InHand(r) = {uploaded[r]} \ {NoKey} /\ InHand(r)' = {image[user[r]]} \ {NoKey}
        /\ pc[r] = "locked" /\ pc'[r] = "reclaim" /\ objects' = objects
    BY <1>0, <1>12, HandsMove DEF Commit, Goto
  <2>3. /\ user[r] \in Users /\ image'[user[r]] = uploaded[r]
        /\ \A u \in Users \ {user[r]} : image'[u] = image[u]
    BY <1>0, <1>12 DEF Commit
  <2>4. \A q \in Requests \ {r} : InHand(q)' = InHand(q) /\ pc'[q] = pc[q]
    BY <2>1, OthersKeep DEF Others
  <2>5. \A u \in Users : image[u] \in Referenced \/ image[u] = NoKey
    BY DEF Referenced
  <2>6. Referenced' \subseteq Referenced \union InHand(r)
    BY <2>2, <2>3 DEF Referenced
  <2>7. \A u, v \in Users : u # v /\ image'[u] = image'[v] => image'[u] = NoKey
    <3>1. ASSUME NEW u \in Users \ {user[r]}, image[u] = uploaded[r] PROVE uploaded[r] = NoKey
      BY <1>3, <2>2, <2>5, <3>1 DEF Holders
    <3>2. QED
      BY <1>3, <2>3, <3>1 DEF Holders
  <2>8. \A q \in Requests : InHand(q)' \intersect Referenced' = {}
    <3>1. InHand(r)' \intersect Referenced' = {}
      <4>1. SUFFICES ASSUME image[user[r]] # NoKey, image[user[r]] \in Referenced' PROVE FALSE
        BY <2>2
      <4>2. PICK u \in Users : image'[u] = image[user[r]]
        BY <4>1 DEF Referenced
      <4>3. CASE u = user[r]
        BY <1>3, <2>2, <2>3, <2>5, <4>1, <4>2, <4>3 DEF Holders
      <4>4. CASE u # user[r]
        BY <1>3, <2>3, <4>1, <4>2, <4>4 DEF Holders
      <4>5. QED
        BY <4>3, <4>4
    <3>2. \A q \in Requests \ {r} : InHand(q)' \intersect Referenced' = {}
      BY <1>3, <2>4, <2>6 DEF Holders
    <3>3. QED
      BY <3>1, <3>2
  <2>9. \A q \in Requests \ {r} : InHand(q)' \intersect InHand(r)' = {}
    BY <1>3, <2>2, <2>3, <2>4, <2>5 DEF Holders
  <2>10. \A p, q \in Requests : p # q => InHand(p)' \intersect InHand(q)' = {}
    BY <1>3, <2>4, <2>9 DEF Holders
  <2>11. Referenced' \subseteq objects'
    BY <1>3, <2>2, <2>6 DEF Holders
  <2>12. \A q \in Requests : pc'[q] \in {"lock", "locked"} => InHand(q)' \subseteq objects'
    BY <1>3, <2>2, <2>4 DEF Holders
  <2>13. QED
    BY <2>7, <2>8, <2>10, <2>11, <2>12 DEF Holders
<1>13. ASSUME NEW r \in Requests, Delete(r) PROVE Holders'
  <2>1. Others(r) /\ InHand(r)' = {} /\ pc'[r] = "idle"
    BY <1>13, FinishEnds DEF Delete
  <2>2. objects' = objects \ InHand(r) /\ image' = image
    BY <1>13, InHandCases DEF Delete
  <2>3. Referenced' = Referenced
    BY <2>2 DEF Referenced
  <2>4. \A q \in Requests \ {r} : InHand(q)' = InHand(q) /\ pc'[q] = pc[q]
    BY <2>1, OthersKeep DEF Others
  <2>5. QED
    BY <1>3, <2>1, <2>2, <2>3, <2>4 DEF Holders
<1>14. ASSUME UNCHANGED vars PROVE Holders'
  <2>1. Referenced' = Referenced /\ \A q \in Requests : InHand(q)' = InHand(q)
    BY <1>14 DEF vars, Referenced, InHand, Doomed
  <2>2. UNCHANGED <<image, objects, pc>>
    BY <1>14 DEF vars
  <2>3. QED
    BY <1>3, <2>1, <2>2 DEF Holders
<1>15. QED
  BY <1>1, <1>6, <1>7, <1>8, <1>9, <1>10, <1>11, <1>12, <1>13, <1>14 DEF Next, Serve

\* An object that is stored never loses everybody who knows of it.
LEMMA StepOrphans == TypeOK /\ RowLocks /\ OrphansHaveCause /\ [Next]_vars => OrphansHaveCause'
<1> SUFFICES ASSUME TypeOK, RowLocks, OrphansHaveCause, [Next]_vars,
                    NEW k \in objects'
             PROVE  \/ k \in Referenced'
                    \/ k \in leaked'
                    \/ \E r \in Requests : k \in InHand(r)'
  BY DEF OrphansHaveCause
<1> DEFINE Known == \/ k \in Referenced'
                    \/ k \in leaked'
                    \/ \E r \in Requests : k \in InHand(r)'
<1> USE DEF store, locals, faulty
<1>0. /\ image \in [Users -> Nat] /\ user \in [Requests -> Users] /\ pc \in [Requests -> Pc]
  BY DEF TypeOK
<1>1. k \in objects => \/ k \in Referenced
                       \/ k \in leaked
                       \/ \E r \in Requests : k \in InHand(r)
  BY DEF OrphansHaveCause
\* The avatars stay, and what a request lets go of is leaked or gone.
<1>2. ASSUME NEW r \in Requests, Others(r), leaked \subseteq leaked', image' = image,
             k \in objects \/ k \in InHand(r)' \/ k \in leaked',
             k \in InHand(r) => k \in InHand(r)' \/ k \in leaked'
      PROVE  Known
  <2>1. Referenced' = Referenced
    BY <1>2 DEF Referenced
  <2>2. \A q \in Requests \ {r} : InHand(q)' = InHand(q)
    BY <1>2, OthersKeep
  <2>3. QED
    BY <1>1, <1>2, <2>1, <2>2
<1>3. ASSUME NEW r \in Requests, NEW u \in Users, Replace(r, u) \/ Clear(r, u) PROVE Known
  <2>1. Others(r)
    BY <1>3, RequestsMoveAlone
  <2>2. InHand(r) = {}
    BY <1>3, InHandCases DEF Replace, Clear, Goto
  <2>3. QED
    BY <1>2, <1>3, <2>1, <2>2 DEF Replace, Clear
<1>4. ASSUME NEW r \in Requests, ProcessFails(r) PROVE Known
  <2>1. InHand(r) = {} /\ Others(r)
    BY <1>4, FinishEnds, InHandCases DEF ProcessFails
  <2>2. QED
    BY <1>2, <1>4, <2>1 DEF ProcessFails
<1>5. ASSUME NEW r \in Requests, Process(r) PROVE Known
  <2>1. Others(r)
    BY <1>5, RequestsMoveAlone DEF Serve
  <2>2. InHand(r) = {}
    BY <1>5, InHandCases DEF Process, Goto
  <2>3. QED
    BY <1>2, <1>5, <2>1, <2>2 DEF Process
<1>6. ASSUME NEW r \in Requests, Upload(r) PROVE Known
  <2>1. Others(r)
    BY <1>6, RequestsMoveAlone DEF Serve
  <2>2. InHand(r)' = InHand(r) /\ InHand(r) = {uploaded[r]}
    BY <1>6, HandsMove
  <2>3. QED
    BY <1>2, <1>6, <2>1, <2>2 DEF Upload
<1>7. ASSUME NEW r \in Requests, UploadFails(r) PROVE Known
  <2>1. Others(r)
    BY <1>7, FinishEnds DEF UploadFails
  <2>2. InHand(r) \subseteq leaked' /\ leaked \subseteq leaked' /\ objects' \subseteq objects \union leaked'
    BY <1>7, InHandCases DEF UploadFails
  <2>3. QED
    BY <1>2, <1>7, <2>1, <2>2 DEF UploadFails
<1>8. ASSUME NEW r \in Requests, LockImage(r) \/ RollBack(r) PROVE Known
  <2>1. Others(r)
    BY <1>8, RequestsMoveAlone DEF Serve
  <2>2. InHand(r)' = InHand(r)
    BY <1>8, HandsMove
  <2>3. UNCHANGED <<image, objects, leaked>>
    BY <1>8 DEF LockImage, RollBack
  <2>4. QED
    BY <1>2, <2>1, <2>2, <2>3
\* The avatar that is overwritten is in the hands of the request, or leaked.
<1>9. ASSUME NEW r \in Requests, Commit(r) \/ CommitUnacknowledged(r) PROVE Known
  <2>1. Others(r)
    BY <1>9, RequestsMoveAlone DEF Serve
  <2>2. /\ image' = [image EXCEPT ![user[r]] = uploaded[r]]
        /\ objects' = objects /\ leaked \subseteq leaked'
    BY <1>9 DEF Commit, CommitUnacknowledged
  <2>3. {image[user[r]]} \ {NoKey} \subseteq InHand(r)' \union leaked'
    BY <1>9, HandsMove
  <2>4. InHand(r) \subseteq Referenced'
    <3>1. InHand(r) = {uploaded[r]} \ {NoKey}
      BY <1>9, HandsMove
    <3>2. image'[user[r]] = uploaded[r]
      BY <1>0, <2>2
    <3>3. QED
      BY <1>0, <3>1, <3>2 DEF Referenced
  <2>5. Referenced \subseteq Referenced' \union {image[user[r]]}
    BY <1>0, <2>2 DEF Referenced
  <2>6. \A q \in Requests \ {r} : InHand(q)' = InHand(q)
    BY <2>1, OthersKeep
  <2>7. NoKey \notin Referenced
    BY DEF Referenced
  <2>8. QED
    BY <1>1, <2>2, <2>3, <2>4, <2>5, <2>6, <2>7
<1>10. ASSUME NEW r \in Requests, Delete(r) PROVE Known
  <2>1. Others(r) /\ objects' = objects \ InHand(r)
    BY <1>10, FinishEnds, InHandCases DEF Delete
  <2>2. QED
    BY <1>2, <1>10, <2>1 DEF Delete
<1>11. ASSUME NEW r \in Requests, DeleteFails(r) \/ Abort(r) PROVE Known
  <2>1. Others(r)
    BY <1>11, FinishEnds DEF DeleteFails, Abort
  <2>2. leaked' = leaked \union InHand(r) /\ UNCHANGED <<image, objects>>
    BY <1>11, InHandCases DEF DeleteFails, Abort
  <2>3. QED
    BY <1>2, <2>1, <2>2
<1>12. ASSUME UNCHANGED vars PROVE Known
  <2>1. Referenced' = Referenced /\ \A q \in Requests : InHand(q)' = InHand(q)
    BY <1>12 DEF vars, Referenced, InHand, Doomed
  <2>2. QED
    BY <1>1, <1>12, <2>1 DEF vars
<1>13. QED
  BY <1>3, <1>4, <1>5, <1>6, <1>7, <1>8, <1>9, <1>10, <1>11, <1>12 DEF Next, Serve

----------------------------------------------------------------------------
(***************************************************************************)
(* Theorems.                                                               *)
(***************************************************************************)

\* The parts of the invariant hold together after every step.
LEMMA StepInv == IInv /\ [Next]_vars => IInv'
  BY StepTyped, StepKeyBounds, StepRowLocks, StepHolders, StepOrphans DEF IInv

\* The inductive invariant holds, for any users, requests, keys and faults.
THEOREM Invariant == Spec => []IInv
  BY InitInv, StepInv, PTL DEF Spec

\* Every variable stays in its range.
THEOREM TypeCorrect == Spec => []TypeOK
<1>1. IInv => TypeOK
  BY DEF IInv
<1>2. QED
  BY <1>1, Invariant, PTL

\* An avatar that is served is in the store (AvatarReplacementService.replace): no
\* race, failure or death deletes it, if no COMMIT was reported as failed.
THEOREM AvatarsStay == Spec => []AvatarExists
<1>1. IInv => AvatarExists
  BY DEF IInv
<1>2. QED
  BY <1>1, Invariant, PTL

\* Superseded and failed uploads are in somebody's hands, or their removal failed
\* (cleanupPreviousAvatar, cleanupFailedUpload).
THEOREM OrphansAreKnown == Spec => []OrphansHaveCause
<1>1. IInv => OrphansHaveCause
  BY DEF IInv
<1>2. QED
  BY <1>1, Invariant, PTL

\* What the cleanups are going to delete is nobody's avatar and nobody else's upload.
THEOREM DoomedStayUnreferenced == Spec => []DoomedIsUnreferenced
<1>1. IInv => DoomedIsUnreferenced
  BY InHandCases DEF IInv, KeysHaveOneHolder, DoomedIsUnreferenced
<1>2. QED
  BY <1>1, Invariant, PTL

----------------------------------------------------------------------------
(***************************************************************************)
(* The implementation of AvatarStore.                                      *)
(***************************************************************************)

\* The key a request may still make an avatar.
Promise(r) == IF pc[r] \in {"upload", "lock", "locked"} THEN {uploaded[r]} \ {NoKey} ELSE {}

\* What makes a key retired: it was generated, is nobody's avatar and in no request's
\* promise.
LEMMA RetiredKeys ==
  /\ Retired \subseteq Keys
  /\ \A k \in Keys : k \in Retired
       <=> k < nextKey /\ k \notin Referenced /\ \A q \in Requests : k \notin Promise(q)
  BY DEF Retired, Promised, Promise

\* The same in the next state.
LEMMA RetiredKeysNext ==
  /\ Retired' \subseteq Keys
  /\ \A k \in Keys : k \in Retired'
       <=> k < nextKey' /\ k \notin Referenced' /\ \A q \in Requests : k \notin Promise(q)'
  BY DEF Retired, Promised, Promise

\* A promise is in the hands of its request, which has it for itself, and is no avatar.
LEMMA PromisesAreKept ==
  ASSUME TypeOK, KeyBounds, KeysHaveOneHolder, lostAcks = 0, NEW r \in Requests
  PROVE  /\ Promise(r) \subseteq InHand(r)
         /\ Promise(r) \intersect Referenced = {}
         /\ \A q \in Requests \ {r} : Promise(q) \intersect InHand(r) = {}
         /\ \A k \in Promise(r) : k \in Keys /\ k < nextKey
<1>1. \A q \in Requests : Promise(q) \subseteq InHand(q)
  BY InHandCases DEF Promise
<1>2. /\ InHand(r) \intersect Referenced = {}
      /\ \A q \in Requests \ {r} : InHand(q) \intersect InHand(r) = {}
  BY DEF KeysHaveOneHolder
<1>3. \A k \in Promise(r) : k \in Keys /\ k < nextKey
  BY DEF Promise, TypeOK, KeyBounds
<1>4. QED
  BY <1>1, <1>2, <1>3

\* The promises of the others are what they were.
LEMMA OthersPromise ==
  ASSUME NEW r \in Requests, Others(r)
  PROVE  \A q \in Requests \ {r} : Promise(q)' = Promise(q)
  BY DEF Others, Promise

\* No key is retired by a step that changes no avatar and no promise.
LEMMA NothingRetired ==
  ASSUME NEW r \in Requests, Others(r), Promise(r)' = Promise(r), UNCHANGED <<image, nextKey>>
  PROVE  Retired' = Retired
<1>1. Referenced' = Referenced
  BY DEF Referenced
<1>2. \A q \in Requests : Promise(q)' = Promise(q)
  BY OthersPromise
<1>3. \A l \in Keys : l \in Retired' <=> l \in Retired
  BY <1>1, <1>2, RetiredKeys, RetiredKeysNext
<1>4. QED
  BY <1>3, RetiredKeys, RetiredKeysNext

\* A promise that is not kept is given up.
LEMMA PromiseBroken ==
  ASSUME TypeOK, KeyBounds, KeysHaveOneHolder, lostAcks = 0, NEW r \in Requests, Others(r),
         Promise(r)' = {}, UNCHANGED <<image, nextKey>>, NEW k \in Promise(r),
         objects' \in {objects, objects \union {k}}
  PROVE  k \in Keys /\ Avatars!GiveUp(k)
<1>1. Promise(r) = {k}
  BY DEF Promise
<1>2. k \in Keys /\ k < nextKey /\ k \notin Referenced
  BY PromisesAreKept
<1>3. \A q \in Requests \ {r} : k \notin Promise(q)'
  BY PromisesAreKept, OthersPromise
<1>4. Referenced' = Referenced
  BY DEF Referenced
<1>5. Retired' = Retired \union {k} /\ k \notin Retired
  <2>1. \A q \in Requests \ {r} : Promise(q)' = Promise(q)
    BY OthersPromise
  <2>2. \A l \in Keys : l \in Retired' <=> l \in Retired \/ l = k
    BY <1>1, <1>2, <1>3, <1>4, <2>1, RetiredKeys, RetiredKeysNext
  <2>3. QED
    BY <1>1, <1>2, <2>2, RetiredKeys, RetiredKeysNext
<1>6. QED
  BY <1>2, <1>5 DEF Avatars!GiveUp, Avatars!Shown, Referenced

\* What a request is going to delete is retired.
LEMMA DoomedAreRetired ==
  ASSUME TypeOK, KeyBounds, KeysHaveOneHolder, lostAcks = 0, NEW r \in Requests,
         pc[r] \in {"cleanup", "reclaim"}
  PROVE  /\ Doomed(r) \subseteq Retired
         /\ Doomed(r) = {} \/ \E k \in Keys : Doomed(r) = {k}
<1>1. Doomed(r) = InHand(r) /\ Promise(r) = {}
  BY InHandCases DEF Promise
<1>2. \A k \in Doomed(r) : k \in Keys /\ k < nextKey
  BY DEF Doomed, TypeOK, KeyBounds
<1>3. Doomed(r) \intersect Referenced = {}
  BY <1>1 DEF KeysHaveOneHolder
<1>4. \A q \in Requests : Promise(q) \intersect Doomed(r) = {}
  BY <1>1, PromisesAreKept
<1>5. Doomed(r) \subseteq Retired
  BY <1>2, <1>3, <1>4, RetiredKeys
<1>6. Doomed(r) = {} \/ \E k : Doomed(r) = {k}
  BY DEF Doomed
<1>7. QED
  BY <1>2, <1>5, <1>6

\* A commit is the switch of an avatar: to the uploaded key, or to none.
LEMMA CommitSwitches ==
  ASSUME TypeOK, KeyBounds, RowLocks, KeysHaveOneHolder, lostAcks = 0,
         NEW r \in Requests, Others(r), Commit(r)
  PROVE  Avatars!Keep
<1> DEFINE u == user[r]
           k == uploaded[r]
           old == image[u]
<1>1. /\ u \in Users /\ k \in Keys \union {NoKey} /\ old \in Keys \union {NoKey}
      /\ image' = [image EXCEPT ![u] = k] /\ UNCHANGED <<objects, nextKey>>
      /\ pc[r] = "locked" /\ pc'[r] = "reclaim"
  BY DEF Commit, Goto, TypeOK
<1>2. Promise(r) = {k} \ {NoKey} /\ Promise(r)' = {} /\ InHand(r) = {k} \ {NoKey}
  BY <1>1, InHandCases DEF Promise
<1>3. \A v \in Users : image[v] = old /\ old # NoKey => v = u
  BY <1>1 DEF KeysHaveOneHolder
<1>4. image \in [Users -> Keys \union {NoKey}] /\ old < nextKey
  BY <1>1 DEF TypeOK, KeyBounds
<1> HIDE DEF u, k
<1>5. /\ k \notin Referenced
      /\ k # NoKey => k \in objects /\ k < nextKey
  <2>1. InHand(r) \subseteq objects /\ InHand(r) \intersect Referenced = {}
    BY <1>1 DEF KeysHaveOneHolder
  <2>2. NoKey \notin Referenced
    BY DEF Referenced
  <2>3. QED
    BY <1>2, <2>1, <2>2, PromisesAreKept
<1>6. Referenced' = (Referenced \ {old}) \union ({k} \ {NoKey})
  BY <1>1, <1>3, <1>4, <1>5 DEF Referenced
<1>7. \A q \in Requests \ {r} : Promise(q)' = Promise(q) /\ k \notin Promise(q) \ {NoKey}
  BY <1>2, OthersPromise, PromisesAreKept
<1>8. old # NoKey => old \in Referenced /\ \A q \in Requests : old \notin Promise(q)
  BY <1>1, PromisesAreKept DEF Referenced
<1> HIDE DEF old
<1>9. Retired' = Retired \union ({old} \ {NoKey}) /\ k \notin Retired
  <2>1. ASSUME NEW l \in Keys PROVE l \in Retired' <=> l \in Retired \/ l = old
    <3>1. l # NoKey
      OBVIOUS
    <3>2. CASE l = old
      BY <1>1, <1>2, <1>4, <1>5, <1>6, <1>7, <1>8, <3>1, <3>2, RetiredKeysNext
    <3>3. CASE l # old
      <4>1. (\A q \in Requests : l \notin Promise(q)') /\ l \notin Referenced'
              <=> (\A q \in Requests : l \notin Promise(q)) /\ l \notin Referenced
        BY <1>2, <1>6, <1>7, <3>1, <3>3
      <4>2. QED
        BY <1>1, <3>3, <4>1, RetiredKeys, RetiredKeysNext
    <3>4. QED
      BY <3>2, <3>3
  <2>2. k \notin Retired
    <3>1. CASE k = NoKey
      BY <3>1, RetiredKeys
    <3>2. CASE k # NoKey
      BY <1>1, <1>2, <3>2, RetiredKeys
    <3>3. QED
      BY <3>1, <3>2
  <2>3. Retired' = Retired \union ({old} \ {NoKey})
    <3>1. /\ NoKey \notin Keys /\ old \in Keys \union {NoKey}
          /\ Retired \subseteq Keys /\ Retired' \subseteq Keys
      BY <1>1, RetiredKeys, RetiredKeysNext
    <3> HIDE DEF Keys, NoKey
    <3>2. QED
      BY <2>1, <3>1
  <2>4. QED
    BY <2>2, <2>3
<1>10. Avatars!Switch(u, k)
  BY <1>1, <1>9 DEF Avatars!Switch, old
<1>11. CASE k = NoKey
  BY <1>1, <1>10, <1>11 DEF Avatars!Hide, Avatars!Keep
<1>12. CASE k # NoKey
  <2>1. Avatars!Show(u, k)
    BY <1>5, <1>9, <1>10, <1>12 DEF Avatars!Show, Avatars!Shown, Referenced
  <2>2. QED
    BY <1>1, <1>12, <2>1 DEF Avatars!Keep
<1>13. QED
  BY <1>11, <1>12

\* Every step of a request is one for the store, or nothing it shows, unless a COMMIT
\* was reported as failed and was not.
LEMMA AvatarStep == IInv /\ [Next]_vars => [Avatars!Next]_(Avatars!vars)
<1> SUFFICES ASSUME IInv, [Next]_vars
             PROVE  Avatars!Next \/ UNCHANGED <<image, objects, Retired, lostAcks>>
  BY DEF Avatars!vars
<1>1. TypeOK /\ KeyBounds /\ RowLocks /\ KeysHaveOneHolder
  BY DEF IInv
<1>2. CASE UNCHANGED vars
  <2>1. UNCHANGED <<image, nextKey, pc, uploaded>>
    BY <1>2 DEF vars, store, locals
  <2>2. Retired' = Retired
    BY <2>1 DEF Retired, Referenced, Promised
  <2>3. QED
    BY <1>2, <2>2 DEF vars, store, faulty
<1>3. CASE lostAcks' > 0
  BY <1>3 DEF Avatars!Next
<1>4. CASE ~(lostAcks' > 0) /\ Next
  <2>1. PICK r \in Requests : (\E u \in Users : Replace(r, u) \/ Clear(r, u)) \/ Serve(r) \/ Abort(r)
    BY <1>4 DEF Next
  <2>2. lostAcks \in Nat /\ Others(r) /\ pc \in [Requests -> Pc]
    BY <1>1, <2>1, RequestsMoveAlone DEF TypeOK
  <2>3. ~CommitUnacknowledged(r)
    BY <1>4, <2>2 DEF CommitUnacknowledged
  <2>4. lostAcks' = lostAcks /\ lostAcks = 0
    BY <1>4, <2>1, <2>2, <2>3 DEF Replace, Clear, Serve, ProcessFails, Process, Upload,
      UploadFails, LockImage, Commit, RollBack, Delete, DeleteFails, Abort, faulty
  <2>5. SUFFICES Avatars!Keep \/ UNCHANGED <<image, objects, Retired>>
    BY <2>4 DEF Avatars!Next
  <2>6. ASSUME NEW u \in Users, Replace(r, u) \/ Clear(r, u) PROVE UNCHANGED <<image, objects, Retired>>
    <3>1. Promise(r)' = Promise(r) /\ UNCHANGED <<image, objects, nextKey>>
      BY <1>1, <2>2, <2>6 DEF Replace, Clear, Goto, Promise, RowLocks, store
    <3>2. QED
      BY <2>2, <3>1, NothingRetired
  <2>7. CASE LockImage(r)
    <3>1. Promise(r)' = Promise(r) /\ UNCHANGED <<image, objects, nextKey>>
      BY <2>2, <2>7 DEF LockImage, Goto, Promise, store
    <3>2. QED
      BY <2>2, <3>1, NothingRetired
  <2>8. CASE ProcessFails(r) \/ DeleteFails(r)
    <3>1. Promise(r)' = Promise(r) /\ UNCHANGED <<image, objects, nextKey>>
      BY <1>1, <2>8, FinishEnds DEF ProcessFails, DeleteFails, Promise, store
    <3>2. QED
      BY <2>2, <3>1, NothingRetired
  <2>9. CASE Process(r)
    <3>1. /\ Promise(r) = {} /\ Promise(r)' = {nextKey} /\ nextKey' = nextKey + 1
          /\ nextKey \in Nat /\ UNCHANGED <<image, objects>>
      BY <1>1, <2>2, <2>9 DEF Process, Goto, Promise, TypeOK
    <3>2. Referenced' = Referenced
      BY <3>1 DEF Referenced
    <3>3. \A l \in Keys : l \in Retired' <=> l \in Retired
      BY <2>2, <3>1, <3>2, OthersPromise, RetiredKeys, RetiredKeysNext
    <3>4. QED
      BY <3>1, <3>3, RetiredKeys, RetiredKeysNext
  <2>10. CASE Upload(r)
    <3>1. /\ Promise(r)' = Promise(r) /\ uploaded[r] \in Promise(r) /\ UNCHANGED <<image, nextKey>>
          /\ objects' = objects \union {uploaded[r]}
      BY <1>1, <2>2, <2>10 DEF Upload, Goto, Promise, RowLocks
    <3>2. Retired' = Retired
      BY <2>2, <3>1, NothingRetired
    <3>3. uploaded[r] \in Keys /\ uploaded[r] \notin Retired \union Referenced
      BY <1>1, <2>4, <3>1, PromisesAreKept, RetiredKeys
    <3>4. Avatars!Put(uploaded[r])
      BY <3>1, <3>2, <3>3 DEF Avatars!Put, Avatars!Shown, Referenced
    <3>5. QED
      BY <3>3, <3>4 DEF Avatars!Keep
  <2>11. CASE UploadFails(r) \/ RollBack(r) \/ Abort(r)
    <3>1. /\ UNCHANGED <<image, nextKey>> /\ Promise(r)' = {}
          /\ objects' = objects \/ (pc[r] = "upload" /\ objects' = objects \union {uploaded[r]})
      <4>1. CASE Finish(r)
        BY <1>1, <2>11, <4>1, FinishEnds DEF UploadFails, RollBack, Abort, Promise, store
      <4>2. CASE ~Finish(r)
        BY <2>2, <2>11, <4>2 DEF UploadFails, RollBack, Abort, Promise, store
      <4>3. QED
        BY <4>1, <4>2
    <3>2. CASE Promise(r) = {}
      <4>1. objects' = objects
        BY <1>1, <3>1, <3>2 DEF Promise, RowLocks
      <4>2. QED
        BY <2>2, <3>1, <3>2, <4>1, NothingRetired
    <3>3. CASE Promise(r) # {}
      <4>1. uploaded[r] \in Promise(r)
        BY <3>3 DEF Promise
      <4>2. uploaded[r] \in Keys /\ Avatars!GiveUp(uploaded[r])
        BY <1>1, <2>2, <2>4, <3>1, <4>1, PromiseBroken
      <4>3. QED
        BY <4>2 DEF Avatars!Keep
    <3>4. QED
      BY <3>2, <3>3
  <2>12. CASE Commit(r)
    BY <1>1, <2>2, <2>4, <2>12, CommitSwitches
  <2>13. CASE Delete(r)
    <3>1. /\ pc[r] \in {"cleanup", "reclaim"} /\ objects' = objects \ Doomed(r)
          /\ Promise(r)' = Promise(r) /\ UNCHANGED <<image, nextKey>>
      BY <1>1, <2>13, FinishEnds DEF Delete, Promise
    <3>2. Retired' = Retired
      BY <2>2, <3>1, NothingRetired
    <3>3. CASE Doomed(r) = {}
      BY <3>1, <3>2, <3>3
    <3>4. CASE Doomed(r) # {}
      <4>1. PICK k \in Keys : Doomed(r) = {k} /\ k \in Retired
        BY <1>1, <2>4, <3>1, <3>4, DoomedAreRetired
      <4>2. Avatars!Remove(k)
        BY <3>1, <3>2, <4>1 DEF Avatars!Remove
      <4>3. QED
        BY <4>2 DEF Avatars!Keep
    <3>5. QED
      BY <3>3, <3>4
  <2>14. QED
    BY <2>1, <2>3, <2>6, <2>7, <2>8, <2>9, <2>10, <2>11, <2>12, <2>13 DEF Serve
<1>5. QED
  BY <1>2, <1>3, <1>4

\* Until a COMMIT that succeeded is reported as failed, whoever looks at avatars sees
\* each switched in one step to an object that is there and was never shown before,
\* and nothing removed but what was superseded or given up.
THEOREM ServiceImplementsAvatars == Spec => ImplementsAvatars
<1>1. Init => Avatars!Init
  <2> SUFFICES ASSUME Init PROVE Avatars!Init
    OBVIOUS
  <2>1. Retired = {}
    BY RetiredKeys DEF Init
  <2>2. QED
    BY <2>1 DEF Init, Avatars!Init
<1>2. QED
  BY <1>1, AvatarStep, Invariant, PTL DEF Spec, ImplementsAvatars, Avatars!Spec

\* An avatar that was replaced, cleared or given up does not come back, and its key is
\* nobody else's later.
THEOREM SupersededStaySuperseded == Spec => Avatars!RetiredForGood
<1> DEFINE ForGood == ~(lostAcks > 0)' => Retired \subseteq Retired' \ (Avatars!Shown)'
<1>1. ASSUME Avatars!Next PROVE ForGood
  <2>1. CASE (lostAcks > 0)'
    BY <2>1
  <2>2. CASE ~(lostAcks > 0)'
    <3>1. Retired \subseteq Retired'
      BY <1>1, <2>2 DEF Avatars!Next, Avatars!Keep, Avatars!Put, Avatars!GiveUp,
        Avatars!Remove, Avatars!Hide, Avatars!Show, Avatars!Switch
    <3>2. Retired' \intersect (Avatars!Shown)' = {}
      BY DEF Retired, Referenced, Avatars!Shown
    <3>3. QED
      BY <3>1, <3>2
  <2>3. QED
    BY <2>1, <2>2
<1>2. IInv /\ [Next]_vars => [ForGood]_(Avatars!vars)
  BY <1>1, AvatarStep
<1>3. QED
  BY <1>2, Invariant, PTL DEF Spec, Avatars!RetiredForGood
=============================================================================
