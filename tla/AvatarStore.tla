----------------------------- MODULE AvatarStore -----------------------------
(***************************************************************************)
(* What replacing an avatar promises to whoever looks at it, with no       *)
(* requests, transactions or locks in sight.  An avatar is switched in one *)
(* step to an object that is stored and that nobody has had for an avatar  *)
(* before; the key it had is retired for good; and only objects with       *)
(* retired keys are removed.                                               *)
(*                                                                         *)
(* All this until a COMMIT that succeeded is reported as failed: see the   *)
(* README.                                                                 *)
(***************************************************************************)
CONSTANTS
  Users,
  Keys,       \* keys of objects
  None        \* no key; not one of them

VARIABLES
  avatar,     \* the key of each user's avatar
  stored,     \* keys in the store
  retired,    \* keys that are nobody's avatar and will not be
  misled      \* a COMMIT was reported as failed and was not

vars == <<avatar, stored, retired, misled>>

Shown == {avatar[u] : u \in Users} \ {None}

Init ==
  /\ avatar = [u \in Users |-> None]
  /\ stored = {}
  /\ retired = {}
  /\ misled = FALSE

\* An object that may become an avatar.
Put(k) ==
  /\ k \notin retired \union Shown
  /\ stored' = stored \union {k}
  /\ UNCHANGED <<avatar, retired>>

\* The key a user had is retired with the avatar.
Switch(u, k) ==
  /\ avatar' = [avatar EXCEPT ![u] = k]
  /\ retired' = retired \union ({avatar[u]} \ {None})
  /\ UNCHANGED stored

Show(u, k) ==
  /\ k \in stored \ (retired \union Shown)
  /\ Switch(u, k)

Hide(u) == Switch(u, None)

\* Nothing came of it, stored or not.
GiveUp(k) ==
  /\ k \notin retired \union Shown
  /\ stored' \in {stored, stored \union {k}}
  /\ retired' = retired \union {k}
  /\ UNCHANGED avatar

Remove(k) ==
  /\ k \in retired
  /\ stored' = stored \ {k}
  /\ UNCHANGED <<avatar, retired>>

Keep ==
  \/ \E k \in Keys : Put(k) \/ GiveUp(k) \/ Remove(k)
  \/ \E u \in Users : Hide(u) \/ \E k \in Keys : Show(u, k)

Next ==
  \/ ~misled /\ UNCHANGED misled /\ Keep
  \/ misled' = TRUE

Spec == Init /\ [][Next]_vars

\* A key that was superseded or given up never is an avatar again.
RetiredForGood == [][~misled' => retired \subseteq retired' \ Shown']_vars
=============================================================================
