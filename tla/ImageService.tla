---------------------------- MODULE ImageService ----------------------------
(***************************************************************************)
(* What normalizing an image promises to its callers, with no pool, queue, *)
(* threads or timers in sight.  A call is admitted or turned away at once. *)
(* An admitted call is answered with the verdict on its own image, or told *)
(* that the service is unavailable.  No more calls are admitted than there *)
(* is capacity for, and while the service is open none is turned away for  *)
(* want of room unless as many wait as are promised a place.               *)
(***************************************************************************)
EXTENDS Naturals, FiniteSets

CONSTANTS
  Uploads,    \* calls
  Verdict,    \* per upload: the answer its image deserves
  Places,     \* calls that may wait before one is turned away
  Capacity    \* calls that may wait at the most

VARIABLES
  call,       \* per upload: "idle", "pending", or how it was answered
  phase,      \* "open", "closing" or "closed"
  installed   \* the worker's program has been seen

vars == <<call, phase, installed>>

Pending == {u \in Uploads : call[u] = "pending"}

Init ==
  /\ call = [u \in Uploads |-> "idle"]
  /\ phase = "open"
  /\ installed = FALSE

Admit(u) ==
  /\ call[u] = "idle"
  /\ phase = "open"
  /\ Cardinality(Pending) < Capacity
  /\ call' = [call EXCEPT ![u] = "pending"]
  /\ installed' = TRUE
  /\ UNCHANGED phase

\* The service is going, has never worked, or is full.
TurnAway(u) ==
  /\ call[u] = "idle"
  /\ phase # "open" \/ ~installed \/ Cardinality(Pending) >= Places
  /\ call' = [call EXCEPT ![u] = "unavailable"]
  /\ UNCHANGED <<phase, installed>>

\* The verdict, or none in time.
Answer(u) ==
  /\ call[u] = "pending"
  /\ call' \in {[call EXCEPT ![u] = a] : a \in {Verdict[u], "unavailable"}}
  /\ UNCHANGED <<phase, installed>>

\* The client has its answer.
Again(u) ==
  /\ call[u] \in {"normalized", "invalid", "unavailable"}
  /\ call' = [call EXCEPT ![u] = "idle"]
  /\ UNCHANGED <<phase, installed>>

Close ==
  /\ phase = "open"
  /\ phase' = "closing"
  /\ UNCHANGED <<call, installed>>

\* Whoever still waits is sent away.
Closed ==
  /\ phase = "closing"
  /\ phase' = "closed"
  /\ call' = [u \in Uploads |-> IF call[u] = "pending" THEN "unavailable" ELSE call[u]]
  /\ UNCHANGED installed

Next ==
  \/ \E u \in Uploads : Admit(u) \/ TurnAway(u) \/ Answer(u) \/ Again(u)
  \/ Close
  \/ Closed

Spec == Init /\ [][Next]_vars
=============================================================================
