-------------------------- MODULE MCProviderLinks --------------------------
(***************************************************************************)
(* Finite instances of ProviderLinks.                                      *)
(***************************************************************************)
EXTENDS ProviderLinks, TLC

\* Requests, subjects and accounts are only ever compared for equality.
LinkSymmetry ==
  Permutations(Requests) \union Permutations(Subjects) \union Permutations(Accounts)

\* Bound: at the end of time only a sweep starts before the others are answered.
Quiet(r) == now = MaxTime => pc'[r] = "sweeping" \/ \A q \in Requests \ {r} : pc[q] = "idle"

\* Bound: no more requests ask for a link than there are ids, except one that meets
\* another on its way to a key that is taken.
IdForEach(r) ==
  pc[r] = "byEmail" /\ pc'[r] = "issueRead" =>
    \/ nextId + Cardinality({q \in Requests :
         pc[q] \in {"issueRead", "clear", "clearing", "insert", "insertAccount"}}) <= MaxLinks
    \/ \E q \in Requests :
         pc[q] = "insert" /\ OfferAccountTaken(q) /\ ~OfferSubjectTaken(q)

\* ConfirmRecheck, which needs two addresses, is named so that its coverage is shown.
MCNext ==
  \/ \E r \in Requests : Arrive(r) /\ Quiet(r)
  \/ \E r \in Requests : Serve(r) /\ IdForEach(r)
  \/ \E r \in Requests : ConfirmRecheck(r)
  \/ \E r \in Requests : Victim(r)
  \/ \E r \in Requests : Abort(r)
  \/ \E a \in Accounts : Register(a)
  \/ Worker
  \/ \E i \in Ids : FailedJobExpires(i) \/ WorkerDies(i)
  \/ Tick

MCSpec == Init /\ [][MCNext]_vars
============================================================================
