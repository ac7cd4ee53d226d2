-------------------------- MODULE MCNotifications --------------------------
(***************************************************************************)
(* Finite instances of Notifications.                                      *)
(***************************************************************************)
EXTENDS Notifications

\* Bound: either readers favorite the article or its author does.  The two meet only
\* in the order of their events in the topic, and the author's is skipped.
OneSide(r) ==
  pc'[r] = "connect" =>
    \A u \in Readers : (u = Author) # (user'[r] = Author) =>
      /\ added[u] = 0
      /\ \A q \in Requests : pc[q] = "connect" => user[q] # u

MCNext ==
  \/ \E r \in Requests : Arrive(r) /\ OneSide(r)
  \/ \E r \in Requests : Serve(r) \/ ActorLookupFails(r)
  \/ Delete
  \/ \E e \in Events : Publish(e) \/ EmitFails(e)
  \/ Consume
  \/ \E p \in People : EnqueueFails(p)
  \/ \E m \in stray : EnqueueStray(m)
  \/ Worker
  \/ \E j \in JobIds : FailedJobExpires(j)
  \/ Crash

MCFairSpec == Init /\ [][MCNext]_vars /\ WF_vars(Consume) /\ WF_vars(Worker)
============================================================================
