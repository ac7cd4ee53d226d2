\* Two requests of a reader, or of the author, at once, redelivery, a fault or a
\* restart; what is in a topic is handled and mailed.
SPECIFICATION MCFairSpec
CONSTANTS
  Author = a
  Followers = {f1, f2}
  Readers = {u1, a}
  Requests = {r1, r2}
  Attempts = 2
  MaxEvents = 2
  MaxFaults = 1
INVARIANTS
  FollowersAreQueued
  FavoritesAreAnnounced
  RepeatsHaveCause
  IInv
PROPERTIES
  EventsAreSettled
CHECK_DEADLOCK FALSE
