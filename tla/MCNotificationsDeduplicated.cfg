\* Two readers favorite the article, and nothing fails.
SPECIFICATION Spec
CONSTANTS
  Author = a
  Followers = {}
  Readers = {u1, u2}
  Requests = {r1}
  Attempts = 2
  MaxEvents = 3
  MaxFaults = 0
INVARIANTS
  FavoritesAreQueued
CHECK_DEADLOCK FALSE
