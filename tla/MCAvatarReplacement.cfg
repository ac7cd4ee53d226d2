\* Two requests at a time for the avatars of two users; one fault, one COMMIT
\* reported as failed.
SPECIFICATION FairSpec
CONSTANTS
  Users = {u1, u2}
  Requests = {r1, r2}
  MaxKeys = 3
  MaxFaults = 1
  MaxLostAcks = 1
INVARIANTS
  AvatarExists
  OrphansHaveCause
  DoomedIsUnreferenced
  IInv
PROPERTIES
  ImplementsAvatars
  OrphansAreReclaimed
