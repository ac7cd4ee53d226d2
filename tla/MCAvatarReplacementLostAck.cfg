\* A COMMIT reported as failed may have succeeded.
SPECIFICATION Spec
CONSTANTS
  Users = {u1}
  Requests = {r1}
  MaxKeys = 1
  MaxFaults = 0
  MaxLostAcks = 1
INVARIANTS
  FailedUploadIsUnreferenced
