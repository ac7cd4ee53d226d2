\* Two requests at once, over the tokens of one account, one of them may die.
SPECIFICATION Spec
CONSTANTS
  Users = {u1}
  Requests = {r1, r2}
  Ttl = 1
  MaxTokens = 3
  MaxTime = 2
  MaxFailures = 1
SYMMETRY RequestSymmetry
INVARIANTS
  OneCurrentTokenPerSession
  NoDanglingSuccessor
  RevokeAllHasCause
  OnlyRacingSessionsSurvive
  IInv
PROPERTY ImplementsLedger
