\* Two requests at once over two subjects and two addresses; one may die.
SPECIFICATION MCSpec
CONSTANTS
  Subjects = {s1, s2}
  Accounts = {a1, a2}
  Requests = {r1, r2}
  None = None
  Cooldown = 1
  LinkTtl = 2
  MaxLinks = 2
  MaxTime = 2
  Attempts = 1
  MaxRefusals = 0
  MaxCrashes = 1
SYMMETRY LinkSymmetry
INVARIANTS
  LinksAreProven
  PasswordlessAccountsReachable
  IInv
  OnlyReplacementsDeadlock
PROPERTIES
  LinkConsumesToken
  ImplementsOffers
