\* Two requests at once: both are answered `issued' within the cooldown.
SPECIFICATION Spec
CONSTANTS
  Subjects = {s1}
  Accounts = {a1}
  Requests = {r1, r2}
  None = None
  Cooldown = 1
  LinkTtl = 2
  MaxLinks = 2
  MaxTime = 0
  Attempts = 1
  MaxRefusals = 0
  MaxCrashes = 0
INVARIANTS
  CooldownBeforeRotation
