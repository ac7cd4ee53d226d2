\* Every mail job ends, through refused sends, retries, a worker that dies and the
\* transactions that end as deadlock victims.
SPECIFICATION FairSpec
CONSTANTS
  Subjects = {s1}
  Accounts = {a1}
  Requests = {r1, r2}
  None = None
  Cooldown = 1
  LinkTtl = 1
  MaxLinks = 2
  MaxTime = 1
  Attempts = 2
  MaxRefusals = 1
  MaxCrashes = 1
INVARIANT
  PendingIsMailed
PROPERTIES
  MailsAreSettled
