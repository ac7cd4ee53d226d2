\* Replay detected while another rotation of the same account is under way.
SPECIFICATION Spec
CONSTANTS
  Users = {u1}
  Requests = {r1, r2}
  Ttl = 2
  MaxTokens = 4
  MaxTime = 0
  MaxFailures = 0
INVARIANT RevokedSessionsStayRevoked
