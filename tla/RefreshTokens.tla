--------------------------- MODULE RefreshTokens ---------------------------
(***************************************************************************)
(* Refresh-token rotation: TokenService over RefreshTokenRepository, with  *)
(* the nightly sweep of ExpiredTokenCleanupService.                        *)
(*                                                                         *)
(* A request is one HTTP call being served.  Every await on the database   *)
(* is a step of its own, because another request may run there.  Postgres  *)
(* runs at READ COMMITTED: a statement sees what was committed when it     *)
(* started, an UPDATE or DELETE waits for a row another transaction has    *)
(* written and then re-evaluates its WHERE clause, and a row that is not   *)
(* committed is visible to nobody else.                                    *)
(*                                                                         *)
(* A raw token and its SHA-256 hash are both the id of the row, and so is  *)
(* the token itself.  `token' keeps the columns of every id handed out by  *)
(* the sequence; `table' says which of them are committed rows.            *)
(***************************************************************************)
EXTENDS Naturals, FiniteSets

CONSTANTS
  Users,        \* accounts
  Requests,     \* HTTP requests that can be served at the same time
  Ttl,          \* lifetime of a refresh token, in clock ticks
  MaxTokens,    \* bound: ids the sequence hands out
  MaxTime,      \* bound: clock ticks
  MaxFailures   \* bound: requests that die half-way

ASSUME UsersAssumption == Users # {}
ASSUME TtlAssumption == Ttl \in Nat \ {0}
ASSUME BoundsAssumption ==
  MaxTokens \in Nat /\ MaxTime \in Nat /\ MaxFailures \in Nat

VARIABLES
  table,        \* ids of the committed rows
  token,        \* columns of each id
  nextId,       \* the autoincrement sequence; a rollback does not return an id
  pc,           \* per request: what it does next
  arg,          \* per request: the token it was given
  seen,         \* per request: what findByHash saw of that token
  minted,       \* per request: the row it has inserted
  targets,      \* per request: the rows its revoke-all found
  now,          \* the clock
  delivered,    \* raw tokens that reached a client in a response
  failures,     \* requests that died so far
  presented,    \* history: times (0, 1, many) a token was presented to rotate
  ended,        \* history: sessions a completed revoke-all has seen
  raced,        \* history: sessions rotated while a revoke-all was under way
  loggedOut     \* history: sessions a logout ended with no rotation of them under way

database == <<table, token, nextId>>
locals == <<pc, arg, seen, minted, targets>>
world == <<now, delivered, failures>>
history == <<presented, ended, raced, loggedOut>>
vars == <<database, locals, world, history>>

Ids == 1 .. MaxTokens
Null == 0
Clock == 0 .. MaxTime

(***************************************************************************)
(* The row.  revokedAt is only ever compared with null, so it is a flag.   *)
(* A session is a login and everything rotated from it; it is named by its *)
(* first token.  The column does not exist: it is history.                 *)
(***************************************************************************)
Row == [userId : Users,
        session : Ids \union {Null},
        expiresAt : 0 .. MaxTime + Ttl,
        revoked : BOOLEAN,
        replacedById : Ids \union {Null}]

InTransaction == {"mark", "commit"}
Revoking == {"revoke", "revoking"}
Pc == {"idle", "read", "mark", "commit", "reply", "revoke", "revoking", "logout"}

\* The columns of an id whose row never was, or was rolled back.
BlankRow == [userId |-> CHOOSE u \in Users : TRUE, session |-> Null, expiresAt |-> 0,
             revoked |-> FALSE, replacedById |-> Null]

Init ==
  /\ table = {}
  /\ token = [t \in Ids |-> BlankRow]
  /\ nextId = 1
  /\ pc = [r \in Requests |-> "idle"]
  /\ arg = [r \in Requests |-> Null]
  /\ seen = [r \in Requests |-> "missing"]
  /\ minted = [r \in Requests |-> Null]
  /\ targets = [r \in Requests |-> {}]
  /\ now = 0
  /\ delivered = {}
  /\ failures = 0
  /\ presented = [t \in Ids |-> 0]
  /\ ended = {}
  /\ raced = {}
  /\ loggedOut = {}

\* A request goes on to its next await ...
Goto(r, from, to) ==
  /\ pc[r] = from
  /\ pc' = [pc EXCEPT ![r] = to]

\* ... or ends, whatever it answers, and forgets everything.
Finish(r) ==
  /\ pc' = [pc EXCEPT ![r] = "idle"]
  /\ arg' = [arg EXCEPT ![r] = Null]
  /\ seen' = [seen EXCEPT ![r] = "missing"]
  /\ minted' = [minted EXCEPT ![r] = Null]
  /\ targets' = [targets EXCEPT ![r] = {}]

----------------------------------------------------------------------------
Expired(t) == token[t].expiresAt <= now

\* A row written by a transaction that has not committed: only the rotation
\* between markAsUsed and its commit holds one across steps.
Locked(t) == \E r \in Requests : pc[r] = "commit" /\ arg[r] = t

\* Ids that rotations already under way are going to take.
Reserved == {r \in Requests : pc[r] = "read" /\ seen[r] = "active"}
CanMint == nextId <= MaxTokens /\ nextId + Cardinality(Reserved) <= MaxTokens

\* (A variant for mutation runs: the revokedAt test moved ahead of replay.)
SeenRevokedAsSpent(t) ==
  CASE t \notin table -> "missing"
    [] t \in table /\ (token[t].replacedById # Null \/ token[t].revoked) -> "spent"
    [] OTHER -> "active"

\* findByHash, reduced to what rotate and revoke ask of the row.
Seen(t) ==
  CASE t \notin table -> "missing"
    [] t \in table /\ token[t].replacedById # Null -> "spent"
    [] t \in table /\ token[t].replacedById = Null /\ token[t].revoked -> "revoked"
    [] OTHER -> "active"

\* The row createTokenPair inserts, for a login (session = its own id) or a
\* rotation (session = that of the token it replaces).
NewRow(u, s) ==
  [userId |-> u, session |-> s, expiresAt |-> now + Ttl,
   revoked |-> FALSE, replacedById |-> Null]

----------------------------------------------------------------------------
\* issueTokens: the insert commits by itself; the response is still to be sent.
IssueTokens(r, u) ==
  /\ CanMint
  /\ Goto(r, "idle", "reply")
  /\ table' = table \union {nextId}
  /\ token' = [token EXCEPT ![nextId] = NewRow(u, nextId)]
  /\ nextId' = nextId + 1
  /\ minted' = [minted EXCEPT ![r] = nextId]
  /\ UNCHANGED <<arg, seen, targets, world, history>>

\* The response carries the raw token to the client.
Reply(r) ==
  /\ pc[r] = "reply"
  /\ delivered' = delivered \union {minted[r]}
  /\ Finish(r)
  /\ UNCHANGED <<database, now, failures, history>>

\* rotate, up to the answer of findByHash.
RotateRead(r, t) ==
  /\ Seen(t) = "active" => CanMint
  /\ Goto(r, "idle", "read")
  /\ arg' = [arg EXCEPT ![r] = t]
  /\ seen' = [seen EXCEPT ![r] = Seen(t)]
  /\ presented' = [presented EXCEPT ![t] = IF presented[t] = 0 THEN 1 ELSE 2]
  /\ UNCHANGED <<database, minted, targets, world, ended, raced, loggedOut>>

\* Unknown, revoked or expired: 401 and nothing else.
RotateRefuse(r) ==
  /\ pc[r] = "read"
  /\ \/ seen[r] \in {"missing", "revoked"}
     \/ seen[r] = "active" /\ Expired(arg[r])
  /\ Finish(r)
  /\ UNCHANGED <<database, world, history>>

\* (A variant for mutation runs: replay answered like any other bad token.)
RotateReplayedIsRefused(r) ==
  /\ pc[r] = "read"
  /\ seen[r] = "spent"
  /\ Finish(r)
  /\ UNCHANGED <<database, world, history>>

\* A token that was already rotated: reuse, so every session goes.
RotateReplayed(r) ==
  /\ seen[r] = "spent"
  /\ Goto(r, "read", "revoke")
  /\ UNCHANGED <<database, arg, seen, minted, targets, world, history>>

\* The transaction inserts the successor, which nobody else sees yet.
RotateCreate(r) ==
  /\ seen[r] = "active"
  /\ ~Expired(arg[r])
  /\ nextId <= MaxTokens
  /\ Goto(r, "read", "mark")
  /\ token' = [token EXCEPT ![nextId] =
                 NewRow(token[arg[r]].userId, token[arg[r]].session)]
  /\ nextId' = nextId + 1
  /\ minted' = [minted EXCEPT ![r] = nextId]
  /\ UNCHANGED <<table, arg, seen, targets, world, history>>

\* (A variant for mutation runs: an UPDATE by id alone.)
MarkMatchesAnyRow(t) == t \in table

\* markAsUsed: its WHERE asks for the id and for replacedById IS NULL, not for
\* revokedAt.
MarkMatches(t) == t \in table /\ token[t].replacedById = Null

\* One row updated, after waiting for whoever was updating it.
RotateMark(r) ==
  /\ ~Locked(arg[r])
  /\ MarkMatches(arg[r])
  /\ Goto(r, "mark", "commit")
  /\ UNCHANGED <<database, arg, seen, minted, targets, world, history>>

\* (A variant for mutation runs: the catch block only answers 401.)
RotateLostIsRefused(r) ==
  /\ ~Locked(arg[r])
  /\ ~MarkMatches(arg[r])
  /\ pc[r] = "mark"
  /\ token' = [token EXCEPT ![minted[r]] = BlankRow]
  /\ Finish(r)
  /\ UNCHANGED <<table, nextId, world, history>>

\* count = 0: the transaction rolls back, its row vanishes, the catch block
\* goes on to revoke everything.
RotateLost(r) ==
  /\ ~Locked(arg[r])
  /\ ~MarkMatches(arg[r])
  /\ Goto(r, "mark", "revoke")
  /\ token' = [token EXCEPT ![minted[r]] = BlankRow]
  /\ minted' = [minted EXCEPT ![r] = Null]
  /\ UNCHANGED <<table, nextId, arg, seen, targets, world, history>>

\* Sessions with rows that a revoke-all under way has found and not yet written.
Collected ==
  {token[t].session : t \in UNION {targets[q] : q \in {p \in Requests : pc[p] = "revoking"}}}

\* Both writes become visible together.
RotateCommit(r) ==
  /\ Goto(r, "commit", "reply")
  /\ table' = table \union {minted[r]}
  /\ token' = [token EXCEPT ![arg[r]].replacedById = minted[r]]
  /\ raced' = raced \union ({token[arg[r]].session} \intersect Collected)
  /\ UNCHANGED <<nextId, arg, seen, minted, targets, world, presented, ended, loggedOut>>

----------------------------------------------------------------------------
\* (A variant for mutation runs: only the chain that was replayed so far.)
LiveRowsAlreadySpent(u) ==
  {t \in table : token[t].userId = u /\ ~token[t].revoked /\ token[t].replacedById # Null}

\* The rows `UPDATE ... WHERE userId = u AND revokedAt IS NULL' finds.
LiveRowsOf(u) == {t \in table : token[t].userId = u /\ ~token[t].revoked}

\* Sessions with a rotation that has read its token and not yet committed.
InFlight ==
  {token[arg[q]].session :
     q \in {p \in Requests : pc[p] \in InTransaction \/ (pc[p] = "read" /\ seen[p] = "active")}}

\* revokeAllForUser: the statement takes its snapshot ...
RevokeAllStart(r) ==
  /\ Goto(r, "revoke", "revoking")
  /\ targets' = [targets EXCEPT ![r] = LiveRowsOf(token[arg[r]].userId)]
  /\ UNCHANGED <<database, arg, seen, minted, world, history>>

\* ... waits for the rows in it, and writes those that are still there.
RevokeAllFinish(r) ==
  /\ pc[r] = "revoking"
  /\ \A t \in targets[r] : ~Locked(t)
  /\ token' = [t \in Ids |-> IF t \in targets[r] \intersect table
                              THEN [token[t] EXCEPT !.revoked = TRUE]
                              ELSE token[t]]
  /\ ended' = ended \union {token[t].session : t \in targets[r]}
  /\ raced' = raced \union InFlight
  /\ Finish(r)
  /\ UNCHANGED <<table, nextId, world, presented, loggedOut>>

----------------------------------------------------------------------------
\* revoke (logout), up to the answer of findByHash: nothing to do for a token
\* that is unknown or already revoked.
LogoutRead(r, t) ==
  /\ pc[r] = "idle"
  /\ IF t \in table /\ ~token[t].revoked
     THEN /\ pc' = [pc EXCEPT ![r] = "logout"]
          /\ arg' = [arg EXCEPT ![r] = t]
     ELSE UNCHANGED <<pc, arg>>
  /\ UNCHANGED <<database, seen, minted, targets, world, history>>

\* revokeById; a row swept in the meantime is P2025, an error to the client.  It ends
\* the session only if the token is still the current one, and for good only if no
\* rotation has read it: markAsUsed does not ask for revokedAt.
LogoutRevoke(r) ==
  /\ pc[r] = "logout"
  /\ ~Locked(arg[r])
  /\ token' = IF arg[r] \in table
              THEN [token EXCEPT ![arg[r]].revoked = TRUE]
              ELSE token
  /\ loggedOut' = IF MarkMatches(arg[r])
                  THEN loggedOut \union ({token[arg[r]].session} \ InFlight)
                  ELSE loggedOut
  /\ Finish(r)
  /\ UNCHANGED <<table, nextId, world, presented, ended, raced>>

----------------------------------------------------------------------------
\* (A variant for mutation runs: the sweep takes revoked rows too.)
SweepableOrRevoked == {t \in table : token[t].expiresAt < now \/ token[t].revoked}

\* deleteExpired, run by the 03:00 job: strictly before now, where rotate
\* refuses at or before now.
Sweepable == {t \in table : token[t].expiresAt < now}

RemoveExpiredTokens ==
  /\ Sweepable # {}
  /\ \A t \in Sweepable : ~Locked(t)
  /\ table' = table \ Sweepable
  /\ UNCHANGED <<token, nextId, locals, world, history>>

\* A request dies between two awaits: the process stops, the pool or the
\* database fails.  An open transaction rolls back; nobody finishes the rest.
Abort(r) ==
  /\ failures < MaxFailures
  /\ pc[r] # "idle"
  /\ failures' = failures + 1
  /\ token' = IF pc[r] \in InTransaction
              THEN [token EXCEPT ![minted[r]] = BlankRow]
              ELSE token
  /\ Finish(r)
  /\ UNCHANGED <<table, nextId, now, delivered, history>>

Tick ==
  /\ now < MaxTime
  /\ now' = now + 1
  /\ UNCHANGED <<database, locals, delivered, failures, history>>

Serve(r) ==
  \/ Reply(r)
  \/ RotateRefuse(r)
  \/ RotateReplayed(r)
  \/ RotateCreate(r)
  \/ RotateMark(r)
  \/ RotateLost(r)
  \/ RotateCommit(r)
  \/ RevokeAllStart(r)
  \/ RevokeAllFinish(r)
  \/ LogoutRevoke(r)

Arrive(r) ==
  \/ \E u \in Users : IssueTokens(r, u)
  \/ \E t \in delivered : RotateRead(r, t)
  \/ \E t \in delivered : LogoutRead(r, t)

Next ==
  \/ \E r \in Requests : Arrive(r)
  \/ \E r \in Requests : Serve(r)
  \/ \E r \in Requests : Abort(r)
  \/ RemoveExpiredTokens
  \/ Tick

Spec == Init /\ [][Next]_vars

\* A request that was accepted keeps running: Node resumes every settled await
\* and Postgres hands a released row to its waiter.  Nothing makes a client
\* call, a request die, the clock reach a date or the sweep run.
Fairness == \A r \in Requests : WF_vars(Serve(r))

FairSpec == Spec /\ Fairness

----------------------------------------------------------------------------
(***************************************************************************)
(* Properties                                                              *)
(***************************************************************************)

\* Every variable stays in its range.
TypeOK ==
  /\ table \subseteq Ids
  /\ token \in [Ids -> Row]
  /\ nextId \in 1 .. MaxTokens + 1
  /\ pc \in [Requests -> Pc]
  /\ arg \in [Requests -> Ids \union {Null}]
  /\ seen \in [Requests -> {"missing", "spent", "revoked", "active"}]
  /\ minted \in [Requests -> Ids \union {Null}]
  /\ targets \in [Requests -> SUBSET Ids]
  /\ now \in Clock
  /\ delivered \subseteq Ids
  /\ failures \in 0 .. MaxFailures
  /\ presented \in [Ids -> 0 .. 2]
  /\ ended \subseteq Ids \union {Null}
  /\ raced \subseteq Ids \union {Null}
  /\ loggedOut \subseteq Ids \union {Null}

\* Rotation is linear: however many requests present the same token at once, a
\* session never has two tokens that are not replaced, so a stolen copy cannot
\* start a second chain beside the client's.
OneCurrentTokenPerSession ==
  \A t1, t2 \in table :
    /\ token[t1].session = token[t2].session
    /\ token[t1].replacedById = Null
    /\ token[t2].replacedById = Null
    => t1 = t2

\* replacedById is a bare column with no foreign key, yet rollbacks and the sweep
\* never leave it dangling: the successor's row exists, belongs to the same
\* session and user, and does not expire before the token it replaced.
NoDanglingSuccessor ==
  \A t \in table :
    LET s == token[t].replacedById IN
    s # Null => /\ s \in table
                /\ token[s].session = token[t].session
                /\ token[s].userId = token[t].userId
                /\ token[s].expiresAt >= token[t].expiresAt

\* Revoke-all has a cause: a request is on its way to revoke every session only
\* if its token was presented at least twice, or the sweep took the row of a
\* rotation in flight.  A client that uses each token once and stays clear of
\* the expiry date is never logged out everywhere.
RevokeAllHasCause ==
  \A r \in Requests :
    pc[r] \in Revoking =>
      presented[arg[r]] = 2 \/ arg[r] \notin table

\* A token a client could still rotate.
Usable(t) ==
  /\ t \in table
  /\ token[t].replacedById = Null
  /\ ~token[t].revoked
  /\ ~Expired(t)

\* What the API documentation says of replay: every session of the user is
\* revoked.  So no token of a session that a completed revoke-all has seen is
\* usable again.
RevokedSessionsStayRevoked ==
  \A t \in table : Usable(t) => token[t].session \notin ended

\* Sessions that a revoke-all or a logout ended with no rotation to race it.
Dead == (ended \ raced) \union loggedOut

\* What the code does guarantee of revocation: only a session with a rotation between
\* its read and its commit while a revoke-all or a logout ran can have a usable token
\* afterwards.  Every other session the revoke-all found, or whose current token the
\* logout revoked, stays dead, whoever rotates, logs in or dies at the same time.
OnlyRacingSessionsSurvive ==
  \A t \in table : Usable(t) => token[t].session \notin Dead

\* A request that has met a replayed token: spent when it was read, or used or gone by
\* the time its own rotation came to mark it.
MetReplay(r) ==
  \/ pc[r] = "read" /\ seen[r] = "spent"
  \/ pc[r] = "mark" /\ ~MarkMatches(arg[r])

\* Replay is followed up.  Once a request has met it, on the read or by losing a race,
\* every row the user has then ends up revoked or swept, the successor whose response
\* was lost included, if every request that is to die half-way has died by then: a token
\* presented again after a crash is followed up as well.
ReplayRevokesEveryRow ==
  \A r \in Requests, t \in Ids :
    ( /\ MetReplay(r)
      /\ t \in table
      /\ token[t].userId = token[arg[r]].userId
      /\ failures = MaxFailures )
    ~> (t \notin table \/ token[t].revoked)

(***************************************************************************)
(* Why the safety properties hold: the inductive invariant.                *)
(***************************************************************************)
Rotating(r) == pc[r] \in {"read"} \union InTransaction \union Revoking

\* A request knows the token it was given, and the row it has inserted, whenever
\* a step of it uses them.
WellFormed ==
  \A r \in Requests :
    /\ pc[r] \notin {"idle", "reply"} => arg[r] \in Ids
    /\ pc[r] \in InTransaction \union {"reply"} => minted[r] \in Ids

\* Ids come from the sequence, dates from the clock.
Allocation ==
  /\ \A t \in table \union delivered : t < nextId
  /\ \A t \in Ids : token[t].session < nextId /\ token[t].expiresAt <= now + Ttl
  /\ \A r \in Requests :
       /\ pc[r] \in InTransaction \union {"reply"} =>
            minted[r] < nextId
       /\ pc[r] \notin {"idle", "reply"} => arg[r] \in delivered

\* A row that is not committed belongs to one request and nobody has seen it.
Private ==
  \A r \in Requests : pc[r] \in InTransaction =>
    /\ minted[r] \notin table
    /\ minted[r] \notin delivered
    /\ \A q \in Requests \ {r} :
         pc[q] \in InTransaction \union {"reply"} => minted[q] # minted[r]

\* Such a row continues the chain of the token it is to replace.
Continues ==
  \A r \in Requests : pc[r] \in InTransaction =>
    /\ token[minted[r]].session = token[arg[r]].session
    /\ token[minted[r]].userId = token[arg[r]].userId
    /\ token[minted[r]].replacedById = Null
    /\ token[minted[r]].expiresAt >= token[arg[r]].expiresAt

\* Between markAsUsed and the commit the row lock keeps that token unreplaced.
LockHolds ==
  \A r \in Requests : pc[r] = "commit" =>
    /\ MarkMatches(arg[r])
    /\ \A q \in Requests \ {r} : pc[q] = "commit" => arg[q] # arg[r]

\* How often a token was presented, told from the requests and from the row.
Presentations ==
  /\ \A t \in Ids : token[t].replacedById # Null => presented[t] >= 1
  /\ \A r \in Requests : Rotating(r) =>
       /\ presented[arg[r]] >= 1
       /\ token[arg[r]].replacedById # Null => presented[arg[r]] = 2
       /\ \A q \in Requests \ {r} :
            Rotating(q) /\ arg[q] = arg[r] => presented[arg[r]] = 2
  /\ \A r \in Requests :
       /\ pc[r] = "read" /\ seen[r] = "spent" =>
            token[arg[r]].replacedById # Null
       /\ pc[r] \in Revoking =>
            token[arg[r]].replacedById # Null \/ arg[r] \notin table

\* Whatever was committed once has a session, and a session has one user.
Sessions ==
  /\ \A t \in Ids : t >= nextId => token[t].session = Null
  /\ \A t \in table \union delivered : token[t].session # Null
  /\ \A r \in Requests : pc[r] = "reply" => token[minted[r]].session # Null
  /\ \A t1, t2 \in Ids :
       token[t1].session = token[t2].session /\ token[t1].session # Null =>
         token[t1].userId = token[t2].userId

\* A row that rotate would accept, expiry aside.
Live(t) == token[t].replacedById = Null /\ ~token[t].revoked

\* A revoke-all under way has the live row of every session it has found a row
\* of, unless that row came by a rotation since.
Gathered ==
  \A r \in Requests : pc[r] = "revoking" =>
    /\ \A t \in targets[r] :
         /\ t < nextId
         /\ token[t].session # Null
         /\ \A q \in Requests : pc[q] \in InTransaction => minted[q] # t
    /\ \A t \in targets[r], x \in table :
         token[x].session = token[t].session /\ Live(x) =>
           x \in targets[r] \/ token[x].session \in raced

\* A session that ended and did not race has neither a live row nor a rotation
\* that could give it one.
EndedAreDead ==
  /\ \A s \in ended \union loggedOut : s < nextId
  /\ \A t \in table : Live(t) => token[t].session \notin Dead
  /\ \A r \in Requests :
       pc[r] \in InTransaction \/ (pc[r] = "read" /\ seen[r] = "active") =>
         token[arg[r]].session \notin Dead

IInv ==
  /\ TypeOK
  /\ WellFormed
  /\ Allocation
  /\ Private
  /\ Continues
  /\ LockHolds
  /\ OneCurrentTokenPerSession
  /\ NoDanglingSuccessor
  /\ Presentations
  /\ Sessions
  /\ Gathered
  /\ EndedAreDead

(***************************************************************************)
(* The abstract ledger this module implements: a session's current token   *)
(* is its one row that is not replaced, and a token is spent when it was   *)
(* committed once and is no longer current.                                *)
(***************************************************************************)
Current(s) == {t \in table : token[t].session = s /\ token[t].replacedById = Null}
Uncommitted == {minted[r] : r \in {q \in Requests : pc[q] \in InTransaction}}

Ledger == INSTANCE SessionLedger WITH
  Tokens <- Ids,
  None <- Null,
  holder <- [s \in Ids |-> IF Current(s) = {} THEN Null
                           ELSE CHOOSE t \in Current(s) : TRUE],
  spent <- {t \in Ids : /\ token[t].session # Null
                        /\ t \notin Uncommitted
                        /\ ~(t \in table /\ token[t].replacedById = Null)}

\* Every behaviour of the token service is a behaviour of the ledger: a session
\* passes from one token to a fresh one, and a spent token is never current again.
ImplementsLedger == Ledger!Spec
============================================================================
