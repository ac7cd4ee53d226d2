------------------------ MODULE RefreshTokensProofs ------------------------
(***************************************************************************)
(* Proofs about RefreshTokens, for any number of users, requests and       *)
(* tokens, any lifetime and any bounds.                                    *)
(***************************************************************************)
EXTENDS RefreshTokens, TLAPS

USE UsersAssumption, TtlAssumption, BoundsAssumption

----------------------------------------------------------------------------
(***************************************************************************)
(* Types of the rows the actions build.                                    *)
(***************************************************************************)

\* The columns of an id that has no row have the type of a row.
LEMMA BlankRowType == BlankRow \in Row
  BY DEF BlankRow, Row, Null, Ids

\* So have the columns of a row just inserted.
LEMMA NewRowType ==
  ASSUME TypeOK, NEW u \in Users, NEW s \in Ids \union {Null}
  PROVE  NewRow(u, s) \in Row
  BY DEF TypeOK, Row, NewRow, Clock, Null

\* A column written into a row leaves a row.
LEMMA RowUpdateTypes ==
  ASSUME TypeOK
  PROVE  /\ \A t \in Ids, x \in Row : [token EXCEPT ![t] = x] \in [Ids -> Row]
         /\ \A t, s \in Ids : [token EXCEPT ![t].replacedById = s] \in [Ids -> Row]
         /\ \A t \in Ids : [token EXCEPT ![t].revoked = TRUE] \in [Ids -> Row]
         /\ \A S \in SUBSET Ids :
              [t \in Ids |-> IF t \in S THEN [token[t] EXCEPT !.revoked = TRUE]
                                        ELSE token[t]] \in [Ids -> Row]
<1>1. token \in [Ids -> Row]
  BY DEF TypeOK
<1>2. \A t \in Ids, x \in Row : [token EXCEPT ![t] = x] \in [Ids -> Row]
  BY <1>1
<1>3. ASSUME NEW x \in Row
      PROVE  /\ [x EXCEPT !.revoked = TRUE] \in Row
             /\ \A s \in Ids : [x EXCEPT !.replacedById = s] \in Row
  BY DEF Row
<1>4. \A t, s \in Ids : [token EXCEPT ![t].replacedById = s] \in [Ids -> Row]
  BY <1>1, <1>3
<1>5. \A t \in Ids : [token EXCEPT ![t].revoked = TRUE] \in [Ids -> Row]
  BY <1>1, <1>3
<1>6. \A S \in SUBSET Ids :
        [t \in Ids |-> IF t \in S THEN [token[t] EXCEPT !.revoked = TRUE]
                                  ELSE token[t]] \in [Ids -> Row]
  BY <1>1, <1>3
<1>7. QED
  BY <1>2, <1>4, <1>5, <1>6

\* What a row has but the mark that it is revoked, which is never taken back.
OnlyRevokes ==
  \A t \in Ids : /\ token'[t].session = token[t].session
                 /\ token'[t].userId = token[t].userId
                 /\ token'[t].expiresAt = token[t].expiresAt
                 /\ token'[t].replacedById = token[t].replacedById
                 /\ token[t].revoked => token'[t].revoked

\* The UPDATEs of revoke and revokeAllForUser write one column.
LEMMA RevokedOnly ==
  ASSUME TypeOK
  PROVE  \A r \in Requests : LogoutRevoke(r) \/ RevokeAllFinish(r) => OnlyRevokes
<1> SUFFICES ASSUME NEW r \in Requests, LogoutRevoke(r) \/ RevokeAllFinish(r) PROVE OnlyRevokes
  OBVIOUS
<1>1. token \in [Ids -> Row]
  BY DEF TypeOK
<1>2. ASSUME NEW t \in Ids
      PROVE  /\ token'[t] = token[t] \/ token'[t] = [token[t] EXCEPT !.revoked = TRUE]
             /\ token[t] \in Row
  BY <1>1 DEF LogoutRevoke, RevokeAllFinish
<1>3. ASSUME NEW x \in Row, NEW y, y = x \/ y = [x EXCEPT !.revoked = TRUE]
      PROVE  /\ y.session = x.session /\ y.userId = x.userId /\ y.expiresAt = x.expiresAt
             /\ y.replacedById = x.replacedById
             /\ x.revoked => y.revoked
  BY <1>3 DEF Row
<1>4. QED
  BY <1>2, <1>3 DEF OnlyRevokes

----------------------------------------------------------------------------
(***************************************************************************)
(* The types, together with what makes them inductive.                     *)
(***************************************************************************)
Typed == TypeOK /\ WellFormed

\* The initial state has the types.
LEMMA InitTyped == Init => Typed
  BY BlankRowType DEF Init, Typed, TypeOK, WellFormed, Ids, Null, Clock, Pc, InTransaction

\* Every step keeps them.
LEMMA StepTyped == Typed /\ [Next]_vars => Typed'
<1> SUFFICES ASSUME Typed, [Next]_vars PROVE Typed'
  OBVIOUS
<1> USE DEF Typed, TypeOK, WellFormed, InTransaction, Pc, Clock, Goto, Finish,
            database, locals, world, history
<1>t. ASSUME NEW t \in Ids
      PROVE  token[t].userId \in Users /\ token[t].session \in Ids \union {Null}
  BY DEF Row
<1>1. ASSUME NEW r \in Requests, NEW u \in Users, IssueTokens(r, u) PROVE Typed'
  <2>1. nextId \in Ids
    BY <1>1 DEF IssueTokens, CanMint, Ids
  <2>2. token' \in [Ids -> Row]
    BY <1>1, <2>1, NewRowType, RowUpdateTypes DEF IssueTokens
  <2>3. QED
    BY <1>1, <2>1, <2>2 DEF IssueTokens, Ids
<1>2. ASSUME NEW r \in Requests, NEW t \in delivered, RotateRead(r, t) PROVE Typed'
  BY <1>2 DEF RotateRead, Seen
<1>3. ASSUME NEW r \in Requests, NEW t \in delivered, LogoutRead(r, t) PROVE Typed'
  BY <1>3 DEF LogoutRead
<1>4. ASSUME NEW r \in Requests, Reply(r) PROVE Typed'
  BY <1>4 DEF Reply
<1>5. ASSUME NEW r \in Requests, RotateRefuse(r) PROVE Typed'
  BY <1>5 DEF RotateRefuse
<1>6. ASSUME NEW r \in Requests, RotateReplayed(r) PROVE Typed'
  BY <1>6 DEF RotateReplayed
<1>7. ASSUME NEW r \in Requests, RotateCreate(r) PROVE Typed'
  <2>1. nextId \in Ids /\ arg[r] \in Ids
    BY <1>7 DEF RotateCreate, Ids
  <2>2. token' \in [Ids -> Row]
    BY <1>7, <1>t, <2>1, NewRowType, RowUpdateTypes DEF RotateCreate
  <2>3. QED
    BY <1>7, <2>1, <2>2 DEF RotateCreate, Ids
<1>8. ASSUME NEW r \in Requests, RotateMark(r) PROVE Typed'
  BY <1>8 DEF RotateMark
<1>9. ASSUME NEW r \in Requests, RotateLost(r) PROVE Typed'
  <2>1. token' \in [Ids -> Row]
    BY <1>9, BlankRowType, RowUpdateTypes DEF RotateLost
  <2>2. QED
    BY <1>9, <2>1 DEF RotateLost
<1>10. ASSUME NEW r \in Requests, RotateCommit(r) PROVE Typed'
  <2>1. token' \in [Ids -> Row]
    BY <1>10, RowUpdateTypes DEF RotateCommit
  <2>2. raced' \subseteq Ids \union {Null}
    BY <1>10, <1>t DEF RotateCommit
  <2>3. QED
    BY <1>10, <2>1, <2>2 DEF RotateCommit
<1>11. ASSUME NEW r \in Requests, RevokeAllStart(r) PROVE Typed'
  BY <1>11 DEF RevokeAllStart, LiveRowsOf
<1>12. ASSUME NEW r \in Requests, RevokeAllFinish(r) PROVE Typed'
  <2>1. token' \in [Ids -> Row]
    BY <1>12, RowUpdateTypes DEF RevokeAllFinish
  <2>2. ended' \subseteq Ids \union {Null}
    BY <1>12, <1>t DEF RevokeAllFinish
  <2>3. raced' \subseteq Ids \union {Null}
    BY <1>12, <1>t DEF RevokeAllFinish, InFlight
  <2>4. QED
    BY <1>12, <2>1, <2>2, <2>3 DEF RevokeAllFinish
<1>13. ASSUME NEW r \in Requests, LogoutRevoke(r) PROVE Typed'
  <2>1. token' \in [Ids -> Row]
    BY <1>13, RowUpdateTypes DEF LogoutRevoke
  <2>2. loggedOut' \subseteq Ids \union {Null}
    BY <1>13, <1>t DEF LogoutRevoke, MarkMatches
  <2>3. QED
    BY <1>13, <2>1, <2>2 DEF LogoutRevoke
<1>14. ASSUME NEW r \in Requests, Abort(r) PROVE Typed'
  <2>1. token' \in [Ids -> Row]
    BY <1>14, BlankRowType, RowUpdateTypes DEF Abort
  <2>2. QED
    BY <1>14, <2>1 DEF Abort
<1>15. ASSUME RemoveExpiredTokens PROVE Typed'
  BY <1>15 DEF RemoveExpiredTokens, Sweepable
<1>16. ASSUME Tick PROVE Typed'
  BY <1>16 DEF Tick
<1>17. ASSUME UNCHANGED vars PROVE Typed'
  BY <1>17 DEF vars
<1>18. QED
  BY <1>1, <1>2, <1>3, <1>4, <1>5, <1>6, <1>7, <1>8, <1>9, <1>10, <1>11, <1>12,
     <1>13, <1>14, <1>15, <1>16, <1>17 DEF Next, Arrive, Serve

\* Every variable stays in its range.
THEOREM TypeCorrect == Spec => []TypeOK
<1>1. Typed => TypeOK
  BY DEF Typed
<1>2. QED
  BY <1>1, InitTyped, StepTyped, PTL DEF Spec

----------------------------------------------------------------------------

\* Ids come from the sequence, dates from the clock.
LEMMA StepAllocation == Typed /\ Allocation /\ [Next]_vars => Allocation'
<1> SUFFICES ASSUME Typed, Allocation, [Next]_vars PROVE Allocation'
  OBVIOUS
<1> USE DEF Typed, TypeOK, WellFormed, InTransaction, Revoking, Pc, Goto, Finish, Ids, Null, Clock, Row,
            database, locals, world, history, Allocation
<1>1. ASSUME NEW r \in Requests, NEW u \in Users, IssueTokens(r, u) PROVE Allocation'
  <2> HIDE DEF Row
  <2>1. /\ nextId \in Ids /\ nextId' = nextId + 1 /\ UNCHANGED <<now, delivered, arg>>
        /\ nextId \in Nat /\ now \in Nat /\ Ttl \in Nat
    BY <1>1 DEF IssueTokens, CanMint
  <2>2. \A t \in Ids \ {nextId} : token'[t] = token[t]
    BY <1>1, <2>1 DEF IssueTokens
  <2>3. token'[nextId].session = nextId /\ token'[nextId].expiresAt = now + Ttl
    BY <1>1, <2>1 DEF IssueTokens, NewRow
  <2>4. \A t \in Ids : token[t].session \in Nat
    BY DEF Row
  <2>5. \A t \in Ids : token'[t].session < nextId' /\ token'[t].expiresAt <= now' + Ttl
    <3> HIDE DEF Typed
    <3>1. QED
      BY <2>1, <2>2, <2>3, <2>4
  <2>6. \A t \in table' \union delivered' : t < nextId'
    BY <1>1, <2>1 DEF IssueTokens
  <2>7. \A q \in Requests :
          /\ pc'[q] \in {"mark", "commit", "reply"} => minted'[q] < nextId'
          /\ pc'[q] \notin {"idle", "reply"} => arg'[q] \in delivered'
    BY <1>1, <2>1 DEF IssueTokens
  <2>8. QED
    BY <2>5, <2>6, <2>7
<1>2. ASSUME NEW r \in Requests, NEW t \in delivered, RotateRead(r, t) PROVE Allocation'
  BY <1>2 DEF RotateRead, Seen
<1>3. ASSUME NEW r \in Requests, NEW t \in delivered, LogoutRead(r, t) PROVE Allocation'
  BY <1>3 DEF LogoutRead
<1>4. ASSUME NEW r \in Requests, Reply(r) PROVE Allocation'
  BY <1>4 DEF Reply
<1>5. ASSUME NEW r \in Requests, RotateRefuse(r) PROVE Allocation'
  BY <1>5 DEF RotateRefuse
<1>6. ASSUME NEW r \in Requests, RotateReplayed(r) PROVE Allocation'
  BY <1>6 DEF RotateReplayed
<1>7. ASSUME NEW r \in Requests, RotateCreate(r) PROVE Allocation'
  <2> HIDE DEF Row
  <2>0. pc[r] = "read" /\ nextId <= MaxTokens
    BY <1>7 DEF RotateCreate
  <2>1. nextId \in Ids /\ arg[r] \in Ids
    BY <2>0
  <2>2. \A t \in Ids \ {nextId} : token'[t] = token[t]
    BY <1>7, <2>1 DEF RotateCreate
  <2>3. token'[nextId].session = token[arg[r]].session /\ token'[nextId].expiresAt = now + Ttl
    BY <1>7, <2>1 DEF RotateCreate, NewRow
  <2>4. nextId' = nextId + 1 /\ now' = now /\ nextId \in Nat /\ now \in Nat /\ Ttl \in Nat
    BY <1>7 DEF RotateCreate
  <2>5. token[arg[r]].session \in Nat /\ \A t \in Ids : token[t].session \in Nat
    <3>1. \A t \in Ids : token[t].session \in Ids \union {Null}
      BY DEF Row
    <3> HIDE DEF Typed
    <3>2. QED
      BY <2>1, <3>1
  <2>6. \A t \in Ids : token'[t].session < nextId' /\ token'[t].expiresAt <= now' + Ttl
    <3> HIDE DEF Typed
    <3>1. QED
      BY <2>1, <2>2, <2>3, <2>4, <2>5
  <2>7. (\A t \in table' \union delivered' : t < nextId')
    BY <1>7, <2>4 DEF RotateCreate
  <2>8. \A q \in Requests :
          /\ pc'[q] \in {"mark", "commit", "reply"} => minted'[q] < nextId'
          /\ pc'[q] \notin {"idle", "reply"} => arg'[q] \in delivered'
    BY <1>7, <2>4 DEF RotateCreate
  <2>9. QED
    BY <2>6, <2>7, <2>8
<1>8. ASSUME NEW r \in Requests, RotateMark(r) PROVE Allocation'
  BY <1>8 DEF RotateMark, MarkMatches, Locked
<1>9. ASSUME NEW r \in Requests, RotateLost(r) PROVE Allocation'
  <2>1. \A t \in Ids : token'[t] = token[t] \/ token'[t] = BlankRow
    BY <1>9 DEF RotateLost
  <2>2. BlankRow.session = 0 /\ BlankRow.expiresAt = 0
    BY DEF BlankRow
  <2>3. nextId \in Nat \ {0} /\ now \in Nat /\ UNCHANGED <<table, nextId, now, delivered>>
    BY <1>9 DEF RotateLost
  <2>4. ASSUME NEW t \in Ids
        PROVE  token'[t].session < nextId' /\ token'[t].expiresAt <= now' + Ttl
    <3> HIDE DEF Typed, Row, Ids
    <3>1. token[t].session < nextId /\ token[t].expiresAt <= now + Ttl
      OBVIOUS
    <3>2. QED
      BY <2>1, <2>2, <2>3, <3>1
  <2>5. /\ UNCHANGED <<arg, nextId, delivered>>
        /\ pc[r] = "mark" /\ pc'[r] = "revoke"
        /\ \A q \in Requests \ {r} : pc'[q] = pc[q] /\ minted'[q] = minted[q]
    BY <1>9 DEF RotateLost
  <2>6. \A q \in Requests :
          /\ pc'[q] \in {"mark", "commit", "reply"} => minted'[q] < nextId'
          /\ pc'[q] \notin {"idle", "reply"} => arg'[q] \in delivered'
    <3> HIDE DEF Typed, Row, Ids
    <3>1. QED
      BY <2>5
  <2>7. QED
    BY <2>3, <2>4, <2>6
<1>10. ASSUME NEW r \in Requests, RotateCommit(r) PROVE Allocation'
  BY <1>10 DEF RotateCommit
<1>11. ASSUME NEW r \in Requests, RevokeAllStart(r) PROVE Allocation'
  BY <1>11 DEF RevokeAllStart
<1>12. ASSUME NEW r \in Requests, RevokeAllFinish(r) PROVE Allocation'
  BY <1>12 DEF RevokeAllFinish
<1>13. ASSUME NEW r \in Requests, LogoutRevoke(r) PROVE Allocation'
  BY <1>13 DEF LogoutRevoke
<1>14. ASSUME NEW r \in Requests, Abort(r) PROVE Allocation'
  BY <1>14 DEF Abort, BlankRow
<1>15. ASSUME RemoveExpiredTokens PROVE Allocation'
  BY <1>15 DEF RemoveExpiredTokens, Sweepable, Locked
<1>16. ASSUME Tick PROVE Allocation'
  BY <1>16 DEF Tick
<1>17. ASSUME UNCHANGED vars PROVE Allocation'
  BY <1>17 DEF vars
<1>18. QED
  BY <1>1, <1>2, <1>3, <1>4, <1>5, <1>6, <1>7, <1>8, <1>9, <1>10, <1>11, <1>12, <1>13, <1>14, <1>15, <1>16, <1>17 DEF Next, Arrive, Serve

\* A row that is not committed stays with its request.
LEMMA StepPrivate == Typed /\ Allocation /\ Private /\ [Next]_vars => Private'
<1> SUFFICES ASSUME Typed, Allocation, Private, [Next]_vars PROVE Private'
  OBVIOUS
<1> USE DEF Typed, TypeOK, WellFormed, InTransaction, Revoking, Pc, Goto, Finish, Ids, Null, Clock, Row,
            database, locals, world, history, Allocation, Private
<1>1. ASSUME NEW r \in Requests, NEW u \in Users, IssueTokens(r, u) PROVE Private'
  BY <1>1 DEF IssueTokens, NewRow, CanMint
<1>2. ASSUME NEW r \in Requests, NEW t \in delivered, RotateRead(r, t) PROVE Private'
  BY <1>2 DEF RotateRead, Seen
<1>3. ASSUME NEW r \in Requests, NEW t \in delivered, LogoutRead(r, t) PROVE Private'
  BY <1>3 DEF LogoutRead
<1>4. ASSUME NEW r \in Requests, Reply(r) PROVE Private'
  BY <1>4 DEF Reply
<1>5. ASSUME NEW r \in Requests, RotateRefuse(r) PROVE Private'
  BY <1>5 DEF RotateRefuse
<1>6. ASSUME NEW r \in Requests, RotateReplayed(r) PROVE Private'
  BY <1>6 DEF RotateReplayed
<1>7. ASSUME NEW r \in Requests, RotateCreate(r) PROVE Private'
  BY <1>7 DEF RotateCreate, NewRow, Expired
<1>8. ASSUME NEW r \in Requests, RotateMark(r) PROVE Private'
  BY <1>8 DEF RotateMark, MarkMatches, Locked
<1>9. ASSUME NEW r \in Requests, RotateLost(r) PROVE Private'
  BY <1>9 DEF RotateLost, BlankRow, MarkMatches
<1>10. ASSUME NEW r \in Requests, RotateCommit(r) PROVE Private'
  BY <1>10 DEF RotateCommit
<1>11. ASSUME NEW r \in Requests, RevokeAllStart(r) PROVE Private'
  BY <1>11 DEF RevokeAllStart
<1>12. ASSUME NEW r \in Requests, RevokeAllFinish(r) PROVE Private'
  BY <1>12 DEF RevokeAllFinish
<1>13. ASSUME NEW r \in Requests, LogoutRevoke(r) PROVE Private'
  BY <1>13 DEF LogoutRevoke
<1>14. ASSUME NEW r \in Requests, Abort(r) PROVE Private'
  BY <1>14 DEF Abort, BlankRow
<1>15. ASSUME RemoveExpiredTokens PROVE Private'
  BY <1>15 DEF RemoveExpiredTokens, Sweepable, Locked
<1>16. ASSUME Tick PROVE Private'
  BY <1>16 DEF Tick
<1>17. ASSUME UNCHANGED vars PROVE Private'
  BY <1>17 DEF vars
<1>18. QED
  BY <1>1, <1>2, <1>3, <1>4, <1>5, <1>6, <1>7, <1>8, <1>9, <1>10, <1>11, <1>12, <1>13, <1>14, <1>15, <1>16, <1>17 DEF Next, Arrive, Serve

\* A successor keeps to the chain of its token.
LEMMA StepContinues == Typed /\ Allocation /\ Private /\ Continues /\ [Next]_vars => Continues'
<1> SUFFICES ASSUME Typed, Allocation, Private, Continues, [Next]_vars PROVE Continues'
  OBVIOUS
<1>r. \A r \in Requests : LogoutRevoke(r) \/ RevokeAllFinish(r) => OnlyRevokes
  BY RevokedOnly DEF Typed
<1> USE DEF Typed, TypeOK, WellFormed, InTransaction, Revoking, Pc, Goto, Finish, Ids, Null, Clock, Row,
            database, locals, world, history, Allocation, Private, Continues
<1>1. ASSUME NEW r \in Requests, NEW u \in Users, IssueTokens(r, u) PROVE Continues'
  <2>1. nextId \in Ids /\ \A t \in Ids \ {nextId} : token'[t] = token[t]
    BY <1>1 DEF IssueTokens, CanMint
  <2>2. ASSUME NEW q \in Requests, pc'[q] \in InTransaction
        PROVE  /\ pc[q] \in InTransaction
               /\ arg'[q] = arg[q] /\ minted'[q] = minted[q]
               /\ arg[q] \in Ids \ {nextId} /\ minted[q] \in Ids \ {nextId}
    <3>1. q # r /\ pc[q] = pc'[q] /\ arg'[q] = arg[q] /\ minted'[q] = minted[q]
      BY <1>1, <2>2 DEF IssueTokens
    <3>2. arg[q] \in Ids /\ minted[q] \in Ids /\ arg[q] \in delivered /\ minted[q] < nextId
      BY <2>2, <3>1
    <3>3. arg[q] < nextId
      BY <3>2
    <3>4. QED
      BY <2>2, <3>1, <3>2, <3>3
  <2> HIDE DEF Typed, Row, Ids, InTransaction
  <2>3. QED
    BY <2>1, <2>2
<1>2. ASSUME NEW r \in Requests, NEW t \in delivered, RotateRead(r, t) PROVE Continues'
  BY <1>2 DEF RotateRead, Seen
<1>3. ASSUME NEW r \in Requests, NEW t \in delivered, LogoutRead(r, t) PROVE Continues'
  BY <1>3 DEF LogoutRead
<1>4. ASSUME NEW r \in Requests, Reply(r) PROVE Continues'
  BY <1>4 DEF Reply
<1>5. ASSUME NEW r \in Requests, RotateRefuse(r) PROVE Continues'
  BY <1>5 DEF RotateRefuse
<1>6. ASSUME NEW r \in Requests, RotateReplayed(r) PROVE Continues'
  BY <1>6 DEF RotateReplayed
<1>7. ASSUME NEW r \in Requests, RotateCreate(r) PROVE Continues'
  <2>1. nextId \in Ids /\ \A t \in Ids \ {nextId} : token'[t] = token[t]
    BY <1>7 DEF RotateCreate
  <2>2. arg[r] \in Ids \ {nextId} /\ arg'[r] = arg[r] /\ minted'[r] = nextId
    <3>1. arg[r] \in Ids /\ arg[r] < nextId
      BY <1>7 DEF RotateCreate
    <3>2. QED
      BY <1>7, <3>1 DEF RotateCreate
  <2>3. /\ token'[nextId].session = token[arg[r]].session
        /\ token'[nextId].userId = token[arg[r]].userId
        /\ token'[nextId].replacedById = Null
        /\ token'[nextId].expiresAt = now + Ttl
    BY <1>7, <2>1 DEF RotateCreate, NewRow
  <2>4. token[arg[r]].expiresAt <= now + Ttl
    BY <2>2
  <2>5. ASSUME NEW q \in Requests \ {r}, pc'[q] \in InTransaction
        PROVE  /\ pc[q] \in InTransaction
               /\ arg'[q] = arg[q] /\ minted'[q] = minted[q]
               /\ arg[q] \in Ids \ {nextId} /\ minted[q] \in Ids \ {nextId}
    <3>1. pc[q] = pc'[q] /\ arg'[q] = arg[q] /\ minted'[q] = minted[q]
      BY <1>7 DEF RotateCreate
    <3>2. arg[q] \in Ids /\ minted[q] \in Ids /\ arg[q] \in delivered /\ minted[q] < nextId
      BY <2>5, <3>1
    <3>3. arg[q] < nextId
      BY <3>2
    <3>4. QED
      BY <2>5, <3>1, <3>2, <3>3
  <2>6. now + Ttl \in Nat /\ token[arg[r]].expiresAt \in Nat
    BY <2>2
  <2> HIDE DEF Typed, Row, Ids, InTransaction
  <2>7. /\ token'[nextId].expiresAt >= token'[arg[r]].expiresAt
        /\ token'[arg[r]] = token[arg[r]]
    BY <2>1, <2>2, <2>3, <2>4, <2>6
  <2>8. ASSUME NEW q \in Requests \ {r}, pc'[q] \in InTransaction
        PROVE  /\ token'[minted'[q]].session = token'[arg'[q]].session
               /\ token'[minted'[q]].userId = token'[arg'[q]].userId
               /\ token'[minted'[q]].replacedById = Null
               /\ token'[minted'[q]].expiresAt >= token'[arg'[q]].expiresAt
    BY <2>1, <2>5, <2>8
  <2>9. QED
    BY <2>2, <2>3, <2>7, <2>8 DEF InTransaction
<1>8. ASSUME NEW r \in Requests, RotateMark(r) PROVE Continues'
  BY <1>8 DEF RotateMark, MarkMatches, Locked
<1>9. ASSUME NEW r \in Requests, RotateLost(r) PROVE Continues'
  <2>1. \A t \in Ids \ {minted[r]} : token'[t] = token[t]
    BY <1>9 DEF RotateLost
  <2>2. ASSUME NEW q \in Requests, pc'[q] \in InTransaction
        PROVE  /\ pc[q] \in InTransaction
               /\ arg'[q] = arg[q] /\ minted'[q] = minted[q]
               /\ arg[q] \in Ids \ {minted[r]} /\ minted[q] \in Ids \ {minted[r]}
    <3>1. q # r /\ pc[r] = "mark" /\ pc[q] = pc'[q] /\ arg'[q] = arg[q] /\ minted'[q] = minted[q]
      BY <1>9, <2>2 DEF RotateLost
    <3>2. arg[q] \in Ids /\ minted[q] \in Ids /\ arg[q] \in delivered
      BY <2>2, <3>1
    <3>3. minted[r] \notin delivered /\ minted[q] # minted[r]
      BY <2>2, <3>1
    <3>4. QED
      BY <2>2, <3>1, <3>2, <3>3
  <2> HIDE DEF Typed, Row, Ids, InTransaction
  <2>3. QED
    BY <2>1, <2>2
<1>10. ASSUME NEW r \in Requests, RotateCommit(r) PROVE Continues'
  <2>1. \A t \in Ids : /\ token'[t].session = token[t].session
                       /\ token'[t].userId = token[t].userId
                       /\ token'[t].expiresAt = token[t].expiresAt
                       /\ t # arg[r] => token'[t].replacedById = token[t].replacedById
    BY <1>10 DEF RotateCommit
  <2>2. ASSUME NEW q \in Requests, pc'[q] \in InTransaction
        PROVE  /\ pc[q] \in InTransaction
               /\ arg'[q] = arg[q] /\ minted'[q] = minted[q]
               /\ arg[q] \in Ids /\ minted[q] \in Ids /\ minted[q] # arg[r]
    BY <1>10, <2>2 DEF RotateCommit
  <2>3. ASSUME NEW q \in Requests, pc'[q] \in InTransaction
        PROVE  /\ token'[minted'[q]].session = token'[arg'[q]].session
               /\ token'[minted'[q]].userId = token'[arg'[q]].userId
               /\ token'[minted'[q]].replacedById = Null
               /\ token'[minted'[q]].expiresAt >= token'[arg'[q]].expiresAt
    <3>1. /\ token[minted[q]].session = token[arg[q]].session
          /\ token[minted[q]].userId = token[arg[q]].userId
          /\ token[minted[q]].replacedById = Null
          /\ token[minted[q]].expiresAt >= token[arg[q]].expiresAt
      BY <2>2, <2>3
    <3> HIDE DEF Typed, InTransaction, Allocation, Private, Continues
    <3>2. QED
      BY <2>1, <2>2, <2>3, <3>1
  <2>4. QED
    BY <2>3
<1>11. ASSUME NEW r \in Requests, RevokeAllStart(r) PROVE Continues'
  BY <1>11 DEF RevokeAllStart
<1>12. ASSUME NEW r \in Requests, RevokeAllFinish(r) PROVE Continues'
  <2>1. \A t \in Ids : /\ token'[t].session = token[t].session
                       /\ token'[t].userId = token[t].userId
                       /\ token'[t].expiresAt = token[t].expiresAt
                       /\ token'[t].replacedById = token[t].replacedById
    BY <1>12 DEF RevokeAllFinish
  <2>2. \A q \in Requests :
          /\ pc'[q] \in InTransaction => pc[q] \in InTransaction
          /\ pc'[q] \in InTransaction => arg'[q] = arg[q] /\ minted'[q] = minted[q]
          /\ pc[q] \in InTransaction => arg[q] \in Ids /\ minted[q] \in Ids
    BY <1>12 DEF RevokeAllFinish
  <2> HIDE DEF Typed, InTransaction
  <2>3. QED
    BY <2>1, <2>2
<1>13. ASSUME NEW r \in Requests, LogoutRevoke(r) PROVE Continues'
  <2>1. OnlyRevokes
    BY <1>13, <1>r
  <2>2. \A q \in Requests :
          /\ pc'[q] \in InTransaction => pc[q] \in InTransaction
          /\ pc'[q] \in InTransaction => arg'[q] = arg[q] /\ minted'[q] = minted[q]
          /\ pc[q] \in InTransaction => arg[q] \in Ids /\ minted[q] \in Ids
    BY <1>13 DEF LogoutRevoke
  <2> HIDE DEF Typed, InTransaction
  <2>3. QED
    BY <2>1, <2>2 DEF OnlyRevokes
<1>14. ASSUME NEW r \in Requests, Abort(r) PROVE Continues'
  <2>1. \A q \in Requests : pc'[q] \in InTransaction =>
          /\ pc[q] \in InTransaction /\ arg'[q] = arg[q] /\ minted'[q] = minted[q]
          /\ token'[arg[q]] = token[arg[q]] /\ token'[minted[q]] = token[minted[q]]
    BY <1>14 DEF Abort
  <2>2. \A t \in table : token'[t] = token[t]
    BY <1>14 DEF Abort
  <2>3. table' = table
    BY <1>14 DEF Abort
  <2> HIDE DEF Typed, Allocation, Private, InTransaction, Row, Ids
  <2>4. QED
    BY <2>1, <2>2, <2>3
<1>15. ASSUME RemoveExpiredTokens PROVE Continues'
  BY <1>15 DEF RemoveExpiredTokens, Sweepable, Locked
<1>16. ASSUME Tick PROVE Continues'
  BY <1>16 DEF Tick
<1>17. ASSUME UNCHANGED vars PROVE Continues'
  BY <1>17 DEF vars
<1>18. QED
  BY <1>1, <1>2, <1>3, <1>4, <1>5, <1>6, <1>7, <1>8, <1>9, <1>10, <1>11, <1>12, <1>13, <1>14, <1>15, <1>16, <1>17 DEF Next, Arrive, Serve

\* The row lock protects the token between markAsUsed and the commit.
LEMMA StepLockHolds == Typed /\ Allocation /\ Private /\ LockHolds /\ [Next]_vars => LockHolds'
<1> SUFFICES ASSUME Typed, Allocation, Private, LockHolds, [Next]_vars PROVE LockHolds'
  OBVIOUS
<1>r. \A r \in Requests : LogoutRevoke(r) \/ RevokeAllFinish(r) => OnlyRevokes
  BY RevokedOnly DEF Typed
<1> USE DEF Typed, TypeOK, WellFormed, InTransaction, Revoking, Pc, Goto, Finish, Ids, Null, Clock, Row,
            database, locals, world, history, Allocation, Private, LockHolds, MarkMatches
<1>1. ASSUME NEW r \in Requests, NEW u \in Users, IssueTokens(r, u) PROVE LockHolds'
  BY <1>1 DEF IssueTokens, NewRow, CanMint
<1>2. ASSUME NEW r \in Requests, NEW t \in delivered, RotateRead(r, t) PROVE LockHolds'
  BY <1>2 DEF RotateRead, Seen
<1>3. ASSUME NEW r \in Requests, NEW t \in delivered, LogoutRead(r, t) PROVE LockHolds'
  <2>1. UNCHANGED <<table, token>>
    BY <1>3 DEF LogoutRead
  <2>2. \A q \in Requests : pc'[q] = "commit" => pc[q] = "commit" /\ arg'[q] = arg[q]
    BY <1>3 DEF LogoutRead
  <2> HIDE DEF Typed, Row, Ids
  <2>3. QED
    BY <2>1, <2>2
<1>4. ASSUME NEW r \in Requests, Reply(r) PROVE LockHolds'
  BY <1>4 DEF Reply
<1>5. ASSUME NEW r \in Requests, RotateRefuse(r) PROVE LockHolds'
  BY <1>5 DEF RotateRefuse
<1>6. ASSUME NEW r \in Requests, RotateReplayed(r) PROVE LockHolds'
  BY <1>6 DEF RotateReplayed
<1>7. ASSUME NEW r \in Requests, RotateCreate(r) PROVE LockHolds'
  BY <1>7 DEF RotateCreate, NewRow, Expired
<1>8. ASSUME NEW r \in Requests, RotateMark(r) PROVE LockHolds'
  BY <1>8 DEF RotateMark, MarkMatches, Locked
<1>9. ASSUME NEW r \in Requests, RotateLost(r) PROVE LockHolds'
  BY <1>9 DEF RotateLost, BlankRow, MarkMatches
<1>10. ASSUME NEW r \in Requests, RotateCommit(r) PROVE LockHolds'
  BY <1>10 DEF RotateCommit
<1>11. ASSUME NEW r \in Requests, RevokeAllStart(r) PROVE LockHolds'
  BY <1>11 DEF RevokeAllStart
<1>12. ASSUME NEW r \in Requests, RevokeAllFinish(r) PROVE LockHolds'
  BY <1>12 DEF RevokeAllFinish
<1>13. ASSUME NEW r \in Requests, LogoutRevoke(r) PROVE LockHolds'
  <2>1. table' = table
    BY <1>13 DEF LogoutRevoke
  <2>2. OnlyRevokes
    BY <1>13, <1>r
  <2>3. \A q \in Requests : pc'[q] = "commit" =>
          pc[q] = "commit" /\ arg'[q] = arg[q] /\ arg[q] \in Ids
    BY <1>13 DEF LogoutRevoke
  <2> HIDE DEF Typed, Allocation, Private, Row, Ids
  <2>4. QED
    BY <2>1, <2>2, <2>3 DEF OnlyRevokes
<1>14. ASSUME NEW r \in Requests, Abort(r) PROVE LockHolds'
  BY <1>14 DEF Abort, BlankRow
<1>15. ASSUME RemoveExpiredTokens PROVE LockHolds'
  BY <1>15 DEF RemoveExpiredTokens, Sweepable, Locked
<1>16. ASSUME Tick PROVE LockHolds'
  BY <1>16 DEF Tick
<1>17. ASSUME UNCHANGED vars PROVE LockHolds'
  BY <1>17 DEF vars
<1>18. QED
  BY <1>1, <1>2, <1>3, <1>4, <1>5, <1>6, <1>7, <1>8, <1>9, <1>10, <1>11, <1>12, <1>13, <1>14, <1>15, <1>16, <1>17 DEF Next, Arrive, Serve

\* No step gives a session a second current token.
LEMMA StepOneCurrentTokenPerSession == Typed /\ Allocation /\ Private /\ Continues /\ LockHolds /\ OneCurrentTokenPerSession /\ [Next]_vars => OneCurrentTokenPerSession'
<1> SUFFICES ASSUME Typed, Allocation, Private, Continues, LockHolds, OneCurrentTokenPerSession, [Next]_vars PROVE OneCurrentTokenPerSession'
  OBVIOUS
<1> USE DEF Typed, TypeOK, WellFormed, InTransaction, Revoking, Pc, Goto, Finish, Ids, Null, Clock, Row,
            database, locals, world, history, Allocation, Private, Continues, LockHolds, MarkMatches,
            OneCurrentTokenPerSession
<1>1. ASSUME NEW r \in Requests, NEW u \in Users, IssueTokens(r, u) PROVE OneCurrentTokenPerSession'
  BY <1>1 DEF IssueTokens, NewRow, CanMint
<1>2. ASSUME NEW r \in Requests, NEW t \in delivered, RotateRead(r, t) PROVE OneCurrentTokenPerSession'
  BY <1>2 DEF RotateRead, Seen
<1>3. ASSUME NEW r \in Requests, NEW t \in delivered, LogoutRead(r, t) PROVE OneCurrentTokenPerSession'
  BY <1>3 DEF LogoutRead
<1>4. ASSUME NEW r \in Requests, Reply(r) PROVE OneCurrentTokenPerSession'
  BY <1>4 DEF Reply
<1>5. ASSUME NEW r \in Requests, RotateRefuse(r) PROVE OneCurrentTokenPerSession'
  BY <1>5 DEF RotateRefuse
<1>6. ASSUME NEW r \in Requests, RotateReplayed(r) PROVE OneCurrentTokenPerSession'
  BY <1>6 DEF RotateReplayed
<1>7. ASSUME NEW r \in Requests, RotateCreate(r) PROVE OneCurrentTokenPerSession'
  BY <1>7 DEF RotateCreate, NewRow, Expired
<1>8. ASSUME NEW r \in Requests, RotateMark(r) PROVE OneCurrentTokenPerSession'
  BY <1>8 DEF RotateMark, MarkMatches, Locked
<1>9. ASSUME NEW r \in Requests, RotateLost(r) PROVE OneCurrentTokenPerSession'
  <2>1. \A t \in Ids \ {minted[r]} : token'[t] = token[t]
    BY <1>9 DEF RotateLost
  <2>2. QED
    BY <1>9, <2>1 DEF RotateLost
<1>10. ASSUME NEW r \in Requests, RotateCommit(r) PROVE OneCurrentTokenPerSession'
  <2>1. pc[r] = "commit" /\ arg[r] \in Ids /\ minted[r] \in Ids /\ table \subseteq Ids
    BY <1>10 DEF RotateCommit
  <2>2. /\ table' = table \union {minted[r]}
        /\ \A t \in Ids : token'[t].session = token[t].session
        /\ \A t \in Ids \ {arg[r]} : token'[t].replacedById = token[t].replacedById
        /\ token'[arg[r]].replacedById # Null
    BY <1>10, <2>1 DEF RotateCommit
  <2>3. arg[r] \in table /\ token[arg[r]].replacedById = Null
    BY <2>1
  <2>4. token[minted[r]].session = token[arg[r]].session
    BY <2>1
  <2> HIDE DEF Typed, Row, Ids
  <2>5. QED
    BY <2>1, <2>2, <2>3, <2>4
<1>11. ASSUME NEW r \in Requests, RevokeAllStart(r) PROVE OneCurrentTokenPerSession'
  BY <1>11 DEF RevokeAllStart
<1>12. ASSUME NEW r \in Requests, RevokeAllFinish(r) PROVE OneCurrentTokenPerSession'
  BY <1>12 DEF RevokeAllFinish
<1>13. ASSUME NEW r \in Requests, LogoutRevoke(r) PROVE OneCurrentTokenPerSession'
  BY <1>13 DEF LogoutRevoke
<1>14. ASSUME NEW r \in Requests, Abort(r) PROVE OneCurrentTokenPerSession'
  <2>1. \A t \in Ids \ {minted[r]} : token'[t] = token[t]
    BY <1>14 DEF Abort
  <2>2. QED
    BY <1>14, <2>1 DEF Abort
<1>15. ASSUME RemoveExpiredTokens PROVE OneCurrentTokenPerSession'
  BY <1>15 DEF RemoveExpiredTokens, Sweepable, Locked
<1>16. ASSUME Tick PROVE OneCurrentTokenPerSession'
  BY <1>16 DEF Tick
<1>17. ASSUME UNCHANGED vars PROVE OneCurrentTokenPerSession'
  BY <1>17 DEF vars
<1>18. QED
  BY <1>1, <1>2, <1>3, <1>4, <1>5, <1>6, <1>7, <1>8, <1>9, <1>10, <1>11, <1>12, <1>13, <1>14, <1>15, <1>16, <1>17 DEF Next, Arrive, Serve

\* No step takes a successor away, the sweep included.
LEMMA StepNoDanglingSuccessor == Typed /\ Allocation /\ Private /\ Continues /\ LockHolds /\ NoDanglingSuccessor /\ [Next]_vars => NoDanglingSuccessor'
<1> SUFFICES ASSUME Typed, Allocation, Private, Continues, LockHolds, NoDanglingSuccessor, [Next]_vars PROVE NoDanglingSuccessor'
  OBVIOUS
<1>r. \A r \in Requests : LogoutRevoke(r) \/ RevokeAllFinish(r) => OnlyRevokes
  BY RevokedOnly DEF Typed
<1> USE DEF Typed, TypeOK, WellFormed, InTransaction, Revoking, Pc, Goto, Finish, Ids, Null, Clock, Row,
            database, locals, world, history, Allocation, Private, Continues, LockHolds, MarkMatches,
            NoDanglingSuccessor
<1>1. ASSUME NEW r \in Requests, NEW u \in Users, IssueTokens(r, u) PROVE NoDanglingSuccessor'
  BY <1>1 DEF IssueTokens, NewRow, CanMint
<1>2. ASSUME NEW r \in Requests, NEW t \in delivered, RotateRead(r, t) PROVE NoDanglingSuccessor'
  BY <1>2 DEF RotateRead, Seen
<1>3. ASSUME NEW r \in Requests, NEW t \in delivered, LogoutRead(r, t) PROVE NoDanglingSuccessor'
  BY <1>3 DEF LogoutRead
<1>4. ASSUME NEW r \in Requests, Reply(r) PROVE NoDanglingSuccessor'
  BY <1>4 DEF Reply
<1>5. ASSUME NEW r \in Requests, RotateRefuse(r) PROVE NoDanglingSuccessor'
  BY <1>5 DEF RotateRefuse
<1>6. ASSUME NEW r \in Requests, RotateReplayed(r) PROVE NoDanglingSuccessor'
  BY <1>6 DEF RotateReplayed
<1>7. ASSUME NEW r \in Requests, RotateCreate(r) PROVE NoDanglingSuccessor'
  BY <1>7 DEF RotateCreate, NewRow, Expired
<1>8. ASSUME NEW r \in Requests, RotateMark(r) PROVE NoDanglingSuccessor'
  BY <1>8 DEF RotateMark, MarkMatches, Locked
<1>9. ASSUME NEW r \in Requests, RotateLost(r) PROVE NoDanglingSuccessor'
  <2>1. table' = table /\ table \subseteq Ids
    BY <1>9 DEF RotateLost
  <2>2. \A t \in table : token'[t] = token[t]
    BY <1>9 DEF RotateLost
  <2> HIDE DEF Typed, Allocation, Private, Continues, LockHolds, OneCurrentTokenPerSession, Row, Ids
  <2>3. QED
    BY <2>1, <2>2
<1>10. ASSUME NEW r \in Requests, RotateCommit(r) PROVE NoDanglingSuccessor'
  <2> DEFINE spent == arg[r]
             next  == minted[r]
  <2>1. /\ table' = table \union {next} /\ spent \in Ids /\ next \in Ids \ {spent}
        /\ table \subseteq Ids /\ Null \notin Ids
    BY <1>10 DEF RotateCommit
  <2>2. /\ token[next].session = token[spent].session
        /\ token[next].userId = token[spent].userId
        /\ token[next].expiresAt >= token[spent].expiresAt
        /\ token[next].replacedById = Null
    BY <1>10 DEF RotateCommit
  <2>3. /\ token'[spent].replacedById = next
        /\ \A t \in Ids \ {spent} : token'[t].replacedById = token[t].replacedById
        /\ \A t \in Ids : /\ token'[t].session = token[t].session
                          /\ token'[t].userId = token[t].userId
                          /\ token'[t].expiresAt = token[t].expiresAt
    BY <1>10, <2>1 DEF RotateCommit
  <2> HIDE DEF Typed, Allocation, Private, Continues, LockHolds, OneCurrentTokenPerSession, Row, Ids, Null
  <2>4. QED
    BY <2>1, <2>2, <2>3
<1>11. ASSUME NEW r \in Requests, RevokeAllStart(r) PROVE NoDanglingSuccessor'
  BY <1>11 DEF RevokeAllStart
<1>12. ASSUME NEW r \in Requests, RevokeAllFinish(r) PROVE NoDanglingSuccessor'
  <2>1. OnlyRevokes
    BY <1>12, <1>r
  <2>2. table' = table /\ table \subseteq Ids
    BY <1>12 DEF RevokeAllFinish
  <2>3. \A t \in Ids : token[t].replacedById \in Ids \union {Null}
    BY DEF Row
  <2> HIDE DEF Typed
  <2>4. QED
    BY <2>1, <2>2, <2>3 DEF OnlyRevokes
<1>13. ASSUME NEW r \in Requests, LogoutRevoke(r) PROVE NoDanglingSuccessor'
  <2>1. OnlyRevokes
    BY <1>13, <1>r
  <2>2. table' = table /\ table \subseteq Ids
    BY <1>13 DEF LogoutRevoke
  <2>3. \A t \in Ids : token[t].replacedById \in Ids \union {Null}
    BY DEF Row
  <2> HIDE DEF Typed
  <2>4. QED
    BY <2>1, <2>2, <2>3 DEF OnlyRevokes
<1>14. ASSUME NEW r \in Requests, Abort(r) PROVE NoDanglingSuccessor'
  BY <1>14 DEF Abort, BlankRow
<1>15. ASSUME RemoveExpiredTokens PROVE NoDanglingSuccessor'
  BY <1>15 DEF RemoveExpiredTokens, Sweepable, Locked
<1>16. ASSUME Tick PROVE NoDanglingSuccessor'
  BY <1>16 DEF Tick
<1>17. ASSUME UNCHANGED vars PROVE NoDanglingSuccessor'
  BY <1>17 DEF vars
<1>18. QED
  BY <1>1, <1>2, <1>3, <1>4, <1>5, <1>6, <1>7, <1>8, <1>9, <1>10, <1>11, <1>12, <1>13, <1>14, <1>15, <1>16, <1>17 DEF Next, Arrive, Serve

\* A token replaced behind a request was presented to another one.
LEMMA StepPresentations == Typed /\ Allocation /\ Private /\ LockHolds /\ Presentations /\ [Next]_vars => Presentations'
<1> SUFFICES ASSUME Typed, Allocation, Private, LockHolds, Presentations, [Next]_vars PROVE Presentations'
  OBVIOUS
<1> USE DEF Typed, TypeOK, WellFormed, InTransaction, Revoking, Pc, Goto, Finish, Ids, Null, Clock, Row,
            database, locals, world, history, Allocation, Private, LockHolds, MarkMatches, Rotating, Presentations
<1>1. ASSUME NEW r \in Requests, NEW u \in Users, IssueTokens(r, u) PROVE Presentations'
  <2>1. nextId \in Ids /\ \A t \in Ids \ {nextId} : token'[t] = token[t]
    BY <1>1 DEF IssueTokens, CanMint
  <2>2. token'[nextId].replacedById = Null
    BY <1>1, <2>1 DEF IssueTokens, NewRow
  <2>3. \A q \in Requests :
          /\ Rotating(q)' => Rotating(q)
          /\ Rotating(q) => arg[q] \in delivered
          /\ Rotating(q)' => pc'[q] = pc[q]
    BY <1>1 DEF IssueTokens
  <2>4. delivered \subseteq Ids \ {nextId}
    OBVIOUS
  <2>5. UNCHANGED <<arg, seen, presented>> /\ table' = table \union {nextId}
    BY <1>1 DEF IssueTokens
  <2> HIDE DEF Typed, Ids
  <2>6. QED
    BY <2>1, <2>2, <2>3, <2>4, <2>5
<1>2. ASSUME NEW r \in Requests, NEW t \in delivered, RotateRead(r, t) PROVE Presentations'
  <2>1. /\ UNCHANGED <<table, token>>
        /\ t \in Ids /\ presented'[t] = IF presented[t] = 0 THEN 1 ELSE 2
        /\ \A x \in Ids \ {t} : presented'[x] = presented[x]
    BY <1>2 DEF RotateRead
  <2>2. /\ pc[r] = "idle" /\ pc'[r] = "read" /\ arg'[r] = t
        /\ seen'[r] = "spent" => token[t].replacedById # Null
    BY <1>2 DEF RotateRead, Seen
  <2>3. \A q \in Requests \ {r} :
          pc'[q] = pc[q] /\ arg'[q] = arg[q] /\ seen'[q] = seen[q]
    BY <1>2 DEF RotateRead
  <2>4. \A q \in Requests : Rotating(q) => arg[q] \in Ids
    OBVIOUS
  <2>5. presented \in [Ids -> 0 .. 2]
    OBVIOUS
  <2> HIDE DEF Typed, Row, Ids
  <2>6. QED
    BY <2>1, <2>2, <2>3, <2>4, <2>5
<1>3. ASSUME NEW r \in Requests, NEW t \in delivered, LogoutRead(r, t) PROVE Presentations'
  <2>1. \A q \in Requests : Rotating(q)' => Rotating(q) /\ arg'[q] = arg[q] /\ pc'[q] = pc[q]
    BY <1>3 DEF LogoutRead
  <2>2. UNCHANGED <<table, token, seen, presented>>
    BY <1>3 DEF LogoutRead
  <2>3. QED
    BY <2>1, <2>2
<1>4. ASSUME NEW r \in Requests, Reply(r) PROVE Presentations'
  BY <1>4 DEF Reply
<1>5. ASSUME NEW r \in Requests, RotateRefuse(r) PROVE Presentations'
  BY <1>5 DEF RotateRefuse
<1>6. ASSUME NEW r \in Requests, RotateReplayed(r) PROVE Presentations'
  BY <1>6 DEF RotateReplayed
<1>7. ASSUME NEW r \in Requests, RotateCreate(r) PROVE Presentations'
  <2>1. nextId \in Ids /\ \A t \in Ids \ {nextId} : token'[t] = token[t]
    BY <1>7 DEF RotateCreate
  <2>2. token'[nextId].replacedById = Null
    BY <1>7, <2>1 DEF RotateCreate, NewRow
  <2>3. \A q \in Requests :
          /\ Rotating(q)' => Rotating(q)
          /\ Rotating(q) => arg[q] \in delivered
          /\ q # r => pc'[q] = pc[q]
          /\ pc'[r] = "mark"
    BY <1>7 DEF RotateCreate
  <2>4. delivered \subseteq Ids \ {nextId}
    OBVIOUS
  <2>5. UNCHANGED <<table, arg, seen, presented>>
    BY <1>7 DEF RotateCreate
  <2> HIDE DEF Typed, Ids
  <2>6. QED
    BY <2>1, <2>2, <2>3, <2>4, <2>5
<1>8. ASSUME NEW r \in Requests, RotateMark(r) PROVE Presentations'
  BY <1>8 DEF RotateMark, MarkMatches, Locked
<1>9. ASSUME NEW r \in Requests, RotateLost(r) PROVE Presentations'
  <2>1. pc[r] = "mark" /\ pc'[r] = "revoke" /\ UNCHANGED <<table, arg, seen, presented>>
    BY <1>9 DEF RotateLost
  <2>2. \A q \in Requests \ {r} : pc'[q] = pc[q]
    BY <1>9 DEF RotateLost
  <2>3. /\ \A t \in Ids \ {minted[r]} : token'[t] = token[t]
        /\ minted[r] \in Ids => token'[minted[r]].replacedById = Null
    BY <1>9 DEF RotateLost, BlankRow
  <2>4. \A q \in Requests : Rotating(q) => arg[q] \in Ids \ {minted[r]}
    BY <2>1
  <2>5. token[arg[r]].replacedById # Null \/ arg[r] \notin table
    BY <1>9 DEF RotateLost, MarkMatches
  <2> HIDE DEF Typed, Row, Ids
  <2>6. QED
    BY <2>1, <2>2, <2>3, <2>4, <2>5
<1>10. ASSUME NEW r \in Requests, RotateCommit(r) PROVE Presentations'
  <2>1. /\ pc[r] = "commit" /\ pc'[r] = "reply" /\ UNCHANGED <<arg, seen, presented>>
        /\ table' = table \union {minted[r]}
    BY <1>10 DEF RotateCommit
  <2>2. \A q \in Requests \ {r} : pc'[q] = pc[q]
    BY <1>10 DEF RotateCommit
  <2>3. /\ \A t \in Ids \ {arg[r]} : token'[t].replacedById = token[t].replacedById
        /\ arg[r] \in Ids /\ token'[arg[r]].replacedById # Null
    BY <1>10 DEF RotateCommit
  <2>4. \A q \in Requests : Rotating(q) => arg[q] \in Ids /\ arg[q] \in delivered
    OBVIOUS
  <2>5. minted[r] \notin delivered /\ Rotating(r)
    BY <2>1
  <2> HIDE DEF Typed, Row, Ids
  <2>6. QED
    BY <2>1, <2>2, <2>3, <2>4, <2>5
<1>11. ASSUME NEW r \in Requests, RevokeAllStart(r) PROVE Presentations'
  BY <1>11 DEF RevokeAllStart
<1>12. ASSUME NEW r \in Requests, RevokeAllFinish(r) PROVE Presentations'
  <2>1. \A t \in Ids : /\ token'[t].session = token[t].session
                       /\ token'[t].userId = token[t].userId
                       /\ token'[t].expiresAt = token[t].expiresAt
                       /\ token'[t].replacedById = token[t].replacedById
    BY <1>12 DEF RevokeAllFinish
  <2>2. \A q \in Requests :
          /\ Rotating(q)' => Rotating(q) /\ arg'[q] = arg[q] /\ seen'[q] = seen[q] /\ pc'[q] = pc[q]
          /\ Rotating(q) => arg[q] \in Ids
    BY <1>12 DEF RevokeAllFinish
  <2>3. UNCHANGED <<table, presented>>
    BY <1>12 DEF RevokeAllFinish
  <2> HIDE DEF Typed, Ids
  <2>4. QED
    BY <2>1, <2>2, <2>3
<1>13. ASSUME NEW r \in Requests, LogoutRevoke(r) PROVE Presentations'
  <2>1. \A t \in Ids : token'[t].replacedById = token[t].replacedById
    BY <1>13 DEF LogoutRevoke
  <2>2. \A q \in Requests :
          /\ Rotating(q)' => Rotating(q) /\ arg'[q] = arg[q] /\ seen'[q] = seen[q] /\ pc'[q] = pc[q]
          /\ Rotating(q) => arg[q] \in Ids
    BY <1>13 DEF LogoutRevoke
  <2>3. UNCHANGED <<table, presented>>
    BY <1>13 DEF LogoutRevoke
  <2> HIDE DEF Typed, Row, Ids
  <2>4. QED
    BY <2>1, <2>2, <2>3
<1>14. ASSUME NEW r \in Requests, Abort(r) PROVE Presentations'
  <2>1. \A t \in Ids :
          \/ token'[t] = token[t]
          \/ pc[r] \in InTransaction /\ t = minted[r] /\ token'[t].replacedById = Null
    BY <1>14 DEF Abort, BlankRow
  <2>2. \A q \in Requests :
          Rotating(q)' => Rotating(q) /\ arg'[q] = arg[q] /\ seen'[q] = seen[q] /\ pc'[q] = pc[q]
    BY <1>14 DEF Abort
  <2>3. \A q \in Requests : Rotating(q) => arg[q] \in Ids /\ arg[q] \in delivered
    OBVIOUS
  <2>4. pc[r] \in InTransaction => minted[r] \notin delivered
    OBVIOUS
  <2>5. UNCHANGED <<table, presented>>
    BY <1>14 DEF Abort
  <2> HIDE DEF Typed, Row, Ids
  <2>6. QED
    BY <2>1, <2>2, <2>3, <2>4, <2>5
<1>15. ASSUME RemoveExpiredTokens PROVE Presentations'
  BY <1>15 DEF RemoveExpiredTokens, Sweepable, Locked
<1>16. ASSUME Tick PROVE Presentations'
  BY <1>16 DEF Tick
<1>17. ASSUME UNCHANGED vars PROVE Presentations'
  BY <1>17 DEF vars
<1>18. QED
  BY <1>1, <1>2, <1>3, <1>4, <1>5, <1>6, <1>7, <1>8, <1>9, <1>10, <1>11, <1>12, <1>13, <1>14, <1>15, <1>16, <1>17 DEF Next, Arrive, Serve

\* No step gives a session a second user, or an id a session before its turn.
LEMMA StepSessions == Typed /\ Allocation /\ Private /\ Continues /\ Sessions /\ [Next]_vars => Sessions'
<1> SUFFICES ASSUME Typed, Allocation, Private, Continues, Sessions, [Next]_vars PROVE Sessions'
  OBVIOUS
<1>r. \A r \in Requests : LogoutRevoke(r) \/ RevokeAllFinish(r) => OnlyRevokes
  BY RevokedOnly DEF Typed
<1> USE DEF Typed, TypeOK, WellFormed, InTransaction, Revoking, Pc, Goto, Finish, Ids, Null, Clock, Row,
            database, locals, world, history, Allocation, Private, Continues, Sessions
<1>1. ASSUME NEW r \in Requests, NEW u \in Users, IssueTokens(r, u) PROVE Sessions'
  BY <1>1 DEF IssueTokens, NewRow, CanMint
<1>2. ASSUME NEW r \in Requests, NEW t \in delivered, RotateRead(r, t) PROVE Sessions'
  BY <1>2 DEF RotateRead, Seen
<1>3. ASSUME NEW r \in Requests, NEW t \in delivered, LogoutRead(r, t) PROVE Sessions'
  BY <1>3 DEF LogoutRead
<1>4. ASSUME NEW r \in Requests, Reply(r) PROVE Sessions'
  BY <1>4 DEF Reply
<1>5. ASSUME NEW r \in Requests, RotateRefuse(r) PROVE Sessions'
  BY <1>5 DEF RotateRefuse
<1>6. ASSUME NEW r \in Requests, RotateReplayed(r) PROVE Sessions'
  BY <1>6 DEF RotateReplayed
<1>7. ASSUME NEW r \in Requests, RotateCreate(r) PROVE Sessions'
  <2>1. /\ nextId \in Ids /\ nextId' = nextId + 1 /\ arg[r] \in Ids /\ arg[r] < nextId
        /\ UNCHANGED <<table, delivered>> /\ table \union delivered \subseteq Ids \ {nextId}
    <3>1. /\ nextId \in Ids /\ nextId' = nextId + 1 /\ UNCHANGED <<table, delivered>>
          /\ pc[r] = "read"
      BY <1>7 DEF RotateCreate
    <3>2. arg[r] \in Ids /\ arg[r] < nextId
      BY <3>1
    <3>3. \A t \in table \union delivered : t \in Ids /\ t < nextId
      OBVIOUS
    <3>4. table \union delivered \subseteq Ids \ {nextId}
      BY <3>3
    <3>5. QED
      BY <3>1, <3>2, <3>4
  <2>2. /\ \A t \in Ids \ {nextId} : token'[t] = token[t]
        /\ token'[nextId].session = token[arg[r]].session
        /\ token'[nextId].userId = token[arg[r]].userId
    BY <1>7, <2>1 DEF RotateCreate, NewRow
  <2>3. \A q \in Requests : pc'[q] = "reply" =>
          pc[q] = "reply" /\ minted'[q] = minted[q] /\ minted[q] \in Ids \ {nextId}
    BY <1>7 DEF RotateCreate
  <2>4. \A t \in Ids : t >= nextId' => t # nextId /\ t >= nextId
    BY <2>1
  <2> HIDE DEF Typed, Allocation, Private, Continues, Row, Ids
  <2>5. \A t1, t2 \in Ids :
          token'[t1].session = token'[t2].session /\ token'[t1].session # Null =>
            token'[t1].userId = token'[t2].userId
    BY <2>1, <2>2
  <2>6. QED
    BY <2>1, <2>2, <2>3, <2>4, <2>5
<1>8. ASSUME NEW r \in Requests, RotateMark(r) PROVE Sessions'
  BY <1>8 DEF RotateMark
<1>9. ASSUME NEW r \in Requests, RotateLost(r) PROVE Sessions'
  BY <1>9 DEF RotateLost, BlankRow
<1>10. ASSUME NEW r \in Requests, RotateCommit(r) PROVE Sessions'
  <2>1. /\ UNCHANGED <<nextId, delivered>> /\ table' = table \union {minted[r]}
        /\ minted[r] \in Ids /\ arg[r] \in delivered
        /\ token[minted[r]].session = token[arg[r]].session
        /\ table \union delivered \subseteq Ids
    BY <1>10 DEF RotateCommit
  <2>2. \A t \in Ids : /\ token'[t].session = token[t].session
                       /\ token'[t].userId = token[t].userId
    BY <1>10 DEF RotateCommit
  <2>3. \A q \in Requests : pc'[q] = "reply" =>
          (q = r \/ pc[q] = "reply") /\ minted'[q] = minted[q] /\ minted[q] \in Ids
    BY <1>10 DEF RotateCommit
  <2> HIDE DEF Typed, Allocation, Private, Continues, Row, Ids
  <2>4. QED
    BY <2>1, <2>2, <2>3
<1>11. ASSUME NEW r \in Requests, RevokeAllStart(r) PROVE Sessions'
  BY <1>11 DEF RevokeAllStart, LiveRowsOf
<1>12. ASSUME NEW r \in Requests, RevokeAllFinish(r) PROVE Sessions'
  BY <1>12 DEF RevokeAllFinish, InFlight
<1>13. ASSUME NEW r \in Requests, LogoutRevoke(r) PROVE Sessions'
  <2>1. UNCHANGED <<table, nextId, delivered>> /\ table \union delivered \subseteq Ids
    BY <1>13 DEF LogoutRevoke
  <2>2. OnlyRevokes
    BY <1>13, <1>r
  <2>3. \A q \in Requests : pc'[q] = "reply" =>
          pc[q] = "reply" /\ minted'[q] = minted[q] /\ minted[q] \in Ids
    BY <1>13 DEF LogoutRevoke
  <2> HIDE DEF Typed, Allocation, Private, Continues, Row, Ids
  <2>4. QED
    BY <2>1, <2>2, <2>3 DEF OnlyRevokes
<1>14. ASSUME NEW r \in Requests, Abort(r) PROVE Sessions'
  <2>1. UNCHANGED <<table, nextId, delivered>> /\ table \union delivered \subseteq Ids
    BY <1>14 DEF Abort
  <2>2. \A t \in Ids : token'[t] = token[t] \/ token'[t].session = Null
    BY <1>14 DEF Abort, BlankRow
  <2>3. \A t \in table \union delivered : token'[t] = token[t]
    BY <1>14 DEF Abort
  <2>4. \A q \in Requests : pc'[q] = "reply" =>
          pc[q] = "reply" /\ minted'[q] = minted[q] /\ token'[minted[q]] = token[minted[q]]
    BY <1>14 DEF Abort
  <2> HIDE DEF Typed, Allocation, Private, Continues, Row, Ids
  <2>5. QED
    BY <2>1, <2>2, <2>3, <2>4
<1>15. ASSUME RemoveExpiredTokens PROVE Sessions'
  BY <1>15 DEF RemoveExpiredTokens, Sweepable
<1>16. ASSUME Tick PROVE Sessions'
  BY <1>16 DEF Tick
<1>17. ASSUME UNCHANGED vars PROVE Sessions'
  BY <1>17 DEF vars
<1>18. QED
  BY <1>1, <1>2, <1>3, <1>4, <1>5, <1>6, <1>7, <1>8, <1>9, <1>10, <1>11, <1>12, <1>13, <1>14, <1>15, <1>16, <1>17 DEF Next, Arrive, Serve

\* A row a revoke-all has missed came by a rotation that noted the race.
LEMMA StepGathered == Typed /\ Allocation /\ Private /\ Continues /\ Sessions /\ Gathered /\ [Next]_vars => Gathered'
<1> SUFFICES ASSUME Typed, Allocation, Private, Continues, Sessions, Gathered, [Next]_vars PROVE Gathered'
  OBVIOUS
<1>r. \A r \in Requests : LogoutRevoke(r) \/ RevokeAllFinish(r) => OnlyRevokes
  BY RevokedOnly DEF Typed
<1> USE DEF Typed, TypeOK, WellFormed, InTransaction, Revoking, Pc, Goto, Finish, Ids, Null, Clock, Row,
            database, locals, world, history, Allocation, Private, Continues, Sessions, Gathered, Live
<1>1. ASSUME NEW r \in Requests, NEW u \in Users, IssueTokens(r, u) PROVE Gathered'
  BY <1>1 DEF IssueTokens, NewRow, CanMint
<1>2. ASSUME NEW r \in Requests, NEW t \in delivered, RotateRead(r, t) PROVE Gathered'
  <2>1. UNCHANGED <<table, token, nextId, raced, minted, targets>>
    BY <1>2 DEF RotateRead
  <2>2. \A q \in Requests :
          /\ pc'[q] = "revoking" => pc[q] = "revoking"
          /\ pc'[q] \in InTransaction => pc[q] \in InTransaction
    BY <1>2 DEF RotateRead
  <2> HIDE DEF Typed, Allocation, Private, Continues, Sessions, Row, Ids
  <2>3. QED
    BY <2>1, <2>2
<1>3. ASSUME NEW r \in Requests, NEW t \in delivered, LogoutRead(r, t) PROVE Gathered'
  <2>1. UNCHANGED <<table, token, nextId, raced, minted, targets>>
    BY <1>3 DEF LogoutRead
  <2>2. \A q \in Requests :
          /\ pc'[q] = "revoking" => pc[q] = "revoking"
          /\ pc'[q] \in InTransaction => pc[q] \in InTransaction
    BY <1>3 DEF LogoutRead
  <2> HIDE DEF Typed, Allocation, Private, Continues, Sessions, Row, Ids
  <2>3. QED
    BY <2>1, <2>2
<1>4. ASSUME NEW r \in Requests, Reply(r) PROVE Gathered'
  BY <1>4 DEF Reply
<1>5. ASSUME NEW r \in Requests, RotateRefuse(r) PROVE Gathered'
  BY <1>5 DEF RotateRefuse
<1>6. ASSUME NEW r \in Requests, RotateReplayed(r) PROVE Gathered'
  BY <1>6 DEF RotateReplayed
<1>7. ASSUME NEW r \in Requests, RotateCreate(r) PROVE Gathered'
  BY <1>7 DEF RotateCreate, NewRow, Expired
<1>8. ASSUME NEW r \in Requests, RotateMark(r) PROVE Gathered'
  BY <1>8 DEF RotateMark
<1>9. ASSUME NEW r \in Requests, RotateLost(r) PROVE Gathered'
  BY <1>9 DEF RotateLost, BlankRow
<1>10. ASSUME NEW r \in Requests, RotateCommit(r) PROVE Gathered'
  <2>1. /\ UNCHANGED <<nextId, targets, minted>> /\ table' = table \union {minted[r]}
        /\ minted[r] \in Ids /\ arg[r] \in Ids /\ table \subseteq Ids
        /\ raced' = raced \union ({token[arg[r]].session} \intersect Collected)
        /\ token[minted[r]].session = token[arg[r]].session
        /\ \A q \in Requests : targets[q] \subseteq Ids
    BY <1>10 DEF RotateCommit
  <2>2. /\ \A t \in Ids : token'[t].session = token[t].session /\ token'[t].revoked = token[t].revoked
        /\ \A t \in Ids \ {arg[r]} : token'[t].replacedById = token[t].replacedById
        /\ token'[arg[r]].replacedById = minted[r] /\ minted[r] # Null
    BY <1>10, <2>1 DEF RotateCommit
  <2>3. \A q \in Requests :
          /\ pc'[q] = "revoking" => pc[q] = "revoking"
          /\ pc'[q] \in InTransaction => pc[q] \in InTransaction
    BY <1>10 DEF RotateCommit
  <2>4. \A t \in Ids : Live(t)' => Live(t) /\ t # arg[r]
    BY <2>1, <2>2
  <2>5. \A q \in Requests, t \in Ids :
          pc[q] = "revoking" /\ t \in targets[q] => token[t].session \in Collected
    BY DEF Collected
  <2> HIDE DEF Typed, Allocation, Private, Continues, Sessions, Row, Ids, Live
  <2>6. QED
    BY <2>1, <2>2, <2>3, <2>4, <2>5
<1>11. ASSUME NEW r \in Requests, RevokeAllStart(r) PROVE Gathered'
  BY <1>11 DEF RevokeAllStart, LiveRowsOf
<1>12. ASSUME NEW r \in Requests, RevokeAllFinish(r) PROVE Gathered'
  BY <1>12 DEF RevokeAllFinish, InFlight
<1>13. ASSUME NEW r \in Requests, LogoutRevoke(r) PROVE Gathered'
  <2>1. /\ UNCHANGED <<table, nextId, raced>> /\ table \subseteq Ids
        /\ \A q \in Requests : targets[q] \subseteq Ids
    BY <1>13 DEF LogoutRevoke
  <2>2. OnlyRevokes
    BY <1>13, <1>r
  <2>3. \A q \in Requests :
          /\ pc'[q] = "revoking" => pc[q] = "revoking" /\ targets'[q] = targets[q]
          /\ pc'[q] \in InTransaction => pc[q] \in InTransaction /\ minted'[q] = minted[q]
    BY <1>13 DEF LogoutRevoke
  <2> HIDE DEF Typed, Allocation, Private, Continues, Sessions, Row, Ids, Live
  <2>4. QED
    BY <2>1, <2>2, <2>3 DEF OnlyRevokes, Live
<1>14. ASSUME NEW r \in Requests, Abort(r) PROVE Gathered'
  <2>1. UNCHANGED <<table, nextId, raced>> /\ table \subseteq Ids
    BY <1>14 DEF Abort
  <2>2. \A t \in table : token'[t] = token[t]
    BY <1>14 DEF Abort
  <2>3. \A q \in Requests : pc'[q] = "revoking" =>
          /\ pc[q] = "revoking" /\ targets'[q] = targets[q]
          /\ \A t \in targets[q] : token'[t] = token[t]
    BY <1>14 DEF Abort
  <2>4. \A q \in Requests : pc'[q] \in InTransaction =>
          pc[q] \in InTransaction /\ minted'[q] = minted[q]
    BY <1>14 DEF Abort
  <2> HIDE DEF Typed, Allocation, Private, Continues, Sessions, Row, Ids
  <2>5. QED
    BY <2>1, <2>2, <2>3, <2>4
<1>15. ASSUME RemoveExpiredTokens PROVE Gathered'
  BY <1>15 DEF RemoveExpiredTokens, Sweepable
<1>16. ASSUME Tick PROVE Gathered'
  BY <1>16 DEF Tick
<1>17. ASSUME UNCHANGED vars PROVE Gathered'
  BY <1>17 DEF vars
<1>18. QED
  BY <1>1, <1>2, <1>3, <1>4, <1>5, <1>6, <1>7, <1>8, <1>9, <1>10, <1>11, <1>12, <1>13, <1>14, <1>15, <1>16, <1>17 DEF Next, Arrive, Serve

\* No step brings a session back that ended without a race: the revoke-all or the
\* logout wrote its live row, and the rotations in flight are noted.
LEMMA StepEndedAreDead ==
  /\ Typed /\ Allocation /\ Private /\ Continues /\ LockHolds
  /\ OneCurrentTokenPerSession /\ Gathered /\ EndedAreDead
  /\ [Next]_vars
  => EndedAreDead'
<1> SUFFICES ASSUME Typed, Allocation, Private, Continues, LockHolds,
                    OneCurrentTokenPerSession, Gathered, EndedAreDead, [Next]_vars
             PROVE  EndedAreDead'
  OBVIOUS
<1>r. \A r \in Requests : LogoutRevoke(r) \/ RevokeAllFinish(r) => OnlyRevokes
  BY RevokedOnly DEF Typed
<1> USE DEF Typed, TypeOK, WellFormed, InTransaction, Revoking, Pc, Goto, Finish, Ids, Null, Clock, Row,
            database, locals, world, history, Allocation, Private, Continues, LockHolds, Gathered, EndedAreDead, Dead, Live, MarkMatches
<1>1. ASSUME NEW r \in Requests, NEW u \in Users, IssueTokens(r, u) PROVE EndedAreDead'
  BY <1>1 DEF IssueTokens, NewRow, CanMint
<1>2. ASSUME NEW r \in Requests, NEW t \in delivered, RotateRead(r, t) PROVE EndedAreDead'
  BY <1>2 DEF RotateRead, Seen
<1>3. ASSUME NEW r \in Requests, NEW t \in delivered, LogoutRead(r, t) PROVE EndedAreDead'
  <2>1. UNCHANGED <<table, token, nextId, seen, ended, raced, loggedOut>>
    BY <1>3 DEF LogoutRead
  <2>2. \A q \in Requests :
          pc'[q] \in InTransaction \/ (pc'[q] = "read" /\ seen'[q] = "active") =>
            /\ pc[q] \in InTransaction \/ (pc[q] = "read" /\ seen[q] = "active")
            /\ arg'[q] = arg[q]
    BY <1>3 DEF LogoutRead
  <2> HIDE DEF Typed, Allocation, Private, Continues, LockHolds, Gathered, Row, Ids
  <2>3. QED
    BY <2>1, <2>2
<1>4. ASSUME NEW r \in Requests, Reply(r) PROVE EndedAreDead'
  BY <1>4 DEF Reply
<1>5. ASSUME NEW r \in Requests, RotateRefuse(r) PROVE EndedAreDead'
  BY <1>5 DEF RotateRefuse
<1>6. ASSUME NEW r \in Requests, RotateReplayed(r) PROVE EndedAreDead'
  BY <1>6 DEF RotateReplayed
<1>7. ASSUME NEW r \in Requests, RotateCreate(r) PROVE EndedAreDead'
  BY <1>7 DEF RotateCreate, NewRow, Expired
<1>8. ASSUME NEW r \in Requests, RotateMark(r) PROVE EndedAreDead'
  BY <1>8 DEF RotateMark
<1>9. ASSUME NEW r \in Requests, RotateLost(r) PROVE EndedAreDead'
  <2>1. UNCHANGED <<table, nextId, ended, raced, loggedOut>> /\ table \union delivered \subseteq Ids
    BY <1>9 DEF RotateLost
  <2>2. \A t \in table \union delivered : token'[t].session = token[t].session /\ Live(t)' = Live(t)
    BY <1>9 DEF RotateLost
  <2>3. \A q \in Requests :
          pc'[q] \in InTransaction \/ (pc'[q] = "read" /\ seen'[q] = "active") =>
            /\ pc[q] \in InTransaction \/ (pc[q] = "read" /\ seen[q] = "active")
            /\ arg'[q] = arg[q] /\ arg[q] \in delivered
    BY <1>9 DEF RotateLost
  <2> HIDE DEF Typed, Allocation, Private, Continues, LockHolds, Gathered, Row, Ids, Live
  <2>4. QED
    BY <2>1, <2>2, <2>3
<1>10. ASSUME NEW r \in Requests, RotateCommit(r) PROVE EndedAreDead'
  <2>1. /\ UNCHANGED <<nextId, delivered, ended, loggedOut>> /\ table' = table \union {minted[r]}
        /\ raced \subseteq raced' /\ pc[r] \in InTransaction
        /\ arg[r] \in Ids /\ minted[r] \in Ids /\ arg[r] \in delivered
        /\ token[minted[r]].session = token[arg[r]].session
        /\ table \union delivered \subseteq Ids
    BY <1>10 DEF RotateCommit
  <2>2. \A t \in Ids : token'[t].session = token[t].session /\ (Live(t)' => Live(t))
    BY <1>10, <2>1 DEF RotateCommit
  <2>3. \A q \in Requests :
          pc'[q] \in InTransaction \/ (pc'[q] = "read" /\ seen'[q] = "active") =>
            /\ pc[q] \in InTransaction \/ (pc[q] = "read" /\ seen[q] = "active")
            /\ arg'[q] = arg[q] /\ arg[q] \in delivered
    BY <1>10 DEF RotateCommit
  <2> HIDE DEF Typed, Allocation, Private, Continues, LockHolds, Gathered, Row, Ids, Live
  <2>4. QED
    BY <2>1, <2>2, <2>3
<1>11. ASSUME NEW r \in Requests, RevokeAllStart(r) PROVE EndedAreDead'
  BY <1>11 DEF RevokeAllStart, LiveRowsOf
<1>12. ASSUME NEW r \in Requests, RevokeAllFinish(r) PROVE EndedAreDead'
  <2> DEFINE Found == {token[t].session : t \in targets[r]}
  <2>1. /\ pc[r] = "revoking" /\ table' = table /\ nextId' = nextId
        /\ ended' = ended \union Found /\ loggedOut' = loggedOut
        /\ raced' = raced \union InFlight
        /\ table \subseteq Ids /\ targets[r] \subseteq Ids
    BY <1>12 DEF RevokeAllFinish
  <2>2. \A t \in Ids : /\ token'[t].session = token[t].session
                       /\ token'[t].replacedById = token[t].replacedById
                       /\ token[t].revoked => token'[t].revoked
                       /\ t \in targets[r] \intersect table => token'[t].revoked
    BY <1>12 DEF RevokeAllFinish
  <2>3. \A q \in Requests :
          pc'[q] \in InTransaction \/ (pc'[q] = "read" /\ seen'[q] = "active") =>
            /\ pc[q] \in InTransaction \/ (pc[q] = "read" /\ seen[q] = "active")
            /\ arg'[q] = arg[q] /\ arg[q] \in Ids
    BY <1>12 DEF RevokeAllFinish
  <2>4. \A s \in ended' \union loggedOut' : s < nextId'
    BY <2>1
  <2>5. ASSUME NEW t \in table, token'[t].replacedById = Null, ~token'[t].revoked
        PROVE  token'[t].session \notin Dead'
    <3>1. t \in Ids /\ token[t].replacedById = Null /\ ~token[t].revoked /\ t \notin targets[r]
      BY <2>1, <2>2, <2>5
    <3>2. token[t].session \notin Dead
      BY <3>1
    <3>3. \A x \in targets[r] : token[t].session = token[x].session =>
            token[t].session \in raced
      <4>1. Live(t)
        BY <3>1
      <4> HIDE DEF Typed, Allocation, Private, Continues, LockHolds, EndedAreDead, Row, Ids, Live
      <4>2. QED
        BY <2>1, <3>1, <4>1
    <3> HIDE DEF Typed, Allocation, Private, Continues, LockHolds, EndedAreDead, Gathered, Row, Ids
    <3>4. token[t].session \in Found => token[t].session \in raced
      BY <3>3
    <3> HIDE DEF Found
    <3>5. QED
      BY <2>1, <2>2, <3>1, <3>2, <3>4 DEF Dead
  <2>6. ASSUME NEW q \in Requests,
               pc'[q] \in InTransaction \/ (pc'[q] = "read" /\ seen'[q] = "active")
        PROVE  token'[arg'[q]].session \notin Dead'
    <3>1. token[arg[q]].session \in InFlight
      BY <2>3, <2>6 DEF InFlight
    <3> HIDE DEF Typed, Allocation, Private, Continues, LockHolds, Gathered, Row
    <3>2. token'[arg'[q]].session = token[arg[q]].session
      BY <2>2, <2>3, <2>6
    <3>3. token[arg[q]].session \notin Dead
      BY <2>3, <2>6
    <3>4. QED
      BY <2>1, <3>1, <3>2, <3>3 DEF Dead
  <2>7. QED
    BY <2>1, <2>4, <2>5, <2>6
<1>13. ASSUME NEW r \in Requests, LogoutRevoke(r) PROVE EndedAreDead'
  <2>1. /\ UNCHANGED <<table, nextId, ended, raced>> /\ table \union delivered \subseteq Ids
        /\ pc[r] = "logout" /\ arg[r] \in delivered
    BY <1>13 DEF LogoutRevoke
  <2>2. OnlyRevokes
    BY <1>13, <1>r
  <2>3. \A q \in Requests :
          pc'[q] \in InTransaction \/ (pc'[q] = "read" /\ seen'[q] = "active") =>
            /\ pc[q] \in InTransaction \/ (pc[q] = "read" /\ seen[q] = "active")
            /\ arg'[q] = arg[q] /\ arg[q] \in delivered
    BY <1>13 DEF LogoutRevoke
  <2>4. \A t \in table : Live(t)' => Live(t) /\ t # arg[r]
    <3>1. arg[r] \in table => token'[arg[r]].revoked
      BY <1>13, <2>1 DEF LogoutRevoke
    <3>2. QED
      BY <2>1, <2>2, <3>1 DEF OnlyRevokes
  <2>5. CASE ~MarkMatches(arg[r])
    <3>1. loggedOut' = loggedOut
      BY <1>13, <2>5 DEF LogoutRevoke
    <3> HIDE DEF Typed, Allocation, Private, Continues, LockHolds, Gathered, Row, Ids, Live
    <3>2. QED
      BY <2>1, <2>2, <2>3, <2>4, <3>1 DEF OnlyRevokes
  <2>6. CASE MarkMatches(arg[r])
    <3> DEFINE s == token[arg[r]].session
    <3>1. /\ loggedOut' = loggedOut \union ({s} \ InFlight)
          /\ arg[r] \in table /\ token[arg[r]].replacedById = Null /\ s < nextId
      BY <1>13, <2>1, <2>6 DEF LogoutRevoke
    <3>2. \A t \in table : Live(t)' => token[t].session # s
      BY <2>4, <3>1 DEF OneCurrentTokenPerSession
    <3>3. \A q \in Requests :
            pc'[q] \in InTransaction \/ (pc'[q] = "read" /\ seen'[q] = "active") =>
              token[arg[q]].session \in InFlight
      BY <2>3 DEF InFlight
    <3> HIDE DEF Typed, Allocation, Private, Continues, LockHolds, Gathered, Row, Ids, Live, s
    <3>4. QED
      BY <2>1, <2>2, <2>3, <2>4, <3>1, <3>2, <3>3 DEF OnlyRevokes
  <2>7. QED
    BY <2>5, <2>6
<1>14. ASSUME NEW r \in Requests, Abort(r) PROVE EndedAreDead'
  <2>1. UNCHANGED <<table, nextId, ended, raced, loggedOut>> /\ table \union delivered \subseteq Ids
    BY <1>14 DEF Abort
  <2>2. \A t \in table \union delivered : token'[t].session = token[t].session /\ Live(t)' = Live(t)
    BY <1>14 DEF Abort
  <2>3. \A q \in Requests :
          pc'[q] \in InTransaction \/ (pc'[q] = "read" /\ seen'[q] = "active") =>
            /\ pc[q] \in InTransaction \/ (pc[q] = "read" /\ seen[q] = "active")
            /\ arg'[q] = arg[q] /\ arg[q] \in delivered
    BY <1>14 DEF Abort
  <2> HIDE DEF Typed, Allocation, Private, Continues, LockHolds, Gathered, Row, Ids, Live
  <2>4. QED
    BY <2>1, <2>2, <2>3
<1>15. ASSUME RemoveExpiredTokens PROVE EndedAreDead'
  BY <1>15 DEF RemoveExpiredTokens, Sweepable
<1>16. ASSUME Tick PROVE EndedAreDead'
  BY <1>16 DEF Tick
<1>17. ASSUME UNCHANGED vars PROVE EndedAreDead'
  BY <1>17 DEF vars
<1>18. QED
  BY <1>1, <1>2, <1>3, <1>4, <1>5, <1>6, <1>7, <1>8, <1>9, <1>10, <1>11, <1>12, <1>13, <1>14, <1>15, <1>16, <1>17 DEF Next, Arrive, Serve

----------------------------------------------------------------------------
(***************************************************************************)
(* The inductive invariant and what it gives.                              *)
(***************************************************************************)
LEMMA InitIInv == Init => IInv
<1> SUFFICES ASSUME Init PROVE IInv
  OBVIOUS
<1>1. TypeOK /\ WellFormed
  BY InitTyped DEF Typed
<1>2. Allocation
  BY DEF Init, Allocation, BlankRow, Ids, Null, InTransaction
<1>3. Private /\ Continues /\ LockHolds
  BY DEF Init, Private, Continues, LockHolds, InTransaction
<1>4. OneCurrentTokenPerSession /\ NoDanglingSuccessor
  BY DEF Init, OneCurrentTokenPerSession, NoDanglingSuccessor
<1>5. Presentations
  BY DEF Init, Presentations, Rotating, BlankRow, InTransaction, Revoking
<1>6. Sessions /\ Gathered /\ EndedAreDead
  BY DEF Init, Sessions, Gathered, EndedAreDead, Dead, BlankRow, InTransaction
<1>7. QED
  BY <1>1, <1>2, <1>3, <1>4, <1>5, <1>6 DEF IInv

LEMMA StepIInv == IInv /\ [Next]_vars => IInv'
  BY StepTyped, StepAllocation, StepPrivate, StepContinues, StepLockHolds,
     StepOneCurrentTokenPerSession, StepNoDanglingSuccessor, StepPresentations,
     StepSessions, StepGathered, StepEndedAreDead
     DEF IInv, Typed

\* The inductive invariant holds in every reachable state.
THEOREM Invariant == Spec => []IInv
  BY InitIInv, StepIInv, PTL DEF Spec

\* Rotation is linear, however many requests present a token at once: a session
\* never has two tokens that are not replaced.
THEOREM RotationIsLinear == Spec => []OneCurrentTokenPerSession
<1>1. IInv => OneCurrentTokenPerSession
  BY DEF IInv
<1>2. QED
  BY <1>1, Invariant, PTL

\* Neither rollbacks nor the sweep leave a replacedById that points nowhere.
THEOREM SuccessorsExist == Spec => []NoDanglingSuccessor
<1>1. IInv => NoDanglingSuccessor
  BY DEF IInv
<1>2. QED
  BY <1>1, Invariant, PTL

\* Revoke-all is never the consequence of presenting a token once, unless the
\* sweep took its row during the rotation.
THEOREM RevokeAllIsJustified == Spec => []RevokeAllHasCause
<1>1. IInv => RevokeAllHasCause
  BY DEF IInv, Presentations, RevokeAllHasCause, Rotating
<1>2. QED
  BY <1>1, Invariant, PTL

\* A token of a session that a completed revoke-all has seen, or whose current token a
\* logout revoked, is usable only if a rotation of the session was under way meanwhile.
THEOREM EndedSessionsStayDead == Spec => []OnlyRacingSessionsSurvive
<1>1. IInv => OnlyRacingSessionsSurvive
  BY DEF IInv, EndedAreDead, OnlyRacingSessionsSurvive, Usable, Live
<1>2. QED
  BY <1>1, Invariant, PTL
============================================================================
