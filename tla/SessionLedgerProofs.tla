------------------------- MODULE SessionLedgerProofs -------------------------
(***************************************************************************)
(* The token service implements SessionLedger: whatever the requests, the  *)
(* sweep, the clock and failures do to the rows of RefreshTokens is, for   *)
(* the tokens a session holds, a login, a rotation, a set of expired       *)
(* sessions disappearing, or nothing.                                      *)
(***************************************************************************)
EXTENDS RefreshTokensProofs

\* The two variables of the ledger, as RefreshTokens computes them.
Pick(S) == CHOOSE t \in S : TRUE
holder == [s \in Ids |-> IF Current(s) = {} THEN Null ELSE Pick(Current(s))]
IsSpent(t) == /\ token[t].session # Null
              /\ t \notin Uncommitted
              /\ ~(t \in table /\ token[t].replacedById = Null)
spent == {t \in Ids : IsSpent(t)}

\* The token a session holds is its current row, and it is the only one.
LEMMA HolderIsCurrent ==
  ASSUME IInv
  PROVE  /\ \A s \in Ids : \A t \in Current(s) : holder[s] = t
         /\ \A s \in Ids : Current(s) = {} <=> holder[s] = Null
         /\ \A s \in Ids : Current(s) \subseteq Ids
<1>1. \A s \in Ids : Current(s) \subseteq Ids
  BY DEF IInv, TypeOK, Current
<1>2. \A s \in Ids : \A t, u \in Current(s) : t = u
  BY DEF IInv, OneCurrentTokenPerSession, Current
<1>3. \A s \in Ids : \A t \in Current(s) : holder[s] = t
  <2> SUFFICES ASSUME NEW s \in Ids, NEW t \in Current(s) PROVE holder[s] = t
    OBVIOUS
  <2>1. Pick(Current(s)) \in Current(s)
    BY DEF Pick
  <2>2. QED
    BY <1>2, <2>1 DEF holder
<1>4. \A s \in Ids : Current(s) = {} => holder[s] = Null
  BY DEF holder
<1>5. \A t \in Ids : t # Null
  BY DEF Ids, Null
<1>6. QED
  BY <1>1, <1>3, <1>4, <1>5

\* No session holds an id that is not a row.
LEMMA UnheldUnlessRow ==
  ASSUME IInv, NEW t \in Ids, t \notin table
  PROVE  \A s \in Ids : holder[s] # t
<1>1. \A s \in Ids : t \notin Current(s)
  BY DEF Current
<1>2. \A s \in Ids : Current(s) # {} => holder[s] \in Current(s)
  BY HolderIsCurrent
<1>3. t # Null
  BY DEF Ids, Null
<1>4. QED
  BY <1>1, <1>2, <1>3, HolderIsCurrent

\* The ledger does not notice a step that leaves the current tokens and the
\* spent ones alone.
LEMMA Stutters ==
  ASSUME \A s \in Ids : Current(s)' = Current(s),
         \A t \in Ids : IsSpent(t)' <=> IsSpent(t)
  PROVE  holder' = holder /\ spent' = spent
<1>1. holder' = holder
  BY DEF holder
<1>2. spent' = spent
  BY DEF spent, Ids
<1>3. QED
  BY <1>1, <1>2

\* It notices neither revocation, reads, answers nor the clock.
LEMMA RowsUntouched ==
  ASSUME IInv,
         table' = table,
         Uncommitted' = Uncommitted,
         \A t \in Ids : /\ token'[t].session = token[t].session
                        /\ token'[t].replacedById = token[t].replacedById
  PROVE  holder' = holder /\ spent' = spent
<1>1. table \subseteq Ids
  BY DEF IInv, TypeOK
<1>2. \A s \in Ids : Current(s)' = Current(s)
  BY <1>1 DEF Current, Ids, Null
<1>3. \A t \in Ids : IsSpent(t)' <=> IsSpent(t)
  BY DEF IsSpent, Ids, Null
<1>4. QED
  BY <1>2, <1>3, Stutters

\* An open transaction that opens, or vanishes, changes neither.
LEMMA UncommittedRow ==
  ASSUME IInv, NEW m \in Ids,
         m \notin table, table' = table,
         Uncommitted' \union {m} = Uncommitted \union {m},
         \A t \in Ids \ {m} : token'[t] = token[t],
         ~IsSpent(m), ~IsSpent(m)'
  PROVE  holder' = holder /\ spent' = spent
<1>1. table \subseteq Ids
  BY DEF IInv, TypeOK
<1>2. \A s \in Ids : Current(s)' = Current(s)
  BY <1>1 DEF Current, Ids, Null
<1>3. ASSUME NEW t \in Ids PROVE IsSpent(t)' <=> IsSpent(t)
  <2>1. CASE t = m
    BY <2>1
  <2>2. CASE t # m
    BY <2>2 DEF IsSpent, Ids, Null
  <2>3. QED
    BY <2>1, <2>2
<1>4. QED
  BY <1>2, <1>3, Stutters

----------------------------------------------------------------------------
\* A login opens the session named by the new token.
LEMMA LoginOpens ==
  ASSUME IInv, NEW r \in Requests, NEW u \in Users, IssueTokens(r, u),
         NEW n, n = nextId
  PROVE  n \in Ids /\ Ledger!Open(n)
<1>1. /\ n \in Ids /\ table' = table \union {n} /\ n \notin table /\ table \subseteq Ids
      /\ token \in [Ids -> Row]
      /\ token' = [token EXCEPT ![n] = NewRow(u, n)]
  BY DEF IInv, TypeOK, IssueTokens, CanMint, Allocation, Ids
<1>2. /\ \A t \in Ids \ {n} : token'[t] = token[t]
      /\ token'[n].session = n /\ token'[n].replacedById = Null
  BY <1>1 DEF NewRow
<1>3. \A t \in Ids : token[t].session # n
  BY <1>1 DEF IInv, Allocation, TypeOK, Ids
<1>4. token[n].session = Null
  BY <1>1 DEF IInv, Sessions, TypeOK, Ids
<1>5. Uncommitted' = Uncommitted
  BY DEF IInv, TypeOK, IssueTokens, Goto, Uncommitted, InTransaction
<1>6. Current(n) = {} /\ Current(n)' = {n} /\ \A s \in Ids \ {n} : Current(s)' = Current(s)
  <2>1. Current(n) = {}
    BY <1>1, <1>3 DEF Current
  <2>2. \A t \in table' : token'[t].session = n <=> t = n
    BY <1>1, <1>2, <1>3
  <2>3. Current(n)' = {n}
    BY <1>1, <1>2, <2>2 DEF Current, Null
  <2>4. ASSUME NEW s \in Ids \ {n} PROVE Current(s)' = Current(s)
    <3>1. \A t \in table : token'[t] = token[t]
      BY <1>1, <1>2
    <3>2. \A t \in table' : t \in Current(s)' <=> t \in Current(s)
      BY <1>1, <1>2, <2>2, <3>1 DEF Current
    <3>3. QED
      BY <1>1, <3>2 DEF Current
  <2>5. QED
    BY <2>1, <2>3, <2>4
<1>7. \A t \in Ids : IsSpent(t)' <=> IsSpent(t)
  BY <1>1, <1>2, <1>4, <1>5 DEF IsSpent, Ids, Null
<1>8. spent' = spent /\ n \notin spent
  BY <1>4, <1>7 DEF spent, IsSpent, Ids
<1>9. holder' = [holder EXCEPT ![n] = n]
  <2>1. Pick(Current(n)') = n
    BY <1>6 DEF Pick
  <2>2. holder'[n] = n /\ \A s \in Ids \ {n} : holder'[s] = holder[s]
    BY <1>1, <1>6, <2>1 DEF holder
  <2>3. /\ holder' = [s \in Ids |-> holder'[s]]
        /\ holder = [s \in Ids |-> holder[s]]
    BY DEF holder
  <2>4. QED
    BY <1>1, <2>2, <2>3
<1>10. holder[n] = Null
  BY <1>1, <1>6 DEF holder
<1>11. \A s \in Ids : holder[s] # n
  BY <1>1, UnheldUnlessRow
<1>12. QED
  BY <1>1, <1>8, <1>9, <1>10, <1>11 DEF Ledger!Open, Ledger!Fresh, holder, Pick, spent, IsSpent

\* A committed rotation passes the session on: to a token that was nobody's,
\* from one that is spent from now on.
LEMMA CommitPasses ==
  ASSUME IInv, NEW r \in Requests, RotateCommit(r),
         NEW m, m = minted[r],
         NEW a, a = arg[r],
         NEW s, s = token[arg[r]].session
  PROVE  /\ s \in Ids /\ m \in Ids
         /\ Ledger!Pass(s, m)
<1>1. /\ pc[r] = "commit" /\ m \in Ids /\ a \in Ids /\ a \in table /\ a # m
      /\ m \notin table /\ table \subseteq Ids /\ table' = table \union {m}
      /\ token[a].replacedById = Null
      /\ token[m].session = s /\ token[m].replacedById = Null
  BY DEF IInv, TypeOK, WellFormed, Private, Continues, LockHolds, MarkMatches,
         InTransaction, RotateCommit, Goto
<1>2. s \in Ids /\ token[a].session = s
  <2>1. token[a].session \in Ids \union {Null}
    BY <1>1 DEF IInv, TypeOK, Row
  <2>2. token[a].session # Null
    BY <1>1 DEF IInv, Sessions
  <2>3. QED
    BY <2>1, <2>2
<1>3. /\ \A t \in Ids : token'[t].session = token[t].session
      /\ \A t \in Ids \ {a} : token'[t].replacedById = token[t].replacedById
      /\ token'[a].replacedById = m /\ m # Null
  BY <1>1 DEF IInv, TypeOK, RotateCommit, Ids, Null
<1>4. Uncommitted' = Uncommitted \ {m} /\ m \in Uncommitted
  <2>1. \A q \in Requests :
          /\ minted'[q] = minted[q]
          /\ pc'[q] \in InTransaction <=> pc[q] \in InTransaction /\ q # r
    BY DEF IInv, TypeOK, RotateCommit, Goto, InTransaction
  <2>2. \A q \in Requests \ {r} : pc[q] \in InTransaction => minted[q] # m
    BY <1>1 DEF IInv, Private, InTransaction
  <2>3. QED
    BY <1>1, <2>1, <2>2 DEF Uncommitted, InTransaction
<1>5. Current(s) = {a} /\ Current(s)' = {m}
  <2>1. a \in Current(s) /\ \A t \in Current(s) : t = a
    BY <1>1, <1>2 DEF IInv, OneCurrentTokenPerSession, Current
  <2>2. \A t \in table : t \in Current(s)' => t \in Current(s) /\ t # a
    BY <1>1, <1>3 DEF Current
  <2>3. m \in Current(s)' /\ \A t \in Current(s)' : t = m
    BY <1>1, <1>3, <2>1, <2>2 DEF Current
  <2>4. QED
    BY <2>1, <2>3
<1>6. ASSUME NEW x \in Ids \ {s} PROVE Current(x)' = Current(x)
  <2>1. \A t \in table' : t \in Current(x)' <=> t \in Current(x)
    BY <1>1, <1>2, <1>3 DEF Current
  <2>2. QED
    BY <1>1, <2>1 DEF Current
<1>7. holder[s] = a
  BY <1>2, <1>5, HolderIsCurrent
<1>8. holder' = [holder EXCEPT ![s] = m]
  <2>1. Pick(Current(s)') = m
    BY <1>5 DEF Pick
  <2>2. holder'[s] = m /\ \A x \in Ids \ {s} : holder'[x] = holder[x]
    BY <1>2, <1>5, <1>6, <2>1 DEF holder
  <2>3. /\ holder' = [x \in Ids |-> holder'[x]]
        /\ holder = [x \in Ids |-> holder[x]]
    BY DEF holder
  <2>4. QED
    BY <1>2, <2>2, <2>3
<1>9. spent' = spent \union {a}
  <2>1. IsSpent(a)'
    <3>1. a \notin Uncommitted
      BY <1>1 DEF IInv, Private, Uncommitted
    <3>2. QED
      BY <1>1, <1>2, <1>3, <1>4, <3>1 DEF IsSpent, Ids, Null
  <2>2. ~IsSpent(m)' /\ ~IsSpent(m)
    BY <1>1, <1>3, <1>4 DEF IsSpent
  <2>3. \A t \in Ids \ {a, m} : IsSpent(t)' <=> IsSpent(t)
    BY <1>1, <1>3, <1>4 DEF IsSpent
  <2>4. QED
    BY <1>1, <2>1, <2>2, <2>3 DEF spent
<1>10. m \notin spent /\ \A x \in Ids : holder[x] # m
  BY <1>1, <1>4, UnheldUnlessRow DEF spent, IsSpent
<1>11. holder[s] # Null
  BY <1>1, <1>7 DEF Ids, Null
<1>12. QED
  BY <1>1, <1>2, <1>7, <1>8, <1>9, <1>10, <1>11
     DEF Ledger!Pass, Ledger!Fresh, holder, Pick, spent, IsSpent

\* The sweep forgets the sessions whose current token it takes; the other rows
\* it takes were spent before.
LEMMA SweepForgets ==
  ASSUME IInv, RemoveExpiredTokens,
         NEW D, D = Sweepable,
         NEW S, S = {s \in Ids : Current(s) \intersect D # {}}
  PROVE  S \in SUBSET Ids /\ Ledger!Forget(S)
<1>1. /\ table' = table \ D /\ D \subseteq table /\ table \subseteq Ids
      /\ token' = token
  BY DEF IInv, TypeOK, RemoveExpiredTokens, Sweepable
<1>2. Uncommitted' = Uncommitted
  BY DEF RemoveExpiredTokens, locals, Uncommitted
<1>3. \A s \in S : /\ Current(s) = {holder[s]} /\ holder[s] \in D
                   /\ Current(s)' = {}
  <2> SUFFICES ASSUME NEW s \in S
               PROVE  /\ Current(s) = {holder[s]} /\ holder[s] \in D
                      /\ Current(s)' = {}
    OBVIOUS
  <2>1. PICK t \in Current(s) : t \in D
    OBVIOUS
  <2>2. holder[s] = t /\ Current(s) = {t}
    BY <2>1, HolderIsCurrent
  <2>3. Current(s)' = Current(s) \ D
    BY <1>1 DEF Current
  <2>4. QED
    BY <2>1, <2>2, <2>3
<1>4. \A s \in Ids \ S : Current(s)' = Current(s)
  <2>1. \A s \in Ids : Current(s)' = Current(s) \ D
    BY <1>1 DEF Current
  <2>2. QED
    BY <2>1
<1>5. \A s \in S : holder[s] # Null
  BY <1>1, <1>3 DEF Ids, Null
<1>6. holder' = [s \in Ids |-> IF s \in S THEN Null ELSE holder[s]]
  BY <1>3, <1>4 DEF holder
<1>7. spent' = spent \union {holder[s] : s \in S}
  <2>1. ASSUME NEW t \in Ids, IsSpent(t) PROVE IsSpent(t)'
    BY <1>1, <1>2, <2>1 DEF IsSpent
  <2>2. ASSUME NEW s \in S, NEW x, x = holder[s] PROVE x \in Ids /\ IsSpent(x)'
    <3>1. x \in D /\ x \in table /\ x \in Ids
      BY <1>1, <1>3, <2>2
    <3>2. token[x].session # Null /\ x \notin Uncommitted
      BY <3>1 DEF IInv, Sessions, Private, Uncommitted
    <3>3. QED
      BY <1>1, <1>2, <3>1, <3>2 DEF IsSpent
  <2>3. ASSUME NEW t \in Ids, IsSpent(t)', ~IsSpent(t)
        PROVE  \E s \in S : t = holder[s]
    <3>1. t \in table /\ t \in D /\ token[t].replacedById = Null
      BY <1>1, <1>2, <2>3 DEF IsSpent
    <3>2. token[t].session \in Ids
      <4>1. token[t].session \in Ids \union {Null}
        BY DEF IInv, TypeOK, Row
      <4>2. QED
        BY <3>1, <4>1 DEF IInv, Sessions
    <3>3. t \in Current(token[t].session)
      BY <3>1 DEF Current
    <3>4. token[t].session \in S /\ holder[token[t].session] = t
      BY <3>1, <3>2, <3>3, HolderIsCurrent
    <3>5. QED
      BY <3>4
  <2>4. \A t \in Ids : IsSpent(t)' <=> IsSpent(t) \/ t \in {holder[s] : s \in S}
    BY <2>1, <2>2, <2>3
  <2>5. {holder[s] : s \in S} \subseteq Ids
    BY <2>2
  <2>6. QED
    BY <2>4, <2>5 DEF spent
<1>8. QED
  BY <1>5, <1>6, <1>7 DEF Ledger!Forget, holder, Pick, spent, IsSpent

----------------------------------------------------------------------------
\* A row inserted by a rotation is in no session and not spent until the commit.
LEMMA CreateStutters ==
  ASSUME IInv, NEW r \in Requests, RotateCreate(r), NEW m, m = nextId
  PROVE  holder' = holder /\ spent' = spent
<1>1. /\ m \in Ids /\ m \notin table /\ table' = table
      /\ \A t \in Ids \ {m} : token'[t] = token[t]
  BY DEF IInv, TypeOK, Allocation, RotateCreate, Ids
<1>2. Uncommitted' = Uncommitted \union {m}
  <2>1. \A q \in Requests :
          /\ pc'[q] \in InTransaction <=> pc[q] \in InTransaction \/ q = r
          /\ pc[q] \in InTransaction => q # r
          /\ minted'[q] = IF q = r THEN m ELSE minted[q]
    BY DEF IInv, TypeOK, RotateCreate, Goto, InTransaction
  <2>2. QED
    BY <2>1 DEF Uncommitted
<1>3. ~IsSpent(m) /\ ~IsSpent(m)'
  BY <1>1, <1>2 DEF IInv, TypeOK, Sessions, IsSpent, Ids
<1>4. QED
  BY <1>1, <1>2, <1>3, UncommittedRow

\* A row that is rolled back, for whatever reason, never was in a session.
LEMMA RollbackStutters ==
  ASSUME IInv, NEW r \in Requests, NEW m, m = minted[r],
         pc[r] \in InTransaction, table' = table,
         token' = [token EXCEPT ![m] = BlankRow],
         pc'[r] \notin InTransaction,
         \A q \in Requests \ {r} : pc'[q] = pc[q] /\ minted'[q] = minted[q]
  PROVE  holder' = holder /\ spent' = spent
<1>1. /\ m \in Ids /\ m \notin table /\ token'[m].session = Null
      /\ \A t \in Ids \ {m} : token'[t] = token[t]
  BY DEF IInv, TypeOK, WellFormed, Private, BlankRow
<1>2. m \in Uncommitted /\ Uncommitted' \union {m} = Uncommitted \union {m}
  BY DEF Uncommitted
<1>3. ~IsSpent(m) /\ ~IsSpent(m)'
  BY <1>1, <1>2 DEF IsSpent
<1>4. QED
  BY <1>1, <1>2, <1>3, UncommittedRow

\* Every step of the token service is a step of the ledger or none at all.
LEMMA LedgerStep == IInv /\ [Next]_vars => [Ledger!Next]_(Ledger!vars)
<1> SUFFICES ASSUME IInv, [Next]_vars
             PROVE  Ledger!Next \/ (holder' = holder /\ spent' = spent)
  BY DEF Ledger!vars, holder, Pick, spent, IsSpent
<1> USE DEF IInv, TypeOK, InTransaction, Goto, Finish, database, locals, world, history
<1>1. ASSUME NEW r \in Requests, NEW u \in Users, IssueTokens(r, u) PROVE Ledger!Next
  <2> HIDE DEF IInv
  <2>1. nextId \in Ids /\ Ledger!Open(nextId)
    BY <1>1, LoginOpens
  <2>2. QED
    BY <2>1 DEF Ledger!Next
<1>2. ASSUME NEW r \in Requests, RotateCommit(r) PROVE Ledger!Next
  <2> HIDE DEF IInv
  <2>1. ASSUME NEW m, m = minted[r], NEW a, a = arg[r],
               NEW s, s = token[arg[r]].session
        PROVE  s \in Ids /\ m \in Ids /\ Ledger!Pass(s, m)
    BY <1>2, <2>1, CommitPasses
  <2>2. \E s, m \in Ids : Ledger!Pass(s, m)
    BY <2>1
  <2>3. QED
    BY <2>2 DEF Ledger!Next
<1>3. ASSUME RemoveExpiredTokens PROVE Ledger!Next
  <2> HIDE DEF IInv
  <2>1. ASSUME NEW D, D = Sweepable,
               NEW S, S = {s \in Ids : Current(s) \intersect D # {}}
        PROVE  S \in SUBSET Ids /\ Ledger!Forget(S)
    BY <1>3, <2>1, SweepForgets
  <2>2. \E S \in SUBSET Ids : Ledger!Forget(S)
    BY <2>1
  <2>3. QED
    BY <2>2 DEF Ledger!Next
<1>4. ASSUME NEW r \in Requests, RotateCreate(r) PROVE holder' = holder /\ spent' = spent
  BY <1>4, CreateStutters
<1>5. ASSUME NEW r \in Requests, RotateLost(r) PROVE holder' = holder /\ spent' = spent
  <2>1. /\ pc[r] = "mark" /\ table' = table /\ token' = [token EXCEPT ![minted[r]] = BlankRow]
        /\ pc'[r] = "revoke" /\ \A q \in Requests \ {r} : pc'[q] = pc[q] /\ minted'[q] = minted[q]
    BY <1>5 DEF RotateLost
  <2> HIDE DEF IInv
  <2>2. QED
    BY <2>1, RollbackStutters
<1>6. ASSUME NEW r \in Requests, Abort(r) PROVE holder' = holder /\ spent' = spent
  <2>1. /\ table' = table /\ pc'[r] = "idle"
        /\ \A q \in Requests \ {r} : pc'[q] = pc[q] /\ minted'[q] = minted[q]
    BY <1>6 DEF Abort
  <2>2. CASE pc[r] \in InTransaction
    <3>1. token' = [token EXCEPT ![minted[r]] = BlankRow]
      BY <1>6, <2>2 DEF Abort
    <3> HIDE DEF IInv
    <3>2. QED
      BY <2>1, <2>2, <3>1, RollbackStutters
  <2>3. CASE pc[r] \notin InTransaction
    <3>1. token' = token /\ Uncommitted' = Uncommitted
      BY <1>6, <2>1, <2>3 DEF Abort, Uncommitted
    <3>2. QED
      BY <2>1, <3>1, RowsUntouched
  <2>4. QED
    BY <2>2, <2>3
<1>7. ASSUME NEW r \in Requests,
             \/ \E t \in delivered : RotateRead(r, t)
             \/ \E t \in delivered : LogoutRead(r, t)
             \/ Reply(r) \/ RotateRefuse(r) \/ RotateReplayed(r)
             \/ RotateMark(r) \/ RevokeAllStart(r)
      PROVE  holder' = holder /\ spent' = spent
  <2>1. UNCHANGED <<table, token>>
    BY <1>7 DEF RotateRead, LogoutRead, Reply, RotateRefuse, RotateReplayed, RotateMark,
                RevokeAllStart
  <2>2. \A q \in Requests :
          /\ pc'[q] \in InTransaction <=> pc[q] \in InTransaction
          /\ pc[q] \in InTransaction => minted'[q] = minted[q]
    BY <1>7 DEF RotateRead, LogoutRead, Reply, RotateRefuse, RotateReplayed, RotateMark,
                RevokeAllStart
  <2>3. Uncommitted' = Uncommitted
    BY <2>2 DEF Uncommitted
  <2>4. QED
    BY <2>1, <2>3, RowsUntouched
<1>8. ASSUME NEW r \in Requests, RevokeAllFinish(r) \/ LogoutRevoke(r)
      PROVE  holder' = holder /\ spent' = spent
  <2>1. /\ table' = table
        /\ \A t \in Ids : /\ token'[t].session = token[t].session
                           /\ token'[t].replacedById = token[t].replacedById
    <3>1. CASE RevokeAllFinish(r)
      BY <3>1 DEF RevokeAllFinish
    <3>2. CASE LogoutRevoke(r)
      BY <3>2 DEF LogoutRevoke
    <3>3. QED
      BY <1>8, <3>1, <3>2
  <2>2. \A q \in Requests :
          /\ pc'[q] \in InTransaction <=> pc[q] \in InTransaction
          /\ pc[q] \in InTransaction => minted'[q] = minted[q]
    BY <1>8 DEF RevokeAllFinish, LogoutRevoke
  <2>3. Uncommitted' = Uncommitted
    BY <2>2 DEF Uncommitted
  <2>4. QED
    BY <2>1, <2>3, RowsUntouched
<1>9. ASSUME Tick \/ UNCHANGED vars PROVE holder' = holder /\ spent' = spent
  <2>1. UNCHANGED <<table, token, pc, minted>>
    BY <1>9 DEF Tick, vars
  <2>2. Uncommitted' = Uncommitted
    BY <2>1 DEF Uncommitted
  <2>3. QED
    BY <2>1, <2>2, RowsUntouched
<1>10. QED
  BY <1>1, <1>2, <1>3, <1>4, <1>5, <1>6, <1>7, <1>8, <1>9 DEF Next, Arrive, Serve

\* Every behaviour of the token service is a behaviour of the session ledger: a
\* session passes from one token to one nobody held before, and a token that was
\* replaced or swept is never current again.
THEOREM ServiceImplementsLedger == Spec => ImplementsLedger
<1>1. Init => Ledger!Init
  <2> SUFFICES ASSUME Init PROVE Ledger!Init
    OBVIOUS
  <2>1. \A s \in Ids : Current(s) = {}
    BY DEF Init, Current
  <2>2. \A t \in Ids : token[t].session = Null
    BY DEF Init, BlankRow
  <2>3. QED
    BY <2>1, <2>2 DEF Ledger!Init
<1>2. QED
  BY <1>1, LedgerStep, Invariant, PTL DEF Spec, ImplementsLedger, Ledger!Spec

\* The token a session holds is a current row of that session.
LEMMA HolderIsARow ==
  ASSUME IInv, NEW s \in Ids, holder[s] # Null
  PROVE  /\ holder[s] \in Ids \intersect table
         /\ token[holder[s]].session = s /\ token[holder[s]].replacedById = Null
<1>1. PICK t \in Current(s) : TRUE
  BY HolderIsCurrent
<1>2. holder[s] = t /\ t \in Ids
  BY <1>1, HolderIsCurrent
<1>3. QED
  BY <1>1, <1>2 DEF Current

\* No refresh token is good for two sessions (TokenService.issueTokens and rotate).
THEOREM TokensHaveOneSession == Spec => []Ledger!OneHolder
<1>1. ASSUME IInv PROVE Ledger!OneHolder
  <2>1. \A s, t \in Ids : holder[s] = holder[t] /\ holder[s] # Null => s = t
    BY <1>1, HolderIsARow
  <2>2. QED
    BY <2>1 DEF Ledger!OneHolder, holder, Pick
<1>2. QED
  BY <1>1, Invariant, PTL

\* A refresh token that was replaced by a rotation, or whose row was swept, never
\* becomes the current one of a session again, whatever races, is rolled back or dies.
THEOREM SpentTokensStaySpent == Spec => Ledger!SpentForGood
<1> DEFINE ForGood == /\ spent \subseteq spent'
                      /\ \A s \in Ids : holder'[s] # Null => holder'[s] \notin spent
<1>1. ASSUME IInv PROVE \A s \in Ids : holder[s] # Null => holder[s] \notin spent
  BY <1>1, HolderIsARow DEF spent, IsSpent
<1>2. ASSUME IInv, IInv', Ledger!Next PROVE ForGood
  <2>1. spent \subseteq spent'
    <3>1. CASE \E t \in Ids : Ledger!Open(t)
      BY <3>1 DEF Ledger!Open, spent, IsSpent
    <3>2. CASE \E s, t \in Ids : Ledger!Pass(s, t)
      BY <3>2 DEF Ledger!Pass, spent, IsSpent
    <3>3. CASE \E S \in SUBSET Ids : Ledger!Forget(S)
      BY <3>3 DEF Ledger!Forget, spent, IsSpent
    <3>4. QED
      BY <1>2, <3>1, <3>2, <3>3 DEF Ledger!Next
  <2>2. (\A s \in Ids : holder[s] # Null => holder[s] \notin spent)'
    BY <1>1, <1>2, PTL
  <2>3. QED
    BY <2>1, <2>2
<1>3. IInv /\ [Next]_vars => [ForGood]_(Ledger!vars)
  BY <1>2, LedgerStep, StepIInv
<1>4. QED
  BY <1>3, Invariant, PTL DEF Spec, Ledger!SpentForGood, holder, Pick, spent, IsSpent
============================================================================
