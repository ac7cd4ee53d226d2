--------------------------- MODULE SessionLedger ---------------------------
(***************************************************************************)
(* What refresh-token rotation promises of the tokens of a session, with   *)
(* no requests, rows or transactions in sight.  A session is named by its  *)
(* first token.  At any time it has one current token or none; it moves    *)
(* on by passing to a token nobody ever held, and a session that was       *)
(* forgotten is forgotten for good.                                        *)
(*                                                                         *)
(* Revocation is not part of this promise: see the README on what the      *)
(* service does and does not guarantee about it.                           *)
(***************************************************************************)
CONSTANTS
  Tokens,   \* names of tokens, each of them also the name of a session
  None      \* no token; not one of them

VARIABLES
  holder,   \* the current token of each session
  spent     \* tokens that were current once and are not any more

vars == <<holder, spent>>

Fresh(t) == t \notin spent /\ \A s \in Tokens : holder[s] # t

Init ==
  /\ holder = [s \in Tokens |-> None]
  /\ spent = {}

\* A login.
Open(t) ==
  /\ Fresh(t)
  /\ holder[t] = None
  /\ holder' = [holder EXCEPT ![t] = t]
  /\ UNCHANGED spent

\* A rotation.
Pass(s, t) ==
  /\ holder[s] # None
  /\ Fresh(t)
  /\ holder' = [holder EXCEPT ![s] = t]
  /\ spent' = spent \union {holder[s]}

\* Expired sessions disappear, several at a time.
Forget(S) ==
  /\ \A s \in S : holder[s] # None
  /\ holder' = [s \in Tokens |-> IF s \in S THEN None ELSE holder[s]]
  /\ spent' = spent \union {holder[s] : s \in S}

Next ==
  \/ \E t \in Tokens : Open(t)
  \/ \E s, t \in Tokens : Pass(s, t)
  \/ \E S \in SUBSET Tokens : Forget(S)

Spec == Init /\ [][Next]_vars

\* No token is the current one of two sessions.
OneHolder == \A s, t \in Tokens : holder[s] = holder[t] /\ holder[s] # None => s = t

\* A token that was replaced, or that expired, never is current again.
SpentForGood ==
  [][spent \subseteq spent' /\ \A s \in Tokens : holder'[s] # None => holder'[s] \notin spent]_vars
============================================================================
