----------------------------- MODULE LinkOffers -----------------------------
(***************************************************************************)
(* What signing in through a provider promises, with no requests, rows,    *)
(* transactions, queue or clock in sight.  A subject gets into an account  *)
(* that was created for it, or by an offer: its token is mailed to the     *)
(* address of the account, and whoever confirms it links the two and uses  *)
(* the offer up, in one step.  A new offer takes the place of every offer  *)
(* to the same subject or account.                                         *)
(*                                                                         *)
(* Offers may be withdrawn at any time: when they expire, and what is      *)
(* answered to whom, is not part of this promise.                          *)
(***************************************************************************)
CONSTANTS
  Subjects,   \* provider account ids
  Accounts,   \* email addresses
  Tokens,     \* names of offers
  None        \* no subject, no account

VARIABLES
  registered,   \* accounts there are
  creator,      \* the subject an account was created for
  linked,       \* the account of each subject
  offers,       \* offers that can be confirmed
  underway,     \* offers whose mail is yet to go out, perhaps again
  delivered     \* offers whose mail may be out

vars == <<registered, creator, linked, offers, underway, delivered>>

Offer == [token : Tokens, sub : Subjects, account : Accounts]

Init ==
  /\ registered \subseteq Accounts
  /\ creator = [a \in Accounts |-> None]
  /\ linked = [s \in Subjects |-> None]
  /\ offers = {} /\ underway = {} /\ delivered = {}

\* An account with a password.
Register(a) ==
  /\ a \notin registered
  /\ registered' = registered \union {a}
  /\ UNCHANGED <<creator, linked, offers, underway, delivered>>

\* An account without a password, and the link to get into it.
SignUp(s, a) ==
  /\ a \notin registered
  /\ linked[s] = None
  /\ registered' = registered \union {a}
  /\ creator' = [creator EXCEPT ![a] = s]
  /\ linked' = [linked EXCEPT ![s] = a]
  /\ UNCHANGED <<offers, underway, delivered>>

Fresh(token) == \A p \in offers \union underway \union delivered : p.token # token

Make(o) ==
  /\ Fresh(o.token)
  /\ o.account \in registered
  /\ offers' = {p \in offers : p.sub # o.sub /\ p.account # o.account} \union {o}
  /\ underway' = underway \union {o}
  /\ UNCHANGED <<registered, creator, linked, delivered>>

\* The mail is out; nobody may know.
Deliver(o) ==
  /\ o \in underway
  /\ delivered' = delivered \union {o}
  /\ underway' \in {underway, underway \ {o}}
  /\ UNCHANGED <<registered, creator, linked, offers>>

\* Offers are withdrawn, or mails given up.
Withdraw ==
  /\ UNCHANGED <<registered, creator, linked, delivered>>
  /\ offers' \subseteq offers
  /\ underway' \subseteq underway

Confirm(o) ==
  /\ o \in offers \intersect delivered
  /\ linked[o.sub] = None
  /\ linked' = [linked EXCEPT ![o.sub] = o.account]
  /\ offers' = offers \ {o}
  /\ UNCHANGED <<registered, creator, underway, delivered>>

Next ==
  \/ Withdraw
  \/ \E a \in Accounts : Register(a)
  \/ \E s \in Subjects, a \in Accounts : SignUp(s, a)
  \/ \E o \in Offer : Make(o) \/ Deliver(o) \/ Confirm(o)

Spec == Init /\ [][Next]_vars

\* A token that is out and cannot be confirmed any more never can again.
SpentStaysSpent == [][(delivered \ offers) \intersect offers' = {}]_vars

\* No two offers are to the same subject or the same account.
OneOfferEach == \A o, p \in offers : o.sub = p.sub \/ o.account = p.account => o = p
=============================================================================
