-------------------------------- MODULE Feed --------------------------------
(***************************************************************************)
(* A reader who goes through the pages of the feed, from the first as long *)
(* as has_next_page says there is another, while articles are published,   *)
(* changed and removed (Articles) and the reader follows and unfollows     *)
(* authors (ProfilesService).  The reader is none of Users.                *)
(*                                                                         *)
(* A page is two statements, count and findMany, sent at once and answered *)
(* in either order, each of the list as it is then.  Rows are listed by    *)
(* creation; what PostgreSQL does with those of the same millisecond is    *)
(* left out.                                                               *)
(***************************************************************************)
EXTENDS Articles

CONSTANT PageSize   \* the reader's limit

ASSUME PageSizeAssumption == PageSize \in Nat \ {0}

VARIABLES
  following,   \* authors the reader follows
  page,        \* the page that is being read, or 0
  answered,    \* which of its statements are answered
  counted,     \* what count answered
  owed         \* history: what the reader has yet to be shown

request == <<page, answered, counted>>
feedVars == <<vars, following, request, owed>>

\* listFeedPaginated.
Listed == {i \in articles : article[i].author \in following}

\* Numbers up to this one have been on the reader's pages.
Passed == IF "findMany" \in answered THEN page * PageSize ELSE PaginationSkip(page, PageSize)

FeedInit ==
  /\ Init
  /\ following = {}
  /\ page = 0
  /\ answered = {}
  /\ counted = 0
  /\ owed = {}

\* The reader asks for the first page.  (Bound: edges only matter from here on.)
Open(authors) ==
  /\ page = 0
  /\ page' = 1
  /\ following' = authors
  /\ owed' = {i \in articles : article[i].author \in authors}
  /\ UNCHANGED <<vars, answered, counted>>

\* The page is there, with n rows in all: on to the next one, or that was the last.
Turn(n) ==
  /\ answered' = {}
  /\ counted' = 0
  /\ IF HasNextPage(n, page, PageSize)
     THEN page' = page + 1 /\ UNCHANGED following
     ELSE page' = 0 /\ following' = {}

\* count is answered ...
CountRows ==
  /\ page # 0
  /\ "count" \notin answered
  /\ IF "findMany" \in answered
     THEN Turn(Cardinality(Listed))
     ELSE /\ counted' = Cardinality(Listed)
          /\ answered' = {"count"}
          /\ UNCHANGED <<page, following>>
  /\ owed' = IF page' = 0 THEN {} ELSE owed
  /\ UNCHANGED vars

\* ... and findMany.
FindRows ==
  /\ page # 0
  /\ "findMany" \notin answered
  /\ IF "count" \in answered
     THEN Turn(counted)
     ELSE /\ answered' = {"findMany"}
          /\ UNCHANGED <<page, counted, following>>
  /\ owed' = IF page' = 0 THEN {} ELSE owed \ Page(Listed, page, PageSize)
  /\ UNCHANGED vars

\* Rows that come push others on.  A row that goes is owed no more; if the reader
\* has been past it the rest move back, and nothing is owed.
Shifted ==
  LET gone == Listed \ Listed' IN
  owed' = IF \E i \in gone : Rank(i, Listed) <= Passed THEN {} ELSE owed \ gone

\* followUser and unfollowUser: their one statement.
Follow(u) ==
  /\ page # 0
  /\ u \notin following
  /\ following' = following \union {u}
  /\ UNCHANGED <<vars, request>>
  /\ Shifted

Unfollow(u) ==
  /\ page # 0
  /\ u \in following
  /\ following' = following \ {u}
  /\ UNCHANGED <<vars, request>>
  /\ Shifted

\* Everybody else.
Elsewhere ==
  /\ Next
  /\ UNCHANGED <<following, request>>
  /\ Shifted

FeedNext ==
  \/ \E authors \in SUBSET Users : Open(authors)
  \/ CountRows
  \/ FindRows
  \/ \E u \in Users : Follow(u) \/ Unfollow(u)
  \/ Elsewhere

FeedSpec == FeedInit /\ [][FeedNext]_feedVars

----------------------------------------------------------------------------
(***************************************************************************)
(* Properties                                                              *)
(***************************************************************************)

\* Offsets do not lose what was there all along: when has_next_page sends the reader
\* home, every article that has stayed in the list since the first page was shown,
\* however many were published or came by a follow meanwhile.  Two exceptions: an
\* article the reader had been past went, or the list grew between the count and
\* the findMany of that page.
NothingIsSkipped ==
  [][page # 0 /\ page' = 0 =>
       \/ owed \ (IF "findMany" \in answered THEN {} ELSE Page(Listed, page, PageSize)) = {}
       \/ "count" \in answered /\ counted < Cardinality(Listed)]_feedVars

\* What is owed is listed, and the reader has not been past it: why NothingIsSkipped.
FeedInv ==
  /\ following \subseteq Users
  /\ page \in Nat
  /\ answered \in {{}, {"count"}, {"findMany"}}
  /\ counted \in Nat
  /\ page = 0 => owed = {} /\ answered = {}
  /\ \A i \in owed : i \in Listed /\ Passed < Rank(i, Listed)
=============================================================================
