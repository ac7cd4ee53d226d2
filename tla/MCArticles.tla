----------------------------- MODULE MCArticles -----------------------------
(***************************************************************************)
(* A finite instance of Articles and Feed.                                 *)
(***************************************************************************)
EXTENDS Feed, TLC

\* "Tea", and "Tea 2", whose base is the second slug of the first.
MCTitles == {"Tea", "Tea 2"}
MCBaseSlug == [t \in MCTitles |-> IF t = "Tea" THEN <<0>> ELSE <<0, 2>>]

\* createCandidate, for any slugs in use: free, and the first that is.
ASSUME FirstFreeIsFirst ==
  \A used \in SUBSET ({<<0>>} \union {<<0, n>> : n \in 2 .. MaxArticles + 1}) :
    LET first == FirstFree(<<0>>, used) IN
    /\ first \notin used
    /\ first # <<0>> => <<0>> \in used /\ \A n \in 2 .. first[2] - 1 : <<0, n>> \in used

\* Bound: while the reader reads there is one other request at a time, and nobody
\* comments.  The list shows nothing of requests but what they commit, one by one.
Quiet == nextComment = 1 /\ \A q, r \in Requests : q = r \/ pc[q] = "idle" \/ pc[r] = "idle"
MCNext == FeedNext /\ (page' # 0 => Quiet')
MCSpec == FeedInit /\ [][MCNext]_feedVars

\* Users and requests are only ever compared for equality.
ArticleSymmetry == Permutations(Users) \union Permutations(Requests)
=============================================================================
