------------------------------ MODULE Articles ------------------------------
(***************************************************************************)
(* ArticlesService and CommentsService over their repositories, with       *)
(* ArticleSlugService, which finds a slug for a title, and the pages of    *)
(* the lists (the pagination extension of Prisma).                         *)
(*                                                                         *)
(* Every await is a step: what a request has read may have changed when it *)
(* writes.  A write is one transaction and commits at once; the slug is    *)
(* unique, and a write that would repeat one fails (P2002).  A slug is the *)
(* sequence of the parts that dashes separate, so that `startsWith base-'  *)
(* asks for a longer sequence with the same beginning.  Columns that no    *)
(* property tells apart (description, body, tags, dates) are left out, and *)
(* so are requests that end in 403 or 404 after their first read.          *)
(***************************************************************************)
EXTENDS Naturals, Sequences, FiniteSets

CONSTANTS
  Users,
  Titles,
  BaseSlug,     \* toBaseSlug: what each title is normalized to
  Requests,     \* HTTP requests that can be served at the same time
  MaxRetries,   \* SLUG_GENERATION_MAX_RETRIES
  None,         \* no user, no title
  MaxArticles,  \* bound: articles ever created
  MaxComments   \* bound: comments ever written

ASSUME BaseSlugAssumption == BaseSlug \in [Titles -> Seq(Nat) \ {<< >>}]
ASSUME ArticlesAssumption ==
  /\ None \notin Users \union Titles
  /\ MaxRetries \in Nat \ {0} /\ MaxArticles \in Nat /\ MaxComments \in Nat

VARIABLES
  articles,     \* ids of the Article rows
  article,      \* columns of each id
  nextArticle,  \* the sequence of ids, in the order of createdAt
  comments,     \* ids of the Comment rows
  comment,      \* columns of each id
  nextComment,  \* the sequence of ids
  pc,           \* per request: what it does next
  user,         \* per request: who it is served for
  target,       \* per request: the article it has found
  about,        \* per request: the comment it is about
  title,        \* per request: the title it was given
  slug,         \* per request: the slug it is going to write
  lost,         \* per request: attempts that met a taken slug
  rivals,       \* history: slugs others have written during its attempts
  stale         \* history: articles given back a title they no longer had

rows == <<articles, article, nextArticle>>
remarks == <<comments, comment, nextComment>>
locals == <<pc, user, target, about, title, slug, lost>>
history == <<rivals, stale>>
vars == <<rows, remarks, locals, history>>

ArticleIds == 1 .. MaxArticles
CommentIds == 1 .. MaxComments

\* A slug is left as it is.
Keep == << >>

BlankArticle == [author |-> None, title |-> None, slug |-> Keep]
BlankComment == [article |-> 0, author |-> None]

Init ==
  /\ articles = {}
  /\ article = [i \in ArticleIds |-> BlankArticle]
  /\ nextArticle = 1
  /\ comments = {}
  /\ comment = [c \in CommentIds |-> BlankComment]
  /\ nextComment = 1
  /\ pc = [r \in Requests |-> "idle"]
  /\ user = [r \in Requests |-> None]
  /\ target = [r \in Requests |-> 0]
  /\ about = [r \in Requests |-> 0]
  /\ title = [r \in Requests |-> None]
  /\ slug = [r \in Requests |-> Keep]
  /\ lost = [r \in Requests |-> 0]
  /\ rivals = [r \in Requests |-> 0]
  /\ stale = {}

\* A request starts: for user u, on article i and comment c, with title t.
Start(r, to, u, i, c, t) ==
  /\ pc[r] = "idle"
  /\ pc' = [pc EXCEPT ![r] = to]
  /\ user' = [user EXCEPT ![r] = u]
  /\ target' = [target EXCEPT ![r] = i]
  /\ about' = [about EXCEPT ![r] = c]
  /\ title' = [title EXCEPT ![r] = t]
  /\ UNCHANGED <<slug, lost>>

Ended(r) ==
  /\ pc' = [pc EXCEPT ![r] = "idle"]
  /\ user' = [user EXCEPT ![r] = None]
  /\ target' = [target EXCEPT ![r] = 0]
  /\ about' = [about EXCEPT ![r] = 0]
  /\ title' = [title EXCEPT ![r] = None]
  /\ slug' = [slug EXCEPT ![r] = Keep]
  /\ lost' = [lost EXCEPT ![r] = 0]

\* A request ends without having changed anything more.
Finish(r) ==
  /\ Ended(r)
  /\ rivals' = [rivals EXCEPT ![r] = 0]
  /\ UNCHANGED stale

\* A request ends by writing a slug, or a title without one: history.
FinishWriting(r) ==
  /\ Ended(r)
  /\ rivals' = [q \in Requests |->
       IF q = r THEN 0
       ELSE IF pc[q] \in {"candidate", "write"} /\ slug[r] # Keep /\ rivals[q] < MaxRetries
       THEN rivals[q] + 1 ELSE rivals[q]]

----------------------------------------------------------------------------
(***************************************************************************)
(* ArticleSlugService.                                                     *)
(***************************************************************************)
StartsWith(s, base) == Len(s) >= Len(base) /\ SubSeq(s, 1, Len(base)) = base

\* findSlugsByBase, leaving out the article that is being renamed.
SlugsByBase(base, except) ==
  {s \in {article[i].slug : i \in articles \ {except}} : StartsWith(s, base)}

\* createCandidate: the base, or the first suffix from 2 that is free.
FirstFree(base, used) ==
  IF base \notin used THEN base
  ELSE LET free == {n \in 2 .. MaxArticles + 2 : Append(base, n) \notin used}
       IN  Append(base, CHOOSE n \in free : \A m \in free : n <= m)

CreateCandidate(r) ==
  /\ pc[r] = "candidate"
  /\ pc' = [pc EXCEPT ![r] = "write"]
  /\ LET base == BaseSlug[title[r]] IN
     slug' = [slug EXCEPT ![r] = FirstFree(base, SlugsByBase(base, target[r]))]
  /\ UNCHANGED <<rows, remarks, user, target, about, title, lost, history>>

SlugTaken(r) == \E i \in articles \ {target[r]} : article[i].slug = slug[r]

\* (A variant for mutation runs: the candidate is computed before the loop.)
CollideSameCandidate(r) ==
  /\ pc[r] = "write"
  /\ target[r] \in articles \union {0}
  /\ SlugTaken(r)
  /\ IF lost[r] + 1 < MaxRetries
     THEN /\ lost' = [lost EXCEPT ![r] = @ + 1]
          /\ UNCHANGED <<pc, user, target, about, title, slug, history>>
     ELSE Finish(r)
  /\ UNCHANGED <<rows, remarks>>

\* execute: P2002 on the slug is another attempt, or 409 after the last.
Collide(r) ==
  /\ pc[r] = "write"
  /\ target[r] \in articles \union {0}
  /\ SlugTaken(r)
  /\ IF lost[r] + 1 < MaxRetries
     THEN /\ pc' = [pc EXCEPT ![r] = "candidate"]
          /\ slug' = [slug EXCEPT ![r] = Keep]
          /\ lost' = [lost EXCEPT ![r] = @ + 1]
          /\ UNCHANGED <<user, target, about, title, history>>
     ELSE Finish(r)
  /\ UNCHANGED <<rows, remarks>>

----------------------------------------------------------------------------
(***************************************************************************)
(* ArticlesService.                                                        *)
(***************************************************************************)

Publishing == {r \in Requests : pc[r] \in {"candidate", "write"} /\ target[r] = 0}
Commenting == {r \in Requests : pc[r] = "comment"}

\* Bound: an article, or a comment, is begun while an id is left for it.
ArticleIdsLeft == nextArticle + Cardinality(Publishing) <= MaxArticles
CommentIdsLeft == nextComment + Cardinality(Commenting) <= MaxComments

Create(r, u, t) ==
  /\ ArticleIdsLeft
  /\ Start(r, "candidate", u, 0, 0, t)
  /\ UNCHANGED <<rows, remarks, history>>

\* (A variant for mutation runs: an upsert by slug.)
InsertOrReplace(r) ==
  /\ pc[r] = "write"
  /\ target[r] = 0
  /\ LET same == {i \in articles : article[i].slug = slug[r]}
         i == IF same = {} THEN nextArticle ELSE CHOOSE i \in same : TRUE
     IN  /\ articles' = articles \union {i}
         /\ article' = [article EXCEPT ![i] =
              [author |-> user[r], title |-> title[r], slug |-> slug[r]]]
         /\ nextArticle' = IF same = {} THEN nextArticle + 1 ELSE nextArticle
  /\ FinishWriting(r)
  /\ UNCHANGED <<remarks, stale>>

Insert(r) ==
  /\ pc[r] = "write"
  /\ target[r] = 0
  /\ ~SlugTaken(r)
  /\ articles' = articles \union {nextArticle}
  /\ article' = [article EXCEPT ![nextArticle] =
       [author |-> user[r], title |-> title[r], slug |-> slug[r]]]
  /\ nextArticle' = nextArticle + 1
  /\ FinishWriting(r)
  /\ UNCHANGED <<remarks, stale>>

\* update: requireOwnedArticle has found the user's article.  A title other than
\* the one it has needs a slug; otherwise the write leaves the slug alone.
Update(r, i, t) ==
  /\ i \in articles
  /\ Start(r, IF t = article[i].title THEN "write" ELSE "candidate", article[i].author, i, 0, t)
  /\ UNCHANGED <<rows, remarks, history>>

\* (A variant for mutation runs: the slug the article has is good enough.)
SlugOfOld(r) == article[target[r]].slug

SlugOf(r) == IF slug[r] = Keep THEN article[target[r]].slug ELSE slug[r]

\* The write is by id, whatever has become of the row.
Rewrite(r) ==
  /\ pc[r] = "write"
  /\ target[r] \in articles
  /\ ~SlugTaken(r)
  /\ article' = [article EXCEPT ![target[r]] = [@ EXCEPT !.title = title[r], !.slug = SlugOf(r)]]
  /\ stale' = IF slug[r] # Keep THEN stale \ {target[r]}
              ELSE IF article[target[r]].title # title[r] THEN stale \union {target[r]}
              ELSE stale
  /\ FinishWriting(r)
  /\ UNCHANGED <<articles, nextArticle, remarks>>

Remove(r, i) ==
  /\ i \in articles
  /\ Start(r, "delete", article[i].author, i, 0, None)
  /\ UNCHANGED <<rows, remarks, history>>

\* (A variant for mutation runs: the comments stay.)
DeleteAlone(r) ==
  /\ pc[r] = "delete"
  /\ target[r] \in articles
  /\ articles' = articles \ {target[r]}
  /\ article' = [article EXCEPT ![target[r]] = BlankArticle]
  /\ Finish(r)
  /\ UNCHANGED <<nextArticle, remarks>>

\* The row goes, and its comments with it.
Delete(r) ==
  /\ pc[r] = "delete"
  /\ target[r] \in articles
  /\ articles' = articles \ {target[r]}
  /\ article' = [article EXCEPT ![target[r]] = BlankArticle]
  /\ comments' = {c \in comments : comment[c].article # target[r]}
  /\ comment' = [c \in CommentIds |-> IF c \in comments' THEN comment[c] ELSE BlankComment]
  /\ Finish(r)
  /\ UNCHANGED <<nextArticle, nextComment>>

\* P2025, or the foreign key of a comment: the article is gone.
Gone(r) ==
  /\ pc[r] \in {"write", "delete", "comment"}
  /\ target[r] \notin articles \union {0}
  /\ Finish(r)
  /\ UNCHANGED <<rows, remarks>>

----------------------------------------------------------------------------
(***************************************************************************)
(* CommentsService.                                                        *)
(***************************************************************************)

\* create: requireArticle has found the article ...
CommentOn(r, u, i) ==
  /\ i \in articles
  /\ CommentIdsLeft
  /\ Start(r, "comment", u, i, 0, None)
  /\ UNCHANGED <<rows, remarks, history>>

\* ... and the row refers to it, by its foreign key.
InsertComment(r) ==
  /\ pc[r] = "comment"
  /\ target[r] \in articles
  /\ comments' = comments \union {nextComment}
  /\ comment' = [comment EXCEPT ![nextComment] = [article |-> target[r], author |-> user[r]]]
  /\ nextComment' = nextComment + 1
  /\ Finish(r)
  /\ UNCHANGED rows

\* remove: requireArticle has found the article (the comment once had its id) ...
Uncomment(r, u, i, c) ==
  /\ i \in articles
  /\ c < nextComment
  /\ Start(r, "findComment", u, i, c, None)
  /\ UNCHANGED <<rows, remarks, history>>

\* ... findIdentity the comment on it; 404 or 403 if it is not there or another's.
FindComment(r) ==
  /\ pc[r] = "findComment"
  /\ IF /\ about[r] \in comments
        /\ comment[about[r]].article = target[r]
        /\ comment[about[r]].author = user[r]
     THEN /\ pc' = [pc EXCEPT ![r] = "uncomment"]
          /\ UNCHANGED <<user, target, about, title, slug, lost, history>>
     ELSE Finish(r)
  /\ UNCHANGED <<rows, remarks>>

\* delete: the comment may have gone since (P2025).
DeleteComment(r) ==
  /\ pc[r] = "uncomment"
  /\ comments' = comments \ {about[r]}
  /\ comment' = [comment EXCEPT ![about[r]] = BlankComment]
  /\ Finish(r)
  /\ UNCHANGED <<rows, nextComment>>

\* A call fails for another reason (the unique name of a tag created at the same
\* time is not the slug's), or the process dies.
Fail(r) ==
  /\ pc[r] # "idle"
  /\ Finish(r)
  /\ UNCHANGED <<rows, remarks>>

Arrive(r) ==
  \/ \E u \in Users, t \in Titles : Create(r, u, t)
  \/ \E i \in ArticleIds, t \in Titles : Update(r, i, t)
  \/ \E i \in ArticleIds : Remove(r, i)
  \/ \E u \in Users, i \in ArticleIds : CommentOn(r, u, i)
  \/ \E u \in Users, i \in ArticleIds, c \in CommentIds : Uncomment(r, u, i, c)

Serve(r) ==
  \/ CreateCandidate(r)
  \/ Collide(r)
  \/ Insert(r)
  \/ Rewrite(r)
  \/ Delete(r)
  \/ Gone(r)
  \/ InsertComment(r)
  \/ FindComment(r)
  \/ DeleteComment(r)

Next == \E r \in Requests : Arrive(r) \/ Serve(r) \/ Fail(r)

Spec == Init /\ [][Next]_vars

----------------------------------------------------------------------------
(***************************************************************************)
(* Pages of a list, newest first: paginate.                                *)
(***************************************************************************)

\* The rows a filter keeps are numbered from the newest.
Rank(i, listed) == Cardinality({j \in listed : j >= i})

\* (A variant for mutation runs: pages counted from 0.)
PaginationSkipFromZero(page, limit) == page * limit

PaginationSkip(page, limit) == (page - 1) * limit

\* findMany with skip and take.
Page(listed, page, limit) ==
  {i \in listed :
    /\ PaginationSkip(page, limit) < Rank(i, listed)
    /\ Rank(i, listed) <= PaginationSkip(page, limit) + limit}

\* (A variant for mutation runs: the rest does not make a page.)
LastPageFloor(total, limit) == total \div limit

\* buildPaginationMeta: the quotient, rounded up.
LastPage(total, limit) == (total + limit - 1) \div limit

\* (A variant for mutation runs: the last page is not announced.)
HasNextPageButOne(total, page, limit) == page + 1 < LastPage(total, limit)

HasNextPage(total, page, limit) == page < LastPage(total, limit)

----------------------------------------------------------------------------
(***************************************************************************)
(* Properties                                                              *)
(***************************************************************************)

\* Every variable stays in its range; no comment is left without its article.
TypeOK ==
  /\ articles \subseteq ArticleIds
  /\ article \in [ArticleIds -> [author : Users \union {None}, title : Titles \union {None},
                                 slug : Seq(Nat)]]
  /\ nextArticle \in 1 .. MaxArticles + 1
  /\ comments \subseteq CommentIds
  /\ comment \in [CommentIds -> [article : ArticleIds \union {0}, author : Users \union {None}]]
  /\ \A c \in comments : comment[c].article \in articles
  /\ nextComment \in 1 .. MaxComments + 1
  /\ pc \in [Requests -> {"idle", "candidate", "write", "delete", "comment", "findComment",
                          "uncomment"}]
  /\ user \in [Requests -> Users \union {None}]
  /\ target \in [Requests -> ArticleIds \union {0}]
  /\ about \in [Requests -> CommentIds \union {0}]
  /\ title \in [Requests -> Titles \union {None}]
  /\ slug \in [Requests -> Seq(Nat)]
  /\ lost \in [Requests -> 0 .. MaxRetries - 1]
  /\ rivals \in [Requests -> 0 .. MaxRetries]
  /\ stale \subseteq ArticleIds

\* A request that ends for a user.
EndsFor(r, u) == pc[r] # "idle" /\ pc'[r] = "idle" /\ user[r] = u

AuthorsWrite ==
  /\ \A i \in articles : (i \notin articles' \/ article'[i] # article[i]) =>
       \E r \in Requests : EndsFor(r, article[i].author) /\ target[r] = i
  /\ \A c \in comments \ comments' :
       \/ comment[c].article \notin articles'
       \/ \E r \in Requests : EndsFor(r, comment[c].author) /\ about[r] = c

\* Nobody's words are changed or removed by another: an article only by a request
\* of its author that has found this very article, whatever was renamed, deleted
\* or has taken over a slug since; a comment only by a request of its author, or
\* with its article.
OnlyAuthorsWrite == [][AuthorsWrite]_vars

\* 409 is the others' doing: an attempt is lost only if another request has written
\* a slug since this one began, a new one each time.  Slugs that were there before,
\* or are the article's own, never cost an attempt.
LostAttemptsHaveRivals ==
  \A r \in Requests :
    /\ lost[r] <= rivals[r]
    /\ pc[r] = "write" /\ slug[r] # Keep /\ SlugTaken(r) => lost[r] < rivals[r]

\* A slug of a title: its base, or the base and a number from 2.
SlugsOf(t) == {BaseSlug[t]} \union {Append(BaseSlug[t], n) : n \in 2 .. MaxArticles + 2}

\* The slug follows the title through every rename and retry; the exception is an
\* article whose update gave it back the title that it had when the request read
\* it, and that another request has changed since.
SlugFollowsTitle ==
  \A i \in articles \ stale : article[i].slug \in SlugsOf(article[i].title)

\* Ids are drawn from their sequences, and every request in progress has one left.
Allocation ==
  /\ articles \subseteq 1 .. nextArticle - 1
  /\ comments \subseteq 1 .. nextComment - 1
  /\ \A r \in Requests : target[r] < nextArticle /\ about[r] < nextComment
  /\ IsFiniteSet(Publishing) /\ nextArticle + Cardinality(Publishing) <= MaxArticles + 1
  /\ IsFiniteSet(Commenting) /\ nextComment + Cardinality(Commenting) <= MaxComments + 1

\* Whoever is about to write an article, or to remove a comment, is its author.
Ownership ==
  \A r \in Requests :
    /\ pc[r] \in {"candidate", "write", "delete"} /\ target[r] \in articles =>
         article[target[r]].author = user[r]
    /\ pc[r] = "uncomment" /\ about[r] \in comments => comment[about[r]].author = user[r]

\* A slug about to be written is one of the title it is written with.
Naming ==
  \A r \in Requests :
    /\ pc[r] \in {"candidate", "write"} => title[r] \in Titles
    /\ pc[r] = "write" /\ slug[r] # Keep => slug[r] \in SlugsOf(title[r])
    /\ pc[r] = "write" /\ target[r] = 0 => slug[r] # Keep
    /\ pc[r] # "write" => slug[r] = Keep

\* Every article has a slug.
Named == \A i \in articles : article[i].slug # Keep

\* All of the above hold because these do, together, after every step.
IInv ==
  /\ TypeOK
  /\ Allocation
  /\ Ownership
  /\ Naming
  /\ Named
  /\ LostAttemptsHaveRivals
  /\ SlugFollowsTitle

\* Whatever a filter keeps, its pages hold each article once and none is empty, and
\* has_next_page says whether there is another.
PagesCoverTheList ==
  \A authors \in SUBSET Users, limit \in 1 .. MaxArticles + 1 :
    LET listed == {i \in articles : article[i].author \in authors}
        total == Cardinality(listed)
        pages == 1 .. LastPage(total, limit)
    IN  /\ \A i \in listed : Cardinality({p \in pages : i \in Page(listed, p, limit)}) = 1
        /\ \A p \in 1 .. total + 1 :
             HasNextPage(total, p, limit) <=> Page(listed, p + 1, limit) # {}
=============================================================================
