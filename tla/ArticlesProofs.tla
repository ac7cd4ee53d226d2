--------------------------- MODULE ArticlesProofs ---------------------------
(***************************************************************************)
(* Proofs about Articles and Feed, for any users, titles, base slugs and   *)
(* requests, any number of attempts, any page size and any bounds.         *)
(***************************************************************************)
EXTENDS Feed, NumberLemmas, SequenceTheorems, TLAPS

USE BaseSlugAssumption, ArticlesAssumption

----------------------------------------------------------------------------
(***************************************************************************)
(* createCandidate.                                                        *)
(***************************************************************************)

\* The suffixed slugs of a base are different from each other, and from the base.
LEMMA SuffixesDiffer ==
  ASSUME NEW base \in Seq(Nat)
  PROVE  /\ \A n \in Nat : Append(base, n) \in Seq(Nat) \ {Keep}
         /\ \A n, m \in Nat : Append(base, n) = Append(base, m) => n = m
<1>1. ASSUME NEW n \in Nat
      PROVE  Append(base, n) \in Seq(Nat) \ {Keep} /\ Append(base, n)[Len(base) + 1] = n
  BY AppendProperties DEF Keep
<1>2. QED
  BY <1>1

\* Fewer slugs than articles may be in use leave a suffix free: createCandidate
\* ends, with a slug of the title that was not among those in use.
LEMMA CandidateIsFree ==
  ASSUME NEW t \in Titles, NEW used, IsFiniteSet(used), Cardinality(used) <= MaxArticles
  PROVE  /\ FirstFree(BaseSlug[t], used) \in SlugsOf(t)
         /\ FirstFree(BaseSlug[t], used) \notin used
<1> DEFINE base == BaseSlug[t]
           free == {n \in 2 .. MaxArticles + 2 : Append(base, n) \notin used}
<1>1. base \in Seq(Nat)
  OBVIOUS
<1>2. CASE base \notin used
  BY <1>2 DEF FirstFree, SlugsOf
<1>3. CASE base \in used
  <2>1. free # {}
    <3>1. SUFFICES ASSUME \A n \in 2 .. MaxArticles + 2 : Append(base, n) \in used
                   PROVE  FALSE
      OBVIOUS
    <3> DEFINE f == [n \in 2 .. MaxArticles + 2 |-> Append(base, n)]
    <3>2. f \in Injection(2 .. MaxArticles + 2, used)
      BY <1>1, <3>1, SuffixesDiffer DEF Injection, IsInjective
    <3>3. Cardinality(2 .. MaxArticles + 2) = MaxArticles + 1
      BY FS_Interval, 2 \in Int, MaxArticles + 2 \in Int
    <3>4. Cardinality(2 .. MaxArticles + 2) <= Cardinality(used)
      BY <3>2, FS_Injection, Zenon
    <3>5. Cardinality(used) \in Nat
      BY FS_CardinalityType
    <3>6. QED
      BY <3>3, <3>4, <3>5
  <2>2. PICK k \in free : \A m \in free : k <= m
    BY <2>1, LeastNumber, free \in SUBSET Nat
  <2> DEFINE n == CHOOSE n \in free : \A m \in free : n <= m
  <2>3. n \in free
    BY <2>2
  <2>4. FirstFree(base, used) = Append(base, n)
    BY <1>3 DEF FirstFree
  <2>5. QED
    BY <2>3, <2>4 DEF SlugsOf
<1>4. QED
  BY <1>2, <1>3

\* The slugs of a title are sequences of parts that are not empty.
LEMMA SlugsAreSlugs ==
  ASSUME NEW t \in Titles
  PROVE  SlugsOf(t) \subseteq Seq(Nat) \ {Keep}
<1>1. BaseSlug[t] \in Seq(Nat) \ {Keep}
  BY DEF Keep
<1>2. ASSUME NEW n \in 2 .. MaxArticles + 2 PROVE Append(BaseSlug[t], n) \in Seq(Nat) \ {Keep}
  BY <1>1, SuffixesDiffer, n \in Nat
<1>3. QED
  BY <1>1, <1>2 DEF SlugsOf

\* startsWith finds every slug of the title.
LEMMA SlugsStartWithBase ==
  ASSUME NEW t \in Titles, NEW s \in SlugsOf(t)
  PROVE  StartsWith(s, BaseSlug[t])
<1> DEFINE base == BaseSlug[t]
<1>1. base \in Seq(Nat) /\ s \in Seq(Nat)
  BY SlugsAreSlugs
<1>2. Len(s) >= Len(base) /\ \A k \in 1 .. Len(base) : s[k] = base[k]
  <2>1. CASE s = base
    BY <2>1, <1>1, LenProperties
  <2>2. CASE \E n \in 2 .. MaxArticles + 2 : s = Append(base, n)
    <3>1. PICK n \in 2 .. MaxArticles + 2 : s = Append(base, n)
      BY <2>2
    <3>2. n \in Nat
      OBVIOUS
    <3>3. QED
      BY <1>1, <3>1, <3>2, AppendProperties, LenProperties
  <2>3. QED
    BY <2>1, <2>2 DEF SlugsOf
<1>3. Len(base) \in Nat /\ \A k \in 1 .. Len(base) : s[k] \in Nat
  BY <1>1, <1>2, LenProperties, ElementOfSeq
<1>4. /\ SubSeq(s, 1, Len(base)) \in Seq(Nat)
      /\ Len(SubSeq(s, 1, Len(base))) = Len(base)
      /\ \A k \in 1 .. Len(base) : SubSeq(s, 1, Len(base))[k] = s[k]
  BY <1>3, SubSeqProperties, 1 \in Int, Len(base) \in Int
<1>5. SubSeq(s, 1, Len(base)) = base
  BY <1>1, <1>2, <1>4, SeqEqual
<1>6. QED
  BY <1>2, <1>5 DEF StartsWith

\* findSlugsByBase returns no more slugs than there are articles.
LEMMA SlugsInUse ==
  ASSUME TypeOK, NEW base, NEW except
  PROVE  /\ IsFiniteSet(SlugsByBase(base, except))
         /\ Cardinality(SlugsByBase(base, except)) <= MaxArticles
<1> DEFINE others == articles \ {except}
           slugs == {article[i].slug : i \in others}
           f == [i \in others |-> article[i].slug]
<1>1. IsFiniteSet(ArticleIds) /\ Cardinality(ArticleIds) = MaxArticles
  BY UpTo DEF ArticleIds
<1>2. others \in SUBSET ArticleIds
  BY DEF TypeOK
<1>3. IsFiniteSet(others) /\ Cardinality(others) <= MaxArticles
  BY <1>1, <1>2, FS_Subset
<1>4. f \in Surjection(others, slugs)
  BY DEF Surjection
<1>5. IsFiniteSet(slugs) /\ Cardinality(slugs) <= Cardinality(others)
  BY <1>3, <1>4, FS_Surjection, Zenon
<1>6. SlugsByBase(base, except) \in SUBSET slugs
  BY DEF SlugsByBase
<1>7. /\ IsFiniteSet(SlugsByBase(base, except))
      /\ Cardinality(SlugsByBase(base, except)) <= Cardinality(slugs)
  BY <1>5, <1>6, FS_Subset, Zenon
<1> HIDE DEF others, slugs
<1>8. /\ Cardinality(SlugsByBase(base, except)) \in Nat
      /\ Cardinality(slugs) \in Nat
      /\ Cardinality(others) \in Nat
  BY <1>3, <1>5, <1>7, FS_CardinalityType
<1>9. QED
  BY <1>3, <1>5, <1>7, <1>8

\* A candidate is a slug of the title that no other article has.
LEMMA CandidateFits ==
  ASSUME TypeOK, NEW t \in Titles, NEW except,
         NEW s, s = FirstFree(BaseSlug[t], SlugsByBase(BaseSlug[t], except))
  PROVE  /\ s \in SlugsOf(t)
         /\ \A i \in articles \ {except} : article[i].slug # s
<1>1. s \in SlugsOf(t) /\ s \notin SlugsByBase(BaseSlug[t], except)
  BY SlugsInUse, CandidateIsFree
<1>2. StartsWith(s, BaseSlug[t])
  BY <1>1, SlugsStartWithBase
<1>3. QED
  BY <1>1, <1>2 DEF SlugsByBase

----------------------------------------------------------------------------
(***************************************************************************)
(* Ids.                                                                    *)
(***************************************************************************)

\* The initial state has the types and every other part of the invariant.
LEMMA InitInv == Init => IInv
<1> SUFFICES ASSUME Init PROVE IInv
  OBVIOUS
<1> USE DEF Init
<1>1. TypeOK
  BY EmptySeq DEF TypeOK, BlankArticle, BlankComment, Keep
<1>2. Allocation
  <2>1. Publishing = {} /\ Commenting = {}
    BY DEF Publishing, Commenting
  <2>2. QED
    BY <2>1, FS_EmptySet DEF Allocation
<1>3. QED
  BY <1>1, <1>2 DEF IInv, Ownership, Naming, Named, LostAttemptsHaveRivals, SlugFollowsTitle,
    ArticleIds

\* The requests that hold an id change by the one that takes a step.
LEMMA HoldersEnd ==
  ASSUME TypeOK, NEW r \in Requests, Ended(r)
  PROVE  Publishing' = Publishing \ {r} /\ Commenting' = Commenting \ {r}
  BY DEF TypeOK, Ended, Publishing, Commenting

\* So they do when one starts.
LEMMA HoldersStart ==
  ASSUME TypeOK, NEW r \in Requests, NEW to, NEW u, NEW i, NEW c, NEW t, Start(r, to, u, i, c, t)
  PROVE  /\ to \in {"candidate", "write"} /\ i = 0 => Publishing' = Publishing \union {r}
         /\ ~(to \in {"candidate", "write"} /\ i = 0) => Publishing' = Publishing
         /\ to = "comment" => Commenting' = Commenting \union {r}
         /\ to # "comment" => Commenting' = Commenting
  BY DEF TypeOK, Start, Publishing, Commenting

\* An id is drawn by a request that counts among those for whom one is left.
LEMMA StepAllocation == TypeOK /\ Allocation /\ [Next]_vars => Allocation'
<1> SUFFICES ASSUME TypeOK, Allocation, [Next]_vars PROVE Allocation'
  OBVIOUS
<1> USE DEF rows, remarks, locals, history
<1>0. /\ nextArticle \in Nat /\ nextComment \in Nat /\ MaxArticles + 1 \in Nat /\ MaxComments + 1 \in Nat
      /\ 0 \notin articles /\ articles \subseteq Nat
      /\ target \in [Requests -> Nat] /\ about \in [Requests -> Nat]
      /\ 0 < nextArticle /\ 0 < nextComment
      /\ nextArticle + 1 \in Nat /\ nextComment + 1 \in Nat
  BY DEF TypeOK, ArticleIds, CommentIds
<1>a. ASSUME NEW r \in Requests
      PROVE  /\ IsFiniteSet(Publishing \ {r}) /\ nextArticle + Cardinality(Publishing \ {r}) <= MaxArticles + 1
             /\ IsFiniteSet(Commenting \ {r}) /\ nextComment + Cardinality(Commenting \ {r}) <= MaxComments + 1
             /\ IsFiniteSet(Publishing \union {r})
             /\ IsFiniteSet(Commenting \union {r})
             /\ ArticleIdsLeft => nextArticle + Cardinality(Publishing \union {r}) <= MaxArticles + 1
             /\ CommentIdsLeft => nextComment + Cardinality(Commenting \union {r}) <= MaxComments + 1
             /\ r \in Publishing => nextArticle + 1 + Cardinality(Publishing \ {r}) <= MaxArticles + 1
             /\ r \in Commenting => nextComment + 1 + Cardinality(Commenting \ {r}) <= MaxComments + 1
  BY <1>0, Room DEF Allocation, ArticleIdsLeft, CommentIdsLeft
\* A request that ends without drawing an id.
<1>b. ASSUME NEW r \in Requests, Ended(r), articles' \subseteq articles, comments' \subseteq comments,
             UNCHANGED <<nextArticle, nextComment>>
      PROVE  Allocation'
  <2>1. Publishing' = Publishing \ {r} /\ Commenting' = Commenting \ {r}
    BY <1>b, HoldersEnd
  <2>2. \A q \in Requests : target'[q] < nextArticle' /\ about'[q] < nextComment'
    BY <1>0, <1>b DEF Allocation, Ended
  <2>3. QED
    BY <1>a, <1>b, <2>1, <2>2 DEF Allocation
\* A request that starts.
<1>c. ASSUME NEW r \in Requests, NEW to, NEW u, NEW i \in articles \union {0}, NEW c \in Nat, NEW t,
             Start(r, to, u, i, c, t), c < nextComment, UNCHANGED <<rows, remarks>>,
             to \in {"candidate", "write"} /\ i = 0 => ArticleIdsLeft,
             to = "comment" => CommentIdsLeft
      PROVE  Allocation'
  <2>1. \A q \in Requests : target'[q] < nextArticle' /\ about'[q] < nextComment'
    BY <1>0, <1>c DEF Allocation, Start
  <2>2. IsFiniteSet(Publishing') /\ nextArticle + Cardinality(Publishing') <= MaxArticles + 1
    <3>1. CASE to \in {"candidate", "write"} /\ i = 0
      BY <1>a, <1>c, <3>1, HoldersStart
    <3>2. CASE ~(to \in {"candidate", "write"} /\ i = 0)
      <4>1. Publishing' = Publishing
        BY <1>c, <3>2, HoldersStart
      <4>2. QED
        BY <4>1 DEF Allocation
    <3>3. QED
      BY <3>1, <3>2
  <2>3. IsFiniteSet(Commenting') /\ nextComment + Cardinality(Commenting') <= MaxComments + 1
    <3>1. CASE to = "comment"
      BY <1>a, <1>c, <3>1, HoldersStart
    <3>2. CASE to # "comment"
      <4>1. Commenting' = Commenting
        BY <1>c, <3>2, HoldersStart
      <4>2. QED
        BY <4>1 DEF Allocation
    <3>3. QED
      BY <3>1, <3>2
  <2>4. QED
    BY <1>c, <2>1, <2>2, <2>3 DEF Allocation
<1>1. ASSUME NEW r \in Requests, NEW u \in Users, NEW t \in Titles, Create(r, u, t) PROVE Allocation'
  BY <1>0, <1>1, <1>c DEF Create
<1>2. ASSUME NEW r \in Requests, NEW i \in ArticleIds, NEW t \in Titles, Update(r, i, t)
      PROVE  Allocation'
  BY <1>0, <1>2, <1>c DEF Update
<1>3. ASSUME NEW r \in Requests, NEW i \in ArticleIds, Remove(r, i) PROVE Allocation'
  BY <1>0, <1>3, <1>c DEF Remove
<1>4. ASSUME NEW r \in Requests, NEW u \in Users, NEW i \in ArticleIds, CommentOn(r, u, i)
      PROVE  Allocation'
  BY <1>0, <1>4, <1>c DEF CommentOn
<1>5. ASSUME NEW r \in Requests, NEW u \in Users, NEW i \in ArticleIds, NEW c \in CommentIds,
             Uncomment(r, u, i, c)
      PROVE  Allocation'
  BY <1>0, <1>5, <1>c DEF Uncomment, CommentIds
<1>6. ASSUME NEW r \in Requests, CreateCandidate(r) PROVE Allocation'
  <2>1. Publishing' = Publishing /\ Commenting' = Commenting
    BY <1>6 DEF CreateCandidate, Publishing, Commenting, TypeOK
  <2>2. QED
    BY <1>6, <2>1 DEF CreateCandidate, Allocation
<1>7. ASSUME NEW r \in Requests, Collide(r) PROVE Allocation'
  <2>1. CASE lost[r] + 1 < MaxRetries
    <3>1. Publishing' = Publishing /\ Commenting' = Commenting
      BY <1>7, <2>1 DEF Collide, Publishing, Commenting, TypeOK
    <3>2. QED
      BY <1>7, <2>1, <3>1 DEF Collide, Allocation
  <2>2. CASE ~(lost[r] + 1 < MaxRetries)
    BY <1>7, <1>b, <2>2 DEF Collide, Finish
  <2>3. QED
    BY <2>1, <2>2
<1>8. ASSUME NEW r \in Requests, Insert(r) PROVE Allocation'
  <2>1. Publishing' = Publishing \ {r} /\ Commenting' = Commenting \ {r}
    BY <1>8, HoldersEnd DEF Insert, FinishWriting
  <2>2. r \in Publishing
    BY <1>8 DEF Insert, Publishing
  <2>3. \A q \in Requests : target'[q] < nextArticle' /\ about'[q] < nextComment'
    BY <1>0, <1>8 DEF Allocation, Insert, FinishWriting, Ended
  <2>4. articles' \subseteq 1 .. nextArticle' - 1
    <3>1. nextArticle' - 1 = nextArticle /\ nextArticle \in 1 .. nextArticle
      <4>1. nextArticle' = nextArticle + 1
        BY <1>8 DEF Insert
      <4>2. QED
        BY <1>0, <4>1
    <3>2. 1 .. nextArticle - 1 \subseteq 1 .. nextArticle
      BY <1>0
    <3>3. QED
      BY <1>8, <3>1, <3>2 DEF Allocation, Insert
  <2>5. QED
    BY <1>8, <1>a, <2>1, <2>2, <2>3, <2>4 DEF Allocation, Insert
<1>9. ASSUME NEW r \in Requests, Rewrite(r) PROVE Allocation'
  BY <1>9, <1>b DEF Rewrite, FinishWriting
<1>10. ASSUME NEW r \in Requests, Delete(r) PROVE Allocation'
  BY <1>10, <1>b DEF Delete, Finish
<1>11. ASSUME NEW r \in Requests, Gone(r) PROVE Allocation'
  BY <1>11, <1>b DEF Gone, Finish
<1>12. ASSUME NEW r \in Requests, InsertComment(r) PROVE Allocation'
  <2>1. Publishing' = Publishing \ {r} /\ Commenting' = Commenting \ {r}
    BY <1>12, HoldersEnd DEF InsertComment, Finish
  <2>2. r \in Commenting
    BY <1>12 DEF InsertComment, Commenting
  <2>3. \A q \in Requests : target'[q] < nextArticle' /\ about'[q] < nextComment'
    BY <1>0, <1>12 DEF Allocation, InsertComment, Finish, Ended
  <2>4. comments' \subseteq 1 .. nextComment' - 1
    <3>1. nextComment' - 1 = nextComment /\ nextComment \in 1 .. nextComment
      BY <1>0, <1>12 DEF InsertComment
    <3>2. 1 .. nextComment - 1 \subseteq 1 .. nextComment
      BY <1>0
    <3>3. QED
      BY <1>12, <3>1, <3>2 DEF Allocation, InsertComment
  <2>5. QED
    BY <1>12, <1>a, <2>1, <2>2, <2>3, <2>4 DEF Allocation, InsertComment
<1>13. ASSUME NEW r \in Requests, FindComment(r) PROVE Allocation'
  <2>1. CASE pc'[r] = "uncomment"
    <3>1. Publishing' = Publishing /\ Commenting' = Commenting
      BY <1>13, <2>1 DEF FindComment, Finish, Ended, Publishing, Commenting, TypeOK
    <3>2. QED
      BY <1>13, <2>1, <3>1 DEF FindComment, Finish, Ended, Allocation, TypeOK
  <2>2. CASE pc'[r] # "uncomment"
    BY <1>13, <1>b, <2>2 DEF FindComment, Finish, TypeOK
  <2>3. QED
    BY <2>1, <2>2
<1>14. ASSUME NEW r \in Requests, DeleteComment(r) PROVE Allocation'
  BY <1>14, <1>b DEF DeleteComment, Finish
<1>15. ASSUME NEW r \in Requests, Fail(r) PROVE Allocation'
  BY <1>15, <1>b DEF Fail, Finish
<1>16. ASSUME UNCHANGED vars PROVE Allocation'
  BY <1>16 DEF vars, Allocation, Publishing, Commenting
<1>17. QED
  BY <1>1, <1>2, <1>3, <1>4, <1>5, <1>6, <1>7, <1>8, <1>9, <1>10, <1>11, <1>12, <1>13,
     <1>14, <1>15, <1>16 DEF Next, Arrive, Serve

----------------------------------------------------------------------------
(***************************************************************************)
(* Types.                                                                  *)
(***************************************************************************)
Row == [author : Users \union {None}, title : Titles \union {None}, slug : Seq(Nat)]
Remark == [article : ArticleIds \union {0}, author : Users \union {None}]

\* What a request keeps has the types, when it starts and when it ends.
LocalsTyped ==
  /\ pc \in [Requests -> {"idle", "candidate", "write", "delete", "comment", "findComment",
                          "uncomment"}]
  /\ user \in [Requests -> Users \union {None}]
  /\ target \in [Requests -> ArticleIds \union {0}]
  /\ about \in [Requests -> CommentIds \union {0}]
  /\ title \in [Requests -> Titles \union {None}]
  /\ slug \in [Requests -> Seq(Nat)]
  /\ lost \in [Requests -> 0 .. MaxRetries - 1]

\* A request that ends keeps nothing.
LEMMA EndTyped ==
  ASSUME TypeOK, NEW r \in Requests, Ended(r)
  PROVE  LocalsTyped'
<1>1. Keep \in Seq(Nat) /\ 0 \in 0 .. MaxRetries - 1
  BY EmptySeq DEF Keep
<1>2. QED
  BY <1>1 DEF TypeOK, Ended, LocalsTyped

\* A request that starts keeps what it was given.
LEMMA StartTyped ==
  ASSUME TypeOK, NEW r \in Requests, NEW to \in {"candidate", "write", "delete", "comment", "findComment"},
         NEW u \in Users \union {None}, NEW i \in ArticleIds \union {0},
         NEW c \in CommentIds \union {0}, NEW t \in Titles \union {None},
         Start(r, to, u, i, c, t), UNCHANGED <<rows, remarks, history>>
  PROVE  TypeOK'
  BY DEF TypeOK, Start, rows, remarks, history

\* Ids whose row is there are in range, and so is the next one when it is drawn.
LEMMA IdsInRange ==
  ASSUME TypeOK, Allocation
  PROVE  /\ \A r \in Requests : r \in Publishing => nextArticle \in ArticleIds
         /\ \A r \in Requests : r \in Commenting => nextComment \in CommentIds
<1>1. ASSUME NEW r \in Requests, r \in Publishing PROVE nextArticle \in ArticleIds
  <2>1. Cardinality(Publishing \ {r}) \in Nat /\ nextArticle + 1 + Cardinality(Publishing \ {r}) <= MaxArticles + 1
    <3>1. nextArticle \in Nat /\ MaxArticles + 1 \in Nat
      BY DEF TypeOK
    <3>2. IsFiniteSet(Publishing) /\ nextArticle + Cardinality(Publishing) <= MaxArticles + 1
      BY DEF Allocation
    <3>3. QED
      BY <1>1, <3>1, <3>2, Room
  <2>2. QED
    BY <2>1 DEF ArticleIds, TypeOK
<1>2. ASSUME NEW r \in Requests, r \in Commenting PROVE nextComment \in CommentIds
  <2>1. Cardinality(Commenting \ {r}) \in Nat /\ nextComment + 1 + Cardinality(Commenting \ {r}) <= MaxComments + 1
    <3>1. nextComment \in Nat /\ MaxComments + 1 \in Nat
      BY DEF TypeOK
    <3>2. IsFiniteSet(Commenting) /\ nextComment + Cardinality(Commenting) <= MaxComments + 1
      BY DEF Allocation
    <3>3. QED
      BY <1>2, <3>1, <3>2, Room
  <2>2. QED
    BY <2>1 DEF CommentIds, TypeOK
<1>3. QED
  BY <1>1, <1>2

\* The history of rivals counts no further than the attempts do.
LEMMA RivalsTyped ==
  ASSUME TypeOK, NEW r \in Requests, Finish(r) \/ FinishWriting(r)
  PROVE  rivals' \in [Requests -> 0 .. MaxRetries]
<1>1. rivals \in [Requests -> 0 .. MaxRetries] /\ 0 \in 0 .. MaxRetries
  BY DEF TypeOK
<1>2. CASE Finish(r)
  BY <1>1, <1>2 DEF Finish
<1>3. CASE FinishWriting(r)
  BY <1>1, <1>3 DEF FinishWriting
<1>4. QED
  BY <1>2, <1>3

\* Every step keeps the types.
LEMMA StepTyped == TypeOK /\ Allocation /\ Naming /\ [Next]_vars => TypeOK'
<1> SUFFICES ASSUME TypeOK, Allocation, Naming, [Next]_vars PROVE TypeOK'
  OBVIOUS
<1> USE DEF rows, remarks, locals, history
<1>0. /\ BlankArticle \in Row /\ BlankComment \in Remark
      /\ 0 \notin ArticleIds /\ articles \subseteq ArticleIds
      /\ \A i \in articles : article[i] \in Row
  BY EmptySeq DEF TypeOK, BlankArticle, BlankComment, Row, Remark, ArticleIds, Keep
\* A request that ends, and leaves the rows alone.
<1>b. ASSUME NEW r \in Requests, Finish(r), UNCHANGED <<rows, remarks>> PROVE TypeOK'
  BY <1>b, EndTyped, RivalsTyped DEF TypeOK, LocalsTyped, Finish
<1>1. ASSUME NEW r \in Requests, NEW u \in Users, NEW t \in Titles, Create(r, u, t) PROVE TypeOK'
  BY <1>1, StartTyped DEF Create
<1>2. ASSUME NEW r \in Requests, NEW i \in ArticleIds, NEW t \in Titles, Update(r, i, t)
      PROVE  TypeOK'
  <2>1. article[i].author \in Users \union {None}
    BY <1>0, <1>2 DEF Row, Update
  <2>2. QED
    BY <1>2, <2>1, StartTyped DEF Update
<1>3. ASSUME NEW r \in Requests, NEW i \in ArticleIds, Remove(r, i) PROVE TypeOK'
  <2>1. article[i].author \in Users \union {None}
    BY <1>0, <1>3 DEF Row, Remove
  <2>2. QED
    BY <1>3, <2>1, StartTyped DEF Remove
<1>4. ASSUME NEW r \in Requests, NEW u \in Users, NEW i \in ArticleIds, CommentOn(r, u, i)
      PROVE  TypeOK'
  BY <1>4, StartTyped DEF CommentOn
<1>5. ASSUME NEW r \in Requests, NEW u \in Users, NEW i \in ArticleIds, NEW c \in CommentIds,
             Uncomment(r, u, i, c)
      PROVE  TypeOK'
  BY <1>5, StartTyped DEF Uncomment
<1>6. ASSUME NEW r \in Requests, CreateCandidate(r) PROVE TypeOK'
  <2>1. title[r] \in Titles
    BY <1>6 DEF Naming, CreateCandidate
  <2>2. FirstFree(BaseSlug[title[r]], SlugsByBase(BaseSlug[title[r]], target[r])) \in Seq(Nat)
    BY <2>1, CandidateFits, SlugsAreSlugs
  <2>3. slug' \in [Requests -> Seq(Nat)]
    BY <1>6, <2>2 DEF CreateCandidate, TypeOK
  <2>4. pc' = [pc EXCEPT ![r] = "write"]
    BY <1>6 DEF CreateCandidate
  <2>5. QED
    BY <1>6, <2>3, <2>4 DEF CreateCandidate, TypeOK
<1>7. ASSUME NEW r \in Requests, Collide(r) PROVE TypeOK'
  <2>1. CASE lost[r] + 1 < MaxRetries
    <3>1. lost[r] + 1 \in 0 .. MaxRetries - 1
      BY <2>1 DEF TypeOK
    <3>2. lost' = [lost EXCEPT ![r] = lost[r] + 1] /\ lost \in [Requests -> 0 .. MaxRetries - 1]
      BY <1>7, <2>1 DEF Collide, TypeOK
    <3>3. lost' \in [Requests -> 0 .. MaxRetries - 1]
      BY <3>1, <3>2
    <3>4. slug' \in [Requests -> Seq(Nat)]
      <4>1. Keep \in Seq(Nat)
        BY EmptySeq DEF Keep
      <4>2. slug' = [slug EXCEPT ![r] = Keep]
        BY <1>7, <2>1 DEF Collide
      <4>3. QED
        BY <4>1, <4>2 DEF TypeOK
    <3>5. pc' = [pc EXCEPT ![r] = "candidate"]
      BY <1>7, <2>1 DEF Collide
    <3>6. UNCHANGED <<rows, remarks, user, target, about, title, history>>
      BY <1>7, <2>1 DEF Collide
    <3>7. QED
      BY <3>3, <3>4, <3>5, <3>6 DEF TypeOK
  <2>2. CASE ~(lost[r] + 1 < MaxRetries)
    BY <1>7, <1>b, <2>2 DEF Collide
  <2>3. QED
    BY <2>1, <2>2
<1>8. ASSUME NEW r \in Requests, Insert(r) PROVE TypeOK'
  <2>1. nextArticle \in ArticleIds
    BY <1>8, IdsInRange DEF Insert, Publishing
  <2>2. [author |-> user[r], title |-> title[r], slug |-> slug[r]] \in Row
    BY DEF Row, TypeOK
  <2>3. article' \in [ArticleIds -> Row] /\ articles' \subseteq ArticleIds
    BY <1>8, <2>1, <2>2 DEF Insert, TypeOK, Row
  <2>4. nextArticle' \in 1 .. MaxArticles + 1
    BY <1>8, <2>1 DEF Insert, ArticleIds
  <2>5. \A c \in comments : comment[c].article \in articles'
    BY <1>8 DEF Insert, TypeOK
  <2>6. LocalsTyped' /\ rivals' \in [Requests -> 0 .. MaxRetries]
    BY <1>8, EndTyped, RivalsTyped DEF Insert, FinishWriting
  <2>7. QED
    BY <1>8, <2>3, <2>4, <2>5, <2>6 DEF Insert, TypeOK, LocalsTyped, Row
<1>9. ASSUME NEW r \in Requests, Rewrite(r) PROVE TypeOK'
  <2>1. target[r] \in articles /\ target[r] \in ArticleIds
    BY <1>0, <1>9 DEF Rewrite
  <2>2. SlugOf(r) \in Seq(Nat) /\ title[r] \in Titles \union {None} /\ article[target[r]] \in Row
    BY <1>0, <2>1 DEF SlugOf, TypeOK, Row
  <2>3. [article[target[r]] EXCEPT !.title = title[r], !.slug = SlugOf(r)] \in Row
    BY <2>2 DEF Row
  <2>4. article \in [ArticleIds -> Row]
    BY DEF TypeOK, Row
  <2>5. article' = [article EXCEPT ![target[r]] =
                     [article[target[r]] EXCEPT !.title = title[r], !.slug = SlugOf(r)]]
    BY <1>9 DEF Rewrite
  <2>6. article' \in [ArticleIds -> Row]
    BY <2>1, <2>3, <2>4, <2>5
  <2>7. stale' \subseteq ArticleIds
    BY <1>9, <2>1 DEF Rewrite, TypeOK
  <2>8. LocalsTyped' /\ rivals' \in [Requests -> 0 .. MaxRetries]
    BY <1>9, EndTyped, RivalsTyped DEF Rewrite, FinishWriting
  <2>9. QED
    BY <1>9, <2>6, <2>7, <2>8 DEF Rewrite, TypeOK, LocalsTyped, Row
<1>10. ASSUME NEW r \in Requests, Delete(r) PROVE TypeOK'
  <2>1. article' \in [ArticleIds -> Row]
    BY <1>0, <1>10 DEF Delete, TypeOK, Row
  <2>2. comment' \in [CommentIds -> Remark] /\ comments' \subseteq comments
    BY <1>0, <1>10 DEF Delete, TypeOK, Remark
  <2>3. \A c \in comments' : comment'[c].article \in articles'
    BY <1>10 DEF Delete, TypeOK
  <2>4. LocalsTyped' /\ rivals' \in [Requests -> 0 .. MaxRetries]
    BY <1>10, EndTyped, RivalsTyped DEF Delete, Finish
  <2>5. QED
    BY <1>10, <2>1, <2>2, <2>3, <2>4 DEF Delete, Finish, TypeOK, LocalsTyped, Row, Remark
<1>11. ASSUME NEW r \in Requests, Gone(r) PROVE TypeOK'
  BY <1>11, <1>b DEF Gone
<1>12. ASSUME NEW r \in Requests, InsertComment(r) PROVE TypeOK'
  <2>1. nextComment \in CommentIds
    BY <1>12, IdsInRange DEF InsertComment, Commenting
  <2>2. [article |-> target[r], author |-> user[r]] \in Remark
    BY DEF Remark, TypeOK
  <2>3. comment' \in [CommentIds -> Remark] /\ comments' \subseteq CommentIds
    BY <1>12, <2>1, <2>2 DEF InsertComment, TypeOK, Remark
  <2>4. nextComment' \in 1 .. MaxComments + 1
    BY <1>12, <2>1 DEF InsertComment, CommentIds
  <2>5. \A c \in comments' : comment'[c].article \in articles
    BY <1>12, <2>1 DEF InsertComment, TypeOK
  <2>6. LocalsTyped' /\ rivals' \in [Requests -> 0 .. MaxRetries]
    BY <1>12, EndTyped, RivalsTyped DEF InsertComment, Finish
  <2>7. QED
    BY <1>12, <2>3, <2>4, <2>5, <2>6 DEF InsertComment, Finish, TypeOK, LocalsTyped, Remark
<1>13. ASSUME NEW r \in Requests, FindComment(r) PROVE TypeOK'
  <2>1. CASE Finish(r)
    BY <1>13, <1>b, <2>1 DEF FindComment
  <2>2. CASE ~Finish(r)
    BY <1>13, <2>2 DEF FindComment, TypeOK
  <2>3. QED
    BY <2>1, <2>2
<1>14. ASSUME NEW r \in Requests, DeleteComment(r) PROVE TypeOK'
  <2>1. comment' \in [CommentIds -> Remark] /\ comments' \subseteq comments
    BY <1>0, <1>14 DEF DeleteComment, TypeOK, Remark
  <2>2. \A c \in comments' : comment'[c].article \in articles
    BY <1>14 DEF DeleteComment, TypeOK
  <2>3. LocalsTyped' /\ rivals' \in [Requests -> 0 .. MaxRetries]
    BY <1>14, EndTyped, RivalsTyped DEF DeleteComment, Finish
  <2>4. QED
    BY <1>14, <2>1, <2>2, <2>3 DEF DeleteComment, Finish, TypeOK, LocalsTyped, Remark
<1>15. ASSUME NEW r \in Requests, Fail(r) PROVE TypeOK'
  BY <1>15, <1>b DEF Fail
<1>16. ASSUME UNCHANGED vars PROVE TypeOK'
  BY <1>16 DEF vars, TypeOK
<1>17. QED
  BY <1>1, <1>2, <1>3, <1>4, <1>5, <1>6, <1>7, <1>8, <1>9, <1>10, <1>11, <1>12, <1>13,
     <1>14, <1>15, <1>16 DEF Next, Arrive, Serve

----------------------------------------------------------------------------
(***************************************************************************)
(* Who writes what.                                                        *)
(***************************************************************************)

\* No step changes an author, and a row that appears has the next id.
LEMMA RowsKeepAuthors ==
  ASSUME TypeOK, Allocation, [Next]_vars
  PROVE  /\ \A i \in articles \intersect articles' : article'[i].author = article[i].author
         /\ \A i \in articles' \ articles : i = nextArticle
         /\ \A c \in comments \intersect comments' : comment'[c] = comment[c]
         /\ \A c \in comments' \ comments : c = nextComment
<1> DEFINE Kept ==
             /\ \A i \in articles \intersect articles' : article'[i].author = article[i].author
             /\ \A i \in articles' \ articles : i = nextArticle
             /\ \A c \in comments \intersect comments' : comment'[c] = comment[c]
             /\ \A c \in comments' \ comments : c = nextComment
<1> USE DEF rows, remarks
<1>0. /\ nextArticle \notin articles /\ nextComment \notin comments
      /\ articles \subseteq ArticleIds /\ comments \subseteq CommentIds
      /\ article \in [ArticleIds -> Row] /\ comment \in [CommentIds -> Remark]
  BY DEF Allocation, TypeOK, Row, Remark
<1>1. ASSUME NEW r \in Requests, Arrive(r) PROVE Kept
  BY <1>1 DEF Arrive, Create, Update, Remove, CommentOn, Uncomment
<1>2. ASSUME NEW r \in Requests, Insert(r) PROVE Kept
  <2>1. articles' = articles \union {nextArticle} /\ UNCHANGED remarks
    BY <1>2 DEF Insert
  <2>2. \A i \in articles : article'[i] = article[i]
    BY <1>0, <1>2 DEF Insert
  <2>3. QED
    BY <2>1, <2>2
<1>3. ASSUME NEW r \in Requests, Rewrite(r) PROVE Kept
  <2>1. article' = [article EXCEPT ![target[r]] =
                     [article[target[r]] EXCEPT !.title = title[r], !.slug = SlugOf(r)]]
    BY <1>3 DEF Rewrite
  <2>2. target[r] \in articles /\ article[target[r]] \in Row
    BY <1>0, <1>3 DEF Rewrite
  <2>3. \A i \in articles : article'[i].author = article[i].author
    BY <1>0, <2>1, <2>2 DEF Row
  <2>4. QED
    BY <1>3, <2>3 DEF Rewrite
<1>4. ASSUME NEW r \in Requests, Delete(r) PROVE Kept
  <2>1. \A i \in articles' : i \in articles /\ article'[i] = article[i]
    BY <1>0, <1>4 DEF Delete
  <2>2. \A c \in comments' : c \in comments /\ comment'[c] = comment[c]
    BY <1>0, <1>4 DEF Delete
  <2>3. QED
    BY <2>1, <2>2
<1>5. ASSUME NEW r \in Requests, InsertComment(r) PROVE Kept
  <2>1. comments' = comments \union {nextComment} /\ UNCHANGED rows
    BY <1>5 DEF InsertComment
  <2>2. \A c \in comments : comment'[c] = comment[c]
    BY <1>0, <1>5 DEF InsertComment
  <2>3. QED
    BY <2>1, <2>2
<1>6. ASSUME NEW r \in Requests, DeleteComment(r) PROVE Kept
  <2>1. \A c \in comments' : c \in comments /\ comment'[c] = comment[c]
    BY <1>0, <1>6 DEF DeleteComment
  <2>2. QED
    BY <1>6, <2>1 DEF DeleteComment
<1>7. ASSUME NEW r \in Requests,
             CreateCandidate(r) \/ Collide(r) \/ Gone(r) \/ FindComment(r) \/ Fail(r)
      PROVE  Kept
  BY <1>7 DEF CreateCandidate, Collide, Gone, FindComment, Fail
<1>8. ASSUME UNCHANGED vars PROVE Kept
  BY <1>8 DEF vars
<1>9. QED
  BY <1>1, <1>2, <1>3, <1>4, <1>5, <1>6, <1>7, <1>8 DEF Next, Serve

\* A request knows the author of what it found, and ids are not given twice.
LEMMA StepOwnership == TypeOK /\ Allocation /\ Ownership /\ [Next]_vars => Ownership'
<1> SUFFICES ASSUME TypeOK, Allocation, Ownership, [Next]_vars,
                    NEW q \in Requests
             PROVE  /\ pc'[q] \in {"candidate", "write", "delete"} /\ target'[q] \in articles' =>
                         article'[target'[q]].author = user'[q]
                    /\ pc'[q] = "uncomment" /\ about'[q] \in comments' =>
                         comment'[about'[q]].author = user'[q]
  BY DEF Ownership
<1> DEFINE Owner == /\ pc'[q] \in {"candidate", "write", "delete"} /\ target'[q] \in articles' =>
                         article'[target'[q]].author = user'[q]
                    /\ pc'[q] = "uncomment" /\ about'[q] \in comments' =>
                         comment'[about'[q]].author = user'[q]
<1> USE DEF rows, remarks
<1>0. /\ target[q] # nextArticle /\ about[q] # nextComment /\ 0 \notin articles
      /\ pc \in [Requests -> {"idle", "candidate", "write", "delete", "comment", "findComment",
                              "uncomment"}]
      /\ target \in [Requests -> Nat] /\ about \in [Requests -> Nat]
      /\ user \in [Requests -> Users \union {None}]
  BY DEF Allocation, TypeOK, ArticleIds, CommentIds
\* A request that keeps what it knows still knows the author.
<1>a. ASSUME pc[q] \in {"candidate", "write", "delete"} <=> pc'[q] \in {"candidate", "write", "delete"},
             pc'[q] = "uncomment" => pc[q] = "uncomment",
             target'[q] = target[q], about'[q] = about[q], user'[q] = user[q]
      PROVE  Owner
  <2>1. target[q] \in articles' => /\ target[q] \in articles
                                   /\ article'[target[q]].author = article[target[q]].author
    BY <1>0, RowsKeepAuthors
  <2>2. about[q] \in comments' => /\ about[q] \in comments
                                  /\ comment'[about[q]] = comment[about[q]]
    BY <1>0, RowsKeepAuthors
  <2>3. QED
    BY <1>a, <2>1, <2>2 DEF Ownership
<1>b. ASSUME NEW r \in Requests, Ended(r) PROVE Owner
  <2>1. CASE q = r
    BY <1>0, <1>b, <2>1 DEF Ended
  <2>2. CASE q # r
    BY <1>0, <1>a, <1>b, <2>2 DEF Ended
  <2>3. QED
    BY <2>1, <2>2
<1>c. ASSUME NEW r \in Requests, NEW to \in {"candidate", "write", "delete", "comment", "findComment"},
             NEW u, NEW i, NEW c, NEW t, Start(r, to, u, i, c, t), UNCHANGED <<rows, remarks>>,
             to \in {"candidate", "write", "delete"} /\ i \in articles => u = article[i].author
      PROVE  Owner
  <2>1. CASE q = r
    BY <1>0, <1>c, <2>1 DEF Start
  <2>2. CASE q # r
    BY <1>0, <1>a, <1>c, <2>2 DEF Start
  <2>3. QED
    BY <2>1, <2>2
<1>1. ASSUME NEW r \in Requests, NEW u \in Users, NEW t \in Titles, Create(r, u, t) PROVE Owner
  BY <1>0, <1>1, <1>c DEF Create
<1>2. ASSUME NEW r \in Requests, NEW i \in ArticleIds, NEW t \in Titles, Update(r, i, t)
      PROVE  Owner
  BY <1>2, <1>c DEF Update
<1>3. ASSUME NEW r \in Requests, NEW i \in ArticleIds, Remove(r, i) PROVE Owner
  BY <1>3, <1>c DEF Remove
<1>4. ASSUME NEW r \in Requests, NEW u \in Users, NEW i \in ArticleIds, CommentOn(r, u, i)
      PROVE  Owner
  BY <1>4, <1>c DEF CommentOn
<1>5. ASSUME NEW r \in Requests, NEW u \in Users, NEW i \in ArticleIds, NEW c \in CommentIds,
             Uncomment(r, u, i, c)
      PROVE  Owner
  BY <1>5, <1>c DEF Uncomment
<1>6. ASSUME NEW r \in Requests, CreateCandidate(r) PROVE Owner
  BY <1>0, <1>6, <1>a DEF CreateCandidate
<1>7. ASSUME NEW r \in Requests, Collide(r) PROVE Owner
  <2>1. CASE lost[r] + 1 < MaxRetries
    BY <1>0, <1>7, <1>a, <2>1 DEF Collide
  <2>2. CASE ~(lost[r] + 1 < MaxRetries)
    BY <1>7, <1>b, <2>2 DEF Collide, Finish
  <2>3. QED
    BY <2>1, <2>2
<1>8. ASSUME NEW r \in Requests, FindComment(r) PROVE Owner
  <2>1. CASE Ended(r)
    BY <1>b, <2>1
  <2>2. CASE ~Ended(r) /\ q = r
    BY <1>0, <1>8, <2>2 DEF FindComment, Finish
  <2>3. CASE ~Ended(r) /\ q # r
    BY <1>0, <1>8, <1>a, <2>3 DEF FindComment, Finish
  <2>4. QED
    BY <2>1, <2>2, <2>3
<1>9. ASSUME NEW r \in Requests,
             \/ Insert(r) \/ Rewrite(r) \/ Delete(r) \/ Gone(r)
             \/ InsertComment(r) \/ DeleteComment(r) \/ Fail(r)
      PROVE  Owner
  <2>1. Ended(r)
    BY <1>9 DEF Insert, Rewrite, Delete, Gone, InsertComment, DeleteComment, Fail, Finish,
      FinishWriting
  <2>2. QED
    BY <1>b, <2>1
<1>10. ASSUME UNCHANGED vars PROVE Owner
  BY <1>10, <1>a DEF vars, locals
<1>11. QED
  BY <1>1, <1>2, <1>3, <1>4, <1>5, <1>6, <1>7, <1>8, <1>9, <1>10 DEF Next, Arrive, Serve

\* The steps that change or remove words are their author's.
LEMMA StepsAreTheAuthors == TypeOK /\ Allocation /\ Ownership /\ [Next]_vars => [AuthorsWrite]_vars
<1> SUFFICES ASSUME TypeOK, Allocation, Ownership, [Next]_vars PROVE AuthorsWrite
  OBVIOUS
<1> DEFINE Articles1 == \A i \in articles : (i \notin articles' \/ article'[i] # article[i]) =>
                          \E r \in Requests : EndsFor(r, article[i].author) /\ target[r] = i
           Comments1 == \A c \in comments \ comments' :
                          \/ comment[c].article \notin articles'
                          \/ \E r \in Requests : EndsFor(r, comment[c].author) /\ about[r] = c
<1> USE DEF rows, remarks
<1>0. /\ nextArticle \notin articles /\ articles \subseteq ArticleIds /\ comments \subseteq CommentIds
      /\ article \in [ArticleIds -> Row] /\ comment \in [CommentIds -> Remark]
      /\ pc \in [Requests -> {"idle", "candidate", "write", "delete", "comment", "findComment",
                              "uncomment"}]
  BY DEF Allocation, TypeOK, Row, Remark
<1>e. ASSUME NEW r \in Requests, Ended(r) PROVE pc'[r] = "idle"
  BY <1>0, <1>e DEF Ended
<1>1. ASSUME NEW r \in Requests, Insert(r) PROVE Articles1 /\ Comments1
  <2>1. \A i \in articles : i \in articles' /\ article'[i] = article[i]
    BY <1>0, <1>1 DEF Insert
  <2>2. QED
    BY <1>1, <2>1 DEF Insert
<1>2. ASSUME NEW r \in Requests, Rewrite(r) PROVE Articles1 /\ Comments1
  <2>1. target[r] \in articles /\ EndsFor(r, article[target[r]].author)
    BY <1>2, <1>e DEF EndsFor, Rewrite, FinishWriting, Ownership
  <2>2. \A i \in articles : i # target[r] => i \in articles' /\ article'[i] = article[i]
    BY <1>0, <1>2 DEF Rewrite
  <2>3. QED
    BY <1>2, <2>1, <2>2 DEF Rewrite
<1>3. ASSUME NEW r \in Requests, Delete(r) PROVE Articles1 /\ Comments1
  <2>1. target[r] \in articles /\ EndsFor(r, article[target[r]].author)
    BY <1>3, <1>e DEF EndsFor, Delete, Finish, Ownership
  <2>2. \A i \in articles : i # target[r] => i \in articles' /\ article'[i] = article[i]
    BY <1>0, <1>3 DEF Delete
  <2>3. \A c \in comments \ comments' : comment[c].article \notin articles'
    BY <1>3 DEF Delete
  <2>4. QED
    BY <2>1, <2>2, <2>3
<1>4. ASSUME NEW r \in Requests, InsertComment(r) PROVE Articles1 /\ Comments1
  BY <1>4 DEF InsertComment
<1>5. ASSUME NEW r \in Requests, DeleteComment(r) PROVE Articles1 /\ Comments1
  <2>1. \A c \in comments \ comments' : c = about[r]
    BY <1>5 DEF DeleteComment
  <2>2. about[r] \in comments => EndsFor(r, comment[about[r]].author)
    BY <1>5, <1>e DEF EndsFor, DeleteComment, Finish, Ownership
  <2>3. QED
    BY <1>5, <2>1, <2>2 DEF DeleteComment
<1>6. ASSUME NEW r \in Requests,
             \/ Arrive(r) \/ CreateCandidate(r) \/ Collide(r) \/ Gone(r) \/ FindComment(r) \/ Fail(r)
      PROVE  Articles1 /\ Comments1
  <2>1. UNCHANGED <<rows, remarks>>
    BY <1>6 DEF Arrive, Create, Update, Remove, CommentOn, Uncomment, CreateCandidate, Collide,
      Gone, FindComment, Fail
  <2>2. QED
    BY <2>1
<1>7. ASSUME UNCHANGED vars PROVE Articles1 /\ Comments1
  BY <1>7 DEF vars
<1>8. QED
  BY <1>1, <1>2, <1>3, <1>4, <1>5, <1>6, <1>7 DEF Next, Serve, AuthorsWrite

----------------------------------------------------------------------------
(***************************************************************************)
(* Slugs and titles.                                                       *)
(***************************************************************************)

\* Every article keeps having a slug, and every request a title for it.
LEMMA StepNaming ==
  TypeOK /\ Allocation /\ Naming /\ Named /\ [Next]_vars => Naming' /\ Named'
<1> SUFFICES ASSUME TypeOK, Allocation, Naming, Named, [Next]_vars PROVE Naming' /\ Named'
  OBVIOUS
<1> USE DEF rows, remarks
<1>0. /\ pc \in [Requests -> {"idle", "candidate", "write", "delete", "comment", "findComment",
                              "uncomment"}]
      /\ slug \in [Requests -> Seq(Nat)] /\ title \in [Requests -> Titles \union {None}]
      /\ target \in [Requests -> ArticleIds \union {0}] /\ 0 \notin articles
      /\ article \in [ArticleIds -> Row] /\ articles \subseteq ArticleIds
  BY DEF TypeOK, Row, ArticleIds
<1>a. ASSUME UNCHANGED rows PROVE Named'
  BY <1>a DEF Named
<1>b. ASSUME NEW r \in Requests, Ended(r) PROVE Naming'
  BY <1>0, <1>b DEF Naming, Ended
<1>c. ASSUME NEW r \in Requests, NEW to \in {"candidate", "write", "delete", "comment", "findComment"},
             NEW u, NEW i, NEW c, NEW t, Start(r, to, u, i, c, t),
             to \in {"candidate", "write"} => t \in Titles,
             to = "write" => i # 0
      PROVE  Naming'
  BY <1>0, <1>c DEF Naming, Start
<1>1. ASSUME NEW r \in Requests, NEW u \in Users, NEW t \in Titles, Create(r, u, t) PROVE Naming' /\ Named'
  BY <1>1, <1>a, <1>c DEF Create
<1>2. ASSUME NEW r \in Requests, NEW i \in ArticleIds, NEW t \in Titles, Update(r, i, t)
      PROVE  Naming' /\ Named'
  BY <1>0, <1>2, <1>a, <1>c DEF Update
<1>3. ASSUME NEW r \in Requests, NEW i \in ArticleIds, Remove(r, i) PROVE Naming' /\ Named'
  BY <1>3, <1>a, <1>c DEF Remove
<1>4. ASSUME NEW r \in Requests, NEW u \in Users, NEW i \in ArticleIds, CommentOn(r, u, i)
      PROVE  Naming' /\ Named'
  BY <1>4, <1>a, <1>c DEF CommentOn
<1>5. ASSUME NEW r \in Requests, NEW u \in Users, NEW i \in ArticleIds, NEW c \in CommentIds,
             Uncomment(r, u, i, c)
      PROVE  Naming' /\ Named'
  BY <1>5, <1>a, <1>c DEF Uncomment
<1>6. ASSUME NEW r \in Requests, CreateCandidate(r) PROVE Naming' /\ Named'
  <2>1. title[r] \in Titles
    BY <1>6 DEF Naming, CreateCandidate
  <2>2. slug'[r] \in SlugsOf(title[r]) /\ slug'[r] # Keep
    BY <1>0, <1>6, <2>1, CandidateFits, SlugsAreSlugs DEF CreateCandidate
  <2>3. \A q \in Requests : q # r => slug'[q] = slug[q] /\ pc'[q] = pc[q]
    BY <1>0, <1>6 DEF CreateCandidate
  <2>4. pc'[r] = "write"
    BY <1>0, <1>6 DEF CreateCandidate
  <2>5. QED
    BY <1>6, <1>a, <2>1, <2>2, <2>3, <2>4 DEF Naming, CreateCandidate
<1>7. ASSUME NEW r \in Requests, Collide(r) PROVE Naming' /\ Named'
  <2>1. CASE lost[r] + 1 < MaxRetries
    <3>1. pc'[r] = "candidate" /\ slug'[r] = Keep /\ title' = title /\ target' = target
      BY <1>0, <1>7, <2>1 DEF Collide
    <3>2. \A q \in Requests : q # r => slug'[q] = slug[q] /\ pc'[q] = pc[q]
      BY <1>0, <1>7, <2>1 DEF Collide
    <3>3. title[r] \in Titles
      BY <1>7 DEF Naming, Collide
    <3>4. QED
      BY <1>7, <1>a, <3>1, <3>2, <3>3 DEF Naming, Collide
  <2>2. CASE ~(lost[r] + 1 < MaxRetries)
    BY <1>7, <1>a, <1>b, <2>2 DEF Collide, Finish
  <2>3. QED
    BY <2>1, <2>2
<1>8. ASSUME NEW r \in Requests, Insert(r) PROVE Naming' /\ Named'
  <2>1. slug[r] # Keep
    BY <1>8 DEF Insert, Naming
  <2>2. \A i \in articles' : article'[i].slug = IF i = nextArticle THEN slug[r] ELSE article[i].slug
    <3>1. nextArticle \in ArticleIds
      BY <1>8, IdsInRange DEF Insert, Publishing
    <3>2. QED
      BY <1>0, <1>8, <3>1 DEF Insert
  <2>3. Named'
    BY <1>8, <2>1, <2>2 DEF Named, Insert
  <2>4. QED
    BY <1>8, <1>b, <2>3 DEF Insert, FinishWriting
<1>9. ASSUME NEW r \in Requests, Rewrite(r) PROVE Naming' /\ Named'
  <2>1. target[r] \in articles /\ SlugOf(r) # Keep
    BY <1>9 DEF Rewrite, Named, SlugOf
  <2>2. article[target[r]] \in Row
    BY <1>0, <2>1
  <2>3. article'[target[r]].slug = SlugOf(r)
    BY <1>0, <1>9, <2>1, <2>2 DEF Rewrite, Row
  <2>4. \A i \in articles : i # target[r] => article'[i] = article[i]
    BY <1>0, <1>9 DEF Rewrite
  <2>5. Named'
    BY <1>9, <2>1, <2>3, <2>4 DEF Named, Rewrite
  <2>6. QED
    BY <1>9, <1>b, <2>5 DEF Rewrite, FinishWriting
<1>10. ASSUME NEW r \in Requests, Delete(r) PROVE Naming' /\ Named'
  <2>1. \A i \in articles' : i \in articles /\ article'[i] = article[i]
    BY <1>0, <1>10 DEF Delete
  <2>2. Named'
    BY <2>1 DEF Named
  <2>3. QED
    BY <1>10, <1>b, <2>2 DEF Delete, Finish
<1>11. ASSUME NEW r \in Requests, FindComment(r) PROVE Naming' /\ Named'
  <2>1. CASE Ended(r)
    BY <1>11, <1>a, <1>b, <2>1 DEF FindComment
  <2>2. CASE ~Ended(r)
    <3>1. pc' = [pc EXCEPT ![r] = "uncomment"] /\ UNCHANGED <<slug, title, target>>
      BY <1>11, <2>2 DEF FindComment, Finish
    <3>2. pc[r] # "write"
      BY <1>11 DEF FindComment
    <3>3. QED
      BY <1>0, <1>11, <1>a, <3>1, <3>2 DEF FindComment, Naming
  <2>3. QED
    BY <2>1, <2>2
<1>12. ASSUME NEW r \in Requests, Gone(r) \/ InsertComment(r) \/ DeleteComment(r) \/ Fail(r)
       PROVE  Naming' /\ Named'
  <2>1. Ended(r) /\ UNCHANGED rows
    BY <1>12 DEF Gone, InsertComment, DeleteComment, Fail, Finish
  <2>2. QED
    BY <1>a, <1>b, <2>1
<1>13. ASSUME UNCHANGED vars PROVE Naming' /\ Named'
  BY <1>13 DEF vars, locals, Naming, Named
<1>14. QED
  BY <1>1, <1>2, <1>3, <1>4, <1>5, <1>6, <1>7, <1>8, <1>9, <1>10, <1>11, <1>12, <1>13
  DEF Next, Arrive, Serve

\* A write sets the slug with the title, or leaves both, or is the exception.
LEMMA StepSlugFollowsTitle ==
  TypeOK /\ Allocation /\ Naming /\ SlugFollowsTitle /\ [Next]_vars => SlugFollowsTitle'
<1> SUFFICES ASSUME TypeOK, Allocation, Naming, SlugFollowsTitle, [Next]_vars
             PROVE  SlugFollowsTitle'
  OBVIOUS
<1> USE DEF rows, remarks
<1>0. /\ article \in [ArticleIds -> Row] /\ articles \subseteq ArticleIds
      /\ nextArticle \notin articles
  BY DEF TypeOK, Row, Allocation
<1>a. ASSUME \A i \in articles' \ stale' : i \in articles \ stale /\ article'[i] = article[i]
      PROVE  SlugFollowsTitle'
  BY <1>a DEF SlugFollowsTitle
<1>1. ASSUME NEW r \in Requests, Insert(r) PROVE SlugFollowsTitle'
  <2>1. slug[r] \in SlugsOf(title[r])
    BY <1>1 DEF Insert, Naming
  <2>2. nextArticle \in ArticleIds
    BY <1>1, IdsInRange DEF Insert, Publishing
  <2>3. \A i \in articles : article'[i] = article[i]
    BY <1>0, <1>1 DEF Insert
  <2>4. article'[nextArticle].slug = slug[r] /\ article'[nextArticle].title = title[r]
    BY <1>0, <1>1, <2>2 DEF Insert
  <2>5. articles' = articles \union {nextArticle} /\ stale' = stale
    BY <1>1 DEF Insert
  <2>6. QED
    BY <2>1, <2>3, <2>4, <2>5 DEF SlugFollowsTitle
<1>2. ASSUME NEW r \in Requests, Rewrite(r) PROVE SlugFollowsTitle'
  <2>1. target[r] \in articles /\ article[target[r]] \in Row
    BY <1>0, <1>2 DEF Rewrite
  <2>2. article'[target[r]].slug = SlugOf(r) /\ article'[target[r]].title = title[r]
    BY <1>0, <1>2, <2>1 DEF Rewrite, Row
  <2>3. \A i \in articles : i # target[r] => article'[i] = article[i]
    BY <1>0, <1>2 DEF Rewrite
  <2>4. articles' = articles /\ stale \ {target[r]} \subseteq stale'
    BY <1>2 DEF Rewrite
  <2>5. CASE slug[r] # Keep
    <3>1. SlugOf(r) \in SlugsOf(title[r])
      BY <1>2, <2>5 DEF SlugOf, Naming, Rewrite
    <3>2. QED
      BY <2>2, <2>3, <2>4, <3>1 DEF SlugFollowsTitle
  <2>6. CASE slug[r] = Keep /\ article[target[r]].title # title[r]
    <3>1. target[r] \in stale'
      BY <1>2, <2>6 DEF Rewrite
    <3>2. QED
      BY <1>a, <2>3, <2>4, <3>1
  <2>7. CASE slug[r] = Keep /\ article[target[r]].title = title[r]
    <3>1. SlugOf(r) = article[target[r]].slug /\ stale' = stale
      BY <1>2, <2>7 DEF SlugOf, Rewrite
    <3>2. QED
      BY <2>2, <2>3, <2>4, <2>7, <3>1 DEF SlugFollowsTitle
  <2>8. QED
    BY <2>5, <2>6, <2>7
<1>3. ASSUME NEW r \in Requests, Delete(r) PROVE SlugFollowsTitle'
  <2>1. \A i \in articles' : i \in articles /\ article'[i] = article[i]
    BY <1>0, <1>3 DEF Delete
  <2>2. stale' = stale
    BY <1>3 DEF Delete, Finish
  <2>3. QED
    BY <1>a, <2>1, <2>2
<1>4. ASSUME NEW r \in Requests,
             \/ Arrive(r) \/ CreateCandidate(r) \/ Collide(r) \/ Gone(r) \/ InsertComment(r)
             \/ FindComment(r) \/ DeleteComment(r) \/ Fail(r)
      PROVE  SlugFollowsTitle'
  <2>1. UNCHANGED rows /\ UNCHANGED stale
    BY <1>4 DEF Arrive, Create, Update, Remove, CommentOn, Uncomment, CreateCandidate, Collide,
      Gone, InsertComment, FindComment, DeleteComment, Fail, Finish, history
  <2>2. QED
    BY <1>a, <2>1
<1>5. ASSUME UNCHANGED vars PROVE SlugFollowsTitle'
  BY <1>5, <1>a DEF vars, history
<1>6. QED
  BY <1>1, <1>2, <1>3, <1>4, <1>5 DEF Next, Serve

\* A candidate is free, and taken only by a write, which counts as a rival's.
LEMMA StepLostAttempts ==
  TypeOK /\ Allocation /\ Naming /\ Named /\ LostAttemptsHaveRivals /\ [Next]_vars
    => LostAttemptsHaveRivals'
<1> SUFFICES ASSUME TypeOK, Allocation, Naming, Named, LostAttemptsHaveRivals, [Next]_vars,
                    NEW q \in Requests
             PROVE  /\ lost'[q] <= rivals'[q]
                    /\ pc'[q] = "write" /\ slug'[q] # Keep /\ SlugTaken(q)' => lost'[q] < rivals'[q]
  BY DEF LostAttemptsHaveRivals
<1> DEFINE Rival == /\ lost'[q] <= rivals'[q]
                    /\ pc'[q] = "write" /\ slug'[q] # Keep /\ SlugTaken(q)' => lost'[q] < rivals'[q]
<1> USE DEF rows, remarks
<1>0. /\ pc \in [Requests -> {"idle", "candidate", "write", "delete", "comment", "findComment",
                              "uncomment"}]
      /\ slug \in [Requests -> Seq(Nat)] /\ title \in [Requests -> Titles \union {None}]
      /\ target \in [Requests -> ArticleIds \union {0}]
      /\ lost \in [Requests -> 0 .. MaxRetries - 1] /\ rivals \in [Requests -> 0 .. MaxRetries]
      /\ article \in [ArticleIds -> Row] /\ articles \subseteq ArticleIds
      /\ nextArticle \notin articles
  BY DEF TypeOK, Row, Allocation
<1>q. /\ lost[q] \in 0 .. MaxRetries - 1 /\ rivals[q] \in 0 .. MaxRetries
      /\ lost[q] <= rivals[q]
      /\ pc[q] = "write" /\ slug[q] # Keep /\ SlugTaken(q) => lost[q] < rivals[q]
  BY <1>0 DEF LostAttemptsHaveRivals
\* A request for which nothing changes, while no slug is written.
<1>a. ASSUME lost'[q] = lost[q], rivals'[q] = rivals[q], slug'[q] = slug[q], target'[q] = target[q],
             pc'[q] = "write" => pc[q] = "write" \/ slug[q] = Keep,
             \A i \in articles' : i \in articles /\ article'[i].slug = article[i].slug
      PROVE  Rival
  BY <1>a, <1>q DEF SlugTaken
<1>b. ASSUME NEW r \in Requests, Finish(r),
             \A i \in articles' : i \in articles /\ article'[i].slug = article[i].slug
      PROVE  Rival
  <2>1. CASE q = r
    <3>1. lost'[q] = 0 /\ rivals'[q] = 0 /\ pc'[q] = "idle"
      BY <1>0, <1>b, <2>1 DEF Finish, Ended
    <3>2. QED
      BY <3>1
  <2>2. CASE q # r
    BY <1>0, <1>a, <1>b, <2>2 DEF Finish, Ended
  <2>3. QED
    BY <2>1, <2>2
\* A slug is written.
<1>c. ASSUME NEW r \in Requests, FinishWriting(r),
             \/ slug[r] # Keep
             \/ \A i \in articles' : i \in articles /\ article'[i].slug = article[i].slug
      PROVE  Rival
  <2>1. CASE q = r
    <3>1. lost'[q] = 0 /\ rivals'[q] = 0 /\ pc'[q] = "idle"
      BY <1>0, <1>c, <2>1 DEF FinishWriting, Ended
    <3>2. QED
      BY <3>1
  <2>2. CASE q # r
    <3>1. lost'[q] = lost[q] /\ pc'[q] = pc[q] /\ slug'[q] = slug[q] /\ target'[q] = target[q]
      BY <1>0, <1>c, <2>2 DEF FinishWriting, Ended
    <3>2. rivals'[q] = IF pc[q] \in {"candidate", "write"} /\ slug[r] # Keep /\ rivals[q] < MaxRetries
                       THEN rivals[q] + 1 ELSE rivals[q]
      BY <1>c, <2>2 DEF FinishWriting
    <3>3. CASE slug[r] # Keep
      BY <1>q, <3>1, <3>2, <3>3
    <3>4. CASE slug[r] = Keep
      BY <1>a, <1>c, <3>1, <3>2, <3>4
    <3>5. QED
      BY <3>3, <3>4
  <2>3. QED
    BY <2>1, <2>2
<1>1. ASSUME NEW r \in Requests, Arrive(r) PROVE Rival
  <2>1. UNCHANGED <<rows, slug, lost, history>> /\ \E to : pc' = [pc EXCEPT ![r] = to] /\ pc[r] = "idle"
    BY <1>1 DEF Arrive, Create, Update, Remove, CommentOn, Uncomment, Start
  <2>2. CASE q = r
    <3>1. slug[q] = Keep
      BY <2>1, <2>2 DEF Naming
    <3>2. QED
      BY <1>q, <2>1, <3>1 DEF history
  <2>3. CASE q # r
    <3>1. target'[q] = target[q]
      BY <1>0, <1>1, <2>3 DEF Arrive, Create, Update, Remove, CommentOn, Uncomment, Start
    <3>2. QED
      BY <1>0, <1>a, <2>1, <2>3, <3>1 DEF history
  <2>4. QED
    BY <2>2, <2>3
<1>2. ASSUME NEW r \in Requests, CreateCandidate(r) PROVE Rival
  <2>1. CASE q = r
    <3>1. title[r] \in Titles
      BY <1>2 DEF Naming, CreateCandidate
    <3>2. \A i \in articles \ {target[r]} : article[i].slug # slug'[r]
      BY <1>0, <1>2, <3>1, CandidateFits DEF CreateCandidate
    <3>3. ~SlugTaken(q)'
      BY <1>2, <2>1, <3>2 DEF SlugTaken, CreateCandidate
    <3>4. QED
      BY <1>2, <1>q, <3>3 DEF CreateCandidate, history
  <2>2. CASE q # r
    BY <1>0, <1>2, <1>a, <2>2 DEF CreateCandidate, history
  <2>3. QED
    BY <2>1, <2>2
<1>3. ASSUME NEW r \in Requests, Collide(r) PROVE Rival
  <2>1. CASE ~(lost[r] + 1 < MaxRetries)
    BY <1>3, <1>b, <2>1 DEF Collide
  <2>2. CASE lost[r] + 1 < MaxRetries /\ q # r
    BY <1>0, <1>3, <1>a, <2>2 DEF Collide, history
  <2>3. CASE lost[r] + 1 < MaxRetries /\ q = r
    <3>1. pc[q] = "write" /\ SlugTaken(q) /\ slug[q] # Keep
      BY <1>3, <2>3 DEF Collide, SlugTaken, Named
    <3>2. lost'[q] = lost[q] + 1 /\ rivals'[q] = rivals[q] /\ pc'[q] = "candidate"
      BY <1>0, <1>3, <2>3 DEF Collide, history
    <3>3. QED
      BY <1>q, <3>1, <3>2
  <2>4. QED
    BY <2>1, <2>2, <2>3
<1>4. ASSUME NEW r \in Requests, Insert(r) PROVE Rival
  <2>1. slug[r] # Keep
    BY <1>4 DEF Insert, Naming
  <2>2. QED
    BY <1>4, <1>c, <2>1 DEF Insert
<1>5. ASSUME NEW r \in Requests, Rewrite(r) PROVE Rival
  <2>1. CASE slug[r] # Keep
    BY <1>5, <1>c, <2>1 DEF Rewrite
  <2>2. CASE slug[r] = Keep
    <3>1. target[r] \in articles /\ article[target[r]] \in Row
      BY <1>0, <1>5 DEF Rewrite
    <3>2. article'[target[r]].slug = article[target[r]].slug
      BY <1>0, <1>5, <2>2, <3>1 DEF Rewrite, SlugOf, Row
    <3>3. \A i \in articles : i # target[r] => article'[i] = article[i]
      BY <1>0, <1>5 DEF Rewrite
    <3>4. \A i \in articles' : i \in articles /\ article'[i].slug = article[i].slug
      BY <1>5, <3>2, <3>3 DEF Rewrite
    <3>5. QED
      BY <1>5, <1>c, <3>4 DEF Rewrite
  <2>3. QED
    BY <2>1, <2>2
<1>6. ASSUME NEW r \in Requests, Delete(r) PROVE Rival
  <2>1. \A i \in articles' : i \in articles /\ article'[i] = article[i]
    BY <1>0, <1>6 DEF Delete
  <2>2. QED
    BY <1>6, <1>b, <2>1 DEF Delete
<1>7. ASSUME NEW r \in Requests, FindComment(r) PROVE Rival
  <2>1. CASE Finish(r)
    BY <1>7, <1>b, <2>1 DEF FindComment
  <2>2. CASE ~Finish(r)
    <3>1. pc' = [pc EXCEPT ![r] = "uncomment"] /\ UNCHANGED <<rows, target, slug, lost, history>>
      BY <1>7, <2>2 DEF FindComment
    <3>2. QED
      BY <1>0, <1>a, <3>1 DEF history
  <2>3. QED
    BY <2>1, <2>2
<1>8. ASSUME NEW r \in Requests, Gone(r) \/ InsertComment(r) \/ DeleteComment(r) \/ Fail(r)
      PROVE  Rival
  <2>1. Finish(r) /\ UNCHANGED rows
    BY <1>8 DEF Gone, InsertComment, DeleteComment, Fail
  <2>2. QED
    BY <1>b, <2>1
<1>9. ASSUME UNCHANGED vars PROVE Rival
  BY <1>9, <1>a DEF vars, locals, history
<1>10. QED
  BY <1>1, <1>2, <1>3, <1>4, <1>5, <1>6, <1>7, <1>8, <1>9 DEF Next, Serve

----------------------------------------------------------------------------
(***************************************************************************)
(* Theorems.                                                               *)
(***************************************************************************)

\* The parts of the invariant hold together after every step.
LEMMA StepInv == IInv /\ [Next]_vars => IInv'
  BY StepTyped, StepAllocation, StepOwnership, StepNaming, StepLostAttempts,
     StepSlugFollowsTitle DEF IInv

\* The inductive invariant holds, for any users, titles, requests and bounds.
THEOREM Invariant == Spec => []IInv
  BY InitInv, StepInv, PTL DEF Spec

\* Every variable stays in its range, and no comment is left without its article.
THEOREM TypeCorrect == Spec => []TypeOK
<1>1. IInv => TypeOK
  BY DEF IInv
<1>2. QED
  BY <1>1, Invariant, PTL

\* 409 is the others' doing (ArticleSlugService.execute): however many requests
\* want the same slugs, an attempt is lost only to a slug written since it began.
THEOREM AttemptsAreLostToRivals == Spec => []LostAttemptsHaveRivals
<1>1. IInv => LostAttemptsHaveRivals
  BY DEF IInv
<1>2. QED
  BY <1>1, Invariant, PTL

\* The slug follows the title (ArticlesService.update), with the one exception.
THEOREM SlugsFollowTitles == Spec => []SlugFollowsTitle
<1>1. IInv => SlugFollowsTitle
  BY DEF IInv
<1>2. QED
  BY <1>1, Invariant, PTL

\* Only authors change or remove articles and comments (requireOwnedArticle,
\* findIdentity), although what these read may be out of date.
THEOREM WordsAreTheAuthors == Spec => OnlyAuthorsWrite
<1>1. IInv /\ [Next]_vars => [AuthorsWrite]_vars
  BY StepsAreTheAuthors DEF IInv
<1>2. QED
  BY <1>1, Invariant, PTL DEF Spec, OnlyAuthorsWrite
----------------------------------------------------------------------------
(***************************************************************************)
(* Pages.                                                                  *)
(***************************************************************************)

\* Pages go on exactly as long as they do not hold all rows (buildPaginationMeta).
LEMMA LastPageRoundsUp ==
  ASSUME NEW total \in Nat, NEW limit \in Nat \ {0}, NEW p \in Nat
  PROVE  /\ LastPage(total, limit) \in Nat
         /\ p < LastPage(total, limit) <=> p * limit < total
<1> DEFINE q == LastPage(total, limit)
<1>1. /\ q \in Nat
      /\ q * limit <= total + limit - 1
      /\ total + limit - 1 < q * limit + limit
  BY total + limit - 1 \in Nat, Quotient DEF LastPage
<1> HIDE DEF q
<1>2. ASSUME p < q PROVE p * limit < total
  <2>1. (p + 1) * limit <= q * limit /\ (p + 1) * limit = p * limit + limit
    BY <1>1, <1>2, Times
  <2>2. p * limit \in Nat /\ q * limit \in Nat
    BY <1>1
  <2>3. QED
    BY <1>1, <2>1, <2>2
<1>3. ASSUME ~(p < q) PROVE ~(p * limit < total)
  <2>1. q * limit <= p * limit
    BY <1>1, <1>3, Times
  <2>2. p * limit \in Nat /\ q * limit \in Nat
    BY <1>1
  <2>3. QED
    BY <1>1, <2>1, <2>2
<1>4. QED
  BY <1>1, <1>2, <1>3 DEF q

\* The rows that are listed are numbered from 1 on, each number once.
LEMMA Ranks ==
  ASSUME NEW listed \in SUBSET Nat, IsFiniteSet(listed)
  PROVE  /\ Cardinality(listed) \in Nat
         /\ \A i \in listed : Rank(i, listed) \in 1 .. Cardinality(listed)
         /\ \A n \in 1 .. Cardinality(listed) : \E i \in listed : Rank(i, listed) = n
<1> DEFINE newer(i) == {j \in listed : j >= i}
           total == Cardinality(listed)
           rank == [i \in listed |-> Rank(i, listed)]
<1>1. total \in Nat
  BY FS_CardinalityType
<1>2. ASSUME NEW i \in listed
      PROVE  IsFiniteSet(newer(i)) /\ Cardinality(newer(i)) \in 1 .. total
  <2>1. newer(i) \in SUBSET listed /\ i \in newer(i)
    OBVIOUS
  <2>2. IsFiniteSet(newer(i)) /\ Cardinality(newer(i)) <= total
    BY <2>1, FS_Subset
  <2>3. Cardinality(newer(i)) # 0
    BY <2>1, <2>2, FS_EmptySet
  <2>4. Cardinality(newer(i)) \in Nat
    BY <2>2, FS_CardinalityType
  <2>5. QED
    BY <1>1, <2>2, <2>3, <2>4
<1>3. ASSUME NEW i \in listed, NEW k \in listed, i < k
      PROVE  Rank(i, listed) # Rank(k, listed)
  <2>0. i \in Nat /\ k \in Nat /\ \A j \in listed : j \in Nat
    OBVIOUS
  <2>1. newer(k) \in SUBSET newer(i) /\ i \in newer(i) /\ i \notin newer(k)
    <3>1. \A j \in listed : j >= k => j >= i
      BY <1>3, <2>0
    <3>2. i >= i /\ ~(i >= k)
      BY <1>3, <2>0
    <3>3. QED
      BY <3>1, <3>2
  <2>2. newer(i) # newer(k)
    BY <2>1
  <2>3. Cardinality(newer(i)) # Cardinality(newer(k))
    BY <1>2, <2>1, <2>2, FS_Subset
  <2>4. QED
    BY <2>3 DEF Rank
<1>4. \A i \in listed : Rank(i, listed) \in 1 .. total
  BY <1>2 DEF Rank
<1>5. rank \in Injection(listed, 1 .. total)
  <2>1. \A i, k \in listed : rank[i] = rank[k] => i = k
    <3> SUFFICES ASSUME NEW i \in listed, NEW k \in listed, i # k PROVE rank[i] # rank[k]
      OBVIOUS
    <3>1. i < k \/ k < i
      OBVIOUS
    <3>2. QED
      BY <1>3, <3>1
  <2>2. QED
    BY <1>4, <2>1 DEF Injection, IsInjective
<1>6. IsFiniteSet(1 .. total) /\ Cardinality(1 .. total) = total
  BY <1>1, FS_Interval
<1>7. rank \in Surjection(listed, 1 .. total)
  BY <1>5, <1>6, FS_Injection
<1>8. \A n \in 1 .. total : \E i \in listed : rank[i] = n
  BY <1>7 DEF Surjection
<1>9. QED
  BY <1>1, <1>4, <1>8

\* A row is on the page its number falls on, and on no other.
LEMMA OnOnePage ==
  ASSUME NEW listed \in SUBSET Nat, IsFiniteSet(listed), NEW limit \in Nat \ {0},
         NEW i \in listed
  PROVE  Cardinality({p \in 1 .. LastPage(Cardinality(listed), limit) :
                        i \in Page(listed, p, limit)}) = 1
<1> DEFINE total == Cardinality(listed)
           n == Rank(i, listed)
           pages == 1 .. LastPage(total, limit)
           k == (n - 1) \div limit
<1>1. total \in Nat /\ n \in Nat /\ 1 <= n /\ n <= total
  BY Ranks
<1> HIDE DEF total, n
<1>2. k \in Nat /\ k * limit <= n - 1 /\ n - 1 < k * limit + limit
  BY <1>1, n - 1 \in Nat, Quotient
<1> HIDE DEF k
<1>3. k * limit \in Nat
  BY <1>2
<1>4. k < LastPage(total, limit) /\ LastPage(total, limit) \in Nat
  BY <1>1, <1>2, <1>3, LastPageRoundsUp
<1>5. \A p \in pages : i \in Page(listed, p, limit) <=>
        (p - 1) * limit < n /\ n <= (p - 1) * limit + limit
  BY DEF Page, PaginationSkip, n
<1>6. k + 1 \in pages /\ i \in Page(listed, k + 1, limit)
  <2>1. k + 1 \in pages
    BY <1>2, <1>4
  <2>2. PaginationSkip(k + 1, limit) = k * limit
    BY <1>2 DEF PaginationSkip
  <2>3. k * limit < n /\ n <= k * limit + limit
    BY <1>1, <1>2, <1>3
  <2>4. QED
    BY <2>1, <2>2, <2>3 DEF Page, n
<1>7. ASSUME NEW p \in pages, i \in Page(listed, p, limit) PROVE p = k + 1
  <2>0. p - 1 \in Nat /\ (p - 1) * limit \in Nat
    BY <1>4
  <2>1. (p - 1) * limit < n /\ n <= (p - 1) * limit + limit
    BY <1>5, <1>7
  <2>2. ASSUME p - 1 < k PROVE FALSE
    <3>1. (p - 1 + 1) * limit <= k * limit /\ (p - 1 + 1) * limit = (p - 1) * limit + limit
      BY <1>2, <2>0, <2>2, Times
    <3>2. QED
      BY <1>1, <1>2, <1>3, <2>0, <2>1, <3>1
  <2>3. ASSUME k < p - 1 PROVE FALSE
    <3>1. (k + 1) * limit <= (p - 1) * limit /\ (k + 1) * limit = k * limit + limit
      BY <1>2, <2>0, <2>3, Times
    <3>2. QED
      BY <1>1, <1>2, <1>3, <2>0, <2>1, <3>1
  <2>4. QED
    BY <1>2, <2>0, <2>2, <2>3
<1>8. {p \in pages : i \in Page(listed, p, limit)} = {k + 1}
  BY <1>6, <1>7
<1>9. QED
  BY <1>8, FS_Singleton DEF total

\* has_next_page is right: there is a next page exactly if it would not be empty.
LEMMA NextPageIsThere ==
  ASSUME NEW listed \in SUBSET Nat, IsFiniteSet(listed), NEW limit \in Nat \ {0},
         NEW p \in Nat
  PROVE  HasNextPage(Cardinality(listed), p, limit) <=> Page(listed, p + 1, limit) # {}
<1> DEFINE total == Cardinality(listed)
<1>1. total \in Nat /\ \A i \in listed : Rank(i, listed) \in 1 .. total
  BY Ranks
<1>2. HasNextPage(total, p, limit) <=> p * limit < total
  BY <1>1, LastPageRoundsUp DEF HasNextPage
<1>3. p * limit \in Nat /\ PaginationSkip(p + 1, limit) = p * limit
  BY DEF PaginationSkip
<1>4. ASSUME p * limit < total PROVE Page(listed, p + 1, limit) # {}
  <2>1. p * limit + 1 \in 1 .. total
    BY <1>1, <1>3, <1>4
  <2>2. PICK i \in listed : Rank(i, listed) = p * limit + 1
    BY <2>1, Ranks
  <2>3. i \in Page(listed, p + 1, limit)
    BY <1>3, <2>2 DEF Page
  <2>4. QED
    BY <2>3
<1>5. ASSUME NEW i \in Page(listed, p + 1, limit) PROVE p * limit < total
  <2>1. i \in listed /\ p * limit < Rank(i, listed)
    BY <1>3 DEF Page
  <2>2. QED
    BY <1>1, <1>3, <2>1
<1>6. QED
  BY <1>2, <1>4, <1>5

\* Pages of whatever is stored.
LEMMA PagesCover == TypeOK => PagesCoverTheList
<1> SUFFICES ASSUME TypeOK, NEW authors \in SUBSET Users, NEW limit \in 1 .. MaxArticles + 1
             PROVE  LET listed == {i \in articles : article[i].author \in authors}
                        total == Cardinality(listed)
                        pages == 1 .. LastPage(total, limit)
                    IN  /\ \A i \in listed :
                             Cardinality({p \in pages : i \in Page(listed, p, limit)}) = 1
                        /\ \A p \in 1 .. total + 1 :
                             HasNextPage(total, p, limit) <=> Page(listed, p + 1, limit) # {}
  BY DEF PagesCoverTheList
<1> DEFINE listed == {i \in articles : article[i].author \in authors}
<1>1. articles \subseteq 1 .. MaxArticles
  BY DEF TypeOK, ArticleIds
<1>2. listed \in SUBSET Nat /\ listed \in SUBSET (1 .. MaxArticles) /\ limit \in Nat \ {0}
  <2>1. \A i \in articles : i \in Nat /\ i \in 1 .. MaxArticles
    BY <1>1
  <2>2. limit \in Nat \ {0}
    OBVIOUS
  <2>3. QED
    BY <2>1, <2>2
<1>3. IsFiniteSet(1 .. MaxArticles)
  BY FS_Interval
<1>4. IsFiniteSet(listed)
  BY <1>2, <1>3, FS_Subset
<1>5. Cardinality(listed) \in Nat
  BY <1>4, FS_CardinalityType
<1> HIDE DEF listed
<1>6. \A i \in listed :
        Cardinality({p \in 1 .. LastPage(Cardinality(listed), limit) :
                       i \in Page(listed, p, limit)}) = 1
  BY <1>2, <1>4, OnOnePage
<1>7. \A p \in 1 .. Cardinality(listed) + 1 :
        HasNextPage(Cardinality(listed), p, limit) <=> Page(listed, p + 1, limit) # {}
  BY <1>2, <1>4, <1>5, NextPageIsThere
<1>8. QED
  BY <1>6, <1>7 DEF listed

\* Whatever is published, renamed and removed, the pages of a list in one state hold
\* each article once, and has_next_page is right.
THEOREM ListsArePagedWhole == Spec => []PagesCoverTheList
<1>1. IInv => PagesCoverTheList
  BY PagesCover DEF IInv
<1>2. QED
  BY <1>1, Invariant, PTL

----------------------------------------------------------------------------
(***************************************************************************)
(* The feed.                                                               *)
(***************************************************************************)

\* Rows that come anywhere in a list, and rows that go from behind the first k, leave
\* a row behind the first k where it is: behind them.
LEMMA StaysBehind ==
  ASSUME NEW L \in SUBSET Nat, IsFiniteSet(L), NEW M \in SUBSET Nat, IsFiniteSet(M),
         NEW k \in Nat, NEW i \in L, i \in M, k < Rank(i, L),
         \A g \in L \ M : k < Rank(g, L)
  PROVE  k < Rank(i, M)
<1> DEFINE first == {j \in L : Rank(j, L) <= k}
           newerL(j) == {x \in L : x >= j}
           newerM == {x \in M : x >= i}
           rank == [j \in first |-> Rank(j, L)]
<1>1. /\ Cardinality(L) \in Nat
      /\ \A j \in L : Rank(j, L) \in 1 .. Cardinality(L)
      /\ \A n \in 1 .. Cardinality(L) : \E j \in L : Rank(j, L) = n
  BY Ranks
<1>2. IsFiniteSet(first)
  BY FS_Subset
<1>3. k <= Cardinality(first)
  <2>1. rank \in Surjection(first, 1 .. k)
    <3>1. \A j \in first : rank[j] \in 1 .. k
      BY <1>1
    <3>2. ASSUME NEW n \in 1 .. k PROVE \E j \in first : rank[j] = n
      <4>1. n \in 1 .. Cardinality(L)
        BY <1>1
      <4>2. PICK j \in L : Rank(j, L) = n
        BY <1>1, <4>1
      <4>3. j \in first
        BY <4>2
      <4>4. QED
        BY <4>2, <4>3
    <3>3. QED
      BY <3>1, <3>2 DEF Surjection
  <2>2. Cardinality(1 .. k) <= Cardinality(first)
    BY <1>2, <2>1, FS_Surjection
  <2>3. Cardinality(1 .. k) = k
    BY FS_Interval
  <2>4. QED
    BY <2>2, <2>3
<1>4. ASSUME NEW j \in first PROVE j \in M /\ j > i
  <2>1. j \in M
    <3>1. ~(k < Rank(j, L))
      BY <1>1
    <3>2. QED
      BY <3>1
  <2>2. i \in Nat /\ j \in Nat /\ \A x \in L : x \in Nat
    OBVIOUS
  <2>3. CASE j <= i
    <3>1. newerL(i) \in SUBSET newerL(j)
      <4>1. \A x \in L : x >= i => x >= j
        BY <2>2, <2>3
      <4>2. QED
        BY <4>1
    <3>2. IsFiniteSet(newerL(j))
      BY FS_Subset
    <3>3. Cardinality(newerL(i)) <= Cardinality(newerL(j))
      BY <3>1, <3>2, FS_Subset
    <3>4. Rank(i, L) <= Rank(j, L)
      BY <3>3 DEF Rank
    <3>5. Rank(i, L) \in Nat /\ Rank(j, L) \in Nat /\ Rank(j, L) <= k
      BY <1>1
    <3>6. QED
      BY <3>4, <3>5
  <2>4. QED
    BY <2>1, <2>2, <2>3
<1>5. first \union {i} \in SUBSET newerM /\ i \notin first
  <2>1. i \in Nat /\ \A j \in first : j \in Nat /\ j >= i
    BY <1>4
  <2>2. Rank(i, L) \in Nat
    BY <1>1
  <2>3. i >= i /\ i \notin first
    BY <2>1, <2>2
  <2>4. QED
    BY <1>4, <2>1, <2>3
<1>6. IsFiniteSet(newerM)
  BY FS_Subset
<1>7. Cardinality(first \union {i}) <= Cardinality(newerM)
  BY <1>5, <1>6, FS_Subset
<1>8. Cardinality(first \union {i}) = Cardinality(first) + 1
  BY <1>2, <1>5, FS_AddElement
<1>9. Cardinality(first) \in Nat /\ Cardinality(newerM) \in Nat
  BY <1>2, <1>6, FS_CardinalityType
<1>10. k < Cardinality(newerM)
  BY <1>3, <1>7, <1>8, <1>9
<1>11. QED
  BY <1>10 DEF Rank

\* Ids that are drawn are finitely many.
LEMMA ListsAreFinite ==
  ASSUME NEW S \in SUBSET ArticleIds
  PROVE  S \in SUBSET Nat /\ IsFiniteSet(S)
<1>1. IsFiniteSet(ArticleIds)
  BY FS_Interval DEF ArticleIds
<1>2. \A n \in ArticleIds : n \in Nat
  BY DEF ArticleIds
<1>3. QED
  BY <1>1, <1>2, FS_Subset

\* The feed is a finite list of ids.
LEMMA FeedIsFinite == TypeOK => Listed \in SUBSET Nat /\ IsFiniteSet(Listed)
  BY ListsAreFinite DEF TypeOK, Listed

\* How far the reader is.
LEMMA PassedRows ==
  ASSUME FeedInv, page # 0
  PROVE  /\ page * PageSize \in Nat
         /\ PaginationSkip(page, PageSize) \in Nat
         /\ PaginationSkip(page, PageSize) + PageSize = page * PageSize
         /\ Passed \in Nat
<1>1. page - 1 \in Nat /\ page \in Nat /\ PageSize \in Nat
  BY PageSizeAssumption DEF FeedInv
<1>2. (page - 1) * PageSize \in Nat /\ page * PageSize \in Nat
  BY <1>1
<1>3. (page - 1) * PageSize + PageSize = page * PageSize
  BY <1>1
<1>4. QED
  BY <1>2, <1>3 DEF PaginationSkip, Passed

\* A row that is owed and not on the page that is read is behind that page.
LEMMA BehindThePage ==
  ASSUME FeedInv, TypeOK, page # 0, "findMany" \notin answered,
         NEW i \in owed \ Page(Listed, page, PageSize)
  PROVE  page * PageSize < Rank(i, Listed)
<1>1. i \in Listed /\ PaginationSkip(page, PageSize) < Rank(i, Listed)
  BY DEF FeedInv, Passed
<1>2. ~(Rank(i, Listed) <= PaginationSkip(page, PageSize) + PageSize)
  BY <1>1 DEF Page
<1>3. Rank(i, Listed) \in Nat
  BY <1>1, FeedIsFinite, Ranks
<1>4. QED
  BY <1>2, <1>3, PassedRows

\* Everybody else, and the reader's own follows, leave the reader as far as it was.
LEMMA StepShifted ==
  ASSUME FeedInv, TypeOK, TypeOK', UNCHANGED request, Shifted, following' \subseteq Users
  PROVE  FeedInv'
<1>1. /\ page \in Nat /\ answered \in {{}, {"count"}, {"findMany"}} /\ counted \in Nat
      /\ page' = page /\ answered' = answered /\ counted' = counted
      /\ page = 0 => owed = {} /\ answered = {}
  BY DEF FeedInv, request
<1>2. /\ Listed \in SUBSET Nat /\ IsFiniteSet(Listed)
      /\ Listed' \in SUBSET Nat /\ IsFiniteSet(Listed')
  <2>1. Listed \in SUBSET ArticleIds /\ Listed' \in SUBSET ArticleIds
    BY DEF TypeOK, Listed
  <2>2. QED
    BY <2>1, ListsAreFinite
<1>3. page = 0 => owed' = {}
  BY <1>1 DEF Shifted
<1>4. ASSUME NEW i \in owed' PROVE i \in Listed' /\ Passed' < Rank(i, Listed')
  <2>1. page # 0 /\ owed' # {}
    BY <1>3, <1>4
  <2>2. /\ owed' = owed \ (Listed \ Listed')
        /\ \A g \in Listed \ Listed' : ~(Rank(g, Listed) <= Passed)
    BY <2>1 DEF Shifted
  <2>3. i \in owed /\ i \in Listed /\ i \in Listed' /\ Passed < Rank(i, Listed)
    BY <2>2 DEF FeedInv
  <2>4. Passed \in Nat
    BY <2>1, PassedRows
  <2>5. \A g \in Listed \ Listed' : Passed < Rank(g, Listed)
    <3>1. \A g \in Listed : Rank(g, Listed) \in Nat
      BY <1>2, Ranks
    <3>2. QED
      BY <2>2, <2>4, <3>1
  <2>6. Passed < Rank(i, Listed')
    BY <1>2, <2>3, <2>4, <2>5, StaysBehind
  <2>7. Passed' = Passed
    BY <1>1 DEF Passed
  <2>8. QED
    BY <2>3, <2>6, <2>7
<1>5. QED
  BY <1>1, <1>3, <1>4 DEF FeedInv

\* A page that is complete leaves the reader behind it.
LEMMA StepTurn ==
  ASSUME FeedInv, TypeOK, page # 0, NEW n, Turn(n), UNCHANGED vars,
         owed' = IF page' = 0 THEN {} ELSE
                   IF "findMany" \in answered THEN owed ELSE owed \ Page(Listed, page, PageSize)
  PROVE  FeedInv'
<1>1. page \in Nat /\ following \subseteq Users
  BY DEF FeedInv
<1>2. CASE page' = 0
  <2>1. following' \subseteq Users /\ answered' = {} /\ counted' = 0 /\ owed' = {}
    BY <1>1, <1>2 DEF Turn
  <2>2. QED
    BY <1>2, <2>1 DEF FeedInv
<1>3. CASE page' # 0
  <2>1. page' = page + 1 /\ following' = following /\ answered' = {} /\ counted' = 0
    BY <1>3 DEF Turn
  <2>2. Listed' = Listed
    BY <2>1 DEF Listed, vars, rows
  <2>3. Passed' = page * PageSize
    <3>1. page' - 1 = page
      BY <1>1, <2>1
    <3>2. Passed' = (page' - 1) * PageSize
      BY <2>1 DEF Passed, PaginationSkip
    <3>3. QED
      BY <3>1, <3>2
  <2>4. ASSUME NEW i \in owed' PROVE i \in Listed /\ page * PageSize < Rank(i, Listed)
    <3>1. CASE "findMany" \in answered
      <4>1. i \in owed
        BY <1>3, <2>4, <3>1
      <4>2. i \in Listed /\ Passed < Rank(i, Listed)
        BY <4>1 DEF FeedInv
      <4>3. QED
        BY <3>1, <4>2 DEF Passed
    <3>2. CASE "findMany" \notin answered
      <4>1. i \in owed \ Page(Listed, page, PageSize)
        BY <1>3, <2>4, <3>2
      <4>2. QED
        BY <3>2, <4>1, BehindThePage DEF FeedInv
    <3>3. QED
      BY <3>1, <3>2
  <2>5. QED
    BY <1>1, <1>3, <2>1, <2>2, <2>3, <2>4 DEF FeedInv
<1>4. QED
  BY <1>2, <1>3

\* The invariant of the reader.
LEMMA StepFeedInv ==
  ASSUME FeedInv, TypeOK, TypeOK', [FeedNext]_feedVars
  PROVE  FeedInv'
<1>0. /\ following \subseteq Users /\ page \in Nat /\ counted \in Nat
      /\ answered \in {{}, {"count"}, {"findMany"}}
      /\ page = 0 => owed = {} /\ answered = {}
  BY DEF FeedInv
<1>1. ASSUME NEW authors \in SUBSET Users, Open(authors) PROVE FeedInv'
  <2>1. /\ page' = 1 /\ answered' = {} /\ counted' = counted /\ following' = authors
        /\ owed' = {i \in articles : article[i].author \in authors} /\ UNCHANGED rows
    BY <1>0, <1>1 DEF Open, vars
  <2>2. owed' = Listed'
    BY <2>1 DEF Listed, rows
  <2>3. Passed' = 0
    <3>1. PageSize \in Nat /\ (1 - 1) * PageSize = 0
      BY PageSizeAssumption
    <3>2. QED
      BY <2>1, <3>1 DEF Passed, PaginationSkip
  <2>4. Listed' \in SUBSET Nat /\ IsFiniteSet(Listed')
    <3>1. Listed' \in SUBSET ArticleIds
      BY DEF TypeOK, Listed
    <3>2. QED
      BY <3>1, ListsAreFinite
  <2>5. \A i \in owed' : i \in Listed' /\ 0 < Rank(i, Listed')
    BY <2>2, <2>4, Ranks
  <2>6. QED
    BY <1>0, <2>1, <2>3, <2>5 DEF FeedInv
<1>2. CASE CountRows
  <2>1. page # 0 /\ UNCHANGED vars /\ "count" \notin answered
        /\ owed' = IF page' = 0 THEN {} ELSE owed
    BY <1>2 DEF CountRows
  <2>2. CASE "findMany" \in answered
    BY <1>2, <2>1, <2>2, StepTurn DEF CountRows
  <2>3. CASE "findMany" \notin answered
    <3>1. /\ counted' = Cardinality(Listed) /\ answered' = {"count"} /\ page' = page
          /\ following' = following /\ owed' = owed
      BY <1>2, <2>1, <2>3 DEF CountRows
    <3>2. Listed' = Listed /\ Passed' = Passed
      BY <2>1, <2>3, <3>1 DEF Listed, Passed, vars, rows
    <3>3. counted' \in Nat
      BY <3>1, FeedIsFinite, FS_CardinalityType
    <3>4. QED
      BY <2>1, <3>1, <3>2, <3>3 DEF FeedInv
  <2>4. QED
    BY <2>2, <2>3
<1>3. CASE FindRows
  <2>1. /\ page # 0 /\ UNCHANGED vars /\ "findMany" \notin answered
        /\ owed' = IF page' = 0 THEN {} ELSE owed \ Page(Listed, page, PageSize)
    BY <1>3 DEF FindRows
  <2>2. CASE "count" \in answered
    BY <1>3, <2>1, <2>2, StepTurn DEF FindRows
  <2>3. CASE "count" \notin answered
    <3>1. /\ counted' = counted /\ answered' = {"findMany"} /\ page' = page
          /\ following' = following /\ owed' = owed \ Page(Listed, page, PageSize)
      BY <1>3, <2>1, <2>3 DEF FindRows
    <3>2. Listed' = Listed /\ Passed' = page * PageSize
      BY <2>1, <3>1 DEF Listed, Passed, vars, rows
    <3>3. \A i \in owed' : i \in Listed /\ page * PageSize < Rank(i, Listed)
      BY <2>1, <3>1, BehindThePage DEF FeedInv
    <3>4. QED
      BY <1>0, <2>1, <3>1, <3>2, <3>3 DEF FeedInv
  <2>4. QED
    BY <2>2, <2>3
<1>4. ASSUME NEW u \in Users, Follow(u) \/ Unfollow(u) PROVE FeedInv'
  <2>1. /\ page # 0 /\ Shifted /\ UNCHANGED request /\ following' \subseteq Users
    BY <1>0, <1>4 DEF Follow, Unfollow
  <2>2. QED
    BY <2>1, StepShifted
<1>5. CASE Elsewhere
  <2>1. Shifted /\ UNCHANGED request /\ following' = following
    BY <1>5 DEF Elsewhere
  <2>2. QED
    BY <1>0, <2>1, StepShifted
<1>6. CASE UNCHANGED feedVars
  <2>1. /\ UNCHANGED <<following, page, answered, counted, owed>> /\ UNCHANGED rows
    BY <1>6 DEF feedVars, request, vars
  <2>2. Listed' = Listed /\ Passed' = Passed
    BY <2>1 DEF Listed, Passed, rows
  <2>3. QED
    BY <2>1, <2>2 DEF FeedInv
<1>7. QED
  BY <1>1, <1>2, <1>3, <1>4, <1>5, <1>6 DEF FeedNext

\* The last page: whoever is owed a row is behind the page, but the count was not.
LEMMA StepSkipsNothing ==
  ASSUME FeedInv, TypeOK, FeedNext, page # 0, page' = 0
  PROVE  \/ owed \ (IF "findMany" \in answered THEN {} ELSE Page(Listed, page, PageSize)) = {}
         \/ "count" \in answered /\ counted < Cardinality(Listed)
<1>0. /\ page \in Nat /\ counted \in Nat /\ page * PageSize \in Nat
      /\ PageSize \in Nat \ {0} /\ Cardinality(Listed) \in Nat
      /\ \A i \in Listed : Rank(i, Listed) \in 1 .. Cardinality(Listed)
  BY FeedIsFinite, Ranks, PassedRows, PageSizeAssumption DEF FeedInv
<1>1. CountRows \/ FindRows
  BY DEF FeedNext, Open, Follow, Unfollow, Elsewhere, request
<1>2. ASSUME NEW n \in Nat, Turn(n) PROVE ~(page * PageSize < n)
  <2>1. ~HasNextPage(n, page, PageSize)
    BY <1>0, <1>2 DEF Turn
  <2>2. QED
    BY <1>0, <2>1, LastPageRoundsUp DEF HasNextPage
<1>3. CASE CountRows
  <2>1. "findMany" \in answered /\ Turn(Cardinality(Listed))
    BY <1>3 DEF CountRows
  <2>2. \A i \in owed : i \in Listed /\ page * PageSize < Rank(i, Listed)
    BY <2>1 DEF FeedInv, Passed
  <2>3. ~(page * PageSize < Cardinality(Listed))
    BY <1>0, <1>2, <2>1
  <2>4. owed = {}
    BY <1>0, <2>2, <2>3
  <2>5. QED
    BY <2>4
<1>4. CASE FindRows
  <2>1. "findMany" \notin answered /\ "count" \in answered /\ Turn(counted)
    BY <1>4 DEF FindRows
  <2>2. ~(page * PageSize < counted)
    BY <1>0, <1>2, <2>1
  <2>3. ASSUME NEW i \in owed \ Page(Listed, page, PageSize) PROVE counted < Cardinality(Listed)
    <3>1. i \in Listed /\ page * PageSize < Rank(i, Listed)
      BY <2>1, BehindThePage DEF FeedInv
    <3>2. QED
      BY <1>0, <2>2, <3>1
  <2>4. QED
    BY <2>1, <2>3
<1>5. QED
  BY <1>1, <1>3, <1>4

\* What Articles guarantees it guarantees while somebody reads.
LEMMA FeedIsArticles == FeedSpec => Spec
<1>1. FeedInit => Init
  BY DEF FeedInit
<1>2. [FeedNext]_feedVars => [Next]_vars
  BY DEF FeedNext, feedVars, Open, CountRows, FindRows, Follow, Unfollow, Elsewhere
<1>3. QED
  BY <1>1, <1>2, PTL DEF FeedSpec, Spec

\* The reader is ahead of what it is owed (feed, paginate), for any page size.
THEOREM ReaderInvariant == FeedSpec => []FeedInv
<1>1. FeedInit => FeedInv
  BY DEF FeedInit, FeedInv
<1>2. TypeOK /\ TypeOK' /\ FeedInv /\ [FeedNext]_feedVars => FeedInv'
  BY StepFeedInv
<1>3. FeedSpec => []TypeOK
  BY FeedIsArticles, TypeCorrect, PTL
<1>4. QED
  BY <1>1, <1>2, <1>3, PTL DEF FeedSpec

\* Pages by offset skip nothing that stays in the list, unless a row the reader has
\* been past goes, or the list grows between count and findMany of the last page.
THEOREM OffsetsSkipNothing == FeedSpec => NothingIsSkipped
<1>1. FeedInv /\ TypeOK /\ [FeedNext]_feedVars =>
        [page # 0 /\ page' = 0 =>
           \/ owed \ (IF "findMany" \in answered THEN {} ELSE Page(Listed, page, PageSize)) = {}
           \/ "count" \in answered /\ counted < Cardinality(Listed)]_feedVars
  BY StepSkipsNothing
<1>2. FeedSpec => []TypeOK
  BY FeedIsArticles, TypeCorrect, PTL
<1>3. QED
  BY <1>1, <1>2, ReaderInvariant, PTL DEF FeedSpec, NothingIsSkipped
=============================================================================
