------------------------------ MODULE SearchProofs ------------------------------
(***************************************************************************)
(* What holds of the study search, which pages through an index on          *)
(* OpenSearch, and of the chunk search, which pages through a collection of  *)
(* Qdrant, for any documents, queries, windows and page sizes.              *)
(*                                                                         *)
(* StudiesInv says of every page that it is a part of one list of studies,  *)
(* with that list's length and the counts of a set of which the list has    *)
(* those in the tab; and, while nothing changes, that the list is the whole *)
(* result, and that what a page has found out on its way to an answer is    *)
(* what the whole result is made of.                                       *)
(*                                                                         *)
(* ChunkInv says the same of the chunks: while nothing changes, what a page *)
(* has fetched so far is what the collection has from the first place on,   *)
(* and each answer is a part of one list, from where the request asked.     *)
(*                                                                         *)
(* With the types of these two those of all the parts are complete.        *)
(***************************************************************************)
EXTENDS ServicesProofs, ListsProofs

-----------------------------------------------------------------------------
(* The words of the study search are those of the lists. *)

LEMMA StudiesCardinality == ASSUME NEW U PROVE S!Cardinality(U) = Cardinality(U)
BY DEF S!Cardinality, Cardinality

LEMMA StudiesFinite == ASSUME NEW U PROVE S!IsFiniteSet(U) <=> IsFiniteSet(U)
BY DEF S!IsFiniteSet, IsFiniteSet

LEMMA StudiesRange == ASSUME NEW s PROVE S!Range(s) = ToSet(s)
BY DEF S!Range, ToSet

LEMMA StudiesOnceEach == ASSUME NEW s PROVE S!IsInjective(s) <=> IsInjective(s)
BY DEF S!IsInjective, IsInjective

LEMMA StudiesReverse == ASSUME NEW s PROVE S!Reverse(s) = Reverse(s)
BY DEF S!Reverse, Reverse

LEMMA StudiesLast == ASSUME NEW s PROVE S!Last(s) = s[Len(s)]
BY DEF S!Last

LEMMA StudiesAtPlaces == ASSUME NEW s, NEW U PROVE S!AtPlaces(s, U) = AtPlaces(s, U)
BY DEF S!AtPlaces, AtPlaces, S!Cardinality, Cardinality

LEMMA StudiesInOrder == ASSUME NEW U, NEW R PROVE S!InOrder(U, R) = InOrder(U, R)
BY DEF S!InOrder, InOrder, S!Cardinality, Cardinality

LEMMA StudiesCut ==
  ASSUME NEW s, NEW from, NEW size
  PROVE  S!Cut(s, from, size) = Part(s, from, size)
BY DEF S!Cut, Part

LEMMA StudiesSum == ASSUME NEW f, NEW X PROVE S!SumFunctionOnSet(f, X) = SumFunctionOnSet(f, X)
BY DEF S!SumFunctionOnSet, SumFunctionOnSet, S!FoldFunctionOnSet, FoldFunctionOnSet,
       S!MapThenFoldSet, MapThenFoldSet

LEMMA StudiesFlat == ASSUME NEW s PROVE S!FlattenSeq(s) = FlattenSeq(s)
BY DEF S!FlattenSeq, FlattenSeq

LEMMA StudiesMin ==
  ASSUME NEW a \in Int, NEW b \in Int
  PROVE  S!Min({a, b}) = IF a <= b THEN a ELSE b
BY DEF S!Min

-----------------------------------------------------------------------------
(* Lists of studies. *)

\* s lists the studies of U, each once.
StudiesLists(s, U) == s \in Seq(Titled) /\ IsInjective(s) /\ ToSet(s) = U
StudiesInTab(U) == {x \in U : S!InTab(x)}
StudiesScored == score \in [Titled -> Int]
StudiesSorts == {"title", "desc", "asc"}
StudiesOrder(U, sort) == {p \in U \X U : S!By(sort, p[1], p[2])}

LEMMA StudiesGiven ==
  ASSUME S!StudiesAssumption
  PROVE  /\ Titled \subseteq Int /\ IsFiniteSet(Titled) /\ DOMAIN Type = Titled
         /\ None \notin Titled
         /\ \A U \in SUBSET Titled : IsFiniteSet(U)
         /\ FusionWindow \in Nat /\ SemanticWindow \in Nat /\ Limits \subseteq Nat \ {0}
         /\ Scorings \subseteq [Titled -> Int]
         /\ \A r \in Rankings : r \in Seq(Titled) /\ IsInjective(r)
<1>1. IsFiniteSet(Titled)  BY StudiesFinite DEF S!StudiesAssumption
<1>2. \A U \in SUBSET Titled : IsFiniteSet(U)  BY <1>1, FS_Subset
<1>3. \A r \in Rankings : r \in Seq(Titled) /\ IsInjective(r)
  BY StudiesOnceEach DEF S!StudiesAssumption
<1> QED  BY <1>1, <1>2, <1>3 DEF S!StudiesAssumption

LEMMA StudiesOrdered ==
  ASSUME S!StudiesAssumption, StudiesScored, NEW U \in SUBSET Titled, NEW sort \in StudiesSorts
  PROVE  Orders(StudiesOrder(U, sort), U)
<1>1. \A x \in U : x \in Int /\ score[x] \in Int  BY StudiesGiven DEF StudiesScored
<1>2. \A x, y \in U : <<x, y>> \in StudiesOrder(U, sort) <=> S!By(sort, x, y)
  BY DEF StudiesOrder
<1>3. CASE sort = "title"
  <2>1. \A x, y \in U : S!By(sort, x, y) <=> x > y  BY <1>3 DEF S!By
  <2> QED  BY <1>1, <1>2, <2>1 DEF Orders
<1>4. CASE sort = "desc"
  <2>1. \A x, y \in U :
          S!By(sort, x, y) <=> score[x] > score[y] \/ (score[x] = score[y] /\ x < y)
    BY <1>4 DEF S!By
  <2> QED  BY <1>1, <1>2, <2>1 DEF Orders
<1>5. CASE sort = "asc"
  <2>1. \A x, y \in U :
          S!By(sort, x, y) <=> score[x] < score[y] \/ (score[x] = score[y] /\ x < y)
    BY <1>5 DEF S!By
  <2> QED  BY <1>1, <1>2, <2>1 DEF Orders
<1> QED  BY <1>3, <1>4, <1>5 DEF StudiesSorts

LEMMA StudiesListed ==
  ASSUME S!StudiesAssumption, StudiesScored, NEW U \in SUBSET Titled, NEW sort \in StudiesSorts
  PROVE  StudiesLists(S!Listed(U, sort), U)
<1> DEFINE R == StudiesOrder(U, sort)
<1>1. Orders(R, U) /\ IsFiniteSet(U)  BY StudiesOrdered, StudiesGiven
<1>2. S!Listed(U, sort) = InOrder(U, R)  BY StudiesInOrder DEF S!Listed, StudiesOrder
<1> HIDE DEF R
<1>3. InOrder(U, R) \in Seq(U) /\ IsInjective(InOrder(U, R)) /\ ToSet(InOrder(U, R)) = U
  BY <1>1, InOrderIs
<1>4. InOrder(U, R) \in Seq(Titled)  BY <1>3, SeqMonotonic
<1> QED  BY <1>2, <1>3, <1>4 DEF StudiesLists

LEMMA StudiesAmong ==
  ASSUME NEW s, NEW U, StudiesLists(s, U), NEW A
  PROVE  StudiesLists(Among(s, A), U \cap A)
<1>1. Among(s, A) \in Seq(Titled) /\ ToSet(Among(s, A)) = ToSet(s) \cap A
  BY AmongTyped DEF StudiesLists
<1>2. IsInjective(Among(s, A))  BY AmongOnce DEF StudiesLists
<1> QED  BY <1>1, <1>2 DEF StudiesLists

LEMMA StudiesShown ==
  ASSUME NEW U, NEW s, StudiesLists(s, U)
  PROVE  /\ S!Shown(s) = Among(s, StudiesInTab(U))
         /\ StudiesLists(S!Shown(s), StudiesInTab(U))
<1> DEFINE A == StudiesInTab(U)
<1>1. S!Shown(s) = AtPlaces(s, {i \in DOMAIN s : S!InTab(s[i])})
  BY StudiesAtPlaces DEF S!Shown, S!Where
<1>2. {i \in DOMAIN s : S!InTab(s[i])} = {i \in DOMAIN s : s[i] \in A}
  BY DEF StudiesInTab, StudiesLists, ToSet
<1>3. S!Shown(s) = Among(s, A)  BY <1>1, <1>2 DEF Among
<1>4. StudiesLists(Among(s, A), U \cap A)  BY StudiesAmong
<1>5. U \cap A = A  BY DEF StudiesInTab
<1> QED  BY <1>3, <1>4, <1>5

LEMMA StudiesEnriched ==
  ASSUME NEW s, NEW U, StudiesLists(s, U)
  PROVE  StudiesLists(S!Enriched(s), U \cap docs)
<1>1. S!Enriched(s) = Among(s, docs)  BY StudiesAtPlaces DEF S!Enriched, S!Where, Among
<1> QED  BY <1>1, StudiesAmong

LEMMA StudiesPart ==
  ASSUME NEW s, NEW U, StudiesLists(s, U), NEW from \in Nat, NEW size \in Nat
  PROVE  /\ S!Cut(s, from, size) = Part(s, from, size)
         /\ PartOf(Part(s, from, size), Titled, s, from, size)
         /\ StudiesLists(S!Cut(s, from, size), ToSet(S!Cut(s, from, size)))
         /\ ToSet(S!Cut(s, from, size)) \subseteq U
<1>1. S!Cut(s, from, size) = Part(s, from, size)  BY StudiesCut
<1>2. PartOf(Part(s, from, size), Titled, s, from, size)  BY PartIs DEF StudiesLists
<1> QED  BY <1>1, <1>2 DEF PartOf, StudiesLists

LEMMA StudiesConcat ==
  ASSUME NEW s, NEW t, NEW U, NEW V, StudiesLists(s, U), StudiesLists(t, V), U \cap V = {}
  PROVE  StudiesLists(s \o t, U \cup V)
<1>1. s \in Seq(Titled) /\ t \in Seq(Titled)  BY DEF StudiesLists
<1>2. /\ s \o t \in Seq(Titled) /\ ToSet(s \o t) = ToSet(s) \cup ToSet(t)
      /\ IsInjective(s) /\ IsInjective(t) /\ ToSet(s) \cap ToSet(t) = {} => IsInjective(s \o t)
  BY ONLY <1>1, ConcatIs
<1> QED  BY <1>2 DEF StudiesLists

LEMMA StudiesTurned ==
  ASSUME NEW s, NEW U, StudiesLists(s, U)
  PROVE  StudiesLists(S!Reverse(s), U) /\ S!Shown(S!Reverse(s)) = S!Reverse(S!Shown(s))
<1>1. S!Reverse(s) = Reverse(s) /\ s \in Seq(Titled)  BY StudiesReverse DEF StudiesLists
<1>2. Reverse(s) \in Seq(Titled) /\ ToSet(Reverse(s)) = ToSet(s)
      /\ (IsInjective(s) => IsInjective(Reverse(s)))
  BY ONLY <1>1, ReverseIs
<1>3. StudiesLists(S!Reverse(s), U)  BY <1>1, <1>2 DEF StudiesLists
<1>4. S!Shown(S!Reverse(s)) = Among(Reverse(s), StudiesInTab(U))
  BY <1>1, <1>3, StudiesShown
<1>5. S!Shown(s) = Among(s, StudiesInTab(U))  BY StudiesShown
<1>6. Among(Reverse(s), StudiesInTab(U)) = Reverse(Among(s, StudiesInTab(U)))
  BY <1>1, AmongReverse
<1> QED  BY <1>3, <1>4, <1>5, <1>6, StudiesReverse

LEMMA StudiesShownConcat ==
  ASSUME NEW s, NEW t, NEW U, NEW V, StudiesLists(s, U), StudiesLists(t, V), U \cap V = {}
  PROVE  S!Shown(s \o t) = S!Shown(s) \o S!Shown(t)
<1> DEFINE A == StudiesInTab(U \cup V)
<1>1. StudiesLists(s \o t, U \cup V)  BY StudiesConcat
<1>2. S!Shown(s \o t) = Among(s \o t, A)  BY <1>1, StudiesShown
<1>3. s \in Seq(Titled) /\ t \in Seq(Titled)  BY DEF StudiesLists
<1>4. Among(s \o t, A) = Among(s, A) \o Among(t, A)  BY <1>3, AmongConcat
<1>5. S!Shown(s) = Among(s, A)
  <2>1. S!Shown(s) = Among(s, StudiesInTab(U))  BY StudiesShown
  <2>2. s \in Seq(U)
    <3>1. \A i \in 1..Len(s) : s[i] \in U  BY <1>3 DEF StudiesLists, ToSet
    <3> QED  BY <1>3, <3>1
  <2> DEFINE B == StudiesInTab(U)
  <2>3. U \cap B = U \cap A  BY DEF StudiesInTab
  <2> HIDE DEF A, B
  <2>4. Among(s, B) = Among(s, A)  BY <2>2, <2>3, AmongSame
  <2> QED  BY <2>1, <2>4 DEF B
<1>6. S!Shown(t) = Among(t, A)
  <2>1. S!Shown(t) = Among(t, StudiesInTab(V))  BY StudiesShown
  <2>2. t \in Seq(V)
    <3>1. \A i \in 1..Len(t) : t[i] \in V  BY <1>3 DEF StudiesLists, ToSet
    <3> QED  BY <1>3, <3>1
  <2> DEFINE B == StudiesInTab(V)
  <2>3. V \cap B = V \cap A  BY DEF StudiesInTab
  <2> HIDE DEF A, B
  <2>4. Among(t, B) = Among(t, A)  BY <2>2, <2>3, AmongSame
  <2> QED  BY <2>1, <2>4 DEF B
<1> QED  BY <1>2, <1>4, <1>5, <1>6

LEMMA StudiesWeight ==
  ASSUME NEW s, NEW U, StudiesLists(s, U), NEW x
  PROVE  S!Weight(s, x) \in Int
<1>1. CASE x \in ToSet(s)
  <2> DEFINE i == CHOOSE j \in DOMAIN s : s[j] = x
  <2>1. \E j \in DOMAIN s : s[j] = x  BY <1>1 DEF ToSet
  <2>2. i \in DOMAIN s  BY <2>1
  <2>3. DOMAIN s = 1..Len(s) /\ Len(s) \in Nat  BY DEF StudiesLists
  <2> HIDE DEF i
  <2>4. 60 + i \in Nat \ {0}  BY <2>2, <2>3
  <2>5. S!Weight(s, x) = 1000000 \div (60 + i)
    BY <1>1, StudiesRange DEF S!Weight, S!RRF_K, i
  <2> DEFINE d == 60 + i
  <2>6. d \in Nat \ {0}  BY <2>4
  <2> HIDE DEF d
  <2>7. 1000000 \div d \in Int  BY <2>6
  <2> QED  BY <2>5, <2>7 DEF d
<1>2. CASE x \notin ToSet(s)
  <2>1. S!Weight(s, x) = 0  BY <1>2, StudiesRange DEF S!Weight
  <2> QED  BY <2>1
<1> QED  BY <1>1, <1>2

\* rrf_fuse gives each study of the head and of the block once.
LEMMA StudiesFused ==
  ASSUME S!StudiesAssumption, NEW head, NEW H \in SUBSET Titled, StudiesLists(head, H),
         NEW block, NEW B \in SUBSET Titled, StudiesLists(block, B)
  PROVE  StudiesLists(S!Fuse(head, block), H \cup B)
<1> DEFINE U == H \cup B
           w == [x \in U |-> S!Weight(head, x) + S!Weight(block, x)]
           R == {p \in U \X U : w[p[1]] > w[p[2]] \/ (w[p[1]] = w[p[2]] /\ p[1] < p[2])}
           R2 == {p \in U \X U :
                    \/ S!Weight(head, p[1]) + S!Weight(block, p[1]) >
                         S!Weight(head, p[2]) + S!Weight(block, p[2])
                    \/ /\ S!Weight(head, p[1]) + S!Weight(block, p[1]) =
                            S!Weight(head, p[2]) + S!Weight(block, p[2])
                       /\ p[1] < p[2]}
<1>1. U \subseteq Int /\ IsFiniteSet(U) /\ U \subseteq Titled  BY StudiesGiven
<1>2. \A x \in U : w[x] \in Int
  <2>1. \A x \in U : S!Weight(head, x) \in Int /\ S!Weight(block, x) \in Int  BY StudiesWeight
  <2> QED  BY <2>1
<1>3. S!Fuse(head, block) = InOrder(U, R2)
  <2>1. S!Range(head) \cup S!Range(block) = U  BY StudiesRange DEF StudiesLists
  <2> HIDE DEF U
  <2> QED  BY <2>1, StudiesInOrder DEF S!Fuse
<1>4. R2 = R  OBVIOUS
<1> HIDE DEF w, U, R2
<1>5. \A x, y \in U : <<x, y>> \in R <=> w[x] > w[y] \/ (w[x] = w[y] /\ x < y)  OBVIOUS
<1> HIDE DEF R
<1>6. Orders(R, U)  BY <1>1, <1>2, <1>5 DEF Orders
<1>7. /\ InOrder(U, R) \in Seq(U) /\ IsInjective(InOrder(U, R)) /\ ToSet(InOrder(U, R)) = U
  BY <1>1, <1>6, InOrderIs
<1>8. InOrder(U, R) \in Seq(Titled)  BY <1>1, <1>7, SeqMonotonic
<1>9. StudiesLists(InOrder(U, R), U)  BY <1>7, <1>8 DEF StudiesLists
<1> QED  BY <1>3, <1>4, <1>9 DEF U

LEMMA StudiesPromoted ==
  ASSUME NEW fused, NEW U, StudiesLists(fused, U), NEW head
  PROVE  StudiesLists(S!Promoted(fused, head), U)
<1> DEFINE A == {x \in U : x \in Complete /\ x \in S!Range(head)}  B == U \ A
           D == {i \in DOMAIN fused : fused[i] \in Complete /\ fused[i] \in S!Range(head)}
           L == {i \in DOMAIN fused : ~(fused[i] \in Complete /\ fused[i] \in S!Range(head))}
<1>1. S!Promoted(fused, head) = AtPlaces(fused, D) \o AtPlaces(fused, L)
  BY StudiesAtPlaces DEF S!Promoted, S!Where
<1>2. D = {i \in DOMAIN fused : fused[i] \in A} /\ L = {i \in DOMAIN fused : fused[i] \in B}
  BY DEF StudiesLists, ToSet
<1>3. S!Promoted(fused, head) = Among(fused, A) \o Among(fused, B)
  <2> HIDE DEF D, L, A, B
  <2> QED  BY <1>1, <1>2 DEF Among
<1>4. A \cup B = U /\ A \cap B = {} /\ U \cap A = A /\ U \cap B = B  OBVIOUS
<1> HIDE DEF A, B
<1>5. StudiesLists(Among(fused, A), A)  BY <1>4, StudiesAmong
<1>6. StudiesLists(Among(fused, B), B)  BY <1>4, StudiesAmong
<1> QED  BY <1>3, <1>4, <1>5, <1>6, StudiesConcat

-----------------------------------------------------------------------------
(* Answers: a part of a list of studies, with the list's length and the counts of a set  *)
(* of which the list has those in the tab.                                               *)

StudiesAnswers(a, R, U, from) ==
  /\ U \in SUBSET Titled /\ StudiesLists(R, StudiesInTab(U))
  /\ a.hits = Part(R, from, req.limit) /\ a.found = Len(R) /\ a.counts = S!CountBy(U)

LEMMA StudiesCounted ==
  ASSUME S!StudiesAssumption, NEW U \in SUBSET Titled, req \in S!Requests
  PROVE  /\ S!SumFunctionOnSet(S!CountBy(U), IF req.types = {} THEN S!Tabs ELSE req.types) =
              Cardinality(StudiesInTab(U))
         /\ S!CountBy(U) \in [S!Tabs -> Nat]
<1> DEFINE X == IF req.types = {} THEN S!Tabs ELSE req.types  f == S!CountBy(U)
<1>1. IsFiniteSet(Titled) /\ IsFiniteSet(U) /\ DOMAIN Type = Titled  BY StudiesGiven
<1>2. f = [t \in S!Tabs |-> Cardinality({x \in U : Type[x] = t})]
  BY StudiesCardinality DEF S!CountBy
<1> HIDE DEF f
<1>3. X \subseteq S!Tabs
  BY DEF S!Requests
<1>4. IsFiniteSet(S!Tabs)
  <2> DEFINE g == [d \in Titled |-> Type[d]]
  <2>1. S!Tabs = {g[d] : d \in Titled}  BY DEF S!Tabs
  <2>2. g \in Surjection(Titled, S!Tabs)
    BY <2>1 DEF Surjection
  <2> HIDE DEF g
  <2> QED  BY <1>1, <2>2, FS_Surjection
<1>5. IsFiniteSet(X)  BY <1>3, <1>4, FS_Subset
<1>6. \A t \in X : f[t] = Cardinality({x \in U : Type[x] = t})  BY <1>2, <1>3
<1>7. OfKind(U, Type, X) = StudiesInTab(U)
  <2>1. \A x \in U : Type[x] \in S!Tabs  BY DEF S!Tabs
  <2>2. \A x \in U : S!InTab(x) <=> Type[x] \in X  BY <2>1 DEF S!InTab
  <2> QED  BY <2>2 DEF OfKind, StudiesInTab
<1> HIDE DEF X
<1>8. SumFunctionOnSet(f, X) = Cardinality(OfKind(U, Type, X))
  BY <1>1, <1>5, <1>6, SumOfCounts
<1>9. f \in [S!Tabs -> Nat]
  <2>1. \A t \in S!Tabs : IsFiniteSet({x \in U : Type[x] = t})
    <3>1. \A t : {x \in U : Type[x] = t} \in SUBSET U  OBVIOUS
    <3> QED  BY <1>1, <3>1, FS_Subset
  <2>2. \A t \in S!Tabs : Cardinality({x \in U : Type[x] = t}) \in Nat
    BY <2>1, FS_CardinalityType
  <2> QED  BY <1>2, <2>2
<1> QED  BY <1>7, <1>8, <1>9, StudiesSum DEF X, f

\* The hits, counts and total of such an answer agree.
LEMMA StudiesAnswerKeeps ==
  ASSUME S!StudiesAssumption, req \in S!Requests, NEW r, NEW R, NEW U, NEW from \in Nat,
         r.offset = from, StudiesAnswers(r, R, U, from)
  PROVE  /\ S!AddsUp(r) /\ r.found \in 0..S!Cardinality(Titled) /\ r.hits \in Seq(Titled)
         /\ r.counts \in [S!Tabs -> Nat]
<1>1. req.limit \in Nat \ {0}  BY StudiesGiven DEF S!Requests
<1>2. /\ R \in Seq(Titled) /\ IsInjective(R) /\ ToSet(R) = StudiesInTab(U) /\ U \in SUBSET Titled
      /\ r.hits = Part(R, from, req.limit) /\ r.found = Len(R) /\ r.counts = S!CountBy(U)
  BY DEF StudiesAnswers, StudiesLists
<1>3. PartOf(r.hits, Titled, R, from, req.limit)
  <2> DEFINE k == req.limit
  <2>1. k \in Nat  BY <1>1
  <2> HIDE DEF k
  <2>2. PartOf(Part(R, from, k), Titled, R, from, k)  BY <1>2, <2>1, PartIs
  <2> QED  BY <1>2, <2>2 DEF k
<1>4. Len(R) \in Nat  BY <1>2
<1> DEFINE l == PartLen(Len(R), from, req.limit)
<1>5. /\ Len(r.hits) = l /\ l \in 0..req.limit /\ r.hits \in Seq(Titled)
      /\ ToSet(r.hits) \subseteq ToSet(R) /\ IsInjective(r.hits)
  BY <1>2, <1>3 DEF PartOf
<1>6. Len(r.hits) <= req.limit  BY <1>1, <1>5
<1>7. r.hits # <<>> => r.offset + Len(r.hits) <= r.found
  <2> SUFFICES ASSUME r.hits # <<>>  PROVE from + Len(r.hits) <= Len(R)  BY <1>2
  <2>1. Len(r.hits) # 0  BY <1>5
  <2> QED  BY <1>1, <1>4, <1>5, <2>1 DEF PartLen
<1>8. S!IsInjective(r.hits)  BY <1>5, StudiesOnceEach
<1>9. \A x \in S!Range(r.hits) : S!InTab(x)  BY <1>2, <1>5, StudiesRange DEF StudiesInTab
<1>10. Cardinality(ToSet(R)) = Len(R) /\ IsFiniteSet(ToSet(R))  BY <1>2, OnceIs
<1>11. /\ r.found = S!SumFunctionOnSet(r.counts, IF req.types = {} THEN S!Tabs ELSE req.types)
       /\ r.counts \in [S!Tabs -> Nat]
  BY <1>2, <1>10, StudiesCounted
<1>12. r.found \in 0..S!Cardinality(Titled)
  <2>1. ToSet(R) \in SUBSET Titled /\ IsFiniteSet(Titled)  BY <1>2, StudiesGiven DEF StudiesInTab
  <2>2. Cardinality(ToSet(R)) <= Cardinality(Titled) /\ Cardinality(Titled) \in Nat
    BY <2>1, FS_Subset, FS_CardinalityType
  <2> QED  BY <1>2, <1>4, <1>10, <2>2, StudiesCardinality
<1> QED  BY <1>5, <1>6, <1>7, <1>8, <1>9, <1>11, <1>12 DEF S!AddsUp

LEMMA StudiesListing ==
  ASSUME S!StudiesAssumption, StudiesScored, req \in S!Requests,
         NEW U \in SUBSET Titled, NEW sort \in StudiesSorts, NEW from \in Nat
  PROVE  StudiesAnswers(S!Listing(U, sort, from, req.limit), S!Shown(S!Listed(U, sort)), U, from)
<1> DEFINE R == S!Shown(S!Listed(U, sort))
<1>1. StudiesLists(R, StudiesInTab(U))  BY StudiesListed, StudiesShown
<1> HIDE DEF R
<1>2. S!Listing(U, sort, from, req.limit) =
        [found |-> Len(R), counts |-> S!CountBy(U), hits |-> S!Cut(R, from, req.limit)]
  BY DEF S!Listing, R
<1>3. S!Cut(R, from, req.limit) = Part(R, from, req.limit)  BY StudiesCut
<1>4. StudiesAnswers(S!Listing(U, sort, from, req.limit), R, U, from)
  BY <1>1, <1>2, <1>3 DEF StudiesAnswers
<1> QED  BY <1>4 DEF R

LEMMA StudiesPartCapped ==
  ASSUME NEW s, s \in Seq(Titled), NEW from \in Nat, NEW size \in Nat
  PROVE  /\ Part(s, from, PartLen(Len(s), from, size)) = Part(s, from, size)
         /\ Part(s, from, 0) = <<>>
<1> DEFINE n == Len(s)  a == PartLen(n, from, size)
           end(k) == IF from + k < n THEN from + k ELSE n
<1>1. n \in Nat  OBVIOUS
<1>2. \A k : Part(s, from, k) = SubSeq(s, from + 1, end(k))  BY DEF Part
<1> HIDE DEF n
<1>3. end(a) = end(size)  BY <1>1 DEF PartLen
<1>4. end(0) < from + 1 /\ end(0) \in Int  BY <1>1
<1> HIDE DEF a, end
<1>5. SubSeq(s, from + 1, end(0)) = <<>>
  <2> DEFINE m == from + 1  e == end(0)
  <2>1. m \in Int /\ e \in Int /\ e < m  BY <1>4
  <2> HIDE DEF m, e
  <2>2. SubSeq(s, m, e) = <<>>  BY <2>1, SubSeqEmpty
  <2> QED  BY <2>2 DEF m, e
<1> QED  BY <1>2, <1>3, <1>5 DEF a, n

\* What a page of a hybrid search is a part of: the head and the rest, in either order.
StudiesRest(G) == S!Matches(docs) \ G
StudiesHybrid(fused, G, sort) ==
  LET H == S!Shown(fused)
      L == S!Shown(S!Listed(StudiesRest(G), sort))
  IN IF sort = "desc" THEN H \o L ELSE L \o S!Reverse(H)

LEMMA StudiesHybridPage ==
  ASSUME S!StudiesAssumption, StudiesScored, req \in S!Requests, docs \subseteq Titled,
         page.offset \in Nat, NEW fused, NEW G \in SUBSET Titled, StudiesLists(fused, G),
         NEW sort \in {"desc", "asc"}
  PROVE  StudiesAnswers(S!HybridPage(fused, sort), StudiesHybrid(fused, G, sort),
                        G \cup StudiesRest(G), page.offset)
<1> DEFINE H == S!Shown(fused)  rest == StudiesRest(G)  L == S!Shown(S!Listed(rest, sort))
           o == page.offset  k == req.limit
           R == StudiesHybrid(fused, G, sort)  V == G \cup rest
           a == S!HybridPage(fused, sort)
           fromHead == IF Len(H) > o THEN S!Min({k, Len(H) - o}) ELSE 0
           left == IF sort = "desc" THEN k - fromHead ELSE k
           from == IF sort = "asc" THEN o ELSE IF o > Len(H) THEN o - Len(H) ELSE 0
           size == IF left > 0 THEN left ELSE 1
           tail == S!Listing(rest, sort, from, size)
           tailHits == IF left > 0 THEN S!Cut(L, from, size) ELSE <<>>
           after == IF o > Len(L) THEN o - Len(L) ELSE 0
           counts == [t \in S!Tabs |-> S!CountBy(rest)[t] + S!CountBy(G)[t]]
<1>1. k \in Nat \ {0} /\ o \in Nat  BY StudiesGiven DEF S!Requests
<1>2. rest \in SUBSET Titled /\ G \cap rest = {} /\ sort \in StudiesSorts
  BY DEF StudiesRest, S!Matches, StudiesSorts
<1>3. S!Range(fused) = G  BY StudiesRange DEF StudiesLists
<1> HIDE DEF rest
<1>4. StudiesLists(H, StudiesInTab(G)) /\ StudiesLists(L, StudiesInTab(rest))
  BY <1>2, StudiesListed, StudiesShown
<1>5. tail.found = Len(L) /\ tail.counts = S!CountBy(rest) /\ tail.hits = S!Cut(L, from, size)
  <2> HIDE DEF from, size
  <2> QED  BY DEF S!Listing
<1>6. /\ a.found = Len(H) + Len(L) /\ a.counts = counts
      /\ a.hits = IF sort = "desc" THEN S!Cut(H, o, fromHead) \o tailHits
                  ELSE tailHits \o S!Cut(S!Reverse(H), after, k - Len(tailHits))
  <2>1. rest = S!Matches(docs) \ S!Range(fused)  BY <1>3 DEF rest, StudiesRest
  <2>2. a = [found |-> Len(H) + tail.found,
             counts |-> [t \in S!Tabs |-> tail.counts[t] + S!CountBy(G)[t]],
             hits |-> IF sort = "desc"
                      THEN S!Cut(H, o, fromHead) \o (IF left > 0 THEN tail.hits ELSE <<>>)
                      ELSE (IF left > 0 THEN tail.hits ELSE <<>>) \o
                             S!Cut(S!Reverse(H), IF o > tail.found THEN o - tail.found ELSE 0,
                                   k - Len(IF left > 0 THEN tail.hits ELSE <<>>))]
    BY <1>3, <2>1 DEF S!HybridPage
  <2> HIDE DEF a, H, L, tail, fromHead, left, from, size
  <2> QED  BY <1>5, <2>2
<1> HIDE DEF a, H, L, tail, o, k
<1>7. H \in Seq(Titled) /\ L \in Seq(Titled) /\ Len(H) \in Nat /\ Len(L) \in Nat
  BY <1>4 DEF StudiesLists
<1>8. StudiesLists(S!Reverse(H), StudiesInTab(G)) /\ Len(S!Reverse(H)) = Len(H)
  <2>1. Len(Reverse(H)) = Len(H)  BY <1>7, ReverseIs
  <2> QED  BY <1>4, <2>1, StudiesTurned, StudiesReverse
<1>9. StudiesInTab(G) \cap StudiesInTab(rest) = {}
      /\ StudiesInTab(V) = StudiesInTab(G) \cup StudiesInTab(rest)
  BY <1>2 DEF StudiesInTab
<1>10. R = IF sort = "desc" THEN H \o L ELSE L \o S!Reverse(H)
  BY DEF StudiesHybrid, H, L, rest
<1> HIDE DEF R
<1>11. StudiesLists(R, StudiesInTab(V)) /\ Len(R) = Len(H) + Len(L)
  <2>1. StudiesLists(H \o L, StudiesInTab(G) \cup StudiesInTab(rest))
    BY <1>4, <1>9, StudiesConcat
  <2>2. StudiesLists(L \o S!Reverse(H), StudiesInTab(rest) \cup StudiesInTab(G))
    <3>1. StudiesInTab(rest) \cap StudiesInTab(G) = {}  BY <1>9
    <3> QED  BY <1>4, <1>8, <3>1, StudiesConcat
  <2>3. Len(H \o L) = Len(H) + Len(L)  BY <1>7, ConcatProperties
  <2>4. Len(L \o S!Reverse(H)) = Len(H) + Len(L)
    <3>1. S!Reverse(H) \in Seq(Titled)  BY <1>8 DEF StudiesLists
    <3> DEFINE J == S!Reverse(H)
    <3> HIDE DEF J
    <3>2. J \in Seq(Titled) /\ Len(J) = Len(H)  BY <1>8, <3>1 DEF J
    <3>3. Len(L \o J) = Len(L) + Len(J)  BY <1>7, <3>2, ConcatProperties
    <3> QED  BY <1>7, <3>2, <3>3 DEF J
  <2>5. StudiesInTab(rest) \cup StudiesInTab(G) = StudiesInTab(V)  BY <1>9
  <2> QED  BY <1>9, <1>10, <2>1, <2>2, <2>3, <2>4, <2>5
<1>12. counts = S!CountBy(V)
  <2>1. \A X : S!CountBy(X) = [t \in S!Tabs |-> Cardinality({x \in X : Type[x] = t})]
    BY StudiesCardinality DEF S!CountBy
  <2>2. ASSUME NEW t \in S!Tabs  PROVE S!CountBy(rest)[t] + S!CountBy(G)[t] = S!CountBy(V)[t]
    <3> DEFINE X == {x \in G : Type[x] = t}  Y == {x \in rest : Type[x] = t}
               Z == {x \in V : Type[x] = t}
    <3>1. Z = X \cup Y /\ X \cap Y = {} /\ X \in SUBSET Titled /\ Y \in SUBSET Titled  BY <1>2
    <3>2. /\ S!CountBy(rest)[t] = Cardinality(Y) /\ S!CountBy(G)[t] = Cardinality(X)
          /\ S!CountBy(V)[t] = Cardinality(Z)
      BY <2>1
    <3> HIDE DEF X, Y, Z
    <3>3. IsFiniteSet(X) /\ IsFiniteSet(Y)  BY <3>1, StudiesGiven
    <3>4. Cardinality({}) = 0 /\ Cardinality(X) \in Nat /\ Cardinality(Y) \in Nat
      BY <3>3, FS_EmptySet, FS_CardinalityType
    <3>5. Cardinality(X \cup Y) = Cardinality(X) + Cardinality(Y) - 0
      BY <3>1, <3>3, <3>4, FS_Union
    <3> QED  BY <3>1, <3>2, <3>4, <3>5
  <2>3. S!CountBy(V) = [t \in S!Tabs |-> S!CountBy(V)[t]]  BY <2>1
  <2> HIDE DEF V
  <2> QED  BY <2>2, <2>3
<1>13. a.hits = Part(R, o, k)
  <2>1. CASE sort = "desc"
    <3> DEFINE b == PartLen(Len(H), o, k)
    <3>1. fromHead = b
      <4>1. Len(H) > o => S!Min({k, Len(H) - o}) = IF k <= Len(H) - o THEN k ELSE Len(H) - o
        BY <1>1, <1>7, StudiesMin
      <4> DEFINE n == Len(H)  m == S!Min({k, n - o})
      <4>2. n \in Nat /\ (n > o => m = IF k <= n - o THEN k ELSE n - o)  BY <1>7, <4>1
      <4>3. fromHead = IF n > o THEN m ELSE 0  OBVIOUS
      <4> HIDE DEF fromHead, n, m
      <4>4. fromHead = PartLen(n, o, k)  BY <1>1, <4>2, <4>3 DEF PartLen
      <4> QED  BY <4>4 DEF n
    <3>2. from = IF o > Len(H) THEN o - Len(H) ELSE 0  BY <2>1
    <3>3. left = k - b  BY <2>1, <3>1
    <3> HIDE DEF fromHead, b, from, left
    <3>4. k - b \in Nat /\ b \in Nat /\ from \in Nat
          /\ Part(H \o L, o, k) = Part(H, o, k) \o Part(L, from, k - b)
      <4>1. Part(H \o L, o, k) = Part(H, o, k) \o Part(L, from, k - b)
        <5>1. H \in Seq(Titled) /\ L \in Seq(Titled) /\ o \in Nat /\ k \in Nat  BY <1>1, <1>7
        <5> DEFINE c == IF o > Len(H) THEN o - Len(H) ELSE 0
        <5> HIDE DEF c
        <5>2. Part(H \o L, o, k) = Part(H, o, k) \o Part(L, c, k - b)
          BY ONLY <5>1, PartOfTwo DEF b, c
        <5>3. c = from  BY <3>2 DEF c
        <5> QED  BY <5>2, <5>3
      <4>2. PartOf(Part(H, o, k), Titled, H, o, k)  BY <1>1, <1>7, PartIs
      <4>3. b \in 0..k  BY <4>2 DEF PartOf, b
      <4>4. from \in Nat  BY <1>1, <1>7, <3>2
      <4> QED  BY <1>1, <4>1, <4>3, <4>4
    <3>5. S!Cut(H, o, fromHead) = Part(H, o, k)
      BY <1>1, <1>7, <3>1, StudiesCut, StudiesPartCapped DEF b
    <3>6. tailHits = Part(L, from, k - b)
      <4>1. CASE left > 0
        <5>1. tailHits = S!Cut(L, from, left)  BY <4>1
        <5> QED  BY <3>3, <5>1, StudiesCut
      <4>2. CASE ~(left > 0)
        <5>1. k - b = 0  BY <3>3, <3>4, <4>2
        <5>2. Part(L, from, 0) = <<>>  BY <1>7, <3>4, StudiesPartCapped
        <5> QED  BY <4>2, <5>1, <5>2
      <4> QED  BY <4>1, <4>2
    <3> HIDE DEF tailHits
    <3> QED  BY <1>6, <1>10, <2>1, <3>4, <3>5, <3>6
  <2>2. CASE sort = "asc"
    <3> DEFINE b == PartLen(Len(L), o, k)  J == S!Reverse(H)
    <3>1. left = k /\ from = o /\ left > 0  BY <1>1, <2>2
    <3>2. tailHits = Part(L, o, k)
      <4>1. tailHits = S!Cut(L, o, k)  BY <3>1
      <4> QED  BY <4>1, StudiesCut
    <3>3. J \in Seq(Titled)  BY <1>8 DEF StudiesLists
    <3> HIDE DEF tailHits, b, J, after
    <3>4. Len(tailHits) = b
      <4>1. PartOf(Part(L, o, k), Titled, L, o, k)  BY <1>1, <1>7, PartIs
      <4> QED  BY <3>2, <4>1 DEF PartOf, b
    <3>5. Part(L \o J, o, k) = Part(L, o, k) \o Part(J, after, k - b)
      <4>1. o \in Nat /\ k \in Nat /\ L \in Seq(Titled) /\ J \in Seq(Titled)  BY <1>1, <1>7, <3>3
      <4> DEFINE c == IF o > Len(L) THEN o - Len(L) ELSE 0
      <4> HIDE DEF c
      <4>2. Part(L \o J, o, k) = Part(L, o, k) \o Part(J, c, k - b)
        BY ONLY <4>1, PartOfTwo DEF b, c
      <4>3. c = after  BY DEF after, c
      <4> QED  BY <4>2, <4>3
    <3>6. S!Cut(J, after, k - b) = Part(J, after, k - b)  BY StudiesCut
    <3>7. a.hits = tailHits \o S!Cut(J, after, k - b)  BY <1>6, <2>2, <3>4 DEF J
    <3>8. R = L \o J  BY <1>10, <2>2 DEF J
    <3> QED  BY <3>2, <3>5, <3>6, <3>7, <3>8
  <2> QED  BY <2>1, <2>2
<1>14. StudiesAnswers(a, R, V, o)
  <2>1. V \in SUBSET Titled  BY <1>2
  <2>2. a.hits = Part(R, o, req.limit)  BY <1>13 DEF k
  <2>3. a.found = Len(R) /\ a.counts = S!CountBy(V)  BY <1>6, <1>11, <1>12
  <2> HIDE DEF V, counts
  <2> QED  BY <1>11, <2>1, <2>2, <2>3 DEF StudiesAnswers
<1> QED  BY <1>14 DEF a, R, V, o, rest

-----------------------------------------------------------------------------
(* While nothing changes, what the search gives stays what it was. *)

StudiesQuiet == UNCHANGED <<docs, score, near, req>>

LEMMA StudiesStillListed ==
  ASSUME StudiesQuiet
  PROVE  /\ \A U, sort : S!Listed(U, sort)' = S!Listed(U, sort)
         /\ \A x : S!InTab(x)' <=> S!InTab(x)
         /\ \A U : S!Matches(U)' = S!Matches(U)
         /\ \A U : StudiesInTab(U)' = StudiesInTab(U)
         /\ \A s : S!Shown(s)' = S!Shown(s)
         /\ \A s : S!Enriched(s)' = S!Enriched(s)
         /\ \A m : S!SortOf(m)' = S!SortOf(m)
         /\ S!Vector' = S!Vector
<1>1. docs' = docs /\ score' = score /\ near' = near /\ req' = req  BY DEF StudiesQuiet
<1>2. \A sort, a, b : S!By(sort, a, b)' <=> S!By(sort, a, b)  BY <1>1 DEF S!By
<1>3. ASSUME NEW U, NEW sort  PROVE S!Listed(U, sort)' = S!Listed(U, sort)
  <2>1. {p \in U \X U : S!By(sort, p[1], p[2])'} = {p \in U \X U : S!By(sort, p[1], p[2])}
    BY <1>2
  <2> QED  BY <2>1 DEF S!Listed
<1>4. \A x : S!InTab(x)' <=> S!InTab(x)  BY <1>1 DEF S!InTab
<1>5. \A U : S!Matches(U)' = S!Matches(U)  BY <1>1 DEF S!Matches
<1>6. \A U : StudiesInTab(U)' = StudiesInTab(U)  BY <1>4 DEF StudiesInTab
<1>7. ASSUME NEW s  PROVE S!Shown(s)' = S!Shown(s)
  <2>1. {i \in DOMAIN s : S!InTab(s[i])'} = {i \in DOMAIN s : S!InTab(s[i])}  BY <1>4
  <2>2. S!Shown(s) = S!AtPlaces(s, {i \in DOMAIN s : S!InTab(s[i])})  BY DEF S!Shown, S!Where
  <2>3. S!Shown(s)' = S!AtPlaces(s, {i \in DOMAIN s : S!InTab(s[i])'})  BY DEF S!Shown, S!Where
  <2> QED  BY <2>1, <2>2, <2>3
<1>8. ASSUME NEW s  PROVE S!Enriched(s)' = S!Enriched(s)
  BY <1>1 DEF S!Enriched, S!Where
<1>9. \A m : S!SortOf(m)' = S!SortOf(m)  BY <1>1 DEF S!SortOf
<1>10. S!Vector' = S!Vector  BY <1>1 DEF S!Vector
<1> QED  BY <1>3, <1>4, <1>5, <1>6, <1>7, <1>8, <1>9, <1>10

\* The result, by what it is made of.
StudiesPick(mode, sort, token, ds, block, byAll, byBlock, byMatch, byBoth, fused, byRest) ==
  IF token \in ds THEN <<token>>
  ELSE IF mode = "browse" THEN byAll
  ELSE IF mode = "semantic" /\ sort = "title" THEN byBlock
  ELSE IF mode = "semantic" THEN IF sort = "asc" THEN S!Reverse(block) ELSE block
  ELSE IF mode = "lexical" \/ block = <<>> THEN byMatch
  ELSE IF sort = "title" THEN byBoth
  ELSE IF sort = "desc" THEN fused \o byRest
  ELSE byRest \o S!Reverse(fused)

StudiesBlock == S!Enriched(S!Vector)
StudiesHead ==
  S!Promoted(S!Fuse(S!KeywordHead(docs), StudiesBlock), S!KeywordHead(docs))

LEMMA StudiesWholeIs ==
  ASSUME NEW mode
  PROVE  S!Whole(mode) =
           StudiesPick(mode, S!SortOf(mode), req.token, docs, StudiesBlock,
             S!Listed(docs, S!SortOf(mode)), S!Listed(S!Range(StudiesBlock), S!SortOf(mode)),
             S!Listed(S!Matches(docs), S!SortOf(mode)),
             S!Listed(S!Matches(docs) \cup S!Range(StudiesBlock), S!SortOf(mode)),
             StudiesHead,
             S!Listed(S!Matches(docs) \ S!Range(StudiesHead), S!SortOf(mode)))
BY DEF S!Whole, StudiesPick, StudiesBlock, StudiesHead, S!KeywordHead

LEMMA StudiesStillWhole ==
  ASSUME StudiesQuiet
  PROVE  /\ \A mode : S!Whole(mode)' = S!Whole(mode)
         /\ S!KeywordHead(docs)' = S!KeywordHead(docs)
         /\ StudiesBlock' = StudiesBlock /\ StudiesHead' = StudiesHead
<1>1. docs' = docs /\ req' = req  BY DEF StudiesQuiet
<1>2. S!KeywordHead(docs)' = S!KeywordHead(docs)
  BY <1>1, StudiesStillListed DEF S!KeywordHead
<1>3. StudiesBlock' = StudiesBlock  BY StudiesStillListed DEF StudiesBlock
<1>4. StudiesHead' = StudiesHead  BY <1>2, <1>3 DEF StudiesHead
<1>5. ASSUME NEW mode  PROVE S!Whole(mode)' = S!Whole(mode)
  <2>1. S!Whole(mode)' =
          StudiesPick(mode, S!SortOf(mode)', req.token', docs', StudiesBlock',
            S!Listed(docs, S!SortOf(mode))', S!Listed(S!Range(StudiesBlock), S!SortOf(mode))',
            S!Listed(S!Matches(docs), S!SortOf(mode))',
            S!Listed(S!Matches(docs) \cup S!Range(StudiesBlock), S!SortOf(mode))',
            StudiesHead',
            S!Listed(S!Matches(docs) \ S!Range(StudiesHead), S!SortOf(mode))')
    BY DEF S!Whole, StudiesPick, StudiesBlock, StudiesHead, S!KeywordHead
  <2>2. /\ S!SortOf(mode)' = S!SortOf(mode) /\ S!Matches(docs)' = S!Matches(docs)
        /\ S!Range(StudiesBlock)' = S!Range(StudiesBlock)
        /\ S!Range(StudiesHead)' = S!Range(StudiesHead)
    BY <1>1, <1>3, <1>4, StudiesStillListed
  <2>3. /\ S!Listed(docs, S!SortOf(mode))' = S!Listed(docs, S!SortOf(mode))
        /\ S!Listed(S!Range(StudiesBlock), S!SortOf(mode))' =
             S!Listed(S!Range(StudiesBlock), S!SortOf(mode))
        /\ S!Listed(S!Matches(docs), S!SortOf(mode))' =
             S!Listed(S!Matches(docs), S!SortOf(mode))
        /\ S!Listed(S!Matches(docs) \cup S!Range(StudiesBlock), S!SortOf(mode))' =
             S!Listed(S!Matches(docs) \cup S!Range(StudiesBlock), S!SortOf(mode))
        /\ S!Listed(S!Matches(docs) \ S!Range(StudiesHead), S!SortOf(mode))' =
             S!Listed(S!Matches(docs) \ S!Range(StudiesHead), S!SortOf(mode))
    BY <1>1, <2>2, StudiesStillListed
  <2> QED  BY <1>1, <1>3, <1>4, <2>1, <2>2, <2>3, StudiesWholeIs
<1> QED  BY <1>2, <1>3, <1>4, <1>5

-----------------------------------------------------------------------------
(* The pages: each is a part, from its offset, of one list of studies; and while      *)
(* nothing changes that list is the whole result of the page's mode.                  *)

StudiesModes == {"browse", "lexical", "semantic", "hybrid"}
StudiesResponses ==
  [found : Nat, counts : [S!Tabs -> Nat], hits : Seq(Titled), offset : Nat, mode : StudiesModes]
StudiesPcs ==
  {"idle", "exact", "browse", "lexical", "count", "embed", "vector", "enrich", "block", "tail",
   "answered", "error"}

\* Nothing has changed, and the tab does not hide the study of the query's idno.
StudiesCalm == calm /\ (req.token \in docs => S!InTab(req.token))

StudiesGood(a, from, mode) ==
  \E R, U : StudiesAnswers(a, R, U, from) /\ (StudiesCalm => R = S!Shown(S!Whole(mode)))

StudiesTyped ==
  /\ docs \subseteq Titled /\ StudiesScored /\ near \in Seq(Titled) /\ IsInjective(near)
  /\ req \in S!Requests

StudiesPage ==
  /\ page = [pc |-> page.pc, mode |-> page.mode, offset |-> page.offset, block |-> page.block,
             fused |-> page.fused, answer |-> page.answer]
  /\ page.pc \in StudiesPcs /\ page.mode \in StudiesModes /\ page.offset \in Nat
  /\ StudiesLists(page.block, ToSet(page.block)) /\ StudiesLists(page.fused, ToSet(page.fused))

\* Where the page is: after the pages before it.
StudiesPlace ==
  /\ page.pc = "idle" => page.offset = 0 /\ Len(pages) = 0
  /\ page.pc = "answered" =>
       /\ Len(pages) > 0 /\ page.offset = (Len(pages) - 1) * req.limit
       /\ pages[Len(pages)].mode = page.mode
  /\ page.pc \notin {"idle", "answered", "error"} => page.offset = Len(pages) * req.limit

StudiesPages ==
  /\ pages \in Seq(StudiesResponses)
  /\ \A i \in 1..Len(pages) :
       /\ pages[i].offset = (i - 1) * req.limit
       /\ StudiesGood(pages[i], pages[i].offset, pages[i].mode)

\* What a page has found out on its way.
StudiesWay ==
  /\ page.pc = "browse" => page.mode = "browse"
  /\ page.pc = "lexical" => page.mode \in {"lexical", "hybrid"}
  /\ page.pc \in {"embed", "vector", "enrich", "block", "tail"} =>
       page.mode \in {"semantic", "hybrid"}
  /\ page.pc = "tail" => page.mode = "hybrid" /\ S!SortOf("hybrid") # "title"
  /\ page.pc = "count" => StudiesGood(page.answer, page.offset, page.mode)
  /\ page.pc = "enrich" => page.block = S!Vector
  /\ StudiesCalm =>
       /\ page.pc \in {"browse", "lexical", "embed", "vector", "enrich", "block", "tail"} =>
            req.token \notin docs
       /\ page.pc = "lexical" /\ page.mode = "hybrid" => StudiesBlock = <<>>
       /\ page.pc \in {"block", "tail"} => page.block = StudiesBlock
       /\ page.pc = "tail" => page.fused = StudiesHead /\ StudiesBlock # <<>>

StudiesInv == StudiesTyped /\ StudiesPage /\ StudiesPlace /\ StudiesPages /\ StudiesWay

-----------------------------------------------------------------------------
LEMMA StudiesNone ==
  ASSUME NEW s, StudiesLists(s, {})
  PROVE  s = <<>>
<1>1. s \in Seq(Titled) /\ ToSet(s) = {}  BY DEF StudiesLists
<1>2. DOMAIN s = {}  BY <1>1 DEF ToSet
<1>3. Len(s) = 0  BY <1>1, <1>2
<1> QED  BY <1>1, <1>3, EmptySeq

LEMMA StudiesEmpty == StudiesLists(<<>>, {})
BY DEF StudiesLists, IsInjective, ToSet

LEMMA StudiesOne ==
  ASSUME NEW t \in Titled
  PROVE  StudiesLists(<<t>>, {t})
BY DEF StudiesLists, IsInjective, ToSet

LEMMA StudiesOnly ==
  ASSUME NEW s, NEW t, StudiesLists(s, {t})
  PROVE  s = <<t>>
<1>1. s \in Seq(Titled) /\ ToSet(s) = {t} /\ IsInjective(s)  BY DEF StudiesLists
<1>2. \A i \in 1..Len(s) : s[i] = t  BY <1>1 DEF ToSet
<1>3. Len(s) # 0
  <2> SUFFICES ASSUME Len(s) = 0  PROVE FALSE  OBVIOUS
  <2>1. s = <<>>  BY <1>1, EmptySeq
  <2> QED  BY <1>1, <2>1 DEF ToSet
<1>4. ~(Len(s) > 1)
  <2> SUFFICES ASSUME Len(s) > 1  PROVE FALSE  OBVIOUS
  <2>1. 1 \in DOMAIN s /\ 2 \in DOMAIN s  BY <1>1
  <2>2. s[1] = s[2]  BY <1>1, <1>2, <2>1
  <2> QED  BY <1>1, <2>1, <2>2 DEF IsInjective
<1>5. Len(s) = 1
  <2> DEFINE n == Len(s)
  <2>1. n \in Nat /\ n # 0 /\ ~(n > 1)  BY <1>1, <1>3, <1>4
  <2> HIDE DEF n
  <2>2. n = 1  BY <2>1
  <2> QED  BY <2>2 DEF n
<1> QED  BY <1>1, <1>2, <1>5

LEMMA StudiesSortIs ==
  ASSUME req \in S!Requests
  PROVE  /\ \A mode : S!SortOf(mode) \in StudiesSorts
         /\ \A mode \in {"lexical", "semantic", "hybrid"} : S!SortOf(mode) = S!SortOf("hybrid")
BY DEF S!Requests, S!Sorts, S!SortOf, StudiesSorts

LEMMA StudiesMatching ==
  ASSUME docs \subseteq Titled
  PROVE  S!Matches(docs) \subseteq Titled /\ S!Matches(docs) \subseteq docs
BY DEF S!Matches

\* The block and the head of a hybrid search.
LEMMA StudiesHeadLists ==
  ASSUME S!StudiesAssumption, StudiesTyped, NEW block, StudiesLists(block, ToSet(block))
  PROVE  /\ StudiesLists(S!Vector, ToSet(S!Vector))
         /\ StudiesLists(StudiesBlock, ToSet(StudiesBlock)) /\ ToSet(StudiesBlock) \subseteq docs
         /\ \E G \in SUBSET Titled :
              /\ StudiesLists(
                   S!Promoted(S!Fuse(S!KeywordHead(docs), block), S!KeywordHead(docs)), G)
              /\ ToSet(block) \subseteq G /\ G \subseteq S!Matches(docs) \cup ToSet(block)
<1>1. 0 \in Nat /\ SemanticWindow \in Nat /\ FusionWindow \in Nat  BY StudiesGiven
<1>2. StudiesLists(near, ToSet(near))  BY DEF StudiesTyped, StudiesLists
<1>3. StudiesLists(S!Vector, ToSet(S!Vector))  BY <1>1, <1>2, StudiesPart DEF S!Vector
<1>4. StudiesLists(StudiesBlock, ToSet(S!Vector) \cap docs)
  BY <1>3, StudiesEnriched DEF StudiesBlock
<1>5. StudiesLists(StudiesBlock, ToSet(StudiesBlock)) /\ ToSet(StudiesBlock) \subseteq docs
  BY <1>4 DEF StudiesLists
<1> DEFINE head == S!KeywordHead(docs)  all == S!Listed(S!Matches(docs), "desc")
<1>6. S!Matches(docs) \subseteq Titled  BY StudiesMatching DEF StudiesTyped
<1>7. StudiesLists(all, S!Matches(docs))
  BY <1>6, StudiesListed DEF StudiesTyped, StudiesSorts
<1>8. head = S!Cut(all, 0, FusionWindow)  BY DEF S!KeywordHead
<1> HIDE DEF head, all
<1>9. StudiesLists(head, ToSet(head)) /\ ToSet(head) \subseteq S!Matches(docs)
  BY <1>1, <1>7, <1>8, StudiesPart
<1>10. ToSet(head) \subseteq Titled /\ ToSet(block) \subseteq Titled
  <2>1. block \in Seq(Titled)  BY DEF StudiesLists
  <2>2. ToSet(block) \subseteq Titled  BY <2>1 DEF ToSet
  <2> QED  BY <1>6, <1>9, <2>2
<1> DEFINE G == ToSet(head) \cup ToSet(block)
<1>11. StudiesLists(S!Fuse(head, block), G)  BY <1>9, <1>10, StudiesFused
<1> DEFINE fused == S!Fuse(head, block)
<1> HIDE DEF fused
<1>12. StudiesLists(S!Promoted(fused, head), G)  BY <1>11, StudiesPromoted DEF fused
<1>13. G \in SUBSET Titled /\ ToSet(block) \subseteq G
       /\ G \subseteq S!Matches(docs) \cup ToSet(block)
  BY <1>9, <1>10
<1> HIDE DEF G
<1> QED  BY <1>3, <1>5, <1>12, <1>13 DEF head, fused

LEMMA StudiesHeadIs ==
  ASSUME S!StudiesAssumption, StudiesTyped
  PROVE  /\ StudiesLists(StudiesHead, ToSet(StudiesHead)) /\ ToSet(StudiesHead) \subseteq Titled
         /\ ToSet(StudiesBlock) \subseteq ToSet(StudiesHead)
         /\ ToSet(StudiesHead) \subseteq S!Matches(docs) \cup ToSet(StudiesBlock)
<1> DEFINE block == StudiesBlock
<1> HIDE DEF block
<1>1. StudiesLists(block, ToSet(block))  BY StudiesEmpty, StudiesHeadLists DEF block, StudiesLists
<1>2. PICK G \in SUBSET Titled :
        /\ StudiesLists(S!Promoted(S!Fuse(S!KeywordHead(docs), block), S!KeywordHead(docs)), G)
        /\ ToSet(block) \subseteq G /\ G \subseteq S!Matches(docs) \cup ToSet(block)
  BY <1>1, StudiesHeadLists
<1>3. StudiesLists(StudiesHead, G)  BY <1>2 DEF StudiesHead, block
<1>4. ToSet(StudiesHead) = G  BY <1>3 DEF StudiesLists
<1> QED  BY <1>2, <1>3, <1>4 DEF block

\* Which of them it is, mode by mode, when it is not the study of the query's idno.
LEMMA StudiesPicked ==
  ASSUME NEW sort \in StudiesSorts, NEW token, NEW ds, token \notin ds, NEW block, NEW byAll,
         NEW byBlock, NEW byMatch, NEW byBoth, NEW fused, NEW byRest
  PROVE  /\ StudiesPick("browse", sort, token, ds, block, byAll, byBlock, byMatch, byBoth, fused,
              byRest) = byAll
         /\ StudiesPick("lexical", sort, token, ds, block, byAll, byBlock, byMatch, byBoth, fused,
              byRest) = byMatch
         /\ StudiesPick("semantic", sort, token, ds, block, byAll, byBlock, byMatch, byBoth, fused,
              byRest) =
              IF sort = "title" THEN byBlock
              ELSE IF sort = "asc" THEN S!Reverse(block) ELSE block
         /\ StudiesPick("hybrid", sort, token, ds, block, byAll, byBlock, byMatch, byBoth, fused,
              byRest) =
              IF block = <<>> THEN byMatch
              ELSE IF sort = "title" THEN byBoth
              ELSE IF sort = "desc" THEN fused \o byRest ELSE byRest \o S!Reverse(fused)
<1> DEFINE pick(mode) ==
      StudiesPick(mode, sort, token, ds, block, byAll, byBlock, byMatch, byBoth, fused, byRest)
<1>1. pick("browse") = byAll  BY DEF StudiesPick
<1>2. pick("lexical") = byMatch  BY DEF StudiesPick
<1>3. pick("semantic") = IF sort = "title" THEN byBlock
                         ELSE IF sort = "asc" THEN S!Reverse(block) ELSE block
  BY DEF StudiesPick
<1>4. pick("hybrid") = IF block = <<>> THEN byMatch
                       ELSE IF sort = "title" THEN byBoth
                       ELSE IF sort = "desc" THEN fused \o byRest
                       ELSE byRest \o S!Reverse(fused)
  <2>1. CASE block = <<>>  BY <2>1 DEF StudiesPick
  <2>2. CASE block # <<>> /\ sort = "title"  BY <2>2 DEF StudiesPick
  <2>3. CASE block # <<>> /\ sort = "desc"
    <3>1. pick("hybrid") = fused \o byRest  BY <2>3 DEF StudiesPick
    <3> QED  BY <2>3, <3>1
  <2>4. CASE block # <<>> /\ sort = "asc"
    <3>1. pick("hybrid") = byRest \o S!Reverse(fused)  BY <2>4 DEF StudiesPick
    <3> QED  BY <2>4, <3>1
  <2> QED  BY <2>1, <2>2, <2>3, <2>4 DEF StudiesSorts
<1> QED  BY <1>1, <1>2, <1>3, <1>4

\* The whole result, mode by mode.
LEMMA StudiesWholeOf ==
  ASSUME S!StudiesAssumption, StudiesTyped, req.token \notin docs
  PROVE  /\ S!Whole("browse") = S!Listed(docs, "title")
         /\ S!Whole("lexical") = S!Listed(S!Matches(docs), S!SortOf("hybrid"))
         /\ StudiesBlock = <<>> => S!Whole("hybrid") = S!Listed(S!Matches(docs), S!SortOf("hybrid"))
         /\ S!SortOf("hybrid") = "title" =>
              S!Whole("semantic") = S!Listed(ToSet(StudiesBlock), "title")
         /\ S!SortOf("hybrid") # "title" =>
              S!Whole("semantic") =
                IF S!SortOf("hybrid") = "asc" THEN S!Reverse(StudiesBlock) ELSE StudiesBlock
         /\ StudiesBlock # <<>> /\ S!SortOf("hybrid") = "title" =>
              S!Whole("hybrid") = S!Listed(S!Matches(docs) \cup ToSet(StudiesBlock), "title")
         /\ StudiesBlock # <<>> /\ S!SortOf("hybrid") # "title" =>
              S!Whole("hybrid") =
                IF S!SortOf("hybrid") = "desc"
                THEN StudiesHead \o S!Listed(StudiesRest(ToSet(StudiesHead)), S!SortOf("hybrid"))
                ELSE S!Listed(StudiesRest(ToSet(StudiesHead)), S!SortOf("hybrid"))
                       \o S!Reverse(StudiesHead)
<1>1. S!SortOf("browse") = "title" /\ S!SortOf("hybrid") \in StudiesSorts
      /\ S!SortOf("lexical") = S!SortOf("hybrid") /\ S!SortOf("semantic") = S!SortOf("hybrid")
  BY StudiesSortIs DEF StudiesTyped, S!SortOf
<1>2. S!Range(StudiesBlock) = ToSet(StudiesBlock) /\ S!Range(StudiesHead) = ToSet(StudiesHead)
  BY StudiesRange
<1> DEFINE sort == S!SortOf("hybrid")  rest == StudiesRest(ToSet(StudiesHead))
           B == StudiesBlock  J == StudiesHead  m == S!Matches(docs)
           byAll(s) == S!Listed(docs, s)  byBlock(s) == S!Listed(ToSet(B), s)
           byMatch(s) == S!Listed(m, s)  byBoth(s) == S!Listed(m \cup ToSet(B), s)
           byRest(s) == S!Listed(rest, s)
<1>3. \A mode :
        S!Whole(mode) =
          StudiesPick(mode, S!SortOf(mode), req.token, docs, B, byAll(S!SortOf(mode)),
            byBlock(S!SortOf(mode)), byMatch(S!SortOf(mode)), byBoth(S!SortOf(mode)), J,
            byRest(S!SortOf(mode)))
  BY <1>2, StudiesWholeIs DEF StudiesRest
<1>4. S!Whole("browse") =
        StudiesPick("browse", "title", req.token, docs, B, byAll("title"), byBlock("title"),
          byMatch("title"), byBoth("title"), J, byRest("title"))
  <2> HIDE DEF byAll, byBlock, byMatch, byBoth, byRest, B, J
  <2> QED  BY <1>1, <1>3
<1>5. \A mode \in {"lexical", "semantic", "hybrid"} :
        S!Whole(mode) =
          StudiesPick(mode, sort, req.token, docs, B, byAll(sort), byBlock(sort), byMatch(sort),
            byBoth(sort), J, byRest(sort))
  <2> HIDE DEF byAll, byBlock, byMatch, byBoth, byRest, B, J
  <2> QED  BY <1>1, <1>3
<1>6. sort \in StudiesSorts /\ "title" \in StudiesSorts  BY <1>1 DEF StudiesSorts
<1> HIDE DEF sort, byAll, byBlock, byMatch, byBoth, byRest, B, J
<1>7. S!Whole("browse") = byAll("title")  BY <1>4, <1>6, StudiesPicked
<1>8. S!Whole("lexical") = byMatch(sort)  BY <1>5, <1>6, StudiesPicked
<1>9. S!Whole("semantic") =
        IF sort = "title" THEN byBlock(sort)
        ELSE IF sort = "asc" THEN S!Reverse(B) ELSE B
  BY <1>5, <1>6, StudiesPicked
<1>10. S!Whole("hybrid") =
        IF B = <<>> THEN byMatch(sort)
        ELSE IF sort = "title" THEN byBoth(sort)
        ELSE IF sort = "desc" THEN J \o byRest(sort) ELSE byRest(sort) \o S!Reverse(J)
  BY <1>5, <1>6, StudiesPicked
<1> QED  BY <1>7, <1>8, <1>9, <1>10 DEF sort, byAll, byBlock, byMatch, byBoth, byRest, B, J
-----------------------------------------------------------------------------
(* One step at a time.                                                        *)

\* What was answered stays so: of the index as it is while nothing changes, and anyhow of a
\* list of studies.
LEMMA StudiesStillGood ==
  ASSUME req' = req, StudiesCalm' => StudiesCalm /\ StudiesQuiet,
         NEW a, NEW from, NEW mode, StudiesGood(a, from, mode)
  PROVE  StudiesGood(a, from, mode)'
<1>1. PICK R, U : StudiesAnswers(a, R, U, from) /\ (StudiesCalm => R = S!Shown(S!Whole(mode)))
  BY DEF StudiesGood
<1>2. StudiesInTab(U)' = StudiesInTab(U)  BY DEF StudiesInTab, S!InTab
<1>3. StudiesAnswers(a, R, U, from)'  BY <1>1, <1>2 DEF StudiesAnswers
<1>4. StudiesCalm' => R = S!Shown(S!Whole(mode))'
  <2> SUFFICES ASSUME StudiesCalm'  PROVE R = S!Shown(S!Whole(mode))'  OBVIOUS
  <2>1. StudiesCalm /\ StudiesQuiet  OBVIOUS
  <2>2. S!Whole(mode)' = S!Whole(mode)  BY <2>1, StudiesStillWhole
  <2> DEFINE w == S!Whole(mode)
  <2>3. \A s : S!Shown(s)' = S!Shown(s)  BY <2>1, StudiesStillListed
  <2>4. S!Shown(S!Whole(mode))' = S!Shown(S!Whole(mode))  BY <2>2, <2>3
  <2> QED  BY <1>1, <2>1, <2>4
<1> QED  BY <1>3, <1>4 DEF StudiesGood

LEMMA StudiesQuietKeeps ==
  ASSUME S!Quiet
  PROVE  /\ StudiesQuiet /\ req' = req /\ docs' = docs /\ StudiesCalm' = StudiesCalm
         /\ StudiesTyped => StudiesTyped'
BY DEF S!Quiet, StudiesQuiet, StudiesCalm, S!InTab, StudiesTyped, StudiesScored, S!Requests

LEMMA StudiesPagesStay ==
  ASSUME StudiesPages, pages' = pages, req' = req, StudiesCalm' => StudiesCalm /\ StudiesQuiet
  PROVE  StudiesPages'
<1>1. pages' \in Seq(StudiesResponses')  BY DEF StudiesPages, StudiesResponses
<1>2. ASSUME NEW i \in 1..Len(pages)
      PROVE  /\ pages'[i].offset = (i - 1) * req'.limit
             /\ StudiesGood(pages[i], pages[i].offset, pages[i].mode)'
  <2>1. /\ pages[i].offset = (i - 1) * req.limit
        /\ StudiesGood(pages[i], pages[i].offset, pages[i].mode)
    BY DEF StudiesPages
  <2>2. PICK p : p = pages[i]  OBVIOUS
  <2>3. StudiesGood(p, p.offset, p.mode)'  BY <2>1, <2>2, StudiesStillGood
  <2>4. pages'[i] = p  BY <2>2
  <2> QED  BY <2>1, <2>2, <2>3, <2>4
<1> QED  BY <1>1, <1>2 DEF StudiesPages

\* A page goes on: it stays the same page, and what it has found out is right.
LEMMA StudiesGoesOn ==
  ASSUME StudiesInv, S!Quiet, pages' = pages, page.pc \notin {"idle", "answered", "error"},
         StudiesPage', page'.offset = page.offset, page'.pc \notin {"idle", "answered"},
         StudiesWay'
  PROVE  StudiesInv'
<1>1. req' = req /\ StudiesTyped' /\ (StudiesCalm' => StudiesCalm /\ StudiesQuiet)
  BY StudiesQuietKeeps DEF StudiesInv
<1>2. StudiesPlace'  BY <1>1 DEF StudiesInv, StudiesPlace
<1>3. StudiesPages'  BY <1>1, StudiesPagesStay DEF StudiesInv
<1> QED  BY <1>1, <1>2, <1>3 DEF StudiesInv

\* A page is answered with a part of the right list.
LEMMA StudiesAnswered ==
  ASSUME S!StudiesAssumption, StudiesInv, S!Quiet, page.pc \notin {"idle", "answered", "error"},
         NEW a, StudiesGood(a, page.offset, page.mode), S!Answer(a)
  PROVE  StudiesInv'
<1> DEFINE r == [found |-> a.found, counts |-> a.counts, hits |-> a.hits,
                 offset |-> page.offset, mode |-> page.mode]
           n == Len(pages)
<1>1. /\ req' = req /\ StudiesTyped' /\ (StudiesCalm' => StudiesCalm /\ StudiesQuiet)
  BY StudiesQuietKeeps DEF StudiesInv
<1>2. /\ pages' = Append(pages, r) /\ page' = [page EXCEPT !.pc = "answered"]
  BY DEF S!Answer, S!At
<1>3. StudiesPage' /\ page'.pc = "answered" /\ page'.mode = page.mode /\ page'.offset = page.offset
  <2>1. page' = [pc |-> "answered", mode |-> page.mode, offset |-> page.offset,
                 block |-> page.block, fused |-> page.fused, answer |-> page.answer]
    BY <1>2 DEF StudiesInv, StudiesPage
  <2> QED  BY <2>1 DEF StudiesInv, StudiesPage, StudiesPcs, StudiesLists
<1>4. PICK R, U : StudiesAnswers(a, R, U, page.offset)
                  /\ (StudiesCalm => R = S!Shown(S!Whole(page.mode)))
  BY DEF StudiesGood
<1>5. StudiesAnswers(r, R, U, page.offset) /\ r.offset = page.offset /\ r.mode = page.mode
  BY <1>4 DEF StudiesAnswers
<1>6. page.offset \in Nat /\ page.mode \in StudiesModes /\ req \in S!Requests
      /\ pages \in Seq(StudiesResponses) /\ page.offset = n * req.limit
  BY DEF StudiesInv, StudiesPage, StudiesTyped, StudiesPages, StudiesPlace
<1>7. r \in StudiesResponses
  <2>1. /\ r.found \in 0..S!Cardinality(Titled) /\ r.hits \in Seq(Titled)
        /\ r.counts \in [S!Tabs -> Nat]
    <3> HIDE DEF r
    <3> QED  BY <1>5, <1>6, StudiesAnswerKeeps
  <2>2. r.found \in Nat  BY <2>1
  <2> QED  BY <1>6, <2>1, <2>2 DEF StudiesResponses
<1>8. StudiesGood(r, page.offset, page.mode)
  <2> HIDE DEF r
  <2> QED  BY <1>4, <1>5 DEF StudiesGood
<1> HIDE DEF r
<1>9. /\ pages' \in Seq(StudiesResponses) /\ Len(pages') = n + 1 /\ n \in Nat
      /\ \A i \in 1..n : pages'[i] = pages[i]
      /\ pages'[n + 1] = r
  BY <1>2, <1>6, <1>7, AppendProperties
<1> HIDE DEF n
<1>10. StudiesPlace'
  <2>1. pages'[Len(pages')].mode = page'.mode  BY <1>3, <1>5, <1>9
  <2>2. Len(pages') > 0 /\ page'.offset = (Len(pages') - 1) * req'.limit
    <3>1. Len(pages') > 0 /\ Len(pages') - 1 = n  BY <1>9
    <3> QED  BY <1>1, <1>3, <1>6, <3>1
  <2> QED  BY <1>3, <2>1, <2>2 DEF StudiesPlace
<1>11. StudiesPages'
  <2>1. pages' \in Seq(StudiesResponses')  BY <1>9 DEF StudiesResponses
  <2>2. ASSUME NEW i \in 1..(n + 1)
        PROVE  /\ pages'[i].offset = (i - 1) * req'.limit
               /\ StudiesGood(pages[i], pages[i].offset, pages[i].mode)'
    <3> DEFINE b == IF i = n + 1 THEN r ELSE pages[i]
    <3>1. b.offset = (i - 1) * req.limit /\ StudiesGood(b, b.offset, b.mode)
      <4>1. CASE i = n + 1
        <5>1. i - 1 = n  BY <1>9, <4>1
        <5> QED  BY <1>5, <1>6, <1>8, <4>1, <5>1
      <4>2. CASE i # n + 1
        <5>1. i \in 1..n  BY <1>9, <4>2
        <5>2. /\ pages[i].offset = (i - 1) * req.limit
              /\ StudiesGood(pages[i], pages[i].offset, pages[i].mode)
          BY <5>1 DEF StudiesInv, StudiesPages, n
        <5> QED  BY <4>2, <5>2
      <4> QED  BY <4>1, <4>2
    <3>2. pages'[i] = b  BY <1>9
    <3> HIDE DEF b
    <3>3. \E p : p = b  OBVIOUS
    <3>4. PICK p : p = b  BY <3>3
    <3>5. StudiesGood(p, p.offset, p.mode)'  BY <1>1, <3>1, <3>4, StudiesStillGood
    <3>6. pages'[i] = p  BY <3>2, <3>4
    <3> QED  BY <1>1, <3>1, <3>4, <3>5, <3>6
  <2> QED  BY <1>9, <2>1, <2>2 DEF StudiesPages
<1>12. StudiesWay'  BY <1>3 DEF StudiesWay
<1> QED  BY <1>1, <1>3, <1>10, <1>11, <1>12 DEF StudiesInv

LEMMA StudiesCounts ==
  ASSUME StudiesInv, S!Quiet, page.pc \notin {"idle", "answered", "error"},
         NEW a, StudiesGood(a, page.offset, page.mode), S!CountFirst(a)
  PROVE  StudiesInv'
<1>1. /\ req' = req /\ StudiesTyped' /\ (StudiesCalm' => StudiesCalm /\ StudiesQuiet)
  BY StudiesQuietKeeps DEF StudiesInv
<1>2. page' = [page EXCEPT !.pc = "count", !.answer = a] /\ pages' = pages  BY DEF S!CountFirst
<1>3. page' = [pc |-> "count", mode |-> page.mode, offset |-> page.offset,
               block |-> page.block, fused |-> page.fused, answer |-> a]
  BY <1>2 DEF StudiesInv, StudiesPage
<1>4. StudiesPage'  BY <1>3 DEF StudiesInv, StudiesPage, StudiesPcs, StudiesLists
<1>5. StudiesGood(a, page.offset, page.mode)'
  <2> PICK o, m : o = page.offset /\ m = page.mode  OBVIOUS
  <2>1. StudiesGood(a, o, m)'  BY <1>1, StudiesStillGood
  <2> QED  BY <1>3, <2>1
<1>6. StudiesWay'
  <2>1. page'.pc = "count" /\ page'.answer = a  BY <1>3
  <2>2. StudiesGood(page.answer, page.offset, page.mode)'  BY <1>5, <2>1
  <2> QED  BY <2>1, <2>2 DEF StudiesWay
<1> QED  BY <1>2, <1>3, <1>4, <1>6, StudiesGoesOn

LEMMA StudiesAnswersUnlessEmpty ==
  ASSUME S!StudiesAssumption, StudiesInv, S!Quiet, page.pc \notin {"idle", "answered", "error"},
         NEW a, StudiesGood(a, page.offset, page.mode), S!AnswerUnlessEmpty(a)
  PROVE  StudiesInv'
<1>1. S!Answer(a) \/ S!CountFirst(a)  BY DEF S!AnswerUnlessEmpty
<1> QED  BY <1>1, StudiesAnswered, StudiesCounts

\* A step that only moves the page on.
LEMMA StudiesMovesOn ==
  ASSUME StudiesInv, S!Quiet, page.pc \notin {"idle", "answered", "error"}, pages' = pages,
         NEW pc \in StudiesPcs \ {"idle", "answered", "count"}, S!At(pc),
         pc = "browse" => page.mode = "browse",
         pc = "lexical" => page.mode \in {"lexical", "hybrid"},
         pc \in {"embed", "vector", "enrich", "block"} => page.mode \in {"semantic", "hybrid"},
         pc \notin {"enrich", "tail"},
         StudiesCalm /\ pc \notin {"exact", "error"} => req.token \notin docs,
         StudiesCalm /\ pc = "lexical" /\ page.mode = "hybrid" => StudiesBlock = <<>>,
         StudiesCalm /\ pc = "block" => page.block = StudiesBlock
  PROVE  StudiesInv'
<1>1. req' = req /\ docs' = docs /\ StudiesCalm' = StudiesCalm /\ StudiesQuiet
  BY StudiesQuietKeeps
<1>2. page' = [pc |-> pc, mode |-> page.mode, offset |-> page.offset,
               block |-> page.block, fused |-> page.fused, answer |-> page.answer]
  BY DEF S!At, StudiesInv, StudiesPage
<1>3. StudiesPage'  BY <1>2 DEF StudiesInv, StudiesPage, StudiesPcs, StudiesLists
<1>4. StudiesBlock' = StudiesBlock  BY <1>1, StudiesStillWhole
<1>5. page'.pc = pc /\ page'.mode = page.mode /\ page'.offset = page.offset
      /\ page'.block = page.block
  BY <1>2
<1>6. StudiesWay'  BY <1>1, <1>4, <1>5 DEF StudiesWay, StudiesPcs
<1> QED  BY <1>3, <1>5, <1>6, StudiesGoesOn DEF StudiesPcs

LEMMA StudiesKnows ==
  ASSUME S!StudiesAssumption, StudiesInv
  PROVE  /\ StudiesTyped /\ StudiesPage /\ StudiesPlace /\ StudiesPages /\ StudiesWay
         /\ StudiesScored /\ docs \subseteq Titled /\ req \in S!Requests /\ page.offset \in Nat
         /\ S!Matches(docs) \subseteq Titled /\ None \notin docs
BY StudiesMatching, StudiesGiven DEF StudiesInv, StudiesTyped, StudiesPage

LEMMA StudiesExactKeeps ==
  ASSUME S!StudiesAssumption, StudiesInv, S!Exact
  PROVE  StudiesInv'
<1> DEFINE hits == {x \in docs : x = req.token /\ S!InTab(x)}
           R == S!Listed(hits, "title")
           a == [found |-> S!Cardinality(hits), counts |-> S!CountBy(hits),
                 hits |-> S!Cut(R, page.offset, req.limit)]
<1>1. page.pc = "exact" /\ S!Quiet  BY DEF S!Exact
<1>2. CASE hits # {}
  <2>1. S!Answer(a)  BY <1>2 DEF S!Exact
  <2> DEFINE t == req.token
  <2>2. hits = {t} /\ t \in docs /\ t \in Titled /\ S!InTab(t) /\ {t} \subseteq Titled
    BY <1>2, StudiesKnows
  <2> HIDE DEF hits
  <2>3. R = <<t>>
    <3>1. StudiesLists(S!Listed({t}, "title"), {t})
      BY <2>2, StudiesKnows, StudiesListed DEF StudiesSorts
    <3> QED  BY <2>2, <3>1, StudiesOnly
  <2>4. StudiesLists(<<t>>, {t}) /\ StudiesInTab({t}) = {t}
    BY <2>2, StudiesOne DEF StudiesInTab
  <2>5. S!Cardinality(hits) = 1
    BY <2>2, StudiesCardinality, FS_Singleton
  <2>6. StudiesAnswers(a, <<t>>, {t}, page.offset)
    <3>1. S!Cut(R, page.offset, req.limit) = Part(<<t>>, page.offset, req.limit)
      BY <2>3, StudiesCut
    <3>2. a.found = Len(<<t>>) /\ a.counts = S!CountBy({t})
          /\ a.hits = Part(<<t>>, page.offset, req.limit)
      BY <2>2, <2>5, <3>1
    <3> HIDE DEF a
    <3> QED  BY <2>2, <2>4, <3>2 DEF StudiesAnswers
  <2> HIDE DEF a
  <2>7. S!Shown(S!Whole(page.mode)) = <<t>>
    <3>1. S!Whole(page.mode) = <<t>>  BY <2>2 DEF S!Whole
    <3>2. StudiesLists(S!Shown(<<t>>), {t})  BY <2>4, StudiesShown
    <3> QED  BY <3>1, <3>2, StudiesOnly
  <2>8. StudiesGood(a, page.offset, page.mode)  BY <2>6, <2>7 DEF StudiesGood
  <2> QED  BY <1>1, <2>1, <2>8, StudiesAnswered
<1>3. CASE hits = {}
  <2> DEFINE pc == S!FirstStep(page.mode)
  <2>1. S!At(pc) /\ pages' = pages  BY <1>3 DEF S!Exact
  <2>2. /\ pc \in {"browse", "lexical", "embed"}
        /\ pc = "browse" => page.mode = "browse"
        /\ pc = "lexical" => page.mode = "lexical"
        /\ pc = "embed" => page.mode \in {"semantic", "hybrid"}
    BY StudiesKnows DEF StudiesPage, StudiesModes, S!FirstStep
  <2>3. StudiesCalm => req.token \notin docs  BY <1>3 DEF StudiesCalm
  <2> HIDE DEF pc
  <2>4. pc \in StudiesPcs \ {"idle", "answered", "count"}  BY <2>2 DEF StudiesPcs
  <2> QED  BY <1>1, <2>1, <2>2, <2>3, <2>4, StudiesMovesOn
<1> QED  BY <1>2, <1>3

LEMMA StudiesListKeeps ==
  ASSUME S!StudiesAssumption, StudiesInv, S!List
  PROVE  StudiesInv'
<1> DEFINE U == IF page.pc = "browse" THEN docs ELSE S!Matches(docs)
           sort == S!SortOf(page.pc)
           a == S!Listing(U, sort, page.offset, req.limit)
<1>1. page.pc \in {"browse", "lexical"} /\ S!Quiet /\ S!AnswerUnlessEmpty(a)  BY DEF S!List
<1>2. U \in SUBSET Titled /\ sort \in StudiesSorts  BY StudiesKnows, StudiesSortIs
<1>3. StudiesCalm => S!Listed(U, sort) = S!Whole(page.mode)
  <2> SUFFICES ASSUME StudiesCalm  PROVE S!Listed(U, sort) = S!Whole(page.mode)  OBVIOUS
  <2>1. req.token \notin docs /\ StudiesTyped  BY <1>1, StudiesKnows DEF StudiesWay
  <2>2. CASE page.pc = "browse"
    <3>1. page.mode = "browse" /\ sort = "title" /\ U = docs
      BY <2>2, StudiesKnows DEF StudiesWay, S!SortOf
    <3> QED  BY <2>1, <3>1, StudiesWholeOf
  <2>3. CASE page.pc = "lexical"
    <3>1. sort = S!SortOf("hybrid") /\ U = S!Matches(docs)  BY <2>3, StudiesKnows, StudiesSortIs
    <3>2. page.mode \in {"lexical", "hybrid"} /\ (page.mode = "hybrid" => StudiesBlock = <<>>)
      BY <2>3, StudiesKnows DEF StudiesWay
    <3> HIDE DEF U, sort
    <3> QED  BY <2>1, <3>1, <3>2, StudiesWholeOf
  <2> QED  BY <1>1, <2>2, <2>3
<1> HIDE DEF U, sort
<1>4. StudiesAnswers(a, S!Shown(S!Listed(U, sort)), U, page.offset)
  BY <1>2, StudiesKnows, StudiesListing
<1> HIDE DEF a
<1>5. StudiesGood(a, page.offset, page.mode)  BY <1>3, <1>4 DEF StudiesGood
<1> QED  BY <1>1, <1>5, StudiesAnswersUnlessEmpty

LEMMA StudiesCountKeeps ==
  ASSUME S!StudiesAssumption, StudiesInv, S!Count
  PROVE  StudiesInv'
<1>1. page.pc = "count" /\ S!Quiet  BY DEF S!Count
<1>2. StudiesGood(page.answer, page.offset, page.mode)  BY <1>1, StudiesKnows DEF StudiesWay
<1>3. CASE docs = {}
  <2>1. S!At("error") /\ pages' = pages  BY <1>3 DEF S!Count
  <2> QED  BY <1>1, <2>1, StudiesMovesOn DEF StudiesPcs
<1>4. CASE docs # {}
  <2>1. S!Answer(page.answer)  BY <1>4 DEF S!Count
  <2> QED  BY <1>1, <1>2, <2>1, StudiesAnswered
<1> QED  BY <1>3, <1>4

LEMMA StudiesEmbedKeeps ==
  ASSUME S!StudiesAssumption, StudiesInv, S!Embed
  PROVE  StudiesInv'
<1>1. page.pc = "embed" /\ S!Quiet /\ pages' = pages  BY DEF S!Embed
<1>2. page.mode \in {"semantic", "hybrid"} /\ (StudiesCalm => req.token \notin docs)
  BY <1>1, StudiesKnows DEF StudiesWay
<1>3. CASE S!At("vector")
  BY <1>1, <1>2, <1>3, StudiesMovesOn DEF StudiesPcs
<1>4. CASE page' = [page EXCEPT !.pc = "lexical", !.mode = "lexical"]
  <2>1. page' = [pc |-> "lexical", mode |-> "lexical", offset |-> page.offset,
                 block |-> page.block, fused |-> page.fused, answer |-> page.answer]
    BY <1>4, StudiesKnows DEF StudiesPage
  <2>2. StudiesPage'
    BY <2>1, StudiesKnows DEF StudiesPage, StudiesPcs, StudiesModes, StudiesLists
  <2>3. StudiesWay'  BY <1>1, <1>2, <2>1, StudiesQuietKeeps DEF StudiesWay
  <2> QED  BY <1>1, <2>1, <2>2, <2>3, StudiesGoesOn
<1>5. CASE page' = [page EXCEPT !.pc = "error"]
  <2>1. S!At("error")  BY <1>5 DEF S!At
  <2> QED  BY <1>1, <2>1, StudiesMovesOn DEF StudiesPcs
<1> QED  BY <1>3, <1>4, <1>5 DEF S!Embed

LEMMA StudiesVectorKeeps ==
  ASSUME S!StudiesAssumption, StudiesInv, S!VectorSearch
  PROVE  StudiesInv'
<1> DEFINE V == S!Vector  pc == IF V = <<>> THEN "block" ELSE "enrich"
<1>1. page.pc = "vector" /\ S!Quiet /\ pages' = pages  BY DEF S!VectorSearch
<1>2. page.mode \in {"semantic", "hybrid"} /\ (StudiesCalm => req.token \notin docs)
  BY <1>1, StudiesKnows DEF StudiesWay
<1>3. page' = [page EXCEPT !.pc = pc, !.block = V]  BY DEF S!VectorSearch
<1>4. page' = [pc |-> pc, mode |-> page.mode, offset |-> page.offset,
               block |-> V, fused |-> page.fused, answer |-> page.answer]
  BY <1>3, StudiesKnows DEF StudiesPage
<1>5. StudiesLists(V, ToSet(V))  BY StudiesKnows, StudiesEmpty, StudiesHeadLists DEF StudiesLists
<1>6. V = <<>> => StudiesBlock = V
  <2> SUFFICES ASSUME V = <<>>  PROVE StudiesBlock = <<>>  OBVIOUS
  <2>1. StudiesLists(S!Enriched(<<>>), {} \cap docs)  BY StudiesEmpty, StudiesEnriched
  <2>2. {} \cap docs = {}  OBVIOUS
  <2>3. S!Enriched(<<>>) = <<>>  BY <2>1, <2>2, StudiesNone
  <2> QED  BY <2>3 DEF StudiesBlock
<1>7. V' = V /\ StudiesBlock' = StudiesBlock
  BY <1>1, StudiesQuietKeeps, StudiesStillListed, StudiesStillWhole
<1> HIDE DEF V
<1>8. pc \in {"block", "enrich"} /\ (pc = "block" => V = <<>>)  OBVIOUS
<1> HIDE DEF pc
<1>9. page'.pc = pc /\ page'.mode = page.mode /\ page'.offset = page.offset /\ page'.block = V
      /\ page'.fused = page.fused
  BY <1>4
<1>10. StudiesPage'
  <2>1. StudiesLists(V, ToSet(V))'
    BY <1>5, <1>7 DEF StudiesLists
  <2>2. StudiesLists(page.fused, ToSet(page.fused))'
    BY <1>9, StudiesKnows DEF StudiesPage, StudiesLists
  <2> QED  BY <1>4, <1>7, <1>8, <2>1, <2>2, StudiesKnows DEF StudiesPage, StudiesPcs
<1>11. StudiesWay'
  <2>1. page'.block = S!Vector'  BY <1>7, <1>9 DEF V
  <2>2. StudiesCalm' => (page'.pc = "block" => page'.block = StudiesBlock')
    BY <1>6, <1>7, <1>8, <1>9
  <2>3. req' = req /\ docs' = docs /\ StudiesCalm' = StudiesCalm  BY <1>1, StudiesQuietKeeps
  <2> QED  BY <1>2, <1>8, <1>9, <2>1, <2>2, <2>3 DEF StudiesWay
<1> QED  BY <1>1, <1>8, <1>9, <1>10, <1>11, StudiesGoesOn

LEMMA StudiesEnrichKeeps ==
  ASSUME S!StudiesAssumption, StudiesInv, S!Enrich
  PROVE  StudiesInv'
<1> DEFINE B == S!Enriched(page.block)
<1>1. page.pc = "enrich" /\ S!Quiet /\ pages' = pages  BY DEF S!Enrich
<1>2. page.mode \in {"semantic", "hybrid"} /\ (StudiesCalm => req.token \notin docs)
      /\ B = StudiesBlock
  BY <1>1, StudiesKnows DEF StudiesWay, StudiesBlock
<1>3. page' = [page EXCEPT !.pc = "block", !.block = B]  BY DEF S!Enrich
<1>4. page' = [pc |-> "block", mode |-> page.mode, offset |-> page.offset,
               block |-> B, fused |-> page.fused, answer |-> page.answer]
  BY <1>3, StudiesKnows DEF StudiesPage
<1>5. StudiesLists(StudiesBlock, ToSet(StudiesBlock))
  BY StudiesKnows, StudiesEmpty, StudiesHeadLists DEF StudiesLists
<1>6. req' = req /\ docs' = docs /\ StudiesCalm' = StudiesCalm /\ StudiesBlock' = StudiesBlock
  BY <1>1, StudiesQuietKeeps, StudiesStillWhole
<1> HIDE DEF B
<1>7. page'.pc = "block" /\ page'.mode = page.mode /\ page'.offset = page.offset
      /\ page'.block = StudiesBlock /\ page'.fused = page.fused
  BY <1>2, <1>4
<1>8. StudiesPage'
  <2>1. StudiesLists(page.block, ToSet(page.block))'
    BY <1>5, <1>7 DEF StudiesLists
  <2>2. StudiesLists(page.fused, ToSet(page.fused))'
    BY <1>7, StudiesKnows DEF StudiesPage, StudiesLists
  <2> QED  BY <1>4, <1>7, <2>1, <2>2, StudiesKnows DEF StudiesPage, StudiesPcs
<1>9. StudiesWay'  BY <1>2, <1>6, <1>7 DEF StudiesWay
<1> QED  BY <1>1, <1>7, <1>8, <1>9, StudiesGoesOn

LEMMA StudiesNoBlockKeeps ==
  ASSUME S!StudiesAssumption, StudiesInv, S!NoBlock
  PROVE  StudiesInv'
<1> DEFINE a == [found |-> 0, counts |-> S!CountBy({}), hits |-> <<>>]
<1>1. page.pc = "block" /\ page.block = <<>> /\ S!Quiet  BY DEF S!NoBlock
<1>2. page.mode \in {"semantic", "hybrid"}
      /\ (StudiesCalm => req.token \notin docs /\ StudiesBlock = <<>>)
  BY <1>1, StudiesKnows DEF StudiesWay
<1>3. CASE page.mode = "hybrid"
  <2>1. S!At("lexical") /\ pages' = pages  BY <1>3 DEF S!NoBlock
  <2> QED  BY <1>1, <1>2, <1>3, <2>1, StudiesMovesOn DEF StudiesPcs
<1>4. CASE page.mode # "hybrid"
  <2>1. S!CountFirst(a) /\ page.mode = "semantic"  BY <1>2, <1>4 DEF S!NoBlock
  <2>2. StudiesAnswers(a, <<>>, {}, page.offset)
    <3>1. StudiesInTab({}) = {}  BY DEF StudiesInTab
    <3>2. req.limit \in Nat  BY StudiesKnows, StudiesGiven DEF S!Requests
    <3>3. StudiesLists(<<>>, {})  BY StudiesEmpty
    <3>4. Part(<<>>, page.offset, req.limit) = <<>>
      <4> DEFINE s == <<>>  o == page.offset  k == req.limit
      <4>1. s \in Seq(Titled) /\ o \in Nat /\ k \in Nat  BY <3>2, StudiesKnows
      <4> HIDE DEF s, o, k
      <4>2. PartOf(Part(s, o, k), Titled, s, o, k)  BY <4>1, PartIs
      <4>3. Part(s, o, k) \in Seq(Titled) /\ ToSet(Part(s, o, k)) \subseteq ToSet(s)
        BY <4>2 DEF PartOf
      <4>4. ToSet(Part(s, o, k)) = {}  BY <3>3, <4>3 DEF s, StudiesLists
      <4>5. StudiesLists(Part(s, o, k), {})
        BY <4>3, <4>4 DEF StudiesLists, IsInjective, ToSet
      <4>6. Part(s, o, k) = <<>>  BY <4>5, StudiesNone
      <4> QED  BY <4>6 DEF s, o, k
    <3>5. a.found = Len(<<>>) /\ a.counts = S!CountBy({}) /\ a.hits = <<>>  OBVIOUS
    <3> HIDE DEF a
    <3> QED  BY <3>1, <3>3, <3>4, <3>5 DEF StudiesAnswers
  <2>3. StudiesCalm => S!Shown(S!Whole("semantic")) = <<>>
    <3> SUFFICES ASSUME StudiesCalm  PROVE S!Shown(S!Whole("semantic")) = <<>>  OBVIOUS
    <3>1. req.token \notin docs /\ StudiesBlock = <<>> /\ StudiesTyped  BY <1>2, StudiesKnows
    <3>2. StudiesLists(S!Whole("semantic"), {})
      <4>1. CASE S!SortOf("hybrid") = "title"
        <5>1. S!Whole("semantic") = S!Listed(ToSet(<<>>), "title")
          BY <3>1, <4>1, StudiesWholeOf
        <5>2. ToSet(<<>>) = {} /\ "title" \in StudiesSorts
          BY StudiesEmpty DEF StudiesLists, StudiesSorts
        <5> QED  BY <5>1, <5>2, StudiesKnows, StudiesListed
      <4>2. CASE S!SortOf("hybrid") # "title"
        <5>1. S!Whole("semantic") =
                IF S!SortOf("hybrid") = "asc" THEN S!Reverse(<<>>) ELSE <<>>
          BY <3>1, <4>2, StudiesWholeOf
        <5>2. StudiesLists(S!Reverse(<<>>), {})  BY StudiesEmpty, StudiesTurned
        <5> QED  BY <5>1, <5>2, StudiesEmpty
      <4> QED  BY <4>1, <4>2
    <3>3. S!Whole("semantic") = <<>>  BY <3>2, StudiesNone
    <3>4. StudiesLists(S!Shown(<<>>), StudiesInTab({}))  BY StudiesEmpty, StudiesShown
    <3>5. StudiesInTab({}) = {}  BY DEF StudiesInTab
    <3> QED  BY <3>3, <3>4, <3>5, StudiesNone
  <2> HIDE DEF a
  <2>4. StudiesGood(a, page.offset, page.mode)  BY <2>1, <2>2, <2>3 DEF StudiesGood
  <2> QED  BY <1>1, <2>1, <2>4, StudiesCounts
<1> QED  BY <1>3, <1>4

LEMMA StudiesSemanticKeeps ==
  ASSUME S!StudiesAssumption, StudiesInv, S!Semantic
  PROVE  StudiesInv'
<1> DEFINE B == page.block  sort == S!SortOf("semantic")  U == docs \cap S!Range(B)
<1>1. page.pc = "block" /\ B # <<>> /\ page.mode = "semantic" /\ S!Quiet  BY DEF S!Semantic
<1>2. StudiesCalm => req.token \notin docs /\ StudiesBlock = B
  BY <1>1, StudiesKnows DEF StudiesWay
<1>3. StudiesLists(B, ToSet(B)) /\ S!Range(B) = ToSet(B)
  BY StudiesKnows, StudiesRange DEF StudiesPage
<1>4. sort = S!SortOf("hybrid") /\ sort \in StudiesSorts  BY StudiesKnows, StudiesSortIs
<1>5. ToSet(B) \in SUBSET Titled
  <2>1. B \in Seq(Titled)  BY <1>3 DEF StudiesLists
  <2> QED  BY <2>1 DEF ToSet
<1>6. CASE sort = "title"
  <2> DEFINE a == S!Listing(U, "title", page.offset, req.limit)
  <2>1. S!AnswerUnlessEmpty(a)  BY <1>6 DEF S!Semantic
  <2>2. U \in SUBSET Titled  BY StudiesKnows
  <2>3. StudiesCalm => S!Listed(U, "title") = S!Whole("semantic")
    <3> SUFFICES ASSUME StudiesCalm  PROVE S!Listed(U, "title") = S!Whole("semantic")  OBVIOUS
    <3>1. StudiesTyped /\ ToSet(StudiesBlock) \subseteq docs
      BY <1>3, StudiesKnows, StudiesHeadLists
    <3>2. U = ToSet(StudiesBlock)  BY <1>2, <1>3, <3>1
    <3> HIDE DEF U
    <3>3. S!Whole("semantic") = S!Listed(ToSet(StudiesBlock), "title")
      BY <1>2, <1>4, <1>6, <3>1, StudiesWholeOf
    <3> QED  BY <3>2, <3>3
  <2> HIDE DEF U
  <2>4. StudiesAnswers(a, S!Shown(S!Listed(U, "title")), U, page.offset)
    BY <2>2, StudiesKnows, StudiesListing DEF StudiesSorts
  <2> HIDE DEF a
  <2>5. StudiesGood(a, page.offset, page.mode)  BY <1>1, <2>3, <2>4 DEF StudiesGood
  <2> QED  BY <1>1, <2>1, <2>5, StudiesAnswersUnlessEmpty
<1>7. CASE sort # "title"
  <2> DEFINE all == IF sort = "asc" THEN S!Reverse(B) ELSE B  R == S!Shown(all)
             a == [found |-> Len(R), counts |-> S!CountBy(S!Range(B)),
                   hits |-> S!Cut(R, page.offset, req.limit)]
  <2>1. S!Answer(a)  BY <1>7 DEF S!Semantic
  <2>2. StudiesLists(all, ToSet(B))  BY <1>3, StudiesTurned
  <2>3. StudiesCalm => all = S!Whole("semantic")
    BY <1>2, <1>4, <1>7, StudiesKnows, StudiesWholeOf
  <2> HIDE DEF all
  <2>4. StudiesLists(R, StudiesInTab(ToSet(B)))  BY <2>2, StudiesShown
  <2>5. StudiesCalm => R = S!Shown(S!Whole("semantic"))  BY <2>3
  <2> HIDE DEF R
  <2>6. a.hits = Part(R, page.offset, req.limit) /\ a.found = Len(R)
        /\ a.counts = S!CountBy(ToSet(B))
    BY <1>3, StudiesCut
  <2> HIDE DEF a
  <2>7. StudiesAnswers(a, R, ToSet(B), page.offset)  BY <1>5, <2>4, <2>6 DEF StudiesAnswers
  <2>8. StudiesGood(a, page.offset, page.mode)  BY <1>1, <2>5, <2>7 DEF StudiesGood
  <2> QED  BY <1>1, <2>1, <2>8, StudiesAnswered
<1> QED  BY <1>6, <1>7

LEMMA StudiesHybridSortedKeeps ==
  ASSUME S!StudiesAssumption, StudiesInv, S!HybridSorted
  PROVE  StudiesInv'
<1> DEFINE B == page.block  U == S!Matches(docs) \cup (docs \cap S!Range(B))
           a == S!Listing(U, "title", page.offset, req.limit)
<1>1. page.pc = "block" /\ B # <<>> /\ page.mode = "hybrid" /\ S!Quiet
      /\ S!SortOf("hybrid") = "title" /\ S!Answer(a)
  BY DEF S!HybridSorted
<1>2. StudiesCalm => req.token \notin docs /\ StudiesBlock = B
  BY <1>1, StudiesKnows DEF StudiesWay
<1>3. S!Range(B) = ToSet(B)  BY StudiesRange
<1>4. U \in SUBSET Titled  BY StudiesKnows
<1>5. StudiesCalm => S!Listed(U, "title") = S!Whole("hybrid")
  <2> SUFFICES ASSUME StudiesCalm  PROVE S!Listed(U, "title") = S!Whole("hybrid")  OBVIOUS
  <2>1. StudiesTyped /\ ToSet(StudiesBlock) \subseteq docs
    BY StudiesKnows, StudiesEmpty, StudiesHeadLists DEF StudiesLists
  <2>2. U = S!Matches(docs) \cup ToSet(StudiesBlock)  BY <1>2, <1>3, <2>1
  <2> HIDE DEF U
  <2>3. S!Whole("hybrid") = S!Listed(S!Matches(docs) \cup ToSet(StudiesBlock), "title")
    BY <1>1, <1>2, <2>1, StudiesWholeOf
  <2> QED  BY <2>2, <2>3
<1> HIDE DEF U
<1>6. StudiesAnswers(a, S!Shown(S!Listed(U, "title")), U, page.offset)
  BY <1>4, StudiesKnows, StudiesListing DEF StudiesSorts
<1> HIDE DEF a
<1>7. StudiesGood(a, page.offset, page.mode)  BY <1>1, <1>5, <1>6 DEF StudiesGood
<1> QED  BY <1>1, <1>7, StudiesAnswered

LEMMA StudiesHybridHeadKeeps ==
  ASSUME S!StudiesAssumption, StudiesInv, S!HybridHead
  PROVE  StudiesInv'
<1> DEFINE B == page.block
           f == S!Promoted(S!Fuse(S!KeywordHead(docs), B), S!KeywordHead(docs))
<1>1. page.pc = "block" /\ B # <<>> /\ page.mode = "hybrid" /\ S!Quiet /\ pages' = pages
      /\ S!SortOf("hybrid") # "title" /\ page' = [page EXCEPT !.pc = "tail", !.fused = f]
  BY DEF S!HybridHead
<1>2. StudiesCalm => req.token \notin docs /\ StudiesBlock = B
  BY <1>1, StudiesKnows DEF StudiesWay
<1>3. StudiesLists(B, ToSet(B))  BY StudiesKnows DEF StudiesPage
<1>4. PICK G \in SUBSET Titled : StudiesLists(f, G)
  BY <1>3, StudiesKnows, StudiesHeadLists
<1>5. StudiesCalm => f = StudiesHead  BY <1>2 DEF StudiesHead
<1> HIDE DEF f
<1>6. page' = [pc |-> "tail", mode |-> page.mode, offset |-> page.offset,
               block |-> B, fused |-> f, answer |-> page.answer]
  BY <1>1, StudiesKnows DEF StudiesPage
<1>7. page'.pc = "tail" /\ page'.mode = page.mode /\ page'.offset = page.offset
      /\ page'.block = B /\ page'.fused = f
  BY <1>6
<1>8. StudiesPage'
  <2>1. StudiesLists(page.block, ToSet(page.block))'
    BY <1>3, <1>7 DEF StudiesLists
  <2>2. StudiesLists(page.fused, ToSet(page.fused))'
    BY <1>4, <1>7 DEF StudiesLists
  <2> QED  BY <1>6, <1>7, <2>1, <2>2, StudiesKnows DEF StudiesPage, StudiesPcs
<1>9. StudiesWay'
  <2>1. /\ req' = req /\ docs' = docs /\ StudiesCalm' = StudiesCalm /\ StudiesBlock' = StudiesBlock
        /\ StudiesHead' = StudiesHead /\ S!SortOf("hybrid")' = S!SortOf("hybrid")
    BY <1>1, StudiesQuietKeeps, StudiesStillWhole, StudiesStillListed
  <2> QED  BY <1>1, <1>2, <1>5, <1>7, <2>1 DEF StudiesWay
<1> QED  BY <1>1, <1>7, <1>8, <1>9, StudiesGoesOn

LEMMA StudiesHybridTailKeeps ==
  ASSUME S!StudiesAssumption, StudiesInv, S!HybridTail
  PROVE  StudiesInv'
<1> DEFINE sort == S!SortOf("hybrid")  f == page.fused  G == ToSet(f)
           a == S!HybridPage(f, sort)  R == StudiesHybrid(f, G, sort)
<1>1. page.pc = "tail" /\ S!Quiet /\ S!Answer(a)  BY DEF S!HybridTail
<1>2. /\ page.mode = "hybrid" /\ sort # "title"
      /\ StudiesCalm => req.token \notin docs /\ f = StudiesHead /\ StudiesBlock # <<>>
  BY <1>1, StudiesKnows DEF StudiesWay
<1>3. StudiesLists(f, G) /\ G \in SUBSET Titled
  <2>1. StudiesLists(f, G)  BY StudiesKnows DEF StudiesPage
  <2>2. f \in Seq(Titled)  BY <2>1 DEF StudiesLists
  <2> QED  BY <2>1, <2>2 DEF ToSet
<1>4. sort \in {"desc", "asc"} /\ sort \in StudiesSorts
  BY <1>2, StudiesKnows, StudiesSortIs DEF StudiesSorts
<1>5. StudiesAnswers(a, R, G \cup StudiesRest(G), page.offset)
  <2> HIDE DEF sort, f, G
  <2> QED  BY <1>3, <1>4, StudiesKnows, StudiesHybridPage
<1>6. StudiesCalm => R = S!Shown(S!Whole("hybrid"))
  <2> SUFFICES ASSUME StudiesCalm  PROVE R = S!Shown(S!Whole("hybrid"))  OBVIOUS
  <2> DEFINE L == S!Listed(StudiesRest(G), sort)
  <2>1. S!Whole("hybrid") = IF sort = "desc" THEN f \o L ELSE L \o S!Reverse(f)
    BY <1>2, StudiesKnows, StudiesWholeOf
  <2>2. StudiesRest(G) \in SUBSET Titled /\ G \cap StudiesRest(G) = {}
        /\ StudiesRest(G) \cap G = {}
    BY StudiesKnows DEF StudiesRest
  <2>3. StudiesLists(L, StudiesRest(G))  BY <1>4, <2>2, StudiesKnows, StudiesListed
  <2>4. R = IF sort = "desc" THEN S!Shown(f) \o S!Shown(L) ELSE S!Shown(L) \o S!Reverse(S!Shown(f))
    BY DEF StudiesHybrid
  <2> HIDE DEF L, R, sort, f, G
  <2>5. StudiesLists(S!Reverse(f), G) /\ S!Shown(S!Reverse(f)) = S!Reverse(S!Shown(f))
    BY <1>3, StudiesTurned
  <2>6. S!Shown(f \o L) = S!Shown(f) \o S!Shown(L)
    BY <1>3, <2>2, <2>3, StudiesShownConcat
  <2> DEFINE J == S!Reverse(f)
  <2>7. StudiesLists(J, G)  BY <2>5
  <2> HIDE DEF J
  <2>8. S!Shown(L \o J) = S!Shown(L) \o S!Shown(J)
    BY <2>2, <2>3, <2>7, StudiesShownConcat
  <2> QED  BY <2>1, <2>4, <2>5, <2>6, <2>8 DEF J
<1> HIDE DEF a, R
<1>7. StudiesGood(a, page.offset, page.mode)  BY <1>2, <1>5, <1>6 DEF StudiesGood
<1> QED  BY <1>1, <1>7, StudiesAnswered

LEMMA StudiesFailKeeps ==
  ASSUME S!StudiesAssumption, StudiesInv, S!Fail
  PROVE  StudiesInv'
<1>1. page.pc \notin {"idle", "answered", "error"} /\ S!At("error") /\ pages' = pages /\ S!Quiet
  BY DEF S!Fail
<1> QED  BY <1>1, StudiesMovesOn DEF StudiesPcs

LEMMA StudiesAskKeeps ==
  ASSUME S!StudiesAssumption, StudiesInv, S!AskPage
  PROVE  StudiesInv'
<1> DEFINE mode == S!Resolve(req)
           o == IF page.pc = "idle" THEN 0 ELSE page.offset + req.limit
           pc == IF req.token # None THEN "exact" ELSE S!FirstStep(mode)
<1>1. /\ S!Quiet /\ pages' = pages /\ page.pc \in {"idle", "answered"}
      /\ page' = [S!Blank EXCEPT !.pc = pc, !.mode = mode, !.offset = o]
  BY DEF S!AskPage
<1>2. page' = [pc |-> pc, mode |-> mode, offset |-> o, block |-> <<>>, fused |-> <<>>,
               answer |-> None]
  BY <1>1 DEF S!Blank
<1>3. req.limit \in Nat /\ req \in S!Requests  BY StudiesKnows, StudiesGiven DEF S!Requests
<1>4. mode \in StudiesModes  BY <1>3 DEF S!Requests, S!Resolve, StudiesModes
<1>5. /\ pc \in {"exact", "browse", "lexical", "embed"}
      /\ pc = "browse" => mode = "browse"
      /\ pc = "lexical" => mode = "lexical"
      /\ pc = "embed" => mode \in {"semantic", "hybrid"}
  <2>1. S!FirstStep(mode) =
          IF mode = "browse" THEN "browse" ELSE IF mode = "lexical" THEN "lexical" ELSE "embed"
    BY DEF S!FirstStep
  <2> QED  BY <1>4, <2>1 DEF StudiesModes
<1>6. pc # "exact" => req.token \notin docs  BY <1>5, StudiesKnows
<1>7. o \in Nat /\ o = Len(pages) * req.limit
  <2> DEFINE n == Len(pages)  k == req.limit
  <2>1. n \in Nat /\ k \in Nat /\ page.offset \in Nat
    BY <1>3, StudiesKnows DEF StudiesPages
  <2>2. page.pc = "idle" => n = 0 /\ o = 0  BY StudiesKnows DEF StudiesPlace
  <2>3. page.pc = "answered" => page.offset = (n - 1) * k /\ o = page.offset + k
    BY StudiesKnows DEF StudiesPlace
  <2> HIDE DEF n, k, o
  <2>4. (n - 1) * k + k = n * k /\ n * k \in Nat /\ 0 * k = 0  BY <2>1
  <2>5. o = n * k /\ o \in Nat  BY <1>1, <2>2, <2>3, <2>4
  <2> QED  BY <2>5 DEF n, k
<1>8. /\ req' = req /\ docs' = docs /\ StudiesCalm' = StudiesCalm /\ StudiesTyped'
      /\ (StudiesCalm' => StudiesCalm /\ StudiesQuiet)
  BY <1>1, StudiesKnows, StudiesQuietKeeps
<1> HIDE DEF mode, o, pc
<1>9. page'.pc = pc /\ page'.mode = mode /\ page'.offset = o /\ page'.block = <<>>
      /\ page'.fused = <<>>
  BY <1>2
<1>10. StudiesPage'
  <2>1. StudiesLists(<<>>, ToSet(<<>>))  BY StudiesEmpty DEF StudiesLists
  <2>2. StudiesLists(page.block, ToSet(page.block))' /\ StudiesLists(page.fused, ToSet(page.fused))'
    BY <1>9, <2>1 DEF StudiesLists
  <2> QED  BY <1>2, <1>4, <1>5, <1>7, <1>9, <2>2 DEF StudiesPage, StudiesPcs
<1>11. StudiesWay'  BY <1>5, <1>6, <1>8, <1>9 DEF StudiesWay
<1>12. StudiesPlace'  BY <1>1, <1>5, <1>7, <1>8, <1>9 DEF StudiesPlace
<1>13. StudiesPages'  BY <1>1, <1>8, StudiesKnows, StudiesPagesStay
<1> QED  BY <1>8, <1>10, <1>11, <1>12, <1>13 DEF StudiesInv

LEMMA StudiesChangeKeeps ==
  ASSUME S!StudiesAssumption, StudiesInv, S!Change
  PROVE  StudiesInv'
<1>1. score' = score /\ near' = near /\ req' = req /\ page' = page /\ pages' = pages
      /\ ~StudiesCalm'
  BY DEF S!Change, StudiesCalm
<1>2. StudiesTyped'
  <2>1. docs' \subseteq Titled  BY StudiesKnows DEF S!Change
  <2> QED  BY <1>1, <2>1, StudiesKnows DEF StudiesTyped, StudiesScored, S!Requests
<1>3. StudiesPage' /\ StudiesPlace'
  BY <1>1, StudiesKnows DEF StudiesPage, StudiesPlace, StudiesLists
<1>4. StudiesPages'  BY <1>1, StudiesKnows, StudiesPagesStay
<1>5. S!Vector' = S!Vector /\ S!SortOf("hybrid")' = S!SortOf("hybrid")
  BY <1>1 DEF S!Vector, S!SortOf
<1>6. page.pc = "count" => StudiesGood(page.answer, page.offset, page.mode)'
  <2> SUFFICES ASSUME page.pc = "count"
               PROVE  StudiesGood(page.answer, page.offset, page.mode)'
    OBVIOUS
  <2>1. PICK a, o, m : a = page.answer /\ o = page.offset /\ m = page.mode  OBVIOUS
  <2>2. StudiesGood(a, o, m)  BY <2>1, StudiesKnows DEF StudiesWay
  <2>3. StudiesGood(a, o, m)'  BY <1>1, <2>2, StudiesStillGood
  <2> QED  BY <1>1, <2>1, <2>3
<1>7. StudiesWay'  BY <1>1, <1>5, <1>6, StudiesKnows DEF StudiesWay
<1> QED  BY <1>2, <1>3, <1>4, <1>7 DEF StudiesInv

LEMMA StudiesInitHolds ==
  ASSUME S!StudiesAssumption, S!Init
  PROVE  StudiesInv
<1>1. /\ docs \in {Titled, {}} /\ score \in Scorings /\ near \in Rankings
      /\ req \in S!Requests /\ page = S!Blank /\ pages = <<>>
  BY DEF S!Init
<1>2. StudiesTyped  BY <1>1, StudiesGiven DEF StudiesTyped, StudiesScored
<1>3. StudiesPage
  <2>1. StudiesLists(<<>>, ToSet(<<>>))  BY StudiesEmpty DEF StudiesLists
  <2> QED  BY <1>1, <2>1 DEF S!Blank, StudiesPage, StudiesPcs, StudiesModes
<1>4. StudiesPlace  BY <1>1 DEF S!Blank, StudiesPlace
<1>5. StudiesPages  BY <1>1 DEF StudiesPages
<1>6. StudiesWay  BY <1>1 DEF S!Blank, StudiesWay
<1> QED  BY <1>2, <1>3, <1>4, <1>5, <1>6 DEF StudiesInv

LEMMA StudiesStep ==
  ASSUME S!StudiesAssumption, StudiesInv, [S!Next]_studyVars
  PROVE  StudiesInv'
<1>1. CASE S!Next
  BY <1>1, StudiesAskKeeps, StudiesExactKeeps, StudiesListKeeps, StudiesCountKeeps,
     StudiesEmbedKeeps, StudiesVectorKeeps, StudiesEnrichKeeps, StudiesNoBlockKeeps,
     StudiesSemanticKeeps, StudiesHybridSortedKeeps, StudiesHybridHeadKeeps,
     StudiesHybridTailKeeps, StudiesFailKeeps, StudiesChangeKeeps DEF S!Next
<1>2. CASE UNCHANGED studyVars
  <2>1. /\ docs' = docs /\ score' = score /\ near' = near /\ req' = req /\ page' = page
        /\ pages' = pages /\ calm' = calm
    BY <1>2 DEF studyVars
  <2>2. StudiesQuiet /\ StudiesCalm' = StudiesCalm
    BY <2>1 DEF StudiesQuiet, StudiesCalm, S!InTab
  <2>3. StudiesTyped'  BY <2>1, StudiesKnows DEF StudiesTyped, StudiesScored, S!Requests
  <2>4. StudiesPage' /\ StudiesPlace'
    BY <2>1, StudiesKnows DEF StudiesPage, StudiesPlace, StudiesLists
  <2>5. StudiesPages'  BY <2>1, <2>2, StudiesKnows, StudiesPagesStay
  <2>6. /\ StudiesBlock' = StudiesBlock /\ StudiesHead' = StudiesHead /\ S!Vector' = S!Vector
        /\ S!SortOf("hybrid")' = S!SortOf("hybrid")
    BY <2>2, StudiesStillWhole, StudiesStillListed
  <2>7. page.pc = "count" => StudiesGood(page.answer, page.offset, page.mode)'
    <3> SUFFICES ASSUME page.pc = "count"
                 PROVE  StudiesGood(page.answer, page.offset, page.mode)'
      OBVIOUS
    <3>1. PICK a, o, m : a = page.answer /\ o = page.offset /\ m = page.mode  OBVIOUS
    <3>2. StudiesGood(a, o, m)  BY <3>1, StudiesKnows DEF StudiesWay
    <3>3. StudiesGood(a, o, m)'  BY <2>1, <2>2, <3>2, StudiesStillGood
    <3> QED  BY <2>1, <3>1, <3>3
  <2>8. StudiesWay'  BY <2>1, <2>2, <2>6, <2>7, StudiesKnows DEF StudiesWay
  <2> QED  BY <2>3, <2>4, <2>5, <2>8 DEF StudiesInv
<1> QED  BY <1>1, <1>2

-----------------------------------------------------------------------------
(* What the invariant says of the pages.                                      *)

LEMMA StudiesAddUp ==
  ASSUME S!StudiesAssumption, StudiesInv
  PROVE  S!TypeOK /\ S!ResponsesAddUp
<1>1. ASSUME NEW i \in DOMAIN pages
      PROVE  S!AddsUp(pages[i]) /\ pages[i].found \in 0..S!Cardinality(Titled)
  <2> DEFINE r == pages[i]
  <2>1. i \in 1..Len(pages) /\ r \in StudiesResponses
    BY StudiesKnows DEF StudiesPages
  <2>2. StudiesGood(r, r.offset, r.mode) /\ r.offset \in Nat
    BY <2>1, StudiesKnows DEF StudiesPages, StudiesResponses
  <2> HIDE DEF r
  <2>3. PICK R, U : StudiesAnswers(r, R, U, r.offset)  BY <2>2 DEF StudiesGood
  <2>4. S!AddsUp(r) /\ r.found \in 0..S!Cardinality(Titled)
    BY <2>2, <2>3, StudiesKnows, StudiesAnswerKeeps
  <2> QED  BY <2>4 DEF r
<1>2. S!Range(page.block) \subseteq Titled /\ S!Range(page.fused) \subseteq Titled
  <2>1. page.block \in Seq(Titled) /\ page.fused \in Seq(Titled)
    BY StudiesKnows DEF StudiesPage, StudiesLists
  <2> QED  BY <2>1, StudiesRange DEF ToSet
<1> QED  BY <1>1, <1>2, StudiesKnows DEF S!TypeOK, S!ResponsesAddUp, StudiesPage, StudiesPcs

\* The studies of a hybrid search's whole result.
LEMMA StudiesHybridFinds ==
  ASSUME S!StudiesAssumption, StudiesTyped, req.token \notin docs
  PROVE  StudiesLists(S!Whole("hybrid"), S!Matches(docs) \cup ToSet(StudiesBlock))
<1> DEFINE sort == S!SortOf("hybrid")  B == StudiesBlock  J == StudiesHead
           M == S!Matches(docs)  G == ToSet(StudiesHead)  rest == StudiesRest(G)
           L == S!Listed(rest, sort)
<1>1. docs \subseteq Titled /\ StudiesScored /\ req \in S!Requests  BY DEF StudiesTyped
<1>2. M \subseteq Titled /\ sort \in StudiesSorts /\ "title" \in StudiesSorts
  BY <1>1, StudiesMatching, StudiesSortIs DEF StudiesSorts
<1>3. StudiesLists(B, ToSet(B)) /\ ToSet(B) \subseteq Titled
  BY <1>1, StudiesEmpty, StudiesHeadLists DEF StudiesLists
<1>4. StudiesLists(J, G) /\ G \subseteq Titled
      /\ ToSet(B) \subseteq G /\ G \subseteq M \cup ToSet(B)
  BY StudiesHeadIs
<1>5. CASE B = <<>>
  <2>1. S!Whole("hybrid") = S!Listed(M, sort)  BY <1>5, StudiesWholeOf
  <2>2. ToSet(B) = {}  BY <1>5, StudiesEmpty DEF StudiesLists
  <2>3. M \cup ToSet(B) = M  BY <2>2
  <2> QED  BY <1>1, <1>2, <2>1, <2>3, StudiesListed
<1>6. CASE B # <<>> /\ sort = "title"
  <2>1. S!Whole("hybrid") = S!Listed(M \cup ToSet(B), "title")  BY <1>6, StudiesWholeOf
  <2> DEFINE U == M \cup ToSet(B)
  <2>2. U \subseteq Titled  BY <1>2, <1>3
  <2> HIDE DEF U
  <2>3. StudiesLists(S!Listed(U, "title"), U)  BY <1>1, <1>2, <2>2, StudiesListed
  <2> QED  BY <2>1, <2>3 DEF U
<1>7. CASE B # <<>> /\ sort # "title"
  <2>1. S!Whole("hybrid") = IF sort = "desc" THEN J \o L ELSE L \o S!Reverse(J)
    BY <1>7, StudiesWholeOf
  <2>2. rest \subseteq Titled /\ G \cap rest = {} /\ rest \cap G = {}
        /\ G \cup rest = M \cup ToSet(B) /\ rest \cup G = M \cup ToSet(B)
    BY <1>2, <1>4 DEF StudiesRest
  <2> HIDE DEF rest, G, J
  <2>3. StudiesLists(L, rest)  BY <1>1, <1>2, <2>2, StudiesListed
  <2> HIDE DEF L
  <2>4. StudiesLists(J \o L, G \cup rest)  BY <1>4, <2>2, <2>3, StudiesConcat
  <2> DEFINE T2 == S!Reverse(J)
  <2>5. StudiesLists(T2, G)  BY <1>4, StudiesTurned
  <2> HIDE DEF T2
  <2>6. StudiesLists(L \o T2, rest \cup G)  BY <2>2, <2>3, <2>5, StudiesConcat
  <2> QED  BY <2>1, <2>2, <2>4, <2>6 DEF T2
<1> QED  BY <1>5, <1>6, <1>7

LEMMA StudiesJoinUp ==
  ASSUME S!StudiesAssumption, StudiesInv
  PROVE  S!PagesJoinUp
<1> SUFFICES ASSUME S!AllPages, req.token \in docs => S!InTab(req.token)
             PROVE  /\ S!Paged = S!Shown(S!Whole(page.mode))
                    /\ \A i \in DOMAIN pages : pages[i].found = Len(S!Paged)
                    /\ page.mode = "hybrid" /\ req.token \notin docs =>
                         S!Range(S!Paged) =
                           {x \in S!Matches(docs) \cup S!Range(S!Enriched(S!Vector)) : S!InTab(x)}
  BY DEF S!PagesJoinUp
<1> DEFINE n == Len(pages)  k == req.limit  R == S!Shown(S!Whole(page.mode))
<1>1. StudiesCalm /\ page.pc = "answered"  BY DEF S!AllPages, StudiesCalm
<1>2. n \in Nat \ {0} /\ k \in Nat \ {0} /\ page.offset = (n - 1) * k
      /\ DOMAIN pages = 1..n /\ pages[n].mode = page.mode /\ n \in 1..n
  BY <1>1, StudiesKnows, StudiesGiven DEF StudiesPlace, StudiesPages, S!Requests
<1>3. \A i \in 1..n : pages[i].mode = page.mode  BY <1>2 DEF S!AllPages
<1>4. ASSUME NEW i \in 1..n
      PROVE  /\ pages[i].hits = Part(R, (i - 1) * k, k) /\ pages[i].found = Len(R)
             /\ R \in Seq(Titled) /\ IsInjective(R)
  <2> DEFINE r == pages[i]
  <2>1. r.offset = (i - 1) * k /\ StudiesGood(r, r.offset, page.mode)
    BY <1>3, StudiesKnows DEF StudiesPages
  <2> HIDE DEF r
  <2>2. PICK R2, U : /\ StudiesAnswers(r, R2, U, r.offset)
                     /\ StudiesCalm => R2 = S!Shown(S!Whole(page.mode))
    BY <2>1 DEF StudiesGood
  <2>3. R2 = R  BY <1>1, <2>2
  <2> HIDE DEF R
  <2>4. r.hits = Part(R, (i - 1) * k, k) /\ r.found = Len(R) /\ R \in Seq(Titled) /\ IsInjective(R)
    BY <2>1, <2>2, <2>3 DEF StudiesAnswers, StudiesLists
  <2> QED  BY <2>4 DEF r
<1>5. Len(R) <= n * k
  <2>1. page.offset + k >= pages[n].found  BY StudiesLast DEF S!AllPages
  <2>2. pages[n].found = Len(R) /\ Len(R) \in Nat
    <3>1. pages[n].found = Len(R) /\ R \in Seq(Titled)  BY <1>2, <1>4
    <3> HIDE DEF R
    <3> QED  BY <3>1
  <2> DEFINE l == Len(R)
  <2> HIDE DEF n, k, l
  <2>3. (n - 1) * k + k = n * k  BY <1>2
  <2>4. l <= n * k  BY <1>2, <2>1, <2>2, <2>3 DEF l
  <2> QED  BY <2>4 DEF l
<1>6. R \in Seq(Titled)  BY <1>2, <1>4
<1>7. S!Paged = R
  <2> DEFINE c == [i \in DOMAIN pages |-> pages[i].hits]
  <2>1. S!Paged = FlattenSeq(c)  BY StudiesFlat DEF S!Paged
  <2> HIDE DEF R
  <2>2. c = [i \in 1..n |-> Part(R, (i - 1) * k, k)]  BY <1>2, <1>4
  <2> HIDE DEF c, n, k
  <2>3. n \in Nat \ {0} /\ k \in Nat /\ R \in Seq(Titled)  BY <1>2, <1>6
  <2>4. FlattenSeq(c) = R  BY ONLY <1>5, <2>2, <2>3, PagesAreAll
  <2> QED  BY <2>1, <2>4
<1>8. \A i \in DOMAIN pages : pages[i].found = Len(S!Paged)
  <2> HIDE DEF R
  <2> QED  BY <1>2, <1>4, <1>7
<1>9. ASSUME page.mode = "hybrid", req.token \notin docs
      PROVE  S!Range(S!Paged) =
               {x \in S!Matches(docs) \cup S!Range(S!Enriched(S!Vector)) : S!InTab(x)}
  <2> DEFINE U == S!Matches(docs) \cup ToSet(StudiesBlock)
  <2>1. StudiesLists(S!Whole("hybrid"), U)  BY <1>9, StudiesKnows, StudiesHybridFinds
  <2>2. U = S!Matches(docs) \cup S!Range(S!Enriched(S!Vector))
    BY StudiesRange DEF StudiesBlock
  <2> HIDE DEF U
  <2>3. StudiesLists(S!Shown(S!Whole("hybrid")), StudiesInTab(U))  BY <2>1, StudiesShown
  <2>4. ToSet(R) = StudiesInTab(U)  BY <1>9, <2>3 DEF StudiesLists
  <2> QED  BY <1>7, <2>2, <2>4, StudiesRange DEF StudiesInTab
<1> QED  BY <1>7, <1>8, <1>9

-----------------------------------------------------------------------------
\* The study search runs when it is the part that does.
LEMMA StudiesRun ==
  /\ ServicesInit => (part = "studies" => S!Init)
  /\ [ServicesNext]_servicesVars => part' = part /\ (part = "studies" => [S!Next]_studyVars)
<1>1. ServicesInit => (part = "studies" => S!Init)
  BY DEF ServicesInit
<1>2. ASSUME UNCHANGED servicesVars
      PROVE  UNCHANGED <<part, studyVars>>
  BY <1>2 DEF servicesVars
<1>3. ServicesNext => part' = part /\ (part = "studies" => S!Next)
  BY DEF ServicesNext
<1>. QED BY <1>1, <1>2, <1>3

LEMMA StudiesPartHolds == ServicesSpec => [](part = "studies" => StudiesInv)
<1>1. ServicesInit => (part = "studies" => StudiesInv)
  BY StudiesRun, StudiesInitHolds, ServicesAssumption DEF ServicesAssumption
<1>2. (part = "studies" => StudiesInv) /\ [ServicesNext]_servicesVars
        => (part = "studies" => StudiesInv)'
  BY StudiesRun, StudiesStep, ServicesAssumption DEF ServicesAssumption
<1>. QED BY <1>1, <1>2, PTL DEF ServicesSpec

\* A response's hits are distinct, in the tab and within the limit, its counts add up to its
\* total, and hits end there or before it, whatever changes between its requests; and while
\* nothing changes the pages join up to what the search as it runs answers in one piece, each
\* study once, whatever the mode, the sort, the tab and the windows.
THEOREM StudyPagesAreOneResult == ServicesSpec => []StudyPagesHold
<1>1. (part = "studies" => StudiesInv) => StudyPagesHold
  BY StudiesAddUp, StudiesJoinUp, ServicesAssumption
  DEF ServicesAssumption, StudyPagesHold
<1>. QED BY <1>1, StudiesPartHolds, PTL

\* Type correctness of the study search: with it, that no total exceeds the studies there are.
THEOREM StudiesAreTyped == ServicesSpec => [](part = "studies" => ServicesTypeOK)
<1>1. (part = "studies" => StudiesInv) => (part = "studies" => ServicesTypeOK)
  BY StudiesAddUp, ServicesAssumption DEF ServicesAssumption, ServicesTypeOK
<1>. QED BY <1>1, StudiesPartHolds, PTL

-----------------------------------------------------------------------------
(* The words of the chunk search are those of the lists. *)

LEMMA ChunkCardinality == ASSUME NEW U PROVE Q!Cardinality(U) = Cardinality(U)
BY DEF Q!Cardinality, Cardinality

LEMMA ChunkFinite == ASSUME NEW U PROVE Q!IsFiniteSet(U) <=> IsFiniteSet(U)
BY DEF Q!IsFiniteSet, IsFiniteSet

LEMMA ChunkRange == ASSUME NEW s PROVE Q!Range(s) = ToSet(s)
BY DEF Q!Range, ToSet

LEMMA ChunkOnceEach == ASSUME NEW s PROVE Q!IsInjective(s) <=> IsInjective(s)
BY DEF Q!IsInjective, IsInjective

LEMMA ChunkLast == ASSUME NEW s PROVE Q!Last(s) = s[Len(s)]
BY DEF Q!Last

LEMMA ChunkAtPlaces == ASSUME NEW s, NEW U PROVE Q!AtPlaces(s, U) = AtPlaces(s, U)
BY DEF Q!AtPlaces, AtPlaces, Q!Cardinality, Cardinality

LEMMA ChunkInOrder == ASSUME NEW U, NEW R PROVE Q!InOrder(U, R) = InOrder(U, R)
BY DEF Q!InOrder, InOrder, Q!Cardinality, Cardinality

LEMMA ChunkCut ==
  ASSUME NEW s, NEW from, NEW size
  PROVE  Q!Cut(s, from, size) = Part(s, from, size)
BY DEF Q!Cut, Part

LEMMA ChunkSum == ASSUME NEW f, NEW X PROVE Q!SumFunctionOnSet(f, X) = SumFunctionOnSet(f, X)
BY DEF Q!SumFunctionOnSet, SumFunctionOnSet, Q!FoldFunctionOnSet, FoldFunctionOnSet,
       Q!MapThenFoldSet, MapThenFoldSet

LEMMA ChunkFlat == ASSUME NEW s PROVE Q!FlattenSeq(s) = FlattenSeq(s)
BY DEF Q!FlattenSeq, FlattenSeq

LEMMA ChunkMin ==
  ASSUME NEW a \in Int, NEW b \in Int
  PROVE  Q!Min({a, b}) = IF a <= b THEN a ELSE b
BY DEF Q!Min

-----------------------------------------------------------------------------
(* Lists of chunks. *)

\* s lists the chunks of U, each once.
ChunkLists(s, U) == s \in Seq(Points) /\ IsInjective(s) /\ ToSet(s) = U

LEMMA ChunkGiven ==
  ASSUME Q!QdrantAssumption
  PROVE  /\ Points \subseteq Int /\ IsFiniteSet(Points) /\ DOMAIN Idno = Points
         /\ None \notin Points /\ Matching \subseteq Points
         /\ \A U \in SUBSET Points :
              /\ IsFiniteSet(U) /\ Cardinality(U) \in Nat /\ Cardinality(U) <= Cardinality(Points)
         /\ Cardinality(Points) \in Nat
         /\ ChunkLists(Lexical, ToSet(Lexical)) /\ ChunkLists(Nearest, ToSet(Nearest))
         /\ Close \in Nat /\ ScrollBatch \in Nat \ {0} /\ CountBatch \in Nat \ {0}
         /\ CountCap \in Nat \ {0} /\ Prefetch \in Nat \ {0} /\ Factor \in Nat \ {0}
         /\ Sizes \subseteq Nat \ {0} /\ Inner \in Nat \ {0} /\ ScanCap \in Nat \ {0}
<1>1. IsFiniteSet(Points)  BY ChunkFinite DEF Q!QdrantAssumption
<1>2. \A U \in SUBSET Points :
        IsFiniteSet(U) /\ Cardinality(U) \in Nat /\ Cardinality(U) <= Cardinality(Points)
  BY <1>1, FS_Subset, FS_CardinalityType
<1>3. ChunkLists(Lexical, ToSet(Lexical)) /\ ChunkLists(Nearest, ToSet(Nearest))
  BY ChunkOnceEach DEF Q!QdrantAssumption, ChunkLists
<1>4. Cardinality(Points) \in Nat  BY <1>1, FS_CardinalityType
<1> QED  BY <1>1, <1>2, <1>3, <1>4 DEF Q!QdrantAssumption

LEMMA ChunkThere ==
  ASSUME NEW s, NEW U, ChunkLists(s, U)
  PROVE  /\ ChunkLists(Q!There(s), U \cap points)
         /\ U \subseteq points => Q!There(s) = s
<1>1. Q!There(s) = Among(s, points)  BY ChunkAtPlaces DEF Q!There, Q!Where, Among
<1>2. Among(s, points) \in Seq(Points) /\ ToSet(Among(s, points)) = ToSet(s) \cap points
  BY AmongTyped DEF ChunkLists
<1>3. IsInjective(Among(s, points))  BY AmongOnce DEF ChunkLists
<1>4. U \subseteq points => Among(s, points) = s  BY AmongAll DEF ChunkLists
<1> QED  BY <1>1, <1>2, <1>3, <1>4 DEF ChunkLists

LEMMA ChunkPart ==
  ASSUME NEW s, NEW U, ChunkLists(s, U), NEW from \in Nat, NEW size \in Nat
  PROVE  /\ Q!Cut(s, from, size) = Part(s, from, size)
         /\ PartOf(Part(s, from, size), Points, s, from, size)
         /\ ChunkLists(Part(s, from, size), ToSet(Part(s, from, size)))
         /\ ToSet(Part(s, from, size)) \subseteq U
         /\ Len(Part(s, from, size)) \in 0..size
<1>1. Q!Cut(s, from, size) = Part(s, from, size)  BY ChunkCut
<1>2. PartOf(Part(s, from, size), Points, s, from, size)  BY PartIs DEF ChunkLists
<1> QED  BY <1>1, <1>2 DEF PartOf, ChunkLists

LEMMA ChunkCount ==
  ASSUME Q!QdrantAssumption, NEW s, NEW U, ChunkLists(s, U)
  PROVE  /\ Len(s) = Cardinality(U) /\ Len(s) \in Nat /\ Len(s) <= Cardinality(Points)
         /\ U \in SUBSET Points
<1>1. s \in Seq(Points) /\ IsInjective(s) /\ ToSet(s) = U  BY DEF ChunkLists
<1>2. Cardinality(U) = Len(s) /\ U \in SUBSET Points  BY <1>1, OnceIs
<1> QED  BY <1>1, <1>2, ChunkGiven

-----------------------------------------------------------------------------
(* Scrolling: the chunks of a set that are there, by their ids. *)

ChunkRow == {p \in Points \X Points : p[1] < p[2]}

LEMMA ChunkScrolled ==
  ASSUME Q!QdrantAssumption, points \subseteq Points, NEW U
  PROVE  /\ ChunkLists(Q!Scrolled(U), U \cap points) /\ Orders(ChunkRow, U \cap points)
         /\ Q!Scrolled(U) \in Seq(U \cap points)
         /\ Len(Q!Scrolled(U)) = Cardinality(U \cap points) /\ Len(Q!Scrolled(U)) \in Nat
         /\ \A i, j \in 1..Len(Q!Scrolled(U)) :
              i < j => <<Q!Scrolled(U)[i], Q!Scrolled(U)[j]>> \in ChunkRow
<1> DEFINE A == U \cap points
<1>1. A \in SUBSET Points /\ IsFiniteSet(A) /\ Cardinality(A) \in Nat  BY ChunkGiven
<1>2. Orders(ChunkRow, A)
  <2>1. \A x \in A : x \in Int /\ x \in Points  BY ChunkGiven
  <2>2. \A x, y \in A : <<x, y>> \in ChunkRow <=> x < y  BY <2>1 DEF ChunkRow
  <2> HIDE DEF A
  <2> QED  BY <2>1, <2>2 DEF Orders
<1>3. Q!Scrolled(U) = InOrder(A, ChunkRow)  BY ChunkInOrder DEF Q!Scrolled, ChunkRow
<1> DEFINE t == InOrder(A, ChunkRow)
<1> HIDE DEF A
<1>4. /\ t \in Seq(A) /\ Len(t) = Cardinality(A) /\ IsInjective(t) /\ ToSet(t) = A
      /\ \A i, j \in 1..Cardinality(A) : i < j => <<t[i], t[j]>> \in ChunkRow
  BY <1>1, <1>2, InOrderIs
<1>5. Q!Scrolled(U) = t  BY <1>3
<1> HIDE DEF t
<1>6. t \in Seq(Points)  BY <1>1, <1>4, SeqMonotonic
<1>7. ChunkLists(t, A)  BY <1>4, <1>6 DEF ChunkLists
<1> QED  BY <1>1, <1>2, <1>4, <1>5, <1>7 DEF A

\* From a cursor on, what is left of the list.
LEMMA ChunkRest ==
  ASSUME Q!QdrantAssumption, points \subseteq Points, NEW U, NEW n \in Nat, NEW L,
         L = Q!Scrolled(U), n < Len(L)
  PROVE  Q!Scrolled({p \in U : p >= L[n + 1]}) = Part(L, n, Len(L))
<1> DEFINE V == {p \in U : p >= L[n + 1]}  A == U \cap points  B == V \cap points
           s == Q!Scrolled(V)  t == Part(L, n, Len(L))
<1>1. /\ ChunkLists(L, A) /\ Len(L) \in Nat
      /\ \A i, j \in 1..Len(L) : i < j => <<L[i], L[j]>> \in ChunkRow
  BY ChunkScrolled
<1>2. /\ s \in Seq(B) /\ ChunkLists(s, B) /\ Orders(ChunkRow, B) /\ Len(s) = Cardinality(B)
      /\ Len(s) \in Nat
      /\ \A i, j \in 1..Len(s) : i < j => <<s[i], s[j]>> \in ChunkRow
  <2> HIDE DEF V
  <2> QED  BY ChunkScrolled DEF B
<1>3. L \in Seq(Points) /\ IsInjective(L) /\ ToSet(L) = A /\ DOMAIN L = 1..Len(L)
  BY <1>1 DEF ChunkLists
<1>4. \A i \in 1..Len(L) : L[i] \in Int /\ L[i] \in A  BY <1>3, ChunkGiven DEF ToSet
<1>5. \A i, j \in 1..Len(L) : i < j => L[i] < L[j]  BY <1>1 DEF ChunkRow
<1> DEFINE m == Len(L) - n
<1>6. m \in Nat /\ m > 0 /\ PartLen(Len(L), n, Len(L)) = m  BY <1>1 DEF PartLen
<1>7. /\ t \in Seq(Points) /\ Len(t) = m /\ IsInjective(t)
      /\ \A i \in 1..m : n + i \in 1..Len(L) /\ t[i] = L[n + i]
  <2>1. PartOf(t, Points, L, n, Len(L))  BY <1>1, <1>3, PartIs
  <2> HIDE DEF t, m
  <2> QED  BY <1>3, <1>6, <2>1 DEF PartOf
<1> HIDE DEF s, t
<1>8. ToSet(t) = B
  <2>1. DOMAIN t = 1..m  BY <1>7
  <2>2. n + 1 \in 1..Len(L)  BY <1>1
  <2>3. ASSUME NEW i \in 1..m  PROVE t[i] \in B
    <3>1. n + i \in 1..Len(L) /\ n + i \in Int /\ i \in Int /\ (i = 1 \/ n + 1 < n + i)  BY <1>6, <1>7
    <3>2. L[n + i] >= L[n + 1]
      <4>1. CASE i = 1  BY <1>4, <2>2, <4>1
      <4>2. CASE i # 1
        <5>1. L[n + 1] < L[n + i]  BY <1>5, <2>2, <3>1, <4>2
        <5> QED  BY <1>4, <2>2, <3>1, <5>1
      <4> QED  BY <4>1, <4>2
    <3> QED  BY <1>4, <1>7, <3>1, <3>2
  <2>4. ASSUME NEW x \in B  PROVE \E i \in 1..m : t[i] = x
    <3>1. x \in A /\ x >= L[n + 1]  OBVIOUS
    <3>2. PICK k \in 1..Len(L) : L[k] = x  BY <1>3, <3>1 DEF ToSet
    <3>3. ~(k < n + 1)
      <4> SUFFICES ASSUME k < n + 1  PROVE FALSE  OBVIOUS
      <4>1. L[k] < L[n + 1]  BY <1>5, <2>2
      <4> QED  BY <1>4, <2>2, <3>1, <3>2, <4>1
    <3>4. k - n \in 1..m /\ n + (k - n) = k  BY <1>1, <3>3
    <3> QED  BY <1>7, <3>2, <3>4
  <2> HIDE DEF B, m
  <2> QED  BY <2>1, <2>3, <2>4 DEF ToSet
<1>9. Len(t) = Len(s)
  <2>1. ChunkLists(t, B)  BY <1>7, <1>8 DEF ChunkLists
  <2> QED  BY <1>2, <2>1, ChunkCount
<1>10. t \in Seq(B)
  <2>1. \A i \in 1..Len(t) : t[i] \in B  BY <1>7, <1>8 DEF ToSet
  <2> QED  BY <1>7, <2>1
<1>11. \A i, j \in 1..Len(t) : i < j => <<t[i], t[j]>> \in ChunkRow
  <2> SUFFICES ASSUME NEW i \in 1..Len(t), NEW j \in 1..Len(t), i < j
               PROVE  <<t[i], t[j]>> \in ChunkRow
    OBVIOUS
  <2>1. n + i \in 1..Len(L) /\ n + j \in 1..Len(L) /\ n + i < n + j
        /\ t[i] = L[n + i] /\ t[j] = L[n + j]
    BY <1>6, <1>7
  <2> QED  BY <1>1, <2>1
<1>12. IsInjective(s) /\ ToSet(s) = B  BY <1>2 DEF ChunkLists
<1> HIDE DEF B
<1>13. s = t  BY <1>2, <1>7, <1>8, <1>9, <1>10, <1>11, <1>12, OneOrder
<1> QED  BY <1>13 DEF s, t

-----------------------------------------------------------------------------
(* Collapsing: the first chunk of each group, in order. *)

ChunkFirsts(s) == {i \in DOMAIN s : \A j \in 1..(i - 1) : Idno[s[j]] # Idno[s[i]]}

LEMMA ChunkLeaders ==
  ASSUME NEW s \in Seq(Points), NEW l, l = Q!Leaders(s)
  PROVE  /\ l \in Seq(Points) /\ Len(l) \in 0..Len(s) /\ ToSet(l) \subseteq ToSet(s)
         /\ \A i, j \in 1..Len(l) : Idno[l[i]] = Idno[l[j]] => i = j
         /\ {Idno[p] : p \in ToSet(l)} = {Idno[p] : p \in ToSet(s)}
<1> DEFINE H == ChunkFirsts(s)  k == AtPlaces(s, H)
<1>1. l = k  BY ChunkAtPlaces DEF Q!Leaders, ChunkFirsts
<1>2. H \in SUBSET DOMAIN s /\ DOMAIN s = 1..Len(s) /\ Len(s) \in Nat  BY DEF ChunkFirsts
<1>3. \A i \in H, j \in 1..Len(s) : j < i => Idno[s[j]] # Idno[s[i]]
  <2>1. \A i \in H : i \in 1..Len(s)  BY <1>2
  <2> QED  BY <1>2, <2>1 DEF ChunkFirsts
<1>4. ASSUME NEW i \in 1..Len(s)  PROVE \E j \in H : Idno[s[j]] = Idno[s[i]]
  <2> DEFINE Same == {j \in 1..Len(s) : Idno[s[j]] = Idno[s[i]]}
  <2>1. Same \in SUBSET Nat /\ Same # {}  BY <1>2
  <2>2. PICK j \in Same : \A n \in Same : j <= n
    <3> HIDE DEF Same
    <3> QED  BY <2>1, HasLeast
  <2>3. j \in 1..Len(s) /\ Idno[s[j]] = Idno[s[i]]  OBVIOUS
  <2>4. ASSUME NEW n \in 1..(j - 1)  PROVE Idno[s[n]] # Idno[s[j]]
    <3>1. n \in 1..Len(s) /\ n < j  BY <1>2, <2>3
    <3>2. n \notin Same
      <4> HIDE DEF Same
      <4>1. n \in Int /\ j \in Int  BY <1>2, <2>3, <3>1
      <4> QED  BY <2>2, <3>1, <4>1
    <3> QED  BY <2>3, <3>1, <3>2
  <2>5. j \in H  BY <1>2, <2>3, <2>4 DEF ChunkFirsts
  <2> QED  BY <2>3, <2>5
<1> HIDE DEF H
<1>5. /\ IsFiniteSet(H) /\ k \in Seq(Points) /\ Len(k) = Cardinality(H)
      /\ Cardinality(H) \in 0..Len(s) /\ DOMAIN k = 1..Cardinality(H)
      /\ \A i \in H : /\ Before(H, i) + 1 \in 1..Cardinality(H) /\ k[Before(H, i) + 1] = s[i]
      /\ \A n \in 1..Cardinality(H) :
           Nth(H, n) \in H /\ Before(H, Nth(H, n)) = n - 1 /\ k[n] = s[Nth(H, n)]
  BY <1>2, Placed
<1> HIDE DEF k
<1>6. ToSet(k) \subseteq ToSet(s)  BY <1>2, <1>5 DEF ToSet
<1>7. ASSUME NEW i \in 1..Len(k), NEW j \in 1..Len(k), Idno[k[i]] = Idno[k[j]]  PROVE i = j
  <2> DEFINE a == Nth(H, i)  b == Nth(H, j)
  <2>1. a \in H /\ b \in H /\ k[i] = s[a] /\ k[j] = s[b]
        /\ Before(H, a) = i - 1 /\ Before(H, b) = j - 1
    BY <1>5
  <2> HIDE DEF a, b
  <2>2. a \in 1..Len(s) /\ b \in 1..Len(s)  BY <1>2, <2>1
  <2>3. ~(a < b) /\ ~(b < a)  BY <1>3, <1>7, <2>1, <2>2
  <2>4. a = b  BY <1>2, <2>2, <2>3
  <2>5. i - 1 = j - 1 /\ i \in Int /\ j \in Int  BY <1>5, <2>1, <2>4
  <2> QED  BY <2>5
<1>8. {Idno[p] : p \in ToSet(k)} = {Idno[p] : p \in ToSet(s)}
  <2>1. ASSUME NEW p \in ToSet(s)  PROVE \E q \in ToSet(k) : Idno[q] = Idno[p]
    <3>1. PICK i \in 1..Len(s) : p = s[i]  BY <1>2 DEF ToSet
    <3>2. PICK j \in H : Idno[s[j]] = Idno[p]  BY <1>4, <3>1
    <3>3. s[j] \in ToSet(k)  BY <1>5 DEF ToSet
    <3> QED  BY <3>2, <3>3
  <2> QED  BY <1>6, <2>1
<1> QED  BY <1>1, <1>5, <1>6, <1>7, <1>8

\* The leaders of the beginning of a list are the beginning of its leaders.
LEMMA ChunkLeadersFirst ==
  ASSUME NEW s \in Seq(Points), NEW m \in Nat, NEW t, t = Part(s, 0, m),
         NEW l, l = Q!Leaders(s), NEW k, k = Q!Leaders(t)
  PROVE  Len(k) <= Len(l) /\ \A i \in 1..Len(k) : i \in 1..Len(l) /\ k[i] = l[i]
<1> DEFINE X == ChunkFirsts(s)  Y == ChunkFirsts(t)
<1>1. l = AtPlaces(s, X) /\ k = AtPlaces(t, Y)
  BY ChunkAtPlaces DEF Q!Leaders, ChunkFirsts
<1>2. t \in Seq(Points) /\ Len(t) \in Nat /\ Len(t) <= Len(s) /\ \A i \in 1..Len(t) : t[i] = s[i]
  <2>1. PartOf(t, Points, s, 0, m)  BY PartIs
  <2>2. Len(t) = PartLen(Len(s), 0, m) /\ \A i \in 1..Len(t) : t[i] = s[0 + i]
    BY <2>1 DEF PartOf
  <2>3. t \in Seq(Points) /\ Len(s) \in Nat  BY <2>1 DEF PartOf
  <2>4. Len(t) <= Len(s)  BY <2>2, <2>3 DEF PartLen
  <2> QED  BY <2>2, <2>3, <2>4
<1>3. DOMAIN s = 1..Len(s) /\ DOMAIN t = 1..Len(t) /\ Len(s) \in Nat  BY <1>2
<1>4. X \in SUBSET DOMAIN s /\ Y \in SUBSET DOMAIN t  BY DEF ChunkFirsts
<1>5. Y = X \cap (1..Len(t))
  <2>1. ASSUME NEW i \in 1..Len(t)  PROVE i \in X <=> i \in Y
    <3>1. \A j \in 1..(i - 1) : j \in 1..Len(t) /\ t[j] = s[j]  BY <1>2
    <3>2. t[i] = s[i] /\ i \in DOMAIN s /\ i \in DOMAIN t  BY <1>2, <1>3
    <3> QED  BY <3>1, <3>2 DEF ChunkFirsts
  <2> QED  BY <1>3, <1>4, <2>1
<1> HIDE DEF X, Y
<1>6. /\ IsFiniteSet(X) /\ Len(l) = Cardinality(X) /\ Cardinality(X) \in Nat
      /\ \A i \in X : /\ Before(X, i) + 1 \in 1..Cardinality(X) /\ l[Before(X, i) + 1] = s[i]
  BY <1>1, <1>4, Placed
<1>7. /\ IsFiniteSet(Y) /\ Len(k) = Cardinality(Y) /\ Cardinality(Y) \in Nat
      /\ \A n \in 1..Cardinality(Y) :
           Nth(Y, n) \in Y /\ Before(Y, Nth(Y, n)) = n - 1 /\ k[n] = t[Nth(Y, n)]
  <2> HIDE <1>1
  <2> QED  BY <1>1, <1>2, <1>4, Placed
<1>8. Cardinality(Y) <= Cardinality(X)
  <2>1. Y \in SUBSET X  BY <1>5
  <2> QED  BY <1>6, <2>1, FS_Subset
<1>9. \A i \in Y : Before(X, i) = Before(Y, i)
  <2>1. ASSUME NEW i \in Y  PROVE {j \in X : j < i} = {j \in Y : j < i}
    <3>1. i \in 1..Len(t) /\ \A j \in X : j \in 1..Len(s)  BY <1>3, <1>4
    <3>2. \A j \in X : j < i => j \in 1..Len(t)  BY <1>2, <1>3, <3>1
    <3> QED  BY <1>5, <3>2
  <2> QED  BY <2>1 DEF Before
<1>10. ASSUME NEW n \in 1..Len(k)  PROVE n \in 1..Len(l) /\ k[n] = l[n]
  <2> DEFINE i == Nth(Y, n)
  <2>1. i \in Y /\ Before(Y, i) = n - 1 /\ k[n] = t[i]  BY <1>7
  <2> HIDE DEF i
  <2>2. i \in X /\ t[i] = s[i]  BY <1>2, <1>5, <2>1
  <2>3. Before(X, i) = n - 1 /\ n \in Int  BY <1>7, <1>9, <2>1
  <2>4. Before(X, i) + 1 = n  BY <2>3
  <2>5. n \in 1..Cardinality(X) /\ l[n] = s[i]  BY <1>6, <2>2, <2>4
  <2> QED  BY <1>6, <2>1, <2>2, <2>5
<1> QED  BY <1>6, <1>7, <1>8, <1>10

-----------------------------------------------------------------------------
(* Fusion: whatever the lists, the ids they name, each once. *)

ChunkCame(s, p) == Q!Min({i \in DOMAIN s : s[i] = p})
ChunkAhead(v, t, p, q) ==
  LET a == Q!Score(v, p) + Q!Score(t, p)  b == Q!Score(v, q) + Q!Score(t, q) IN
  a > b \/ (a = b /\ ChunkCame(v \o t, p) < ChunkCame(v \o t, q))

LEMMA ChunkScore ==
  ASSUME NEW s \in Seq(Points), NEW p
  PROVE  Q!Score(s, p) \in Nat
<1> DEFINE f == [i \in DOMAIN s |-> Q!Weight(i)]  X == {i \in DOMAIN s : s[i] = p}
<1>1. DOMAIN s = 1..Len(s) /\ Len(s) \in Nat  OBVIOUS
<1>2. IsFiniteSet(X)
  <2>1. X \in SUBSET (1..Len(s))  BY <1>1
  <2> HIDE DEF X
  <2> QED  BY <1>1, <2>1, UpTo, FS_Subset
<1>3. ASSUME NEW i \in X  PROVE f[i] \in Nat
  <2>1. i \in DOMAIN s /\ i \in Nat  BY <1>1
  <2>2. f[i] = 1000000 \div (60 + i)  BY <2>1 DEF Q!Weight
  <2>3. 60 + i \in Nat /\ 60 + i > 0  BY <2>1
  <2> DEFINE n == 60 + i
  <2> HIDE DEF n
  <2>4. 1000000 \div n \in Nat  BY <2>3 DEF n
  <2> QED  BY <2>2, <2>4 DEF n
<1>4. Q!Score(s, p) = SumFunctionOnSet(f, X)  BY ChunkSum DEF Q!Score
<1> HIDE DEF f, X
<1> QED  BY <1>2, <1>3, <1>4, SumIsNat

LEMMA ChunkCameTrue ==
  ASSUME NEW s \in Seq(Points), NEW p \in ToSet(s)
  PROVE  ChunkCame(s, p) \in Nat /\ ChunkCame(s, p) \in DOMAIN s /\ s[ChunkCame(s, p)] = p
<1> DEFINE X == {i \in DOMAIN s : s[i] = p}
<1>1. X \in SUBSET Nat /\ X # {}  BY DEF ToSet
<1>2. \E i \in X : \A j \in X : i <= j
  <2> HIDE DEF X
  <2> QED  BY <1>1, HasLeast
<1>3. ChunkCame(s, p) \in X
  <2> HIDE DEF X
  <2>1. Q!Min(X) \in X  BY <1>2 DEF Q!Min
  <2> QED  BY <2>1 DEF X, ChunkCame
<1> QED  BY <1>1, <1>3

LEMMA ChunkFused ==
  ASSUME NEW v \in Seq(Points), NEW t \in Seq(Points), NEW limit \in Nat
  PROVE  /\ ChunkLists(Q!RRF(v, t, limit), ToSet(Q!RRF(v, t, limit)))
         /\ ToSet(Q!RRF(v, t, limit)) \subseteq ToSet(v) \cup ToSet(t)
<1> DEFINE all == v \o t  U == ToSet(all)
           R == {p \in U \X U : ChunkAhead(v, t, p[1], p[2])}
<1>1. all \in Seq(Points) /\ U = ToSet(v) \cup ToSet(t)  BY ConcatIs
<1>2. IsFiniteSet(U) /\ U \in SUBSET Points
  <2>1. DOMAIN all = 1..Len(all) /\ Len(all) \in Nat  BY <1>1
  <2>2. U \in SUBSET Points  BY <1>1 DEF ToSet
  <2> DEFINE f == [i \in 1..Len(all) |-> all[i]]
  <2>3. f \in Surjection(1..Len(all), U)  BY <2>1 DEF Surjection, ToSet
  <2> HIDE DEF f, all
  <2> QED  BY <2>1, <2>2, <2>3, UpTo, FS_Surjection
<1>3. Orders(R, U)
  <2>1. \A p \in U : /\ ChunkCame(all, p) \in Nat /\ all[ChunkCame(all, p)] = p
                     /\ Q!Score(v, p) + Q!Score(t, p) \in Nat
    <3>1. \A p \in U : ChunkCame(all, p) \in Nat /\ all[ChunkCame(all, p)] = p
      BY <1>1, ChunkCameTrue
    <3>2. \A p : Q!Score(v, p) \in Nat /\ Q!Score(t, p) \in Nat  BY ChunkScore
    <3>3. ASSUME NEW a \in Nat, NEW b \in Nat  PROVE a + b \in Nat  OBVIOUS
    <3> QED  BY <3>1, <3>2, <3>3
  <2> DEFINE came(p) == ChunkCame(all, p)  sum(p) == Q!Score(v, p) + Q!Score(t, p)
  <2>2. \A p, q \in U : <<p, q>> \in R <=> sum(p) > sum(q) \/ (sum(p) = sum(q) /\ came(p) < came(q))
    BY DEF ChunkAhead
  <2>3. \A p, q \in U : came(p) = came(q) => p = q  BY <2>1
  <2>4. \A p \in U : came(p) \in Nat /\ sum(p) \in Nat  BY <2>1
  <2> HIDE DEF came, sum, R, U
  <2> QED  BY <2>2, <2>3, <2>4 DEF Orders
<1>4. Q!RRF(v, t, limit) = Part(InOrder(U, R), 0, limit)
  <2>1. Q!RRF(v, t, limit) = Q!Cut(Q!InOrder(U, R), 0, limit)
    BY ChunkRange DEF Q!RRF, ChunkAhead, ChunkCame
  <2> QED  BY <2>1, ChunkCut, ChunkInOrder
<1> DEFINE s == InOrder(U, R)
<1> HIDE DEF R, U
<1>5. s \in Seq(U) /\ IsInjective(s) /\ ToSet(s) = U  BY <1>2, <1>3, InOrderIs
<1> HIDE DEF s
<1>6. s \in Seq(Points)  BY <1>2, <1>5, SeqMonotonic
<1>7. ChunkLists(s, U)  BY <1>5, <1>6 DEF ChunkLists
<1>8. ChunkLists(Part(s, 0, limit), ToSet(Part(s, 0, limit))) /\ ToSet(Part(s, 0, limit)) \subseteq U
  BY <1>7, ChunkPart
<1> QED  BY <1>1, <1>4, <1>8 DEF s

-----------------------------------------------------------------------------
(* The list that a search's pages are parts of. *)

ChunkK(need) ==
  (IF qreq.collapse THEN Factor ELSE 1) * (IF need > Prefetch THEN need ELSE Prefetch)
ChunkWants(need) ==
  IF qreq.mode = "hybrid" THEN ChunkK(need)
  ELSE IF qreq.collapse THEN IF Q!Grouped(need) < ScanCap THEN Q!Grouped(need) ELSE ScanCap
  ELSE need

ChunkGrouped(s) == IF qreq.collapse THEN Q!Leaders(s) ELSE s
ChunkPageOf(order, from) ==
  IF qreq.collapse THEN Part(Part(Q!Leaders(order), 0, from + qreq.size), from, qreq.size)
  ELSE Part(order, from, qreq.size)

ChunkIdno == {p \in Points : Idno[p] = qreq.idno}
ChunkFound == {p \in points : Idno[p] = qreq.idno}
ChunkFast == qreq.idno # None /\ ChunkFound # {}
ChunkWords == IF qreq.sparse THEN Q!There(Lexical) ELSE Q!Scrolled(Matching)
ChunkMerged == Q!RRF(Part(Q!Neighbours, 0, ChunkK(1)), Part(ChunkWords, 0, ChunkK(1)), ChunkK(1))
ChunkWhole ==
  IF ChunkFast THEN Q!Scrolled(ChunkIdno)
  ELSE IF qreq.mode = "vector" THEN ChunkGrouped(Q!Neighbours)
  ELSE IF qreq.mode = "keyword" THEN ChunkGrouped(ChunkWords)
  ELSE ChunkGrouped(ChunkMerged)

\* A page that ends at need is made of the lists of those before it.
ChunkEnough(need) ==
  /\ Q!ByScroll /\ ~ChunkFast => Cardinality(points \cap Matching) >= ChunkWants(need)
  /\ qreq.mode = "hybrid" => need <= Prefetch

\* The hits are those of the list from there on, for a vector search all that fit.
ChunkShows(h, from) ==
  /\ \A j \in 1..Len(h) : from + j \in 1..Len(ChunkWhole) /\ h[j] = ChunkWhole[from + j]
  /\ qreq.mode = "vector" => h = Part(ChunkWhole, from, qreq.size)

ChunkRequest ==
  /\ points \subseteq Points /\ qreq \in Q!Requests
  /\ qreq.idno # None => qreq.mode = "keyword"
  /\ qreq.mode = "keyword" => ~qreq.threshold

LEMMA ChunkRequestIs ==
  ASSUME Q!QdrantAssumption, ChunkRequest
  PROVE  /\ qreq.mode \in {"keyword", "vector", "hybrid"} /\ qreq.sparse \in BOOLEAN
         /\ qreq.threshold \in BOOLEAN /\ qreq.collapse \in BOOLEAN /\ qreq.size \in Nat \ {0}
         /\ points \subseteq Points
BY ChunkGiven DEF ChunkRequest, Q!Requests

LEMMA ChunkKIs ==
  ASSUME Q!QdrantAssumption, ChunkRequest, NEW need \in Nat \ {0}
  PROVE  /\ ChunkK(need) \in Nat \ {0} /\ ChunkWants(need) \in Nat \ {0}
         /\ need <= Prefetch => ChunkK(need) = ChunkK(1)
         /\ \A more \in Nat : need <= more => ChunkWants(need) <= ChunkWants(more)
<1>1. /\ qreq.collapse \in BOOLEAN /\ Factor \in Nat \ {0} /\ Prefetch \in Nat \ {0}
      /\ Inner \in Nat \ {0} /\ ScanCap \in Nat \ {0}
  BY ChunkRequestIs, ChunkGiven
<1> DEFINE f == IF qreq.collapse THEN Factor ELSE 1
           d(n) == IF n > Prefetch THEN n ELSE Prefetch
<1>2. f \in Nat \ {0}  BY <1>1
<1>3. \A n : ChunkK(n) = f * d(n)  BY DEF ChunkK
<1>4. d(need) \in Nat \ {0} /\ need <= d(need) /\ (need <= Prefetch => d(need) = d(1))
  BY <1>1
<1>5. \A more \in Nat : d(more) \in Nat /\ (need <= more => d(need) <= d(more))  BY <1>1
<1> HIDE DEF f, d
<1>6. \A a, b \in Nat \ {0} : a * b \in Nat \ {0} /\ b <= a * b
  <2> SUFFICES ASSUME NEW a \in Nat \ {0}, NEW b \in Nat \ {0}
               PROVE  a * b \in Nat \ {0} /\ b <= a * b
    OBVIOUS
  <2>1. (a - 1) * b \in Nat /\ (a - 1) * b + b = a * b  OBVIOUS
  <2> DEFINE x == (a - 1) * b  y == a * b
  <2> HIDE DEF x, y
  <2>2. x \in Nat /\ x + b = y  BY <2>1 DEF x, y
  <2> QED  BY <2>2 DEF y
<1>7. \A a, b, c \in Nat : b <= c => a * b <= a * c
  <2> SUFFICES ASSUME NEW a \in Nat, NEW b \in Nat, NEW c \in Nat, b <= c
               PROVE  a * b <= a * c
    OBVIOUS
  <2>1. a * (c - b) \in Nat /\ a * (c - b) + a * b = a * c  OBVIOUS
  <2> DEFINE x == a * (c - b)  y == a * b  z == a * c
  <2>2. y \in Nat  OBVIOUS
  <2> HIDE DEF x, y, z
  <2>3. x \in Nat /\ y \in Nat /\ x + y = z  BY <2>1, <2>2 DEF x, y, z
  <2> QED  BY <2>3 DEF y, z
<1>8. ChunkK(need) \in Nat \ {0}  BY <1>2, <1>3, <1>4, <1>6
<1>9. need <= Prefetch => ChunkK(need) = ChunkK(1)  BY <1>3, <1>4
<1>10. \A more \in Nat : need <= more => ChunkK(need) <= ChunkK(more)
  BY <1>2, <1>3, <1>4, <1>5, <1>7
<1> HIDE DEF ChunkK
\* What is scrolled for to be grouped grows with the page's end, up to the cap.
<1> DEFINE g(n) == Q!Grouped(n)
           w(n) == IF g(n) < ScanCap THEN g(n) ELSE ScanCap
<1>11. \A n \in Nat : n * Inner \in Nat /\ n * Inner = Inner * n  BY <1>1
<1>12. \A n \in Nat : g(n) \in Nat \ {0}
  <2> SUFFICES ASSUME NEW n \in Nat  PROVE g(n) \in Nat \ {0}  OBVIOUS
  <2> DEFINE x == n * Inner
  <2>1. x \in Nat /\ g(n) = IF x > Prefetch THEN x ELSE Prefetch  BY <1>11 DEF Q!Grouped
  <2> HIDE DEF x, g
  <2> QED  BY <1>1, <2>1
<1>13. \A more \in Nat : need <= more => g(need) <= g(more)
  <2> SUFFICES ASSUME NEW more \in Nat, need <= more  PROVE g(need) <= g(more)  OBVIOUS
  <2> DEFINE x == need * Inner  y == more * Inner
  <2>1. x \in Nat /\ y \in Nat /\ x <= y  BY <1>1, <1>7, <1>11
  <2>2. /\ g(need) = IF x > Prefetch THEN x ELSE Prefetch
        /\ g(more) = IF y > Prefetch THEN y ELSE Prefetch
    BY DEF Q!Grouped
  <2> HIDE DEF x, y, g
  <2> QED  BY <1>1, <2>1, <2>2
<1> HIDE DEF g
<1>14. /\ w(need) \in Nat \ {0}
       /\ \A more \in Nat : need <= more => w(need) <= w(more)
  BY <1>1, <1>12, <1>13
<1>15. \A n : ChunkWants(n) = IF qreq.mode = "hybrid" THEN ChunkK(n)
                              ELSE IF qreq.collapse THEN w(n) ELSE n
  BY DEF ChunkWants, g
<1> HIDE DEF w
<1> QED  BY <1>1, <1>8, <1>9, <1>10, <1>14, <1>15

LEMMA ChunkPageWords ==
  ASSUME TRUE
  PROVE  /\ Q!PrefetchK = ChunkK(Q!Need) /\ Q!Wanted = ChunkWants(Q!Need)
         /\ \A order : Q!PageOf(order) = ChunkPageOf(order, qpage.from)
<1>1. Q!PrefetchK = ChunkK(Q!Need)  BY DEF Q!PrefetchK, ChunkK
<1>2. Q!Wanted = ChunkWants(Q!Need)  BY <1>1 DEF Q!Wanted, ChunkWants
<1>3. \A order : Q!PageOf(order) = ChunkPageOf(order, qpage.from)
  BY ChunkCut DEF Q!PageOf, ChunkPageOf, Q!Need
<1> QED  BY <1>1, <1>2, <1>3

LEMMA ChunkNeighbours ==
  ASSUME Q!QdrantAssumption, ChunkRequest
  PROVE  /\ ChunkLists(Q!Neighbours, ToSet(Q!Neighbours)) /\ ToSet(Q!Neighbours) \subseteq points
         /\ Len(Q!Neighbours) \in Nat /\ Len(Q!Neighbours) <= Cardinality(Points)
         /\ ChunkLists(ChunkWords, ToSet(ChunkWords)) /\ ToSet(ChunkWords) \subseteq points
         /\ Len(ChunkWords) \in Nat
         /\ ~qreq.sparse => Len(ChunkWords) = Cardinality(points \cap Matching)
<1> DEFINE s == IF qreq.threshold THEN Q!Cut(Nearest, 0, Close) ELSE Nearest
<1>1. ChunkLists(s, ToSet(s))
  <2>1. ChunkLists(Nearest, ToSet(Nearest)) /\ Close \in Nat /\ 0 \in Nat  BY ChunkGiven
  <2>2. ChunkLists(Q!Cut(Nearest, 0, Close), ToSet(Q!Cut(Nearest, 0, Close)))
    BY <2>1, ChunkPart
  <2> QED  BY <2>1, <2>2
<1>2. Q!Neighbours = Q!There(s)  BY DEF Q!Neighbours
<1> HIDE DEF s
<1>3. ChunkLists(Q!Neighbours, ToSet(s) \cap points)  BY <1>1, <1>2, ChunkThere
<1>4. ChunkLists(Q!There(Lexical), ToSet(Lexical) \cap points)  BY ChunkGiven, ChunkThere
<1>5. ChunkLists(Q!Scrolled(Matching), Matching \cap points)
      /\ Len(Q!Scrolled(Matching)) = Cardinality(Matching \cap points)
  BY ChunkRequestIs, ChunkScrolled
<1>6. \E U \in SUBSET points : ChunkLists(ChunkWords, U)  BY <1>4, <1>5 DEF ChunkWords
<1>7. ~qreq.sparse => Len(ChunkWords) = Cardinality(points \cap Matching)
  <2>1. Matching \cap points = points \cap Matching  OBVIOUS
  <2> QED  BY <1>5, <2>1 DEF ChunkWords
<1>8. ChunkLists(ChunkWords, ToSet(ChunkWords)) /\ ToSet(ChunkWords) \subseteq points
  BY <1>6 DEF ChunkLists
<1>9. ChunkLists(Q!Neighbours, ToSet(Q!Neighbours)) /\ ToSet(Q!Neighbours) \subseteq points
  BY <1>3 DEF ChunkLists
<1> QED  BY <1>7, <1>8, <1>9, ChunkCount

\* A page of a list, collapsed or not, is a part of the list so collapsed.
LEMMA ChunkPaged ==
  ASSUME Q!QdrantAssumption, ChunkRequest, NEW s \in Seq(Points), NEW from \in Nat
  PROVE  /\ ChunkPageOf(s, from) = Part(ChunkGrouped(s), from, qreq.size)
         /\ ChunkGrouped(s) \in Seq(Points)
         /\ PartOf(Part(ChunkGrouped(s), from, qreq.size), Points, ChunkGrouped(s), from, qreq.size)
         /\ ToSet(ChunkGrouped(s)) \subseteq ToSet(s)
<1> DEFINE k == qreq.size  l == Q!Leaders(s)  n == from + k  t == Part(l, 0, n)
<1>1. k \in Nat /\ k > 0 /\ n \in Nat /\ 0 \in Nat  BY ChunkRequestIs
<1>2. l \in Seq(Points) /\ ToSet(l) \subseteq ToSet(s) /\ Len(l) \in Nat
  <2>1. l \in Seq(Points) /\ ToSet(l) \subseteq ToSet(s)  BY ChunkLeaders
  <2> HIDE DEF l
  <2> QED  BY <2>1
<1>3. ChunkGrouped(s) \in Seq(Points) /\ ToSet(ChunkGrouped(s)) \subseteq ToSet(s)
  BY <1>2 DEF ChunkGrouped
<1> HIDE DEF k, n
<1>4. PartOf(Part(ChunkGrouped(s), from, k), Points, ChunkGrouped(s), from, k)
  <2> DEFINE g == ChunkGrouped(s)
  <2> HIDE DEF g
  <2>1. g \in Seq(Points)  BY <1>3 DEF g
  <2> QED  BY <1>1, <2>1, PartIs DEF g
<1>5. Part(t, from, k) = Part(l, from, k)
  <2> HIDE DEF l
  <2>1. n = from + k  BY DEF n
  <2>2. PartOf(t, Points, l, 0, n)  BY <1>1, <1>2, PartIs
  <2> DEFINE p == Part(t, from, k)  q == Part(l, from, k)
  <2> HIDE DEF t
  <2>3. t \in Seq(Points) /\ Len(t) = PartLen(Len(l), 0, n)
        /\ \A i \in 1..PartLen(Len(l), 0, n) : t[i] = l[0 + i]
    BY <2>2 DEF PartOf
  <2>4. PartOf(p, Points, t, from, k) /\ PartOf(q, Points, l, from, k)  BY <1>1, <1>2, <2>3, PartIs
  <2> HIDE DEF p, q
  <2>5. /\ p \in Seq(Points) /\ Len(p) = PartLen(Len(t), from, k)
        /\ \A i \in 1..Len(p) : from + i \in 1..Len(t) /\ p[i] = t[from + i]
        /\ q \in Seq(Points) /\ Len(q) = PartLen(Len(l), from, k)
        /\ \A i \in 1..Len(q) : q[i] = l[from + i]
    BY <2>4 DEF PartOf
  <2>6. Len(t) = IF n < Len(l) THEN n ELSE Len(l)  BY <1>1, <1>2, <2>3 DEF PartLen
  <2>7. Len(p) = Len(q)  BY <1>1, <1>2, <2>1, <2>5, <2>6 DEF PartLen
  <2>8. \A i \in 1..Len(t) : t[i] = l[i]  BY <1>1, <1>2, <2>3
  <2>9. \A i \in 1..Len(p) : p[i] = q[i]  BY <2>5, <2>7, <2>8
  <2>10. p = q  BY <2>5, <2>7, <2>9, SeqEqual
  <2> QED  BY <2>10 DEF p, q
<1>6. ChunkPageOf(s, from) = Part(ChunkGrouped(s), from, k)
  <2>1. ChunkPageOf(s, from) = IF qreq.collapse THEN Part(t, from, k) ELSE Part(s, from, k)
    BY DEF ChunkPageOf, k, n
  <2> QED  BY <1>5, <2>1 DEF ChunkGrouped
<1> QED  BY <1>3, <1>4, <1>6 DEF k

\* So is a page of its beginning, as far as it goes.
LEMMA ChunkBegun ==
  ASSUME Q!QdrantAssumption, ChunkRequest, NEW s \in Seq(Points), NEW from \in Nat, NEW m \in Nat,
         NEW h, h = ChunkPageOf(Part(s, 0, m), from)
  PROVE  \A j \in 1..Len(h) : /\ from + j \in 1..Len(ChunkGrouped(s))
                              /\ h[j] = ChunkGrouped(s)[from + j]
<1> DEFINE t == Part(s, 0, m)  g == ChunkGrouped(s)  b == ChunkGrouped(t)
<1>1. PartOf(t, Points, s, 0, m)  BY PartIs
<1>2. t \in Seq(Points)  BY <1>1 DEF PartOf
<1>3. Len(b) <= Len(g) /\ \A i \in 1..Len(b) : i \in 1..Len(g) /\ b[i] = g[i]
  <2>1. CASE qreq.collapse
    <3> DEFINE l == Q!Leaders(s)  k == Q!Leaders(t)
    <3>1. Len(k) <= Len(l) /\ \A i \in 1..Len(k) : i \in 1..Len(l) /\ k[i] = l[i]
      <4> HIDE <1>1
      <4> QED  BY ChunkLeadersFirst
    <3> QED  BY <2>1, <3>1 DEF ChunkGrouped
  <2>2. CASE ~qreq.collapse
    <3>1. Len(t) = PartLen(Len(s), 0, m)
          /\ \A i \in 1..PartLen(Len(s), 0, m) : 0 + i \in 1..Len(s) /\ t[i] = s[0 + i]
      BY <1>1 DEF PartOf
    <3> HIDE DEF t
    <3>2. Len(s) \in Nat /\ PartLen(Len(s), 0, m) <= Len(s) /\ PartLen(Len(s), 0, m) \in Nat
      BY DEF PartLen
    <3>3. \A i \in 1..Len(t) : i \in 1..Len(s) /\ t[i] = s[i]  BY <3>1, <3>2
    <3> QED  BY <2>2, <3>1, <3>2, <3>3 DEF ChunkGrouped
  <2> QED  BY <2>1, <2>2
<1> DEFINE k == qreq.size
<1>4. k \in Nat  BY ChunkRequestIs
<1>5. h = Part(b, from, k) /\ b \in Seq(Points) /\ PartOf(Part(b, from, k), Points, b, from, k)
  BY <1>2, ChunkPaged
<1> HIDE DEF b, g, k, t
<1>6. \A j \in 1..Len(h) : from + j \in 1..Len(b) /\ h[j] = b[from + j]
  <2>1. PartOf(h, Points, b, from, k)  BY <1>5
  <2> QED  BY <2>1 DEF PartOf
<1> QED  BY <1>3, <1>6 DEF g

LEMMA ChunkMergedIs ==
  ASSUME Q!QdrantAssumption, ChunkRequest
  PROVE  ChunkLists(ChunkMerged, ToSet(ChunkMerged)) /\ ToSet(ChunkMerged) \subseteq points
<1> DEFINE k == ChunkK(1)  v == Part(Q!Neighbours, 0, k)  t == Part(ChunkWords, 0, k)
<1>1. k \in Nat /\ 0 \in Nat  BY ChunkKIs
<1>2. /\ ChunkLists(Q!Neighbours, ToSet(Q!Neighbours)) /\ ToSet(Q!Neighbours) \subseteq points
      /\ ChunkLists(ChunkWords, ToSet(ChunkWords)) /\ ToSet(ChunkWords) \subseteq points
  BY ChunkNeighbours
<1> HIDE DEF k
<1>3. /\ ChunkLists(v, ToSet(v)) /\ ToSet(v) \subseteq ToSet(Q!Neighbours)
      /\ ChunkLists(t, ToSet(t)) /\ ToSet(t) \subseteq ToSet(ChunkWords)
  BY <1>1, <1>2, ChunkPart
<1>4. ChunkMerged = Q!RRF(v, t, k)  BY DEF ChunkMerged, k
<1> HIDE DEF v, t
<1>5. v \in Seq(Points) /\ t \in Seq(Points)  BY <1>3 DEF ChunkLists
<1>6. /\ ChunkLists(Q!RRF(v, t, k), ToSet(Q!RRF(v, t, k)))
      /\ ToSet(Q!RRF(v, t, k)) \subseteq ToSet(v) \cup ToSet(t)
  BY <1>1, <1>5, ChunkFused
<1> QED  BY <1>2, <1>3, <1>4, <1>6

\* What tells two places of the list apart: the group when it is collapsed, or else the chunk.
ChunkOnce(s, grouped) ==
  \A i, j \in 1..Len(s) : (IF grouped THEN Idno[s[i]] = Idno[s[j]] ELSE s[i] = s[j]) => i = j

LEMMA ChunkGroupedIs ==
  ASSUME NEW s, ChunkLists(s, ToSet(s))
  PROVE  /\ ChunkGrouped(s) \in Seq(Points) /\ ChunkOnce(ChunkGrouped(s), qreq.collapse)
         /\ IF qreq.collapse
            THEN {Idno[p] : p \in ToSet(ChunkGrouped(s))} = {Idno[p] : p \in ToSet(s)}
            ELSE ChunkGrouped(s) = s
<1>1. s \in Seq(Points) /\ IsInjective(s)  BY DEF ChunkLists
<1>2. CASE qreq.collapse
  <2> DEFINE l == Q!Leaders(s)
  <2>1. /\ l \in Seq(Points) /\ \A i, j \in 1..Len(l) : Idno[l[i]] = Idno[l[j]] => i = j
        /\ {Idno[p] : p \in ToSet(l)} = {Idno[p] : p \in ToSet(s)}
    BY <1>1, ChunkLeaders
  <2>2. ChunkGrouped(s) = l  BY <1>2 DEF ChunkGrouped
  <2> QED  BY <1>2, <2>1, <2>2 DEF ChunkOnce
<1>3. CASE ~qreq.collapse
  <2>1. ChunkGrouped(s) = s  BY <1>3 DEF ChunkGrouped
  <2>2. \A i, j \in 1..Len(s) : s[i] = s[j] => i = j  BY <1>1 DEF IsInjective
  <2> QED  BY <1>1, <1>3, <2>1, <2>2 DEF ChunkOnce
<1> QED  BY <1>2, <1>3

LEMMA ChunkWholeIs ==
  ASSUME Q!QdrantAssumption, ChunkRequest
  PROVE  /\ ChunkWhole \in Seq(Points) /\ ChunkOnce(ChunkWhole, qreq.collapse /\ ~ChunkFast)
         /\ qreq.mode = "vector" =>
              IF qreq.collapse
              THEN {Idno[p] : p \in ToSet(ChunkWhole)} = {Idno[p] : p \in ToSet(Q!Neighbours)}
              ELSE ChunkWhole = Q!Neighbours
<1>1. CASE ChunkFast
  <2>1. ChunkLists(Q!Scrolled(ChunkIdno), ChunkIdno \cap points)  BY ChunkRequestIs, ChunkScrolled
  <2>2. ChunkWhole = Q!Scrolled(ChunkIdno)  BY <1>1 DEF ChunkWhole
  <2>3. ChunkWhole \in Seq(Points) /\ IsInjective(ChunkWhole)  BY <2>1, <2>2 DEF ChunkLists
  <2>4. \A i, j \in 1..Len(ChunkWhole) : ChunkWhole[i] = ChunkWhole[j] => i = j
    BY <2>3 DEF IsInjective
  <2>5. qreq.mode # "vector"  BY <1>1 DEF ChunkFast, ChunkRequest
  <2> QED  BY <1>1, <2>3, <2>4, <2>5 DEF ChunkOnce
<1>2. CASE ~ChunkFast
  <2> DEFINE s == IF qreq.mode = "vector" THEN Q!Neighbours
                  ELSE IF qreq.mode = "keyword" THEN ChunkWords ELSE ChunkMerged
  <2>1. ChunkLists(s, ToSet(s))  BY ChunkNeighbours, ChunkMergedIs
  <2>2. ChunkWhole = ChunkGrouped(s)  BY <1>2 DEF ChunkWhole
  <2>3. qreq.mode = "vector" => s = Q!Neighbours  OBVIOUS
  <2> HIDE DEF s
  <2> QED  BY <1>2, <2>1, <2>2, <2>3, ChunkGroupedIs DEF ChunkOnce
<1> QED  BY <1>1, <1>2

LEMMA ChunkShowsPart ==
  ASSUME Q!QdrantAssumption, ChunkRequest, NEW from \in Nat, NEW h,
         h = Part(ChunkWhole, from, qreq.size)
  PROVE  ChunkShows(h, from)
<1>1. ChunkWhole \in Seq(Points) /\ qreq.size \in Nat  BY ChunkWholeIs, ChunkRequestIs
<1>2. PartOf(h, Points, ChunkWhole, from, qreq.size)  BY <1>1, PartIs
<1> QED  BY <1>2 DEF PartOf, ChunkShows

-----------------------------------------------------------------------------
(* What a page under way knows, and what the answers are. *)

ChunkCap == IF Len(Q!Neighbours) <= CountCap THEN Len(Q!Neighbours) ELSE CountCap

\* A page under way, of the search there is.
ChunkTyped(q) ==
  /\ q \in [pc : {"idle", "asked", "answered", "error"}, from : Nat, fast : BOOLEAN,
            todo : SUBSET {"total", "near", "text"}, total : 0..Cardinality(Points),
            near : Seq(Points), text : Seq(Points), cursor : Points \cup {None}]
  /\ q.pc # "asked" => q.todo = {}
  /\ q.fast => qreq.idno # None /\ "near" \notin q.todo
  /\ "near" \in q.todo => qreq.mode # "keyword"
  /\ "text" \in q.todo => qreq.mode # "vector"
  /\ qreq.threshold => q.total <= CountCap
  /\ qreq.mode = "vector" => Len(q.near) <= qreq.size
  /\ q.fast \/ (qreq.mode = "keyword" /\ qreq.sparse) => Len(q.text) <= qreq.size
  /\ "text" \in q.todo /\ ~q.fast => Len(q.text) < ChunkWants(q.from + qreq.size)

\* Whether it is looked up by its idno, and what that found.
ChunkKnowsFast(q) ==
  /\ q.pc = "answered" => (q.fast <=> ChunkFast)
  /\ q.pc = "asked" /\ ~q.fast => ~ChunkFast
  /\ q.pc = "asked" /\ q.fast =>
       /\ "total" \notin q.todo => q.total = Cardinality(ChunkFound)
       /\ "text" \notin q.todo => q.text = Part(Q!Scrolled(ChunkIdno), q.from, qreq.size)

\* The neighbours counted so far, and when all are.
ChunkKnowsTotal(q) ==
  q.pc = "asked" /\ qreq.threshold =>
    IF "total" \in q.todo THEN q.total <= Len(Q!Neighbours) ELSE q.total = ChunkCap

ChunkKnowsNear(q) ==
  q.pc = "asked" /\ "near" \notin q.todo =>
    /\ qreq.mode = "vector" => q.near = ChunkPageOf(Q!Neighbours, q.from)
    /\ qreq.mode = "hybrid" => q.near = Part(Q!Neighbours, 0, ChunkK(q.from + qreq.size))

\* The matches that came. A scroll that has enough to come has the first ones, and its cursor
\* is at the next.
ChunkKnowsText(q) ==
  q.pc = "asked" /\ ~q.fast /\ qreq.mode # "vector" =>
    LET wants == ChunkWants(q.from + qreq.size) IN
    /\ qreq.sparse /\ "text" \notin q.todo =>
         q.text = IF qreq.mode = "keyword" THEN ChunkPageOf(ChunkWords, q.from)
                  ELSE Part(ChunkWords, 0, wants)
    /\ ~qreq.sparse /\ Len(ChunkWords) >= wants =>
         IF "text" \notin q.todo THEN q.text = Part(ChunkWords, 0, wants)
         ELSE /\ q.text = Part(ChunkWords, 0, Len(q.text))
              /\ q.cursor = IF Len(q.text) = 0 THEN None ELSE ChunkWords[Len(q.text) + 1]

ChunkKnows(q) ==
  ChunkKnowsFast(q) /\ ChunkKnowsTotal(q) /\ ChunkKnowsNear(q) /\ ChunkKnowsText(q)

\* The page comes after those answered, and only the last of them may be short.
ChunkPlace(q) ==
  /\ q.pc = "idle" => q.from = 0 /\ Len(qpages) = 0
  /\ q.pc = "asked" =>
       /\ q.from = Len(qpages) * qreq.size
       /\ \A i \in 1..Len(qpages) : Len(qpages[i].hits) = qreq.size
  /\ q.pc = "answered" =>
       /\ Len(qpages) > 0 /\ q.from = (Len(qpages) - 1) * qreq.size
       /\ \A i \in 1..(Len(qpages) - 1) : Len(qpages[i].hits) = qreq.size

ChunkAnswered(a, i) ==
  /\ a.from = (i - 1) * qreq.size /\ Len(a.hits) <= qreq.size
  /\ qreq.threshold => a.total <= CountCap

ChunkTrue(a) ==
  /\ qreq.threshold => a.total = ChunkCap
  /\ ChunkEnough(a.from + qreq.size) => ChunkShows(a.hits, a.from)

ChunkPages ==
  /\ qpages \in Seq([from : Nat, total : Nat, hits : Seq(Points)])
  /\ \A i \in 1..Len(qpages) :
       ChunkAnswered(qpages[i], i) /\ (qcalm => ChunkTrue(qpages[i]))

ChunkInv ==
  /\ ChunkRequest /\ qcalm \in BOOLEAN
  /\ ChunkTyped(qpage) /\ ChunkPlace(qpage) /\ ChunkPages
  /\ qcalm => ChunkKnows(qpage)

\* All of this is about the chunks and the search.
LEMMA ChunkStill ==
  ASSUME points' = points, qreq' = qreq
  PROVE  /\ Q!Neighbours' = Q!Neighbours /\ ChunkWords' = ChunkWords
         /\ (ChunkFast' <=> ChunkFast) /\ ChunkFound' = ChunkFound
         /\ Q!Scrolled(ChunkIdno)' = Q!Scrolled(ChunkIdno)
         /\ ChunkWhole' = ChunkWhole /\ ChunkCap' = ChunkCap
         /\ \A n : ChunkEnough(n)' <=> ChunkEnough(n)
         /\ \A h, n : ChunkShows(h, n)' <=> ChunkShows(h, n)
         /\ \A n : ChunkK(n)' = ChunkK(n) /\ ChunkWants(n)' = ChunkWants(n)
         /\ \A s, n : ChunkPageOf(s, n)' = ChunkPageOf(s, n)
<1>1. \A s : Q!There(s)' = Q!There(s)
  <2> SUFFICES ASSUME NEW s  PROVE Q!There(s)' = Q!There(s)  OBVIOUS
  <2>1. Q!There(s) = Q!AtPlaces(s, {i \in DOMAIN s : s[i] \in points})  BY DEF Q!There, Q!Where
  <2>2. Q!There(s)' = Q!AtPlaces(s, {i \in DOMAIN s : s[i] \in points'})
    BY DEF Q!There, Q!Where
  <2> QED  BY <2>1, <2>2
<1>2. \A U : Q!Scrolled(U)' = Q!Scrolled(U)  BY DEF Q!Scrolled
<1>3. Q!Neighbours' = Q!Neighbours  BY <1>1 DEF Q!Neighbours
<1>4. ChunkWords' = ChunkWords  BY <1>1, <1>2 DEF ChunkWords
<1>5. ChunkFound' = ChunkFound  BY DEF ChunkFound
<1>6. ChunkFast' <=> ChunkFast  BY <1>5 DEF ChunkFast
<1>7. ChunkIdno' = ChunkIdno  BY DEF ChunkIdno
<1>8. Q!Scrolled(ChunkIdno)' = Q!Scrolled(ChunkIdno)  BY <1>7 DEF Q!Scrolled
<1>9. \A s : ChunkGrouped(s)' = ChunkGrouped(s)  BY DEF ChunkGrouped
<1>10. \A n : ChunkK(n)' = ChunkK(n)  BY DEF ChunkK
<1>11. \A n : ChunkWants(n)' = ChunkWants(n)  BY <1>10 DEF ChunkWants
<1>12. ChunkMerged' = ChunkMerged  BY <1>3, <1>4, <1>10 DEF ChunkMerged
<1>13. ChunkWhole' = ChunkWhole
  <2>1. PICK w, v, t : w = ChunkWords /\ v = Q!Neighbours /\ t = ChunkMerged  OBVIOUS
  <2>2. ChunkWhole' = IF ChunkFast' THEN Q!Scrolled(ChunkIdno)'
                      ELSE IF qreq.mode = "vector" THEN ChunkGrouped(v)'
                      ELSE IF qreq.mode = "keyword" THEN ChunkGrouped(w)' ELSE ChunkGrouped(t)'
    BY <1>3, <1>4, <1>12, <2>1 DEF ChunkWhole, ChunkGrouped
  <2> QED  BY <1>6, <1>8, <1>9, <2>1, <2>2 DEF ChunkWhole
<1>14. ChunkCap' = ChunkCap  BY <1>3 DEF ChunkCap
<1>15. \A n : ChunkEnough(n)' <=> ChunkEnough(n)  BY <1>6, <1>11 DEF ChunkEnough, Q!ByScroll
<1>16. \A h, n : ChunkShows(h, n)' <=> ChunkShows(h, n)  BY <1>13 DEF ChunkShows
<1>17. \A s, n : ChunkPageOf(s, n)' = ChunkPageOf(s, n)  BY DEF ChunkPageOf
<1> QED  BY <1>3, <1>4, <1>5, <1>6, <1>8, <1>10, <1>11, <1>13, <1>14, <1>15, <1>16, <1>17

LEMMA ChunkStillKnows ==
  ASSUME points' = points, qreq' = qreq, NEW q
  PROVE  /\ ChunkKnows(q) => ChunkKnows(q)'
         /\ ChunkTyped(q) => ChunkTyped(q)'
         /\ \A a : ChunkTrue(a) => ChunkTrue(a)'
<1>1. ChunkTyped(q) => ChunkTyped(q)'  BY DEF ChunkTyped, ChunkWants, ChunkK
<1>2. \A a : ChunkTrue(a) => ChunkTrue(a)'  BY ChunkStill DEF ChunkTrue
<1>3. ChunkKnowsFast(q) => ChunkKnowsFast(q)'  BY ChunkStill DEF ChunkKnowsFast
<1>4. ChunkKnowsTotal(q) => ChunkKnowsTotal(q)'  BY ChunkStill DEF ChunkKnowsTotal
<1>5. ChunkKnowsNear(q) => ChunkKnowsNear(q)'
  <2>1. PICK v : v = Q!Neighbours  OBVIOUS
  <2>2. ChunkPageOf(Q!Neighbours, q.from)' = ChunkPageOf(v, q.from)'
    BY <2>1, ChunkStill DEF ChunkPageOf
  <2> QED  BY <2>1, <2>2, ChunkStill DEF ChunkKnowsNear
<1>6. ChunkKnowsText(q) => ChunkKnowsText(q)'
  <2>1. PICK w : w = ChunkWords  OBVIOUS
  <2>2. ChunkPageOf(ChunkWords, q.from)' = ChunkPageOf(w, q.from)'
    BY <2>1, ChunkStill DEF ChunkPageOf
  <2>3. PICK m : m = q.from + qreq.size  OBVIOUS
  <2>4. ChunkWants(q.from + qreq.size)' = ChunkWants(m)'  BY <2>3 DEF ChunkWants, ChunkK
  <2> QED  BY <2>1, <2>2, <2>3, <2>4, ChunkStill DEF ChunkKnowsText
<1> QED  BY <1>1, <1>2, <1>3, <1>4, <1>5, <1>6 DEF ChunkKnows

-----------------------------------------------------------------------------
(* The answer, by how the page came about. *)

ChunkHits ==
  IF qpage.fast \/ (qreq.mode = "keyword" /\ qreq.sparse) THEN qpage.text
  ELSE IF qreq.mode = "keyword" THEN Q!PageOf(qpage.text)
  ELSE IF qreq.mode = "vector" THEN qpage.near
  ELSE LET both == Q!RRF(qpage.near, qpage.text, Q!PrefetchK) IN
       IF qreq.collapse THEN Q!Cut(Q!Leaders(Q!There(both)), qpage.from, qreq.size)
       ELSE Q!There(Q!Cut(both, qpage.from, qreq.size))

\* What hybrid retrieves of the fused list, and so may lose of it.
ChunkRetrieved(m, from) ==
  IF qreq.collapse THEN Q!Cut(Q!Leaders(Q!There(m)), from, qreq.size)
  ELSE Q!There(Q!Cut(m, from, qreq.size))

LEMMA ChunkRetrievedIs ==
  ASSUME Q!QdrantAssumption, ChunkRequest, NEW m, ChunkLists(m, ToSet(m)), NEW from \in Nat
  PROVE  /\ ChunkRetrieved(m, from) \in Seq(Points) /\ Len(ChunkRetrieved(m, from)) <= qreq.size
         /\ ToSet(m) \subseteq points =>
              ChunkRetrieved(m, from) = Part(ChunkGrouped(m), from, qreq.size)
<1> DEFINE k == qreq.size
<1>1. k \in Nat  BY ChunkRequestIs
<1> HIDE DEF k
<1>2. /\ ChunkLists(Q!There(m), ToSet(m) \cap points)
      /\ ToSet(m) \subseteq points => Q!There(m) = m
  BY ChunkThere
<1>3. CASE qreq.collapse
  <2> DEFINE l == Q!Leaders(Q!There(m))
  <2>1. l \in Seq(Points)
    <3>1. Q!There(m) \in Seq(Points)  BY <1>2 DEF ChunkLists
    <3> HIDE <1>2
    <3> QED  BY <3>1, ChunkLeaders
  <2>2. ChunkRetrieved(m, from) = Part(l, from, k)  BY <1>3, ChunkCut DEF ChunkRetrieved, k
  <2>3. ToSet(m) \subseteq points => l = ChunkGrouped(m)  BY <1>2, <1>3 DEF ChunkGrouped
  <2> HIDE DEF l
  <2>4. PartOf(Part(l, from, k), Points, l, from, k)  BY <1>1, <2>1, PartIs
  <2>5. Part(l, from, k) \in Seq(Points) /\ Len(Part(l, from, k)) \in 0..k  BY <2>4 DEF PartOf
  <2> QED  BY <1>1, <2>2, <2>3, <2>5 DEF k
<1>4. CASE ~qreq.collapse
  <2> DEFINE t == Part(m, from, k)
  <2>1. /\ Q!Cut(m, from, k) = t /\ ChunkLists(t, ToSet(t)) /\ ToSet(t) \subseteq ToSet(m)
        /\ Len(t) \in 0..k
    BY <1>1, ChunkPart
  <2>2. ChunkRetrieved(m, from) = Q!There(t)  BY <1>4, <2>1 DEF ChunkRetrieved, k
  <2> HIDE DEF t
  <2>3. /\ ChunkLists(Q!There(t), ToSet(t) \cap points)
        /\ ToSet(t) \subseteq points => Q!There(t) = t
    BY <2>1, ChunkThere
  <2>4. Len(Q!There(t)) <= Len(t)
    <3>1. Len(Q!There(t)) = Cardinality(ToSet(t) \cap points) /\ Len(t) = Cardinality(ToSet(t))
          /\ ToSet(t) \in SUBSET Points
      BY <2>1, <2>3, ChunkCount
    <3>2. IsFiniteSet(ToSet(t)) /\ ToSet(t) \cap points \in SUBSET ToSet(t)
      BY <3>1, ChunkGiven
    <3>3. Cardinality(ToSet(t) \cap points) <= Cardinality(ToSet(t))  BY <3>2, FS_Subset
    <3> QED  BY <3>1, <3>3
  <2>5. Q!There(t) \in Seq(Points) /\ Len(Q!There(t)) \in Nat  BY <2>3 DEF ChunkLists
  <2>6. Len(Q!There(t)) <= k  BY <1>1, <2>1, <2>4, <2>5
  <2>7. ToSet(m) \subseteq points => Q!There(t) = Part(ChunkGrouped(m), from, k)
    BY <1>4, <2>1, <2>3 DEF ChunkGrouped, t
  <2> QED  BY <2>2, <2>5, <2>6, <2>7 DEF k
<1> QED  BY <1>3, <1>4

LEMMA ChunkFields ==
  ASSUME NEW q, ChunkTyped(q)
  PROVE  /\ q.pc \in {"idle", "asked", "answered", "error"} /\ q.from \in Nat /\ q.fast \in BOOLEAN
         /\ q.todo \in SUBSET {"total", "near", "text"} /\ q.total \in 0..Cardinality(Points)
         /\ q.near \in Seq(Points) /\ q.text \in Seq(Points) /\ q.cursor \in Points \cup {None}
BY DEF ChunkTyped

LEMMA ChunkHitsTyped ==
  ASSUME Q!QdrantAssumption, ChunkRequest, ChunkTyped(qpage)
  PROVE  ChunkHits \in Seq(Points) /\ Len(ChunkHits) <= qreq.size
<1>1. qpage.near \in Seq(Points) /\ qpage.text \in Seq(Points) /\ qpage.from \in Nat
      /\ qreq.size \in Nat \ {0}
  BY ChunkFields, ChunkRequestIs
<1>2. CASE qpage.fast \/ (qreq.mode = "keyword" /\ qreq.sparse)
  <2>1. ChunkHits = qpage.text  BY <1>2 DEF ChunkHits
  <2> QED  BY <1>1, <1>2, <2>1 DEF ChunkTyped
<1>3. CASE ~(qpage.fast \/ (qreq.mode = "keyword" /\ qreq.sparse)) /\ qreq.mode = "keyword"
  <2>1. ChunkHits = ChunkPageOf(qpage.text, qpage.from)  BY <1>3, ChunkPageWords DEF ChunkHits
  <2>2. PartOf(ChunkHits, Points, ChunkGrouped(qpage.text), qpage.from, qreq.size)
    BY <1>1, <2>1, ChunkPaged
  <2>3. ChunkHits \in Seq(Points) /\ Len(ChunkHits) \in 0..qreq.size  BY <2>2 DEF PartOf
  <2> QED  BY <1>1, <2>3
<1>4. CASE ~qpage.fast /\ qreq.mode = "vector"
  <2>1. ChunkHits = qpage.near  BY <1>4 DEF ChunkHits
  <2> QED  BY <1>1, <1>4, <2>1 DEF ChunkTyped
<1>5. CASE ~qpage.fast /\ qreq.mode = "hybrid"
  <2> DEFINE m == Q!RRF(qpage.near, qpage.text, Q!PrefetchK)
  <2>1. ChunkHits = ChunkRetrieved(m, qpage.from)  BY <1>5 DEF ChunkHits, ChunkRetrieved
  <2>2. qpage.from + qreq.size \in Nat \ {0}  BY <1>1
  <2>3. Q!PrefetchK \in Nat  BY <2>2, ChunkKIs, ChunkPageWords DEF Q!Need
  <2>4. ChunkLists(m, ToSet(m))  BY <1>1, <2>3, ChunkFused
  <2> HIDE DEF m
  <2> QED  BY <1>1, <2>1, <2>4, ChunkRetrievedIs
<1> QED  BY <1>2, <1>3, <1>4, <1>5, ChunkRequestIs

LEMMA ChunkHitsTrue ==
  ASSUME Q!QdrantAssumption, ChunkRequest, ChunkTyped(qpage), ChunkKnows(qpage),
         qpage.pc = "asked", qpage.todo = {}, ~(qpage.fast /\ qpage.total = 0)
  PROVE  /\ qpage.fast <=> ChunkFast
         /\ ChunkEnough(qpage.from + qreq.size) => ChunkShows(ChunkHits, qpage.from)
<1> DEFINE from == qpage.from  k == qreq.size  need == from + k  w == ChunkWants(need)
<1>1. qpage.near \in Seq(Points) /\ qpage.text \in Seq(Points) /\ from \in Nat
      /\ k \in Nat \ {0} /\ need \in Nat \ {0} /\ 0 \in Nat /\ qpage.fast \in BOOLEAN
  BY ChunkFields, ChunkRequestIs
<1>2. w \in Nat \ {0} /\ ChunkK(need) \in Nat \ {0}  BY <1>1, ChunkKIs
<1>3. /\ ChunkLists(ChunkWords, ToSet(ChunkWords)) /\ ToSet(ChunkWords) \subseteq points
      /\ ChunkLists(Q!Neighbours, ToSet(Q!Neighbours)) /\ ToSet(Q!Neighbours) \subseteq points
      /\ ~qreq.sparse => Len(ChunkWords) = Cardinality(points \cap Matching)
  BY ChunkNeighbours
<1>4. ChunkWords \in Seq(Points) /\ Q!Neighbours \in Seq(Points)  BY <1>3 DEF ChunkLists
<1>5. qpage.fast <=> ChunkFast
  <2>1. CASE qpage.fast
    <3>1. qpage.total = Cardinality(ChunkFound) /\ qreq.idno # None
      BY <2>1 DEF ChunkKnows, ChunkKnowsFast, ChunkTyped
    <3>2. ChunkFound # {}
      <4> SUFFICES ASSUME ChunkFound = {}  PROVE FALSE  OBVIOUS
      <4>1. Cardinality({}) = 0  BY FS_EmptySet
      <4> QED  BY <2>1, <3>1, <4>1
    <3> QED  BY <2>1, <3>1, <3>2 DEF ChunkFast
  <2>2. CASE ~qpage.fast  BY <2>2 DEF ChunkKnows, ChunkKnowsFast
  <2> QED  BY <2>1, <2>2
<1>6. ChunkShows(ChunkHits, from)  \/ ~ChunkEnough(need)
  <2> SUFFICES ASSUME ChunkEnough(need)  PROVE ChunkShows(ChunkHits, from)  OBVIOUS
  <2>1. CASE qpage.fast
    <3>1. ChunkHits = qpage.text  BY <2>1 DEF ChunkHits
    <3>2. qpage.text = Part(Q!Scrolled(ChunkIdno), from, k)
      BY <2>1 DEF ChunkKnows, ChunkKnowsFast
    <3>3. ChunkWhole = Q!Scrolled(ChunkIdno)  BY <1>5, <2>1 DEF ChunkWhole
    <3> QED  BY <1>1, <3>1, <3>2, <3>3, ChunkShowsPart
  <2>2. CASE ~qpage.fast /\ qreq.mode = "keyword" /\ qreq.sparse
    <3>1. ChunkHits = qpage.text  BY <2>2 DEF ChunkHits
    <3>2. qpage.text = ChunkPageOf(ChunkWords, from)  BY <2>2 DEF ChunkKnows, ChunkKnowsText
    <3>3. ChunkWhole = ChunkGrouped(ChunkWords)  BY <1>5, <2>2 DEF ChunkWhole
    <3>4. ChunkHits = Part(ChunkWhole, from, k)  BY <1>1, <1>4, <3>1, <3>2, <3>3, ChunkPaged
    <3> QED  BY <1>1, <3>4, ChunkShowsPart
  <2>3. CASE ~qpage.fast /\ qreq.mode = "keyword" /\ ~qreq.sparse
    <3>1. ChunkHits = ChunkPageOf(qpage.text, from)  BY <2>3, ChunkPageWords DEF ChunkHits
    <3>2. Len(ChunkWords) >= w
      BY <1>3, <1>5, <2>3 DEF ChunkEnough, Q!ByScroll
    <3>3. qpage.text = Part(ChunkWords, 0, w)  BY <2>3, <3>2 DEF ChunkKnows, ChunkKnowsText
    <3>4. ChunkWhole = ChunkGrouped(ChunkWords)  BY <1>5, <2>3 DEF ChunkWhole
    <3>5. PICK h : h = ChunkPageOf(Part(ChunkWords, 0, w), from)  OBVIOUS
    <3>a. w \in Nat /\ from \in Nat  BY <1>1, <1>2
    <3> HIDE DEF w, from
    <3>6. \A j \in 1..Len(h) : /\ from + j \in 1..Len(ChunkGrouped(ChunkWords))
                               /\ h[j] = ChunkGrouped(ChunkWords)[from + j]
      BY ONLY <1>4, <3>a, <3>5, ChunkBegun, Q!QdrantAssumption, ChunkRequest
    <3>7. h = ChunkHits  BY <3>1, <3>3, <3>5
    <3> QED  BY <2>3, <3>4, <3>6, <3>7 DEF ChunkShows, from
  <2>4. CASE ~qpage.fast /\ qreq.mode = "vector"
    <3>1. ChunkHits = qpage.near  BY <2>4 DEF ChunkHits
    <3>2. qpage.near = ChunkPageOf(Q!Neighbours, from)  BY <2>4 DEF ChunkKnows, ChunkKnowsNear
    <3>3. ChunkWhole = ChunkGrouped(Q!Neighbours)  BY <1>5, <2>4 DEF ChunkWhole
    <3>4. ChunkHits = Part(ChunkWhole, from, k)  BY <1>1, <1>4, <3>1, <3>2, <3>3, ChunkPaged
    <3> QED  BY <1>1, <3>4, ChunkShowsPart
  <2>5. CASE ~qpage.fast /\ qreq.mode = "hybrid"
    <3> DEFINE m == Q!RRF(qpage.near, qpage.text, Q!PrefetchK)
    <3>1. ChunkHits = ChunkRetrieved(m, from)  BY <2>5 DEF ChunkHits, ChunkRetrieved
    <3>2. ChunkK(need) = ChunkK(1) /\ w = ChunkK(1)
      <4>1. need <= Prefetch  BY <2>5 DEF ChunkEnough
      <4>2. ChunkK(need) = ChunkK(1)  BY <1>1, <4>1, ChunkKIs
      <4> QED  BY <2>5, <4>2 DEF ChunkWants
    <3>3. Q!PrefetchK = ChunkK(1)  BY <3>2, ChunkPageWords DEF Q!Need
    <3>4. qpage.near = Part(Q!Neighbours, 0, ChunkK(1))
      BY <2>5, <3>2 DEF ChunkKnows, ChunkKnowsNear
    <3>5. qpage.text = Part(ChunkWords, 0, ChunkK(1))
      <4>1. CASE qreq.sparse  BY <2>5, <3>2, <4>1 DEF ChunkKnows, ChunkKnowsText
      <4>2. CASE ~qreq.sparse
        <5>1. Len(ChunkWords) >= w  BY <1>3, <1>5, <2>5, <4>2 DEF ChunkEnough, Q!ByScroll
        <5> QED  BY <2>5, <3>2, <4>2, <5>1 DEF ChunkKnows, ChunkKnowsText
      <4> QED  BY <4>1, <4>2
    <3>6. m = ChunkMerged  BY <3>3, <3>4, <3>5 DEF ChunkMerged
    <3>7. ChunkLists(m, ToSet(m)) /\ ToSet(m) \subseteq points  BY <3>6, ChunkMergedIs
    <3> HIDE DEF m
    <3>8. ChunkHits = Part(ChunkGrouped(m), from, k)  BY <1>1, <3>1, <3>7, ChunkRetrievedIs
    <3>9. ChunkWhole = ChunkGrouped(m)  BY <1>5, <2>5, <3>6 DEF ChunkWhole
    <3> QED  BY <1>1, <3>8, <3>9, ChunkShowsPart
  <2> QED  BY <1>1, <2>1, <2>2, <2>3, <2>4, <2>5, ChunkRequestIs
<1> QED  BY <1>5, <1>6

-----------------------------------------------------------------------------
(* The steps. *)

ChunkRecords ==
  [pc : {"idle", "asked", "answered", "error"}, from : Nat, fast : BOOLEAN,
   todo : SUBSET {"total", "near", "text"}, total : 0..Cardinality(Points),
   near : Seq(Points), text : Seq(Points), cursor : Points \cup {None}]

LEMMA ChunkSteadyKeeps ==
  ASSUME Q!QdrantAssumption, ChunkInv, Q!Steady, NEW r, qpage' = r,
         ChunkTyped(r), ChunkPlace(r), qcalm => ChunkKnows(r)
  PROVE  ChunkInv'
<1>1. points' = points /\ qreq' = qreq /\ qpages' = qpages /\ qcalm' = qcalm  BY DEF Q!Steady
<1>2. /\ ChunkTyped(r) => ChunkTyped(r)'
      /\ ChunkKnows(r) => ChunkKnows(r)'
      /\ \A a : ChunkTrue(a) => ChunkTrue(a)'
  BY ONLY <1>1, ChunkStillKnows
<1>3. ChunkRequest' /\ (qcalm \in BOOLEAN)'  BY <1>1 DEF ChunkInv, ChunkRequest
<1>4. ChunkTyped(qpage)'  BY <1>2
<1>5. (qcalm => ChunkKnows(qpage))'  BY <1>1, <1>2
<1>6. ChunkPlace(qpage)'  BY <1>1 DEF ChunkPlace
<1>7. ChunkPages'
  <2>1. ASSUME NEW i \in 1..Len(qpages)
        PROVE  ChunkAnswered(qpages[i], i)' /\ (qcalm => ChunkTrue(qpages[i]))'
    <3>1. PICK a : a = qpages[i]  OBVIOUS
    <3>2. ChunkAnswered(a, i) /\ (qcalm => ChunkTrue(a))  BY <3>1 DEF ChunkInv, ChunkPages
    <3>3. (qpages[i])' = a  BY <1>1, <3>1
    <3>4. ChunkAnswered(a, i)'  BY <1>1, <3>2 DEF ChunkAnswered
    <3> QED  BY <1>1, <1>2, <3>2, <3>3, <3>4 DEF ChunkAnswered
  <2> QED  BY <1>1, <2>1 DEF ChunkInv, ChunkPages
<1> QED  BY <1>3, <1>4, <1>5, <1>6, <1>7 DEF ChunkInv

LEMMA ChunkSamePlace ==
  ASSUME NEW q, NEW r, r.pc = q.pc, r.from = q.from, ChunkPlace(q)
  PROVE  ChunkPlace(r)
BY DEF ChunkPlace

\* A page is asked for.
LEMMA ChunkAsks ==
  ASSUME Q!QdrantAssumption, ChunkRequest, NEW from \in Nat, NEW fast \in BOOLEAN,
         fast => qreq.idno # None, NEW r, r = Q!Asked(from, fast)
  PROVE  /\ ChunkTyped(r) /\ r.pc = "asked" /\ r.from = from
         /\ (~fast => ~ChunkFast) => ChunkKnows(r)
<1> DEFINE todo == IF fast \/ qreq.mode = "keyword" THEN {"total", "text"}
                   ELSE IF qreq.mode = "vector" THEN {"total", "near"}
                   ELSE {"total", "near", "text"}
<1>1. r = [pc |-> "asked", from |-> from, fast |-> fast, todo |-> todo, total |-> 0,
           near |-> <<>>, text |-> <<>>, cursor |-> None]
  BY DEF Q!Asked, Q!Blank
<1>2. /\ r.pc = "asked" /\ r.from = from /\ r.fast = fast /\ r.todo = todo /\ r.total = 0
      /\ r.near = <<>> /\ r.text = <<>> /\ r.cursor = None
  BY <1>1
<1>3. /\ qreq.mode \in {"keyword", "vector", "hybrid"} /\ qreq.size \in Nat \ {0}
      /\ fast => qreq.mode = "keyword" /\ ~qreq.threshold
  BY ChunkRequestIs DEF ChunkRequest
<1>4. Len(Q!Neighbours) \in Nat /\ ChunkWords \in Seq(Points)  BY ChunkNeighbours DEF ChunkLists
<1>5. ChunkWants(from + qreq.size) \in Nat \ {0}
  <2>1. from + qreq.size \in Nat \ {0}  BY <1>3
  <2> QED  BY <2>1, ChunkKIs
<1>6. <<>> = Part(ChunkWords, 0, 0)
  <2>1. PartOf(Part(ChunkWords, 0, 0), Points, ChunkWords, 0, 0)  BY <1>4, PartIs
  <2>2. Part(ChunkWords, 0, 0) \in Seq(Points) /\ Len(Part(ChunkWords, 0, 0)) = 0
    BY <2>1 DEF PartOf
  <2> QED  BY <2>2
<1>7. Cardinality(Points) \in Nat /\ CountCap \in Nat  BY ChunkGiven
<1>8. "total" \in todo /\ ("text" \notin todo => ~fast /\ qreq.mode = "vector")
      /\ ("near" \notin todo => qreq.mode = "keyword") /\ ("near" \in todo => ~fast /\ qreq.mode # "keyword")
      /\ ("text" \in todo => qreq.mode # "vector")
      /\ todo \in SUBSET {"total", "near", "text"}
  BY <1>3
<1> HIDE DEF todo
<1>9. r \in ChunkRecords
  <2>1. <<>> \in Seq(Points) /\ 0 \in 0..Cardinality(Points)  BY <1>7
  <2> QED  BY <1>1, <1>8, <2>1 DEF ChunkRecords
<1>10. ChunkTyped(r)
  BY <1>2, <1>3, <1>5, <1>7, <1>8, <1>9 DEF ChunkTyped, ChunkRecords
<1>11. ASSUME ~fast => ~ChunkFast  PROVE ChunkKnows(r)
  <2>1. ChunkKnowsFast(r)  BY <1>2, <1>8, <1>11 DEF ChunkKnowsFast
  <2>2. ChunkKnowsTotal(r)  BY <1>2, <1>4, <1>8 DEF ChunkKnowsTotal
  <2>3. ChunkKnowsNear(r)  BY <1>2, <1>8 DEF ChunkKnowsNear
  <2>4. ChunkKnowsText(r)
    <3>1. Len(r.text) = 0 /\ r.text = Part(ChunkWords, 0, Len(r.text))  BY <1>2, <1>6
    <3> QED  BY <1>2, <1>8, <3>1 DEF ChunkKnowsText
  <2> QED  BY <2>1, <2>2, <2>3, <2>4 DEF ChunkKnows
<1> QED  BY <1>2, <1>10, <1>11

LEMMA ChunkAskPageKeeps ==
  ASSUME Q!QdrantAssumption, ChunkInv, Q!AskPage
  PROVE  ChunkInv'
<1>1. ChunkRequest /\ ChunkTyped(qpage) /\ ChunkPlace(qpage) /\ ChunkPages  BY DEF ChunkInv
<1>2. qpage.from \in Nat /\ qreq.size \in Nat \ {0} /\ Len(qpages) \in Nat
  BY <1>1, ChunkFields, ChunkRequestIs DEF ChunkPages
<1>3. \E from \in Nat : /\ qpage' = Q!Asked(from, qreq.idno # None)
                        /\ from = Len(qpages) * qreq.size
                        /\ \A i \in 1..Len(qpages) : Len(qpages[i].hits) = qreq.size
  <2>1. CASE qpage.pc = "idle" /\ qpage' = Q!Asked(0, qreq.idno # None)
    BY <1>1, <1>2, <2>1 DEF ChunkPlace
  <2>2. CASE /\ qpage.pc = "answered" /\ Len(Q!Last(qpages).hits) = qreq.size
             /\ qpage' = Q!Asked(Q!Need, qreq.idno # None)
    <3> DEFINE n == Len(qpages)  k == qreq.size
    <3>1. /\ n > 0 /\ qpage.from = (n - 1) * k
          /\ \A i \in 1..(n - 1) : Len(qpages[i].hits) = k
      BY <1>1, <2>2 DEF ChunkPlace
    <3>2. Len(qpages[n].hits) = k  BY <2>2, ChunkLast
    <3>3. \A i \in 1..n : Len(qpages[i].hits) = k  BY <1>2, <3>1, <3>2
    <3>4. Q!Need = qpage.from + k  BY DEF Q!Need
    <3> HIDE DEF n, k
    <3>5. n \in Nat /\ k \in Nat  BY <1>2 DEF n, k
    <3>6. (n - 1) * k + k = n * k  BY <3>5
    <3>7. Q!Need = n * k /\ Q!Need \in Nat  BY <1>2, <3>1, <3>4, <3>5, <3>6
    <3> QED  BY <2>2, <3>3, <3>7 DEF n, k
  <2> QED  BY <2>1, <2>2 DEF Q!AskPage
<1>4. PICK from \in Nat : /\ qpage' = Q!Asked(from, qreq.idno # None)
                          /\ from = Len(qpages) * qreq.size
                          /\ \A i \in 1..Len(qpages) : Len(qpages[i].hits) = qreq.size
  BY <1>3
<1>5. PICK r : r = Q!Asked(from, qreq.idno # None)  OBVIOUS
<1>6. /\ ChunkTyped(r) /\ r.pc = "asked" /\ r.from = from
      /\ (~(qreq.idno # None) => ~ChunkFast) => ChunkKnows(r)
  BY <1>1, <1>5, ChunkAsks
<1>7. qreq.idno = None => ~ChunkFast  BY DEF ChunkFast
<1>8. ChunkPlace(r)  BY <1>4, <1>6 DEF ChunkPlace
<1>9. Q!Steady  BY DEF Q!AskPage, Q!Steady
<1> QED  BY <1>4, <1>5, <1>6, <1>7, <1>8, <1>9, ChunkSteadyKeeps

\* A total has come, or more of it.
LEMMA ChunkCounted ==
  ASSUME Q!QdrantAssumption, ChunkInv, NEW todo, todo \in {qpage.todo, qpage.todo \ {"total"}},
         NEW total \in 0..Cardinality(Points), "total" \in qpage.todo,
         NEW r, r = [qpage EXCEPT !.todo = todo, !.total = total],
         qreq.threshold => total <= CountCap
  PROVE  /\ ChunkTyped(r) /\ ChunkPlace(r)
         /\ qcalm => ChunkKnowsNear(r) /\ ChunkKnowsText(r)
         /\ qcalm /\ ~qpage.fast => ChunkKnowsFast(r)
<1>1. ChunkTyped(qpage) /\ ChunkPlace(qpage) /\ (qcalm => ChunkKnows(qpage))  BY DEF ChunkInv
<1>2. qpage \in ChunkRecords  BY <1>1 DEF ChunkTyped, ChunkRecords
<1>3. qpage.pc = "asked"  BY <1>1 DEF ChunkTyped
<1>4. todo \in SUBSET {"total", "near", "text"}  BY <1>2 DEF ChunkRecords
<1>5. /\ r.todo = todo /\ r.total = total /\ r.pc = qpage.pc /\ r.from = qpage.from
      /\ r.fast = qpage.fast /\ r.near = qpage.near /\ r.text = qpage.text
      /\ r.cursor = qpage.cursor
  BY <1>2 DEF ChunkRecords
<1>6. r \in ChunkRecords  BY <1>2, <1>4 DEF ChunkRecords
<1>7. ("near" \in todo <=> "near" \in qpage.todo) /\ ("text" \in todo <=> "text" \in qpage.todo)
  OBVIOUS
<1>8. ChunkTyped(r)  BY <1>1, <1>3, <1>5, <1>6, <1>7 DEF ChunkTyped, ChunkRecords
<1>9. ChunkPlace(r)  BY <1>1, <1>5, ChunkSamePlace
<1>10. qcalm => ChunkKnowsNear(r)  BY <1>1, <1>5, <1>7 DEF ChunkKnows, ChunkKnowsNear
<1>11. qcalm => ChunkKnowsText(r)  BY <1>1, <1>5, <1>7 DEF ChunkKnows, ChunkKnowsText
<1>12. qcalm /\ ~qpage.fast => ChunkKnowsFast(r)  BY <1>1, <1>5 DEF ChunkKnows, ChunkKnowsFast
<1> QED  BY <1>8, <1>9, <1>10, <1>11, <1>12

LEMMA ChunkFastCountKeeps ==
  ASSUME Q!QdrantAssumption, ChunkInv, Q!FastCount
  PROVE  ChunkInv'
<1> DEFINE total == Cardinality(ChunkFound)  todo == qpage.todo \ {"total"}
<1>1. ChunkRequest /\ ChunkTyped(qpage) /\ (qcalm => ChunkKnows(qpage))  BY DEF ChunkInv
<1>2. PICK r : r = [qpage EXCEPT !.todo = todo, !.total = total]  OBVIOUS
<1>3. qpage.fast /\ "total" \in qpage.todo /\ qpage' = r /\ Q!Steady
  BY <1>2, ChunkCardinality DEF Q!FastCount, Q!Came, ChunkFound
<1>4. qreq.mode = "keyword" /\ ~qreq.threshold  BY <1>1, <1>3 DEF ChunkTyped, ChunkRequest
<1>5. total \in 0..Cardinality(Points)
  <2>1. ChunkFound \in SUBSET Points  BY <1>1 DEF ChunkRequest, ChunkFound
  <2>2. Cardinality(ChunkFound) \in Nat /\ Cardinality(ChunkFound) <= Cardinality(Points)
        /\ Cardinality(Points) \in Nat
    BY <2>1, ChunkGiven
  <2> QED  BY <2>2
<1>a. todo \in {qpage.todo, qpage.todo \ {"total"}}  OBVIOUS
<1> HIDE DEF total, todo
<1>6. /\ ChunkTyped(r) /\ ChunkPlace(r)
      /\ qcalm => ChunkKnowsNear(r) /\ ChunkKnowsText(r)
  BY <1>2, <1>3, <1>4, <1>5, <1>a, ChunkCounted
<1>7. qcalm => ChunkKnowsTotal(r)  BY <1>4 DEF ChunkKnowsTotal
<1>8. qcalm => ChunkKnowsFast(r)
  <2>1. qpage \in ChunkRecords /\ qpage.pc = "asked"
    BY <1>1, <1>3 DEF ChunkTyped, ChunkRecords
  <2>2. /\ r.todo = todo /\ r.total = total /\ r.pc = "asked" /\ r.fast = qpage.fast
        /\ r.from = qpage.from /\ r.text = qpage.text
    BY <1>2, <2>1 DEF ChunkRecords
  <2> QED  BY <1>1, <1>3, <2>1, <2>2 DEF ChunkKnows, ChunkKnowsFast, total, todo
<1>9. qcalm => ChunkKnows(r)  BY <1>6, <1>7, <1>8 DEF ChunkKnows
<1> QED  BY <1>3, <1>6, <1>9, ChunkSteadyKeeps

LEMMA ChunkCountKeeps ==
  ASSUME Q!QdrantAssumption, ChunkInv, Q!Count
  PROVE  ChunkInv'
<1> DEFINE U == points \cap IF qreq.mode = "keyword" THEN Matching ELSE Points
           total == Cardinality(U)  todo == qpage.todo \ {"total"}
<1>1. ChunkRequest  BY DEF ChunkInv
<1>2. PICK r : r = [qpage EXCEPT !.todo = todo, !.total = total]  OBVIOUS
<1>3. ~qpage.fast /\ "total" \in qpage.todo /\ qpage' = r /\ Q!Steady
      /\ ~(qreq.mode # "keyword" /\ qreq.threshold)
  BY <1>2, ChunkCardinality DEF Q!Count, Q!Came
<1>4. ~qreq.threshold  BY <1>1, <1>3 DEF ChunkRequest
<1>5. total \in 0..Cardinality(Points)
  <2>1. U \in SUBSET Points  BY <1>1 DEF ChunkRequest
  <2> HIDE DEF U
  <2>2. Cardinality(U) \in Nat /\ Cardinality(U) <= Cardinality(Points) /\ Cardinality(Points) \in Nat
    BY <2>1, ChunkGiven
  <2> QED  BY <2>2
<1> HIDE DEF total
<1>6. /\ ChunkTyped(r) /\ ChunkPlace(r)
      /\ qcalm => ChunkKnowsNear(r) /\ ChunkKnowsText(r) /\ ChunkKnowsFast(r)
  BY <1>2, <1>3, <1>4, <1>5, ChunkCounted
<1>7. qcalm => ChunkKnowsTotal(r)  BY <1>4 DEF ChunkKnowsTotal
<1>8. qcalm => ChunkKnows(r)  BY <1>6, <1>7 DEF ChunkKnows
<1> QED  BY <1>3, <1>6, <1>8, ChunkSteadyKeeps

LEMMA ChunkCountNeighboursKeeps ==
  ASSUME Q!QdrantAssumption, ChunkInv, Q!CountNeighbours
  PROVE  ChunkInv'
<1>1. ChunkRequest /\ ChunkTyped(qpage) /\ (qcalm => ChunkKnows(qpage))  BY DEF ChunkInv
<1> DEFINE len == Len(Q!Neighbours)  before == qpage.total
           limit == IF CountBatch <= CountCap - before THEN CountBatch ELSE CountCap - before
           got == PartLen(len, before, limit)  total == before + got
           over == got < limit \/ before + got >= CountCap
           todo == IF over THEN qpage.todo \ {"total"} ELSE qpage.todo
<1>2. /\ ~qpage.fast /\ "total" \in qpage.todo /\ qreq.threshold /\ Q!Steady
      /\ qpage \in ChunkRecords /\ before \in 0..CountCap /\ before \in 0..Cardinality(Points)
      /\ CountCap \in Nat /\ CountBatch \in Nat /\ Cardinality(Points) \in Nat
      /\ qpage.pc = "asked"
  <2>1. ~qpage.fast /\ "total" \in qpage.todo /\ qreq.threshold /\ Q!Steady
    BY DEF Q!CountNeighbours
  <2>2. qpage \in ChunkRecords /\ qpage.pc = "asked"
    BY <1>1, <2>1 DEF ChunkTyped, ChunkRecords
  <2>3. CountCap \in Nat /\ CountBatch \in Nat /\ Cardinality(Points) \in Nat  BY ChunkGiven
  <2>4. before \in 0..Cardinality(Points)  BY <2>2 DEF ChunkRecords
  <2>5. before <= CountCap  BY <1>1, <2>1 DEF ChunkTyped
  <2>6. before \in 0..CountCap  BY <2>3, <2>4, <2>5
  <2> QED  BY <2>1, <2>2, <2>3, <2>4, <2>6
<1>3. len \in Nat /\ len <= Cardinality(Points) /\ Q!Neighbours \in Seq(Points)
  BY <1>1, ChunkNeighbours DEF ChunkLists
<1>4. /\ limit \in Nat /\ got \in Nat /\ total \in 0..CountCap
      /\ before <= len => total <= len
      /\ before > len => got = 0
      /\ before <= len /\ over => total = IF len <= CountCap THEN len ELSE CountCap
  <2> HIDE DEF len, before
  <2>1. PICK l : l = limit  OBVIOUS
  <2>2. PICK g : g = PartLen(len, before, l)  OBVIOUS
  <2>3. l = IF CountBatch <= CountCap - before THEN CountBatch ELSE CountCap - before  BY <2>1
  <2>a. /\ CountCap \in Nat /\ CountBatch \in Nat /\ len \in Nat
        /\ before \in Nat /\ before <= CountCap
    BY <1>2, <1>3
  <2>b. l \in Nat /\ l <= CountCap - before  BY ONLY <2>3, <2>a
  <2>c. g \in 0..l  BY ONLY <2>2, <2>a, <2>b DEF PartLen
  <2>d. before <= len /\ g < l => before + g = len  BY ONLY <2>2, <2>a, <2>b DEF PartLen
  <2>e. before <= len => before + g <= len  BY ONLY <2>2, <2>a, <2>b DEF PartLen
  <2>f. before > len => g = 0  BY ONLY <2>2, <2>a, <2>b DEF PartLen
  <2>4. /\ l \in Nat /\ g \in Nat /\ before + g \in 0..CountCap
        /\ before <= len => before + g <= len
        /\ before > len => g = 0
        /\ before <= len /\ (g < l \/ before + g >= CountCap) =>
             before + g = IF len <= CountCap THEN len ELSE CountCap
    BY ONLY <2>a, <2>b, <2>c, <2>d, <2>e, <2>f
  <2>5. g = got  BY <2>1, <2>2
  <2> QED  BY <2>1, <2>4, <2>5
<1>5. Q!Min({CountBatch, CountCap - before}) = limit
  <2>1. CountBatch \in Int /\ CountCap - before \in Int  BY <1>2
  <2> HIDE DEF before
  <2> QED  BY <2>1, ChunkMin
<1>6. Len(Q!Cut(Q!Neighbours, before, limit)) = got
  <2>1. before \in Nat  BY <1>2
  <2>2. PartOf(Part(Q!Neighbours, before, limit), Points, Q!Neighbours, before, limit)
    <3> HIDE DEF before, limit
    <3> QED  BY <1>3, <1>4, <2>1, PartIs
  <2>3. Len(Part(Q!Neighbours, before, limit)) = got  BY <2>2 DEF PartOf
  <2> QED  BY <2>3, ChunkCut
<1>7. PICK r : r = [qpage EXCEPT !.todo = todo, !.total = total]  OBVIOUS
<1>8. qpage' = r
  <2>1. qpage' = [qpage EXCEPT !.total = @ + got, !.todo = IF over THEN qpage.todo \ {"total"} ELSE @]
    <3> HIDE DEF limit, got
    <3> QED  BY <1>5, <1>6 DEF Q!CountNeighbours, Q!Came, over
  <2> HIDE DEF got, over
  <2> QED  BY <1>2, <1>7, <2>1 DEF ChunkRecords
<1>9. total \in 0..Cardinality(Points) /\ total <= CountCap
  <2> HIDE DEF len, before, got
  <2> QED  BY <1>2, <1>3, <1>4
<1>10. todo \in {qpage.todo, qpage.todo \ {"total"}}
       /\ (~over => "total" \in todo) /\ (over => "total" \notin todo)
  <2> HIDE DEF over
  <2> QED  BY <1>2
<1>11. /\ r.todo = todo /\ r.total = total
  <2> HIDE DEF todo, total
  <2> QED  BY <1>2, <1>7 DEF ChunkRecords
<1> HIDE DEF todo, total
<1>12. /\ ChunkTyped(r) /\ ChunkPlace(r)
       /\ qcalm => ChunkKnowsNear(r) /\ ChunkKnowsText(r) /\ ChunkKnowsFast(r)
  BY <1>2, <1>7, <1>9, <1>10, ChunkCounted
<1>13. qcalm => ChunkKnowsTotal(r)
  <2> SUFFICES ASSUME qcalm  PROVE ChunkKnowsTotal(r)  OBVIOUS
  <2>1. before <= len  BY <1>1, <1>2 DEF ChunkKnows, ChunkKnowsTotal
  <2>2. total <= len /\ (over => total = ChunkCap)
    <3> HIDE DEF len, before, over
    <3> QED  BY <1>4, <2>1 DEF ChunkCap, len
  <2> HIDE DEF over
  <2> QED  BY <1>10, <1>11, <2>2 DEF ChunkKnowsTotal
<1>14. qcalm => ChunkKnows(r)  BY <1>12, <1>13 DEF ChunkKnows
<1> QED  BY <1>2, <1>8, <1>12, <1>14, ChunkSteadyKeeps

LEMMA ChunkNearKeeps ==
  ASSUME Q!QdrantAssumption, ChunkInv, Q!Near
  PROVE  ChunkInv'
<1> DEFINE todo == qpage.todo \ {"near"}
           near1 == IF qreq.mode = "vector" THEN Q!PageOf(Q!Neighbours)
                    ELSE Q!Cut(Q!Neighbours, 0, Q!PrefetchK)
<1>1. ChunkRequest /\ ChunkTyped(qpage) /\ ChunkPlace(qpage) /\ (qcalm => ChunkKnows(qpage))
  BY DEF ChunkInv
<1>2. PICK r : r = [qpage EXCEPT !.todo = todo, !.near = near1]  OBVIOUS
<1>3. "near" \in qpage.todo /\ qpage' = r /\ Q!Steady  BY <1>2 DEF Q!Near, Q!Came
<1>4. qpage \in ChunkRecords /\ qpage.pc = "asked" /\ ~qpage.fast /\ qreq.mode # "keyword"
  BY <1>1, <1>3 DEF ChunkTyped, ChunkRecords
<1>5. qpage.from \in Nat /\ qreq.size \in Nat \ {0} /\ Q!Neighbours \in Seq(Points)
      /\ qpage.from + qreq.size \in Nat \ {0}
  BY <1>1, ChunkFields, ChunkRequestIs, ChunkNeighbours DEF ChunkLists
<1>6. /\ qreq.mode = "vector" =>
           near1 = ChunkPageOf(Q!Neighbours, qpage.from) /\ Len(near1) <= qreq.size
      /\ qreq.mode # "vector" => near1 = Part(Q!Neighbours, 0, ChunkK(qpage.from + qreq.size))
      /\ near1 \in Seq(Points)
  <2>1. CASE qreq.mode = "vector"
    <3>1. near1 = ChunkPageOf(Q!Neighbours, qpage.from)  BY <2>1, ChunkPageWords
    <3>2. PartOf(near1, Points, ChunkGrouped(Q!Neighbours), qpage.from, qreq.size)
      <4> HIDE DEF near1
      <4> QED  BY <1>1, <1>5, <3>1, ChunkPaged
    <3> HIDE DEF near1
    <3>3. near1 \in Seq(Points) /\ Len(near1) \in 0..qreq.size  BY <3>2 DEF PartOf
    <3> QED  BY <1>5, <2>1, <3>1, <3>3
  <2>2. CASE qreq.mode # "vector"
    <3> DEFINE k == ChunkK(qpage.from + qreq.size)
    <3>1. near1 = Part(Q!Neighbours, 0, k)  BY <2>2, ChunkPageWords, ChunkCut DEF Q!Need
    <3>2. k \in Nat  BY <1>1, <1>5, ChunkKIs
    <3> HIDE DEF k, near1
    <3>3. PartOf(Part(Q!Neighbours, 0, k), Points, Q!Neighbours, 0, k)  BY <1>5, <3>2, PartIs
    <3> QED  BY <2>2, <3>1, <3>3 DEF PartOf, k
  <2> QED  BY <2>1, <2>2
<1> HIDE DEF near1
<1>7. /\ r.todo = todo /\ r.total = qpage.total /\ r.pc = qpage.pc /\ r.from = qpage.from
      /\ r.fast = qpage.fast /\ r.near = near1 /\ r.text = qpage.text
      /\ r.cursor = qpage.cursor
  BY <1>2, <1>4 DEF ChunkRecords
<1>8. r \in ChunkRecords  BY <1>2, <1>4, <1>6 DEF ChunkRecords
<1>9. /\ "near" \notin todo /\ ("text" \in todo <=> "text" \in qpage.todo)
      /\ ("total" \in todo <=> "total" \in qpage.todo)
  OBVIOUS
<1> HIDE DEF todo
<1>10. ChunkTyped(r)  BY <1>1, <1>4, <1>6, <1>7, <1>8, <1>9 DEF ChunkTyped, ChunkRecords
<1>11. ChunkPlace(r)  BY <1>1, <1>7, ChunkSamePlace
<1>12. qcalm => ChunkKnows(r)
  <2> SUFFICES ASSUME qcalm  PROVE ChunkKnows(r)  OBVIOUS
  <2>1. ChunkKnowsFast(r)  BY <1>1, <1>4, <1>7 DEF ChunkKnows, ChunkKnowsFast
  <2>2. ChunkKnowsTotal(r)  BY <1>1, <1>7, <1>9 DEF ChunkKnows, ChunkKnowsTotal
  <2>3. ChunkKnowsNear(r)  BY <1>6, <1>7 DEF ChunkKnowsNear
  <2>4. ChunkKnowsText(r)  BY <1>1, <1>7, <1>9 DEF ChunkKnows, ChunkKnowsText
  <2> QED  BY <2>1, <2>2, <2>3, <2>4 DEF ChunkKnows
<1> QED  BY <1>3, <1>10, <1>11, <1>12, ChunkSteadyKeeps

\* The matches have come, or more of them.
LEMMA ChunkRead ==
  ASSUME Q!QdrantAssumption, ChunkInv, NEW todo, todo \in {qpage.todo, qpage.todo \ {"text"}},
         NEW text \in Seq(Points), NEW cursor \in Points \cup {None}, "text" \in qpage.todo,
         NEW r, r = [qpage EXCEPT !.todo = todo, !.text = text, !.cursor = cursor],
         qpage.fast \/ (qreq.mode = "keyword" /\ qreq.sparse) => Len(text) <= qreq.size,
         "text" \in todo /\ ~qpage.fast => Len(text) < ChunkWants(qpage.from + qreq.size)
  PROVE  /\ ChunkTyped(r) /\ ChunkPlace(r)
         /\ qcalm => ChunkKnowsNear(r) /\ ChunkKnowsTotal(r)
         /\ qcalm /\ ~qpage.fast => ChunkKnowsFast(r)
<1>1. ChunkTyped(qpage) /\ ChunkPlace(qpage) /\ (qcalm => ChunkKnows(qpage))  BY DEF ChunkInv
<1>2. qpage \in ChunkRecords  BY <1>1 DEF ChunkTyped, ChunkRecords
<1>3. qpage.pc = "asked"  BY <1>1 DEF ChunkTyped
<1>4. todo \in SUBSET {"total", "near", "text"}  BY <1>2 DEF ChunkRecords
<1>5. /\ r.todo = todo /\ r.total = qpage.total /\ r.pc = qpage.pc /\ r.from = qpage.from
      /\ r.fast = qpage.fast /\ r.near = qpage.near /\ r.text = text
      /\ r.cursor = cursor
  BY <1>2 DEF ChunkRecords
<1>6. r \in ChunkRecords  BY <1>2, <1>4 DEF ChunkRecords
<1>7. ("near" \in todo <=> "near" \in qpage.todo) /\ ("total" \in todo <=> "total" \in qpage.todo)
      /\ ("text" \in todo => "text" \in qpage.todo)
  OBVIOUS
<1>8. ChunkTyped(r)  BY <1>1, <1>3, <1>5, <1>6, <1>7 DEF ChunkTyped, ChunkRecords
<1>9. ChunkPlace(r)  BY <1>1, <1>5, ChunkSamePlace
<1>10. qcalm => ChunkKnowsNear(r)  BY <1>1, <1>5, <1>7 DEF ChunkKnows, ChunkKnowsNear
<1>11. qcalm => ChunkKnowsTotal(r)  BY <1>1, <1>5, <1>7 DEF ChunkKnows, ChunkKnowsTotal
<1>12. qcalm /\ ~qpage.fast => ChunkKnowsFast(r)  BY <1>1, <1>5 DEF ChunkKnows, ChunkKnowsFast
<1> QED  BY <1>8, <1>9, <1>10, <1>11, <1>12

LEMMA ChunkFastScrollKeeps ==
  ASSUME Q!QdrantAssumption, ChunkInv, Q!FastScroll
  PROVE  ChunkInv'
<1> DEFINE text == Part(Q!Scrolled(ChunkIdno), qpage.from, qreq.size)  todo == {}
<1>1. ChunkRequest /\ ChunkTyped(qpage) /\ (qcalm => ChunkKnows(qpage))  BY DEF ChunkInv
<1>2. qpage \in ChunkRecords  BY <1>1 DEF ChunkTyped, ChunkRecords
<1>3. PICK r : r = [qpage EXCEPT !.todo = todo, !.text = text, !.cursor = qpage.cursor]  OBVIOUS
<1>4. qpage.fast /\ qpage.todo = {"text"} /\ qpage' = r /\ Q!Steady
  <2>1. qpage.fast /\ qpage.todo = {"text"} /\ Q!Steady
        /\ qpage' = [qpage EXCEPT !.todo = {}, !.text = text]
    BY ChunkCut DEF Q!FastScroll, ChunkIdno
  <2> HIDE DEF text
  <2>2. r = [qpage EXCEPT !.todo = {}, !.text = text]  BY <1>2, <1>3 DEF ChunkRecords
  <2> QED  BY <2>1, <2>2
<1>5. todo \in {qpage.todo, qpage.todo \ {"text"}} /\ "text" \in qpage.todo /\ "text" \notin todo
  BY <1>4
<1>6. text \in Seq(Points) /\ Len(text) <= qreq.size
  <2>1. ChunkLists(Q!Scrolled(ChunkIdno), ChunkIdno \cap points)
    BY <1>1, ChunkScrolled DEF ChunkRequest
  <2>2. qpage.from \in Nat /\ qreq.size \in Nat  BY <1>1, ChunkFields, ChunkRequestIs
  <2>3. PartOf(text, Points, Q!Scrolled(ChunkIdno), qpage.from, qreq.size)
    BY <2>1, <2>2, ChunkPart
  <2> HIDE DEF text
  <2>4. text \in Seq(Points) /\ Len(text) \in 0..qreq.size  BY <2>3 DEF PartOf
  <2> QED  BY <2>2, <2>4
<1>7. qpage.cursor \in Points \cup {None}  BY <1>2 DEF ChunkRecords
<1>8. /\ r.todo = todo /\ r.total = qpage.total /\ r.from = qpage.from /\ r.fast = qpage.fast
      /\ r.pc = qpage.pc /\ r.text = text
  <2> HIDE DEF text, todo
  <2> QED  BY <1>2, <1>3 DEF ChunkRecords
<1> HIDE DEF text, todo
<1>9. /\ ChunkTyped(r) /\ ChunkPlace(r)
      /\ qcalm => ChunkKnowsNear(r) /\ ChunkKnowsTotal(r)
  BY <1>3, <1>5, <1>6, <1>7, ChunkRead
<1>10. qcalm => ChunkKnowsFast(r)
  BY <1>1, <1>4, <1>8 DEF ChunkKnows, ChunkKnowsFast, ChunkTyped, text
<1>11. qcalm => ChunkKnowsText(r)  BY <1>4, <1>8 DEF ChunkKnowsText
<1>12. qcalm => ChunkKnows(r)  BY <1>9, <1>10, <1>11 DEF ChunkKnows
<1> QED  BY <1>4, <1>9, <1>12, ChunkSteadyKeeps

LEMMA ChunkSparseKeeps ==
  ASSUME Q!QdrantAssumption, ChunkInv, Q!Sparse
  PROVE  ChunkInv'
<1> DEFINE todo == qpage.todo \ {"text"}  wants == ChunkWants(qpage.from + qreq.size)
           text == IF qreq.mode = "keyword" THEN ChunkPageOf(ChunkWords, qpage.from)
                   ELSE Part(ChunkWords, 0, wants)
<1>1. ChunkRequest /\ ChunkTyped(qpage) /\ (qcalm => ChunkKnows(qpage))  BY DEF ChunkInv
<1>2. qpage \in ChunkRecords  BY <1>1 DEF ChunkTyped, ChunkRecords
<1>3. PICK r : r = [qpage EXCEPT !.todo = todo, !.text = text, !.cursor = qpage.cursor]  OBVIOUS
<1>4. ~qpage.fast /\ "text" \in qpage.todo /\ qreq.sparse /\ Q!Steady  BY DEF Q!Sparse
<1>5. qreq.mode \in {"keyword", "hybrid"}
  BY <1>1, <1>4, ChunkRequestIs DEF ChunkTyped
<1>6. qpage' = r
  <2>1. qpage' = [qpage EXCEPT !.todo = todo, !.text = text]
    <3>1. ChunkWords = Q!There(Lexical)  BY <1>4 DEF ChunkWords
    <3>2. qreq.mode # "keyword" => wants = Q!PrefetchK
      BY <1>5, ChunkPageWords DEF Q!Need, ChunkWants
    <3>3. qpage' = [qpage EXCEPT !.todo = qpage.todo \ {"text"},
                      !.text = IF qreq.mode = "keyword" THEN Q!PageOf(ChunkWords)
                               ELSE Q!Cut(ChunkWords, 0, Q!PrefetchK)]
      BY <3>1 DEF Q!Sparse, Q!Came
    <3>4. (IF qreq.mode = "keyword" THEN Q!PageOf(ChunkWords) ELSE Q!Cut(ChunkWords, 0, Q!PrefetchK))
            = text
      BY <3>2, ChunkPageWords, ChunkCut
    <3> QED  BY <3>3, <3>4
  <2> HIDE DEF text, todo
  <2>2. r = [qpage EXCEPT !.todo = todo, !.text = text]  BY <1>2, <1>3 DEF ChunkRecords
  <2> QED  BY <2>1, <2>2
<1>7. text \in Seq(Points) /\ (qreq.mode = "keyword" => Len(text) <= qreq.size)
  <2>1. /\ qpage.from \in Nat /\ qreq.size \in Nat \ {0} /\ ChunkWords \in Seq(Points)
        /\ qpage.from + qreq.size \in Nat \ {0}
    BY <1>1, ChunkFields, ChunkRequestIs, ChunkNeighbours DEF ChunkLists
  <2>2. wants \in Nat  BY <1>1, <2>1, ChunkKIs
  <2>3. CASE qreq.mode = "keyword"
    <3>1. PartOf(ChunkPageOf(ChunkWords, qpage.from), Points, ChunkGrouped(ChunkWords),
                 qpage.from, qreq.size)
      BY <1>1, <2>1, ChunkPaged
    <3>2. text = ChunkPageOf(ChunkWords, qpage.from)  BY <2>3
    <3> HIDE DEF text
    <3>3. text \in Seq(Points) /\ Len(text) \in 0..qreq.size  BY <3>1, <3>2 DEF PartOf
    <3> QED  BY <2>1, <3>3
  <2>4. CASE qreq.mode # "keyword"
    <3> HIDE DEF wants
    <3>1. PartOf(Part(ChunkWords, 0, wants), Points, ChunkWords, 0, wants)  BY <2>1, <2>2, PartIs
    <3> QED  BY <2>4, <3>1 DEF PartOf
  <2> QED  BY <2>3, <2>4
<1>8. qpage.cursor \in Points \cup {None}  BY <1>2 DEF ChunkRecords
<1>9. /\ r.todo = todo /\ r.from = qpage.from /\ r.fast = qpage.fast /\ r.text = text
  <2> HIDE DEF text, todo
  <2> QED  BY <1>2, <1>3 DEF ChunkRecords
<1>10. todo \in {qpage.todo, qpage.todo \ {"text"}} /\ "text" \notin todo  OBVIOUS
<1>11. /\ ChunkTyped(r) /\ ChunkPlace(r)
       /\ qcalm => ChunkKnowsNear(r) /\ ChunkKnowsTotal(r) /\ ChunkKnowsFast(r)
  <2> HIDE DEF text, todo
  <2> QED  BY <1>3, <1>4, <1>7, <1>8, <1>10, ChunkRead
<1>12. ChunkKnowsText(r)
  <2> HIDE DEF todo
  <2> QED  BY <1>4, <1>9, <1>10 DEF ChunkKnowsText
<1>13. qcalm => ChunkKnows(r)  BY <1>11, <1>12 DEF ChunkKnows
<1> QED  BY <1>4, <1>6, <1>11, <1>13, ChunkSteadyKeeps

LEMMA ChunkFailKeeps ==
  ASSUME Q!QdrantAssumption, ChunkInv, Q!Fail
  PROVE  ChunkInv'
<1>1. ChunkRequest /\ ChunkTyped(qpage)  BY DEF ChunkInv
<1>2. qpage \in ChunkRecords  BY <1>1 DEF ChunkTyped, ChunkRecords
<1>3. PICK r : r = [qpage EXCEPT !.pc = "error", !.todo = {}]  OBVIOUS
<1>4. qpage' = r /\ Q!Steady  BY <1>3 DEF Q!Fail
<1>5. /\ r.pc = "error" /\ r.todo = {} /\ r.total = qpage.total /\ r.near = qpage.near
      /\ r.text = qpage.text /\ r.fast = qpage.fast /\ r.from = qpage.from
  BY <1>2, <1>3 DEF ChunkRecords
<1>6. r \in ChunkRecords  BY <1>2, <1>3 DEF ChunkRecords
<1>7. ChunkTyped(r)  BY <1>1, <1>5, <1>6 DEF ChunkTyped, ChunkRecords
<1>8. ChunkPlace(r)  BY <1>5 DEF ChunkPlace
<1>9. ChunkKnows(r)
  BY <1>5 DEF ChunkKnows, ChunkKnowsFast, ChunkKnowsTotal, ChunkKnowsNear, ChunkKnowsText
<1> QED  BY <1>4, <1>7, <1>8, <1>9, ChunkSteadyKeeps

\* One more batch of a scroll that has n of the list L, from the cursor it is at.
LEMMA ChunkScrollOn ==
  ASSUME Q!QdrantAssumption, points \subseteq Points, NEW L, L = Q!Scrolled(Matching),
         NEW n \in Nat, NEW limit \in Nat, n < Len(L), n + limit <= Len(L),
         NEW cursor, cursor = IF n = 0 THEN None ELSE L[n + 1]
  PROVE  /\ Q!Scroll(Matching, cursor, limit).batch = Part(L, n, limit)
         /\ Q!Scroll(Matching, cursor, limit).next =
              IF n + limit < Len(L) THEN L[n + limit + 1] ELSE None
         /\ Len(Part(L, n, limit)) = limit /\ Part(L, n, limit) \in Seq(Points)
<1> DEFINE V == {p \in Matching : cursor = None \/ p >= cursor}  rest == Q!Scrolled(V)
<1>1. ChunkLists(L, Matching \cap points) /\ Len(L) \in Nat  BY ChunkScrolled
<1>2. L \in Seq(Points)  BY <1>1 DEF ChunkLists
<1>3. rest = Part(L, n, Len(L))
  <2>1. CASE n = 0
    <3>1. V = Matching  BY <2>1
    <3>2. Part(L, 0, Len(L)) = L  BY <1>1, <1>2, PartAll
    <3> HIDE DEF V
    <3> QED  BY <2>1, <3>1, <3>2
  <2>2. CASE n # 0
    <3>1. L[n + 1] \in Points  BY <1>1, <1>2
    <3>2. cursor # None  BY <2>2, <3>1, ChunkGiven
    <3>3. V = {p \in Matching : p >= L[n + 1]}  BY <2>2, <3>2
    <3>4. Q!Scrolled({p \in Matching : p >= L[n + 1]}) = Part(L, n, Len(L))  BY ChunkRest
    <3> HIDE DEF V
    <3> QED  BY <3>3, <3>4
  <2> QED  BY <2>1, <2>2
<1>4. /\ Q!Scroll(Matching, cursor, limit).batch = Q!Cut(rest, 0, limit)
      /\ Q!Scroll(Matching, cursor, limit).next =
           IF Len(rest) > limit THEN rest[limit + 1] ELSE None
  BY DEF Q!Scroll
<1> HIDE DEF rest
<1>5. /\ rest \in Seq(Points) /\ Len(rest) = Len(L) - n
      /\ \A i \in 1..(Len(L) - n) : n + i \in 1..Len(L) /\ rest[i] = L[n + i]
  <2>1. PartOf(Part(L, n, Len(L)), Points, L, n, Len(L))  BY <1>1, <1>2, PartIs
  <2>2. PartLen(Len(L), n, Len(L)) = Len(L) - n  BY <1>1 DEF PartLen
  <2> QED  BY <1>3, <2>1, <2>2 DEF PartOf
<1> DEFINE b == Part(rest, 0, limit)  c == Part(L, n, limit)
<1>6. /\ b \in Seq(Points) /\ Len(b) = limit /\ \A i \in 1..limit : b[i] = rest[i]
  <2>1. PartOf(b, Points, rest, 0, limit)  BY <1>5, PartIs
  <2>2. PartLen(Len(rest), 0, limit) = limit  BY <1>1, <1>5 DEF PartLen
  <2> HIDE DEF b
  <2>3. \A i \in 1..limit : b[i] = rest[0 + i]  BY <2>1, <2>2 DEF PartOf
  <2> QED  BY <2>1, <2>2, <2>3 DEF PartOf
<1>7. /\ c \in Seq(Points) /\ Len(c) = limit /\ \A i \in 1..limit : c[i] = L[n + i]
  <2>1. PartOf(c, Points, L, n, limit)  BY <1>2, PartIs
  <2>2. PartLen(Len(L), n, limit) = limit  BY <1>1 DEF PartLen
  <2> HIDE DEF c
  <2> QED  BY <2>1, <2>2 DEF PartOf
<1> HIDE DEF b, c
<1>8. \A i \in 1..limit : b[i] = c[i]
  <2>1. \A i \in 1..limit : i \in 1..(Len(L) - n)  BY <1>1
  <2> QED  BY <1>5, <1>6, <1>7, <2>1
<1>9. b = c  BY <1>6, <1>7, <1>8, SeqEqual
<1>10. Q!Cut(rest, 0, limit) = b  BY ChunkCut DEF b
<1>11. /\ Len(rest) > limit <=> n + limit < Len(L)
       /\ n + limit < Len(L) => rest[limit + 1] = L[n + limit + 1]
  <2>1. Len(rest) > limit <=> n + limit < Len(L)  BY <1>1, <1>5
  <2>2. ASSUME n + limit < Len(L)  PROVE rest[limit + 1] = L[n + limit + 1]
    <3>1. limit + 1 \in 1..(Len(L) - n) /\ n + (limit + 1) = n + limit + 1  BY <1>1, <2>2
    <3> QED  BY <1>5, <3>1
  <2> QED  BY <2>1, <2>2
<1> QED  BY <1>4, <1>7, <1>9, <1>10, <1>11 DEF c

LEMMA ChunkScrollTextKeeps ==
  ASSUME Q!QdrantAssumption, ChunkInv, Q!ScrollText
  PROVE  ChunkInv'
<1> DEFINE wants == ChunkWants(qpage.from + qreq.size)  n == Len(qpage.text)
           left == wants - n  limit == IF ScrollBatch <= left THEN ScrollBatch ELSE left
           s == Q!Scroll(Matching, qpage.cursor, limit)  text == qpage.text \o s.batch
           todo == IF s.batch = <<>> \/ Len(text) >= wants THEN qpage.todo \ {"text"}
                   ELSE qpage.todo
<1>1. ChunkRequest /\ ChunkTyped(qpage) /\ (qcalm => ChunkKnows(qpage))  BY DEF ChunkInv
<1>2. qpage \in ChunkRecords  BY <1>1 DEF ChunkTyped, ChunkRecords
<1>3. ~qpage.fast /\ "text" \in qpage.todo /\ ~qreq.sparse /\ Q!Steady  BY DEF Q!ScrollText
<1>4. /\ qpage.from \in Nat /\ qreq.size \in Nat \ {0} /\ qpage.text \in Seq(Points)
      /\ qpage.cursor \in Points \cup {None} /\ qpage.pc = "asked" /\ qreq.mode # "vector"
      /\ qpage.from + qreq.size \in Nat \ {0} /\ points \subseteq Points /\ n \in Nat
      /\ ScrollBatch \in Nat \ {0}
  <2>1. qpage.from \in Nat /\ qpage.text \in Seq(Points) /\ qpage.cursor \in Points \cup {None}
    BY <1>1, ChunkFields
  <2>2. qreq.size \in Nat \ {0} /\ points \subseteq Points  BY <1>1, ChunkRequestIs
  <2>3. qpage.pc = "asked" /\ qreq.mode # "vector"  BY <1>1, <1>3 DEF ChunkTyped
  <2>4. ScrollBatch \in Nat \ {0}  BY ChunkGiven
  <2>5. qpage.from + qreq.size \in Nat \ {0}  BY <2>1, <2>2
  <2> QED  BY <2>1, <2>2, <2>3, <2>4, <2>5
<1>5. wants \in Nat \ {0} /\ n < wants
  <2>1. wants \in Nat \ {0}  BY <1>1, <1>4, ChunkKIs
  <2> QED  BY <1>1, <1>3, <2>1 DEF ChunkTyped
<1> HIDE DEF wants, n
<1>6. limit \in Nat \ {0} /\ limit <= left /\ left \in Nat /\ n + limit <= wants
  BY <1>4, <1>5
<1>7. Q!Min({ScrollBatch, Q!Wanted - Len(qpage.text)}) = limit
  <2>1. Q!Wanted - Len(qpage.text) = left  BY ChunkPageWords DEF Q!Need, wants, n
  <2>2. ScrollBatch \in Int /\ left \in Int  BY <1>4, <1>6
  <2> HIDE DEF left
  <2> QED  BY <2>1, <2>2, ChunkMin
<1> HIDE DEF left, limit
<1>8. s.batch \in Seq(Points) /\ s.next \in Points \cup {None}
  <2> DEFINE V == {p \in Matching : qpage.cursor = None \/ p >= qpage.cursor}
             rest == Q!Scrolled(V)
  <2>1. rest \in Seq(Points) /\ Len(rest) \in Nat
    <3>1. ChunkLists(rest, V \cap points) /\ Len(rest) \in Nat
      <4> HIDE DEF V
      <4> QED  BY <1>4, ChunkScrolled
    <3> QED  BY <3>1 DEF ChunkLists
  <2>2. s.batch = Part(rest, 0, limit) /\ s.next = IF Len(rest) > limit THEN rest[limit + 1] ELSE None
    BY ChunkCut DEF Q!Scroll
  <2> HIDE DEF rest, s
  <2>3. PartOf(Part(rest, 0, limit), Points, rest, 0, limit)  BY <1>6, <2>1, PartIs
  <2>4. Len(rest) > limit => rest[limit + 1] \in Points  BY <1>6, <2>1
  <2> QED  BY <2>2, <2>3, <2>4 DEF PartOf
<1>9. text \in Seq(Points) /\ Len(text) = n + Len(s.batch)  BY <1>4, <1>8, ConcatIs DEF n
<1>10. PICK r : r = [qpage EXCEPT !.todo = todo, !.text = text, !.cursor = s.next]  OBVIOUS
<1>11. qpage' = r
  <2>1. qpage' = [qpage EXCEPT !.text = text, !.cursor = s.next,
                    !.todo = IF s.batch = <<>> \/ Len(text) >= wants THEN qpage.todo \ {"text"} ELSE @]
    <3>1. Q!Wanted = wants  BY ChunkPageWords DEF Q!Need, wants
    <3> QED  BY <1>7, <3>1 DEF Q!ScrollText, Q!Came
  <2> HIDE DEF s, text
  <2> QED  BY <1>2, <1>10, <2>1 DEF ChunkRecords
<1>12. /\ todo \in {qpage.todo, qpage.todo \ {"text"}}
       /\ "text" \in todo <=> ~(s.batch = <<>> \/ Len(text) >= wants)
  <2> HIDE DEF s, text
  <2> QED  BY <1>3
<1>13. "text" \in todo => Len(text) < wants
  <2> HIDE DEF s, text, todo
  <2>1. Len(text) \in Nat  BY <1>9
  <2> QED  BY <1>5, <1>12, <2>1
<1>14. /\ r.todo = todo /\ r.total = qpage.total /\ r.pc = qpage.pc /\ r.from = qpage.from
       /\ r.fast = qpage.fast /\ r.text = text /\ r.cursor = s.next
  <2> HIDE DEF text, todo, s
  <2> QED  BY <1>2, <1>10 DEF ChunkRecords
<1>15. /\ ChunkTyped(r) /\ ChunkPlace(r)
       /\ qcalm => ChunkKnowsNear(r) /\ ChunkKnowsTotal(r) /\ ChunkKnowsFast(r)
  <2> HIDE DEF text, todo, s
  <2> QED  BY <1>3, <1>8, <1>9, <1>10, <1>12, <1>13, ChunkRead DEF wants
<1>16. ASSUME qcalm  PROVE ChunkKnowsText(r)
  <2> SUFFICES ASSUME Len(ChunkWords) >= wants
               PROVE  IF "text" \notin todo THEN text = Part(ChunkWords, 0, wants)
                      ELSE /\ text = Part(ChunkWords, 0, Len(text))
                           /\ s.next = IF Len(text) = 0 THEN None ELSE ChunkWords[Len(text) + 1]
    <3> HIDE DEF text, todo, s
    <3> QED  BY <1>3, <1>14 DEF ChunkKnowsText, wants
  <2>1. PICK L : L = ChunkWords  OBVIOUS
  <2>2. L = Q!Scrolled(Matching)  BY <1>3, <2>1 DEF ChunkWords
  <2>3. L \in Seq(Points) /\ Len(L) \in Nat /\ Len(L) >= wants
    BY <1>1, <2>1, ChunkNeighbours DEF ChunkLists
  <2>4. /\ qpage.text = Part(L, 0, n) /\ qpage.cursor = IF n = 0 THEN None ELSE L[n + 1]
    BY <1>1, <1>3, <1>4, <1>16, <2>1 DEF ChunkKnows, ChunkKnowsText, wants, n
  <2>5. n < Len(L) /\ n + limit <= Len(L)  BY <1>4, <1>5, <1>6, <2>3
  <2>6. /\ s.batch = Part(L, n, limit)
        /\ s.next = IF n + limit < Len(L) THEN L[n + limit + 1] ELSE None
        /\ Len(Part(L, n, limit)) = limit
    BY <1>4, <1>6, <2>2, <2>4, <2>5, ChunkScrollOn
  <2>7. text = Part(L, 0, n + limit)
    <3>1. Part(L, 0, n) \o Part(L, n, limit) = Part(L, 0, n + limit)
      BY <1>4, <1>6, <2>3, PartsJoin
    <3> QED  BY <2>4, <2>6, <3>1
  <2>8. Len(text) = n + limit  BY <1>9, <2>6
  <2>9. s.batch # <<>>  BY <1>6, <2>6
  <2> HIDE DEF s, text
  <2>10. CASE n + limit = wants
    <3>1. "text" \notin todo
      <4>1. Len(text) >= wants  BY <1>5, <2>8, <2>10
      <4> HIDE DEF todo
      <4> QED  BY <1>12, <4>1
    <3> QED  BY <2>1, <2>7, <2>10, <3>1
  <2>11. CASE n + limit # wants
    <3>1. ~(Len(text) >= wants) /\ Len(text) # 0 /\ n + limit < Len(L)
      BY <1>4, <1>5, <1>6, <2>3, <2>8, <2>11
    <3> HIDE DEF todo
    <3>2. "text" \in todo  BY <1>12, <2>9, <3>1
    <3> QED  BY <2>1, <2>6, <2>7, <2>8, <3>1, <3>2
  <2> QED  BY <2>10, <2>11
<1>17. qcalm => ChunkKnows(r)  BY <1>15, <1>16 DEF ChunkKnows
<1> QED  BY <1>3, <1>11, <1>15, <1>17, ChunkSteadyKeeps

LEMMA ChunkAnswerKeeps ==
  ASSUME Q!QdrantAssumption, ChunkInv, Q!Answer(ChunkHits), qpage.pc = "asked", qpage.todo = {},
         ~(qpage.fast /\ qpage.total = 0)
  PROVE  ChunkInv'
<1> DEFINE n == Len(qpages)  k == qreq.size
<1>1. ChunkRequest /\ ChunkTyped(qpage) /\ ChunkPlace(qpage) /\ (qcalm => ChunkKnows(qpage))
      /\ ChunkPages /\ qcalm \in BOOLEAN
  BY DEF ChunkInv
<1>2. qpage \in ChunkRecords  BY <1>1 DEF ChunkTyped, ChunkRecords
<1>3. PICK r : r = [qpage EXCEPT !.pc = "answered"]  OBVIOUS
<1>4. PICK h : h = ChunkHits  OBVIOUS
<1>5. PICK a : a = [from |-> qpage.from, total |-> qpage.total, hits |-> h]  OBVIOUS
<1>6. /\ qpage' = r /\ qpages' = Append(qpages, a) /\ points' = points /\ qreq' = qreq
      /\ qcalm' = qcalm
  BY <1>3, <1>4, <1>5 DEF Q!Answer
<1>7. /\ r.pc = "answered" /\ r.todo = {} /\ r.total = qpage.total /\ r.near = qpage.near
      /\ r.text = qpage.text /\ r.fast = qpage.fast /\ r.from = qpage.from
  BY <1>2, <1>3 DEF ChunkRecords
<1>8. r \in ChunkRecords  BY <1>2, <1>3 DEF ChunkRecords
<1>9. ChunkTyped(r)  BY <1>1, <1>7, <1>8 DEF ChunkTyped, ChunkRecords
<1>10. h \in Seq(Points) /\ Len(h) <= k  BY <1>1, <1>4, ChunkHitsTyped
<1>11. qcalm => /\ qpage.fast <=> ChunkFast
                /\ ChunkEnough(qpage.from + k) => ChunkShows(h, qpage.from)
  BY <1>1, <1>4, ChunkHitsTrue
<1>12. qcalm => ChunkKnows(r)
  BY <1>7, <1>11
  DEF ChunkKnows, ChunkKnowsFast, ChunkKnowsTotal, ChunkKnowsNear, ChunkKnowsText
<1>13. /\ qpage.from = n * k /\ \A i \in 1..n : Len(qpages[i].hits) = k
       /\ qpages \in Seq([from : Nat, total : Nat, hits : Seq(Points)])
       /\ n \in Nat /\ k \in Nat /\ qpage.from \in Nat /\ qpage.total \in Nat
  <2>1. qpage.from = n * k /\ \A i \in 1..n : Len(qpages[i].hits) = k  BY <1>1 DEF ChunkPlace
  <2>2. qpages \in Seq([from : Nat, total : Nat, hits : Seq(Points)])  BY <1>1 DEF ChunkPages
  <2>3. k \in Nat /\ qpage.from \in Nat /\ qpage.total \in 0..Cardinality(Points)
    BY <1>1, ChunkRequestIs, ChunkFields
  <2> QED  BY <2>1, <2>2, <2>3
<1>14. a \in [from : Nat, total : Nat, hits : Seq(Points)]
       /\ a.from = n * k /\ a.total = qpage.total /\ a.hits = h
  BY <1>5, <1>10, <1>13
<1>15. /\ qpages' \in Seq([from : Nat, total : Nat, hits : Seq(Points)])
       /\ Len(qpages') = n + 1 /\ qpages'[n + 1] = a
       /\ \A i \in 1..n : qpages'[i] = qpages[i]
  BY <1>6, <1>13, <1>14
<1>16. ChunkAnswered(a, n + 1)
  <2>1. (n + 1) - 1 = n  BY <1>13
  <2> QED  BY <1>1, <1>10, <1>14, <2>1 DEF ChunkAnswered, ChunkTyped
<1>17. qcalm => ChunkTrue(a)
  <2>1. qcalm /\ qreq.threshold => a.total = ChunkCap
    BY <1>1, <1>14 DEF ChunkKnows, ChunkKnowsTotal
  <2> QED  BY <1>11, <1>13, <1>14, <2>1 DEF ChunkTrue
<1>18. ASSUME NEW i \in 1..Len(qpages')
       PROVE  ChunkAnswered(qpages[i], i)' /\ (qcalm => ChunkTrue(qpages[i]))'
  <2>1. PICK b : b = qpages'[i]  OBVIOUS
  <2>2. i \in 1..n \/ i = n + 1  BY <1>13, <1>15
  <2>3. ChunkAnswered(b, i) /\ (qcalm => ChunkTrue(b))
    <3>1. CASE i \in 1..n  BY <1>1, <1>15, <2>1, <3>1 DEF ChunkPages
    <3>2. CASE i = n + 1  BY <1>15, <1>16, <1>17, <2>1, <3>2
    <3> QED  BY <2>2, <3>1, <3>2
  <2>4. \A x : ChunkTrue(x) => ChunkTrue(x)'  BY ONLY <1>6, ChunkStillKnows
  <2>5. (qpages[i])' = b  BY <2>1
  <2> QED  BY <1>6, <2>3, <2>4, <2>5 DEF ChunkAnswered
<1>19. ChunkPages'  BY <1>15, <1>18 DEF ChunkPages
<1>20. ChunkPlace(qpage)'
  <2>1. Len(qpages') > 0 /\ Len(qpages') - 1 = n  BY <1>13, <1>15
  <2>2. \A i \in 1..n : Len(qpages'[i].hits) = k  BY <1>13, <1>15
  <2> QED  BY <1>6, <1>7, <1>13, <2>1, <2>2 DEF ChunkPlace
<1>21. /\ ChunkTyped(r) => ChunkTyped(r)'
       /\ ChunkKnows(r) => ChunkKnows(r)'
  BY ONLY <1>6, ChunkStillKnows
<1>22. ChunkRequest' /\ (qcalm \in BOOLEAN)'  BY <1>1, <1>6 DEF ChunkRequest
<1>23. ChunkTyped(qpage)' /\ (qcalm => ChunkKnows(qpage))'  BY <1>6, <1>9, <1>12, <1>21
<1> QED  BY <1>19, <1>20, <1>22, <1>23 DEF ChunkInv

LEMMA ChunkFinishKeeps ==
  ASSUME Q!QdrantAssumption, ChunkInv, Q!Finish
  PROVE  ChunkInv'
<1>1. ChunkRequest /\ ChunkTyped(qpage) /\ ChunkPlace(qpage) /\ (qcalm => ChunkKnows(qpage))
  BY DEF ChunkInv
<1>2. qpage.pc = "asked" /\ qpage.todo = {}  BY DEF Q!Finish
<1>3. CASE qpage.fast /\ qpage.total = 0
  <2>1. qpage' = Q!Asked(qpage.from, FALSE) /\ Q!Steady  BY <1>3 DEF Q!Finish, Q!Steady
  <2>2. PICK r : r = Q!Asked(qpage.from, FALSE)  OBVIOUS
  <2>3. qpage.from \in Nat  BY <1>1, ChunkFields
  <2>4. /\ ChunkTyped(r) /\ r.pc = "asked" /\ r.from = qpage.from
        /\ (~FALSE => ~ChunkFast) => ChunkKnows(r)
    BY <1>1, <2>2, <2>3, ChunkAsks
  <2>5. ChunkPlace(r)  BY <1>1, <1>2, <2>4 DEF ChunkPlace
  <2>6. qcalm => ~ChunkFast
    <3> SUFFICES ASSUME qcalm, ChunkFound # {}  PROVE FALSE  BY DEF ChunkFast
    <3>1. Cardinality(ChunkFound) = 0  BY <1>1, <1>2, <1>3 DEF ChunkKnows, ChunkKnowsFast
    <3>2. ChunkFound \in SUBSET Points  BY <1>1 DEF ChunkFound, ChunkRequest
    <3>3. IsFiniteSet(ChunkFound)  BY <3>2, ChunkGiven
    <3> QED  BY <3>1, <3>3, FS_EmptySet
  <2> QED  BY <2>1, <2>2, <2>4, <2>5, <2>6, ChunkSteadyKeeps
<1>4. CASE ~(qpage.fast /\ qpage.total = 0)
  <2>1. Q!Answer(ChunkHits)
    <3>1. CASE qpage.fast \/ (qreq.mode = "keyword" /\ qreq.sparse)
      BY <1>4, <3>1 DEF Q!Finish, ChunkHits
    <3>2. CASE ~(qpage.fast \/ (qreq.mode = "keyword" /\ qreq.sparse)) /\ qreq.mode = "keyword"
      BY <1>4, <3>2 DEF Q!Finish, ChunkHits
    <3>3. CASE ~qpage.fast /\ qreq.mode = "vector"  BY <1>4, <3>3 DEF Q!Finish, ChunkHits
    <3>4. CASE ~qpage.fast /\ qreq.mode = "hybrid"  BY <1>4, <3>4 DEF Q!Finish, ChunkHits
    <3> QED  BY <1>1, <3>1, <3>2, <3>3, <3>4, ChunkRequestIs
  <2> QED  BY <1>2, <1>4, <2>1, ChunkAnswerKeeps
<1> QED  BY <1>3, <1>4

LEMMA ChunkChangeKeeps ==
  ASSUME Q!QdrantAssumption, ChunkInv, Q!Change
  PROVE  ChunkInv'
<1>1. qcalm' = FALSE /\ qreq' = qreq /\ qpage' = qpage /\ qpages' = qpages  BY DEF Q!Change
<1>2. points' \subseteq Points
  <2>1. points \subseteq Points  BY DEF ChunkInv, ChunkRequest
  <2>2. PICK p \in Points : points' = IF p \in points THEN points \ {p} ELSE points \cup {p}
    BY DEF Q!Change
  <2> QED  BY <2>1, <2>2
<1>3. ChunkRequest' /\ (qcalm \in BOOLEAN)'  BY <1>1, <1>2 DEF ChunkInv, ChunkRequest
<1>4. ChunkTyped(qpage)'  BY <1>1 DEF ChunkInv, ChunkTyped, ChunkWants, ChunkK
<1>5. ChunkPlace(qpage)'  BY <1>1 DEF ChunkInv, ChunkPlace
<1>6. ChunkPages'  BY <1>1 DEF ChunkInv, ChunkPages, ChunkAnswered
<1> QED  BY <1>1, <1>3, <1>4, <1>5, <1>6 DEF ChunkInv

LEMMA ChunkInitHolds ==
  ASSUME Q!QdrantAssumption, Q!Init
  PROVE  ChunkInv
<1>1. ChunkRequest  BY DEF Q!Init, ChunkRequest
<1>2. qpage = Q!Blank /\ qpages = <<>> /\ qcalm = TRUE  BY DEF Q!Init
<1>3. /\ qpage.pc = "idle" /\ qpage.from = 0 /\ qpage.fast = FALSE /\ qpage.todo = {}
      /\ qpage.total = 0 /\ qpage.near = <<>> /\ qpage.text = <<>> /\ qpage.cursor = None
  BY <1>2 DEF Q!Blank
<1>4. qpage \in ChunkRecords
  <2>1. 0 \in 0..Cardinality(Points) /\ <<>> \in Seq(Points)  BY ChunkGiven
  <2> QED  BY <1>2, <2>1 DEF Q!Blank, ChunkRecords
<1>5. qreq.size \in Nat /\ CountCap \in Nat  BY <1>1, ChunkRequestIs, ChunkGiven
<1>6. ChunkTyped(qpage)
  <2>1. Len(qpage.near) = 0 /\ Len(qpage.text) = 0  BY <1>3
  <2> QED  BY <1>3, <1>4, <1>5, <2>1 DEF ChunkTyped, ChunkRecords
<1>7. ChunkPlace(qpage)  BY <1>2, <1>3 DEF ChunkPlace
<1>8. ChunkPages  BY <1>2 DEF ChunkPages
<1>9. ChunkKnows(qpage)
  BY <1>3 DEF ChunkKnows, ChunkKnowsFast, ChunkKnowsTotal, ChunkKnowsNear, ChunkKnowsText
<1> QED  BY <1>1, <1>2, <1>6, <1>7, <1>8, <1>9 DEF ChunkInv

LEMMA ChunkStep ==
  ASSUME Q!QdrantAssumption, ChunkInv, [Q!Next]_qdrantVars
  PROVE  ChunkInv'
<1>1. CASE UNCHANGED qdrantVars
  <2>1. Q!Steady /\ qpage' = qpage  BY <1>1 DEF qdrantVars, Q!Steady
  <2>2. PICK r : r = qpage  OBVIOUS
  <2>3. ChunkTyped(r) /\ ChunkPlace(r) /\ (qcalm => ChunkKnows(r))  BY <2>2 DEF ChunkInv
  <2> QED  BY <2>1, <2>2, <2>3, ChunkSteadyKeeps
<1>2. CASE Q!Next
  BY <1>2, ChunkAskPageKeeps, ChunkFastCountKeeps, ChunkFastScrollKeeps, ChunkCountKeeps,
     ChunkCountNeighboursKeeps, ChunkNearKeeps, ChunkSparseKeeps, ChunkScrollTextKeeps,
     ChunkFinishKeeps, ChunkFailKeeps, ChunkChangeKeeps
  DEF Q!Next
<1> QED  BY <1>1, <1>2

-----------------------------------------------------------------------------
(* What the invariant says of the pages. *)

LEMMA ChunkTotalsHold ==
  ASSUME Q!QdrantAssumption, ChunkInv
  PROVE  Q!TotalsHold /\ Q!TypeOK
<1>1. ChunkRequest /\ ChunkTyped(qpage) /\ ChunkPages  BY DEF ChunkInv
<1>2. qpages \in Seq([from : Nat, total : Nat, hits : Seq(Points)])  BY <1>1 DEF ChunkPages
<1>3. Q!Min({CountCap, Len(Q!Neighbours)}) = ChunkCap
  <2>1. CountCap \in Int /\ Len(Q!Neighbours) \in Int  BY <1>1, ChunkGiven, ChunkNeighbours
  <2>2. Q!Min({CountCap, Len(Q!Neighbours)}) =
          IF CountCap <= Len(Q!Neighbours) THEN CountCap ELSE Len(Q!Neighbours)
    BY <2>1, ChunkMin
  <2> QED  BY <2>1, <2>2 DEF ChunkCap
<1>4. Q!TotalsHold
  <2> SUFFICES ASSUME NEW i \in DOMAIN qpages
               PROVE  /\ Len(qpages[i].hits) <= qreq.size
                      /\ qreq.threshold =>
                           /\ qpages[i].total <= CountCap
                           /\ qcalm => qpages[i].total = ChunkCap
    BY <1>3 DEF Q!TotalsHold
  <2>1. i \in 1..Len(qpages)  BY <1>2
  <2>2. ChunkAnswered(qpages[i], i) /\ (qcalm => ChunkTrue(qpages[i]))
    BY <1>1, <2>1 DEF ChunkPages
  <2> QED  BY <2>2 DEF ChunkAnswered, ChunkTrue
<1>5. Q!TypeOK
  <2>1. ToSet(qpage.near) \subseteq Points /\ ToSet(qpage.text) \subseteq Points
    <3>1. qpage.near \in Seq(Points) /\ qpage.text \in Seq(Points)  BY <1>1, ChunkFields
    <3> QED  BY <3>1 DEF ToSet
  <2> QED  BY <1>1, <2>1, ChunkFields, ChunkRange, ChunkCardinality DEF Q!TypeOK, ChunkRequest
<1> QED  BY <1>4, <1>5

\* The hits of the pages, one after the other, are the beginning of the list.
LEMMA ChunkJoined ==
  ASSUME Q!QdrantAssumption, ChunkInv, qpage.pc = "answered", Q!SameLists
  PROVE  \E m \in Nat :
           /\ m <= Len(ChunkWhole) /\ Q!Joined = Part(ChunkWhole, 0, m)
           /\ qreq.mode = "vector" /\ Len(Q!Last(qpages).hits) < qreq.size =>
                m = Len(ChunkWhole)
           /\ qpage.fast <=> ChunkFast
<1> DEFINE n == Len(qpages)  k == qreq.size
<1>1. ChunkRequest /\ ChunkTyped(qpage) /\ ChunkPlace(qpage) /\ ChunkPages /\ qcalm
      /\ ChunkKnows(qpage)
  BY DEF ChunkInv, Q!SameLists
<1>2. qpages \in Seq([from : Nat, total : Nat, hits : Seq(Points)])  BY <1>1 DEF ChunkPages
<1>3. n \in Nat \ {0} /\ k \in Nat \ {0} /\ qpage.from = (n - 1) * k
      /\ \A i \in 1..(n - 1) : Len(qpages[i].hits) = k
  BY <1>1, <1>2, ChunkRequestIs DEF ChunkPlace
<1>4. qpage.fast <=> ChunkFast  BY <1>1 DEF ChunkKnows, ChunkKnowsFast
<1> HIDE DEF n, k
<1>5. Q!Need = n * k
  <2>1. Q!Need = qpage.from + k  BY DEF Q!Need, k
  <2>2. (n - 1) * k + k = n * k  BY <1>3
  <2> QED  BY <1>3, <2>1, <2>2
<1>6. ChunkEnough(n * k)
  BY <1>4, <1>5, ChunkPageWords, ChunkCardinality DEF Q!SameLists, ChunkEnough
<1>7. ASSUME NEW i \in 1..n
      PROVE  /\ qpages[i].from = (i - 1) * k /\ (i - 1) * k \in Nat
             /\ qpages[i].hits \in Seq(Points) /\ Len(qpages[i].hits) <= k
             /\ ChunkShows(qpages[i].hits, (i - 1) * k)
  <2>1. ChunkAnswered(qpages[i], i) /\ ChunkTrue(qpages[i])  BY <1>1 DEF ChunkPages, n
  <2>2. qpages[i].from = (i - 1) * k /\ Len(qpages[i].hits) <= k  BY <2>1 DEF ChunkAnswered, k
  <2>3. qpages[i].hits \in Seq(Points)
    <3>1. i \in 1..Len(qpages)  BY DEF n
    <3> DEFINE R == [from : Nat, total : Nat, hits : Seq(Points)]
    <3>2. qpages \in Seq(R)  BY <1>2
    <3> HIDE DEF R
    <3>3. qpages[i] \in R  BY <3>1, <3>2
    <3> QED  BY <3>3 DEF R
  <2>4. i \in Nat /\ i >= 1 /\ i <= n  BY <1>3
  <2>5. (i - 1) * k + k = i * k /\ (i - 1) * k \in Nat /\ i * k \in Nat  BY <1>3, <2>4
  <2>6. i * k <= n * k
    <3>1. (n - i) * k \in Nat /\ (n - i) * k + i * k = n * k  BY <1>3, <2>4
    <3> DEFINE x == (n - i) * k  y == i * k  z == n * k
    <3>2. y \in Nat  BY <2>5
    <3> HIDE DEF x, y, z
    <3>3. x \in Nat /\ x + y = z  BY <3>1 DEF x, y, z
    <3>4. y <= z  BY <3>2, <3>3
    <3> QED  BY <3>4 DEF y, z
  <2>7. i * k \in Nat \ {0}
    <3> DEFINE x == (i - 1) * k  y == i * k
    <3> HIDE DEF x, y
    <3>1. x + k = y /\ x \in Nat  BY <2>5 DEF x, y
    <3> QED  BY <1>3, <3>1 DEF y
  <2>8. ChunkEnough(i * k)
    <3> DEFINE y == i * k  z == n * k
    <3>1. y \in Nat \ {0} /\ z \in Nat /\ y <= z /\ ChunkEnough(z)
      <4>1. n * k \in Nat  BY <1>3
      <4> QED  BY <1>6, <2>6, <2>7, <4>1
    <3> HIDE DEF y, z
    <3>2. ChunkWants(y) <= ChunkWants(z) /\ ChunkWants(y) \in Nat  BY <1>1, <3>1, ChunkKIs
    <3>3. ChunkWants(z) \in Nat
      <4>1. z \in Nat \ {0}  BY <3>1
      <4> QED  BY <1>1, <4>1, ChunkKIs
    <3>4. Prefetch \in Nat /\ Cardinality(points \cap Matching) \in Nat
      <4>1. points \cap Matching \in SUBSET Points  BY <1>1 DEF ChunkRequest
      <4> QED  BY <4>1, ChunkGiven
    <3>5. ChunkEnough(y)  BY <3>1, <3>2, <3>3, <3>4 DEF ChunkEnough
    <3> QED  BY <3>5 DEF y
  <2>9. qpages[i].from + qreq.size = i * k  BY <2>2, <2>5 DEF k
  <2>10. ChunkShows(qpages[i].hits, (i - 1) * k)  BY <2>1, <2>2, <2>8, <2>9 DEF ChunkTrue
  <2> QED  BY <2>2, <2>3, <2>5, <2>10
<1> DEFINE last == qpages[n].hits  before == (n - 1) * k  m == before + Len(last)
           all == Part(ChunkWhole, 0, m)
<1>8. n \in 1..n  BY <1>3
<1>9. /\ before \in Nat /\ Len(last) \in Nat /\ Len(last) <= k /\ m \in Nat
      /\ last \in Seq(Points) /\ ChunkShows(last, before)
  <2>1. before \in Nat /\ last \in Seq(Points) /\ Len(last) <= k /\ ChunkShows(last, before)
    BY <1>7, <1>8
  <2> HIDE DEF before, last
  <2> QED  BY <2>1
<1>10. ChunkWhole \in Seq(Points) /\ Len(ChunkWhole) \in Nat  BY <1>1, ChunkWholeIs
<1>11. m <= Len(ChunkWhole)
  <2>1. CASE Len(last) > 0
    <3>1. Len(last) \in 1..Len(last)  BY <1>9, <2>1
    <3>2. before + Len(last) \in 1..Len(ChunkWhole)
      <4> HIDE DEF before, last
      <4> QED  BY <1>9, <3>1 DEF ChunkShows
    <3> QED  BY <1>10, <3>2
  <2>2. CASE Len(last) = 0 /\ n = 1
    <3>1. before = 0  BY <1>3, <2>2
    <3> QED  BY <1>10, <2>2, <3>1
  <2>3. CASE Len(last) = 0 /\ n > 1
    <3>1. n - 1 \in 1..n /\ n - 1 \in 1..(n - 1)  BY <1>3, <2>3
    <3>2. ChunkShows(qpages[n - 1].hits, ((n - 1) - 1) * k) /\ Len(qpages[n - 1].hits) = k
      BY <1>3, <1>7, <3>1
    <3>3. k \in 1..k  BY <1>3
    <3>4. ((n - 1) - 1) * k + k \in 1..Len(ChunkWhole)  BY <3>2, <3>3 DEF ChunkShows
    <3>5. ((n - 1) - 1) * k + k = before  BY <1>3
    <3>6. before <= Len(ChunkWhole)  BY <1>10, <3>4, <3>5
    <3> HIDE DEF before
    <3> QED  BY <1>9, <2>3, <3>6
  <2>4. Len(last) > 0 \/ Len(last) = 0
    <3> HIDE DEF last, before, m
    <3> QED  BY <1>9
  <2>5. n = 1 \/ n > 1  BY <1>3
  <2> HIDE DEF m, last, before
  <2> QED  BY <2>1, <2>2, <2>3, <2>4, <2>5
<1>12. PartOf(all, Points, ChunkWhole, 0, m)  BY <1>9, <1>10, PartIs
<1>13. all \in Seq(Points) /\ Len(all) = m /\ \A j \in 1..m : all[j] = ChunkWhole[j]
  <2> HIDE DEF m
  <2>1. PartLen(Len(ChunkWhole), 0, m) = m  BY <1>9, <1>10, <1>11 DEF PartLen
  <2> HIDE DEF all
  <2>2. \A j \in 1..m : all[j] = ChunkWhole[0 + j]  BY <1>12, <2>1 DEF PartOf
  <2> QED  BY <1>9, <1>12, <2>1, <2>2 DEF PartOf
<1> HIDE DEF all
<1>14. ASSUME NEW i \in 1..n  PROVE Part(all, (i - 1) * k, k) = qpages[i].hits
  <2> DEFINE o == (i - 1) * k  h == qpages[i].hits  p == Part(all, o, k)
  <2>1. o \in Nat /\ h \in Seq(Points) /\ ChunkShows(h, o) /\ Len(h) <= k  BY <1>7
  <2>2. PartOf(p, Points, all, o, k)  BY <1>3, <1>13, <2>1, PartIs
  <2>3. PartLen(m, o, k) = Len(h)
    <3>1. CASE i = n
      <4>1. o = before /\ h = last  BY <3>1
      <4> HIDE DEF o, h, before, last
      <4>2. m = o + Len(h)  BY <4>1
      <4> HIDE DEF m
      <4>3. Len(h) \in Nat /\ k \in Nat  BY <1>3, <2>1
      <4> QED  BY <2>1, <4>2, <4>3 DEF PartLen
    <3>2. CASE i # n
      <4>1. i \in 1..(n - 1) /\ i \in Nat /\ i >= 1 /\ i + 1 <= n  BY <1>3, <3>2
      <4>2. Len(h) = k  BY <1>3, <4>1
      <4>3. o + k <= before
        <5>1. (n - 1 - i) * k \in Nat /\ (n - 1 - i) * k + i * k = (n - 1) * k
          BY <1>3, <4>1
        <5>2. o + k = i * k  BY <1>3, <4>1
        <5>3. i * k \in Nat  BY <1>3, <4>1
        <5> DEFINE x == (n - 1 - i) * k  y == i * k
        <5> HIDE DEF x, y, before, o
        <5>4. x \in Nat /\ y \in Nat /\ x + y = before /\ o + k = y
          BY <5>1, <5>2, <5>3 DEF x, y, before
        <5> QED  BY <5>4
      <4> HIDE DEF o, h, before, last
      <4>4. m \in Nat /\ before <= m  BY <1>9
      <4> HIDE DEF m
      <4> QED  BY <1>3, <1>9, <2>1, <4>2, <4>3, <4>4 DEF PartLen
    <3> QED  BY <3>1, <3>2
  <2> HIDE DEF o, h, p, m
  <2>4. /\ p \in Seq(Points) /\ Len(p) = Len(h)
        /\ \A j \in 1..Len(h) : o + j \in 1..m /\ p[j] = all[o + j]
    BY <1>13, <2>2, <2>3 DEF PartOf
  <2>5. \A j \in 1..Len(h) : p[j] = h[j]
    <3> SUFFICES ASSUME NEW j \in 1..Len(h)  PROVE p[j] = h[j]  OBVIOUS
    <3>1. h[j] = ChunkWhole[o + j]  BY <2>1 DEF ChunkShows
    <3>2. p[j] = all[o + j] /\ o + j \in 1..m  BY <2>4
    <3> QED  BY <1>13, <3>1, <3>2
  <2>6. p = h  BY <2>1, <2>4, <2>5, SeqEqual
  <2> QED  BY <2>6 DEF p, h, o
<1>15. m <= n * k
  <2>1. n * k = before + k  BY <1>3
  <2> HIDE DEF before, last
  <2> QED  BY <1>3, <1>9, <2>1
<1>16. Q!Joined = all
  <2>1. Q!Joined = Q!FlattenSeq([i \in DOMAIN qpages |-> qpages[i].hits])  BY DEF Q!Joined
  <2>2. DOMAIN qpages = 1..n  BY <1>2 DEF n
  <2> DEFINE c == [i \in 1..n |-> Part(all, (i - 1) * k, k)]
  <2>3. [i \in DOMAIN qpages |-> qpages[i].hits] = c  BY <1>14, <2>2
  <2>4. Q!Joined = FlattenSeq(c)  BY <2>1, <2>3, ChunkFlat
  <2> HIDE DEF m, c
  <2>5. c = [i \in 1..n |-> Part(all, (i - 1) * k, k)]  BY DEF c
  <2>6. n \in Nat \ {0} /\ k \in Nat /\ all \in Seq(Points)  BY <1>3, <1>13
  <2>7. Len(all) <= n * k  BY <1>13, <1>15
  <2>8. FlattenSeq(c) = all  BY ONLY <2>5, <2>6, <2>7, PagesAreAll
  <2> QED  BY <2>4, <2>8
<1>17. ASSUME qreq.mode = "vector", Len(Q!Last(qpages).hits) < qreq.size
       PROVE  m = Len(ChunkWhole)
  <2>1. Len(last) < k  BY <1>17, ChunkLast DEF n, k
  <2>2. last = Part(ChunkWhole, before, k)  BY <1>9, <1>17 DEF ChunkShows, k
  <2>3. PartOf(Part(ChunkWhole, before, k), Points, ChunkWhole, before, k)
    <3> HIDE DEF before
    <3> QED  BY <1>3, <1>9, <1>10, PartIs
  <2>4. Len(last) = PartLen(Len(ChunkWhole), before, k)  BY <2>2, <2>3 DEF PartOf
  <2> HIDE DEF last, before
  <2>5. Len(ChunkWhole) <= before + Len(last)
    BY <1>3, <1>9, <1>10, <2>1, <2>4 DEF PartLen
  <2> QED  BY <1>9, <1>10, <1>11, <2>5
<1> HIDE DEF m
<1> QED  BY <1>4, <1>9, <1>11, <1>16, <1>17 DEF all

LEMMA ChunkJoinsUp ==
  ASSUME Q!QdrantAssumption, ChunkInv
  PROVE  Q!PagesJoinUp
<1> SUFFICES ASSUME qpage.pc = "answered", Q!SameLists
             PROVE
               /\ Q!IsInjective(IF qreq.collapse /\ ~qpage.fast
                                THEN [i \in DOMAIN Q!Joined |-> Idno[Q!Joined[i]]] ELSE Q!Joined)
               /\ Len(Q!Last(qpages).hits) < qreq.size /\ qreq.mode = "vector" =>
                    IF qreq.collapse
                    THEN {Idno[p] : p \in Q!Range(Q!Joined)} = {Idno[p] : p \in Q!Range(Q!Neighbours)}
                    ELSE Q!Range(Q!Joined) = Q!Range(Q!Neighbours)
  BY DEF Q!PagesJoinUp
<1>1. ChunkRequest  BY DEF ChunkInv
<1>2. PICK m \in Nat :
        /\ m <= Len(ChunkWhole) /\ Q!Joined = Part(ChunkWhole, 0, m)
        /\ qreq.mode = "vector" /\ Len(Q!Last(qpages).hits) < qreq.size =>
             m = Len(ChunkWhole)
        /\ qpage.fast <=> ChunkFast
  BY ChunkJoined
<1>3. /\ ChunkWhole \in Seq(Points) /\ ChunkOnce(ChunkWhole, qreq.collapse /\ ~ChunkFast)
      /\ qreq.mode = "vector" =>
           IF qreq.collapse
           THEN {Idno[p] : p \in ToSet(ChunkWhole)} = {Idno[p] : p \in ToSet(Q!Neighbours)}
           ELSE ChunkWhole = Q!Neighbours
  BY <1>1, ChunkWholeIs
<1>4. PICK s : s = Q!Joined  OBVIOUS
<1>5. /\ s \in Seq(Points) /\ Len(s) = m /\ DOMAIN s = 1..m
      /\ \A i \in 1..m : i \in 1..Len(ChunkWhole) /\ s[i] = ChunkWhole[i]
  <2>1. PartOf(s, Points, ChunkWhole, 0, m)  BY <1>2, <1>3, <1>4, PartIs
  <2>2. PartLen(Len(ChunkWhole), 0, m) = m  BY <1>2, <1>3 DEF PartLen
  <2>3. s \in Seq(Points) /\ Len(s) = m /\ \A i \in 1..m : s[i] = ChunkWhole[0 + i]
    BY <2>1, <2>2 DEF PartOf
  <2> QED  BY <1>2, <1>3, <2>3
<1>6. \A i, j \in 1..m :
        (IF qreq.collapse /\ ~ChunkFast THEN Idno[s[i]] = Idno[s[j]] ELSE s[i] = s[j]) => i = j
  BY <1>3, <1>5 DEF ChunkOnce
<1>7. Q!IsInjective(IF qreq.collapse /\ ~qpage.fast THEN [i \in DOMAIN s |-> Idno[s[i]]] ELSE s)
  <2>1. CASE qreq.collapse /\ ~qpage.fast
    <3> DEFINE f == [i \in DOMAIN s |-> Idno[s[i]]]
    <3>1. DOMAIN f = 1..m /\ \A i \in 1..m : f[i] = Idno[s[i]]  BY <1>5
    <3> HIDE DEF f
    <3>2. \A i, j \in DOMAIN f : f[i] = f[j] => i = j  BY <1>2, <1>6, <2>1, <3>1
    <3>3. Q!IsInjective(f)  BY <3>2 DEF Q!IsInjective
    <3> QED  BY <2>1, <3>3 DEF f
  <2>2. CASE ~(qreq.collapse /\ ~qpage.fast)
    <3>1. \A i, j \in DOMAIN s : s[i] = s[j] => i = j  BY <1>2, <1>5, <1>6, <2>2
    <3>2. Q!IsInjective(s)  BY <3>1 DEF Q!IsInjective
    <3> QED  BY <2>2, <3>2
  <2> QED  BY <2>1, <2>2
<1>8. ASSUME Len(Q!Last(qpages).hits) < qreq.size, qreq.mode = "vector"
      PROVE  IF qreq.collapse
             THEN {Idno[p] : p \in ToSet(s)} = {Idno[p] : p \in ToSet(Q!Neighbours)}
             ELSE ToSet(s) = ToSet(Q!Neighbours)
  <2>1. m = Len(ChunkWhole)  BY <1>2, <1>8
  <2>2. s = ChunkWhole  BY <1>3, <1>5, <2>1, SeqEqual
  <2> QED  BY <1>3, <1>8, <2>2
<1> QED  BY <1>4, <1>7, <1>8, ChunkRange

-----------------------------------------------------------------------------
\* The chunk search runs when it is the part that does.
LEMMA ChunksRun ==
  /\ ServicesInit => (part = "qdrant" => Q!Init)
  /\ [ServicesNext]_servicesVars => part' = part /\ (part = "qdrant" => [Q!Next]_qdrantVars)
<1>1. ServicesInit => (part = "qdrant" => Q!Init)
  BY DEF ServicesInit
<1>2. ASSUME UNCHANGED servicesVars
      PROVE  UNCHANGED <<part, qdrantVars>>
  BY <1>2 DEF servicesVars
<1>3. ServicesNext => part' = part /\ (part = "qdrant" => Q!Next)
  BY DEF ServicesNext
<1>. QED BY <1>1, <1>2, <1>3

LEMMA ChunksPartHolds == ServicesSpec => [](part = "qdrant" => ChunkInv)
<1>1. ServicesInit => (part = "qdrant" => ChunkInv)
  BY ChunksRun, ChunkInitHolds, ServicesAssumption DEF ServicesAssumption
<1>2. (part = "qdrant" => ChunkInv) /\ [ServicesNext]_servicesVars
        => (part = "qdrant" => ChunkInv)'
  BY ChunksRun, ChunkStep, ServicesAssumption DEF ServicesAssumption
<1>. QED BY <1>1, <1>2, PTL DEF ServicesSpec

\* No page is longer than was asked for, and a total under a threshold is the count of the
\* neighbours or the cap the counting stops at; pages made from the same lists join up to one
\* list, with each chunk, or each study when chunks are collapsed, once, and after the last
\* page of a vector search with all that is near the query.
THEOREM ChunkPagesAreOneResult == ServicesSpec => []QdrantPagesHold
<1>1. (part = "qdrant" => ChunkInv) => QdrantPagesHold
  BY ChunkTotalsHold, ChunkJoinsUp, ServicesAssumption DEF ServicesAssumption, QdrantPagesHold
<1>. QED BY <1>1, ChunksPartHolds, PTL

\* Type correctness of the chunk search: what a page has asked for, and what it has so far.
THEOREM ChunksAreTyped == ServicesSpec => [](part = "qdrant" => ServicesTypeOK)
<1>1. (part = "qdrant" => ChunkInv) => (part = "qdrant" => ServicesTypeOK)
  BY ChunkTotalsHold, ServicesAssumption DEF ServicesAssumption, ServicesTypeOK
<1>. QED BY <1>1, ChunksPartHolds, PTL

-----------------------------------------------------------------------------
\* A part of the server runs.
PartRunning ==
  part \in {"gate", "facets", "keys", "generation", "studies", "qdrant", "filters", "walks"}

LEMMA PartIsRunning == ServicesSpec => []PartRunning
<1>1. ServicesInit => PartRunning
  BY DEF ServicesInit, PartRunning
<1>2. PartRunning /\ [ServicesNext]_servicesVars => PartRunning'
  BY StudiesRun DEF PartRunning
<1>. QED BY <1>1, <1>2, PTL DEF ServicesSpec

\* Type correctness of the server, whichever of the parts runs.
THEOREM ServicesAreTyped == ServicesSpec => []ServicesTypeOK
<1>1. PartRunning =>
        \/ part \in {"gate", "facets", "keys", "generation", "filters"}
        \/ part = "walks" \/ part = "studies" \/ part = "qdrant"
  BY DEF PartRunning
<1>. QED
  BY <1>1, PartIsRunning, PartsTyped, WalksAreTyped, StudiesAreTyped, ChunksAreTyped, PTL
=============================================================================
