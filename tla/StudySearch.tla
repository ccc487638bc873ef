----------------------------- MODULE StudySearch -----------------------------
(***************************************************************************)
(* POST /studies/search on OpenSearch (app/studies_search.py,               *)
(* search/backend/opensearch/studies_search.py and studies_semantic.py): a   *)
(* client pages through one search. A page takes up to five requests to the  *)
(* engine, and studies come and go between them. A query is what it matches: *)
(* the keyword scores, the studies near it, the titles that name its words   *)
(* and the study whose idno it is.                                           *)
(***************************************************************************)
EXTENDS Lists, SequencesExt

CONSTANTS
  Studies,          \* sids
  Type,             \* their dataset types (in the tabs)
  Scorings,         \* keyword scores; 0: no match
  Rankings,         \* the vector search's order of the studies with chunks
  Complete,         \* studies whose title names every word of the query
  Tokens,           \* single-token queries: the sid of the idno
  FusionWindow, SemanticWindow,
  Limits,           \* page sizes the client asks for
  None,
  MaxChanges        \* bound

RRF_K == 60

StudiesAssumption ==
  /\ Studies \subseteq Int /\ IsFiniteSet(Studies) /\ DOMAIN Type = Studies /\ None \notin Studies
  /\ Scorings \subseteq [Studies -> Int]
  /\ \A ranking \in Rankings : ranking \in Seq(Studies) /\ IsInjective(ranking)
  /\ FusionWindow \in Nat /\ SemanticWindow \in Nat /\ Limits \subseteq Nat \ {0}

VARIABLES
  docs,      \* the study index
  score,     \* keyword score of each study
  near,      \* the chunk index: nearest study first
  req,       \* the search
  page,      \* the page being answered: pc, mode, offset, block, fused, answer
  pages,     \* the answers so far
  calm,      \* history: nothing has changed since the search began
  changes

svars == <<docs, score, near, req, page, pages, calm, changes>>

Tabs == {Type[d] : d \in Studies}
Sorts == {"default", "desc", "asc", "title"}
Requests ==
  [mode : {"browse", "auto", "quoted", "lexical", "semantic", "hybrid"}, token : Tokens \cup {None},
   sort : Sorts, types : {{}} \cup {{t} : t \in Tabs}, limit : Limits]

\* resolve_mode: a quoted phrase makes `auto` a keyword search.
Resolve(r) == CASE r.mode = "auto" -> "hybrid" [] r.mode = "quoted" -> "lexical" [] OTHER -> r.mode

\* resolve_sort: relevance needs a query.
SortOf(mode) ==
  IF mode = "browse" THEN "title" ELSE IF req.sort = "default" THEN "desc" ELSE req.sort

-----------------------------------------------------------------------------
(* What OpenSearch answers. *)

By(sort, a, b) ==
  CASE sort = "title" -> a > b    \* any fixed order
    [] sort = "desc" -> score[a] > score[b] \/ (score[a] = score[b] /\ a < b)
    [] sort = "asc" -> score[a] < score[b] \/ (score[a] = score[b] /\ a < b)

Listed(S, sort) == InOrder(S, {p \in S \X S : By(sort, p[1], p[2])})

\* keyword_body: every study the words match.
Matches(d) == {x \in d : score[x] > 0}

\* types_post_filter: it narrows the hits and the total, not the counts.
InTab(x) == req.types = {} \/ Type[x] \in req.types
Shown(seq) == Where(seq, InTab)

CountBy(S) == [t \in Tabs |-> Cardinality({x \in S : Type[x] = t})]
Cut(seq, from, size) == SubSeq(seq, from + 1, IF from + size < Len(seq) THEN from + size ELSE Len(seq))

\* One request: the studies of S in the tab, sorted, from the offset.
Listing(S, sort, from, size) ==
  LET seq == Shown(Listed(S, sort)) IN
  [found |-> Len(seq), counts |-> CountBy(S), hits |-> Cut(seq, from, size)]

\* knn_body and apply_semantic_policy: the nearest studies of the chunk index;
\* _enrich drops those the study index has not.
Vector == Cut(near, 0, SemanticWindow)
Enriched(block) == Where(block, LAMBDA x : x \in docs)

\* Mutant: the tab narrows the keyword head that is fused.
HeadOfTab(d) == Cut(Shown(Listed(Matches(d), "desc")), 0, FusionWindow)

\* The head: the best keyword matches over all types.
KeywordHead(d) == Cut(Listed(Matches(d), "desc"), 0, FusionWindow)

\* rrf_fuse. The weights keep the order of the sums of 1 / (RRF_K + rank) for short lists.
Weight(seq, x) ==
  IF x \in Range(seq) THEN 1000000 \div (RRF_K + CHOOSE i \in DOMAIN seq : seq[i] = x) ELSE 0

Fuse(head, block) ==
  LET w(x) == Weight(head, x) + Weight(block, x)
      S == Range(head) \cup Range(block)
  IN InOrder(S, {p \in S \X S : w(p[1]) > w(p[2]) \/ (w(p[1]) = w(p[2]) /\ p[1] < p[2])})

\* A study whose title names every word is put first (the head has the titles).
Promoted(fused, head) ==
  LET first(x) == x \in Complete /\ x \in Range(head) IN
  Where(fused, first) \o Where(fused, LAMBDA x : ~first(x))

\* The head sits at the start of the result, reversed at its end; one keyword request
\* without the head supplies the other rows, their total and their counts.
HybridPage(fused, sort) ==
  LET shown == Shown(fused)
      fromHead == IF Len(shown) > page.offset THEN Min({req.limit, Len(shown) - page.offset}) ELSE 0
      rows == IF sort = "desc" THEN req.limit - fromHead ELSE req.limit
      from == IF sort = "asc" THEN page.offset
              ELSE IF page.offset > Len(shown) THEN page.offset - Len(shown) ELSE 0
      tail == Listing(Matches(docs) \ Range(fused), sort, from, IF rows > 0 THEN rows ELSE 1)
      tailHits == IF rows > 0 THEN tail.hits ELSE <<>>
      after == IF page.offset > tail.found THEN page.offset - tail.found ELSE 0
  IN [found |-> Len(shown) + tail.found,
      counts |-> [t \in Tabs |-> tail.counts[t] + CountBy(Range(fused))[t]],
      hits |-> IF sort = "desc" THEN Cut(shown, page.offset, fromHead) \o tailHits
               ELSE tailHits \o Cut(Reverse(shown), after, req.limit - Len(tailHits))]

-----------------------------------------------------------------------------
(* The client and the route. *)

Blank == [pc |-> "idle", mode |-> "browse", offset |-> 0, block |-> <<>>, fused |-> <<>>, answer |-> None]

Init ==
  /\ docs \in {Studies, {}} /\ score \in Scorings /\ near \in Rankings
  /\ req \in {r \in Requests : (r.token = None \/ r.mode # "browse") /\ (r.mode = "browse" => r.sort = "default")}
  /\ page = Blank /\ pages = <<>> /\ calm = TRUE /\ changes = 0

FirstStep(mode) ==
  CASE mode = "browse" -> "browse" [] mode = "lexical" -> "lexical" [] OTHER -> "embed"

At(pc) == page' = [page EXCEPT !.pc = pc]
Quiet == UNCHANGED <<docs, score, near, req, calm, changes>>

\* The first page, and the next while there is one.
AskPage ==
  /\ \/ page.pc = "idle" /\ page.offset = 0
     \/ page.pc = "answered" /\ page.offset + req.limit < Last(pages).found
  /\ LET mode == Resolve(req)
         offset == IF page.pc = "idle" THEN 0 ELSE page.offset + req.limit
     IN page' = [Blank EXCEPT !.pc = IF req.token # None THEN "exact" ELSE FirstStep(mode),
                              !.mode = mode, !.offset = offset]
  /\ UNCHANGED pages /\ Quiet

Answer(a) ==
  /\ pages' = Append(pages, [found |-> a.found, counts |-> a.counts, hits |-> a.hits,
                             offset |-> page.offset, mode |-> page.mode])
  /\ At("answered")

\* _raise_if_index_empty: nothing found is an answer unless nothing is indexed.
CountFirst(a) == page' = [page EXCEPT !.pc = "count", !.answer = a] /\ UNCHANGED pages
AnswerUnlessEmpty(a) == IF a.found > 0 THEN Answer(a) ELSE CountFirst(a)

\* exact_idno_match, before every search with a query; here the tab is a filter.
Exact ==
  /\ page.pc = "exact"
  /\ LET hits == {x \in docs : x = req.token /\ InTab(x)} IN
     IF hits # {}
     THEN Answer([found |-> Cardinality(hits), counts |-> CountBy(hits),
                  hits |-> Cut(Listed(hits, "title"), page.offset, req.limit)])
     ELSE At(FirstStep(page.mode)) /\ UNCHANGED pages
  /\ Quiet

\* browse and lexical: one request.
List ==
  /\ page.pc \in {"browse", "lexical"}
  /\ AnswerUnlessEmpty(Listing(IF page.pc = "browse" THEN docs ELSE Matches(docs),
                               SortOf(page.pc), page.offset, req.limit))
  /\ Quiet

Count ==
  /\ page.pc = "count"
  /\ IF docs = {} THEN At("error") /\ UNCHANGED pages ELSE Answer(page.answer)
  /\ Quiet

\* The model may be gone: `auto` goes on as a keyword search, other modes fail.
Embed ==
  /\ page.pc = "embed"
  /\ \/ At("vector")
     \/ page' = IF req.mode = "auto" THEN [page EXCEPT !.pc = "lexical", !.mode = "lexical"]
                ELSE [page EXCEPT !.pc = "error"]
  /\ UNCHANGED pages /\ Quiet

VectorSearch ==
  /\ page.pc = "vector"
  /\ page' = [page EXCEPT !.pc = IF Vector = <<>> THEN "block" ELSE "enrich", !.block = Vector]
  /\ UNCHANGED pages /\ Quiet

Enrich ==
  /\ page.pc = "enrich"
  /\ page' = [page EXCEPT !.pc = "block", !.block = Enriched(@)]
  /\ UNCHANGED pages /\ Quiet

\* An empty block: semantic finds nothing, hybrid is lexical.
NoBlock ==
  /\ page.pc = "block" /\ page.block = <<>>
  /\ IF page.mode = "hybrid" THEN At("lexical") /\ UNCHANGED pages
     ELSE CountFirst([found |-> 0, counts |-> CountBy({}), hits |-> <<>>])
  /\ Quiet

\* semantic: the block as it is, or browsed again in another sort.
Semantic ==
  /\ page.pc = "block" /\ page.block # <<>> /\ page.mode = "semantic"
  /\ LET seq == Shown(IF SortOf("semantic") = "asc" THEN Reverse(page.block) ELSE page.block) IN
     IF SortOf("semantic") = "title"
     THEN AnswerUnlessEmpty(Listing(docs \cap Range(page.block), "title", page.offset, req.limit))
     ELSE Answer([found |-> Len(seq), counts |-> CountBy(Range(page.block)), hits |-> Cut(seq, page.offset, req.limit)])
  /\ Quiet

\* hybrid by another sort: the union, in one request.
HybridSorted ==
  /\ page.pc = "block" /\ page.block # <<>> /\ page.mode = "hybrid" /\ SortOf("hybrid") = "title"
  /\ Answer(Listing(Matches(docs) \cup (docs \cap Range(page.block)), "title", page.offset, req.limit))
  /\ Quiet

HybridHead ==
  /\ page.pc = "block" /\ page.block # <<>> /\ page.mode = "hybrid" /\ SortOf("hybrid") # "title"
  /\ page' = [page EXCEPT !.pc = "tail", !.fused = Promoted(Fuse(KeywordHead(docs), page.block), KeywordHead(docs))]
  /\ UNCHANGED pages /\ Quiet

HybridTail ==
  /\ page.pc = "tail"
  /\ Answer(HybridPage(page.fused, SortOf("hybrid")))
  /\ Quiet

\* OpenSearch fails or an index is missing: the route answers an error.
Fail ==
  /\ page.pc \notin {"idle", "answered", "error", "embed"}
  /\ At("error") /\ UNCHANGED pages /\ Quiet

\* A study is written or deleted.
Change ==
  /\ changes < MaxChanges /\ page.pc \notin {"idle", "error"}
  /\ \E x \in Studies : docs' = IF x \in docs THEN docs \ {x} ELSE docs \cup {x}
  /\ changes' = changes + 1 /\ calm' = FALSE
  /\ UNCHANGED <<score, near, req, page, pages>>

Next ==
  \/ AskPage \/ Exact \/ List \/ Count \/ Embed \/ VectorSearch \/ Enrich \/ NoBlock
  \/ Semantic \/ HybridSorted \/ HybridHead \/ HybridTail \/ Fail \/ Change

Spec == Init /\ [][Next]_svars

-----------------------------------------------------------------------------
(* Properties. *)

TypeOK ==
  /\ docs \subseteq Studies /\ req \in Requests
  /\ page.pc \in {"idle", "exact", "browse", "lexical", "count", "embed", "vector", "enrich", "block", "tail",
                  "answered", "error"}
  /\ Range(page.block) \subseteq Studies /\ Range(page.fused) \subseteq Studies
  /\ \A i \in DOMAIN pages : pages[i].found \in 0..Cardinality(Studies)

\* Of the invariants in docs/studies-search-contract.md, 9 (invariant_violations), what a
\* response keeps, also one whose requests saw different indexes: an empty page lies behind
\* `found` when the offset does, as that of a result that shrank.
AddsUp(r) ==
  /\ Len(r.hits) <= req.limit
  /\ r.hits # <<>> => r.offset + Len(r.hits) <= r.found
  /\ IsInjective(r.hits) /\ \A x \in Range(r.hits) : InTab(x)
  /\ r.found = SumFunctionOnSet(r.counts, IF req.types = {} THEN Tabs ELSE req.types)

ResponsesAddUp == \A i \in DOMAIN pages : AddsUp(pages[i])

\* What the search answers as it runs now, in one piece and for all types.
Whole(mode) ==
  LET block == Enriched(Vector)
      head == Cut(Listed(Matches(docs), "desc"), 0, FusionWindow)
      fused == Promoted(Fuse(head, block), head)
      rest == Matches(docs) \ Range(fused)
      sort == SortOf(mode)
  IN IF req.token \in docs THEN <<req.token>>
     ELSE IF mode = "browse" THEN Listed(docs, sort)
     ELSE IF mode = "semantic" /\ sort = "title" THEN Listed(Range(block), sort)
     ELSE IF mode = "semantic" THEN IF sort = "asc" THEN Reverse(block) ELSE block
     ELSE IF mode = "lexical" \/ block = <<>> THEN Listed(Matches(docs), sort)
     ELSE IF sort = "title" THEN Listed(Matches(docs) \cup Range(block), sort)
     ELSE IF sort = "desc" THEN fused \o Listed(rest, sort)
     ELSE Listed(rest, sort) \o Reverse(fused)

AllPages ==
  /\ page.pc = "answered" /\ page.offset + req.limit >= Last(pages).found
  /\ calm
  /\ \A i, j \in DOMAIN pages : pages[i].mode = pages[j].mode

Paged == FlattenSeq([i \in DOMAIN pages |-> pages[i].hits])

\* While nothing changes and each page runs in the same mode, the pages join up to what
\* the search answers in one piece, each study once, as many as every page said were found;
\* the tab only leaves studies out, in every mode and sort, and hybrid finds the same
\* studies whatever the sort. Searches for an idno that the tab hides are left out: they
\* run as if there were none.
PagesJoinUp ==
  AllPages /\ (req.token \in docs => InTab(req.token)) =>
    /\ Paged = Shown(Whole(page.mode))
    /\ \A i \in DOMAIN pages : pages[i].found = Len(Paged)
    /\ page.mode = "hybrid" /\ req.token \notin docs =>
         Range(Paged) = {x \in Matches(docs) \cup Range(Enriched(Vector)) : InTab(x)}

-----------------------------------------------------------------------------
(* What the docs say and the code does not do. *)

\* docs/studies-search-contract.md, 6.1: in hybrid, "any keyword match whose title names
\* every one of [the words] is promoted first, in keyword rank order". (Not the ones past
\* the fused head, and in the fused order.)
TitlesComeFirst ==
  AllPages /\ page.mode = "hybrid" /\ SortOf("hybrid") = "desc" /\ req.token \notin docs
    /\ Enriched(Vector) # <<>> =>
    IsPrefix(Shown(Listed(Matches(docs) \cap Complete, "desc")), Paged)
=============================================================================
