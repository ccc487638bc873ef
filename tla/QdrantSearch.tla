----------------------------- MODULE QdrantSearch -----------------------------
(***************************************************************************)
(* POST /search on Qdrant (app/main.py,                                     *)
(* search/backend/qdrant/search_backend.py): a client pages through one     *)
(* search over chunks. A page gathers several requests to Qdrant, in any     *)
(* order, some of them loops: the total, the nearest chunks, the chunks the  *)
(* words match. Chunks come and go between the requests.                     *)
(***************************************************************************)
EXTENDS Lists, SequencesExt

CONSTANTS
  Points,          \* chunk ids, in the order Qdrant scrolls
  Idno,            \* each chunk's idno, which the hits may be collapsed by
  Matching,        \* chunks whose text matches the query
  Lexical,         \* the sparse vectors' order of the chunks
  Nearest,         \* the dense vectors' order of the chunks
  Close,           \* how many of Nearest are above the score threshold
  Batch,           \* the scroll's batch (256 for hits, 128 for ids)
  CountBatch,      \* page_size of the neighbour count
  CountCap,        \* qdrant_vector_count_scan_cap
  Prefetch,        \* 50, or the request's knn_k; 200 for matches that are grouped here
  Inner, ScanCap,  \* a group's inner hits, 3 at least, and 5000: those it scrolls for
  Factor,          \* qdrant_hybrid_collapse_prefetch_multiplier
  Sizes, None,
  MaxFrom, MaxChanges    \* bounds

QdrantAssumption ==
  /\ Points \subseteq Int /\ IsFiniteSet(Points) /\ None \notin Points
  /\ DOMAIN Idno = Points /\ Matching \subseteq Points
  /\ Lexical \in Seq(Points) /\ IsInjective(Lexical)
  /\ Nearest \in Seq(Points) /\ IsInjective(Nearest) /\ Close \in Nat
  /\ Batch \in Nat \ {0} /\ CountBatch \in Nat \ {0} /\ CountCap \in Nat \ {0}
  /\ Prefetch \in Nat \ {0} /\ Factor \in Nat \ {0} /\ Sizes \subseteq Nat \ {0}
  /\ Inner \in Nat \ {0} /\ ScanCap \in Nat \ {0}

VARIABLES
  points,    \* the chunks in the collection
  req,       \* the search
  page,      \* the page under way: from, what is still asked for, and what came
  pages,     \* the answers so far: [from, total, hits]
  calm,      \* history: no chunk has come or gone
  changes

qvars == <<points, req, page, pages, calm, changes>>

Requests ==
  [mode : {"keyword", "vector", "hybrid"},
   sparse : BOOLEAN,           \* qdrant_sparse_lexical
   idno : {Idno[p] : p \in Points} \cup {None},   \* what the query is the idno of
   threshold : BOOLEAN, collapse : BOOLEAN, size : Sizes]

Cut(seq, from, size) == SubSeq(seq, from + 1, IF from + size < Len(seq) THEN from + size ELSE Len(seq))
There(seq) == Where(seq, LAMBDA p : p \in points)
Need == page.from + req.size

-----------------------------------------------------------------------------
(* What Qdrant answers. *)

Scrolled(S) == InOrder(S \cap points, {p \in Points \X Points : p[1] < p[2]})

\* One scroll: a batch from the cursor on, and the next cursor, None at the end.
Scroll(S, cursor, limit) ==
  LET rest == Scrolled({p \in S : cursor = None \/ p >= cursor}) IN
  [batch |-> Cut(rest, 0, limit), next |-> IF Len(rest) > limit THEN rest[limit + 1] ELSE None]

Neighbours == There(IF req.threshold THEN Cut(Nearest, 0, Close) ELSE Nearest)

\* The first of each group, in order.
Leaders(seq) ==
  AtPlaces(seq, {i \in DOMAIN seq : \A j \in 1..(i - 1) : Idno[seq[j]] # Idno[seq[i]]})

\* Mutant: the page's size alone limits the groups.
PageOfSizedGroups(order) ==
  IF req.collapse THEN Cut(Cut(Leaders(order), 0, req.size), page.from, req.size)
  ELSE Cut(order, page.from, req.size)

\* query_points with an offset, or query_points_groups with from + size groups, cut here.
PageOf(order) ==
  IF req.collapse THEN Cut(Cut(Leaders(order), 0, Need), page.from, req.size)
  ELSE Cut(order, page.from, req.size)

-----------------------------------------------------------------------------
(* Reciprocal rank fusion (_rrf_merge_with_scores): an id counts as often as a list
   names it; ties keep the order in which the ids came. *)

Weight(i) == 1000000 \div (60 + i)
Score(seq, p) ==
  SumFunctionOnSet([i \in DOMAIN seq |-> Weight(i)], {i \in DOMAIN seq : seq[i] = p})

RRF(vec, text, limit) ==
  LET all == vec \o text
      came(p) == Min({i \in DOMAIN all : all[i] = p})
      sum(p) == Score(vec, p) + Score(text, p)
      S == Range(all)
      ahead(p, q) == sum(p) > sum(q) \/ (sum(p) = sum(q) /\ came(p) < came(q))
  IN Cut(InOrder(S, {p \in S \X S : ahead(p[1], p[2])}), 0, limit)

\* Deeper pages fetch more of both lists.
PrefetchK == (IF req.collapse THEN Factor ELSE 1) * (IF Need > Prefetch THEN Need ELSE Prefetch)

\* How many text matches are wanted, and whether they come by scrolling.
ByScroll == ~req.sparse /\ req.mode # "vector"
Grouped(need) == IF need * Inner > Prefetch THEN need * Inner ELSE Prefetch
Wanted ==
  IF req.mode = "hybrid" THEN PrefetchK
  ELSE IF req.collapse THEN IF Grouped(Need) < ScanCap THEN Grouped(Need) ELSE ScanCap
  ELSE Need

-----------------------------------------------------------------------------
(* The client and the route. *)

Blank ==
  [pc |-> "idle", from |-> 0, fast |-> FALSE, todo |-> {}, total |-> 0,
   near |-> <<>>, text |-> <<>>, cursor |-> None]

Asked(from, fast) ==
  [Blank EXCEPT !.pc = "asked", !.from = from, !.fast = fast,
     !.todo = IF fast \/ req.mode = "keyword" THEN {"total", "text"}
              ELSE IF req.mode = "vector" THEN {"total", "near"} ELSE {"total", "near", "text"}]

Init ==
  /\ points \in {Points, Points \ {p \in Points : p = Nearest[1]}}
  /\ req \in {r \in Requests : (r.idno # None => r.mode = "keyword") /\ (r.mode = "keyword" => ~r.threshold)}
  /\ page = Blank /\ pages = <<>> /\ calm = TRUE /\ changes = 0

\* The first page, then the next while pages come full. A keyword search for what looks
\* like an idno is tried as one.
AskPage ==
  /\ \/ page.pc = "idle" /\ page' = Asked(0, req.idno # None)
     \/ /\ page.pc = "answered" /\ Len(Last(pages).hits) = req.size /\ Need <= MaxFrom
        /\ page' = Asked(Need, req.idno # None)
  /\ UNCHANGED <<points, req, pages, calm, changes>>

Came(what) == page.todo \ {what}
Steady == UNCHANGED <<points, req, pages, calm, changes>>

\* The idno fast path: a count, then a scroll.
FastCount ==
  /\ page.fast /\ "total" \in page.todo
  /\ page' = [page EXCEPT !.todo = Came("total"), !.total = Cardinality({p \in points : Idno[p] = req.idno})]
  /\ Steady

FastScroll ==
  /\ page.fast /\ page.todo = {"text"}
  /\ page' = [page EXCEPT !.todo = {},
                          !.text = Cut(Scrolled({p \in Points : Idno[p] = req.idno}), page.from, req.size)]
  /\ Steady

\* The other totals: the matches' count, the filters' count, or the neighbours above the
\* threshold, counted page by page up to a cap.
Count ==
  /\ ~page.fast /\ "total" \in page.todo /\ ~(req.mode # "keyword" /\ req.threshold)
  /\ page' = [page EXCEPT !.todo = Came("total"),
                          !.total = Cardinality(points \cap IF req.mode = "keyword" THEN Matching ELSE Points)]
  /\ Steady

CountNeighbours ==
  /\ ~page.fast /\ "total" \in page.todo /\ req.mode # "keyword" /\ req.threshold
  /\ LET limit == Min({CountBatch, CountCap - page.total})
         got == Len(Cut(Neighbours, page.total, limit))
         done == got < limit \/ page.total + got >= CountCap
     IN page' = [page EXCEPT !.total = @ + got, !.todo = IF done THEN Came("total") ELSE @]
  /\ Steady

Near ==
  /\ "near" \in page.todo
  /\ page' = [page EXCEPT !.todo = Came("near"),
                          !.near = IF req.mode = "vector" THEN PageOf(Neighbours) ELSE Cut(Neighbours, 0, PrefetchK)]
  /\ Steady

\* The sparse vectors' ranking.
Sparse ==
  /\ ~page.fast /\ "text" \in page.todo /\ req.sparse
  /\ page' = [page EXCEPT !.todo = Came("text"),
                          !.text = IF req.mode = "keyword" THEN PageOf(There(Lexical))
                                   ELSE Cut(There(Lexical), 0, PrefetchK)]
  /\ Steady

\* Without sparse vectors the matches are scrolled until there are enough or a batch is
\* empty. A batch without a next cursor does not end the loop: it starts over.
ScrollText ==
  /\ ~page.fast /\ "text" \in page.todo /\ ~req.sparse
  /\ LET s == Scroll(Matching, page.cursor, Min({Batch, Wanted - Len(page.text)}))
         text == page.text \o s.batch
     IN page' = [page EXCEPT !.text = text, !.cursor = s.next,
                             !.todo = IF s.batch = <<>> \/ Len(text) >= Wanted THEN Came("text") ELSE @]
  /\ Steady

Answer(hits) ==
  /\ pages' = Append(pages, [from |-> page.from, total |-> page.total, hits |-> hits])
  /\ page' = [page EXCEPT !.pc = "answered"]
  /\ UNCHANGED <<points, req, calm, changes>>

\* Everything has come. A miss of the idno is searched again as words; hybrid fuses the
\* lists and retrieves the page, or, to collapse it, all of them.
Finish ==
  /\ page.pc = "asked" /\ page.todo = {}
  /\ IF page.fast /\ page.total = 0
     THEN page' = Asked(page.from, FALSE) /\ UNCHANGED <<points, req, pages, calm, changes>>
     ELSE IF page.fast \/ (req.mode = "keyword" /\ req.sparse) THEN Answer(page.text)
     ELSE IF req.mode = "keyword" THEN Answer(PageOf(page.text))
     ELSE IF req.mode = "vector" THEN Answer(page.near)
     ELSE LET merged == RRF(page.near, page.text, PrefetchK) IN
          Answer(IF req.collapse THEN Cut(Leaders(There(merged)), page.from, req.size)
                 ELSE There(Cut(merged, page.from, req.size)))

Fail ==
  /\ page.pc = "asked"
  /\ page' = [page EXCEPT !.pc = "error", !.todo = {}]
  /\ Steady

\* A chunk is written or deleted.
Change ==
  /\ changes < MaxChanges /\ page.pc \in {"asked", "answered"}
  /\ \E p \in Points : points' = IF p \in points THEN points \ {p} ELSE points \cup {p}
  /\ calm' = FALSE /\ changes' = changes + 1
  /\ UNCHANGED <<req, page, pages>>

Next ==
  \/ AskPage \/ FastCount \/ FastScroll \/ Count \/ CountNeighbours \/ Near \/ Sparse
  \/ ScrollText \/ Finish \/ Fail \/ Change

Spec == Init /\ [][Next]_qvars

-----------------------------------------------------------------------------
(* Properties. *)

TypeOK ==
  /\ points \subseteq Points /\ req \in Requests
  /\ page.pc \in {"idle", "asked", "answered", "error"} /\ page.todo \subseteq {"total", "near", "text"}
  /\ page.total \in 0..Cardinality(Points) /\ page.cursor \in Points \cup {None}
  /\ Range(page.near) \cup Range(page.text) \subseteq Points

\* A page is never longer than asked for, and the count of neighbours never passes its
\* cap and, while no chunk comes or goes, is the number there are.
TotalsHold ==
  \A i \in DOMAIN pages :
    /\ Len(pages[i].hits) <= req.size
    /\ req.threshold =>
         /\ pages[i].total <= CountCap
         /\ calm => pages[i].total = Min({CountCap, Len(Neighbours)})

Joined == FlattenSeq([i \in DOMAIN pages |-> pages[i].hits])

\* Whether the lists a page was made of are those of the pages before: no chunk has come
\* or gone, a scroll never ran past the last match, and hybrid stayed in its prefetch.
SameLists ==
  /\ calm
  /\ ByScroll /\ ~page.fast => Cardinality(points \cap Matching) >= Wanted
  /\ req.mode = "hybrid" => Need <= Prefetch

\* Then the pages join up: no chunk, and no group, twice; and the pages of a search
\* that has reached its end hold them all.
PagesJoinUp ==
  page.pc = "answered" /\ SameLists =>
    /\ IsInjective(IF req.collapse /\ ~page.fast THEN [i \in DOMAIN Joined |-> Idno[Joined[i]]] ELSE Joined)
    /\ Len(Last(pages).hits) < req.size /\ req.mode = "vector" =>
         IF req.collapse THEN {Idno[p] : p \in Range(Joined)} = {Idno[p] : p \in Range(Neighbours)}
         ELSE Range(Joined) = Range(Neighbours)
=============================================================================
