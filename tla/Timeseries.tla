----------------------------- MODULE Timeseries -----------------------------
(***************************************************************************)
(* The analytical tools of the MCP server (mcp_server/tools.py) and how     *)
(* they get their rows: the schema, then every page of the observations     *)
(* (nada/api.py), then a function of Analytics. NADA's data API is external:*)
(* it pages through the rows it holds, may cap a page, may leave out the    *)
(* total, may ignore a filter on a dimension, and may fail any request.     *)
(* Its rows do not change during a call. A call on two indicators is made   *)
(* on one indicator under two dimension filters; its two fetches, which the *)
(* code runs side by side and which share nothing, run one after the other. *)
(***************************************************************************)
EXTENDS Analytics

CONSTANTS
  Tables,      \* the observations NADA may hold, each a sequence of rows
  Dims,        \* values of the dimension a caller may ask for, Every among them
  RefSets,     \* groups of geographies a caller may ask for
  Period, Base,\* the period asked for, and the base period of a growth
  Servers,     \* how NADA pages: [cap, totals, filters]
  Thresholds,  \* twice the thresholds a caller may set for outliers, or None
  MaxRows, PageSize, MaxPages,  \* the limits of get_all_timeseries_data
  MaxEntries   \* the rows a code list is sampled from: max_entries

ASSUME LimitsAssumption ==
  /\ MaxRows \in Nat \ {0} /\ PageSize \in Nat \ {0} /\ MaxPages \in Nat \ {0}
  /\ MaxEntries \in Nat \ {0}

ASSUME ThresholdsAssumption == Thresholds \subseteq Int \cup {None}

\* A page has at least one row, if there is one to come.
ASSUME ServersAssumption == Servers \subseteq [cap : Nat \ {0}, totals : BOOLEAN, filters : BOOLEAN]

\* What NADA has for a request, of the rows it holds: those of the geographies, and
\* those under the dimension if it filters on it.
Selected(rows, filters, codes, dim) ==
  Where(rows, LAMBDA r : /\ codes = {} \/ r.geo \in codes
                         /\ ~filters \/ dim = Every \/ r.dim = dim)

Rows == UNION {ToSet(t) : t \in Tables}
Codes == RefSets \cup {{}}

\* A table is a sequence of rows.
ASSUME TablesAssumption == \A t \in Tables : t \in Seq(Rows)
ASSUME DimsAssumption == Every \in Dims

\* A value is a number or None (_parse_obs); periods and geographies asked for are given.
ASSUME ValuesAssumption ==
  /\ \A r \in Rows : r.val \in Int \cup {None}
  /\ None \notin Int /\ Period # None /\ Base # None /\ None \notin UNION RefSets

VARIABLES
  table, server,  \* what NADA holds, and how it answers
  pc,             \* "idle", "schema", "page", "reply", "done", "failed"
  call,           \* the tool, its arguments, and the fetches it makes
  got,            \* the rows of the fetches that are over
  page,           \* the fetch under way: rows, total, more, pages, failed
  broken,         \* history: a later page failed and the fetch ended with what it had
  answer          \* what the tool returned; None before that

vars == <<table, server, pc, call, got, page, broken, answer>>

NoPage == [rows |-> <<>>, total |-> 0, more |-> FALSE, pages |-> 0]

Init ==
  /\ table \in Tables
  /\ server \in Servers
  /\ pc = "idle"
  /\ call = None
  /\ got = <<>>
  /\ page = NoPage
  /\ broken = FALSE
  /\ answer = None

-----------------------------------------------------------------------------
(* A tool is called: what it asks the server for. codes is the geography       *)
(* filter it passes on, {} for none; dims one filter for each fetch.           *)

Call(tool, codes, dims, args) ==
  /\ pc = "idle"
  /\ pc' = "schema"
  /\ call' = [tool |-> tool, codes |-> codes, dims |-> dims, args |-> args]
  /\ UNCHANGED <<table, server, got, page, broken, answer>>

CallRank == \E d \in Dims, n \in {-1, 1, 2}, a \in BOOLEAN :
  Call("rank", {}, <<d>>, [n |-> n, ascending |-> a])

CallExtremes == \E d \in Dims : Call("extremes", {}, <<d>>, None)

CallCompare == \E d \in Dims, refs \in RefSets : Call("compare", refs, <<d>>, refs)

CallSummarize == \E d \in Dims : Call("summarize", {}, <<d>>, None)

CallGrowth == \E d \in Dims, refs \in RefSets \cup {{}} : Call("growth", refs, <<d>>, refs)

CallCorrelate == \E d1, d2 \in Dims : Call("correlate", {}, <<d1, d2>>, None)

CallOutliers == \E d \in Dims, m \in {"modified_zscore", "iqr"}, t \in Thresholds :
  \/ Call("outliers", {}, <<d>>, [method |-> m, period |-> Period, ref |-> None, threshold2 |-> t])
  \/ \E ref \in UNION RefSets :
       Call("outliers", {}, <<d>>, [method |-> m, period |-> None, ref |-> ref, threshold2 |-> t])

CallTrend == \E d \in Dims, refs \in RefSets \cup {{}} : Call("trend", refs, <<d>>, refs)

\* Mutant: Fetches the geographies it is asked about and not their peers.
CallBenchmarkRefs == \E d \in Dims, refs \in RefSets : Call("benchmark", refs, <<d>>, refs)

\* The peers are needed: no geography filter.
CallBenchmark == \E d \in Dims, refs \in RefSets : Call("benchmark", {}, <<d>>, refs)

CallCoverage == \E d \in Dims : Call("coverage", {}, <<d>>, None)

CallJoin == \E d1, d2 \in Dims, refs \in RefSets \cup {{}} : Call("join", refs, <<d1, d2>>, refs)

CallAggregate == \E d \in Dims, refs \in RefSets \cup {{}} : Call("aggregate", refs, <<d>>, refs)

CallCodelist == Call("codelist", {}, <<Every>>, None)

-----------------------------------------------------------------------------
(* Fetching. *)

Dim == call.dims[Len(got) + 1]

\* What NADA has for the request, all pages of it.
Matching(codes, dim) == Selected(table, server.filters, codes, dim)

\* Mutant: a page that is not full is taken for the last one.
ResponseShortIsLast(codes, dim, offset, limit) ==
  LET all == Matching(codes, dim)
      rows == SubSeq(all, offset + 1, Min({Len(all), offset + Min({limit, server.cap})}))
  IN  [rows |-> rows, total |-> IF server.totals THEN Len(all) ELSE 0, more |-> Len(rows) = limit]

\* One request (get_timeseries_data): its rows, the total NADA gives or 0, and
\* whether there are more, as the client concludes from them.
Response(codes, dim, offset, limit) ==
  LET all == Matching(codes, dim)
      rows == SubSeq(all, offset + 1, Min({Len(all), offset + Min({limit, server.cap})}))
      total == IF server.totals THEN Len(all) ELSE 0
  IN  [rows |-> rows, total |-> total,
       more |-> IF total > 0 THEN offset + Len(rows) < total
                ELSE Len(rows) = limit /\ rows # <<>>]

SchemaArrives ==
  /\ pc = "schema"
  /\ pc' = "page"
  /\ UNCHANGED <<table, server, call, got, page, broken, answer>>

\* The schema or the first page: the tool returns the error.
RequestFails ==
  /\ pc = "schema" \/ (pc = "page" /\ page.pages = 0)
  /\ pc' = "failed"
  /\ UNCHANGED <<table, server, call, got, page, broken, answer>>

\* get_codelist samples: the codes on the one page it asks for, complete when the
\* total is within that page's limit (0 is, where NADA leaves the total out).
CodelistArrives ==
  /\ pc = "page" /\ call.tool = "codelist"
  /\ LET r == Response(call.codes, Every, 0, MaxEntries)
     IN  answer' = [entries |-> {row.geo : row \in ToSet(r.rows)} \ {None},
                    is_complete |-> r.total <= MaxEntries]
  /\ pc' = "done"
  /\ UNCHANGED <<table, server, call, got, page, broken>>

Fetching == pc = "page" /\ call.tool # "codelist"

\* "while len(all_rows) < min(total or max_rows, max_rows) and more and ..."
WantsMore ==
  \/ page.pages = 0
  \/ /\ Len(page.rows) < (IF page.total = 0 THEN MaxRows ELSE Min({page.total, MaxRows}))
     /\ page.more
     /\ page.pages < MaxPages

\* Mutant: The offset moves by the size asked for, not by what came.
PageArrivesBySize ==
  /\ Fetching /\ WantsMore
  /\ LET r == Response(call.codes, Dim, page.pages * PageSize, Min({PageSize, MaxRows - Len(page.rows)}))
     IN  page' = [rows |-> page.rows \o r.rows, total |-> r.total, more |-> r.more, pages |-> page.pages + 1]
  /\ UNCHANGED <<table, server, pc, call, got, broken, answer>>

\* A page without rows after the first ends the loop.
PageArrives ==
  /\ Fetching /\ WantsMore
  /\ LET r == Response(call.codes, Dim, Len(page.rows), Min({PageSize, MaxRows - Len(page.rows)}))
     IN  IF page.pages > 0 /\ r.rows = <<>>
         THEN page' = [page EXCEPT !.more = FALSE]
         ELSE page' = [rows |-> page.rows \o r.rows, total |-> r.total, more |-> r.more,
                       pages |-> page.pages + 1]
  /\ UNCHANGED <<table, server, pc, call, got, broken, answer>>

NextFetch ==
  /\ got' = Append(got, page.rows)
  /\ page' = NoPage
  /\ pc' = IF Len(got') = Len(call.dims) THEN "reply" ELSE "page"
  /\ UNCHANGED <<table, server, call, answer>>

\* A later page fails: the loop ends with the rows it has, and says nothing of it.
LaterPageFails ==
  /\ Fetching /\ page.pages > 0 /\ WantsMore
  /\ broken' = TRUE
  /\ NextFetch

FetchEnds ==
  /\ Fetching /\ ~WantsMore
  /\ UNCHANGED broken
  /\ NextFetch

-----------------------------------------------------------------------------
(* The answer: the function of Analytics over the rows. *)

Analysis(rows1, rows2) ==
  LET t == call.tool  a == call.args
      f == Filtered(rows1, call.dims[1])
      f2 == Filtered(rows2, call.dims[2])
  IN  CASE t = "rank" -> Rank(f, Period, a.n, a.ascending)
        [] t = "extremes" -> GetExtremes(f)
        [] t = "compare" -> Compare(f, a)
        [] t = "summarize" -> Summarize(f, Period)
        [] t = "growth" -> Growth(f, a, Base, Period)
        [] t = "correlate" -> Correlate(f, f2, Period)
        [] t = "outliers" -> DetectOutliers(f, a.period, a.ref, a.method, a.threshold2)
        [] t = "trend" -> Trend(f, a)
        [] t = "benchmark" -> Benchmark(f, a, Period)
        [] t = "coverage" -> Coverage(f)
        [] t = "join" -> JoinIndicators(f, f2)
        [] t = "aggregate" -> Aggregate(f, a)

Reply ==
  /\ pc = "reply"
  /\ pc' = "done"
  /\ answer' = Analysis(got[1], got[Len(got)])
  /\ UNCHANGED <<table, server, call, got, page, broken>>

Next ==
  \/ CallRank \/ CallExtremes \/ CallCompare \/ CallSummarize \/ CallGrowth
  \/ CallCorrelate \/ CallOutliers \/ CallTrend \/ CallBenchmark \/ CallCoverage
  \/ CallJoin \/ CallAggregate \/ CallCodelist
  \/ SchemaArrives \/ RequestFails \/ CodelistArrives
  \/ PageArrives \/ LaterPageFails \/ FetchEnds \/ Reply

Spec == Init /\ [][Next]_vars

-----------------------------------------------------------------------------
(* Properties. *)

Answered == pc = "done"
All(i) == Matching(call.codes, call.dims[i])
Complete == \A i \in DOMAIN got : got[i] = All(i)

\* Paging (get_all_timeseries_data) neither repeats nor skips a row, however small
\* the pages NADA makes of it and whether or not it gives the total.
PagesJoinUp ==
  /\ pc = "page" => IsPrefix(page.rows, All(Len(got) + 1))
  /\ \A i \in DOMAIN got : IsPrefix(got[i], All(i))

\* Where NADA gives the total and answers every page, a fetch that stays within
\* MaxRows and MaxPages is complete, and a code list that says it is complete has
\* every code unless NADA made its page shorter.
CompleteWithTotals ==
  LET perPage == Min({PageSize, server.cap})
  IN  Answered /\ server.totals /\ ~broken =>
        /\ \A i \in DOMAIN got :
             Len(All(i)) <= Min({MaxRows, MaxPages * perPage}) => got[i] = All(i)
        /\ call.tool = "codelist" /\ answer.is_complete /\ server.cap >= MaxEntries =>
             answer.entries = {r.geo : r \in ToSet(table)} \ {None}

\* What a tool leaves to NADA changes nothing but the traffic: from a complete fetch
\* it answers what it would from all the rows NADA holds. A join has no filter of
\* its own for geographies, so there the rows are those of the geographies.
PushdownSound ==
  LET whole == IF call.tool # "join" \/ call.codes = {} THEN table
               ELSE OfGeos(table, call.codes)
  IN  Answered /\ Complete /\ call.tool # "codelist" => answer = Analysis(whole, whole)

\* For a table with one row per geography and period once it is filtered, the
\* answers are those of a function from cells to numbers: none of the tools'
\* different ways with duplicates (first, last, all) matters, nor the rows' order.
Asked(dim) == Filtered(table, dim)
OneRowPerCell(dim) ==
  \A i, j \in DOMAIN Asked(dim) : Cell(Asked(dim)[i]) = Cell(Asked(dim)[j]) => i = j
Value(dim, geo, time) == ValueOf(CellLasts(Asked(dim)), <<geo, time>>)
Known(dim, time) == {k[1] : k \in {c \in DOMAIN CellLasts(Asked(dim)) : c[2] = time}}

CellsDecide ==
  LET d == call.dims[1]  t == call.tool  a == call.args
      v(g, p) == Value(d, g, p)
      known == Known(d, Period)
  IN  Answered /\ Complete /\ (\A i \in DOMAIN call.dims : OneRowPerCell(call.dims[i])) =>
        /\ t = "rank" =>
             /\ answer.total = Cardinality(known)
             /\ \A i \in DOMAIN answer.rows :
                  /\ answer.rows[i].val = v(answer.rows[i].geo, Period)
                  /\ Cardinality({g \in known : IF a.ascending THEN v(g, Period) < answer.rows[i].val
                                               ELSE v(g, Period) > answer.rows[i].val}) < i
        /\ t = "benchmark" => \A g \in DOMAIN answer.rows :
             IF g \in known
             THEN answer.rows[g].percentile =
                    Cardinality({h \in known : v(h, Period) < v(g, Period)})
                    + Cardinality({h \in known : v(h, Period) <= v(g, Period)})
             ELSE answer.rows = <<>> \/ answer.rows[g] = None
        /\ t = "compare" => \A p \in DOMAIN answer \ {None}, g \in a : answer[p][g] = v(g, p)
        /\ t = "growth" => \A g \in DOMAIN answer :
             answer[g].base_value = v(g, Base) /\ answer[g].end_value = v(g, Period)
        /\ t = "correlate" => \A g \in DOMAIN answer.rows :
             answer.rows[g] = <<v(g, Period), Value(call.dims[2], g, Period)>>
        /\ t = "join" => \A k \in DOMAIN answer.rows :
             answer.rows[k] = <<v(k[1], k[2]), Value(call.dims[2], k[1], k[2])>>
        /\ t = "coverage" => \A g \in DOMAIN answer.rows :
             answer.rows[g].n_periods =
               Cardinality({p \in {r.time : r \in ToSet(table)} : g \in Known(d, p)})
        /\ (/\ t = "aggregate" /\ Period \in DOMAIN answer.rows
            /\ \A r \in ToSet(table) : r.geo # None) =>
             answer.rows[Period].n_ref_areas =
               Cardinality({g \in answer.ref_areas : g \in known})

\* An outlier is what lies far out: from it outwards, to one side, all are outliers; and
\* from the method's own threshold on there is a value that is none.
OutliersAreOutside ==
  LET a == call.args
      strict == Threshold2(a.method, a.threshold2) >= DefaultThreshold2(a.method)
  IN  Answered /\ call.tool = "outliers" =>
        \A r \in {x \in answer.rows : x.is_outlier} :
          /\ \/ \A q \in answer.rows : q.value >= r.value => q.is_outlier
             \/ \A q \in answer.rows : q.value <= r.value => q.is_outlier
          /\ strict => \E q \in answer.rows : ~q.is_outlier
=============================================================================
