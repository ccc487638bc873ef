------------------------------ MODULE Analytics ------------------------------
(***************************************************************************)
(* The analytical functions of mcp_server/analytics.py: pure functions of   *)
(* a sequence of observation rows, in the order in which NADA sent them.    *)
(* Each begins by taking the rows of the dimension value it was asked for;  *)
(* f stands for these rows. Statistics that are fractions are kept as exact *)
(* ones, over a common denominator that each definition names; rounding,    *)
(* labels and the echo of the request are left out.                         *)
(***************************************************************************)
EXTENDS Lists, SequencesExt, FiniteSetsExt

CONSTANTS
  None,      \* a column without a value
  Every      \* no filter on the dimension

-----------------------------------------------------------------------------
(* Helpers shared by the functions. *)

\* The rows of the requested dimension value.
Filtered(rows, dim) == Where(rows, LAMBDA r : dim = Every \/ r.dim = dim)

\* Those of some geographies, and those of a period.
OfGeos(rows, geos) == Where(rows, LAMBDA r : r.geo \in geos)
At(rows, period) == Where(rows, LAMBDA r : r.time = period)

\* The rows that name a geography and carry a number.
Valued(rows) == Where(rows, LAMBDA r : r.geo # None /\ r.val # None)

Cell(r) == <<r.geo, r.time>>
Dated(rows) == Where(Valued(rows), LAMBDA r : r.time # None)

\* Of the rows with one key, the first ("if key not in idx: idx[key] = val").
Firsts(rows, Key(_)) ==
  AtPlaces(rows, {i \in DOMAIN rows : \A j \in DOMAIN rows : j < i => Key(rows[j]) # Key(rows[i])})

\* The value of each key, of the last row that has it ("index[key] = val").
Lasts(rows, Key(_)) ==
  [k \in {Key(r) : r \in ToSet(rows)} |->
     LET own == Where(rows, LAMBDA r : Key(r) = k) IN own[Len(own)].val]

ValueOf(f, k) == IF k \in DOMAIN f THEN f[k] ELSE None

Vals(rows) == [i \in DOMAIN rows |-> rows[i].val]

\* Python's sort: stable, ties stay in the order of the input.
Sorted(s, Less(_, _)) ==
  LET before == {p \in (DOMAIN s) \X (DOMAIN s) :
                   \/ Less(s[p[1]], s[p[2]])
                   \/ ~Less(s[p[2]], s[p[1]]) /\ p[1] < p[2]}
      o == InOrder(DOMAIN s, before)
  IN  [k \in DOMAIN s |-> s[o[k]]]

\* s[:n] with Python's meaning of a negative n.
Sliced(s, n) == SubSeq(s, 1, IF n < 0 THEN Len(s) + n ELSE Min({n, Len(s)}))

Abs(x) == IF x < 0 THEN -x ELSE x
Squares(s) == [i \in DOMAIN s |-> s[i] * s[i]]
Products(s, t) == [i \in DOMAIN s |-> s[i] * t[i]]

\* Len(s) times the sum of the products of the deviations from the means.
Spread(s, t) == Len(s) * SumFunction(Products(s, t)) - SumFunction(s) * SumFunction(t)

\* Twice the median.
Median2(s) ==
  LET o == Sorted(s, <)  n == Len(s)
  IN  o[(n + 1) \div 2] + o[(n \div 2) + 1]

-----------------------------------------------------------------------------
(* One period. *)

\* Mutant: the first n rows, in order, for the n first rows of the order.
RankOfFirst(f, period, n, ascending) ==
  LET v == Firsts(Valued(At(f, period)), LAMBDA r : r.geo)
  IN  [rows |-> Sorted(Sliced(v, n), LAMBDA r, q : IF ascending THEN r.val < q.val ELSE r.val > q.val),
       total |-> Len(v)]

Rank(f, period, n, ascending) ==
  LET v == Firsts(Valued(At(f, period)), LAMBDA r : r.geo)
      o == Sorted(v, LAMBDA r, q : IF ascending THEN r.val < q.val ELSE r.val > q.val)
  IN  [rows |-> Sliced(o, n), total |-> Len(v)]

Summarize(f, period) ==
  LET v == Valued(At(f, period))
      vals == Vals(v)
      ends(best(_, _)) == v[Min({i \in DOMAIN v : \A j \in DOMAIN v : best(vals[i], vals[j])})]
  IN  IF v = <<>> THEN [count |-> 0]
      ELSE [count |-> Len(v), sum |-> SumFunction(vals), median2 |-> Median2(vals),
            spread |-> Spread(vals, vals),
            max |-> ends(>=).val, max_ref |-> ends(>=).geo,
            min |-> ends(<=).val, min_ref |-> ends(<=).geo]

\* Peers below a value count twice and equal ones once: the percentile rank is
\* that, out of twice the number of peers. Deviations are times that number.
PercentileRank(val, vals) ==
  2 * Cardinality({i \in DOMAIN vals : vals[i] < val}) + Cardinality({i \in DOMAIN vals : vals[i] = val})

Benchmark(f, refs, period) ==
  LET peers == Firsts(Valued(At(f, period)), LAMBDA r : r.geo)
      vals == Vals(peers)
      row(ref) == LET i == CHOOSE j \in DOMAIN peers : peers[j].geo = ref
                  IN  [value |-> vals[i], percentile |-> PercentileRank(vals[i], vals),
                       vs_mean |-> Len(vals) * vals[i] - SumFunction(vals),
                       vs_median2 |-> 2 * vals[i] - Median2(vals)]
  IN  IF peers = <<>> THEN [peer_count |-> 0, rows |-> <<>>]
      ELSE [peer_count |-> Len(peers),
            rows |-> [ref \in refs |-> IF ref \in {p.geo : p \in ToSet(peers)}
                                       THEN row(ref) ELSE None]]

\* The last value of each geography, of the two indicators; r's numerator and the
\* two factors under its root, or None where it is undefined.
PeriodValues(f, period) ==
  Lasts(Valued(At(f, period)), LAMBDA r : r.geo)

PearsonR(xs, ys) ==
  IF Len(xs) < 2 \/ Spread(xs, xs) * Spread(ys, ys) = 0 THEN None
  ELSE <<Spread(xs, ys), Spread(xs, xs), Spread(ys, ys)>>

Correlate(f1, f2, period) ==
  LET v1 == PeriodValues(f1, period)
      v2 == PeriodValues(f2, period)
      common == SetToSeq(DOMAIN v1 \cap DOMAIN v2)
  IN  [rows |-> [g \in ToSet(common) |-> <<v1[g], v2[g]>>], n |-> Len(common),
       pearson_r |-> PearsonR([i \in DOMAIN common |-> v1[common[i]]],
                              [i \in DOMAIN common |-> v2[common[i]]])]

-----------------------------------------------------------------------------
(* All periods. *)

GetExtremes(f) ==
  LET v == Dated(f)
      first(best(_, _)) ==
        v[Min({i \in DOMAIN v : \A j \in DOMAIN v : best(v[i].val, v[j].val)})]
  IN  IF v = <<>> THEN [maximum |-> None, minimum |-> None, total |-> 0]
      ELSE [maximum |-> first(>=), minimum |-> first(<=), total |-> Len(v)]

\* The first row of a cell decides, even one without a number.
Pivot(relevant, refs) ==
  LET pivot == Lasts(Firsts(relevant, Cell), Cell)
  IN  [p \in {r.time : r \in ToSet(relevant)} |-> [ref \in refs |-> ValueOf(pivot, <<ref, p>>)]]

Compare(f, refs) == Pivot(OfGeos(f, refs), refs)

\* The last number of each cell.
CellLasts(f) == Lasts(Dated(f), Cell)

\* pct is the change in percent, as a fraction; None when the base is 0.
Change(b, e) ==
  LET change == IF b = None \/ e = None THEN None ELSE e - b
  IN  [base_value |-> b, end_value |-> e, change |-> change,
       pct |-> IF change = None \/ b = 0 THEN None ELSE <<100 * change, Abs(b)>>]

Growth(f, refs, base, end) ==
  LET index == CellLasts(f)
      found == {k[1] : k \in {c \in DOMAIN index : c[2] \in {base, end}}}
  IN  [ref \in IF refs = {} THEN found ELSE found \cap refs |->
        Change(ValueOf(index, <<ref, base>>), ValueOf(index, <<ref, end>>))]

\* slope is the fraction <<n * Sxy, n * Sxx>> of a least-squares line.
LinearRegression(xs, ys) ==
  IF Len(xs) < 2 \/ Spread(xs, xs) = 0 THEN <<0, 1>> ELSE <<Spread(xs, ys), Spread(xs, xs)>>

\* The line through a series in the order of its periods, which are numbers already
\* (_period_to_numeric).
Fitted(series) ==
  LET o == Sorted(series, LAMBDA r, q : r.time < q.time)
      slope == LinearRegression([i \in DOMAIN o |-> o[i].time], Vals(o))
  IN  [slope |-> slope, n_periods |-> Len(o),
       first_period |-> o[1].time, last_period |-> o[Len(o)].time,
       direction |-> IF slope[1] = 0 THEN "stable"
                     ELSE IF slope[1] > 0 THEN "improving" ELSE "declining"]

\* The geographies of two or more points; the source's order, by steepness, is layout.
Trend(f, refs) ==
  LET v == Dated(f)
      series(g) == OfGeos(v, {g})
  IN  [g \in {h \in {r.geo : r \in ToSet(v)} : /\ refs = {} \/ h \in refs
                                               /\ Len(series(h)) >= 2} |-> Fitted(series(g))]

Coverage(f) ==
  LET v == ToSet(Dated(f))
      periods(g) == {r.time : r \in {q \in v : q.geo = g}}
  IN  [total_periods |-> Cardinality({r.time : r \in v}),
       rows |-> [g \in {r.geo : r \in v} |->
                  [n_periods |-> Cardinality(periods(g)),
                   first_period |-> Min(periods(g)), last_period |-> Max(periods(g))]]]

\* One row for each cell of either indicator, of each the first value.
CellIndex(f) == Lasts(Firsts(Dated(f), Cell), Cell)
JoinIndicators(f1, f2) ==
  LET idx1 == CellIndex(f1)
      idx2 == CellIndex(f2)
  IN  [rows |-> [k \in DOMAIN idx1 \cup DOMAIN idx2 |-> <<ValueOf(idx1, k), ValueOf(idx2, k)>>],
       n_matched |-> Cardinality(DOMAIN idx1 \cap DOMAIN idx2)]

\* A row without a geography counts here when no group is asked for.
PerPeriod(v) ==
  LET of(p) == Vals(At(v, p))
  IN  [p \in {r.time : r \in ToSet(v)} |->
        [n_ref_areas |-> Len(of(p)), sum |-> SumFunction(of(p)),
         median2 |-> Median2(of(p)), spread |-> Spread(of(p), of(p)),
         min |-> Min(ToSet(of(p))), max |-> Max(ToSet(of(p)))]]

Aggregate(f, refs) ==
  LET g == IF refs = {} THEN f ELSE OfGeos(f, refs)
  IN  [rows |-> PerPeriod(Where(g, LAMBDA r : r.time # None /\ r.val # None)),
       ref_areas |-> IF refs # {} THEN refs ELSE {r.geo : r \in ToSet(g)} \ {None}]

-----------------------------------------------------------------------------
(* Outliers. A threshold is given twice its size: 7 stands for the default of  *)
(* 3.5. The residuals of a LOWESS fit (trend_residual along one geography)     *)
(* come from a numerical library and are not modelled; across geographies the  *)
(* method is the modified z-score.                                             *)

\* Twice the distances from the median.
Distances(vals) == [i \in DOMAIN vals |-> Abs(2 * vals[i] - Median2(vals))]

\* Mutant: Without the fallback: where most values are equal, all is flagged.
FlaggedByMadOnly(vals, threshold2) ==
  LET d == Distances(vals)
  IN  {i \in DOMAIN vals : 2698 * d[i] >= 1000 * threshold2 * Median2(d)}

\* |0.6745 * (x - median) / MAD| >= threshold; where MAD is 0 the standard
\* deviation takes its place, and where that is 0 too the score is 0.
FlaggedByModifiedZ(vals, threshold2) ==
  LET d == Distances(vals)
      mad4 == Median2(d)
      n == Len(vals)
      score_reached(i) ==
        IF mad4 > 0 THEN 2698 * d[i] >= 1000 * threshold2 * mad4
        ELSE IF Spread(vals, vals) > 0
             THEN threshold2 <= 0 \/ d[i] * d[i] * n * n >= threshold2 * threshold2 * Spread(vals, vals)
             ELSE threshold2 <= 0
  IN  {i \in DOMAIN vals : score_reached(i)}

\* Four times the p-th quartile of the ordered values (linear interpolation).
Quartile4(o, p) ==
  LET at == (Len(o) - 1) * p  f == at \div 4
  IN  (4 - (at % 4)) * o[f + 1] + (at % 4) * o[Min({f + 2, Len(o)})]

\* Tukey's fences, times 8; flagged is what lies beyond by more than threshold IQRs. Where
\* the quartiles are one, every score is 0.
FlaggedByIqr(vals, threshold2) ==
  LET o == Sorted(vals, <)
      iqr4 == Quartile4(o, 3) - Quartile4(o, 1)
      lo8 == 2 * Quartile4(o, 1) - 3 * iqr4
      hi8 == 2 * Quartile4(o, 3) + 3 * iqr4
      beyond8(i) == Max({8 * vals[i] - hi8, lo8 - 8 * vals[i], 0})
  IN  {i \in DOMAIN vals : IF iqr4 > 0 THEN beyond8(i) > threshold2 * iqr4 ELSE threshold2 < 0}

Flagged(vals, method, threshold2) ==
  IF method = "iqr" THEN FlaggedByIqr(vals, threshold2) ELSE FlaggedByModifiedZ(vals, threshold2)

DefaultThreshold2(method) == IF method = "iqr" THEN 0 ELSE 7

\* The caller's threshold, or the method's.
Threshold2(method, threshold2) ==
  IF threshold2 = None THEN DefaultThreshold2(method) ELSE threshold2

\* Across the geographies of a period, or along the periods of a geography.
DetectOutliers(f, period, ref, method, threshold2) ==
  LET v == IF period # None
           THEN Firsts(Valued(At(f, period)), LAMBDA r : r.geo)
           ELSE Firsts(Dated(OfGeos(f, {ref})), LAMBDA r : r.time)
      out == Flagged(Vals(v), method, Threshold2(method, threshold2))
  IN  [rows |-> {[geo |-> v[i].geo, time |-> v[i].time, value |-> v[i].val,
                  is_outlier |-> i \in out] : i \in DOMAIN v},
       n_outliers |-> Cardinality(out)]
=============================================================================
