-------------------------- MODULE TimeseriesProofs --------------------------
(***************************************************************************)
(* Paging, proved for any table, any limits and any way NADA cuts its      *)
(* pages: the rows a fetch has are always the first of those there are,    *)
(* and where NADA gives the total it has them all within the limits. Then  *)
(* the tools: what each answers from those rows depends on them alone, and *)
(* is computed from the one value of each geography and period.            *)
(***************************************************************************)
EXTENDS Timeseries, ListsProofs

-----------------------------------------------------------------------------
(* The choices the functions make. *)

InDim(S, d) == {r \in S : d = Every \/ r.dim = d}
InGeos(S, geos) == {r \in S : r.geo \in geos}
InTime(S, p) == {r \in S : r.time = p}
WithValue(S) == {r \in S : r.geo # None /\ r.val # None}
WithDate(S) == {r \in S : r.geo # None /\ r.val # None /\ r.time # None}
InCell(S, k) == {r \in S : Cell(r) = k}

LEMMA FilteredIs ==
  ASSUME NEW S, NEW s \in Seq(S), NEW d
  PROVE  Filtered(s, d) = Among(s, InDim(S, d))
<1>1. \A i \in DOMAIN s : s[i] \in S  OBVIOUS
<1>2. {i \in DOMAIN s : d = Every \/ s[i].dim = d} = {i \in DOMAIN s : s[i] \in InDim(S, d)}
  BY <1>1 DEF InDim
<1> QED  BY <1>2 DEF Filtered, Where, Among

LEMMA OfGeosIs ==
  ASSUME NEW S, NEW s \in Seq(S), NEW geos
  PROVE  OfGeos(s, geos) = Among(s, InGeos(S, geos))
<1>1. \A i \in DOMAIN s : s[i] \in S  OBVIOUS
<1>2. {i \in DOMAIN s : s[i].geo \in geos} = {i \in DOMAIN s : s[i] \in InGeos(S, geos)}
  BY <1>1 DEF InGeos
<1> QED  BY <1>2 DEF OfGeos, Where, Among

LEMMA AtIs ==
  ASSUME NEW S, NEW s \in Seq(S), NEW p
  PROVE  At(s, p) = Among(s, InTime(S, p))
<1>1. \A i \in DOMAIN s : s[i] \in S  OBVIOUS
<1>2. {i \in DOMAIN s : s[i].time = p} = {i \in DOMAIN s : s[i] \in InTime(S, p)}
  BY <1>1 DEF InTime
<1> QED  BY <1>2 DEF At, Where, Among

LEMMA ValuedIs ==
  ASSUME NEW S, NEW s \in Seq(S)
  PROVE  Valued(s) = Among(s, WithValue(S))
<1>1. \A i \in DOMAIN s : s[i] \in S  OBVIOUS
<1>2. {i \in DOMAIN s : s[i].geo # None /\ s[i].val # None}
        = {i \in DOMAIN s : s[i] \in WithValue(S)}
  BY <1>1 DEF WithValue
<1> QED  BY <1>2 DEF Valued, Where, Among

LEMMA DatedIs ==
  ASSUME NEW S, NEW s \in Seq(S)
  PROVE  Dated(s) = Among(s, WithDate(S))
<1> DEFINE v == Among(s, WithValue(S))  T == {r \in S : r.time # None}
<1>1. v \in Seq(S)  BY AmongTyped
<1>2. \A i \in DOMAIN v : v[i] \in S  BY <1>1
<1>3. {i \in DOMAIN v : v[i].time # None} = {i \in DOMAIN v : v[i] \in T}
  <2> HIDE DEF v
  <2> QED  BY <1>2
<1>4. Dated(s) = Among(v, T)
  <2>1. Valued(s) = v  BY ValuedIs
  <2> HIDE DEF v, T
  <2> QED  BY <1>3, <2>1 DEF Dated, Where, Among
<1>5. WithValue(S) \cap T = WithDate(S)  BY DEF WithValue, WithDate
<1> QED  BY <1>4, <1>5, AmongTwice

LEMMA CellRowsIs ==
  ASSUME NEW S, NEW s \in Seq(S), NEW k
  PROVE  Where(s, LAMBDA r : Cell(r) = k) = Among(s, InCell(S, k))
<1>1. \A i \in DOMAIN s : s[i] \in S  OBVIOUS
<1>2. {i \in DOMAIN s : Cell(s[i]) = k} = {i \in DOMAIN s : s[i] \in InCell(S, k)}
  BY <1>1 DEF InCell
<1> QED  BY <1>2 DEF Where, Among

-----------------------------------------------------------------------------
(* A function that takes the rows of some geographies answers the same from these. *)

LEMMA CellLastsOfGeos ==
  ASSUME NEW S, NEW f \in Seq(S), NEW c
  PROVE  /\ DOMAIN CellLasts(OfGeos(f, c)) = {k \in DOMAIN CellLasts(f) : k[1] \in c}
         /\ \A k \in DOMAIN CellLasts(OfGeos(f, c)) : CellLasts(OfGeos(f, c))[k] = CellLasts(f)[k]
<1> DEFINE g == OfGeos(f, c)  v == Dated(f)  w == Dated(g)
           keys(s) == {Cell(r) : r \in ToSet(s)}
           own(s, k) == Where(s, LAMBDA r : Cell(r) = k)
<1>1. g = Among(f, InGeos(S, c)) /\ g \in Seq(S)  BY OfGeosIs, AmongTyped
<1>2. v = Among(f, WithDate(S)) /\ v \in Seq(S)  BY DatedIs, AmongTyped
<1>3. w = Among(f, InGeos(S, c) \cap WithDate(S)) /\ w \in Seq(S)
  <2> HIDE DEF g
  <2>1. w = Among(g, WithDate(S))  BY <1>1, DatedIs
  <2> QED  BY <1>1, <2>1, AmongTwice, AmongTyped
<1>4. /\ CellLasts(f) = [k \in keys(v) |-> own(v, k)[Len(own(v, k))].val]
      /\ CellLasts(g) = [k \in keys(w) |-> own(w, k)[Len(own(w, k))].val]
  BY DEF CellLasts, Lasts
<1>5. ToSet(v) = ToSet(f) \cap WithDate(S)  BY <1>2, AmongTyped
<1>6. ToSet(w) = ToSet(f) \cap (InGeos(S, c) \cap WithDate(S))  BY <1>3, AmongTyped
<1>7. keys(w) = {k \in keys(v) : k[1] \in c}
  <2>1. \A r \in WithDate(S) : r \in InGeos(S, c) <=> Cell(r)[1] \in c
    BY DEF WithDate, InGeos, Cell
  <2> QED  BY <1>5, <1>6, <2>1
<1>8. ASSUME NEW k \in keys(w)  PROVE own(w, k) = own(v, k)
  <2>1. own(w, k) = Among(w, InCell(S, k)) /\ own(v, k) = Among(v, InCell(S, k))
    BY <1>2, <1>3, CellRowsIs
  <2>2. /\ own(w, k) = Among(f, (InGeos(S, c) \cap WithDate(S)) \cap InCell(S, k))
        /\ own(v, k) = Among(f, WithDate(S) \cap InCell(S, k))
    BY <1>2, <1>3, <2>1, AmongTwice
  <2>3. k[1] \in c  BY <1>7, <1>8
  <2>4. (InGeos(S, c) \cap WithDate(S)) \cap InCell(S, k) = WithDate(S) \cap InCell(S, k)
    BY <2>3 DEF InCell, InGeos, Cell
  <2> QED  BY <2>2, <2>4
<1> HIDE DEF own, keys, v, w, g
<1>9. \A k \in keys(w) : CellLasts(g)[k] = CellLasts(f)[k]  BY <1>4, <1>7, <1>8
<1> QED  BY <1>4, <1>7, <1>9 DEF g

LEMMA GrowthOfGeos ==
  ASSUME NEW S, NEW f \in Seq(S), NEW c, c # {}, NEW base, NEW end
  PROVE  Growth(OfGeos(f, c), c, base, end) = Growth(f, c, base, end)
<1> DEFINE i == CellLasts(OfGeos(f, c))  j == CellLasts(f)
           found(x) == {k[1] : k \in {a \in DOMAIN x : a[2] \in {base, end}}}
<1>1. DOMAIN i = {k \in DOMAIN j : k[1] \in c} /\ \A k \in DOMAIN i : i[k] = j[k]
  BY CellLastsOfGeos
<1> HIDE DEF i, j
<1>2. found(i) \cap c = found(j) \cap c  BY <1>1
<1>3. \A ref \in c : \A p : ValueOf(i, <<ref, p>>) = ValueOf(j, <<ref, p>>)
  BY <1>1 DEF ValueOf
<1>4. [ref \in found(i) \cap c |-> Change(ValueOf(i, <<ref, base>>), ValueOf(i, <<ref, end>>))]
        = [ref \in found(j) \cap c |-> Change(ValueOf(j, <<ref, base>>), ValueOf(j, <<ref, end>>))]
  <2> HIDE DEF found
  <2> QED  BY <1>2, <1>3
<1> QED  BY <1>4 DEF Growth, i, j

LEMMA TrendOfGeos ==
  ASSUME NEW S, NEW f \in Seq(S), NEW c, c # {}
  PROVE  Trend(OfGeos(f, c), c) = Trend(f, c)
<1> DEFINE g == OfGeos(f, c)  v == Dated(f)  w == Dated(g)
           geos(s) == {h \in {r.geo : r \in ToSet(s)} : h \in c /\ Len(OfGeos(s, {h})) >= 2}
<1>1. g = Among(f, InGeos(S, c)) /\ g \in Seq(S)  BY OfGeosIs, AmongTyped
<1>2. v = Among(f, WithDate(S)) /\ v \in Seq(S)  BY DatedIs, AmongTyped
<1>3. w = Among(f, InGeos(S, c) \cap WithDate(S)) /\ w \in Seq(S)
  <2> HIDE DEF g
  <2>1. w = Among(g, WithDate(S))  BY <1>1, DatedIs
  <2> QED  BY <1>1, <2>1, AmongTwice, AmongTyped
<1>4. /\ Trend(f, c) = [h \in geos(v) |-> Fitted(OfGeos(v, {h}))]
      /\ Trend(g, c) = [h \in geos(w) |-> Fitted(OfGeos(w, {h}))]
  BY DEF Trend
<1>5. ToSet(v) = ToSet(f) \cap WithDate(S)  BY <1>2, AmongTyped
<1>6. ToSet(w) = ToSet(f) \cap (InGeos(S, c) \cap WithDate(S))  BY <1>3, AmongTyped
<1>7. ASSUME NEW h \in c  PROVE OfGeos(w, {h}) = OfGeos(v, {h})
  <2>1. OfGeos(w, {h}) = Among(w, InGeos(S, {h})) /\ OfGeos(v, {h}) = Among(v, InGeos(S, {h}))
    BY <1>2, <1>3, OfGeosIs
  <2>2. /\ OfGeos(w, {h}) = Among(f, (InGeos(S, c) \cap WithDate(S)) \cap InGeos(S, {h}))
        /\ OfGeos(v, {h}) = Among(f, WithDate(S) \cap InGeos(S, {h}))
    <3> DEFINE A == InGeos(S, c) \cap WithDate(S)  B == WithDate(S)  C == InGeos(S, {h})
    <3>1. f \in Seq(S) /\ w = Among(f, A) /\ v = Among(f, B)  BY <1>2, <1>3
    <3>2. OfGeos(w, {h}) = Among(w, C) /\ OfGeos(v, {h}) = Among(v, C)  BY <2>1
    <3> HIDE DEF A, B, C, v, w
    <3>3. Among(Among(f, A), C) = Among(f, A \cap C) /\ Among(Among(f, B), C) = Among(f, B \cap C)
      BY <3>1, AmongTwice
    <3>4. OfGeos(w, {h}) = Among(f, A \cap C) /\ OfGeos(v, {h}) = Among(f, B \cap C)
      BY <3>1, <3>2, <3>3
    <3> QED  BY <3>4 DEF A, B, C
  <2>3. (InGeos(S, c) \cap WithDate(S)) \cap InGeos(S, {h}) = WithDate(S) \cap InGeos(S, {h})
    BY <1>7 DEF InGeos
  <2> QED  BY <2>2, <2>3
<1>8. \A h \in c : h \in {r.geo : r \in ToSet(v)} <=> h \in {r.geo : r \in ToSet(w)}
  BY <1>5, <1>6 DEF InGeos, WithDate
<1>9. geos(v) = geos(w)
  <2> HIDE DEF v, w
  <2> QED  BY <1>7, <1>8
<1>10. \A h \in geos(v) : Fitted(OfGeos(w, {h})) = Fitted(OfGeos(v, {h}))  BY <1>7
<1> HIDE DEF geos, v, w, g
<1> QED  BY <1>4, <1>9, <1>10 DEF g

LEMMA OfGeosTwice ==
  ASSUME NEW S, NEW f \in Seq(S), NEW c
  PROVE  OfGeos(OfGeos(f, c), c) = OfGeos(f, c)
<1> DEFINE g == OfGeos(f, c)
<1>1. g = Among(f, InGeos(S, c)) /\ g \in Seq(S)  BY OfGeosIs, AmongTyped
<1>2. OfGeos(g, c) = Among(g, InGeos(S, c))  BY <1>1, OfGeosIs
<1>3. InGeos(S, c) \cap InGeos(S, c) = InGeos(S, c)  OBVIOUS
<1> HIDE DEF g
<1>4. OfGeos(g, c) = Among(f, InGeos(S, c))  BY <1>1, <1>2, <1>3, AmongTwice
<1> QED  BY <1>1, <1>4 DEF g

LEMMA CompareOfGeos ==
  ASSUME NEW S, NEW f \in Seq(S), NEW c
  PROVE  Compare(OfGeos(f, c), c) = Compare(f, c)
BY OfGeosTwice DEF Compare

LEMMA AggregateOfGeos ==
  ASSUME NEW S, NEW f \in Seq(S), NEW c, c # {}
  PROVE  Aggregate(OfGeos(f, c), c) = Aggregate(f, c)
<1> DEFINE g == OfGeos(f, c)
<1>1. OfGeos(g, c) = g  BY OfGeosTwice
<1> HIDE DEF g
<1>2. Aggregate(g, c) = [rows |-> PerPeriod(Where(g, LAMBDA r : r.time # None /\ r.val # None)),
                         ref_areas |-> c]
  BY <1>1 DEF Aggregate
<1>3. Aggregate(f, c) = [rows |-> PerPeriod(Where(g, LAMBDA r : r.time # None /\ r.val # None)),
                         ref_areas |-> c]
  BY DEF Aggregate, g
<1> QED  BY <1>2, <1>3 DEF g

-----------------------------------------------------------------------------
(* The lesser of two, and what a page brings. *)

LEMMA Lesser ==
  ASSUME NEW a \in Int, NEW b \in Int
  PROVE  Min({a, b}) = IF a <= b THEN a ELSE b
<1> DEFINE m == IF a <= b THEN a ELSE b
<1>1. m \in {a, b} /\ \A y \in {a, b} : m <= y  OBVIOUS
<1>2. \A x \in {a, b} : (\A y \in {a, b} : x <= y) => x = m  OBVIOUS
<1> HIDE DEF m
<1>3. Min({a, b}) = m  BY <1>1, <1>2 DEF Min
<1> QED  BY <1>3 DEF m

\* The first rows of a sequence, and some of the next ones.
LEMMA Onward ==
  ASSUME NEW all \in Seq(Rows), NEW rows \in Seq(Rows), IsPrefix(rows, all),
         NEW n \in Len(rows)..Len(all)
  PROVE  LET next == SubSeq(all, Len(rows) + 1, n)
         IN  /\ next \in Seq(Rows) /\ Len(next) = n - Len(rows)
             /\ rows \o next \in Seq(Rows) /\ Len(rows \o next) = n
             /\ IsPrefix(rows \o next, all)
<1> DEFINE k == Len(rows)  next == SubSeq(all, k + 1, n)
<1>1. k \in Nat /\ Len(all) \in Nat /\ k <= Len(all) /\ n \in Nat
  BY DEF IsPrefix
<1>2. rows = SubSeq(all, 1, k)
  BY SubSeqFull DEF IsPrefix
<1>3. next \in Seq(Rows) /\ Len(next) = n - k
  <2>1. \A i \in (k + 1)..n : all[i] \in Rows  BY <1>1
  <2> QED  BY <1>1, <2>1, SubSeqProperties
<1>4. rows \o next = SubSeq(all, 1, n)
  <2>1. 1 \in 1..(Len(all) + 1) /\ k \in (1 - 1)..Len(all) /\ n \in k..Len(all)  BY <1>1
  <2>2. SubSeq(all, 1, k) \o next = SubSeq(all, 1, n)  BY <2>1, ConcatAdjacentSubSeq
  <2> QED  BY <1>2, <2>2
<1>5. SubSeq(all, 1, n) \in Seq(Rows) /\ Len(SubSeq(all, 1, n)) = n
  <2>1. \A i \in 1..n : all[i] \in Rows  BY <1>1
  <2> QED  BY <1>1, <2>1, SubSeqProperties
<1>6. IsPrefix(SubSeq(all, 1, n), all)
  <2>1. SubSeq(SubSeq(all, 1, n), 1, n) = SubSeq(all, 1, n)  BY <1>5, SubSeqFull
  <2> QED  BY <1>1, <1>5, <2>1 DEF IsPrefix
<1> QED  BY <1>3, <1>4, <1>5, <1>6

\* No rows are the first of any.
LEMMA NoneYet ==
  ASSUME NEW all \in Seq(Rows)
  PROVE  <<>> \in Seq(Rows) /\ Len(<<>>) = 0 /\ IsPrefix(<<>>, all)
<1>1. SubSeq(<<>>, 1, 0) = <<>> /\ SubSeq(all, 1, 0) = <<>>  BY SubSeqEmpty
<1> QED  BY <1>1 DEF IsPrefix

\* All of them, when there are as many.
LEMMA WholeIf ==
  ASSUME NEW all \in Seq(Rows), NEW rows \in Seq(Rows), IsPrefix(rows, all),
         Len(rows) >= Len(all)
  PROVE  rows = all
<1>1. Len(rows) = Len(all)  BY DEF IsPrefix
<1> QED  BY <1>1, SubSeqFull DEF IsPrefix

-----------------------------------------------------------------------------
(* The state of a call. *)

Asks == {dims \in Seq(Dims) : dims # <<>>}

WellCalled ==
  /\ call.codes \in Codes /\ call.dims \in Asks
  /\ call.tool = "codelist" => call.codes = {} /\ call.dims = <<Every>>

Typed ==
  /\ table \in Tables /\ server \in Servers
  /\ pc \in {"idle", "schema", "page", "reply", "done", "failed"}
  /\ pc # "idle" => WellCalled
  /\ pc \in {"idle", "schema"} => got = <<>> /\ page = NoPage
  /\ got \in Seq(Seq(Rows)) /\ (got # <<>> => pc # "idle" /\ Len(got) <= Len(call.dims))
  /\ pc = "page" => Len(got) < Len(call.dims)
  /\ pc = "reply" => call.tool # "codelist"
  /\ page \in [rows : Seq(Rows), total : Nat, more : BOOLEAN, pages : Nat]
  /\ broken \in BOOLEAN

PerPage == Min({PageSize, server.cap})

\* What a page under way has got to: with totals given, every page so far was as
\* long as it could be.
Advanced(n) ==
  /\ page.pages = 0 => page.rows = <<>>
  /\ Len(page.rows) <= MaxRows
  /\ page.pages > 0 /\ server.totals =>
       /\ page.total = n
       /\ page.more <=> Len(page.rows) < n
       /\ \/ Len(page.rows) >= page.pages * PerPage
          \/ Len(page.rows) >= n
          \/ Len(page.rows) >= MaxRows

Within(i) == Len(All(i)) <= Min({MaxRows, MaxPages * PerPage}) => got[i] = All(i)

Paged ==
  /\ Typed
  /\ PagesJoinUp
  /\ pc = "page" => Advanced(Len(All(Len(got) + 1)))
  /\ server.totals /\ ~broken => \A i \in DOMAIN got : Within(i)

\* What the code list says of itself.
Codelisted ==
  Answered /\ call.tool = "codelist" =>
    LET r == Response({}, Every, 0, MaxEntries)
    IN  answer = [entries |-> {row.geo : row \in ToSet(r.rows)} \ {None},
                  is_complete |-> r.total <= MaxEntries]

-----------------------------------------------------------------------------
(* What NADA has for a request: a sequence of its rows, those of the geographies    *)
(* and, where it filters, those under the dimension.                                *)

Chosen(filters, codes, d) ==
  {r \in Rows : (codes = {} \/ r.geo \in codes) /\ (~filters \/ d = Every \/ r.dim = d)}

LEMMA SelectedIs ==
  ASSUME NEW t \in Tables, NEW filters, NEW codes, NEW d
  PROVE  t \in Seq(Rows) /\ Selected(t, filters, codes, d) = Among(t, Chosen(filters, codes, d))
<1>1. t \in Seq(Rows)  BY TablesAssumption
<1>2. \A i \in DOMAIN t : t[i] \in Rows  BY <1>1
<1>3. {i \in DOMAIN t : (codes = {} \/ t[i].geo \in codes) /\ (~filters \/ d = Every \/ t[i].dim = d)}
        = {i \in DOMAIN t : t[i] \in Chosen(filters, codes, d)}
  BY <1>2 DEF Chosen
<1> QED  BY <1>1, <1>3 DEF Selected, Where, Among

LEMMA MatchingTyped ==
  ASSUME table \in Tables, NEW codes, NEW d
  PROVE  Matching(codes, d) \in Seq(Rows)
<1>1. /\ table \in Seq(Rows)
      /\ Matching(codes, d) = Among(table, Chosen(server.filters, codes, d))
  BY SelectedIs DEF Matching
<1> QED  BY <1>1, AmongTyped

\* Where nothing is asked it is the table.
LEMMA MatchingAll ==
  ASSUME table \in Tables
  PROVE  Matching({}, Every) = table
<1>1. /\ table \in Seq(Rows)
      /\ Matching({}, Every) = Among(table, Chosen(server.filters, {}, Every))
  BY SelectedIs DEF Matching
<1>2. Chosen(server.filters, {}, Every) = Rows  BY DEF Chosen
<1>3. ToSet(table) \subseteq Rows  BY <1>1 DEF ToSet
<1> QED  BY <1>1, <1>2, <1>3, AmongAll

LEMMA AllTyped ==
  ASSUME table \in Tables, server \in Servers, WellCalled, NEW i \in 1..Len(call.dims)
  PROVE  All(i) \in Seq(Rows) /\ Len(All(i)) \in Nat
<1>1. call.dims[i] \in Dims  BY DEF WellCalled, Asks
<1>2. All(i) \in Seq(Rows)  BY <1>1, MatchingTyped DEF All, WellCalled
<1> QED  BY <1>2

LEMMA PerPageTyped ==
  ASSUME server \in Servers
  PROVE  /\ PerPage \in Nat \ {0} /\ PerPage <= PageSize /\ PerPage <= server.cap
         /\ PerPage = IF PageSize <= server.cap THEN PageSize ELSE server.cap
<1>1. PageSize \in Nat \ {0} /\ server.cap \in Nat \ {0}
  BY LimitsAssumption, ServersAssumption
<1> QED  BY <1>1, Lesser DEF PerPage

\* What a request for the next rows brings, and what is concluded from it.
Brings(r, all, rows, limit) ==
  LET n == Min({Len(all), Len(rows) + Min({limit, server.cap})})
  IN  /\ r.rows \in Seq(Rows) /\ r.total \in Nat /\ r.more \in BOOLEAN
      /\ rows \o r.rows \in Seq(Rows) /\ Len(rows \o r.rows) = n
      /\ IsPrefix(rows \o r.rows, all)
      /\ r.rows = <<>> => Len(rows) = Len(all)
      /\ server.totals => r.total = Len(all) /\ (r.more <=> n < Len(all))

LEMMA Received ==
  ASSUME table \in Tables, server \in Servers, NEW codes \in Codes, NEW d \in Dims,
         NEW rows \in Seq(Rows), IsPrefix(rows, Matching(codes, d)), NEW limit \in Nat \ {0}
  PROVE  Brings(Response(codes, d, Len(rows), limit), Matching(codes, d), rows, limit)
<1> DEFINE all == Matching(codes, d)
           r == Response(codes, d, Len(rows), limit)
           n == Min({Len(all), Len(rows) + Min({limit, server.cap})})
           next == SubSeq(all, Len(rows) + 1, n)
<1>1. all \in Seq(Rows)  BY MatchingTyped
<1>2. server.cap \in Nat \ {0} /\ server.totals \in BOOLEAN  BY ServersAssumption
<1>3. Len(rows) \in Nat /\ Len(all) \in Nat /\ Len(rows) <= Len(all)  BY <1>1 DEF IsPrefix
<1>4. /\ n \in Len(rows)..Len(all)
      /\ n = Len(rows) => Len(rows) = Len(all)
  <2> DEFINE short == Min({limit, server.cap})  k == Len(rows)  l == Len(all)
  <2>1. short \in Nat \ {0}  BY <1>2, Lesser
  <2>2. k \in Nat /\ l \in Nat /\ k <= l  BY <1>3
  <2>3. n = Min({l, k + short})  OBVIOUS
  <2> HIDE DEF short, k, l, n
  <2>4. k + short \in Int /\ l \in Int  BY <2>1, <2>2
  <2>5. n = IF l <= k + short THEN l ELSE k + short  BY <2>3, <2>4, Lesser
  <2>6. n \in k..l /\ (n = k => k = l)  BY <2>1, <2>2, <2>5
  <2> QED  BY <2>6 DEF k, l
<1> HIDE DEF n
<1>5. /\ next \in Seq(Rows) /\ Len(next) = n - Len(rows)
      /\ rows \o next \in Seq(Rows) /\ Len(rows \o next) = n
      /\ IsPrefix(rows \o next, all)
  <2> HIDE DEF all
  <2> QED  BY <1>1, <1>4, Onward DEF all
<1> DEFINE total == IF server.totals THEN Len(all) ELSE 0
           more == IF total > 0 THEN Len(rows) + Len(next) < total
                   ELSE Len(next) = limit /\ next # <<>>
<1>6. r = [rows |-> next, total |-> total, more |-> more]
  BY DEF Response, n
<1>7. total \in Nat /\ more \in BOOLEAN
  <2> HIDE DEF next, all
  <2>1. Len(all) \in Nat /\ Len(rows) \in Nat /\ Len(next) \in Nat  BY <1>3, <1>5
  <2>2. total \in Nat  BY <1>2, <2>1
  <2> HIDE DEF total
  <2>3. more \in BOOLEAN
    <3>1. CASE total > 0  BY <2>1, <2>2, <3>1
    <3>2. CASE ~(total > 0)  BY <2>1, <2>2, <3>2
    <3> QED  BY <3>1, <3>2
  <2> QED  BY <2>2, <2>3
<1>8. next = <<>> => Len(rows) = Len(all)
  <2> HIDE DEF next, all
  <2> SUFFICES ASSUME next = <<>>  PROVE Len(rows) = Len(all)  OBVIOUS
  <2>1. Len(next) = 0  BY NoneYet, <1>1
  <2> QED  BY <1>3, <1>4, <1>5, <2>1
<1>9. server.totals => total = Len(all) /\ (more <=> n < Len(all))
  <2> SUFFICES ASSUME server.totals
               PROVE  total = Len(all) /\ (more <=> n < Len(all))
    OBVIOUS
  <2>1. CASE Len(all) = 0
    <3>1. next = <<>>  BY <1>3, <1>4, <1>5, <2>1
    <3> QED  BY <2>1, <3>1, <1>4
  <2>2. CASE Len(all) # 0  BY <1>3, <1>4, <1>5, <2>2
  <2> QED  BY <2>1, <2>2
<1> HIDE DEF all, r, next, total, more
<1>10. r.rows = next /\ r.total = total /\ r.more = more  BY <1>6
<1>11. /\ r.rows \in Seq(Rows) /\ r.total \in Nat /\ r.more \in BOOLEAN
       /\ rows \o r.rows \in Seq(Rows) /\ Len(rows \o r.rows) = n
       /\ IsPrefix(rows \o r.rows, all)
       /\ r.rows = <<>> => Len(rows) = Len(all)
       /\ server.totals => r.total = Len(all) /\ (r.more <=> n < Len(all))
  BY <1>5, <1>7, <1>8, <1>9, <1>10
<1> QED  BY <1>11 DEF all, r, n, Brings

-----------------------------------------------------------------------------
(* The steps of a call. *)

LEMMA CallPaged ==
  ASSUME Paged, NEW tool, NEW codes \in Codes, NEW dims \in Asks, NEW args,
         tool = "codelist" => codes = {} /\ dims = <<Every>>,
         Call(tool, codes, dims, args)
  PROVE  Paged'
<1> USE DEF Call, Paged
<1>1. got = <<>> /\ pc # "page" /\ pc' = "schema"  BY DEF Typed
<1>2. WellCalled'  BY DEF WellCalled
<1>3. Typed'  BY <1>1, <1>2 DEF Typed
<1>4. PagesJoinUp'  BY <1>1 DEF PagesJoinUp
<1>5. (\A i \in DOMAIN got : Within(i))'  BY <1>1
<1> QED  BY <1>1, <1>3, <1>4, <1>5

\* A step that leaves the call, the rows and what NADA holds as they are.
LEMMA StillPaged ==
  ASSUME Paged, UNCHANGED <<table, server, call, got, page, broken>>,
         \/ pc = "page" /\ pc' \in {"done", "failed"}
         \/ pc = "reply" /\ pc' = "done"
         \/ pc = "schema" /\ pc' \in {"page", "failed"}
  PROVE  Paged'
<1> USE DEF Paged
<1>1. WellCalled'  BY DEF Typed, WellCalled
<1>2. \A i : All(i)' = All(i) /\ (Within(i) <=> Within(i)')
  BY DEF All, Matching, Within, PerPage
<1>3. CASE pc' = "page"
  <2>1. got = <<>> /\ page = NoPage /\ WellCalled  BY <1>3 DEF Typed
  <2>2. Len(call.dims) \in Nat \ {0}  BY <2>1 DEF WellCalled, Asks
  <2>3. All(1) \in Seq(Rows) /\ Len(got) + 1 = 1 /\ Len(got) = 0
    BY <2>1, <2>2, AllTyped DEF Typed
  <2>4. page.rows = <<>> /\ page.pages = 0  BY <2>1 DEF NoPage
  <2>5. Typed'  BY <1>1, <1>3, <2>1, <2>2, <2>3 DEF Typed
  <2>6. IsPrefix(page.rows, All(Len(got) + 1))  BY <2>3, <2>4, NoneYet
  <2>7. PagesJoinUp'  BY <1>2, <2>6 DEF PagesJoinUp
  <2>8. Advanced(Len(All(Len(got) + 1)))'
    BY <1>2, <2>4, NoneYet, <2>3, LimitsAssumption DEF Advanced
  <2> QED  BY <1>2, <2>5, <2>7, <2>8
<1>4. CASE pc' # "page"
  <2>1. Typed'  BY <1>1, <1>4 DEF Typed
  <2>2. PagesJoinUp'  BY <1>2, <1>4 DEF PagesJoinUp
  <2> QED  BY <1>2, <1>4, <2>1, <2>2
<1> QED  BY <1>3, <1>4

\* The fetch under way, and all there is for it.
LEMMA UnderWay ==
  ASSUME Paged, pc = "page"
  PROVE  LET all == All(Len(got) + 1)
         IN  /\ table \in Tables /\ server \in Servers /\ WellCalled
             /\ call.codes \in Codes /\ Dim \in Dims /\ all = Matching(call.codes, Dim)
             /\ all \in Seq(Rows) /\ Len(all) \in Nat
             /\ page.rows \in Seq(Rows) /\ Len(page.rows) \in Nat /\ IsPrefix(page.rows, all)
             /\ Len(page.rows) <= Len(all) /\ Len(page.rows) <= MaxRows
             /\ Advanced(Len(all))
<1>1. /\ table \in Tables /\ server \in Servers /\ WellCalled /\ page.rows \in Seq(Rows)
      /\ Len(got) \in Nat /\ Len(got) < Len(call.dims)
  BY DEF Paged, Typed
<1>2. Len(got) + 1 \in 1..Len(call.dims) /\ call.codes \in Codes /\ call.dims \in Seq(Dims)
  BY <1>1 DEF WellCalled, Asks
<1>3. Dim \in Dims /\ All(Len(got) + 1) = Matching(call.codes, Dim)  BY <1>2 DEF Dim, All
<1>4. All(Len(got) + 1) \in Seq(Rows) /\ Len(All(Len(got) + 1)) \in Nat
  BY <1>1, <1>2, AllTyped
<1>5. /\ IsPrefix(page.rows, All(Len(got) + 1)) /\ Advanced(Len(All(Len(got) + 1)))
  BY DEF Paged, PagesJoinUp
<1>6. Len(page.rows) <= Len(All(Len(got) + 1)) /\ Len(page.rows) <= MaxRows
  BY <1>5 DEF Advanced, IsPrefix
<1> QED  BY <1>1, <1>2, <1>3, <1>4, <1>5, <1>6

\* The next page leaves the prefix a prefix, and with totals is as long as can be.
LEMMA PagePaged == ASSUME Paged, PageArrives  PROVE Paged'
<1> DEFINE all == All(Len(got) + 1)  k == Len(page.rows)
           limit == Min({PageSize, MaxRows - k})
           r == Response(call.codes, Dim, k, limit)
           n == Min({Len(all), k + Min({limit, server.cap})})
           new == [rows |-> page.rows \o r.rows, total |-> r.total, more |-> r.more,
                   pages |-> page.pages + 1]
<1>1. pc = "page" /\ UNCHANGED <<table, server, pc, call, got, broken>> /\ WantsMore
  BY DEF PageArrives, Fetching
<1>2. /\ table \in Tables /\ server \in Servers /\ WellCalled
      /\ call.codes \in Codes /\ Dim \in Dims /\ all = Matching(call.codes, Dim)
      /\ all \in Seq(Rows) /\ Len(all) \in Nat
      /\ page.rows \in Seq(Rows) /\ k \in Nat /\ IsPrefix(page.rows, all)
      /\ k <= Len(all) /\ k <= MaxRows
      /\ Advanced(Len(all))
  BY <1>1, UnderWay
<1>3. /\ page \in [rows : Seq(Rows), total : Nat, more : BOOLEAN, pages : Nat]
      /\ page.total \in Nat /\ page.pages \in Nat /\ page.more \in BOOLEAN
  BY DEF Paged, Typed
<1>4. k < MaxRows /\ MaxRows \in Nat /\ PageSize \in Nat \ {0}
  <2>1. CASE page.pages = 0  BY <1>2, <2>1, LimitsAssumption, NoneYet DEF Advanced
  <2>2. CASE page.pages # 0
    <3>1. k < (IF page.total = 0 THEN MaxRows ELSE Min({page.total, MaxRows}))
      BY <1>1, <2>2 DEF WantsMore
    <3> QED  BY <1>2, <1>3, <3>1, LimitsAssumption, Lesser
  <2> QED  BY <2>1, <2>2
<1>5. limit \in Nat \ {0} /\ limit = IF PageSize <= MaxRows - k THEN PageSize ELSE MaxRows - k
  BY <1>2, <1>4, Lesser
<1>6. PageArrives => page' = IF page.pages > 0 /\ r.rows = <<>>
                             THEN [page EXCEPT !.more = FALSE] ELSE new
  BY DEF PageArrives
<1> HIDE DEF limit, r
<1>7. /\ r.rows \in Seq(Rows) /\ r.total \in Nat /\ r.more \in BOOLEAN
      /\ page.rows \o r.rows \in Seq(Rows) /\ Len(page.rows \o r.rows) = n
      /\ IsPrefix(page.rows \o r.rows, all)
      /\ r.rows = <<>> => k = Len(all)
      /\ server.totals => r.total = Len(all) /\ (r.more <=> n < Len(all))
  <2>1. limit \in Nat \ {0}  BY <1>5
  <2>2. IsPrefix(page.rows, Matching(call.codes, Dim))  BY <1>2
  <2>3. Brings(r, all, page.rows, limit)
    <3> HIDE DEF all
    <3> QED  BY <1>2, <2>1, <2>2, Received DEF r
  <2> QED  BY <2>3 DEF Brings, k, n
<1>8. /\ PerPage \in Nat \ {0}
      /\ PerPage = IF PageSize <= server.cap THEN PageSize ELSE server.cap
      /\ server.cap \in Nat \ {0}
  BY <1>2, PerPageTyped, ServersAssumption
<1>9. /\ n \in Nat /\ n <= Len(all) /\ n <= MaxRows /\ n >= k
      /\ n >= k + PerPage \/ n >= Len(all) \/ n >= MaxRows
  <2> DEFINE short == Min({limit, server.cap})  l == Len(all)
  <2>1. /\ short = IF limit <= server.cap THEN limit ELSE server.cap
        /\ short \in Nat
    BY <1>5, <1>8, Lesser
  <2>2. n = Min({l, k + short}) /\ l \in Nat /\ k \in Nat /\ k <= l /\ k < MaxRows
    BY <1>2, <1>4
  <2> HIDE DEF short, l, k, n
  <2>3. k + short \in Int /\ l \in Int  BY <2>1, <2>2
  <2>4. n = IF l <= k + short THEN l ELSE k + short  BY <2>2, <2>3, Lesser
  <2>5. /\ n \in Nat /\ n <= l /\ n <= MaxRows /\ n >= k
        /\ n >= k + PerPage \/ n >= l \/ n >= MaxRows
    <3> DEFINE q == PerPage  c == server.cap  m == MaxRows  p == PageSize
    <3>1. /\ limit \in Nat /\ limit = IF p <= m - k THEN p ELSE m - k
          /\ q = (IF p <= c THEN p ELSE c) /\ q \in Nat /\ c \in Nat /\ p \in Nat /\ m \in Nat
          /\ short = (IF limit <= c THEN limit ELSE c) /\ short \in Nat
      BY <1>4, <1>5, <1>8, <2>1
    <3> HIDE DEF q, c, m, p
    <3>2. n >= k + q \/ n >= l \/ n >= m  BY <2>2, <2>4, <3>1
    <3>3. n \in Nat /\ n <= l /\ n >= k /\ n <= m
      <4>1. k <= m /\ short <= m - k  BY <2>2, <3>1 DEF m
      <4> QED  BY <2>2, <2>4, <3>1, <4>1
    <3> QED  BY <3>2, <3>3 DEF q, m
  <2> QED  BY <2>5 DEF l
<1> HIDE DEF n
<1>10. all' = all /\ PerPage' = PerPage /\ \A i : All(i)' = All(i) /\ (Within(i) <=> Within(i)')
  BY <1>1 DEF All, Matching, Within, PerPage
<1>11. /\ page' \in [rows : Seq(Rows), total : Nat, more : BOOLEAN, pages : Nat]
       /\ IsPrefix(page'.rows, all)
       /\ (Advanced(Len(all)))'
  <2>1. CASE page.pages > 0 /\ r.rows = <<>>
    <3>1. page' = [page EXCEPT !.more = FALSE]  BY <1>6, <2>1
    <3>2. page'.rows = page.rows /\ page'.total = page.total /\ page'.more = FALSE
          /\ page'.pages = page.pages
      BY <1>3, <3>1
    <3>3. page' \in [rows : Seq(Rows), total : Nat, more : BOOLEAN, pages : Nat]
      BY <1>3, <3>1
    <3>4. Advanced(Len(all))'
      BY <1>1, <1>2, <1>3, <1>7, <1>10, <2>1, <3>2 DEF Advanced
    <3> QED  BY <1>2, <3>2, <3>3, <3>4
  <2>2. CASE ~(page.pages > 0 /\ r.rows = <<>>)
    <3>1. /\ page'.rows = page.rows \o r.rows /\ page'.total = r.total
          /\ page'.more = r.more /\ page'.pages = page.pages + 1
      <4> HIDE DEF new
      <4>1. page' = new  BY <1>6, <2>2
      <4> QED  BY <4>1 DEF new
    <3>2. server.totals => \/ n >= (page.pages + 1) * PerPage
                           \/ n >= Len(all) \/ n >= MaxRows
      <4> SUFFICES ASSUME server.totals
                   PROVE  n >= (page.pages + 1) * PerPage \/ n >= Len(all) \/ n >= MaxRows
        OBVIOUS
      <4>1. k >= page.pages * PerPage \/ k >= Len(all) \/ k >= MaxRows
        BY <1>2, <1>3, <1>8, NoneYet DEF Advanced
      <4>2. /\ (page.pages + 1) * PerPage = page.pages * PerPage + PerPage
            /\ page.pages * PerPage \in Nat
        <5> DEFINE p == page.pages  q == PerPage
        <5>1. p \in Nat /\ q \in Nat  BY <1>3, <1>8
        <5> HIDE DEF p, q
        <5>2. (p + 1) * q = p * q + q /\ p * q \in Nat  BY <5>1
        <5> QED  BY <5>2 DEF p, q
      <4> QED  BY <1>2, <1>4, <1>8, <1>9, <4>1, <4>2
    <3>3. page' \in [rows : Seq(Rows), total : Nat, more : BOOLEAN, pages : Nat]
      <4> HIDE DEF new
      <4>1. page' = new  BY <1>6, <2>2
      <4> QED  BY <1>3, <1>7, <4>1 DEF new
    <3>4. page'.pages \in Nat /\ page'.pages # 0  BY <1>3, <3>1
    <3>5. Advanced(Len(all))'
      BY <1>1, <1>2, <1>7, <1>9, <1>10, <3>1, <3>2, <3>4 DEF Advanced
    <3> QED  BY <1>7, <3>1, <3>3, <3>5
  <2> QED  BY <2>1, <2>2
<1>12. Typed'
  <2>1. WellCalled'  BY <1>1, <1>2 DEF WellCalled
  <2> QED  BY <1>1, <1>11, <2>1 DEF Paged, Typed
<1>13. PagesJoinUp'  BY <1>1, <1>10, <1>11 DEF PagesJoinUp, Paged
<1>14. (Advanced(Len(All(Len(got) + 1))))'  BY <1>1, <1>10, <1>11
<1>15. (server.totals /\ ~broken => \A i \in DOMAIN got : Within(i))'
  BY <1>1, <1>10 DEF Paged
<1> QED  BY <1>12, <1>13, <1>14, <1>15 DEF Paged

\* What a fetch ended with is what its page had: a prefix, and all of it when nothing
\* failed, the total was given and the limits were not met.
LEMMA FetchPaged == ASSUME Paged, LaterPageFails \/ FetchEnds  PROVE Paged'
<1> DEFINE all == All(Len(got) + 1)  k == Len(page.rows)
<1>1. /\ pc = "page" /\ call.tool # "codelist" /\ UNCHANGED <<table, server, call>>
      /\ got' = Append(got, page.rows) /\ page' = NoPage
      /\ pc' = IF Len(got') = Len(call.dims) THEN "reply" ELSE "page"
      /\ broken' = TRUE \/ (broken' = broken /\ ~WantsMore)
  BY DEF LaterPageFails, FetchEnds, Fetching, NextFetch
<1>2. /\ table \in Tables /\ server \in Servers /\ WellCalled
      /\ all \in Seq(Rows) /\ Len(all) \in Nat
      /\ page.rows \in Seq(Rows) /\ k \in Nat /\ IsPrefix(page.rows, all)
      /\ k <= Len(all) /\ k <= MaxRows
      /\ Advanced(Len(all))
  BY <1>1, UnderWay
<1>3. /\ got \in Seq(Seq(Rows)) /\ Len(got) \in Nat /\ Len(got) < Len(call.dims)
      /\ page \in [rows : Seq(Rows), total : Nat, more : BOOLEAN, pages : Nat]
      /\ Len(call.dims) \in Nat /\ broken \in BOOLEAN
  BY <1>1, <1>2 DEF Paged, Typed, WellCalled, Asks
<1>4. /\ got' \in Seq(Seq(Rows)) /\ Len(got') = Len(got) + 1
      /\ DOMAIN got = 1..Len(got) /\ DOMAIN got' = 1..(Len(got) + 1)
      /\ \A i \in DOMAIN got : got'[i] = got[i]
      /\ got'[Len(got) + 1] = page.rows
  BY <1>1, <1>2, <1>3
<1>5. PerPage' = PerPage /\ \A i : All(i)' = All(i)
  BY <1>1 DEF All, Matching, PerPage
<1>6. WellCalled'  BY <1>1, <1>2 DEF WellCalled
<1>7. page' \in [rows : Seq(Rows), total : Nat, more : BOOLEAN, pages : Nat]
      /\ page'.rows = <<>> /\ page'.pages = 0
  BY <1>1, <1>2, NoneYet DEF NoPage
<1>8. Typed'
  <2>1. broken' \in BOOLEAN  BY <1>1, <1>3
  <2>2. got' # <<>> /\ Len(got') <= Len(call'.dims) /\ pc' \in {"reply", "page"}
        /\ (pc' = "page" => Len(got') < Len(call'.dims))
    BY <1>1, <1>3, <1>4
  <2> QED  BY <1>1, <1>2, <1>4, <1>6, <1>7, <2>1, <2>2 DEF Typed
<1>9. ASSUME pc' = "page"
      PROVE  (All(Len(got) + 1) \in Seq(Rows))'
  <2>1. Len(got) + 2 \in 1..Len(call.dims)  BY <1>1, <1>3, <1>4, <1>9
  <2>2. All(Len(got) + 2) \in Seq(Rows)  BY <1>2, <2>1, AllTyped
  <2>3. Len(got') + 1 = Len(got) + 2  BY <1>3, <1>4
  <2> QED  BY <1>5, <2>2, <2>3
<1>10. PagesJoinUp'
  <2>1. ASSUME pc' = "page"  PROVE IsPrefix(page.rows, All(Len(got) + 1))'
    BY <1>7, <1>9, <2>1, NoneYet
  <2>2. ASSUME NEW i \in DOMAIN got'  PROVE IsPrefix(got[i], All(i))'
    <3>1. CASE i \in DOMAIN got  BY <1>4, <1>5, <3>1 DEF Paged, PagesJoinUp
    <3>2. CASE i = Len(got) + 1  BY <1>2, <1>4, <1>5, <3>2
    <3> QED  BY <1>4, <3>1, <3>2
  <2> QED  BY <2>1, <2>2 DEF PagesJoinUp
<1>11. (pc = "page" => Advanced(Len(All(Len(got) + 1))))'
  <2> SUFFICES ASSUME pc' = "page"  PROVE Advanced(Len(All(Len(got) + 1)))'  OBVIOUS
  <2>1. Len(page'.rows) = 0 /\ MaxRows \in Nat  BY <1>2, <1>7, NoneYet, LimitsAssumption
  <2> QED  BY <1>7, <2>1 DEF Advanced
<1>12. (server.totals /\ ~broken => \A i \in DOMAIN got : Within(i))'
  <2> SUFFICES ASSUME server.totals, ~broken', NEW i \in DOMAIN got'
               PROVE  Within(i)'
    BY <1>1
  <2>1. ~broken /\ ~WantsMore  BY <1>1
  <2>2. CASE i \in DOMAIN got
    <3>1. Within(i)  BY <2>1, <2>2 DEF Paged
    <3> QED  BY <1>4, <1>5, <2>2, <3>1 DEF Within
  <2>3. CASE i = Len(got) + 1
    <3> SUFFICES ASSUME Len(all) <= Min({MaxRows, MaxPages * PerPage})
                 PROVE  page.rows = all
      BY <1>4, <1>5, <2>3 DEF Within
    <3> DEFINE q == PerPage  l == Len(all)  p == page.pages
    <3>1. q \in Nat /\ p \in Nat /\ MaxPages \in Nat /\ MaxRows \in Nat /\ l \in Nat
      BY <1>2, <1>3, PerPageTyped, LimitsAssumption
    <3>2. MaxPages * q \in Nat /\ p * q \in Nat /\ (p >= MaxPages => p * q >= MaxPages * q)
      <4> HIDE DEF q, p
      <4>1. MaxPages * q \in Nat /\ p * q \in Nat  BY <3>1
      <4>2. ASSUME p >= MaxPages  PROVE p * q >= MaxPages * q
        <5>1. p * q = MaxPages * q + (p - MaxPages) * q  BY <3>1
        <5>2. p - MaxPages \in Nat  BY <3>1, <4>2
        <5> DEFINE d == p - MaxPages
        <5> HIDE DEF d
        <5>3. d * q \in Nat  BY <3>1, <5>2 DEF d
        <5> QED  BY <4>1, <5>1, <5>3 DEF d
      <4> QED  BY <4>1, <4>2
    <3>3. l <= MaxRows /\ l <= MaxPages * q
      <4>1. MaxRows \in Int /\ MaxPages * PerPage \in Int  BY <3>1, <3>2
      <4>2. Min({MaxRows, MaxPages * PerPage})
              = IF MaxRows <= MaxPages * PerPage THEN MaxRows ELSE MaxPages * PerPage
        BY <4>1, Lesser
      <4> QED  BY <3>1, <4>1, <4>2
    <3>4. /\ p > 0 /\ page.total = l
          /\ \/ k >= (IF page.total = 0 THEN MaxRows ELSE Min({page.total, MaxRows}))
             \/ ~page.more
             \/ p >= MaxPages
      <4>1. page.pages # 0  BY <2>1 DEF WantsMore
      <4>2. p > 0  BY <3>1, <4>1
      <4>3. page.total = l  BY <1>2, <4>2 DEF Advanced
      <4> HIDE DEF all, l
      <4>4. \/ k >= (IF page.total = 0 THEN MaxRows ELSE Min({page.total, MaxRows}))
            \/ ~page.more
            \/ p >= MaxPages
        <5> DEFINE e == IF page.total = 0 THEN MaxRows ELSE Min({page.total, MaxRows})
        <5>1. page.total \in Nat  BY <1>3
        <5>2. e \in Nat  BY <3>1, <5>1, Lesser
        <5>3. ~(k < e) \/ ~page.more \/ ~(page.pages < MaxPages)  BY <2>1 DEF WantsMore
        <5> HIDE DEF e, k, p
        <5>4. k \in Nat  BY <1>2 DEF k
        <5>5. ~(k < e) => k >= e  BY <5>2, <5>4
        <5>6. ~(page.pages < MaxPages) => p >= MaxPages  BY <1>3, <3>1 DEF p
        <5> QED  BY <5>3, <5>5, <5>6 DEF e
      <4> QED  BY <4>2, <4>3, <4>4
    <3>5. k >= l
      <4>1. CASE k >= (IF page.total = 0 THEN MaxRows ELSE Min({page.total, MaxRows}))
        <5>1. Min({l, MaxRows}) = l  BY <3>1, <3>3, Lesser
        <5>2. page.total = l /\ l <= MaxRows  BY <3>3, <3>4
        <5> HIDE DEF k, l
        <5>3. k >= (IF l = 0 THEN MaxRows ELSE l)  BY <4>1, <5>1, <5>2
        <5>4. l \in Nat /\ MaxRows \in Nat /\ k \in Nat  BY <1>2, <3>1 DEF k
        <5> QED  BY <5>2, <5>3, <5>4
      <4>2. CASE ~page.more  BY <1>2, <3>1, <3>4, <4>2 DEF Advanced
      <4>3. CASE p >= MaxPages
        <5>1. k >= p * q \/ k >= l \/ k >= MaxRows  BY <1>2, <3>4 DEF Advanced
        <5>2. k \in Nat /\ p \in Nat /\ q \in Nat /\ l \in Nat /\ MaxPages \in Nat
          BY <1>2, <3>1, <3>2
        <5>3. l <= MaxRows /\ l <= MaxPages * q  BY <3>3
        <5> HIDE DEF p, q, l, k
        <5>4. CASE k >= p * q
          <6>1. p * q \in Nat /\ MaxPages * q \in Nat /\ p * q >= MaxPages * q  BY <3>2, <4>3
          <6> QED  BY <5>2, <5>3, <5>4, <6>1
        <5>5. CASE k >= MaxRows
          <6>1. MaxRows \in Nat  BY <3>1
          <6> QED  BY <5>2, <5>3, <5>5, <6>1
        <5> QED  BY <5>1, <5>4, <5>5
      <4> QED  BY <3>4, <4>1, <4>2, <4>3
    <3> QED  BY <1>2, <3>5, WholeIf
  <2> QED  BY <1>4, <2>2, <2>3
<1> QED  BY <1>8, <1>10, <1>11, <1>12 DEF Paged
-----------------------------------------------------------------------------
(* All steps. *)

AnyCall == \E tool, args : \E codes \in Codes, dims \in Asks :
  /\ tool = "codelist" => codes = {} /\ dims = <<Every>>
  /\ Call(tool, codes, dims, args)

AllCalls ==
  \/ CallRank \/ CallExtremes \/ CallCompare \/ CallSummarize \/ CallGrowth
  \/ CallCorrelate \/ CallOutliers \/ CallTrend \/ CallBenchmark \/ CallCoverage
  \/ CallJoin \/ CallAggregate \/ CallCodelist

\* Every tool asks for known geographies under known filters, one or two of them.
LEMMA CallsAreCalls == AllCalls => AnyCall
<1>1. {} \in Codes /\ \A r \in RefSets : r \in Codes  BY DEF Codes
<1>2. \A d \in Dims : <<d>> \in Asks  BY DEF Asks
<1>3. \A d1, d2 \in Dims : <<d1, d2>> \in Asks  BY DEF Asks
<1>4. ASSUME NEW tool, NEW args, NEW codes \in Codes, NEW dims \in Asks,
             tool # "codelist", Call(tool, codes, dims, args)
      PROVE  AnyCall
  BY <1>4 DEF AnyCall
<1>5. CallRank => AnyCall  BY <1>1, <1>2, <1>4 DEF CallRank
<1>6. CallExtremes => AnyCall  BY <1>1, <1>2, <1>4 DEF CallExtremes
<1>7. CallCompare => AnyCall  BY <1>1, <1>2, <1>4 DEF CallCompare
<1>8. CallSummarize => AnyCall  BY <1>1, <1>2, <1>4 DEF CallSummarize
<1>9. CallGrowth => AnyCall  BY <1>1, <1>2, <1>4 DEF CallGrowth, Codes
<1>10. CallCorrelate => AnyCall  BY <1>1, <1>3, <1>4 DEF CallCorrelate
<1>11. CallOutliers => AnyCall  BY <1>1, <1>2, <1>4 DEF CallOutliers
<1>12. CallTrend => AnyCall  BY <1>1, <1>2, <1>4 DEF CallTrend, Codes
<1>13. CallBenchmark => AnyCall  BY <1>1, <1>2, <1>4 DEF CallBenchmark
<1>14. CallCoverage => AnyCall  BY <1>1, <1>2, <1>4 DEF CallCoverage
<1>15. CallJoin => AnyCall  BY <1>1, <1>3, <1>4 DEF CallJoin, Codes
<1>16. CallAggregate => AnyCall  BY <1>1, <1>2, <1>4 DEF CallAggregate, Codes
<1>17. CallCodelist => AnyCall
  <2>1. <<Every>> \in Asks  BY <1>2, DimsAssumption
  <2> QED  BY <1>1, <2>1 DEF CallCodelist, AnyCall
<1> QED
  BY <1>5, <1>6, <1>7, <1>8, <1>9, <1>10, <1>11, <1>12, <1>13, <1>14, <1>15, <1>16, <1>17
  DEF AllCalls

LEMMA InitPaged == Init => Paged /\ Codelisted
<1> SUFFICES ASSUME Init  PROVE Paged /\ Codelisted  OBVIOUS
<1>1. /\ pc = "idle" /\ got = <<>> /\ page = NoPage /\ broken = FALSE
      /\ table \in Tables /\ server \in Servers
  BY DEF Init
<1>2. page \in [rows : Seq(Rows), total : Nat, more : BOOLEAN, pages : Nat]
  BY <1>1 DEF NoPage
<1>3. got \in Seq(Seq(Rows)) /\ DOMAIN got = {}  BY <1>1
<1>4. Typed  BY <1>1, <1>2, <1>3 DEF Typed
<1>5. PagesJoinUp  BY <1>1, <1>3 DEF PagesJoinUp
<1> QED  BY <1>1, <1>3, <1>4, <1>5 DEF Paged, Codelisted, Answered

LEMMA NextPaged == ASSUME Paged, [Next]_vars  PROVE Paged'
<1>1. CASE AllCalls  BY <1>1, CallsAreCalls, CallPaged DEF AnyCall
<1>2. CASE SchemaArrives  BY <1>2, StillPaged DEF SchemaArrives
<1>3. CASE RequestFails  BY <1>3, StillPaged DEF RequestFails
<1>4. CASE CodelistArrives  BY <1>4, StillPaged DEF CodelistArrives
<1>5. CASE PageArrives  BY <1>5, PagePaged
<1>6. CASE LaterPageFails \/ FetchEnds  BY <1>6, FetchPaged
<1>7. CASE Reply  BY <1>7, StillPaged DEF Reply
<1>8. CASE UNCHANGED vars
  <2>1. \A i : All(i)' = All(i) /\ (Within(i) <=> Within(i)')
    BY <1>8 DEF vars, All, Matching, Within, PerPage
  <2>2. Typed'  BY <1>8 DEF vars, Paged, Typed, WellCalled
  <2>3. PagesJoinUp'  BY <1>8, <2>1 DEF vars, Paged, PagesJoinUp
  <2>4. (pc = "page" => Advanced(Len(All(Len(got) + 1))))'
    BY <1>8, <2>1 DEF vars, Paged, Advanced, PerPage
  <2> QED  BY <1>8, <2>1, <2>2, <2>3, <2>4 DEF vars, Paged
<1> QED  BY <1>1, <1>2, <1>3, <1>4, <1>5, <1>6, <1>7, <1>8 DEF Next, AllCalls

LEMMA NextCodelisted == ASSUME Paged, Codelisted, [Next]_vars  PROVE Codelisted'
<1>1. CASE AllCalls
  <2>1. pc' = "schema"  BY <1>1, CallsAreCalls DEF AnyCall, Call
  <2> QED  BY <2>1 DEF Codelisted, Answered
<1>2. CASE SchemaArrives  BY <1>2 DEF SchemaArrives, Codelisted, Answered
<1>3. CASE RequestFails  BY <1>3 DEF RequestFails, Codelisted, Answered
<1>4. CASE CodelistArrives
  <2>1. call.codes = {}  BY <1>4 DEF CodelistArrives, Paged, Typed, WellCalled
  <2>2. Response({}, Every, 0, MaxEntries)' = Response({}, Every, 0, MaxEntries)
    BY <1>4 DEF CodelistArrives, Response, Matching
  <2> HIDE DEF Response
  <2> QED  BY <1>4, <2>1, <2>2 DEF CodelistArrives, Codelisted
<1>5. CASE PageArrives  BY <1>5 DEF PageArrives, Fetching, Codelisted, Answered
<1>6. CASE LaterPageFails \/ FetchEnds
  <2>1. pc' \in {"reply", "page"}  BY <1>6 DEF LaterPageFails, FetchEnds, NextFetch
  <2> QED  BY <2>1 DEF Codelisted, Answered
<1>7. CASE Reply
  <2>1. call'.tool # "codelist"  BY <1>7 DEF Reply, Paged, Typed
  <2> QED  BY <2>1 DEF Codelisted
<1>8. CASE UNCHANGED vars
  <2>1. Response({}, Every, 0, MaxEntries)' = Response({}, Every, 0, MaxEntries)
    BY <1>8 DEF vars, Response, Matching
  <2> QED  BY <1>8, <2>1 DEF vars, Codelisted, Answered
<1> QED  BY <1>1, <1>2, <1>3, <1>4, <1>5, <1>6, <1>7, <1>8 DEF Next, AllCalls

LEMMA AlwaysPaged == Spec => [](Paged /\ Codelisted)
<1>1. Init => Paged /\ Codelisted  BY InitPaged
<1>2. Paged /\ Codelisted /\ [Next]_vars => (Paged /\ Codelisted)'
  BY NextPaged, NextCodelisted
<1> QED  BY <1>1, <1>2, PTL DEF Spec

\* A code list that says it is complete has every code, from a page long enough.
LEMMA CodelistWhole ==
  ASSUME Paged, Codelisted, Answered, server.totals, call.tool = "codelist",
         answer.is_complete, server.cap >= MaxEntries
  PROVE  answer.entries = {r.geo : r \in ToSet(table)} \ {None}
<1> DEFINE r == Response({}, Every, 0, MaxEntries)  all == Matching({}, Every)
<1>1. table \in Tables /\ server \in Servers /\ server.cap \in Nat
  BY ServersAssumption DEF Paged, Typed
<1>2. {} \in Codes /\ Every \in Dims /\ MaxEntries \in Nat \ {0}
  BY DimsAssumption, LimitsAssumption DEF Codes
<1>3. all = table /\ all \in Seq(Rows)
  BY <1>1, MatchingAll, MatchingTyped
<1>4. Len(<<>>) = 0 /\ <<>> \in Seq(Rows) /\ IsPrefix(<<>>, all)  BY <1>3, NoneYet
<1>5. Brings(r, all, <<>>, MaxEntries)
  <2>1. Brings(Response({}, Every, Len(<<>>), MaxEntries), Matching({}, Every), <<>>, MaxEntries)
    BY <1>1, <1>2, <1>4, Received
  <2> QED  BY <1>4, <2>1
<1> HIDE DEF r
<1>6. /\ answer.entries = {row.geo : row \in ToSet(r.rows)} \ {None}
      /\ r.total <= MaxEntries
  <2> DEFINE codes == {row.geo : row \in ToSet(r.rows)} \ {None}  whole == r.total <= MaxEntries
  <2>1. answer = [entries |-> codes, is_complete |-> whole]  BY DEF Codelisted, r
  <2> HIDE DEF codes, whole
  <2>2. answer.entries = codes /\ answer.is_complete = whole  BY <2>1
  <2> QED  BY <2>2 DEF codes, whole
<1> HIDE DEF all
<1>7. r.rows \in Seq(Rows) /\ r.total = Len(all) /\ <<>> \o r.rows = r.rows
  BY <1>5, ConcatEmptySeq DEF Brings
<1>8. IsPrefix(r.rows, all) /\ Len(r.rows) = Min({Len(all), 0 + Min({MaxEntries, server.cap})})
  BY <1>4, <1>5, <1>7 DEF Brings
<1>9. Len(r.rows) = Len(all)
  <2>1. Min({MaxEntries, server.cap}) = MaxEntries  BY <1>1, <1>2, Lesser
  <2>2. Len(all) \in Nat /\ Len(all) <= MaxEntries  BY <1>3, <1>6, <1>7
  <2>3. 0 + Min({MaxEntries, server.cap}) = MaxEntries  BY <1>2, <2>1
  <2>4. Min({Len(all), MaxEntries}) = Len(all)  BY <1>2, <2>2, Lesser
  <2> QED  BY <1>8, <2>3, <2>4
<1>10. r.rows = all
  <2>1. Len(r.rows) >= Len(all)  BY <1>3, <1>9
  <2> QED  BY <1>3, <1>7, <1>8, <2>1, WholeIf
<1> QED  BY <1>3, <1>6, <1>10

\* Paging (get_all_timeseries_data) neither repeats nor skips a row, whatever NADA
\* holds, however it cuts its pages and whatever the limits.
THEOREM NoRowTwice == Spec => []PagesJoinUp
<1>1. Paged => PagesJoinUp  BY DEF Paged
<1> QED  BY <1>1, AlwaysPaged, PTL

\* Where NADA gives the total and no page fails, a fetch within MaxRows and MaxPages
\* has every row, and a code list that says it is complete is, unless NADA caps the
\* one page it is made from.
THEOREM NoRowMissed == Spec => []CompleteWithTotals
<1>1. ASSUME Paged, Codelisted  PROVE CompleteWithTotals
  <2> SUFFICES ASSUME Answered, server.totals, ~broken
               PROVE  /\ \A i \in DOMAIN got : Within(i)
                      /\ call.tool = "codelist" /\ answer.is_complete /\ server.cap >= MaxEntries =>
                           answer.entries = {r.geo : r \in ToSet(table)} \ {None}
    BY DEF CompleteWithTotals, Within, PerPage
  <2>1. \A i \in DOMAIN got : Within(i)  BY <1>1 DEF Paged
  <2> QED  BY <1>1, <2>1, CodelistWhole
<1> QED  BY <1>1, AlwaysPaged, PTL

-----------------------------------------------------------------------------
(* What the tools leave to NADA. *)

Singles == {"rank", "extremes", "summarize", "outliers", "benchmark", "coverage"}
Grouped == {"compare", "growth", "trend", "aggregate"}

\* How a tool calls: with one filter, or with two; with the geographies that its
\* function is given, with none, or, a join, with any; and how many a ranking is to show.
Called ==
  /\ call.tool \in Singles \cup Grouped \cup {"correlate", "join", "codelist"}
  /\ call.tool \in Singles \cup {"correlate"} => call.codes = {}
  /\ call.tool \in Grouped => call.codes = call.args
  /\ call.tool \in Singles \cup Grouped => Len(call.dims) = 1
  /\ call.tool \in {"correlate", "join"} => Len(call.dims) = 2
  /\ call.tool = "rank" => call.args.n \in Int
  /\ call.tool = "outliers" => call.args.threshold2 \in Thresholds

\* When all is fetched there is one result for each filter, and the answer is that of
\* the tool's function.
Asking ==
  /\ pc # "idle" => Called
  /\ pc = "reply" => Len(got) = Len(call.dims)
  /\ Answered /\ call.tool # "codelist" =>
       /\ Len(got) = Len(call.dims)
       /\ answer = Analysis(got[1], got[Len(got)])

LEMMA CallsCalled == ASSUME AllCalls  PROVE Called'
<1> USE DEF Called, Call, Singles, Grouped
<1>1. CASE CallRank  BY <1>1 DEF CallRank
<1>2. CASE CallExtremes  BY <1>2 DEF CallExtremes
<1>3. CASE CallCompare  BY <1>3 DEF CallCompare
<1>4. CASE CallSummarize  BY <1>4 DEF CallSummarize
<1>5. CASE CallGrowth  BY <1>5 DEF CallGrowth
<1>6. CASE CallCorrelate  BY <1>6 DEF CallCorrelate
<1>7. CASE CallOutliers  BY <1>7 DEF CallOutliers
<1>8. CASE CallTrend  BY <1>8 DEF CallTrend
<1>9. CASE CallBenchmark  BY <1>9 DEF CallBenchmark
<1>10. CASE CallCoverage  BY <1>10 DEF CallCoverage
<1>11. CASE CallJoin  BY <1>11 DEF CallJoin
<1>12. CASE CallAggregate  BY <1>12 DEF CallAggregate
<1>13. CASE CallCodelist  BY <1>13 DEF CallCodelist
<1> QED
  BY <1>1, <1>2, <1>3, <1>4, <1>5, <1>6, <1>7, <1>8, <1>9, <1>10, <1>11, <1>12, <1>13
  DEF AllCalls

LEMMA NextAsking == ASSUME Paged, Asking, [Next]_vars  PROVE Asking'
<1>1. CASE AllCalls
  <2>1. Called'  BY <1>1, CallsCalled
  <2>2. pc' = "schema"  BY <1>1, CallsAreCalls DEF AnyCall, Call
  <2> QED  BY <2>1, <2>2 DEF Asking, Answered
<1>2. CASE SchemaArrives \/ RequestFails
  <2>1. /\ pc # "idle" /\ pc' \in {"page", "failed"} /\ call' = call
    BY <1>2 DEF SchemaArrives, RequestFails
  <2> QED  BY <2>1 DEF Asking, Answered, Called
<1>3. CASE CodelistArrives
  <2>1. pc # "idle" /\ pc' = "done" /\ call' = call /\ call.tool = "codelist"
    BY <1>3 DEF CodelistArrives
  <2> QED  BY <2>1 DEF Asking, Called
<1>4. CASE PageArrives
  <2>1. pc = "page" /\ pc' = "page" /\ call' = call  BY <1>4 DEF PageArrives, Fetching
  <2> QED  BY <2>1 DEF Asking, Answered, Called
<1>5. CASE LaterPageFails \/ FetchEnds
  <2>1. /\ pc = "page" /\ call' = call
        /\ pc' = IF Len(got') = Len(call.dims) THEN "reply" ELSE "page"
    BY <1>5 DEF LaterPageFails, FetchEnds, NextFetch, Fetching
  <2> QED  BY <2>1 DEF Asking, Answered, Called
<1>6. CASE Reply
  <2>1. /\ pc = "reply" /\ pc' = "done" /\ call' = call /\ got' = got
        /\ answer' = Analysis(got[1], got[Len(got)])
    BY <1>6 DEF Reply
  <2>2. Analysis(got[1], got[Len(got)])' = Analysis(got[1], got[Len(got)])
    BY <2>1 DEF Analysis
  <2> HIDE DEF Analysis
  <2> QED  BY <2>1, <2>2 DEF Asking, Called
<1>7. CASE UNCHANGED vars
  <2>1. Analysis(got[1], got[Len(got)])' = Analysis(got[1], got[Len(got)])
    BY <1>7 DEF vars, Analysis
  <2> HIDE DEF Analysis
  <2> QED  BY <1>7, <2>1 DEF vars, Asking, Answered, Called
<1> QED  BY <1>1, <1>2, <1>3, <1>4, <1>5, <1>6, <1>7 DEF Next, AllCalls

LEMMA AlwaysAsking == Spec => [](Paged /\ Asking)
<1>1. Init => Paged /\ Asking
  <2>1. Init => Paged  BY InitPaged
  <2>2. Init => Asking  BY DEF Init, Asking, Answered
  <2> QED  BY <2>1, <2>2
<1>2. Paged /\ Asking /\ [Next]_vars => (Paged /\ Asking)'  BY NextPaged, NextAsking
<1> QED  BY <1>1, <1>2, PTL DEF Spec

\* Of what NADA has for a request, the tool takes the rows of its dimension: those of
\* all rows, or of the rows of the geographies.
LEMMA FilteredMatching ==
  ASSUME table \in Tables, NEW codes, NEW d
  PROVE  /\ table \in Seq(Rows) /\ Filtered(table, d) \in Seq(Rows)
         /\ codes = {} => Filtered(Matching(codes, d), d) = Filtered(table, d)
         /\ codes # {} =>
              /\ Filtered(Matching(codes, d), d) = OfGeos(Filtered(table, d), codes)
              /\ Filtered(Matching(codes, d), d) = Filtered(OfGeos(table, codes), d)
<1> DEFINE t == table  m == Matching(codes, d)  f == Filtered(t, d)  g == OfGeos(t, codes)
           C == Chosen(server.filters, codes, d)  D == InDim(Rows, d)  G == InGeos(Rows, codes)
<1>1. t \in Seq(Rows) /\ m = Among(t, C)  BY SelectedIs DEF Matching
<1>2. m \in Seq(Rows)  BY MatchingTyped
<1>3. Filtered(m, d) = Among(m, D) /\ f = Among(t, D) /\ g = Among(t, G)
  BY <1>1, <1>2, FilteredIs, OfGeosIs
<1>4. f \in Seq(Rows) /\ g \in Seq(Rows)  BY <1>1, <1>3, AmongTyped
<1>5. OfGeos(f, codes) = Among(f, G) /\ Filtered(g, d) = Among(g, D)
  BY <1>4, FilteredIs, OfGeosIs
<1>6. codes = {} => C \cap D = D  BY DEF Chosen, InDim
<1>7. codes # {} => C \cap D = D \cap G /\ D \cap G = G \cap D
  BY DEF Chosen, InDim, InGeos
<1> HIDE DEF t, m, f, g, C, D, G
<1>8. Filtered(m, d) = Among(t, C \cap D)  BY <1>1, <1>3, AmongTwice
<1>9. OfGeos(f, codes) = Among(t, D \cap G)  BY <1>1, <1>3, <1>5, AmongTwice
<1>10. Filtered(g, d) = Among(t, G \cap D)  BY <1>1, <1>3, <1>5, AmongTwice
<1>11. t \in Seq(Rows) /\ f \in Seq(Rows)  BY <1>1, <1>4
<1>12. codes = {} => Filtered(m, d) = f  BY <1>3, <1>6, <1>8
<1>13. codes # {} => Filtered(m, d) = OfGeos(f, codes) /\ Filtered(m, d) = Filtered(g, d)
  BY <1>7, <1>8, <1>9, <1>10
<1> QED  BY <1>11, <1>12, <1>13 DEF t, m, f, g

\* From a complete fetch the answer is that of the tool's function on all the rows, a
\* join's on those of its geographies.
LEMMA AnswerOfWhole ==
  ASSUME Paged, Asking, Answered, Complete, call.tool # "codelist"
  PROVE  LET whole == IF call.tool # "join" \/ call.codes = {} THEN table
                      ELSE OfGeos(table, call.codes)
         IN  answer = Analysis(whole, whole)
<1> DEFINE d1 == call.dims[1]  d2 == call.dims[2]  a == call.args  c == call.codes
           one == got[1]  two == got[Len(got)]
           whole == IF call.tool # "join" \/ c = {} THEN table ELSE OfGeos(table, c)
<1>1. /\ Called /\ answer = Analysis(one, two) /\ table \in Tables
      /\ Len(got) = Len(call.dims) /\ got \in Seq(Seq(Rows))
  BY DEF Asking, Answered, Paged, Typed
<1>2. call.tool \in Singles \cup Grouped =>
        Len(got) = 1 /\ one = Matching(c, d1) /\ two = Matching(c, d1)
  BY <1>1 DEF Called, Complete, All
<1>3. call.tool \in {"correlate", "join"} =>
        Len(got) = 2 /\ one = Matching(c, d1) /\ two = Matching(c, d2)
  BY <1>1 DEF Called, Complete, All
<1> DEFINE f1 == Filtered(one, d1)  f2 == Filtered(two, d2)
           g1 == Filtered(whole, d1)  g2 == Filtered(whole, d2)
<1>4. CASE call.tool \in Singles
  <2>1. c = {} /\ whole = table  BY <1>1, <1>4 DEF Called, Singles
  <2>2. f1 = g1  BY <1>1, <1>2, <1>4, <2>1, FilteredMatching
  <2> HIDE DEF f1, g1
  <2>3. Analysis(one, two) = Analysis(whole, whole)
    BY <1>4, <2>2 DEF Analysis, Singles, f1, g1
  <2> QED  BY <1>1, <2>3
<1>5. CASE call.tool = "correlate"
  <2>1. c = {} /\ whole = table  BY <1>1, <1>5 DEF Called
  <2>2. f1 = g1 /\ f2 = g2  BY <1>1, <1>3, <1>5, <2>1, FilteredMatching
  <2> HIDE DEF f1, g1, f2, g2
  <2>3. Analysis(one, two) = Analysis(whole, whole)
    BY <1>5, <2>2 DEF Analysis, f1, g1, f2, g2
  <2> QED  BY <1>1, <2>3
<1>6. CASE call.tool = "join"
  <2>1. f1 = g1 /\ f2 = g2  BY <1>1, <1>3, <1>6, FilteredMatching
  <2> HIDE DEF f1, g1, f2, g2
  <2>2. Analysis(one, two) = Analysis(whole, whole)
    BY <1>6, <2>1 DEF Analysis, f1, g1, f2, g2
  <2> QED  BY <1>1, <2>2
<1>7. CASE call.tool \in Grouped
  <2>1. c = a /\ whole = table /\ one = Matching(c, d1)
    BY <1>1, <1>2, <1>7 DEF Called, Grouped
  <2>2. g1 \in Seq(Rows) /\ f1 = IF c = {} THEN g1 ELSE OfGeos(g1, c)
    BY <1>1, <2>1, FilteredMatching
  <2>3. CASE c = {}
    <3>1. f1 = g1  BY <2>2, <2>3
    <3> HIDE DEF f1, g1
    <3>2. Analysis(one, two) = Analysis(whole, whole)
      BY <1>7, <3>1 DEF Analysis, Grouped, f1, g1
    <3> QED  BY <1>1, <3>2
  <2>4. CASE c # {}
    <3>1. g1 \in Seq(Rows) /\ f1 = OfGeos(g1, c)  BY <2>2, <2>4
    <3> HIDE DEF f1, g1
    <3>2. /\ Compare(f1, c) = Compare(g1, c)
          /\ Growth(f1, c, Base, Period) = Growth(g1, c, Base, Period)
          /\ Trend(f1, c) = Trend(g1, c)
          /\ Aggregate(f1, c) = Aggregate(g1, c)
      BY <2>4, <3>1, CompareOfGeos, GrowthOfGeos, TrendOfGeos, AggregateOfGeos
    <3>3. Analysis(one, two) = Analysis(whole, whole)
      BY <1>7, <2>1, <3>2 DEF Analysis, Grouped, f1, g1
    <3> QED  BY <1>1, <3>3
  <2> QED  BY <2>3, <2>4
<1>8. call.tool \in Singles \cup Grouped \cup {"correlate", "join"}
  BY <1>1 DEF Called
<1> HIDE DEF one, two, f1, f2, g1, g2
<1> QED  BY <1>4, <1>5, <1>6, <1>7, <1>8

\* What a tool leaves to NADA changes nothing but the traffic, whatever the rows: from
\* a complete fetch it answers what it would from all the rows NADA holds.
THEOREM LeavingItToNadaIsSound == Spec => []PushdownSound
<1>1. Paged /\ Asking => PushdownSound  BY AnswerOfWhole DEF PushdownSound
<1> QED  BY <1>1, AlwaysAsking, PTL

-----------------------------------------------------------------------------
(* Sums and orders of numbers. *)

\* A sum of naturals is that of all but one, and the one.
LEMMA SumOfOneMore ==
  ASSUME NEW X, IsFiniteSet(X), NEW f, \A t \in X : f[t] \in Nat
  PROVE  /\ SumFunctionOnSet(f, {}) = 0
         /\ \A s \in SUBSET X : /\ SumFunctionOnSet(f, s) \in Nat
                                /\ \A t \in s : SumFunctionOnSet(f, s)
                                                  = f[t] + SumFunctionOnSet(f, s \ {t})
<1> DEFINE Upto(t) == {t} \X (1..f[t])
           U == UNION {Upto(t) : t \in X}
           kind == [u \in U |-> u[1]]
<1>1. ASSUME NEW t \in X  PROVE IsFiniteSet(Upto(t)) /\ Cardinality(Upto(t)) = f[t]
  <2>1. IsFiniteSet(1..f[t]) /\ Cardinality(1..f[t]) = f[t]  BY UpTo
  <2>2. IsFiniteSet({t}) /\ Cardinality({t}) = 1  BY FS_Singleton
  <2>3. f[t] \in Nat  OBVIOUS
  <2> DEFINE A == {t}  B == 1..f[t]
  <2> HIDE DEF A, B
  <2>4. IsFiniteSet(A \X B) /\ Cardinality(A \X B) = Cardinality(A) * Cardinality(B)
    BY <2>1, <2>2, FS_Product DEF A, B
  <2> QED  BY <2>1, <2>2, <2>3, <2>4 DEF A, B
<1>2. IsFiniteSet(U)
  <2> DEFINE all == {Upto(t) : t \in X}
  <2>1. IsFiniteSet(all)
    <3> DEFINE g == [t \in X |-> Upto(t)]
    <3> HIDE DEF Upto
    <3>1. g \in Surjection(X, all)  BY DEF Surjection
    <3> QED  BY <3>1, FS_Surjection
  <2>2. \A A \in all : IsFiniteSet(A)  BY <1>1
  <2> HIDE DEF all
  <2>3. IsFiniteSet(UNION all)  BY <2>1, <2>2, FS_UNION
  <2> QED  BY <2>3 DEF all
<1>3. ASSUME NEW t \in X  PROVE f[t] = Cardinality({u \in U : kind[u] = t})
  <2>1. {u \in U : kind[u] = t} = Upto(t)
    <3>1. \A u \in U : kind[u] = u[1]  OBVIOUS
    <3>2. \A u \in U : u[1] = t => u \in Upto(t)  OBVIOUS
    <3>3. \A u \in Upto(t) : u \in U /\ u[1] = t  OBVIOUS
    <3> HIDE DEF U, Upto, kind
    <3> QED  BY <3>1, <3>2, <3>3
  <2> QED  BY <1>1, <2>1
<1> HIDE DEF U, kind
<1>4. ASSUME NEW s \in SUBSET X
      PROVE  /\ SumFunctionOnSet(f, s) = Cardinality(OfKind(U, kind, s))
             /\ IsFiniteSet(OfKind(U, kind, s)) /\ SumFunctionOnSet(f, s) \in Nat
  <2>1. IsFiniteSet(s)  BY FS_Subset
  <2>2. SumFunctionOnSet(f, s) = Cardinality(OfKind(U, kind, s))
    <3>1. \A t \in s : f[t] = Cardinality({u \in U : kind[u] = t})  BY <1>3
    <3> QED  BY <1>2, <2>1, <3>1, SumOfCounts
  <2>3. OfKind(U, kind, s) \in SUBSET U  BY DEF OfKind
  <2>4. IsFiniteSet(OfKind(U, kind, s))  BY <1>2, <2>3, FS_Subset
  <2> QED  BY <2>2, <2>4, FS_CardinalityType
<1>5. ASSUME NEW s \in SUBSET X, NEW t \in s
      PROVE  SumFunctionOnSet(f, s) = f[t] + SumFunctionOnSet(f, s \ {t})
  <2> DEFINE A == {u \in U : kind[u] = t}  B == OfKind(U, kind, s \ {t})
  <2>1. OfKind(U, kind, s) = A \cup B /\ A \cap B = {}  BY DEF OfKind
  <2>2. A \in SUBSET U  OBVIOUS
  <2>3. f[t] = Cardinality(A)  BY <1>3
  <2>4. s \ {t} \in SUBSET X  OBVIOUS
  <2>5. IsFiniteSet(B) /\ SumFunctionOnSet(f, s \ {t}) = Cardinality(B)  BY <1>4, <2>4
  <2> HIDE DEF A, B
  <2>6. IsFiniteSet(A)  BY <1>2, <2>2, FS_Subset
  <2>7. Cardinality({}) = 0  BY FS_EmptySet
  <2>8. Cardinality(A \cup B) = Cardinality(A) + Cardinality(B) - 0
    BY <2>1, <2>5, <2>6, <2>7, FS_Union
  <2>9. Cardinality(A) \in Nat /\ Cardinality(B) \in Nat  BY <2>5, <2>6, FS_CardinalityType
  <2>10. SumFunctionOnSet(f, s) = Cardinality(A \cup B)  BY <1>4, <2>1
  <2> QED  BY <2>3, <2>5, <2>8, <2>9, <2>10
<1>6. SumFunctionOnSet(f, {}) = 0
  <2>1. {} \in SUBSET X  OBVIOUS
  <2>2. OfKind(U, kind, {}) = {}  BY DEF OfKind
  <2> QED  BY <1>4, <2>1, <2>2, FS_EmptySet
<1> QED  BY <1>4, <1>5, <1>6

\* A sum of integers is one: what the positive ones add up to less what the others do.
LEMMA SumIsInt ==
  ASSUME NEW X, IsFiniteSet(X), NEW f, \A t \in X : f[t] \in Int
  PROVE  SumFunctionOnSet(f, X) \in Int
<1> DEFINE step(i, s) == IF s = {} THEN 0
                         ELSE LET t == CHOOSE y \in s : TRUE IN f[t] + i[s \ {t}]
           IsSum(i) == i = [s \in SUBSET X |-> step(i, s)]
           gains == [t \in X |-> IF f[t] > 0 THEN f[t] ELSE 0]
           losses == [t \in X |-> IF f[t] > 0 THEN 0 ELSE -f[t]]
           w == [s \in SUBSET X |-> SumFunctionOnSet(gains, s) - SumFunctionOnSet(losses, s)]
<1>1. SumFunctionOnSet(f, X) = (CHOOSE i : IsSum(i))[X]
  BY DEF SumFunctionOnSet, FoldFunctionOnSet, MapThenFoldSet
<1>2. ASSUME NEW s \in SUBSET X  PROVE IsFiniteSet(s)  BY FS_Subset
<1>3. \A t \in X : gains[t] \in Nat /\ losses[t] \in Nat /\ f[t] = gains[t] - losses[t]
  OBVIOUS
<1> HIDE DEF gains, losses
<1>4. /\ SumFunctionOnSet(gains, {}) = 0
      /\ \A s \in SUBSET X :
           /\ SumFunctionOnSet(gains, s) \in Nat
           /\ \A t \in s : SumFunctionOnSet(gains, s)
                             = gains[t] + SumFunctionOnSet(gains, s \ {t})
  BY <1>3, SumOfOneMore
<1>5. /\ SumFunctionOnSet(losses, {}) = 0
      /\ \A s \in SUBSET X :
           /\ SumFunctionOnSet(losses, s) \in Nat
           /\ \A t \in s : SumFunctionOnSet(losses, s)
                             = losses[t] + SumFunctionOnSet(losses, s \ {t})
  BY <1>3, SumOfOneMore
<1>6. w[{}] = 0 /\ \A s \in SUBSET X : w[s] \in Int /\ \A t \in s : w[s] = f[t] + w[s \ {t}]
  <2>1. ASSUME NEW s \in SUBSET X, NEW t \in s  PROVE w[s] = f[t] + w[s \ {t}]
    <3>1. s \ {t} \in SUBSET X /\ t \in X  OBVIOUS
    <3>2. /\ SumFunctionOnSet(gains, s) = gains[t] + SumFunctionOnSet(gains, s \ {t})
          /\ SumFunctionOnSet(losses, s) = losses[t] + SumFunctionOnSet(losses, s \ {t})
      BY <1>4, <1>5
    <3>3. /\ SumFunctionOnSet(gains, s \ {t}) \in Nat
          /\ SumFunctionOnSet(losses, s \ {t}) \in Nat
      BY <1>4, <1>5, <3>1
    <3> QED  BY <1>3, <3>1, <3>2, <3>3
  <2>2. w[{}] = 0  BY <1>4, <1>5
  <2>3. ASSUME NEW s \in SUBSET X  PROVE w[s] \in Int
    <3>1. SumFunctionOnSet(gains, s) \in Nat /\ SumFunctionOnSet(losses, s) \in Nat
      BY <1>4, <1>5
    <3> QED  BY <3>1
  <2> HIDE DEF w
  <2> QED  BY <2>1, <2>2, <2>3
<1> HIDE DEF w
<1>7. w = [s \in SUBSET X |-> w[s]]  BY DEF w
<1>8. IsSum(w)
  <2>1. ASSUME NEW s \in SUBSET X  PROVE w[s] = step(w, s)
    <3>1. CASE s = {}  BY <1>6, <3>1
    <3>2. CASE s # {}
      <4> DEFINE t == CHOOSE y \in s : TRUE
      <4>1. t \in s  BY <3>2
      <4> HIDE DEF t
      <4>2. w[s] = f[t] + w[s \ {t}]  BY <1>6, <4>1
      <4> QED  BY <3>2, <4>2 DEF t
    <3> QED  BY <3>1, <3>2
  <2> QED  BY <1>7, <2>1
<1>9. ASSUME NEW i, IsSum(i)  PROVE i[X] = w[X]
  <2> DEFINE Wrong == {s \in SUBSET X : i[s] # w[s]}
  <2> SUFFICES ASSUME Wrong # {}  PROVE FALSE  OBVIOUS
  <2> DEFINE sizes == {Cardinality(s) : s \in Wrong}
  <2>1. sizes \in SUBSET Nat /\ sizes # {}
    <3>1. \A s \in Wrong : IsFiniteSet(s)  BY <1>2
    <3> HIDE DEF Wrong
    <3>2. \A s \in Wrong : Cardinality(s) \in Nat  BY <3>1, FS_CardinalityType
    <3> QED  BY <3>2
  <2>2. PICK n \in sizes : \A m \in sizes : n <= m  BY <2>1, HasLeast
  <2>3. PICK s \in Wrong : Cardinality(s) = n  OBVIOUS
  <2>4. i[s] = step(i, s) /\ w[s] = step(w, s)  BY <1>8, <1>9
  <2>5. s # {}  BY <2>3, <2>4
  <2> DEFINE t == CHOOSE y \in s : TRUE
  <2>6. t \in s  BY <2>5
  <2>7. i[s] = f[t] + i[s \ {t}] /\ w[s] = f[t] + w[s \ {t}]  BY <2>4, <2>5
  <2> HIDE DEF t
  <2>8. s \ {t} \in SUBSET X /\ IsFiniteSet(s)  BY <1>2
  <2>9. Cardinality(s \ {t}) = Cardinality(s) - 1 /\ Cardinality(s) \in Nat
    BY <2>6, <2>8, FS_RemoveElement, FS_CardinalityType
  <2>10. Cardinality(s \ {t}) < n  BY <2>3, <2>9
  <2>11. s \ {t} \notin Wrong
    <3> SUFFICES ASSUME s \ {t} \in Wrong  PROVE FALSE  OBVIOUS
    <3>1. Cardinality(s \ {t}) \in sizes  OBVIOUS
    <3> HIDE DEF sizes, Wrong
    <3>2. n <= Cardinality(s \ {t})  BY <2>2, <3>1
    <3> QED  BY <2>3, <2>9, <2>10, <3>2
  <2>12. i[s \ {t}] = w[s \ {t}]  BY <2>8, <2>11
  <2> QED  BY <2>3, <2>7, <2>12
<1> HIDE DEF IsSum
<1>10. IsSum(CHOOSE i : IsSum(i))  BY <1>8
<1>11. (CHOOSE i : IsSum(i))[X] = w[X]  BY <1>9, <1>10
<1> QED  BY <1>1, <1>6, <1>11

LEMMA SpreadIsInt ==
  ASSUME NEW s \in Seq(Int), NEW t \in Seq(Int), Len(s) = Len(t)
  PROVE  Spread(s, t) \in Int
<1>1. DOMAIN s = 1..Len(s) /\ DOMAIN t = 1..Len(s) /\ Len(s) \in Nat  OBVIOUS
<1>2. IsFiniteSet(1..Len(s))  BY UpTo
<1> DEFINE p == Products(s, t)
<1>3. DOMAIN p = 1..Len(s) /\ \A i \in 1..Len(s) : p[i] \in Int  BY <1>1 DEF Products
<1> HIDE DEF p
<1>4. SumFunctionOnSet(p, 1..Len(s)) \in Int  BY <1>2, <1>3, SumIsInt
<1>5. SumFunctionOnSet(s, 1..Len(s)) \in Int /\ SumFunctionOnSet(t, 1..Len(s)) \in Int
  BY <1>1, <1>2, SumIsInt
<1> QED  BY <1>1, <1>3, <1>4, <1>5 DEF Spread, SumFunction, p

\* Places in the order of their keys, those with one key as they were.
ByKey(n, k) == {p \in (1..n) \X (1..n) : k[p[1]] < k[p[2]] \/ (k[p[1]] = k[p[2]] /\ p[1] < p[2])}

Ranked(n, k) == InOrder(1..n, ByKey(n, k))

Ranking(n, k, o) ==
  /\ o \in Seq(1..n) /\ Len(o) = n /\ DOMAIN o = 1..n
  /\ \A i \in 1..n : o[i] \in 1..n
  /\ \A i, j \in 1..n : o[i] = o[j] => i = j
  /\ \A m \in 1..n : \E i \in 1..n : o[i] = m
  /\ \A i, j \in 1..n : i <= j => k[o[i]] <= k[o[j]]

LEMMA KeyOrder ==
  ASSUME NEW n \in Nat, NEW k \in [1..n -> Int]
  PROVE  Ranking(n, k, Ranked(n, k))
<1> DEFINE o == Ranked(n, k)
<1>1. IsFiniteSet(1..n) /\ Cardinality(1..n) = n  BY UpTo
<1>2. Orders(ByKey(n, k), 1..n)
  <2>1. \A x, y \in 1..n :
          <<x, y>> \in ByKey(n, k) <=> k[x] < k[y] \/ (k[x] = k[y] /\ x < y)
    BY DEF ByKey
  <2>2. \A x \in 1..n : k[x] \in Int  OBVIOUS
  <2> QED  BY <2>1, <2>2 DEF Orders
<1>3. /\ o \in Seq(1..n) /\ Len(o) = n /\ IsInjective(o) /\ ToSet(o) = 1..n
      /\ \A i, j \in 1..n : i < j => <<o[i], o[j]>> \in ByKey(n, k)
  BY <1>1, <1>2, InOrderIs DEF Ranked
<1> HIDE DEF o
<1>4. DOMAIN o = 1..n  BY <1>3
<1>5. \A i \in 1..n : o[i] \in 1..n  BY <1>3
<1>6. \A i, j \in 1..n : i < j => k[o[i]] <= k[o[j]]
  <2>1. \A x, y \in 1..n : <<x, y>> \in ByKey(n, k) => k[x] <= k[y]  BY DEF ByKey
  <2> QED  BY <1>3, <1>5, <2>1
<1>7. \A i, j \in 1..n : i <= j => k[o[i]] <= k[o[j]]
  <2>1. \A i \in 1..n : k[o[i]] <= k[o[i]]  BY <1>5
  <2> QED  BY <1>6, <2>1
<1>8. \A m \in 1..n : \E i \in 1..n : o[i] = m  BY <1>3, <1>4 DEF ToSet
<1>9. \A i, j \in 1..n : o[i] = o[j] => i = j  BY <1>3, <1>4 DEF IsInjective
<1> QED  BY <1>3, <1>4, <1>5, <1>7, <1>8, <1>9 DEF Ranking, o

\* The numbers of a list, from the least to the greatest.
Ordered(s) == [i \in 1..Len(s) |-> s[Ranked(Len(s), s)[i]]]

IsOrdered(s, o) ==
  /\ o \in Seq(Int) /\ Len(o) = Len(s) /\ DOMAIN o = 1..Len(s)
  /\ \A i \in 1..Len(s) : \E j \in 1..Len(s) : o[i] = s[j]
  /\ \A i \in 1..Len(s) : \E j \in 1..Len(s) : s[i] = o[j]
  /\ \A i, j \in 1..Len(s) : i <= j => o[i] <= o[j]

LEMMA OrderedIs ==
  ASSUME NEW s \in Seq(Int)
  PROVE  IsOrdered(s, Ordered(s))
<1> DEFINE n == Len(s)  r == Ranked(n, s)  o == Ordered(s)
<1>1. n \in Nat /\ s \in [1..n -> Int]  OBVIOUS
<1> HIDE DEF n
<1>2. Ranking(n, s, r)  BY <1>1, KeyOrder
<1>3. o = [i \in 1..n |-> s[r[i]]]  BY DEF Ordered, n
<1> HIDE DEF r, o
<1>4. \A i \in 1..n : r[i] \in 1..n /\ s[r[i]] \in Int  BY <1>1, <1>2 DEF Ranking
<1>5. o \in Seq(Int) /\ Len(o) = n /\ DOMAIN o = 1..n /\ \A i \in 1..n : o[i] = s[r[i]]
  BY <1>1, <1>3, <1>4
<1>6. \A i \in 1..n : \E j \in 1..n : o[i] = s[j]  BY <1>4, <1>5
<1>7. \A i \in 1..n : \E j \in 1..n : s[i] = o[j]
  <2> TAKE i \in 1..n
  <2>1. PICK j \in 1..n : r[j] = i  BY <1>2 DEF Ranking
  <2>2. o[j] = s[r[j]]  BY <1>5
  <2>3. s[i] = o[j]  BY <2>1, <2>2
  <2> QED  BY <2>3
<1>8. \A i, j \in 1..n : i <= j => o[i] <= o[j]
  <2>1. \A i, j \in 1..n : i <= j => s[r[i]] <= s[r[j]]  BY <1>2 DEF Ranking
  <2> QED  BY <1>5, <2>1
<1> QED  BY <1>5, <1>6, <1>7, <1>8 DEF IsOrdered, o, n

LEMMA SortedByValue ==
  ASSUME NEW s \in Seq(Int)
  PROVE  /\ {p \in (DOMAIN s) \X (DOMAIN s) :
                s[p[1]] < s[p[2]] \/ (~(s[p[2]] < s[p[1]]) /\ p[1] < p[2])} = ByKey(Len(s), s)
         /\ DOMAIN s = 1..Len(s)
<1>1. DOMAIN s = 1..Len(s) /\ Len(s) \in Nat /\ \A i \in 1..Len(s) : s[i] \in Int  OBVIOUS
<1> QED  BY <1>1 DEF ByKey

\* Twice the median of a list is twice the value in its middle, or the sum of the two there.
LEMMA MedianIs ==
  ASSUME NEW s \in Seq(Int), Len(s) > 0
  PROVE  /\ Median2(s) \in Int
         /\ \E i \in 1..Len(s) : 2 * s[i] <= Median2(s)
         /\ (\A i \in 1..Len(s) : s[i] >= 0) => Median2(s) >= 0
<1> DEFINE o == Ordered(s)  n == Len(s)
<1>1. Median2(s) = o[(n + 1) \div 2] + o[(n \div 2) + 1]
  BY SortedByValue DEF Median2, Sorted, Ordered, Ranked
<1>2. /\ DOMAIN o = 1..n /\ o \in Seq(Int) /\ n \in Nat /\ n > 0
      /\ \A i \in 1..n : \E j \in 1..n : o[i] = s[j]
      /\ \A i, j \in 1..n : i <= j => o[i] <= o[j]
  BY OrderedIs DEF IsOrdered
<1>3. (n + 1) \div 2 \in 1..n /\ (n \div 2) + 1 \in 1..n /\ 1 \in 1..n
  <2>1. n \in Nat /\ n > 0  BY <1>2
  <2> HIDE DEF n, o
  <2> QED  BY <2>1
<1> HIDE DEF o
<1> DEFINE a == o[(n + 1) \div 2]  b == o[(n \div 2) + 1]
<1>4. a \in Int /\ b \in Int /\ o[1] \in Int /\ o[1] <= a /\ o[1] <= b
  BY <1>2, <1>3
<1>5. PICK j \in 1..n : o[1] = s[j]  BY <1>2, <1>3
<1>6. (\A i \in 1..n : s[i] >= 0) => o[1] >= 0  BY <1>5
<1> HIDE DEF a, b, n
<1>7. Median2(s) = a + b  BY <1>1 DEF a, b
<1>8. 2 * s[j] <= Median2(s)  BY <1>4, <1>5, <1>7
<1>9. (\A i \in 1..n : s[i] >= 0) => Median2(s) >= 0  BY <1>4, <1>6, <1>7
<1> QED  BY <1>4, <1>5, <1>7, <1>8, <1>9 DEF n

-----------------------------------------------------------------------------
(* What is flagged. *)

\* Of the values of a list, flagged are the places out; not all of them, if strict.
Outside(vals, out, strict) ==
  /\ \A i \in out : i \in DOMAIN vals /\
       (\/ \A j \in DOMAIN vals : vals[j] >= vals[i] => j \in out
        \/ \A j \in DOMAIN vals : vals[j] <= vals[i] => j \in out)
  /\ strict /\ DOMAIN vals # {} => \E j \in DOMAIN vals : j \notin out

\* The greater a distance, the greater its square.
LEMMA SquareGrows ==
  ASSUME NEW a \in Nat, NEW b \in Nat, a <= b, NEW n \in Nat
  PROVE  /\ a * a * n * n \in Nat /\ b * b * n * n \in Nat
         /\ a * a * n * n <= b * b * n * n
<1>1. PICK c \in Nat : b = a + c
  <2>1. b - a \in Nat /\ b = a + (b - a)  OBVIOUS
  <2> QED  BY <2>1
<1>2. b * b = a * a + (2 * a * c + c * c)  BY <1>1
<1>3. 2 * a * c + c * c \in Nat /\ a * a \in Nat  BY <1>1
<1> DEFINE x == a * a  y == 2 * a * c + c * c
<1>4. x \in Nat /\ y \in Nat /\ b * b = x + y  BY <1>2, <1>3
<1> HIDE DEF x, y
<1>5. (x + y) * n * n = x * n * n + y * n * n  BY <1>4
<1>6. y * n \in Nat /\ x * n \in Nat  BY <1>4
<1>7. y * n * n \in Nat /\ x * n * n \in Nat  BY <1>6
<1>8. x * n * n <= (x + y) * n * n /\ (x + y) * n * n \in Nat  BY <1>5, <1>7
<1> QED  BY <1>4, <1>7, <1>8 DEF x

\* The modified z-score, and the score in its place where most values are one: the farther
\* from the median the greater, and the value in the middle has a small one.
LEMMA FlaggedByZIsOutside ==
  ASSUME NEW vals \in Seq(Int), NEW t \in Int
  PROVE  Outside(vals, FlaggedByModifiedZ(vals, t), t >= 7)
<1> DEFINE n == Len(vals)  d == Distances(vals)  mid == Median2(vals)  mad == Median2(d)
           sp == Spread(vals, vals)  out == FlaggedByModifiedZ(vals, t)
           least == 1000 * t * mad  square == t * t * sp
           reached(i) == IF mad > 0 THEN 2698 * d[i] >= least
                         ELSE t <= 0 \/ (sp > 0 /\ d[i] * d[i] * n * n >= square)
<1>1. n \in Nat /\ DOMAIN vals = 1..n /\ \A i \in 1..n : vals[i] \in Int  OBVIOUS
<1>2. sp \in Int  BY SpreadIsInt
<1>3. CASE n = 0
  <2>1. DOMAIN vals = {}  BY <1>1, <1>3
  <2>2. out = {}  BY <2>1 DEF FlaggedByModifiedZ
  <2> HIDE DEF out
  <2>3. Outside(vals, out, t >= 7)  BY <2>1, <2>2 DEF Outside
  <2> QED  BY <2>3 DEF out
<1>4. CASE n > 0
  <2>1. mid \in Int  BY <1>4, MedianIs
  <2>2. d = [i \in 1..n |-> IF 2 * vals[i] - mid < 0 THEN -(2 * vals[i] - mid) ELSE 2 * vals[i] - mid]
    BY <1>1 DEF Distances, Abs
  <2> HIDE DEF mid, d, sp
  <2>3. /\ d \in Seq(Int) /\ Len(d) = n
        /\ \A i \in 1..n :
             /\ d[i] \in Nat
             /\ d[i] = IF 2 * vals[i] - mid < 0 THEN -(2 * vals[i] - mid) ELSE 2 * vals[i] - mid
    <3> HIDE DEF n
    <3>1. \A i \in 1..n :
            (IF 2 * vals[i] - mid < 0 THEN -(2 * vals[i] - mid) ELSE 2 * vals[i] - mid) \in Nat
      BY <1>1, <2>1
    <3>2. \A i \in 1..n :
            d[i] = IF 2 * vals[i] - mid < 0 THEN -(2 * vals[i] - mid) ELSE 2 * vals[i] - mid
      BY <2>2
    <3>3. \A i \in 1..n : d[i] \in Nat  BY <3>1, <3>2
    <3>4. d \in Seq(Int) /\ Len(d) = n
      <4>1. d \in [1..n -> Int] /\ n \in Nat  BY <1>1, <2>2, <3>3
      <4> HIDE DEF n
      <4> QED  BY ONLY <4>1
    <3> QED  BY <3>2, <3>3, <3>4
  <2>4. mad \in Int /\ mad >= 0 /\ \E i \in 1..n : 2 * d[i] <= mad
    <3> HIDE DEF n
    <3>1. Len(d) > 0 /\ \A i \in 1..Len(d) : d[i] >= 0  BY <1>4, <2>3
    <3> QED  BY <2>3, <3>1, MedianIs
  <2>5. \A i \in 1..n : i \in out <=> reached(i)
    <3>1. out = {i \in DOMAIN vals :
                   IF mad > 0 THEN 2698 * d[i] >= least
                   ELSE IF sp > 0 THEN t <= 0 \/ d[i] * d[i] * n * n >= square ELSE t <= 0}
      BY DEF FlaggedByModifiedZ, d, sp
    <3> HIDE DEF mad, out, n, least, square
    <3> QED  BY <1>1, <3>1
  <2>6. out \subseteq 1..n  BY <1>1 DEF FlaggedByModifiedZ
  <2> HIDE DEF mad, out
  <2>11. least \in Int /\ square \in Int
    <3>1. 1000 * t \in Int /\ t * t \in Int  OBVIOUS
    <3> QED  BY <1>2, <2>4, <3>1
  <2>12. t >= 7 => /\ t > 0 /\ least >= 7000 * mad
                   /\ sp > 0 => square > 0
    <3> SUFFICES ASSUME t >= 7  PROVE least >= 7000 * mad /\ (sp > 0 => square > 0)  OBVIOUS
    <3>1. PICK k \in Nat : t = k + 7  BY t - 7 \in Nat
    <3>2. k * mad \in Nat  BY <2>4
    <3>3. least = 1000 * (k * mad) + 7000 * mad  BY <2>4, <3>1
    <3>4. least >= 7000 * mad  BY <2>4, <3>2, <3>3
    <3>5. t * t = k * k + 14 * k + 49 /\ k * k \in Nat  BY <3>1
    <3>6. t * t \in Nat \ {0}  BY <3>5
    <3>7. \A x \in Nat \ {0}, y \in Nat \ {0} : x * y \in Nat \ {0}  OBVIOUS
    <3>8. sp > 0 => square > 0  BY <1>2, <3>6, <3>7
    <3> QED  BY <3>4, <3>8
  <2> HIDE DEF least, square
  <2>7. ASSUME NEW i \in out, NEW j \in 1..n, d[i] <= d[j]  PROVE j \in out
    <3>1. i \in 1..n /\ reached(i) /\ d[i] \in Nat /\ d[j] \in Nat  BY <2>3, <2>5, <2>6
    <3>2. CASE mad > 0
      <4>1. 2698 * d[i] >= least  BY <3>1, <3>2
      <4>2. 2698 * d[j] >= 2698 * d[i]  BY <2>7, <3>1
      <4>3. 2698 * d[j] >= least  BY <2>11, <3>1, <4>1, <4>2
      <4> QED  BY <2>5, <3>2, <4>3
    <3>3. CASE ~(mad > 0)
      <4>1. t <= 0 \/ (sp > 0 /\ d[i] * d[i] * n * n >= square)  BY <3>1, <3>3
      <4> DEFINE a == d[i]  b == d[j]
                 x == a * a * n * n  y == b * b * n * n
      <4>2. x \in Nat /\ y \in Nat /\ x <= y
        <5>1. a \in Nat /\ b \in Nat /\ a <= b /\ n \in Nat  BY <1>1, <2>7, <3>1
        <5> HIDE DEF a, b, n
        <5> QED  BY <5>1, SquareGrows
      <4>3. t <= 0 \/ (sp > 0 /\ x >= square)  BY <4>1
      <4> HIDE DEF x, y
      <4>4. t <= 0 \/ (sp > 0 /\ y >= square)  BY <2>11, <4>2, <4>3
      <4> QED  BY <2>5, <3>3, <4>4 DEF y
    <3> QED  BY <3>2, <3>3
  <2>8. ASSUME NEW i \in out
        PROVE  \/ \A j \in 1..n : vals[j] >= vals[i] => j \in out
               \/ \A j \in 1..n : vals[j] <= vals[i] => j \in out
    <3>1. i \in 1..n  BY <2>6
    <3>2. CASE 2 * vals[i] - mid < 0
      <4>1. ASSUME NEW j \in 1..n, vals[j] <= vals[i]  PROVE d[i] <= d[j]
        <5>1. vals[i] \in Int /\ vals[j] \in Int  BY <1>1, <3>1
        <5>2. 2 * vals[j] - mid < 0  BY <2>1, <3>2, <4>1, <5>1
        <5>3. d[i] = -(2 * vals[i] - mid) /\ d[j] = -(2 * vals[j] - mid)  BY <2>3, <3>1, <3>2, <5>2
        <5> QED  BY <2>1, <4>1, <5>1, <5>3
      <4> QED  BY <2>7, <4>1
    <3>3. CASE ~(2 * vals[i] - mid < 0)
      <4>1. ASSUME NEW j \in 1..n, vals[j] >= vals[i]  PROVE d[i] <= d[j]
        <5>1. vals[i] \in Int /\ vals[j] \in Int  BY <1>1, <3>1
        <5>2. ~(2 * vals[j] - mid < 0)  BY <2>1, <3>3, <4>1, <5>1
        <5>3. d[i] = 2 * vals[i] - mid /\ d[j] = 2 * vals[j] - mid  BY <2>3, <3>1, <3>3, <5>2
        <5> QED  BY <2>1, <4>1, <5>1, <5>3
      <4> QED  BY <2>7, <4>1
    <3> QED  BY <3>2, <3>3
  <2>9. t >= 7 => \E j \in 1..n : j \notin out
    <3> SUFFICES ASSUME t >= 7  PROVE \E j \in 1..n : j \notin out  OBVIOUS
    <3>1. PICK j \in 1..n : 2 * d[j] <= mad  BY <2>4
    <3>2. d[j] \in Nat  BY <2>3
    <3>3. CASE mad > 0
      <4>1. ~(2698 * d[j] >= least)  BY <2>4, <2>11, <2>12, <3>1, <3>2, <3>3
      <4> QED  BY <2>5, <3>3, <4>1
    <3>4. CASE ~(mad > 0)
      <4>1. d[j] = 0  BY <2>4, <3>1, <3>2, <3>4
      <4>2. d[j] * d[j] * n * n = 0
        <5>1. 0 * 0 = 0 /\ 0 * n = 0  BY <1>1
        <5> QED  BY <4>1, <5>1
      <4>3. ~(t <= 0 \/ (sp > 0 /\ 0 >= square))  BY <2>11, <2>12
      <4> QED  BY <2>5, <3>4, <4>2, <4>3
    <3> QED  BY <3>3, <3>4
  <2> HIDE DEF n
  <2>10. Outside(vals, out, t >= 7)  BY <1>1, <2>6, <2>8, <2>9 DEF Outside
  <2> QED  BY <2>10 DEF out
<1> QED  BY <1>1, <1>3, <1>4

LEMMA MaxOfThree ==
  ASSUME NEW x \in Int, NEW y \in Int, NEW c \in Int
  PROVE  Max({x, y, 0}) > c <=> x > c \/ y > c \/ 0 > c
<1> DEFINE m == IF x >= y /\ x >= 0 THEN x ELSE IF y >= 0 THEN y ELSE 0
<1>1. m \in {x, y, 0} /\ \A z \in {x, y, 0} : m >= z /\ z \in Int  OBVIOUS
<1> HIDE DEF m
<1>2. m = Max({x, y, 0})  BY <1>1 DEF Max
<1> QED  BY <1>1, <1>2

\* A quartile lies between the two values it is taken from.
LEMMA QuartileBetween ==
  ASSUME NEW r \in 0..3, NEW a \in Int, NEW b \in Int, a <= b
  PROVE  /\ (4 - r) * a + r * b \in Int
         /\ 4 * a <= (4 - r) * a + r * b /\ (4 - r) * a + r * b <= 4 * b
<1>1. CASE r = 0  BY <1>1
<1>2. CASE r = 1  BY <1>2
<1>3. CASE r = 2  BY <1>3
<1>4. CASE r = 3  BY <1>4
<1> QED  BY <1>1, <1>2, <1>3, <1>4

\* Beyond Tukey's fences: the value at the place below the third quartile is within them.
LEMMA FlaggedByIqrIsOutside ==
  ASSUME NEW vals \in Seq(Int), NEW t \in Int
  PROVE  Outside(vals, FlaggedByIqr(vals, t), t >= 0)
<1> DEFINE n == Len(vals)  o == Ordered(vals)
           f1 == ((n - 1) * 1) \div 4  r1 == ((n - 1) * 1) % 4
           f3 == ((n - 1) * 3) \div 4  r3 == ((n - 1) * 3) % 4
           q1 == (4 - r1) * o[f1 + 1] + r1 * o[Min({f1 + 2, n})]
           q3 == (4 - r3) * o[f3 + 1] + r3 * o[Min({f3 + 2, n})]
           lo == 2 * q1 - 3 * (q3 - q1)  hi == 2 * q3 + 3 * (q3 - q1)
           beyond == t * (q3 - q1)  out == FlaggedByIqr(vals, t)
<1>1. n \in Nat /\ DOMAIN vals = 1..n /\ \A i \in 1..n : vals[i] \in Int  OBVIOUS
<1>2. /\ Len(o) = n /\ \A i \in 1..n : o[i] \in Int
      /\ \A i \in 1..n : \E j \in 1..n : o[i] = vals[j]
      /\ \A i, j \in 1..n : i <= j => o[i] <= o[j]
  <2>1. IsOrdered(vals, o)  BY OrderedIs
  <2> HIDE DEF o
  <2> QED  BY <2>1 DEF IsOrdered
<1>3. out = {i \in DOMAIN vals :
               IF q3 - q1 > 0 THEN Max({8 * vals[i] - hi, lo - 8 * vals[i], 0}) > t * (q3 - q1)
               ELSE t < 0}
  <2>1. Sorted(vals, <) = o  BY SortedByValue DEF Sorted, Ordered, Ranked
  <2> HIDE DEF o
  <2>2. Quartile4(o, 1) = q1 /\ Quartile4(o, 3) = q3  BY <1>2 DEF Quartile4
  <2> HIDE DEF q1, q3, n
  <2>3. FlaggedByIqr(vals, t)
          = {i \in DOMAIN vals :
               IF q3 - q1 > 0 THEN Max({8 * vals[i] - hi, lo - 8 * vals[i], 0}) > t * (q3 - q1)
               ELSE t < 0}
    BY <2>1, <2>2 DEF FlaggedByIqr
  <2> QED  BY <2>3
<1>4. out \subseteq 1..n  BY <1>1, <1>3
<1> HIDE DEF o, out
<1>5. CASE n = 0
  <2>1. DOMAIN vals = {} /\ out = {}  BY <1>1, <1>4, <1>5
  <2>2. Outside(vals, out, t >= 0)  BY <2>1 DEF Outside
  <2> QED  BY <2>2 DEF out
<1>6. CASE n > 0
  <2> HIDE DEF n
  <2>1. /\ f1 \in Nat /\ r1 \in 0..3 /\ n - 1 = 4 * f1 + r1
        /\ f3 \in Nat /\ r3 \in 0..3 /\ 3 * (n - 1) = 4 * f3 + r3
    <3>1. n - 1 \in Nat /\ (n - 1) * 1 = n - 1 /\ (n - 1) * 3 = 3 * (n - 1) /\ 3 * (n - 1) \in Nat
      BY <1>1, <1>6
    <3>2. \A m \in Nat : m \div 4 \in Nat /\ m % 4 \in 0..3 /\ m = 4 * (m \div 4) + (m % 4)
      OBVIOUS
    <3> QED  BY <3>1, <3>2
  <2> HIDE DEF f1, r1, f3, r3
  <2>2. f1 + 1 \in 1..n /\ f3 + 1 \in 1..n  BY <1>1, <1>6, <2>1
  <2>3. \A f \in Nat : f + 1 \in 1..n =>
          /\ Min({f + 2, n}) \in 1..n
          /\ Min({f + 2, n}) = IF f + 2 <= n THEN f + 2 ELSE n
          /\ f + 1 <= Min({f + 2, n})
    <3> TAKE f \in Nat
    <3>1. Min({f + 2, n}) = IF f + 2 <= n THEN f + 2 ELSE n  BY <1>1, Lesser
    <3> QED  BY <1>1, <3>1
  <2> DEFINE a1 == o[f1 + 1]  b1 == o[Min({f1 + 2, n})]
             a3 == o[f3 + 1]  b3 == o[Min({f3 + 2, n})]
  <2>4. a1 \in Int /\ b1 \in Int /\ a1 <= b1  BY <1>2, <2>1, <2>2, <2>3
  <2>5. a3 \in Int /\ b3 \in Int /\ a3 <= b3  BY <1>2, <2>1, <2>2, <2>3
  <2>6. q1 = (4 - r1) * a1 + r1 * b1 /\ q3 = (4 - r3) * a3 + r3 * b3  OBVIOUS
  <2>7. PICK j \in 1..n : a3 = vals[j]  BY <1>2, <2>2
  <2>8. \/ b1 <= a3
        \/ a3 = a1 /\ b3 = b1 /\ ((r1 = 0 /\ r3 = 0) \/ (r1 = 1 /\ r3 = 3))
    <3>1. CASE f3 >= f1 + 1
      <4>1. f1 + 2 <= n  BY <1>1, <2>1, <2>2, <3>1
      <4>2. Min({f1 + 2, n}) \in 1..n /\ Min({f1 + 2, n}) = f1 + 2  BY <2>1, <2>2, <2>3, <4>1
      <4>3. f1 + 2 \in 1..n /\ f1 + 2 <= f3 + 1  BY <1>1, <2>1, <3>1, <4>2
      <4> QED  BY <1>2, <2>2, <4>2, <4>3
    <3>2. CASE ~(f3 >= f1 + 1)
      <4>1. f1 = 0 /\ f3 = 0 /\ r3 = 3 * r1  BY <1>1, <1>6, <2>1, <3>2
      <4> QED  BY <2>1, <4>1
    <3> QED  BY <3>1, <3>2
  <2> HIDE DEF a1, b1, a3, b3, q1, q3
  <2>9. q1 \in Int /\ q1 <= 4 * b1 /\ 4 * a1 <= q1  BY <2>1, <2>4, <2>6, QuartileBetween
  <2>10. q3 \in Int /\ 4 * a3 <= q3  BY <2>1, <2>5, <2>6, QuartileBetween
  <2>11. lo \in Int /\ hi \in Int /\ beyond \in Int  BY <2>9, <2>10
  <2>17. t >= 0 /\ q3 - q1 > 0 => beyond >= 0
    <3>1. \A x, y \in Nat : x * y \in Nat  OBVIOUS
    <3> QED  BY <2>9, <2>10, <3>1
  <2>12. q3 - q1 > 0 => 8 * a3 <= hi /\ lo <= 8 * a3
    <3> SUFFICES ASSUME q3 - q1 > 0  PROVE 8 * a3 <= hi /\ lo <= 8 * a3  OBVIOUS
    <3>1. 8 * a3 <= hi  BY <2>5, <2>9, <2>10
    <3>2. CASE b1 <= a3  BY <2>4, <2>5, <2>9, <2>10, <3>2
    <3>3. CASE a3 = a1 /\ b3 = b1 /\ r1 = 0 /\ r3 = 0
      <4>1. q1 = 4 * a1 /\ q3 = 4 * a1  BY <2>4, <2>6, <3>3
      <4> QED  BY <2>4, <4>1
    <3>4. CASE a3 = a1 /\ b3 = b1 /\ r1 = 1 /\ r3 = 3
      <4>1. q1 = 3 * a1 + b1 /\ q3 = a1 + 3 * b1  BY <2>4, <2>6, <3>4
      <4>2. lo <= 8 * a3  BY <2>4, <3>4, <4>1
      <4> QED  BY <3>1, <4>2
    <3> QED  BY <2>8, <3>1, <3>2, <3>3, <3>4
  <2> HIDE DEF lo, hi, beyond
  <2>13. \A i \in 1..n :
           i \in out <=> IF q3 - q1 > 0
                         THEN 8 * vals[i] > hi + beyond \/ lo > 8 * vals[i] + beyond \/ 0 > beyond
                         ELSE t < 0
    <3> TAKE i \in 1..n
    <3>1. 8 * vals[i] - hi \in Int /\ lo - 8 * vals[i] \in Int
      BY <1>1, <2>11
    <3> DEFINE x == 8 * vals[i] - hi  y == lo - 8 * vals[i]
    <3>2. i \in out <=> IF q3 - q1 > 0 THEN Max({x, y, 0}) > beyond ELSE t < 0
      BY <1>1, <1>3 DEF beyond
    <3>3. x > beyond <=> 8 * vals[i] > hi + beyond  BY <1>1, <2>11
    <3>4. y > beyond <=> lo > 8 * vals[i] + beyond  BY <1>1, <2>11
    <3>6. x \in Int /\ y \in Int  BY <3>1
    <3> HIDE DEF x, y
    <3>5. Max({x, y, 0}) > beyond <=> x > beyond \/ y > beyond \/ 0 > beyond
      BY <2>11, <3>6, MaxOfThree
    <3> QED  BY <3>2, <3>3, <3>4, <3>5
  <2>14. ASSUME NEW i \in out
         PROVE  \/ \A k \in 1..n : vals[k] >= vals[i] => k \in out
                \/ \A k \in 1..n : vals[k] <= vals[i] => k \in out
    <3>1. i \in 1..n /\ vals[i] \in Int  BY <1>1, <1>4
    <3>4. CASE (q3 - q1 > 0 /\ 0 > beyond) \/ ~(q3 - q1 > 0)
      <4>1. \A k \in 1..n : k \in out  BY <2>13, <3>1, <3>4
      <4> QED  BY <4>1
    <3>2. CASE q3 - q1 > 0 /\ 8 * vals[i] > hi + beyond
      <4>1. \A k \in 1..n : vals[k] >= vals[i] => k \in out
        BY <1>1, <2>11, <2>13, <3>1, <3>2
      <4> QED  BY <4>1
    <3>3. CASE q3 - q1 > 0 /\ lo > 8 * vals[i] + beyond
      <4>1. \A k \in 1..n : vals[k] <= vals[i] => k \in out
        BY <1>1, <2>11, <2>13, <3>1, <3>3
      <4> QED  BY <4>1
    <3> QED  BY <2>13, <3>1, <3>2, <3>3, <3>4
  <2>15. t >= 0 => j \notin out
    <3>1. vals[j] \in Int  BY <1>1
    <3> QED  BY <2>7, <2>11, <2>12, <2>13, <2>17, <3>1
  <2>16. Outside(vals, out, t >= 0)  BY <1>1, <1>4, <2>14, <2>15 DEF Outside
  <2> QED  BY <2>16 DEF out
<1> QED  BY <1>1, <1>5, <1>6
\* The rows an outlier is looked for in all carry a number.
LEMMA ValuesIn ==
  ASSUME NEW S, NEW f \in Seq(S), NEW period, NEW geos
  PROVE  /\ Valued(At(f, period)) \in Seq(WithValue(S))
         /\ Dated(OfGeos(f, geos)) \in Seq(WithValue(S))
<1> DEFINE g == At(f, period)  h == OfGeos(f, geos)  v == Valued(g)  w == Dated(h)
<1>1. g \in Seq(S) /\ h \in Seq(S)  BY AtIs, OfGeosIs, AmongTyped
<1> HIDE DEF g, h
<1>2. v \in Seq(S) /\ ToSet(v) = ToSet(g) \cap WithValue(S)  BY <1>1, ValuedIs, AmongTyped
<1>3. w \in Seq(S) /\ ToSet(w) = ToSet(h) \cap WithDate(S)  BY <1>1, DatedIs, AmongTyped
<1>4. WithDate(S) \subseteq WithValue(S)  BY DEF WithDate, WithValue
<1> HIDE DEF v, w
<1>5. (\A i \in DOMAIN v : v[i] \in WithValue(S)) /\ (\A i \in DOMAIN w : w[i] \in WithValue(S))
  <2>1. ToSet(v) \subseteq WithValue(S) /\ ToSet(w) \subseteq WithValue(S)  BY <1>2, <1>3, <1>4
  <2> QED  BY <2>1 DEF ToSet
<1>6. v \in Seq(WithValue(S)) /\ w \in Seq(WithValue(S))
  <2> HIDE DEF WithValue
  <2> QED  BY <1>2, <1>3, <1>5
<1> QED  BY <1>6 DEF v, w, g, h

\* Of rows that carry a number, some are taken, and the values of these flagged.
LEMMA RowsOutside ==
  ASSUME NEW v \in Seq(WithValue(Rows)), NEW method, NEW t \in Int
  PROVE  LET out == Flagged(Vals(v), method, t)
             rows == {[geo |-> v[i].geo, time |-> v[i].time, value |-> v[i].val,
                       is_outlier |-> i \in out] : i \in DOMAIN v}
         IN  \A r \in {x \in rows : x.is_outlier} :
               /\ \/ \A q \in rows : q.value >= r.value => q.is_outlier
                  \/ \A q \in rows : q.value <= r.value => q.is_outlier
               /\ t >= DefaultThreshold2(method) => \E q \in rows : ~q.is_outlier
<1> DEFINE strict == t >= DefaultThreshold2(method)
           vals == Vals(v)  out == Flagged(vals, method, t)
           row(i) == [geo |-> v[i].geo, time |-> v[i].time, value |-> v[i].val,
                      is_outlier |-> i \in out]
           rows == {row(i) : i \in DOMAIN v}
<1>1. \A i \in DOMAIN v : v[i].val \in Int
  BY ValuesAssumption DEF WithValue
<1>2. vals \in Seq(Int) /\ DOMAIN vals = DOMAIN v /\ \A i \in DOMAIN v : vals[i] = v[i].val
  <2>1. DOMAIN v = 1..Len(v) /\ Len(v) \in Nat  OBVIOUS
  <2>2. vals = [i \in 1..Len(v) |-> v[i].val]  BY <2>1 DEF Vals
  <2> HIDE DEF vals
  <2> QED  BY <1>1, <2>1, <2>2
<1> HIDE DEF vals
<1>3. Outside(vals, out, strict)
  <2>1. CASE method = "iqr"
    <3>1. out = FlaggedByIqr(vals, t) /\ DefaultThreshold2(method) = 0
      BY <2>1 DEF Flagged, DefaultThreshold2
    <3> QED  BY <1>2, <3>1, FlaggedByIqrIsOutside
  <2>2. CASE method # "iqr"
    <3>1. out = FlaggedByModifiedZ(vals, t) /\ DefaultThreshold2(method) = 7
      BY <2>2 DEF Flagged, DefaultThreshold2
    <3> QED  BY <1>2, <3>1, FlaggedByZIsOutside
  <2> QED  BY <2>1, <2>2
<1> HIDE DEF out, strict
<1>4. \A i \in DOMAIN v : /\ row(i) \in rows /\ row(i).value = vals[i]
                          /\ row(i).is_outlier <=> i \in out
  BY <1>2
<1>5. \A r \in rows : \E i \in DOMAIN v : r = row(i)  OBVIOUS
<1> HIDE DEF row, rows
<1>6. ASSUME NEW r \in rows, r.is_outlier
      PROVE  /\ \/ \A q \in rows : q.value >= r.value => q.is_outlier
                \/ \A q \in rows : q.value <= r.value => q.is_outlier
             /\ strict => \E q \in rows : ~q.is_outlier
  <2>1. PICK i \in DOMAIN v : r = row(i)  BY <1>5
  <2>2. i \in out /\ r.value = vals[i]  BY <1>4, <1>6, <2>1
  <2>3. \/ \A j \in DOMAIN v : vals[j] >= vals[i] => j \in out
        \/ \A j \in DOMAIN v : vals[j] <= vals[i] => j \in out
    BY <1>2, <1>3, <2>2 DEF Outside
  <2>5. strict => \E q \in rows : ~q.is_outlier
    <3> SUFFICES ASSUME strict  PROVE \E q \in rows : ~q.is_outlier  OBVIOUS
    <3>1. PICK j \in DOMAIN v : j \notin out  BY <1>2, <1>3, <2>1 DEF Outside
    <3>2. row(j) \in rows /\ ~row(j).is_outlier  BY <1>4, <3>1
    <3> QED  BY <3>2
  <2>6. CASE \A k \in DOMAIN v : vals[k] >= vals[i] => k \in out
    <3>1. ASSUME NEW q \in rows, q.value >= r.value  PROVE q.is_outlier
      <4>1. PICK k \in DOMAIN v : q = row(k)  BY <1>5
      <4>2. q.value = vals[k] /\ (q.is_outlier <=> k \in out)  BY <1>4, <4>1
      <4> QED  BY <2>2, <2>6, <3>1, <4>2
    <3> QED  BY <2>5, <3>1
  <2>7. CASE \A k \in DOMAIN v : vals[k] <= vals[i] => k \in out
    <3>1. ASSUME NEW q \in rows, q.value <= r.value  PROVE q.is_outlier
      <4>1. PICK k \in DOMAIN v : q = row(k)  BY <1>5
      <4>2. q.value = vals[k] /\ (q.is_outlier <=> k \in out)  BY <1>4, <4>1
      <4> QED  BY <2>2, <2>7, <3>1, <4>2
    <3> QED  BY <2>5, <3>1
  <2> QED  BY <2>3, <2>6, <2>7
<1>7. \A r \in {x \in rows : x.is_outlier} :
        /\ \/ \A q \in rows : q.value >= r.value => q.is_outlier
           \/ \A q \in rows : q.value <= r.value => q.is_outlier
        /\ strict => \E q \in rows : ~q.is_outlier
  BY <1>6
<1> QED  BY <1>7 DEF rows, row, out, vals, strict

\* Whatever the values, the method and the threshold: outwards from an outlier, to one side,
\* all are outliers; and from the method's own threshold on there is a value that is none.
THEOREM OutliersLieOutside == Spec => []OutliersAreOutside
<1>1. ASSUME Paged, Asking, Answered, call.tool = "outliers"
      PROVE  \A r \in {x \in answer.rows : x.is_outlier} :
               /\ \/ \A q \in answer.rows : q.value >= r.value => q.is_outlier
                  \/ \A q \in answer.rows : q.value <= r.value => q.is_outlier
               /\ (Threshold2(call.args.method, call.args.threshold2)
                     >= DefaultThreshold2(call.args.method)) =>
                    \E q \in answer.rows : ~q.is_outlier
  <2> DEFINE f == Filtered(got[1], call.dims[1])  a == call.args
             places(g) == {i \in DOMAIN g : \A j \in DOMAIN g : j < i => g[j].geo # g[i].geo}
             moments(g) == {i \in DOMAIN g : \A j \in DOMAIN g : j < i => g[j].time # g[i].time}
             across == Valued(At(f, a.period))  along == Dated(OfGeos(f, {a.ref}))
             v == IF a.period # None THEN AtPlaces(across, places(across))
                  ELSE AtPlaces(along, moments(along))
             t == Threshold2(a.method, a.threshold2)
             out == Flagged(Vals(v), a.method, t)
  <2>1. /\ Len(got) = 1 /\ got \in Seq(Seq(Rows))
        /\ answer = Analysis(got[1], got[Len(got)])
    BY <1>1 DEF Asking, Answered, Called, Singles, Paged, Typed
  <2>2. f \in Seq(Rows)
    <3>1. got[1] \in Seq(Rows)  BY <2>1
    <3> QED  BY <3>1, FilteredIs, AmongTyped
  <2>3. answer = DetectOutliers(f, a.period, a.ref, a.method, a.threshold2)  BY <1>1, <2>1 DEF Analysis
  <2> HIDE DEF f
  <2>4. answer.rows = {[geo |-> v[i].geo, time |-> v[i].time, value |-> v[i].val,
                        is_outlier |-> i \in out] : i \in DOMAIN v}
    BY <2>3 DEF DetectOutliers, Firsts
  <2>5. v \in Seq(WithValue(Rows))
    <3>1. across \in Seq(WithValue(Rows)) /\ along \in Seq(WithValue(Rows))  BY <2>2, ValuesIn
    <3> HIDE DEF across, along
    <3>2. places(across) \in SUBSET DOMAIN across /\ moments(along) \in SUBSET DOMAIN along
      OBVIOUS
    <3> HIDE DEF places, moments
    <3>3. AtPlaces(across, places(across)) \in Seq(WithValue(Rows))  BY <3>1, <3>2, Placed
    <3>4. AtPlaces(along, moments(along)) \in Seq(WithValue(Rows))  BY <3>1, <3>2, Placed
    <3> QED  BY <3>3, <3>4
  <2>6. t \in Int
    <3>1. a.threshold2 \in Thresholds  BY <1>1 DEF Asking, Answered, Called, Singles
    <3>2. a.threshold2 = None \/ a.threshold2 \in Int
      <4> DEFINE s == a.threshold2
      <4>1. s \in Thresholds  BY <3>1
      <4> HIDE DEF s
      <4>2. s = None \/ s \in Int  BY <4>1, ThresholdsAssumption
      <4> QED  BY <4>2 DEF s
    <3>3. DefaultThreshold2(a.method) \in Int  BY DEF DefaultThreshold2
    <3>4. t = IF a.threshold2 = None THEN DefaultThreshold2(a.method) ELSE a.threshold2
      BY DEF Threshold2
    <3> HIDE DEF t
    <3> QED  BY <3>2, <3>3, <3>4
  <2> DEFINE rows == {[geo |-> v[i].geo, time |-> v[i].time, value |-> v[i].val,
                       is_outlier |-> i \in out] : i \in DOMAIN v}
             strict == t >= DefaultThreshold2(a.method)
  <2>7. answer.rows = rows  BY <2>4
  <2>8. strict <=> Threshold2(call.args.method, call.args.threshold2)
                     >= DefaultThreshold2(call.args.method)
    OBVIOUS
  <2> HIDE DEF v, t
  <2>9. \A r \in {x \in rows : x.is_outlier} :
          /\ \/ \A q \in rows : q.value >= r.value => q.is_outlier
             \/ \A q \in rows : q.value <= r.value => q.is_outlier
          /\ strict => \E q \in rows : ~q.is_outlier
    BY <2>5, <2>6, RowsOutside
  <2> HIDE DEF rows, strict
  <2> QED  BY <2>7, <2>8, <2>9
<1> QED  BY <1>1, AlwaysAsking, PTL DEF OutliersAreOutside

-----------------------------------------------------------------------------
(* What the tools answer of rows one per cell. *)

\* No geography has two rows of one time.
OneRow(f) == \A i, j \in DOMAIN f : Cell(f[i]) = Cell(f[j]) => i = j

\* The geographies with a value at a time.
KnownIn(f, p) == {k[1] : k \in {c \in DOMAIN CellLasts(f) : c[2] = p}}

\* The last of the rows of a key is the only one.
LEMMA OnlyOne ==
  ASSUME NEW S, NEW s \in Seq(S), NEW A, NEW r \in ToSet(s) \cap A,
         \A q \in ToSet(s) \cap A : q = r
  PROVE  Among(s, A)[Len(Among(s, A))] = r
<1> DEFINE t == Among(s, A)
<1>1. t \in Seq(S) /\ ToSet(t) = ToSet(s) \cap A  BY AmongTyped
<1> HIDE DEF t
<1>2. \A i \in DOMAIN t : t[i] = r  BY <1>1 DEF ToSet
<1>3. DOMAIN t # {}  BY <1>1 DEF ToSet
<1>4. DOMAIN t = 1..Len(t) /\ Len(t) \in Nat  BY <1>1
<1>5. Len(t) \in DOMAIN t  BY <1>3, <1>4
<1> QED  BY <1>2, <1>5 DEF t

\* A row is told by its cell, and no two of a choice of rows are one.
LEMMA RowOfCell ==
  ASSUME NEW S, NEW f \in Seq(S), OneRow(f)
  PROVE  /\ IsInjective(f)
         /\ \A q, r \in ToSet(f) : q.geo = r.geo /\ q.time = r.time => q = r
<1>1. IsInjective(f)  BY DEF OneRow, IsInjective
<1>2. ASSUME NEW q \in ToSet(f), NEW r \in ToSet(f), q.geo = r.geo, q.time = r.time
      PROVE  q = r
  <2>1. PICK i \in DOMAIN f : f[i] = q  BY DEF ToSet
  <2>2. PICK j \in DOMAIN f : f[j] = r  BY DEF ToSet
  <2> QED  BY <1>2, <2>1, <2>2 DEF OneRow, Cell
<1> QED  BY <1>1, <1>2

\* The values of the cells are those of the rows that carry one.
LEMMA CellLastsAre ==
  ASSUME NEW S, NEW f \in Seq(S)
  PROVE  /\ DOMAIN CellLasts(f) = {Cell(r) : r \in ToSet(f) \cap WithDate(S)}
         /\ OneRow(f) => \A r \in ToSet(f) \cap WithDate(S) : CellLasts(f)[Cell(r)] = r.val
<1> DEFINE v == Dated(f)  own(k) == Where(v, LAMBDA r : Cell(r) = k)
           keys == {Cell(r) : r \in ToSet(v)}
<1>1. v \in Seq(S) /\ ToSet(v) = ToSet(f) \cap WithDate(S)  BY DatedIs, AmongTyped
<1>2. CellLasts(f) = [k \in keys |-> own(k)[Len(own(k))].val]  BY DEF CellLasts, Lasts
<1> HIDE DEF v
<1>3. ASSUME OneRow(f), NEW r \in ToSet(v)  PROVE own(Cell(r))[Len(own(Cell(r)))] = r
  <2>1. own(Cell(r)) = Among(v, InCell(S, Cell(r)))  BY <1>1, CellRowsIs
  <2>2. r \in ToSet(v) \cap InCell(S, Cell(r))
    <3>1. r \in S  BY <1>1 DEF WithDate
    <3> QED  BY <3>1 DEF InCell
  <2>3. \A q \in ToSet(v) \cap InCell(S, Cell(r)) : q = r
    BY <1>1, <1>3, RowOfCell DEF InCell, Cell
  <2> HIDE DEF own
  <2> QED  BY <1>1, <2>1, <2>2, <2>3, OnlyOne
<1> HIDE DEF own
<1> QED  BY <1>1, <1>2, <1>3

\* So a cell has the value of its row, if that has one, and no value otherwise.
LEMMA CellValue ==
  ASSUME NEW S, NEW f \in Seq(S), OneRow(f), NEW r \in ToSet(f), r.geo # None, r.time # None
  PROVE  ValueOf(CellLasts(f), <<r.geo, r.time>>) = r.val
<1> DEFINE c == CellLasts(f)
<1>1. /\ DOMAIN c = {Cell(q) : q \in ToSet(f) \cap WithDate(S)}
      /\ \A q \in ToSet(f) \cap WithDate(S) : c[Cell(q)] = q.val
  BY CellLastsAre
<1> HIDE DEF c
<1>2. r \in S  BY DEF ToSet
<1>3. CASE r.val # None
  <2>1. r \in ToSet(f) \cap WithDate(S)  BY <1>2, <1>3 DEF WithDate
  <2> QED  BY <1>1, <2>1 DEF ValueOf, Cell, c
<1>4. CASE r.val = None
  <2>1. ASSUME NEW q \in ToSet(f) \cap WithDate(S), Cell(q) = <<r.geo, r.time>>  PROVE FALSE
    <3>1. q = r  BY <2>1, RowOfCell DEF Cell
    <3> QED  BY <1>4, <3>1 DEF WithDate
  <2>2. <<r.geo, r.time>> \notin DOMAIN c  BY <1>1, <2>1
  <2> QED  BY <1>4, <2>2 DEF ValueOf, c
<1> QED  BY <1>3, <1>4

\* The rows of a period that carry a number: one of each geography with a value then.
LEMMA PeriodIs ==
  ASSUME NEW S, NEW f \in Seq(S), OneRow(f), NEW p, p # None
  PROVE  LET v == Valued(At(f, p))
         IN  /\ v \in Seq(S) /\ ToSet(v) = {r \in ToSet(f) \cap WithDate(S) : r.time = p}
             /\ \A i, j \in DOMAIN v : v[i].geo = v[j].geo => i = j
             /\ \A i \in DOMAIN v : /\ v[i].geo \in KnownIn(f, p)
                                    /\ v[i].val = ValueOf(CellLasts(f), <<v[i].geo, p>>)
             /\ \A g \in KnownIn(f, p) : \E i \in DOMAIN v : v[i].geo = g
<1> DEFINE a == At(f, p)  v == Valued(a)  c == CellLasts(f)
<1>1. a = Among(f, InTime(S, p)) /\ a \in Seq(S)  BY AtIs, AmongTyped
<1> HIDE DEF a
<1>2. v = Among(a, WithValue(S)) /\ v \in Seq(S) /\ ToSet(v) = ToSet(a) \cap WithValue(S)
  BY <1>1, ValuedIs, AmongTyped
<1>3. IsInjective(v)  BY <1>1, <1>2, RowOfCell, AmongOnce
<1>4. ToSet(v) = {r \in ToSet(f) \cap WithDate(S) : r.time = p}
  <2>1. ToSet(a) = ToSet(f) \cap InTime(S, p)  BY <1>1, AmongTyped
  <2> QED  BY <1>2, <2>1 DEF InTime, WithValue, WithDate
<1> HIDE DEF v
<1>5. ASSUME NEW i \in DOMAIN v
      PROVE  v[i] \in ToSet(v) /\ v[i] \in ToSet(f) /\ v[i] \in WithDate(S) /\ v[i].time = p
  <2>1. v[i] \in ToSet(v)  BY DEF ToSet
  <2> QED  BY <1>4, <2>1
<1>6. ASSUME NEW i \in DOMAIN v, NEW j \in DOMAIN v, v[i].geo = v[j].geo  PROVE i = j
  <2>1. v[i] = v[j]  BY <1>5, <1>6, RowOfCell
  <2> QED  BY <1>3, <2>1 DEF IsInjective
<1>7. DOMAIN c = {Cell(r) : r \in ToSet(f) \cap WithDate(S)}  BY CellLastsAre
<1>8. ASSUME NEW i \in DOMAIN v
      PROVE v[i].geo \in KnownIn(f, p) /\ v[i].val = ValueOf(c, <<v[i].geo, p>>)
  <2>1. Cell(v[i]) \in DOMAIN c /\ Cell(v[i]) = <<v[i].geo, p>>  BY <1>5, <1>7 DEF Cell
  <2> DEFINE k == <<v[i].geo, p>>
  <2>2. k \in DOMAIN c /\ k[1] = v[i].geo /\ k[2] = p  BY <2>1
  <2>3. v[i].geo \in KnownIn(f, p)
    <3> HIDE DEF k
    <3> QED  BY <2>2 DEF KnownIn, c
  <2>4. ValueOf(c, <<v[i].geo, v[i].time>>) = v[i].val  BY <1>5, CellValue DEF WithDate
  <2> QED  BY <1>5, <2>3, <2>4
<1>9. ASSUME NEW g \in KnownIn(f, p)  PROVE \E i \in DOMAIN v : v[i].geo = g
  <2>1. PICK k \in DOMAIN c : k[2] = p /\ k[1] = g  BY DEF KnownIn, c
  <2>2. PICK r \in ToSet(f) \cap WithDate(S) : k = Cell(r)  BY <1>7
  <2>3. r.time = p /\ r.geo = g  BY <2>1, <2>2 DEF Cell
  <2>4. r \in ToSet(v)  BY <1>4, <2>3
  <2>5. PICK i \in DOMAIN v : v[i] = r  BY <2>4 DEF ToSet
  <2> QED  BY <2>3, <2>5
<1>10. v \in Seq(S)  BY <1>2 DEF v
<1> QED  BY <1>4, <1>6, <1>8, <1>9, <1>10 DEF v, a, c

\* Their first rows for each geography are all of them.
LEMMA PeriodFirsts ==
  ASSUME NEW S, NEW f \in Seq(S), OneRow(f), NEW p, p # None
  PROVE  Firsts(Valued(At(f, p)), LAMBDA r : r.geo) = Valued(At(f, p))
<1> DEFINE v == Valued(At(f, p))
<1>1. v \in Seq(S) /\ \A i, j \in DOMAIN v : v[i].geo = v[j].geo => i = j  BY PeriodIs
<1> HIDE DEF v
<1>2. {i \in DOMAIN v : \A j \in DOMAIN v : j < i => v[j].geo # v[i].geo} = DOMAIN v
  <2>1. \A i \in DOMAIN v : i \in Nat  BY <1>1
  <2>2. \A i, j \in DOMAIN v : j < i => v[j].geo # v[i].geo  BY <1>1, <2>1
  <2> QED  BY <2>2
<1>3. AtPlaces(v, DOMAIN v) = v  BY <1>1, PlacedAll
<1>4. Firsts(v, LAMBDA r : r.geo) = v  BY <1>2, <1>3 DEF Firsts
<1> QED  BY <1>4 DEF v

\* Rows, one of each of some geographies.
EachOnce(v, known) ==
  /\ DOMAIN v = 1..Len(v) /\ Len(v) \in Nat
  /\ \A i, j \in DOMAIN v : v[i].geo = v[j].geo => i = j
  /\ \A i \in DOMAIN v : v[i].geo \in known
  /\ \A g \in known : \E i \in DOMAIN v : v[i].geo = g

\* As many geographies are in a set as rows have theirs there.
LEMMA PeriodCounts ==
  ASSUME NEW v, NEW known, EachOnce(v, known), NEW K \in SUBSET DOMAIN v,
         NEW M \in SUBSET known, \A i \in DOMAIN v : i \in K <=> v[i].geo \in M
  PROVE  IsFiniteSet(K) /\ IsFiniteSet(M) /\ Cardinality(M) = Cardinality(K)
<1> USE DEF EachOnce
<1> DEFINE h == [i \in K |-> v[i].geo]
<1>1. IsFiniteSet(1..Len(v))  BY UpTo
<1>2. IsFiniteSet(K) /\ K \in SUBSET Nat
  <2>1. K \in SUBSET (1..Len(v))  OBVIOUS
  <2> QED  BY <1>1, <2>1, FS_Subset
<1>3. h \in [K -> M]  OBVIOUS
<1>4. \A i, j \in K : h[i] = h[j] => i = j  OBVIOUS
<1>5. \A m \in M : \E i \in K : h[i] = m
  <2> TAKE m \in M
  <2>1. PICK i \in DOMAIN v : v[i].geo = m  OBVIOUS
  <2>2. i \in K  BY <2>1
  <2>3. h[i] = m  BY <2>1, <2>2
  <2> QED  BY <2>2, <2>3
<1> HIDE DEF h
<1>6. IsFiniteSet(M) /\ Cardinality(M) = Cardinality(K)  BY ONLY <1>2, <1>3, <1>4, <1>5, Moved
<1> QED  BY <1>2, <1>6

\* Rows in the order of their values.
ByVal(v, ascending) == [i \in 1..Len(v) |-> IF ascending THEN v[i].val ELSE -v[i].val]

LEMMA SortedRows ==
  ASSUME NEW v \in Seq(WithDate(Rows)), NEW ascending
  PROVE  /\ ByVal(v, ascending) \in [1..Len(v) -> Int]
         /\ Sorted(v, LAMBDA r, q : IF ascending THEN r.val < q.val ELSE r.val > q.val)
              = [j \in 1..Len(v) |-> v[Ranked(Len(v), ByVal(v, ascending))[j]]]
<1> DEFINE k == ByVal(v, ascending)  n == Len(v)
           less(x, y) == IF ascending THEN v[x].val < v[y].val ELSE v[x].val > v[y].val
<1>1. DOMAIN v = 1..n /\ \A i \in 1..n : v[i].val \in Int
  <2>1. DOMAIN v = 1..n /\ \A i \in 1..n : v[i] \in WithDate(Rows)  OBVIOUS
  <2>2. \A r \in WithDate(Rows) : r.val \in Int  BY ValuesAssumption DEF WithDate
  <2> QED  BY <2>1, <2>2
<1>2. k \in [1..n -> Int]
  <2>1. \A i \in 1..n : (IF ascending THEN v[i].val ELSE -v[i].val) \in Int  BY <1>1
  <2> QED  BY <2>1 DEF ByVal
<1>3. \A x, y \in 1..n : less(x, y) <=> k[x] < k[y]  BY <1>1 DEF ByVal
<1>4. {q \in (DOMAIN v) \X (DOMAIN v) :
         less(q[1], q[2]) \/ (~less(q[2], q[1]) /\ q[1] < q[2])} = ByKey(n, k)
  <2>1. \A q \in (1..n) \X (1..n) : /\ q[1] \in 1..n /\ q[2] \in 1..n
                                    /\ k[q[1]] \in Int /\ k[q[2]] \in Int
    BY <1>2
  <2> HIDE DEF less, k, n
  <2> QED  BY <1>1, <1>3, <2>1 DEF ByKey
<1>5. Sorted(v, LAMBDA r, q : IF ascending THEN r.val < q.val ELSE r.val > q.val)
        = [j \in DOMAIN v |-> v[InOrder(DOMAIN v, ByKey(n, k))[j]]]
  <2> HIDE DEF n, k
  <2> QED  BY <1>4 DEF Sorted
<1> QED  BY <1>1, <1>2, <1>5 DEF Ranked

\* The geographies with a value that is better than one.
Better(f, p, x, ascending) ==
  {g \in KnownIn(f, p) : IF ascending THEN ValueOf(CellLasts(f), <<g, p>>) < x
                        ELSE ValueOf(CellLasts(f), <<g, p>>) > x}

\* A ranking is of all geographies with a value; each is shown with its value, and fewer
\* than its rank have a better one.
LEMMA RankIs ==
  ASSUME NEW f \in Seq(Rows), OneRow(f), NEW p, p # None, NEW m \in Int, NEW ascending
  PROVE  LET ranking == Rank(f, p, m, ascending)
         IN  /\ ranking.total = Cardinality(KnownIn(f, p))
             /\ \A i \in DOMAIN ranking.rows :
                  /\ ranking.rows[i].val = ValueOf(CellLasts(f), <<ranking.rows[i].geo, p>>)
                  /\ Cardinality(Better(f, p, ranking.rows[i].val, ascending)) < i
<1> DEFINE v == Valued(At(f, p))  n == Len(v)  k == ByVal(v, ascending)  o == Ranked(n, k)
           known == KnownIn(f, p)  val(g) == ValueOf(CellLasts(f), <<g, p>>)
           all == [j \in 1..n |-> v[o[j]]]
           ranking == Rank(f, p, m, ascending)
<1>1. /\ v \in Seq(Rows) /\ ToSet(v) = {r \in ToSet(f) \cap WithDate(Rows) : r.time = p}
      /\ \A i, j \in DOMAIN v : v[i].geo = v[j].geo => i = j
      /\ \A i \in DOMAIN v : v[i].geo \in known /\ v[i].val = val(v[i].geo)
      /\ \A g \in known : \E i \in DOMAIN v : v[i].geo = g
  BY PeriodIs
<1>2. Firsts(v, LAMBDA r : r.geo) = v  BY PeriodFirsts
<1> HIDE DEF v, known
<1>3. v \in Seq(WithDate(Rows)) /\ n \in Nat /\ DOMAIN v = 1..n
  <2>1. \A i \in DOMAIN v : v[i] \in WithDate(Rows)  BY <1>1 DEF ToSet
  <2> QED  BY <1>1, <2>1
<1>4. /\ k \in [1..n -> Int]
      /\ Sorted(v, LAMBDA r, q : IF ascending THEN r.val < q.val ELSE r.val > q.val) = all
  BY <1>3, SortedRows
<1>5. ranking = [rows |-> Sliced(all, m), total |-> n]
  <2> HIDE DEF all, n
  <2>1. Valued(At(f, p)) = v  BY DEF v
  <2> QED  BY <1>2, <1>4, <2>1 DEF Rank, n
<1> HIDE DEF n, k
<1>6. Ranking(n, k, o)  BY <1>3, <1>4, KeyOrder
<1> HIDE DEF o
<1>7. all \in Seq(Rows) /\ Len(all) = n /\ \A j \in 1..n : all[j] = v[o[j]]
  <2>1. \A j \in 1..n : o[j] \in 1..n  BY <1>6 DEF Ranking
  <2>2. \A j \in 1..n : v[o[j]] \in Rows  BY <1>1, <1>3, <2>1
  <2> QED  BY <1>3, <2>2
<1> HIDE DEF all
<1>8. /\ DOMAIN ranking.rows \subseteq 1..n
      /\ \A i \in DOMAIN ranking.rows : ranking.rows[i] = v[o[i]]
  <2> HIDE DEF ranking
  <2> DEFINE l == IF m < 0 THEN n + m ELSE Min({m, n})
  <2>1. ranking.rows = SubSeq(all, 1, l)  BY <1>5, <1>7 DEF Sliced
  <2>2. l \in Int /\ l <= n
    <3>1. Min({m, n}) = IF m <= n THEN m ELSE n  BY <1>3, Lesser
    <3> QED  BY <1>3, <3>1
  <2> HIDE DEF l
  <2>3. SubSeq(all, 1, l) = [i \in 1..l |-> all[i]]  BY <1>7, <2>2
  <2>4. 1..l \subseteq 1..n  BY <1>3, <2>2
  <2> QED  BY <1>7, <2>1, <2>3, <2>4
<1>9. Cardinality(known) = n
  <2>1. IsFiniteSet(1..n) /\ Cardinality(1..n) = n  BY <1>3, UpTo
  <2>2. Cardinality(known) = Cardinality(1..n)
    <3>1. n = Len(v)  BY DEF n
    <3>2. EachOnce(v, known)  BY <1>1, <1>3, <3>1 DEF EachOnce
    <3>3. known \in SUBSET known /\ \A i \in DOMAIN v : v[i].geo \in known  BY <1>1
    <3> DEFINE places == DOMAIN v
    <3>4. places \in SUBSET DOMAIN v /\ \A i \in DOMAIN v : i \in places  OBVIOUS
    <3> HIDE DEF places
    <3>5. Cardinality(known) = Cardinality(places)
      BY ONLY <3>2, <3>3, <3>4, PeriodCounts
    <3> QED  BY <1>3, <3>5 DEF places
  <2> QED  BY <2>1, <2>2
<1>10. ASSUME NEW i \in DOMAIN ranking.rows
       PROVE  /\ ranking.rows[i].val = val(ranking.rows[i].geo)
              /\ Cardinality(Better(f, p, ranking.rows[i].val, ascending)) < i
  <2>1. i \in 1..n /\ o[i] \in 1..n /\ ranking.rows[i] = v[o[i]]
    BY <1>6, <1>8 DEF Ranking
  <2>2. ranking.rows[i].val = val(ranking.rows[i].geo)  BY <1>1, <1>3, <2>1
  <2> DEFINE x == v[o[i]].val
             better == {g \in known : IF ascending THEN val(g) < x ELSE val(g) > x}
             before == {v[o[j]].geo : j \in 1..(i - 1)}
  <2>3. better \subseteq before
    <3> SUFFICES ASSUME NEW g \in better  PROVE g \in before  OBVIOUS
    <3>1. PICK a \in 1..n : v[a].geo = g /\ v[a].val = val(g)  BY <1>1, <1>3
    <3>2. PICK j \in 1..n : o[j] = a  BY <1>6 DEF Ranking
    <3>3. k[a] < k[o[i]]
      <4>1. v[a].val \in Int /\ x \in Int
        <5>1. \A r \in WithDate(Rows) : r.val \in Int  BY ValuesAssumption DEF WithDate
        <5> QED  BY <1>3, <2>1, <5>1
      <4>2. IF ascending THEN v[a].val < x ELSE v[a].val > x  BY <3>1
      <4>3. /\ k[a] = IF ascending THEN v[a].val ELSE -v[a].val
            /\ k[o[i]] = IF ascending THEN x ELSE -x
        BY <2>1 DEF k, ByVal, n
      <4> HIDE DEF x
      <4> QED  BY <4>1, <4>2, <4>3
    <3>4. ~(i <= j)
      <4> SUFFICES ASSUME i <= j  PROVE FALSE  OBVIOUS
      <4>1. k[o[i]] <= k[o[j]]  BY <1>6, <2>1 DEF Ranking
      <4>2. k[a] \in Int /\ k[o[i]] \in Int  BY <1>4, <2>1
      <4> QED  BY <3>2, <3>3, <4>1, <4>2
    <3>5. j \in 1..(i - 1)  BY <1>3, <2>1, <3>4
    <3> QED  BY <3>1, <3>2, <3>5
  <2>4. IsFiniteSet(before) /\ Cardinality(before) <= i - 1
    <3>1. i - 1 \in Nat  BY <2>1
    <3>2. IsFiniteSet(1..(i - 1)) /\ Cardinality(1..(i - 1)) = i - 1  BY <3>1, UpTo
    <3> DEFINE h == [j \in 1..(i - 1) |-> v[o[j]].geo]
    <3>3. h \in Surjection(1..(i - 1), before)  BY DEF Surjection
    <3> HIDE DEF h, before
    <3> QED  BY <3>2, <3>3, FS_Surjection
  <2>5. IsFiniteSet(better) /\ Cardinality(better) <= Cardinality(before)
    BY <2>3, <2>4, FS_Subset
  <2>6. Cardinality(better) \in Nat /\ Cardinality(before) \in Nat  BY <2>4, <2>5, FS_CardinalityType
  <2>7. Cardinality(better) < i
    <3> HIDE DEF better, before
    <3> QED  BY <2>1, <2>4, <2>5, <2>6
  <2>8. ranking.rows[i].val = x /\ Better(f, p, x, ascending) = better
    BY <2>1 DEF Better, known
  <2> QED  BY <2>2, <2>7, <2>8
<1>11. ranking.total = Cardinality(known)  BY <1>5, <1>9
<1> HIDE DEF ranking
<1> QED  BY <1>10, <1>11 DEF ranking, known

\* A geography has a value at a time if some row says so.
LEMMA KnownIs ==
  ASSUME NEW S, NEW f \in Seq(S), NEW p
  PROVE  \A g : g \in KnownIn(f, p)
                  <=> \E r \in ToSet(f) \cap WithDate(S) : r.geo = g /\ r.time = p
<1>1. DOMAIN CellLasts(f) = {Cell(r) : r \in ToSet(f) \cap WithDate(S)}  BY CellLastsAre
<1>2. ASSUME NEW g, g \in KnownIn(f, p)
      PROVE \E r \in ToSet(f) \cap WithDate(S) : r.geo = g /\ r.time = p
  <2>1. PICK k \in DOMAIN CellLasts(f) : k[2] = p /\ k[1] = g  BY <1>2 DEF KnownIn
  <2>2. PICK r \in ToSet(f) \cap WithDate(S) : k = Cell(r)  BY <1>1
  <2>3. r.geo = g /\ r.time = p  BY <2>1, <2>2 DEF Cell
  <2> QED  BY <2>3
<1>3. ASSUME NEW r \in ToSet(f) \cap WithDate(S), r.time = p  PROVE r.geo \in KnownIn(f, p)
  <2> DEFINE k == Cell(r)
  <2>1. k \in DOMAIN CellLasts(f) /\ k[1] = r.geo /\ k[2] = p  BY <1>1, <1>3 DEF Cell
  <2> HIDE DEF k
  <2> QED  BY <2>1 DEF KnownIn
<1> QED  BY <1>2, <1>3

\* A percentile rank counts the peers below, and those not above.
LEMMA PercentileCounts ==
  ASSUME NEW v, NEW known, EachOnce(v, known), NEW vals \in [DOMAIN v -> Int],
         NEW i \in DOMAIN v, NEW lower \in SUBSET known, NEW notHigher \in SUBSET known,
         \A j \in DOMAIN v : v[j].geo \in lower <=> vals[j] < vals[i],
         \A j \in DOMAIN v : v[j].geo \in notHigher <=> vals[j] <= vals[i]
  PROVE  PercentileRank(vals[i], vals) = Cardinality(lower) + Cardinality(notHigher)
<1> DEFINE below == {j \in DOMAIN v : vals[j] < vals[i]}
           equal == {j \in DOMAIN v : vals[j] = vals[i]}
           upTo == {j \in DOMAIN v : vals[j] <= vals[i]}
<1>1. PercentileRank(vals[i], vals) = 2 * Cardinality(below) + Cardinality(equal)
  BY DEF PercentileRank
<1>2. \A j \in DOMAIN v : vals[j] \in Int  OBVIOUS
<1>3. below \in SUBSET DOMAIN v /\ upTo \in SUBSET DOMAIN v /\ equal \in SUBSET DOMAIN v
  OBVIOUS
<1>4. below \cup equal = upTo /\ below \cap equal = {}  BY <1>2
<1>5. /\ \A j \in DOMAIN v : j \in below <=> v[j].geo \in lower
      /\ \A j \in DOMAIN v : j \in upTo <=> v[j].geo \in notHigher
  OBVIOUS
<1> HIDE DEF below, equal, upTo
<1>6. IsFiniteSet(below) /\ Cardinality(lower) = Cardinality(below)
  BY <1>3, <1>5, PeriodCounts
<1>7. IsFiniteSet(upTo) /\ Cardinality(notHigher) = Cardinality(upTo)
  BY <1>3, <1>5, PeriodCounts
<1>8. IsFiniteSet(equal)
  <2>1. equal \in SUBSET upTo  BY <1>4
  <2> QED  BY <1>7, <2>1, FS_Subset
<1>9. /\ Cardinality(upTo) = Cardinality(below) + Cardinality(equal)
      /\ Cardinality(below) \in Nat /\ Cardinality(equal) \in Nat
  <2>1. Cardinality(below) \in Nat /\ Cardinality(equal) \in Nat
    BY <1>6, <1>8, FS_CardinalityType
  <2>2. Cardinality({}) = 0  BY FS_EmptySet
  <2>3. Cardinality(below \cup equal) = Cardinality(below) + Cardinality(equal) - 0
    BY <1>4, <1>6, <1>8, <2>2, FS_Union
  <2> QED  BY <1>4, <2>1, <2>3
<1> QED  BY <1>1, <1>6, <1>7, <1>9

\* The rows of a period once more, with their numbers.
LEMMA PeriodRows ==
  ASSUME NEW f \in Seq(Rows), OneRow(f), NEW p, p # None
  PROVE  LET v == Valued(At(f, p))
         IN  /\ v \in Seq(Rows) /\ EachOnce(v, KnownIn(f, p))
             /\ \A i \in DOMAIN v : /\ v[i].val \in Int
                                    /\ v[i].val = ValueOf(CellLasts(f), <<v[i].geo, p>>)
<1> DEFINE v == Valued(At(f, p))
<1>1. /\ v \in Seq(Rows) /\ ToSet(v) = {r \in ToSet(f) \cap WithDate(Rows) : r.time = p}
      /\ \A i, j \in DOMAIN v : v[i].geo = v[j].geo => i = j
      /\ \A i \in DOMAIN v : /\ v[i].geo \in KnownIn(f, p)
                             /\ v[i].val = ValueOf(CellLasts(f), <<v[i].geo, p>>)
      /\ \A g \in KnownIn(f, p) : \E i \in DOMAIN v : v[i].geo = g
  BY PeriodIs
<1> HIDE DEF v
<1>2. \A r \in WithDate(Rows) : r.val \in Int  BY ValuesAssumption DEF WithDate
<1>3. \A i \in DOMAIN v : v[i] \in WithDate(Rows)  BY <1>1 DEF ToSet
<1>4. DOMAIN v = 1..Len(v) /\ Len(v) \in Nat  BY <1>1
<1>5. EachOnce(v, KnownIn(f, p))  BY <1>1, <1>4 DEF EachOnce
<1> QED  BY <1>1, <1>2, <1>3, <1>5 DEF v

LEMMA BenchmarkIs ==
  ASSUME NEW f \in Seq(Rows), OneRow(f), NEW p, p # None, NEW refs
  PROVE  LET bench == Benchmark(f, refs, p)
             known == KnownIn(f, p)
             val(g) == ValueOf(CellLasts(f), <<g, p>>)
         IN  \A g \in DOMAIN bench.rows :
               IF g \in known
               THEN bench.rows[g].percentile = Cardinality({h \in known : val(h) < val(g)})
                                               + Cardinality({h \in known : val(h) <= val(g)})
               ELSE bench.rows = <<>> \/ bench.rows[g] = None
<1> DEFINE v == Valued(At(f, p))  vals == Vals(v)
           known == KnownIn(f, p)  val(g) == ValueOf(CellLasts(f), <<g, p>>)
           place(g) == CHOOSE j \in DOMAIN v : v[j].geo = g
           bench == Benchmark(f, refs, p)
<1>1. /\ v \in Seq(Rows) /\ EachOnce(v, known)
      /\ \A i \in DOMAIN v : v[i].val \in Int /\ v[i].val = val(v[i].geo)
  BY PeriodRows
<1>2. Firsts(v, LAMBDA r : r.geo) = v  BY PeriodFirsts
<1>3. CASE v = <<>>
  <2>1. bench.rows = <<>>
    <3>1. bench = [peer_count |-> 0, rows |-> <<>>]
      <4>1. Valued(At(f, p)) = v  OBVIOUS
      <4> HIDE DEF v
      <4> QED  BY <1>2, <1>3, <4>1 DEF Benchmark
    <3> HIDE DEF bench
    <3> QED  BY <3>1
  <2>2. DOMAIN bench.rows = {}
    <3> HIDE DEF bench
    <3> QED  BY <2>1
  <2> HIDE DEF bench
  <2> QED  BY <2>2 DEF bench
<1>4. CASE v # <<>>
  <2> DEFINE rows == [ref \in refs |->
                        IF ref \in {q.geo : q \in ToSet(v)}
                        THEN [value |-> vals[place(ref)],
                              percentile |-> PercentileRank(vals[place(ref)], vals),
                              vs_mean |-> Len(vals) * vals[place(ref)] - SumFunction(vals),
                              vs_median2 |-> 2 * vals[place(ref)] - Median2(vals)]
                        ELSE None]
  <2>1. bench = [peer_count |-> Len(v), rows |-> rows]
    <3>1. Valued(At(f, p)) = v  OBVIOUS
    <3> HIDE DEF v
    <3> QED  BY <1>2, <1>4, <3>1 DEF Benchmark
  <2> HIDE DEF bench, v, known
  <2>2. \A g : g \in {q.geo : q \in ToSet(v)} <=> g \in known
    BY <1>1 DEF EachOnce, ToSet
  <2>3. bench.rows = rows  BY <2>1
  <2>4. /\ DOMAIN bench.rows = refs
        /\ \A g \in refs : g \in known =>
             bench.rows[g].percentile = PercentileRank(vals[place(g)], vals)
        /\ \A g \in refs : g \notin known => bench.rows[g] = None
    <3> HIDE DEF place, vals
    <3> QED  BY <2>2, <2>3
  <2>5. ASSUME NEW g \in known
        PROVE  PercentileRank(vals[place(g)], vals)
                 = Cardinality({h \in known : val(h) < val(g)})
                   + Cardinality({h \in known : val(h) <= val(g)})
    <3> DEFINE i == place(g)
    <3>1. \E j \in DOMAIN v : v[j].geo = g  BY <1>1 DEF EachOnce
    <3>2. i \in DOMAIN v /\ v[i].geo = g  BY <3>1
    <3> HIDE DEF place
    <3>3. DOMAIN vals = DOMAIN v /\ \A j \in DOMAIN v : vals[j] = val(v[j].geo) /\ vals[j] \in Int
      BY <1>1 DEF Vals
    <3>5. vals \in [DOMAIN v -> Int]  BY <1>1 DEF Vals
    <3>6. EachOnce(v, known)  BY <1>1
    <3> HIDE DEF vals
    <3> DEFINE lower == {h \in known : val(h) < val(g)}
               notHigher == {h \in known : val(h) <= val(g)}
    <3>4. vals[i] = val(g)  BY <3>2, <3>3
    <3>7. /\ \A j \in DOMAIN v : v[j].geo \in lower <=> vals[j] < vals[i]
          /\ \A j \in DOMAIN v : v[j].geo \in notHigher <=> vals[j] <= vals[i]
      <4>1. \A j \in DOMAIN v : v[j].geo \in known  BY <1>1 DEF EachOnce
      <4> HIDE DEF val
      <4> QED  BY <3>3, <3>4, <4>1
    <3>8. lower \in SUBSET known /\ notHigher \in SUBSET known  OBVIOUS
    <3>9. i \in DOMAIN v  BY <3>2
    <3> HIDE DEF i, lower, notHigher, val
    <3>10. PercentileRank(vals[i], vals) = Cardinality(lower) + Cardinality(notHigher)
      BY ONLY <3>5, <3>7, <3>8, <3>9, <3>6, PercentileCounts
    <3> QED  BY <3>10 DEF i, lower, notHigher, val, place
  <2> HIDE DEF vals, place, val
  <2>6. \A g \in DOMAIN bench.rows :
          IF g \in known
          THEN bench.rows[g].percentile = Cardinality({h \in known : val(h) < val(g)})
                                          + Cardinality({h \in known : val(h) <= val(g)})
          ELSE bench.rows = <<>> \/ bench.rows[g] = None
    BY <2>4, <2>5
  <2> QED  BY <2>6 DEF bench, known, val
<1> QED  BY <1>3, <1>4

\* Of rows one per cell, a choice is too.
LEMMA ChosenOneRow ==
  ASSUME NEW S, NEW f \in Seq(S), OneRow(f), NEW A
  PROVE  OneRow(Among(f, A))
<1> DEFINE t == Among(f, A)
<1>1. t \in Seq(S) /\ ToSet(t) = ToSet(f) \cap A  BY AmongTyped
<1>2. IsInjective(t)  BY RowOfCell, AmongOnce
<1> HIDE DEF t
<1>3. ASSUME NEW i \in DOMAIN t, NEW j \in DOMAIN t, Cell(t[i]) = Cell(t[j])  PROVE i = j
  <2>1. t[i] \in ToSet(f) /\ t[j] \in ToSet(f)  BY <1>1 DEF ToSet
  <2>2. t[i] = t[j]  BY <1>3, <2>1, RowOfCell DEF Cell
  <2> QED  BY <1>2, <2>2 DEF IsInjective
<1>4. OneRow(t)  BY <1>3 DEF OneRow
<1> QED  BY <1>4 DEF t

\* Of those, the first of each cell are all, and the last of each is its row.
LEMMA CellFirsts ==
  ASSUME NEW S, NEW s \in Seq(S), OneRow(s)
  PROVE  /\ Firsts(s, Cell) = s
         /\ DOMAIN Lasts(s, Cell) = {Cell(r) : r \in ToSet(s)}
         /\ \A r \in ToSet(s) : Lasts(s, Cell)[Cell(r)] = r.val
<1> DEFINE own(k) == Where(s, LAMBDA r : Cell(r) = k)  keys == {Cell(r) : r \in ToSet(s)}
<1>1. {i \in DOMAIN s : \A j \in DOMAIN s : j < i => Cell(s[j]) # Cell(s[i])} = DOMAIN s
  <2>1. \A i \in DOMAIN s : i \in Nat  OBVIOUS
  <2>2. \A i, j \in DOMAIN s : j < i => Cell(s[j]) # Cell(s[i])  BY <2>1 DEF OneRow
  <2> QED  BY <2>2
<1>2. Firsts(s, Cell) = s  BY <1>1, PlacedAll DEF Firsts
<1>3. Lasts(s, Cell) = [k \in keys |-> own(k)[Len(own(k))].val]  BY DEF Lasts
<1>4. ASSUME NEW r \in ToSet(s)  PROVE own(Cell(r))[Len(own(Cell(r)))] = r
  <2>1. own(Cell(r)) = Among(s, InCell(S, Cell(r)))  BY CellRowsIs
  <2>2. r \in S  BY DEF ToSet
  <2>3. r \in ToSet(s) \cap InCell(S, Cell(r))  BY <2>2 DEF InCell
  <2>4. \A q \in ToSet(s) \cap InCell(S, Cell(r)) : q = r
    BY RowOfCell DEF InCell, Cell
  <2> HIDE DEF own
  <2> QED  BY <2>1, <2>3, <2>4, OnlyOne
<1> HIDE DEF own
<1> QED  BY <1>2, <1>3, <1>4

\* Compared are the values of the cells.
LEMMA CompareIs ==
  ASSUME NEW f \in Seq(Rows), OneRow(f), NEW refs, None \notin refs
  PROVE  \A p \in DOMAIN Compare(f, refs) \ {None}, g \in refs :
           Compare(f, refs)[p][g] = ValueOf(CellLasts(f), <<g, p>>)
<1> DEFINE s == OfGeos(f, refs)  c == Lasts(s, Cell)  index == CellLasts(f)
           times == {r.time : r \in ToSet(s)}
<1>1. /\ s = Among(f, InGeos(Rows, refs)) /\ s \in Seq(Rows)
      /\ ToSet(s) = ToSet(f) \cap InGeos(Rows, refs)
  BY OfGeosIs, AmongTyped
<1>2. OneRow(s)  BY <1>1, ChosenOneRow
<1> HIDE DEF s
<1>3. /\ Firsts(s, Cell) = s /\ DOMAIN c = {Cell(r) : r \in ToSet(s)}
      /\ \A r \in ToSet(s) : c[Cell(r)] = r.val
  BY <1>1, <1>2, CellFirsts
<1>4. Compare(f, refs) = [p \in times |-> [ref \in refs |-> ValueOf(c, <<ref, p>>)]]
  BY <1>3 DEF Compare, Pivot, s
<1> HIDE DEF c, index, times
<1>5. ASSUME NEW p, p # None, NEW g \in refs
      PROVE  ValueOf(c, <<g, p>>) = ValueOf(index, <<g, p>>)
  <2>1. g # None  OBVIOUS
  <2>2. CASE <<g, p>> \in DOMAIN c
    <3>1. PICK r \in ToSet(s) : Cell(r) = <<g, p>>  BY <1>3, <2>2
    <3>2. r.geo = g /\ r.time = p /\ r \in ToSet(f)  BY <1>1, <3>1 DEF Cell
    <3>3. ValueOf(index, <<r.geo, r.time>>) = r.val
      BY <1>5, <2>1, <3>2, CellValue DEF index
    <3>4. ValueOf(c, <<g, p>>) = r.val
      <4>1. c[<<g, p>>] = r.val  BY <1>3, <3>1
      <4> QED  BY <2>2, <4>1 DEF ValueOf
    <3> QED  BY <3>2, <3>3, <3>4
  <2>3. CASE <<g, p>> \notin DOMAIN c
    <3>1. ASSUME <<g, p>> \in DOMAIN index  PROVE FALSE
      <4>1. PICK r \in ToSet(f) \cap WithDate(Rows) : Cell(r) = <<g, p>>
        <5>1. DOMAIN index = {Cell(r) : r \in ToSet(f) \cap WithDate(Rows)}
          BY CellLastsAre DEF index
        <5> QED  BY <3>1, <5>1
      <4>2. r.geo = g /\ r \in Rows  BY <4>1 DEF Cell, WithDate
      <4>3. r \in ToSet(s)  BY <1>1, <4>1, <4>2 DEF InGeos
      <4> QED  BY <1>3, <2>3, <4>1, <4>3
    <3> QED  BY <2>3, <3>1 DEF ValueOf
  <2> QED  BY <2>2, <2>3
<1> DEFINE compared == [p \in times |-> [ref \in refs |-> ValueOf(c, <<ref, p>>)]]
<1>6. \A p \in DOMAIN compared \ {None}, g \in refs : compared[p][g] = ValueOf(index, <<g, p>>)
  BY <1>5
<1> HIDE DEF compared
<1>7. Compare(f, refs) = compared  BY <1>4 DEF compared
<1> QED  BY <1>6, <1>7 DEF index

\* The values of a period, by geography.
LEMMA PeriodValuesAre ==
  ASSUME NEW f \in Seq(Rows), OneRow(f), NEW p, p # None
  PROVE  /\ DOMAIN PeriodValues(f, p) = KnownIn(f, p) /\ IsFiniteSet(KnownIn(f, p))
         /\ \A g \in KnownIn(f, p) :
              PeriodValues(f, p)[g] = ValueOf(CellLasts(f), <<g, p>>)
<1> DEFINE v == Valued(At(f, p))  known == KnownIn(f, p)
           own(k) == Where(v, LAMBDA r : r.geo = k)
           keys == {r.geo : r \in ToSet(v)}
<1>1. /\ v \in Seq(Rows) /\ EachOnce(v, known)
      /\ \A i \in DOMAIN v : v[i].val = ValueOf(CellLasts(f), <<v[i].geo, p>>)
  BY PeriodRows
<1>2. PeriodValues(f, p) = [k \in keys |-> own(k)[Len(own(k))].val]
  BY DEF PeriodValues, Lasts
<1> HIDE DEF v, known
<1>3. keys = known  BY <1>1 DEF EachOnce, ToSet
<1>4. IsFiniteSet(known)
  <2> DEFINE places == DOMAIN v
  <2>1. places \in SUBSET DOMAIN v /\ known \in SUBSET known /\ EachOnce(v, known)
    BY <1>1
  <2>2. \A i \in DOMAIN v : i \in places <=> v[i].geo \in known  BY <1>1 DEF EachOnce
  <2> HIDE DEF places
  <2> QED  BY ONLY <2>1, <2>2, PeriodCounts
<1>5. ASSUME NEW i \in DOMAIN v
      PROVE  own(v[i].geo)[Len(own(v[i].geo))] = v[i]
  <2> DEFINE k == v[i].geo  A == InGeos(Rows, {k})
  <2>1. own(k) = Among(v, A)
    <3>1. \A j \in DOMAIN v : v[j] \in Rows  BY <1>1
    <3> HIDE DEF k
    <3>2. {j \in DOMAIN v : v[j].geo = k} = {j \in DOMAIN v : v[j] \in A}
      BY <3>1 DEF InGeos
    <3> QED  BY <3>2 DEF Where, Among
  <2>2. v[i] \in ToSet(v) \cap A  BY <1>1 DEF ToSet, InGeos
  <2>3. ASSUME NEW q \in ToSet(v) \cap A  PROVE q = v[i]
    <3>1. PICK j \in DOMAIN v : v[j] = q  BY DEF ToSet
    <3>2. v[j].geo = v[i].geo  BY <3>1 DEF InGeos
    <3> QED  BY <1>1, <3>1, <3>2 DEF EachOnce
  <2> HIDE DEF own, k, A
  <2>4. Among(v, A)[Len(Among(v, A))] = v[i]  BY <1>1, <2>2, <2>3, OnlyOne
  <2> QED  BY <2>1, <2>4 DEF k
<1> HIDE DEF own
<1>6. ASSUME NEW g \in known  PROVE PeriodValues(f, p)[g] = ValueOf(CellLasts(f), <<g, p>>)
  <2>1. PICK i \in DOMAIN v : v[i].geo = g  BY <1>1 DEF EachOnce
  <2>2. own(g)[Len(own(g))] = v[i]  BY <1>5, <2>1
  <2> HIDE DEF keys
  <2> QED  BY <1>1, <1>2, <1>3, <2>1, <2>2
<1> HIDE DEF keys
<1> QED  BY <1>2, <1>3, <1>4, <1>6 DEF known

\* Put in some order, a set has no more members than it had.
LEMMA SetToSeqIs ==
  ASSUME NEW X, IsFiniteSet(X)
  PROVE  ToSet(SetToSeq(X)) \subseteq X
<1> DEFINE n == Cardinality(X)
<1>1. n \in Nat  BY FS_CardinalityType
<1>2. PICK m \in Nat : ExistsBijection(1..m, X)  BY FS_NatBijection
<1>3. n = m  BY <1>2, FS_CountingElements
<1>4. PICK h \in Bijection(1..n, X) : TRUE  BY <1>2, <1>3 DEF ExistsBijection
<1>5. h \in [1..n -> X] /\ IsInjective(h)
  BY <1>4 DEF Bijection, Injection, IsInjective
<1> HIDE DEF n
<1>6. (CHOOSE i \in [1..n -> X] : IsInjective(i)) \in [1..n -> X]  BY <1>5
<1>7. SetToSeq(X) \in [1..n -> X]  BY <1>6 DEF SetToSeq, n
<1> QED  BY <1>7 DEF ToSet

LEMMA CorrelateIs ==
  ASSUME NEW f1 \in Seq(Rows), OneRow(f1), NEW f2 \in Seq(Rows), OneRow(f2), NEW p, p # None
  PROVE  \A g \in DOMAIN Correlate(f1, f2, p).rows :
           Correlate(f1, f2, p).rows[g]
             = <<ValueOf(CellLasts(f1), <<g, p>>), ValueOf(CellLasts(f2), <<g, p>>)>>
<1> DEFINE v1 == PeriodValues(f1, p)  v2 == PeriodValues(f2, p)
           both == DOMAIN v1 \cap DOMAIN v2  common == SetToSeq(both)
           ans == Correlate(f1, f2, p)
<1>1. /\ DOMAIN v1 = KnownIn(f1, p) /\ IsFiniteSet(DOMAIN v1)
      /\ \A g \in DOMAIN v1 : v1[g] = ValueOf(CellLasts(f1), <<g, p>>)
  BY PeriodValuesAre
<1>2. /\ DOMAIN v2 = KnownIn(f2, p)
      /\ \A g \in DOMAIN v2 : v2[g] = ValueOf(CellLasts(f2), <<g, p>>)
  BY PeriodValuesAre
<1> DEFINE rows == [g \in ToSet(common) |-> <<v1[g], v2[g]>>]
<1>3. ans.rows = rows  BY DEF Correlate
<1> HIDE DEF v1, v2, ans
<1>4. IsFiniteSet(both)
  <2>1. both \in SUBSET DOMAIN v1  OBVIOUS
  <2> QED  BY <1>1, <2>1, FS_Subset
<1>5. ToSet(common) \subseteq both  BY <1>4, SetToSeqIs
<1> HIDE DEF common
<1>6. \A g \in DOMAIN ans.rows :
        ans.rows[g] = <<ValueOf(CellLasts(f1), <<g, p>>), ValueOf(CellLasts(f2), <<g, p>>)>>
  BY <1>1, <1>2, <1>3, <1>5
<1> QED  BY <1>6 DEF ans

\* Joined are the values of the cells of either, those of some geographies or all.
LEMMA JoinIs ==
  ASSUME NEW f1 \in Seq(Rows), OneRow(f1), NEW f2 \in Seq(Rows), OneRow(f2)
  PROVE  \A k \in DOMAIN JoinIndicators(f1, f2).rows :
           /\ k = <<k[1], k[2]>> /\ k \in DOMAIN CellLasts(f1) \cup DOMAIN CellLasts(f2)
           /\ JoinIndicators(f1, f2).rows[k]
                = <<ValueOf(CellLasts(f1), k), ValueOf(CellLasts(f2), k)>>
<1>1. ASSUME NEW f \in Seq(Rows), OneRow(f)
      PROVE  /\ CellIndex(f) = CellLasts(f)
             /\ \A k \in DOMAIN CellLasts(f) : k = <<k[1], k[2]>>
  <2>1. Dated(f) \in Seq(Rows) /\ OneRow(Dated(f))
    BY <1>1, DatedIs, AmongTyped, ChosenOneRow
  <2>2. Firsts(Dated(f), Cell) = Dated(f)  BY <2>1, CellFirsts
  <2>3. CellIndex(f) = CellLasts(f)  BY <2>2 DEF CellIndex, CellLasts
  <2>4. DOMAIN CellLasts(f) = {Cell(r) : r \in ToSet(f) \cap WithDate(Rows)}
    BY CellLastsAre
  <2> QED  BY <2>3, <2>4 DEF Cell
<1> DEFINE c1 == CellLasts(f1)  c2 == CellLasts(f2)  ans == JoinIndicators(f1, f2)
           rows == [k \in DOMAIN c1 \cup DOMAIN c2 |-> <<ValueOf(c1, k), ValueOf(c2, k)>>]
<1>2. CellIndex(f1) = c1 /\ CellIndex(f2) = c2
      /\ \A k \in DOMAIN c1 \cup DOMAIN c2 : k = <<k[1], k[2]>>
  BY <1>1
<1> HIDE DEF c1, c2
<1>3. ans.rows = rows  BY <1>2 DEF JoinIndicators
<1> HIDE DEF ans
<1>4. \A k \in DOMAIN ans.rows :
        /\ k = <<k[1], k[2]>> /\ k \in DOMAIN c1 \cup DOMAIN c2
        /\ ans.rows[k] = <<ValueOf(c1, k), ValueOf(c2, k)>>
  BY <1>2, <1>3
<1> QED  BY <1>4 DEF ans, c1, c2

\* A geography is covered in the periods in which it has a value.
LEMMA CoverageIs ==
  ASSUME NEW f \in Seq(Rows), NEW times, \A r \in ToSet(f) : r.time \in times
  PROVE  \A g \in DOMAIN Coverage(f).rows :
           Coverage(f).rows[g].n_periods = Cardinality({p \in times : g \in KnownIn(f, p)})
<1> DEFINE v == ToSet(Dated(f))  periods(g) == {r.time : r \in {q \in v : q.geo = g}}
           row(g) == [n_periods |-> Cardinality(periods(g)),
                      first_period |-> Min(periods(g)), last_period |-> Max(periods(g))]
           ans == Coverage(f)
<1>1. v = ToSet(f) \cap WithDate(Rows)  BY DatedIs, AmongTyped
<1>2. ans.rows = [g \in {r.geo : r \in v} |-> row(g)]  BY DEF Coverage
<1> HIDE DEF v, ans
<1>3. ASSUME NEW g  PROVE periods(g) = {p \in times : g \in KnownIn(f, p)}
  <2>1. \A p : g \in KnownIn(f, p) <=> \E r \in v : r.geo = g /\ r.time = p
    BY <1>1, KnownIs
  <2>2. \A r \in v : r.time \in times  BY <1>1
  <2> QED  BY <2>1, <2>2
<1> HIDE DEF periods
<1>4. \A g \in DOMAIN ans.rows : ans.rows[g].n_periods = Cardinality(periods(g))  BY <1>2
<1> QED  BY <1>3, <1>4 DEF ans

\* A period's aggregate is over the geographies asked for that have a value, where every
\* row names one.
LEMMA AggregateIs ==
  ASSUME NEW f \in Seq(Rows), OneRow(f), NEW p, p # None, NEW refs,
         \A r \in ToSet(f) : r.geo # None, p \in DOMAIN Aggregate(f, refs).rows
  PROVE  Aggregate(f, refs).rows[p].n_ref_areas
           = Cardinality({g \in Aggregate(f, refs).ref_areas : g \in KnownIn(f, p)})
<1> DEFINE ans == Aggregate(f, refs)
           g == IF refs = {} THEN f ELSE OfGeos(f, refs)
           A == IF refs = {} THEN Rows ELSE InGeos(Rows, refs)
           B == {r \in Rows : r.time # None /\ r.val # None}
           v == Where(g, LAMBDA r : r.time # None /\ r.val # None)
           x == At(v, p)
           areas == {h \in ans.ref_areas : h \in KnownIn(f, p)}
<1>1. g \in Seq(Rows) /\ ToSet(g) = ToSet(f) \cap A /\ OneRow(g)
  <2>1. CASE refs = {}
    <3>1. ToSet(f) \subseteq Rows  BY DEF ToSet
    <3> QED  BY <2>1, <3>1
  <2>2. CASE refs # {}
    BY <2>2, OfGeosIs, AmongTyped, ChosenOneRow
  <2> QED  BY <2>1, <2>2
<1>2. /\ ans.rows = PerPeriod(v)
      /\ ans.ref_areas = IF refs # {} THEN refs ELSE {r.geo : r \in ToSet(g)} \ {None}
  BY DEF Aggregate
<1> HIDE DEF g, ans
<1>3. v \in Seq(Rows) /\ ToSet(v) = ToSet(g) \cap B /\ OneRow(v)
  <2>1. v = Among(g, B)
    <3>1. \A i \in DOMAIN g : g[i] \in Rows  BY <1>1
    <3>2. {i \in DOMAIN g : g[i].time # None /\ g[i].val # None} = {i \in DOMAIN g : g[i] \in B}
      BY <3>1
    <3> QED  BY <3>2 DEF Where, Among
  <2> HIDE DEF A, B, v
  <2>2. v \in Seq(Rows) /\ ToSet(v) = ToSet(g) \cap B  BY <1>1, <2>1, AmongTyped
  <2>3. OneRow(v)  BY <1>1, <2>1, ChosenOneRow
  <2> QED  BY <2>2, <2>3
<1> HIDE DEF v
<1>4. x \in Seq(Rows) /\ ToSet(x) = ToSet(v) \cap InTime(Rows, p) /\ OneRow(x)
  BY <1>3, AtIs, AmongTyped, ChosenOneRow
<1> HIDE DEF x
<1>5. ans.rows[p].n_ref_areas = Len(x)
  <2> DEFINE row(q) == LET o == Vals(At(v, q))
                       IN  [n_ref_areas |-> Len(o), sum |-> SumFunction(o),
                            median2 |-> Median2(o), spread |-> Spread(o, o),
                            min |-> Min(ToSet(o)), max |-> Max(ToSet(o))]
  <2>1. ans.rows = [q \in {r.time : r \in ToSet(v)} |-> row(q)]  BY <1>2 DEF PerPeriod
  <2>2. ans.rows[p] = row(p)
    <3> HIDE DEF row
    <3>1. p \in DOMAIN ans.rows  BY DEF ans
    <3> QED  BY <2>1, <3>1
  <2>3. ans.rows[p].n_ref_areas = Len(Vals(x))  BY <2>2 DEF x
  <2>4. Len(Vals(x)) = Len(x)  BY <1>4 DEF Vals
  <2> QED  BY <2>3, <2>4
<1>6. ASSUME NEW r \in ToSet(x)
      PROVE  /\ r \in ToSet(f) \cap WithDate(Rows) /\ r.time = p /\ r \in ToSet(g)
             /\ refs # {} => r.geo \in refs
  <2>1. r \in ToSet(f) /\ r \in A /\ r \in B /\ r \in InTime(Rows, p) /\ r \in ToSet(g)
    BY <1>1, <1>3, <1>4
  <2>2. r.geo # None  BY <2>1
  <2> QED  BY <2>1, <2>2 DEF WithDate, InTime, InGeos
<1>7. ASSUME NEW r \in ToSet(f) \cap WithDate(Rows), r.time = p, refs # {} => r.geo \in refs
      PROVE  r \in ToSet(x)
  <2>1. r \in Rows /\ r \in A /\ r \in B /\ r \in InTime(Rows, p)
    BY <1>7 DEF WithDate, InTime, InGeos
  <2> QED  BY <1>1, <1>3, <1>4, <2>1
<1>8. EachOnce(x, areas)
  <2>1. DOMAIN x = 1..Len(x) /\ Len(x) \in Nat  BY <1>4
  <2>2. \A i \in DOMAIN x : x[i] \in ToSet(x)  BY DEF ToSet
  <2>3. \A i, j \in DOMAIN x : x[i].geo = x[j].geo => i = j
    BY <1>4, <1>6, <2>2 DEF OneRow, Cell
  <2>4. ASSUME NEW i \in DOMAIN x  PROVE x[i].geo \in areas
    <3>1. x[i].geo \in KnownIn(f, p)  BY <1>6, <2>2, KnownIs
    <3>2. x[i].geo \in ans.ref_areas
      <4>1. x[i].geo # None  BY <1>6, <2>2 DEF WithDate
      <4> QED  BY <1>2, <1>6, <2>2, <4>1
    <3> QED  BY <3>1, <3>2
  <2>5. ASSUME NEW h \in areas  PROVE \E i \in DOMAIN x : x[i].geo = h
    <3>1. PICK r \in ToSet(f) \cap WithDate(Rows) : r.geo = h /\ r.time = p  BY KnownIs
    <3>2. r \in ToSet(x)  BY <1>2, <1>7, <3>1
    <3> QED  BY <3>1, <3>2 DEF ToSet
  <2> HIDE DEF areas
  <2> QED  BY <2>1, <2>3, <2>4, <2>5 DEF EachOnce
<1>9. Cardinality(areas) = Len(x)
  <2> DEFINE places == DOMAIN x
  <2>1. areas \in SUBSET areas /\ places \in SUBSET DOMAIN x  OBVIOUS
  <2>2. \A i \in DOMAIN x : i \in places <=> x[i].geo \in areas  BY <1>8 DEF EachOnce
  <2>3. places = 1..Len(x) /\ Len(x) \in Nat  BY <1>8 DEF EachOnce
  <2> HIDE DEF places, areas
  <2>4. Cardinality(areas) = Cardinality(places)  BY <1>8, <2>1, <2>2, PeriodCounts
  <2> QED  BY <2>3, <2>4, UpTo
<1> QED  BY <1>5, <1>9 DEF ans

-----------------------------------------------------------------------------
(* Every tool's answer. *)

\* A join on the rows of some geographies, or on all.
JoinOf(f1, f2, c) == IF c = {} THEN JoinIndicators(f1, f2)
                     ELSE JoinIndicators(OfGeos(f1, c), OfGeos(f2, c))

\* What a call on complete fetches was on: rows one per cell, and how its tool answered.
LEMMA AnswerIs ==
  ASSUME Paged, Asking, Answered, Complete, call.tool # "codelist",
         \A i \in DOMAIN call.dims : OneRowPerCell(call.dims[i])
  PROVE  /\ table \in Seq(Rows) /\ Called /\ call.codes \in Codes
         /\ Asked(call.dims[1]) \in Seq(Rows) /\ OneRow(Asked(call.dims[1]))
         /\ call.tool \in {"correlate", "join"} =>
              Asked(call.dims[2]) \in Seq(Rows) /\ OneRow(Asked(call.dims[2]))
         /\ call.tool # "join" => answer = Analysis(table, table)
         /\ call.tool = "join" =>
              answer = JoinOf(Asked(call.dims[1]), Asked(call.dims[2]), call.codes)
<1> DEFINE d1 == call.dims[1]  d2 == call.dims[2]  c == call.codes
           whole == IF call.tool # "join" \/ c = {} THEN table ELSE OfGeos(table, c)
<1>1. Called /\ table \in Tables /\ WellCalled  BY DEF Asking, Answered, Paged, Typed
<1>2. c \in Codes /\ call.dims \in Asks  BY <1>1 DEF WellCalled
<1>3. 1 \in DOMAIN call.dims /\ (call.tool \in {"correlate", "join"} => 2 \in DOMAIN call.dims)
  <2>1. call.dims \in Seq(Dims) /\ call.dims # <<>>  BY <1>2 DEF Asks
  <2> DEFINE n == Len(call.dims)
  <2>2. n \in Nat /\ n # 0 /\ DOMAIN call.dims = 1..n  BY <2>1
  <2>3. call.tool \in {"correlate", "join"} => n = 2  BY <1>1 DEF Called
  <2> HIDE DEF n
  <2>4. 1 \in 1..n /\ (n = 2 => 2 \in 1..n)  BY <2>2
  <2> QED  BY <2>2, <2>3, <2>4
<1>4. /\ table \in Seq(Rows) /\ Asked(d1) \in Seq(Rows) /\ Asked(d2) \in Seq(Rows)
      /\ c # {} => /\ Filtered(OfGeos(table, c), d1) = OfGeos(Asked(d1), c)
                   /\ Filtered(OfGeos(table, c), d2) = OfGeos(Asked(d2), c)
  BY <1>1, FilteredMatching DEF Asked
<1>5. OneRow(Asked(d1)) /\ (call.tool \in {"correlate", "join"} => OneRow(Asked(d2)))
  BY <1>3 DEF OneRowPerCell, OneRow
<1>6. answer = Analysis(whole, whole)  BY AnswerOfWhole
<1>7. call.tool # "join" => answer = Analysis(table, table)  BY <1>6
<1>8. ASSUME call.tool = "join"
      PROVE  answer = JoinOf(Asked(d1), Asked(d2), c)
  <2>1. Analysis(whole, whole) = JoinIndicators(Filtered(whole, d1), Filtered(whole, d2))
    BY <1>8 DEF Analysis
  <2>2. CASE c = {}
    <3>1. whole = table  BY <2>2
    <3> QED  BY <1>6, <2>1, <2>2, <3>1 DEF Asked, JoinOf
  <2>3. CASE c # {}
    <3>1. whole = OfGeos(table, c)  BY <1>8, <2>3
    <3> HIDE DEF whole
    <3> QED  BY <1>4, <1>6, <2>1, <2>3, <3>1 DEF JoinOf
  <2> QED  BY <2>2, <2>3
<1> QED  BY <1>1, <1>2, <1>4, <1>5, <1>7, <1>8

\* The answer's rows are those of two fetches' cells.
CellsJoined(ans, f1, f2) ==
  \A k \in DOMAIN ans.rows : ans.rows[k] = <<ValueOf(CellLasts(f1), <<k[1], k[2]>>),
                                            ValueOf(CellLasts(f2), <<k[1], k[2]>>)>>

\* A join's rows are those of the cells of its geographies.
LEMMA JoinOfGeosIs ==
  ASSUME NEW f1 \in Seq(Rows), OneRow(f1), NEW f2 \in Seq(Rows), OneRow(f2), NEW c
  PROVE  CellsJoined(JoinOf(f1, f2, c), f1, f2)
<1> DEFINE ans == JoinOf(f1, f2, c)
<1> HIDE DEF ans
<1>1. CASE c = {}
  <2>1. ans = JoinIndicators(f1, f2)  BY <1>1 DEF ans, JoinOf
  <2>2. ASSUME NEW k \in DOMAIN ans.rows
        PROVE  ans.rows[k] = <<ValueOf(CellLasts(f1), <<k[1], k[2]>>),
                               ValueOf(CellLasts(f2), <<k[1], k[2]>>)>>
    <3>1. /\ k = <<k[1], k[2]>>
          /\ ans.rows[k] = <<ValueOf(CellLasts(f1), k), ValueOf(CellLasts(f2), k)>>
      BY <2>1, <2>2, JoinIs
    <3> DEFINE cell == <<k[1], k[2]>>
    <3>2. k = cell  BY <3>1
    <3> HIDE DEF cell
    <3>3. ans.rows[k] = <<ValueOf(CellLasts(f1), cell), ValueOf(CellLasts(f2), cell)>>
      BY <3>1, <3>2
    <3> QED  BY <3>3 DEF cell
  <2> QED  BY <2>2 DEF ans, CellsJoined
<1>2. CASE c # {}
  <2> DEFINE g1 == OfGeos(f1, c)  g2 == OfGeos(f2, c)
  <2>1. ASSUME NEW f \in Seq(Rows), OneRow(f)
        PROVE  /\ OfGeos(f, c) \in Seq(Rows) /\ OneRow(OfGeos(f, c))
               /\ \A k \in DOMAIN CellLasts(OfGeos(f, c)) : k[1] \in c
               /\ \A k : k[1] \in c =>
                    ValueOf(CellLasts(OfGeos(f, c)), k) = ValueOf(CellLasts(f), k)
    <3>1. OfGeos(f, c) \in Seq(Rows) /\ OneRow(OfGeos(f, c))
      BY <2>1, OfGeosIs, AmongTyped, ChosenOneRow
    <3>2. /\ DOMAIN CellLasts(OfGeos(f, c)) = {k \in DOMAIN CellLasts(f) : k[1] \in c}
          /\ \A k \in DOMAIN CellLasts(OfGeos(f, c)) :
               CellLasts(OfGeos(f, c))[k] = CellLasts(f)[k]
      BY CellLastsOfGeos
    <3> QED  BY <3>1, <3>2 DEF ValueOf
  <2>2. ans = JoinIndicators(g1, g2)  BY <1>2 DEF ans, JoinOf
  <2>3. /\ g1 \in Seq(Rows) /\ OneRow(g1) /\ (\A k \in DOMAIN CellLasts(g1) : k[1] \in c)
        /\ \A k : k[1] \in c => ValueOf(CellLasts(g1), k) = ValueOf(CellLasts(f1), k)
    BY <2>1
  <2>4. /\ g2 \in Seq(Rows) /\ OneRow(g2) /\ (\A k \in DOMAIN CellLasts(g2) : k[1] \in c)
        /\ \A k : k[1] \in c => ValueOf(CellLasts(g2), k) = ValueOf(CellLasts(f2), k)
    BY <2>1
  <2> HIDE DEF g1, g2
  <2>5. ASSUME NEW k \in DOMAIN ans.rows
        PROVE  ans.rows[k] = <<ValueOf(CellLasts(f1), <<k[1], k[2]>>),
                               ValueOf(CellLasts(f2), <<k[1], k[2]>>)>>
    <3>1. /\ k = <<k[1], k[2]>> /\ k \in DOMAIN CellLasts(g1) \cup DOMAIN CellLasts(g2)
          /\ ans.rows[k] = <<ValueOf(CellLasts(g1), k), ValueOf(CellLasts(g2), k)>>
      BY <2>2, <2>3, <2>4, <2>5, JoinIs
    <3>2. k[1] \in c  BY <2>3, <2>4, <3>1
    <3>3. /\ ValueOf(CellLasts(g1), k) = ValueOf(CellLasts(f1), k)
          /\ ValueOf(CellLasts(g2), k) = ValueOf(CellLasts(f2), k)
      BY <2>3, <2>4, <3>2
    <3> DEFINE cell == <<k[1], k[2]>>
    <3>4. k = cell  BY <3>1
    <3> HIDE DEF cell
    <3>5. ans.rows[k] = <<ValueOf(CellLasts(f1), cell), ValueOf(CellLasts(f2), cell)>>
      BY <3>1, <3>3, <3>4
    <3> QED  BY <3>5 DEF cell
  <2> QED  BY <2>5 DEF ans, CellsJoined
<1> QED  BY <1>1, <1>2

\* Whatever the rows, as long as there is one of a cell: every tool answers from the
\* cells' values, however it treats duplicates and in whatever order the rows came.
THEOREM CellsDecideAnswers == Spec => []CellsDecide
<1>1. ASSUME Paged, Asking  PROVE CellsDecide
  <2> DEFINE d == call.dims[1]  t == call.tool  a == call.args  f == Asked(d)
             v(g, p) == ValueOf(CellLasts(f), <<g, p>>)
             w(g, p) == ValueOf(CellLasts(Asked(call.dims[2])), <<g, p>>)
             known == KnownIn(f, Period)
  <2> SUFFICES
        ASSUME Answered, Complete, \A i \in DOMAIN call.dims : OneRowPerCell(call.dims[i])
        PROVE  /\ t = "rank" =>
                    /\ answer.total = Cardinality(known)
                    /\ \A i \in DOMAIN answer.rows :
                         /\ answer.rows[i].val = v(answer.rows[i].geo, Period)
                         /\ Cardinality({g \in known :
                              IF a.ascending THEN v(g, Period) < answer.rows[i].val
                              ELSE v(g, Period) > answer.rows[i].val}) < i
               /\ t = "benchmark" => \A g \in DOMAIN answer.rows :
                    IF g \in known
                    THEN answer.rows[g].percentile =
                           Cardinality({h \in known : v(h, Period) < v(g, Period)})
                           + Cardinality({h \in known : v(h, Period) <= v(g, Period)})
                    ELSE answer.rows = <<>> \/ answer.rows[g] = None
               /\ t = "compare" =>
                    \A p \in DOMAIN answer \ {None}, g \in a : answer[p][g] = v(g, p)
               /\ t = "growth" => \A g \in DOMAIN answer :
                    answer[g].base_value = v(g, Base) /\ answer[g].end_value = v(g, Period)
               /\ t = "correlate" => \A g \in DOMAIN answer.rows :
                    answer.rows[g] = <<v(g, Period), w(g, Period)>>
               /\ t = "join" => \A k \in DOMAIN answer.rows :
                    answer.rows[k] = <<v(k[1], k[2]), w(k[1], k[2])>>
               /\ t = "coverage" => \A g \in DOMAIN answer.rows :
                    answer.rows[g].n_periods =
                      Cardinality({p \in {r.time : r \in ToSet(table)} : g \in KnownIn(f, p)})
               /\ (/\ t = "aggregate" /\ Period \in DOMAIN answer.rows
                   /\ \A r \in ToSet(table) : r.geo # None) =>
                    answer.rows[Period].n_ref_areas =
                      Cardinality({g \in answer.ref_areas : g \in known})
    BY DEF CellsDecide, Value, Known, KnownIn
  <2>1. CASE t = "codelist"  BY <2>1
  <2>2. CASE t # "codelist"
    <3>1. /\ table \in Seq(Rows) /\ Called /\ call.codes \in Codes
          /\ f \in Seq(Rows) /\ OneRow(f)
          /\ t \in {"correlate", "join"} =>
               Asked(call.dims[2]) \in Seq(Rows) /\ OneRow(Asked(call.dims[2]))
          /\ t # "join" => answer = Analysis(table, table)
          /\ t = "join" =>
               answer = JoinOf(f, Asked(call.dims[2]), call.codes)
      BY <1>1, <2>2, AnswerIs
    <3>2. Period # None /\ \A c \in Codes : None \notin c
      BY ValuesAssumption DEF Codes
    <3>3. ToSet(f) \subseteq ToSet(table)
      BY <3>1, FilteredIs, AmongTyped DEF Asked
    <3>4. /\ t = "rank" => answer = Rank(f, Period, a.n, a.ascending) /\ a.n \in Int
          /\ t = "benchmark" => answer = Benchmark(f, a, Period)
          /\ t = "compare" => answer = Compare(f, a) /\ None \notin a
          /\ t = "growth" => answer = Growth(f, a, Base, Period)
          /\ t = "correlate" => answer = Correlate(f, Asked(call.dims[2]), Period)
          /\ t = "coverage" => answer = Coverage(f)
          /\ t = "aggregate" => answer = Aggregate(f, a)
      BY <3>1, <3>2 DEF Analysis, Asked, Called, Grouped
    <3> HIDE DEF f, t, a
    <3>5. CASE t = "rank"
      <4>1. a.n \in Int /\ answer = Rank(f, Period, a.n, a.ascending)  BY <3>4, <3>5
      <4> DEFINE n == a.n  up == a.ascending
      <4> DEFINE ranking == Rank(f, Period, n, up)
      <4>2. n \in Int /\ answer = ranking  BY <4>1
      <4> HIDE DEF n, up
      <4>3. /\ ranking.total = Cardinality(KnownIn(f, Period))
            /\ \A i \in DOMAIN ranking.rows :
                 /\ ranking.rows[i].val
                      = ValueOf(CellLasts(f), <<ranking.rows[i].geo, Period>>)
                 /\ Cardinality(Better(f, Period, ranking.rows[i].val, up)) < i
        BY <3>1, <3>2, <4>2, RankIs
      <4>4. /\ ranking.total = Cardinality(known)
            /\ \A i \in DOMAIN ranking.rows :
                 /\ ranking.rows[i].val = v(ranking.rows[i].geo, Period)
                 /\ Cardinality({g \in known :
                      IF up THEN v(g, Period) < ranking.rows[i].val
                      ELSE v(g, Period) > ranking.rows[i].val}) < i
        BY <4>3 DEF Better
      <4> HIDE DEF ranking, v, known
      <4> QED  BY <3>5, <4>2, <4>4 DEF up
    <3>6. CASE t = "benchmark"
      <4> DEFINE bench == Benchmark(f, a, Period)
      <4>1. \A g \in DOMAIN bench.rows :
              IF g \in known
              THEN bench.rows[g].percentile =
                     Cardinality({h \in known : v(h, Period) < v(g, Period)})
                     + Cardinality({h \in known : v(h, Period) <= v(g, Period)})
              ELSE bench.rows = <<>> \/ bench.rows[g] = None
        BY <3>1, <3>2, BenchmarkIs
      <4>2. answer = bench  BY <3>4, <3>6
      <4> HIDE DEF bench, v, known
      <4> QED  BY <3>6, <4>1, <4>2
    <3>7. CASE t = "compare"  BY <3>1, <3>2, <3>4, <3>7, CompareIs
    <3>8. CASE t = "growth"
      <4>1. answer = Growth(f, a, Base, Period)  BY <3>4, <3>8
      <4>2. \A g \in DOMAIN answer : answer[g] = Change(v(g, Base), v(g, Period))
        BY <4>1 DEF Growth
      <4> QED  BY <3>8, <4>2 DEF Change
    <3>9. CASE t = "correlate"  BY <3>1, <3>2, <3>4, <3>9, CorrelateIs
    <3>10. CASE t = "join"
      <4> DEFINE f2 == Asked(call.dims[2])  c == call.codes
      <4>1. /\ f2 \in Seq(Rows) /\ OneRow(f2)
            /\ answer = JoinOf(f, f2, c)
        BY <3>1, <3>10
      <4> HIDE DEF f2, c, v
      <4>2. f2 \in Seq(Rows) /\ OneRow(f2) /\ f \in Seq(Rows) /\ OneRow(f)
        BY <3>1, <4>1
      <4>3. CellsJoined(answer, f, f2)  BY <4>1, <4>2, JoinOfGeosIs
      <4> QED  BY <3>10, <4>3 DEF f2, v, CellsJoined
    <3>11. CASE t = "coverage"
      <4> DEFINE times == {r.time : r \in ToSet(table)}
      <4>1. \A r \in ToSet(f) : r.time \in times  BY <3>3
      <4> HIDE DEF times
      <4>2. \A g \in DOMAIN Coverage(f).rows :
              Coverage(f).rows[g].n_periods = Cardinality({p \in times : g \in KnownIn(f, p)})
        BY <3>1, <4>1, CoverageIs
      <4>3. answer = Coverage(f)  BY <3>4, <3>11
      <4>4. \A g \in DOMAIN answer.rows :
              answer.rows[g].n_periods = Cardinality({p \in times : g \in KnownIn(f, p)})
        BY <4>2, <4>3
      <4> QED  BY <3>11, <4>4 DEF times
    <3>12. CASE t = "aggregate"
      <4> SUFFICES ASSUME Period \in DOMAIN answer.rows, \A r \in ToSet(table) : r.geo # None
                   PROVE  answer.rows[Period].n_ref_areas =
                            Cardinality({g \in answer.ref_areas : g \in known})
        BY <3>12
      <4>1. answer = Aggregate(f, a) /\ \A r \in ToSet(f) : r.geo # None
        BY <3>3, <3>4, <3>12
      <4>2. Period \in DOMAIN Aggregate(f, a).rows  BY <4>1
      <4>3. Aggregate(f, a).rows[Period].n_ref_areas
              = Cardinality({g \in Aggregate(f, a).ref_areas : g \in known})
        BY <3>1, <3>2, <4>1, <4>2, AggregateIs
      <4> QED  BY <4>1, <4>3
    <3> HIDE DEF v, w, known
    <3> QED  BY <3>5, <3>6, <3>7, <3>8, <3>9, <3>10, <3>11, <3>12
  <2> QED  BY <2>1, <2>2
<1> QED  BY <1>1, AlwaysAsking, PTL
=============================================================================
