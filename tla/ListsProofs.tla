------------------------------ MODULE ListsProofs ------------------------------
(***************************************************************************)
(* What choosing and ordering give, for elements of any kind and number:    *)
(* picking by places keeps the order, picking twice is picking once by both *)
(* conditions, and an ordered set is there once, from first to last.        *)
(***************************************************************************)
EXTENDS Lists, SequencesExt, FiniteSetTheorems, FunctionTheorems, SequenceTheorems,
        WellFoundedInduction, TLAPS

-----------------------------------------------------------------------------
(* Places. *)

Before(K, i) == Cardinality({j \in K : j < i})
Nth(K, n) == CHOOSE i \in K : Before(K, i) = n - 1

LEMMA UpTo ==
  ASSUME NEW n \in Nat
  PROVE  /\ IsFiniteSet(1..n) /\ Cardinality(1..n) = n
         /\ IsFiniteSet(0..(n - 1)) /\ Cardinality(0..(n - 1)) = n
<1>1. 0 \in Int /\ 1 \in Int /\ n \in Int /\ n - 1 \in Int  OBVIOUS
<1>2. IsFiniteSet(1..n) /\ Cardinality(1..n) = IF 1 > n THEN 0 ELSE n - 1 + 1
  BY <1>1, FS_Interval
<1>3. IsFiniteSet(0..(n - 1)) /\ Cardinality(0..(n - 1)) = IF 0 > n - 1 THEN 0 ELSE n - 1 - 0 + 1
  BY <1>1, FS_Interval
<1> QED  BY <1>2, <1>3

LEMMA BeforeTyped ==
  ASSUME NEW K, IsFiniteSet(K), NEW i
  PROVE  Before(K, i) \in Nat /\ IsFiniteSet({j \in K : j < i}) /\ Cardinality(K) \in Nat
<1>1. {j \in K : j < i} \in SUBSET K  OBVIOUS
<1> QED  BY <1>1, FS_Subset, FS_CardinalityType DEF Before

\* Later members have more before them, and less than all.
LEMMA BeforeGrows ==
  ASSUME NEW K \in SUBSET Nat, IsFiniteSet(K), NEW i \in K, NEW k \in K
  PROVE  /\ Before(K, i) \in 0..(Cardinality(K) - 1)
         /\ i < k <=> Before(K, i) < Before(K, k)
         /\ i = k <=> Before(K, i) = Before(K, k)
<1>1. ASSUME NEW a \in K, NEW b \in Nat, a < b
      PROVE  Before(K, a) < Before(K, b)
  <2> DEFINE A == {j \in K : j < a}  B == {j \in K : j < b}
  <2>1. IsFiniteSet(B) /\ Cardinality(B) \in Nat /\ Cardinality(A) \in Nat
    BY BeforeTyped DEF Before
  <2>2. A \in SUBSET B /\ a \in B /\ a \notin A
    <3>1. a \in Nat /\ \A j \in K : j \in Nat  OBVIOUS
    <3>2. \A j \in K : j < a => j < b  BY <1>1, <3>1
    <3>3. ~(a < a)  BY <3>1
    <3> QED  BY <1>1, <3>2, <3>3
  <2>3. A # B  BY <2>2
  <2> HIDE DEF A, B
  <2>4. Cardinality(A) <= Cardinality(B) /\ Cardinality(A) # Cardinality(B)
    BY <2>1, <2>2, <2>3, FS_Subset
  <2> QED  BY <2>1, <2>4 DEF Before, A, B
<1>2. Before(K, i) < Cardinality(K)
  <2> DEFINE A == {j \in K : j < i}
  <2>1. A \in SUBSET K /\ i \notin A  OBVIOUS
  <2>2. Cardinality(A) \in Nat /\ Cardinality(K) \in Nat  BY BeforeTyped DEF Before
  <2> HIDE DEF A
  <2>3. Cardinality(A) <= Cardinality(K) /\ Cardinality(A) # Cardinality(K)
    BY <2>1, <2>2, FS_Subset
  <2> QED  BY <2>2, <2>3 DEF Before, A
<1>3. Before(K, i) \in Nat /\ Before(K, k) \in Nat /\ Cardinality(K) \in Nat  BY BeforeTyped
<1>4. i < k => Before(K, i) < Before(K, k)  BY <1>1
<1>5. k < i => Before(K, k) < Before(K, i)  BY <1>1
<1>6. i \in Nat /\ k \in Nat  OBVIOUS
<1> QED  BY <1>2, <1>3, <1>4, <1>5, <1>6

\* There is one at every place.
LEMMA NthIs ==
  ASSUME NEW K \in SUBSET Nat, IsFiniteSet(K), NEW n \in 1..Cardinality(K)
  PROVE  /\ Nth(K, n) \in K /\ Before(K, Nth(K, n)) = n - 1
         /\ \A i \in K : Before(K, i) = n - 1 => i = Nth(K, n)
<1> DEFINE T == 0..(Cardinality(K) - 1)
           f == [i \in K |-> Before(K, i)]
<1>1. Cardinality(K) \in Nat  BY FS_CardinalityType
<1>2. f \in Injection(K, T)
  <2>1. \A i \in K : f[i] \in T  BY BeforeGrows
  <2>2. \A i, k \in K : f[i] = f[k] => i = k  BY BeforeGrows
  <2> QED  BY <2>1, <2>2 DEF Injection, IsInjective
<1>3. IsFiniteSet(T) /\ Cardinality(T) = Cardinality(K)  BY <1>1, UpTo
<1>4. f \in Surjection(K, T)
  <2> HIDE DEF f, T
  <2> QED  BY <1>2, <1>3, FS_Injection
<1>5. n - 1 \in T  BY <1>1
<1>6. \E i \in K : Before(K, i) = n - 1
  <2>1. PICK i \in K : f[i] = n - 1  BY <1>4, <1>5 DEF Surjection
  <2> QED  BY <2>1
<1>7. Nth(K, n) \in K /\ Before(K, Nth(K, n)) = n - 1  BY <1>6 DEF Nth
<1>8. ASSUME NEW i \in K, Before(K, i) = n - 1  PROVE i = Nth(K, n)
  <2>1. i = Nth(K, n) <=> Before(K, i) = Before(K, Nth(K, n))  BY <1>7, BeforeGrows
  <2> QED  BY <1>7, <1>8, <2>1
<1> QED  BY <1>7, <1>8

\* The sequence at some places: the elements are there in their order, and no others.
LEMMA Placed ==
  ASSUME NEW S, NEW s \in Seq(S), NEW K \in SUBSET DOMAIN s
  PROVE  /\ IsFiniteSet(K) /\ K \in SUBSET Nat /\ Cardinality(K) \in 0..Len(s)
         /\ AtPlaces(s, K) \in Seq(S) /\ Len(AtPlaces(s, K)) = Cardinality(K)
         /\ DOMAIN AtPlaces(s, K) = 1..Cardinality(K)
         /\ \A i \in K : /\ Before(K, i) + 1 \in 1..Cardinality(K)
                         /\ AtPlaces(s, K)[Before(K, i) + 1] = s[i]
         /\ \A n \in 1..Cardinality(K) :
              /\ Nth(K, n) \in K /\ Before(K, Nth(K, n)) = n - 1
              /\ AtPlaces(s, K)[n] = s[Nth(K, n)]
<1>1. DOMAIN s = 1..Len(s) /\ Len(s) \in Nat  OBVIOUS
<1>2. IsFiniteSet(1..Len(s)) /\ Cardinality(1..Len(s)) = Len(s)  BY <1>1, UpTo
<1>3. IsFiniteSet(K) /\ K \in SUBSET Nat /\ Cardinality(K) \in Nat /\ Cardinality(K) <= Len(s)
  <2>1. K \in SUBSET (1..Len(s))  BY <1>1
  <2> QED  BY <1>2, <2>1, FS_Subset, FS_CardinalityType
<1> DEFINE t == AtPlaces(s, K)
<1>4. t = [n \in 1..Cardinality(K) |-> s[Nth(K, n)]]  BY DEF AtPlaces, Nth, Before
<1>5. \A n \in 1..Cardinality(K) :
        /\ Nth(K, n) \in K /\ Before(K, Nth(K, n)) = n - 1
        /\ \A i \in K : Before(K, i) = n - 1 => i = Nth(K, n)
  BY <1>3, NthIs
<1> HIDE DEF t
<1>6. \A n \in 1..Cardinality(K) : t[n] = s[Nth(K, n)] /\ t[n] \in S  BY <1>4, <1>5
<1>7. t \in Seq(S) /\ Len(t) = Cardinality(K) /\ DOMAIN t = 1..Cardinality(K)
  <2>1. t \in [1..Cardinality(K) -> S]  BY <1>4, <1>6
  <2> QED  BY <1>3, <2>1
<1>8. ASSUME NEW i \in K
      PROVE  Before(K, i) + 1 \in 1..Cardinality(K) /\ t[Before(K, i) + 1] = s[i]
  <2>1. Before(K, i) \in 0..(Cardinality(K) - 1)  BY <1>3, BeforeGrows
  <2>2. Before(K, i) + 1 \in 1..Cardinality(K)  BY <1>3, <2>1
  <2>3. (Before(K, i) + 1) - 1 = Before(K, i)  BY <2>1
  <2>4. i = Nth(K, Before(K, i) + 1)  BY <1>5, <2>2, <2>3
  <2> QED  BY <1>6, <2>2, <2>4
<1> QED  BY <1>1, <1>3, <1>5, <1>6, <1>7, <1>8 DEF t

\* All places, or none.
LEMMA PlacedAll ==
  ASSUME NEW S, NEW s \in Seq(S)
  PROVE  AtPlaces(s, DOMAIN s) = s
<1> DEFINE t == AtPlaces(s, DOMAIN s)
<1>1. DOMAIN s = 1..Len(s) /\ Len(s) \in Nat  OBVIOUS
<1>2. Cardinality(DOMAIN s) = Len(s)  BY <1>1, UpTo
<1>3. t \in Seq(S) /\ Len(t) = Len(s)  BY <1>2, Placed
<1>4. ASSUME NEW n \in 1..Len(s)  PROVE t[n] = s[n]
  <2>1. {j \in DOMAIN s : j < n} = 1..(n - 1)  BY <1>1
  <2>2. Before(DOMAIN s, n) = n - 1
    <3>1. n - 1 \in Nat  BY <1>1
    <3>2. Cardinality(1..(n - 1)) = n - 1  BY <3>1, UpTo
    <3> QED  BY <2>1, <3>2 DEF Before
  <2>3. t[Before(DOMAIN s, n) + 1] = s[n]
    <3>1. DOMAIN s \in SUBSET DOMAIN s /\ n \in DOMAIN s  BY <1>1
    <3> QED  BY <3>1, Placed
  <2> QED  BY <2>2, <2>3
<1> HIDE DEF t
<1>5. t = s  BY <1>3, <1>4, SeqEqual
<1> QED  BY <1>5 DEF t

\* Places of places.
LEMMA PlacedTwice ==
  ASSUME NEW S, NEW s \in Seq(S), NEW K \in SUBSET DOMAIN s, NEW M \in SUBSET K,
         NEW L \in SUBSET (1..Cardinality(K)),
         \A i \in K : i \in M <=> Before(K, i) + 1 \in L
  PROVE  AtPlaces(AtPlaces(s, K), L) = AtPlaces(s, M)
<1> DEFINE t == AtPlaces(s, K)  f == [i \in M |-> Before(K, i) + 1]
<1>1. /\ IsFiniteSet(K) /\ K \in SUBSET Nat /\ Cardinality(K) \in Nat
      /\ t \in Seq(S) /\ DOMAIN t = 1..Cardinality(K)
      /\ \A i \in K : Before(K, i) + 1 \in 1..Cardinality(K) /\ t[Before(K, i) + 1] = s[i]
      /\ \A n \in 1..Cardinality(K) : Nth(K, n) \in K /\ Before(K, Nth(K, n)) = n - 1
  <2>1. Cardinality(K) \in 0..Len(s) => Cardinality(K) \in Nat  BY LenProperties
  <2> QED  BY <2>1, Placed
<1>2. /\ IsFiniteSet(M) /\ M \in SUBSET Nat /\ M \in SUBSET DOMAIN s
      /\ IsFiniteSet(L) /\ L \in SUBSET DOMAIN t
  <2>1. IsFiniteSet(M)  BY <1>1, FS_Subset
  <2>2. IsFiniteSet(1..Cardinality(K))  BY <1>1, UpTo
  <2>3. IsFiniteSet(L)  BY <2>2, FS_Subset
  <2> QED  BY <1>1, <2>1, <2>3
<1>3. \A i \in K : Before(K, i) \in Nat /\ i \in Nat  BY <1>1, BeforeTyped
<1>4. \A i, k \in K : /\ i < k <=> Before(K, i) < Before(K, k)
                      /\ i = k <=> Before(K, i) = Before(K, k)
  BY <1>1, BeforeGrows
<1>5. ASSUME NEW X \in SUBSET M, NEW Y \in SUBSET L, IsFiniteSet(X),
             \A i \in M : i \in X <=> Before(K, i) + 1 \in Y
      PROVE  Cardinality(X) = Cardinality(Y) /\ IsFiniteSet(Y)
  <2> DEFINE g == [i \in X |-> Before(K, i) + 1]
  <2>1. \A i \in X : g[i] \in Y  BY <1>5
  <2>2. \A i, k \in X : g[i] = g[k] => i = k  BY <1>3, <1>4
  <2>3. \A n \in Y : \E i \in X : g[i] = n
    <3> SUFFICES ASSUME NEW n \in Y  PROVE \E i \in X : g[i] = n  OBVIOUS
    <3>1. n \in L /\ n \in 1..Cardinality(K)  OBVIOUS
    <3>2. Nth(K, n) \in K /\ Before(K, Nth(K, n)) + 1 = n  BY <1>1, <3>1
    <3>3. Nth(K, n) \in M  BY <3>1, <3>2
    <3>4. Nth(K, n) \in X  BY <1>5, <3>2, <3>3
    <3> QED  BY <3>2, <3>4
  <2>4. g \in Bijection(X, Y)  BY <2>1, <2>2, <2>3, Fun_IsBij
  <2>5. ExistsBijection(X, Y)  BY <2>4 DEF ExistsBijection
  <2> QED  BY <1>5, <2>5, FS_Bijection
<1>6. Cardinality(M) = Cardinality(L)  BY <1>2, <1>5
<1>7. ASSUME NEW i \in M  PROVE Before(M, i) = Before(L, Before(K, i) + 1)
  <2> DEFINE b == Before(K, i) + 1  X == {j \in M : j < i}  Y == {n \in L : n < b}
  <2>1. X \in SUBSET M /\ Y \in SUBSET L /\ IsFiniteSet(X)  BY <1>2, BeforeTyped
  <2>2. \A j \in M : j \in X <=> Before(K, j) + 1 \in Y  BY <1>3, <1>4
  <2> HIDE DEF X, Y
  <2>3. Cardinality(X) = Cardinality(Y)  BY <1>5, <2>1, <2>2
  <2> QED  BY <2>3 DEF Before, X, Y
<1> DEFINE u == AtPlaces(t, L)  v == AtPlaces(s, M)
<1>8. /\ u \in Seq(S) /\ Len(u) = Cardinality(L)
      /\ \A n \in L : u[Before(L, n) + 1] = t[n]
  <2> HIDE DEF t
  <2> QED  BY <1>1, <1>2, Placed
<1>9. /\ v \in Seq(S) /\ Len(v) = Cardinality(M)
      /\ \A i \in M : v[Before(M, i) + 1] = s[i]
      /\ \A n \in 1..Cardinality(M) : Nth(M, n) \in M /\ Before(M, Nth(M, n)) = n - 1
  BY <1>2, Placed
<1>10. ASSUME NEW n \in 1..Cardinality(M)  PROVE u[n] = v[n]
  <2> DEFINE i == Nth(M, n)
  <2>1. i \in M /\ Before(M, i) = n - 1  BY <1>9
  <2> HIDE DEF i
  <2>2. Before(M, i) + 1 = n  BY <2>1
  <2>3. v[n] = s[i]  BY <1>9, <2>1, <2>2
  <2>4. Before(K, i) + 1 \in L /\ Before(L, Before(K, i) + 1) + 1 = n  BY <1>7, <2>1, <2>2
  <2>5. u[n] = t[Before(K, i) + 1]  BY <1>8, <2>4
  <2> QED  BY <1>1, <2>1, <2>3, <2>5
<1> HIDE DEF u, v
<1>11. u = v  BY <1>6, <1>8, <1>9, <1>10, SeqEqual
<1> QED  BY <1>11 DEF u, v

-----------------------------------------------------------------------------
(* The elements of a sequence that are in a set: what every choice of rows is. *)

Among(s, A) == AtPlaces(s, {i \in DOMAIN s : s[i] \in A})

LEMMA AmongTyped ==
  ASSUME NEW S, NEW s \in Seq(S), NEW A
  PROVE  /\ Among(s, A) \in Seq(S)
         /\ Len(Among(s, A)) \in 0..Len(s)
         /\ ToSet(Among(s, A)) = ToSet(s) \cap A
<1> DEFINE K == {i \in DOMAIN s : s[i] \in A}  t == AtPlaces(s, K)
<1>1. K \in SUBSET DOMAIN s  OBVIOUS
<1>2. /\ t \in Seq(S) /\ Len(t) = Cardinality(K) /\ Cardinality(K) \in 0..Len(s)
      /\ DOMAIN t = 1..Cardinality(K)
      /\ \A i \in K : /\ Before(K, i) + 1 \in 1..Cardinality(K)
                      /\ t[Before(K, i) + 1] = s[i]
      /\ \A n \in 1..Cardinality(K) : Nth(K, n) \in K /\ t[n] = s[Nth(K, n)]
  <2> HIDE DEF K
  <2> QED  BY <1>1, Placed
<1> HIDE DEF t
<1>3. {t[n] : n \in DOMAIN t} = {s[i] : i \in K}
  <2> HIDE DEF K
  <2>1. \A n \in DOMAIN t : \E i \in K : t[n] = s[i]  BY <1>2
  <2>2. \A i \in K : \E n \in DOMAIN t : s[i] = t[n]  BY <1>2
  <2> QED  BY <2>1, <2>2
<1>4. {s[i] : i \in K} = {s[i] : i \in DOMAIN s} \cap A  OBVIOUS
<1>5. Among(s, A) = t  BY DEF Among, t
<1> QED  BY <1>2, <1>3, <1>4, <1>5 DEF ToSet

LEMMA AmongAll ==
  ASSUME NEW S, NEW s \in Seq(S), NEW A, ToSet(s) \subseteq A
  PROVE  Among(s, A) = s
<1>1. {i \in DOMAIN s : s[i] \in A} = DOMAIN s  BY DEF ToSet
<1> QED  BY <1>1, PlacedAll DEF Among

LEMMA AmongTwice ==
  ASSUME NEW S, NEW s \in Seq(S), NEW A, NEW B
  PROVE  Among(Among(s, A), B) = Among(s, A \cap B)
<1> DEFINE K == {i \in DOMAIN s : s[i] \in A}  t == AtPlaces(s, K)
           M == {i \in DOMAIN s : s[i] \in A \cap B}
           L == {n \in DOMAIN t : t[n] \in B}
<1>1. K \in SUBSET DOMAIN s /\ M \in SUBSET K  OBVIOUS
<1>2. /\ DOMAIN t = 1..Cardinality(K)
      /\ \A i \in K : /\ Before(K, i) + 1 \in 1..Cardinality(K)
                      /\ t[Before(K, i) + 1] = s[i]
  <2> HIDE DEF K
  <2> QED  BY <1>1, Placed
<1>3. L \in SUBSET (1..Cardinality(K)) /\ \A i \in K : i \in M <=> Before(K, i) + 1 \in L
  <2> HIDE DEF t
  <2>1. \A i \in K : i \in M <=> s[i] \in B  OBVIOUS
  <2> HIDE DEF K, M
  <2> QED  BY <1>2, <2>1
<1>4. AtPlaces(t, L) = AtPlaces(s, M)
  <2> HIDE DEF K, M, L
  <2> QED  BY <1>1, <1>3, PlacedTwice
<1> QED  BY <1>4 DEF Among

LEMMA AmongSame ==
  ASSUME NEW S, NEW s \in Seq(S), NEW A, NEW B, S \cap A = S \cap B
  PROVE  Among(s, A) = Among(s, B)
<1>1. {i \in DOMAIN s : s[i] \in A} = {i \in DOMAIN s : s[i] \in B}
  <2>1. \A i \in DOMAIN s : s[i] \in S  OBVIOUS
  <2> QED  BY <2>1
<1> QED  BY <1>1 DEF Among

-----------------------------------------------------------------------------
(* Ordered sets. *)

\* R puts the members of S in a line.
Orders(R, S) ==
  /\ \A x \in S : <<x, x>> \notin R
  /\ \A x, y, z \in S : <<x, y>> \in R /\ <<y, z>> \in R => <<x, z>> \in R
  /\ \A x, y \in S : x = y \/ <<x, y>> \in R \/ <<y, x>> \in R

Ahead(S, R, x) == Cardinality({y \in S : <<y, x>> \in R})

LEMMA AheadGrows ==
  ASSUME NEW S, IsFiniteSet(S), NEW R, Orders(R, S)
  PROVE  \A x, z \in S : /\ Ahead(S, R, x) \in 0..(Cardinality(S) - 1)
                         /\ <<x, z>> \in R <=> Ahead(S, R, x) < Ahead(S, R, z)
                         /\ x = z <=> Ahead(S, R, x) = Ahead(S, R, z)
<1> SUFFICES ASSUME NEW x \in S, NEW z \in S
             PROVE  /\ Ahead(S, R, x) \in 0..(Cardinality(S) - 1)
                    /\ <<x, z>> \in R <=> Ahead(S, R, x) < Ahead(S, R, z)
                    /\ x = z <=> Ahead(S, R, x) = Ahead(S, R, z)
  OBVIOUS
<1>1. ASSUME NEW a \in S
      PROVE  /\ IsFiniteSet({y \in S : <<y, a>> \in R}) /\ Ahead(S, R, a) \in Nat
             /\ Ahead(S, R, a) < Cardinality(S) /\ Cardinality(S) \in Nat
  <2> DEFINE A == {y \in S : <<y, a>> \in R}
  <2>1. A \in SUBSET S /\ A # S  BY DEF Orders
  <2> HIDE DEF A
  <2>2. IsFiniteSet(A) /\ Cardinality(A) <= Cardinality(S) /\ Cardinality(A) # Cardinality(S)
    BY <2>1, FS_Subset
  <2>3. Cardinality(A) \in Nat /\ Cardinality(S) \in Nat  BY <2>2, FS_CardinalityType
  <2> QED  BY <2>2, <2>3 DEF Ahead, A
<1>2. ASSUME NEW a \in S, NEW b \in S, <<a, b>> \in R
      PROVE  Ahead(S, R, a) < Ahead(S, R, b)
  <2> DEFINE A == {y \in S : <<y, a>> \in R}  B == {y \in S : <<y, b>> \in R}
  <2>1. A \in SUBSET B /\ a \in B /\ a \notin A  BY <1>2 DEF Orders
  <2>2. IsFiniteSet(B) /\ Cardinality(B) \in Nat /\ Cardinality(A) \in Nat  BY <1>1 DEF Ahead
  <2>3. A # B  BY <2>1
  <2> HIDE DEF A, B
  <2>4. Cardinality(A) <= Cardinality(B) /\ Cardinality(A) # Cardinality(B)
    BY <2>1, <2>2, <2>3, FS_Subset
  <2> QED  BY <2>2, <2>4 DEF Ahead, A, B
<1>3. x = z \/ <<x, z>> \in R \/ <<z, x>> \in R  BY DEF Orders
<1>4. /\ Ahead(S, R, x) \in Nat /\ Ahead(S, R, z) \in Nat
      /\ Ahead(S, R, x) < Cardinality(S) /\ Cardinality(S) \in Nat
  BY <1>1
<1>5. <<x, z>> \in R => Ahead(S, R, x) < Ahead(S, R, z)  BY <1>2
<1>6. <<z, x>> \in R => Ahead(S, R, z) < Ahead(S, R, x)  BY <1>2
<1> QED  BY <1>3, <1>4, <1>5, <1>6

\* An ordered set has each member once, what is put first first.
LEMMA InOrderIs ==
  ASSUME NEW S, IsFiniteSet(S), NEW R, Orders(R, S)
  PROVE  /\ InOrder(S, R) \in Seq(S) /\ Len(InOrder(S, R)) = Cardinality(S)
         /\ IsInjective(InOrder(S, R)) /\ ToSet(InOrder(S, R)) = S
         /\ \A i, j \in 1..Cardinality(S) :
              i < j => <<InOrder(S, R)[i], InOrder(S, R)[j]>> \in R
<1>0. \A x, z \in S : /\ Ahead(S, R, x) \in 0..(Cardinality(S) - 1)
                      /\ <<x, z>> \in R <=> Ahead(S, R, x) < Ahead(S, R, z)
                      /\ x = z <=> Ahead(S, R, x) = Ahead(S, R, z)
  BY AheadGrows
<1> DEFINE T == 0..(Cardinality(S) - 1)  f == [x \in S |-> Ahead(S, R, x)]
           t == InOrder(S, R)
<1>1. Cardinality(S) \in Nat  BY FS_CardinalityType
<1>2. f \in Surjection(S, T)
  <2>1. \A x \in S : f[x] \in T  BY <1>0
  <2>2. ASSUME NEW x \in S, NEW z \in S, f[x] = f[z]  PROVE x = z
    <3>1. Ahead(S, R, x) = Ahead(S, R, z)  BY <2>2
    <3> QED  BY <1>0, <3>1
  <2>3. f \in Injection(S, T)  BY <2>1, <2>2 DEF Injection, IsInjective
  <2>4. IsFiniteSet(T) /\ Cardinality(T) = Cardinality(S)  BY <1>1, UpTo
  <2> HIDE DEF f, T
  <2> QED  BY <2>3, <2>4, FS_Injection
<1>3. t = [n \in 1..Cardinality(S) |-> CHOOSE x \in S : Ahead(S, R, x) = n - 1]
  BY DEF InOrder, Ahead
<1> HIDE DEF t
<1>4. ASSUME NEW n \in 1..Cardinality(S)  PROVE t[n] \in S /\ Ahead(S, R, t[n]) = n - 1
  <2>1. n - 1 \in T  BY <1>1
  <2>2. PICK x \in S : f[x] = n - 1  BY <1>2, <2>1 DEF Surjection
  <2>3. \E y \in S : Ahead(S, R, y) = n - 1  BY <2>2
  <2>4. t[n] = CHOOSE y \in S : Ahead(S, R, y) = n - 1  BY <1>3
  <2> QED  BY <2>3, <2>4
<1>5. t \in Seq(S) /\ Len(t) = Cardinality(S) /\ DOMAIN t = 1..Cardinality(S)
  <2>1. t \in [1..Cardinality(S) -> S]  BY <1>3, <1>4
  <2> QED  BY <1>1, <2>1
<1>6. IsInjective(t)
  <2> SUFFICES ASSUME NEW i \in 1..Cardinality(S), NEW j \in 1..Cardinality(S), t[i] = t[j]
               PROVE  i = j
    BY <1>5 DEF IsInjective
  <2>1. i - 1 = j - 1  BY <1>4
  <2> QED  BY <1>1, <2>1
<1>7. ToSet(t) = S
  <2>1. \A n \in DOMAIN t : t[n] \in S  BY <1>4, <1>5
  <2>2. ASSUME NEW x \in S  PROVE \E n \in DOMAIN t : t[n] = x
    <3>1. Ahead(S, R, x) + 1 \in 1..Cardinality(S)
      <4>1. Ahead(S, R, x) \in T  BY <1>0
      <4> QED  BY <1>1, <4>1
    <3>2. t[Ahead(S, R, x) + 1] \in S /\ Ahead(S, R, t[Ahead(S, R, x) + 1]) = Ahead(S, R, x)
      <4>1. Ahead(S, R, x) \in T  BY <1>0
      <4>2. (Ahead(S, R, x) + 1) - 1 = Ahead(S, R, x)  BY <1>1, <4>1
      <4> QED  BY <1>4, <3>1, <4>2
    <3>3. t[Ahead(S, R, x) + 1] = x
      <4> DEFINE z == t[Ahead(S, R, x) + 1]
      <4> HIDE DEF z
      <4>1. z \in S /\ Ahead(S, R, z) = Ahead(S, R, x)  BY <3>2 DEF z
      <4>2. z = x  BY <1>0, <4>1
      <4> QED  BY <4>2 DEF z
    <3> QED  BY <1>5, <3>1, <3>3
  <2> QED  BY <2>1, <2>2 DEF ToSet
<1>8. ASSUME NEW i \in 1..Cardinality(S), NEW j \in 1..Cardinality(S), i < j
      PROVE  <<t[i], t[j]>> \in R
  <2>1. /\ t[i] \in S /\ t[j] \in S
        /\ Ahead(S, R, t[i]) = i - 1 /\ Ahead(S, R, t[j]) = j - 1
    BY <1>4
  <2>2. Ahead(S, R, t[i]) < Ahead(S, R, t[j])  BY <1>1, <1>8, <2>1
  <2> QED  BY <1>0, <2>1, <2>2
<1> QED  BY <1>5, <1>6, <1>7, <1>8 DEF t

-----------------------------------------------------------------------------
(* Sequences without repetitions, and parts of a sequence. *)

LEMMA OnceIs ==
  ASSUME NEW S, NEW s \in Seq(S), IsInjective(s)
  PROVE  IsFiniteSet(ToSet(s)) /\ Cardinality(ToSet(s)) = Len(s) /\ ToSet(s) \in SUBSET S
<1>1. DOMAIN s = 1..Len(s) /\ Len(s) \in Nat  OBVIOUS
<1>2. IsFiniteSet(1..Len(s)) /\ Cardinality(1..Len(s)) = Len(s)  BY <1>1, UpTo
<1>3. s \in Bijection(1..Len(s), ToSet(s))
  <2>1. \A i \in 1..Len(s) : s[i] \in ToSet(s)  BY <1>1 DEF ToSet
  <2>2. \A i, j \in 1..Len(s) : s[i] = s[j] => i = j  BY <1>1 DEF IsInjective
  <2>3. \A x \in ToSet(s) : \E i \in 1..Len(s) : s[i] = x  BY <1>1 DEF ToSet
  <2>4. s = [i \in 1..Len(s) |-> s[i]]  BY <1>1
  <2> DEFINE D == 1..Len(s)
  <2>5. s \in [D -> ToSet(s)]  BY <2>1, <2>4
  <2> HIDE DEF D
  <2>6. IsInjective(s)  OBVIOUS
  <2> QED  BY <2>3, <2>5, <2>6 DEF Bijection, Injection, Surjection, D
<1>4. ExistsBijection(1..Len(s), ToSet(s))  BY <1>3 DEF ExistsBijection
<1>5. IsFiniteSet(ToSet(s)) /\ Cardinality(ToSet(s)) = Cardinality(1..Len(s))
  BY <1>2, <1>4, FS_Bijection
<1>6. ToSet(s) \in SUBSET S  BY DEF ToSet
<1> QED  BY <1>2, <1>5, <1>6

LEMMA AmongOnce ==
  ASSUME NEW S, NEW s \in Seq(S), IsInjective(s), NEW A
  PROVE  IsInjective(Among(s, A))
<1> DEFINE K == {i \in DOMAIN s : s[i] \in A}  t == AtPlaces(s, K)
<1>1. K \in SUBSET DOMAIN s  OBVIOUS
<1>2. /\ DOMAIN t = 1..Cardinality(K)
      /\ \A n \in 1..Cardinality(K) :
           Nth(K, n) \in K /\ Before(K, Nth(K, n)) = n - 1 /\ t[n] = s[Nth(K, n)]
  <2> HIDE DEF K
  <2> QED  BY <1>1, Placed
<1> HIDE DEF t
<1>3. ASSUME NEW i \in DOMAIN t, NEW j \in DOMAIN t, t[i] = t[j]  PROVE i = j
  <2>1. Nth(K, i) \in DOMAIN s /\ Nth(K, j) \in DOMAIN s /\ s[Nth(K, i)] = s[Nth(K, j)]
    BY <1>1, <1>2, <1>3
  <2>2. Nth(K, i) = Nth(K, j)  BY <2>1 DEF IsInjective
  <2>3. i - 1 = j - 1  BY <1>2, <2>2
  <2>4. i \in Int /\ j \in Int  BY <1>2
  <2> QED  BY <2>3, <2>4
<1>4. IsInjective(t)  BY <1>3 DEF IsInjective
<1> QED  BY <1>4 DEF Among, t

LEMMA ReverseIs ==
  ASSUME NEW S, NEW s \in Seq(S)
  PROVE  /\ Reverse(s) \in Seq(S) /\ Len(Reverse(s)) = Len(s) /\ DOMAIN Reverse(s) = 1..Len(s)
         /\ \A i \in 1..Len(s) : /\ Len(s) - i + 1 \in 1..Len(s)
                                 /\ Reverse(s)[i] = s[Len(s) - i + 1]
                                 /\ Reverse(s)[Len(s) - i + 1] = s[i]
         /\ ToSet(Reverse(s)) = ToSet(s)
         /\ IsInjective(s) => IsInjective(Reverse(s))
<1> DEFINE r == Reverse(s)
<1>1. DOMAIN s = 1..Len(s) /\ Len(s) \in Nat  OBVIOUS
<1>2. r = [i \in 1..Len(s) |-> s[(Len(s) - i) + 1]]  BY DEF Reverse
<1>3. \A i \in 1..Len(s) : Len(s) - i + 1 \in 1..Len(s) /\ Len(s) - (Len(s) - i + 1) + 1 = i
  BY <1>1
<1> HIDE DEF r
<1>4. \A i \in 1..Len(s) : r[i] = s[Len(s) - i + 1] /\ r[Len(s) - i + 1] = s[i]
  BY <1>2, <1>3
<1>5. r \in Seq(S) /\ Len(r) = Len(s) /\ DOMAIN r = 1..Len(s)
  <2>1. \A i \in 1..Len(s) : s[(Len(s) - i) + 1] \in S  BY <1>1, <1>3
  <2>2. r \in [1..Len(s) -> S]  BY <1>2, <2>1
  <2> QED  BY <1>1, <2>2
<1>6. ToSet(r) = ToSet(s)
  <2>1. \A i \in DOMAIN r : \E j \in DOMAIN s : r[i] = s[j]  BY <1>1, <1>3, <1>4, <1>5
  <2>2. \A i \in DOMAIN s : \E j \in DOMAIN r : s[i] = r[j]  BY <1>1, <1>3, <1>4, <1>5
  <2> QED  BY <2>1, <2>2 DEF ToSet
<1>7. IsInjective(s) => IsInjective(r)
  <2> SUFFICES ASSUME IsInjective(s), NEW i \in 1..Len(s), NEW j \in 1..Len(s), r[i] = r[j]
               PROVE  i = j
    BY <1>5 DEF IsInjective
  <2>1. s[Len(s) - i + 1] = s[Len(s) - j + 1]  BY <1>4
  <2>2. Len(s) - i + 1 = Len(s) - j + 1  BY <1>1, <1>3, <2>1 DEF IsInjective
  <2> QED  BY <1>1, <2>2
<1> QED  BY <1>3, <1>4, <1>5, <1>6, <1>7 DEF r

LEMMA ConcatIs ==
  ASSUME NEW S, NEW s \in Seq(S), NEW t \in Seq(S)
  PROVE  /\ s \o t \in Seq(S) /\ Len(s \o t) = Len(s) + Len(t)
         /\ DOMAIN (s \o t) = 1..(Len(s) + Len(t))
         /\ \A i \in 1..Len(s) : (s \o t)[i] = s[i] /\ i \in 1..(Len(s) + Len(t))
         /\ \A i \in 1..Len(t) :
              (s \o t)[Len(s) + i] = t[i] /\ Len(s) + i \in 1..(Len(s) + Len(t))
         /\ \A i \in 1..(Len(s) + Len(t)) :
              i \in 1..Len(s) \/ \E j \in 1..Len(t) : i = Len(s) + j
         /\ ToSet(s \o t) = ToSet(s) \cup ToSet(t)
         /\ IsInjective(s) /\ IsInjective(t) /\ ToSet(s) \cap ToSet(t) = {} => IsInjective(s \o t)
<1> DEFINE u == s \o t
<1>1. /\ Len(s) \in Nat /\ Len(t) \in Nat /\ DOMAIN s = 1..Len(s) /\ DOMAIN t = 1..Len(t)
      /\ u \in Seq(S) /\ Len(u) = Len(s) + Len(t) /\ DOMAIN u = 1..(Len(s) + Len(t))
  BY ConcatProperties
<1>2. \A i \in 1..(Len(s) + Len(t)) : u[i] = IF i <= Len(s) THEN s[i] ELSE t[i - Len(s)]
  BY ConcatProperties
<1> HIDE DEF u
<1>3. \A i \in 1..Len(s) : u[i] = s[i] /\ i \in 1..(Len(s) + Len(t))  BY <1>1, <1>2
<1>4. ASSUME NEW i \in 1..Len(t)
      PROVE  u[Len(s) + i] = t[i] /\ Len(s) + i \in 1..(Len(s) + Len(t))
  <2>1. /\ Len(s) + i \in 1..(Len(s) + Len(t)) /\ ~(Len(s) + i <= Len(s))
        /\ (Len(s) + i) - Len(s) = i
    BY <1>1
  <2> QED  BY <1>2, <2>1
<1>5. ASSUME NEW i \in 1..(Len(s) + Len(t))
      PROVE  i \in 1..Len(s) \/ \E j \in 1..Len(t) : i = Len(s) + j
  <2>1. CASE i <= Len(s)  BY <1>1, <2>1
  <2>2. CASE ~(i <= Len(s))
    <3>1. i - Len(s) \in 1..Len(t) /\ i = Len(s) + (i - Len(s))  BY <1>1, <2>2
    <3> QED  BY <3>1
  <2> QED  BY <2>1, <2>2
<1>6. ToSet(u) = ToSet(s) \cup ToSet(t)
  <2>1. \A i \in DOMAIN u : u[i] \in ToSet(s) \cup ToSet(t)
    <3> SUFFICES ASSUME NEW i \in 1..(Len(s) + Len(t))  PROVE u[i] \in ToSet(s) \cup ToSet(t)
      BY <1>1
    <3>1. CASE i \in 1..Len(s)
      <4>1. i \in DOMAIN s /\ u[i] = s[i]  BY <1>1, <1>3, <3>1
      <4> QED  BY <4>1 DEF ToSet
    <3>2. ASSUME NEW j \in 1..Len(t), i = Len(s) + j  PROVE u[i] \in ToSet(s) \cup ToSet(t)
      <4>1. j \in DOMAIN t /\ u[i] = t[j]  BY <1>1, <1>4, <3>2
      <4> QED  BY <4>1 DEF ToSet
    <3> QED  BY <1>5, <3>1, <3>2
  <2>2. ASSUME NEW i \in DOMAIN s  PROVE s[i] \in ToSet(u)
    <3>1. i \in DOMAIN u /\ s[i] = u[i]  BY <1>1, <1>3
    <3> QED  BY <3>1 DEF ToSet
  <2>3. ASSUME NEW i \in DOMAIN t  PROVE t[i] \in ToSet(u)
    <3>1. Len(s) + i \in DOMAIN u /\ t[i] = u[Len(s) + i]  BY <1>1, <1>4
    <3> QED  BY <3>1 DEF ToSet
  <2>4. ToSet(u) = {u[i] : i \in DOMAIN u}  BY DEF ToSet
  <2>5. ToSet(s) = {s[i] : i \in DOMAIN s} /\ ToSet(t) = {t[i] : i \in DOMAIN t}  BY DEF ToSet
  <2> QED  BY <2>1, <2>2, <2>3, <2>4, <2>5
<1>7. ASSUME IsInjective(s), IsInjective(t), ToSet(s) \cap ToSet(t) = {}  PROVE IsInjective(u)
  <2> SUFFICES ASSUME NEW i \in 1..(Len(s) + Len(t)), NEW j \in 1..(Len(s) + Len(t)), u[i] = u[j]
               PROVE  i = j
    BY <1>1 DEF IsInjective
  <2>1. ASSUME NEW a \in 1..Len(s), NEW b \in 1..Len(t)  PROVE s[a] # t[b]
    <3>1. s[a] \in ToSet(s) /\ t[b] \in ToSet(t)  BY <1>1 DEF ToSet
    <3> QED  BY <1>7, <3>1
  <2>2. CASE i \in 1..Len(s) /\ j \in 1..Len(s)
    <3>1. s[i] = s[j]  BY <1>3, <2>2
    <3> QED  BY <1>1, <1>7, <2>2, <3>1 DEF IsInjective
  <2>3. ASSUME i \in 1..Len(s), NEW b \in 1..Len(t), j = Len(s) + b  PROVE FALSE
    BY <1>3, <1>4, <2>1, <2>3
  <2>4. ASSUME j \in 1..Len(s), NEW b \in 1..Len(t), i = Len(s) + b  PROVE FALSE
    BY <1>3, <1>4, <2>1, <2>4
  <2>5. ASSUME NEW a \in 1..Len(t), i = Len(s) + a, NEW b \in 1..Len(t), j = Len(s) + b
        PROVE  i = j
    <3>1. t[a] = t[b]  BY <1>4, <2>5
    <3>2. a = b  BY <1>1, <1>7, <3>1 DEF IsInjective
    <3> QED  BY <2>5, <3>2
  <2> QED  BY <1>5, <2>2, <2>3, <2>4, <2>5
<1> QED  BY <1>1, <1>3, <1>4, <1>5, <1>6, <1>7 DEF u

\* What is at its place everywhere is the choice by places.
LEMMA PlacedIs ==
  ASSUME NEW S, NEW s \in Seq(S), NEW K \in SUBSET DOMAIN s, NEW t \in Seq(S),
         Len(t) = Cardinality(K), \A i \in K : t[Before(K, i) + 1] = s[i]
  PROVE  t = AtPlaces(s, K)
<1> DEFINE v == AtPlaces(s, K)
<1>1. /\ v \in Seq(S) /\ Len(v) = Cardinality(K)
      /\ \A n \in 1..Cardinality(K) :
           Nth(K, n) \in K /\ Before(K, Nth(K, n)) = n - 1 /\ v[n] = s[Nth(K, n)]
  BY Placed
<1>2. Len(t) \in Nat  OBVIOUS
<1> HIDE DEF v
<1>3. ASSUME NEW n \in 1..Len(t)  PROVE t[n] = v[n]
  <2>1. Nth(K, n) \in K /\ Before(K, Nth(K, n)) = n - 1 /\ v[n] = s[Nth(K, n)]  BY <1>1
  <2>2. t[Before(K, Nth(K, n)) + 1] = s[Nth(K, n)]  BY <2>1
  <2>3. Before(K, Nth(K, n)) + 1 = n  BY <1>2, <2>1
  <2> QED  BY <2>1, <2>2, <2>3
<1>4. t = v  BY <1>1, <1>3, SeqEqual
<1> QED  BY <1>4 DEF v

\* A set of places moved along has the size it had.
LEMMA Moved ==
  ASSUME NEW K \in SUBSET Nat, IsFiniteSet(K), NEW M, NEW f \in [K -> M],
         \A i, j \in K : f[i] = f[j] => i = j, \A m \in M : \E i \in K : f[i] = m
  PROVE  IsFiniteSet(M) /\ Cardinality(M) = Cardinality(K)
<1>1. \A i \in K : f[i] \in M  OBVIOUS
<1>2. f \in Bijection(K, M)  BY DEF Bijection, Injection, Surjection, IsInjective
<1>3. ExistsBijection(K, M)  BY <1>2 DEF ExistsBijection
<1> QED  BY <1>3, FS_Bijection

LEMMA AmongConcat ==
  ASSUME NEW S, NEW s \in Seq(S), NEW t \in Seq(S), NEW A
  PROVE  Among(s \o t, A) = Among(s, A) \o Among(t, A)
<1> DEFINE K == {i \in DOMAIN s : s[i] \in A}  L == {i \in DOMAIN t : t[i] \in A}
           u == s \o t  M == {i \in DOMAIN u : u[i] \in A}
           a == AtPlaces(s, K)  b == AtPlaces(t, L)  c == a \o b
           moved == {Len(s) + j : j \in L}
<1>1. /\ Len(s) \in Nat /\ Len(t) \in Nat /\ DOMAIN s = 1..Len(s) /\ DOMAIN t = 1..Len(t)
      /\ u \in Seq(S) /\ DOMAIN u = 1..(Len(s) + Len(t))
      /\ \A i \in 1..Len(s) : u[i] = s[i] /\ i \in 1..(Len(s) + Len(t))
      /\ \A i \in 1..Len(t) : u[Len(s) + i] = t[i] /\ Len(s) + i \in 1..(Len(s) + Len(t))
      /\ \A i \in 1..(Len(s) + Len(t)) :
           i \in 1..Len(s) \/ \E j \in 1..Len(t) : i = Len(s) + j
  <2>1. Len(s) \in Nat /\ Len(t) \in Nat /\ DOMAIN s = 1..Len(s) /\ DOMAIN t = 1..Len(t)
    OBVIOUS
  <2> HIDE DEF K, L, M, a, b, c, moved
  <2> QED  BY <2>1, ConcatIs DEF u
<1>2. /\ K \in SUBSET DOMAIN s /\ K \in SUBSET (1..Len(s)) /\ L \in SUBSET DOMAIN t
      /\ L \in SUBSET (1..Len(t)) /\ M \in SUBSET DOMAIN u
  BY <1>1
<1>3. M = K \cup moved
  <2>1. \A i \in 1..Len(s) : i \in M <=> i \in K  BY <1>1
  <2>2. \A j \in 1..Len(t) : Len(s) + j \in M <=> j \in L  BY <1>1
  <2>3. M \in SUBSET (1..(Len(s) + Len(t)))  BY <1>1
  <2> HIDE DEF K, L, M, u
  <2>4. \A i \in M : i \in K \cup moved
    <3> SUFFICES ASSUME NEW i \in M  PROVE i \in K \cup moved  OBVIOUS
    <3>1. i \in 1..(Len(s) + Len(t))  BY <2>3
    <3>2. i \in 1..Len(s) \/ \E j \in 1..Len(t) : i = Len(s) + j  BY <1>1, <3>1
    <3> QED  BY <2>1, <2>2, <3>2
  <2>5. \A i \in K : i \in M  BY <1>2, <2>1
  <2>6. \A j \in L : Len(s) + j \in M  BY <1>2, <2>2
  <2> QED  BY <2>4, <2>5, <2>6
<1>4. /\ IsFiniteSet(K) /\ K \in SUBSET Nat /\ Cardinality(K) \in Nat
      /\ a \in Seq(S) /\ Len(a) = Cardinality(K)
      /\ \A i \in K : Before(K, i) + 1 \in 1..Cardinality(K) /\ a[Before(K, i) + 1] = s[i]
  <2> HIDE DEF K
  <2>1. IsFiniteSet(K)  BY <1>2, Placed
  <2>2. Cardinality(K) \in Nat  BY <2>1, FS_CardinalityType
  <2> QED  BY <1>2, <2>2, Placed
<1>5. /\ IsFiniteSet(L) /\ L \in SUBSET Nat /\ Cardinality(L) \in Nat
      /\ b \in Seq(S) /\ Len(b) = Cardinality(L)
      /\ \A i \in L : Before(L, i) + 1 \in 1..Cardinality(L) /\ b[Before(L, i) + 1] = t[i]
  <2> HIDE DEF L
  <2>1. IsFiniteSet(L)  BY <1>2, Placed
  <2>2. Cardinality(L) \in Nat  BY <2>1, FS_CardinalityType
  <2> QED  BY <1>2, <2>2, Placed
<1>6. /\ c \in Seq(S) /\ Len(c) = Cardinality(K) + Cardinality(L)
      /\ \A i \in 1..Cardinality(K) : c[i] = a[i]
      /\ \A i \in 1..Cardinality(L) : c[Cardinality(K) + i] = b[i]
  <2> HIDE DEF K, L, M, a, b, u, moved
  <2>1. a \in Seq(S) /\ b \in Seq(S)  BY <1>4, <1>5
  <2>2. /\ a \o b \in Seq(S) /\ Len(a \o b) = Len(a) + Len(b)
        /\ \A i \in 1..Len(a) : (a \o b)[i] = a[i]
        /\ \A i \in 1..Len(b) : (a \o b)[Len(a) + i] = b[i]
    BY ONLY <2>1, ConcatIs
  <2> QED  BY <1>4, <1>5, <2>2
<1> HIDE DEF K, L, M, a, b, c, u
<1>7. ASSUME NEW X \in SUBSET L
      PROVE  /\ IsFiniteSet({Len(s) + j : j \in X}) /\ IsFiniteSet(X)
             /\ Cardinality({Len(s) + j : j \in X}) = Cardinality(X)
  <2> DEFINE Y == {Len(s) + j : j \in X}  f == [j \in X |-> Len(s) + j]
  <2>1. IsFiniteSet(X) /\ X \in SUBSET Nat  BY <1>5, FS_Subset
  <2>2. f \in [X -> Y]  OBVIOUS
  <2>3. \A i, j \in X : f[i] = f[j] => i = j  BY <1>1, <2>1
  <2>4. \A m \in Y : \E i \in X : f[i] = m  OBVIOUS
  <2> HIDE DEF Y, f
  <2>5. IsFiniteSet(Y) /\ Cardinality(Y) = Cardinality(X)  BY <2>1, <2>2, <2>3, <2>4, Moved
  <2> QED  BY <2>1, <2>5 DEF Y
<1>8. Cardinality(M) = Cardinality(K) + Cardinality(L)
  <2>1. IsFiniteSet(moved) /\ Cardinality(moved) = Cardinality(L)  BY <1>7
  <2>2. K \cap moved = {}  BY <1>1, <1>2
  <2>3. Cardinality({}) = 0  BY FS_EmptySet
  <2> HIDE DEF moved
  <2>4. Cardinality(K \cup moved) = Cardinality(K) + Cardinality(moved) - 0
    BY <1>4, <2>1, <2>2, <2>3, FS_Union
  <2> QED  BY <1>3, <1>4, <1>5, <2>1, <2>4
<1>9. ASSUME NEW i \in K  PROVE Before(M, i) = Before(K, i)
  <2>1. \A j \in L : ~(Len(s) + j < i)  BY <1>1, <1>2
  <2>2. {j \in M : j < i} = {j \in K : j < i}  BY <1>3, <2>1
  <2> QED  BY <2>2 DEF Before
<1>10. ASSUME NEW j \in L  PROVE Before(M, Len(s) + j) = Cardinality(K) + Before(L, j)
  <2> DEFINE X == {i \in L : i < j}  Y == {Len(s) + i : i \in X}
  <2>1. X \in SUBSET L  OBVIOUS
  <2>2. {i \in M : i < Len(s) + j} = K \cup Y
    <3>1. \A i \in K : i < Len(s) + j  BY <1>1, <1>2
    <3>2. \A i \in L : Len(s) + i < Len(s) + j <=> i < j  BY <1>1, <1>2
    <3> QED  BY <1>3, <3>1, <3>2
  <2>3. K \cap Y = {}  BY <1>1, <1>2
  <2>4. IsFiniteSet(Y) /\ IsFiniteSet(X) /\ Cardinality(Y) = Cardinality(X)
    <3> HIDE DEF X
    <3> QED  BY <1>7, <2>1
  <2>5. Cardinality({}) = 0  BY FS_EmptySet
  <2>6. Before(L, j) = Cardinality(X)  BY DEF Before
  <2>7. Cardinality(X) \in Nat  BY <2>4, FS_CardinalityType
  <2> HIDE DEF X, Y
  <2>8. Cardinality(K \cup Y) = Cardinality(K) + Cardinality(Y) - 0
    BY <1>4, <2>3, <2>4, <2>5, FS_Union
  <2>9. Before(M, Len(s) + j) = Cardinality(K \cup Y)  BY <2>2 DEF Before
  <2> QED  BY <1>4, <2>4, <2>6, <2>7, <2>8, <2>9
<1>11. ASSUME NEW i \in M  PROVE c[Before(M, i) + 1] = u[i]
  <2>1. CASE i \in K
    <3>1. c[Before(K, i) + 1] = a[Before(K, i) + 1] /\ a[Before(K, i) + 1] = s[i]
      BY <1>4, <1>6, <2>1
    <3> QED  BY <1>1, <1>2, <1>9, <2>1, <3>1
  <2>2. ASSUME NEW j \in L, i = Len(s) + j  PROVE c[Before(M, i) + 1] = u[i]
    <3>1. Before(L, j) + 1 \in 1..Cardinality(L) /\ b[Before(L, j) + 1] = t[j]  BY <1>5
    <3>2. c[Cardinality(K) + (Before(L, j) + 1)] = t[j]  BY <1>6, <3>1
    <3>3. Before(L, j) \in Nat  BY <1>5, BeforeTyped
    <3>4. Before(M, i) + 1 = Cardinality(K) + (Before(L, j) + 1)  BY <1>4, <1>10, <2>2, <3>3
    <3>5. u[i] = t[j]  BY <1>1, <1>2, <2>2
    <3> QED  BY <3>2, <3>4, <3>5
  <2> QED  BY <1>3, <2>1, <2>2
<1>12. u \in Seq(S) /\ M \in SUBSET DOMAIN u /\ c \in Seq(S) /\ Len(c) = Cardinality(M)
  BY <1>1, <1>2, <1>6, <1>8
<1>13. c = AtPlaces(u, M)  BY ONLY <1>11, <1>12, PlacedIs
<1> QED  BY <1>13 DEF Among, K, L, M, a, b, c, u

LEMMA AmongReverse ==
  ASSUME NEW S, NEW s \in Seq(S), NEW A
  PROVE  Among(Reverse(s), A) = Reverse(Among(s, A))
<1> DEFINE K == {i \in DOMAIN s : s[i] \in A}  u == Reverse(s)
           M == {i \in DOMAIN u : u[i] \in A}
           a == AtPlaces(s, K)  c == Reverse(a)  n == Len(s)
<1>1. /\ n \in Nat /\ DOMAIN s = 1..n /\ u \in Seq(S) /\ DOMAIN u = 1..n
      /\ \A i \in 1..n : /\ n - i + 1 \in 1..n /\ n - (n - i + 1) + 1 = i
                         /\ u[i] = s[n - i + 1] /\ u[n - i + 1] = s[i]
  <2>1. n \in Nat /\ DOMAIN s = 1..n  OBVIOUS
  <2>2. \A i \in 1..n : n - (n - i + 1) + 1 = i  BY <2>1
  <2> QED  BY <2>1, <2>2, ReverseIs
<1>2. K \in SUBSET DOMAIN s /\ K \in SUBSET (1..n) /\ M \in SUBSET DOMAIN u /\ M \in SUBSET (1..n)
  BY <1>1
<1>3. \A i \in 1..n : i \in M <=> n - i + 1 \in K  BY <1>1
<1>4. /\ IsFiniteSet(K) /\ K \in SUBSET Nat /\ Cardinality(K) \in Nat
      /\ a \in Seq(S) /\ Len(a) = Cardinality(K)
      /\ \A i \in K : Before(K, i) + 1 \in 1..Cardinality(K) /\ a[Before(K, i) + 1] = s[i]
  <2> HIDE DEF K
  <2>1. IsFiniteSet(K)  BY <1>2, Placed
  <2>2. Cardinality(K) \in Nat  BY <2>1, FS_CardinalityType
  <2> QED  BY <1>2, <2>2, Placed
<1>5. /\ c \in Seq(S) /\ Len(c) = Cardinality(K)
      /\ \A i \in 1..Cardinality(K) : c[Cardinality(K) - i + 1] = a[i]
  <2> HIDE DEF K, M, a, u, n
  <2> QED  BY <1>4, ReverseIs
<1> HIDE DEF K, M, a, c, u, n
<1>6. ASSUME NEW X \in SUBSET K
      PROVE  /\ IsFiniteSet({n - j + 1 : j \in X}) /\ IsFiniteSet(X)
             /\ Cardinality({n - j + 1 : j \in X}) = Cardinality(X)
  <2> DEFINE Y == {n - j + 1 : j \in X}  f == [j \in X |-> n - j + 1]
  <2>1. IsFiniteSet(X) /\ X \in SUBSET Nat  BY <1>4, FS_Subset
  <2>2. f \in [X -> Y]  OBVIOUS
  <2>3. \A i, j \in X : f[i] = f[j] => i = j  BY <1>1, <2>1
  <2>4. \A m \in Y : \E i \in X : f[i] = m  OBVIOUS
  <2> HIDE DEF Y, f
  <2>5. IsFiniteSet(Y) /\ Cardinality(Y) = Cardinality(X)  BY <2>1, <2>2, <2>3, <2>4, Moved
  <2> QED  BY <2>1, <2>5 DEF Y
<1>7. M = {n - j + 1 : j \in K}
  <2>1. \A i \in M : n - i + 1 \in K /\ n - (n - i + 1) + 1 = i  BY <1>1, <1>2, <1>3
  <2>2. ASSUME NEW j \in K  PROVE n - j + 1 \in M
    <3>1. j \in 1..n /\ n - j + 1 \in 1..n /\ n - (n - j + 1) + 1 = j  BY <1>1, <1>2
    <3> QED  BY <1>3, <3>1
  <2> QED  BY <2>1, <2>2
<1>8. Cardinality(M) = Cardinality(K)  BY <1>6, <1>7
<1>9. ASSUME NEW j \in K  PROVE Before(M, n - j + 1) = Cardinality(K) - Before(K, j) - 1
  <2> DEFINE X == {i \in K : i > j}  Y == {n - i + 1 : i \in X}  B == {i \in K : i < j}
  <2>1. X \in SUBSET K /\ B \in SUBSET K  OBVIOUS
  <2>2. {i \in M : i < n - j + 1} = Y
    <3>1. \A i \in K : n - i + 1 < n - j + 1 <=> i > j  BY <1>1, <1>2
    <3> QED  BY <1>7, <3>1
  <2>3. IsFiniteSet(X) /\ Cardinality(Y) = Cardinality(X)
    <3> HIDE DEF X
    <3> QED  BY <1>6, <2>1
  <2>4. Before(K, j) = Cardinality(B)  BY DEF Before
  <2>5. IsFiniteSet(B)  BY <1>4, <2>1, FS_Subset
  <2>6. K = X \cup (B \cup {j}) /\ X \cap (B \cup {j}) = {} /\ j \notin B
    <3>1. \A i \in K : i > j \/ i < j \/ i = j  BY <1>4
    <3>2. \A i \in K : ~(i > j /\ i < j) /\ ~(j > j) /\ ~(j < j)  BY <1>4
    <3> QED  BY <3>1, <3>2
  <2> HIDE DEF X, Y, B
  <2>7. IsFiniteSet(B \cup {j}) /\ Cardinality(B \cup {j}) = Cardinality(B) + 1
    BY <2>5, <2>6, FS_AddElement
  <2>8. Cardinality({}) = 0  BY FS_EmptySet
  <2>9. Cardinality(K) = Cardinality(X) + Cardinality(B \cup {j}) - 0
    BY <2>3, <2>6, <2>7, <2>8, FS_Union
  <2>10. Cardinality(X) \in Nat /\ Cardinality(B) \in Nat  BY <2>3, <2>5, FS_CardinalityType
  <2>11. Before(M, n - j + 1) = Cardinality(Y)  BY <2>2 DEF Before
  <2> QED  BY <1>4, <2>3, <2>4, <2>7, <2>9, <2>10, <2>11
<1>10. ASSUME NEW i \in M  PROVE c[Before(M, i) + 1] = u[i]
  <2>1. PICK j \in K : i = n - j + 1  BY <1>7
  <2>2. Before(K, j) + 1 \in 1..Cardinality(K) /\ a[Before(K, j) + 1] = s[j]  BY <1>4
  <2>3. c[Cardinality(K) - (Before(K, j) + 1) + 1] = s[j]  BY <1>5, <2>2
  <2>4. Before(K, j) \in Nat  BY <1>4, BeforeTyped
  <2>5. Before(M, i) + 1 = Cardinality(K) - (Before(K, j) + 1) + 1  BY <1>4, <1>9, <2>1, <2>4
  <2>6. u[i] = s[j]  BY <1>1, <1>2, <2>1
  <2> QED  BY <2>3, <2>5, <2>6
<1>11. u \in Seq(S) /\ M \in SUBSET DOMAIN u /\ c \in Seq(S) /\ Len(c) = Cardinality(M)
  BY <1>1, <1>2, <1>5, <1>8
<1>12. c = AtPlaces(u, M)  BY ONLY <1>10, <1>11, PlacedIs
<1> QED  BY <1>12 DEF Among, K, M, a, c, u

-----------------------------------------------------------------------------
(* A part of a sequence: what a page shows of a list. *)

Part(s, from, size) ==
  SubSeq(s, from + 1, IF from + size < Len(s) THEN from + size ELSE Len(s))

PartLen(len, from, size) ==
  IF len <= from THEN 0 ELSE IF from + size < len THEN size ELSE len - from

\* p is the part of s.
PartOf(p, S, s, from, size) ==
  /\ p \in Seq(S) /\ Len(p) = PartLen(Len(s), from, size)
  /\ PartLen(Len(s), from, size) \in 0..size
  /\ \A i \in 1..PartLen(Len(s), from, size) : from + i \in 1..Len(s) /\ p[i] = s[from + i]
  /\ ToSet(p) \subseteq ToSet(s)
  /\ IsInjective(s) => IsInjective(p)

LEMMA PartIs ==
  ASSUME NEW S, NEW s \in Seq(S), NEW from \in Nat, NEW size \in Nat
  PROVE  PartOf(Part(s, from, size), S, s, from, size)
<1> DEFINE m == from + 1  n == IF from + size < Len(s) THEN from + size ELSE Len(s)
           p == SubSeq(s, m, n)  l == PartLen(Len(s), from, size)
<1>1. Len(s) \in Nat /\ DOMAIN s = 1..Len(s)  OBVIOUS
<1>2. m \in Int /\ n \in Int /\ m \in Nat \ {0} /\ n <= Len(s)  BY <1>1
<1>3. \A i \in m..n : s[i] \in S
  <2>1. \A i \in m..n : i \in 1..Len(s)  BY <1>1, <1>2
  <2> QED  BY <2>1
<1>4. (IF m <= n THEN n - m + 1 ELSE 0) = l /\ l \in 0..size  BY <1>1 DEF PartLen
<1>5. \A i \in 1..l : i \in 1..(n - m + 1) /\ m + i - 1 = from + i /\ from + i \in 1..Len(s)
  BY <1>1 DEF PartLen
<1> HIDE DEF m, n
<1>6. /\ p \in Seq(S) /\ Len(p) = IF m <= n THEN n - m + 1 ELSE 0
      /\ \A i \in 1..(n - m + 1) : p[i] = s[m + i - 1]
  BY <1>2, <1>3, SubSeqProperties
<1> HIDE DEF p, l
<1>7. Len(p) = l /\ \A i \in 1..l : from + i \in 1..Len(s) /\ p[i] = s[from + i]
  BY <1>4, <1>5, <1>6
<1>8. DOMAIN p = 1..l  BY <1>6, <1>7
<1>9. ToSet(p) \subseteq ToSet(s)  BY <1>1, <1>7, <1>8 DEF ToSet
<1>10. ASSUME IsInjective(s)  PROVE IsInjective(p)
  <2> SUFFICES ASSUME NEW i \in 1..l, NEW j \in 1..l, p[i] = p[j]  PROVE i = j
    BY <1>8 DEF IsInjective
  <2>1. from + i \in DOMAIN s /\ from + j \in DOMAIN s /\ s[from + i] = s[from + j]
    BY <1>1, <1>7
  <2>2. from + i = from + j  BY <1>10, <2>1 DEF IsInjective
  <2>3. l \in Int  BY <1>4
  <2> QED  BY <2>2, <2>3
<1>11. p = Part(s, from, size)  BY DEF Part, p, m, n
<1> QED  BY <1>4, <1>6, <1>7, <1>9, <1>10, <1>11 DEF l, PartOf

\* A list and another after it, place by place.
LEMMA TwoParts ==
  ASSUME NEW S, NEW p \in Seq(S), NEW q \in Seq(S), NEW w \in Seq(S), Len(w) = Len(p) + Len(q),
         \A i \in 1..Len(p) : w[i] = p[i], \A i \in 1..Len(q) : w[Len(p) + i] = q[i]
  PROVE  w = p \o q
<1> DEFINE c == p \o q
<1>1. /\ c \in Seq(S) /\ Len(c) = Len(p) + Len(q)
      /\ \A i \in 1..Len(p) : c[i] = p[i]
      /\ \A i \in 1..Len(q) : c[Len(p) + i] = q[i]
      /\ \A i \in 1..(Len(p) + Len(q)) :
           i \in 1..Len(p) \/ \E j \in 1..Len(q) : i = Len(p) + j
  BY ConcatIs
<1> HIDE DEF c
<1>2. ASSUME NEW i \in 1..(Len(p) + Len(q))  PROVE w[i] = c[i]
  <2>1. CASE i \in 1..Len(p)  BY <1>1, <2>1
  <2>2. ASSUME NEW j \in 1..Len(q), i = Len(p) + j  PROVE w[i] = c[i]  BY <1>1, <2>2
  <2> QED  BY <1>1, <2>1, <2>2
<1>3. w = c  BY <1>1, <1>2, SeqEqual
<1> QED  BY <1>3 DEF c

\* a rows of the first list, of m, and from its place rest on those of the second, of n.
AddsUp(m, n, from, size, rest, a) ==
  /\ rest \in Nat /\ a \in Nat /\ size - a \in Nat
  /\ PartLen(m + n, from, size) = a + PartLen(n, rest, size - a)
  /\ PartLen(n, rest, size - a) \in Nat
  /\ a > 0 => from + a <= m
  /\ PartLen(n, rest, size - a) > 0 =>
       from + a = m + rest /\ rest + PartLen(n, rest, size - a) <= n

LEMMA PartLens ==
  ASSUME NEW m \in Nat, NEW n \in Nat, NEW from \in Nat, NEW size \in Nat,
         NEW rest, rest = IF from > m THEN from - m ELSE 0,
         NEW a, a = PartLen(m, from, size)
  PROVE  AddsUp(m, n, from, size, rest, a)
<1> USE DEF AddsUp
<1> DEFINE b == size - a
<1>1. CASE m <= from
  <2>1. a = 0 /\ rest = from - m  BY <1>1 DEF PartLen
  <2>2. b = size /\ rest \in Nat  BY <1>1, <2>1
  <2> HIDE DEF b
  <2> QED  BY <1>1, <2>1, <2>2 DEF PartLen
<1>2. CASE ~(m <= from) /\ from + size < m
  <2>1. a = size /\ rest = 0  BY <1>2 DEF PartLen
  <2>2. b = 0  BY <2>1
  <2>3. PartLen(n, rest, b) = 0
    <3>1. CASE n = 0  BY <2>1, <2>2, <3>1 DEF PartLen
    <3>2. CASE n > 0  BY <2>1, <2>2, <3>2 DEF PartLen
    <3> QED  BY <3>1, <3>2
  <2>4. PartLen(m + n, from, size) = size  BY <1>2 DEF PartLen
  <2> QED  BY <1>2, <2>1, <2>2, <2>3, <2>4
<1>3. CASE ~(m <= from) /\ ~(from + size < m)
  <2>1. a = m - from /\ rest = 0  BY <1>3 DEF PartLen
  <2>2. b = size - (m - from) /\ b \in Nat  BY <1>3, <2>1
  <2> HIDE DEF b
  <2> QED  BY <1>3, <2>1, <2>2 DEF PartLen, b
<1> QED  BY <1>1, <1>2, <1>3

\* A part of two lists in a row is a part of the one and a part of the other.
LEMMA PartOfTwo ==
  ASSUME NEW S, NEW s \in Seq(S), NEW t \in Seq(S), NEW from \in Nat, NEW size \in Nat
  PROVE  Part(s \o t, from, size) =
           Part(s, from, size) \o Part(t, IF from > Len(s) THEN from - Len(s) ELSE 0,
                                      size - PartLen(Len(s), from, size))
<1>a. PICK rest : rest = IF from > Len(s) THEN from - Len(s) ELSE 0  OBVIOUS
<1>b. PICK a : a = PartLen(Len(s), from, size)  OBVIOUS
<1> DEFINE u == s \o t  p == Part(s, from, size)  q == Part(t, rest, size - a)
           w == Part(u, from, size)  lq == PartLen(Len(t), rest, size - a)
           lw == PartLen(Len(s) + Len(t), from, size)
<1>1. Len(s) \in Nat /\ Len(t) \in Nat  OBVIOUS
<1>2. /\ rest \in Nat /\ a \in Nat /\ size - a \in Nat /\ lw = a + lq /\ lq \in Nat
      /\ a > 0 => from + a <= Len(s)
      /\ lq > 0 => from + a = Len(s) + rest /\ rest + lq <= Len(t)
  <2> HIDE DEF u, p, q, w
  <2> DEFINE m == Len(s)  n == Len(t)
  <2>1. /\ m \in Nat /\ n \in Nat /\ rest = IF from > m THEN from - m ELSE 0
        /\ a = PartLen(m, from, size)
    BY <1>1, <1>a, <1>b
  <2> HIDE DEF m, n
  <2>2. AddsUp(m, n, from, size, rest, a)  BY <2>1, PartLens
  <2> QED  BY <2>2 DEF m, n, AddsUp
<1> HIDE DEF lq, lw
<1>3. /\ u \in Seq(S) /\ Len(u) = Len(s) + Len(t)
      /\ \A i \in 1..Len(s) : u[i] = s[i]
      /\ \A i \in 1..Len(t) : u[Len(s) + i] = t[i]
  <2> HIDE DEF p, q, w
  <2> QED  BY ConcatIs DEF u
<1> HIDE DEF u
<1>4. p \in Seq(S) /\ Len(p) = a /\ \A i \in 1..a : p[i] = s[from + i]
  <2> HIDE DEF q, w
  <2>1. PartOf(p, S, s, from, size)  BY PartIs DEF p
  <2> QED  BY <1>b, <2>1 DEF PartOf
<1>5. q \in Seq(S) /\ Len(q) = lq /\ \A i \in 1..lq : q[i] = t[rest + i]
  <2> HIDE DEF p, w
  <2>1. rest \in Nat /\ size - a \in Nat  BY <1>2
  <2>2. PartOf(q, S, t, rest, size - a)  BY <2>1, PartIs DEF q
  <2> HIDE DEF q
  <2> QED  BY <2>2 DEF PartOf, lq
<1>6. w \in Seq(S) /\ Len(w) = lw /\ \A i \in 1..lw : w[i] = u[from + i]
  <2> HIDE DEF p, q
  <2>1. PartOf(w, S, u, from, size)  BY <1>3, PartIs DEF w
  <2> HIDE DEF w
  <2> QED  BY <1>3, <2>1 DEF lw, PartOf
<1> HIDE DEF p, q, w
<1>7. ASSUME NEW i \in 1..a  PROVE w[i] = p[i]
  <2>1. i \in 1..lw /\ from + i \in 1..Len(s)  BY <1>1, <1>2
  <2> QED  BY <1>3, <1>4, <1>6, <2>1
<1>8. ASSUME NEW i \in 1..lq  PROVE w[a + i] = q[i]
  <2> DEFINE m == Len(s)  n == Len(t)
  <2>0. m \in Nat /\ n \in Nat /\ from + a = m + rest /\ rest + lq <= n  BY <1>1, <1>2
  <2> HIDE DEF m, n
  <2>1. a + i \in 1..lw /\ from + (a + i) = m + (rest + i) /\ rest + i \in 1..n
    <3>1. rest \in Nat /\ a \in Nat /\ lq \in Nat /\ lw = a + lq  BY <1>2
    <3>2. i \in Nat /\ 1 <= i /\ i <= lq  BY <3>1
    <3> QED  BY ONLY <3>1, <3>2, <2>0, from \in Nat
  <2>2. w[a + i] = u[Len(s) + (rest + i)]  BY <1>6, <2>1 DEF m
  <2>3. u[Len(s) + (rest + i)] = t[rest + i]  BY <1>3, <2>1 DEF n
  <2> QED  BY <1>5, <2>2, <2>3
<1>9. Len(w) = Len(p) + Len(q)  BY <1>2, <1>4, <1>5, <1>6
<1>10. (\A i \in 1..Len(p) : w[i] = p[i]) /\ (\A i \in 1..Len(q) : w[Len(p) + i] = q[i])
  BY <1>4, <1>5, <1>7, <1>8
<1>11. w \in Seq(S) /\ p \in Seq(S) /\ q \in Seq(S)  BY <1>4, <1>5, <1>6
<1>12. w = p \o q  BY ONLY <1>9, <1>10, <1>11, TwoParts
<1> QED  BY <1>a, <1>b, <1>12 DEF w, p, q, u

\* One part and the next are a part.
LEMMA PartsJoin ==
  ASSUME NEW S, NEW s \in Seq(S), NEW m \in Nat, NEW size \in Nat
  PROVE  Part(s, 0, m) \o Part(s, m, size) = Part(s, 0, m + size)
<1> DEFINE p == Part(s, 0, m)  q == Part(s, m, size)  all == m + size
           w == Part(s, 0, all)
           lp == PartLen(Len(s), 0, m)  lq == PartLen(Len(s), m, size)
           lw == PartLen(Len(s), 0, all)
<1>1. Len(s) \in Nat /\ 0 \in Nat /\ all \in Nat  OBVIOUS
<1>2. lp \in Nat /\ lq \in Nat /\ lw = lp + lq /\ (lq > 0 => lp = m)
  <2>1. CASE Len(s) <= m
    <3>1. lq = 0 /\ lp = Len(s) /\ lw = Len(s)  BY <1>1, <2>1 DEF PartLen
    <3> QED  BY <1>1, <3>1
  <2>2. CASE ~(Len(s) <= m)
    <3>1. lp = m  BY <1>1, <2>2 DEF PartLen
    <3>2. CASE m + size < Len(s)
      <4>1. lq = size /\ lw = m + size  BY <1>1, <2>2, <3>2 DEF PartLen
      <4> QED  BY <3>1, <4>1
    <3>3. CASE ~(m + size < Len(s))
      <4>1. lq = Len(s) - m /\ lw = Len(s)  BY <1>1, <2>2, <3>3 DEF PartLen
      <4> QED  BY <1>1, <2>2, <3>1, <4>1
    <3> QED  BY <3>2, <3>3
  <2> QED  BY <2>1, <2>2
<1> HIDE DEF all
<1>3. p \in Seq(S) /\ Len(p) = lp /\ \A i \in 1..lp : p[i] = s[0 + i]
  <2> HIDE DEF q, w, lq, lw
  <2>1. PartOf(p, S, s, 0, m)  BY <1>1, PartIs DEF p
  <2> HIDE DEF p
  <2> QED  BY <2>1 DEF PartOf, lp
<1>4. q \in Seq(S) /\ Len(q) = lq /\ \A i \in 1..lq : q[i] = s[m + i]
  <2> HIDE DEF p, w, lp, lw
  <2>1. PartOf(q, S, s, m, size)  BY <1>1, PartIs DEF q
  <2> HIDE DEF q
  <2> QED  BY <2>1 DEF PartOf, lq
<1>5. w \in Seq(S) /\ Len(w) = lw /\ \A i \in 1..lw : w[i] = s[0 + i]
  <2> HIDE DEF p, q, lp, lq
  <2>1. PartOf(w, S, s, 0, all)  BY <1>1, PartIs DEF w
  <2> HIDE DEF w
  <2> QED  BY <2>1 DEF PartOf, lw
<1> HIDE DEF p, q, w, lp, lq, lw
<1>6. ASSUME NEW i \in 1..lp  PROVE w[i] = p[i]  BY <1>2, <1>3, <1>5
<1>7. ASSUME NEW i \in 1..lq  PROVE w[lp + i] = q[i]
  <2>1. lp + i \in 1..lw /\ 0 + (lp + i) = m + i  BY <1>2
  <2> QED  BY <1>4, <1>5, <2>1
<1>8. /\ w \in Seq(S) /\ p \in Seq(S) /\ q \in Seq(S) /\ Len(w) = Len(p) + Len(q)
      /\ \A i \in 1..Len(p) : w[i] = p[i]
      /\ \A i \in 1..Len(q) : w[Len(p) + i] = q[i]
  BY <1>2, <1>3, <1>4, <1>5, <1>6, <1>7
<1>9. w = p \o q  BY ONLY <1>8, TwoParts
<1> QED  BY <1>9 DEF w, p, q, all

LEMMA PartAll ==
  ASSUME NEW S, NEW s \in Seq(S), NEW size \in Nat, Len(s) <= size
  PROVE  Part(s, 0, size) = s
<1>1. Len(s) \in Nat /\ 0 + 1 = 1 /\ ~(0 + size < Len(s))  OBVIOUS
<1>2. Part(s, 0, size) = SubSeq(s, 1, Len(s))  BY <1>1 DEF Part
<1> QED  BY <1>2, SubSeqFull

-----------------------------------------------------------------------------
(* Sums and joined lists. *)

LEMMA HasLeast ==
  ASSUME NEW R \in SUBSET Nat, R # {}
  PROVE  \E n \in R : \A m \in R : n <= m
<1>1. PICK n \in R : \A m \in R : ~(<<m, n>> \in OpToRel(<, Nat))
  BY NatLessThanWellFounded, WFMin
<1>2. \A m \in R : ~(m < n)  BY <1>1 DEF OpToRel
<1>3. \A m \in R : n <= m  BY <1>2
<1> QED  BY <1>3

\* There is one way to list a set in order.
LEMMA OneOrder ==
  ASSUME NEW S, NEW R, Orders(R, S), NEW s \in Seq(S), NEW t \in Seq(S), Len(s) = Len(t),
         IsInjective(s), IsInjective(t), ToSet(s) = S, ToSet(t) = S,
         \A i, j \in 1..Len(s) : i < j => <<s[i], s[j]>> \in R,
         \A i, j \in 1..Len(t) : i < j => <<t[i], t[j]>> \in R
  PROVE  s = t
<1>1. DOMAIN s = 1..Len(s) /\ DOMAIN t = 1..Len(s) /\ Len(s) \in Nat  OBVIOUS
<1> DEFINE Wrong == {i \in 1..Len(s) : s[i] # t[i]}
<1>2. ASSUME Wrong # {}  PROVE FALSE
  <2>1. Wrong \in SUBSET Nat  BY <1>1
  <2>2. PICK i \in Wrong : \A j \in Wrong : i <= j
    <3> HIDE DEF Wrong
    <3> QED  BY <1>2, <2>1, HasLeast
  <2>3. i \in 1..Len(s) /\ s[i] # t[i] /\ s[i] \in S /\ t[i] \in S  BY <1>1
  <2>4. \A j \in 1..Len(s) : j < i => s[j] = t[j]
    <3> SUFFICES ASSUME NEW j \in 1..Len(s), j < i, s[j] # t[j]  PROVE FALSE  OBVIOUS
    <3>1. j \in Wrong  OBVIOUS
    <3> HIDE DEF Wrong
    <3>2. i <= j /\ i \in Int /\ j \in Int  BY <1>1, <2>2, <2>3, <3>1
    <3> QED  BY <3>2
  <2> HIDE DEF Wrong
  <2>5. PICK j \in 1..Len(s) : t[j] = s[i]  BY <1>1, <2>3 DEF ToSet
  <2>6. PICK k \in 1..Len(s) : s[k] = t[i]  BY <1>1, <2>3 DEF ToSet
  <2>7. i < j
    <3>1. j # i  BY <2>3, <2>5
    <3>2. ASSUME j < i  PROVE FALSE
      <4>1. s[j] = s[i]  BY <2>4, <2>5, <3>2
      <4> QED  BY <1>1, <2>3, <3>1, <4>1 DEF IsInjective
    <3>3. i \in Int /\ j \in Int  BY <1>1, <2>3
    <3> QED  BY <3>1, <3>2, <3>3
  <2>8. i < k
    <3>1. k # i  BY <2>3, <2>6
    <3>2. ASSUME k < i  PROVE FALSE
      <4>1. t[k] = t[i]  BY <2>4, <2>6, <3>2
      <4> QED  BY <1>1, <2>3, <3>1, <4>1 DEF IsInjective
    <3>3. i \in Int /\ k \in Int  BY <1>1, <2>3
    <3> QED  BY <3>1, <3>2, <3>3
  <2>9. <<t[i], s[i]>> \in R  BY <2>3, <2>5, <2>7
  <2>10. <<s[i], t[i]>> \in R  BY <2>3, <2>6, <2>8
  <2> QED  BY <2>3, <2>9, <2>10 DEF Orders
<1>3. \A i \in 1..Len(s) : s[i] = t[i]  BY <1>2
<1> QED  BY <1>1, <1>3, SeqEqual

OfKind(U, kind, X) == {x \in U : kind[x] \in X}

\* How many there are of some kinds: the sum of how many there are of each.
LEMMA SumOfCounts ==
  ASSUME NEW U, IsFiniteSet(U), NEW kind, NEW X, IsFiniteSet(X), NEW f,
         \A t \in X : f[t] = Cardinality({x \in U : kind[x] = t})
  PROVE  SumFunctionOnSet(f, X) = Cardinality(OfKind(U, kind, X))
<1> DEFINE step(i, s) == IF s = {} THEN 0
                         ELSE LET t == CHOOSE y \in s : TRUE IN f[t] + i[s \ {t}]
           IsSum(i) == i = [s \in SUBSET X |-> step(i, s)]
           w == [s \in SUBSET X |-> Cardinality(OfKind(U, kind, s))]
<1>1. SumFunctionOnSet(f, X) = (CHOOSE i : IsSum(i))[X]
  BY DEF SumFunctionOnSet, FoldFunctionOnSet, MapThenFoldSet
<1>2. ASSUME NEW s \in SUBSET X  PROVE IsFiniteSet(s)  BY FS_Subset
<1>3. ASSUME NEW s \in SUBSET X, NEW t \in s
      PROVE  Cardinality(OfKind(U, kind, s)) = f[t] + Cardinality(OfKind(U, kind, s \ {t}))
  <2> DEFINE A == {x \in U : kind[x] = t}  B == OfKind(U, kind, s \ {t})
  <2>1. OfKind(U, kind, s) = A \cup B /\ A \cap B = {}  BY DEF OfKind
  <2>2. A \in SUBSET U /\ B \in SUBSET U  BY DEF OfKind
  <2>3. f[t] = Cardinality(A)  OBVIOUS
  <2> HIDE DEF A, B
  <2>4. IsFiniteSet(A) /\ IsFiniteSet(B)  BY <2>2, FS_Subset
  <2>5. Cardinality({}) = 0  BY FS_EmptySet
  <2>6. Cardinality(A \cup B) = Cardinality(A) + Cardinality(B) - 0  BY <2>1, <2>4, <2>5, FS_Union
  <2>7. Cardinality(A) \in Nat /\ Cardinality(B) \in Nat  BY <2>4, FS_CardinalityType
  <2> QED  BY <2>1, <2>3, <2>6, <2>7 DEF B
<1>4. Cardinality(OfKind(U, kind, {})) = 0
  <2>1. OfKind(U, kind, {}) = {}  BY DEF OfKind
  <2> QED  BY <2>1, FS_EmptySet
<1>5. IsSum(w)
  <2>1. ASSUME NEW s \in SUBSET X  PROVE w[s] = step(w, s)
    <3>1. CASE s = {}  BY <1>4, <3>1
    <3>2. CASE s # {}
      <4> DEFINE t == CHOOSE y \in s : TRUE
      <4>1. t \in s  BY <3>2
      <4> HIDE DEF t
      <4>2. s \ {t} \in SUBSET X  OBVIOUS
      <4>3. w[s] = f[t] + w[s \ {t}]  BY <1>3, <4>1, <4>2
      <4> QED  BY <3>2, <4>3 DEF t
    <3> QED  BY <3>1, <3>2
  <2> QED  BY <2>1
<1>6. ASSUME NEW i, IsSum(i)  PROVE i[X] = w[X]
  <2> DEFINE Wrong == {s \in SUBSET X : i[s] # w[s]}
  <2> SUFFICES ASSUME Wrong # {}  PROVE FALSE  OBVIOUS
  <2> DEFINE sizes == {Cardinality(s) : s \in Wrong}
  <2>1. sizes \in SUBSET Nat /\ sizes # {}
    <3>1. \A s \in Wrong : IsFiniteSet(s)  BY <1>2
    <3> HIDE DEF Wrong
    <3>2. \A s \in Wrong : Cardinality(s) \in Nat  BY <3>1, FS_CardinalityType
    <3> QED  BY <3>2
  <2>2. PICK n \in sizes : \A m \in sizes : n <= m  BY <2>1, HasLeast
  <2>3. PICK s \in Wrong : Cardinality(s) = n  OBVIOUS
  <2>4. i[s] = step(i, s) /\ w[s] = step(w, s)  BY <1>5, <1>6
  <2>5. s # {}  BY <2>3, <2>4
  <2> DEFINE t == CHOOSE y \in s : TRUE
  <2>6. t \in s  BY <2>5
  <2>7. i[s] = f[t] + i[s \ {t}] /\ w[s] = f[t] + w[s \ {t}]  BY <2>4, <2>5
  <2> HIDE DEF t
  <2>8. s \ {t} \in SUBSET X /\ IsFiniteSet(s)  BY <1>2
  <2>9. Cardinality(s \ {t}) = Cardinality(s) - 1 /\ Cardinality(s) \in Nat
    BY <2>6, <2>8, FS_RemoveElement, FS_CardinalityType
  <2>10. Cardinality(s \ {t}) < n  BY <2>3, <2>9
  <2>11. s \ {t} \notin Wrong
    <3> SUFFICES ASSUME s \ {t} \in Wrong  PROVE FALSE  OBVIOUS
    <3>1. Cardinality(s \ {t}) \in sizes  OBVIOUS
    <3> HIDE DEF sizes, Wrong
    <3>2. n <= Cardinality(s \ {t})  BY <2>2, <3>1
    <3> QED  BY <2>3, <2>9, <2>10, <3>2
  <2>12. i[s \ {t}] = w[s \ {t}]  BY <2>8, <2>11
  <2> QED  BY <2>3, <2>7, <2>12
<1> HIDE DEF IsSum
<1>7. IsSum(CHOOSE i : IsSum(i))  BY <1>5
<1>8. (CHOOSE i : IsSum(i))[X] = w[X]  BY <1>6, <1>7
<1> QED  BY <1>1, <1>8

\* A sum of numbers is a number.
LEMMA SumIsNat ==
  ASSUME NEW X, IsFiniteSet(X), NEW f, \A t \in X : f[t] \in Nat
  PROVE  SumFunctionOnSet(f, X) \in Nat
<1> DEFINE Upto(t) == {t} \X (1..f[t])
           U == UNION {Upto(t) : t \in X}
           kind == [u \in U |-> u[1]]
<1>1. ASSUME NEW t \in X  PROVE IsFiniteSet(Upto(t)) /\ Cardinality(Upto(t)) = f[t]
  <2>1. IsFiniteSet(1..f[t]) /\ Cardinality(1..f[t]) = f[t]  BY UpTo
  <2>2. IsFiniteSet({t}) /\ Cardinality({t}) = 1  BY FS_Singleton
  <2>3. f[t] \in Nat  OBVIOUS
  <2> DEFINE A == {t}  B == 1..f[t]
  <2> HIDE DEF A, B
  <2>4. IsFiniteSet(A \X B) /\ Cardinality(A \X B) = Cardinality(A) * Cardinality(B)
    BY <2>1, <2>2, FS_Product DEF A, B
  <2> QED  BY <2>1, <2>2, <2>3, <2>4 DEF A, B
<1>2. IsFiniteSet(U)
  <2> DEFINE all == {Upto(t) : t \in X}
  <2>1. IsFiniteSet(all)
    <3> DEFINE g == [t \in X |-> Upto(t)]
    <3> HIDE DEF Upto
    <3>1. g \in Surjection(X, all)  BY DEF Surjection
    <3> QED  BY <3>1, FS_Surjection
  <2>2. \A A \in all : IsFiniteSet(A)  BY <1>1
  <2> HIDE DEF all
  <2>3. IsFiniteSet(UNION all)  BY <2>1, <2>2, FS_UNION
  <2> QED  BY <2>3 DEF all
<1>3. ASSUME NEW t \in X  PROVE f[t] = Cardinality({u \in U : kind[u] = t})
  <2>1. {u \in U : kind[u] = t} = Upto(t)
    <3>1. \A u \in U : kind[u] = u[1]  OBVIOUS
    <3>2. \A u \in U : u[1] = t => u \in Upto(t)  OBVIOUS
    <3>3. \A u \in Upto(t) : u \in U /\ u[1] = t  OBVIOUS
    <3> HIDE DEF U, Upto, kind
    <3> QED  BY <3>1, <3>2, <3>3
  <2> QED  BY <1>1, <2>1
<1> HIDE DEF U, kind
<1>4. SumFunctionOnSet(f, X) = Cardinality(OfKind(U, kind, X))  BY <1>2, <1>3, SumOfCounts
<1>5. IsFiniteSet(OfKind(U, kind, X))
  <2>1. OfKind(U, kind, X) \in SUBSET U  BY DEF OfKind
  <2> QED  BY <1>2, <2>1, FS_Subset
<1> QED  BY <1>4, <1>5, FS_CardinalityType

\* The pages of a list, put together, are the list.
LEMMA PagesAreAll ==
  ASSUME NEW S, NEW s \in Seq(S), NEW n \in Nat \ {0}, NEW k \in Nat, Len(s) <= n * k,
         NEW c, c = [i \in 1..n |-> Part(s, (i - 1) * k, k)]
  PROVE  FlattenSeq(c) = s
<1> DEFINE step(g, i) == IF i = 1 THEN c[i] ELSE g[i - 1] \o c[i]
           IsFlat(g) == g = [i \in 1..n |-> step(g, i)]
           w == [i \in 1..n |-> Part(s, 0, i * k)]
<1>1. n \in Nat /\ n \in 1..n /\ 1 \in 1..n  OBVIOUS
<1>2. Len(c) = n
  <2> DEFINE p == [i \in 1..n |-> Part(s, (i - 1) * k, k)]
  <2>1. p = c  OBVIOUS
  <2>2. DOMAIN p = 1..n  OBVIOUS
  <2> HIDE DEF p
  <2> DEFINE T == {p[i] : i \in 1..n}
  <2>3. p \in Seq(T)
    <3>1. p = [i \in 1..n |-> p[i]]  BY DEF p
    <3>2. p \in [1..n -> T]  BY <3>1
    <3> HIDE DEF T
    <3> QED  BY <1>1, <3>2
  <2>4. Len(p) = n  BY <1>1, <2>2, <2>3
  <2> QED  BY <2>1, <2>4
<1>3. FlattenSeq(c) = (CHOOSE g : IsFlat(g))[n]
  <2>1. Len(c) # 0  BY <1>2
  <2> HIDE DEF w
  <2> QED  BY <1>2, <2>1 DEF FlattenSeq
<1>4. \A i \in 1..n : i = 1 \/ (i - 1 \in 1..n /\ i - 1 \in Nat)  BY <1>1
<1>5. ASSUME NEW i \in 1..n  PROVE w[i] = step(w, i)
  <2>1. CASE i = 1
    <3>1. (1 - 1) * k = 0 /\ 1 * k = k  OBVIOUS
    <3>2. w[1] = Part(s, 0, k) /\ c[1] = Part(s, 0, k)  BY <1>1, <3>1
    <3> QED  BY <2>1, <3>2
  <2>2. CASE i # 1
    <3>1. i - 1 \in 1..n /\ i - 1 \in Nat  BY <1>4, <2>2
    <3>2. (i - 1) * k \in Nat /\ (i - 1) * k + k = i * k
      <4>1. i \in Nat  BY <1>1
      <4>2. (i - 1) * k = i * k - k  BY <4>1
      <4>3. i * k \in Int  BY <4>1
      <4>4. (i - 1) * k \in Nat  BY <3>1
      <4> QED  BY <4>2, <4>3, <4>4
    <3>3. w[i] = Part(s, 0, i * k) /\ w[i - 1] = Part(s, 0, (i - 1) * k)
          /\ c[i] = Part(s, (i - 1) * k, k)
      BY <3>1
    <3> DEFINE m == (i - 1) * k
    <3> HIDE DEF w, m
    <3>4. m \in Nat /\ m + k = i * k  BY <3>2 DEF m
    <3>5. Part(s, 0, m) \o Part(s, m, k) = Part(s, 0, m + k)  BY <3>4, PartsJoin
    <3> QED  BY <2>2, <3>3, <3>4, <3>5 DEF m
  <2> QED  BY <2>1, <2>2
<1>6. IsFlat(w)  BY <1>5
<1>7. ASSUME NEW g, IsFlat(g)  PROVE g[n] = w[n]
  <2>1. \A i \in 1..n : g[i] = step(g, i)  BY <1>7
  <2> DEFINE Wrong == {i \in 1..n : g[i] # w[i]}
  <2> SUFFICES ASSUME Wrong # {}  PROVE FALSE  BY <1>1
  <2>2. Wrong \in SUBSET Nat  BY <1>1
  <2>3. PICK i \in Wrong : \A j \in Wrong : i <= j
    <3> HIDE DEF Wrong
    <3> QED  BY <2>2, HasLeast
  <2>4. i \in 1..n /\ g[i] # w[i] /\ g[i] = step(g, i) /\ w[i] = step(w, i)  BY <1>5, <2>1
  <2> HIDE DEF w
  <2>5. i # 1  BY <2>4
  <2>6. i - 1 \in 1..n /\ i \in Nat  BY <1>4, <2>4, <2>5
  <2>7. i - 1 \notin Wrong  BY <2>3, <2>6
  <2>8. g[i - 1] = w[i - 1]  BY <2>6, <2>7
  <2> QED  BY <2>4, <2>5, <2>8
<1> HIDE DEF IsFlat
<1>8. IsFlat(CHOOSE g : IsFlat(g))  BY <1>6
<1>9. (CHOOSE g : IsFlat(g))[n] = w[n]  BY <1>7, <1>8
<1>10. n * k \in Nat  BY <1>1
<1>11. w[n] = s
  <2>1. w[n] = Part(s, 0, n * k)  BY <1>1
  <2> DEFINE m == n * k
  <2> HIDE DEF m
  <2>2. Part(s, 0, m) = s  BY <1>10, PartAll DEF m
  <2> QED  BY <2>1, <2>2 DEF m
<1> QED  BY <1>3, <1>9, <1>11
=============================================================================
