-------------------------------- MODULE Lists --------------------------------
(***************************************************************************)
(* Choosing and ordering, as the components do with Python's comprehensions *)
(* and sorted(), and as the indexes do with a filter and a sort: by places,  *)
(* without recursion, so that what they give can be proved.                  *)
(***************************************************************************)
EXTENDS Integers, Sequences, FiniteSets

\* The elements at some places of a sequence, in its order.
AtPlaces(s, K) ==
  [n \in 1..Cardinality(K) |-> s[CHOOSE i \in K : Cardinality({j \in K : j < i}) = n - 1]]

\* Those for which Is holds.
Where(s, Is(_)) == AtPlaces(s, {i \in DOMAIN s : Is(s[i])})

\* The members of a set, each after those that R, pairs of an earlier and a later one,
\* puts before it.
InOrder(S, R) ==
  [n \in 1..Cardinality(S) |-> CHOOSE x \in S : Cardinality({y \in S : <<y, x>> \in R}) = n - 1]
=============================================================================
