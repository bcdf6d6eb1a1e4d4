------------------------------ MODULE Ordering ------------------------------
(* A finite set of whole numbers in ascending order, as the models need it   *)
(* for lists that the code sorts or filters: the place of an element, the    *)
(* element at a place, and what a sequence holds at some of its places.      *)
(* And a sequence in an order of its own, as the code's sort by a comparison *)
(* leaves it, element by element.                                            *)
EXTENDS Integers, Sequences, FiniteSets

Place(K, i) == Cardinality({j \in K : j <= i})
Nth(K, n) == CHOOSE i \in K : Place(K, i) = n
Ascending(K) == [n \in 1..Cardinality(K) |-> Nth(K, n)]
At(s, K) == [n \in 1..Cardinality(K) |-> s[Nth(K, n)]]

(* Element e put before the first of the places K, or at the end.            *)
PutBefore(s, K, e) ==
  LET p == CHOOSE k \in K \cup {Len(s) + 1} : \A j \in K : k <= j
  IN  [n \in 1 .. Len(s) + 1 |-> IF n < p THEN s[n] ELSE IF n = p THEN e ELSE s[n - 1]]

(* Each element of s put before the first that it comes before.              *)
SortedBy(s, Before(_, _)) ==
  LET Insert(q, e) == PutBefore(q, {k \in DOMAIN q : Before(e, q[k])}, e)
      sorted[n \in 0..Len(s)] == IF n = 0 THEN <<>> ELSE Insert(sorted[n - 1], s[n])
  IN  sorted[Len(s)]
=============================================================================
