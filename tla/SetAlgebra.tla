----------------------------- MODULE SetAlgebra -----------------------------
(***************************************************************************)
(* The set algebra of GenericSet and OptiSet.  Both wrap a map from        *)
(* elements to (), so all they see of a set is what the map shows: its     *)
(* elements in iteration order, its length, and whether it contains an     *)
(* element.  A set is here the sequence of its elements in that order;     *)
(* which order it is is the map's business.                                *)
(***************************************************************************)
EXTENDS Integers, SequencesExt

contains(s, v) == v \in Range(s)

\* insert: the map's insert of (v, ()); what was there stays.
insert(s, v) == IF contains(s, v) THEN s ELSE Append(s, v)

\* from_iter and extend: insert the items one by one.
extend(s, items) == FoldLeft(insert, s, items)

is_disjoint(a, b) ==
  IF Len(a) <= Len(b) THEN \A v \in Range(a) : ~contains(b, v)
                      ELSE \A v \in Range(b) : ~contains(a, v)

\* A longer set is no subset; the elements are not looked at then.
is_subset(a, b) == Len(a) <= Len(b) /\ \A v \in Range(a) : contains(b, v)

eq(a, b) == Len(a) = Len(b) /\ \A v \in Range(a) : contains(b, v)

union(a, b) == extend(extend(<<>>, a), b)

\* Mutant: the longer set is searched in itself.
intersectionOfLonger(a, b) ==
  IF Len(a) <= Len(b) THEN extend(<<>>, SelectSeq(a, LAMBDA v : contains(b, v)))
                      ELSE extend(<<>>, SelectSeq(b, LAMBDA v : contains(b, v)))

\* The shorter set is walked and the longer one searched.
intersection(a, b) ==
  IF Len(a) <= Len(b) THEN extend(<<>>, SelectSeq(a, LAMBDA v : contains(b, v)))
                      ELSE extend(<<>>, SelectSeq(b, LAMBDA v : contains(a, v)))

difference(a, b) == extend(<<>>, SelectSeq(a, LAMBDA v : ~contains(b, v)))

symmetric_difference(a, b) ==
  extend(difference(a, b), SelectSeq(b, LAMBDA v : ~contains(a, v)))

----------------------------------------------------------------------------
\* c has exactly the elements of S, each once.
Lists(c, S) == Range(c) = S /\ Len(c) = Cardinality(S)

\* Every operation on a and b gives what it gives on the sets they stand for.
AlgebraRight(a, b) ==
  LET A == Range(a)
      B == Range(b)
  IN  /\ is_disjoint(a, b) <=> (A \cap B = {})
      /\ is_subset(a, b) <=> (A \subseteq B)
      /\ eq(a, b) <=> (A = B)
      /\ Lists(union(a, b), A \cup B)
      /\ Lists(intersection(a, b), A \cap B)
      /\ Lists(difference(a, b), A \ B)
      /\ Lists(symmetric_difference(a, b), (A \ B) \cup (B \ A))
=============================================================================
