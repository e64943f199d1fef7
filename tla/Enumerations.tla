----------------------------- MODULE Enumerations -----------------------------
(***************************************************************************)
(* A finite set as a sequence in a given order, by the place of each of    *)
(* its elements.  It is what SetToSortSeq of SequencesExt computes, which  *)
(* ends in an operator of TLC's that nothing can be proved about.          *)
(***************************************************************************)
EXTENDS Integers, Sequences, FiniteSets

\* How many elements of S come before x; before is a set of pairs.
Place(S, before, x) == Cardinality({y \in S : <<y, x>> \in before})

\* The elements of S in the order before, a strict total order on S.
Enumeration(S, before) ==
  [k \in 1..Cardinality(S) |-> CHOOSE x \in S : Place(S, before, x) = k - 1]

\* The order of a set of numbers.
Ascending(S) == {p \in S \X S : p[1] < p[2]}

\* The order of a set of tuples by their first two numbers.
Lexicographic(S) ==
  {p \in S \X S : p[1][1] < p[2][1] \/ (p[1][1] = p[2][1] /\ p[1][2] < p[2][2])}

\* The elements of the sequence s at the places of the set P, in their order.
Picked(s, P) ==
  LET places == Enumeration(P, Ascending(P))
  IN [k \in 1..Cardinality(P) |-> s[places[k]]]

\* The sequences of ss, one after the other.
Flattened(ss) ==
  LET cells == UNION {{b} \X (DOMAIN ss[b]) : b \in DOMAIN ss}
      cell  == Enumeration(cells, Lexicographic(cells))
  IN [k \in 1..Cardinality(cells) |-> ss[cell[k][1]][cell[k][2]]]
=============================================================================
