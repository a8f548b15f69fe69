------------------------------ MODULE Ordering ------------------------------
(***************************************************************************)
(* What the code asks of Go's sort package, as sequences: a strict order   *)
(* of a set, and a stable sort of a list by a score, best first.           *)
(***************************************************************************)
EXTENDS Integers, FiniteSets, Sequences

LOCAL INSTANCE SequencesExt

\* The members of a set in the order "before" puts them in.
InOrder(S, before(_, _)) ==
  [k \in 1..Cardinality(S) |-> CHOOSE x \in S : Cardinality({y \in S : before(y, x)}) = k - 1]

Ascending(S) == InOrder(S, LAMBDA a, b : a < b)

\* sort.SliceStable by score, best first.
StableByScore(items, score(_)) ==
  LET order == InOrder(DOMAIN items, LAMBDA i, j :
                 score(items[i]) > score(items[j]) \/ (score(items[i]) = score(items[j]) /\ i < j))
  IN  [k \in DOMAIN order |-> items[order[k]]]

\* The first n items of a list, or all of them.
FirstN(items, n) == SubSeq(items, 1, IF Len(items) < n THEN Len(items) ELSE n)

\* The items at some places of a list, in order.
Picked(items, places) == [k \in 1..Cardinality(places) |-> items[Ascending(places)[k]]]

\* The items a list holds, each where it is met first.
Distinct(items, key(_)) ==
  Picked(items, {k \in DOMAIN items : \A j \in 1..(k - 1) : key(items[j]) # key(items[k])})

Smaller(a, b) == IF a < b THEN a ELSE b
Larger(a, b) == IF a < b THEN b ELSE a

SumOver(S, f(_)) == FoldLeft(LAMBDA sum, x : sum + f(x), 0, SetToSeq(S))
=============================================================================
