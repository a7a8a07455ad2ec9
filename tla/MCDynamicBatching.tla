------------------------- MODULE MCDynamicBatching -------------------------
(* Instances of DynamicBatching for TLC. *)
EXTENDS DynamicBatchingInv, TLC

CONSTANTS t1, t2, t3

Pair  == {t1, t2}
Trio  == {t1, t2, t3}
PairSymmetry == Permutations(Pair)
TrioSymmetry == Permutations(Trio)

\* Every thread has the same timeout, or t1 a tighter one.
SameTimeout == [t \in Threads |-> 1]
OneTighter  == [t \in Threads |-> IF t = t1 THEN 1 ELSE 2]

\* One or two queries per request.
OneQuery == {1}
OneOrTwo == {1, 2}
TwoQueries == {2}
=============================================================================
