-------------------------- MODULE MCPersistentSearch --------------------------
(* Instances of PersistentSearch for TLC. *)
EXTENDS PersistentSearchInv

CONSTANTS t1, t2

Both  == {t1, t2}
Sizes == {1, 2}
Zero  == {0}

Each(first, second) == [t \in Threads |-> IF t = t1 THEN first ELSE second]
Mode(late, pending, launches, batch) ==
  [late |-> late, max_pending |-> pending, launches |-> launches, batch |-> batch]

\* One thread comes back for more.
InTime == Mode(FALSE, 1, Each(2, 1), Each(2, 2))
\* Exceptions while another thread has workers, or with workers left to push.
Late   == {Mode(TRUE, 1, Each(1, 1), Each(2, 1)), Mode(TRUE, 2, Each(1, 0), Each(2, 1))}

All      == Late \union {InTime}
OnlyLate == Late
OnlyInTime == {InTime}
=============================================================================
