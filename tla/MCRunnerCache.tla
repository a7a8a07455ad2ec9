---------------------------- MODULE MCRunnerCache ----------------------------
(* Instances of RunnerCache for TLC. *)
EXTENDS RunnerCache, Bitwise

CONSTANTS t1, t2, unfiltered, filtered

Two   == {t1, t2}
Calls == [t \in Two |-> IF t = t1 THEN 2 ELSE 1]

\* Three of the arguments: two that the hash combines and one that it leaves out.
Args(width, iterations, filter) ==
  [search_width |-> width, max_iterations |-> iterations, sample_filter |-> filter]
a == Args(1, 2, unfiltered)
b == Args(2, 1, filtered)       \* with the hash of a
c == Args(1, 1, unfiltered)     \* with another

Three == {a, b, c}
Second == {t2}
Asked  == [t \in Two |-> IF t = t1 THEN {a, c} ELSE {b}]

\* The xor of numbers, which does not depend on their order, without the filter.
calculate_parameter_hash ==
  [args \in Three |-> args.search_width ^^ args.max_iterations]
=============================================================================
