---------------------------- MODULE MCCagraSearch ----------------------------
(* Instances of CagraSearch for TLC. *)
EXTENDS CagraSearch, Bitwise

XorOf(x, y) == x ^^ y

PlanOf(graph, seeds, size, width, iterations, hash) ==
  [graph |-> graph, degree |-> Len(graph[0]), seeds |-> seeds, itopk_size |-> size,
   search_width |-> width, topk |-> 2, max_iterations |-> iterations,
   min_iterations |-> 0, hash |-> hash, bitonic |-> TRUE, filtered |-> FALSE,
   allowed |-> DOMAIN graph]

\* All graphs over four nodes with two neighbours each.
Pairs  == {<<a, b>> : a, b \in 0..3}
Sorts  == {q \in Pairs : q[1] < q[2]}
Graphs == {g \in [0..3 -> Sorts] : \A n \in 0..3 : n \notin Range(g[n])}
Fours  == {PlanOf(g, s, 2, 1, 4, "AUTO") :
             g \in Graphs, s \in {<<3, 3, 2, 3>>, <<3, 1, 2, 3>>}}
         \union {PlanOf(g, <<3, 2, 2, 1, 3, 3, 0>>, 3, 2, 3, "AUTO") : g \in Graphs}

\* Walks over more nodes than the table has places, to nearer nodes or not.
Line(n, steps) == [k \in 0..(n - 1) |-> [j \in DOMAIN steps |-> (k + steps[j]) % n]]
Walks == {PlanOf(Line(14, s), <<13, 12, 11, 10>>, 2, 1, 6, "AUTO") :
            s \in {<<13, 12>>, <<12, 10>>, <<13, 5>>, <<11, 12>>, <<13, 1>>}}
\* All neighbours are new in every iteration.
Leaps == {PlanOf(Line(20, s), <<19, 18, 19, 17, 16, 15>>, 2, 1, 4, h) :
            s \in {<<19, 18, 17, 16>>, <<17, 18, 16, 15>>}, h \in {"AUTO", "HASH"}}
\* Two parents at a time.
Wide  == {PlanOf(Line(14, s), <<13, 12, 11, 13, 10, 12, 13>>, 3, 2, 4, "AUTO") :
            s \in {<<13, 12>>, <<12, 9>>}}

\* The filter lets some nodes pass.
Filter(p, allowed) == [p EXCEPT !.filtered = TRUE, !.allowed = allowed]
Least(p, n)        == [p EXCEPT !.min_iterations = n]
Radix(p)           == [p EXCEPT !.bitonic = FALSE]
Filters == {Filter(p, a) : p \in Walks, a \in {{1, 3, 5, 6, 9, 11}, {0, 2, 13}}}

SomeFours == {Filter(p, a) : p \in {p \in Fours : p.itopk_size = 2}, a \in {{0, 2}, {1, 3}}}

All == Fours \union Walks \union Leaps \union Wide
         \union {Least(p, 3) : p \in Walks} \union {Radix(p) : p \in Walks}
         \union Filters \union SomeFours
OnlyFilters == Filters
RadixFilters == {Radix(p) : p \in Filters}
=============================================================================
