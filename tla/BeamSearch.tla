------------------------------ MODULE BeamSearch ------------------------------
(***************************************************************************)
(* What a CAGRA search without a filter promises, for CagraSearch to       *)
(* implement.  A beam holds the nearest nodes met so far.  A step expands  *)
(* the nearest of them that have not been expanded.  It ends when all have *)
(* been, or after so many steps.  There is no memory of visited nodes: the *)
(* hash tables of the implementation may not be seen in its results.       *)
(*                                                                         *)
(* Nodes are numbered by their distance to the query.                      *)
(***************************************************************************)
EXTENDS Integers, FiniteSets, Functions

VARIABLES
  graph,     \* node -> the sequence of its neighbours
  seeds,     \* nodes to start from
  size,      \* of the beam
  width,     \* nodes to expand in a step
  limit,     \* of the number of steps
  beam,      \* the nearest nodes
  expanded,  \* those of the beam that have been expanded
  steps,
  state      \* "new", "running" or "over"

given == <<graph, seeds, size, width, limit>>
vars  == <<given, beam, expanded, steps, state>>

Nearest(S, n) == {x \in S : Cardinality({y \in S : y < x}) < n}
Neighbours(P) == UNION {Range(graph[p]) : p \in P}

Init == beam = {} /\ expanded = {} /\ steps = 0 /\ state = "new"

Start ==
  /\ state = "new" /\ state' = "running"
  /\ beam' = Nearest(seeds, size)
  /\ UNCHANGED <<given, expanded, steps>>

Expand ==
  /\ state = "running" /\ steps + 1 < limit
  /\ LET parents == Nearest(beam \ expanded, width)
     IN  /\ beam' = Nearest(beam \union Neighbours(parents), size)
         /\ expanded' = (expanded \union parents) \intersect beam'
  /\ steps' = steps + 1
  /\ UNCHANGED <<given, state>>

Finish ==
  /\ state = "running" /\ state' = "over"
  /\ beam = expanded \/ steps + 1 = limit
  /\ UNCHANGED <<given, beam, expanded, steps>>

Spec == Init /\ [][Start \/ Expand \/ Finish]_vars
=============================================================================
