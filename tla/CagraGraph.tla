------------------------------ MODULE CagraGraph ------------------------------
(***************************************************************************)
(* From a kNN graph to the search graph:                                   *)
(* cpp/src/neighbors/detail/cagra/graph_core.cuh, optimize and             *)
(* mst_optimization with the kernels they launch.                          *)
(*                                                                         *)
(* With guarantee_connectivity, a spanning graph is built first.  A node   *)
(* has degree slots: outgoing edges fill them from the front, incoming     *)
(* ones from the back.  In round k every node tries, in a thread of its    *)
(* own, to add its k-th kNN edge if that joins two clusters; then a kernel *)
(* spreads the smallest label over each cluster, pass after pass.  Then    *)
(* the kNN graph is pruned, the pruned graph is reversed by concurrent     *)
(* threads, and the three are merged row by row.                           *)
(*                                                                         *)
(* The merge reads pruned_graph, a host matrix nothing is written to:      *)
(* pruning writes to the output graph.  Junk are values that the unwritten *)
(* memory may hold.                                                        *)
(***************************************************************************)
EXTENDS Integers, Sequences, SequencesExt, FiniteSets, FiniteSetsExt

CONSTANTS
  GraphSize,   \* graph_size
  Jobs,        \* the calls of optimize: knn, degree, connect
  Offset,      \* ofst, 97
  Junk         \* what a word of memory may hold that was never written

Nodes == 0..GraphSize-1
Empty == GraphSize           \* a slot without an edge

\* Rows of the kNN graph list different nodes, and enough of them.
ASSUME GraphAssumption ==
  /\ GraphSize \in Nat \ {0} /\ Offset \in Nat \ {0} /\ Junk \subseteq Nat
  /\ \A jb \in Jobs :
       /\ jb.connect \in BOOLEAN /\ jb.degree \in Nat \ (IF jb.connect THEN {0, 1} ELSE {0})
       /\ jb.knn \in [Nodes -> Seq(Nodes)]
       /\ \A i, j \in Nodes :
            /\ IsInjective(jb.knn[i]) /\ i \notin Range(jb.knn[i])
            /\ Len(jb.knn[i]) = Len(jb.knn[j]) /\ jb.degree <= Len(jb.knn[i])

VARIABLES
  job,      \* the call
  phase,    \* the kernel or loop that runs
  k,        \* round of mst_optimization, column of the reverse graph
  thread,   \* node -> its thread in the kernel that runs: at, to, slot, place
  cand,     \* candidate_edges
  mst,      \* mst_graph: node -> its slots
  num,      \* outgoing_num_edges and incoming_num_edges
  limit,    \* outgoing_max_edges and incoming_max_edges
  label,    \* label
  size,     \* cluster_size
  changed,  \* flag_update
  stored,   \* mst_graph_num_edges
  out,      \* output_graph
  rev       \* rev_graph and rev_graph_count

tree  == <<cand, mst, num, limit, label, size, changed, stored>>
vars  == <<job, phase, k, thread, tree, out, rev>>

Degree == job.degree
InDegree == Len(job.knn[0])
Slots  == 1..Degree
Row(v) == [s \in Slots |-> v]

Idle == [at |-> "done", to |-> Empty, slot |-> 0, place |-> 0]
\* All threads of a kernel start at the same place, and the next kernel of the
\* stream starts when all of them are done.
Launched(at) == [i \in Nodes |-> [Idle EXCEPT !.at = at, !.slot = 1]]
AllDone == \A i \in Nodes : thread[i].at = "done"
Done(i)  == thread' = [thread EXCEPT ![i] = Idle]

\* get_root_label
Root(i) == LET root[x \in Nodes] == IF label[x] = x THEN x ELSE root[label[x]]
           IN  root[i]

-----------------------------------------------------------------------------
Init ==
  /\ job \in Jobs
  /\ phase = IF job.connect THEN "candidates" ELSE "prune"
  /\ k = 0
  /\ thread = [i \in Nodes |-> Idle]
  /\ cand = [i \in Nodes |-> Empty]
  /\ mst = [i \in Nodes |-> Row(Empty)]
  /\ num = [out |-> [i \in Nodes |-> 0], in |-> [i \in Nodes |-> 0]]
  /\ limit = [out |-> [i \in Nodes |-> 2], in |-> [i \in Nodes |-> Degree - 2]]
  /\ label = [i \in Nodes |-> i]
  /\ size = [i \in Nodes |-> 1]
  /\ changed = FALSE
  /\ stored = [i \in Nodes |-> 0]
  /\ out = [i \in Nodes |-> Row(Empty)]
  /\ rev = [row |-> [i \in Nodes |-> Row(Empty)], count |-> [i \in Nodes |-> 0]]

(* mst_optimization, 1: candidate edges *)

\* The first node from i on, in strides, that is in the main cluster.
InMain(i, main) ==
  LET at(n) == (i + n * Offset) % GraphSize
  IN  at(Min({n \in 0..GraphSize : label[at(n)] = main \/ n = GraphSize}))

Candidates ==
  /\ phase = "candidates"
  /\ cand' =
       IF k < InDegree THEN [i \in Nodes |-> job.knn[i][k + 1]]
       ELSE LET main == Min({i \in Nodes : \A j \in Nodes : size[j] <= size[i]})
            IN  [i \in Nodes |-> IF label[i] = main THEN Empty ELSE InMain(i, main)]
  /\ thread' = Launched("try")
  /\ phase' = "update"
  /\ UNCHANGED <<job, k, mst, num, limit, label, size, changed, stored, out, rev>>

(* 2: kern_mst_opt_update_graph, a thread for each node *)

\* An edge of row j leads to i's cluster.
Joined(i, j) == \E s \in Slots : mst[j][s] # Empty /\ Root(mst[j][s]) = Root(i)

Go(i, at, to, slot, place) ==
  thread' = [thread EXCEPT ![i] = [at |-> at, to |-> to, slot |-> slot, place |-> place]]

\* The direct edge is possible, superfluous, or the place is taken.
Try(i) ==
  LET j == cand[i] IN
  /\ phase = "update" /\ thread[i].at = "try"
  /\ IF num.out[i] >= limit.out[i] \/ j = Empty THEN Done(i)
     ELSE IF Root(i) = Root(j) THEN Done(i)
     ELSE IF num.in[j] >= limit.in[j] THEN Go(i, "alternate", j, 1, 0)
     ELSE IF Joined(i, j) THEN Done(i)
     ELSE Go(i, "add", j, 0, 0)
  /\ UNCHANGED <<job, phase, k, tree, out, rev>>

\* A neighbour l of the candidate instead.  The test for an empty slot in l's row
\* lets graph_size pass (m > graph_size), and the label behind the last one decides.
Alternate(i) ==
  LET s == thread[i].slot
      l == mst[cand[i]][Degree + 1 - s]
  IN
  /\ phase = "update" /\ thread[i].at = "alternate"
  /\ IF s > Degree THEN Done(i)
     ELSE IF l = Empty THEN Go(i, "alternate", cand[i], s + 1, 0)
     ELSE IF Root(l) = Root(i) THEN Done(i)
     ELSE IF num.in[l] >= limit.in[l] THEN Go(i, "alternate", cand[i], s + 1, 0)
     ELSE \/ ~Joined(i, l) /\ Go(i, "add", l, s, 0)
          \/ (Joined(i, l) \/ \E e \in Slots : mst[l][e] = Empty) /\ Done(i)
  /\ UNCHANGED <<job, phase, k, tree, out, rev>>

TakePlaceUnchecked(i) ==                         \* mutant: the old count is not looked at
  LET to == thread[i].to IN
  /\ phase = "update" /\ thread[i].at = "add"
  /\ num' = [num EXCEPT !.in[to] = @ + 1]
  /\ Go(i, "write", to, 0, num.in[to])
  /\ UNCHANGED <<job, phase, k, cand, mst, limit, label, size, changed, stored, out, rev>>

\* atomicAdd: a place in the row of the other node, if it comes in time.
TakePlace(i) ==
  LET to == thread[i].to IN
  /\ phase = "update" /\ thread[i].at = "add"
  /\ num' = [num EXCEPT !.in[to] = @ + 1]
  /\ IF num.in[to] < limit.in[to]
     THEN Go(i, "write", to, 0, num.in[to])
     ELSE Go(i, "alternate", cand[i], thread[i].slot + 1, 0)
  /\ UNCHANGED <<job, phase, k, cand, mst, limit, label, size, changed, stored, out, rev>>

\* Both ends of the edge.
WriteEdge(i) ==
  LET to == thread[i].to IN
  /\ phase = "update" /\ thread[i].at = "write"
  /\ mst' = [mst EXCEPT ![i][num.out[i] + 1] = to, ![to][Degree - thread[i].place] = i]
  /\ num' = [num EXCEPT !.out[i] = @ + 1]
  /\ Done(i)
  /\ UNCHANGED <<job, phase, k, cand, limit, label, size, changed, stored, out, rev>>

\* Thread i at its next edge, from slot s on.
Edge(i, s) ==
  LET more == {r \in s..Degree : mst[i][r] # Empty}
  IN  IF more = {} THEN Idle ELSE [Idle EXCEPT !.at = "look", !.slot = Min(more)]

Updated ==
  /\ phase = "update" /\ AllDone
  /\ phase' = "label" /\ changed' = FALSE
  /\ thread' = [i \in Nodes |-> Edge(i, 1)]
  /\ UNCHANGED <<job, k, cand, mst, num, limit, label, size, stored, out, rev>>

(* 3: kern_mst_opt_labeling, a thread for each node, until no pass changes a label *)

Lower(f, i, v) == IF v < f[i] THEN [f EXCEPT ![i] = v] ELSE f

LookOnly(i) ==                                   \* mutant: the labels are not lowered
  LET s == thread[i].slot
      j == mst[i][s]
  IN
  /\ phase = "label" /\ thread[i].at = "look"
  /\ IF Root(i) = Root(j) THEN thread' = [thread EXCEPT ![i] = Edge(i, s + 1)]
     ELSE Go(i, "join", Root(i), s, Root(j))
  /\ UNCHANGED <<job, phase, k, tree, out, rev>>

\* Both ends' labels are lowered to their roots.
Look(i) ==
  LET s == thread[i].slot
      j == mst[i][s]
  IN
  /\ phase = "label" /\ thread[i].at = "look"
  /\ label' = Lower(Lower(label, i, Root(i)), j, Root(j))
  /\ IF Root(i) = Root(j) THEN thread' = [thread EXCEPT ![i] = Edge(i, s + 1)]
     ELSE Go(i, "join", Root(i), s, Root(j))
  /\ UNCHANGED <<job, phase, k, cand, mst, num, limit, size, changed, stored, out, rev>>

\* atomicCAS: the end with the larger root takes the other root.
Join(i) ==
  LET j  == mst[i][thread[i].slot]
      ri == thread[i].to
      rj == thread[i].place
  IN
  /\ phase = "label" /\ thread[i].at = "join"
  /\ label' = IF ri > rj THEN (IF label[i] = ri THEN [label EXCEPT ![i] = rj] ELSE label)
              ELSE (IF label[j] = rj THEN [label EXCEPT ![j] = ri] ELSE label)
  /\ changed' = TRUE
  /\ thread' = [thread EXCEPT ![i] = Edge(i, thread[i].slot + 1)]
  /\ UNCHANGED <<job, phase, k, cand, mst, num, limit, size, stored, out, rev>>

LabelledOnce ==                                  \* mutant: one pass
  /\ phase = "label" /\ AllDone
  /\ phase' = "adjust" /\ changed' = FALSE
  /\ UNCHANGED <<job, k, thread, cand, mst, num, limit, label, size, stored, out, rev>>

Labelled ==
  /\ phase = "label" /\ AllDone
  /\ IF changed THEN thread' = [i \in Nodes |-> Edge(i, 1)] /\ UNCHANGED phase
     ELSE phase' = "adjust" /\ UNCHANGED thread
  /\ changed' = FALSE
  /\ UNCHANGED <<job, k, cand, mst, num, limit, label, size, stored, out, rev>>

(* 4 and 5: kern_mst_opt_cluster_size, kern_mst_opt_postprocessing *)

\* The incoming count may have run past its limit; a node whose outgoing edges are
\* used up may have one more, at the expense of the incoming ones.
Adjust ==
  LET in == [i \in Nodes |-> Min({num.in[i], limit.in[i]})]
      more == {i \in Nodes : num.out[i] = limit.out[i] /\ num.out[i] + in[i] < Degree}
      roots == {i \in Nodes : Root(i) = i}
  IN
  /\ phase = "adjust"
  /\ size' = [i \in Nodes |->
                IF i \in roots THEN MapThenSumSet(LAMBDA j : size[j], {j \in Nodes : Root(j) = i})
                ELSE 0]
  /\ num' = [num EXCEPT !.in = in]
  /\ limit' = [out |-> [i \in Nodes |-> limit.out[i] + (IF i \in more THEN 1 ELSE 0)],
               in  |-> [i \in Nodes |-> limit.in[i] - (IF i \in more THEN 1 ELSE 0)]]
  /\ IF Cardinality(roots) = 1 \/ k = InDegree
     THEN phase' = "store" /\ k' = 0
     ELSE phase' = "candidates" /\ k' = k + 1
  /\ UNCHANGED <<job, thread, cand, mst, label, changed, stored, out, rev>>

\* The edges of the spanning graph, each neighbour once, go to the output graph.
Store ==
  LET first(i) == {s \in Slots : mst[i][s] # Empty /\ \A r \in 1..s-1 : mst[i][r] # mst[i][s]}
      edge(i, n) == mst[i][CHOOSE s \in first(i) : Cardinality({r \in first(i) : r < s}) = n - 1]
  IN
  /\ phase = "store"
  /\ stored' = [i \in Nodes |-> Cardinality(first(i))]
  /\ out' = [i \in Nodes |-> [s \in Slots |-> IF s <= stored'[i] THEN edge(i, s) ELSE out[i][s]]]
  /\ phase' = "prune"
  /\ UNCHANGED <<job, k, thread, cand, mst, num, limit, label, size, changed, rev>>

-----------------------------------------------------------------------------
(* optimize *)

\* kern_prune: the detours i -> D -> B of the edge to B, where D comes before B; the
\* second edge may be any of D's.
Detours(i, b) ==
  Cardinality({d \in (1..b-1) \X (1..InDegree) :
                 job.knn[job.knn[i][d[1]]][d[2]] = job.knn[i][b]})

\* The place of the b-th edge when those with the fewest detours come first, in the
\* order of the kNN graph where equal.
Rank(i, b) ==
  Cardinality({a \in 1..InDegree : \/ Detours(i, a) < Detours(i, b)
                                   \/ Detours(i, a) = Detours(i, b) /\ a < b}) + 1
Pruned(i) == [s \in Slots |-> job.knn[i][CHOOSE b \in 1..InDegree : Rank(i, b) = s]]

Prune ==
  /\ phase = "prune"
  /\ out' = [i \in Nodes |-> Pruned(i)]
  /\ phase' = "reverse" /\ k' = 1 /\ thread' = Launched("add")
  /\ UNCHANGED <<job, tree, rev>>

AddReverseByColumn(i) ==                         \* mutant: a place for each column
  LET dest == out[i][k] IN
  /\ phase = "reverse" /\ thread[i].at = "add"
  /\ rev' = [row   |-> [rev.row EXCEPT ![dest][k] = i],
             count |-> [rev.count EXCEPT ![dest] = @ + 1]]
  /\ Done(i)
  /\ UNCHANGED <<job, phase, k, tree, out>>

\* kern_make_rev_graph, once for each column of the output graph.
AddReverse(i) ==
  LET dest == out[i][k]
      pos  == rev.count[dest]
  IN
  /\ phase = "reverse" /\ thread[i].at = "add"
  /\ rev' = [row   |-> IF pos < Degree THEN [rev.row EXCEPT ![dest][pos + 1] = i] ELSE rev.row,
             count |-> [rev.count EXCEPT ![dest] = pos + 1]]
  /\ Done(i)
  /\ UNCHANGED <<job, phase, k, tree, out>>

\* The places of a row that the reverse edges leave alone.
Protected(i) == Max({stored[i], Degree \div 2})

Reversed ==
  /\ phase = "reverse" /\ AllDone
  /\ IF k < Degree THEN k' = k + 1 /\ thread' = Launched("add") /\ UNCHANGED phase
     ELSE /\ phase' = "merge" /\ UNCHANGED k
          /\ thread' = [i \in Nodes |->
                          IF Protected(i) = Degree THEN Idle
                          ELSE [Idle EXCEPT !.at = "append", !.slot = 1, !.place = stored[i]]]
  /\ UNCHANGED <<job, tree, out, rev>>

\* pos_in_array
Position(row, j) == Min({s \in Slots : row[s] = j} \union {Degree + 1})

\* shift_array: j comes to the place behind the p protected ones, and the place where
\* it was, or the last, is given up.
MovedUp(row, p, j) ==
  SubSeq(row, 1, p) \o <<j>>
    \o SubSeq(RemoveAt(row, Min({Position(row, j), Degree})), p + 1, Degree - 1)

\* The loop over the rows is parallel, and each row its own: the order does not matter.
Turn(i, at) ==
  /\ phase = "merge" /\ thread[i].at = at
  /\ \A h \in 0..i-1 : thread[h].at = "done"

AppendAnyWord(i) ==                              \* mutant: no comparison with graph_size
  LET f == thread[i].slot
      n == thread[i].place
  IN
  /\ Turn(i, "append")
  /\ IF f > Degree \/ n = Degree
     THEN Go(i, "replace", Empty, Min({rev.count[i], Degree}), 0) /\ UNCHANGED out
     ELSE \E j \in Junk :
            IF Position(out[i], j) > n
            THEN /\ out' = [out EXCEPT ![i][n + 1] = j]
                 /\ Go(i, "append", Empty, f + 1, n + 1)
            ELSE Go(i, "append", Empty, f + 1, n) /\ UNCHANGED out
  /\ UNCHANGED <<job, phase, k, tree, rev>>

\* The next word of pruned_graph, whatever it is, becomes the next edge if it is a node
\* the row does not hold before that place.
AppendPruned(i) ==
  LET f == thread[i].slot
      n == thread[i].place
  IN
  /\ Turn(i, "append")
  /\ IF f > Degree \/ n = Degree
     THEN Go(i, "replace", Empty, Min({rev.count[i], Degree}), 0) /\ UNCHANGED out
     ELSE \E j \in Junk :
            IF j \in Nodes /\ Position(out[i], j) > n
            THEN /\ out' = [out EXCEPT ![i][n + 1] = j]
                 /\ Go(i, "append", Empty, f + 1, n + 1)
            ELSE Go(i, "append", Empty, f + 1, n) /\ UNCHANGED out
  /\ UNCHANGED <<job, phase, k, tree, rev>>

\* The reverse edges, the last first, unless the row has them among the protected.
ReplaceByReverse(i) ==
  LET r == thread[i].slot
      j == rev.row[i][r]
  IN
  /\ Turn(i, "replace")
  /\ IF r = 0 THEN Done(i) /\ UNCHANGED out
     ELSE /\ Go(i, "replace", Empty, r - 1, 0)
          /\ out' = IF j = Empty \/ Position(out[i], j) <= Protected(i) THEN out
                    ELSE [out EXCEPT ![i] = MovedUp(@, Protected(i), j)]
  /\ UNCHANGED <<job, phase, k, tree, rev>>

Merged ==
  /\ phase = "merge" /\ AllDone
  /\ phase' = "done"
  /\ UNCHANGED <<job, k, thread, tree, out, rev>>

-----------------------------------------------------------------------------
Thread(i) ==
  \/ Try(i) \/ Alternate(i) \/ TakePlace(i) \/ WriteEdge(i) \/ Look(i) \/ Join(i)
  \/ AddReverse(i) \/ AppendPruned(i) \/ ReplaceByReverse(i)
Host == Candidates \/ Updated \/ Labelled \/ Adjust \/ Store \/ Prune \/ Reversed \/ Merged

Next == Host \/ \E i \in Nodes : Thread(i)

\* All threads of a launched kernel run, and the host goes on.
Spec == Init /\ [][Next]_vars /\ WF_vars(Host) /\ \A i \in Nodes : WF_vars(Thread(i))

-----------------------------------------------------------------------------
\* The types; after pruning, every edge of the output leads to a node.
TypeOK ==
  /\ job \in Jobs /\ changed \in BOOLEAN
  /\ phase \in {"candidates", "update", "label", "adjust", "store", "prune", "reverse",
                "merge", "done"}
  /\ \A i \in Nodes :
       /\ thread[i].at \in {"try", "alternate", "add", "write", "look", "join",
                           "append", "replace", "done"}
       /\ cand[i] \in Nodes \union {Empty}
       /\ mst[i] \in [Slots -> Nodes \union {Empty}]
       /\ num.out[i] \in Nat /\ num.in[i] \in Nat
       /\ limit.out[i] + limit.in[i] = Degree
       /\ label[i] \in 0..i
       /\ stored[i] \in 0..Degree
       /\ rev.row[i] \in [Slots -> Nodes \union {Empty}]
       /\ phase \in {"reverse", "merge", "done"} => out[i] \in [Slots -> Nodes]

Holding(row, from, to, j) == {s \in from..to : row[s] = j}

\* Whatever the threads of the update kernel do at the same time, both ends of each
\* edge are written and no slot is written twice or left out: outgoing edges at the
\* front of row i, incoming ones at its back, and nothing between
\* (kern_mst_opt_update_graph, kern_mst_opt_postprocessing; "total_outgoing_edges ==
\* total_incoming_edges").
EdgesAgree ==
  phase \in {"adjust", "store"} =>
    \A i \in Nodes :
      LET in(j) == Min({num.in[j], limit.in[j]}) IN
      /\ num.out[i] + in(i) <= Degree
      /\ \A j \in Nodes :
           Cardinality(Holding(mst[i], 1, num.out[i], j))
             = Cardinality(Holding(mst[j], Degree - in(j) + 1, Degree, i))
      /\ \A s \in Slots : mst[i][s] = Empty <=> s \in num.out[i] + 1 .. Degree - in(i)

\* What the spanning graph connects with i: all that no set of nodes without an edge
\* to the outside separates from it.
Closed   == {T \in SUBSET Nodes : \A j \in T : Range(mst[j]) \subseteq T \union {Empty}}
Reach(i) == {j \in Nodes : \A T \in Closed : i \in T => j \in T}

\* When a pass of the labelling kernel reports no change, the labels are those of
\* the connected parts: its threads compare and swap labels that others change
\* (kern_mst_opt_labeling).
LabelsAreClusters ==
  phase = "adjust" => \A i \in Nodes : label[i] = Min(Reach(i))

\* The reverse graph has every edge into a node, in some order, up to the degree
\* (kern_make_rev_graph).
ReverseComplete ==
  phase = "reverse" /\ k = Degree /\ AllDone =>
    \A j \in Nodes :
      LET from == {i \in Nodes : Contains(out[i], j)}
          kept == SubSeq(rev.row[j], 1, Min({rev.count[j], Degree}))
      IN  /\ rev.count[j] = Cardinality(from)
          /\ Range(kept) \subseteq from /\ IsInjective(kept)

\* optimize returns: the labelling passes come to an end (while (flag_update)).
Finishes == <>(phase = "done")

\* "Create approximate MSTs with kNN graphs as input to guarantee connectivity of
\* search graphs" (mst_optimization).
Connected == phase = "store" => \A i \in Nodes : Reach(i) = Nodes

\* "Create search graphs from MST and pruned and reverse graphs" (optimize): no
\* edge has another origin.
OnlyOwnEdges ==
  phase = "done" =>
    \A i \in Nodes :
      Range(out[i]) \subseteq Range(job.knn[i]) \union {j \in Nodes : Contains(job.knn[j], i)}
                                \union Range(mst[i])
=============================================================================
