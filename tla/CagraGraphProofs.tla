-------------------------- MODULE CagraGraphProofs --------------------------
(***************************************************************************)
(* Theorems about CagraGraph: its types; that the edges of the spanning    *)
(* graph are written at both ends; that the labels are those of the        *)
(* connected parts when a pass reports no change; and that the reverse     *)
(* graph is complete.  That the passes come to an end is left to TLC.      *)
(***************************************************************************)
EXTENDS CagraGraph, FiniteSetTheorems, SequenceTheorems, TLAPS

-----------------------------------------------------------------------------
(* The inductive invariant.                                                *)

Ends       == Nodes \union {Empty}
MstPhases  == {"candidates", "update", "label", "adjust", "store"}
Places     == {"try", "alternate", "add", "write", "look", "join", "append", "replace", "done"}
Threads    == [at : Places, to : Ends, slot : Nat, place : Nat]

Shape ==
  /\ job \in Jobs /\ k \in Nat /\ changed \in BOOLEAN
  /\ phase \in MstPhases \union {"prune", "reverse", "merge", "done"}
  /\ thread \in [Nodes -> Threads]
  /\ cand \in [Nodes -> Ends]
  /\ mst \in [Nodes -> [Slots -> Ends]]
  /\ num \in [out : [Nodes -> Nat], in : [Nodes -> Nat]]
  /\ limit \in [out : [Nodes -> Nat], in : [Nodes -> Int]]
  /\ label \in [Nodes -> Nodes] /\ \A i \in Nodes : label[i] <= i
  /\ stored \in [Nodes -> 0..Degree]
  /\ rev \in [row : [Nodes -> [Slots -> Ends]], count : [Nodes -> Nat]]

\* Outgoing edges and incoming ones have slots of their own.
LimitsInv ==
  /\ phase \in MstPhases => job.connect
  /\ \A i \in Nodes : limit.out[i] + limit.in[i] = Degree
  /\ job.connect => \A i \in Nodes : limit.in[i] >= 0 /\ num.out[i] <= limit.out[i]

\* What thread i of the kernel that updates the graph has found out.
Found(i) ==
  /\ thread[i].at \in {"try", "alternate", "add", "write", "done"}
  /\ thread[i].at \in {"alternate", "add", "write"} =>
       cand[i] \in Nodes /\ num.out[i] < limit.out[i]
  /\ thread[i].at = "alternate" => thread[i].slot \in 1..Degree + 1
  /\ thread[i].at \in {"add", "write"} => thread[i].to \in Nodes \ {i} /\ thread[i].slot <= Degree
  /\ thread[i].at = "write" =>
       /\ thread[i].place < limit.in[thread[i].to] /\ thread[i].place < num.in[thread[i].to]
       /\ mst[thread[i].to][Degree - thread[i].place] = Empty
       /\ \A h \in Nodes \ {i} : thread[h].at = "write" /\ thread[h].to = thread[i].to =>
            thread[h].place # thread[i].place

UpdateInv == phase = "update" => \A i \in Nodes : Found(i)

In(i)        == Min({num.in[i], limit.in[i]})
OutTo(i, j)  == Holding(mst[i], 1, num.out[i], j)
InFrom(j, i) == Holding(mst[j], Degree - In(j) + 1, Degree, i)
\* The slot of row i that a thread is about to write.
Awaited(i, s) ==
  phase = "update" /\ \E h \in Nodes :
    thread[h].at = "write" /\ thread[h].to = i /\ Degree - thread[h].place = s

SlotsInv ==
  job.connect => \A i \in Nodes, s \in Slots :
    /\ s <= num.out[i] => mst[i][s] # Empty
    /\ num.out[i] < s /\ s <= Degree - In(i) => mst[i][s] = Empty
    /\ Degree - In(i) < s /\ mst[i][s] = Empty => Awaited(i, s)

EndsInv ==
  job.connect => \A i, j \in Nodes : Cardinality(OutTo(i, j)) = Cardinality(InFrom(j, i))

EdgesInv == Shape /\ LimitsInv /\ UpdateInv /\ SlotsInv /\ EndsInv

\* Both ends of an edge have the label of a root.
Settled(i, j) == label[i] = label[j] /\ label[label[i]] = label[i]
\* Thread i has been at the edge in slot s.
Past(i, s)    == thread[i].at = "done" \/ s < thread[i].slot

\* Thread i of the labelling kernel is at an edge, and has found roots in the same part.
OnEdge(i) ==
  /\ thread[i].at \in {"look", "join", "done"}
  /\ thread[i].at # "done" => thread[i].slot \in Slots /\ mst[i][thread[i].slot] # Empty
  /\ thread[i].at = "join" =>
       /\ thread[i].to \in Nodes /\ thread[i].place \in Nodes
       /\ \A T \in Closed : i \in T => thread[i].to \in T /\ thread[i].place \in T

LabelsInv ==
  /\ \A T \in Closed : \A i \in T : label[i] \in T
  /\ phase = "label" => \A i \in Nodes : OnEdge(i)
  /\ phase = "label" /\ ~changed => \A i \in Nodes, s \in Slots :
       mst[i][s] # Empty /\ Past(i, s) => Settled(i, mst[i][s])
  /\ phase = "adjust" => \A i \in Nodes, s \in Slots :
       mst[i][s] # Empty => Settled(i, mst[i][s])

\* The nodes whose edge into j has been reversed.
Into(j) ==
  {i \in Nodes : \E c \in Slots : out[i][c] = j /\ (c < k \/ (c = k /\ thread[i].at = "done"))}

\* Their number, and their places in j's row of the reverse graph.
IntoReversed(j) ==
  /\ rev.count[j] = Cardinality(Into(j))
  /\ \A p \in Slots : p <= rev.count[j] => rev.row[j][p] \in Into(j)
  /\ \A p, q \in Slots : p <= rev.count[j] /\ q <= rev.count[j] /\ p # q =>
       rev.row[j][p] # rev.row[j][q]

ReverseInv ==
  /\ phase \in MstPhases \union {"prune"} => \A j \in Nodes : rev.count[j] = 0
  /\ phase = "reverse" =>
       /\ k \in Slots
       /\ \A i \in Nodes : thread[i].at \in {"add", "done"} /\ IsInjective(out[i])
       /\ \A j \in Nodes : IntoReversed(j)

\* The thread that merges row i writes within the row.
MergedRow(i) ==
  /\ thread[i].at \in {"append", "replace", "done"}
  /\ thread[i].at # "done" => Protected(i) < Degree
  /\ thread[i].at = "append" => thread[i].place <= Degree
  /\ thread[i].at = "replace" => thread[i].slot <= Degree

\* After pruning every edge leads to a node, whatever the merge finds in memory.
OutputInv ==
  /\ phase \in {"reverse", "merge", "done"} => out \in [Nodes -> [Slots -> Nodes]]
  /\ phase = "merge" => \A i \in Nodes : MergedRow(i)

GraphInv == EdgesInv /\ LabelsInv /\ ReverseInv /\ OutputInv

-----------------------------------------------------------------------------
(* Sets of numbers.                                                        *)

\* A set of naturals has a least one.
LEMMA LeastOf ==
  ASSUME NEW T, T \subseteq Nat, T # {}
  PROVE  \E m \in T : \A n \in T : m <= n
<1>1. PICK m \in T : \A n \in T : <<n, m>> \notin OpToRel(<, Nat)
  BY WFMin, NatLessThanWellFounded, Zenon
<1>2. ASSUME NEW n \in T
      PROVE  ~(n < m)
  BY <1>1, Zenon DEF OpToRel
<1>3. \A n \in T : m <= n
  BY <1>2
<1> QED BY <1>3

LEMMA MinOfSet ==
  ASSUME NEW T, T \subseteq Nat, T # {}
  PROVE  Min(T) \in T /\ \A n \in T : Min(T) <= n
BY LeastOf DEF Min

LEMMA MinOfTwo ==
  ASSUME NEW a \in Int, NEW b \in Int
  PROVE  Min({a, b}) = IF a <= b THEN a ELSE b
<1>1. \E m \in {a, b} : \A n \in {a, b} : m <= n
  OBVIOUS
<1>2. Min({a, b}) \in {a, b} /\ \A n \in {a, b} : Min({a, b}) <= n
  BY <1>1 DEF Min
<1> QED BY <1>2

LEMMA MaxOfTwo ==
  ASSUME NEW a \in Int, NEW b \in Int
  PROVE  Max({a, b}) = IF a >= b THEN a ELSE b
<1>1. \E m \in {a, b} : \A n \in {a, b} : m >= n
  OBVIOUS
<1>2. Max({a, b}) \in {a, b} /\ \A n \in {a, b} : Max({a, b}) >= n
  BY <1>1 DEF Max
<1> QED BY <1>2

-----------------------------------------------------------------------------
(* Roots.                                                                  *)

LEMMA GraphFacts ==
  /\ GraphSize \in Nat /\ GraphSize > 0 /\ Offset \in Nat /\ Nodes \subseteq Nat /\ 0 \in Nodes
  /\ Empty \notin Nodes /\ Empty \in Nat /\ Junk \subseteq Nat /\ IsFiniteSet(Nodes)
  /\ \A i \in Nodes : i < GraphSize
BY GraphAssumption, FS_Interval DEF Nodes, Empty

\* Labels lead to smaller ones, so that the way to the root ends.
Lowering(f) == f \in [Nodes -> Nodes] /\ \A x \in Nodes : f[x] <= x

RootOf(f) == CHOOSE g : g = [x \in Nodes |-> IF f[x] = x THEN x ELSE g[f[x]]]

LEMMA RootExists ==
  ASSUME NEW f, Lowering(f)
  PROVE  RootOf(f) = [x \in Nodes |-> IF f[x] = x THEN x ELSE RootOf(f)[f[x]]]
<1> DEFINE Upto(n, g) == g = [x \in 0..n-1 |-> IF f[x] = x THEN x ELSE g[f[x]]]
           Missing == {n \in 0..GraphSize : ~ \E g : Upto(n, g)}
<1>1. Missing = {}
  <2>1. SUFFICES ASSUME Missing # {} PROVE FALSE
    OBVIOUS
  <2>2. PICK n \in Missing : \A m \in Missing : n <= m
    <3>1. Missing \subseteq Nat
      BY GraphFacts
    <3> HIDE DEF Missing
    <3> QED BY <3>1, <2>1, LeastOf
  <2>3. n # 0
    <3>1. SUFFICES ASSUME n = 0 PROVE FALSE
      OBVIOUS
    <3> DEFINE g == [x \in 0..(0-1) |-> 0]
    <3>2. Upto(0, g)
      OBVIOUS
    <3> QED BY <3>1, <3>2
  <2>4. PICK g : Upto(n - 1, g)
    <3>1. n \in Nat /\ n - 1 \in 0..GraphSize /\ n - 1 < n
      BY <2>3, GraphFacts
    <3>2. n - 1 \notin Missing
      <4> HIDE DEF Missing
      <4> QED BY <3>1, <2>2
    <3> QED BY <3>1, <3>2, Zenon
  <2> DEFINE v == IF f[n - 1] = n - 1 THEN n - 1 ELSE g[f[n - 1]]
             h == [x \in 0..n-1 |-> IF x = n - 1 THEN v ELSE g[x]]
  <2>5. n \in Nat /\ n - 1 \in Nodes /\ \A x \in 0..n-1 : x \in Nodes
    BY <2>3, GraphFacts DEF Nodes
  <2>6. \A x \in 0..n-1 : h[x] = IF f[x] = x THEN x ELSE h[f[x]]
    <3> TAKE x \in 0..n-1
    <3>1. x \in Nodes /\ f[x] \in Nat /\ f[x] <= x /\ f[x] \in 0..n-1
      <4> HIDE DEF h, Missing
      <4>1. x \in Nodes /\ f[x] \in Nodes /\ f[x] <= x
        BY <2>5 DEF Lowering
      <4>2. f[x] \in Nat /\ x \in Nat
        BY <4>1, GraphFacts
      <4>3. n \in Nat
        BY <2>5
      <4>4. x <= n - 1
        OBVIOUS
      <4> QED BY <4>1, <4>2, <4>3, <4>4
    <3>2. CASE x = n - 1
      BY <3>1, <3>2, <2>5
    <3>3. CASE x # n - 1
      <4>1. x \in 0..(n-1)-1 /\ f[x] # n - 1
        BY <3>1, <3>3, <2>5
      <4>2. g[x] = IF f[x] = x THEN x ELSE g[f[x]]
        BY <4>1, <2>4, Zenon
      <4>3. h[x] = g[x] /\ h[f[x]] = g[f[x]]
        BY <4>1, <3>1, <3>3, Zenon
      <4> QED BY <4>2, <4>3
    <3> QED BY <3>2, <3>3
  <2>7. h = [x \in 0..n-1 |-> h[x]]
    BY Zenon
  <2> HIDE DEF h
  <2>8. Upto(n, h)
    BY <2>6, <2>7, Zenon
  <2> HIDE DEF Upto
  <2> QED BY <2>8
<1>2. \E g : Upto(GraphSize, g)
  <2> HIDE DEF Upto
  <2>1. GraphSize \in 0..GraphSize
    BY GraphFacts
  <2> QED BY <1>1, <2>1
<1>3. \E g : g = [x \in Nodes |-> IF f[x] = x THEN x ELSE g[f[x]]]
  BY <1>2 DEF Nodes
<1> QED BY <1>3, Zenon DEF RootOf

LEMMA RootIs ==
  ASSUME NEW f, Lowering(f), NEW i \in Nodes
  PROVE  RootOf(f)[i] = IF f[i] = i THEN i ELSE RootOf(f)[f[i]]
<1> DEFINE R == RootOf(f)
<1>1. R = [x \in Nodes |-> IF f[x] = x THEN x ELSE R[f[x]]]
  BY RootExists
<1> HIDE DEF R
<1>2. R[i] = IF f[i] = i THEN i ELSE R[f[i]]
  BY <1>1, Zenon
<1> QED BY <1>2 DEF R

LEMMA RootFacts ==
  ASSUME NEW f, Lowering(f), NEW i \in Nodes
  PROVE  /\ RootOf(f)[i] \in Nodes /\ RootOf(f)[i] <= f[i]
         /\ f[RootOf(f)[i]] = RootOf(f)[i]
         /\ (f[i] = i => RootOf(f)[i] = i)
         /\ RootOf(f)[f[i]] = RootOf(f)[i]
         /\ \A T : (\A x \in T : f[x] \in T) /\ i \in T => RootOf(f)[i] \in T
<1> DEFINE R == RootOf(f)
           Good(x) == /\ R[x] \in Nodes /\ R[x] <= f[x] /\ f[R[x]] = R[x]
                      /\ \A T : (\A y \in T : f[y] \in T) /\ x \in T => R[x] \in T
           Bad == {x \in Nodes : ~Good(x)}
<1>1. \A x \in Nodes : f[x] \in Nodes /\ f[x] <= x /\ R[x] = IF f[x] = x THEN x ELSE R[f[x]]
  BY RootIs DEF Lowering
<1> HIDE DEF R
<1>2. Bad = {}
  <2>1. SUFFICES ASSUME Bad # {} PROVE FALSE
    OBVIOUS
  <2>2. PICK x \in Bad : \A y \in Bad : x <= y
    <3>1. Bad \subseteq Nat
      BY GraphFacts
    <3> HIDE DEF Bad
    <3> QED BY <3>1, <2>1, LeastOf
  <2>3. x \in Nodes /\ ~Good(x)
    OBVIOUS
  <2>4. CASE f[x] = x
    <3>1. R[x] = x
      BY <1>1, <2>3, <2>4
    <3>2. x <= x
      BY <2>3, GraphFacts
    <3> QED BY <3>1, <3>2, <2>3, <2>4
  <2>5. CASE f[x] # x
    <3>1. R[x] = R[f[x]] /\ f[x] \in Nodes /\ f[x] < x
      <4>1. f[x] \in Nat /\ x \in Nat /\ f[x] <= x
        BY <1>1, <2>3, GraphFacts
      <4> QED BY <4>1, <1>1, <2>3, <2>5
    <3>2. Good(f[x])
      <4>1. f[x] \notin Bad
        <5> HIDE DEF Bad
        <5>1. f[x] \in Nat /\ x \in Nat
          BY <3>1, <2>3, GraphFacts
        <5> QED BY <3>1, <2>2, <5>1
      <4> QED BY <4>1, <3>1
    <3>3. R[x] \in Nodes /\ f[R[x]] = R[x]
      BY <3>1, <3>2
    <3>4. R[x] <= f[x]
      <4>1. R[f[x]] <= f[f[x]] /\ f[f[x]] <= f[x] /\ f[f[x]] \in Nodes /\ R[f[x]] \in Nodes
        BY <3>1, <3>2, <1>1
      <4>2. R[f[x]] \in Nat /\ f[f[x]] \in Nat /\ f[x] \in Nat
        BY <4>1, <3>1, GraphFacts
      <4> QED BY <4>1, <4>2, <3>1
    <3>5. ASSUME NEW T, \A y \in T : f[y] \in T, x \in T PROVE R[x] \in T
      BY <3>5, <3>1, <3>2
    <3> QED BY <3>3, <3>4, <3>5, <2>3
  <2> QED BY <2>4, <2>5
<1>3. Good(i)
  BY <1>2
<1>4. f[i] = i => R[i] = i
  BY <1>1
<1>5. R[f[i]] = R[i]
  <2>1. CASE f[i] = i
    BY <2>1
  <2>2. CASE f[i] # i
    BY <2>2, <1>1
  <2> QED BY <2>1, <2>2
<1> QED BY <1>3, <1>4, <1>5 DEF R

LEMMA RootLabel ==
  ASSUME NEW i
  PROVE  Root(i) = RootOf(label)[i]
BY DEF Root, RootOf

-----------------------------------------------------------------------------
(* Types.                                                                  *)

LEMMA JobFacts ==
  ASSUME job \in Jobs
  PROVE  /\ Degree \in Nat /\ Degree > 0 /\ job.connect \in BOOLEAN
         /\ (job.connect => Degree >= 2)
         /\ InDegree \in Nat /\ Degree <= InDegree
         /\ \A i \in Nodes : /\ job.knn[i] \in Seq(Nodes) /\ Len(job.knn[i]) = InDegree
                            /\ IsInjective(job.knn[i]) /\ i \notin Range(job.knn[i])
<1>1. \A i, j \in Nodes :
        /\ job.knn[i] \in Seq(Nodes) /\ Len(job.knn[i]) = Len(job.knn[j])
        /\ IsInjective(job.knn[i]) /\ i \notin Range(job.knn[i]) /\ job.degree <= Len(job.knn[i])
  BY GraphAssumption
<1>2. job.connect \in BOOLEAN /\ job.degree \in Nat \ (IF job.connect THEN {0, 1} ELSE {0})
  BY GraphAssumption
<1>3. Degree \in Nat /\ Degree > 0 /\ (job.connect => Degree >= 2)
  BY <1>2 DEF Degree
<1>4. \A i \in Nodes : Len(job.knn[i]) = InDegree
  BY <1>1, GraphFacts DEF InDegree
<1>5. InDegree \in Nat /\ Degree <= InDegree
  BY <1>1, <1>4, GraphFacts DEF Degree
<1> QED BY <1>1, <1>2, <1>3, <1>4, <1>5

\* An entry of a row of the kNN graph.
LEMMA NeighbourType ==
  ASSUME job \in Jobs, NEW i \in Nodes, NEW n \in 1..InDegree
  PROVE  job.knn[i][n] \in Nodes
BY JobFacts

LEMMA JobSame ==
  ASSUME [Next]_vars
  PROVE  job' = job /\ Degree' = Degree /\ Slots' = Slots /\ InDegree' = InDegree
<1>1. job' = job
  BY DEF Next, Host, Thread, vars, Candidates, Updated, Labelled, Adjust, Store, Prune,
    Reversed, Merged, Try, Alternate, TakePlace, WriteEdge, Look, Join, AddReverse,
    AppendPruned, ReplaceByReverse
<1> QED BY <1>1 DEF Degree, Slots, InDegree

LEMMA InMainType ==
  ASSUME NEW i \in Nodes, NEW main
  PROVE  InMain(i, main) \in Nodes
<1> DEFINE at(n) == (i + n * Offset) % GraphSize
           T == {n \in 0..GraphSize : label[at(n)] = main \/ n = GraphSize}
<1>1. Min(T) \in Nat
  <2>1. T \subseteq Nat /\ T # {}
    <3>1. GraphSize \in T
      BY GraphFacts
    <3>2. T \subseteq 0..GraphSize
      OBVIOUS
    <3> HIDE DEF T
    <3>3. 0..GraphSize \subseteq Nat
      BY GraphFacts
    <3> QED BY <3>1, <3>2, <3>3
  <2> HIDE DEF T
  <2>2. Min(T) \in T
    BY <2>1, MinOfSet
  <2> QED BY <2>1, <2>2
<1>2. \A n \in Nat : at(n) \in Nodes
  <2> TAKE n \in Nat
  <2>1. i \in Nat /\ Offset \in Nat /\ GraphSize \in Nat /\ GraphSize > 0
    BY GraphFacts
  <2>2. n * Offset \in Nat
    BY <2>1
  <2>3. i + n * Offset \in Nat
    BY <2>1, <2>2
  <2> HIDE DEF at
  <2>4. \A a \in Nat : a % GraphSize \in 0..GraphSize-1
    BY <2>1
  <2> QED BY <2>3, <2>4 DEF Nodes, at
<1>3. InMain(i, main) = at(Min(T))
  BY Zenon DEF InMain
<1> HIDE DEF at, T
<1> QED BY <1>1, <1>2, <1>3

LEMMA LoweringLabel ==
  ASSUME Shape
  PROVE  /\ Lowering(label)
         /\ \A i \in Nodes : Root(i) \in Nodes /\ Root(i) <= label[i] /\ Root(i) <= i
<1>1. Lowering(label)
  BY DEF Shape, Lowering
<1>2. ASSUME NEW i \in Nodes
      PROVE  Root(i) \in Nodes /\ Root(i) <= label[i] /\ Root(i) <= i
  <2>1. Root(i) \in Nodes /\ Root(i) <= label[i] /\ label[i] <= i /\ label[i] \in Nodes
    BY <1>1, RootFacts, RootLabel DEF Shape
  <2>2. Root(i) \in Nat /\ label[i] \in Nat /\ i \in Nat
    BY <2>1, GraphFacts
  <2> QED BY <2>1, <2>2
<1> QED BY <1>1, <1>2

LEMMA LaunchedType ==
  ASSUME NEW at \in Places
  PROVE  Launched(at) \in [Nodes -> Threads] /\ Idle \in Threads
<1>1. Idle \in Threads
  BY DEF Idle, Threads, Places, Ends
<1>2. [Idle EXCEPT !.at = at, !.slot = 1] \in Threads
  BY DEF Idle, Threads, Places, Ends
<1> QED BY <1>1, <1>2 DEF Launched

LEMMA GoType ==
  ASSUME Shape, NEW i \in Nodes, NEW at \in Places, NEW to \in Ends, NEW slot \in Nat,
         NEW place \in Nat, Go(i, at, to, slot, place)
  PROVE  /\ thread' \in [Nodes -> Threads]
         /\ thread'[i] = [at |-> at, to |-> to, slot |-> slot, place |-> place]
         /\ \A h \in Nodes \ {i} : thread'[h] = thread[h]
<1>1. [at |-> at, to |-> to, slot |-> slot, place |-> place] \in Threads
  BY DEF Threads
<1> QED BY <1>1 DEF Go, Shape

LEMMA DoneType ==
  ASSUME Shape, NEW i \in Nodes, Done(i)
  PROVE  /\ thread' \in [Nodes -> Threads] /\ thread'[i] = Idle
         /\ \A h \in Nodes \ {i} : thread'[h] = thread[h]
<1>1. Idle \in Threads
  BY DEF Idle, Threads, Places, Ends
<1> QED BY <1>1 DEF Done, Shape

\* A thread that goes on in its row.
LEMMA EdgeType ==
  ASSUME job \in Jobs, NEW i, NEW s \in Nat \ {0}
  PROVE  /\ Edge(i, s) \in Threads
         /\ Edge(i, s).at \in {"look", "done"}
         /\ (Edge(i, s).at = "look" =>
              /\ Edge(i, s).slot \in Slots /\ s <= Edge(i, s).slot
              /\ mst[i][Edge(i, s).slot] # Empty
              /\ \A r \in s..Edge(i, s).slot - 1 : mst[i][r] = Empty)
         /\ (Edge(i, s).at = "done" => \A r \in s..Degree : mst[i][r] = Empty)
<1> DEFINE more == {r \in s..Degree : mst[i][r] # Empty}
<1>1. Degree \in Nat /\ more \subseteq Nat
  BY JobFacts
<1>2. Edge(i, s) = IF more = {} THEN Idle ELSE [Idle EXCEPT !.at = "look", !.slot = Min(more)]
  BY DEF Edge
<1>3. CASE more = {}
  BY <1>2, <1>3 DEF Idle, Threads, Places, Ends
<1>4. CASE more # {}
  <2>1. Min(more) \in more /\ \A r \in more : Min(more) <= r
    <3> HIDE DEF more
    <3> QED BY <1>4, <1>1, MinOfSet
  <2> DEFINE m == Min(more)
  <2>2. m \in s..Degree /\ mst[i][m] # Empty /\ m \in Nat
    BY <2>1, <1>1
  <2>3. \A r \in s..Degree : r < m => mst[i][r] = Empty
    <3>1. \A r \in s..Degree : mst[i][r] # Empty => m <= r
      BY <2>1
    <3> HIDE DEF m, more
    <3> QED BY <3>1, <2>2, <1>1
  <2> HIDE DEF m
  <2>4. Edge(i, s) = [at |-> "look", to |-> Empty, slot |-> m, place |-> 0]
    BY <1>2, <1>4 DEF Idle, m
  <2>5. Edge(i, s) \in Threads
    BY <2>4, <2>2 DEF Threads, Places, Ends
  <2>6. m \in Slots /\ s <= m /\ \A r \in s..m-1 : mst[i][r] = Empty
    BY <2>2, <2>3, <1>1 DEF Slots
  <2> QED BY <2>2, <2>4, <2>5, <2>6
<1> QED BY <1>3, <1>4

LEMMA ShapeInit == Init => Shape
<1> SUFFICES ASSUME Init PROVE Shape
  OBVIOUS
<1>1. job \in Jobs /\ k = 0 /\ changed = FALSE /\ phase \in {"candidates", "prune"}
  BY DEF Init
<1>2. Degree \in Nat /\ Degree > 0
  BY <1>1, JobFacts
<1>3. thread \in [Nodes -> Threads] /\ cand \in [Nodes -> Ends]
  BY DEF Init, Idle, Threads, Places, Ends
<1>4. mst \in [Nodes -> [Slots -> Ends]] /\ rev \in [row : [Nodes -> [Slots -> Ends]], count : [Nodes -> Nat]]
  BY DEF Init, Row, Ends
<1>5. num \in [out : [Nodes -> Nat], in : [Nodes -> Nat]]
      /\ limit \in [out : [Nodes -> Nat], in : [Nodes -> Int]]
  BY <1>2 DEF Init
<1>6. label \in [Nodes -> Nodes] /\ \A i \in Nodes : label[i] <= i
  BY GraphFacts DEF Init
<1>7. stored \in [Nodes -> 0..Degree]
  BY <1>2 DEF Init
<1> QED BY <1>1, <1>3, <1>4, <1>5, <1>6, <1>7 DEF Shape, MstPhases

LEMMA LowerType ==
  ASSUME NEW f, Lowering(f), NEW i \in Nodes, NEW v \in Nodes
  PROVE  /\ Lowering(Lower(f, i, v))
         /\ \A x \in Nodes : Lower(f, i, v)[x] = IF x = i /\ v < f[i] THEN v ELSE f[x]
<1>1. f \in [Nodes -> Nodes] /\ f[i] \in Nodes /\ f[i] <= i
  BY DEF Lowering
<1>2. v \in Nat /\ f[i] \in Nat /\ i \in Nat
  BY <1>1, GraphFacts
<1>3. CASE v < f[i]
  <2>1. Lower(f, i, v) = [f EXCEPT ![i] = v]
    BY <1>3 DEF Lower
  <2>2. \A x \in Nodes : Lower(f, i, v)[x] = IF x = i THEN v ELSE f[x]
    BY <2>1, <1>1
  <2>3. Lower(f, i, v) \in [Nodes -> Nodes]
    BY <2>1, <1>1
  <2>4. v <= i
    BY <1>1, <1>2, <1>3
  <2> QED BY <2>2, <2>3, <2>4, <1>3 DEF Lowering
<1>4. CASE ~(v < f[i])
  BY <1>4, <1>1 DEF Lower, Lowering
<1> QED BY <1>3, <1>4

Nums == [out : [Nodes -> Nat], in : [Nodes -> Nat]]

\* The counters after an incoming edge, and after an outgoing one.
LEMMA NumIn ==
  ASSUME NEW n \in Nums, NEW to \in Nodes
  PROVE  LET m == [n EXCEPT !.in[to] = @ + 1] IN
         /\ m \in Nums /\ m.out = n.out
         /\ \A i \in Nodes : m.in[i] = IF i = to THEN n.in[i] + 1 ELSE n.in[i]
<1> DEFINE g == [n.in EXCEPT ![to] = n.in[to] + 1]
<1>1. n.in \in [Nodes -> Nat] /\ n.out \in [Nodes -> Nat]
  BY DEF Nums
<1>2. g \in [Nodes -> Nat] /\ \A i \in Nodes : g[i] = IF i = to THEN n.in[i] + 1 ELSE n.in[i]
  BY <1>1
<1>3. [n EXCEPT !.in[to] = @ + 1] = [n EXCEPT !.in = g]
  OBVIOUS
<1> HIDE DEF g
<1>4. [n EXCEPT !.in = g] = [out |-> n.out, in |-> g]
  BY DEF Nums
<1> QED BY <1>1, <1>2, <1>3, <1>4 DEF Nums

LEMMA NumOut ==
  ASSUME NEW n \in Nums, NEW to \in Nodes
  PROVE  LET m == [n EXCEPT !.out[to] = @ + 1] IN
         /\ m \in Nums /\ m.in = n.in
         /\ \A i \in Nodes : m.out[i] = IF i = to THEN n.out[i] + 1 ELSE n.out[i]
<1> DEFINE g == [n.out EXCEPT ![to] = n.out[to] + 1]
<1>1. n.in \in [Nodes -> Nat] /\ n.out \in [Nodes -> Nat]
  BY DEF Nums
<1>2. g \in [Nodes -> Nat] /\ \A i \in Nodes : g[i] = IF i = to THEN n.out[i] + 1 ELSE n.out[i]
  BY <1>1
<1>3. [n EXCEPT !.out[to] = @ + 1] = [n EXCEPT !.out = g]
  OBVIOUS
<1> HIDE DEF g
<1>4. [n EXCEPT !.out = g] = [out |-> g, in |-> n.in]
  BY DEF Nums
<1> QED BY <1>1, <1>2, <1>3, <1>4 DEF Nums

LEMMA ShapeCandidates == ASSUME Shape, Candidates PROVE Shape'
<1> DEFINE main == Min({i \in Nodes : \A j \in Nodes : size[j] <= size[i]})
<1>1. cand' \in [Nodes -> Ends]
  <2>1. cand' = IF k < InDegree THEN [i \in Nodes |-> job.knn[i][k + 1]]
                ELSE [i \in Nodes |-> IF label[i] = main THEN Empty ELSE InMain(i, main)]
    BY DEF Candidates
  <2> HIDE DEF main
  <2>2. CASE k < InDegree
    <3>1. k + 1 \in 1..InDegree /\ job \in Jobs
      BY <2>2, JobFacts DEF Shape
    <3>2. \A i \in Nodes : job.knn[i][k + 1] \in Nodes
      BY <3>1, NeighbourType
    <3> QED BY <2>1, <2>2, <3>2 DEF Ends
  <2>3. CASE ~(k < InDegree)
    BY <2>1, <2>3, InMainType DEF Ends
  <2> QED BY <2>2, <2>3
<1>2. thread' \in [Nodes -> Threads]
  BY LaunchedType DEF Candidates, Places
<1>3. phase' = "update" /\ UNCHANGED <<job, k, mst, num, limit, label, changed, stored, rev>>
  BY DEF Candidates
<1> QED BY <1>1, <1>2, <1>3 DEF Shape, MstPhases, Degree, Slots

LEMMA ShapeTry == ASSUME Shape, NEW i \in Nodes, Try(i) PROVE Shape'
<1>1. UNCHANGED <<job, phase, k, cand, mst, num, limit, label, changed, stored, rev>>
  BY DEF Try, tree
<1>2. thread' \in [Nodes -> Threads]
  <2>1. cand[i] \in Ends /\ 0 \in Nat /\ 1 \in Nat /\ "alternate" \in Places /\ "add" \in Places
    BY DEF Shape, Places
  <2>2. Done(i) \/ Go(i, "alternate", cand[i], 1, 0) \/ Go(i, "add", cand[i], 0, 0)
    BY DEF Try
  <2> QED BY <2>1, <2>2, DoneType, GoType
<1> QED BY <1>1, <1>2 DEF Shape, Degree, Slots

LEMMA ShapeAlternate ==
  ASSUME Shape, UpdateInv, NEW i \in Nodes, Alternate(i)
  PROVE  Shape'
<1> DEFINE s == thread[i].slot
           l == mst[cand[i]][Degree + 1 - s]
<1>1. UNCHANGED <<job, phase, k, cand, mst, num, limit, label, changed, stored, rev>>
  BY DEF Alternate, tree
<1>2. s \in Nat /\ cand[i] \in Nodes /\ s >= 1 /\ Degree \in Nat
  <2>1. thread[i] \in Threads /\ job \in Jobs
    BY DEF Shape
  <2>2. phase = "update" /\ thread[i].at = "alternate"
    BY DEF Alternate
  <2>3. cand[i] \in Nodes /\ s \in 1..Degree + 1
    BY <2>2 DEF UpdateInv, Found
  <2>4. s \in Nat
    BY <2>1 DEF Threads
  <2>5. Degree \in Nat
    BY <2>1, JobFacts
  <2> QED BY <2>3, <2>4, <2>5
<1>3. thread' \in [Nodes -> Threads]
  <2>1. \/ Done(i)
        \/ Go(i, "alternate", cand[i], s + 1, 0)
        \/ s <= Degree /\ Go(i, "add", l, s, 0)
    <3>1. CASE s > Degree
      BY <3>1 DEF Alternate
    <3>2. CASE ~(s > Degree)
      <4>1. s <= Degree
        BY <3>2, <1>2
      <4> QED BY <4>1, <3>2, Zenon DEF Alternate
    <3> QED BY <3>1, <3>2
  <2>2. s <= Degree => l \in Ends
    <3>1. s <= Degree => Degree + 1 - s \in Slots
      BY <1>2 DEF Slots
    <3> QED BY <3>1, <1>2 DEF Shape
  <2>3. s + 1 \in Nat /\ cand[i] \in Ends
    BY <1>2 DEF Ends
  <2> HIDE DEF s, l
  <2>4. "alternate" \in Places /\ "add" \in Places /\ 0 \in Nat /\ s \in Nat
    BY <1>2 DEF Places
  <2> QED BY <2>1, <2>2, <2>3, <2>4, DoneType, GoType
<1> QED BY <1>1, <1>3 DEF Shape, Degree, Slots

LEMMA ShapeTakePlace ==
  ASSUME Shape, UpdateInv, NEW i \in Nodes, TakePlace(i)
  PROVE  Shape'
<1> DEFINE to == thread[i].to
<1>1. UNCHANGED <<job, phase, k, cand, mst, limit, label, changed, stored, rev>>
  BY DEF TakePlace
<1>2. to \in Nodes /\ num.in[to] \in Nat /\ cand[i] \in Nodes /\ thread[i].slot \in Nat
  BY DEF Shape, TakePlace, UpdateInv, Found, Threads
<1>3. num' \in Nums
  <2>1. num' = [num EXCEPT !.in[to] = @ + 1]
    BY DEF TakePlace
  <2>2. num \in Nums
    BY DEF Shape, Nums
  <2> HIDE DEF to
  <2> QED BY <1>2, <2>1, <2>2, NumIn
<1>4. thread' \in [Nodes -> Threads]
  <2>1. Go(i, "write", to, 0, num.in[to]) \/ Go(i, "alternate", cand[i], thread[i].slot + 1, 0)
    BY DEF TakePlace
  <2>2. to \in Ends /\ cand[i] \in Ends /\ thread[i].slot + 1 \in Nat /\ 0 \in Nat
    BY <1>2 DEF Ends
  <2>3. "write" \in Places /\ "alternate" \in Places
    BY DEF Places
  <2> QED BY <2>1, <2>2, <2>3, <1>2, GoType
<1> QED BY <1>1, <1>3, <1>4 DEF Shape, Nums, Degree, Slots

LEMMA ShapeWriteEdge ==
  ASSUME Shape, UpdateInv, NEW i \in Nodes, WriteEdge(i)
  PROVE  Shape'
<1> DEFINE to == thread[i].to
<1>1. UNCHANGED <<job, phase, k, cand, limit, label, changed, stored, rev>>
  BY DEF WriteEdge
<1>2. to \in Nodes /\ i \in Ends /\ to \in Ends
  BY DEF Shape, WriteEdge, UpdateInv, Found, Ends
<1>3. num' \in Nums
  BY NumOut DEF Shape, Nums, WriteEdge
<1>4. thread' \in [Nodes -> Threads]
  BY DoneType DEF WriteEdge
<1>5. mst' \in [Nodes -> [Slots -> Ends]]
  <2> DEFINE m == [mst EXCEPT ![i][num.out[i] + 1] = to]
  <2>1. m \in [Nodes -> [Slots -> Ends]]
    BY <1>2 DEF Shape
  <2>2. mst' = [m EXCEPT ![to][Degree - thread[i].place] = i]
    BY DEF WriteEdge
  <2> HIDE DEF m
  <2> QED BY <2>1, <2>2, <1>2
<1> QED BY <1>1, <1>3, <1>4, <1>5 DEF Shape, Nums, Degree, Slots

LEMMA ShapeUpdated == ASSUME Shape, Updated PROVE Shape'
<1>1. UNCHANGED <<job, k, cand, mst, num, limit, label, stored, rev>>
      /\ phase' = "label" /\ changed' = FALSE
  BY DEF Updated
<1>2. thread' \in [Nodes -> Threads]
  <2>1. job \in Jobs /\ 1 \in Nat \ {0}
    BY DEF Shape
  <2>2. \A i \in Nodes : Edge(i, 1) \in Threads
    BY <2>1, EdgeType
  <2> QED BY <2>2 DEF Updated
<1> QED BY <1>1, <1>2 DEF Shape, MstPhases, Degree, Slots

LEMMA ShapeLabelled == ASSUME Shape, Labelled PROVE Shape'
<1>1. /\ UNCHANGED <<job, k, cand, mst, num, limit, label, stored, rev>>
      /\ phase' \in {"label", "adjust"} /\ changed' = FALSE
  BY DEF Labelled
<1>2. thread' \in [Nodes -> Threads]
  <2>1. job \in Jobs /\ 1 \in Nat \ {0}
    BY DEF Shape
  <2>2. \A i \in Nodes : Edge(i, 1) \in Threads
    BY <2>1, EdgeType
  <2> QED BY <2>2 DEF Labelled, Shape
<1> QED BY <1>1, <1>2 DEF Shape, MstPhases, Degree, Slots

\* The labels after thread i has looked at an edge.
LEMMA LookLabel ==
  ASSUME Shape, LabelsInv, NEW i \in Nodes, Look(i)
  PROVE  LET j == mst[i][thread[i].slot] IN
         /\ thread[i].slot \in Slots /\ j \in Nodes
         /\ Lowering(label')
         /\ \A x \in Nodes : label'[x] = label[x] \/ (x \in {i, j} /\ label'[x] = Root(x))
         /\ \A x \in {i, j} : label'[x] = Root(x)
<1> DEFINE s == thread[i].slot
           j == mst[i][s]
           f == Lower(label, i, Root(i))
<1>1. phase = "label" /\ thread[i].at = "look" /\ label' = Lower(f, j, Root(j))
  BY DEF Look
<1>2. s \in Slots /\ j \in Nodes
  <2>1. s \in Slots /\ j # Empty
    BY <1>1 DEF LabelsInv, OnEdge
  <2>2. j \in Ends
    BY <2>1 DEF Shape
  <2> QED BY <2>1, <2>2 DEF Ends
<1> HIDE DEF s, j
<1>3. /\ Lowering(label) /\ Root(i) \in Nodes /\ Root(j) \in Nodes
      /\ Root(i) <= label[i] /\ Root(j) <= label[j]
  BY <1>2, LoweringLabel
<1>4. /\ Lowering(f)
      /\ \A x \in Nodes : f[x] = IF x = i /\ Root(i) < label[i] THEN Root(i) ELSE label[x]
  BY <1>3, LowerType
<1> HIDE DEF f
<1>5. /\ Lowering(label')
      /\ \A x \in Nodes : label'[x] = IF x = j /\ Root(j) < f[j] THEN Root(j) ELSE f[x]
  <2> DEFINE g == Lower(f, j, Root(j))
  <2>1. /\ Lowering(g)
        /\ \A x \in Nodes : g[x] = IF x = j /\ Root(j) < f[j] THEN Root(j) ELSE f[x]
    <3>1. Lowering(f) /\ j \in Nodes /\ Root(j) \in Nodes
      BY <1>2, <1>3, <1>4
    <3> QED BY <3>1, LowerType
  <2>2. label' = g
    BY <1>1
  <2> HIDE DEF g
  <2> QED BY <2>1, <2>2
<1>6. /\ label[i] \in Nat /\ label[j] \in Nat /\ Root(i) \in Nat /\ Root(j) \in Nat
  BY <1>2, <1>3, GraphFacts DEF Lowering
<1>7. f[i] = Root(i)
  BY <1>3, <1>4, <1>6
<1>8. label'[j] = Root(j)
  <2>1. CASE j = i
    BY <2>1, <1>2, <1>5, <1>7
  <2>2. CASE j # i
    BY <2>2, <1>2, <1>3, <1>4, <1>5, <1>6
  <2> QED BY <2>1, <2>2
<1>9. label'[i] = Root(i)
  <2>1. CASE j = i
    BY <2>1, <1>8
  <2>2. CASE j # i
    BY <2>2, <1>5, <1>7
  <2> QED BY <2>1, <2>2
<1>10. \A x \in Nodes : label'[x] = label[x] \/ (x \in {i, j} /\ label'[x] = Root(x))
  BY <1>4, <1>5, <1>8, <1>9
<1> QED BY <1>2, <1>5, <1>8, <1>9, <1>10 DEF j, s

LEMMA ShapeLook ==
  ASSUME Shape, LabelsInv, NEW i \in Nodes, Look(i)
  PROVE  Shape'
<1> DEFINE s == thread[i].slot
           j == mst[i][s]
<1>1. UNCHANGED <<job, phase, k, cand, mst, num, limit, changed, stored, rev>>
  BY DEF Look
<1>2. s \in Slots /\ j \in Nodes /\ Lowering(label') /\ s \in Nat
  <2>1. s \in Slots /\ j \in Nodes /\ Lowering(label')
    BY LookLabel
  <2> HIDE DEF s
  <2> QED BY <2>1 DEF Slots
<1>3. thread' \in [Nodes -> Threads]
  <2>1. \/ thread' = [thread EXCEPT ![i] = Edge(i, s + 1)]
        \/ Go(i, "join", Root(i), s, Root(j))
    BY DEF Look
  <2>2. Edge(i, s + 1) \in Threads
    <3>1. s + 1 \in Nat \ {0} /\ job \in Jobs
      BY <1>2 DEF Shape
    <3> QED BY <3>1, EdgeType
  <2>3. Root(i) \in Ends /\ Root(j) \in Nat /\ "join" \in Places
    BY <1>2, LoweringLabel, GraphFacts DEF Ends, Places
  <2> HIDE DEF s, j
  <2>4. CASE thread' = [thread EXCEPT ![i] = Edge(i, s + 1)]
    BY <2>4, <2>2 DEF Shape
  <2>5. CASE Go(i, "join", Root(i), s, Root(j))
    BY <2>5, <2>3, <1>2, GoType
  <2> QED BY <2>1, <2>4, <2>5
<1> QED BY <1>1, <1>2, <1>3 DEF Shape, Degree, Slots, Lowering

\* The labels after thread i's compare and exchange.
LEMMA JoinLabel ==
  ASSUME Shape, LabelsInv, NEW i \in Nodes, Join(i)
  PROVE  LET j == mst[i][thread[i].slot] IN
         /\ thread[i].slot \in Slots /\ j \in Nodes
         /\ Lowering(label')
         /\ \A x \in Nodes :
              label'[x] = label[x] \/ (x \in {i, j} /\ label'[x] \in {thread[i].to, thread[i].place})
<1> DEFINE s == thread[i].slot
           j == mst[i][s]
           ri == thread[i].to
           rj == thread[i].place
<1>1. phase = "label" /\ thread[i].at = "join"
      /\ label' = IF ri > rj THEN (IF label[i] = ri THEN [label EXCEPT ![i] = rj] ELSE label)
                   ELSE (IF label[j] = rj THEN [label EXCEPT ![j] = ri] ELSE label)
  BY DEF Join
<1>2. s \in Slots /\ j \in Nodes /\ ri \in Nodes /\ rj \in Nodes
  <2>1. s \in Slots /\ j # Empty /\ ri \in Nodes /\ rj \in Nodes
    BY <1>1 DEF LabelsInv, OnEdge
  <2>2. j \in Ends
    BY <2>1 DEF Shape
  <2> QED BY <2>1, <2>2 DEF Ends
<1> HIDE DEF s, j, ri, rj
<1>3. Lowering(label) /\ label[i] <= i /\ label[j] <= j
  BY <1>2, LoweringLabel DEF Lowering
<1>4. ri \in Nat /\ rj \in Nat /\ i \in Nat /\ j \in Nat
  BY <1>2, GraphFacts
<1> DEFINE Kept == Lowering(label') /\ \A x \in Nodes :
                     label'[x] = label[x] \/ (x \in {i, j} /\ label'[x] \in {ri, rj})
<1>5. ASSUME ri > rj /\ label[i] = ri PROVE Kept
  <2>1. label' = [label EXCEPT ![i] = rj] /\ rj <= i
    BY <1>5, <1>1, <1>3, <1>4
  <2> QED BY <2>1, <1>2, <1>3 DEF Lowering
<1>6. ASSUME ~(ri > rj) /\ label[j] = rj PROVE Kept
  <2>1. label' = [label EXCEPT ![j] = ri] /\ ri <= j
    BY <1>6, <1>1, <1>3, <1>4
  <2> QED BY <2>1, <1>2, <1>3 DEF Lowering
<1>7. ASSUME label' = label PROVE Kept
  BY <1>7, <1>2, <1>3
<1>8. Kept
  BY <1>1, <1>5, <1>6, <1>7
<1> QED BY <1>8, <1>2 DEF s, j, ri, rj

LEMMA ShapeJoin ==
  ASSUME Shape, LabelsInv, NEW i \in Nodes, Join(i)
  PROVE  Shape'
<1> DEFINE s == thread[i].slot
<1>1. UNCHANGED <<job, phase, k, cand, mst, num, limit, stored, rev>> /\ changed' = TRUE
  BY DEF Join
<1>2. s \in Slots /\ Lowering(label') /\ s \in Nat
  BY JoinLabel DEF Slots
<1>3. thread' \in [Nodes -> Threads]
  <2>1. thread' = [thread EXCEPT ![i] = Edge(i, s + 1)]
    BY DEF Join
  <2>2. Edge(i, s + 1) \in Threads
    <3>1. s + 1 \in Nat \ {0} /\ job \in Jobs
      BY <1>2 DEF Shape
    <3> QED BY <3>1, EdgeType
  <2> QED BY <2>1, <2>2 DEF Shape
<1> QED BY <1>1, <1>2, <1>3 DEF Shape, Degree, Slots, Lowering

Limits == [out : [Nodes -> Nat], in : [Nodes -> Int]]

LEMMA InIs ==
  ASSUME Shape, LimitsInv, job.connect, NEW i \in Nodes
  PROVE  /\ num.out[i] \in Nat /\ num.in[i] \in Nat /\ limit.out[i] \in Nat /\ limit.in[i] \in Nat
         /\ limit.out[i] + limit.in[i] = Degree /\ num.out[i] <= limit.out[i] /\ Degree \in Nat
         /\ In(i) = (IF num.in[i] <= limit.in[i] THEN num.in[i] ELSE limit.in[i])
         /\ In(i) \in Nat /\ In(i) <= limit.in[i] /\ In(i) <= num.in[i]
<1>1. num.out[i] \in Nat /\ num.in[i] \in Nat /\ limit.out[i] \in Nat /\ limit.in[i] \in Int /\ job \in Jobs
  BY DEF Shape
<1>2. limit.out[i] + limit.in[i] = Degree /\ num.out[i] <= limit.out[i] /\ limit.in[i] >= 0
  BY DEF LimitsInv
<1>3. In(i) = IF num.in[i] <= limit.in[i] THEN num.in[i] ELSE limit.in[i]
  BY <1>1, MinOfTwo DEF In
<1>4. Degree \in Nat
  BY <1>1, JobFacts
<1> QED BY <1>1, <1>2, <1>3, <1>4

\* The counters and limits of the next round.
LEMMA AdjustNumbers ==
  ASSUME Shape, LimitsInv, Adjust
  PROVE  /\ num' \in Nums /\ limit' \in Limits /\ num'.out = num.out
         /\ \A i \in Nodes :
              /\ num'.in[i] = In(i)
              /\ \/ limit'.out[i] = limit.out[i] /\ limit'.in[i] = limit.in[i]
                 \/ /\ limit'.out[i] = limit.out[i] + 1 /\ limit'.in[i] = limit.in[i] - 1
                    /\ num.out[i] = limit.out[i] /\ In(i) < limit.in[i]
<1> DEFINE in == [i \in Nodes |-> Min({num.in[i], limit.in[i]})]
           more == {i \in Nodes : num.out[i] = limit.out[i] /\ num.out[i] + in[i] < Degree}
<1>1. /\ num' = [num EXCEPT !.in = in]
      /\ limit' = [out |-> [i \in Nodes |-> limit.out[i] + (IF i \in more THEN 1 ELSE 0)],
                   in  |-> [i \in Nodes |-> limit.in[i] - (IF i \in more THEN 1 ELSE 0)]]
  BY DEF Adjust
<1>2. job.connect
  BY DEF Adjust, LimitsInv, MstPhases
<1>3. \A i \in Nodes : in[i] = In(i) /\ In(i) \in Nat
  BY <1>2, InIs DEF In
<1>4. \A i \in more : num.out[i] = limit.out[i] /\ In(i) < limit.in[i]
  <2> TAKE i \in more
  <2>1. i \in Nodes /\ num.out[i] = limit.out[i] /\ num.out[i] + in[i] < Degree /\ in[i] = In(i)
    BY <1>3
  <2> HIDE DEF in, more
  <2> QED BY <2>1, <1>2, InIs
<1>5. more \subseteq Nodes /\ in \in [Nodes -> Nat]
  BY <1>3
<1> HIDE DEF in, more
<1>6. num' \in Nums /\ num'.out = num.out /\ num'.in = in
  <2>1. num = [out |-> num.out, in |-> num.in] /\ num.out \in [Nodes -> Nat]
    BY DEF Shape
  <2>2. num' = [out |-> num.out, in |-> in]
    BY <1>1, <2>1
  <2> QED BY <2>1, <2>2, <1>5 DEF Nums
<1>7. ASSUME NEW i \in Nodes
      PROVE  /\ limit'.out[i] = limit.out[i] + (IF i \in more THEN 1 ELSE 0)
             /\ limit'.in[i] = limit.in[i] - (IF i \in more THEN 1 ELSE 0)
             /\ limit.out[i] \in Nat /\ limit.in[i] \in Int
  BY <1>1 DEF Shape
<1>8. limit' \in Limits
  <2> DEFINE fo == [i \in Nodes |-> limit.out[i] + (IF i \in more THEN 1 ELSE 0)]
             fi == [i \in Nodes |-> limit.in[i] - (IF i \in more THEN 1 ELSE 0)]
  <2>1. \A i \in Nodes : fo[i] \in Nat /\ fi[i] \in Int
    BY <1>7
  <2>2. fo \in [Nodes -> Nat] /\ fi \in [Nodes -> Int]
    BY <2>1
  <2> HIDE DEF fo, fi
  <2>3. limit' = [out |-> fo, in |-> fi]
    BY <1>1 DEF fo, fi
  <2> QED BY <2>2, <2>3 DEF Limits
<1>9. ASSUME NEW i \in Nodes
      PROVE  \/ limit'.out[i] = limit.out[i] /\ limit'.in[i] = limit.in[i]
             \/ /\ limit'.out[i] = limit.out[i] + 1 /\ limit'.in[i] = limit.in[i] - 1
                /\ num.out[i] = limit.out[i] /\ In(i) < limit.in[i]
  <2>1. CASE i \in more
    BY <2>1, <1>4, <1>7
  <2>2. CASE i \notin more
    BY <2>2, <1>7
  <2> QED BY <2>1, <2>2
<1> QED BY <1>3, <1>6, <1>8, <1>9

LEMMA ShapeAdjust == ASSUME Shape, LimitsInv, Adjust PROVE Shape'
<1>1. UNCHANGED <<job, thread, cand, mst, label, changed, stored, rev>>
      /\ phase' \in {"store", "candidates"} /\ (k' = 0 \/ k' = k + 1)
  BY DEF Adjust
<1>2. k' \in Nat
  BY <1>1 DEF Shape
<1> QED BY <1>1, <1>2, AdjustNumbers DEF Shape, Nums, Limits, MstPhases, Degree, Slots

LEMMA ShapeStore == ASSUME Shape, Store PROVE Shape'
<1> DEFINE first(i) == {s \in Slots : mst[i][s] # Empty /\ \A r \in 1..s-1 : mst[i][r] # mst[i][s]}
<1>1. UNCHANGED <<job, k, thread, cand, mst, num, limit, label, changed, rev>> /\ phase' = "prune"
  BY DEF Store
<1>2. stored' = [i \in Nodes |-> Cardinality(first(i))]
  BY DEF Store
<1>3. \A i \in Nodes : Cardinality(first(i)) \in 0..Degree
  <2> TAKE i \in Nodes
  <2>1. Degree \in Nat
    BY JobFacts DEF Shape
  <2>2. IsFiniteSet(Slots) /\ Cardinality(Slots) = Degree
    BY <2>1, FS_Interval DEF Slots
  <2>3. first(i) \subseteq Slots
    OBVIOUS
  <2> HIDE DEF first
  <2>4. IsFiniteSet(first(i)) /\ Cardinality(first(i)) <= Cardinality(Slots)
    BY <2>2, <2>3, FS_Subset
  <2> QED BY <2>1, <2>2, <2>4, FS_CardinalityType
<1> HIDE DEF first
<1>4. stored' \in [Nodes -> 0..Degree]
  BY <1>2, <1>3
<1> QED BY <1>1, <1>4 DEF Shape, MstPhases, Degree, Slots

LEMMA ShapePrune == ASSUME Shape, Prune PROVE Shape'
<1>1. UNCHANGED <<job, cand, mst, num, limit, label, changed, stored, rev>>
      /\ phase' = "reverse" /\ k' = 1 /\ thread' = Launched("add")
  BY DEF Prune, tree
<1>2. thread' \in [Nodes -> Threads]
  BY <1>1, LaunchedType DEF Places
<1> QED BY <1>1, <1>2 DEF Shape, Degree, Slots

LEMMA ShapeAddReverse ==
  ASSUME Shape, OutputInv, ReverseInv, NEW i \in Nodes, AddReverse(i)
  PROVE  Shape'
<1> DEFINE dest == out[i][k]
           pos  == rev.count[dest]
           row  == IF pos < Degree THEN [rev.row EXCEPT ![dest][pos + 1] = i] ELSE rev.row
           count == [rev.count EXCEPT ![dest] = pos + 1]
<1>1. UNCHANGED <<job, phase, k, cand, mst, num, limit, label, changed, stored>>
      /\ phase = "reverse" /\ Done(i) /\ rev' = [row |-> row, count |-> count]
  BY DEF AddReverse, tree
<1>2. thread' \in [Nodes -> Threads]
  BY <1>1, DoneType
<1>3. dest \in Nodes
  BY <1>1 DEF OutputInv, ReverseInv
<1>4. pos \in Nat /\ rev.row \in [Nodes -> [Slots -> Ends]] /\ rev.count \in [Nodes -> Nat] /\ i \in Ends
  BY <1>3 DEF Shape, Ends
<1> HIDE DEF dest, pos
<1>5. row \in [Nodes -> [Slots -> Ends]]
  <2>1. [rev.row EXCEPT ![dest][pos + 1] = i] \in [Nodes -> [Slots -> Ends]]
    BY <1>3, <1>4
  <2> QED BY <2>1, <1>4
<1>6. count \in [Nodes -> Nat]
  BY <1>3, <1>4
<1> HIDE DEF row, count
<1> QED BY <1>1, <1>2, <1>5, <1>6 DEF Shape, Degree, Slots

LEMMA ShapeReversed == ASSUME Shape, Reversed PROVE Shape'
<1>1. UNCHANGED <<job, cand, mst, num, limit, label, changed, stored, rev>>
      /\ phase' \in {"reverse", "merge"} /\ k' \in {k, k + 1}
  BY DEF Reversed, tree
<1>2. thread' \in [Nodes -> Threads]
  <2>1. CASE thread' = Launched("add")
    BY <2>1, LaunchedType DEF Places
  <2>2. CASE thread' = [i \in Nodes |-> IF Protected(i) = Degree THEN Idle
                          ELSE [Idle EXCEPT !.at = "append", !.slot = 1, !.place = stored[i]]]
    <3>1. \A i \in Nodes : stored[i] \in Nat
      <4>1. Degree \in Nat
        BY JobFacts DEF Shape
      <4> QED BY <4>1 DEF Shape
    <3>2. \A i \in Nodes : [Idle EXCEPT !.at = "append", !.slot = 1, !.place = stored[i]] \in Threads
      BY <3>1 DEF Idle, Threads, Places, Ends
    <3>3. Idle \in Threads
      BY DEF Idle, Threads, Places, Ends
    <3> QED BY <2>2, <3>2, <3>3
  <2> QED BY <2>1, <2>2 DEF Reversed
<1> QED BY <1>1, <1>2 DEF Shape, Degree, Slots

LEMMA ShapeAppend == ASSUME Shape, NEW i \in Nodes, AppendPruned(i) PROVE Shape'
<1> DEFINE f == thread[i].slot
           n == thread[i].place
           m == Min({rev.count[i], Degree})
<1>1. UNCHANGED <<job, phase, k, cand, mst, num, limit, label, changed, stored, rev>>
  BY DEF AppendPruned, tree
<1>2. f \in Nat /\ n \in Nat /\ Empty \in Ends
  BY DEF Shape, Threads, Ends
<1>3. m \in Nat
  <2>1. rev.count[i] \in Nat /\ Degree \in Nat
    BY JobFacts DEF Shape
  <2> QED BY <2>1, MinOfTwo
<1>4. thread' \in [Nodes -> Threads]
  <2>1. \/ Go(i, "replace", Empty, m, 0) \/ Go(i, "append", Empty, f + 1, n + 1)
        \/ Go(i, "append", Empty, f + 1, n)
    BY DEF AppendPruned
  <2> HIDE DEF f, n, m
  <2>2. f + 1 \in Nat /\ n + 1 \in Nat /\ "replace" \in Places /\ "append" \in Places /\ 0 \in Nat
    BY <1>2 DEF Places
  <2> QED BY <2>1, <2>2, <1>2, <1>3, GoType
<1> QED BY <1>1, <1>4 DEF Shape, Degree, Slots

LEMMA ShapeReplace == ASSUME Shape, NEW i \in Nodes, ReplaceByReverse(i) PROVE Shape'
<1> DEFINE r == thread[i].slot
<1>1. UNCHANGED <<job, phase, k, cand, mst, num, limit, label, changed, stored, rev>>
  BY DEF ReplaceByReverse, tree
<1>2. r \in Nat /\ Empty \in Ends
  BY DEF Shape, Threads, Ends
<1>3. thread' \in [Nodes -> Threads]
  <2>1. Done(i) \/ (r # 0 /\ Go(i, "replace", Empty, r - 1, 0))
    BY DEF ReplaceByReverse
  <2> HIDE DEF r
  <2>2. (r # 0 => r - 1 \in Nat) /\ "replace" \in Places /\ 0 \in Nat
    BY <1>2 DEF Places
  <2> QED BY <2>1, <2>2, <1>2, GoType, DoneType
<1> QED BY <1>1, <1>3 DEF Shape, Degree, Slots

LEMMA ShapeStep == GraphInv /\ [Next]_vars => Shape'
<1> SUFFICES ASSUME GraphInv, [Next]_vars PROVE Shape'
  OBVIOUS
<1>1. Shape /\ LimitsInv /\ UpdateInv /\ LabelsInv /\ ReverseInv /\ OutputInv
  BY DEF GraphInv, EdgesInv
<1>2. CASE Host
  <2>1. CASE Merged
    BY <1>1, <2>1 DEF Merged, tree, Shape, Degree, Slots
  <2> QED BY <1>1, <1>2, <2>1, ShapeCandidates, ShapeUpdated, ShapeLabelled, ShapeAdjust,
        ShapeStore, ShapePrune, ShapeReversed DEF Host
<1>3. ASSUME NEW i \in Nodes, Thread(i) PROVE Shape'
  BY <1>1, <1>3, ShapeTry, ShapeAlternate, ShapeTakePlace, ShapeWriteEdge, ShapeLook, ShapeJoin,
    ShapeAddReverse, ShapeAppend, ShapeReplace DEF Thread
<1>4. CASE UNCHANGED vars
  BY <1>1, <1>4 DEF vars, tree, Shape, Degree, Slots
<1> QED BY <1>2, <1>3, <1>4 DEF Next

-----------------------------------------------------------------------------
(* Both ends of every edge.                                                *)

\* The steps that leave edges and counters alone.
Quiet == UNCHANGED <<mst, num, limit>>

LEMMA QuietSteps ==
  ASSUME [Next]_vars
  PROVE  Quiet \/ Adjust \/ \E i \in Nodes : TakePlace(i) \/ WriteEdge(i)
<1>1. CASE Host
  BY <1>1 DEF Host, tree, Quiet, Candidates, Updated, Labelled, Store, Prune, Reversed, Merged
<1>2. ASSUME NEW i \in Nodes, Thread(i), ~TakePlace(i), ~WriteEdge(i) PROVE Quiet
  <2>1. CASE Try(i) \/ Alternate(i)
    BY <2>1 DEF Try, Alternate, tree, Quiet
  <2>2. CASE Look(i) \/ Join(i)
    BY <2>2 DEF Look, Join, tree, Quiet
  <2>3. CASE AddReverse(i) \/ AppendPruned(i) \/ ReplaceByReverse(i)
    BY <2>3 DEF AddReverse, AppendPruned, ReplaceByReverse, tree, Quiet
  <2> QED BY <1>2, <2>1, <2>2, <2>3 DEF Thread
<1>3. CASE UNCHANGED vars
  BY <1>3 DEF vars, tree, Quiet
<1> QED BY <1>1, <1>2, <1>3 DEF Next

\* Which steps lead into the update kernel, out of it, and through it.
PhaseFacts ==
  /\ phase' \in MstPhases => phase \in MstPhases
  /\ phase' = "update" => Candidates \/ phase = "update"
  /\ (phase = "update" /\ phase' # "update") => Updated
  /\ phase = "update" /\ phase' = "update" =>
       \/ UNCHANGED <<thread, cand, mst, num, limit>>
       \/ \E i \in Nodes : Try(i) \/ Alternate(i) \/ TakePlace(i) \/ WriteEdge(i)

LEMMA PhaseSteps == ASSUME [Next]_vars PROVE PhaseFacts
<1>1. ASSUME Candidates \/ Updated \/ Labelled \/ Adjust \/ Store PROVE PhaseFacts
  <2>1. CASE Candidates
    BY <2>1 DEF Candidates, MstPhases, PhaseFacts
  <2>2. CASE Updated
    BY <2>2 DEF Updated, MstPhases, PhaseFacts
  <2>3. CASE Labelled
    BY <2>3 DEF Labelled, MstPhases, PhaseFacts
  <2>4. CASE Adjust
    BY <2>4 DEF Adjust, MstPhases, PhaseFacts
  <2>5. CASE Store
    BY <2>5 DEF Store, MstPhases, PhaseFacts
  <2> QED BY <1>1, <2>1, <2>2, <2>3, <2>4, <2>5
<1>2. ASSUME Prune \/ Reversed \/ Merged PROVE PhaseFacts
  BY <1>2 DEF Prune, Reversed, Merged, MstPhases, PhaseFacts
<1>3. ASSUME NEW i \in Nodes, Try(i) \/ Alternate(i) \/ TakePlace(i) \/ WriteEdge(i)
      PROVE  PhaseFacts
  <2>1. phase' = phase
    BY <1>3 DEF Try, Alternate, TakePlace, WriteEdge
  <2> QED BY <1>3, <2>1 DEF MstPhases, PhaseFacts
<1>4. ASSUME NEW i \in Nodes,
             Look(i) \/ Join(i) \/ AddReverse(i) \/ AppendPruned(i) \/ ReplaceByReverse(i)
      PROVE  PhaseFacts
  <2>1. phase' = phase /\ phase # "update"
    BY <1>4 DEF Look, Join, AddReverse, AppendPruned, ReplaceByReverse, Turn
  <2> QED BY <2>1 DEF MstPhases, PhaseFacts
<1>5. ASSUME UNCHANGED vars PROVE PhaseFacts
  BY <1>5 DEF vars, tree, PhaseFacts
<1> QED BY <1>1, <1>2, <1>3, <1>4, <1>5 DEF Next, Host, Thread

\* What TakePlace and WriteEdge do to the counters.
LEMMA TakePlaceNumbers ==
  ASSUME EdgesInv, NEW i \in Nodes, TakePlace(i)
  PROVE  /\ phase = "update" /\ phase' = "update" /\ job' = job /\ job.connect
         /\ UNCHANGED <<cand, mst, limit>>
         /\ thread[i].to \in Nodes \ {i} /\ thread[i].at = "add"
         /\ num'.out = num.out
         /\ \A j \in Nodes : num'.in[j] = IF j = thread[i].to THEN num.in[j] + 1 ELSE num.in[j]
         /\ \A h \in Nodes \ {i} : thread'[h] = thread[h]
         /\ IF num.in[thread[i].to] < limit.in[thread[i].to]
            THEN thread'[i] = [at |-> "write", to |-> thread[i].to, slot |-> 0,
                               place |-> num.in[thread[i].to]]
            ELSE thread'[i] = [at |-> "alternate", to |-> cand[i], slot |-> thread[i].slot + 1,
                               place |-> 0]
<1> DEFINE to == thread[i].to
<1>1. /\ phase = "update" /\ phase' = "update" /\ job' = job /\ UNCHANGED <<cand, mst, limit>>
      /\ thread[i].at = "add"
      /\ num' = [num EXCEPT !.in[to] = @ + 1]
      /\ IF num.in[to] < limit.in[to]
         THEN Go(i, "write", to, 0, num.in[to])
         ELSE Go(i, "alternate", cand[i], thread[i].slot + 1, 0)
  BY DEF TakePlace
<1>2. job.connect /\ to \in Nodes \ {i} /\ num \in Nums /\ Shape
  BY <1>1 DEF EdgesInv, LimitsInv, MstPhases, UpdateInv, Found, Shape, Nums
<1>3. /\ thread[i].slot + 1 \in Nat /\ 0 \in Nat /\ num.in[to] \in Nat /\ to \in Ends /\ cand[i] \in Ends
      /\ "write" \in Places /\ "alternate" \in Places
  BY <1>2 DEF Shape, Threads, Ends, Places
<1> HIDE DEF to
<1>4. /\ num'.out = num.out
      /\ \A j \in Nodes : num'.in[j] = IF j = to THEN num.in[j] + 1 ELSE num.in[j]
  BY <1>1, <1>2, NumIn
<1>5. \A h \in Nodes \ {i} : thread'[h] = thread[h]
  BY <1>1, <1>2, <1>3, GoType
<1>6. CASE num.in[to] < limit.in[to]
  BY <1>1, <1>2, <1>3, <1>4, <1>5, <1>6, GoType DEF to
<1>7. CASE ~(num.in[to] < limit.in[to])
  BY <1>1, <1>2, <1>3, <1>4, <1>5, <1>7, GoType DEF to
<1> QED BY <1>6, <1>7

LEMMA WriteEdgeFacts ==
  ASSUME EdgesInv, NEW i \in Nodes, WriteEdge(i)
  PROVE  LET to == thread[i].to
             at == Degree - thread[i].place
             n  == num.out[i] + 1
         IN
         /\ phase = "update" /\ phase' = "update" /\ job' = job /\ job.connect
         /\ UNCHANGED <<cand, limit>> /\ num'.in = num.in
         /\ \A j \in Nodes : num'.out[j] = IF j = i THEN n ELSE num.out[j]
         /\ thread[i].at = "write" /\ thread'[i] = Idle
         /\ \A h \in Nodes \ {i} : thread'[h] = thread[h]
         /\ to \in Nodes \ {i} /\ at \in Slots /\ n \in Slots /\ n <= limit.out[i]
         /\ Degree - In(to) < at /\ mst[to][at] = Empty
         /\ n <= Degree - In(i) /\ mst[i][n] = Empty
         /\ \A j \in Nodes, s \in Slots :
              mst'[j][s] = IF j = to /\ s = at THEN i ELSE IF j = i /\ s = n THEN to ELSE mst[j][s]
<1> DEFINE to == thread[i].to
           at == Degree - thread[i].place
           n  == num.out[i] + 1
<1>1. /\ phase = "update" /\ phase' = "update" /\ job' = job /\ UNCHANGED <<cand, limit>>
      /\ thread[i].at = "write"
      /\ mst' = [mst EXCEPT ![i][n] = to, ![to][at] = i]
      /\ num' = [num EXCEPT !.out[i] = @ + 1] /\ Done(i)
  BY DEF WriteEdge
<1>2. Shape /\ LimitsInv /\ job.connect
  BY <1>1 DEF EdgesInv, LimitsInv, MstPhases
<1>3. /\ to \in Nodes \ {i} /\ num.out[i] < limit.out[i]
      /\ thread[i].place < limit.in[to] /\ thread[i].place < num.in[to] /\ mst[to][at] = Empty
  BY <1>1 DEF EdgesInv, UpdateInv, Found
<1>4. thread[i].place \in Nat
  BY <1>2 DEF Shape, Threads
<1>5. at \in Slots /\ Degree - In(to) < at
  <2> HIDE DEF to
  <2>1. /\ In(to) = (IF num.in[to] <= limit.in[to] THEN num.in[to] ELSE limit.in[to])
        /\ num.in[to] \in Nat /\ limit.in[to] \in Nat /\ limit.out[to] \in Nat
        /\ limit.out[to] + limit.in[to] = Degree /\ Degree \in Nat
    BY <1>2, <1>3, InIs
  <2> QED BY <2>1, <1>3, <1>4 DEF Slots
<1>6. n \in Slots /\ n <= limit.out[i] /\ n <= Degree - In(i)
  <2>1. /\ In(i) \in Nat /\ In(i) <= limit.in[i] /\ limit.in[i] \in Nat /\ limit.out[i] \in Nat
        /\ limit.out[i] + limit.in[i] = Degree /\ Degree \in Nat /\ num.out[i] \in Nat
    BY <1>2, InIs
  <2> QED BY <2>1, <1>3 DEF Slots
<1>7. mst[i][n] = Empty
  <2>1. num.out[i] \in Nat
    BY <1>2 DEF Shape
  <2> QED BY <2>1, <1>2, <1>6 DEF EdgesInv, SlotsInv
<1>8. thread'[i] = Idle /\ \A h \in Nodes \ {i} : thread'[h] = thread[h]
  BY <1>1, <1>2, DoneType
<1>9. num'.in = num.in /\ \A j \in Nodes : num'.out[j] = IF j = i THEN n ELSE num.out[j]
  <2>1. num \in Nums
    BY <1>2 DEF Shape, Nums
  <2>2. num' = [num EXCEPT !.out[i] = @ + 1]
    BY <1>1
  <2> QED BY <2>1, <2>2, NumOut
<1>10. \A j \in Nodes, s \in Slots :
         mst'[j][s] = IF j = to /\ s = at THEN i ELSE IF j = i /\ s = n THEN to ELSE mst[j][s]
  <2> DEFINE m == [mst EXCEPT ![i][n] = to]
  <2>1. mst' = [m EXCEPT ![to][at] = i]
    BY <1>1
  <2>2. mst \in [Nodes -> [Slots -> Ends]]
    BY <1>2 DEF Shape
  <2> HIDE DEF to, at, n
  <2>3. /\ m \in [Nodes -> [Slots -> Ends \union {to}]]
        /\ \A j \in Nodes, s \in Slots : m[j][s] = IF j = i /\ s = n THEN to ELSE mst[j][s]
    BY <2>2, <1>6
  <2> HIDE DEF m
  <2> QED BY <2>1, <2>3, <1>3, <1>5
<1> QED BY <1>1, <1>2, <1>3, <1>5, <1>6, <1>7, <1>8, <1>9, <1>10

\* The number of incoming edges that count, after each of the steps.
LEMMA InSteps ==
  ASSUME EdgesInv, [Next]_vars, job.connect, NEW j \in Nodes
  PROVE  /\ Quiet => In(j)' = In(j)
         /\ Adjust => In(j)' = In(j)
         /\ \A i \in Nodes : WriteEdge(i) => In(j)' = In(j)
         /\ \A i \in Nodes : TakePlace(i) =>
              In(j)' = IF j = thread[i].to /\ num.in[j] < limit.in[j] THEN In(j) + 1 ELSE In(j)
<1>1. /\ num.in[j] \in Nat /\ limit.in[j] \in Nat /\ In(j) \in Nat
      /\ In(j) = (IF num.in[j] <= limit.in[j] THEN num.in[j] ELSE limit.in[j])
  BY InIs DEF EdgesInv
<1>2. In(j)' = Min({num'.in[j], limit'.in[j]})
  BY DEF In
<1>3. Quiet => In(j)' = In(j)
  BY DEF Quiet, In
<1>4. ASSUME Adjust PROVE In(j)' = In(j)
  <2>1. num'.in[j] = In(j) /\ (limit'.in[j] = limit.in[j]
          \/ (limit'.in[j] = limit.in[j] - 1 /\ In(j) < limit.in[j]))
    BY <1>4, AdjustNumbers DEF EdgesInv
  <2>2. limit'.in[j] \in Int /\ num'.in[j] \in Int /\ In(j) <= limit'.in[j]
    BY <2>1, <1>1
  <2> QED BY <2>1, <2>2, <1>2, MinOfTwo
<1>5. ASSUME NEW i \in Nodes, WriteEdge(i) PROVE In(j)' = In(j)
  BY <1>5, <1>2, WriteEdgeFacts DEF In
<1>6. ASSUME NEW i \in Nodes, TakePlace(i)
      PROVE  In(j)' = IF j = thread[i].to /\ num.in[j] < limit.in[j] THEN In(j) + 1 ELSE In(j)
  <2>1. limit' = limit /\ num'.in[j] = IF j = thread[i].to THEN num.in[j] + 1 ELSE num.in[j]
    <3>1. /\ limit' = limit
          /\ \A x \in Nodes : num'.in[x] = IF x = thread[i].to THEN num.in[x] + 1 ELSE num.in[x]
      BY <1>6, TakePlaceNumbers
    <3> QED BY <3>1
  <2>2. num'.in[j] \in Int /\ limit'.in[j] \in Int
    BY <2>1, <1>1
  <2>3. In(j)' = IF num'.in[j] <= limit'.in[j] THEN num'.in[j] ELSE limit'.in[j]
    BY <2>2, <1>2, MinOfTwo
  <2> QED BY <2>1, <2>3, <1>1
<1> QED BY <1>3, <1>4, <1>5, <1>6

LEMMA LimitsStep == EdgesInv /\ [Next]_vars => LimitsInv'
<1> SUFFICES ASSUME EdgesInv, [Next]_vars PROVE LimitsInv'
  OBVIOUS
<1>1. Shape /\ LimitsInv /\ job' = job /\ Degree' = Degree
  BY JobSame DEF EdgesInv
<1>2. phase' \in MstPhases => job'.connect
  BY <1>1, PhaseSteps DEF PhaseFacts, LimitsInv
<1>3. CASE Quiet
  BY <1>1, <1>2, <1>3 DEF LimitsInv, Quiet
<1>4. CASE Adjust
  <2>1. job.connect
    BY <1>1, <1>4 DEF Adjust, LimitsInv, MstPhases
  <2>2. ASSUME NEW i \in Nodes
        PROVE  /\ limit'.out[i] + limit'.in[i] = Degree
               /\ limit'.in[i] >= 0 /\ num'.out[i] <= limit'.out[i]
    <3>1. /\ num'.out = num.out
          /\ \/ limit'.out[i] = limit.out[i] /\ limit'.in[i] = limit.in[i]
             \/ /\ limit'.out[i] = limit.out[i] + 1 /\ limit'.in[i] = limit.in[i] - 1
                /\ In(i) < limit.in[i]
      BY <1>1, <1>4, AdjustNumbers
    <3>2. /\ limit.out[i] \in Nat /\ limit.in[i] \in Nat /\ In(i) \in Nat /\ num.out[i] \in Nat
          /\ limit.out[i] + limit.in[i] = Degree /\ num.out[i] <= limit.out[i]
      BY <1>1, <2>1, InIs
    <3> QED BY <3>1, <3>2
  <2> QED BY <1>1, <1>2, <2>2 DEF LimitsInv
<1>5. ASSUME NEW i \in Nodes, TakePlace(i) PROVE LimitsInv'
  BY <1>1, <1>2, <1>5, TakePlaceNumbers DEF LimitsInv
<1>6. ASSUME NEW i \in Nodes, WriteEdge(i) PROVE LimitsInv'
  <2>1. /\ limit' = limit /\ num.out[i] + 1 <= limit.out[i]
        /\ \A j \in Nodes : num'.out[j] = IF j = i THEN num.out[i] + 1 ELSE num.out[j]
    BY <1>6, WriteEdgeFacts
  <2> QED BY <1>1, <1>2, <2>1 DEF LimitsInv
<1> QED BY <1>3, <1>4, <1>5, <1>6, QuietSteps

\* A thread that is about to write, in the terms of the slots.
LEMMA WriterFacts ==
  ASSUME EdgesInv, phase = "update", NEW h \in Nodes, thread[h].at = "write"
  PROVE  LET to == thread[h].to
             at == Degree - thread[h].place
         IN  /\ to \in Nodes \ {h} /\ at \in Slots /\ Degree - In(to) < at /\ mst[to][at] = Empty
             /\ thread[h].place \in Nat /\ thread[h].place < num.in[to]
             /\ thread[h].place < limit.in[to]
             /\ cand[h] \in Nodes /\ num.out[h] < limit.out[h] /\ job.connect
<1> DEFINE to == thread[h].to
<1>1. /\ cand[h] \in Nodes /\ num.out[h] < limit.out[h] /\ to \in Nodes \ {h}
      /\ thread[h].place < limit.in[to] /\ thread[h].place < num.in[to]
      /\ mst[to][Degree - thread[h].place] = Empty
  BY DEF EdgesInv, UpdateInv, Found
<1>2. job.connect /\ Shape /\ LimitsInv
  BY DEF EdgesInv, LimitsInv, MstPhases
<1>3. thread[h].place \in Nat
  BY <1>2 DEF Shape, Threads
<1> HIDE DEF to
<1>4. /\ limit.out[to] \in Nat /\ limit.in[to] \in Nat /\ num.in[to] \in Nat
      /\ limit.out[to] + limit.in[to] = Degree /\ Degree \in Nat /\ In(to) \in Nat
      /\ In(to) = (IF num.in[to] <= limit.in[to] THEN num.in[to] ELSE limit.in[to])
  BY <1>1, <1>2, InIs
<1>5. Degree - thread[h].place \in Slots /\ Degree - In(to) < Degree - thread[h].place
  BY <1>1, <1>3, <1>4 DEF Slots
<1> QED BY <1>1, <1>2, <1>3, <1>5 DEF to

\* The threads that do not move, when the one that moves is not about to write.
LEMMA OthersFound ==
  ASSUME EdgesInv, phase = "update", UNCHANGED <<job, cand, mst, num, limit>>, NEW i \in Nodes,
         thread'[i].at # "write", \A h \in Nodes \ {i} : thread'[h] = thread[h],
         NEW h \in Nodes \ {i}
  PROVE  Found(h)'
<1>1. Found(h) /\ thread'[h] = thread[h] /\ Degree' = Degree
  BY DEF EdgesInv, UpdateInv, Degree
<1>2. ASSUME NEW g \in Nodes \ {h}, thread'[g].at = "write" PROVE thread'[g] = thread[g]
  BY <1>2
<1> QED BY <1>1, <1>2 DEF Found

LEMMA FoundByTry ==
  ASSUME EdgesInv, NEW i \in Nodes, Try(i)
  PROVE  Found(i)' /\ thread'[i].at # "write" /\ \A h \in Nodes \ {i} : thread'[h] = thread[h]
<1> DEFINE j == cand[i]
<1>1. Shape /\ UNCHANGED <<job, cand, num, limit>> /\ Degree' = Degree /\ Degree \in Nat
  BY JobFacts DEF EdgesInv, Try, tree, Degree, Shape
<1>2. \/ Done(i)
      \/ /\ j \in Nodes \ {i} /\ num.out[i] < limit.out[i]
         /\ Go(i, "alternate", j, 1, 0) \/ Go(i, "add", j, 0, 0)
  <2>1. j \in Ends
    BY <1>1 DEF Shape
  <2>2. num.out[i] \in Nat /\ limit.out[i] \in Nat
    BY <1>1 DEF Shape
  <2> QED BY <2>1, <2>2 DEF Try, Ends
<1>3. CASE Done(i)
  BY <1>1, <1>3, DoneType DEF Found, Idle
<1>4. CASE /\ j \in Nodes \ {i} /\ num.out[i] < limit.out[i]
           /\ Go(i, "alternate", j, 1, 0) \/ Go(i, "add", j, 0, 0)
  <2>1. "alternate" \in Places /\ "add" \in Places /\ j \in Ends /\ 0 \in Nat /\ 1 \in Nat
    BY <1>4 DEF Places, Ends
  <2>2. CASE Go(i, "alternate", j, 1, 0)
    <3>1. /\ thread'[i] = [at |-> "alternate", to |-> j, slot |-> 1, place |-> 0]
          /\ \A h \in Nodes \ {i} : thread'[h] = thread[h]
      BY <1>1, <2>1, <2>2, GoType
    <3> QED BY <1>1, <1>4, <3>1 DEF Found
  <2>3. CASE Go(i, "add", j, 0, 0)
    <3>1. /\ thread'[i] = [at |-> "add", to |-> j, slot |-> 0, place |-> 0]
          /\ \A h \in Nodes \ {i} : thread'[h] = thread[h]
      BY <1>1, <2>1, <2>3, GoType
    <3> QED BY <1>1, <1>4, <3>1 DEF Found
  <2> QED BY <1>4, <2>2, <2>3
<1> QED BY <1>2, <1>3, <1>4

LEMMA FoundByAlternate ==
  ASSUME EdgesInv, NEW i \in Nodes, Alternate(i)
  PROVE  Found(i)' /\ thread'[i].at # "write" /\ \A h \in Nodes \ {i} : thread'[h] = thread[h]
<1> DEFINE s == thread[i].slot
           l == mst[cand[i]][Degree + 1 - s]
<1>1. Shape /\ UNCHANGED <<job, cand, num, limit>> /\ Degree' = Degree /\ Degree \in Nat
  BY JobFacts DEF EdgesInv, Alternate, tree, Degree, Shape
<1>2. cand[i] \in Nodes /\ num.out[i] < limit.out[i] /\ s \in 1..Degree + 1
  BY DEF EdgesInv, UpdateInv, Found, Alternate
<1>3. s <= Degree => l \in Ends
  <2>1. s <= Degree => Degree + 1 - s \in Slots
    BY <1>1, <1>2 DEF Slots
  <2> QED BY <2>1, <1>1, <1>2 DEF Shape
<1>4. \/ Done(i)
      \/ s <= Degree /\ Go(i, "alternate", cand[i], s + 1, 0)
      \/ s <= Degree /\ l \in Nodes \ {i} /\ Go(i, "add", l, s, 0)
  <2> HIDE DEF l
  <2>1. CASE s > Degree
    BY <2>1 DEF Alternate
  <2>2. CASE s <= Degree /\ l = Empty
    BY <2>2, <1>1, <1>2 DEF Alternate, l
  <2>3. CASE s <= Degree /\ l # Empty
    <3>1. l \in Nodes
      BY <2>3, <1>3 DEF Ends
    <3>2. ~(s > Degree)
      BY <2>3, <1>1, <1>2
    <3>3. \/ Done(i) \/ Go(i, "alternate", cand[i], s + 1, 0)
          \/ Root(l) # Root(i) /\ Go(i, "add", l, s, 0)
      BY <3>2, <2>3, Zenon DEF Alternate, l
    <3>4. Root(l) # Root(i) => l # i
      OBVIOUS
    <3> QED BY <2>3, <3>1, <3>3, <3>4
  <2> QED BY <2>1, <2>2, <2>3, <1>1, <1>2
<1> HIDE DEF s, l
<1>5. /\ "alternate" \in Places /\ "add" \in Places /\ 0 \in Nat /\ s \in Nat /\ s + 1 \in Nat
      /\ cand[i] \in Ends /\ (l \in Nodes => l \in Ends)
  BY <1>1, <1>2 DEF Places, Ends
<1>6. CASE Done(i)
  BY <1>1, <1>6, DoneType DEF Found, Idle
<1>7. CASE s <= Degree /\ Go(i, "alternate", cand[i], s + 1, 0)
  <2>1. /\ thread'[i] = [at |-> "alternate", to |-> cand[i], slot |-> s + 1, place |-> 0]
        /\ \A h \in Nodes \ {i} : thread'[h] = thread[h]
    BY <1>1, <1>5, <1>7, GoType
  <2> QED BY <1>1, <1>2, <1>5, <1>7, <2>1 DEF Found
<1>8. CASE s <= Degree /\ l \in Nodes \ {i} /\ Go(i, "add", l, s, 0)
  <2>1. /\ thread'[i] = [at |-> "add", to |-> l, slot |-> s, place |-> 0]
        /\ \A h \in Nodes \ {i} : thread'[h] = thread[h]
    BY <1>1, <1>5, <1>8, GoType
  <2> QED BY <1>1, <1>2, <1>5, <1>8, <2>1 DEF Found
<1> QED BY <1>4, <1>6, <1>7, <1>8

LEMMA FoundByTakePlace ==
  ASSUME EdgesInv, NEW i \in Nodes, TakePlace(i), NEW h \in Nodes
  PROVE  Found(h)'
<1> DEFINE to == thread[i].to
<1>1. /\ phase = "update" /\ job' = job /\ job.connect /\ UNCHANGED <<cand, mst, limit>>
      /\ to \in Nodes \ {i} /\ thread[i].at = "add" /\ num'.out = num.out
      /\ \A j \in Nodes : num'.in[j] = IF j = to THEN num.in[j] + 1 ELSE num.in[j]
      /\ \A g \in Nodes \ {i} : thread'[g] = thread[g]
      /\ IF num.in[to] < limit.in[to]
         THEN thread'[i] = [at |-> "write", to |-> to, slot |-> 0, place |-> num.in[to]]
         ELSE thread'[i] = [at |-> "alternate", to |-> cand[i], slot |-> thread[i].slot + 1,
                            place |-> 0]
  BY TakePlaceNumbers
<1>2. Shape /\ LimitsInv /\ SlotsInv /\ Found(i) /\ Found(h)
  BY <1>1 DEF EdgesInv, UpdateInv
<1>3. Degree' = Degree /\ Degree \in Nat /\ thread[i].slot \in Nat
  BY <1>1, <1>2, JobFacts DEF Shape, Degree, Threads
<1> HIDE DEF to
<1>4. CASE h = i /\ ~(num.in[to] < limit.in[to])
  BY <1>1, <1>2, <1>3, <1>4 DEF Found
<1>5. CASE h = i /\ num.in[to] < limit.in[to]
  <2>1. thread'[i] = [at |-> "write", to |-> to, slot |-> 0, place |-> num.in[to]]
    BY <1>1, <1>5
  <2>2. /\ num.in[to] \in Nat /\ limit.in[to] \in Nat /\ limit.out[to] \in Nat /\ num.out[to] \in Nat
        /\ limit.out[to] + limit.in[to] = Degree /\ num.out[to] <= limit.out[to]
        /\ In(to) = num.in[to]
    BY <1>1, <1>2, <1>5, InIs
  <2>3. mst[to][Degree - num.in[to]] = Empty
    <3>1. Degree - num.in[to] \in Slots /\ num.out[to] < Degree - num.in[to]
          /\ Degree - num.in[to] <= Degree - In(to)
      BY <2>2, <1>3, <1>5 DEF Slots
    <3> QED BY <3>1, <1>1, <1>2 DEF SlotsInv
  <2>4. num.in[to] < num'.in[to]
    BY <1>1, <2>2
  <2>5. \A g \in Nodes \ {i} : thread'[g].at = "write" /\ thread'[g].to = to =>
          thread'[g].place # num.in[to]
    <3> TAKE g \in Nodes \ {i}
    <3>1. thread'[g] = thread[g]
      BY <1>1
    <3>2. thread[g].at = "write" => thread[g].place \in Nat /\ thread[g].place < num.in[thread[g].to]
      BY <1>1, WriterFacts
    <3> QED BY <3>1, <3>2, <2>2
  <2>6. thread'[i].slot <= Degree /\ cand'[i] \in Nodes /\ num'.out[i] < limit'.out[i]
    BY <1>1, <1>2, <1>3, <2>1 DEF Found
  <2> QED BY <1>1, <1>3, <1>5, <2>1, <2>3, <2>4, <2>5, <2>6 DEF Found
<1>6. CASE h # i
  <2>1. thread'[h] = thread[h]
    BY <1>1, <1>6
  <2>2. CASE thread[h].at # "write"
    BY <2>1, <2>2, <1>1, <1>2, <1>3 DEF Found
  <2>3. CASE thread[h].at = "write"
    <3>1. /\ thread[h].place \in Nat /\ thread[h].to \in Nodes
          /\ thread[h].place < num.in[thread[h].to]
      BY <1>1, <2>3, WriterFacts
    <3>2. thread[h].place < num'.in[thread[h].to]
      <4>1. num.in[thread[h].to] \in Nat
        BY <3>1, <1>2 DEF Shape
      <4>2. num'.in[thread[h].to] = num.in[thread[h].to] + 1
            \/ num'.in[thread[h].to] = num.in[thread[h].to]
        BY <1>1, <3>1
      <4> QED BY <3>1, <4>1, <4>2
    <3>3. \A g \in Nodes \ {h} : thread'[g].at = "write" /\ thread'[g].to = thread[h].to =>
            thread'[g].place # thread[h].place
      <4> TAKE g \in Nodes \ {h}
      <4>1. CASE g = i
        <5>1. thread'[i].at = "write" => thread'[i].to = to /\ thread'[i].place = num.in[to]
          BY <1>1
        <5>2. num.in[thread[h].to] \in Nat
          BY <3>1, <1>2 DEF Shape
        <5> QED BY <4>1, <5>1, <5>2, <3>1
      <4>2. CASE g # i
        BY <4>2, <1>1, <1>2, <2>3 DEF Found
      <4> QED BY <4>1, <4>2
    <3> QED BY <1>1, <1>2, <1>3, <2>1, <2>3, <3>2, <3>3 DEF Found
  <2> QED BY <2>2, <2>3
<1> QED BY <1>4, <1>5, <1>6

LEMMA FoundByWriteEdge ==
  ASSUME EdgesInv, NEW i \in Nodes, WriteEdge(i), NEW h \in Nodes
  PROVE  Found(h)'
<1> DEFINE to == thread[i].to
           at == Degree - thread[i].place
           n  == num.out[i] + 1
<1>1. /\ phase = "update" /\ job' = job /\ job.connect
      /\ UNCHANGED <<cand, limit>> /\ num'.in = num.in
      /\ \A j \in Nodes : num'.out[j] = IF j = i THEN n ELSE num.out[j]
      /\ thread[i].at = "write" /\ thread'[i] = Idle
      /\ \A g \in Nodes \ {i} : thread'[g] = thread[g]
      /\ n <= Degree - In(i)
      /\ \A j \in Nodes, s \in Slots :
           mst'[j][s] = IF j = to /\ s = at THEN i ELSE IF j = i /\ s = n THEN to ELSE mst[j][s]
  BY WriteEdgeFacts
<1>2. Shape /\ LimitsInv /\ Found(i) /\ Found(h) /\ Degree' = Degree
  BY <1>1 DEF EdgesInv, UpdateInv, Degree
<1>3. CASE h = i
  BY <1>1, <1>3 DEF Found, Idle
<1>4. CASE h # i /\ thread[h].at # "write"
  BY <1>1, <1>2, <1>4 DEF Found
<1>5. CASE h # i /\ thread[h].at = "write"
  <2> DEFINE th == thread[h].to
             ah == Degree - thread[h].place
  <2>1. th \in Nodes /\ ah \in Slots /\ Degree - In(th) < ah /\ mst[th][ah] = Empty
        /\ thread[h].place \in Nat
    BY <1>1, <1>5, WriterFacts
  <2>2. mst'[th][ah] = Empty
    <3>1. ~(th = to /\ ah = at)
      <4>1. th = to => thread[h].place # thread[i].place
        BY <1>1, <1>2, <1>5 DEF Found
      <4>2. thread[i].place \in Nat /\ Degree \in Nat
        BY <1>2, JobFacts DEF Shape, Threads
      <4> QED BY <4>1, <4>2, <2>1
    <3>2. ~(th = i /\ ah = n)
      <4>1. In(i) \in Nat /\ Degree \in Nat /\ num.out[i] \in Nat
        BY <1>1, <1>2, InIs
      <4> QED BY <4>1, <1>1, <2>1
    <3> HIDE DEF th, ah, n, at, to
    <3> QED BY <1>1, <2>1, <3>1, <3>2
  <2>3. thread'[h] = thread[h] /\ thread'[i].at # "write"
    BY <1>1, <1>5 DEF Idle
  <2>4. \A g \in Nodes \ {h} : thread'[g].at = "write" /\ thread'[g].to = th =>
          thread'[g].place # thread[h].place
    <3> TAKE g \in Nodes \ {h}
    <3> QED BY <2>3, <1>1, <1>2, <1>5 DEF Found
  <2> QED BY <1>1, <1>2, <1>5, <2>2, <2>3, <2>4 DEF Found
<1> QED BY <1>3, <1>4, <1>5

LEMMA UpdateStep == EdgesInv /\ [Next]_vars => UpdateInv'
<1> SUFFICES ASSUME EdgesInv, [Next]_vars, phase' = "update", NEW h \in Nodes PROVE Found(h)'
  BY DEF UpdateInv
<1>1. Degree' = Degree
  BY JobSame
<1>2. CASE Candidates
  <2>1. thread' = Launched("try")
    BY <1>2 DEF Candidates
  <2>2. thread'[h].at = "try"
    BY <2>1 DEF Launched, Idle
  <2> QED BY <2>2 DEF Found
<1>3. CASE phase = "update" /\ UNCHANGED <<thread, cand, mst, num, limit>>
  <2>1. Found(h)
    BY <1>3 DEF EdgesInv, UpdateInv
  <2> QED BY <2>1, <1>1, <1>3 DEF Found
<1>4. ASSUME NEW i \in Nodes, Try(i) \/ Alternate(i) PROVE Found(h)'
  <2>1. Found(i)' /\ thread'[i].at # "write" /\ \A g \in Nodes \ {i} : thread'[g] = thread[g]
    BY <1>4, FoundByTry, FoundByAlternate
  <2>2. phase = "update" /\ UNCHANGED <<job, cand, mst, num, limit>>
    BY <1>4 DEF Try, Alternate, tree
  <2>3. CASE h = i
    BY <2>1, <2>3
  <2>4. CASE h # i
    BY <2>1, <2>2, <2>4, OthersFound
  <2> QED BY <2>3, <2>4
<1> QED BY <1>2, <1>3, <1>4, PhaseSteps, FoundByTakePlace, FoundByWriteEdge DEF PhaseFacts

\* A slot that is awaited stays so until it is written.
LEMMA AwaitedKept ==
  ASSUME EdgesInv, [Next]_vars, Quiet, NEW i \in Nodes, NEW s \in Slots, Awaited(i, s)
  PROVE  Awaited(i, s)'
<1>1. Degree' = Degree /\ PhaseFacts /\ phase = "update"
  BY JobSame, PhaseSteps DEF Awaited
<1>2. PICK h \in Nodes : thread[h].at = "write" /\ thread[h].to = i /\ Degree - thread[h].place = s
  BY DEF Awaited
<1>3. phase' = "update"
  BY <1>1, <1>2 DEF PhaseFacts, Updated, AllDone
<1>4. thread'[h] = thread[h]
  <2>1. CASE UNCHANGED thread
    BY <2>1
  <2>2. ASSUME NEW g \in Nodes, Try(g) \/ Alternate(g) PROVE thread'[h] = thread[h]
    <3>1. g # h
      BY <2>2, <1>2 DEF Try, Alternate
    <3> QED BY <2>2, <3>1, FoundByTry, FoundByAlternate
  <2>3. ASSUME NEW g \in Nodes, TakePlace(g) \/ WriteEdge(g) PROVE FALSE
    <3>1. num \in Nums /\ Shape
      BY DEF EdgesInv, Shape, Nums
    <3>2. ASSUME TakePlace(g) PROVE FALSE
      <4>1. /\ thread[g].to \in Nodes
            /\ \A j \in Nodes : num'.in[j] = IF j = thread[g].to THEN num.in[j] + 1 ELSE num.in[j]
        BY <3>2, TakePlaceNumbers
      <4>2. num'.in[thread[g].to] = num.in[thread[g].to] + 1
        BY <4>1
      <4>3. num.in[thread[g].to] \in Nat /\ num' = num
        BY <4>1, <3>1 DEF Nums, Quiet
      <4> QED BY <4>2, <4>3
    <3>3. ASSUME WriteEdge(g) PROVE FALSE
      <4>1. num'.out[g] = num.out[g] + 1
        BY <3>3, WriteEdgeFacts
      <4>2. num.out[g] \in Nat /\ num' = num
        BY <3>1 DEF Nums, Quiet
      <4> QED BY <4>1, <4>2
    <3> QED BY <2>3, <3>2, <3>3
  <2> QED BY <1>1, <1>3, <2>1, <2>2, <2>3 DEF PhaseFacts
<1> QED BY <1>1, <1>2, <1>3, <1>4 DEF Awaited

\* What SlotsInv says of a slot.
SlotAgrees(i, s) ==
  /\ s <= num.out[i] => mst[i][s] # Empty
  /\ num.out[i] < s /\ s <= Degree - In(i) => mst[i][s] = Empty
  /\ Degree - In(i) < s /\ mst[i][s] = Empty => Awaited(i, s)

LEMMA SlotsByTakePlace ==
  ASSUME EdgesInv, [Next]_vars, NEW i \in Nodes, TakePlace(i), NEW j \in Nodes, NEW s \in Slots
  PROVE  SlotAgrees(j, s)'
<1> DEFINE to == thread[i].to
<1>1. /\ phase' = "update" /\ job.connect /\ Degree' = Degree /\ UNCHANGED mst
      /\ to \in Nodes /\ thread[i].at = "add" /\ num'.out = num.out
      /\ \A g \in Nodes \ {i} : thread'[g] = thread[g]
      /\ num.in[to] < limit.in[to] =>
           thread'[i] = [at |-> "write", to |-> to, slot |-> 0, place |-> num.in[to]]
  BY JobSame, TakePlaceNumbers
<1>2. In(j)' = IF j = to /\ num.in[j] < limit.in[j] THEN In(j) + 1 ELSE In(j)
  BY <1>1, InSteps
<1>3. SlotAgrees(j, s)
  BY <1>1 DEF EdgesInv, SlotsInv, SlotAgrees
<1>4. Awaited(j, s) => Awaited(j, s)'
  <2>1. SUFFICES ASSUME Awaited(j, s) PROVE Awaited(j, s)'
    OBVIOUS
  <2>2. PICK h \in Nodes : thread[h].at = "write" /\ thread[h].to = j /\ Degree - thread[h].place = s
    BY <2>1 DEF Awaited
  <2>3. thread'[h] = thread[h]
    BY <1>1, <2>2
  <2> QED BY <1>1, <2>2, <2>3 DEF Awaited
<1>5. CASE j = to /\ num.in[j] < limit.in[j]
  <2>1. /\ In(j) = num.in[j] /\ num.in[j] \in Nat /\ Degree \in Nat /\ num.out[j] <= limit.out[j]
        /\ limit.out[j] + limit.in[j] = Degree /\ limit.out[j] \in Nat /\ limit.in[j] \in Nat
    BY <1>1, <1>5, InIs DEF EdgesInv
  <2>2. CASE s = Degree - num.in[j]
    <3>1. Awaited(j, s)'
      <4>1. thread'[i] = [at |-> "write", to |-> j, slot |-> 0, place |-> num.in[j]]
        BY <1>1, <1>5
      <4> QED BY <1>1, <2>2, <4>1 DEF Awaited
    <3>2. s \in Nat /\ num.out[j] \in Nat /\ num.out[j] < s /\ ~(s <= Degree - (In(j) + 1))
      BY <2>1, <2>2, <1>5, InIs, <1>1 DEF EdgesInv, Slots
    <3> QED BY <1>1, <1>2, <1>5, <3>1, <3>2 DEF SlotAgrees
  <2>3. CASE s # Degree - num.in[j]
    <3>1. s \in Nat
      BY DEF Slots
    <3>2. /\ s <= Degree - (In(j) + 1) => s <= Degree - In(j)
          /\ Degree - (In(j) + 1) < s => Degree - In(j) < s
      BY <2>1, <2>3, <3>1
    <3> QED BY <1>1, <1>2, <1>3, <1>4, <1>5, <3>2 DEF SlotAgrees
  <2> QED BY <2>2, <2>3
<1>6. CASE ~(j = to /\ num.in[j] < limit.in[j])
  <2>1. In(j)' = In(j)
    BY <1>2, <1>6
  <2> QED BY <1>1, <1>3, <1>4, <2>1 DEF SlotAgrees
<1> QED BY <1>5, <1>6

LEMMA SlotsByWriteEdge ==
  ASSUME EdgesInv, [Next]_vars, NEW i \in Nodes, WriteEdge(i), NEW j \in Nodes, NEW s \in Slots
  PROVE  SlotAgrees(j, s)'
<1> DEFINE to == thread[i].to
           at == Degree - thread[i].place
           n  == num.out[i] + 1
<1>1. /\ phase' = "update" /\ job.connect /\ Degree' = Degree
      /\ \A g \in Nodes : num'.out[g] = IF g = i THEN n ELSE num.out[g]
      /\ thread[i].at = "write"
      /\ \A g \in Nodes \ {i} : thread'[g] = thread[g]
      /\ to \in Nodes \ {i} /\ at \in Slots /\ n \in Slots
      /\ Degree - In(to) < at /\ n <= Degree - In(i)
      /\ \A g \in Nodes, r \in Slots :
           mst'[g][r] = IF g = to /\ r = at THEN i ELSE IF g = i /\ r = n THEN to ELSE mst[g][r]
  BY JobSame, WriteEdgeFacts
<1>2. In(j)' = In(j) /\ i # Empty /\ to # Empty
  BY <1>1, InSteps, GraphFacts
<1>3. SlotAgrees(j, s)
  BY <1>1 DEF EdgesInv, SlotsInv, SlotAgrees
<1>4. Awaited(j, s) /\ ~(j = to /\ s = at) => Awaited(j, s)'
  <2>1. SUFFICES ASSUME Awaited(j, s), ~(j = to /\ s = at) PROVE Awaited(j, s)'
    OBVIOUS
  <2>2. PICK h \in Nodes : thread[h].at = "write" /\ thread[h].to = j /\ Degree - thread[h].place = s
    BY <2>1 DEF Awaited
  <2>3. thread'[h] = thread[h]
    BY <1>1, <2>1, <2>2
  <2> QED BY <1>1, <2>2, <2>3 DEF Awaited
<1>5. /\ In(j) \in Nat /\ num.out[j] \in Nat /\ Degree \in Nat /\ s \in Nat
      /\ num.out[j] <= Degree - In(j) /\ at \in Nat
  <2>1. /\ In(j) \in Nat /\ num.out[j] \in Nat /\ Degree \in Nat
        /\ num.out[j] <= limit.out[j] /\ limit.out[j] + limit.in[j] = Degree /\ In(j) <= limit.in[j]
        /\ limit.out[j] \in Nat /\ limit.in[j] \in Nat
    BY <1>1, InIs DEF EdgesInv
  <2> HIDE DEF at
  <2>2. s \in Nat /\ at \in Nat
    BY <1>1 DEF Slots
  <2> QED BY <2>1, <2>2
<1>6. mst'[j][s] = IF j = to /\ s = at THEN i ELSE IF j = i /\ s = n THEN to ELSE mst[j][s]
  BY <1>1
<1>7. num'.out[j] = IF j = i THEN n ELSE num.out[j]
  BY <1>1
<1> HIDE DEF at
<1>8. CASE j = to /\ s = at
  BY <1>1, <1>2, <1>5, <1>6, <1>7, <1>8 DEF SlotAgrees
<1>9. CASE ~(j = to /\ s = at) /\ j = i
  BY <1>1, <1>2, <1>3, <1>4, <1>5, <1>6, <1>7, <1>9 DEF SlotAgrees
<1>10. CASE ~(j = to /\ s = at) /\ j # i
  BY <1>1, <1>2, <1>3, <1>4, <1>5, <1>6, <1>7, <1>10 DEF SlotAgrees
<1> QED BY <1>8, <1>9, <1>10

LEMMA SlotsStep == EdgesInv /\ [Next]_vars => SlotsInv'
<1> SUFFICES ASSUME EdgesInv, [Next]_vars, job.connect, NEW i \in Nodes, NEW s \in Slots
             PROVE  SlotAgrees(i, s)'
  BY JobSame DEF SlotsInv, SlotAgrees
<1>1. SlotAgrees(i, s) /\ Degree' = Degree
  BY JobSame DEF EdgesInv, SlotsInv, SlotAgrees
<1>2. CASE Quiet
  <2>1. In(i)' = In(i) /\ (Awaited(i, s) => Awaited(i, s)')
    BY <1>2, InSteps, AwaitedKept
  <2> QED BY <1>1, <1>2, <2>1 DEF SlotAgrees, Quiet
<1>3. CASE Adjust
  <2>1. In(i)' = In(i) /\ num'.out = num.out
    BY <1>3, InSteps, AdjustNumbers DEF EdgesInv
  <2>2. mst' = mst /\ ~Awaited(i, s)
    BY <1>3 DEF Adjust, Awaited
  <2> QED BY <1>1, <2>1, <2>2 DEF SlotAgrees
<1> QED BY <1>2, <1>3, SlotsByTakePlace, SlotsByWriteEdge, QuietSteps

LEMMA RowFacts ==
  ASSUME EdgesInv, job.connect, NEW i \in Nodes, NEW j
  PROVE  /\ IsFiniteSet(OutTo(i, j)) /\ OutTo(i, j) \subseteq 1..num.out[i]
         /\ IsFiniteSet(InFrom(i, j)) /\ InFrom(i, j) \subseteq Degree - In(i) + 1 .. Degree
         /\ OutTo(i, j) \subseteq Slots /\ InFrom(i, j) \subseteq Slots
<1>1. /\ num.out[i] \in Nat /\ In(i) \in Nat /\ Degree \in Nat /\ In(i) <= Degree
      /\ num.out[i] <= Degree
  <2>1. Shape /\ LimitsInv
    BY DEF EdgesInv
  <2> QED BY <2>1, InIs
<1>2. IsFiniteSet(1..num.out[i]) /\ IsFiniteSet(Degree - In(i) + 1 .. Degree)
  <2>1. num.out[i] \in Int /\ 1 \in Int /\ Degree \in Int /\ Degree - In(i) + 1 \in Int
    BY <1>1
  <2> QED BY <2>1, FS_Interval
<1>3. OutTo(i, j) \subseteq 1..num.out[i] /\ InFrom(i, j) \subseteq Degree - In(i) + 1 .. Degree
  BY DEF OutTo, InFrom, Holding
<1> QED BY <1>1, <1>2, <1>3, FS_Subset DEF Slots

LEMMA EndsByWriteEdge ==
  ASSUME EdgesInv, [Next]_vars, NEW w \in Nodes, WriteEdge(w), NEW i \in Nodes, NEW j \in Nodes
  PROVE  Cardinality(OutTo(i, j)') = Cardinality(InFrom(j, i)')
<1> DEFINE to == thread[w].to
           at == Degree - thread[w].place
           n  == num.out[w] + 1
<1>1. /\ job.connect /\ Degree' = Degree
      /\ \A g \in Nodes : num'.out[g] = IF g = w THEN n ELSE num.out[g]
      /\ to \in Nodes \ {w} /\ at \in Slots /\ n \in Slots
      /\ Degree - In(to) < at /\ n <= Degree - In(w) /\ mst[to][at] = Empty
      /\ \A g \in Nodes, r \in Slots :
           mst'[g][r] = IF g = to /\ r = at THEN w ELSE IF g = w /\ r = n THEN to ELSE mst[g][r]
  BY JobSame, WriteEdgeFacts
<1>2. In(j)' = In(j) /\ In(i)' = In(i)
  BY <1>1, InSteps
<1>3. Cardinality(OutTo(i, j)) = Cardinality(InFrom(j, i))
  BY <1>1 DEF EdgesInv, EndsInv
<1>4. \A g \in Nodes :
        /\ In(g) \in Nat /\ num.out[g] \in Nat /\ Degree \in Nat /\ In(g) <= Degree
        /\ num.out[g] <= Degree - In(g)
  <2> TAKE g \in Nodes
  <2>1. /\ In(g) \in Nat /\ num.out[g] \in Nat /\ Degree \in Nat
        /\ num.out[g] <= limit.out[g] /\ limit.out[g] + limit.in[g] = Degree /\ In(g) <= limit.in[g]
        /\ limit.out[g] \in Nat /\ limit.in[g] \in Nat
    BY <1>1, InIs DEF EdgesInv
  <2> QED BY <2>1
<1> HIDE DEF at
<1>5. at \in Nat
  BY <1>1 DEF Slots
<1>6. OutTo(i, j)' = IF i = w /\ j = to THEN OutTo(i, j) \union {n} ELSE OutTo(i, j)
  <2>1. OutTo(i, j)' = {s \in 1..num'.out[i] : mst'[i][s] = j}
    BY DEF OutTo, Holding
  <2>2. OutTo(i, j) = {s \in 1..num.out[i] : mst[i][s] = j}
    BY DEF OutTo, Holding
  <2>3. \A s \in 1..num.out[i] : s \in Slots /\ mst'[i][s] = mst[i][s]
    <3> TAKE s \in 1..num.out[i]
    <3>1. s \in Slots
      BY <1>4 DEF Slots
    <3>2. ~(i = to /\ s = at)
      BY <1>1, <1>4, <1>5
    <3>3. ~(i = w /\ s = n)
      BY <1>4
    <3> QED BY <3>1, <3>2, <3>3, <1>1
  <2>4. CASE i # w
    BY <2>1, <2>2, <2>3, <2>4, <1>1
  <2>5. CASE i = w
    <3>1. mst'[i][n] = to /\ num'.out[i] = n
      BY <1>1, <2>5
    <3>2. 1..n = 1..num.out[i] \union {n}
      BY <2>5, <1>4
    <3> QED BY <2>1, <2>2, <2>3, <2>5, <3>1, <3>2
  <2> QED BY <2>4, <2>5
<1>7. InFrom(j, i)' = IF i = w /\ j = to THEN InFrom(j, i) \union {at} ELSE InFrom(j, i)
  <2> DEFINE back == Degree - In(j) + 1 .. Degree
  <2>1. InFrom(j, i)' = {s \in back : mst'[j][s] = i}
    BY <1>1, <1>2 DEF InFrom, Holding
  <2>2. InFrom(j, i) = {s \in back : mst[j][s] = i}
    BY DEF InFrom, Holding
  <2>3. \A s \in back : s \in Slots /\ (mst'[j][s] = IF j = to /\ s = at THEN w ELSE mst[j][s])
    <3> TAKE s \in back
    <3>1. s \in Slots
      BY <1>4 DEF Slots
    <3>2. ~(j = w /\ s = n)
      BY <1>1, <1>4
    <3> QED BY <3>1, <3>2, <1>1
  <2>4. j = to => at \in back
    <3>1. at <= Degree
      BY <1>1 DEF Slots
    <3> QED BY <1>1, <1>4, <1>5, <3>1
  <2> HIDE DEF back
  <2>5. i # Empty
    BY GraphFacts
  <2> QED BY <2>1, <2>2, <2>3, <2>4, <2>5, <1>1
<1>8. CASE i = w /\ j = to
  <2>1. n \notin OutTo(i, j) /\ at \notin InFrom(j, i)
    <3>1. OutTo(i, j) \subseteq 1..num.out[i]
      BY <1>1, RowFacts
    <3>2. n \notin 1..num.out[i]
      BY <1>4, <1>8
    <3>3. mst[j][at] # i
      BY <1>1, <1>8, GraphFacts
    <3> QED BY <3>1, <3>2, <3>3 DEF InFrom, Holding
  <2>2. IsFiniteSet(OutTo(i, j)) /\ IsFiniteSet(InFrom(j, i))
    BY <1>1, RowFacts
  <2>3. /\ Cardinality(OutTo(i, j) \union {n}) = Cardinality(OutTo(i, j)) + 1
        /\ Cardinality(InFrom(j, i) \union {at}) = Cardinality(InFrom(j, i)) + 1
    BY <2>1, <2>2, FS_AddElement
  <2> QED BY <1>3, <1>6, <1>7, <1>8, <2>3
<1>9. CASE ~(i = w /\ j = to)
  BY <1>3, <1>6, <1>7, <1>9
<1> QED BY <1>8, <1>9

LEMMA EndsStep == EdgesInv /\ [Next]_vars => EndsInv'
<1> SUFFICES ASSUME EdgesInv, [Next]_vars, job.connect, NEW i \in Nodes, NEW j \in Nodes
             PROVE  Cardinality(OutTo(i, j)') = Cardinality(InFrom(j, i)')
  BY JobSame DEF EndsInv
<1>1. Degree' = Degree /\ Cardinality(OutTo(i, j)) = Cardinality(InFrom(j, i))
  BY JobSame DEF EdgesInv, EndsInv
<1>2. CASE Quiet \/ Adjust
  <2>1. In(j)' = In(j) /\ num'.out = num.out /\ mst' = mst
    BY <1>2, InSteps, AdjustNumbers DEF EdgesInv, Quiet, Adjust
  <2>2. OutTo(i, j)' = OutTo(i, j) /\ InFrom(j, i)' = InFrom(j, i)
    BY <1>1, <2>1 DEF OutTo, InFrom, Holding
  <2> QED BY <1>1, <2>2
<1>3. ASSUME NEW w \in Nodes, TakePlace(w)
      PROVE  OutTo(i, j)' = OutTo(i, j) /\ InFrom(j, i)' = InFrom(j, i)
  <2>1. num'.out = num.out /\ mst' = mst
    BY <1>3, TakePlaceNumbers
  <2>2. \/ In(j)' = In(j)
        \/ In(j)' = In(j) + 1 /\ num.in[j] < limit.in[j]
    BY <1>3, InSteps
  <2>3. OutTo(i, j)' = OutTo(i, j)
    BY <2>1 DEF OutTo, Holding
  <2>4. CASE In(j)' = In(j)
    BY <1>1, <2>1, <2>3, <2>4 DEF InFrom, Holding
  <2>5. CASE In(j)' = In(j) + 1 /\ num.in[j] < limit.in[j]
    <3> DEFINE s == Degree - In(j)
    <3>1. /\ In(j) = num.in[j] /\ num.in[j] \in Nat /\ Degree \in Nat /\ num.out[j] <= limit.out[j]
          /\ limit.out[j] + limit.in[j] = Degree /\ limit.out[j] \in Nat /\ limit.in[j] \in Nat
          /\ num.out[j] \in Nat
      BY <2>5, InIs DEF EdgesInv
    <3>2. s \in Slots /\ num.out[j] < s /\ s <= Degree - In(j)
      BY <2>5, <3>1 DEF Slots
    <3>3. mst[j][s] = Empty
      BY <3>2 DEF EdgesInv, SlotsInv
    <3>4. Degree - (In(j) + 1) + 1 .. Degree = (Degree - In(j) + 1 .. Degree) \union {s}
      BY <2>5, <3>1
    <3>5. i # Empty
      BY GraphFacts
    <3>6. InFrom(j, i)' = {r \in Degree - (In(j) + 1) + 1 .. Degree : mst[j][r] = i}
      BY <1>1, <2>1, <2>5 DEF InFrom, Holding
    <3> QED BY <2>3, <3>3, <3>4, <3>5, <3>6 DEF InFrom, Holding
  <2> QED BY <2>2, <2>4, <2>5
<1>4. ASSUME NEW w \in Nodes, WriteEdge(w)
      PROVE  Cardinality(OutTo(i, j)') = Cardinality(InFrom(j, i)')
  BY <1>4, EndsByWriteEdge
<1> QED BY <1>1, <1>2, <1>3, <1>4, QuietSteps

LEMMA EdgesInvInit == Init => EdgesInv
<1> SUFFICES ASSUME Init PROVE EdgesInv
  OBVIOUS
<1>1. Shape
  BY ShapeInit
<1>2. /\ Degree \in Nat /\ phase # "update" /\ (phase \in MstPhases => job.connect)
      /\ (job.connect => Degree >= 2)
  BY <1>1, JobFacts DEF Init, MstPhases, Shape
<1>3. \A i \in Nodes : /\ num.out[i] = 0 /\ num.in[i] = 0
                       /\ limit.out[i] = 2 /\ limit.in[i] = Degree - 2 /\ mst[i] = Row(Empty)
  BY DEF Init
<1>4. LimitsInv
  BY <1>2, <1>3 DEF LimitsInv
<1>5. UpdateInv
  BY <1>2 DEF UpdateInv
<1>6. ASSUME job.connect, NEW i \in Nodes PROVE In(i) = 0
  <2>1. num.in[i] = 0 /\ limit.in[i] \in Int /\ 0 <= limit.in[i] /\ 0 \in Int
    BY <1>2, <1>3, <1>6
  <2> QED BY <2>1, MinOfTwo DEF In
<1>7. SlotsInv
  <2> SUFFICES ASSUME job.connect, NEW i \in Nodes, NEW s \in Slots
               PROVE  /\ s <= num.out[i] => mst[i][s] # Empty
                      /\ num.out[i] < s /\ s <= Degree - In(i) => mst[i][s] = Empty
                      /\ Degree - In(i) < s /\ mst[i][s] = Empty => Awaited(i, s)
    BY DEF SlotsInv
  <2>1. s \in Nat /\ s > 0 /\ s <= Degree
    BY <1>2 DEF Slots
  <2>2. mst[i][s] = Empty
    BY <1>3 DEF Row
  <2> QED BY <2>1, <2>2, <1>2, <1>3, <1>6
<1>8. EndsInv
  <2> SUFFICES ASSUME job.connect, NEW i \in Nodes, NEW j \in Nodes
               PROVE  Cardinality(OutTo(i, j)) = Cardinality(InFrom(j, i))
    BY DEF EndsInv
  <2>1. OutTo(i, j) = {}
    BY <1>3 DEF OutTo, Holding
  <2>2. InFrom(j, i) = {}
    BY <1>2, <1>6 DEF InFrom, Holding
  <2> QED BY <2>1, <2>2
<1> QED BY <1>1, <1>4, <1>5, <1>7, <1>8 DEF EdgesInv

LEMMA EdgesInvStep == GraphInv /\ [Next]_vars => EdgesInv'
BY ShapeStep, LimitsStep, UpdateStep, SlotsStep, EndsStep DEF GraphInv, EdgesInv

LEMMA EdgesAgreeFollows == EdgesInv => EdgesAgree
<1> SUFFICES ASSUME EdgesInv, phase \in {"adjust", "store"}, NEW i \in Nodes
             PROVE  LET in(j) == Min({num.in[j], limit.in[j]}) IN
                    /\ num.out[i] + in(i) <= Degree
                    /\ \A j \in Nodes :
                         Cardinality(Holding(mst[i], 1, num.out[i], j))
                           = Cardinality(Holding(mst[j], Degree - in(j) + 1, Degree, i))
                    /\ \A s \in Slots : mst[i][s] = Empty <=> s \in num.out[i] + 1 .. Degree - in(i)
  BY DEF EdgesAgree
<1>1. job.connect /\ Shape /\ LimitsInv /\ SlotsInv /\ EndsInv
  BY DEF EdgesInv, LimitsInv, MstPhases
<1>2. /\ num.out[i] \in Nat /\ limit.out[i] \in Nat /\ limit.in[i] \in Nat /\ Degree \in Nat
      /\ limit.out[i] + limit.in[i] = Degree /\ num.out[i] <= limit.out[i]
      /\ In(i) \in Nat /\ In(i) <= limit.in[i]
  BY <1>1, InIs
<1>3. num.out[i] + In(i) <= Degree
  BY <1>2
<1>4. ASSUME NEW j \in Nodes
      PROVE  Cardinality(Holding(mst[i], 1, num.out[i], j))
               = Cardinality(Holding(mst[j], Degree - In(j) + 1, Degree, i))
  BY <1>1 DEF EndsInv, OutTo, InFrom
<1>5. ASSUME NEW s \in Slots
      PROVE  mst[i][s] = Empty <=> s \in num.out[i] + 1 .. Degree - In(i)
  <2>1. s \in Nat /\ ~Awaited(i, s)
    BY DEF Slots, Awaited
  <2>2. /\ s <= num.out[i] => mst[i][s] # Empty
        /\ num.out[i] < s /\ s <= Degree - In(i) => mst[i][s] = Empty
        /\ Degree - In(i) < s => mst[i][s] # Empty
    BY <1>1, <2>1 DEF SlotsInv
  <2> QED BY <1>2, <2>1, <2>2
<1> QED BY <1>3, <1>4, <1>5 DEF In

-----------------------------------------------------------------------------
(* The labels.                                                             *)

LEMMA RangeOfRow ==
  ASSUME NEW m \in [Nodes -> [Slots -> Ends]], NEW j \in Nodes, NEW U
  PROVE  Range(m[j]) \subseteq U <=> \A s \in Slots : m[j][s] \in U
BY DEF Range

LEMMA ClosedIs ==
  ASSUME Shape, NEW T
  PROVE  T \in Closed <=>
           T \subseteq Nodes /\ \A j \in T, s \in Slots : mst[j][s] = Empty \/ mst[j][s] \in T
<1>1. mst \in [Nodes -> [Slots -> Ends]]
  BY DEF Shape
<1>2. \A j \in Nodes : Range(mst[j]) \subseteq T \union {Empty}
                         <=> \A s \in Slots : mst[j][s] \in T \union {Empty}
  BY <1>1, RangeOfRow
<1> QED BY <1>2 DEF Closed

\* A new edge separates no less: what was closed with it was closed before.
LEMMA ClosedStep ==
  ASSUME GraphInv, [Next]_vars, NEW T \in Closed'
  PROVE  T \in Closed
<1>1. Shape /\ EdgesInv
  BY DEF GraphInv, EdgesInv
<1>2. Slots' = Slots /\ mst' \in [Nodes -> [Slots -> Ends]]
  BY JobSame, ShapeStep DEF Shape
<1>3. T \subseteq Nodes /\ \A j \in T : Range(mst'[j]) \subseteq T \union {Empty}
  BY DEF Closed
<1>4. \A j \in T, s \in Slots : mst'[j][s] \in T \union {Empty}
  BY <1>2, <1>3, RangeOfRow
<1>5. \A j \in Nodes, s \in Slots : mst[j][s] = Empty \/ mst'[j][s] = mst[j][s]
  <2>1. ASSUME NEW i \in Nodes, WriteEdge(i), NEW j \in Nodes, NEW s \in Slots
        PROVE  mst[j][s] = Empty \/ mst'[j][s] = mst[j][s]
    BY <1>1, <2>1, WriteEdgeFacts
  <2>2. Quiet \/ Adjust \/ (\E i \in Nodes : TakePlace(i)) => mst' = mst
    BY DEF Quiet, Adjust, TakePlace
  <2> QED BY <2>1, <2>2, QuietSteps
<1>6. \A j \in T, s \in Slots : mst[j][s] = Empty \/ mst[j][s] \in T
  BY <1>3, <1>4, <1>5
<1> QED BY <1>1, <1>3, <1>6, ClosedIs

\* Each edge of the spanning graph can be found from its other end.
LEMMA OtherEnd ==
  ASSUME EdgesInv, phase = "label", NEW i \in Nodes, NEW s \in Slots, mst[i][s] # Empty
  PROVE  mst[i][s] \in Nodes /\ \E r \in Slots : mst[mst[i][s]][r] = i
<1> DEFINE j == mst[i][s]
<1>1. job.connect /\ Shape /\ ~Awaited(i, s)
  BY DEF EdgesInv, LimitsInv, MstPhases, Awaited
<1>2. j \in Nodes
  BY <1>1 DEF Shape, Ends
<1>3. /\ num.out[i] \in Nat /\ In(i) \in Nat /\ Degree \in Nat /\ s \in Nat /\ s > 0 /\ s <= Degree
  <2>1. num.out[i] \in Nat /\ In(i) \in Nat /\ Degree \in Nat
    BY <1>1, InIs DEF EdgesInv
  <2> QED BY <2>1 DEF Slots
<1>4. s <= num.out[i] \/ Degree - In(i) < s
  BY <1>1, <1>3 DEF EdgesInv, SlotsInv
<1>5. s \in OutTo(i, j) \/ s \in InFrom(i, j)
  BY <1>3, <1>4 DEF OutTo, InFrom, Holding
<1>6. /\ Cardinality(OutTo(i, j)) = Cardinality(InFrom(j, i))
      /\ Cardinality(OutTo(j, i)) = Cardinality(InFrom(i, j))
  BY <1>1, <1>2 DEF EdgesInv, EndsInv
<1>7. \A x, y \in Nodes : /\ IsFiniteSet(OutTo(x, y)) /\ IsFiniteSet(InFrom(x, y))
                          /\ OutTo(x, y) \subseteq Slots /\ InFrom(x, y) \subseteq Slots
  BY <1>1, RowFacts
<1>8. InFrom(j, i) # {} \/ OutTo(j, i) # {}
  <2> HIDE DEF j
  <2>1. CASE s \in OutTo(i, j)
    <3>1. Cardinality(OutTo(i, j)) # 0
      BY <1>2, <1>7, <2>1, FS_EmptySet
    <3>2. Cardinality(InFrom(j, i)) # 0
      BY <1>6, <3>1
    <3> QED BY <3>2, FS_EmptySet
  <2>2. CASE s \in InFrom(i, j)
    <3>1. Cardinality(InFrom(i, j)) # 0
      BY <1>2, <1>7, <2>2, FS_EmptySet
    <3>2. Cardinality(OutTo(j, i)) # 0
      BY <1>6, <3>1
    <3> QED BY <3>2, FS_EmptySet
  <2> QED BY <1>5, <2>1, <2>2
<1>9. \A r : r \in InFrom(j, i) \/ r \in OutTo(j, i) => mst[j][r] = i
  BY DEF InFrom, OutTo, Holding
<1> QED BY <1>2, <1>7, <1>8, <1>9

\* A closed set has both ends of an edge, or none.
LEMMA BothOrNone ==
  ASSUME EdgesInv, phase = "label", NEW i \in Nodes, NEW s \in Slots, mst[i][s] # Empty,
         NEW T \in Closed
  PROVE  i \in T <=> mst[i][s] \in T
<1>1. mst[i][s] \in Nodes /\ \E r \in Slots : mst[mst[i][s]][r] = i
  BY OtherEnd
<1>2. i # Empty
  BY GraphFacts
<1>3. T \subseteq Nodes /\ \A j \in T, r \in Slots : mst[j][r] = Empty \/ mst[j][r] \in T
  BY ClosedIs DEF EdgesInv
<1> QED BY <1>1, <1>2, <1>3

\* Which steps lead into the labelling kernel, out of it, and through it.
LabelFacts ==
  /\ phase' = "label" =>
       \/ Updated \/ Labelled \/ \E i \in Nodes : Look(i) \/ Join(i)
       \/ phase = "label" /\ UNCHANGED <<thread, mst, label, changed>>
  /\ phase' = "adjust" => Labelled \/ (phase = "adjust" /\ UNCHANGED <<mst, label>>)
  /\ UNCHANGED label \/ \E i \in Nodes : Look(i) \/ Join(i)

LEMMA LabelSteps == ASSUME [Next]_vars PROVE LabelFacts
<1>1. ASSUME Candidates \/ Updated \/ Labelled \/ Adjust \/ Store PROVE LabelFacts
  <2>1. CASE Candidates
    BY <2>1 DEF Candidates, LabelFacts
  <2>2. CASE Updated
    BY <2>2 DEF Updated, LabelFacts
  <2>3. CASE Labelled
    BY <2>3 DEF Labelled, LabelFacts
  <2>4. CASE Adjust
    BY <2>4 DEF Adjust, LabelFacts
  <2>5. CASE Store
    BY <2>5 DEF Store, LabelFacts
  <2> QED BY <1>1, <2>1, <2>2, <2>3, <2>4, <2>5
<1>2. ASSUME Prune \/ Reversed \/ Merged PROVE LabelFacts
  BY <1>2 DEF Prune, Reversed, Merged, tree, LabelFacts
<1>3. ASSUME NEW i \in Nodes, Look(i) \/ Join(i) PROVE LabelFacts
  BY <1>3 DEF Look, Join, LabelFacts
<1>4. ASSUME NEW i \in Nodes, Try(i) \/ Alternate(i) \/ TakePlace(i) \/ WriteEdge(i)
      PROVE  LabelFacts
  BY <1>4 DEF Try, Alternate, TakePlace, WriteEdge, tree, LabelFacts
<1>5. ASSUME NEW i \in Nodes, AddReverse(i) \/ AppendPruned(i) \/ ReplaceByReverse(i)
      PROVE  LabelFacts
  BY <1>5 DEF AddReverse, AppendPruned, ReplaceByReverse, Turn, tree, LabelFacts
<1>6. ASSUME UNCHANGED vars PROVE LabelFacts
  BY <1>6 DEF vars, tree, LabelFacts
<1> QED BY <1>1, <1>2, <1>3, <1>4, <1>5, <1>6 DEF Next, Host, Thread

LEMMA LabelsInParts ==
  ASSUME GraphInv, [Next]_vars, NEW T \in Closed', NEW x \in T
  PROVE  label'[x] \in T
<1>1. /\ Shape /\ EdgesInv /\ LabelsInv /\ T \in Closed /\ x \in Nodes
      /\ \A y \in T : label[y] \in T
  <2>1. T \in Closed
    BY ClosedStep
  <2> QED BY <2>1, ClosedIs DEF GraphInv, EdgesInv, LabelsInv
<1>2. CASE label' = label
  BY <1>1, <1>2
<1>3. ASSUME NEW i \in Nodes, Look(i) PROVE label'[x] \in T
  <2>1. label'[x] = label[x] \/ label'[x] = Root(x)
    BY <1>1, <1>3, LookLabel
  <2>2. Lowering(label)
    BY <1>1, LoweringLabel
  <2>3. RootOf(label)[x] \in T
    BY <1>1, <2>2, RootFacts
  <2> QED BY <1>1, <2>1, <2>3, RootLabel
<1>4. ASSUME NEW i \in Nodes, Join(i) PROVE label'[x] \in T
  <2> DEFINE s == thread[i].slot
             j == mst[i][s]
  <2>1. /\ s \in Slots /\ j \in Nodes
        /\ label'[x] = label[x] \/ (x \in {i, j} /\ label'[x] \in {thread[i].to, thread[i].place})
    BY <1>1, <1>4, JoinLabel
  <2>2. phase = "label" /\ thread[i].at = "join"
    BY <1>4 DEF Join
  <2>3. j # Empty
    BY <2>1, GraphFacts
  <2>4. i \in T <=> j \in T
    BY <1>1, <2>1, <2>2, <2>3, BothOrNone
  <2>5. i \in T => thread[i].to \in T /\ thread[i].place \in T
    BY <1>1, <2>2 DEF LabelsInv, OnEdge
  <2> HIDE DEF s, j
  <2> QED BY <1>1, <2>1, <2>4, <2>5
<1> QED BY <1>2, <1>3, <1>4, LabelSteps DEF LabelFacts

LEMMA OnEdgeAfter ==
  ASSUME job \in Jobs, UNCHANGED <<job, mst>>, NEW h, NEW s \in Nat \ {0}, thread'[h] = Edge(h, s)
  PROVE  OnEdge(h)'
<1>1. Slots' = Slots
  BY DEF Slots, Degree
<1>2. /\ Edge(h, s).at \in {"look", "done"}
      /\ Edge(h, s).at = "look" => Edge(h, s).slot \in Slots /\ mst[h][Edge(h, s).slot] # Empty
  BY EdgeType
<1> QED BY <1>1, <1>2 DEF OnEdge

\* Where the thread of a node is after its step.
LEMMA LabelThread ==
  ASSUME GraphInv, NEW i \in Nodes, Look(i) \/ Join(i)
  PROVE  /\ UNCHANGED <<job, mst>> /\ Degree' = Degree /\ Slots' = Slots
         /\ phase = "label" /\ thread[i].at \in {"look", "join"}
         /\ thread[i].slot \in Slots /\ thread[i].slot \in Nat
         /\ thread[i].slot + 1 \in Nat \ {0} /\ mst[i][thread[i].slot] \in Nodes
         /\ \A h \in Nodes \ {i} : thread'[h] = thread[h]
         /\ \/ thread'[i] = Edge(i, thread[i].slot + 1)
            \/ Look(i) /\ LET j == mst[i][thread[i].slot] IN
                 /\ thread'[i] = [at |-> "join", to |-> Root(i), slot |-> thread[i].slot,
                                  place |-> Root(j)]
                 /\ Root(i) # Root(j)
<1> DEFINE s == thread[i].slot
           j == mst[i][s]
<1>1. Shape /\ LabelsInv /\ job \in Jobs
  BY DEF GraphInv, EdgesInv, Shape
<1>2. /\ UNCHANGED <<job, mst>> /\ Degree' = Degree /\ Slots' = Slots
      /\ phase = "label" /\ thread[i].at \in {"look", "join"}
  BY DEF Look, Join, Degree, Slots
<1>3. s \in Slots /\ j \in Nodes
  BY <1>1, LookLabel, JoinLabel
<1>4. s \in Nat /\ s + 1 \in Nat \ {0}
  <2> HIDE DEF s
  <2>1. s \in Nat /\ s >= 1
    BY <1>3 DEF Slots
  <2> QED BY <2>1
<1>5. \/ thread' = [thread EXCEPT ![i] = Edge(i, s + 1)]
      \/ Look(i) /\ Root(i) # Root(j) /\ Go(i, "join", Root(i), s, Root(j))
  BY DEF Look, Join
<1>6. /\ Root(i) \in Ends /\ Root(j) \in Nat /\ "join" \in Places
  BY <1>1, <1>3, LoweringLabel, GraphFacts DEF Ends, Places
<1>7. thread \in [Nodes -> Threads]
  BY <1>1 DEF Shape
<1> HIDE DEF s, j
<1>8. CASE thread' = [thread EXCEPT ![i] = Edge(i, s + 1)]
  BY <1>2, <1>3, <1>4, <1>7, <1>8 DEF s, j
<1>9. CASE Look(i) /\ Root(i) # Root(j) /\ Go(i, "join", Root(i), s, Root(j))
  <2>1. /\ thread'[i] = [at |-> "join", to |-> Root(i), slot |-> s, place |-> Root(j)]
        /\ \A h \in Nodes \ {i} : thread'[h] = thread[h]
    BY <1>1, <1>4, <1>6, <1>9, GoType
  <2> QED BY <1>2, <1>3, <1>4, <1>9, <2>1 DEF s, j
<1> QED BY <1>5, <1>8, <1>9

LEMMA OnEdgeStep ==
  ASSUME GraphInv, [Next]_vars, phase' = "label", NEW h \in Nodes
  PROVE  OnEdge(h)'
<1>1. Shape /\ EdgesInv /\ LabelsInv /\ job \in Jobs /\ job' = job /\ Slots' = Slots
  BY JobSame DEF GraphInv, EdgesInv, Shape
<1>2. ASSUME phase = "label", mst' = mst, thread'[h] = thread[h] PROVE OnEdge(h)'
  <2>1. OnEdge(h)
    BY <1>1, <1>2 DEF LabelsInv
  <2>2. \A T \in Closed' : T \in Closed
    BY ClosedStep
  <2> QED BY <2>1, <2>2, <1>1, <1>2 DEF OnEdge
<1>3. CASE Updated \/ Labelled
  <2>1. mst' = mst /\ thread' = [i \in Nodes |-> Edge(i, 1)]
    BY <1>3 DEF Updated, Labelled
  <2>2. thread'[h] = Edge(h, 1) /\ 1 \in Nat \ {0}
    BY <2>1
  <2> QED BY <1>1, <2>1, <2>2, OnEdgeAfter
<1>4. ASSUME NEW i \in Nodes, Look(i) \/ Join(i) PROVE OnEdge(h)'
  <2> DEFINE s == thread[i].slot
             j == mst[i][s]
  <2>1. /\ UNCHANGED mst /\ phase = "label"
        /\ s \in Slots /\ s + 1 \in Nat \ {0} /\ j \in Nodes
        /\ \A g \in Nodes \ {i} : thread'[g] = thread[g]
        /\ \/ thread'[i] = Edge(i, s + 1)
           \/ thread'[i] = [at |-> "join", to |-> Root(i), slot |-> s, place |-> Root(j)]
    BY <1>4, LabelThread
  <2>2. CASE h # i
    BY <2>1, <2>2, <1>2
  <2>3. CASE h = i /\ thread'[i] = Edge(i, s + 1)
    BY <1>1, <2>1, <2>3, OnEdgeAfter
  <2>4. CASE h = i /\ thread'[i] = [at |-> "join", to |-> Root(i), slot |-> s, place |-> Root(j)]
    <3>1. Root(i) \in Nodes /\ Root(j) \in Nodes /\ Lowering(label)
      BY <1>1, <2>1, LoweringLabel
    <3>2. ASSUME NEW T \in Closed', i \in T PROVE Root(i) \in T /\ Root(j) \in T
      <4>1. T \in Closed /\ \A y \in T : label[y] \in T
        BY <1>1, ClosedStep DEF LabelsInv
      <4>2. j # Empty
        BY <2>1, GraphFacts
      <4>3. j \in T
        BY <1>1, <2>1, <3>2, <4>1, <4>2, BothOrNone
      <4>4. RootOf(label)[i] \in T /\ RootOf(label)[j] \in T
        BY <2>1, <3>1, <3>2, <4>1, <4>3, RootFacts
      <4> QED BY <4>4, RootLabel
    <3>3. j # Empty
      BY <2>1, GraphFacts
    <3> QED BY <1>1, <2>1, <2>4, <3>1, <3>2, <3>3 DEF OnEdge
  <2> QED BY <2>1, <2>2, <2>3, <2>4
<1>5. CASE phase = "label" /\ UNCHANGED <<thread, mst, label, changed>>
  BY <1>2, <1>5
<1> QED BY <1>3, <1>4, <1>5, LabelSteps DEF LabelFacts

\* A root keeps its label when a thread looks at an edge, and what has its label too.
LEMMA SettledKept ==
  ASSUME Shape, LabelsInv, NEW i \in Nodes, Look(i), NEW x \in Nodes, NEW y \in Nodes, Settled(x, y)
  PROVE  Settled(x, y)'
<1>1. /\ label \in [Nodes -> Nodes] /\ Lowering(label)
      /\ \A z \in Nodes : label'[z] = label[z] \/ label'[z] = Root(z)
  BY LookLabel, LoweringLabel DEF Shape
<1>2. ASSUME NEW z \in Nodes, label[label[z]] = label[z] PROVE label'[z] = label[z]
  <2>1. label[z] \in Nodes
    BY <1>1
  <2>2. RootOf(label)[label[z]] = label[z] /\ RootOf(label)[label[z]] = RootOf(label)[z]
    BY <1>1, <1>2, <2>1, RootFacts
  <2> QED BY <1>1, <2>2, RootLabel
<1>3. label[x] = label[y] /\ label[label[x]] = label[x] /\ label[label[y]] = label[y]
      /\ label[x] \in Nodes
  BY <1>1 DEF Settled
<1>4. label'[x] = label[x] /\ label'[y] = label[y]
  BY <1>2, <1>3
<1>5. label'[label[x]] = label[label[x]]
  <2>1. label[label[label[x]]] = label[label[x]]
    BY <1>3, Zenon
  <2> QED BY <1>2, <1>3, <2>1
<1> QED BY <1>3, <1>4, <1>5 DEF Settled

LEMMA SettledStep ==
  ASSUME GraphInv, [Next]_vars, phase' = "label", changed' = FALSE, NEW h \in Nodes,
         NEW s \in Slots, mst'[h][s] # Empty, Past(h, s)'
  PROVE  Settled(h, mst[h][s])'
<1>1. /\ Shape /\ EdgesInv /\ LabelsInv /\ job \in Jobs /\ Slots' = Slots /\ Degree \in Nat
      /\ s \in Nat /\ s >= 1 /\ s <= Degree
  <2>1. Shape /\ EdgesInv /\ LabelsInv /\ job \in Jobs /\ Slots' = Slots /\ Degree \in Nat
    BY JobSame, JobFacts DEF GraphInv, EdgesInv, Shape
  <2> QED BY <2>1 DEF Slots
<1>2. ASSUME NEW x \in Nodes, NEW r \in Slots, phase = "label", changed = FALSE,
             mst[x][r] # Empty, Past(x, r)
      PROVE  Settled(x, mst[x][r])
  BY <1>1, <1>2 DEF LabelsInv
<1>3. CASE Updated \/ Labelled
  <2>1. mst' = mst /\ thread' = [i \in Nodes |-> Edge(i, 1)]
    BY <1>3 DEF Updated, Labelled
  <2>2. thread'[h] = Edge(h, 1) /\ 1 \in Nat \ {0}
    BY <2>1
  <2>3. /\ Edge(h, 1).at = "done" => \A r \in 1..Degree : mst[h][r] = Empty
        /\ Edge(h, 1).at \in {"look", "done"}
        /\ Edge(h, 1).at = "look" =>
             /\ Edge(h, 1).slot \in Slots
             /\ \A r \in 1..Edge(h, 1).slot - 1 : mst[h][r] = Empty
    BY <1>1, <2>2, EdgeType
  <2>4. Edge(h, 1).at = "look" /\ s < Edge(h, 1).slot => s \in 1..Edge(h, 1).slot - 1
    BY <1>1, <2>3 DEF Slots
  <2> QED BY <1>1, <2>1, <2>2, <2>3, <2>4 DEF Past
<1>4. ASSUME NEW i \in Nodes, Look(i) PROVE Settled(h, mst[h][s])'
  <2> DEFINE e == thread[i].slot
             j == mst[i][e]
  <2>1. /\ UNCHANGED mst /\ phase = "label"
        /\ e \in Slots /\ e \in Nat /\ e + 1 \in Nat \ {0} /\ j \in Nodes
        /\ \A g \in Nodes \ {i} : thread'[g] = thread[g]
        /\ \/ thread'[i] = Edge(i, e + 1)
           \/ /\ thread'[i] = [at |-> "join", to |-> Root(i), slot |-> e, place |-> Root(j)]
              /\ Root(i) # Root(j)
    BY <1>4, LabelThread
  <2>2. changed = FALSE
    BY <1>4 DEF Look
  <2>3. mst[h][s] \in Nodes
    <3>1. mst[h][s] \in Ends /\ mst[h][s] # Empty
      BY <1>1, <2>1 DEF Shape
    <3> QED BY <3>1 DEF Ends
  <2>4. Past(h, s) => Settled(h, mst[h][s])'
    <3>1. SUFFICES ASSUME Past(h, s) PROVE Settled(h, mst[h][s])'
      OBVIOUS
    <3>2. Settled(h, mst[h][s])
      BY <1>2, <2>1, <2>2, <3>1
    <3>3. mst' = mst
      BY <2>1
    <3>4. \A y \in Nodes : Settled(h, y) => Settled(h, y)'
      BY <1>1, <1>4, SettledKept
    <3> QED BY <2>3, <3>2, <3>3, <3>4 DEF Settled
  <2>5. CASE h # i
    BY <2>1, <2>4, <2>5 DEF Past
  <2>6. CASE h = i /\ Root(i) # Root(j)
    <3>1. (thread'[i].at = "join" /\ thread'[i].slot = e) \/ thread'[i] = Edge(i, e + 1)
      BY <2>1
    <3>2. thread[i].at # "done" /\ ~(thread'[i] = Edge(i, e + 1))
      <4>1. thread[i].at = "look" /\ Go(i, "join", Root(i), e, Root(j))
        BY <1>4, <2>6 DEF Look
      <4>2. thread'[i] = [at |-> "join", to |-> Root(i), slot |-> e, place |-> Root(j)]
        <5>1. thread \in [Nodes -> Threads]
          BY <1>1 DEF Shape
        <5> QED BY <4>1, <5>1 DEF Go
      <4>3. Edge(i, e + 1).at \in {"look", "done"}
        BY <1>1, <2>1, EdgeType
      <4> QED BY <4>1, <4>2, <4>3
    <3>3. Past(h, s)
      BY <2>6, <3>1, <3>2 DEF Past
    <3> QED BY <2>1, <2>4, <3>3
  <2>7. CASE h = i /\ Root(i) = Root(j)
    <3>1. thread'[i] = Edge(i, e + 1) /\ thread[i].at = "look"
      BY <1>4, <2>1, <2>7 DEF Look
    <3>2. /\ Edge(i, e + 1).at = "done" => \A r \in e + 1..Degree : mst[i][r] = Empty
          /\ Edge(i, e + 1).at \in {"look", "done"}
          /\ Edge(i, e + 1).at = "look" =>
               /\ Edge(i, e + 1).slot \in Slots
               /\ \A r \in e + 1..Edge(i, e + 1).slot - 1 : mst[i][r] = Empty
      BY <1>1, <2>1, EdgeType
    <3>3. s <= e
      <4>1. SUFFICES ASSUME ~(s <= e) PROVE FALSE
        OBVIOUS
      <4>2. s \in e + 1..Degree
        BY <1>1, <2>1, <4>1
      <4>3. CASE Edge(i, e + 1).at = "done"
        BY <2>1, <2>7, <3>2, <4>2, <4>3
      <4>4. CASE Edge(i, e + 1).at = "look"
        <5>1. s < Edge(i, e + 1).slot /\ Edge(i, e + 1).slot \in Nat
          BY <2>7, <3>1, <3>2, <4>4 DEF Past, Slots
        <5>2. s \in e + 1..Edge(i, e + 1).slot - 1
          BY <1>1, <2>1, <4>2, <5>1
        <5> QED BY <2>1, <2>7, <3>2, <4>4, <5>2
      <4> QED BY <3>2, <4>3, <4>4
    <3>4. CASE s < e
      BY <2>1, <2>4, <2>7, <3>4 DEF Past
    <3>5. CASE s = e
      <4>1. label'[i] = Root(i) /\ label'[j] = Root(j)
        BY <1>1, <1>4, LookLabel
      <4>2. label'[Root(i)] = Root(i)
        <5>1. Root(i) \in Nodes /\ label[Root(i)] = Root(i) /\ Root(Root(i)) = Root(i)
          <6>1. Lowering(label) /\ RootOf(label)[i] \in Nodes
                /\ label[RootOf(label)[i]] = RootOf(label)[i]
            BY <1>1, LoweringLabel, RootFacts
          <6>2. RootOf(label)[RootOf(label)[i]] = RootOf(label)[i]
            BY <6>1, RootFacts
          <6> QED BY <6>1, <6>2, RootLabel
        <5>2. label'[Root(i)] = label[Root(i)] \/ label'[Root(i)] = Root(Root(i))
          BY <1>1, <1>4, <5>1, LookLabel
        <5> QED BY <5>1, <5>2
      <4>3. mst'[h][s] = j
        BY <2>1, <2>7, <3>5
      <4> QED BY <2>7, <4>1, <4>2, <4>3 DEF Settled
    <3> QED BY <1>1, <2>1, <3>3, <3>4, <3>5
  <2> QED BY <2>5, <2>6, <2>7
<1>5. ASSUME NEW i \in Nodes, Join(i) PROVE FALSE
  BY <1>5 DEF Join
<1>6. CASE phase = "label" /\ UNCHANGED <<thread, mst, label, changed>>
  BY <1>2, <1>6 DEF Past, Settled
<1> QED BY <1>3, <1>4, <1>5, <1>6, LabelSteps DEF LabelFacts

LEMMA LabelsStep == GraphInv /\ [Next]_vars => LabelsInv'
<1> SUFFICES ASSUME GraphInv, [Next]_vars PROVE LabelsInv'
  OBVIOUS
<1>1. Slots' = Slots /\ LabelsInv
  BY JobSame DEF GraphInv
<1>2. ASSUME phase' = "adjust", NEW i \in Nodes, NEW s \in Slots, mst'[i][s] # Empty
      PROVE  Settled(i, mst[i][s])'
  <2>1. CASE Labelled
    <3>1. /\ phase = "label" /\ changed = FALSE /\ thread[i].at = "done"
          /\ UNCHANGED <<mst, label>>
      BY <1>1, <1>2, <2>1 DEF Labelled, AllDone, GraphInv, EdgesInv, Shape
    <3>2. Settled(i, mst[i][s])
      BY <1>1, <1>2, <3>1 DEF LabelsInv, Past
    <3> QED BY <3>1, <3>2 DEF Settled
  <2>2. CASE phase = "adjust" /\ UNCHANGED <<mst, label>>
    BY <1>1, <1>2, <2>2 DEF LabelsInv, Settled
  <2> QED BY <1>2, <2>1, <2>2, LabelSteps DEF LabelFacts
<1>3. \A T \in Closed' : \A x \in T : label'[x] \in T
  BY LabelsInParts
<1>4. phase' = "label" => \A h \in Nodes : OnEdge(h)'
  BY OnEdgeStep
<1>5. phase' = "label" /\ ~changed' => \A h \in Nodes, s \in Slots' :
        mst'[h][s] # Empty /\ Past(h, s)' => Settled(h, mst[h][s])'
  <2>1. changed' \in BOOLEAN
    BY ShapeStep DEF Shape
  <2> QED BY <1>1, <2>1, SettledStep
<1>6. phase' = "adjust" => \A h \in Nodes, s \in Slots' :
        mst'[h][s] # Empty => Settled(h, mst[h][s])'
  BY <1>1, <1>2
<1> QED BY <1>3, <1>4, <1>5, <1>6 DEF LabelsInv

LEMMA LabelsInit == Init => LabelsInv
<1> SUFFICES ASSUME Init PROVE LabelsInv
  OBVIOUS
<1>1. \A T \in Closed : \A i \in T : label[i] \in T
  BY DEF Init, Closed
<1> QED BY <1>1 DEF Init, LabelsInv

LEMMA LabelsFollow == GraphInv => LabelsAreClusters
<1> SUFFICES ASSUME GraphInv, phase = "adjust", NEW i \in Nodes PROVE label[i] = Min(Reach(i))
  BY DEF LabelsAreClusters
<1>1. Shape /\ LabelsInv
  BY DEF GraphInv, EdgesInv
<1>2. label[i] \in Nodes /\ \A x \in Nodes : label[x] <= x
  BY <1>1 DEF Shape
<1>3. label[i] \in Reach(i)
  BY <1>1, <1>2 DEF Reach, LabelsInv
<1> DEFINE T == {x \in Nodes : label[x] = label[i]}
<1>4. T \in Closed
  <2>1. ASSUME NEW x \in T, NEW s \in Slots, mst[x][s] # Empty PROVE mst[x][s] \in T
    <3>1. mst[x][s] \in Nodes
      BY <1>1, <2>1 DEF Shape, Ends
    <3>2. label[x] = label[mst[x][s]]
      BY <1>1, <2>1 DEF LabelsInv, Settled
    <3> QED BY <3>1, <3>2
  <2> QED BY <1>1, <2>1, ClosedIs
<1>5. \A j \in Reach(i) : label[i] <= j
  BY <1>2, <1>4 DEF Reach
<1>6. Reach(i) \subseteq Nat /\ Reach(i) # {}
  BY <1>3, GraphFacts DEF Reach
<1>7. Min(Reach(i)) \in Reach(i) /\ \A j \in Reach(i) : Min(Reach(i)) <= j
  BY <1>6, MinOfSet
<1>8. Min(Reach(i)) \in Nat /\ label[i] \in Nat
  BY <1>3, <1>6, <1>7
<1> QED BY <1>3, <1>5, <1>7, <1>8

-----------------------------------------------------------------------------
(* Pruning.                                                                *)

\* The places of the elements of a row in the order of a weight, equal ones in the
\* order of the row, are all different, and each is taken.
Comes(f, a, b) == f[a] < f[b] \/ (f[a] = f[b] /\ a < b)
Ranks(n, f)    == [b \in 1..n |-> Cardinality({a \in 1..n : Comes(f, a, b)}) + 1]

LEMMA RankOrder ==
  ASSUME NEW n \in Nat, NEW f \in [1..n -> Nat], NEW a \in 1..n, NEW b \in 1..n
  PROVE  /\ ~Comes(f, a, a)
         /\ a # b => Comes(f, a, b) \/ Comes(f, b, a)
         /\ \A c \in 1..n : Comes(f, c, a) /\ Comes(f, a, b) => Comes(f, c, b)
<1>1. \A x \in 1..n : f[x] \in Nat /\ x \in Nat
  OBVIOUS
<1>2. ~Comes(f, a, a) /\ (a # b => Comes(f, a, b) \/ Comes(f, b, a))
  <2>1. f[a] \in Nat /\ f[b] \in Nat /\ a \in Nat /\ b \in Nat
    BY <1>1
  <2> QED BY <2>1 DEF Comes
<1>3. ASSUME NEW c \in 1..n, Comes(f, c, a), Comes(f, a, b) PROVE Comes(f, c, b)
  <2>1. /\ f[a] \in Nat /\ f[b] \in Nat /\ f[c] \in Nat /\ a \in Nat /\ b \in Nat /\ c \in Nat
    BY <1>1
  <2> QED BY <2>1, <1>3 DEF Comes
<1> QED BY <1>2, <1>3

LEMMA RanksAreAll ==
  ASSUME NEW n \in Nat, NEW f \in [1..n -> Nat]
  PROVE  /\ \A s \in 1..n : \E b \in 1..n : Ranks(n, f)[b] = s
         /\ \A a, b \in 1..n : Ranks(n, f)[a] = Ranks(n, f)[b] => a = b
<1> DEFINE S(b) == {a \in 1..n : Comes(f, a, b)}
           R == Ranks(n, f)
<1>1. IsFiniteSet(1..n) /\ Cardinality(1..n) = n
  BY FS_Interval
<1>2. \A b \in 1..n : R[b] = Cardinality(S(b)) + 1
  BY DEF Ranks
<1> HIDE DEF R
<1>3. ASSUME NEW b \in 1..n
      PROVE  IsFiniteSet(S(b)) /\ Cardinality(S(b)) \in Nat /\ Cardinality(S(b)) < n
  <2>1. S(b) \in SUBSET (1..n) /\ b \notin S(b)
    BY RankOrder
  <2> HIDE DEF S
  <2>2. /\ IsFiniteSet(S(b)) /\ Cardinality(S(b)) <= n
        /\ Cardinality(1..n) = Cardinality(S(b)) => S(b) = 1..n
    BY <1>1, <2>1, FS_Subset
  <2>3. Cardinality(S(b)) \in Nat
    BY <2>2, FS_CardinalityType
  <2> QED BY <1>1, <2>1, <2>2, <2>3
<1>4. R \in [1..n -> 1..n]
  <2>1. ASSUME NEW b \in 1..n PROVE Cardinality(S(b)) + 1 \in 1..n
    <3> HIDE DEF S
    <3>1. Cardinality(S(b)) \in Nat /\ Cardinality(S(b)) < n
      BY <1>3
    <3> QED BY <3>1
  <2> QED BY <2>1 DEF R, Ranks
<1>5. ASSUME NEW a \in 1..n, NEW b \in 1..n, Comes(f, a, b) PROVE R[a] # R[b]
  <2>1. S(a) \in SUBSET S(b) /\ a \in S(b) /\ a \notin S(a)
    BY <1>5, RankOrder
  <2>2. IsFiniteSet(S(b)) /\ Cardinality(S(a)) \in Nat /\ Cardinality(S(b)) \in Nat
    BY <1>3
  <2> HIDE DEF S
  <2>3. Cardinality(S(b)) = Cardinality(S(a)) => S(b) = S(a)
    BY <2>1, <2>2, FS_Subset
  <2> QED BY <1>2, <2>1, <2>2, <2>3
<1>6. \A a, b \in 1..n : R[a] = R[b] => a = b
  BY <1>5, RankOrder
<1>7. R \in Injection(1..n, 1..n)
  BY <1>4, <1>6 DEF Injection, IsInjective
<1>8. R \in Surjection(1..n, 1..n)
  BY <1>1, <1>7, FS_Injection
<1> QED BY <1>6, <1>8 DEF Surjection, R

LEMMA DetoursType ==
  ASSUME job \in Jobs, NEW i, NEW b \in 1..InDegree
  PROVE  Detours(i, b) \in Nat
<1> DEFINE D == {d \in (1..b-1) \X (1..InDegree) :
                   job.knn[job.knn[i][d[1]]][d[2]] = job.knn[i][b]}
<1>1. InDegree \in Nat
  BY JobFacts
<1>2. IsFiniteSet(1..b-1) /\ IsFiniteSet(1..InDegree)
  BY <1>1, FS_Interval
<1>3. IsFiniteSet((1..b-1) \X (1..InDegree))
  BY <1>2, FS_Product
<1>4. D \in SUBSET ((1..b-1) \X (1..InDegree))
  OBVIOUS
<1>5. Detours(i, b) = Cardinality(D)
  BY DEF Detours
<1> HIDE DEF D
<1> QED BY <1>3, <1>4, <1>5, FS_Subset, FS_CardinalityType

LEMMA PrunedFacts ==
  ASSUME job \in Jobs, NEW i \in Nodes
  PROVE  Pruned(i) \in [Slots -> Nodes] /\ IsInjective(Pruned(i))
<1> DEFINE n == InDegree
           f == [b \in 1..n |-> Detours(i, b)]
           R == Ranks(n, f)
           at(s) == CHOOSE b \in 1..n : R[b] = s
<1>1. n \in Nat /\ Degree \in Nat /\ Degree <= n /\ f \in [1..n -> Nat]
  BY JobFacts, DetoursType
<1>2. \A s \in 1..n : \E b \in 1..n : R[b] = s
  BY <1>1, RanksAreAll
<1>3. Pruned(i) = [s \in Slots |-> job.knn[i][at(s)]]
  <2>1. \A b \in 1..n : f[b] = Detours(i, b)
    OBVIOUS
  <2> HIDE DEF f
  <2>2. ASSUME NEW b \in 1..n PROVE R[b] = Rank(i, b)
    <3>1. {a \in 1..n : \/ Detours(i, a) < Detours(i, b)
                        \/ Detours(i, a) = Detours(i, b) /\ a < b} = {a \in 1..n : Comes(f, a, b)}
      BY <2>1 DEF Comes
    <3>2. R[b] = Cardinality({a \in 1..n : Comes(f, a, b)}) + 1
      BY DEF Ranks
    <3> QED BY <3>1, <3>2 DEF Rank
  <2> HIDE DEF R
  <2>3. \A s : (CHOOSE b \in 1..n : Rank(i, b) = s) = at(s)
    <3> TAKE s
    <3>1. \A b : (b \in 1..n /\ Rank(i, b) = s) <=> (b \in 1..n /\ R[b] = s)
      BY <2>2
    <3> QED BY <3>1
  <2>4. Pruned(i) = [s \in Slots |-> job.knn[i][CHOOSE b \in 1..n : Rank(i, b) = s]]
    BY Zenon DEF Pruned
  <2> HIDE DEF at
  <2> QED BY <2>3, <2>4, Zenon
<1> HIDE DEF f, R
<1>4. \A s \in Slots : at(s) \in 1..n /\ R[at(s)] = s
  <2>1. \A s \in Slots : s \in 1..n
    <3> HIDE DEF at
    <3> QED BY <1>1 DEF Slots
  <2> QED BY <1>2, <2>1
<1> HIDE DEF at
<1>5. /\ \A b \in 1..n : job.knn[i][b] \in Nodes
      /\ \A a, b \in 1..n : job.knn[i][a] = job.knn[i][b] => a = b
  <2>1. /\ job.knn[i] \in Seq(Nodes) /\ Len(job.knn[i]) = n /\ IsInjective(job.knn[i])
    BY JobFacts
  <2> QED BY <2>1 DEF IsInjective
<1>6. Pruned(i) \in [Slots -> Nodes]
  BY <1>3, <1>4, <1>5
<1>7. ASSUME NEW s \in Slots, NEW r \in Slots, Pruned(i)[s] = Pruned(i)[r] PROVE s = r
  <2>1. at(s) = at(r)
    BY <1>3, <1>4, <1>5, <1>7
  <2> QED BY <1>4, <2>1
<1> QED BY <1>6, <1>7 DEF IsInjective

-----------------------------------------------------------------------------
(* The reverse graph.                                                      *)

\* Which steps lead into the kernels that reverse the edges, and through them.
ReverseFacts ==
  /\ phase' \in MstPhases \union {"prune"} =>
       phase \in MstPhases \union {"prune"} /\ UNCHANGED rev
  /\ phase' = "reverse" =>
       \/ Prune \/ Reversed \/ \E i \in Nodes : AddReverse(i)
       \/ phase = "reverse" /\ UNCHANGED <<k, thread, out, rev>>

LEMMA ReverseSteps == ASSUME [Next]_vars PROVE ReverseFacts
<1>1. ASSUME Candidates \/ Updated \/ Labelled \/ Adjust \/ Store PROVE ReverseFacts
  <2>1. CASE Candidates
    BY <2>1 DEF Candidates, ReverseFacts, MstPhases
  <2>2. CASE Updated
    BY <2>2 DEF Updated, ReverseFacts, MstPhases
  <2>3. CASE Labelled
    BY <2>3 DEF Labelled, ReverseFacts, MstPhases
  <2>4. CASE Adjust
    BY <2>4 DEF Adjust, ReverseFacts, MstPhases
  <2>5. CASE Store
    BY <2>5 DEF Store, ReverseFacts, MstPhases
  <2> QED BY <1>1, <2>1, <2>2, <2>3, <2>4, <2>5
<1>2. ASSUME Prune \/ Reversed \/ Merged PROVE ReverseFacts
  BY <1>2 DEF Prune, Reversed, Merged, tree, ReverseFacts, MstPhases
<1>3. ASSUME NEW i \in Nodes, AddReverse(i) PROVE ReverseFacts
  BY <1>3 DEF AddReverse, ReverseFacts, MstPhases
<1>4. ASSUME NEW i \in Nodes, Try(i) \/ Alternate(i) \/ TakePlace(i) \/ WriteEdge(i)
      PROVE  ReverseFacts
  BY <1>4 DEF Try, Alternate, TakePlace, WriteEdge, tree, ReverseFacts, MstPhases
<1>5. ASSUME NEW i \in Nodes, Look(i) \/ Join(i) \/ AppendPruned(i) \/ ReplaceByReverse(i)
      PROVE  ReverseFacts
  BY <1>5 DEF Look, Join, AppendPruned, ReplaceByReverse, Turn, tree, ReverseFacts, MstPhases
<1>6. ASSUME UNCHANGED vars PROVE ReverseFacts
  BY <1>6 DEF vars, tree, ReverseFacts, MstPhases
<1> QED BY <1>1, <1>2, <1>3, <1>4, <1>5, <1>6 DEF Next, Host, Thread

LEMMA ReverseAdded ==
  ASSUME GraphInv, NEW i \in Nodes, AddReverse(i), NEW j \in Nodes
  PROVE  IntoReversed(j)'
<1> DEFINE dest == out[i][k]
           pos  == rev.count[dest]
<1>1. /\ UNCHANGED <<job, phase, k, out>> /\ phase = "reverse" /\ thread[i].at = "add" /\ Done(i)
      /\ rev' = [row   |-> IF pos < Degree THEN [rev.row EXCEPT ![dest][pos + 1] = i] ELSE rev.row,
                 count |-> [rev.count EXCEPT ![dest] = pos + 1]]
  BY DEF AddReverse
<1>2. /\ Shape /\ k \in Slots /\ IsInjective(out[i]) /\ IntoReversed(dest) /\ IntoReversed(j)
      /\ out \in [Nodes -> [Slots -> Nodes]] /\ dest \in Nodes
  <2>1. /\ Shape /\ k \in Slots /\ IsInjective(out[i]) /\ out \in [Nodes -> [Slots -> Nodes]]
        /\ \A x \in Nodes : IntoReversed(x)
    BY <1>1 DEF GraphInv, EdgesInv, ReverseInv, OutputInv
  <2>2. dest \in Nodes
    BY <2>1
  <2> QED BY <2>1, <2>2
<1>3. /\ Slots' = Slots /\ Degree \in Nat /\ k \in Nat
      /\ rev.row \in [Nodes -> [Slots -> Ends]] /\ rev.count \in [Nodes -> Nat]
      /\ thread'[i] = Idle /\ \A h \in Nodes \ {i} : thread'[h] = thread[h]
  BY <1>1, <1>2, JobFacts, DoneType DEF Shape, Slots, Degree
<1> HIDE DEF dest, pos
<1>4. Into(j)' = IF j = dest THEN Into(j) \union {i} ELSE Into(j)
  <2>1. \A x \in Nodes : x # i => (x \in Into(j)' <=> x \in Into(j))
    BY <1>1, <1>3 DEF Into
  <2>2. i \in Into(j)' <=> \E c \in Slots : out[i][c] = j /\ (c < k \/ c = k)
    BY <1>1, <1>3 DEF Into, Idle
  <2>3. i \in Into(j) <=> \E c \in Slots : out[i][c] = j /\ c < k
    BY <1>1 DEF Into
  <2>4. out[i][k] = dest
    BY DEF dest
  <2>5. Into(j)' \subseteq Nodes /\ Into(j) \subseteq Nodes
    BY DEF Into
  <2>6. j = dest => i \in Into(j)'
    BY <1>2, <2>2, <2>4
  <2>7. j # dest => (i \in Into(j)' <=> i \in Into(j))
    BY <2>2, <2>3, <2>4
  <2>8. j = dest => Into(j)' = Into(j) \union {i}
    BY <2>1, <2>5, <2>6
  <2>9. j # dest => Into(j)' = Into(j)
    BY <2>1, <2>5, <2>7
  <2> QED BY <2>8, <2>9
<1>5. i \notin Into(dest)
  <2>1. \A c \in Slots : out[i][c] = dest => c = k
    BY <1>2 DEF IsInjective, dest
  <2>2. \A c \in Slots : ~(c = k /\ c < k)
    BY <1>3
  <2> QED BY <1>1, <2>1, <2>2 DEF Into
<1>6. /\ pos \in Nat /\ pos = rev.count[dest]
      /\ \A x \in Nodes : rev'.count[x] = IF x = dest THEN pos + 1 ELSE rev.count[x]
  BY <1>1, <1>2, <1>3 DEF pos
<1>7. \A x \in Nodes, p \in Slots :
        rev'.row[x][p] = IF x = dest /\ p = pos + 1 THEN i ELSE rev.row[x][p]
  <2>1. CASE pos < Degree
    <3>1. rev'.row = [rev.row EXCEPT ![dest] = [rev.row[dest] EXCEPT ![pos + 1] = i]]
      BY <1>1, <2>1
    <3>2. \A x \in Nodes : rev'.row[x] = IF x = dest THEN [rev.row[dest] EXCEPT ![pos + 1] = i]
                                          ELSE rev.row[x]
      BY <1>2, <1>3, <3>1
    <3>3. \A p \in Slots : [rev.row[dest] EXCEPT ![pos + 1] = i][p]
                             = IF p = pos + 1 THEN i ELSE rev.row[dest][p]
      BY <1>2, <1>3
    <3> QED BY <3>2, <3>3
  <2>2. CASE ~(pos < Degree)
    <3>1. rev'.row = rev.row
      BY <1>1, <2>2
    <3>2. \A p \in Slots : p # pos + 1
      BY <1>3, <1>6, <2>2 DEF Slots
    <3> QED BY <3>1, <3>2
  <2> QED BY <2>1, <2>2
<1>8. CASE j # dest
  <2>1. /\ Into(j)' = Into(j) /\ rev'.count[j] = rev.count[j]
        /\ \A p \in Slots : rev'.row[j][p] = rev.row[j][p]
    BY <1>4, <1>6, <1>7, <1>8
  <2>2. Slots' = Slots /\ IntoReversed(j)
    BY <1>2, <1>3
  <2>3. rev'.count[j] = Cardinality(Into(j)')
    BY <2>1, <2>2 DEF IntoReversed
  <2>4. \A p \in Slots : p <= rev'.count[j] => rev'.row[j][p] \in Into(j)'
    BY <2>1, <2>2 DEF IntoReversed
  <2>5. ASSUME NEW p \in Slots, NEW q \in Slots, p <= rev'.count[j], q <= rev'.count[j], p # q
        PROVE  rev'.row[j][p] # rev'.row[j][q]
    <3>1. rev.row[j][p] # rev.row[j][q]
      BY <2>1, <2>2, <2>5 DEF IntoReversed
    <3> QED BY <2>1, <3>1
  <2> QED BY <2>2, <2>3, <2>4, <2>5 DEF IntoReversed
<1>9. CASE j = dest
  <2>1. Cardinality(Into(j) \union {i}) = Cardinality(Into(j)) + 1
    <3>1. IsFiniteSet(Into(j))
      <4>1. Into(j) \in SUBSET Nodes
        BY DEF Into
      <4> QED BY <4>1, GraphFacts, FS_Subset
    <3> QED BY <1>5, <1>9, <3>1, FS_AddElement
  <2>2. rev'.count[j] = Cardinality(Into(j)')
    BY <1>2, <1>4, <1>6, <1>9, <2>1 DEF IntoReversed
  <2>3. \A p \in Slots : p \in Nat /\ (p <= pos + 1 => p <= pos \/ p = pos + 1)
    BY <1>6 DEF Slots
  <2>4. \A p \in Slots : p <= pos => rev'.row[j][p] = rev.row[j][p] /\ rev.row[j][p] \in Into(j)
    <3>1. \A p \in Slots : p <= pos => p # pos + 1
      BY <1>6, <2>3
    <3> QED BY <1>2, <1>6, <1>7, <1>9, <3>1 DEF IntoReversed
  <2>5. \A p \in Slots : p = pos + 1 => rev'.row[j][p] = i
    BY <1>7, <1>9
  <2>6. \A p \in Slots : p <= rev'.count[j] => rev'.row[j][p] \in Into(j)'
    BY <1>4, <1>6, <1>9, <2>3, <2>4, <2>5
  <2>7. ASSUME NEW p \in Slots, NEW q \in Slots, p <= rev'.count[j], q <= rev'.count[j], p # q
        PROVE  rev'.row[j][p] # rev'.row[j][q]
    <3>1. (p <= pos \/ p = pos + 1) /\ (q <= pos \/ q = pos + 1)
      BY <1>6, <1>9, <2>3, <2>7
    <3>2. CASE p <= pos /\ q <= pos
      <4>1. rev.row[j][p] # rev.row[j][q]
        BY <1>2, <1>6, <1>9, <2>7, <3>2 DEF IntoReversed
      <4>2. rev'.row[j][p] = rev.row[j][p] /\ rev'.row[j][q] = rev.row[j][q]
        BY <2>4, <2>7, <3>2
      <4> QED BY <4>1, <4>2
    <3>3. CASE ~(p <= pos /\ q <= pos)
      BY <1>5, <1>9, <2>4, <2>5, <2>7, <3>1, <3>3
    <3> QED BY <3>2, <3>3
  <2> QED BY <1>3, <2>2, <2>6, <2>7 DEF IntoReversed
<1> QED BY <1>8, <1>9

LEMMA ReverseStep == GraphInv /\ [Next]_vars => ReverseInv'
<1> SUFFICES ASSUME GraphInv, [Next]_vars PROVE ReverseInv'
  OBVIOUS
<1>1. Shape /\ ReverseInv /\ OutputInv /\ job \in Jobs /\ Slots' = Slots /\ Degree' = Degree
  BY JobSame DEF GraphInv, EdgesInv, Shape
<1>2. phase' \in MstPhases \union {"prune"} => \A j \in Nodes : rev'.count[j] = 0
  BY <1>1, ReverseSteps DEF ReverseFacts, ReverseInv
<1> SUFFICES ASSUME phase' = "reverse"
             PROVE  /\ k' \in Slots'
                    /\ \A i \in Nodes : thread'[i].at \in {"add", "done"} /\ IsInjective(out'[i])
                    /\ \A j \in Nodes : IntoReversed(j)'
  BY <1>2 DEF ReverseInv
<1>3. Degree \in Nat /\ Degree > 0
  BY <1>1, JobFacts
<1>4. CASE Prune
  <2>1. /\ k' = 1 /\ thread' = Launched("add") /\ out' = [i \in Nodes |-> Pruned(i)]
        /\ phase = "prune" /\ rev' = rev
    BY <1>4 DEF Prune
  <2>2. k' \in Slots'
    BY <1>1, <1>3, <2>1 DEF Slots
  <2>3. \A i \in Nodes : thread'[i].at = "add" /\ IsInjective(out'[i])
    BY <1>1, <2>1, PrunedFacts DEF Launched, Idle
  <2>4. ASSUME NEW j \in Nodes PROVE IntoReversed(j)'
    <3>1. rev'.count[j] = 0
      BY <1>1, <2>1 DEF ReverseInv
    <3>2. Into(j)' = {}
      <4>1. \A c \in Slots : ~(c < 1)
        BY <1>3 DEF Slots
      <4> QED BY <1>1, <2>1, <2>3, <4>1 DEF Into
    <3>3. \A p \in Slots : ~(p <= 0)
      BY <1>3 DEF Slots
    <3> QED BY <1>1, <3>1, <3>2, <3>3, FS_EmptySet DEF IntoReversed
  <2> QED BY <2>2, <2>3, <2>4
<1>5. CASE Reversed
  <2>1. /\ phase = "reverse" /\ AllDone /\ k < Degree /\ k' = k + 1 /\ thread' = Launched("add")
        /\ UNCHANGED <<out, rev>>
    BY <1>5 DEF Reversed
  <2>2. k \in Slots /\ k \in Nat /\ \A i \in Nodes : IsInjective(out[i]) /\ IntoReversed(i)
    BY <1>1, <2>1 DEF ReverseInv, Shape
  <2>3. k' \in Slots'
    BY <1>1, <1>3, <2>1, <2>2 DEF Slots
  <2>4. \A i \in Nodes : thread'[i].at = "add" /\ thread[i].at = "done"
    BY <2>1 DEF Launched, Idle, AllDone
  <2>5. ASSUME NEW j \in Nodes PROVE IntoReversed(j)'
    <3>1. \A c \in Slots : c < k + 1 <=> c < k \/ c = k
      BY <2>2 DEF Slots
    <3>2. Into(j)' = Into(j)
      BY <1>1, <2>1, <2>4, <3>1 DEF Into
    <3>3. rev' = rev /\ IntoReversed(j)
      BY <2>1, <2>2
    <3> QED BY <1>1, <3>2, <3>3 DEF IntoReversed
  <2> QED BY <2>1, <2>2, <2>3, <2>4, <2>5
<1>6. ASSUME NEW i \in Nodes, AddReverse(i)
      PROVE  /\ k' \in Slots'
             /\ \A h \in Nodes : thread'[h].at \in {"add", "done"} /\ IsInjective(out'[h])
             /\ \A j \in Nodes : IntoReversed(j)'
  <2>1. phase = "reverse" /\ UNCHANGED <<k, out>> /\ Done(i)
    BY <1>6 DEF AddReverse
  <2>2. thread'[i] = Idle /\ \A h \in Nodes \ {i} : thread'[h] = thread[h]
    BY <1>1, <2>1, DoneType
  <2>3. \A h \in Nodes : thread'[h].at \in {"add", "done"} /\ IsInjective(out'[h])
    BY <1>1, <2>1, <2>2 DEF ReverseInv, Idle
  <2> QED BY <1>1, <1>6, <2>1, <2>3, ReverseAdded DEF ReverseInv
<1>7. CASE phase = "reverse" /\ UNCHANGED <<k, thread, out, rev>>
  <2>1. \A j \in Nodes : IntoReversed(j) /\ Into(j)' = Into(j)
    BY <1>1, <1>7 DEF ReverseInv, Into
  <2>2. \A j \in Nodes : IntoReversed(j)'
    BY <1>1, <1>7, <2>1 DEF IntoReversed
  <2> QED BY <1>1, <1>7, <2>2 DEF ReverseInv
<1> QED BY <1>4, <1>5, <1>6, <1>7, ReverseSteps DEF ReverseFacts

LEMMA ReverseFollows == GraphInv => ReverseComplete
<1> SUFFICES ASSUME GraphInv, phase = "reverse", k = Degree, AllDone, NEW j \in Nodes
             PROVE  LET from == {i \in Nodes : Contains(out[i], j)}
                        kept == SubSeq(rev.row[j], 1, Min({rev.count[j], Degree}))
                    IN  /\ rev.count[j] = Cardinality(from)
                        /\ Range(kept) \subseteq from /\ IsInjective(kept)
  BY DEF ReverseComplete
<1> DEFINE from == {i \in Nodes : Contains(out[i], j)}
           m    == Min({rev.count[j], Degree})
           kept == SubSeq(rev.row[j], 1, m)
<1>1. /\ IntoReversed(j) /\ out \in [Nodes -> [Slots -> Nodes]] /\ Degree \in Nat
      /\ rev.row[j] \in [Slots -> Ends] /\ rev.count[j] \in Nat
  BY JobFacts DEF GraphInv, EdgesInv, Shape, ReverseInv, OutputInv
<1>2. from = Into(j)
  <2>1. ASSUME NEW i \in Nodes PROVE Contains(out[i], j) <=> \E c \in Slots : out[i][c] = j
    <3>1. out[i] \in [1..Degree -> Nodes]
      BY <1>1 DEF Slots
    <3>2. Len(out[i]) = Degree
      BY <1>1, <3>1
    <3> QED BY <3>2 DEF Contains, Slots
  <2>2. \A i \in Nodes, c \in Slots : c < k \/ (c = k /\ thread[i].at = "done")
    BY <1>1 DEF Slots, AllDone
  <2> QED BY <2>1, <2>2 DEF Into
<1>3. m \in Nat /\ m <= Degree /\ m <= rev.count[j]
  <2>1. rev.count[j] \in Int /\ Degree \in Int
    BY <1>1
  <2>2. m = IF rev.count[j] <= Degree THEN rev.count[j] ELSE Degree
    BY <2>1, MinOfTwo
  <2> QED BY <1>1, <2>2
<1> HIDE DEF m, from
<1>4. /\ kept \in Seq(Ends) /\ Len(kept) = m /\ \A p \in 1..m : kept[p] = rev.row[j][p]
  <2>1. \A p \in 1..m : rev.row[j][p] \in Ends
    BY <1>1, <1>3 DEF Slots
  <2>2. /\ kept \in Seq(Ends) /\ Len(kept) = (IF 1 <= m THEN m - 1 + 1 ELSE 0)
        /\ \A p \in 1..m - 1 + 1 : kept[p] = rev.row[j][1 + p - 1]
    BY <1>3, <2>1, SubSeqProperties
  <2>3. m - 1 + 1 = m /\ \A p \in 1..m : 1 + p - 1 = p
    BY <1>3
  <2> QED BY <1>3, <2>2, <2>3
<1> HIDE DEF kept
<1>5. DOMAIN kept = 1..m
  BY <1>4
<1>6. \A p \in 1..m : p \in Slots /\ p <= rev.count[j]
  <2>1. Degree \in Nat /\ rev.count[j] \in Nat
    BY <1>1
  <2> QED BY <2>1, <1>3 DEF Slots
<1>7. Range(kept) \subseteq from
  BY <1>1, <1>2, <1>4, <1>5, <1>6 DEF Range, IntoReversed
<1>8. IsInjective(kept)
  BY <1>1, <1>4, <1>5, <1>6 DEF IsInjective, IntoReversed
<1>9. rev.count[j] = Cardinality(from)
  BY <1>1, <1>2 DEF IntoReversed
<1> QED BY <1>7, <1>8, <1>9 DEF from, kept, m

-----------------------------------------------------------------------------
(* The output.                                                             *)

LEMMA MovedUpType ==
  ASSUME job \in Jobs, NEW row \in [Slots -> Nodes], NEW p \in Nat, p < Degree, NEW j \in Nodes
  PROVE  MovedUp(row, p, j) \in [Slots -> Nodes]
<1> DEFINE d == Degree
           q == Min({Position(row, j), d})
           rest == RemoveAt(row, q)
           a == SubSeq(row, 1, p)
           b == SubSeq(rest, p + 1, d - 1)
<1>1. d \in Nat /\ d > 0 /\ row \in Seq(Nodes) /\ Len(row) = d /\ \A x \in 1..d : row[x] \in Nodes
  <2>1. d \in Nat /\ d > 0
    BY JobFacts
  <2> QED BY <2>1 DEF Slots
<1>2. q \in 1..d
  <2> DEFINE P == {s \in Slots : row[s] = j} \union {d + 1}
  <2>1. P \subseteq Nat /\ P # {} /\ \A x \in P : x >= 1
    BY <1>1 DEF Slots
  <2>2. Position(row, j) = Min(P)
    BY DEF Position
  <2> HIDE DEF P
  <2>3. Min(P) \in P
    BY <2>1, MinOfSet
  <2>4. Position(row, j) \in Nat /\ Position(row, j) >= 1
    BY <2>1, <2>2, <2>3
  <2>5. Position(row, j) \in Int /\ d \in Int
    BY <1>1, <2>4
  <2>6. q = IF Position(row, j) <= d THEN Position(row, j) ELSE d
    BY <2>5, MinOfTwo
  <2> QED BY <1>1, <2>4, <2>6
<1> HIDE DEF d, q
<1>3. rest \in Seq(Nodes) /\ Len(rest) = d - 1
  <2> DEFINE u == SubSeq(row, 1, q - 1)
             v == SubSeq(row, q + 1, d)
  <2>1. 1 \in Int /\ q - 1 \in Int /\ q + 1 \in Int /\ d \in Int
    BY <1>1, <1>2
  <2>2. (\A x \in 1..q - 1 : row[x] \in Nodes) /\ (\A x \in q + 1..d : row[x] \in Nodes)
    BY <1>1, <1>2
  <2>3. /\ u \in Seq(Nodes) /\ Len(u) = (IF 1 <= q - 1 THEN q - 1 - 1 + 1 ELSE 0)
    BY <2>1, <2>2, SubSeqProperties
  <2>4. /\ v \in Seq(Nodes) /\ Len(v) = (IF q + 1 <= d THEN d - (q + 1) + 1 ELSE 0)
    BY <2>1, <2>2, SubSeqProperties
  <2>5. rest = u \o v
    BY <1>1 DEF RemoveAt
  <2> HIDE DEF u, v, rest
  <2>6. rest \in Seq(Nodes) /\ Len(rest) = Len(u) + Len(v)
    BY <2>3, <2>4, <2>5, ConcatProperties
  <2>7. Len(u) = q - 1 /\ Len(v) = d - q
    BY <1>1, <1>2, <2>3, <2>4
  <2> QED BY <1>1, <1>2, <2>6, <2>7
<1> HIDE DEF rest
<1>4. p \in Nat /\ p < d
  BY DEF d
<1>5. a \in Seq(Nodes) /\ Len(a) = p
  <2>1. 1 \in Int /\ p \in Int /\ \A x \in 1..p : row[x] \in Nodes
    BY <1>1, <1>4
  <2>2. a \in Seq(Nodes) /\ Len(a) = (IF 1 <= p THEN p - 1 + 1 ELSE 0)
    BY <2>1, SubSeqProperties
  <2> QED BY <1>4, <2>2
<1>6. b \in Seq(Nodes) /\ Len(b) = d - 1 - p
  <2>1. p + 1 \in Int /\ d - 1 \in Int /\ \A x \in p + 1..d - 1 : rest[x] \in Nodes
    BY <1>1, <1>3, <1>4
  <2>2. b \in Seq(Nodes) /\ Len(b) = (IF p + 1 <= d - 1 THEN d - 1 - (p + 1) + 1 ELSE 0)
    BY <2>1, SubSeqProperties
  <2> QED BY <1>1, <1>4, <2>2
<1>7. MovedUp(row, p, j) = a \o <<j>> \o b
  BY DEF MovedUp, rest, q, d
<1> HIDE DEF a, b
<1>8. <<j>> \in Seq(Nodes) /\ Len(<<j>>) = 1
  OBVIOUS
<1>9. a \o <<j>> \in Seq(Nodes) /\ Len(a \o <<j>>) = p + 1
  BY <1>5, <1>8, ConcatProperties
<1>10. (a \o <<j>>) \o b \in Seq(Nodes) /\ Len((a \o <<j>>) \o b) = d
  <2>1. (a \o <<j>>) \o b \in Seq(Nodes) /\ Len((a \o <<j>>) \o b) = Len(a \o <<j>>) + Len(b)
    BY <1>6, <1>9, ConcatProperties
  <2>2. d \in Int /\ p \in Int /\ p + 1 + (d - 1 - p) = d
    BY <1>1, <1>4
  <2> QED BY <1>6, <1>9, <2>1, <2>2
<1>11. MovedUp(row, p, j) \in [1..d -> Nodes]
  <2> DEFINE m == MovedUp(row, p, j)
  <2>1. m \in Seq(Nodes) /\ Len(m) = d
    BY <1>7, <1>10
  <2> HIDE DEF m
  <2>2. m \in [1..d -> Nodes]
    BY <2>1
  <2> QED BY <2>2 DEF m
<1> QED BY <1>11 DEF Slots, d

\* Which steps lead into the phases after pruning, and change the output there.
OutputFacts ==
  /\ phase' \in {"reverse", "merge", "done"} =>
       \/ Prune
       \/ /\ phase \in {"reverse", "merge", "done"}
          /\ UNCHANGED out \/ \E i \in Nodes : AppendPruned(i) \/ ReplaceByReverse(i)
  /\ phase' = "merge" =>
       \/ Reversed \/ \E i \in Nodes : AppendPruned(i) \/ ReplaceByReverse(i)
       \/ phase = "merge" /\ UNCHANGED <<thread, stored>>

LEMMA OutputSteps == ASSUME [Next]_vars PROVE OutputFacts
<1>1. ASSUME Candidates \/ Updated \/ Labelled \/ Adjust \/ Store PROVE OutputFacts
  <2>1. CASE Candidates
    BY <2>1 DEF Candidates, OutputFacts
  <2>2. CASE Updated
    BY <2>2 DEF Updated, OutputFacts
  <2>3. CASE Labelled
    BY <2>3 DEF Labelled, OutputFacts
  <2>4. CASE Adjust
    BY <2>4 DEF Adjust, OutputFacts
  <2>5. CASE Store
    BY <2>5 DEF Store, OutputFacts
  <2> QED BY <1>1, <2>1, <2>2, <2>3, <2>4, <2>5
<1>2. ASSUME Prune \/ Reversed \/ Merged PROVE OutputFacts
  BY <1>2 DEF Prune, Reversed, Merged, tree, OutputFacts
<1>3. ASSUME NEW i \in Nodes, AddReverse(i) PROVE OutputFacts
  BY <1>3 DEF AddReverse, OutputFacts
<1>4. ASSUME NEW i \in Nodes, Try(i) \/ Alternate(i) \/ TakePlace(i) \/ WriteEdge(i)
      PROVE  OutputFacts
  BY <1>4 DEF Try, Alternate, TakePlace, WriteEdge, OutputFacts
<1>5. ASSUME NEW i \in Nodes, Look(i) \/ Join(i) PROVE OutputFacts
  BY <1>5 DEF Look, Join, OutputFacts
<1>6. ASSUME NEW i \in Nodes, AppendPruned(i) \/ ReplaceByReverse(i) PROVE OutputFacts
  BY <1>6 DEF AppendPruned, ReplaceByReverse, Turn, OutputFacts
<1>7. ASSUME UNCHANGED vars PROVE OutputFacts
  BY <1>7 DEF vars, tree, OutputFacts
<1> QED BY <1>1, <1>2, <1>3, <1>4, <1>5, <1>6, <1>7 DEF Next, Host, Thread

\* What OutputInv says of the thread that merges a row.
LEMMA MergeThread ==
  ASSUME GraphInv, NEW i \in Nodes, AppendPruned(i) \/ ReplaceByReverse(i)
  PROVE  /\ phase = "merge" /\ phase' = "merge" /\ UNCHANGED <<job, stored>> /\ MergedRow(i)'
         /\ \A h \in Nodes \ {i} : thread'[h] = thread[h]
         /\ out' \in [Nodes -> [Slots -> Nodes]]
<1>1. /\ phase = "merge" /\ phase' = "merge" /\ UNCHANGED <<job, stored>>
      /\ thread[i].at \in {"append", "replace"}
  BY DEF AppendPruned, ReplaceByReverse, Turn, tree
<1>2. /\ Shape /\ MergedRow(i) /\ out \in [Nodes -> [Slots -> Nodes]] /\ job \in Jobs
      /\ Degree \in Nat /\ Degree' = Degree /\ Protected(i)' = Protected(i)
      /\ thread[i].slot \in Nat /\ thread[i].place \in Nat /\ rev.count[i] \in Nat
      /\ stored[i] \in Nat
  <2>1. /\ Shape /\ MergedRow(i) /\ out \in [Nodes -> [Slots -> Nodes]] /\ job \in Jobs
        /\ Degree \in Nat
    BY <1>1, JobFacts DEF GraphInv, EdgesInv, OutputInv, Shape
  <2>2. Degree' = Degree /\ Protected(i)' = Protected(i)
    BY <1>1 DEF Protected, Degree
  <2>3. thread[i].slot \in Nat /\ thread[i].place \in Nat /\ rev.count[i] \in Nat
    BY <2>1 DEF Shape, Threads
  <2>4. stored[i] \in 0..Degree
    BY <2>1 DEF Shape
  <2>5. stored[i] \in Nat
    BY <2>1, <2>4
  <2> QED BY <2>1, <2>2, <2>3, <2>5
<1>3. Protected(i) < Degree
  BY <1>1, <1>2 DEF MergedRow
<1>4. 0 \in Nat /\ Empty \in Ends /\ {"append", "replace"} \subseteq Places
  BY DEF Ends, Places
<1>5. CASE AppendPruned(i)
  <2> DEFINE f == thread[i].slot
             n == thread[i].place
             m == Min({rev.count[i], Degree})
  <2>1. \/ Go(i, "replace", Empty, m, 0) /\ UNCHANGED out
        \/ n # Degree /\ \E j \in Nodes : /\ out' = [out EXCEPT ![i][n + 1] = j]
                                          /\ Go(i, "append", Empty, f + 1, n + 1)
        \/ Go(i, "append", Empty, f + 1, n) /\ UNCHANGED out
    BY <1>5 DEF AppendPruned
  <2>2. thread[i].at = "append" /\ n <= Degree
    BY <1>2, <1>5 DEF AppendPruned, Turn, MergedRow
  <2>3. m \in Nat /\ m <= Degree
    <3>1. rev.count[i] \in Int /\ Degree \in Int
      BY <1>2
    <3>2. m = IF rev.count[i] <= Degree THEN rev.count[i] ELSE Degree
      BY <3>1, MinOfTwo
    <3> QED BY <1>2, <3>2
  <2> HIDE DEF m, f, n
  <2>4. f + 1 \in Nat /\ n \in Nat /\ n + 1 \in Nat /\ (n # Degree => n + 1 <= Degree)
    <3>1. f \in Nat /\ n \in Nat /\ Degree \in Nat
      BY <1>2 DEF f, n
    <3>2. n <= Degree
      BY <2>2
    <3> QED BY <3>1, <3>2
  <2>5. CASE Go(i, "replace", Empty, m, 0) /\ UNCHANGED out
    <3>1. /\ thread'[i] = [at |-> "replace", to |-> Empty, slot |-> m, place |-> 0]
          /\ \A h \in Nodes \ {i} : thread'[h] = thread[h]
      BY <1>2, <1>4, <2>3, <2>5, GoType
    <3> QED BY <1>1, <1>2, <1>3, <2>3, <2>5, <3>1 DEF MergedRow
  <2>6. CASE Go(i, "append", Empty, f + 1, n) /\ UNCHANGED out
    <3>1. /\ thread'[i] = [at |-> "append", to |-> Empty, slot |-> f + 1, place |-> n]
          /\ \A h \in Nodes \ {i} : thread'[h] = thread[h]
      BY <1>2, <1>4, <2>4, <2>6, GoType
    <3> QED BY <1>1, <1>2, <1>3, <2>2, <2>6, <3>1 DEF MergedRow
  <2>7. ASSUME n # Degree, NEW j \in Nodes, out' = [out EXCEPT ![i][n + 1] = j],
               Go(i, "append", Empty, f + 1, n + 1)
        PROVE  /\ MergedRow(i)' /\ \A h \in Nodes \ {i} : thread'[h] = thread[h]
               /\ out' \in [Nodes -> [Slots -> Nodes]]
    <3>1. /\ thread'[i] = [at |-> "append", to |-> Empty, slot |-> f + 1, place |-> n + 1]
          /\ \A h \in Nodes \ {i} : thread'[h] = thread[h]
      BY <1>2, <1>4, <2>4, <2>7, GoType
    <3>2. out' \in [Nodes -> [Slots -> Nodes]]
      BY <1>2, <2>7
    <3> QED BY <1>2, <1>3, <2>4, <2>7, <3>1, <3>2 DEF MergedRow
  <2> QED BY <1>1, <2>1, <2>5, <2>6, <2>7
<1>6. CASE ReplaceByReverse(i)
  <2> DEFINE r == thread[i].slot
             j == rev.row[i][r]
  <2>1. /\ \/ Done(i)
           \/ r # 0 /\ Go(i, "replace", Empty, r - 1, 0)
        /\ \/ UNCHANGED out
           \/ r # 0 /\ j # Empty /\ out' = [out EXCEPT ![i] = MovedUp(@, Protected(i), j)]
    BY <1>6 DEF ReplaceByReverse
  <2>2. r \in Nat /\ r <= Degree /\ thread[i].at = "replace"
    BY <1>2, <1>6 DEF ReplaceByReverse, Turn, MergedRow
  <2>3. r # 0 => r - 1 \in Nat /\ r - 1 <= Degree
    <3> HIDE DEF r
    <3> QED BY <1>2, <2>2
  <2>4. r # 0 /\ j # Empty => j \in Nodes
    <3>1. r # 0 => r \in Slots
      <4> HIDE DEF r
      <4> QED BY <1>2, <2>2 DEF Slots
    <3> QED BY <1>2, <3>1 DEF Shape, Ends
  <2> HIDE DEF r, j
  <2>5. out' \in [Nodes -> [Slots -> Nodes]]
    <3>1. CASE UNCHANGED out
      BY <1>2, <3>1
    <3>2. CASE r # 0 /\ j # Empty /\ out' = [out EXCEPT ![i] = MovedUp(@, Protected(i), j)]
      <4>1. Protected(i) \in Nat
        <5>1. stored[i] \in Int /\ Degree \div 2 \in Int /\ stored[i] >= 0 /\ Degree \div 2 >= 0
          BY <1>2
        <5>2. Protected(i) = IF stored[i] >= Degree \div 2 THEN stored[i] ELSE Degree \div 2
          BY <5>1, MaxOfTwo DEF Protected
        <5> QED BY <5>1, <5>2
      <4>2. MovedUp(out[i], Protected(i), j) \in [Slots -> Nodes]
        BY <1>2, <1>3, <2>4, <3>2, <4>1, MovedUpType
      <4> QED BY <1>2, <3>2, <4>2
    <3> QED BY <2>1, <3>1, <3>2
  <2>6. CASE Done(i)
    <3>1. thread'[i] = Idle /\ \A h \in Nodes \ {i} : thread'[h] = thread[h]
      BY <1>2, <2>6, DoneType
    <3> QED BY <1>1, <2>5, <3>1 DEF MergedRow, Idle
  <2>7. CASE r # 0 /\ Go(i, "replace", Empty, r - 1, 0)
    <3>1. /\ thread'[i] = [at |-> "replace", to |-> Empty, slot |-> r - 1, place |-> 0]
          /\ \A h \in Nodes \ {i} : thread'[h] = thread[h]
      BY <1>2, <1>4, <2>3, <2>7, GoType
    <3> QED BY <1>1, <1>2, <1>3, <2>3, <2>5, <2>7, <3>1 DEF MergedRow
  <2> QED BY <2>1, <2>6, <2>7
<1> QED BY <1>5, <1>6

LEMMA OutputStep == GraphInv /\ [Next]_vars => OutputInv'
<1> SUFFICES ASSUME GraphInv, [Next]_vars PROVE OutputInv'
  OBVIOUS
<1>1. Shape /\ OutputInv /\ job \in Jobs /\ job' = job /\ Slots' = Slots /\ Degree' = Degree
      /\ Degree \in Nat /\ Degree > 0
  BY JobSame, JobFacts DEF GraphInv, EdgesInv, Shape
<1>2. phase' \in {"reverse", "merge", "done"} => out' \in [Nodes -> [Slots -> Nodes]]
  <2>1. CASE Prune
    BY <1>1, <2>1, PrunedFacts DEF Prune
  <2> QED BY <1>1, <2>1, OutputSteps, MergeThread DEF OutputFacts, OutputInv
<1>3. ASSUME phase' = "merge", NEW h \in Nodes PROVE MergedRow(h)'
  <2>1. CASE Reversed
    <3>1. /\ stored' = stored
          /\ thread' = [i \in Nodes |->
                          IF Protected(i) = Degree THEN Idle
                          ELSE [Idle EXCEPT !.at = "append", !.slot = 1, !.place = stored[i]]]
      BY <1>3, <2>1 DEF Reversed, tree
    <3>2. Protected(h)' = Protected(h)
      BY <1>1, <3>1 DEF Protected
    <3>3. stored[h] \in 0..Degree
      BY <1>1 DEF Shape
    <3>4. Protected(h) \in Int /\ Protected(h) <= Degree /\ stored[h] <= Degree
      <4>1. /\ stored[h] \in Int /\ Degree \div 2 \in Int
            /\ stored[h] <= Degree /\ Degree \div 2 <= Degree
        BY <1>1, <3>3
      <4>2. Protected(h) = IF stored[h] >= Degree \div 2 THEN stored[h] ELSE Degree \div 2
        BY <4>1, MaxOfTwo DEF Protected
      <4> QED BY <4>1, <4>2
    <3>5. CASE Protected(h) = Degree
      BY <3>1, <3>5 DEF MergedRow, Idle
    <3>6. CASE Protected(h) # Degree
      <4>1. thread'[h] = [at |-> "append", to |-> Empty, slot |-> 1, place |-> stored[h]]
        BY <3>1, <3>6 DEF Idle
      <4> QED BY <1>1, <3>2, <3>4, <3>6, <4>1 DEF MergedRow
    <3> QED BY <3>5, <3>6
  <2>2. ASSUME NEW i \in Nodes, AppendPruned(i) \/ ReplaceByReverse(i) PROVE MergedRow(h)'
    <3>1. /\ phase = "merge" /\ stored' = stored /\ MergedRow(i)'
          /\ \A g \in Nodes \ {i} : thread'[g] = thread[g]
      BY <2>2, MergeThread
    <3>2. MergedRow(h) /\ Protected(h)' = Protected(h)
      BY <1>1, <3>1 DEF OutputInv, Protected
    <3> QED BY <1>1, <3>1, <3>2 DEF MergedRow
  <2>3. CASE phase = "merge" /\ UNCHANGED <<thread, stored>>
    <3>1. MergedRow(h) /\ Protected(h)' = Protected(h)
      BY <1>1, <2>3 DEF OutputInv, Protected
    <3> QED BY <1>1, <2>3, <3>1 DEF MergedRow
  <2> QED BY <1>3, <2>1, <2>2, <2>3, OutputSteps DEF OutputFacts
<1> QED BY <1>1, <1>2, <1>3 DEF OutputInv

-----------------------------------------------------------------------------
(* The theorems.                                                           *)

LEMMA GraphInvariant == Spec => []GraphInv
<1>1. Init => GraphInv
  <2>1. Init => ReverseInv /\ OutputInv
    BY DEF Init, ReverseInv, OutputInv
  <2> QED BY <2>1, EdgesInvInit, LabelsInit DEF GraphInv
<1>2. GraphInv /\ [Next]_vars => GraphInv'
  BY EdgesInvStep, LabelsStep, ReverseStep, OutputStep DEF GraphInv
<1> QED BY <1>1, <1>2, PTL DEF Spec

\* Every variable keeps its type; in particular the threads that join clusters never
\* raise a label, the counters of a row's edges stay within the row, and after pruning
\* every edge of the output leads to a node, whatever the merge reads
\* (mst_optimization, optimize).
THEOREM GraphTypes == Spec => []TypeOK
<1>1. GraphInv => TypeOK
  <2> SUFFICES ASSUME GraphInv PROVE TypeOK
    OBVIOUS
  <2>1. Shape /\ LimitsInv /\ OutputInv
    BY DEF GraphInv, EdgesInv
  <2>2. /\ job \in Jobs /\ changed \in BOOLEAN
        /\ phase \in {"candidates", "update", "label", "adjust", "store", "prune", "reverse",
                      "merge", "done"}
    BY <2>1 DEF Shape, MstPhases
  <2>3. ASSUME NEW i \in Nodes
        PROVE  /\ thread[i].at \in Places /\ cand[i] \in Ends /\ mst[i] \in [Slots -> Ends]
               /\ num.out[i] \in Nat /\ num.in[i] \in Nat
               /\ stored[i] \in 0..Degree /\ rev.row[i] \in [Slots -> Ends]
    BY <2>1 DEF Shape, Threads
  <2>4. ASSUME NEW i \in Nodes PROVE label[i] \in 0..i
    <3>1. label[i] \in Nodes /\ label[i] <= i
      BY <2>1 DEF Shape
    <3>2. label[i] \in Nat /\ i \in Nat
      BY <3>1, GraphFacts
    <3> QED BY <3>1, <3>2
  <2>5. ASSUME NEW i \in Nodes
        PROVE  /\ limit.out[i] + limit.in[i] = Degree
               /\ phase \in {"reverse", "merge", "done"} => out[i] \in [Slots -> Nodes]
    BY <2>1 DEF LimitsInv, OutputInv
  <2> QED BY <2>2, <2>3, <2>4, <2>5 DEF TypeOK, Places, Ends
<1> QED BY <1>1, GraphInvariant, PTL

\* Both ends of every edge are written: however the threads of the update kernel
\* overlap, each outgoing edge at the front of a row has its incoming one at the back of
\* the other, and the slots between are empty (kern_mst_opt_update_graph).
THEOREM BothEndsWritten == Spec => []EdgesAgree
<1>1. GraphInv => EdgesAgree
  BY EdgesAgreeFollows DEF GraphInv
<1> QED BY <1>1, GraphInvariant, PTL

\* When a pass of the labelling kernel reports no change, each node has the smallest
\* node of its connected part as its label (kern_mst_opt_labeling).
THEOREM LabelsRight == Spec => []LabelsAreClusters
<1> QED BY LabelsFollow, GraphInvariant, PTL

\* The reverse graph has every edge into a node, in some order, up to the degree: no
\* two threads take the same place (kern_make_rev_graph).
THEOREM ReverseGraphComplete == Spec => []ReverseComplete
<1> QED BY ReverseFollows, GraphInvariant, PTL
=============================================================================
