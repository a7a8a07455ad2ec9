------------------------- MODULE VecFlowBuildProofs -------------------------
(***************************************************************************)
(* Theorems about VecFlowBuild, for every dataset, every number of labels, *)
(* threads and calls, and all faults.                                      *)
(***************************************************************************)
EXTENDS VecFlowBuild, FiniteSetTheorems, FunctionTheorems, WellFoundedInduction, TLAPS

-----------------------------------------------------------------------------
(* The inductive invariant.                                                *)

\* Rows, labels of the first loop, and labels of the second loop done so far.
InvertedTo == IF pc = "collect" THEN i - 1 ELSE Len(call.data_label_vecs)
SizedTo    == IF pc \in {"idle", "collect"} THEN 0
              ELSE IF pc = "size" THEN i ELSE label_number
MappedTo   == IF pc \in {"idle", "collect", "size"} THEN 0
              ELSE IF pc = "map" THEN i ELSE label_number

Carries(p, l) == \E j \in DOMAIN call.data_label_vecs[p] :
                   call.data_label_vecs[p][j] = l

\* Where the rows of the labels below n end in half k.
End(k, n) == IF n = 0 THEN 0 ELSE label_offset[k][n - 1] + label_size[k][n - 1]

\* The loops stay within their ranges, and an idle process knows no label.
StageInv ==
  /\ pc = "idle" => label_number = 0
  /\ pc = "collect" => i \in 1..(Len(call.data_label_vecs) + 1)
  /\ pc \in {"size", "map"} => i <= label_number

\* The rows collected for a label are those among the rows looked at that carry it.
InvertedInv ==
  \A l \in Labels :
    /\ \A j \in 1..Len(label_data_vecs[l]) :
         label_data_vecs[l][j] \in 1..InvertedTo /\ Carries(label_data_vecs[l][j], l)
    /\ \A p \in 1..InvertedTo : Carries(p, l) =>
         \E j \in 1..Len(label_data_vecs[l]) : label_data_vecs[l][j] = p

\* The labels sized so far lie one after the other in their half.
SizesInv ==
  \A k \in Kind, l \in Labels :
    label_size[k][l] = IF l < SizedTo /\ HalfOf(l) = k
                       THEN Len(label_data_vecs[l]) ELSE 0
OffsetsInv ==
  /\ \A k \in Kind : total_rows[k] = End(k, SizedTo)
  /\ \A k \in Kind, l \in Labels : l < SizedTo => label_offset[k][l] = End(k, l)
  /\ \A k \in Kind, l, m \in Labels :
       l < m /\ m < SizedTo =>
         label_offset[k][l] + label_size[k][l] <= label_offset[k][m]

\* The maps hold the labels mapped so far where their offsets say.
MapsInv ==
  /\ \A k \in Kind : Len(index_map[k]) = End(k, MappedTo)
  /\ \A k \in Kind, l \in Labels : l < MappedTo =>
       \A j \in 1..label_size[k][l] :
         index_map[k][label_offset[k][l] + j] = label_data_vecs[l][j]

\* Threads of the parallel loop have labels of the graph half, each its own.
WorkersInv ==
  /\ pc # "parallel" => todo = {} /\ \A w \in Workers : worker[w] = None
  /\ \A l \in todo : label_size["graph"][l] # 0
  /\ \A w \in Workers : worker[w] # None =>
       /\ worker[w] \in Labels \ todo
       /\ label_size["graph"][worker[w]] # 0
  /\ \A v, w \in Workers : v # w /\ worker[v] # None => worker[v] # worker[w]

\* Threads of the kernel have rows of the map.
KernelInv == pc = "kernel" => threads \subseteq 0..(total_rows["bfs"] - 1)

\* Where build() is after both loops over the labels.
Later == {"load", "parallel", "open", "save", "bfs", "kernel", "serialize",
          "write", "ready", "failed"}

\* There is memory for every row of the graph half.
GraphInv == pc \in Later => DOMAIN graph = Cells

IInv == /\ TypeOK /\ StageInv /\ InvertedInv /\ SizesInv /\ OffsetsInv
        /\ MapsInv /\ WorkersInv /\ KernelInv /\ GraphInv

\* The steps after the loops.
LaterStep ==
  \/ Mapped \/ LoadGraph
  \/ \E w \in Workers : WorkerTake(w) \/ WorkerCopy(w)
  \/ Join \/ SaveOpen \/ SaveWrite \/ SaveClose
  \/ StartBfs \/ (\E t \in threads : KernelThread(t)) \/ KernelDone
  \/ Serialize \/ SerializeClose \/ RaiseAtLists

-----------------------------------------------------------------------------
(* Facts about single steps.                                               *)

LEMMA CallType ==
  ASSUME NEW c \in Calls
  PROVE  /\ c.data_label_vecs \in Seq(Seq(Nat))
         /\ c.specificity_threshold \in Int
         /\ c.graph_degree \in Nat /\ c.graph_degree # 0
         /\ LabelNumber(c.data_label_vecs) \in Nat
         /\ LabelNumber(c.data_label_vecs) - 1 = max_label(c.data_label_vecs)
BY CallsAssumption, LargestLabelAssumption DEF LabelNumber

LEMMA NoCallType == NoCall \in Calls
BY BoundsAssumption DEF NoCall

\* The steps after the loops leave what the loops have made.
LEMMA LaterFrame ==
  ASSUME StageInv, LaterStep
  PROVE  /\ UNCHANGED <<call, meta>>
         /\ pc' \in Later
         /\ pc \in Later \/ (pc = "map" /\ i = label_number)
<1>1. CASE Mapped
  BY <1>1 DEF Mapped, Later, meta
<1>2. CASE LoadGraph
  BY <1>2 DEF LoadGraph, Later, meta
<1>3. ASSUME NEW w \in Workers, WorkerTake(w) \/ WorkerCopy(w)
      PROVE  /\ UNCHANGED <<call, meta>> /\ pc' \in Later /\ pc \in Later
  BY <1>3 DEF WorkerTake, WorkerCopy, Later, meta
<1>4. CASE Join
  BY <1>4 DEF Join, Later, meta
<1>5. CASE SaveOpen \/ SaveWrite \/ SaveClose
  BY <1>5 DEF SaveOpen, SaveWrite, SaveClose, Later, meta
<1>6. CASE StartBfs
  BY <1>6 DEF StartBfs, Later, meta
<1>7. ASSUME NEW t \in threads, KernelThread(t)
      PROVE  /\ UNCHANGED <<call, meta>> /\ pc' \in Later /\ pc \in Later
  BY <1>7 DEF KernelThread, Later, meta
<1>8. CASE KernelDone \/ Serialize \/ SerializeClose \/ RaiseAtLists
  BY <1>8 DEF KernelDone, Serialize, SerializeClose, RaiseAtLists, Later, meta
<1> QED BY <1>1, <1>2, <1>3, <1>4, <1>5, <1>6, <1>7, <1>8 DEF LaterStep

\* Hence they preserve what is said of it.
LEMMA LaterKeeps ==
  ASSUME IInv, LaterStep
  PROVE  StageInv' /\ InvertedInv' /\ SizesInv' /\ OffsetsInv' /\ MapsInv'
<1>1. /\ UNCHANGED <<call, meta>> /\ pc' \in Later
      /\ pc \in Later \/ (pc = "map" /\ i = label_number)
  BY LaterFrame DEF IInv
<1>2. /\ InvertedTo' = InvertedTo /\ SizedTo' = SizedTo /\ MappedTo' = MappedTo
      /\ Labels' = Labels
  BY <1>1 DEF InvertedTo, SizedTo, MappedTo, Labels, Later, meta
<1>3. StageInv'
  BY <1>1 DEF StageInv, Later
<1>4. InvertedInv'
  <2>1. \A p, l : Carries(p, l)' = Carries(p, l)
    BY <1>1 DEF Carries
  <2> QED BY <1>1, <1>2, <2>1 DEF IInv, InvertedInv, meta
<1>5. \A l : HalfOf(l)' = HalfOf(l)
  BY <1>1 DEF HalfOf, cat_freq, meta
<1>6. SizesInv'
  BY <1>1, <1>2, <1>5 DEF IInv, SizesInv, meta
<1>7. \A k, n : End(k, n)' = End(k, n)
  BY <1>1 DEF End, meta
<1>8. OffsetsInv'
  BY <1>1, <1>2, <1>7 DEF IInv, OffsetsInv, meta
<1>9. MapsInv'
  BY <1>1, <1>2, <1>7 DEF IInv, MapsInv, meta
<1> QED BY <1>3, <1>4, <1>6, <1>8, <1>9

-----------------------------------------------------------------------------
(* The start of a call, and of a process.                                  *)

LEMMA InitInv == Init => IInv
<1> SUFFICES ASSUME Init PROVE IInv
  OBVIOUS
<1>1. Labels = {} /\ call \in Calls
  BY NoCallType DEF Init, Labels
<1>2. /\ <<>> \in [Labels -> Nat] /\ <<>> \in [Labels -> Seq(Nat)]
      /\ NoLabels \in [Kind -> Seq(Nat)]
  BY <1>1 DEF NoLabels
<1>3. /\ NoGraphFile \in [exists : BOOLEAN, header : BOOLEAN, rows : Nat,
                          cols : Nat, cells : Seq(GraphCell)]
      /\ NoBfsFile.exists \in BOOLEAN /\ NoBfsFile.complete \in BOOLEAN
      /\ NoBfsFile.lists \in [DOMAIN NoBfsFile.lists -> Seq(Nat)]
      /\ DOMAIN NoBfsFile.lists \subseteq Nat
  BY DEF NoGraphFile, NoBfsFile
<1>4. <<>> \in [DOMAIN <<>> -> GraphCell] /\ DOMAIN <<>> \subseteq Nat
      /\ <<>> \in [DOMAIN <<>> -> Seq(Nat)]
  OBVIOUS
<1>5. TypeOK
  BY <1>1, <1>2, <1>3, <1>4 DEF Init, TypeOK, NoLabels, NoRows
<1>6. StageInv /\ InvertedInv /\ SizesInv /\ KernelInv /\ WorkersInv /\ GraphInv
  BY <1>1 DEF Init, StageInv, InvertedInv, SizesInv, KernelInv, WorkersInv, GraphInv, Later
<1>7. SizedTo = 0 /\ MappedTo = 0
  BY DEF Init, SizedTo, MappedTo
<1>8. OffsetsInv /\ MapsInv
  BY <1>1, <1>7 DEF Init, OffsetsInv, MapsInv, End, NoRows, NoLabels
<1> QED BY <1>5, <1>6, <1>8 DEF IInv

LEMMA CallInv ==
  ASSUME IInv, Call
  PROVE  IInv'
<1> DEFINE L == 0..max_label(call'.data_label_vecs)
<1>0. /\ call' \in Calls /\ pc' = "collect" /\ i' = 1
      /\ label_number' = LabelNumber(call'.data_label_vecs)
  BY DEF Call
<1>1. /\ call' \in Calls /\ pc' = "collect" /\ i' = 1
      /\ label_number' \in Nat /\ label_number' - 1 = max_label(call'.data_label_vecs)
  BY <1>0, CallType
<1>2. /\ label_data_vecs' = [l \in L |-> <<>>]
      /\ label_size' = [k \in Kind |-> [l \in L |-> 0]]
      /\ label_offset' = [k \in Kind |-> [l \in L |-> 0]]
      /\ lists' = [l \in L |-> <<>>]
      /\ total_rows' = NoRows /\ labels' = NoRows /\ index_map' = NoLabels
      /\ graph' = <<>> /\ calls' = calls + 1
      /\ UNCHANGED <<todo, worker, threads, graph_file, bfs_file>>
  BY DEF Call, files
<1>3. pc # "parallel" /\ todo = {} /\ \A w \in Workers : worker[w] = None
  BY DEF Call, IInv, WorkersInv
<1>4. Labels' = L /\ L \subseteq Nat
  BY <1>1 DEF Labels
<1> HIDE DEF L
<1>5. TypeOK'
  <2>1. /\ label_data_vecs' \in [L -> Seq(Nat)]
        /\ label_size' \in [Kind -> [L -> Nat]]
        /\ label_offset' \in [Kind -> [L -> Nat]]
        /\ DOMAIN lists' = L /\ lists' \in [L -> Seq(Nat)]
    BY <1>2
  <2>2. /\ total_rows' \in [Kind -> Nat] /\ labels' \in [Kind -> Nat]
        /\ index_map' \in [Kind -> Seq(Nat)]
    BY <1>2 DEF NoRows, NoLabels
  <2>3. graph' \in [DOMAIN graph' -> GraphCell] /\ DOMAIN graph' \subseteq Nat
    BY <1>2
  <2>4. worker' \in [Workers -> Labels' \cup {None}] /\ todo' \in SUBSET Labels'
    BY <1>2, <1>3 DEF IInv, TypeOK
  <2> QED BY <1>1, <1>2, <1>4, <2>1, <2>2, <2>3, <2>4 DEF IInv, TypeOK
<1>6. StageInv'
  <2>1. Len(call'.data_label_vecs) \in Nat
    BY <1>1, CallType
  <2> QED BY <1>1, <2>1 DEF StageInv
<1>7. InvertedTo' = 0 /\ SizedTo' = 0 /\ MappedTo' = 0
  BY <1>1 DEF InvertedTo, SizedTo, MappedTo
<1>8. InvertedInv'
  BY <1>2, <1>4, <1>7 DEF InvertedInv
<1>9. SizesInv'
  BY <1>2, <1>4, <1>7 DEF SizesInv
<1>10. OffsetsInv' /\ MapsInv'
  BY <1>2, <1>4, <1>7 DEF OffsetsInv, MapsInv, End, NoRows, NoLabels
<1>11. WorkersInv' /\ KernelInv' /\ GraphInv'
  BY <1>1, <1>2, <1>3 DEF WorkersInv, KernelInv, GraphInv, Later
<1> QED BY <1>5, <1>6, <1>8, <1>9, <1>10, <1>11 DEF IInv

LEMMA DiesInv ==
  ASSUME IInv, Dies
  PROVE  IInv'
<1>1. Labels' = {} /\ call' \in Calls /\ pc' = "idle"
  BY NoCallType DEF Dies, Labels
<1>2. /\ <<>> \in [Labels' -> Nat] /\ <<>> \in [Labels' -> Seq(Nat)]
      /\ NoLabels \in [Kind -> Seq(Nat)]
  BY <1>1 DEF NoLabels
<1>3. <<>> \in [DOMAIN <<>> -> GraphCell] /\ DOMAIN <<>> \subseteq Nat
      /\ <<>> \in [DOMAIN <<>> -> Seq(Nat)]
  OBVIOUS
<1>4. TypeOK'
  BY <1>1, <1>2, <1>3 DEF Dies, IInv, TypeOK, NoLabels, NoRows, files
<1>5. StageInv' /\ InvertedInv' /\ SizesInv' /\ KernelInv' /\ WorkersInv' /\ GraphInv'
  BY <1>1 DEF Dies, StageInv, InvertedInv, SizesInv, KernelInv, WorkersInv, GraphInv, Later
<1>6. SizedTo' = 0 /\ MappedTo' = 0
  BY <1>1 DEF SizedTo, MappedTo
<1>7. OffsetsInv' /\ MapsInv'
  BY <1>1, <1>6 DEF Dies, OffsetsInv, MapsInv, End, NoRows, NoLabels
<1> QED BY <1>4, <1>5, <1>7 DEF IInv

-----------------------------------------------------------------------------
(* The loops.                                                              *)

\* What the types say of the labels' rows and places.
LEMMA LabelTypes ==
  ASSUME TypeOK
  PROVE  /\ call \in Calls /\ label_number \in Nat /\ i \in Nat
         /\ Labels \subseteq Nat
         /\ \A l \in Labels : l < label_number
         /\ \A l \in Labels : /\ label_data_vecs[l] \in Seq(Nat)
                              /\ Len(label_data_vecs[l]) \in Nat
         /\ \A k \in Kind, l \in Labels :
              label_size[k][l] \in Nat /\ label_offset[k][l] \in Nat
BY DEF TypeOK, Labels

\* A row entered n times under a label comes after the rows that are there.
LEMMA AppendRow ==
  ASSUME NEW s \in Seq(Nat), NEW r \in Nat, NEW n \in Nat
  PROVE  /\ s \o [j \in 1..n |-> r] \in Seq(Nat)
         /\ Len(s \o [j \in 1..n |-> r]) = Len(s) + n
         /\ \A j \in 1..Len(s \o [k \in 1..n |-> r]) :
              (s \o [k \in 1..n |-> r])[j] = IF j <= Len(s) THEN s[j] ELSE r
<1> DEFINE t == [j \in 1..n |-> r]
<1>1. t \in Seq(Nat) /\ Len(t) = n /\ \A j \in 1..n : t[j] = r
  OBVIOUS
<1> HIDE DEF t
<1>2. s \o t \in Seq(Nat) /\ Len(s \o t) = Len(s) + n
  BY <1>1
<1>3. ASSUME NEW j \in 1..Len(s \o t)
      PROVE  (s \o t)[j] = IF j <= Len(s) THEN s[j] ELSE r
  <2>1. CASE j <= Len(s)
    BY <1>1, <1>2, <2>1
  <2>2. CASE ~(j <= Len(s))
    <3>1. j - Len(s) \in 1..n
      BY <1>2, <2>2
    <3>2. (s \o t)[j] = t[j - Len(s)]
      BY <1>1, <1>2, <2>2
    <3> QED BY <1>1, <2>2, <3>1, <3>2
  <2> QED BY <2>1, <2>2
<1> QED BY <1>2, <1>3 DEF t

LEMMA HalfType == \A l : HalfOf(l) \in Kind
BY DEF HalfOf, Kind

\* A row is entered under the labels it carries, and under no other.
LEMMA CollectRowInv ==
  ASSUME IInv, CollectRow
  PROVE  IInv'
<1>1. /\ pc = "collect" /\ pc' = "collect" /\ call' = call /\ i' = i + 1
      /\ UNCHANGED <<calls, label_number, label_size, label_offset, total_rows,
                     labels, index_map, todo, worker, threads, graph, lists,
                     graph_file, bfs_file>>
      /\ Labels' = Labels
  BY DEF CollectRow, index, files, Labels
<1>2. /\ call.data_label_vecs \in Seq(Seq(Nat))
      /\ i \in 1..Len(call.data_label_vecs)
      /\ Len(call.data_label_vecs) \in Nat
  BY CallType, LabelTypes DEF IInv, CollectRow, StageInv
<1> DEFINE row == call.data_label_vecs[i]
           times(l) == Cardinality({j \in DOMAIN row : row[j] = l})
           new(l) == [j \in 1..times(l) |-> i]
<1>3. label_data_vecs' = [l \in Labels |-> label_data_vecs[l] \o new(l)]
  BY DEF CollectRow
<1>4. row \in Seq(Nat) /\ DOMAIN row = 1..Len(row) /\ Len(row) \in Nat
  BY <1>2
<1>5. ASSUME NEW l \in Labels
      PROVE  times(l) \in Nat /\ (times(l) = 0 <=> ~Carries(i, l))
  <2> DEFINE T == {j \in DOMAIN row : row[j] = l}
  <2>1. IsFiniteSet(1..Len(row))
    <3>1. 1 \in Int /\ Len(row) \in Int
      BY <1>4
    <3> HIDE DEF row
    <3> QED BY <3>1, FS_Interval
  <2>2. IsFiniteSet(T)
    BY <1>4, <2>1, FS_Subset
  <2>3. Cardinality(T) \in Nat /\ (Cardinality(T) = 0 <=> T = {})
    BY <2>2, FS_CardinalityType, FS_EmptySet
  <2>4. T = {} <=> ~Carries(i, l)
    BY DEF Carries
  <2> QED BY <2>3, <2>4
<1> HIDE DEF times, row
<1>6. ASSUME NEW l \in Labels
      PROVE  /\ label_data_vecs'[l] \in Seq(Nat)
             /\ Len(label_data_vecs'[l]) = Len(label_data_vecs[l]) + times(l)
             /\ \A j \in 1..Len(label_data_vecs'[l]) :
                  label_data_vecs'[l][j] = IF j <= Len(label_data_vecs[l])
                                           THEN label_data_vecs[l][j] ELSE i
             /\ Len(label_data_vecs[l]) \in Nat
  <2>1. label_data_vecs[l] \in Seq(Nat) /\ i \in Nat /\ Len(label_data_vecs[l]) \in Nat
    BY LabelTypes DEF IInv
  <2>2. label_data_vecs'[l] = label_data_vecs[l] \o [j \in 1..times(l) |-> i]
    BY <1>3
  <2>3. times(l) \in Nat
    BY <1>5
  <2> DEFINE s == label_data_vecs[l]
             n == times(l)
             t == s \o [j \in 1..n |-> i]
  <2> HIDE DEF s, n
  <2>4. s \in Seq(Nat) /\ n \in Nat /\ i \in Nat
    BY <2>1, <2>3 DEF s, n
  <2>5. /\ t \in Seq(Nat) /\ Len(t) = Len(s) + n
        /\ \A j \in 1..Len(t) : t[j] = IF j <= Len(s) THEN s[j] ELSE i
    BY <2>4, AppendRow
  <2>6. label_data_vecs'[l] = t
    BY <2>2 DEF s, n
  <2> HIDE DEF t
  <2> QED BY <2>1, <2>5, <2>6 DEF s, n
<1> HIDE DEF new
<1>7. TypeOK'
  <2>1. label_data_vecs' \in [Labels' -> Seq(Nat)]
    BY <1>1, <1>3, <1>6
  <2>2. i' \in Nat
    BY <1>1, <1>2
  <2> QED BY <1>1, <2>1, <2>2 DEF IInv, TypeOK
<1>8. StageInv'
  BY <1>1, <1>2 DEF StageInv
<1>9. InvertedInv'
  <2>1. InvertedTo = i - 1 /\ InvertedTo' = i
    BY <1>1, <1>2 DEF InvertedTo
  <2>2. \A p, l : Carries(p, l)' = Carries(p, l)
    BY <1>1 DEF Carries
  <2> SUFFICES ASSUME NEW l \in Labels
               PROVE  /\ \A j \in 1..Len(label_data_vecs'[l]) :
                           /\ label_data_vecs'[l][j] \in 1..i
                           /\ Carries(label_data_vecs'[l][j], l)
                      /\ \A p \in 1..i : Carries(p, l) =>
                           \E j \in 1..Len(label_data_vecs'[l]) :
                             label_data_vecs'[l][j] = p
    BY <1>1, <2>1, <2>2 DEF InvertedInv
  <2>3. /\ \A j \in 1..Len(label_data_vecs[l]) :
             label_data_vecs[l][j] \in 1..(i - 1) /\ Carries(label_data_vecs[l][j], l)
        /\ \A p \in 1..(i - 1) : Carries(p, l) =>
             \E j \in 1..Len(label_data_vecs[l]) : label_data_vecs[l][j] = p
    BY <2>1 DEF IInv, InvertedInv
  <2>4. ASSUME NEW j \in 1..Len(label_data_vecs'[l])
        PROVE  label_data_vecs'[l][j] \in 1..i /\ Carries(label_data_vecs'[l][j], l)
    <3> DEFINE n == Len(label_data_vecs[l])
    <3>1. /\ n \in Nat /\ times(l) \in Nat /\ j \in 1..(n + times(l))
          /\ label_data_vecs'[l][j] = IF j <= n THEN label_data_vecs[l][j] ELSE i
      BY <1>5, <1>6
    <3>2. CASE j <= n
      <4>1. j \in 1..n
        BY <3>1, <3>2
      <4> QED BY <1>2, <2>3, <3>1, <3>2, <4>1
    <3>3. CASE ~(j <= n)
      <4>1. times(l) # 0
        BY <3>1, <3>3
      <4> QED BY <1>2, <1>5, <3>1, <3>3, <4>1
    <3> QED BY <3>2, <3>3
  <2>5. ASSUME NEW p \in 1..i, Carries(p, l)
        PROVE  \E j \in 1..Len(label_data_vecs'[l]) : label_data_vecs'[l][j] = p
    <3> DEFINE n == Len(label_data_vecs[l])
               m == Len(label_data_vecs'[l])
    <3>0. /\ n \in Nat /\ times(l) \in Nat /\ m = n + times(l)
          /\ \A j \in 1..m : label_data_vecs'[l][j] =
                               IF j <= n THEN label_data_vecs[l][j] ELSE i
      BY <1>5, <1>6
    <3>1. CASE p # i
      <4>1. p \in 1..(i - 1)
        BY <1>2, <3>1
      <4>2. PICK j \in 1..n : label_data_vecs[l][j] = p
        BY <2>3, <2>5, <4>1
      <4>3. j \in 1..m /\ j <= n
        BY <3>0
      <4>4. label_data_vecs'[l][j] = p
        BY <3>0, <4>2, <4>3
      <4> QED BY <4>3, <4>4
    <3>2. CASE p = i
      <4>1. times(l) # 0
        BY <1>5, <2>5, <3>2
      <4>2. n + 1 \in 1..m /\ ~(n + 1 <= n)
        BY <3>0, <4>1
      <4>3. label_data_vecs'[l][n + 1] = p
        BY <3>0, <3>2, <4>2
      <4> QED BY <4>2, <4>3
    <3> QED BY <3>1, <3>2
  <2> QED BY <2>4, <2>5
<1>10. SizedTo = 0 /\ SizedTo' = 0 /\ MappedTo = 0 /\ MappedTo' = 0
  BY <1>1 DEF SizedTo, MappedTo
<1>11. SizesInv'
  <2>1. \A l \in Labels : ~(l < 0)
    BY LabelTypes DEF IInv
  <2> QED BY <1>1, <1>10, <2>1 DEF IInv, SizesInv
<1>12. OffsetsInv' /\ MapsInv'
  <2>1. \A l \in Labels : ~(l < 0)
    BY LabelTypes DEF IInv
  <2> QED BY <1>1, <1>10, <2>1 DEF IInv, OffsetsInv, MapsInv, End
<1>13. WorkersInv' /\ KernelInv' /\ GraphInv'
  BY <1>1 DEF IInv, WorkersInv, KernelInv, GraphInv, Later
<1> QED BY <1>7, <1>8, <1>9, <1>11, <1>12, <1>13 DEF IInv

\* Between the loops nothing is said that was not said before.
LEMMA BetweenLoopsInv ==
  ASSUME IInv, Collected \/ Sized
  PROVE  IInv'
<1>1. /\ UNCHANGED <<call, calls, label_number, label_data_vecs, label_size,
                     label_offset, total_rows, labels, index_map, todo, worker,
                     threads, graph, lists, graph_file, bfs_file>>
      /\ i' = 0 /\ Labels' = Labels
  BY DEF Collected, Sized, meta, index, files, Labels
<1>2. /\ Len(call.data_label_vecs) \in Nat /\ i \in Nat /\ label_number \in Nat
  BY CallType, LabelTypes DEF IInv
<1>3. \/ pc = "collect" /\ pc' = "size" /\ i = Len(call.data_label_vecs) + 1
      \/ pc = "size" /\ pc' = "map" /\ i = label_number
  BY <1>2 DEF Collected, Sized, IInv, StageInv
<1>4. InvertedTo' = InvertedTo /\ SizedTo' = SizedTo /\ MappedTo' = MappedTo
  BY <1>1, <1>2, <1>3 DEF InvertedTo, SizedTo, MappedTo
<1>5. TypeOK'
  BY <1>1, <1>3 DEF IInv, TypeOK
<1>6. StageInv'
  BY <1>1, <1>2, <1>3 DEF StageInv
<1>7. InvertedInv'
  <2>1. \A p, l : Carries(p, l)' = Carries(p, l)
    BY <1>1 DEF Carries
  <2> QED BY <1>1, <1>4, <2>1 DEF IInv, InvertedInv
<1>8. \A l : HalfOf(l)' = HalfOf(l)
  BY <1>1 DEF HalfOf, cat_freq
<1>9. SizesInv'
  BY <1>1, <1>4, <1>8 DEF IInv, SizesInv
<1>10. OffsetsInv' /\ MapsInv'
  BY <1>1, <1>4 DEF IInv, OffsetsInv, MapsInv, End
<1>11. WorkersInv' /\ KernelInv' /\ GraphInv'
  BY <1>1, <1>3 DEF IInv, WorkersInv, KernelInv, GraphInv, Later
<1> QED BY <1>5, <1>6, <1>7, <1>9, <1>10, <1>11 DEF IInv

\* The label of a turn of the first loop is sized, and comes after the others
\* in its half.
LEMMA SizeLabelInv ==
  ASSUME IInv, SizeLabel
  PROVE  IInv'
<1> DEFINE k == HalfOf(i)
           n_rows == Len(label_data_vecs[i])
<1>1. /\ pc = "size" /\ pc' = "size" /\ i < label_number /\ i' = i + 1
      /\ UNCHANGED <<call, calls, label_number, label_data_vecs, index_map,
                     todo, worker, threads, graph, lists, graph_file, bfs_file>>
      /\ Labels' = Labels
  BY DEF SizeLabel, index, files, Labels
<1>2. /\ i \in Nat /\ i \in Labels /\ label_number \in Nat /\ Labels \subseteq Nat
      /\ k \in Kind /\ n_rows \in Nat
  BY <1>1, LabelTypes, HalfType DEF IInv, Labels
<1>3. /\ label_size \in [Kind -> [Labels -> Nat]]
      /\ label_offset \in [Kind -> [Labels -> Nat]]
      /\ total_rows \in [Kind -> Nat] /\ labels \in [Kind -> Nat]
  BY DEF IInv, TypeOK
<1>4. /\ label_size' = [label_size EXCEPT ![k][i] = n_rows]
      /\ label_offset' =
           [h \in Kind |-> [label_offset[h] EXCEPT ![i] = total_rows[h]]]
      /\ total_rows' = [total_rows EXCEPT ![k] = @ + n_rows]
      /\ labels' = [labels EXCEPT ![k] = @ + 1]
  BY DEF SizeLabel, NextOffset
<1> HIDE DEF k, n_rows
<1>5. ASSUME NEW h \in Kind, NEW l \in Labels
      PROVE  /\ label_size'[h][l] = IF h = k /\ l = i THEN n_rows ELSE label_size[h][l]
             /\ label_offset'[h][l] = IF l = i THEN total_rows[h] ELSE label_offset[h][l]
             /\ label_size[h][l] \in Nat /\ label_offset[h][l] \in Nat
             /\ total_rows[h] \in Nat
  BY <1>2, <1>3, <1>4
<1>6. SizedTo = i /\ SizedTo' = i + 1 /\ MappedTo = 0 /\ MappedTo' = 0
  BY <1>1 DEF SizedTo, MappedTo
<1>7. \A h \in Kind : label_size[h][i] = 0
  BY <1>2, <1>6 DEF IInv, SizesInv
<1>8. TypeOK'
  <2>1. label_size' \in [Kind -> [Labels -> Nat]]
    BY <1>2, <1>3, <1>4
  <2>2. label_offset' \in [Kind -> [Labels -> Nat]]
    BY <1>2, <1>3, <1>4
  <2>3. total_rows' \in [Kind -> Nat] /\ labels' \in [Kind -> Nat]
    BY <1>2, <1>3, <1>4
  <2>4. i' \in Nat
    BY <1>1, <1>2
  <2> QED BY <1>1, <2>1, <2>2, <2>3, <2>4 DEF IInv, TypeOK
<1>9. StageInv'
  BY <1>1, <1>2 DEF StageInv
<1>10. InvertedInv'
  <2>1. InvertedTo' = InvertedTo
    BY <1>1 DEF InvertedTo
  <2>2. \A p, l : Carries(p, l)' = Carries(p, l)
    BY <1>1 DEF Carries
  <2> QED BY <1>1, <2>1, <2>2 DEF IInv, InvertedInv
<1>11. SizesInv'
  <2>1. \A l : HalfOf(l)' = HalfOf(l)
    BY <1>1 DEF HalfOf, cat_freq
  <2> SUFFICES ASSUME NEW h \in Kind, NEW l \in Labels
               PROVE  label_size'[h][l] = IF l < i + 1 /\ HalfOf(l) = h
                                          THEN Len(label_data_vecs[l]) ELSE 0
    BY <1>1, <1>6, <2>1 DEF SizesInv
  <2>2. label_size[h][l] = IF l < i /\ HalfOf(l) = h
                           THEN Len(label_data_vecs[l]) ELSE 0
    BY <1>6 DEF IInv, SizesInv
  <2>3. CASE l = i
    BY <1>2, <1>5, <1>7, <2>3 DEF k, n_rows
  <2>4. CASE l # i
    <3>1. l < i + 1 <=> l < i
      BY <1>2, <2>4
    <3>2. label_size'[h][l] = label_size[h][l]
      BY <1>5, <2>4
    <3> QED BY <2>2, <3>1, <3>2
  <2> QED BY <2>3, <2>4
<1>12. OffsetsInv'
  <2>1. ASSUME NEW h \in Kind, NEW l \in Labels, l <= i
        PROVE  End(h, l)' = End(h, l)
    <3>1. CASE l = 0
      BY <3>1 DEF End
    <3>2. CASE l # 0
      <4>1. l - 1 \in Labels /\ l - 1 # i
        BY <1>2, <2>1, <3>2 DEF Labels
      <4> QED BY <1>5, <3>2, <4>1 DEF End
    <3> QED BY <3>1, <3>2
  <2>2. ASSUME NEW h \in Kind
        PROVE  total_rows[h] = End(h, i)
    BY <1>6 DEF IInv, OffsetsInv
  <2>3. ASSUME NEW h \in Kind
        PROVE  total_rows'[h] = label_offset'[h][i] + label_size'[h][i]
    <3>1. total_rows'[h] = IF h = k THEN total_rows[h] + n_rows ELSE total_rows[h]
      BY <1>2, <1>3, <1>4
    <3> QED BY <1>2, <1>5, <1>7, <3>1
  <2>4. ASSUME NEW h \in Kind, NEW l \in Labels, l < i + 1
        PROVE  label_offset'[h][l] = End(h, l)'
    <3>1. CASE l = i
      BY <1>2, <1>5, <2>1, <2>2, <3>1
    <3>2. CASE l # i
      <4>1. l < i
        BY <1>2, <2>4, <3>2
      <4>2. label_offset[h][l] = End(h, l)
        BY <1>6, <4>1 DEF IInv, OffsetsInv
      <4> QED BY <1>2, <1>5, <2>1, <3>2, <4>1, <4>2
    <3> QED BY <3>1, <3>2
  <2>5. ASSUME NEW h \in Kind, NEW l \in Labels, NEW m \in Labels, l < m, m < i + 1
        PROVE  label_offset'[h][l] + label_size'[h][l] <= label_offset'[h][m]
    <3>1. l # i /\ l < i
      BY <1>2, <2>5
    <3>2. label_offset'[h][l] + label_size'[h][l] = label_offset[h][l] + label_size[h][l]
      BY <1>5, <3>1
    <3>3. CASE m # i
      <4>1. m < i
        BY <1>2, <2>5, <3>3
      <4>2. label_offset[h][l] + label_size[h][l] <= label_offset[h][m]
        BY <1>6, <2>5, <4>1 DEF IInv, OffsetsInv
      <4> QED BY <1>5, <3>2, <3>3, <4>2
    <3>4. CASE m = i
      <4>1. i - 1 \in Labels /\ i # 0 /\ l <= i - 1 /\ i - 1 < i
        BY <1>2, <3>1 DEF Labels
      <4>2. total_rows[h] = label_offset[h][i - 1] + label_size[h][i - 1]
        BY <2>2, <4>1 DEF End
      <4>3. l # i - 1 =>
              label_offset[h][l] + label_size[h][l] <= label_offset[h][i - 1]
        BY <1>2, <1>6, <4>1 DEF IInv, OffsetsInv
      <4>4. label_offset[h][l] + label_size[h][l] <= total_rows[h]
        BY <1>5, <4>1, <4>2, <4>3
      <4> QED BY <1>5, <3>2, <3>4, <4>4
    <3> QED BY <3>3, <3>4
  <2>6. \A h \in Kind : total_rows'[h] = End(h, SizedTo)'
    <3>1. i + 1 # 0 /\ (i + 1) - 1 = i
      BY <1>2
    <3> QED BY <1>6, <2>3, <3>1 DEF End
  <2> QED BY <1>1, <1>6, <2>4, <2>5, <2>6 DEF OffsetsInv
<1>13. MapsInv'
  <2>1. \A l \in Labels : ~(l < 0)
    BY <1>2
  <2> QED BY <1>1, <1>6, <2>1 DEF IInv, MapsInv, End
<1>14. WorkersInv' /\ KernelInv' /\ GraphInv'
  BY <1>1 DEF IInv, WorkersInv, KernelInv, GraphInv, Later
<1> QED BY <1>8, <1>9, <1>10, <1>11, <1>12, <1>13, <1>14 DEF IInv

\* The elements of the parts of a concatenation.
LEMMA Parts ==
  ASSUME NEW s \in Seq(Nat), NEW t \in Seq(Nat)
  PROVE  /\ Len(s \o t) = Len(s) + Len(t)
         /\ \A j \in 1..Len(s) : (s \o t)[j] = s[j]
         /\ \A j \in 1..Len(t) : (s \o t)[Len(s) + j] = t[j]
OBVIOUS

\* The rows of the label of a turn of the second loop come to lie where the
\* first loop has said.
LEMMA MapLabelInv ==
  ASSUME IInv, MapLabel
  PROVE  IInv'
<1> DEFINE k == HalfOf(i)
           rows == label_data_vecs[i]
<1>1. /\ pc = "map" /\ pc' = "map" /\ i < label_number /\ i' = i + 1
      /\ UNCHANGED <<call, calls, label_number, label_data_vecs, label_size,
                     label_offset, total_rows, labels, todo, worker, threads,
                     graph, lists, graph_file, bfs_file>>
      /\ Labels' = Labels
  BY DEF MapLabel, index, files, Labels
<1>2. /\ i \in Nat /\ i \in Labels /\ label_number \in Nat /\ Labels \subseteq Nat
      /\ k \in Kind /\ rows \in Seq(Nat) /\ Len(rows) \in Nat
  BY <1>1, LabelTypes, HalfType DEF IInv, Labels
<1>3. index_map \in [Kind -> Seq(Nat)]
  BY DEF IInv, TypeOK
<1>4. index_map' = [index_map EXCEPT ![k] = @ \o rows]
  BY DEF MapLabel
<1>5. SizedTo = label_number /\ SizedTo' = label_number
      /\ MappedTo = i /\ MappedTo' = i + 1
  BY <1>1 DEF SizedTo, MappedTo
<1>6. \A h \in Kind : label_size[h][i] = IF h = k THEN Len(rows) ELSE 0
  BY <1>1, <1>2, <1>5 DEF IInv, SizesInv
<1> HIDE DEF k, rows
<1>7. ASSUME NEW h \in Kind
      PROVE  /\ index_map[h] \in Seq(Nat) /\ Len(index_map[h]) \in Nat
             /\ index_map'[h] = IF h = k THEN index_map[h] \o rows ELSE index_map[h]
             /\ Len(index_map[h]) = label_offset[h][i]
             /\ label_offset[h][i] \in Nat
  <2>1. index_map[h] \in Seq(Nat) /\ Len(index_map[h]) \in Nat
    BY <1>3
  <2>2. index_map'[h] = IF h = k THEN index_map[h] \o rows ELSE index_map[h]
    BY <1>3, <1>4
  <2>3. Len(index_map[h]) = End(h, i)
    BY <1>5 DEF IInv, MapsInv
  <2>4. label_offset[h][i] = End(h, i)
    BY <1>1, <1>2, <1>5 DEF IInv, OffsetsInv
  <2>5. label_offset[h][i] \in Nat
    BY <1>2, LabelTypes DEF IInv
  <2> QED BY <2>1, <2>2, <2>3, <2>4, <2>5
<1>8. TypeOK'
  <2>1. index_map' \in [Kind -> Seq(Nat)]
    BY <1>2, <1>3, <1>4
  <2>2. i' \in Nat
    BY <1>1, <1>2
  <2> QED BY <1>1, <2>1, <2>2 DEF IInv, TypeOK
<1>9. StageInv'
  BY <1>1, <1>2 DEF StageInv
<1>10. InvertedInv'
  <2>1. InvertedTo' = InvertedTo
    BY <1>1 DEF InvertedTo
  <2>2. \A p, l : Carries(p, l)' = Carries(p, l)
    BY <1>1 DEF Carries
  <2> QED BY <1>1, <2>1, <2>2 DEF IInv, InvertedInv
<1>11. SizesInv'
  <2>1. \A l : HalfOf(l)' = HalfOf(l)
    BY <1>1 DEF HalfOf, cat_freq
  <2> QED BY <1>1, <1>5, <2>1 DEF IInv, SizesInv
<1>12. OffsetsInv'
  BY <1>1, <1>5 DEF IInv, OffsetsInv, End
<1>13. MapsInv'
  <2>1. ASSUME NEW h \in Kind
        PROVE  Len(index_map'[h]) = label_offset[h][i] + label_size[h][i]
    <3>1. CASE h = k
      <4>1. Len(index_map[h] \o rows) = Len(index_map[h]) + Len(rows)
        BY <1>2, <1>7, Parts
      <4> QED BY <1>6, <1>7, <3>1, <4>1
    <3>2. CASE h # k
      BY <1>6, <1>7, <3>2
    <3> QED BY <3>1, <3>2
  <2>2. \A h \in Kind : Len(index_map'[h]) = End(h, MappedTo)'
    <3>1. i + 1 # 0 /\ (i + 1) - 1 = i
      BY <1>2
    <3>2. ASSUME NEW h \in Kind
          PROVE  End(h, MappedTo)' = label_offset[h][i] + label_size[h][i]
      BY <1>1, <1>5, <3>1 DEF End
    <3> QED BY <2>1, <3>2
  <2>3. ASSUME NEW h \in Kind, NEW l \in Labels, l < i + 1,
               NEW j \in 1..label_size[h][l]
        PROVE  index_map'[h][label_offset[h][l] + j] = label_data_vecs[l][j]
    <3>1. /\ label_offset[h][l] \in Nat /\ label_size[h][l] \in Nat
          /\ j \in Nat /\ 1 <= j /\ j <= label_size[h][l]
      BY LabelTypes DEF IInv
    <3>2. CASE l # i
      <4>1. l < i
        BY <1>2, <2>3, <3>2
      <4>2. label_offset[h][l] + label_size[h][l] <= label_offset[h][i]
        BY <1>1, <1>2, <1>5, <4>1 DEF IInv, OffsetsInv
      <4>3. label_offset[h][l] + j \in 1..Len(index_map[h])
        BY <1>7, <3>1, <4>2
      <4>4. index_map'[h][label_offset[h][l] + j] = index_map[h][label_offset[h][l] + j]
        <5>1. (index_map[h] \o rows)[label_offset[h][l] + j] =
                index_map[h][label_offset[h][l] + j]
          BY <1>2, <1>7, <4>3, Parts
        <5> QED BY <1>7, <5>1
      <4>5. index_map[h][label_offset[h][l] + j] = label_data_vecs[l][j]
        BY <1>5, <4>1 DEF IInv, MapsInv
      <4> QED BY <4>4, <4>5
    <3>3. CASE l = i
      <4>1. h = k /\ j \in 1..Len(rows)
        BY <1>2, <1>6, <3>1, <3>3
      <4>2. (index_map[h] \o rows)[Len(index_map[h]) + j] = rows[j]
        BY <1>2, <1>7, <4>1, Parts
      <4> QED BY <1>7, <3>3, <4>1, <4>2 DEF rows
    <3> QED BY <3>2, <3>3
  <2> QED BY <1>1, <1>5, <2>2, <2>3 DEF MapsInv
<1>14. WorkersInv' /\ KernelInv' /\ GraphInv'
  BY <1>1 DEF IInv, WorkersInv, KernelInv, GraphInv, Later
<1> QED BY <1>8, <1>9, <1>10, <1>11, <1>12, <1>13, <1>14 DEF IInv

-----------------------------------------------------------------------------
(* The steps after the loops.                                              *)

\* What no step after the loops changes, as types.
LEMMA LaterMeta ==
  ASSUME IInv, LaterStep
  PROVE  /\ UNCHANGED <<call, label_number, label_data_vecs, label_size,
                        label_offset, total_rows, labels, index_map>>
         /\ Labels' = Labels /\ Cells' = Cells
         /\ pc' \in Later
         /\ Cells \subseteq Nat
<1>1. /\ UNCHANGED <<call, meta>> /\ pc' \in Later
  BY LaterFrame DEF IInv
<1> QED BY <1>1 DEF meta, Labels, Cells

\* A label has its graph built by one thread, which took it from the others.
LEMMA LaterWorkers ==
  ASSUME IInv, LaterStep
  PROVE  WorkersInv'
<1>1. /\ UNCHANGED <<label_size>> /\ Labels' = Labels
  BY LaterMeta
<1>2. WorkersInv /\ todo \in SUBSET Labels /\ Labels \subseteq Nat
      /\ worker \in [Workers -> Labels \cup {None}]
  BY LabelTypes DEF IInv, TypeOK
<1>3. CASE Mapped
  <2>1. pc # "parallel" /\ todo = {} /\ (\A w \in Workers : worker[w] = None)
        /\ UNCHANGED worker
    BY <1>2, <1>3 DEF WorkersInv, Mapped
  <2>2. \/ pc' = "parallel" /\ todo' = {l \in Labels : label_size["graph"][l] # 0}
        \/ pc' # "parallel" /\ todo' = {}
    BY <1>3 DEF Mapped
  <2> QED BY <1>1, <2>1, <2>2 DEF WorkersInv
<1>4. ASSUME NEW w \in Workers, WorkerTake(w)
      PROVE  WorkersInv'
  <2>1. PICK l \in todo : worker' = [worker EXCEPT ![w] = l] /\ todo' = todo \ {l}
    BY <1>4 DEF WorkerTake
  <2>2. pc = "parallel" /\ pc' = "parallel"
    BY <1>4 DEF WorkerTake
  <2>3. \A v \in Workers : worker'[v] = IF v = w THEN l ELSE worker[v]
    BY <1>2, <2>1
  <2>4. l \in Labels /\ l # None
    BY <1>2 DEF None
  <2> QED BY <1>1, <1>2, <2>1, <2>2, <2>3, <2>4 DEF WorkersInv
<1>5. ASSUME NEW w \in Workers, WorkerCopy(w)
      PROVE  WorkersInv'
  <2>1. /\ pc = "parallel" /\ pc' = "parallel" /\ todo' = todo
        /\ worker' = [worker EXCEPT ![w] = None]
    BY <1>5 DEF WorkerCopy
  <2>2. \A v \in Workers : worker'[v] = IF v = w THEN None ELSE worker[v]
    BY <1>2, <2>1
  <2> QED BY <1>1, <1>2, <2>1, <2>2 DEF WorkersInv
<1>6. CASE Join
  BY <1>1, <1>2, <1>6 DEF Join, WorkersInv
<1>7. ASSUME pc # "parallel", pc' # "parallel", UNCHANGED <<todo, worker>>
      PROVE  WorkersInv'
  BY <1>1, <1>2, <1>7 DEF WorkersInv
<1>8. CASE LoadGraph
  BY <1>7, <1>8 DEF LoadGraph
<1>9. CASE SaveOpen \/ SaveWrite \/ SaveClose
  BY <1>7, <1>9 DEF SaveOpen, SaveWrite, SaveClose
<1>10. CASE StartBfs
  BY <1>7, <1>10 DEF StartBfs
<1>11. ASSUME NEW t \in threads, KernelThread(t)
       PROVE  WorkersInv'
  BY <1>7, <1>11 DEF KernelThread
<1>12. CASE KernelDone \/ Serialize \/ SerializeClose \/ RaiseAtLists
  BY <1>7, <1>12 DEF KernelDone, Serialize, SerializeClose, RaiseAtLists
<1> QED BY <1>3, <1>4, <1>5, <1>6, <1>8, <1>9, <1>10, <1>11, <1>12 DEF LaterStep

\* The kernel has a thread for each row of the map.
LEMMA LaterKernel ==
  ASSUME IInv, LaterStep
  PROVE  KernelInv'
<1>1. UNCHANGED total_rows /\ KernelInv
  BY LaterMeta DEF IInv
<1>2. CASE StartBfs
  BY <1>1, <1>2 DEF StartBfs, KernelInv
<1>3. ASSUME NEW t \in threads, KernelThread(t)
      PROVE  KernelInv'
  BY <1>1, <1>3 DEF KernelThread, KernelInv
<1>4. CASE Mapped \/ LoadGraph
  BY <1>4 DEF Mapped, LoadGraph, KernelInv
<1>5. ASSUME NEW w \in Workers, WorkerTake(w) \/ WorkerCopy(w)
      PROVE  KernelInv'
  BY <1>5 DEF WorkerTake, WorkerCopy, KernelInv
<1>6. CASE Join \/ SaveOpen \/ SaveWrite \/ SaveClose
  BY <1>6 DEF Join, SaveOpen, SaveWrite, SaveClose, KernelInv
<1>7. CASE KernelDone \/ Serialize \/ SerializeClose \/ RaiseAtLists
  BY <1>7 DEF KernelDone, Serialize, SerializeClose, RaiseAtLists, KernelInv
<1> QED BY <1>2, <1>3, <1>4, <1>5, <1>6, <1>7 DEF LaterStep

\* The matrix keeps its size.
LEMMA LaterGraph ==
  ASSUME IInv, LaterStep
  PROVE  GraphInv'
<1>1. Cells' = Cells /\ GraphInv
  BY LaterMeta DEF IInv
<1>2. CASE Mapped
  BY <1>1, <1>2 DEF Mapped, GraphInv
<1>3. CASE LoadGraph
  BY <1>1, <1>3 DEF LoadGraph, GraphInv, Later
<1>4. ASSUME NEW w \in Workers, WorkerTake(w) \/ WorkerCopy(w)
      PROVE  GraphInv'
  BY <1>1, <1>4 DEF WorkerTake, WorkerCopy, GraphInv, Later, index
<1>5. CASE Join \/ SaveOpen \/ SaveWrite \/ SaveClose
  BY <1>1, <1>5 DEF Join, SaveOpen, SaveWrite, SaveClose, GraphInv, Later, index
<1>6. CASE StartBfs
  BY <1>1, <1>6 DEF StartBfs, GraphInv, Later
<1>7. ASSUME NEW t \in threads, KernelThread(t)
      PROVE  GraphInv'
  BY <1>1, <1>7 DEF KernelThread, GraphInv, Later
<1>8. CASE KernelDone \/ Serialize \/ SerializeClose \/ RaiseAtLists
  BY <1>1, <1>8 DEF KernelDone, Serialize, SerializeClose, RaiseAtLists, GraphInv, Later, index
<1> QED BY <1>2, <1>3, <1>4, <1>5, <1>6, <1>7, <1>8 DEF LaterStep

\* The types of what the steps after the loops change.
RestType ==
  /\ calls \in Nat /\ i \in Nat
  /\ todo \in SUBSET Labels
  /\ worker \in [Workers -> Labels \cup {None}]
  /\ graph \in [DOMAIN graph -> GraphCell] /\ DOMAIN graph \subseteq Nat
  /\ threads \in SUBSET Nat
  /\ lists \in [DOMAIN lists -> Seq(Nat)] /\ DOMAIN lists \subseteq Nat
  /\ graph_file \in [exists : BOOLEAN, header : BOOLEAN, rows : Nat,
                     cols : Nat, cells : Seq(GraphCell)]
  /\ bfs_file.exists \in BOOLEAN /\ bfs_file.complete \in BOOLEAN
  /\ bfs_file.lists \in [DOMAIN bfs_file.lists -> Seq(Nat)]
  /\ DOMAIN bfs_file.lists \subseteq Nat

\* A cell of a graph names the rows the graph was built over and its place.
LEMMA BuiltCellType ==
  ASSUME call \in Calls, NEW rows \in Seq(Nat), NEW k \in Nat
  PROVE  BuiltCell(rows, k) \in GraphCell
<1> DEFINE n == Len(rows)
           d == BuiltDegree(n)
<1>1. n \in Nat /\ d \in Int
  BY CallType DEF BuiltDegree
<1>2. CASE k < n * d
  <2>1. d \in Nat \ {0}
    <3>1. CASE d <= 0
      <4>1. n * d <= 0
        BY <1>1, <3>1
      <4> QED BY <1>1, <1>2, <4>1
    <3> QED BY <1>1, <3>1
  <2> HIDE DEF d
  <2>2. k \div d \in Nat /\ k % d \in Nat
    BY <2>1
  <2>3. BuiltCell(rows, k) = [over |-> rows, row |-> k \div d, col |-> k % d]
    BY <1>2 DEF BuiltCell, d
  <2> QED BY <2>2, <2>3 DEF GraphCell
<1>3. CASE ~(k < n * d)
  BY <1>3 DEF BuiltCell, OverRead, GraphCell
<1> QED BY <1>2, <1>3

LEMMA LaterType ==
  ASSUME IInv, LaterStep
  PROVE  TypeOK'
<1>1. /\ UNCHANGED <<call, label_number, label_data_vecs, label_size,
                     label_offset, total_rows, labels, index_map>>
      /\ Labels' = Labels /\ pc' \in Later /\ Cells \subseteq Nat
  BY LaterMeta
<1>2. RestType
  BY DEF IInv, TypeOK, RestType
<1> SUFFICES RestType'
  BY <1>1 DEF IInv, TypeOK, RestType, Later
<1>3. CASE Mapped
  <2>1. graph' \in [Cells -> GraphCell] /\ DOMAIN graph' = Cells
    BY <1>3 DEF Mapped, Blank, GraphCell
  <2>2. todo' \in SUBSET Labels
    BY <1>3 DEF Mapped
  <2>3. UNCHANGED <<calls, i, worker, threads, lists, graph_file, bfs_file>>
    BY <1>3 DEF Mapped, files
  <2> QED BY <1>1, <1>2, <2>1, <2>2, <2>3 DEF RestType
<1>4. CASE LoadGraph
  <2>1. UNCHANGED <<calls, i, todo, worker, threads, lists, graph_file, bfs_file>>
    BY <1>4 DEF LoadGraph, files
  <2>2. DOMAIN graph = Cells /\ graph \in [Cells -> GraphCell]
        /\ graph_file.cells \in Seq(GraphCell)
    BY <1>2, <1>4 DEF IInv, GraphInv, LoadGraph, Later, RestType
  <2>3. ASSUME NEW c \in Cells, c < Len(graph_file.cells)
        PROVE  graph_file.cells[c + 1] \in GraphCell
    <3>1. c + 1 \in 1..Len(graph_file.cells)
      BY <1>1, <2>2, <2>3
    <3> QED BY <2>2, <3>1
  <2>4. graph' \in [Cells -> GraphCell] /\ DOMAIN graph' = Cells
    BY <1>4, <2>2, <2>3 DEF LoadGraph
  <2> QED BY <1>1, <1>2, <2>1, <2>4 DEF RestType
<1>5. ASSUME NEW w \in Workers, WorkerTake(w)
      PROVE  RestType'
  <2>1. UNCHANGED <<calls, i, threads, graph, lists, graph_file, bfs_file>>
    BY <1>5 DEF WorkerTake, index, files
  <2>2. worker' \in [Workers -> Labels \cup {None}] /\ todo' \in SUBSET Labels
    BY <1>2, <1>5 DEF WorkerTake, RestType
  <2> QED BY <1>1, <1>2, <2>1, <2>2 DEF RestType
<1>6. ASSUME NEW w \in Workers, WorkerCopy(w)
      PROVE  RestType'
  <2> DEFINE l == worker[w]
  <2>1. UNCHANGED <<calls, i, todo, threads, lists, graph_file, bfs_file>>
    BY <1>6 DEF WorkerCopy, files
  <2>2. worker' \in [Workers -> Labels \cup {None}]
    BY <1>2, <1>6 DEF WorkerCopy, RestType
  <2>3. DOMAIN graph = Cells /\ graph \in [Cells -> GraphCell]
    BY <1>2, <1>6 DEF IInv, GraphInv, WorkerCopy, Later, RestType
  <2>4. l \in Labels /\ label_data_vecs[l] \in Seq(Nat) /\ call \in Calls
    BY <1>2, <1>6, LabelTypes DEF IInv, WorkerCopy, RestType
  <2>5. label_offset["graph"][l] \in Nat /\ label_size["graph"][l] \in Nat
        /\ call.graph_degree \in Nat /\ UintRange \in Nat \ {0}
    BY <2>4, LabelTypes, CallType, BoundsAssumption DEF IInv, Kind
  <2>6. RegionStart(l) \in Int
    <3>1. label_offset["graph"][l] * call.graph_degree \in Nat
      BY <2>5
    <3> QED BY <2>5, <3>1 DEF RegionStart
  <2>7. ASSUME NEW c \in Cells, c \in Region(l)
        PROVE  BuiltCell(label_data_vecs[l], c - RegionStart(l)) \in GraphCell
    <3>1. c - RegionStart(l) \in Nat
      BY <1>1, <2>6, <2>7 DEF Region
    <3> QED BY <2>4, <3>1, BuiltCellType
  <2>8. graph' = [c \in Cells |-> IF c \in Region(l)
                  THEN BuiltCell(label_data_vecs[l], c - RegionStart(l))
                  ELSE graph[c]]
    BY <1>6 DEF WorkerCopy
  <2>9. graph' \in [Cells -> GraphCell] /\ DOMAIN graph' = Cells
    BY <2>3, <2>7, <2>8
  <2> QED BY <1>1, <1>2, <2>1, <2>2, <2>9 DEF RestType
<1>7. CASE Join
  BY <1>1, <1>2, <1>7 DEF Join, RestType, index, files
<1>8. CASE SaveOpen
  <2>1. graph_file' \in [exists : BOOLEAN, header : BOOLEAN, rows : Nat,
                         cols : Nat, cells : Seq(GraphCell)]
    <3>1. NoGraphFile \in [exists : BOOLEAN, header : BOOLEAN, rows : Nat,
                           cols : Nat, cells : Seq(GraphCell)]
      BY DEF NoGraphFile
    <3> QED BY <1>2, <1>8, <3>1 DEF SaveOpen, RestType
  <2> QED BY <1>1, <1>2, <1>8, <2>1 DEF SaveOpen, RestType, index
<1>9. CASE SaveWrite
  <2>1. total_rows["graph"] \in Nat /\ call.graph_degree \in Nat
    BY CallType, LabelTypes DEF IInv, TypeOK, Kind
  <2>2. graph_file \in [exists : BOOLEAN, header : BOOLEAN, rows : Nat,
                        cols : Nat, cells : Seq(GraphCell)]
    BY <1>2 DEF RestType
  <2>3. ASSUME Len(graph_file.cells) \in DOMAIN graph
        PROVE  Append(graph_file.cells, graph[Len(graph_file.cells)]) \in Seq(GraphCell)
    BY <1>2, <2>2, <2>3 DEF RestType
  <2>4. graph_file' \in [exists : BOOLEAN, header : BOOLEAN, rows : Nat,
                         cols : Nat, cells : Seq(GraphCell)]
    BY <1>9, <2>1, <2>2, <2>3 DEF SaveWrite
  <2> QED BY <1>1, <1>2, <1>9, <2>4 DEF SaveWrite, RestType, index
<1>10. CASE SaveClose
  BY <1>1, <1>2, <1>10 DEF SaveClose, RestType, index, files
<1>11. CASE StartBfs
  <2>1. UNCHANGED <<calls, i, todo, worker, graph, graph_file, bfs_file>>
    BY <1>11 DEF StartBfs, files
  <2>2. threads' \in SUBSET Nat
    <3>1. CASE threads' = threads
      BY <1>2, <3>1 DEF RestType
    <3>2. CASE threads' = 0..(total_rows["bfs"] - 1)
      BY <3>2
    <3> QED BY <1>11, <3>1, <3>2 DEF StartBfs
  <2>3. Labels \subseteq Nat
    BY LabelTypes DEF IInv
  <2>4. lists' \in [DOMAIN lists' -> Seq(Nat)] /\ DOMAIN lists' \subseteq Nat
    <3>1. CASE lists' = lists \/ lists' = bfs_file.lists
      BY <1>2, <3>1 DEF RestType
    <3>2. CASE lists' = [l \in Labels |-> <<>>]
      BY <2>3, <3>2
    <3> QED BY <1>11, <3>1, <3>2 DEF StartBfs
  <2> QED BY <1>1, <1>2, <2>1, <2>2, <2>4 DEF RestType
<1>12. ASSUME NEW t \in threads, KernelThread(t)
       PROVE  RestType'
  <2>1. UNCHANGED <<calls, i, todo, worker, graph, graph_file, bfs_file>>
    BY <1>12 DEF KernelThread, files
  <2>2. threads' \in SUBSET Nat
    BY <1>2, <1>12 DEF KernelThread, RestType
  <2>3. index_map["bfs"] \in Seq(Nat) /\ total_rows["bfs"] \in Nat
    BY DEF IInv, TypeOK, Kind
  <2>4. Len(index_map["bfs"]) = total_rows["bfs"]
    BY <1>12 DEF KernelThread, IInv, MapsInv, OffsetsInv, MappedTo, SizedTo, Kind
  <2>5. t + 1 \in 1..Len(index_map["bfs"])
    BY <1>12, <2>3, <2>4 DEF KernelThread, IInv, KernelInv
  <2>6. index_map["bfs"][t + 1] \in Nat
    BY <2>3, <2>5
  <2> DEFINE r == index_map["bfs"][t + 1]
             at == ListOf(t)
  <2>7. lists' = [lists EXCEPT ![at] = Append(@, r)]
    BY <1>12 DEF KernelThread
  <2> HIDE DEF r, at
  <2>8. lists' \in [DOMAIN lists' -> Seq(Nat)] /\ DOMAIN lists' \subseteq Nat
    <3>1. lists \in [DOMAIN lists -> Seq(Nat)] /\ DOMAIN lists \subseteq Nat
      BY <1>2 DEF RestType
    <3>2. r \in Nat
      BY <2>6 DEF r
    <3>3. ASSUME at \in DOMAIN lists
          PROVE  Append(lists[at], r) \in Seq(Nat)
      BY <3>1, <3>2, <3>3
    <3>4. lists' \in [DOMAIN lists -> Seq(Nat)] /\ DOMAIN lists' = DOMAIN lists
      BY <2>7, <3>1, <3>3
    <3> QED BY <3>1, <3>4
  <2> QED BY <1>1, <1>2, <2>1, <2>2, <2>8 DEF RestType
<1>13. CASE KernelDone \/ RaiseAtLists
  BY <1>1, <1>2, <1>13 DEF KernelDone, RaiseAtLists, RestType, index, files
<1>14. CASE Serialize
  <2>1. UNCHANGED <<calls, i, todo, worker, threads, graph, lists, graph_file>>
    BY <1>14 DEF Serialize, index
  <2>2. /\ bfs_file'.exists \in BOOLEAN /\ bfs_file'.complete \in BOOLEAN
        /\ bfs_file'.lists \in [DOMAIN bfs_file'.lists -> Seq(Nat)]
        /\ DOMAIN bfs_file'.lists \subseteq Nat
    <3>1. CASE bfs_file' = bfs_file
      BY <1>2, <3>1 DEF RestType
    <3>2. CASE bfs_file' = [exists |-> TRUE, complete |-> FALSE, lists |-> <<>>]
      BY <1>2, <3>2 DEF RestType
    <3> QED BY <1>14, <3>1, <3>2 DEF Serialize
  <2> QED BY <1>1, <1>2, <2>1, <2>2 DEF RestType
<1>15. CASE SerializeClose
  <2>1. UNCHANGED <<calls, i, todo, worker, threads, graph, lists, graph_file>>
    BY <1>15 DEF SerializeClose, index
  <2>2. /\ bfs_file'.exists \in BOOLEAN /\ bfs_file'.complete \in BOOLEAN
        /\ bfs_file'.lists \in [DOMAIN bfs_file'.lists -> Seq(Nat)]
        /\ DOMAIN bfs_file'.lists \subseteq Nat
    <3>1. CASE bfs_file' = bfs_file
      BY <1>2, <3>1 DEF RestType
    <3>2. CASE bfs_file' = [exists |-> TRUE, complete |-> TRUE, lists |-> lists]
      BY <1>2, <3>2 DEF RestType
    <3> QED BY <1>15, <3>1, <3>2 DEF SerializeClose
  <2> QED BY <1>1, <1>2, <2>1, <2>2 DEF RestType
<1> QED BY <1>3, <1>4, <1>5, <1>6, <1>7, <1>8, <1>9, <1>10, <1>11, <1>12, <1>13,
           <1>14, <1>15 DEF LaterStep

-----------------------------------------------------------------------------
(* The invariant, and what it implies.                                     *)

LEMMA StutterInv ==
  ASSUME IInv, UNCHANGED vars
  PROVE  IInv'
<1>1. /\ UNCHANGED <<pc, call, calls, i, todo, worker, threads>>
      /\ UNCHANGED <<label_number, label_data_vecs, label_size, label_offset,
                     total_rows, labels, index_map>>
      /\ UNCHANGED <<graph, lists, graph_file, bfs_file>>
  BY DEF vars, meta, index, files
<1>2. Labels' = Labels /\ Cells' = Cells
  BY <1>1 DEF Labels, Cells
<1>3. /\ InvertedTo' = InvertedTo /\ SizedTo' = SizedTo /\ MappedTo' = MappedTo
  BY <1>1 DEF InvertedTo, SizedTo, MappedTo
<1>4. TypeOK' /\ StageInv'
  BY <1>1, <1>2 DEF IInv, TypeOK, StageInv
<1>5. InvertedInv'
  <2>1. \A p, l : Carries(p, l)' = Carries(p, l)
    BY <1>1 DEF Carries
  <2> QED BY <1>1, <1>2, <1>3, <2>1 DEF IInv, InvertedInv
<1>6. SizesInv'
  <2>1. \A l : HalfOf(l)' = HalfOf(l)
    BY <1>1 DEF HalfOf, cat_freq
  <2> QED BY <1>1, <1>2, <1>3, <2>1 DEF IInv, SizesInv
<1>7. OffsetsInv' /\ MapsInv'
  <2>1. \A k, n : End(k, n)' = End(k, n)
    BY <1>1 DEF End
  <2> QED BY <1>1, <1>2, <1>3, <2>1 DEF IInv, OffsetsInv, MapsInv
<1>8. WorkersInv' /\ KernelInv' /\ GraphInv'
  BY <1>1, <1>2 DEF IInv, WorkersInv, KernelInv, GraphInv
<1> QED BY <1>4, <1>5, <1>6, <1>7, <1>8 DEF IInv

LEMMA NextInv ==
  ASSUME IInv, [Next]_vars
  PROVE  IInv'
<1>1. CASE Call
  BY <1>1, CallInv
<1>2. CASE CollectRow
  BY <1>2, CollectRowInv
<1>3. CASE Collected \/ Sized
  BY <1>3, BetweenLoopsInv
<1>4. CASE SizeLabel
  BY <1>4, SizeLabelInv
<1>5. CASE MapLabel
  BY <1>5, MapLabelInv
<1>6. CASE LaterStep
  BY <1>6, LaterType, LaterKeeps, LaterWorkers, LaterKernel, LaterGraph DEF IInv
<1>7. CASE Crash \/ RaiseInLoop
  BY <1>7, DiesInv DEF Crash, RaiseInLoop
<1>8. CASE UNCHANGED vars
  BY <1>8, StutterInv
<1> QED BY <1>1, <1>2, <1>3, <1>4, <1>5, <1>6, <1>7, <1>8 DEF Next, Work, LaterStep

LEMMA Invariance == Spec => []IInv
<1>1. Init => IInv
  BY InitInv
<1>2. IInv /\ [Next]_vars => IInv'
  BY NextInv
<1> QED BY <1>1, <1>2, PTL DEF Spec

\* The variables of the build keep their types.
THEOREM TypeCorrect == Spec => []TypeOK
<1>1. IInv => TypeOK
  BY DEF IInv
<1> QED BY <1>1, Invariance, PTL

\* After the loops over the labels (vecflow_build.cuh:82-119), sizes, offsets
\* and index maps find for every label one half that holds its rows and no
\* others, whatever the rows carry and wherever the threshold lies.
THEOREM RowsFiled == Spec => []EveryRowFiled
<1>1. IInv => EveryRowFiled
  <2> SUFFICES ASSUME IInv, pc \notin {"idle", "collect", "size", "map"}
               PROVE  /\ \A k \in Kind : Len(index_map[k]) = total_rows[k]
                      /\ \A l \in Labels : \E k \in Kind :
                           /\ Filed(k, l) = RowsOf(l)
                           /\ \A h \in Kind \ {k} : label_size[h][l] = 0
    BY DEF EveryRowFiled
  <2>1. InvertedTo = Len(call.data_label_vecs) /\ SizedTo = label_number
        /\ MappedTo = label_number
    BY DEF InvertedTo, SizedTo, MappedTo
  <2>2. \A k \in Kind : Len(index_map[k]) = total_rows[k]
    BY <2>1 DEF IInv, OffsetsInv, MapsInv
  <2>3. ASSUME NEW l \in Labels
        PROVE  /\ HalfOf(l) \in Kind
               /\ Filed(HalfOf(l), l) = RowsOf(l)
               /\ \A h \in Kind \ {HalfOf(l)} : label_size[h][l] = 0
    <3> DEFINE k == HalfOf(l)
               rows == label_data_vecs[l]
    <3>1. k \in Kind /\ l < label_number
      BY HalfType, LabelTypes DEF IInv
    <3>2. label_size[k][l] = Len(rows)
          /\ \A h \in Kind \ {k} : label_size[h][l] = 0
      BY <2>1, <3>1 DEF IInv, SizesInv
    <3> HIDE DEF k
    <3>3. \A j \in 1..Len(rows) : index_map[k][label_offset[k][l] + j] = rows[j]
      BY <2>1, <3>1, <3>2 DEF IInv, MapsInv
    <3>4. Filed(k, l) = {rows[j] : j \in 1..Len(rows)}
      BY <3>2, <3>3 DEF Filed
    <3>5. DOMAIN call.data_label_vecs = 1..Len(call.data_label_vecs)
      BY CallType, LabelTypes DEF IInv
    <3>6. RowsOf(l) = {p \in 1..Len(call.data_label_vecs) : Carries(p, l)}
      BY <3>5 DEF RowsOf, Carries
    <3>7. /\ \A j \in 1..Len(rows) :
               rows[j] \in 1..Len(call.data_label_vecs) /\ Carries(rows[j], l)
          /\ \A p \in 1..Len(call.data_label_vecs) : Carries(p, l) =>
               \E j \in 1..Len(rows) : rows[j] = p
      BY <2>1 DEF IInv, InvertedInv
    <3>8. Filed(k, l) = RowsOf(l)
      BY <3>4, <3>6, <3>7
    <3> QED BY <3>1, <3>2, <3>8 DEF k
  <2> QED BY <2>2, <2>3
<1> QED BY <1>1, Invariance, PTL

\* The host matrix has fewer elements than uint32_t can count.
Fits == total_rows["graph"] * call.graph_degree < UintRange

\* A block of rows of a matrix with d columns, as elements.
LEMMA Scale ==
  ASSUME NEW a \in Nat, NEW b \in Nat, NEW c \in Nat, NEW d \in Nat, a + b <= c
  PROVE  /\ a * d \in Nat /\ b * d \in Nat /\ c * d \in Nat
         /\ a * d + b * d <= c * d
<1>1. a * d \in Nat /\ b * d \in Nat /\ c * d \in Nat
  OBVIOUS
<1>2. (a + b) * d = a * d + b * d
  OBVIOUS
<1>3. c * d = (a + b) * d + (c - (a + b)) * d
  OBVIOUS
<1>4. (c - (a + b)) * d \in Nat
  OBVIOUS
<1> QED BY <1>1, <1>2, <1>3, <1>4

\* A number is its own remainder when the divisor is larger.
LEMMA NoWrap ==
  ASSUME NEW a \in Nat, NEW n \in Nat \ {0}, a < n
  PROVE  a % n = a
OBVIOUS

\* The labels of a half end within it.
LEMMA RegionEnds ==
  ASSUME IInv, NEW k \in Kind, NEW l \in Labels, l < SizedTo
  PROVE  label_offset[k][l] + label_size[k][l] <= total_rows[k]
<1> DEFINE last == SizedTo - 1
<1>0. /\ label_offset[k][l] \in Nat /\ label_size[k][l] \in Nat
      /\ total_rows[k] \in Nat
  BY LabelTypes DEF IInv, TypeOK
<1>1. SizedTo \in Nat /\ SizedTo <= label_number /\ l \in Nat /\ label_number \in Nat
      /\ Labels = 0..(label_number - 1)
  BY LabelTypes DEF IInv, SizedTo, StageInv, Labels
<1>2. last \in Labels /\ last < SizedTo /\ SizedTo # 0 /\ l <= last
  BY <1>1
<1>3. total_rows[k] = label_offset[k][last] + label_size[k][last]
  BY <1>2 DEF IInv, OffsetsInv, End
<1>4. CASE l = last
  BY <1>0, <1>3, <1>4
<1>5. CASE l # last
  <2>1. l < last
    BY <1>1, <1>2, <1>5
  <2>2. label_offset[k][l] + label_size[k][l] <= label_offset[k][last]
    BY <1>2, <2>1 DEF IInv, OffsetsInv
  <2>3. label_offset[k][last] \in Nat /\ label_size[k][last] \in Nat
    BY <1>2, LabelTypes DEF IInv
  <2> QED BY <1>0, <1>3, <2>2, <2>3
<1> QED BY <1>4, <1>5

\* The labels of the graph half lie within the matrix, one after the other.
LEMMA RegionBounds ==
  ASSUME IInv, Fits, NEW l \in Labels, l < SizedTo
  PROVE  LET d == call.graph_degree IN
         /\ RegionStart(l) = label_offset["graph"][l] * d
         /\ RegionLen(l) = label_size["graph"][l] * d
         /\ RegionStart(l) \in Nat /\ RegionLen(l) \in Nat
         /\ RegionStart(l) + RegionLen(l) <= total_rows["graph"] * d
<1> DEFINE d == call.graph_degree
           off == label_offset["graph"][l]
           size == label_size["graph"][l]
           total == total_rows["graph"]
<1>1. /\ off \in Nat /\ size \in Nat /\ total \in Nat /\ d \in Nat
      /\ UintRange \in Nat \ {0}
  BY LabelTypes, CallType, BoundsAssumption DEF IInv, TypeOK, Kind
<1>2. off + size <= total
  BY RegionEnds DEF Kind
<1>3. /\ off * d \in Nat /\ size * d \in Nat /\ total * d \in Nat
      /\ off * d + size * d <= total * d
  BY <1>1, <1>2, Scale
<1>4. total * d < UintRange
  BY DEF Fits
<1>5. off * d < UintRange /\ size * d < UintRange
  BY <1>1, <1>3, <1>4
<1>6. RegionStart(l) = off * d /\ RegionLen(l) = size * d
  BY <1>1, <1>3, <1>5, NoWrap DEF RegionStart, RegionLen
<1> QED BY <1>3, <1>6

\* A thread of the parallel loop has a label that is sized.
LEMMA WorkerLabel ==
  ASSUME IInv, NEW w \in Workers, worker[w] # None
  PROVE  worker[w] \in Labels /\ worker[w] \in Nat /\ worker[w] < SizedTo
<1>1. pc = "parallel" /\ worker[w] \in Labels
  BY DEF IInv, WorkersInv
<1>2. SizedTo = label_number
  BY <1>1 DEF SizedTo
<1> QED BY <1>1, <1>2, LabelTypes DEF IInv

\* The regions of two labels do not meet.
LEMMA LabelRegionsDisjoint ==
  ASSUME IInv, Fits, NEW l \in Labels, NEW m \in Labels, l < SizedTo, m < SizedTo,
         l # m
  PROVE  Region(l) \cap Region(m) = {}
<1>1. ASSUME NEW a \in Labels, NEW b \in Labels, a < b, b < SizedTo, a < SizedTo
      PROVE  Region(a) \cap Region(b) = {}
  <2> DEFINE d == call.graph_degree
  <2>2. /\ RegionStart(a) = label_offset["graph"][a] * d
        /\ RegionLen(a) = label_size["graph"][a] * d
        /\ RegionStart(b) = label_offset["graph"][b] * d
        /\ RegionStart(a) \in Nat /\ RegionLen(a) \in Nat /\ RegionStart(b) \in Nat
    BY <1>1, RegionBounds
  <2>3. label_offset["graph"][a] + label_size["graph"][a] <= label_offset["graph"][b]
    BY <1>1 DEF IInv, OffsetsInv, Kind
  <2>4. RegionStart(a) + RegionLen(a) <= RegionStart(b)
    <3>1. /\ label_offset["graph"][a] \in Nat /\ label_size["graph"][a] \in Nat
          /\ label_offset["graph"][b] \in Nat /\ d \in Nat
      BY LabelTypes, CallType DEF IInv, Kind
    <3> QED BY <2>2, <2>3, <3>1, Scale
  <2>5. \A x \in Region(a) : x < RegionStart(b)
    BY <2>2, <2>4 DEF Region
  <2>6. \A x \in Region(b) : x \in Int /\ RegionStart(b) <= x
    BY <2>2 DEF Region
  <2> QED BY <2>2, <2>5, <2>6
<1>2. l \in Nat /\ m \in Nat
  BY LabelTypes DEF IInv
<1>3. CASE l < m
  BY <1>1, <1>3
<1>4. CASE m < l
  <2>1. Region(m) \cap Region(l) = {}
    BY <1>1, <1>4
  <2> QED BY <2>1
<1> QED BY <1>2, <1>3, <1>4

\* The threads of the parallel loop (vecflow_build.cuh:172-218) write disjoint
\* parts of the host matrix, inside of it, for any labels and any number of
\* threads, as long as uint32_t can count the elements of the matrix.
THEOREM ThreadsDisjoint == Spec => [](Fits => RegionsDisjoint)
<1>1. ASSUME IInv, Fits, NEW v \in Workers, worker[v] # None
      PROVE  Region(worker[v]) \subseteq Cells
  <2> DEFINE l == worker[v]
             d == call.graph_degree
  <2>1. l \in Labels /\ l < SizedTo
    BY <1>1, WorkerLabel
  <2>2. /\ RegionStart(l) \in Nat /\ RegionLen(l) \in Nat
        /\ RegionStart(l) + RegionLen(l) <= total_rows["graph"] * d
    BY <1>1, <2>1, RegionBounds
  <2>3. total_rows["graph"] * d \in Int
    <3>1. total_rows["graph"] \in Nat /\ d \in Nat
      BY <1>1, LabelTypes, CallType DEF IInv, TypeOK, Kind
    <3> QED BY <3>1
  <2> QED BY <2>2, <2>3 DEF Region, Cells
<1>2. IInv => (Fits => RegionsDisjoint)
  <2> SUFFICES ASSUME IInv, Fits, NEW v \in Workers, NEW w \in Workers,
                      worker[v] # None
               PROVE  /\ Region(worker[v]) \subseteq Cells
                      /\ v # w /\ worker[w] # None =>
                           Region(worker[v]) \cap Region(worker[w]) = {}
    BY DEF RegionsDisjoint
  <2>1. Region(worker[v]) \subseteq Cells
    BY <1>1
  <2>2. ASSUME v # w, worker[w] # None
        PROVE  Region(worker[v]) \cap Region(worker[w]) = {}
    <3>1. worker[v] # worker[w]
      BY <2>2 DEF IInv, WorkersInv
    <3>2. /\ worker[v] \in Labels /\ worker[v] < SizedTo
          /\ worker[w] \in Labels /\ worker[w] < SizedTo
      BY <2>2, WorkerLabel
    <3> QED BY <3>1, <3>2, LabelRegionsDisjoint
  <2> QED BY <2>1, <2>2
<1> QED BY <1>2, Invariance, PTL
-----------------------------------------------------------------------------
(* The graphs.                                                             *)

\* Every label of the graph half has more rows than a row of a graph has columns.
Wide == \A l \in Labels :
          label_size["graph"][l] # 0 => label_size["graph"][l] > call.graph_degree

\* The call makes its graphs, whatever the files hold.
Makes == call.force_rebuild \/ "graph" \notin call.named

\* The region of label l holds the graph over the label's own rows.
Own(l) ==
  \A j \in 0..(label_size["graph"][l] - 1), c \in 0..(call.graph_degree - 1) :
    graph[(label_offset["graph"][l] + j) * call.graph_degree + c] =
      [over |-> label_data_vecs[l], row |-> j, col |-> c]

\* A half that counts no label has no label.
CountsInv ==
  \A k \in Kind, l \in Labels : l < SizedTo /\ HalfOf(l) = k => labels[k] # 0

\* Where build() is once the parallel loop is over.
Joined == {"open", "save", "bfs", "kernel", "serialize", "write", "ready"}

\* A label that is neither waiting nor in hand has its graph.
OwnInv ==
  Fits /\ Wide =>
    /\ pc = "parallel" =>
         \A l \in Labels \ todo : (\A w \in Workers : worker[w] # l) => Own(l)
    /\ pc \in Joined /\ Makes => \A l \in Labels : Own(l)

\* A half is loaded or saved where its file is named, and a build that does
\* neither fails only when all labels of the list half are without rows.
OnlyUnusedRare == labels["bfs"] # 0 /\ total_rows["bfs"] = 0
PathInv ==
  /\ pc = "load" => ~Makes
  /\ pc \in {"open", "save"} => "graph" \in call.named
  /\ pc \in {"serialize", "write"} => "bfs" \in call.named
  /\ pc = "failed" => call.named # {} \/ OnlyUnusedRare \/ "cuda" \in Faults

BuildInv == CountsInv /\ OwnInv /\ PathInv

\* Before the parallel loop there is nothing to say of the graphs.
LEMMA EarlySteps ==
  ASSUME IInv, CountsInv,
         Call \/ CollectRow \/ Collected \/ SizeLabel \/ Sized \/ MapLabel \/ Dies
  PROVE  BuildInv'
<1>1. pc' \in {"idle", "collect", "size", "map"}
  BY DEF Call, CollectRow, Collected, SizeLabel, Sized, MapLabel, Dies
<1>2. OwnInv' /\ PathInv'
  BY <1>1 DEF OwnInv, PathInv, Joined
<1>3. CASE Call \/ CollectRow \/ Collected \/ Dies
  <2>1. SizedTo' = 0
    BY <1>3 DEF Call, CollectRow, Collected, Dies, SizedTo
  <2>2. CountsInv'
    <3>1. \A l \in Labels' : ~(l < SizedTo')
      BY <2>1 DEF Labels
    <3> QED BY <3>1 DEF CountsInv
  <2> QED BY <1>2, <2>2 DEF BuildInv
<1>4. CASE SizeLabel
  <2> DEFINE k == HalfOf(i)
  <2>1. /\ pc = "size" /\ pc' = "size" /\ i' = i + 1 /\ i < label_number
        /\ UNCHANGED <<call, label_number, label_data_vecs>> /\ Labels' = Labels
        /\ labels' = [labels EXCEPT ![k] = @ + 1]
    BY <1>4 DEF SizeLabel, Labels
  <2>2. SizedTo = i /\ SizedTo' = i + 1 /\ i \in Nat
    BY <2>1, LabelTypes DEF SizedTo, IInv
  <2>3. \A l : HalfOf(l)' = HalfOf(l)
    BY <2>1 DEF HalfOf, cat_freq
  <2>4. labels \in [Kind -> Nat] /\ k \in Kind
    BY HalfType DEF IInv, TypeOK
  <2>5. ASSUME NEW l \in Labels, l < i + 1
        PROVE  labels'[HalfOf(l)] # 0
    <3>1. HalfOf(l) \in Kind /\ l \in Nat
      BY <2>5, HalfType, LabelTypes DEF IInv
    <3>2. CASE l = i
      BY <2>1, <2>4, <3>2
    <3>3. CASE l # i
      <4>1. l < SizedTo
        BY <2>2, <2>5, <3>1, <3>3
      <4>2. labels[HalfOf(l)] # 0 /\ labels[HalfOf(l)] \in Nat
        BY <2>4, <3>1, <4>1 DEF CountsInv
      <4> HIDE DEF k
      <4> QED BY <2>1, <2>4, <3>1, <4>2
    <3> QED BY <3>2, <3>3
  <2>6. CountsInv'
    BY <2>1, <2>2, <2>3, <2>5 DEF CountsInv
  <2> QED BY <1>2, <2>6 DEF BuildInv
<1>5. CASE Sized \/ MapLabel
  <2>1. /\ UNCHANGED <<call, label_number, label_data_vecs, labels>>
        /\ Labels' = Labels
    BY <1>5 DEF Sized, MapLabel, meta, Labels
  <2>2. SizedTo' = SizedTo
    BY <1>5 DEF Sized, MapLabel, SizedTo, meta
  <2>3. \A l : HalfOf(l)' = HalfOf(l)
    BY <2>1 DEF HalfOf, cat_freq
  <2>4. CountsInv'
    BY <2>1, <2>2, <2>3 DEF CountsInv
  <2> QED BY <1>2, <2>4 DEF BuildInv
<1> QED BY <1>3, <1>4, <1>5

\* The steps after the loops keep what the loops have counted.
LEMMA LaterCounts ==
  ASSUME IInv, CountsInv, LaterStep
  PROVE  CountsInv'
<1>1. /\ UNCHANGED <<call, meta>> /\ pc' \in Later
      /\ pc \in Later \/ (pc = "map" /\ i = label_number)
  BY LaterFrame DEF IInv
<1>2. SizedTo' = SizedTo /\ Labels' = Labels
  BY <1>1 DEF SizedTo, Labels, Later, meta
<1>3. \A l : HalfOf(l)' = HalfOf(l)
  BY <1>1 DEF HalfOf, cat_freq, meta
<1> QED BY <1>1, <1>2, <1>3 DEF CountsInv, meta

LEMMA LaterPath ==
  ASSUME IInv, PathInv, LaterStep
  PROVE  PathInv'
<1>1. /\ UNCHANGED <<call, meta>>
  BY LaterFrame DEF IInv
<1>2. /\ Makes' = Makes /\ OnlyUnusedRare' = OnlyUnusedRare
      /\ call' = call /\ labels' = labels /\ total_rows' = total_rows
  BY <1>1 DEF Makes, OnlyUnusedRare, meta
<1>3. CASE Mapped
  <2>1. pc' \in {"bfs", "load", "parallel"} /\ (pc' = "load" => Loads("graph"))
    BY <1>3 DEF Mapped
  <2> QED BY <1>2, <2>1 DEF PathInv, Makes, Loads
<1>4. CASE LoadGraph
  <2>1. pc = "load" /\ pc' \in {"bfs", "failed"}
    BY <1>4 DEF LoadGraph
  <2>2. "graph" \in call.named
    BY <2>1 DEF PathInv, Makes
  <2> QED BY <1>2, <2>1, <2>2 DEF PathInv
<1>5. ASSUME NEW w \in Workers, WorkerTake(w) \/ WorkerCopy(w)
      PROVE  PathInv'
  <2>1. pc' = "parallel"
    BY <1>5 DEF WorkerTake, WorkerCopy
  <2> QED BY <2>1 DEF PathInv
<1>6. CASE Join
  <2>1. pc' = IF "graph" \in call.named THEN "open" ELSE "bfs"
    BY <1>6 DEF Join
  <2> QED BY <1>2, <2>1 DEF PathInv
<1>7. CASE SaveOpen \/ SaveWrite \/ SaveClose
  <2>1. "graph" \in call.named /\ pc' \in {"save", "failed", "bfs"}
    BY <1>7 DEF SaveOpen, SaveWrite, SaveClose, PathInv
  <2> QED BY <1>2, <2>1 DEF PathInv
<1>8. CASE StartBfs
  <2>1. /\ pc' \in {"ready", "failed", "kernel"}
        /\ pc' = "failed" => "bfs" \in call.named \/ OnlyUnusedRare
    BY <1>8 DEF StartBfs, Loads, NoLists, OnlyUnusedRare
  <2> QED BY <1>2, <2>1 DEF PathInv
<1>9. ASSUME NEW t \in threads, KernelThread(t)
      PROVE  PathInv'
  <2>1. pc' = "kernel"
    BY <1>9 DEF KernelThread
  <2> QED BY <2>1 DEF PathInv
<1>10. CASE KernelDone
  <2>1. pc' = IF "bfs" \in call.named THEN "serialize" ELSE "ready"
    BY <1>10 DEF KernelDone
  <2> QED BY <1>2, <2>1 DEF PathInv
<1>11. CASE Serialize \/ SerializeClose
  <2>1. "bfs" \in call.named /\ pc' \in {"write", "failed", "ready"}
    BY <1>11 DEF Serialize, SerializeClose, PathInv
  <2> QED BY <1>2, <2>1 DEF PathInv
<1>12. CASE RaiseAtLists
  BY <1>12 DEF RaiseAtLists, PathInv
<1> QED BY <1>3, <1>4, <1>5, <1>6, <1>7, <1>8, <1>9, <1>10, <1>11, <1>12 DEF LaterStep

\* Element c of row j of a matrix with d columns.
LEMMA Element ==
  ASSUME NEW j \in Nat, NEW d \in Nat \ {0}, NEW c \in 0..(d - 1)
  PROVE  /\ j * d \in Nat
         /\ (j * d + c) \div d = j /\ (j * d + c) % d = c
         /\ \A n \in Nat : j < n => j * d + c < n * d /\ n * d \in Nat
<1>1. j * d \in Nat /\ c \in Nat /\ c < d
  OBVIOUS
<1>2. (j * d + c) \div d = j /\ (j * d + c) % d = c
  BY <1>1, SMTT(30)
<1>3. ASSUME NEW n \in Nat, j < n
      PROVE  j * d + c < n * d /\ n * d \in Nat
  <2>1. j + 1 <= n /\ 1 \in Nat
    BY <1>3
  <2>2. j * d + 1 * d <= n * d /\ n * d \in Nat
    BY <2>1, Scale
  <2>3. 1 * d = d
    OBVIOUS
  <2> QED BY <1>1, <2>2, <2>3
<1> QED BY <1>1, <1>2, <1>3

\* With enough rows the graph has as many columns as asked for.
LEMMA FullDegree ==
  ASSUME call \in Calls, NEW n \in Nat, n > call.graph_degree
  PROVE  BuiltDegree(n) = call.graph_degree
<1>1. call.graph_degree \in Nat /\ call.graph_degree # 0
  BY CallType
<1> QED BY <1>1 DEF BuiltDegree

\* The elements of a label's rows are those of its region.
LEMMA OwnElement ==
  ASSUME IInv, Fits, NEW l \in Labels, l < SizedTo,
         NEW j \in 0..(label_size["graph"][l] - 1),
         NEW c \in 0..(call.graph_degree - 1)
  PROVE  LET d == call.graph_degree
             x == (label_offset["graph"][l] + j) * d + c
         IN  /\ x \in Region(l) /\ x \in Cells
             /\ x - RegionStart(l) = j * d + c
<1> DEFINE d == call.graph_degree
           off == label_offset["graph"][l]
           size == label_size["graph"][l]
           x == (off + j) * d + c
<1>1. /\ off \in Nat /\ size \in Nat /\ d \in Nat \ {0} /\ total_rows["graph"] \in Nat
  BY LabelTypes, CallType DEF IInv, TypeOK, Kind
<1>2. /\ RegionStart(l) = off * d /\ RegionLen(l) = size * d
      /\ RegionStart(l) \in Nat /\ RegionLen(l) \in Nat
      /\ RegionStart(l) + RegionLen(l) <= total_rows["graph"] * d
  BY RegionBounds
<1>3. j \in Nat /\ j < size /\ c \in 0..(d - 1)
  BY <1>1
<1> HIDE DEF d, off, size
<1>4. j * d \in Nat /\ j * d + c < size * d /\ size * d \in Nat
  BY <1>1, <1>3, Element
<1>5. (off + j) * d = off * d + j * d /\ off * d \in Nat
  BY <1>1, <1>3
<1>6. x - off * d = j * d + c /\ x \in Nat /\ off * d <= x /\ x <= off * d + size * d - 1
  BY <1>1, <1>3, <1>4, <1>5
<1>7. x \in Region(l)
  BY <1>2, <1>4, <1>6 DEF Region
<1>8. total_rows["graph"] * d \in Int
  BY <1>1
<1>9. x \in Cells
  BY <1>2, <1>4, <1>6, <1>8 DEF Cells, d
<1> QED BY <1>2, <1>6, <1>7, <1>9 DEF d, off

\* What a thread copies is the graph over the rows of its label.
LEMMA CopyMakesOwn ==
  ASSUME IInv, Fits, Wide, NEW w \in Workers, WorkerCopy(w), NEW l, l = worker[w]
  PROVE  Own(l)'
<1> DEFINE d == call.graph_degree
           rows == label_data_vecs[l]
<1>1. /\ worker[w] # None /\ UNCHANGED <<call, label_size, label_offset, label_data_vecs>>
      /\ graph' = [x \in Cells |-> IF x \in Region(l)
                    THEN BuiltCell(rows, x - RegionStart(l)) ELSE graph[x]]
  BY DEF WorkerCopy, meta
<1>2. l \in Labels /\ l < SizedTo /\ label_size["graph"][l] # 0
  BY <1>1, WorkerLabel DEF IInv, WorkersInv
<1>3. label_size["graph"][l] = Len(rows) /\ Len(rows) \in Nat /\ Len(rows) > d
  BY <1>2, LabelTypes DEF IInv, SizesInv, Wide, Kind
<1>4. BuiltDegree(Len(rows)) = d /\ d \in Nat \ {0}
  BY <1>3, FullDegree, CallType, LabelTypes DEF IInv
<1>5. ASSUME NEW j \in 0..(label_size["graph"][l] - 1), NEW c \in 0..(d - 1)
      PROVE  graph'[(label_offset["graph"][l] + j) * d + c] =
               [over |-> rows, row |-> j, col |-> c]
  <2> DEFINE x == (label_offset["graph"][l] + j) * d + c
  <2>1. x \in Region(l) /\ x \in Cells /\ x - RegionStart(l) = j * d + c
    BY <1>2, OwnElement
  <2>2. j \in Nat /\ j < Len(rows)
    BY <1>3
  <2> HIDE DEF x, d, rows
  <2>3. graph'[x] = BuiltCell(rows, j * d + c)
    BY <1>1, <2>1
  <2>4. j * d + c < Len(rows) * d /\ (j * d + c) \div d = j /\ (j * d + c) % d = c
    BY <1>3, <1>4, <2>2, Element
  <2>5. BuiltCell(rows, j * d + c) = [over |-> rows, row |-> j, col |-> c]
    BY <1>4, <2>4 DEF BuiltCell
  <2> QED BY <2>3, <2>5 DEF x
<1> QED BY <1>1, <1>5 DEF Own

\* It leaves the graphs of other labels alone.
LEMMA CopyKeepsOwn ==
  ASSUME IInv, Fits, NEW w \in Workers, WorkerCopy(w),
         NEW m \in Labels, m # worker[w], Own(m)
  PROVE  Own(m)'
<1> DEFINE l == worker[w]
           d == call.graph_degree
<1>1. /\ pc = "parallel" /\ worker[w] # None
      /\ UNCHANGED <<call, label_size, label_offset, label_data_vecs>>
      /\ graph' = [x \in Cells |-> IF x \in Region(l)
                    THEN BuiltCell(label_data_vecs[l], x - RegionStart(l)) ELSE graph[x]]
  BY DEF WorkerCopy, meta
<1>2. l \in Labels /\ l < SizedTo
  BY <1>1, WorkerLabel
<1>3. m < SizedTo
  BY <1>1, LabelTypes DEF IInv, SizedTo
<1>4. Region(m) \cap Region(l) = {}
  BY <1>2, <1>3, LabelRegionsDisjoint
<1>5. ASSUME NEW j \in 0..(label_size["graph"][m] - 1), NEW c \in 0..(d - 1)
      PROVE  graph'[(label_offset["graph"][m] + j) * d + c] =
               [over |-> label_data_vecs[m], row |-> j, col |-> c]
  <2> DEFINE x == (label_offset["graph"][m] + j) * d + c
  <2>1. x \in Region(m) /\ x \in Cells
    BY <1>3, OwnElement
  <2>2. graph[x] = [over |-> label_data_vecs[m], row |-> j, col |-> c]
    BY DEF Own
  <2> HIDE DEF x, l, d
  <2>3. graph'[x] = graph[x]
    BY <1>1, <1>4, <2>1
  <2> QED BY <2>2, <2>3 DEF x
<1> QED BY <1>1, <1>5 DEF Own

\* A label without rows in the graph half has no graph to be wrong.
LEMMA EmptyOwn ==
  ASSUME NEW l, label_size["graph"][l] = 0
  PROVE  Own(l)
BY DEF Own

LEMMA LaterOwn ==
  ASSUME IInv, CountsInv, OwnInv, PathInv, LaterStep
  PROVE  OwnInv'
<1>1. /\ UNCHANGED <<call, meta>>
      /\ pc \in Later \/ (pc = "map" /\ i = label_number)
  BY LaterFrame DEF IInv
<1>2. /\ call' = call /\ Labels' = Labels /\ Fits' = Fits /\ Wide' = Wide /\ Makes' = Makes
      /\ UNCHANGED <<label_size, label_offset, label_data_vecs>>
  BY <1>1 DEF Labels, Fits, Wide, Makes, meta
<1>3. SUFFICES ASSUME Fits, Wide
               PROVE  /\ pc' = "parallel" =>
                           \A l \in Labels \ todo' :
                             (\A w \in Workers : worker'[w] # l) => Own(l)'
                      /\ pc' \in Joined /\ Makes => \A l \in Labels : Own(l)'
  BY <1>2 DEF OwnInv
<1>4. /\ pc = "parallel" => \A l \in Labels \ todo :
             (\A w \in Workers : worker[w] # l) => Own(l)
      /\ pc \in Joined /\ Makes => \A l \in Labels : Own(l)
  BY <1>3 DEF OwnInv
<1>5. ASSUME graph' = graph, NEW l
      PROVE  Own(l)' <=> Own(l)
  BY <1>2, <1>5 DEF Own
<1>6. \A l \in Labels : label_size'["graph"][l] = 0 => Own(l)'
  BY DEF Own
<1>7. CASE Mapped
  <2>1. /\ pc' = IF labels["graph"] = 0 THEN "bfs"
                 ELSE IF Loads("graph") THEN "load" ELSE "parallel"
        /\ todo' = IF pc' = "parallel" THEN {l \in Labels : label_size["graph"][l] # 0}
                                       ELSE {}
    BY <1>7 DEF Mapped
  <2>2. ASSUME labels["graph"] = 0, NEW l \in Labels
        PROVE  label_size["graph"][l] = 0
    BY <2>2 DEF IInv, SizesInv, CountsInv, Kind
  <2>3. CASE pc' = "parallel"
    BY <1>2, <1>6, <2>1, <2>3 DEF Joined
  <2>4. CASE pc' = "load"
    BY <2>4 DEF Joined
  <2>5. CASE pc' = "bfs"
    BY <1>2, <1>6, <2>1, <2>2, <2>5
  <2> QED BY <2>1, <2>3, <2>4, <2>5
<1>8. CASE LoadGraph
  <2>1. pc = "load" /\ pc' \in {"bfs", "failed"}
    BY <1>8 DEF LoadGraph
  <2>2. ~Makes
    BY <2>1 DEF PathInv
  <2> QED BY <2>1, <2>2
<1>9. ASSUME NEW w \in Workers, WorkerTake(w)
      PROVE  pc' = "parallel" =>
               \A l \in Labels \ todo' :
                 (\A v \in Workers : worker'[v] # l) => Own(l)'
  <2>1. /\ pc = "parallel" /\ worker[w] = None /\ graph' = graph
    BY <1>9 DEF WorkerTake, index
  <2>2. PICK m \in todo : worker' = [worker EXCEPT ![w] = m] /\ todo' = todo \ {m}
    BY <1>9 DEF WorkerTake
  <2>3. worker \in [Workers -> Labels \cup {None}] /\ None \notin Labels
    BY DEF IInv, TypeOK, None, Labels
  <2>4. ASSUME NEW l \in Labels \ todo', \A v \in Workers : worker'[v] # l
        PROVE  Own(l)'
    <3>1. worker'[w] = m
      BY <2>2, <2>3
    <3>2. l \notin todo
      BY <2>2, <2>4, <3>1
    <3>3. \A v \in Workers : worker[v] # l
      BY <2>1, <2>2, <2>3, <2>4
    <3> QED BY <1>4, <1>5, <2>1, <3>2, <3>3
  <2> QED BY <2>4
<1>10. ASSUME NEW w \in Workers, WorkerCopy(w)
       PROVE  pc' = "parallel" =>
                \A l \in Labels \ todo' :
                  (\A v \in Workers : worker'[v] # l) => Own(l)'
  <2>1. /\ pc = "parallel" /\ todo' = todo /\ worker' = [worker EXCEPT ![w] = None]
    BY <1>10 DEF WorkerCopy
  <2>2. worker \in [Workers -> Labels \cup {None}]
    BY DEF IInv, TypeOK
  <2>3. ASSUME NEW l \in Labels \ todo', \A v \in Workers : worker'[v] # l
        PROVE  Own(l)'
    <3>1. CASE l = worker[w]
      BY <1>3, <1>10, <3>1, CopyMakesOwn
    <3>2. CASE l # worker[w]
      <4>1. \A v \in Workers : worker[v] # l
        BY <2>1, <2>2, <2>3, <3>2
      <4>2. Own(l)
        BY <1>4, <2>1, <2>3, <4>1
      <4> QED BY <1>3, <1>10, <3>2, <4>2, CopyKeepsOwn
    <3> QED BY <3>1, <3>2
  <2> QED BY <2>3
<1>11. CASE Join
  <2>1. /\ pc = "parallel" /\ todo = {} /\ \A w \in Workers : worker[w] = None
        /\ graph' = graph /\ pc' \in Joined
    BY <1>11 DEF Join, index, Joined
  <2>2. None \notin Labels
    BY DEF None, Labels
  <2>3. \A l \in Labels : Own(l)
    BY <1>4, <2>1, <2>2
  <2> QED BY <1>5, <2>1, <2>3 DEF Joined
<1>12. ASSUME graph' = graph, pc \in Joined, pc' \in Joined \cup {"failed"}
       PROVE  /\ pc' = "parallel" =>
                   \A l \in Labels \ todo' :
                     (\A w \in Workers : worker'[w] # l) => Own(l)'
              /\ pc' \in Joined /\ Makes => \A l \in Labels : Own(l)'
  BY <1>4, <1>5, <1>12 DEF Joined
<1>13. CASE SaveOpen \/ SaveWrite \/ SaveClose \/ StartBfs \/ KernelDone
            \/ Serialize \/ SerializeClose \/ RaiseAtLists
  <2>1. graph' = graph /\ pc \in Joined /\ pc' \in Joined \cup {"failed"}
    BY <1>13 DEF SaveOpen, SaveWrite, SaveClose, StartBfs, KernelDone, Serialize,
                 SerializeClose, RaiseAtLists, index, Joined
  <2> QED BY <1>12, <2>1
<1>14. ASSUME NEW t \in threads, KernelThread(t)
       PROVE  graph' = graph /\ pc \in Joined /\ pc' \in Joined \cup {"failed"}
  BY <1>14 DEF KernelThread, Joined
<1>15. ASSUME NEW w \in Workers, WorkerTake(w) \/ WorkerCopy(w)
       PROVE  pc' \notin Joined
  BY <1>15 DEF WorkerTake, WorkerCopy, Joined
<1> QED BY <1>7, <1>8, <1>9, <1>10, <1>11, <1>12, <1>13, <1>14, <1>15 DEF LaterStep

LEMMA BuildInvariance == Spec => []BuildInv
<1>1. Init => BuildInv
  <2> SUFFICES ASSUME Init PROVE BuildInv
    OBVIOUS
  <2>1. Labels = {} /\ pc = "idle"
    BY DEF Init, Labels
  <2> QED BY <2>1 DEF BuildInv, CountsInv, OwnInv, PathInv, Joined
<1>2. IInv /\ BuildInv /\ [Next]_vars => BuildInv'
  <2> SUFFICES ASSUME IInv, BuildInv, [Next]_vars PROVE BuildInv'
    OBVIOUS
  <2>1. CountsInv /\ OwnInv /\ PathInv
    BY DEF BuildInv
  <2>2. CASE \/ Call \/ CollectRow \/ Collected \/ SizeLabel \/ Sized \/ MapLabel
             \/ Crash \/ RaiseInLoop
    BY <2>1, <2>2, EarlySteps DEF Crash, RaiseInLoop
  <2>3. CASE LaterStep
    BY <2>1, <2>3, LaterCounts, LaterOwn, LaterPath DEF BuildInv
  <2>4. CASE UNCHANGED vars
    <3>1. /\ UNCHANGED <<pc, call, i, todo, worker, graph>>
          /\ UNCHANGED <<label_number, label_data_vecs, label_size, label_offset,
                         total_rows, labels>>
      BY <2>4 DEF vars, meta, index
    <3>2. /\ Labels' = Labels /\ SizedTo' = SizedTo /\ Fits' = Fits /\ Wide' = Wide
          /\ Makes' = Makes /\ OnlyUnusedRare' = OnlyUnusedRare
      BY <3>1 DEF Labels, SizedTo, Fits, Wide, Makes, OnlyUnusedRare
    <3>3. \A l : HalfOf(l)' = HalfOf(l)
      BY <3>1 DEF HalfOf, cat_freq
    <3>4. \A l : Own(l)' <=> Own(l)
      BY <3>1 DEF Own
    <3>5. CountsInv' /\ PathInv'
      BY <2>1, <3>1, <3>2, <3>3 DEF CountsInv, PathInv
    <3>6. OwnInv'
      BY <2>1, <3>1, <3>2, <3>4 DEF OwnInv
    <3> QED BY <3>5, <3>6 DEF BuildInv
  <2> QED BY <2>2, <2>3, <2>4 DEF Next, Work, LaterStep
<1> QED BY <1>1, <1>2, Invariance, PTL DEF Spec

\* When build() returns from a call that makes its graphs, every row of the
\* graph half is the neighbour list of its place in the graph over the rows of
\* its own label, whatever the threads of the parallel loop did before or
\* after another (vecflow_build.cuh:172-227), for labels with enough rows.
THEOREM MadeGraphsAreOwn == Spec => [](Fits /\ Wide /\ Makes => GraphIsOwn)
<1>1. IInv /\ BuildInv => (Fits /\ Wide /\ Makes => GraphIsOwn)
  <2> SUFFICES ASSUME IInv, BuildInv, Fits, Wide, Makes, pc = "ready",
                      NEW l \in Labels, NEW j \in 0..(label_size["graph"][l] - 1)
               PROVE  GraphRow(label_offset["graph"][l] + j) =
                        [c \in 0..(call.graph_degree - 1) |->
                           [over |-> label_data_vecs[l], row |-> j, col |-> c]]
    BY DEF GraphIsOwn
  <2>1. Own(l)
    BY DEF BuildInv, OwnInv, Joined
  <2> QED BY <2>1 DEF Own, GraphRow
<1> QED BY <1>1, Invariance, BuildInvariance, PTL

\* A forced build owes nothing to the files (vecflow_build.cuh:162), whatever
\* crashes and full disks have left in them.
THEOREM ForcedGraphsAreOwn == Spec => [](Fits /\ Wide => ForcedGraphIsOwn)
<1>1. (Fits /\ Wide /\ Makes => GraphIsOwn) => (Fits /\ Wide => ForcedGraphIsOwn)
  BY DEF ForcedGraphIsOwn, Makes
<1> QED BY <1>1, MadeGraphsAreOwn, PTL

\* A build without files, and without an error pending from before, fails only
\* for a list half of unused labels (vecflow_build.cuh:229-250), never for what
\* is in the dataset otherwise.
THEOREM BuildsSucceed ==
  ASSUME "cuda" \notin Faults
  PROVE  Spec => [](~OnlyUnusedRare => BuildSucceeds)
<1>1. BuildInv => (~OnlyUnusedRare => BuildSucceeds)
  BY DEF BuildInv, PathInv, BuildSucceeds
<1> QED BY <1>1, BuildInvariance, PTL
-----------------------------------------------------------------------------
(* The search for the list of a row.                                       *)

\* A set of naturals has a least one.
LEMMA LeastNatural ==
  ASSUME NEW T, T \subseteq Nat, T # {}
  PROVE  \E m \in T : \A k \in T : m <= k
<1>1. PICK m \in T : \A k \in T : <<k, m>> \notin OpToRel(<, Nat)
  BY WFMin, NatLessThanWellFounded, Zenon
<1>2. ASSUME NEW k \in T
      PROVE  ~(k < m)
  BY <1>1, Zenon DEF OpToRel
<1>3. \A k \in T : m <= k
  BY <1>2
<1> QED BY <1>3

\* A row of the list half lies in the region of one label.
LEMMA RowHasLabel ==
  ASSUME IInv, SizedTo = label_number, NEW t \in Nat, t < total_rows["bfs"]
  PROVE  \E u \in Labels : /\ label_offset["bfs"][u] <= t
                           /\ t < label_offset["bfs"][u] + label_size["bfs"][u]
<1> DEFINE off(l) == label_offset["bfs"][l]
           size(l) == label_size["bfs"][l]
           T == {m \in Labels : t < off(m) + size(m)}
<1>1. label_number \in Nat /\ Labels = 0..(label_number - 1) /\ "bfs" \in Kind
  BY DEF Labels, IInv, TypeOK, Kind
<1>2. \A l \in Labels : off(l) \in Nat /\ size(l) \in Nat
  BY <1>1, LabelTypes DEF IInv
<1>3. /\ total_rows["bfs"] = End("bfs", label_number)
      /\ \A l \in Labels : off(l) = End("bfs", l)
  BY <1>1 DEF IInv, OffsetsInv
<1>4. label_number # 0 /\ label_number - 1 \in T
  BY <1>1, <1>3 DEF End
<1>5. PICK u \in T : \A m \in T : u <= m
  <2>1. T \subseteq Nat /\ T # {}
    BY <1>1, <1>4
  <2> HIDE DEF T
  <2> QED BY <2>1, LeastNatural
<1>6. off(u) <= t
  <2>1. CASE u = 0
    BY <1>3, <2>1 DEF End
  <2>2. CASE u # 0
    <3>1. u - 1 \in Labels /\ u - 1 \notin T
      BY <1>1, <1>5, <2>2
    <3>2. off(u) = off(u - 1) + size(u - 1)
      BY <1>3, <2>2 DEF End
    <3> QED BY <1>2, <3>1, <3>2
  <2> QED BY <2>1, <2>2
<1> QED BY <1>5, <1>6

\* Labels of the list half up to the one that has a row begin before the row,
\* and those after it do not.
LEMMA BeforeLater ==
  ASSUME IInv, SizedTo = label_number, NEW t \in Nat, NEW u \in Labels,
         label_offset["bfs"][u] <= t,
         t < label_offset["bfs"][u] + label_size["bfs"][u],
         NEW m \in Labels
  PROVE  BeforeList(t, m) <=> u < m
<1>1. /\ label_offset["bfs"][m] \in Nat /\ label_offset["bfs"][u] \in Nat
      /\ label_size["bfs"][m] \in Nat /\ label_size["bfs"][u] \in Nat
      /\ u \in Nat /\ m \in Nat /\ m < label_number /\ u < label_number
      /\ "bfs" \in Kind
  BY LabelTypes DEF IInv, Kind
<1>2. u < m => label_offset["bfs"][u] + label_size["bfs"][u] <= label_offset["bfs"][m]
  BY <1>1 DEF IInv, OffsetsInv
<1>3. m < u => label_offset["bfs"][m] + label_size["bfs"][m] <= label_offset["bfs"][u]
  BY <1>1 DEF IInv, OffsetsInv
<1> QED BY <1>1, <1>2, <1>3 DEF BeforeList

\* The binary search finds the label whose region has the row.
LEMMA ListOfRow ==
  ASSUME IInv, SizedTo = label_number, NEW t \in Nat, NEW u \in Labels,
         label_offset["bfs"][u] <= t,
         t < label_offset["bfs"][u] + label_size["bfs"][u]
  PROVE  ListOf(t) = u
<1> DEFINE N == label_number
           D == (0..N) \X (0..N)
           mid(s) == (s[1] + s[2]) \div 2
           Found(s) == IF s[1] >= s[2] - 1 \/ u <= s[1] THEN s[1]
                       ELSE IF u >= s[2] THEN s[2] - 1 ELSE u
           P(g) == g = [s \in D |-> IF s[1] >= s[2] - 1 THEN s[1]
                                    ELSE IF BeforeList(t, mid(s)) THEN g[<<s[1], mid(s)>>]
                                                                  ELSE g[<<mid(s), s[2]>>]]
           found_by == [s \in D |-> Found(s)]
           search == CHOOSE g : P(g)
<1>1. N \in Nat /\ u \in 0..(N - 1) /\ Labels = 0..(N - 1) /\ N # 0
  BY DEF Labels, IInv, TypeOK
<1>2. \A m \in 0..(N - 1) : BeforeList(t, m) <=> u < m
  BY <1>1, BeforeLater
<1>3. ASSUME NEW s \in D, ~(s[1] >= s[2] - 1)
      PROVE  /\ mid(s) \in 0..(N - 1) /\ s[1] < mid(s) /\ mid(s) < s[2]
             /\ <<s[1], mid(s)>> \in D /\ <<mid(s), s[2]>> \in D
             /\ BeforeList(t, mid(s)) <=> u < mid(s)
             /\ Found(s) = IF u < mid(s) THEN Found(<<s[1], mid(s)>>)
                                         ELSE Found(<<mid(s), s[2]>>)
  <2>1. s[1] \in 0..N /\ s[2] \in 0..N
    OBVIOUS
  <2> DEFINE m == mid(s)
             l == s[1]
             r == s[2]
  <2>2. m \in Int /\ l < m /\ m < r
    BY <1>1, <1>3, <2>1
  <2> HIDE DEF m, l, r
  <2>3. l \in 0..N /\ r \in 0..N
    BY <2>1 DEF l, r
  <2>4. m \in 0..(N - 1) /\ m \in 0..N
    BY <1>1, <2>2, <2>3
  <2>5. (IF l >= r - 1 \/ u <= l THEN l ELSE IF u >= r THEN r - 1 ELSE u)
          = IF u < m THEN (IF l >= m - 1 \/ u <= l THEN l ELSE IF u >= m THEN m - 1 ELSE u)
                     ELSE (IF m >= r - 1 \/ u <= m THEN m ELSE IF u >= r THEN r - 1 ELSE u)
    BY <1>1, <2>2, <2>3, <2>4
  <2> QED BY <1>2, <2>2, <2>3, <2>4, <2>5 DEF l, r, m
<1> HIDE DEF Found, mid
<1>4. P(found_by)
  <2>1. ASSUME NEW s \in D
        PROVE  Found(s) = IF s[1] >= s[2] - 1 THEN s[1]
                          ELSE IF BeforeList(t, mid(s)) THEN found_by[<<s[1], mid(s)>>]
                                                        ELSE found_by[<<mid(s), s[2]>>]
    <3>1. CASE s[1] >= s[2] - 1
      BY <3>1 DEF Found
    <3>2. CASE ~(s[1] >= s[2] - 1)
      BY <1>3, <3>2
    <3> QED BY <3>1, <3>2
  <2> QED BY <2>1
<1>5. P(search)
  <2> HIDE DEF P, found_by
  <2> QED BY <1>4
<1>6. ListOf(t) = search[<<0, N>>]
  BY DEF ListOf, mid
<1> HIDE DEF search
<1>7. ASSUME NEW s \in D
      PROVE  search[s] = IF s[1] >= s[2] - 1 THEN s[1]
                         ELSE IF BeforeList(t, mid(s)) THEN search[<<s[1], mid(s)>>]
                                                       ELSE search[<<mid(s), s[2]>>]
  BY <1>5
<1>8. ASSUME NEW s \in D, search[s] # Found(s)
      PROVE  FALSE
  <2> DEFINE Width(x) == IF x[2] >= x[1] THEN x[2] - x[1] ELSE 0
             T == {n \in Nat : \E x \in D : n = Width(x) /\ search[x] # Found(x)}
  <2>1. \A x \in D : Width(x) \in Nat /\ x[1] \in Int /\ x[2] \in Int
    BY <1>1
  <2>2. T \subseteq Nat /\ T # {}
    BY <1>8, <2>1
  <2>3. \E n \in T : \A m \in T : n <= m
    <3> HIDE DEF T
    <3> QED BY <2>2, LeastNatural
  <2>4. PICK x \in D : /\ search[x] # Found(x)
                       /\ \A y \in D : search[y] # Found(y) => Width(x) <= Width(y)
    BY <2>1, <2>3
  <2>5. ~(x[1] >= x[2] - 1)
    BY <1>7, <2>4 DEF Found
  <2> DEFINE m == mid(x)
             a == <<x[1], m>>
             b == <<m, x[2]>>
  <2>6. /\ m \in 0..(N - 1) /\ x[1] < m /\ m < x[2] /\ a \in D /\ b \in D
        /\ BeforeList(t, m) <=> u < m
        /\ Found(x) = IF u < m THEN Found(a) ELSE Found(b)
    BY <1>3, <2>5
  <2> HIDE DEF m
  <2>7. search[x] = IF BeforeList(t, m) THEN search[a] ELSE search[b]
    BY <1>7, <2>5 DEF m
  <2>8. m \in Int
    BY <1>1, <2>6
  <2>9. Width(a) < Width(x) /\ Width(b) < Width(x)
    BY <2>1, <2>6, <2>8
  <2> HIDE DEF Width, a, b
  <2>10. search[a] = Found(a) /\ search[b] = Found(b)
    BY <2>1, <2>4, <2>6, <2>9
  <2> QED BY <2>4, <2>6, <2>7, <2>10
<1>9. Found(<<0, N>>) = u
  BY <1>1 DEF Found
<1> QED BY <1>1, <1>6, <1>8, <1>9

-----------------------------------------------------------------------------
(* The lists.                                                              *)

\* The call makes its lists, whatever the files hold.
MakesLists == call.force_rebuild \/ "bfs" \notin call.named

\* A list holds the rows whose threads are not in T, each once, in the order f
\* in which the threads took their places.
Filling(list, rows, off, size, T) ==
  \E f \in [1..Len(list) -> 1..size] :
    /\ \A x, y \in 1..Len(list) : f[x] = f[y] => x = y
    /\ \A j \in 1..size : (\E x \in 1..Len(list) : f[x] = j) <=> off + j - 1 \notin T
    /\ \A x \in 1..Len(list) : list[x] = rows[f[x]]

Filled(l) == Filling(lists[l], label_data_vecs[l], label_offset["bfs"][l],
                     label_size["bfs"][l], threads)

\* An empty list is filled when no thread has run.
LEMMA FillingStarts ==
  ASSUME NEW rows, NEW off, NEW size, NEW T, \A j \in 1..size : off + j - 1 \in T
  PROVE  Filling(<<>>, rows, off, size, T)
<1> DEFINE f == [x \in 1..0 |-> 1]
<1>1. f \in [1..0 -> 1..size] /\ \A x \in 1..0 : FALSE
  OBVIOUS
<1>2. Len(<<>>) = 0
  OBVIOUS
<1> HIDE DEF f
<1> QED BY <1>1, <1>2 DEF Filling

\* A thread adds its row.
LEMMA FillingGoesOn ==
  ASSUME NEW list \in Seq(Nat), NEW rows, NEW off \in Nat, NEW size \in Nat, NEW T,
         NEW at \in 1..size, off + at - 1 \in T, rows[at] \in Nat,
         Filling(list, rows, off, size, T)
  PROVE  Filling(Append(list, rows[at]), rows, off, size, T \ {off + at - 1})
<1> DEFINE n == Len(list)
           new == Append(list, rows[at])
           R == T \ {off + at - 1}
<1>1. PICK f \in [1..n -> 1..size] :
        /\ \A x, y \in 1..n : f[x] = f[y] => x = y
        /\ \A j \in 1..size : (\E x \in 1..n : f[x] = j) <=> off + j - 1 \notin T
        /\ \A x \in 1..n : list[x] = rows[f[x]]
  BY DEF Filling
<1> DEFINE g == [x \in 1..(n + 1) |-> IF x = n + 1 THEN at ELSE f[x]]
<1>2. /\ n \in Nat /\ Len(new) = n + 1
      /\ \A x \in 1..n : new[x] = list[x]
      /\ new[n + 1] = rows[at]
  OBVIOUS
<1>3. /\ g \in [1..(n + 1) -> 1..size] /\ g[n + 1] = at
      /\ \A x \in 1..n : g[x] = f[x] /\ x \in 1..(n + 1)
      /\ n + 1 \in 1..(n + 1)
      /\ \A x \in 1..(n + 1) : x = n + 1 \/ x \in 1..n
  BY <1>2
<1> HIDE DEF g, new
<1>4. \A x \in 1..n : f[x] # at
  BY <1>1
<1>5. \A x, y \in 1..(n + 1) : g[x] = g[y] => x = y
  BY <1>1, <1>3, <1>4
<1>6. ASSUME NEW j \in 1..size
      PROVE  (\E x \in 1..(n + 1) : g[x] = j) <=> off + j - 1 \notin R
  <2>1. CASE j = at
    BY <1>3, <2>1
  <2>2. CASE j # at
    <3>1. off + j - 1 # off + at - 1
      BY <2>2
    <3>2. (\E x \in 1..(n + 1) : g[x] = j) <=> \E x \in 1..n : f[x] = j
      BY <1>3, <2>2
    <3> QED BY <1>1, <3>1, <3>2
  <2> QED BY <2>1, <2>2
<1>7. \A x \in 1..(n + 1) : new[x] = rows[g[x]]
  BY <1>1, <1>2, <1>3
<1> HIDE DEF R, n
<1> DEFINE m == Len(new)
<1>8. m = n + 1
  BY <1>2
<1> HIDE DEF m
<1>9. /\ g \in [1..m -> 1..size]
      /\ \A x, y \in 1..m : g[x] = g[y] => x = y
      /\ \A j \in 1..size : (\E x \in 1..m : g[x] = j) <=> off + j - 1 \notin R
      /\ \A x \in 1..m : new[x] = rows[g[x]]
  BY <1>3, <1>5, <1>6, <1>7, <1>8
<1>10. Filling(new, rows, off, size, R)
  BY <1>9 DEF Filling, m
<1> QED BY <1>10 DEF new, R

\* Threads of other lists do not count.
LEMMA FillingStays ==
  ASSUME NEW list, NEW rows, NEW off, NEW size, NEW T, NEW R,
         \A j \in 1..size : off + j - 1 \in R <=> off + j - 1 \in T,
         Filling(list, rows, off, size, T)
  PROVE  Filling(list, rows, off, size, R)
<1>1. PICK f \in [1..Len(list) -> 1..size] :
        /\ \A x, y \in 1..Len(list) : f[x] = f[y] => x = y
        /\ \A j \in 1..size : (\E x \in 1..Len(list) : f[x] = j) <=> off + j - 1 \notin T
        /\ \A x \in 1..Len(list) : list[x] = rows[f[x]]
  BY DEF Filling
<1>2. \A j \in 1..size : (\E x \in 1..Len(list) : f[x] = j) <=> off + j - 1 \notin R
  BY <1>1
<1> QED BY <1>1, <1>2 DEF Filling

\* In the end a list has every row as often as it is there.
LEMMA FillingEnds ==
  ASSUME NEW list \in Seq(Nat), NEW rows \in Seq(Nat), NEW off,
         Filling(list, rows, off, Len(rows), {})
  PROVE  /\ Len(list) = Len(rows)
         /\ \A p : Cardinality({j \in DOMAIN list : list[j] = p}) =
                     Cardinality({j \in DOMAIN rows : rows[j] = p})
<1> DEFINE n == Len(list)
           size == Len(rows)
<1>1. /\ n \in Nat /\ size \in Nat /\ 1 \in Int
      /\ DOMAIN list = 1..n /\ DOMAIN rows = 1..size
  OBVIOUS
<1>2. PICK f \in [1..n -> 1..size] :
        /\ \A x, y \in 1..n : f[x] = f[y] => x = y
        /\ \A j \in 1..size : \E x \in 1..n : f[x] = j
        /\ \A x \in 1..n : list[x] = rows[f[x]]
  BY DEF Filling
<1> HIDE DEF n, size
<1>3. /\ IsFiniteSet(1..n)
      /\ Cardinality(1..n) = IF 1 > n THEN 0 ELSE n - 1 + 1
      /\ Cardinality(1..size) = IF 1 > size THEN 0 ELSE size - 1 + 1
  BY <1>1, FS_Interval
<1>4. n = size
  <2>1. f \in Bijection(1..n, 1..size)
    BY <1>2 DEF Bijection, Injection, Surjection, IsInjective
  <2>2. ExistsBijection(1..n, 1..size)
    BY <2>1 DEF ExistsBijection
  <2>3. Cardinality(1..n) = Cardinality(1..size)
    BY <1>3, <2>2, FS_Bijection
  <2> QED BY <1>1, <1>3, <2>3
<1>5. ASSUME NEW p
      PROVE  Cardinality({j \in DOMAIN list : list[j] = p}) =
               Cardinality({j \in DOMAIN rows : rows[j] = p})
  <2> DEFINE A == {j \in DOMAIN list : list[j] = p}
             B == {j \in DOMAIN rows : rows[j] = p}
             g == [x \in A |-> f[x]]
  <2>1. A \subseteq 1..n
    BY <1>1
  <2>2. IsFiniteSet(A)
    BY <1>3, <2>1, FS_Subset
  <2>3. g \in [A -> B]
    BY <1>1, <1>2
  <2>4. \A x, y \in A : g[x] = g[y] => x = y
    BY <1>1, <1>2
  <2>5. ASSUME NEW j \in B
        PROVE  \E x \in A : g[x] = j
    <3>1. j \in 1..size /\ rows[j] = p
      BY <1>1
    <3>2. PICK x \in 1..n : f[x] = j
      BY <1>2, <3>1
    <3>3. x \in A
      BY <1>1, <1>2, <3>1, <3>2
    <3> QED BY <3>2, <3>3
  <2> HIDE DEF A, B, g
  <2>6. g \in Bijection(A, B)
    BY <2>3, <2>4, <2>5 DEF Bijection, Injection, Surjection, IsInjective
  <2>7. ExistsBijection(A, B)
    BY <2>6 DEF ExistsBijection
  <2>8. Cardinality(A) = Cardinality(B)
    BY <2>2, <2>7, FS_Bijection
  <2> QED BY <2>8 DEF A, B
<1> QED BY <1>4, <1>5 DEF n, size

ListsInv ==
  \/ pc = "kernel"
  \/ pc \in {"serialize", "write", "ready"} /\ MakesLists /\ labels["bfs"] # 0
  => /\ pc # "kernel" => threads = {}
     /\ lists \in [Labels -> Seq(Nat)]
     /\ \A l \in Labels : Filled(l)

\* Before the kernel there is nothing to say of the lists, and after it nothing
\* changes them.
LEMMA OtherLists ==
  ASSUME IInv, ListsInv, [Next]_vars, ~StartBfs, ~\E t \in threads : KernelThread(t)
  PROVE  ListsInv'
<1>1. ASSUME pc' \notin {"kernel", "serialize", "write", "ready"}
      PROVE  ListsInv'
  BY <1>1 DEF ListsInv
<1>2. CASE \/ Call \/ CollectRow \/ Collected \/ SizeLabel \/ Sized \/ MapLabel
           \/ Mapped \/ LoadGraph \/ Join \/ SaveOpen \/ SaveWrite \/ SaveClose
           \/ Crash \/ RaiseInLoop \/ RaiseAtLists
  <2>1. pc' \notin {"kernel", "serialize", "write", "ready"}
    BY <1>2 DEF Call, CollectRow, Collected, SizeLabel, Sized, MapLabel, Mapped,
                LoadGraph, Join, SaveOpen, SaveWrite, SaveClose, Crash, RaiseInLoop,
                RaiseAtLists, Dies
  <2> QED BY <1>1, <2>1
<1>3. ASSUME NEW w \in Workers, WorkerTake(w) \/ WorkerCopy(w)
      PROVE  ListsInv'
  <2>1. pc' = "parallel"
    BY <1>3 DEF WorkerTake, WorkerCopy
  <2> QED BY <1>1, <2>1
<1>4. CASE KernelDone \/ Serialize \/ SerializeClose \/ UNCHANGED vars
  <2>1. UNCHANGED <<call, lists, threads, label_number, label_size, label_offset,
                    label_data_vecs, labels>>
    BY <1>4 DEF KernelDone, Serialize, SerializeClose, vars, meta, index
  <2>2. Labels' = Labels /\ MakesLists' = MakesLists
    BY <2>1 DEF Labels, MakesLists
  <2>3. \A l : Filled(l)' <=> Filled(l)
    BY <2>1 DEF Filled
  <2>4. \/ pc' = pc
        \/ pc = "kernel" /\ pc' \in {"serialize", "ready"} /\ threads = {}
        \/ pc \in {"serialize", "write"} /\ pc' \in {"write", "ready", "failed"}
    BY <1>4 DEF KernelDone, Serialize, SerializeClose, vars
  <2> QED BY <2>1, <2>2, <2>3, <2>4 DEF ListsInv
<1> QED BY <1>2, <1>3, <1>4 DEF Next, Work

LEMMA StartLists ==
  ASSUME IInv, StartBfs
  PROVE  ListsInv'
<1>1. /\ UNCHANGED <<call, meta>>
  BY DEF StartBfs
<1>2. /\ UNCHANGED <<call, label_number, label_size, label_offset, total_rows,
                     label_data_vecs, labels>>
      /\ Labels' = Labels /\ MakesLists' = MakesLists
  BY <1>1 DEF meta, Labels, MakesLists
<1>3. pc' \in {"ready", "failed", "kernel"} /\ pc = "bfs"
  BY DEF StartBfs
<1>4. CASE NoLists
  <2>1. threads' = threads /\ pc' = "ready"
    BY <1>4 DEF StartBfs
  <2> QED BY <1>2, <2>1, <1>4 DEF ListsInv, NoLists
<1>5. CASE ~NoLists /\ Loads("bfs")
  <2>1. ~MakesLists /\ pc' # "kernel"
    BY <1>5 DEF StartBfs, Loads, MakesLists
  <2> QED BY <1>2, <2>1 DEF ListsInv
<1>6. CASE ~NoLists /\ ~Loads("bfs")
  <2>1. /\ lists' = [l \in Labels |-> <<>>]
        /\ threads' = 0..(total_rows["bfs"] - 1)
        /\ pc' \in {"failed", "kernel"}
    BY <1>6 DEF StartBfs
  <2>2. SizedTo = label_number
    BY <1>3 DEF SizedTo
  <2>3. ASSUME NEW l \in Labels
        PROVE  Filled(l)'
    <3> DEFINE size == label_size["bfs"][l]
               off == label_offset["bfs"][l]
    <3>1. off \in Nat /\ size \in Nat /\ total_rows["bfs"] \in Nat /\ l < SizedTo
      BY <2>2, LabelTypes DEF IInv, TypeOK, Kind
    <3>2. off + size <= total_rows["bfs"]
      BY <2>2, <3>1, RegionEnds DEF Kind
    <3>3. \A j \in 1..size : off + j - 1 \in threads'
      BY <2>1, <3>1, <3>2
    <3>4. lists'[l] = <<>>
      BY <2>1
    <3>5. Filling(<<>>, label_data_vecs[l], off, size, threads')
      BY <3>3, FillingStarts
    <3> QED BY <1>2, <3>4, <3>5 DEF Filled
  <2>4. lists' \in [Labels -> Seq(Nat)]
    BY <2>1
  <2> QED BY <1>2, <2>1, <2>3, <2>4 DEF ListsInv
<1> QED BY <1>4, <1>5, <1>6

LEMMA ThreadLists ==
  ASSUME IInv, ListsInv, NEW t \in threads, KernelThread(t)
  PROVE  ListsInv'
<1>1. /\ pc = "kernel" /\ pc' = "kernel" /\ threads' = threads \ {t}
      /\ UNCHANGED <<call, label_number, label_size, label_offset, total_rows,
                     label_data_vecs, labels>>
      /\ Labels' = Labels
      /\ lists' = [lists EXCEPT ![ListOf(t)] = Append(@, index_map["bfs"][t + 1])]
  BY DEF KernelThread, meta, Labels
<1>2. SizedTo = label_number /\ MappedTo = label_number
  BY <1>1 DEF SizedTo, MappedTo
<1>3. t \in Nat /\ t < total_rows["bfs"]
  <2>1. total_rows["bfs"] \in Nat /\ t \in 0..(total_rows["bfs"] - 1)
    BY <1>1 DEF IInv, TypeOK, KernelInv, Kind
  <2> QED BY <2>1
<1>4. PICK u \in Labels : /\ label_offset["bfs"][u] <= t
                          /\ t < label_offset["bfs"][u] + label_size["bfs"][u]
  BY <1>2, <1>3, RowHasLabel
<1>5. ListOf(t) = u
  BY <1>2, <1>3, <1>4, ListOfRow
<1>6. /\ lists \in [Labels -> Seq(Nat)]
      /\ \A l \in Labels : Filled(l)
  BY <1>1 DEF ListsInv
<1> DEFINE size == label_size["bfs"][u]
           off == label_offset["bfs"][u]
           at == t - off + 1
<1>7. off \in Nat /\ size \in Nat /\ u < SizedTo
  BY <1>2, <1>6, LabelTypes DEF IInv, Kind
<1>8. at \in 1..size /\ off + at - 1 = t /\ off + at = t + 1
  BY <1>3, <1>4, <1>7
<1> HIDE DEF at
<1>9. index_map["bfs"][t + 1] = label_data_vecs[u][at] /\ label_data_vecs[u][at] \in Nat
  <2>1. \A j \in 1..size : index_map["bfs"][off + j] = label_data_vecs[u][j]
    BY <1>2, <1>7 DEF IInv, MapsInv, Kind
  <2>2. index_map["bfs"][t + 1] = label_data_vecs[u][at]
    BY <1>8, <2>1
  <2>3. size = Len(label_data_vecs[u]) /\ label_data_vecs[u] \in Seq(Nat)
    BY <1>7, <1>8, LabelTypes DEF IInv, SizesInv, Kind
  <2>4. label_data_vecs[u][at] \in Nat
    BY <1>8, <2>3
  <2> QED BY <2>2, <2>4
<1>10. /\ lists' \in [Labels -> Seq(Nat)]
       /\ lists'[u] = Append(lists[u], label_data_vecs[u][at])
       /\ \A l \in Labels : l # u => lists'[l] = lists[l]
  BY <1>1, <1>5, <1>6, <1>9
<1>11. Filled(u)'
  <2>1. Filling(lists[u], label_data_vecs[u], off, size, threads) /\ lists[u] \in Seq(Nat)
    BY <1>6 DEF Filled
  <2>2. Filling(Append(lists[u], label_data_vecs[u][at]), label_data_vecs[u], off, size,
                threads \ {off + at - 1})
    BY <1>7, <1>8, <1>9, <2>1, FillingGoesOn
  <2> QED BY <1>1, <1>8, <1>10, <2>2 DEF Filled
<1>12. ASSUME NEW l \in Labels, l # u
       PROVE  Filled(l)'
  <2>1. /\ label_offset["bfs"][l] \in Nat /\ label_size["bfs"][l] \in Nat
        /\ l \in Nat /\ u \in Nat /\ l < SizedTo
    BY <1>2, LabelTypes DEF IInv, Kind
  <2>2. \/ label_offset["bfs"][l] + label_size["bfs"][l] <= off
        \/ off + size <= label_offset["bfs"][l]
    BY <1>7, <1>12, <2>1 DEF IInv, OffsetsInv, Kind
  <2>3. \A j \in 1..label_size["bfs"][l] : label_offset["bfs"][l] + j - 1 # t
    BY <1>3, <1>4, <1>7, <2>1, <2>2
  <2>4. \A j \in 1..label_size["bfs"][l] :
          label_offset["bfs"][l] + j - 1 \in threads' <=>
            label_offset["bfs"][l] + j - 1 \in threads
    BY <1>1, <2>3
  <2>5. lists'[l] = lists[l] /\ Filled(l)
    BY <1>6, <1>10, <1>12
  <2>6. Filling(lists[l], label_data_vecs[l], label_offset["bfs"][l], label_size["bfs"][l],
                threads')
    BY <2>4, <2>5, FillingStays DEF Filled
  <2> QED BY <1>1, <2>5, <2>6 DEF Filled
<1>13. \A l \in Labels : Filled(l)'
  BY <1>11, <1>12
<1> QED BY <1>1, <1>10, <1>13 DEF ListsInv

LEMMA ListsInvariance == Spec => []ListsInv
<1>1. Init => ListsInv
  BY DEF Init, ListsInv
<1>2. IInv /\ ListsInv /\ [Next]_vars => ListsInv'
  BY OtherLists, StartLists, ThreadLists
<1> QED BY <1>1, <1>2, Invariance, PTL DEF Spec

\* When build() returns from a call that makes its lists, the list of every
\* rare label holds the label's rows, each as often as the caller named it, and
\* as many as the search scans, in whatever order the threads of the kernel
\* ran (vecflow_build.cuh:229-262, ivf_flat_build.cuh:560-650).
THEOREM MadeListsAreOwn == Spec => [](MakesLists => ListsAreOwn)
<1>1. ASSUME IInv, CountsInv, ListsInv, MakesLists, pc = "ready",
             NEW l \in Labels, HalfOf(l) = "bfs"
      PROVE  /\ l \in DOMAIN lists
             /\ Len(lists[l]) = label_size["bfs"][l]
             /\ \A p \in 1..Len(call.data_label_vecs) :
                  Cardinality({j \in DOMAIN lists[l] : lists[l][j] = p}) =
                    Cardinality({j \in DOMAIN label_data_vecs[l] : label_data_vecs[l][j] = p})
  <2> DEFINE size == label_size["bfs"][l]
             rows == label_data_vecs[l]
  <2>1. l < SizedTo /\ rows \in Seq(Nat) /\ size \in Nat /\ size = Len(rows)
        /\ DOMAIN rows = 1..size
    <3>1. l < SizedTo /\ rows \in Seq(Nat) /\ size \in Nat
      BY <1>1, LabelTypes DEF IInv, SizedTo, Kind
    <3>2. size = Len(rows)
      BY <1>1, <3>1 DEF IInv, SizesInv, Kind
    <3> QED BY <3>1, <3>2
  <2>2. labels["bfs"] # 0
    BY <1>1, <2>1 DEF CountsInv, Kind
  <2>3. threads = {} /\ lists \in [Labels -> Seq(Nat)] /\ Filled(l)
    BY <1>1, <2>2 DEF ListsInv
  <2>4. lists[l] \in Seq(Nat) /\ l \in DOMAIN lists
    BY <2>3
  <2>5. Filling(lists[l], rows, label_offset["bfs"][l], Len(rows), {})
    BY <2>1, <2>3 DEF Filled
  <2>6. /\ Len(lists[l]) = Len(rows)
        /\ \A p : Cardinality({j \in DOMAIN lists[l] : lists[l][j] = p}) =
                    Cardinality({j \in DOMAIN rows : rows[j] = p})
    BY <2>1, <2>4, <2>5, FillingEnds
  <2> QED BY <2>1, <2>4, <2>6
<1>2. IInv /\ CountsInv /\ ListsInv => (MakesLists => ListsAreOwn)
  BY <1>1 DEF ListsAreOwn
<1>3. BuildInv => CountsInv
  BY DEF BuildInv
<1> QED BY <1>2, <1>3, Invariance, BuildInvariance, ListsInvariance, PTL
=============================================================================
