---------------------------- MODULE VecFlowProofs ----------------------------
(***************************************************************************)
(* Theorems about VecFlow: the index that build() returns is right whether *)
(* its halves were made or loaded, the threads of the classification get   *)
(* places of their own, and with both a batch is answered as               *)
(* FilteredSearch promises.                                                *)
(***************************************************************************)
EXTENDS VecFlow, VecFlowBuildProofs

\* No process crashes and no disk is full, and calls that share a file share
\* what it was made from.  An error of an earlier call may be pending.
Faultless == Faults \subseteq {"cuda"}
OneDataset ==
  \A c, d \in Calls, k \in Kind : k \in c.named /\ k \in d.named =>
    /\ c.data_label_vecs = d.data_label_vecs
    /\ c.specificity_threshold = d.specificity_threshold
    /\ c.graph_degree = d.graph_degree

-----------------------------------------------------------------------------
(* What a dataset determines.                                              *)

\* How often row p carries label l.
Times(data, p, l) == Cardinality({j \in DOMAIN data[p] : data[p][j] = l})

\* What the first n rows enter under label l; e counts the entries.
Inverted(data, n, l, rows) ==
  \E e \in [0..n -> Nat] :
    /\ e[0] = 0 /\ e[n] = Len(rows) /\ \A p \in 0..n : e[p] <= Len(rows)
    /\ \A p \in 1..n : e[p] = e[p - 1] + Times(data, p, l)
    /\ \A p \in 1..n, j \in 1..Len(rows) : e[p - 1] < j /\ j <= e[p] => rows[j] = p

LEMMA InvertedStarts ==
  ASSUME NEW data, NEW l
  PROVE  Inverted(data, 0, l, <<>>)
<1> DEFINE e == [p \in 0..0 |-> 0]
<1>1. e \in [0..0 -> Nat] /\ e[0] = 0 /\ Len(<<>>) = 0 /\ 1..0 = {}
  OBVIOUS
<1> HIDE DEF e
<1> QED BY <1>1 DEF Inverted

LEMMA InvertedGoesOn ==
  ASSUME NEW data, NEW n \in Nat, NEW l, NEW rows \in Seq(Nat),
         Times(data, n + 1, l) \in Nat, Inverted(data, n, l, rows)
  PROVE  Inverted(data, n + 1, l, rows \o [j \in 1..Times(data, n + 1, l) |-> n + 1])
<1> DEFINE k == Times(data, n + 1, l)
           new == rows \o [j \in 1..k |-> n + 1]
<1>1. PICK e \in [0..n -> Nat] :
        /\ e[0] = 0 /\ e[n] = Len(rows) /\ \A p \in 0..n : e[p] <= Len(rows)
        /\ \A p \in 1..n : e[p] = e[p - 1] + Times(data, p, l)
        /\ \A p \in 1..n, j \in 1..Len(rows) : e[p - 1] < j /\ j <= e[p] => rows[j] = p
  BY DEF Inverted
<1> HIDE DEF k
<1>2. k \in Nat /\ n + 1 \in Nat
  BY DEF k
<1>3. /\ Len(new) = Len(rows) + k
      /\ \A j \in 1..Len(new) : new[j] = IF j <= Len(rows) THEN rows[j] ELSE n + 1
  BY <1>2, AppendRow
<1> HIDE DEF new
<1> DEFINE m == n + 1
           g == [p \in 0..m |-> IF p = m THEN e[n] + k ELSE e[p]]
<1>4. /\ g \in [0..m -> Nat] /\ g[m] = e[n] + k
      /\ \A p \in 0..n : g[p] = e[p]
  BY <1>1, <1>2
<1>5. g[0] = 0 /\ g[m] = Len(new)
  BY <1>1, <1>3, <1>4
<1>6. Len(rows) \in Nat /\ \A p \in 0..n : p \in 0..m /\ p \in Nat /\ e[p] \in Nat
  BY <1>1
<1>7. \A p \in 0..m : p = m \/ p \in 0..n
  BY <1>2
<1>8. \A p \in 1..m : p - 1 \in 0..n /\ (p = m \/ (p \in 1..n /\ p \in 0..n))
  BY <1>2
<1> HIDE DEF g, m
<1>9. \A p \in 0..m : g[p] <= Len(new)
  <2>1. g[m] <= Len(new) /\ Len(new) = Len(rows) + k
    BY <1>1, <1>2, <1>3, <1>4, <1>6
  <2>2. \A p \in 0..n : e[p] <= Len(new)
    BY <1>1, <1>2, <1>6, <2>1
  <2> QED BY <1>4, <1>7, <2>1, <2>2
<1>10. ASSUME NEW p \in 1..m
       PROVE  g[p] = g[p - 1] + Times(data, p, l)
  <2>1. CASE p = m
    <3>1. p - 1 = n /\ n \in 0..n
      BY <1>2, <2>1 DEF m
    <3>2. g[p] = e[n] + k /\ g[p - 1] = e[n]
      BY <1>4, <2>1, <3>1
    <3> QED BY <2>1, <3>2 DEF m, k
  <2>2. CASE p \in 1..n /\ p \in 0..n
    BY <1>1, <1>4, <1>8, <2>2
  <2> QED BY <1>8, <2>1, <2>2
<1>11. ASSUME NEW p \in 1..m, NEW j \in 1..Len(new), g[p - 1] < j, j <= g[p]
       PROVE  new[j] = p
  <2>1. CASE p = m
    BY <1>1, <1>2, <1>3, <1>4, <1>6, <1>11, <2>1 DEF m
  <2>2. CASE p \in 1..n /\ p \in 0..n
    <3>1. j <= Len(rows) /\ j \in 1..Len(rows)
      BY <1>1, <1>3, <1>4, <1>6, <1>11, <2>2
    <3>2. e[p - 1] < j /\ j <= e[p]
      BY <1>4, <1>8, <1>11, <2>2
    <3> QED BY <1>1, <1>3, <2>2, <3>1, <3>2
  <2> QED BY <1>8, <2>1, <2>2
<1>12. Inverted(data, m, l, new)
  BY <1>4, <1>5, <1>9, <1>10, <1>11 DEF Inverted
<1> QED BY <1>12 DEF m, new, k

\* Nothing else is entered, in no other order.
LEMMA InvertedOnce ==
  ASSUME NEW data, NEW n \in Nat, NEW l, NEW rows \in Seq(Nat), NEW other \in Seq(Nat),
         Inverted(data, n, l, rows), Inverted(data, n, l, other)
  PROVE  rows = other
<1>1. PICK e \in [0..n -> Nat] :
        /\ e[0] = 0 /\ e[n] = Len(rows)
        /\ \A p \in 1..n : e[p] = e[p - 1] + Times(data, p, l)
        /\ \A p \in 1..n, j \in 1..Len(rows) : e[p - 1] < j /\ j <= e[p] => rows[j] = p
  BY DEF Inverted
<1>2. PICK f \in [0..n -> Nat] :
        /\ f[0] = 0 /\ f[n] = Len(other)
        /\ \A p \in 1..n : f[p] = f[p - 1] + Times(data, p, l)
        /\ \A p \in 1..n, j \in 1..Len(other) : f[p - 1] < j /\ j <= f[p] => other[j] = p
  BY DEF Inverted
<1>3. \A p \in 0..n : e[p] = f[p]
  <2> DEFINE T == {p \in 0..n : e[p] # f[p]}
  <2>1. SUFFICES ASSUME T # {} PROVE FALSE
    OBVIOUS
  <2>2. T \subseteq Nat
    OBVIOUS
  <2>3. \E p \in T : \A q \in T : p <= q
    <3> HIDE DEF T
    <3> QED BY <2>1, <2>2, LeastNatural
  <2>4. PICK p \in T : \A q \in T : p <= q
    BY <2>3
  <2>5. p # 0
    BY <1>1, <1>2
  <2>6. p \in 1..n /\ p - 1 \in 0..n /\ p - 1 \notin T
    BY <2>4, <2>5
  <2>7. e[p - 1] = f[p - 1]
    BY <2>6
  <2> QED BY <1>1, <1>2, <2>6, <2>7
<1>4. Len(rows) = Len(other) /\ Len(rows) \in Nat
  BY <1>1, <1>2, <1>3
<1>5. ASSUME NEW j \in 1..Len(rows)
      PROVE  rows[j] = other[j]
  <2> DEFINE T == {p \in 0..n : j <= e[p]}
  <2>1. T \subseteq Nat /\ n \in T
    BY <1>1
  <2>2. \E p \in T : \A q \in T : p <= q
    <3> HIDE DEF T
    <3> QED BY <2>1, LeastNatural
  <2>3. PICK p \in T : \A q \in T : p <= q
    BY <2>2
  <2>4. p # 0
    BY <1>1
  <2>5. p \in 1..n /\ p - 1 \in 0..n /\ p - 1 \notin T /\ j <= e[p]
    BY <2>3, <2>4
  <2>6. e[p - 1] < j
    BY <2>5
  <2>7. rows[j] = p
    BY <1>1, <2>5, <2>6
  <2>8. other[j] = p
    BY <1>2, <1>3, <1>4, <2>5, <2>6
  <2> QED BY <2>7, <2>8
<1>6. /\ rows = [j \in 1..Len(rows) |-> rows[j]]
      /\ other = [j \in 1..Len(other) |-> other[j]]
  OBVIOUS
<1> QED BY <1>4, <1>5, <1>6

LEMMA TimesType ==
  ASSUME NEW data \in Seq(Seq(Nat)), NEW p \in 1..Len(data), NEW l
  PROVE  Times(data, p, l) \in Nat
<1> DEFINE row == data[p]
           T == {j \in DOMAIN row : row[j] = l}
<1>1. row \in Seq(Nat) /\ DOMAIN row = 1..Len(row) /\ Len(row) \in Int /\ 1 \in Int
  OBVIOUS
<1> HIDE DEF row
<1>2. IsFiniteSet(1..Len(row))
  BY <1>1, FS_Interval
<1>3. IsFiniteSet(T)
  BY <1>1, <1>2, FS_Subset
<1>4. Cardinality(T) \in Nat
  BY <1>3, FS_CardinalityType
<1> QED BY <1>4 DEF Times, row

\* The labels of a call are inverted as its dataset says.
InversionInv ==
  /\ pc # "idle" => label_number = LabelNumber(call.data_label_vecs)
  /\ \A l \in Labels :
       Inverted(call.data_label_vecs, InvertedTo, l, label_data_vecs[l])

LEMMA InversionInvariance == Spec => []InversionInv
<1>1. Init => InversionInv
  BY DEF Init, InversionInv, Labels
<1>2. ASSUME IInv, InversionInv, Call
      PROVE  InversionInv'
  <2>1. /\ pc' = "collect" /\ i' = 1
        /\ label_number' = LabelNumber(call'.data_label_vecs)
        /\ call' \in Calls
        /\ label_data_vecs' = [l \in 0..max_label(call'.data_label_vecs) |-> <<>>]
    BY <1>2 DEF Call
  <2>2. Labels' = 0..max_label(call'.data_label_vecs)
    BY <2>1, CallType DEF Labels
  <2>3. InvertedTo' = 0
    BY <2>1 DEF InvertedTo
  <2>4. \A l \in Labels' : label_data_vecs'[l] = <<>>
    BY <2>1, <2>2
  <2> DEFINE data == call'.data_label_vecs
  <2> HIDE DEF data
  <2>5. \A l : Inverted(data, 0, l, <<>>)
    BY InvertedStarts
  <2> QED BY <2>1, <2>3, <2>4, <2>5 DEF InversionInv, data
<1>3. ASSUME IInv, InversionInv, CollectRow
      PROVE  InversionInv'
  <2> DEFINE data == call.data_label_vecs
             rows(l) == label_data_vecs[l]
  <2>1. /\ pc = "collect" /\ pc' = "collect" /\ call' = call /\ i' = i + 1
        /\ label_number' = label_number /\ Labels' = Labels
        /\ label_data_vecs' = [l \in Labels |->
             rows(l) \o [j \in 1..Times(data, i, l) |-> i]]
    BY <1>3 DEF CollectRow, Times, Labels
  <2>2. data \in Seq(Seq(Nat)) /\ i \in 1..Len(data) /\ Len(data) \in Nat
    BY <1>3, CallType, LabelTypes DEF IInv, CollectRow, StageInv
  <2>3. InvertedTo = i - 1 /\ InvertedTo' = i
    BY <2>1, <2>2 DEF InvertedTo
  <2>4. ASSUME NEW l \in Labels
        PROVE  Inverted(data, i, l, label_data_vecs'[l])
    <3> DEFINE n == i - 1
    <3>1. n \in Nat /\ i = n + 1
      BY <2>2
    <3>2. Times(data, i, l) \in Nat
      BY <2>2, TimesType
    <3>3. Inverted(data, n, l, rows(l)) /\ rows(l) \in Seq(Nat)
      BY <1>3, <2>3, LabelTypes DEF InversionInv, IInv
    <3> HIDE DEF n, data, rows
    <3>4. Inverted(data, n + 1, l, rows(l) \o [j \in 1..Times(data, n + 1, l) |-> n + 1])
      BY <3>1, <3>2, <3>3, InvertedGoesOn
    <3>5. label_data_vecs'[l] = rows(l) \o [j \in 1..Times(data, n + 1, l) |-> n + 1]
      BY <2>1, <3>1
    <3> QED BY <3>1, <3>4, <3>5
  <2> QED BY <1>3, <2>1, <2>3, <2>4 DEF InversionInv
<1>4. ASSUME IInv, InversionInv, Crash \/ RaiseInLoop
      PROVE  InversionInv'
  <2>1. pc' = "idle" /\ label_number' = 0
    BY <1>4 DEF Crash, RaiseInLoop, Dies
  <2>2. Labels' = {}
    BY <2>1 DEF Labels
  <2> QED BY <1>4, <2>1, <2>2 DEF Crash, RaiseInLoop, Dies, InversionInv
<1>5. ASSUME IInv, InversionInv, InvertedTo' = InvertedTo, pc # "idle",
             UNCHANGED <<call, label_number, label_data_vecs>>
      PROVE  InversionInv'
  BY <1>5 DEF InversionInv, Labels
<1>6. ASSUME IInv, InversionInv, Collected
      PROVE  InversionInv'
  <2>1. /\ pc = "collect" /\ pc' = "size" /\ i > Len(call.data_label_vecs)
        /\ UNCHANGED <<call, label_number, label_data_vecs>>
    BY <1>6 DEF Collected, meta
  <2>2. i \in 1..(Len(call.data_label_vecs) + 1) /\ Len(call.data_label_vecs) \in Nat
    BY <1>6, <2>1, CallType, LabelTypes DEF IInv, StageInv
  <2>3. InvertedTo' = InvertedTo
    BY <2>1, <2>2 DEF InvertedTo
  <2> QED BY <1>5, <1>6, <2>1, <2>3
<1>7. ASSUME IInv, InversionInv, SizeLabel \/ Sized \/ MapLabel
      PROVE  InversionInv'
  <2>1. /\ pc # "idle" /\ pc # "collect" /\ pc' # "collect"
        /\ UNCHANGED <<call, label_number, label_data_vecs>>
    BY <1>7 DEF SizeLabel, Sized, MapLabel, meta
  <2>2. InvertedTo' = InvertedTo
    BY <2>1 DEF InvertedTo
  <2> QED BY <1>5, <1>7, <2>1, <2>2
<1>8. ASSUME IInv, InversionInv, LaterStep
      PROVE  InversionInv'
  <2>1. /\ UNCHANGED <<call, label_number, label_data_vecs>> /\ pc' # "collect"
        /\ pc # "collect" /\ pc # "idle"
    BY <1>8, LaterFrame DEF IInv, Later, meta
  <2>2. InvertedTo' = InvertedTo
    BY <2>1 DEF InvertedTo
  <2> QED BY <1>5, <1>8, <2>1, <2>2
<1>9. ASSUME IInv, InversionInv, UNCHANGED vars
      PROVE  InversionInv'
  <2>1. UNCHANGED <<pc, i, call, label_number, label_data_vecs>>
    BY <1>9 DEF vars, meta
  <2>2. InvertedTo' = InvertedTo
    BY <2>1 DEF InvertedTo
  <2> QED BY <1>9, <2>1, <2>2 DEF InversionInv, Labels
<1>10. IInv /\ InversionInv /\ [Next]_vars => InversionInv'
  BY <1>2, <1>3, <1>4, <1>6, <1>7, <1>8, <1>9 DEF Next, Work, LaterStep
<1> QED BY <1>1, <1>10, Invariance, PTL DEF Spec

-----------------------------------------------------------------------------
(* The layout of the graph half.                                           *)

\* The rows of the labels, and their sizes and offsets in the graph half.
Layout(data, threshold, vecs, size, off, total) ==
  LET n == LabelNumber(data) IN
  /\ \A l \in 0..(n - 1) :
       /\ vecs[l] \in Seq(Nat) /\ Inverted(data, Len(data), l, vecs[l])
       /\ size[l] = IF Len(vecs[l]) > threshold THEN Len(vecs[l]) ELSE 0
       /\ off[l] = IF l = 0 THEN 0 ELSE off[l - 1] + size[l - 1]
  /\ total = IF n = 0 THEN 0 ELSE off[n - 1] + size[n - 1]

\* A dataset and a threshold have one layout.
LEMMA OneLayout ==
  ASSUME NEW data \in Seq(Seq(Nat)), NEW threshold,
         NEW vecs, NEW size, NEW off, NEW total,
         NEW vecs2, NEW size2, NEW off2, NEW total2,
         LabelNumber(data) \in Nat,
         Layout(data, threshold, vecs, size, off, total),
         Layout(data, threshold, vecs2, size2, off2, total2)
  PROVE  /\ \A l \in 0..(LabelNumber(data) - 1) :
              vecs[l] = vecs2[l] /\ size[l] = size2[l] /\ off[l] = off2[l]
         /\ total = total2
<1> DEFINE n == LabelNumber(data)
           Ls == 0..(n - 1)
<1>1. n \in Nat /\ Len(data) \in Nat
  OBVIOUS
<1>2. \A l \in Ls : vecs[l] = vecs2[l]
  <2>1. ASSUME NEW l \in Ls
        PROVE  vecs[l] = vecs2[l]
    <3>1. /\ vecs[l] \in Seq(Nat) /\ Inverted(data, Len(data), l, vecs[l])
          /\ vecs2[l] \in Seq(Nat) /\ Inverted(data, Len(data), l, vecs2[l])
      BY DEF Layout
    <3> QED BY <1>1, <3>1, InvertedOnce
  <2> QED BY <2>1
<1>3. \A l \in Ls : size[l] = size2[l]
  <2>1. ASSUME NEW l \in Ls
        PROVE  size[l] = size2[l]
    <3>1. /\ size[l] = IF Len(vecs[l]) > threshold THEN Len(vecs[l]) ELSE 0
          /\ size2[l] = IF Len(vecs2[l]) > threshold THEN Len(vecs2[l]) ELSE 0
      BY <2>1 DEF Layout
    <3> QED BY <1>2, <2>1, <3>1
  <2> QED BY <2>1
<1>4. \A l \in Ls : off[l] = off2[l]
  <2> DEFINE T == {l \in Ls : off[l] # off2[l]}
  <2>1. SUFFICES ASSUME T # {} PROVE FALSE
    OBVIOUS
  <2>2. T \subseteq Nat
    BY <1>1
  <2>3. \E p \in T : \A q \in T : p <= q
    <3> HIDE DEF T
    <3> QED BY <2>1, <2>2, LeastNatural
  <2>4. PICK p \in T : \A q \in T : p <= q
    BY <2>3
  <2>5. p \in Ls /\ p # 0
    BY DEF Layout
  <2>6. p - 1 \in Ls /\ p - 1 \notin T
    BY <1>1, <2>4, <2>5
  <2>7. off[p - 1] = off2[p - 1] /\ size[p - 1] = size2[p - 1]
    BY <1>3, <2>6
  <2>8. off[p] = off2[p]
    BY <2>5, <2>7 DEF Layout
  <2> QED BY <2>8
<1>5. total = total2
  <2>1. CASE n = 0
    BY <2>1 DEF Layout
  <2>2. CASE n # 0
    <3>1. n - 1 \in Ls
      BY <1>1, <2>2
    <3>2. off[n - 1] = off2[n - 1] /\ size[n - 1] = size2[n - 1]
      BY <1>3, <1>4, <3>1
    <3> QED BY <2>2, <3>2 DEF Layout
  <2> QED BY <2>1, <2>2
<1> QED BY <1>2, <1>3, <1>4, <1>5

\* The layout that the loops over the labels have made.
LEMMA LoopsLayout ==
  ASSUME IInv, InversionInv, pc \in Later
  PROVE  Layout(call.data_label_vecs, call.specificity_threshold, label_data_vecs,
                label_size["graph"], label_offset["graph"], total_rows["graph"])
<1> DEFINE data == call.data_label_vecs
           n == LabelNumber(data)
<1>1. /\ label_number = n /\ n \in Nat /\ Labels = 0..(n - 1)
      /\ SizedTo = n /\ InvertedTo = Len(data) /\ "graph" \in Kind
  BY CallType, LabelTypes DEF IInv, InversionInv, Later, SizedTo, InvertedTo, Labels, Kind
<1>2. ASSUME NEW l \in 0..(n - 1)
      PROVE  /\ label_data_vecs[l] \in Seq(Nat)
             /\ Inverted(data, Len(data), l, label_data_vecs[l])
             /\ label_size["graph"][l] = IF Len(label_data_vecs[l]) > call.specificity_threshold
                                         THEN Len(label_data_vecs[l]) ELSE 0
             /\ label_offset["graph"][l] =
                  IF l = 0 THEN 0
                  ELSE label_offset["graph"][l - 1] + label_size["graph"][l - 1]
  <2>1. l \in Labels /\ l < SizedTo
    BY <1>1
  <2>2. label_data_vecs[l] \in Seq(Nat) /\ Inverted(data, Len(data), l, label_data_vecs[l])
    BY <1>1, <2>1, LabelTypes DEF IInv, InversionInv
  <2>3. label_size["graph"][l] = IF HalfOf(l) = "graph" THEN Len(label_data_vecs[l]) ELSE 0
    BY <1>1, <2>1 DEF IInv, SizesInv
  <2>4. label_offset["graph"][l] = End("graph", l)
    BY <1>1, <2>1 DEF IInv, OffsetsInv
  <2> QED BY <2>2, <2>3, <2>4 DEF HalfOf, cat_freq, End
<1>3. total_rows["graph"] = End("graph", n)
  BY <1>1 DEF IInv, OffsetsInv
<1> QED BY <1>2, <1>3 DEF Layout, End

-----------------------------------------------------------------------------
(* The file of the graph half.                                             *)

\* A file holds the graphs of a call's dataset.
SavedGraph(c, file) ==
  \E vecs, size, off, total :
    /\ Layout(c.data_label_vecs, c.specificity_threshold, vecs, size, off, total)
    /\ file.header /\ file.rows = total /\ file.cols = c.graph_degree
    /\ Len(file.cells) = total * c.graph_degree
    /\ /\ total * c.graph_degree < UintRange
       /\ \A l \in 0..(LabelNumber(c.data_label_vecs) - 1) :
            size[l] # 0 => size[l] > c.graph_degree
       => \A l \in 0..(LabelNumber(c.data_label_vecs) - 1) :
            \A j \in 0..(size[l] - 1), k \in 0..(c.graph_degree - 1) :
              file.cells[(off[l] + j) * c.graph_degree + k + 1] =
                [over |-> vecs[l], row |-> j, col |-> k]

\* While the file is written it holds the beginning of the matrix.
SavingInv ==
  pc = "save" =>
    /\ IF graph_file.header
       THEN graph_file.rows = total_rows["graph"] /\ graph_file.cols = call.graph_degree
       ELSE graph_file.cells = <<>>
    /\ Len(graph_file.cells) <= total_rows["graph"] * call.graph_degree
    /\ \A x \in 1..Len(graph_file.cells) : graph_file.cells[x] = graph[x - 1]

GraphFileInv ==
  /\ pc = "load" => graph_file.exists /\ "graph" \in call.named
  /\ graph_file.exists /\ pc # "save" =>
       \E c \in Calls : "graph" \in c.named /\ SavedGraph(c, graph_file)
  /\ pc \in Joined /\ Fits /\ Wide => \A l \in Labels : Own(l)

GraphCacheInv == SavingInv /\ GraphFileInv

\* What is closed is the whole matrix.
LEMMA ClosedIsSaved ==
  ASSUME IInv, BuildInv, InversionInv, GraphCacheInv, Faultless, SaveClose
  PROVE  \E c \in Calls : "graph" \in c.named /\ SavedGraph(c, graph_file)
<1> DEFINE d == call.graph_degree
           total == total_rows["graph"]
           data == call.data_label_vecs
           cells == graph_file.cells
<1>1. pc = "save" /\ graph_file.header /\ Len(cells) \notin DOMAIN graph
  BY DEF SaveClose, Faultless
<1>2. call \in Calls /\ "graph" \in call.named
  BY <1>1 DEF IInv, TypeOK, BuildInv, PathInv
<1>3. /\ graph_file.rows = total /\ graph_file.cols = d
      /\ Len(cells) <= total * d
      /\ \A x \in 1..Len(cells) : cells[x] = graph[x - 1]
  BY <1>1 DEF GraphCacheInv, SavingInv
<1>4. total \in Nat /\ d \in Nat /\ Len(cells) \in Nat /\ total * d \in Nat
  <2>1. total \in Nat /\ d \in Nat /\ cells \in Seq(GraphCell)
    BY <1>2, CallType DEF IInv, TypeOK, Kind
  <2> QED BY <2>1
<1>5. Len(cells) = total * d
  <2>1. DOMAIN graph = 0..(total * d - 1)
    BY <1>1 DEF IInv, GraphInv, Later, Cells
  <2> QED BY <1>1, <1>3, <1>4, <2>1
<1>6. Layout(data, call.specificity_threshold, label_data_vecs, label_size["graph"],
             label_offset["graph"], total)
  BY <1>1, LoopsLayout DEF Later
<1>7. Labels = 0..(LabelNumber(data) - 1)
  BY <1>1 DEF InversionInv, Labels
<1>8. ASSUME Fits, Wide, NEW l \in Labels, NEW j \in 0..(label_size["graph"][l] - 1),
             NEW k \in 0..(d - 1)
      PROVE  cells[(label_offset["graph"][l] + j) * d + k + 1] =
               [over |-> label_data_vecs[l], row |-> j, col |-> k]
  <2> DEFINE x == (label_offset["graph"][l] + j) * d + k
  <2>1. l < SizedTo
    BY <1>1, LabelTypes DEF SizedTo, IInv
  <2>2. x \in Cells
    BY <1>8, <2>1, OwnElement
  <2>3. graph[x] = [over |-> label_data_vecs[l], row |-> j, col |-> k]
    BY <1>1, <1>8 DEF GraphCacheInv, GraphFileInv, Joined, Own
  <2> HIDE DEF x
  <2>4. x + 1 \in 1..Len(cells) /\ (x + 1) - 1 = x
    BY <1>4, <1>5, <2>2 DEF Cells
  <2>5. cells[x + 1] = graph[x]
    BY <1>3, <2>4
  <2> QED BY <2>3, <2>5 DEF x
<1>9. SavedGraph(call, graph_file)
  <2> DEFINE size == label_size["graph"]
             off == label_offset["graph"]
  <2>1. (total * d < UintRange /\ \A l \in 0..(LabelNumber(data) - 1) :
            size[l] # 0 => size[l] > d)
        => \A l \in 0..(LabelNumber(data) - 1) :
             \A j \in 0..(size[l] - 1), k \in 0..(d - 1) :
               cells[(off[l] + j) * d + k + 1] =
                 [over |-> label_data_vecs[l], row |-> j, col |-> k]
    BY <1>7, <1>8 DEF Fits, Wide
  <2> HIDE DEF size, off, total, d, data, cells
  <2>2. /\ Layout(data, call.specificity_threshold, label_data_vecs, size, off, total)
        /\ graph_file.header /\ graph_file.rows = total /\ graph_file.cols = d
        /\ Len(cells) = total * d
    BY <1>1, <1>3, <1>5, <1>6 DEF size, off
  <2>3. \E vecs, sz, of, tot :
          /\ Layout(data, call.specificity_threshold, vecs, sz, of, tot)
          /\ graph_file.header /\ graph_file.rows = tot /\ graph_file.cols = d
          /\ Len(cells) = tot * d
          /\ (tot * d < UintRange /\ \A l \in 0..(LabelNumber(data) - 1) :
                sz[l] # 0 => sz[l] > d)
             => \A l \in 0..(LabelNumber(data) - 1) :
                  \A j \in 0..(sz[l] - 1), k \in 0..(d - 1) :
                    cells[(of[l] + j) * d + k + 1] = [over |-> vecs[l], row |-> j, col |-> k]
    BY <2>1, <2>2
  <2> QED BY <2>3 DEF SavedGraph, d, data, cells
<1> QED BY <1>2, <1>9

\* What is loaded are the graphs over the rows of the labels.
LEMMA LoadedIsOwn ==
  ASSUME IInv, BuildInv, InversionInv, GraphCacheInv, OneDataset, LoadGraph,
         pc' = "bfs", Fits, Wide, NEW l \in Labels
  PROVE  Own(l)'
<1> DEFINE d == call.graph_degree
           data == call.data_label_vecs
           cells == graph_file.cells
<1>1. /\ pc = "load" /\ UNCHANGED <<call, label_size, label_offset, label_data_vecs>>
      /\ graph' = [x \in Cells |-> IF x < Len(cells) THEN cells[x + 1] ELSE graph[x]]
  BY DEF LoadGraph, meta
<1>2. graph_file.exists /\ "graph" \in call.named /\ call \in Calls
  BY <1>1 DEF GraphCacheInv, GraphFileInv, IInv, TypeOK
<1>3. PICK c \in Calls : "graph" \in c.named /\ SavedGraph(c, graph_file)
  BY <1>1, <1>2 DEF GraphCacheInv, GraphFileInv
<1>4. /\ c.data_label_vecs = data /\ c.graph_degree = d
      /\ c.specificity_threshold = call.specificity_threshold
  BY <1>2, <1>3 DEF OneDataset, Kind
<1>5. PICK vecs, size, off, total :
        /\ Layout(data, call.specificity_threshold, vecs, size, off, total)
        /\ Len(cells) = total * d
        /\ (total * d < UintRange /\ \A m \in 0..(LabelNumber(data) - 1) :
              size[m] # 0 => size[m] > d)
           => \A m \in 0..(LabelNumber(data) - 1) :
                \A j \in 0..(size[m] - 1), k \in 0..(d - 1) :
                  cells[(off[m] + j) * d + k + 1] = [over |-> vecs[m], row |-> j, col |-> k]
  BY <1>3, <1>4 DEF SavedGraph
<1>6. Layout(data, call.specificity_threshold, label_data_vecs, label_size["graph"],
             label_offset["graph"], total_rows["graph"])
  BY <1>1, LoopsLayout DEF Later
<1>7. Labels = 0..(LabelNumber(data) - 1)
  BY <1>1 DEF InversionInv, Labels
<1>8. data \in Seq(Seq(Nat)) /\ LabelNumber(data) \in Nat
  BY <1>2, CallType
<1>9. /\ \A m \in Labels : /\ label_data_vecs[m] = vecs[m]
                           /\ label_size["graph"][m] = size[m]
                           /\ label_offset["graph"][m] = off[m]
      /\ total_rows["graph"] = total
  <2>1. PICK rows, th, vs, sz, of, tot :
          /\ rows = data /\ th = call.specificity_threshold /\ vs = label_data_vecs
          /\ sz = label_size["graph"] /\ of = label_offset["graph"]
          /\ tot = total_rows["graph"]
    OBVIOUS
  <2>2. Layout(rows, th, vs, sz, of, tot)
    BY <1>6, <2>1
  <2>3. Layout(rows, th, vecs, size, off, total)
    BY <1>5, <2>1
  <2>4. rows \in Seq(Seq(Nat)) /\ LabelNumber(rows) \in Nat
    BY <1>8, <2>1
  <2>5. /\ \A m \in 0..(LabelNumber(rows) - 1) :
             vs[m] = vecs[m] /\ sz[m] = size[m] /\ of[m] = off[m]
        /\ tot = total
    BY <2>2, <2>3, <2>4, OneLayout
  <2> QED BY <1>7, <2>1, <2>5
<1>10. \A m \in Labels : \A j \in 0..(size[m] - 1), k \in 0..(d - 1) :
         cells[(off[m] + j) * d + k + 1] = [over |-> vecs[m], row |-> j, col |-> k]
  <2>1. total * d < UintRange /\ \A m \in Labels : size[m] # 0 => size[m] > d
    BY <1>9 DEF Fits, Wide
  <2> QED BY <1>5, <1>7, <2>1
<1>11. ASSUME NEW j \in 0..(label_size["graph"][l] - 1), NEW k \in 0..(d - 1)
       PROVE  graph'[(label_offset["graph"][l] + j) * d + k] =
                [over |-> label_data_vecs[l], row |-> j, col |-> k]
  <2> DEFINE x == (label_offset["graph"][l] + j) * d + k
  <2>1. l < SizedTo
    BY <1>1, LabelTypes DEF SizedTo, IInv
  <2>2. x \in Cells
    BY <2>1, OwnElement
  <2>3. cells[x + 1] = [over |-> label_data_vecs[l], row |-> j, col |-> k]
    BY <1>9, <1>10
  <2> HIDE DEF x
  <2>4. total \in Nat /\ d \in Nat
    BY <1>2, <1>9, CallType DEF IInv, TypeOK, Kind
  <2>5. x < Len(cells)
    BY <1>5, <1>9, <2>2, <2>4 DEF Cells
  <2>6. graph'[x] = cells[x + 1]
    BY <1>1, <2>2, <2>5
  <2> QED BY <2>3, <2>6 DEF x
<1> QED BY <1>1, <1>11 DEF Own

LEMMA GraphCacheStep ==
  ASSUME IInv, BuildInv, InversionInv, GraphCacheInv, Faultless, OneDataset, [Next]_vars
  PROVE  GraphCacheInv'
<1>1. ASSUME graph_file' = graph_file, pc # "save",
             pc' \notin {"load", "save"} \cup Joined
      PROVE  GraphCacheInv'
  BY <1>1 DEF GraphCacheInv, SavingInv, GraphFileInv
<1>2. CASE \/ Call \/ CollectRow \/ Collected \/ SizeLabel \/ Sized \/ MapLabel
  <2>1. /\ graph_file' = graph_file /\ pc # "save"
        /\ pc' \notin {"load", "save"} \cup Joined
    BY <1>2 DEF Call, CollectRow, Collected, SizeLabel, Sized, MapLabel, Joined, files
  <2> QED BY <1>1, <2>1
<1>3. CASE Crash \/ RaiseInLoop \/ RaiseAtLists
  <2>1. /\ graph_file' = graph_file /\ pc # "save"
        /\ pc' \notin {"load", "save"} \cup Joined
    BY <1>3 DEF Crash, RaiseInLoop, RaiseAtLists, Dies, Faultless, Joined, files
  <2> QED BY <1>1, <2>1
<1>4. ASSUME NEW w \in Workers, WorkerTake(w) \/ WorkerCopy(w)
      PROVE  GraphCacheInv'
  <2>1. /\ graph_file' = graph_file /\ pc # "save"
        /\ pc' \notin {"load", "save"} \cup Joined
    BY <1>4 DEF WorkerTake, WorkerCopy, Joined, files
  <2> QED BY <1>1, <2>1
<1>5. ASSUME LaterStep \/ UNCHANGED vars
      PROVE  /\ call' = call /\ Labels' = Labels /\ Fits' = Fits /\ Wide' = Wide
             /\ UNCHANGED <<label_size, label_offset, label_data_vecs, total_rows>>
  <2>1. UNCHANGED <<call, meta>>
    BY <1>5, LaterFrame DEF IInv, vars, meta
  <2> QED BY <2>1 DEF Labels, Fits, Wide, meta
<1>6. ASSUME LaterStep \/ UNCHANGED vars, graph' = graph, NEW l
      PROVE  Own(l)' <=> Own(l)
  BY <1>5, <1>6 DEF Own
<1>7. CASE Mapped
  <2>1. /\ pc = "map" /\ graph_file' = graph_file /\ pc' # "save"
        /\ pc' = IF labels["graph"] = 0 THEN "bfs"
                 ELSE IF Loads("graph") THEN "load" ELSE "parallel"
    BY <1>7 DEF Mapped, files
  <2>2. UNCHANGED <<call, meta>> /\ call' = call /\ Labels' = Labels
        /\ label_size' = label_size
    BY <1>7, <1>5 DEF Mapped, LaterStep
  <2>3. SavingInv'
    BY <2>1 DEF SavingInv
  <2>4. pc' = "load" => graph_file'.exists /\ "graph" \in call'.named
    BY <2>1, <2>2 DEF Loads, HasFile
  <2>5. graph_file'.exists => \E c \in Calls : "graph" \in c.named /\ SavedGraph(c, graph_file')
    BY <2>1 DEF GraphCacheInv, GraphFileInv
  <2>6. ASSUME pc' \in Joined, NEW l \in Labels
        PROVE  Own(l)'
    <3>1. labels["graph"] = 0
      BY <2>1, <2>6 DEF Joined
    <3>2. label_size["graph"][l] = 0
      BY <3>1 DEF IInv, SizesInv, BuildInv, CountsInv, Kind
    <3> QED BY <2>2, <3>2 DEF Own
  <2> QED BY <2>2, <2>3, <2>4, <2>5, <2>6 DEF GraphCacheInv, GraphFileInv
<1>8. CASE LoadGraph
  <2>1. pc = "load" /\ pc' \in {"bfs", "failed"} /\ graph_file' = graph_file
    BY <1>8 DEF LoadGraph, files
  <2>2. SavingInv'
    BY <2>1 DEF SavingInv
  <2>3. ASSUME pc' \in Joined, Fits, Wide, NEW l \in Labels
        PROVE  Own(l)'
    BY <1>8, <2>1, <2>3, LoadedIsOwn DEF Joined
  <2> QED BY <1>5, <1>8, <2>1, <2>2, <2>3 DEF GraphCacheInv, GraphFileInv, LaterStep
<1>9. CASE Join
  <2>1. /\ pc = "parallel" /\ todo = {} /\ \A w \in Workers : worker[w] = None
        /\ graph' = graph /\ graph_file' = graph_file /\ pc' \in {"open", "bfs"}
    BY <1>9 DEF Join, index, files
  <2>2. SavingInv'
    BY <2>1 DEF SavingInv
  <2>3. None \notin Labels
    BY DEF None, Labels
  <2>4. ASSUME Fits, Wide, NEW l \in Labels
        PROVE  Own(l)
    BY <2>1, <2>3, <2>4 DEF BuildInv, OwnInv
  <2> QED BY <1>5, <1>6, <1>9, <2>1, <2>2, <2>4 DEF GraphCacheInv, GraphFileInv, LaterStep
<1>10. CASE SaveOpen
  <2>1. /\ pc = "open" /\ pc' = "save" /\ graph' = graph
        /\ graph_file' = [NoGraphFile EXCEPT !.exists = TRUE]
    BY <1>10 DEF SaveOpen, index, Faultless
  <2>2. graph_file'.header = FALSE /\ graph_file'.cells = <<>>
    BY <2>1 DEF NoGraphFile
  <2>3. total_rows["graph"] \in Nat /\ call.graph_degree \in Nat
    BY CallType DEF IInv, TypeOK, Kind
  <2>4. 0 <= total_rows["graph"] * call.graph_degree
    BY <2>3
  <2>5. Len(graph_file'.cells) = 0 /\ 1..0 = {}
    BY <2>2
  <2>6. SavingInv'
    BY <1>5, <1>10, <2>2, <2>4, <2>5 DEF SavingInv, LaterStep
  <2>7. GraphFileInv'
    BY <1>5, <1>6, <1>10, <2>1 DEF GraphCacheInv, GraphFileInv, LaterStep, Joined
  <2> QED BY <2>6, <2>7 DEF GraphCacheInv
<1>11. CASE SaveWrite
  <2>1. pc = "save" /\ pc' = "save" /\ graph' = graph
    BY <1>11 DEF SaveWrite, index
  <2>2. GraphFileInv'
    BY <1>5, <1>6, <1>11, <2>1 DEF GraphCacheInv, GraphFileInv, LaterStep, Joined
  <2>3. /\ graph_file.cells \in Seq(GraphCell)
        /\ graph_file \in [exists : BOOLEAN, header : BOOLEAN, rows : Nat,
                           cols : Nat, cells : Seq(GraphCell)]
    BY DEF IInv, TypeOK
  <2> DEFINE n == total_rows["graph"] * call.graph_degree
             cells == graph_file.cells
  <2>4. /\ Len(cells) <= n /\ n \in Nat
        /\ \A x \in 1..Len(cells) : cells[x] = graph[x - 1]
    <3>1. total_rows["graph"] \in Nat /\ call.graph_degree \in Nat
      BY CallType DEF IInv, TypeOK, Kind
    <3> QED BY <2>1, <3>1 DEF GraphCacheInv, SavingInv
  <2>5. ASSUME ~graph_file.header
        PROVE  SavingInv'
    <3>1. /\ graph_file'.header /\ graph_file'.rows = total_rows["graph"]
          /\ graph_file'.cols = call.graph_degree /\ graph_file'.cells = cells
      BY <1>11, <2>3, <2>5 DEF SaveWrite
    <3> QED BY <1>5, <1>11, <2>1, <2>4, <3>1 DEF SavingInv, LaterStep
  <2>6. ASSUME graph_file.header
        PROVE  SavingInv'
    <3>1. /\ Len(cells) \in DOMAIN graph
          /\ graph_file'.header = graph_file.header /\ graph_file'.rows = graph_file.rows
          /\ graph_file'.cols = graph_file.cols
          /\ graph_file'.cells = Append(cells, graph[Len(cells)])
      BY <1>11, <2>3, <2>6 DEF SaveWrite
    <3>2. Len(cells) \in 0..(n - 1)
      BY <2>1, <3>1 DEF IInv, GraphInv, Later, Cells
    <3>3. graph_file.rows = total_rows["graph"] /\ graph_file.cols = call.graph_degree
      BY <2>1, <2>6 DEF GraphCacheInv, SavingInv
    <3> DEFINE new == Append(cells, graph[Len(cells)])
    <3> HIDE DEF n
    <3>4. Len(new) <= n
      BY <2>3, <2>4, <3>2
    <3>5. ASSUME NEW x \in 1..Len(new)
          PROVE  new[x] = graph[x - 1]
      <4>1. CASE x \in 1..Len(cells)
        BY <2>3, <2>4, <4>1
      <4>2. CASE x = Len(cells) + 1
        BY <2>3, <4>2
      <4> QED BY <2>3, <4>1, <4>2
    <3> HIDE DEF new
    <3>6. graph_file'.cells = new
      BY <3>1 DEF new
    <3> QED BY <1>5, <1>11, <2>1, <2>6, <3>1, <3>3, <3>4, <3>5, <3>6
            DEF SavingInv, LaterStep, n
  <2> QED BY <2>2, <2>5, <2>6 DEF GraphCacheInv
<1>12. CASE SaveClose
  <2>1. pc = "save" /\ pc' = "bfs" /\ graph' = graph /\ graph_file' = graph_file
    BY <1>12 DEF SaveClose, index, files
  <2>2. \E c \in Calls : "graph" \in c.named /\ SavedGraph(c, graph_file)
    BY <1>12, ClosedIsSaved
  <2>3. SavingInv'
    BY <2>1 DEF SavingInv
  <2>4. GraphFileInv'
    BY <1>5, <1>6, <1>12, <2>1, <2>2 DEF GraphCacheInv, GraphFileInv, LaterStep, Joined
  <2> QED BY <2>3, <2>4 DEF GraphCacheInv
<1>13. ASSUME LaterStep \/ UNCHANGED vars, graph' = graph, graph_file' = graph_file,
              \/ pc' = pc
              \/ pc \in Joined \ {"save"} /\ pc' \in (Joined \ {"save"}) \cup {"failed"}
       PROVE  GraphCacheInv'
  <2>1. SavingInv'
    BY <1>5, <1>13 DEF GraphCacheInv, SavingInv
  <2>2. GraphFileInv'
    BY <1>5, <1>6, <1>13 DEF GraphCacheInv, GraphFileInv, Joined
  <2> QED BY <2>1, <2>2 DEF GraphCacheInv
<1>14. CASE StartBfs \/ KernelDone \/ Serialize \/ SerializeClose
  <2>1. /\ graph' = graph /\ graph_file' = graph_file
        /\ pc \in Joined \ {"save"} /\ pc' \in (Joined \ {"save"}) \cup {"failed"}
    BY <1>14 DEF StartBfs, KernelDone, Serialize, SerializeClose, index, files, Joined
  <2> QED BY <1>13, <1>14, <2>1 DEF LaterStep
<1>15. ASSUME NEW t \in threads, KernelThread(t)
       PROVE  GraphCacheInv'
  <2>1. graph' = graph /\ graph_file' = graph_file /\ pc' = pc
    BY <1>15 DEF KernelThread, files
  <2> QED BY <1>13, <1>15, <2>1 DEF LaterStep
<1>16. CASE UNCHANGED vars
  <2>1. graph' = graph /\ graph_file' = graph_file /\ pc' = pc
    BY <1>16 DEF vars, index, files
  <2> QED BY <1>13, <1>16, <2>1
<1> QED BY <1>2, <1>3, <1>4, <1>7, <1>8, <1>9, <1>10, <1>11, <1>12, <1>14, <1>15, <1>16
        DEF Next, Work

\* Whether its graphs were made or loaded, the index that build() returns has
\* for each row of the graph half its neighbour list in the graph over the rows
\* of its own label (vecflow_build.cuh:159-227): a file that one dataset was
\* saved to is loaded as if it were made again, when nothing fails.
THEOREM GraphsAreOwn ==
  ASSUME Faultless, OneDataset
  PROVE  Spec => [](Fits /\ Wide => GraphIsOwn)
<1>1. Init => GraphCacheInv
  BY DEF Init, GraphCacheInv, SavingInv, GraphFileInv, Joined, NoGraphFile
<1>2. IInv /\ BuildInv /\ InversionInv /\ GraphCacheInv /\ [Next]_vars => GraphCacheInv'
  BY GraphCacheStep
<1>3. ASSUME IInv, GraphCacheInv, Fits, Wide, pc = "ready",
             NEW l \in Labels, NEW j \in 0..(label_size["graph"][l] - 1)
      PROVE  GraphRow(label_offset["graph"][l] + j) =
               [c \in 0..(call.graph_degree - 1) |->
                  [over |-> label_data_vecs[l], row |-> j, col |-> c]]
  <2>1. Own(l)
    BY <1>3 DEF GraphCacheInv, GraphFileInv, Joined
  <2> QED BY <2>1 DEF Own, GraphRow
<1>4. IInv /\ GraphCacheInv => (Fits /\ Wide => GraphIsOwn)
  BY <1>3 DEF GraphIsOwn
<1> QED BY <1>1, <1>2, <1>4, Invariance, BuildInvariance, InversionInvariance, PTL
        DEF Spec

-----------------------------------------------------------------------------
(* The file of the list half.                                              *)

\* A list has as many entries as a label has rows, and each row as often.
FullList(list, rows) ==
  /\ Len(list) = Len(rows)
  /\ \A p : Cardinality({j \in DOMAIN list : list[j] = p}) =
              Cardinality({j \in DOMAIN rows : rows[j] = p})

\* A file holds the lists of a call's dataset.
SavedLists(c, file) ==
  \E vecs : \A l \in 0..(LabelNumber(c.data_label_vecs) - 1) :
    /\ vecs[l] \in Seq(Nat)
    /\ Inverted(c.data_label_vecs, Len(c.data_label_vecs), l, vecs[l])
    /\ ~(Len(vecs[l]) > c.specificity_threshold) =>
         l \in DOMAIN file.lists /\ FullList(file.lists[l], vecs[l])

\* The rare labels have their rows in their lists.
RareListed ==
  \A l \in Labels : HalfOf(l) = "bfs" =>
    l \in DOMAIN lists /\ FullList(lists[l], label_data_vecs[l])

ListsCacheInv ==
  /\ pc \in {"serialize", "write", "ready"} => RareListed
  /\ bfs_file.exists /\ pc # "write" =>
       bfs_file.complete /\ \E c \in Calls : "bfs" \in c.named /\ SavedLists(c, bfs_file)

\* The kernel leaves full lists.
LEMMA KernelLists ==
  ASSUME IInv, ListsInv, KernelDone
  PROVE  RareListed
<1>1. pc = "kernel" /\ threads = {}
  BY DEF KernelDone
<1>2. /\ lists \in [Labels -> Seq(Nat)]
      /\ \A l \in Labels : Filled(l)
  BY <1>1 DEF ListsInv
<1>3. ASSUME NEW l \in Labels, HalfOf(l) = "bfs"
      PROVE  l \in DOMAIN lists /\ FullList(lists[l], label_data_vecs[l])
  <2> DEFINE rows == label_data_vecs[l]
  <2>1. l < SizedTo /\ rows \in Seq(Nat) /\ lists[l] \in Seq(Nat)
    BY <1>1, <1>2, LabelTypes DEF IInv, SizedTo
  <2>2. label_size["bfs"][l] = Len(rows)
    BY <1>3, <2>1 DEF IInv, SizesInv, Kind
  <2>3. Filling(lists[l], rows, label_offset["bfs"][l], Len(rows), {})
    BY <1>1, <1>2, <2>2 DEF Filled
  <2>4. FullList(lists[l], rows)
    BY <2>1, <2>3, FillingEnds DEF FullList
  <2> QED BY <1>2, <2>4
<1> QED BY <1>3 DEF RareListed

\* What is serialized are the lists of the call.
LEMMA SerializedIsSaved ==
  ASSUME IInv, InversionInv, pc = "write", RareListed, NEW file, file.lists = lists
  PROVE  SavedLists(call, file)
<1> DEFINE data == call.data_label_vecs
<1>1. Labels = 0..(LabelNumber(data) - 1) /\ InvertedTo = Len(data)
  BY DEF InversionInv, Labels, InvertedTo
<1>2. ASSUME NEW l \in Labels
      PROVE  /\ label_data_vecs[l] \in Seq(Nat)
             /\ Inverted(data, Len(data), l, label_data_vecs[l])
             /\ ~(Len(label_data_vecs[l]) > call.specificity_threshold) =>
                  l \in DOMAIN file.lists /\ FullList(file.lists[l], label_data_vecs[l])
  BY <1>1, LabelTypes DEF IInv, InversionInv, RareListed, HalfOf, cat_freq
<1>3. \E vecs : \A l \in Labels :
        /\ vecs[l] \in Seq(Nat) /\ Inverted(data, Len(data), l, vecs[l])
        /\ ~(Len(vecs[l]) > call.specificity_threshold) =>
             l \in DOMAIN file.lists /\ FullList(file.lists[l], vecs[l])
  BY <1>2
<1> QED BY <1>1, <1>3 DEF SavedLists

\* What is loaded are lists of the same dataset.
LEMMA LoadedLists ==
  ASSUME IInv, InversionInv, OneDataset, pc \in Later, "bfs" \in call.named,
         NEW c \in Calls, "bfs" \in c.named, SavedLists(c, bfs_file),
         NEW l \in Labels, HalfOf(l) = "bfs"
  PROVE  l \in DOMAIN bfs_file.lists /\ FullList(bfs_file.lists[l], label_data_vecs[l])
<1> DEFINE data == call.data_label_vecs
<1>1. call \in Calls /\ data \in Seq(Seq(Nat)) /\ Len(data) \in Nat
  BY CallType, LabelTypes DEF IInv
<1>2. c.data_label_vecs = data /\ c.specificity_threshold = call.specificity_threshold
  BY <1>1 DEF OneDataset, Kind
<1>3. Labels = 0..(LabelNumber(data) - 1) /\ InvertedTo = Len(data)
  BY DEF InversionInv, Labels, InvertedTo, Later
<1>4. PICK vecs : \A m \in Labels :
        /\ vecs[m] \in Seq(Nat) /\ Inverted(data, Len(data), m, vecs[m])
        /\ ~(Len(vecs[m]) > call.specificity_threshold) =>
             m \in DOMAIN bfs_file.lists /\ FullList(bfs_file.lists[m], vecs[m])
  BY <1>2, <1>3 DEF SavedLists
<1>5. /\ label_data_vecs[l] \in Seq(Nat)
      /\ Inverted(data, Len(data), l, label_data_vecs[l])
  BY <1>3, LabelTypes DEF IInv, InversionInv
<1>6. vecs[l] = label_data_vecs[l]
  <2> DEFINE n == Len(data)
             a == vecs[l]
             b == label_data_vecs[l]
  <2>1. /\ n \in Nat /\ a \in Seq(Nat) /\ b \in Seq(Nat)
        /\ Inverted(data, n, l, a) /\ Inverted(data, n, l, b)
    BY <1>1, <1>4, <1>5
  <2> HIDE DEF n, a, b, data
  <2>2. a = b
    BY <2>1, InvertedOnce
  <2> QED BY <2>2 DEF a, b
<1>7. ~(Len(label_data_vecs[l]) > call.specificity_threshold)
  BY DEF HalfOf, cat_freq
<1> QED BY <1>4, <1>6, <1>7

LEMMA ListsCacheStep ==
  ASSUME IInv, BuildInv, InversionInv, ListsInv, ListsCacheInv,
         Faultless, OneDataset, [Next]_vars
  PROVE  ListsCacheInv'
<1>1. ASSUME bfs_file' = bfs_file, pc # "write",
             pc' \notin {"serialize", "write", "ready"}
      PROVE  ListsCacheInv'
  BY <1>1 DEF ListsCacheInv
<1>2. CASE \/ Call \/ CollectRow \/ Collected \/ SizeLabel \/ Sized \/ MapLabel
           \/ Mapped \/ LoadGraph \/ Join \/ SaveOpen \/ SaveWrite \/ SaveClose
  <2>1. /\ bfs_file' = bfs_file /\ pc # "write"
        /\ pc' \notin {"serialize", "write", "ready"}
    BY <1>2 DEF Call, CollectRow, Collected, SizeLabel, Sized, MapLabel, Mapped,
                LoadGraph, Join, SaveOpen, SaveWrite, SaveClose, files
  <2> QED BY <1>1, <2>1
<1>3. CASE Crash \/ RaiseInLoop \/ RaiseAtLists
  <2>1. /\ bfs_file' = bfs_file /\ pc # "write"
        /\ pc' \notin {"serialize", "write", "ready"}
    BY <1>3 DEF Crash, RaiseInLoop, RaiseAtLists, Dies, Faultless, files
  <2> QED BY <1>1, <2>1
<1>4. ASSUME NEW w \in Workers, WorkerTake(w) \/ WorkerCopy(w)
      PROVE  ListsCacheInv'
  <2>1. /\ bfs_file' = bfs_file /\ pc # "write"
        /\ pc' \notin {"serialize", "write", "ready"}
    BY <1>4 DEF WorkerTake, WorkerCopy, files
  <2> QED BY <1>1, <2>1
<1>5. ASSUME NEW t \in threads, KernelThread(t)
      PROVE  ListsCacheInv'
  <2>1. bfs_file' = bfs_file /\ pc # "write" /\ pc' = "kernel"
    BY <1>5 DEF KernelThread, files
  <2> QED BY <1>1, <2>1
<1>6. ASSUME LaterStep \/ UNCHANGED vars, lists' = lists, RareListed
      PROVE  RareListed'
  <2>1. /\ Labels' = Labels /\ label_data_vecs' = label_data_vecs
        /\ \A l : HalfOf(l)' = HalfOf(l)
    <3>1. UNCHANGED <<call, meta>>
      BY <1>6, LaterFrame DEF IInv, vars, meta
    <3> QED BY <3>1 DEF Labels, HalfOf, cat_freq, meta
  <2> QED BY <1>6, <2>1 DEF RareListed
<1>7. CASE StartBfs
  <2>1. bfs_file' = bfs_file /\ pc = "bfs" /\ pc' \in {"ready", "failed", "kernel"}
    BY <1>7 DEF StartBfs, files
  <2>2. /\ Labels' = Labels /\ label_data_vecs' = label_data_vecs
        /\ \A l : HalfOf(l)' = HalfOf(l)
    <3>1. UNCHANGED <<call, meta>>
      BY <1>7 DEF StartBfs
    <3> QED BY <3>1 DEF Labels, HalfOf, cat_freq, meta
  <2>3. ASSUME pc' = "ready", NEW l \in Labels, HalfOf(l) = "bfs"
        PROVE  l \in DOMAIN lists' /\ FullList(lists'[l], label_data_vecs[l])
    <3>1. labels["bfs"] # 0
      <4>1. l < SizedTo
        BY <2>1, LabelTypes DEF IInv, SizedTo
      <4> QED BY <2>3, <4>1 DEF BuildInv, CountsInv, Kind
    <3>2. Loads("bfs") /\ lists' = bfs_file.lists
      BY <1>7, <2>3, <3>1 DEF StartBfs, NoLists
    <3>3. "bfs" \in call.named /\ bfs_file.exists
      BY <3>2 DEF Loads, HasFile
    <3>4. PICK c \in Calls : "bfs" \in c.named /\ SavedLists(c, bfs_file)
      BY <2>1, <3>3 DEF ListsCacheInv
    <3>5. pc \in Later
      BY <2>1 DEF Later
    <3> QED BY <2>3, <3>2, <3>3, <3>4, <3>5, LoadedLists
  <2> QED BY <2>1, <2>2, <2>3 DEF ListsCacheInv, RareListed
<1>8. CASE KernelDone
  <2>1. /\ bfs_file' = bfs_file /\ pc = "kernel" /\ pc' \in {"serialize", "ready"}
        /\ lists' = lists
    BY <1>8 DEF KernelDone, index, files
  <2> QED BY <1>6, <1>8, <2>1, KernelLists DEF ListsCacheInv, LaterStep
<1>9. CASE Serialize
  <2>1. pc = "serialize" /\ pc' = "write" /\ lists' = lists
    BY <1>9 DEF Serialize, Faultless, index
  <2> QED BY <1>6, <1>9, <2>1 DEF ListsCacheInv, LaterStep
<1>10. CASE SerializeClose
  <2>1. /\ pc = "write" /\ pc' = "ready" /\ lists' = lists
        /\ bfs_file' = [exists |-> TRUE, complete |-> TRUE, lists |-> lists]
    BY <1>10 DEF SerializeClose, Faultless, index
  <2>2. RareListed /\ bfs_file'.complete /\ bfs_file'.lists = lists
    BY <2>1 DEF ListsCacheInv
  <2>3. call \in Calls /\ "bfs" \in call.named
    BY <2>1 DEF IInv, TypeOK, BuildInv, PathInv
  <2>4. SavedLists(call, bfs_file')
    BY <2>1, <2>2, SerializedIsSaved
  <2> QED BY <1>6, <1>10, <2>1, <2>2, <2>3, <2>4 DEF ListsCacheInv, LaterStep
<1>11. CASE UNCHANGED vars
  <2>1. bfs_file' = bfs_file /\ lists' = lists /\ pc' = pc
    BY <1>11 DEF vars, index, files
  <2> QED BY <1>6, <1>11, <2>1 DEF ListsCacheInv
<1> QED BY <1>2, <1>3, <1>4, <1>5, <1>7, <1>8, <1>9, <1>10, <1>11 DEF Next, Work

LEMMA ListsCacheInvariance ==
  ASSUME Faultless, OneDataset
  PROVE  Spec => []ListsCacheInv
<1>1. Init => ListsCacheInv
  BY DEF Init, ListsCacheInv, NoBfsFile
<1>2. IInv /\ BuildInv /\ InversionInv /\ ListsInv /\ ListsCacheInv /\ [Next]_vars
        => ListsCacheInv'
  BY ListsCacheStep
<1> QED BY <1>1, <1>2, Invariance, BuildInvariance, InversionInvariance,
           ListsInvariance, PTL DEF Spec

\* Whether its lists were made or loaded, the index that build() returns has in
\* the list of each rare label the label's rows, each as often as the caller
\* named it (vecflow_build.cuh:229-262), when nothing fails and the file
\* belongs to the dataset.
THEOREM IndexListsAreOwn ==
  ASSUME Faultless, OneDataset
  PROVE  Spec => []ListsAreOwn
<1>1. IInv /\ ListsCacheInv => ListsAreOwn
  <2> SUFFICES ASSUME IInv, ListsCacheInv, pc = "ready", NEW l \in Labels, HalfOf(l) = "bfs"
               PROVE  /\ l \in DOMAIN lists
                      /\ Len(lists[l]) = label_size["bfs"][l]
                      /\ \A p \in 1..Len(call.data_label_vecs) :
                           Cardinality({j \in DOMAIN lists[l] : lists[l][j] = p}) =
                             Cardinality({j \in DOMAIN label_data_vecs[l] :
                                            label_data_vecs[l][j] = p})
    BY DEF ListsAreOwn
  <2>1. l \in DOMAIN lists /\ FullList(lists[l], label_data_vecs[l])
    BY DEF ListsCacheInv, RareListed
  <2>2. l < SizedTo
    BY LabelTypes DEF IInv, SizedTo
  <2>3. label_size["bfs"][l] = Len(label_data_vecs[l])
    BY <2>2 DEF IInv, SizesInv, Kind
  <2> QED BY <2>1, <2>3 DEF FullList
<1> QED BY <1>1, Invariance, ListsCacheInvariance, PTL

-----------------------------------------------------------------------------
(* The places that the classification gives out.                           *)

\* The queries of half k with a place.
Taken(half, placed, k) == {q \in DOMAIN half : placed[q] # None /\ half[q] = k}

\* Each half's places are the numbers up to its counter, one for each query.
Places(half, placed, waiting, counts) ==
  /\ placed \in [DOMAIN half -> Nat \cup {None}]
  /\ counts \in [Kind -> Nat]
  /\ waiting \subseteq DOMAIN half
  /\ \A q \in DOMAIN half : placed[q] = None => q \in waiting
  /\ \A k \in Kind :
       /\ {placed[q] : q \in Taken(half, placed, k)} = 1..counts[k]
       /\ Cardinality(Taken(half, placed, k)) = counts[k]
  /\ \A q, r \in DOMAIN half :
       placed[q] # None /\ placed[q] = placed[r] /\ half[q] = half[r] => q = r

LEMMA PlacesStart ==
  ASSUME NEW n \in Nat, NEW half \in [1..n -> Kind],
         NEW placed, placed = [q \in 1..n |-> None],
         NEW counts, counts = [k \in Kind |-> 0]
  PROVE  Places(half, placed, 1..n, counts)
<1>1. \A k : Taken(half, placed, k) = {}
  BY DEF Taken
<1>2. Cardinality({}) = 0
  BY FS_EmptySet
<1>3. \A k \in Kind : {placed[q] : q \in Taken(half, placed, k)} = 1..counts[k]
  BY <1>1
<1> QED BY <1>1, <1>2, <1>3 DEF Places

\* A thread takes the next place of its half.
LEMMA PlacesTake ==
  ASSUME NEW n \in Nat, NEW half \in [1..n -> Kind], NEW placed, NEW waiting, NEW counts,
         Places(half, placed, waiting, counts),
         NEW q \in waiting, placed[q] = None,
         NEW placed2, placed2 = [placed EXCEPT ![q] = counts[half[q]] + 1],
         NEW counts2, counts2 = [counts EXCEPT ![half[q]] = @ + 1]
  PROVE  Places(half, placed2, waiting, counts2)
<1> DEFINE h == half[q]
<1>1. /\ q \in 1..n /\ h \in Kind /\ counts \in [Kind -> Nat] /\ counts[h] \in Nat
      /\ placed \in [1..n -> Nat \cup {None}] /\ waiting \subseteq 1..n
  BY DEF Places
<1>2. /\ placed2 \in [1..n -> Nat \cup {None}] /\ placed2[q] = counts[h] + 1
      /\ \A r \in 1..n : r # q => placed2[r] = placed[r]
  BY <1>1
<1>3. /\ counts2 \in [Kind -> Nat] /\ counts2[h] = counts[h] + 1
      /\ \A k \in Kind : k # h => counts2[k] = counts[k]
  BY <1>1
<1>4. placed2[q] # None
  BY <1>1, <1>2 DEF None
<1>5. ASSUME NEW k \in Kind, k # h
      PROVE  /\ {placed2[r] : r \in Taken(half, placed2, k)} = 1..counts2[k]
             /\ Cardinality(Taken(half, placed2, k)) = counts2[k]
  <2>1. Taken(half, placed2, k) = Taken(half, placed, k)
    BY <1>1, <1>2, <1>5 DEF Taken
  <2>2. \A r \in Taken(half, placed, k) : placed2[r] = placed[r]
    BY <1>1, <1>2, <1>5 DEF Taken
  <2>3. {placed2[r] : r \in Taken(half, placed, k)} = {placed[r] : r \in Taken(half, placed, k)}
    BY <2>2
  <2> QED BY <1>3, <1>5, <2>1, <2>3 DEF Places
<1>6. /\ {placed2[r] : r \in Taken(half, placed2, h)} = 1..counts2[h]
      /\ Cardinality(Taken(half, placed2, h)) = counts2[h]
  <2> DEFINE T == Taken(half, placed, h)
  <2>1. Taken(half, placed2, h) = T \cup {q} /\ q \notin T /\ T \subseteq 1..n
    BY <1>1, <1>2, <1>4 DEF Taken
  <2>2. {placed[r] : r \in T} = 1..counts[h] /\ Cardinality(T) = counts[h]
    BY <1>1 DEF Places
  <2> HIDE DEF T
  <2>3. IsFiniteSet(T)
    <3>1. 1 \in Int /\ n \in Int
      OBVIOUS
    <3>2. IsFiniteSet(1..n)
      BY <3>1, FS_Interval
    <3> QED BY <2>1, <3>2, FS_Subset
  <2>4. Cardinality(T \cup {q}) = counts[h] + 1
    BY <2>1, <2>2, <2>3, FS_AddElement
  <2>5. \A r \in T : placed2[r] = placed[r]
    BY <1>2, <2>1
  <2>6. {placed2[r] : r \in T \cup {q}} = {placed[r] : r \in T} \cup {counts[h] + 1}
    BY <1>2, <2>5
  <2>7. 1..counts[h] \cup {counts[h] + 1} = 1..(counts[h] + 1)
    BY <1>1
  <2> QED BY <1>3, <2>1, <2>2, <2>4, <2>6, <2>7
<1>7. ASSUME NEW r \in 1..n, r # q, half[r] = h, placed[r] # None
      PROVE  placed2[r] # placed2[q]
  <2>1. r \in Taken(half, placed, h)
    BY <1>7 DEF Taken
  <2>2. placed[r] \in {placed[p] : p \in Taken(half, placed, h)}
    BY <2>1
  <2>3. placed[r] \in 1..counts[h]
    BY <1>1, <2>2 DEF Places
  <2> QED BY <1>1, <1>2, <1>7, <2>3
<1>8. \A r, s \in 1..n :
        placed2[r] # None /\ placed2[r] = placed2[s] /\ half[r] = half[s] => r = s
  <2>1. \A r, s \in 1..n :
          placed[r] # None /\ placed[r] = placed[s] /\ half[r] = half[s] => r = s
    BY DEF Places
  <2> QED BY <1>2, <1>4, <1>7, <2>1
<1>9. \A r \in 1..n : placed2[r] = None => r \in waiting
  BY <1>1, <1>2, <1>4 DEF Places
<1>10. ASSUME NEW k \in Kind
       PROVE  /\ {placed2[r] : r \in Taken(half, placed2, k)} = 1..counts2[k]
              /\ Cardinality(Taken(half, placed2, k)) = counts2[k]
  BY <1>5, <1>6
<1>11. DOMAIN half = 1..n
  OBVIOUS
<1> QED BY <1>1, <1>2, <1>3, <1>8, <1>9, <1>10, <1>11 DEF Places

\* There are no more places than queries.
LEMMA PlacesBound ==
  ASSUME NEW n \in Nat, NEW half \in [1..n -> Kind], NEW placed, NEW waiting, NEW counts,
         Places(half, placed, waiting, counts)
  PROVE  /\ \A k \in Kind : counts[k] \in 0..n
         /\ \A q \in 1..n : placed[q] # None => placed[q] \in 1..counts[half[q]]
<1>1. ASSUME NEW k \in Kind PROVE counts[k] \in 0..n
  <2>1. Taken(half, placed, k) \subseteq 1..n
    BY DEF Taken
  <2>2. IsFiniteSet(1..n) /\ Cardinality(1..n) = n
    BY FS_Interval
  <2>3. Cardinality(Taken(half, placed, k)) <= n
    BY <2>1, <2>2, FS_Subset
  <2> QED BY <2>3 DEF Places
<1>2. ASSUME NEW q \in 1..n, placed[q] # None
      PROVE  placed[q] \in 1..counts[half[q]]
  <2>1. q \in Taken(half, placed, half[q]) /\ half[q] \in Kind
    BY <1>2 DEF Taken
  <2>2. placed[q] \in {placed[p] : p \in Taken(half, placed, half[q])}
    BY <2>1
  <2> QED BY <2>1, <2>2 DEF Places
<1> QED BY <1>1, <1>2

\* What the threads of the classification have written.
Slots(half, asked, placed, waiting, slots) ==
  \A q \in DOMAIN half : q \notin waiting =>
    slots[half[q]][placed[q]] = [query |-> q, vector |-> q, label |-> asked[q]]

SlotType == [query : Nat, vector : Nat, label : Nat]

\* The temporary arrays have room for all queries.
SlotArrays(n, slots) ==
  slots \in [Kind -> Seq(SlotType)] /\ \A k \in Kind : Len(slots[k]) = n

LEMMA PlacesWrite ==
  ASSUME NEW half, NEW placed, NEW waiting, NEW counts,
         Places(half, placed, waiting, counts), NEW q, placed[q] # None
  PROVE  Places(half, placed, waiting \ {q}, counts)
BY DEF Places

\* What the thread of query q changes.
Written(half, asked, placed, slots, slots2, q) ==
  slots2 = [slots EXCEPT ![half[q]][placed[q]] =
              [query |-> q, vector |-> q, label |-> asked[q]]]

\* A thread writes at its own place.
LEMMA SlotsWrite ==
  ASSUME NEW n \in Nat, NEW half \in [1..n -> Kind], NEW asked \in [1..n -> Nat],
         NEW placed, NEW waiting, NEW counts, NEW slots, NEW slots2, NEW q \in waiting,
         Places(half, placed, waiting, counts), Slots(half, asked, placed, waiting, slots),
         SlotArrays(n, slots), placed[q] # None,
         Written(half, asked, placed, slots, slots2, q)
  PROVE  Slots(half, asked, placed, waiting \ {q}, slots2) /\ SlotArrays(n, slots2)
<1> DEFINE h == half[q]
           p == placed[q]
           entry == [query |-> q, vector |-> q, label |-> asked[q]]
<1>1. q \in 1..n /\ h \in Kind /\ waiting \subseteq 1..n /\ entry \in SlotType
  <2>1. waiting \subseteq 1..n
    BY DEF Places
  <2>2. q \in Nat /\ asked[q] \in Nat
    BY <2>1
  <2> QED BY <2>1, <2>2 DEF SlotType
<1>2. p \in 1..n /\ \A r \in 1..n : placed[r] # None => placed[r] \in 1..n
  <2>1. ASSUME NEW r \in 1..n, placed[r] # None
        PROVE  placed[r] \in 1..n
    <3>1. half[r] \in Kind
      OBVIOUS
    <3>2. counts[half[r]] \in 0..n /\ placed[r] \in 1..counts[half[r]]
      BY <2>1, <3>1, PlacesBound
    <3> QED BY <3>2
  <2> QED BY <1>1, <2>1
<1> HIDE DEF entry
<1>3. slots \in [Kind -> Seq(SlotType)]
  BY DEF SlotArrays
<1>4. slots[h] \in Seq(SlotType) /\ Len(slots[h]) = n
  BY <1>1 DEF SlotArrays
<1> DEFINE row == [slots[h] EXCEPT ![p] = entry]
<1>5. /\ row \in Seq(SlotType) /\ Len(row) = n /\ row[p] = entry
      /\ \A j \in 1..n : j # p => row[j] = slots[h][j]
  BY <1>1, <1>2, <1>4
<1>6. slots2 = [slots EXCEPT ![h] = row]
  BY DEF entry, Written
<1> HIDE DEF row
<1>7. /\ slots2 \in [Kind -> Seq(SlotType)] /\ slots2[h] = row
      /\ \A k \in Kind : k # h => slots2[k] = slots[k]
  <2>1. slots \in [Kind -> Seq(SlotType)] /\ h \in Kind /\ row \in Seq(SlotType)
    BY <1>1, <1>3, <1>5
  <2> HIDE DEF h
  <2> QED BY <1>6, <2>1
<1>8. \A k \in Kind : Len(slots2[k]) = n
  BY <1>5, <1>7 DEF SlotArrays
<1>9. ASSUME NEW r \in 1..n, r \notin waiting \ {q}
      PROVE  slots2[half[r]][placed[r]] = [query |-> r, vector |-> r, label |-> asked[r]]
  <2>1. CASE r = q
    BY <1>5, <1>7, <2>1 DEF entry
  <2>2. CASE r # q
    <3>1. /\ slots[half[r]][placed[r]] = [query |-> r, vector |-> r, label |-> asked[r]]
          /\ half[r] \in Kind /\ placed[r] # None /\ placed[r] \in 1..n
      BY <1>2, <1>9, <2>2 DEF Slots, Places
    <3>2. half[r] = h => placed[r] # p
      BY <1>1, <2>2 DEF Places
    <3> QED BY <1>5, <1>7, <3>1, <3>2
  <2> QED BY <2>1, <2>2
<1> QED BY <1>7, <1>8, <1>9 DEF Slots, SlotArrays

\* The used part of the temporary arrays holds what was written.
LEMMA SlotsKept ==
  ASSUME NEW n \in Nat, NEW half \in [1..n -> Kind], NEW placed, NEW counts,
         NEW asked, NEW slots, SlotArrays(n, slots),
         Places(half, placed, {}, counts), Slots(half, asked, placed, {}, slots),
         NEW slots2, slots2 = [k \in Kind |-> SubSeq(slots[k], 1, counts[k])]
  PROVE  Slots(half, asked, placed, {}, slots2)
<1>1. ASSUME NEW q \in 1..n
      PROVE  slots2[half[q]][placed[q]] = slots[half[q]][placed[q]]
  <2> DEFINE k == half[q]
             p == placed[q]
  <2>1. k \in Kind /\ slots[k] \in Seq(SlotType) /\ Len(slots[k]) = n
    BY <1>1 DEF SlotArrays
  <2>2. counts[k] \in 0..n
    BY <2>1, PlacesBound
  <2>3. p \in 1..counts[k]
    BY <1>1, PlacesBound DEF Places
  <2> HIDE DEF k, p
  <2>4. slots2[k] = SubSeq(slots[k], 1, counts[k])
    BY <2>1
  <2> QED BY <2>1, <2>2, <2>3, <2>4 DEF k, p
<1> QED BY <1>1 DEF Slots

\* Each place that was given out is the place of a query.
LEMMA PlaceTaken ==
  ASSUME NEW half, NEW placed, NEW waiting, NEW counts,
         Places(half, placed, waiting, counts), NEW k \in Kind, NEW p \in 1..counts[k]
  PROVE  \E q \in DOMAIN half : placed[q] = p /\ half[q] = k
<1>1. p \in {placed[q] : q \in Taken(half, placed, k)}
  BY DEF Places
<1> QED BY <1>1 DEF Taken

-----------------------------------------------------------------------------
(* The invariant of the search.                                            *)

\* The half that each query of the batch belongs to.
Half == [q \in S!Queries |-> S!HalfFor(q)]

\* What query q is to be answered.
OwnAnswer(q) == [vector |-> q, over |-> S!Over(S!HalfFor(q), query_labels[q])]

\* The search of half k has found the answers of its queries.
HalfFound(k) ==
  \A q \in S!Queries : S!HalfFor(q) = k => found[k][place[q]] = OwnAnswer(q)

\* There is room for an answer to each query.
AnswerArray == answer = [q \in S!Queries |-> answer[q]]

\* Queries whose answer has been scattered have their own.
MergeInv ==
  /\ AnswerArray
  /\ \A u \in unmerged : \E k \in Kind : \E p \in 1..count[k] : u = <<k, p>>
  /\ \A q \in S!Queries :
       <<S!HalfFor(q), place[q]>> \notin unmerged => answer[q] = OwnAnswer(q)

BatchInv ==
  /\ query_labels \in Seq(Nat) /\ query_labels \in Requests
  /\ \A q \in S!Queries : query_labels[q] \in Labels
  /\ Places(Half, place, unwritten, count)
  /\ Slots(Half, query_labels, place, unwritten, slot)
  /\ at # "classify" => unwritten = {}
  /\ DOMAIN found = Kind

SearchInv ==
  /\ at \in {"idle", "classify", "graph", "bfs", "merge", "done", "raised"}
  /\ pc # "ready" => at = "idle"
  /\ at = "idle" => query_labels = <<>>
  /\ at # "idle" => BatchInv
  /\ at = "classify" => SlotArrays(Len(query_labels), slot) /\ AnswerArray
  /\ at \in {"graph", "bfs"} => AnswerArray
  /\ at \in {"bfs", "merge"} => HalfFound("graph")
  /\ at = "merge" => HalfFound("bfs")
  /\ at \in {"merge", "done"} => MergeInv
  /\ at = "done" => unmerged = {}

LEMMA HalfTypes ==
  /\ \A q : S!HalfFor(q) \in Kind
  /\ Half \in [S!Queries -> Kind]
<1>1. \A q : S!HalfFor(q) \in Kind
  BY DEF S!HalfFor, Kind
<1> QED BY <1>1 DEF Half

\* The search leaves the index alone.
LEMMA SameIndex ==
  ASSUME UNCHANGED vars
  PROVE  /\ Index' = Index /\ Labels' = Labels /\ pc' = pc
         /\ \A l : S!IsGraph(l)' <=> S!IsGraph(l)
         /\ \A k, l : S!Over(k, l)' = S!Over(k, l)
<1>1. Index' = Index /\ Labels' = Labels /\ pc' = pc
  BY DEF vars, meta, index, Index, Labels, GraphRow, cat_freq
<1>2. \A l : S!IsGraph(l)' <=> S!IsGraph(l)
  BY <1>1 DEF S!IsGraph
<1>3. \A l : S!OverGraph(l)' = S!OverGraph(l) /\ S!OverList(l)' = S!OverList(l)
  BY <1>1 DEF S!OverGraph, S!OverList
<1> QED BY <1>1, <1>2, <1>3 DEF S!Over

LEMMA SameBatch ==
  ASSUME UNCHANGED vars, query_labels' = query_labels
  PROVE  /\ S!Queries' = S!Queries /\ Half' = Half
         /\ \A q : S!HalfFor(q)' = S!HalfFor(q) /\ OwnAnswer(q)' = OwnAnswer(q)
<1>1. S!Queries' = S!Queries
  BY DEF S!Queries
<1>2. \A q : S!HalfFor(q)' = S!HalfFor(q)
  BY SameIndex DEF S!HalfFor
<1>3. \A q : OwnAnswer(q)' = OwnAnswer(q)
  BY <1>2, SameIndex DEF OwnAnswer
<1> QED BY <1>1, <1>2, <1>3 DEF Half

LEMMA BuildingStep ==
  ASSUME SearchInv, Building
  PROVE  SearchInv'
<1>1. at' = "idle" /\ query_labels' = <<>>
  <2>1. CASE pc = "ready"
    BY <2>1 DEF Building, S!Forget
  <2>2. CASE pc # "ready"
    BY <2>2 DEF Building, SearchInv, batchVars
  <2> QED BY <2>1, <2>2
<1> QED BY <1>1 DEF SearchInv

LEMMA SearchStep ==
  ASSUME SearchInv, pc = "ready", UNCHANGED vars, S!Search
  PROVE  SearchInv'
<1>1. /\ at' = "classify" /\ pc' = "ready" /\ Labels' = Labels
      /\ query_labels' \in Requests /\ query_labels' \in Seq(Nat)
  BY SameIndex, RequestsAssumption DEF S!Search
<1>2. PICK n \in Nat : n = Len(query_labels') /\ S!Queries' = 1..n
  BY <1>1 DEF S!Queries
<1>3. PICK half : half = Half'
  OBVIOUS
<1>4. half \in [1..n -> Kind]
  <2>1. \A q : S!HalfFor(q)' \in Kind
    BY DEF S!HalfFor, Kind
  <2> QED BY <1>2, <1>3, <2>1 DEF Half
<1>5. /\ place' = [q \in 1..n |-> None] /\ unwritten' = 1..n
      /\ count' = [k \in Kind |-> 0]
      /\ slot' = [k \in Kind |-> [p \in 1..n |-> S!NoSlot]]
      /\ answer' = [q \in 1..n |-> S!Unanswered] /\ DOMAIN found' = Kind
  BY <1>2 DEF S!Search, S!None, None, S!Kind, Kind, S!Threads
<1>6. \A q \in S!Queries' : query_labels'[q] \in Labels'
  BY <1>1 DEF S!Search, Index
<1>7. Places(half, place', unwritten', count')
  <2>1. PICK pl, un, ct : pl = place' /\ un = unwritten' /\ ct = count'
    OBVIOUS
  <2>2. Places(half, pl, un, ct)
    BY <1>4, <1>5, <2>1, PlacesStart
  <2> QED BY <2>1, <2>2
<1>8. Slots(half, query_labels', place', unwritten', slot')
  BY <1>4, <1>5 DEF Slots
<1>9. SlotArrays(n, slot')
  <2>1. S!NoSlot \in SlotType
    BY DEF S!NoSlot, SlotType
  <2>2. \A k \in Kind : slot'[k] \in Seq(SlotType) /\ Len(slot'[k]) = n
    BY <1>5, <2>1
  <2> QED BY <1>5, <2>2 DEF SlotArrays
<1>10. BatchInv'
  BY <1>1, <1>2, <1>3, <1>5, <1>6, <1>7, <1>8 DEF BatchInv
<1> QED BY <1>1, <1>2, <1>5, <1>9, <1>10 DEF AnswerArray, SearchInv

\* The parts of the state that classification works on.
LEMMA BatchTypes ==
  ASSUME BatchInv
  PROVE  \E n \in Nat : /\ n = Len(query_labels) /\ S!Queries = 1..n
                        /\ Half \in [1..n -> Kind] /\ query_labels \in [1..n -> Nat]
<1>1. query_labels \in Seq(Nat) /\ S!Queries = DOMAIN query_labels
  BY DEF BatchInv, S!Queries
<1>2. Len(query_labels) \in Nat /\ S!Queries = 1..Len(query_labels)
  BY <1>1
<1>3. query_labels \in [1..Len(query_labels) -> Nat]
  BY <1>1
<1> QED BY <1>2, <1>3, HalfTypes

LEMMA ClassifyAddStep ==
  ASSUME SearchInv, pc = "ready", UNCHANGED vars, NEW q \in S!Queries, S!ClassifyAdd(q)
  PROVE  SearchInv'
<1>1. /\ at = "classify" /\ q \in unwritten /\ place[q] = None /\ BatchInv
      /\ place' = [place EXCEPT ![q] = count[S!HalfFor(q)] + 1]
      /\ count' = [count EXCEPT ![S!HalfFor(q)] = @ + 1]
      /\ UNCHANGED <<at, query_labels, unwritten, slot, found, answer>>
  BY DEF S!ClassifyAdd, SearchInv, S!None, None
<1>2. PICK n \in Nat : /\ n = Len(query_labels) /\ S!Queries = 1..n
                       /\ Half \in [1..n -> Kind]
  BY <1>1, BatchTypes
<1>3. S!Queries' = S!Queries /\ Half' = Half /\ Labels' = Labels /\ pc' = pc
  BY <1>1, SameBatch, SameIndex
<1>4. Half[q] = S!HalfFor(q)
  BY DEF Half
<1>5. Places(Half', place', unwritten', count')
  <2>1. PICK half, pl, un, ct, pl2, ct2 :
          /\ half = Half /\ pl = place /\ un = unwritten /\ ct = count
          /\ pl2 = place' /\ ct2 = count'
    OBVIOUS
  <2>2. half \in [1..n -> Kind] /\ Places(half, pl, un, ct)
    BY <1>1, <1>2, <2>1 DEF BatchInv
  <2>3. /\ q \in un /\ pl[q] = None
        /\ pl2 = [pl EXCEPT ![q] = ct[half[q]] + 1]
        /\ ct2 = [ct EXCEPT ![half[q]] = @ + 1]
    BY <1>1, <1>4, <2>1
  <2>4. Places(half, pl2, un, ct2)
    BY <2>2, <2>3, PlacesTake
  <2> QED BY <1>1, <1>3, <2>1, <2>4
<1>6. Slots(Half', query_labels', place', unwritten', slot')
  <2>1. \A r \in DOMAIN Half : r \notin unwritten => place'[r] = place[r]
    BY <1>1, <1>2 DEF BatchInv, Places
  <2> QED BY <1>1, <1>3, <2>1 DEF BatchInv, Slots
<1>7. BatchInv'
  BY <1>1, <1>3, <1>5, <1>6 DEF BatchInv
<1> QED BY <1>1, <1>3, <1>7 DEF AnswerArray, SearchInv

LEMMA ClassifyWriteStep ==
  ASSUME SearchInv, pc = "ready", UNCHANGED vars, NEW q \in S!Queries, S!ClassifyWrite(q)
  PROVE  SearchInv'
<1>1. /\ at = "classify" /\ q \in unwritten /\ place[q] # None /\ BatchInv
      /\ slot' = [slot EXCEPT ![S!HalfFor(q)][place[q]] =
                    [query |-> q, vector |-> q, label |-> query_labels[q]]]
      /\ unwritten' = unwritten \ {q}
      /\ UNCHANGED <<at, query_labels, place, count, found, answer>>
  BY DEF S!ClassifyWrite, SearchInv, S!None, None
<1>2. PICK n \in Nat : /\ n = Len(query_labels) /\ S!Queries = 1..n
                       /\ Half \in [1..n -> Kind] /\ query_labels \in [1..n -> Nat]
  BY <1>1, BatchTypes
<1>3. S!Queries' = S!Queries /\ Half' = Half /\ Labels' = Labels /\ pc' = pc
  BY <1>1, SameBatch, SameIndex
<1>4. Half[q] = S!HalfFor(q)
  BY DEF Half
<1>5. PICK half, asked, pl, un, ct, sl, un2, sl2 :
        /\ half = Half /\ asked = query_labels /\ pl = place /\ un = unwritten
        /\ ct = count /\ sl = slot /\ un2 = unwritten' /\ sl2 = slot'
  OBVIOUS
<1>6. /\ half \in [1..n -> Kind] /\ asked \in [1..n -> Nat]
      /\ Places(half, pl, un, ct) /\ Slots(half, asked, pl, un, sl)
      /\ SlotArrays(n, sl)
  BY <1>1, <1>2, <1>5 DEF BatchInv, SearchInv
<1>7. /\ q \in un /\ pl[q] # None /\ un2 = un \ {q}
      /\ sl2 = [sl EXCEPT ![half[q]][pl[q]] =
                  [query |-> q, vector |-> q, label |-> asked[q]]]
  BY <1>1, <1>4, <1>5
<1>8. /\ Places(half, pl, un2, ct) /\ Slots(half, asked, pl, un2, sl2)
      /\ SlotArrays(n, sl2)
  <2>1. q \in un /\ pl[q] # None /\ Written(half, asked, pl, sl, sl2, q)
    BY <1>7 DEF Written
  <2>2. Places(half, pl, un \ {q}, ct)
    BY <1>6, <2>1, PlacesWrite
  <2>3. Slots(half, asked, pl, un \ {q}, sl2) /\ SlotArrays(n, sl2)
    BY <1>6, <2>1, SlotsWrite
  <2> QED BY <1>7, <2>2, <2>3
<1>9. BatchInv'
  BY <1>1, <1>3, <1>5, <1>8 DEF BatchInv
<1> QED BY <1>1, <1>2, <1>3, <1>5, <1>8, <1>9 DEF AnswerArray, SearchInv

LEMMA ClassifiedStep ==
  ASSUME SearchInv, pc = "ready", UNCHANGED vars, S!Classified
  PROVE  SearchInv'
<1>1. /\ at = "classify" /\ unwritten = {} /\ BatchInv /\ at' = "graph"
      /\ slot' = [k \in Kind |-> SubSeq(slot[k], 1, count[k])]
      /\ UNCHANGED <<query_labels, place, unwritten, count, found, answer>>
  BY DEF S!Classified, SearchInv, S!Kind, Kind
<1>2. PICK n \in Nat : /\ n = Len(query_labels) /\ S!Queries = 1..n
                       /\ Half \in [1..n -> Kind] /\ query_labels \in [1..n -> Nat]
  BY <1>1, BatchTypes
<1>3. S!Queries' = S!Queries /\ Half' = Half /\ Labels' = Labels /\ pc' = pc
  BY <1>1, SameBatch, SameIndex
<1>4. PICK half, asked, pl, ct, sl, sl2 :
        /\ half = Half /\ asked = query_labels /\ pl = place
        /\ ct = count /\ sl = slot /\ sl2 = slot'
  OBVIOUS
<1>5. /\ half \in [1..n -> Kind]
      /\ Places(half, pl, {}, ct) /\ Slots(half, asked, pl, {}, sl)
      /\ SlotArrays(n, sl)
      /\ sl2 = [k \in Kind |-> SubSeq(sl[k], 1, ct[k])]
  BY <1>1, <1>2, <1>4 DEF BatchInv, SearchInv
<1>6. Slots(half, asked, pl, {}, sl2)
  BY <1>5, SlotsKept
<1>7. BatchInv'
  BY <1>1, <1>3, <1>4, <1>6 DEF BatchInv
<1> QED BY <1>1, <1>3, <1>7 DEF AnswerArray, SearchInv

\* The batch once it is classified.
LEMMA BatchKept ==
  ASSUME BatchInv, at # "classify", UNCHANGED vars, DOMAIN found' = Kind,
         UNCHANGED <<query_labels, place, unwritten, count, slot>>
  PROVE  /\ BatchInv'
         /\ \A k \in Kind : found'[k] = found[k] /\ HalfFound(k) => HalfFound(k)'
<1>1. /\ S!Queries' = S!Queries /\ Half' = Half /\ Labels' = Labels
      /\ \A q : S!HalfFor(q)' = S!HalfFor(q) /\ OwnAnswer(q)' = OwnAnswer(q)
  BY SameBatch, SameIndex
<1>2. BatchInv'
  BY <1>1 DEF BatchInv
<1>3. ASSUME NEW k \in Kind, found'[k] = found[k], HalfFound(k)
      PROVE  HalfFound(k)'
  BY <1>1, <1>3 DEF HalfFound
<1> QED BY <1>2, <1>3

\* Every query has its own slot, at a place that is searched.
LEMMA OwnSlot ==
  ASSUME BatchInv, at # "classify", NEW q \in S!Queries
  PROVE  /\ S!HalfFor(q) \in Kind /\ Half[q] = S!HalfFor(q)
         /\ place[q] \in 1..count[S!HalfFor(q)]
         /\ slot[S!HalfFor(q)][place[q]] =
              [query |-> q, vector |-> q, label |-> query_labels[q]]
<1>1. PICK n \in Nat : S!Queries = 1..n /\ Half \in [1..n -> Kind]
  BY BatchTypes
<1>2. S!HalfFor(q) \in Kind /\ Half[q] = S!HalfFor(q)
  BY HalfTypes DEF Half
<1>3. PICK half, asked, pl, un, ct, sl :
        /\ half = Half /\ asked = query_labels /\ pl = place /\ un = unwritten
        /\ ct = count /\ sl = slot
  OBVIOUS
<1>4. /\ half \in [1..n -> Kind] /\ Places(half, pl, un, ct)
      /\ Slots(half, asked, pl, un, sl) /\ un = {} /\ q \in 1..n
  BY <1>1, <1>3 DEF BatchInv
<1>5. pl[q] # None /\ sl[half[q]][pl[q]] = [query |-> q, vector |-> q, label |-> asked[q]]
  BY <1>4 DEF Places, Slots
<1>6. pl[q] \in 1..ct[half[q]]
  BY <1>4, <1>5, PlacesBound
<1> QED BY <1>2, <1>3, <1>5, <1>6

LEMMA HalfSearched ==
  ASSUME BatchInv, at # "classify", UNCHANGED vars, NEW k \in Kind,
         UNCHANGED <<query_labels, place>>,
         count[k] # 0 =>
           found'[k] = [p \in 1..count[k] |-> [vector |-> slot[k][p].vector,
                                               over |-> S!Over(k, slot[k][p].label)]]
  PROVE  HalfFound(k)'
<1>1. /\ S!Queries' = S!Queries
      /\ \A q : S!HalfFor(q)' = S!HalfFor(q) /\ OwnAnswer(q)' = OwnAnswer(q)
  BY SameBatch
<1>2. ASSUME NEW q \in S!Queries, S!HalfFor(q) = k
      PROVE  found'[k][place[q]] = OwnAnswer(q)
  <2>1. /\ place[q] \in 1..count[k]
        /\ slot[k][place[q]] = [query |-> q, vector |-> q, label |-> query_labels[q]]
    BY <1>2, OwnSlot
  <2>2. count[k] # 0
    BY <2>1
  <2>3. found'[k][place[q]] = [vector |-> slot[k][place[q]].vector,
                               over |-> S!Over(k, slot[k][place[q]].label)]
    BY <2>1, <2>2
  <2>4. slot[k][place[q]].vector = q /\ slot[k][place[q]].label = query_labels[q]
    BY <2>1
  <2> QED BY <1>2, <2>3, <2>4 DEF OwnAnswer
<1> QED BY <1>1, <1>2 DEF HalfFound

LEMMA SearchHalfStep ==
  ASSUME SearchInv, pc = "ready", UNCHANGED vars, NEW k \in Kind, NEW next \in {"bfs", "merge"},
         S!SearchHalf(k, next)
  PROVE  /\ at = k /\ at' \in {next, "raised"} /\ BatchInv /\ BatchInv' /\ pc' = pc
         /\ S!Queries' = S!Queries /\ UNCHANGED <<answer, place, count, query_labels>>
         /\ at' = next => HalfFound(k)'
         /\ \A h \in Kind \ {k} : HalfFound(h) => HalfFound(h)'
<1>1. /\ at = k /\ at \in {"graph", "bfs"} /\ BatchInv
      /\ UNCHANGED <<query_labels, place, unwritten, count, slot, answer>>
  BY DEF S!SearchHalf, SearchInv, S!batch, Kind
<1>2. /\ at' \in {next, "raised"} /\ DOMAIN found' = Kind
      /\ \A h \in Kind \ {k} : found'[h] = found[h]
      /\ at' = next /\ count[k] # 0 =>
           found'[k] = [p \in 1..count[k] |-> [vector |-> slot[k][p].vector,
                                               over |-> S!Over(k, slot[k][p].label)]]
  <2>1. count[k] \in Nat /\ DOMAIN found = Kind
    BY <1>1 DEF BatchInv, Places
  <2>2. CASE count[k] = 0
    BY <2>1, <2>2 DEF S!SearchHalf
  <2>3. CASE count[k] > 0 /\ ~last_error
    BY <2>1, <2>3 DEF S!SearchHalf
  <2>4. CASE count[k] > 0 /\ last_error
    BY <2>1, <2>4 DEF S!SearchHalf
  <2> QED BY <2>1, <2>2, <2>3, <2>4
<1>3. BatchInv' /\ \A h \in Kind \ {k} : HalfFound(h) => HalfFound(h)'
  BY <1>1, <1>2, BatchKept
<1>4. at' = next => HalfFound(k)'
  BY <1>1, <1>2, HalfSearched
<1> QED BY <1>1, <1>2, <1>3, <1>4, SameBatch, SameIndex

LEMMA SearchGraphStep ==
  ASSUME SearchInv, pc = "ready", UNCHANGED vars, S!SearchGraph
  PROVE  SearchInv'
<1>1. S!SearchHalf("graph", "bfs")
  BY DEF S!SearchGraph
<1>2. /\ at = "graph" /\ at' \in {"bfs", "raised"} /\ BatchInv' /\ pc' = pc
      /\ S!Queries' = S!Queries /\ answer' = answer
      /\ at' = "bfs" => HalfFound("graph")'
  BY <1>1, SearchHalfStep DEF Kind
<1>3. AnswerArray
  BY <1>2 DEF SearchInv
<1> QED BY <1>2, <1>3 DEF AnswerArray, SearchInv

LEMMA SearchListsStep ==
  ASSUME SearchInv, pc = "ready", UNCHANGED vars, S!SearchLists
  PROVE  SearchInv'
<1>1. S!SearchHalf("bfs", "merge")
  BY DEF S!SearchLists
<1>2. /\ at = "bfs" /\ at' \in {"merge", "raised"} /\ BatchInv /\ BatchInv' /\ pc' = pc
      /\ S!Queries' = S!Queries /\ UNCHANGED <<answer, place, count, query_labels>>
      /\ at' = "merge" => HalfFound("bfs")'
      /\ HalfFound("graph") => HalfFound("graph")'
  BY <1>1, SearchHalfStep DEF Kind
<1>3. AnswerArray /\ HalfFound("graph")
  BY <1>2 DEF SearchInv
<1>4. ASSUME at' = "merge" PROVE MergeInv'
  <2>1. unmerged' = UNION {{k} \X (1..count[k]) : k \in Kind}
    BY <1>4 DEF S!SearchLists, S!Kind, Kind
  <2>2. \A u \in unmerged' : \E k \in Kind : \E p \in 1..count[k] : u = <<k, p>>
    BY <2>1
  <2>3. ASSUME NEW q \in S!Queries
        PROVE  <<S!HalfFor(q), place[q]>> \in unmerged'
    <3>1. S!HalfFor(q) \in Kind /\ place[q] \in 1..count[S!HalfFor(q)]
      BY <1>2, <2>3, OwnSlot
    <3> QED BY <2>1, <3>1
  <2>4. \A q \in S!Queries : <<S!HalfFor(q)', place'[q]>> \in unmerged'
    BY <1>2, <2>3, SameBatch
  <2> QED BY <1>2, <1>3, <2>2, <2>4 DEF AnswerArray, MergeInv
<1> QED BY <1>2, <1>3, <1>4 DEF SearchInv

LEMMA MergeStep ==
  ASSUME SearchInv, pc = "ready", UNCHANGED vars, NEW k \in Kind, NEW p, S!Merge(k, p)
  PROVE  SearchInv'
<1>1. /\ at = "merge" /\ at' = "merge" /\ <<k, p>> \in unmerged
      /\ answer' = [answer EXCEPT ![slot[k][p].query] = found[k][p]]
      /\ unmerged' = unmerged \ {<<k, p>>}
      /\ UNCHANGED <<query_labels, place, unwritten, count, slot, found>>
  BY DEF S!Merge, S!MergedTo, S!batch
<1>2. BatchInv /\ MergeInv /\ HalfFound("graph") /\ HalfFound("bfs") /\ HalfFound(k)
  BY <1>1 DEF SearchInv, Kind
<1>3. /\ S!Queries' = S!Queries /\ pc' = pc
      /\ \A q : S!HalfFor(q)' = S!HalfFor(q) /\ OwnAnswer(q)' = OwnAnswer(q)
  BY <1>1, SameBatch, SameIndex
<1>4. BatchInv' /\ HalfFound("graph")' /\ HalfFound("bfs")'
  <2>1. DOMAIN found' = Kind
    BY <1>1, <1>2 DEF BatchInv
  <2> QED BY <1>1, <1>2, <2>1, BatchKept DEF Kind
<1>5. p \in 1..count[k]
  <2>1. PICK h \in Kind : \E r \in 1..count[h] : <<k, p>> = <<h, r>>
    BY <1>1, <1>2 DEF MergeInv
  <2> QED BY <2>1
<1>6. PICK q \in S!Queries : place[q] = p /\ S!HalfFor(q) = k
  <2>1. PICK half, pl, un, ct : half = Half /\ pl = place /\ un = unwritten /\ ct = count
    OBVIOUS
  <2>2. Places(half, pl, un, ct) /\ DOMAIN half = S!Queries /\ p \in 1..ct[k]
    BY <1>2, <1>5, <2>1 DEF BatchInv, Half
  <2>3. \E q \in DOMAIN half : pl[q] = p /\ half[q] = k
    BY <2>2, PlaceTaken
  <2> QED BY <2>1, <2>2, <2>3 DEF Half
<1>7. slot[k][p].query = q /\ found[k][p] = OwnAnswer(q)
  <2>1. slot[k][p] = [query |-> q, vector |-> q, label |-> query_labels[q]]
    BY <1>1, <1>2, <1>6, OwnSlot
  <2> QED BY <1>2, <1>6, <2>1 DEF HalfFound
<1>8. answer' = [answer EXCEPT ![q] = OwnAnswer(q)]
  BY <1>1, <1>7
<1>9. ASSUME NEW r \in S!Queries, <<S!HalfFor(r), place[r]>> \notin unmerged'
      PROVE  answer'[r] = OwnAnswer(r)
  <2>1. CASE r = q
    BY <1>2, <1>8, <2>1 DEF AnswerArray, MergeInv
  <2>2. CASE r # q
    <3>1. ~(S!HalfFor(r) = k /\ place[r] = p)
      <4>1. Half[r] = S!HalfFor(r) /\ Half[q] = k /\ place[q] # None
        <5>1. Half[r] = S!HalfFor(r) /\ Half[q] = k
          BY <1>6 DEF Half
        <5>2. count[k] \in Nat
          BY <1>2 DEF BatchInv, Places
        <5> QED BY <1>5, <1>6, <5>1, <5>2 DEF None
      <4>2. DOMAIN Half = S!Queries
        BY DEF Half
      <4> QED BY <1>2, <1>6, <2>2, <4>1, <4>2 DEF BatchInv, Places
    <3>2. <<S!HalfFor(r), place[r]>> # <<k, p>>
      BY <3>1
    <3>3. <<S!HalfFor(r), place[r]>> \notin unmerged
      BY <1>1, <1>9, <3>2
    <3>4. answer[r] = OwnAnswer(r)
      BY <1>2, <3>3 DEF MergeInv
    <3> QED BY <1>8, <2>2, <3>4
  <2> QED BY <2>1, <2>2
<1>10. MergeInv'
  BY <1>1, <1>2, <1>3, <1>8, <1>9 DEF AnswerArray, MergeInv
<1> QED BY <1>1, <1>3, <1>4, <1>10 DEF SearchInv

LEMMA MergedStep ==
  ASSUME SearchInv, pc = "ready", UNCHANGED vars, S!Merged
  PROVE  SearchInv'
<1>1. /\ at = "merge" /\ at' = "done" /\ unmerged = {} /\ unmerged' = {}
      /\ UNCHANGED <<query_labels, place, unwritten, count, slot, found, answer>>
  BY DEF S!Merged, S!batch
<1>2. BatchInv /\ MergeInv
  BY <1>1 DEF SearchInv
<1>3. /\ S!Queries' = S!Queries /\ pc' = pc
      /\ \A q : S!HalfFor(q)' = S!HalfFor(q) /\ OwnAnswer(q)' = OwnAnswer(q)
  BY <1>1, SameBatch, SameIndex
<1>4. BatchInv'
  <2>1. DOMAIN found' = Kind
    BY <1>1, <1>2 DEF BatchInv
  <2> QED BY <1>1, <1>2, <2>1, BatchKept
<1>5. MergeInv'
  BY <1>1, <1>2, <1>3 DEF AnswerArray, MergeInv
<1> QED BY <1>1, <1>3, <1>4, <1>5 DEF SearchInv

LEMMA SearchStutter ==
  ASSUME SearchInv, UNCHANGED <<vars, sVars>>
  PROVE  SearchInv'
<1>1. /\ S!Queries' = S!Queries /\ Half' = Half /\ pc' = pc /\ Labels' = Labels
      /\ \A q : S!HalfFor(q)' = S!HalfFor(q) /\ OwnAnswer(q)' = OwnAnswer(q)
  BY SameBatch, SameIndex DEF sVars, batchVars
<1>2. BatchInv => BatchInv'
  BY <1>1 DEF BatchInv, sVars, batchVars
<1>3. \A k \in Kind : HalfFound(k) => HalfFound(k)'
  BY <1>1 DEF HalfFound, sVars, batchVars
<1>4. MergeInv => MergeInv'
  BY <1>1 DEF AnswerArray, MergeInv, sVars, batchVars
<1> QED BY <1>1, <1>2, <1>3, <1>4 DEF AnswerArray, SearchInv, sVars, batchVars, Kind

LEMMA SearchInvariance == VecFlowSpec => []SearchInv
<1>1. VecFlowInit => SearchInv
  BY DEF VecFlowInit, Init, S!SearchInit, SearchInv
<1>2. ASSUME SearchInv, Searching
      PROVE  SearchInv'
  <2>1. pc = "ready" /\ UNCHANGED vars /\ S!SearchNext
    BY <1>2 DEF Searching
  <2> QED BY <1>2, <2>1, SearchStep, ClassifyAddStep, ClassifyWriteStep, ClassifiedStep,
             SearchGraphStep, SearchListsStep, MergeStep, MergedStep
          DEF S!SearchNext, S!Kind, Kind
<1>3. SearchInv /\ [VecFlowNext]_<<vars, sVars, dataset>> => SearchInv'
  BY <1>2, BuildingStep, SearchStutter DEF VecFlowNext
<1> QED BY <1>1, <1>3, PTL DEF VecFlowSpec

\* While the classification runs, and whatever labels the batch has, the
\* places of each half are the numbers up to its counter, one for each query
\* that has one: no two threads write the same slot (vecflow_common.cuh:88-104).
THEOREM PlacesAreExclusive == VecFlowSpec => []PlacesExclusive
<1>1. SearchInv => PlacesExclusive
  <2> SUFFICES ASSUME SearchInv, at = "classify", NEW k \in Kind
               PROVE  LET taken == {q \in S!Queries : place[q] # None /\ S!HalfFor(q) = k}
                      IN  /\ {place[q] : q \in taken} = 1..count[k]
                          /\ Cardinality(taken) = count[k]
    BY DEF PlacesExclusive
  <2> DEFINE taken == {q \in S!Queries : place[q] # None /\ S!HalfFor(q) = k}
  <2>1. taken = Taken(Half, place, k)
    BY DEF Taken, Half
  <2>2. Places(Half, place, unwritten, count)
    BY DEF SearchInv, BatchInv
  <2> QED BY <2>1, <2>2 DEF Places
<1> QED BY <1>1, SearchInvariance, PTL

-----------------------------------------------------------------------------
(* VecFlow keeps its promise.                                              *)

\* A threshold is not changed when a frequency is compared with it.
ThresholdsFit == \A c \in Calls : c.specificity_threshold \in 0..(UintRange - 1)

LEMMA BuildGoesOn == VecFlowSpec => Spec
<1>1. VecFlowInit => Init
  BY DEF VecFlowInit
<1>2. [VecFlowNext]_<<vars, sVars, dataset>> => [Next]_vars
  BY DEF VecFlowNext, Building, BuildingWith, Next, Searching
<1> QED BY <1>1, <1>2, PTL DEF VecFlowSpec, Spec

\* The rows collected for a label are the rows that carry it.
LEMMA RowsOfLabel ==
  ASSUME IInv, pc = "ready", NEW l \in Labels
  PROVE  RowsOf(l) = {label_data_vecs[l][j] : j \in 1..Len(label_data_vecs[l])}
<1> DEFINE rows == label_data_vecs[l]
<1>1. DOMAIN call.data_label_vecs = 1..Len(call.data_label_vecs)
  BY CallType, LabelTypes DEF IInv
<1>2. RowsOf(l) = {p \in 1..Len(call.data_label_vecs) : Carries(p, l)}
  BY <1>1 DEF RowsOf, Carries
<1>3. /\ \A j \in 1..Len(rows) :
           rows[j] \in 1..Len(call.data_label_vecs) /\ Carries(rows[j], l)
      /\ \A p \in 1..Len(call.data_label_vecs) : Carries(p, l) =>
           \E j \in 1..Len(rows) : rows[j] = p
  BY DEF IInv, InvertedInv, InvertedTo
<1> QED BY <1>2, <1>3

\* The search sends a label to the half that the build has filed it in.
LEMMA SameHalf ==
  ASSUME IInv, ThresholdsFit, NEW l \in Labels
  PROVE  S!IsGraph(l) <=> HalfOf(l) = "graph"
<1>1. /\ call \in Calls /\ call.specificity_threshold \in 0..(UintRange - 1)
      /\ UintRange \in Nat \ {0}
  BY LabelTypes, BoundsAssumption DEF IInv, ThresholdsFit
<1>2. call.specificity_threshold % UintRange = call.specificity_threshold
  BY <1>1, NoWrap
<1>3. Index.cat_freq[l] = cat_freq(l)
        /\ Index.specificity_threshold = call.specificity_threshold
  BY DEF Index
<1> QED BY <1>2, <1>3 DEF S!IsGraph, HalfOf

\* A graph over a label's own rows is searched for all of them.
LEMMA GraphIsRight ==
  ASSUME IInv, GraphIsOwn, pc = "ready", NEW l \in Labels, HalfOf(l) = "graph"
  PROVE  S!OverGraph(l) = RowsOf(l)
<1> DEFINE rows == label_data_vecs[l]
           off == label_offset["graph"][l]
           size == label_size["graph"][l]
           map == index_map["graph"]
           total == total_rows["graph"]
<1>1. /\ SizedTo = label_number /\ MappedTo = label_number /\ l < label_number
      /\ "graph" \in Kind /\ rows \in Seq(Nat) /\ off \in Nat /\ size \in Nat
      /\ total \in Nat /\ map \in Seq(Nat)
  BY LabelTypes DEF IInv, SizedTo, MappedTo, TypeOK, Kind
<1>2. size = Len(rows) /\ off + size <= total /\ Len(map) = total
  <2>1. size = Len(rows) /\ off + size <= total
    BY <1>1, RegionEnds DEF IInv, SizesInv
  <2>2. Len(map) = total
    BY <1>1 DEF IInv, OffsetsInv, MapsInv
  <2> QED BY <2>1, <2>2
<1>3. \A j \in 1..size : map[off + j] = rows[j]
  BY <1>1 DEF IInv, MapsInv
<1>4. SubSeq(map, off + 1, off + size) = rows
  <2> HIDE DEF rows, off, size, map, total
  <2> DEFINE region == SubSeq(map, off + 1, off + size)
  <2>1. region \in Seq(Nat) /\ Len(region) = size
    BY <1>1, <1>2
  <2>2. \A j \in 1..size : region[j] = rows[j]
    BY <1>1, <1>2, <1>3
  <2> HIDE DEF region
  <2>3. region = [j \in 1..size |-> region[j]] /\ rows = [j \in 1..size |-> rows[j]]
    BY <1>1, <1>2, <2>1
  <2>4. region = rows
    BY <2>2, <2>3
  <2> QED BY <2>4 DEF region
<1>5. \A j \in 1..size : /\ off + j - 1 \in 0..(total - 1)
                         /\ GraphRow(off + j - 1) =
                              [c \in 0..(call.graph_degree - 1) |->
                                 [over |-> rows, row |-> j - 1, col |-> c]]
  <2>1. ASSUME NEW j \in 1..size
        PROVE  GraphRow(off + j - 1) =
                 [c \in 0..(call.graph_degree - 1) |->
                    [over |-> rows, row |-> j - 1, col |-> c]]
    <3>1. j - 1 \in 0..(size - 1) /\ off + (j - 1) = off + j - 1
      BY <1>1
    <3> QED BY <3>1 DEF GraphIsOwn
  <2>2. ASSUME NEW j \in 1..size
        PROVE  off + j - 1 \in 0..(total - 1)
    <3>1. j \in Nat /\ 1 <= j /\ j <= size
      BY <1>1
    <3> HIDE DEF off, size, total
    <3> QED BY <1>1, <1>2, <3>1
  <2> QED BY <2>1, <2>2
<1>6. /\ Index.label_offset[l] = off /\ Index.graph_size[l] = size
      /\ Index.index_map = map
      /\ \A r \in 0..(total - 1) : Index.graph_row[r] = GraphRow(r)
  BY DEF Index
<1>7. DOMAIN rows = 1..size
  BY <1>1, <1>2
<1>8. \A j \in DOMAIN rows : \A c \in DOMAIN Index.graph_row[off + j - 1] :
        Index.graph_row[off + j - 1][c] = [over |-> rows, row |-> j - 1, col |-> c]
  <2>1. ASSUME NEW j \in DOMAIN rows
        PROVE  \A c \in DOMAIN Index.graph_row[off + j - 1] :
                 Index.graph_row[off + j - 1][c] = [over |-> rows, row |-> j - 1, col |-> c]
    <3> DEFINE r == off + j - 1
               line == [c \in 0..(call.graph_degree - 1) |->
                          [over |-> rows, row |-> j - 1, col |-> c]]
    <3>1. r \in 0..(total - 1) /\ GraphRow(r) = line
      BY <1>5, <1>7
    <3>2. Index.graph_row[r] = line
      BY <1>6, <3>1
    <3>3. \A c \in DOMAIN line : line[c] = [over |-> rows, row |-> j - 1, col |-> c]
      OBVIOUS
    <3> HIDE DEF line, r
    <3>4. \A c \in DOMAIN Index.graph_row[r] :
            Index.graph_row[r][c] = [over |-> rows, row |-> j - 1, col |-> c]
      BY <3>2, <3>3
    <3> QED BY <3>4 DEF r
  <2> QED BY <2>1
<1>9. S!OverGraph(l) = {rows[j] : j \in DOMAIN rows}
  <2> DEFINE Good(j) == \A c \in DOMAIN Index.graph_row[off + j - 1] :
                          Index.graph_row[off + j - 1][c] =
                            [over |-> rows, row |-> j - 1, col |-> c]
  <2>1. S!OverGraph(l) = {rows[j] : j \in {n \in DOMAIN rows : Good(n)}}
    <3>1. Index.label_offset[l] = off /\ Index.graph_size[l] = size
      BY <1>6
    <3>2. SubSeq(Index.index_map, off + 1, off + size) = rows
      BY <1>4, <1>6
    <3> HIDE DEF rows, off, size
    <3> QED BY <3>1, <3>2 DEF S!OverGraph
  <2>2. \A j \in DOMAIN rows : Good(j)
    BY <1>8
  <2> HIDE DEF Good, rows
  <2>3. {n \in DOMAIN rows : Good(n)} = DOMAIN rows
    BY <2>2
  <2> QED BY <2>1, <2>3
<1> QED BY <1>2, <1>7, <1>9, RowsOfLabel

\* A full list is searched for all rows of its label.
LEMMA ListIsRight ==
  ASSUME IInv, ListsCacheInv, pc = "ready", NEW l \in Labels, HalfOf(l) = "bfs"
  PROVE  S!OverList(l) = RowsOf(l)
<1> DEFINE rows == label_data_vecs[l]
           list == lists[l]
           n == Len(rows)
<1>1. l \in DOMAIN lists /\ FullList(list, rows)
  BY DEF ListsCacheInv, RareListed
<1>2. /\ SizedTo = label_number /\ l < label_number /\ "bfs" \in Kind
      /\ rows \in Seq(Nat) /\ n \in Nat /\ list \in Seq(Nat)
  BY <1>1, LabelTypes DEF IInv, SizedTo, TypeOK, Kind
<1>3. label_size["bfs"][l] = n
  BY <1>2 DEF IInv, SizesInv
<1>4. Len(list) = n /\ DOMAIN list = 1..n /\ DOMAIN rows = 1..n
  BY <1>1, <1>2 DEF FullList
<1> DEFINE InList(p) == {j \in 1..n : list[j] = p}
           InRows(p) == {j \in 1..n : rows[j] = p}
<1>5. \A p : Cardinality(InList(p)) = Cardinality(InRows(p))
  BY <1>1, <1>4 DEF FullList
<1>6. \A p : InList(p) = {} <=> InRows(p) = {}
  <2>1. ASSUME NEW p PROVE InList(p) = {} <=> InRows(p) = {}
    <3>1. InList(p) \subseteq 1..n /\ InRows(p) \subseteq 1..n
      OBVIOUS
    <3>2. Cardinality(InList(p)) = Cardinality(InRows(p))
      BY <1>5
    <3> HIDE DEF InList, InRows
    <3> DEFINE all == 1..n
    <3>3. IsFiniteSet(all)
      BY <1>2, FS_Interval
    <3>4. InList(p) \subseteq all /\ InRows(p) \subseteq all
      BY <3>1
    <3> HIDE DEF all
    <3>5. IsFiniteSet(InList(p)) /\ IsFiniteSet(InRows(p))
      BY <3>3, <3>4, FS_Subset
    <3> QED BY <3>2, <3>5, FS_EmptySet
  <2> QED BY <2>1
<1>7. {list[j] : j \in 1..n} = {rows[j] : j \in 1..n}
  <2>1. \A p : p \in {list[j] : j \in 1..n} <=> InList(p) # {}
    OBVIOUS
  <2>2. \A p : p \in {rows[j] : j \in 1..n} <=> InRows(p) # {}
    OBVIOUS
  <2> HIDE DEF InList, InRows
  <2>3. \A p : p \in {list[j] : j \in 1..n} <=> p \in {rows[j] : j \in 1..n}
    BY <1>6, <2>1, <2>2
  <2> QED BY <2>3
<1>8. Index.lists = lists /\ Index.bfs_size[l] = n
  BY <1>3 DEF Index
<1>9. S!OverList(l) = {list[j] : j \in 1..n}
  BY <1>8 DEF S!OverList
<1> QED BY <1>7, <1>9, RowsOfLabel

LEMMA LabelZero ==
  ASSUME IInv, InversionInv, pc = "ready"
  PROVE  0 \in Labels
<1>1. call \in Calls
  BY LabelTypes DEF IInv
<1>2. LabelNumber(call.data_label_vecs) - 1 \in Nat
  BY <1>1, CallType, LargestLabelAssumption
<1>3. Labels = 0..(LabelNumber(call.data_label_vecs) - 1)
  BY DEF InversionInv, Labels
<1> QED BY <1>2, <1>3

\* What FilteredSearch sees of the state.
Served   == IF pc = "ready" THEN [l \in Labels |-> RowsOf(l)] ELSE <<>>
Answered == IF at = "done" THEN answer ELSE <<>>

\* A dataset that is served has a label.
SomeServed == pc = "ready" => Served # <<>>

LEMMA ServedSome == IInv /\ InversionInv => SomeServed
<1> SUFFICES ASSUME IInv, InversionInv, pc = "ready" PROVE Served # <<>>
  BY DEF SomeServed
<1>1. 0 \in DOMAIN Served
  BY LabelZero DEF Served
<1>2. 0 \notin DOMAIN <<>>
  OBVIOUS
<1> QED BY <1>1, <1>2

LEMMA LeavesReady ==
  ASSUME pc = "ready", Next
  PROVE  pc' # "ready"
BY DEF Next, Work, Call, CollectRow, Collected, SizeLabel, Sized, MapLabel, Mapped, LoadGraph,
       WorkerTake, WorkerCopy, Join, SaveOpen, SaveWrite, SaveClose, StartBfs,
       KernelThread, KernelDone, Serialize, SerializeClose, RaiseInLoop,
       RaiseAtLists, Dies, Crash

LEMMA PromiseInit == VecFlowInit => Promise!Init
BY DEF VecFlowInit, Init, S!SearchInit, Promise!Init

\* A build that ends withdraws one dataset, or serves the next.
LEMMA PromiseBuilding ==
  ASSUME SomeServed, SomeServed', SearchInv, Building
  PROVE  [Promise!Next]_(Promise!vars)
<1>1. CASE pc = "ready"
  <2>1. Served # <<>>
    BY <1>1 DEF SomeServed
  <2>2. pc' # "ready" /\ at' = "idle" /\ query_labels' = <<>>
    <3>1. Next
      BY DEF Building, BuildingWith, Next
    <3> QED BY <1>1, <3>1, LeavesReady DEF Building, S!Forget
  <2>3. Served' = <<>> /\ Answered' = <<>>
    BY <2>2 DEF Served, Answered
  <2>4. Promise!Load
    BY <2>1, <2>2, <2>3 DEF Promise!Load, Served, Answered
  <2> QED BY <2>4 DEF Promise!Next
<1>2. CASE pc # "ready"
  <2>1. /\ at = "idle" /\ query_labels = <<>> /\ at' = "idle" /\ query_labels' = <<>>
    BY <1>2 DEF Building, SearchInv, batchVars
  <2>2. Served = <<>> /\ Answered = <<>> /\ Answered' = <<>>
    BY <1>2, <2>1 DEF Served, Answered
  <2>3. CASE pc' = "ready"
    <3>1. Served' # <<>>
      BY <2>3 DEF SomeServed
    <3>2. Promise!Load
      BY <2>1, <2>2, <3>1 DEF Promise!Load, Served, Answered
    <3> QED BY <3>2 DEF Promise!Next
  <2>4. CASE pc' # "ready"
    <3>1. Served' = <<>>
      BY <2>4 DEF Served
    <3> QED BY <2>1, <2>2, <3>1 DEF Promise!vars, Served, Answered
  <2> QED BY <2>3, <2>4
<1> QED BY <1>1, <1>2

\* What the search is to answer is what FilteredSearch promises.
LEMMA OwnIsPromised ==
  ASSUME IInv, ListsCacheInv, GraphIsOwn, ThresholdsFit, pc = "ready",
         BatchInv, NEW q \in S!Queries
  PROVE  OwnAnswer(q) = [vector |-> q, over |-> RowsOf(query_labels[q])]
<1> DEFINE l == query_labels[q]
<1>1. l \in Labels
  BY DEF BatchInv
<1>2. S!Over(S!HalfFor(q), l) = RowsOf(l)
  <2> HIDE DEF l
  <2>1. HalfOf(l) \in Kind
    BY HalfType
  <2>2. CASE HalfOf(l) = "graph"
    <3>1. S!HalfFor(q) = "graph"
      BY <1>1, <2>2, SameHalf DEF S!HalfFor, l
    <3> QED BY <1>1, <2>2, <3>1, GraphIsRight DEF S!Over
  <2>3. CASE HalfOf(l) = "bfs"
    <3>1. S!HalfFor(q) = "bfs"
      BY <1>1, <2>3, SameHalf DEF S!HalfFor, l
    <3> QED BY <1>1, <2>3, <3>1, ListIsRight DEF S!Over
  <2> QED BY <2>1, <2>2, <2>3 DEF Kind
<1> QED BY <1>2 DEF OwnAnswer

LEMMA PromiseSearching ==
  ASSUME IInv, ListsCacheInv, GraphIsOwn, ThresholdsFit, SomeServed, SearchInv,
         Searching
  PROVE  [Promise!Next]_(Promise!vars)
<1>1. pc = "ready" /\ UNCHANGED vars /\ S!SearchNext
  BY DEF Searching
<1>2. Served' = Served
  BY <1>1 DEF Served, vars, meta, Labels, RowsOf
<1>3. CASE S!Search
  <2>1. /\ query_labels' \in Requests /\ Answered' = <<>>
    BY <1>3 DEF S!Search, Answered
  <2>2. Promise!Ask
    BY <1>1, <1>2, <2>1 DEF Promise!Ask, SomeServed, Served, Answered
  <2> QED BY <2>2 DEF Promise!Next
<1>4. CASE S!Merged
  <2>1. /\ at = "merge" /\ at' = "done" /\ unmerged = {}
        /\ UNCHANGED <<answer, query_labels>>
    BY <1>4 DEF S!Merged, S!batch
  <2>2. BatchInv /\ MergeInv
    BY <2>1 DEF SearchInv
  <2>3. /\ AnswerArray
        /\ \A q \in S!Queries : answer[q] = OwnAnswer(q)
    BY <2>1, <2>2 DEF MergeInv
  <2>4. \A q \in S!Queries :
          /\ OwnAnswer(q) = [vector |-> q, over |-> RowsOf(query_labels[q])]
          /\ query_labels[q] \in Labels
    BY <1>1, <2>2, OwnIsPromised DEF BatchInv
  <2>5. answer = [q \in S!Queries |-> [vector |-> q, over |-> Served[query_labels[q]]]]
    <3>1. answer = [q \in S!Queries |-> answer[q]]
      BY <2>3 DEF AnswerArray
    <3>2. \A q \in S!Queries :
            answer[q] = [vector |-> q, over |-> Served[query_labels[q]]]
      BY <1>1, <2>3, <2>4 DEF Served
    <3> QED BY <3>1, <3>2
  <2>6. Answered' = answer /\ S!Queries = DOMAIN query_labels
    BY <2>1 DEF Answered, S!Queries
  <2>7. Promise!Answer
    BY <1>2, <2>1, <2>5, <2>6 DEF Promise!Answer, Served, Answered
  <2> QED BY <2>7 DEF Promise!Next
<1>5. ASSUME at # "done", at' # "done", query_labels' = query_labels
      PROVE  [Promise!Next]_(Promise!vars)
  <2>1. Answered = <<>> /\ Answered' = <<>>
    BY <1>5 DEF Answered
  <2> QED BY <1>2, <1>5, <2>1 DEF Promise!vars, Served, Answered
<1>6. CASE (\E q \in S!Queries : S!ClassifyAdd(q) \/ S!ClassifyWrite(q)) \/ S!Classified
  BY <1>5, <1>6 DEF S!ClassifyAdd, S!ClassifyWrite, S!Classified
<1>7. CASE S!SearchGraph \/ S!SearchLists
  BY <1>5, <1>7 DEF S!SearchGraph, S!SearchLists, S!SearchHalf, S!batch
<1>8. CASE \E k \in S!Kind, p \in 1..Len(query_labels) : S!Merge(k, p)
  BY <1>5, <1>8 DEF S!Merge, S!batch
<1> QED BY <1>1, <1>3, <1>4, <1>6, <1>7, <1>8 DEF S!SearchNext

\* After any builds and loads of the index, a batch of queries is answered as
\* FilteredSearch promises: each query once, at its own place, from the rows of
\* its label, in whatever order the threads of the classification and merge
\* kernels run (vecflow_search.cuh:53-107); when nothing fails, a file belongs
\* to one dataset, the matrix fits, labels of the graph half have more rows
\* than a row of the graph has columns, and thresholds are not negative.
THEOREM KeepsPromise ==
  ASSUME Faultless, OneDataset, ThresholdsFit
  PROVE  VecFlowSpec /\ [](Fits /\ Wide) => Implements
<1> DEFINE I == /\ IInv /\ ListsCacheInv /\ SomeServed /\ SearchInv
                /\ (Fits /\ Wide => GraphIsOwn) /\ (Fits /\ Wide)
<1>1. I /\ I' /\ [VecFlowNext]_<<vars, sVars, dataset>> => [Promise!Next]_(Promise!vars)
  <2>1. ASSUME I, UNCHANGED <<vars, sVars, dataset>>
        PROVE  UNCHANGED Promise!vars
    BY <2>1 DEF Promise!vars, vars, meta, sVars, batchVars, Labels, RowsOf
  <2> QED BY <2>1, PromiseBuilding, PromiseSearching DEF VecFlowNext
<1>2. IInv /\ InversionInv => SomeServed
  BY ServedSome
<1> HIDE DEF I
<1>3. VecFlowSpec /\ [](Fits /\ Wide) => []I
  BY <1>2, BuildGoesOn, Invariance, InversionInvariance, ListsCacheInvariance, GraphsAreOwn,
     SearchInvariance, PTL DEF I
<1> QED BY <1>1, <1>3, PromiseInit, PTL DEF VecFlowSpec, Implements, Promise!Spec
=============================================================================
