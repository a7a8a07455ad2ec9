---------------------------- MODULE VecFlowBuild ----------------------------
(***************************************************************************)
(* vecflow::build: cpp/src/neighbors/vecflow/vecflow_build.cuh.            *)
(*                                                                         *)
(* The rows of a dataset carry labels.  The build makes one index per      *)
(* label, all of the same kind in one container: a label with many rows    *)
(* gets a graph, whose rows are a region of one host matrix, and a label   *)
(* with few rows a list that is scanned.  The graphs are built by OpenMP   *)
(* threads and the lists are filled by the threads of a kernel.  Either    *)
(* half may be loaded from a file of an earlier build instead, and is      *)
(* saved to it otherwise.                                                  *)
(*                                                                         *)
(* A neighbour list is abstracted to what it was computed for: a cell of   *)
(* the graph matrix names the rows the graph was built over and its place  *)
(* in that graph.  Rows of the dataset are numbered from one.              *)
(***************************************************************************)
EXTENDS Integers, Sequences, FiniteSets, FiniteSetsExt

CONSTANTS
  Workers,    \* threads of the parallel loop
  Calls,      \* the calls of build() that are made, see CallsAssumption
  MaxCalls,   \* bound: calls of build() in a behaviour
  UintRange,  \* 2^32, what uint32_t arithmetic wraps at
  Faults      \* "crash": the process may die; "disk": the disk may be full;
              \* "cuda": an error of an earlier CUDA call may be pending

Kind == {"graph", "bfs"}

\* The kinds in "named" are those the caller gives a file name for.
ASSUME CallsAssumption ==
  \A c \in Calls :
    /\ c.data_label_vecs \in Seq(Seq(Nat))
    /\ c.specificity_threshold \in Int
    /\ c.graph_degree \in Nat \ {0}
    /\ c.named \in SUBSET Kind
    /\ c.force_rebuild \in BOOLEAN

ASSUME BoundsAssumption ==
  /\ Calls # {}
  /\ MaxCalls \in Nat
  /\ UintRange \in Nat \ {0}
  /\ Faults \subseteq {"crash", "disk", "cuda"}

None == -1

VARIABLES
  pc,                \* where build() is, "idle" when no process is in it
  call,              \* the arguments of build()
  calls,             \* calls made so far
  i,                 \* index of the current loop
  label_number,
  label_data_vecs,   \* label -> its rows
  label_size,        \* kind -> label -> rows of the label in that half
  label_offset,      \* kind -> label -> first row of the label in that half
  total_rows,        \* kind -> rows of that half
  labels,            \* kind -> number of labels in that half
  index_map,         \* kind -> the dataset row of each row of that half
  todo,              \* labels no thread of the parallel loop has taken yet
  worker,            \* thread -> the label whose graph it builds
  graph,             \* host_final_graph, row after row
  threads,           \* threads of the kernel that have not run yet
  lists,             \* label -> the rows in its list
  graph_file,
  bfs_file

meta  == <<label_number, label_data_vecs, label_size, label_offset,
           total_rows, labels, index_map>>
index == <<graph, lists>>
files == <<graph_file, bfs_file>>
vars  == <<pc, call, calls, i, meta, todo, worker, threads, index, files>>

-----------------------------------------------------------------------------
(* Values *)

\* Fresh memory of the host matrix, and what is read past the end of a graph.
Blank    == [over |-> <<>>, row |-> 0, col |-> 0]
OverRead == [over |-> <<>>, row |-> 1, col |-> 0]

NoGraphFile == [exists |-> FALSE, header |-> FALSE, rows |-> 0, cols |-> 0,
                cells |-> <<>>]
NoBfsFile   == [exists |-> FALSE, complete |-> FALSE, lists |-> <<>>]

\* The memory of a process that has not called build().
NoCall   == CHOOSE c \in Calls : TRUE
NoLabels == [k \in Kind |-> <<>>]
NoRows   == [k \in Kind |-> 0]

Labels == 0..(label_number - 1)

max_label(vecs) ==
  Max({0} \cup UNION {{vecs[p][j] : j \in DOMAIN vecs[p]} : p \in DOMAIN vecs})

\* A dataset has finitely many labels, so that one is the largest.
ASSUME LargestLabelAssumption ==
  \A c \in Calls : max_label(c.data_label_vecs) \in Nat

\* The arrays per label end with the largest label that is used.
LabelNumberShort(vecs)  == max_label(vecs)       \* mutant: off by one
LabelNumber(vecs)       == max_label(vecs) + 1

\* The label frequencies are counted in the loop that collects the rows.
cat_freq(l) == Len(label_data_vecs[l])

HalfOf(l) ==
  IF cat_freq(l) > call.specificity_threshold THEN "graph" ELSE "bfs"

\* The offset of a label in a half: the rows the half has so far.
NextOffsetOfLists(k)  == total_rows["bfs"]       \* mutant: copied from the other half
NextOffset(k)         == total_rows[k]

\* The graph that cagra::build makes over n rows has fewer columns than asked
\* for when there are not enough rows.
BuiltDegree(n) ==
  LET intermediate == IF 2 * call.graph_degree >= n THEN n - 1
                                                   ELSE 2 * call.graph_degree
  IN  IF intermediate < call.graph_degree THEN intermediate
                                          ELSE call.graph_degree

\* Element k of the graph built over the given rows.
BuiltCell(rows, k) ==
  LET d == BuiltDegree(Len(rows)) IN
  IF k < Len(rows) * d THEN [over |-> rows, row |-> k \div d, col |-> k % d]
                       ELSE OverRead

\* Where label l's graph is copied to, in uint32_t arithmetic.
RegionStart(l) == (label_offset["graph"][l] * call.graph_degree) % UintRange
RegionLen(l)   == (label_size["graph"][l] * call.graph_degree) % UintRange
Region(l)      == RegionStart(l) .. (RegionStart(l) + RegionLen(l) - 1)

Cells == 0..(total_rows["graph"] * call.graph_degree - 1)

\* Whether half k is loaded: there is a file and no order to rebuild.
HasFile(k) == IF k = "graph" THEN graph_file.exists ELSE bfs_file.exists
LoadsIfThere(k) == k \in call.named /\ HasFile(k)  \* mutant: force_rebuild is ignored
Loads(k)        == k \in call.named /\ HasFile(k) /\ ~call.force_rebuild

\* The check of load_matrix_from_ibin.
SameSize       ==                                \* mutant: the number of bytes only
  graph_file.rows * graph_file.cols <= total_rows["graph"] * call.graph_degree
SameDimensions == /\ graph_file.rows = total_rows["graph"]
                  /\ graph_file.cols = call.graph_degree

\* Deserializing fails on a file that ends early.
DeserializesAnything == bfs_file.exists          \* mutant: the stream is not checked
Deserializes         == bfs_file.complete

NeverNoLists == labels["bfs"] < 0                \* mutant: the test is always false
NoLists      == labels["bfs"] = 0

\* Whether row t lies before the rows of a list.
BeforeList(t, l)     == t < label_offset["bfs"][l]

\* The binary search of a kernel thread for the list of row t.
ListOf(t) ==
  LET search[range \in (0..label_number) \X (0..label_number)] ==
        LET left  == range[1]
            right == range[2]
            mid   == (left + right) \div 2
        IN  IF left >= right - 1 THEN left
            ELSE IF BeforeList(t, mid) THEN search[<<left, mid>>]
                                       ELSE search[<<mid, right>>]
  IN  search[<<0, label_number>>]

-----------------------------------------------------------------------------
Init ==
  /\ pc = "idle" /\ calls = 0
  /\ call = NoCall /\ i = 0
  /\ label_number = 0 /\ label_data_vecs = <<>>
  /\ label_size = NoLabels /\ label_offset = NoLabels /\ index_map = NoLabels
  /\ total_rows = NoRows /\ labels = NoRows
  /\ todo = {} /\ worker = [w \in Workers |-> None] /\ threads = {}
  /\ graph = <<>> /\ lists = <<>>
  /\ graph_file = NoGraphFile /\ bfs_file = NoBfsFile

\* build() is entered, in a new process or after an earlier build.
Call ==
  /\ pc \in {"idle", "ready", "failed"}
  /\ calls < MaxCalls
  /\ call' \in Calls
  /\ calls' = calls + 1
  /\ LET labels_of == 0..max_label(call'.data_label_vecs) IN
       /\ label_number' = LabelNumber(call'.data_label_vecs)
       /\ label_data_vecs' = [l \in labels_of |-> <<>>]
       /\ label_size' = [k \in Kind |-> [l \in labels_of |-> 0]]
       /\ label_offset' = [k \in Kind |-> [l \in labels_of |-> 0]]
       /\ lists' = [l \in labels_of |-> <<>>]
  /\ total_rows' = NoRows /\ labels' = NoRows /\ index_map' = NoLabels
  /\ graph' = <<>>
  /\ i' = 1
  /\ pc' = "collect"
  /\ UNCHANGED <<todo, worker, threads, files>>

\* The labels of row i are inverted; a label given twice is entered twice.
CollectRow ==
  /\ pc = "collect" /\ i <= Len(call.data_label_vecs)
  /\ LET row == call.data_label_vecs[i]
         times(l) == Cardinality({j \in DOMAIN row : row[j] = l})
     IN  label_data_vecs' = [l \in Labels |->
           label_data_vecs[l] \o [j \in 1..times(l) |-> i]]
  /\ i' = i + 1
  /\ UNCHANGED <<pc, call, calls, label_number, label_size, label_offset,
                 total_rows, labels, index_map, todo, worker, threads, index,
                 files>>

Collected ==
  /\ pc = "collect" /\ i > Len(call.data_label_vecs)
  /\ pc' = "size" /\ i' = 0
  /\ UNCHANGED <<call, calls, meta, todo, worker, threads, index, files>>

\* First loop over the labels: size and offset of label i in each half.
SizeLabel ==
  /\ pc = "size" /\ i < label_number
  /\ LET k == HalfOf(i)
         n_rows == Len(label_data_vecs[i])
     IN  /\ label_size' = [label_size EXCEPT ![k][i] = n_rows]
         /\ label_offset' =
              [h \in Kind |-> [label_offset[h] EXCEPT ![i] = NextOffset(h)]]
         /\ total_rows' = [total_rows EXCEPT ![k] = @ + n_rows]
         /\ labels' = [labels EXCEPT ![k] = @ + 1]
  /\ i' = i + 1
  /\ UNCHANGED <<pc, call, calls, label_number, label_data_vecs, index_map,
                 todo, worker, threads, index, files>>

Sized ==
  /\ pc = "size" /\ i = label_number
  /\ pc' = "map" /\ i' = 0
  /\ UNCHANGED <<call, calls, meta, todo, worker, threads, index, files>>

\* Mutant: the two loops disagree on labels at the threshold.
MapLabelAtLeast ==
  /\ pc = "map" /\ i < label_number
  /\ index_map' = [index_map EXCEPT
       ![IF cat_freq(i) >= call.specificity_threshold THEN "graph" ELSE "bfs"] =
         @ \o label_data_vecs[i]]
  /\ i' = i + 1
  /\ UNCHANGED <<pc, call, calls, label_number, label_data_vecs, label_size,
                 label_offset, total_rows, labels, todo, worker, threads,
                 index, files>>

\* Second loop: the rows of label i are appended to the map of its half.
MapLabel ==
  /\ pc = "map" /\ i < label_number
  /\ index_map' = [index_map EXCEPT ![HalfOf(i)] = @ \o label_data_vecs[i]]
  /\ i' = i + 1
  /\ UNCHANGED <<pc, call, calls, label_number, label_data_vecs, label_size,
                 label_offset, total_rows, labels, todo, worker, threads,
                 index, files>>

\* The graph half is skipped, loaded or built from scratch.
Mapped ==
  /\ pc = "map" /\ i = label_number
  /\ pc' = IF labels["graph"] = 0 THEN "bfs"
           ELSE IF Loads("graph") THEN "load" ELSE "parallel"
  /\ graph' = [c \in Cells |-> Blank]
  /\ todo' = IF pc' = "parallel" THEN {l \in Labels : label_size["graph"][l] # 0}
                                 ELSE {}
  /\ UNCHANGED <<call, calls, i, meta, worker, threads, lists, files>>

-----------------------------------------------------------------------------
(* The graph half *)

\* load_matrix_from_ibin checks the dimensions only.  They are not initialised
\* when the file is too short to hold them, so that the check may go either
\* way, and the part of the matrix that the file does not hold stays blank.
LoadGraph ==
  /\ pc = "load"
  /\ \/ /\ graph_file.header => SameDimensions
        /\ graph' = [c \in Cells |-> IF c < Len(graph_file.cells)
                                     THEN graph_file.cells[c + 1] ELSE graph[c]]
        /\ pc' = "bfs"
     \/ /\ graph_file.header => ~SameDimensions
        /\ pc' = "failed"
        /\ UNCHANGED graph
  /\ UNCHANGED <<call, calls, i, meta, todo, worker, threads, lists, files>>

\* A thread of the parallel loop takes a label ...
WorkerTake(w) ==
  /\ pc = "parallel" /\ worker[w] = None
  /\ \E l \in todo : worker' = [worker EXCEPT ![w] = l] /\ todo' = todo \ {l}
  /\ UNCHANGED <<pc, call, calls, i, meta, threads, index, files>>

\* ... copies its rows, builds its graph, and copies that to the label's
\* region of the host matrix.
WorkerCopy(w) ==
  /\ pc = "parallel" /\ worker[w] # None
  /\ LET l == worker[w] IN
       graph' = [c \in Cells |-> IF c \in Region(l)
                 THEN BuiltCell(label_data_vecs[l], c - RegionStart(l))
                 ELSE graph[c]]
  /\ worker' = [worker EXCEPT ![w] = None]
  /\ UNCHANGED <<pc, call, calls, i, meta, todo, threads, lists, files>>

\* The barrier at the end of the loop.
Join ==
  /\ pc = "parallel" /\ todo = {} /\ \A w \in Workers : worker[w] = None
  /\ pc' = IF "graph" \in call.named THEN "open" ELSE "bfs"
  /\ UNCHANGED <<call, calls, i, meta, todo, worker, threads, index, files>>

\* save_matrix_to_ibin: opening truncates the file, or fails.
SaveOpen ==
  /\ pc = "open"
  /\ \/ graph_file' = [NoGraphFile EXCEPT !.exists = TRUE] /\ pc' = "save"
     \/ "disk" \in Faults /\ pc' = "failed" /\ UNCHANGED graph_file
  /\ UNCHANGED <<call, calls, i, meta, todo, worker, threads, index, bfs_file>>

\* The dimensions, then the matrix, reach the file piece by piece.
SaveWrite ==
  /\ pc = "save"
  /\ \/ /\ ~graph_file.header
        /\ graph_file' = [graph_file EXCEPT !.header = TRUE,
             !.rows = total_rows["graph"], !.cols = call.graph_degree]
     \/ /\ graph_file.header
        /\ Len(graph_file.cells) \in DOMAIN graph
        /\ graph_file' = [graph_file EXCEPT
             !.cells = Append(@, graph[Len(graph_file.cells)])]
  /\ UNCHANGED <<pc, call, calls, i, meta, todo, worker, threads, index,
                 bfs_file>>

\* The state of the stream is looked at neither after the writes nor after
\* close(): a full disk ends the file early and nobody notices.
SaveClose ==
  /\ pc = "save"
  /\ \/ graph_file.header /\ Len(graph_file.cells) \notin DOMAIN graph
     \/ "disk" \in Faults
  /\ pc' = "bfs"
  /\ UNCHANGED <<call, calls, i, meta, todo, worker, threads, index, files>>

-----------------------------------------------------------------------------
(* The list half *)

\* Deserializing a file that ends early raises.  The kernel is launched with
\* no block, which is an error, when there is no row to put in a list.
StartBfs ==
  /\ pc = "bfs"
  /\ \/ /\ NoLists
        /\ pc' = "ready"
        /\ UNCHANGED <<lists, threads>>
     \/ /\ ~NoLists /\ Loads("bfs")
        /\ lists' = IF Deserializes THEN bfs_file.lists ELSE lists
        /\ pc' = IF Deserializes THEN "ready" ELSE "failed"
        /\ UNCHANGED threads
     \/ /\ ~NoLists /\ ~Loads("bfs")
        /\ lists' = [l \in Labels |-> <<>>]
        /\ threads' = 0..(total_rows["bfs"] - 1)
        /\ pc' = IF total_rows["bfs"] = 0 THEN "failed" ELSE "kernel"
  /\ UNCHANGED <<call, calls, i, meta, todo, worker, graph, files>>

\* Thread t of the kernel takes the next place of its list and fills it.
KernelThread(t) ==
  /\ pc = "kernel" /\ t \in threads
  /\ lists' = [lists EXCEPT ![ListOf(t)] = Append(@, index_map["bfs"][t + 1])]
  /\ threads' = threads \ {t}
  /\ UNCHANGED <<pc, call, calls, i, meta, todo, worker, graph, files>>

\* The stream is in order: what follows the kernel waits for all its threads.
KernelDone ==
  /\ pc = "kernel" /\ threads = {}
  /\ pc' = IF "bfs" \in call.named THEN "serialize" ELSE "ready"
  /\ UNCHANGED <<call, calls, i, meta, todo, worker, threads, index, files>>

\* ivf_flat::serialize truncates the file, writes it, and raises if the stream
\* is bad after close().
Serialize ==
  /\ pc = "serialize"
  /\ \/ /\ bfs_file' = [exists |-> TRUE, complete |-> FALSE, lists |-> <<>>]
        /\ pc' = "write"
     \/ /\ "disk" \in Faults /\ pc' = "failed"
        /\ UNCHANGED bfs_file
  /\ UNCHANGED <<call, calls, i, meta, todo, worker, threads, index,
                 graph_file>>

SerializeClose ==
  /\ pc = "write"
  /\ \/ /\ bfs_file' = [exists |-> TRUE, complete |-> TRUE, lists |-> lists]
        /\ pc' = "ready"
     \/ /\ "disk" \in Faults /\ pc' = "failed"
        /\ UNCHANGED bfs_file
  /\ UNCHANGED <<call, calls, i, meta, todo, worker, threads, index,
                 graph_file>>

-----------------------------------------------------------------------------
\* The process dies; what it wrote so far stays on disk.
Dies ==
  /\ pc' = "idle"
  /\ call' = NoCall /\ i' = 0
  /\ label_number' = 0 /\ label_data_vecs' = <<>>
  /\ label_size' = NoLabels /\ label_offset' = NoLabels /\ index_map' = NoLabels
  /\ total_rows' = NoRows /\ labels' = NoRows
  /\ todo' = {} /\ worker' = [w \in Workers |-> None] /\ threads' = {}
  /\ graph' = <<>> /\ lists' = <<>>
  /\ UNCHANGED <<calls, files>>

Crash == "crash" \in Faults /\ pc # "idle" /\ Dies

\* cagra::build, when it uses IVF-PQ, looks at the last error of its thread and
\* raises what the thread that called build() has left from before.  No exception
\* may leave the parallel loop: the process is terminated.  Which thread is the
\* caller, whether it is given a label and whether IVF-PQ is used is left open.
RaiseInLoop ==
  /\ "cuda" \in Faults
  /\ pc = "parallel" /\ \E w \in Workers : worker[w] # None
  /\ Dies

\* The first list that is made or loaded is filled, which looks at the last error.
RaiseAtLists ==
  /\ "cuda" \in Faults
  /\ pc = "bfs" /\ ~NoLists
  /\ pc' = "failed"
  /\ UNCHANGED <<call, calls, i, meta, todo, worker, threads, index, files>>

Work ==
  \/ Call \/ CollectRow \/ Collected \/ SizeLabel \/ Sized
  \/ MapLabel \/ Mapped \/ LoadGraph
  \/ \E w \in Workers : WorkerTake(w) \/ WorkerCopy(w)
  \/ Join \/ SaveOpen \/ SaveWrite \/ SaveClose
  \/ StartBfs \/ (\E t \in threads : KernelThread(t)) \/ KernelDone
  \/ Serialize \/ SerializeClose

Next == Work \/ RaiseInLoop \/ RaiseAtLists \/ Crash

Spec == Init /\ [][Next]_vars

-----------------------------------------------------------------------------
(* Properties *)

GraphCell == [over : Seq(Nat), row : Nat, col : Nat]

\* Type invariant.
TypeOK ==
  /\ pc \in {"idle", "collect", "size", "map", "load", "parallel", "open",
            "save", "bfs", "kernel", "serialize", "write", "ready", "failed"}
  /\ call \in Calls /\ calls \in Nat
  /\ i \in Nat /\ label_number \in Nat
  /\ label_data_vecs \in [Labels -> Seq(Nat)]
  /\ label_size \in [Kind -> [Labels -> Nat]]
  /\ label_offset \in [Kind -> [Labels -> Nat]]
  /\ total_rows \in [Kind -> Nat]
  /\ labels \in [Kind -> Nat]
  /\ index_map \in [Kind -> Seq(Nat)]
  /\ todo \in SUBSET Labels
  /\ worker \in [Workers -> Labels \cup {None}]
  /\ graph \in [DOMAIN graph -> GraphCell] /\ DOMAIN graph \subseteq Nat
  /\ threads \in SUBSET Nat
  /\ lists \in [DOMAIN lists -> Seq(Nat)] /\ DOMAIN lists \subseteq Nat
  /\ graph_file \in [exists : BOOLEAN, header : BOOLEAN, rows : Nat,
                     cols : Nat, cells : Seq(GraphCell)]
  /\ bfs_file.exists \in BOOLEAN /\ bfs_file.complete \in BOOLEAN
  /\ bfs_file.lists \in [DOMAIN bfs_file.lists -> Seq(Nat)]
  /\ DOMAIN bfs_file.lists \subseteq Nat

\* Threads of the parallel loop write the shared host matrix without a lock
\* (213-216): their regions never overlap and stay inside of it.
RegionsDisjoint ==
  \A v, w \in Workers :
    worker[v] # None =>
      /\ Region(worker[v]) \subseteq Cells
      /\ v # w /\ worker[w] # None => Region(worker[v]) \cap Region(worker[w]) = {}

\* The rows of the dataset that carry label l, read off the caller's input.
RowsOf(l) == {p \in DOMAIN call.data_label_vecs :
                \E j \in DOMAIN call.data_label_vecs[p] :
                  call.data_label_vecs[p][j] = l}

\* The rows of label l in a half, by its size and offset and the index map.
Filed(k, l) == {index_map[k][label_offset[k][l] + j] : j \in 1..label_size[k][l]}

\* The offsets of the first loop (82-100) address the maps filled by the second
\* (106-119): every label is found in one half, with its rows and no others,
\* and the halves hold nothing else.
EveryRowFiled ==
  pc \notin {"idle", "collect", "size", "map"} =>
    /\ \A k \in Kind : Len(index_map[k]) = total_rows[k]
    /\ \A l \in Labels : \E k \in Kind :
         /\ Filed(k, l) = RowsOf(l)
         /\ \A h \in Kind \ {k} : label_size[h][l] = 0

\* Row r of the graph half, as the search reads it: graph_degree cells.
GraphRow(r) == [c \in 0..(call.graph_degree - 1) |-> graph[r * call.graph_degree + c]]

\* When build() returns, row j of a label's region is the neighbour list of
\* row j in a graph over the label's own rows, whether it was built, written
\* to a file by an earlier build and loaded, or both (159-227).
GraphIsOwn ==
  pc = "ready" =>
    \A l \in Labels : \A j \in 0..(label_size["graph"][l] - 1) :
      GraphRow(label_offset["graph"][l] + j) =
        [c \in 0..(call.graph_degree - 1) |->
           [over |-> label_data_vecs[l], row |-> j, col |-> c]]

\* When build() returns, the list of a rare label holds its rows, each as
\* often as the caller named it, and nothing else, in whatever order the threads
\* of the kernel ran or a file has them, and as many as the search will scan
\* (bfs_label_size, vecflow_build.cuh:88-95).
ListsAreOwn ==
  pc = "ready" =>
    \A l \in Labels : HalfOf(l) = "bfs" =>
      /\ l \in DOMAIN lists
      /\ Len(lists[l]) = label_size["bfs"][l]
      /\ \A p \in 1..Len(call.data_label_vecs) :
           Cardinality({j \in DOMAIN lists[l] : lists[l][j] = p}) =
             Cardinality({j \in DOMAIN label_data_vecs[l] : label_data_vecs[l][j] = p})

\* A forced build owes nothing to the files, whatever crashes and full disks
\* have left in them (162, 230).
ForcedGraphIsOwn == call.force_rebuild => GraphIsOwn

\* A build that neither loads nor saves a file has no reason to fail.
BuildSucceeds == call.named = {} => pc # "failed"
=============================================================================
