------------------------------- MODULE VecFlow -------------------------------
(***************************************************************************)
(* VecFlow: an index is built, or loaded, and then searched, as PyVecFlow  *)
(* (vecflow/src/vecflow.cu) and the examples do.  The build and the search *)
(* share the index; a caller does not search while it builds.              *)
(***************************************************************************)
EXTENDS VecFlowBuild

CONSTANTS
  Requests, MaxSearches,  \* see VecFlowSearch
  Python,                 \* the caller is PyVecFlow and not C++ code that
                          \* keeps its dataset
  AlignedRows             \* rows of the dataset are multiples of 16 bytes

ASSUME CallerAssumption == Python \in BOOLEAN /\ AlignedRows \in BOOLEAN

\* A batch is an array of labels, which are numbers.
ASSUME RequestsAssumption == Requests \subseteq Seq(Nat)

\* An error that a search leaves behind is pending in a build.
ASSUME FaultAssumption == "cuda" \in Faults

VARIABLES dataset,        \* the device matrix given to build()
          at, searches, query_labels, place, unwritten, count, slot, found,
          unmerged, answer, last_error

\* The index that build() returns.
Index ==
  [specificity_threshold |-> call.specificity_threshold,
   graph_row    |-> [r \in 0..(total_rows["graph"] - 1) |-> GraphRow(r)],
   index_map    |-> index_map["graph"],
   graph_size   |-> label_size["graph"],
   label_offset |-> label_offset["graph"],
   bfs_size     |-> label_size["bfs"],
   cat_freq     |-> [l \in Labels |-> cat_freq(l)],
   lists        |-> lists]

batchVars == <<at, searches, query_labels, place, unwritten, count, slot,
                found, unmerged, answer>>
sVars      == <<batchVars, last_error>>

S == INSTANCE VecFlowSearch WITH idx <- Index

VecFlowInit == Init /\ S!SearchInit /\ dataset = "none"

\* A build with a pending error does not get past the lists; raising the error
\* clears it, and a new process has none.
BuildingWith(error) ==
  \/ Work /\ ~(error /\ pc = "bfs" /\ ~NoLists) /\ last_error' = error
  \/ error /\ (RaiseInLoop \/ RaiseAtLists) /\ last_error' = FALSE
  \/ Crash /\ last_error' = FALSE

\* A new build replaces the index and what was found with the old one.  When
\* PyVecFlow::build returns, its device copy of the dataset is gone.
Building ==
  /\ at \in {"idle", "done", "raised"}
  /\ BuildingWith(last_error)
  /\ IF pc = "ready" THEN S!Forget ELSE UNCHANGED batchVars
  /\ dataset' = IF pc' = "idle" THEN "none"
                ELSE IF pc' \in {"ready", "failed"} /\ Python THEN "freed"
                ELSE "alive"

Searching == pc = "ready" /\ UNCHANGED <<vars, dataset>> /\ S!SearchNext

VecFlowNext == Building \/ Searching

VecFlowSpec == VecFlowInit /\ [][VecFlowNext]_<<vars, sVars, dataset>>

-----------------------------------------------------------------------------
(* Properties *)

\* A batch is answered as FilteredSearch promises: each query once, at its own
\* place, from the rows of its label, in whatever order the threads of the
\* classification and merge kernels ran, after any builds and loads of the
\* index (vecflow_search.cuh:53-107).
Promise == INSTANCE FilteredSearch WITH
  rows     <- IF pc = "ready" THEN [l \in Labels |-> RowsOf(l)] ELSE <<>>,
  asked    <- query_labels,
  answered <- IF at = "done" THEN answer ELSE <<>>

Implements == Promise!Spec

\* Threads of the classification kernel that have taken a place but not
\* written it, or have written it, never share it (vecflow_common.cuh:88-104):
\* each half's places are the numbers up to its counter.
PlacesExclusive ==
  at = "classify" =>
    \A k \in Kind :
      LET taken == {q \in S!Queries : place[q] # None /\ S!HalfFor(q) = k}
      IN  /\ {place[q] : q \in taken} = 1..count[k]
          /\ Cardinality(taken) = count[k]

\* The graph index copies the dataset only when its rows have to be padded;
\* otherwise the dataset has to stay alive (cagra.hpp:419-421).
SearchReadsLiveDataset ==
  at = "graph" /\ count["graph"] > 0 /\ AlignedRows => dataset = "alive"
=============================================================================
