---------------------------- MODULE VecFlowSearch ----------------------------
(***************************************************************************)
(* vecflow::search: cpp/src/neighbors/vecflow/vecflow_search.cuh and       *)
(* vecflow_common.cuh.                                                     *)
(*                                                                         *)
(* A batch of queries, each with a label, is split by a kernel into those  *)
(* for the graph half of the index and those for its lists: the thread of  *)
(* a query takes a place by an atomic increment and writes there.  Each    *)
(* half is searched for its part, and two more kernels scatter the answers *)
(* back to the places of the queries in the batch.                         *)
(*                                                                         *)
(* The search of one query is abstracted to the rows it may return, and a  *)
(* query vector to its number.                                             *)
(***************************************************************************)
EXTENDS Integers, Sequences, FiniteSets

CONSTANTS
  Requests,     \* label sequences of the batches that are searched for
  MaxSearches,  \* bound: searches in a behaviour
  UintRange     \* 2^32

Kind == {"graph", "bfs"}
None == -1

VARIABLES
  idx,            \* the index, see Index of VecFlow
  at,             \* where search() is
  searches,       \* searches started so far
  query_labels,   \* the labels of the batch
  place,          \* query -> its place in its half, None before the increment
  unwritten,      \* queries whose thread has not written its place yet
  count,          \* kind -> cagra_count, bfs_count
  slot,           \* kind -> place -> query to answer, vector and label
  found,          \* kind -> place -> answer
  unmerged,       \* places the merge kernels have still to scatter
  answer,         \* query -> answer: the caller's neighbors and distances
  last_error      \* the error a CUDA call would return from before

batch == <<query_labels, place, unwritten, count, slot>>
sVars == <<at, searches, batch, found, unmerged, answer, last_error>>

Queries == DOMAIN query_labels

\* What the caller's arrays hold before the search.
Unanswered == [vector |-> 0, over |-> {}]
NoSlot     == [query |-> 0, vector |-> 0, label |-> 0]

\* The frequency is unsigned, so the comparison converts the threshold.
IsGraphAtLeast(label) ==                         \* mutant: at the threshold, too
  idx.cat_freq[label] >= idx.specificity_threshold % UintRange
IsGraph(label) == idx.cat_freq[label] > idx.specificity_threshold % UintRange
HalfFor(q)     == IF IsGraph(query_labels[q]) THEN "graph" ELSE "bfs"

\* The rows of the label's region, through the index map, as far as their part
\* of the graph is a graph over these rows.
OverGraph(label) ==
  LET offset == idx.label_offset[label]
      region == SubSeq(idx.index_map, offset + 1, offset + idx.graph_size[label])
      Own(j) == \A c \in DOMAIN idx.graph_row[offset + j - 1] :
                  idx.graph_row[offset + j - 1][c] =
                    [over |-> region, row |-> j - 1, col |-> c]
  IN  {region[j] : j \in {n \in DOMAIN region : Own(n)}}
\* As many rows of the label's list as bfs_label_size says.
OverList(label) == {idx.lists[label][j] : j \in 1..idx.bfs_size[label]}
Over(k, label) == IF k = "graph" THEN OverGraph(label) ELSE OverList(label)

\* The queries that a thread of the classification kernel is run for.
Threads(n)         == 1..n

\* Where a merge kernel puts the answer of place p.
MergedTo(k, p)     == slot[k][p].query

-----------------------------------------------------------------------------
SearchInit ==
  /\ at = "idle" /\ searches = 0 /\ last_error = FALSE
  /\ query_labels = <<>> /\ place = <<>> /\ unwritten = {}
  /\ count = [k \in Kind |-> 0] /\ slot = [k \in Kind |-> <<>>]
  /\ found = [k \in Kind |-> <<>>] /\ unmerged = {} /\ answer = <<>>

\* The index is replaced, and the batch found with it forgotten.
Forget ==
  /\ at' = "idle"
  /\ query_labels' = <<>> /\ place' = <<>> /\ unwritten' = {}
  /\ count' = [k \in Kind |-> 0] /\ slot' = [k \in Kind |-> <<>>]
  /\ found' = [k \in Kind |-> <<>>] /\ unmerged' = {} /\ answer' = <<>>
  /\ UNCHANGED searches

\* search() is called, with labels that the index knows (nothing checks that,
\* it is up to the caller).  The classification kernel gets one thread per query;
\* without a query it gets no block, which is an error nobody looks at yet.
Search ==
  /\ at \in {"idle", "done", "raised"} /\ searches < MaxSearches
  /\ searches' = searches + 1
  /\ query_labels' \in Requests
  /\ \A q \in Queries' : query_labels'[q] \in DOMAIN idx.cat_freq
  /\ place' = [q \in Queries' |-> None]
  /\ unwritten' = Threads(Len(query_labels'))
  /\ count' = [k \in Kind |-> 0]
  /\ slot' = [k \in Kind |-> [p \in 1..Len(query_labels') |-> NoSlot]]
  /\ answer' = [q \in Queries' |-> Unanswered]
  /\ found' = [k \in Kind |-> <<>>] /\ unmerged' = {}
  /\ last_error' = (last_error \/ Queries' = {})
  /\ at' = "classify"
  /\ UNCHANGED idx

ClassifyAddLost(q) ==                            \* mutant: a plain increment
  /\ at = "classify" /\ q \in unwritten /\ place[q] = None
  /\ place' = [place EXCEPT ![q] = count[HalfFor(q)] + 1]
  /\ count' \in {count, [count EXCEPT ![HalfFor(q)] = @ + 1]}
  /\ UNCHANGED <<idx, at, searches, query_labels, unwritten, slot, found,
                 unmerged, answer, last_error>>

\* atomicAdd on the counter of the half the label's frequency decides.
ClassifyAdd(q) ==
  /\ at = "classify" /\ q \in unwritten /\ place[q] = None
  /\ place' = [place EXCEPT ![q] = count[HalfFor(q)] + 1]
  /\ count' = [count EXCEPT ![HalfFor(q)] = @ + 1]
  /\ UNCHANGED <<idx, at, searches, query_labels, unwritten, slot, found,
                 unmerged, answer, last_error>>

ClassifyWrite(q) ==
  /\ at = "classify" /\ q \in unwritten /\ place[q] # None
  /\ slot' = [slot EXCEPT ![HalfFor(q)][place[q]] =
                [query |-> q, vector |-> q, label |-> query_labels[q]]]
  /\ unwritten' = unwritten \ {q}
  /\ UNCHANGED <<idx, at, searches, query_labels, place, count, found,
                 unmerged, answer, last_error>>

\* The counters are read when the kernel is done, and the used part of the
\* temporary arrays is kept.
Classified ==
  /\ at = "classify" /\ unwritten = {}
  /\ slot' = [k \in Kind |-> SubSeq(slot[k], 1, count[k])]
  /\ at' = "graph"
  /\ UNCHANGED <<idx, searches, query_labels, place, unwritten, count, found,
                 unmerged, answer, last_error>>

\* Either search launches kernels and looks at the last error, which clears it.
SearchHalf(k, next) ==
  /\ at = k
  /\ \/ /\ count[k] = 0
        /\ at' = next
        /\ UNCHANGED <<found, last_error>>
     \/ /\ count[k] > 0 /\ ~last_error
        /\ found' = [found EXCEPT ![k] =
             [p \in 1..count[k] |-> [vector |-> slot[k][p].vector,
                                     over |-> Over(k, slot[k][p].label)]]]
        /\ at' = next
        /\ UNCHANGED last_error
     \/ /\ count[k] > 0 /\ last_error
        /\ last_error' = FALSE
        /\ at' = "raised"
        /\ UNCHANGED found
  /\ UNCHANGED <<idx, searches, batch, answer>>

SearchGraph == SearchHalf("graph", "bfs") /\ UNCHANGED unmerged

SearchLists ==
  /\ SearchHalf("bfs", "merge")
  /\ unmerged' = IF at' = "merge"
                 THEN UNION {{k} \X (1..count[k]) : k \in Kind} ELSE {}

\* A thread of a merge kernel, for all results of one query.
Merge(k, p) ==
  /\ at = "merge" /\ <<k, p>> \in unmerged
  /\ answer' = [answer EXCEPT ![MergedTo(k, p)] = found[k][p]]
  /\ unmerged' = unmerged \ {<<k, p>>}
  /\ UNCHANGED <<idx, at, searches, batch, found, last_error>>

Merged ==
  /\ at = "merge" /\ unmerged = {}
  /\ at' = "done"
  /\ UNCHANGED <<idx, searches, batch, found, unmerged, answer, last_error>>

SearchNext ==
  \/ Search
  \/ \E q \in Queries : ClassifyAdd(q) \/ ClassifyWrite(q)
  \/ Classified \/ SearchGraph \/ SearchLists
  \/ (\E k \in Kind, p \in 1..Len(query_labels) : Merge(k, p)) \/ Merged
=============================================================================
