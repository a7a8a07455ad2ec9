# A TLA+ model of VecFlow / cuVS

This directory holds the formal model of the vector search library in this
repository (cuVS with the VecFlow filtered index). It models the parts whose
correctness depends on the order in which threads, kernels and files are
touched; the numerical kernels (distances, sorting, clustering) are not a
matter for a state machine and are left out. Paths below are relative to
`src/` of the repository. `cuh` is short for
`cpp/src/neighbors/detail/dynamic_batching.cuh`.

## 1. Inventory

| Component | State | Operations | Interacts with | What is hard | What makes it correct |
|---|---|---|---|---|---|
| **Dynamic batching index** (`dynamic_batching.cuh`) | head and tail counters, a ring of 256 batch tokens (buffer id + round, commit counter + closing byte), remaining times, published batch ids, batch sizes; per IO buffer request pointers, batch store, progress counter, completion event | `search()` from any number of host threads; `gather_inputs` and `scatter_outputs` kernels | any upstream index's search; the callers' CUDA streams; the GPU writes the host's tokens | lock-free ring with ABA rounds, commits in advance of a buffer, byte store racing with a compare-exchange, deadlines, events recorded after the buffer is given away | every query is answered once, with its own result, before the caller's stream is past it; no two owners of a row, a batch or a buffer; every search returns |
| **Persistent CAGRA search** (`cagra/search_single_cta_kernel-inl.cuh`, and the filtered copy) | a never-ending kernel, queues of idle workers and free jobs, job mailboxes, completion flags, a runner shared by parameter hash, last-use time stamp | get_runner/create_runner, launch, worker loop, keep-alive thread, destructor | host threads, GPU workers, a detached thread | promises of queue entries, exceptions between two pops, hash that ignores arguments, shutdown racing with a launch | no worker or job is lost or used twice; a launch returns only after all its queries; a runner serves only searches with its own parameters |
| **VecFlow build** (`vecflow/vecflow_build.cuh`, `vecflow_common.cuh`) | per-label rows, two index maps, per-label sizes and offsets, the concatenated graph, cache files | build, save, load | OpenMP threads, CAGRA build, filtered BFS, the file system | parallel writes into one graph, stale or truncated cache files after a crash, degree reduced for small labels | the graph and the maps belong to the labels given; a loaded index is the one that would have been built |
| **VecFlow search** (`vecflow_search.cuh`, `vecflow_common.cuh`) | per-call query maps and counters | classify, search by graph, search by lists, merge | CAGRA filtered search, filtered BFS | atomic positions in an unknown order, labels out of range | every query gets exactly one result, its own |
| **Filtered BFS** (`filtered_bfs/`) | IVF-Flat lists, one per label | build, search | VecFlow | list padding, labels with fewer rows than k | list of a label holds its rows |
| **CAGRA search of one query** (`cagra/search_single_cta_kernel-inl.cuh`, `search_plan.cuh`, `hashmap.hpp`, `device_common.hpp`) | sorted list with parent marks in the top bit, candidates, hash table of visited nodes, one word for two flags | random seeds, insert, sort and merge, reset and restore of a small table, pick parents, filter, post-process | the graph; the launchers above | threads insert concurrently, the table is restored from words that are being marked, table size and reset interval chosen together | no node twice in the list; the table never fills; the search is a beam search whose result does not depend on the table |
| **CAGRA graph optimisation** (`cagra/graph_core.cuh`) | kNN graph, spanning graph with outgoing and incoming slots, cluster labels, reverse graph, output graph | candidate edges, update, labelling, adjustment, prune, reverse, merge | CAGRA build | a thread for each node, atomics on shared counters and labels, a loop until nothing changes | both ends of an edge agree, labels are clusters, every edge is one of the inputs', the loops end |
| **CAGRA build, extension, other search kernels** (`detail/cagra/`) | graph, data set | build, extend, multi-CTA and multi-kernel search | everything above | degree reduction for small data sets | edges valid |
| **Index interface and multi-GPU** (`iface/iface.hpp`, `mg/mg.cuh`) | wrapped index, mutex | build, extend, search, serialize, sharded/replicated search | OpenMP threads, NCCL, streams | the lock guard (`iface.hpp:39`) is a temporary: no mutual exclusion | an index is not searched while it is built |
| **Shared resources** (`shared_resources.hpp`) | global stream pool | stream per thread id | VecFlow build, benchmarks | pool indexed by a thread-local id | threads do not share a stream |
| NN-descent, Vamana, IVF-Flat (but for what VecFlow uses of it), IVF-PQ, brute force, refine, HNSW, ball cover | graphs, lists | build, search, serialize | CAGRA | numerical | numerical |
| Clustering, distances, statistics, preprocessing, sparse | none that outlives a call | | | numerical | numerical |
| C, Python, Rust interfaces; benchmarks; examples | handles | conversions | the library | error codes | |

`PROJECT.json` lists the hazards of this code at their lines.

## 2. Plan

Order of work, most important behaviour first:

1. `SearchService` (abstract) and `DynamicBatching` (detailed), runs, type
   theorem. **Done.**
2. `DynamicBatching`: the inductive invariants of the ring, of rows and answers,
   and of publication and completion, and with them the refinement of
   `SearchService`, proved for every ring size. **Done** (section 5).
3. `BatchQueueWrap`: the counters with their width (`uint32_t`), the states at
   the wrap, the constructor's pushes.
4. `VecFlowBuild` (labels, maps, parallel build, cache files, crash and restart)
   and `VecFlowSearch` (classification and merge), composed in `VecFlow`, which
   implements `FilteredSearch`. **Done**, with proofs of all safety properties of
   the build, of `PlacesExclusive` and of the refinement (section 5).
5. `PersistentSearch` (the queues, a launch, the kernel, the destructor) and
   `RunnerCache` (who shares, replaces and destroys runners). **Done.** The queue
   is part of `PersistentSearch`: a module of its own would hide that a promise
   is kept only if its holder goes on giving back workers. All safety properties
   of the two and the refinement of `SearchService` are proved. **Done.**
6. `CagraSearch`, which implements `BeamSearch`, and `CagraGraph`. **Done**, with
   proofs of their safety properties and of the refinement (section 5).

Not planned any more: a module for the index interface. Its lock guard is gone at
the end of its line, so that there is no protocol to model.

Every safety property and every refinement that the passing runs check is proved,
most for all constants, some under hypotheses that section 5 lists.
Worth doing next: `BatchQueueWrap`, and `CagraSearch` with a filter, for which no
abstract specification is stated yet.

## 3. Modules

| Module | Models |
|---|---|
| `SearchService.tla` | What an index promises to its callers: a call hands over queries, each is answered exactly once with its own neighbors before the return, every call returns. |
| `DynamicBatching.tla` | `batch_queue_t`, `batch_runner::search`, `try_commit`, the kernels `gather_inputs` and `scatter_outputs`, the completion events. |
| `DynamicBatchingInv.tla` | The inductive invariants of `DynamicBatching`, in parts. |
| `DynamicBatchingRing.tla` | Types and the ring: rows, slots, buffers, batches that are popped or closed. |
| `DynamicBatchingAnswers.tla` | Rows from hand-over to result; sizes under conservative dispatch; publication, completion events, and results that are there when the caller's stream is past them; `DynamicBatching` implements the safety part of `SearchService`. |
| `MCDynamicBatching.tla` | The values the runs give to the constants. |
| `VecFlowBuild.tla` | `vecflow::build`, `save_matrix_to_ibin`, `load_matrix_from_ibin`, `fill_variable_size_index` with its kernel, saving and loading the lists. |
| `VecFlowBuildProofs.tla` | Types, disjoint regions, complete index maps, and graphs and lists that are the labels' own when a call makes them, for all datasets and faults. |
| `VecFlowSearch.tla` | `vecflow::search`: `classify_queries` and its kernel, the two searches, `merge_neighbors_kernel`. |
| `VecFlow.tla` | Build and search around one index, called from C++ or by `PyVecFlow`; instantiates `VecFlowSearch` with the index that the build returns. |
| `VecFlowProofs.tla` | What is loaded is what would have been made; the places of the classification; `VecFlow` implements `FilteredSearch`. |
| `FilteredSearch.tla` | What VecFlow promises: a query with a label is answered from the rows that carry it. |
| `MCVecFlowBuild.tla`, `MCVecFlow.tla` | Datasets, labels and batches for the runs. |
| `PersistentSearch.tla` | `resource_queue_t`, `launcher_t`, `search_kernel_p` and the destructor of `persistent_runner_t`. |
| `PersistentSearchInv.tla` | The inductive invariants of `PersistentSearch`, in parts. |
| `PersistentSearchProofs.tla` | Types, and who has each worker and each job; what counters, flags and mailboxes have to do with the queries of a job; `PersistentSearch` implements the safety part of `SearchService`. |
| `RunnerCache.tla` | `get_runner`, `create_runner` with its keep-alive thread, `select_and_run`; its inductive invariant. |
| `RunnerCacheProofs.tla` | Types of `RunnerCache`, the life of a runner, a living runner of the right hash for a search. |
| `CagraSearch.tla` | `search_core` of the single-CTA kernel, the hash table, and the table's size from `search_plan.cuh`. |
| `BeamSearch.tla` | What a search without a filter promises: a beam search without memory. |
| `CagraSearchProofs.tla` | Types, the table that never fills, no node twice, the end of a search, and that it is a beam search. |
| `CagraGraph.tla` | `optimize` and `mst_optimization` with their kernels. |
| `CagraGraphProofs.tla` | Types, both ends of the edges, the labels and the reverse graph. |
| `MCPersistentSearch.tla`, `MCRunnerCache.tla`, `MCCagraSearch.tla`, `MCCagraGraph.tla` | Batches, parameters, plans and kNN graphs for the runs. |

### How DynamicBatching corresponds to the code

*State.* `head`, `tail`, `token`, `rem`, `bsize` and `dispatched` are the members
of `batch_queue_t`. A token is the record of what its 64 bits mean: full or
empty, round, buffer, commit counter `sc`, closing byte `closed`. The code marks
an empty token by 1024 extra rounds; the model keeps the mark apart from the
round (`full`) and adds it again (`EmptyOffset`) in `Status`, so the comparison
with the seven states is the code's. `ptrs`, `gathered`, `progress`, `event` are
the per-buffer arrays of `batch_runner`; `gathered` holds the name of the query
(thread, request, row) that was copied. `kern[b]` is the pipeline gather,
upstream search, scatter that is enqueued on buffer `b`, with the batches that
its stream waits for (`deps`); `blk` is where each gather block is in its loop.
`pc`, `seq`, `claim` and `req` are a thread's position in `search()` and its
locals; `waits[t]` is what the thread's stream waits for; `out` is the
caller's result matrix. `done` (batches whose scatter kernel has completed) is
what the CUDA runtime knows.

*Actions.* One per atomic access to shared memory. `try_commit` is one action
(`TryCommit`) because its loop ends in a compare-exchange that succeeds only on
the token it has examined, followed by `Pop` where the code pops. The load of
the head and the comparison with the tail are two actions. The read and the
reset of the batch size, the reservation and the wait of `push()`, the record of
the event and the publication are separate actions, because other threads can
run in between. A gather block has four: take, skip, notice the deadline, close
the batch (the store and the load after it are one action: the commit that could
fall between them is seen by the load either way). The block that finishes last
does `GatherFinish`.

*Abstractions.* Time: `GatherExpire` may happen whenever the code looks at the
clock, so every schedule of deadlines is covered; `rem` only matters to
`DeadlineKept`. Waiting loops (`local_waiter`) are guards. Memory orders: the
actions are sequentially consistent. The upstream search returns for row `i` the
neighbors of whatever query is in row `i` of the batch store (`Found`). Requests
of `max_batch_size` queries or more and requests with another `k` bypass the
batcher and are not modelled; the loop that calls `Sync` is the caller's.
The counters are unbounded here.

### How the VecFlow modules correspond to the code

*State of the build.* The variables have the names of the code's locals.
`host_cagra_label_size` and `host_bfs_label_size` are one function
`label_size` of the half (`Kind`) and the label, likewise the offsets, the index
maps and the totals. A cell of the graph matrix is a record of the rows the
graph was computed over and its place in that graph (`over`, `row`, `col`), so
that a property can tell a label's own graph from another's, a shifted one or
memory that was never written (`Blank`) or read past an end (`OverRead`). Lists
hold row numbers. `graph_file` and `bfs_file` are what the disk holds.

*Actions of the build.* `CollectRow`, `SizeLabel` and `MapLabel` are iterations
of the three loops. `WorkerTake` and `WorkerCopy` are the two ends of an
iteration of the parallel loop: all that a thread does in between touches only
its own memory. `KernelThread` is one thread of `build_variable_size_kernel`;
its binary search is the recursive function `ListOf`. Saving the graph is
`SaveOpen`, `SaveWrite` (header, then cell after cell) and `SaveClose`, because
a crash or a full disk may come between any two of them. `Crash` ends the
process and keeps the files.

*State and actions of the search.* `slot` stands for the three temporary arrays
of a half (map, queries, labels) and `count` for its counter. A classification
thread takes its place (`ClassifyAdd`) and writes it (`ClassifyWrite`) in two
actions. `SearchHalf` is either search: for each place, the rows that its answer
may come from. A search over the graph half returns rows of the label's region
whose part of the graph is a graph over that region; a wrong graph thus shows as
missing rows. `Merge` is one thread of a merge kernel (for all `topk` results of
a query). `last_error` is the error that the CUDA runtime keeps after an invalid
launch until somebody asks for it. A search asks after its own launches
(`SearchHalf`). A build asks when it fills or loads the first list
(`RaiseAtLists`: the `thrust::fill_n` of `ivf_list.cuh:70`), or in a thread of the
parallel loop that runs in the caller's thread and uses IVF-PQ (`RaiseInLoop`:
the exception leaves an OpenMP region and the process ends). `BuildingWith` takes
these steps when an error is pending and no others there.

*Refinement.* `FilteredSearch` sees the rows of each label read off the caller's
input, the batch that is asked and the answers once `search` has returned; it
does not see halves, places or files.

*Abstractions.* What a traversal of a correct graph finds, and distances, are
numerical. `Unanswered` is what the caller's arrays hold. The host matrix is
fresh memory: what a short file does not fill stays `Blank`. The raft library's
deserialisation is not in this repository; the model assumes that it raises on a
file that ends early. The dimensions that `load_matrix_from_ibin` reads from a
file shorter than its header are uninitialised, so that its test may go either
way. Labels that a query names are known to the index: the code does not check
it, the caller has to. After a failed rebuild `PyVecFlow` keeps its old index;
the model goes on with the next build instead.

### How PersistentSearch and RunnerCache correspond to the code

Line numbers here are of `cagra/search_single_cta_kernel-inl.cuh`.

*State.* `job_queue` and `worker_queue` are the two `resource_queue_t`; `head` and
`tail` count pushes and pops, where the code adds `kCounterIncrement` each time,
and `Slot` multiplies again. `worker_handle` holds the mailboxes, `descriptor`,
`completion_flag` and `counter` what belongs to a job. `launcher[t]` is a
`launcher_t` with its position in `launch()`; `block[w]` is a block of the
never-ending kernel. `out` is the callers' result memory; a result is the name
of the query (thread, launch, row) that was answered there. `mode` selects the
instance: how many launches and queries each thread has, the maximum of workers
in hand, and whether threads may miss their deadline. In `RunnerCache`, a
runner's references are not counted but read off those who hold them (`current`,
`mine`, a keep-alive thread that looks); `by` is whoever dropped the last one and
runs the destructor.

*Actions.* `Promised`, `Taken`, `Reserved` and `Put` are the atomic operations of
`pop()`, of a promise's `wait()` and `test()`, and the two of `push()`; an action
takes one of them together with the local steps that follow. The waits of
`pop().wait()` and of `push()` are guards; the loop that tests its promise and
offers back workers meanwhile (1516) is `TestFails`, `TryReturn`,
`TryReturnFails`. A block empties its mailbox (`Clear`) before it searches,
counts (`Arrive`) and raises the flag (`RaiseFlag`). The exception of `pause()`
is `ThrowInConstructor` (nothing is given back, and the promise that is waited
for is first kept, by its destructor) and `ThrowInWait` (`~launcher_t` gives back
the job and the pending workers). `Destroy` is the destructor. In `RunnerCache` a
thread's step is one hold of the lock or one change of a reference; `Spawn` is
the construction by a new thread, for which the holder of the lock waits. `Throw`
is an exception of `pause()`: the reference is dropped as after an answer, but
workers of the kernel may be lost, so that the destructor of that runner need not
end (`whole`). `Hash` is a constant operator; the runs give it the xor of the code
(`calculate_parameter_hash`) over three of its arguments, of which it leaves one,
the filter, out.

*Abstractions.* Time is a choice: any look at the clock may find the deadline
passed where `mode.late` allows it, and a runner ages (`Age`) at any time.
`search_core` is one step that writes the answer (`CagraSearch` is about its
inside). The atomics are sequentially consistent, the relaxed store of the
completion flag (1126) included. Streams, the descriptor's arguments other than
where results go, and thread sleeping are left out.

### How CagraSearch and CagraGraph correspond to the code

*CagraSearch.* One query, one thread block. `pc` says between which barriers the
block is. `itopk` and `candidates` are the two parts of `result_buffer` with the
parent mark in the top bit, `table` the hash table, `terminate_flag` the word
that the filter uses as `filter_flag`, too. Nodes are numbered by their distance
to the query. Concurrent threads between two barriers are actions of their own:
`Insert` is one compare-exchange of one thread, `RestoreRead` a thread's read of
an entry of the list that `PickupNextParents` may be marking. A sort is described
by what it returns (`Nearest`: the entries by their distance, equal ones in their
order); the bitonic merge, of a list that it wrongly takes for sorted, may return
any entries (`AnyOf`). The random seeds are part of the plan. `InvalidMoved` is what
all calls of `move_invalid_to_end_of_list` of one iteration come to; the code's
variant for lists beyond 32 entries permutes them and is not distinguished. The
merge at the end of a filtered search is the bitonic one whichever sort the search
has used: after the radix sort it may return any entries. The exclusive or of the
hash is a constant operator, since the proofs need no more of it than that it gives
a number. The size of the table and the reset interval are functions of the plan, as
in `search_plan.cuh`; its loops that look for the first power of two, or the last
interval, that fits are minima and maxima of sets.
In the refinement the beam is the list, and the expanded nodes
are the marked ones whose neighbours have been merged; the table and the
candidates are invisible. A search with a filter shows nothing to `BeamSearch`.

*CagraGraph.* `phase` is the kernel or host loop that runs, `thread[i]` the thread
of node i in it. The threads of the update kernel take a place by `atomicAdd`
(`TakePlace`) and write both ends (`WriteEdge`), reading rows that others are
writing; those of the labelling kernel lower labels (`Look`) and compare-exchange
them (`Join`). The `m > graph_size` at 320 lets the value of an empty slot pass and
reads a label past the end: `Alternate` lets that test come out either way.
The test for a row that already leads to the own cluster is one step. `Prune` and
`Store` are kernels whose threads touch only their own row, and single steps.
The merge is parallel over rows that do not depend on one another, so its rows are
taken in order. It reads the host matrix `pruned_graph` (1356) to which nothing is
written: the pruning writes its result to the output graph. Each word that it
reads is any of `Junk`, the values that unwritten memory may hold.

### Bounds

| Bound | Where | Why |
|---|---|---|
| `MaxCalls` (VecFlow) | builds in a behaviour | one process's file is another's cache: two suffice for a stale or short file, three for one that is refused and written again |
| `MaxSearches` | searches in a behaviour | two let an error of the first reach the second |
| `UintRange` | 2^32 | 64, which every matrix of the runs fits into |
| `Faults` | which faults happen | none, a full disk, a full disk and crashes; in the runs of `VecFlow` the errors that searches leave behind |
| `MaxReqs` (`PersistentSearch`), `Modes` | launches per thread, and with how many queries | two threads that each want both workers; one comes back while stragglers of its first batch are still at work; exceptions are in instances with one launch each |
| `WorkerSize`, `NumJobs`, `Increment` | 4 and 2 for the code's powers of two, 3 | the queue of workers goes round, its order in memory is not that of the numbers |
| `Pauses` | guard of `TryReturn` | FALSE: no thread in its testing loop sleeps while others go once round the queue; `ps_lap` sets it |
| `MaxCalls` (`RunnerCache`), `Asks`, `Late` | searches of a thread: 2 and 1; what it searches with; who may throw | runners are replaced, dropped and created again while others use them; of three sets of parameters two have one hash; one thread throws |
| `Fits`, `InitWaits` | the GPU has room for two kernels; the constructor's stream waits for room | FALSE, the harder case; FALSE, see below |
| `IndexBits`, `SmallBits`, `MinBits`, `FillNum`, `FillDen` | width of an index, sizes and fill rate of the tables | tables of 4 and 8 places, which are emptied once or twice in a search, and 8 or more for a whole search |
| `Plans` | graphs, seeds, sizes | all graphs of four nodes with degree 2, walks of up to 20 nodes that outgrow the table, two parents at a time, both sorts, with and without a filter |
| `GraphSize`, `Jobs` | 4 nodes, degree 2 or 3 | a graph of two pairs that must be joined, one with a single nearest node whose incoming slots run out |
| `Junk` | what unwritten memory holds | a node, or no node |

The bounds of dynamic batching:

| Bound | Where | Why |
|---|---|---|
| `MaxReqs` | requests per thread | with two requests a thread meets its own leftovers; the ring of two slots wraps two or three times |
| `RoundBound` | guard of `TryCommit`, `AwaitBuffer` | a thread does not sleep while its slot advances 1024 rounds; `Status` would misread the token (a hazard of the list) |

`Spec` puts no bound on pauses: a dispatcher may stop anywhere for as long as it
likes, and `dyn_ring`, `dyn_split` and the theorems without `TimelySpec` cover that.
What callers are promised does not survive every pause. `TimelySpec` has the
behaviours of `Spec` in which dispatchers are on time (`OnTime`): when one launches
its gather kernel, none that is a whole ring (`KSize` batches) behind is still to
publish its batch, and the last one to use the same buffer has recorded its
completion event. Nothing in the code enforces this; it holds as long as no thread
sleeps between 1037 and 1101 while the others fill and search 256 batches, or
between 1089 and 1099 while its own scatter kernel runs and another thread takes the
buffer. The ring has two slots in the model, which makes wrapping the normal case.

## 4. Runs

| Run | Instance | Shows |
|---|---|---|
| `dyn_ring` | 3 threads, 1 buffer, ring of 2, batches of 2, any pauses | `ClaimsDisjoint`, `PoppedIsDead`: ABA safety of the ring |
| `dyn_split` | 2 threads, 2 buffers, batches of 3, requests of 1 or 2 that split, any pauses | type, no impossible token state, exclusive buffers, complete gathers, closed batches stay closed, answers are the caller's own |
| `dyn_service` | conservative dispatch, 1 buffer, batches of 3, requests of 2 that split, `TimelySpec` | results are there after the stream wait; the dispatcher's size is its own batch's; refinement of `SearchService`, with liveness |

The runs of VecFlow (`vf_`: build, `vs_`: build and search):

| Run | Instance | Shows |
|---|---|---|
| `vf_build` | 3 threads; all ways to label three rows with three labels at two thresholds, larger datasets, builds that share files; two builds | `RegionsDisjoint` (the shared matrix is written without a lock), `EveryRowFiled` (the two loops agree), `GraphIsOwn` (built or loaded), `BuildSucceeds` |
| `vf_crash` | 3 builds that share files, with crashes and full disks | type; a forced build owes nothing to the files; lists are right or the build fails (`ListsAreOwn`) |
| `vs_promise` | 2 datasets, built or loaded, 2 searches of up to 4 queries | `PlacesExclusive`, refinement of `FilteredSearch`: every answer is from the rows of the query's own label |
| `vf_degree` | `graph_degree` = rows of a label | **violated**: the narrower graph is copied at the wide pitch |

The runs of CAGRA (`ps_`: persistent search, `cagra`: one search, `cg_`: graph):

| Run | Instance | Shows |
|---|---|---|
| `ps_launch` | 2 threads with batches of 2 on 2 workers, one launching twice; threads that throw | type; no worker or job in two places (`NoneTwice`), none lost while nobody throws (`NoneLost`); no worker is still at an earlier batch of a job that is reused (`NoStragglers`); refinement of `SearchService` with liveness; the destructor ends |
| `ps_runner` | 2 threads, 3 searches, 3 sets of parameters of which 2 have one hash, room for one kernel, one thread that may throw | type; a search has a runner of its hash, and that has not been destroyed (`RunnerMatches`); while no launch has thrown, every search ends and no kernel stays on the GPU |
| `cagra` | 598 plans, with and without filter; no filter with the radix sort (`cagra_radix`) | type; `NoDuplicates`, `RoomInTable`, `Converged`; refinement of `BeamSearch` |
| `cg_optimize` | 2 kNN graphs of 4 nodes, each with and without spanning graph | type; `EdgesAgree`, `LabelsAreClusters`, `ReverseComplete`; the passes end |
| `cg_pruned` | without spanning graph, unwritten memory is 0 | **violated** (`OnlyOwnEdges`): the merge reads `pruned_graph`, which was never written, and gives node 0 an edge to itself |

Some more configurations are kept beside these and run by hand. Four check the
inductive invariants of section 5 on the instances of the runs: `dyn_inv` (of
`dyn_split`, under `TimelySpec`), `ps_inv` (of `ps_launch`), `ps_residue` (the same with
counters that start at 0 or 1) and `ps_cache_inv` (of `ps_runner`); TLC
finds no error. Each of the others moves one bound or takes other inputs, and TLC
finds the property violated.

| Configuration | Property | Shows |
|---|---|---|
| `dyn_event_race` | `ResultsReady` | under `Spec`: a pause before the record, and the completion event is recorded after the scatter kernel that gives the buffer away |
| `dyn_deadline` | `DeadlineKept` | the dispatcher's store erases tighter deadlines |
| `vf_truncated` | `GraphIsOwn` | a full disk: a short graph file is loaded unnoticed |
| `vf_gap` | `BuildSucceeds` | only unused labels are rare: a kernel without blocks, the build raises |
| `vs_python` | `SearchReadsLiveDataset` | PyVecFlow, rows of whole 16 bytes: the dataset is freed when `build()` returns |
| `ps_lap` | `LaunchesReturn` | with `Pauses`: a thread in its testing loop sleeps while another goes round the queue, and waits at 1360 for the slot of the value that the first is to take; both wait for ever once the first must push, too |
| `ps_cleanup` | `GracefulCleanUp` | after an exception, jobs or workers are missing from the queues: all of a launch whose constructor throws, the worker in hand if `wait()` throws |
| `ps_counters` | `Implements` | with counters that start at 0 or 1: a launch returns before its queries are answered (1766 is never cleared); `NoneLost` fails, too, in the destructor |
| `ps_hash` | `RunnerIsOwn` | the instance of `ps_runner`: a search runs with the filter, or with the numbers exchanged, of another: `calculate_parameter_hash` (1735) leaves some parameters out and its xor does not tell their order, although it is there "to detect if they've changed across the calls" (1712) |
| `cagra_filter` | `InvalidLast` | with a filter, "move invalid index items to the end of the buffer" moves nothing (812): `x & ~msb` is never the invalid index |
| `cagra_radix` | `Converged` | with a filter and the radix sort (chosen when `search_width * graph_degree` is above 256), the search ends with the first parent that is filtered out, though its list has nodes to expand: `filter_flag` is `terminate_flag` (595), and the only store that lowers it after the filter has raised it (774) is in the branch of the bitonic sort (680) |
| `cg_connected` | `Connected` | `guarantee_connectivity`: nodes 0 and 1, 2 and 3 choose each other at the same time, the doubled edges use up the only incoming places at degree 3, and the pairs are never joined |

The builds of `vf_build` take `graph_degree` below the number of rows of a
frequent label, and leave out labelings whose only rare labels are unused:
`vf_degree` and `vf_gap` show what happens otherwise. Its two datasets that share
a file give graph halves of different sizes, which the file's header tells apart.
Deadlock is not checked: a caller that has built and searched is done.

### What the bounds leave out

Where the passing runs are given a bound because the code does something else
beyond it, the model shows it as soon as the bound is moved:

- `dyn_service` under `Spec` instead of `TimelySpec`, and `dyn_ring` with deadlock
  checked: a dispatcher that is paused before its publication
  (`dynamic_batching.cuh:1100`) while the ring wraps takes back the id of a later
  batch, whose other threads then wait for ever; with conservative dispatch one that
  is paused between 1077 and 1082 erases the size of a later batch, whose dispatcher
  waits for ever.
- a request of 0 queries in `ReqSizes`: two threads are at offset 0 of a batch
  and both dispatch it (969, 1032).
- two datasets with graph halves of the same size under one file name: the graph
  of the old labels is loaded (`vecflow_build.cuh:162`).
- `UintRange` below the cells of the matrix: `host_cagra_label_offset[i] *
  graph_degree` (213) wraps and regions overlap.
- a threshold below zero: the build compares `int` with `int` (85), the
  classification kernel `uint32_t` with `int` (`vecflow_common.cuh:85`), and all
  queries go to the half that is empty.
- after a batch without queries the next search or build raises the error that
  its launch has left behind (`vecflow_common.cuh:133-150`), and a build may end
  the process; such batches are in `vs_promise`, where these failures happen and
  which says nothing of searches that raise.

- the first value of a completion counter: the memory of `completion_counters`
  (1766) is never cleared; with `Initially` other than 0 a first batch ends early,
  and the residue stays for the batches after it.
- after an exception in `wait()`, workers are pushed that are still busy, and one
  that was taken from the pending ones and not yet offered back is leaked; the
  destructor then waits for it for ever, in `create_runner` under the lock.
  `NoneLost` and `ShutdownEnds` speak of behaviours in which no launch throws.
- `InitWaits`: if a stream operation in the constructor of a runner waited for
  the old kernel to end, the creating thread would wait under the lock for
  kernels whose keep-alive threads wait for the lock.
- a node of the list may be invalid before the last place under a filter
  (`cagra_filter`); when its place is the `topk`-th, candidates that are in the
  list already are merged into it once more, so that the final list of a
  filtered search may hold a node twice: `NoDuplicates` leaves that list out.
- `Offset` (97): a `graph_size` that is a multiple of it makes the stride of the
  search for a node of the main cluster visit one node in 97, or only itself.
- with `guarantee_connectivity`, a degree of 1 makes `incoming_max_edges` wrap;
  `GraphAssumption` asks for 2.
- in the constructor of the dynamic batching queue, `n_queues` is not compared
  with the 256 slots: the push of the 257th buffer waits for ever
  (`dynamic_batching.cuh:935`). The counters of its ring are unbounded in the
  model; `pop()` at the wrap of 2^32 (479) is left to `BatchQueueWrap`.

Two threads suffice for most of what can happen to a batch (a dispatcher and a
participant, or two dispatchers); three with one buffer are needed so that two
can wrap the ring around a third. Symmetry over the threads is used only in
runs without temporal properties, and only where all threads have the same
timeout.

*Fairness* (`Fairness`): weak fairness of each thread's step inside `search()`
(the operating system runs it), of every kernel and every gather block (all
blocks of a gather kernel are resident: its grid is `max_batch_size` blocks of
32 threads). A block of the gather kernel that polls therefore eventually finds
its query, a closed batch or its deadline passed. Callers are not fair: nobody
has to call `search()`, and the liveness of `SearchService` says that a request
returns without the help of another call.

In `PersistentSearch`, weak fairness of each thread's steps, of each block (the
kernel is launched cooperatively, so all of its blocks are resident) and of the
destructor; none of exceptions and new launches. In `RunnerCache`, of threads,
keep-alive threads, kernels and the passing of time. In `CagraGraph`, of each
kernel thread (a kernel that is launched runs to its end) and of the host.

## 5. Proofs

Every invariant and action property that a passing run checks is a theorem, and so
are the safety part of both refinements of `SearchService`, the refinement of
`FilteredSearch` and that of `BeamSearch`; for all values of the constants that meet
the assumptions. These are the named ones of the modules (types of the constants;
that the increment of a queue's counters is coprime with its size, which the code
asserts, `IncrementAssumption`). Some theorems have hypotheses besides, which they
state and this section discusses.

### Dynamic batching

| Theorem | Hypothesis | Shows |
|---|---|---|
| `TypeCorrect` | none | `TypeOK` |
| `RingCorrect`, then `ClaimsAreDisjoint`, `BuffersAreExclusive`, `PoppedStaysDead`, `NeverInvalid`, `ClosedForGood` | `NoEmptyRequest` | `RingInv` is an invariant; `ClaimsDisjoint`, `BufferExclusive`, `PoppedIsDead`, `NoInvalidState`; the action property `ClosedStays` |
| `AnswersCorrect`, `GatherIsComplete`, `AnswersAreOwn` | `NoEmptyRequest` | `AnswersInv`, `GatherComplete`, `AnswerIsOwn` |
| `SizesCorrect`, `SizesAreOwn` | and `TimelySpec` | `SizesInv`, `SizeIsOwn` |
| `ReadyCorrect`, `ResultsAreReady` | and `TimelySpec` | `ReadyInv`, `ResultsReady` |
| `LiveCorrect`, `ImplementsService` | and `TimelySpec` | `LiveInv`; `Service!Safe` |

*Hypotheses.* `NoEmptyRequest`: no request has 0 queries; the code lets such a
request pass (969) and it becomes a second dispatcher, so the theorems would be
false of it. The theorems of the last three rows are about the behaviours of
`TimelySpec` (section 3), `TimelySpec => []ResultsReady` and so on: the hypothesis is
on the pauses of a behaviour, not on a constant, and without it they are false
(`dyn_event_race`). The others are about `Spec`, with any pauses. `RoundBound` is a
guard of the model, not a hypothesis: a thread looks at its slot before that has
advanced by 1024 rounds.

*Types.* `TypeOK` is not inductive as it stands: that a commit, a pointer or a
returned buffer stays in range depends on how the variables fit together.
`TypeInv` adds: a full token names an IO buffer (`TokenBuf`), a thread in the loop
still needs at least what it has claimed (`ReqFits`), a claim lies within the
batch and its pointer loop within the claim, and it has a buffer from `launch` on
(`ClaimFits`), and the stages of a kernel have the fields they use (`KernelSet`).

*The ring* (`RingInv`). A thread that has committed keeps its slot where it is
as long as it has something to hand over: that is the reason why no claim is
ever doubled, and all parts serve to show it. `SlotInv`: a slot is at most one
round behind the head and the reservations, and full exactly when its batch was
reserved and its buffer has arrived. `ReservedInv`: a slot reserved by a push,
but not filled, has one holder (a thread or a kernel), and no reservation is
more than a round ahead. `DueInv`: every batch before the tail has a buffer
coming or has been launched, which, with no more buffers than slots, bounds how
far a push can be ahead of an unfilled slot. `PoppedInv`: behind the head nobody
can commit. `OffersInv`: a buffer is in one slot. `ThreadInv`: what a thread has
claimed is committed in its slot, while it has rows to hand over. `KernelInv`: a
buffer is offered only while nothing runs on it, and is in no slot from the end
of its gather kernel to its push. `BlockInv`: a block of the gather kernel
leaves only when its row was taken or cannot be committed any more; here the
race of the closing byte with a compare-exchange is decided.

*Answers* (`AnswersInv`). `RowInv` says of each row of a buffer that the batch
store has the query whose output the pointer names, and `HandedInv` of each row a
thread has handed over that it is still its own in the pointers or in the
store. `SizesInv`: each slot has at most one dispatcher at work, and each size that
waits in a slot is for its own.

*Readiness* (`ReadyInv`). `DispatchedInv`: published ids only grow, and
a batch is published after its gather kernel was launched. `EventInv`: the
event of a buffer in use was recorded for its own batch before that is published.
`DoneInv`: a batch is complete only when its buffer is idle. `GivenInv`: the
upstream search gets at least all rows. `FinishedInv`: whatever a thread is done with
is answered or in a batch that its stream waits for, which at `synced`, when
nothing is waited for, is `ResultsReady`; `CarriedInv` is the same for the batch
in hand.

*Refinement.* `StartSearch` is `Call`, `ScatterCopy` is `Answer`, `Return` is
`Return`; every other step leaves what `SearchService` sees as it was. `Answer`
demands that no query is answered twice and none outside its call, which is what
`LiveInv` is for: rows whose output is still to be written name queries that
are handed over and not answered (`OpenInv`), each query once (`DistinctInv`),
and nothing else of the request is answered (`FirstInv`).

### The persistent search

| Theorem | Hypothesis | Shows |
|---|---|---|
| `HandsCorrect`, `NeverTwice`, `NothingLeaks` | none | `HandsInv`, `NoneTwice`, `NoneLeaks` |
| `TypeCorrect` | `CountersBelow` in the first state | `TypeOK` |
| `CompletionCorrect`, `NothingLost`, `FreeJobsAreFree` | `Zeroed` in the first state | `CompletionInv`, `NoneLost`, `NoStragglers` |
| `AnswersCorrect`, `ImplementsPromise` | `Zeroed` in the first state | `AnswersInv`; `Promise!Safe` |

*Hypotheses.* The memory of `completion_counters` (1766) is not cleared, so that
nothing in the code sees to `Zeroed`. The theorems that need it say so in their
statement (`Spec /\ Zeroed => ...`): they are about the behaviours that start with
clean counters, and show that the search never makes one dirty. In the others the
last group is false: a residue ends a batch early, and no later batch removes it.
What holds in all behaviours is in the first group. `NothingLeaks` is the part of
`NoneLost` that does not rest on the counters (`KeptInv`): a launch that takes a
residue for its end gives busy workers back, but it gives back each, once. Only the
destructor's account needs more, as a busy worker may empty its mailbox of the
order to stop; `ps_residue.cfg` checks the first group with dirty counters.
`HandsCorrect`, `NeverTwice` and `TypeCorrect` hold with exceptions, too; the others
speak of instances in which no thread misses its deadline (`~mode.late`), as the
properties do.

*Hands* (`HandsInv`). What a launcher has follows from its place in `launch()`:
a job between `record_work` and its return, a worker to submit to at `submit` and
`evict`, one to give back in `try_return_worker`, room for it in the local queue
(`LauncherInv`). With that, no worker is in two places of a launcher (`Apart`),
with two launchers, or with one and in the queue, and a queue holds nothing twice
(`WorkersInv`, `JobsInv`). That a push never overwrites a value needs no
arithmetic of the numbers of pushes: it waits until its slot is empty, whichever
that is.

*Completion* (`CompletionInv`). For each job in use, its counter and the queries
that are in a mailbox or not counted yet add up to those submitted, until the last
one; then the counter is at 0 again and the flag is raised, by exactly one block
(`CountInv`, `RaiseInv`). An unused job has counter 0 and no query anywhere
(`UnusedInv`). A mailbox is full only while a launcher has its worker and waits for
it (`MailInv`), therefore a worker in the queue can be given a query, or be
told to stop. Every worker and every job is somewhere (`ThereInv`).

*Answers and refinement* (`AnswersInv`). A query is with exactly one worker, in its
mailbox or in its block, from the submission until it is answered, and with none
before and after. `Launch` is `Call`, `Search` is the `Answer` of one query, and
`PushJob` is `Return`: at that point the flag was raised, so nothing is
outstanding, so all queries are answered. All other steps are invisible.

### The runner cache

`RunnerCacheProofs` proves `TypeCorrect`, `RunnersLive` (a runner lives exactly
as long as somebody refers to it) and `RunnersMatch` (`RunnerMatches`), whatever the
hash tells apart and whoever throws. The invariant is `CacheInv`: a runner has the
hash of its parameters; a thread that is about to launch has a reference to a runner
with the hash of the parameters it wants; while a thread creates a runner, there is
no global one. That the runner has the search's own parameters (`RunnerIsOwn`) would
need a hash that tells all parameters apart, which the code's does not: `ps_hash`.

### The VecFlow build

Of `vecflow::build`, for every set of calls, any number of threads and, where no
hypothesis says otherwise, all faults:

| Theorem | Hypothesis | Shows |
|---|---|---|
| `TypeCorrect` | none | `TypeOK` |
| `RowsFiled` | none | `EveryRowFiled`: the offsets of the first loop over the labels address the maps that the second one fills |
| `ThreadsDisjoint` | `Fits` | `RegionsDisjoint`: the threads of the parallel loop, which share the host matrix without a lock, write disjoint parts of it |
| `MadeGraphsAreOwn` | `Fits`, `Wide`, `Makes` | `GraphIsOwn` of a call that makes its graphs |
| `ForcedGraphsAreOwn` | `Fits`, `Wide` | `ForcedGraphIsOwn` |
| `BuildsSucceed` | not `OnlyUnusedRare`, no pending error | `BuildSucceeds` |
| `MadeListsAreOwn` | `MakesLists` | `ListsAreOwn` of a call that makes its lists |
| `GraphsAreOwn` | `Fits`, `Wide`, `Faultless`, `OneDataset` | `GraphIsOwn`, made or loaded |
| `IndexListsAreOwn` | `Faultless`, `OneDataset` | `ListsAreOwn`, made or loaded |

and of build and search together:

| Theorem | Hypothesis | Shows |
|---|---|---|
| `PlacesAreExclusive` | none | `PlacesExclusive` |
| `KeepsPromise` | `Fits`, `Wide`, `Faultless`, `OneDataset`, `ThresholdsFit` | `VecFlowSpec` implements `FilteredSearch` |

*Hypotheses.* Each leaves out something that the code does not guard against,
and a run or a note of section 4 shows what happens then. `Fits`: `uint32_t` can
count the elements of the matrix; otherwise the product at `vecflow_build.cuh:213`
wraps (TLC shows it when `UintRange` is below the size of the matrix). `Wide`: a
label of the graph half has more rows than a graph row has columns; otherwise the
graph is narrower than what is copied (`vf_degree`). `Makes` and `MakesLists`:
the call has `force_rebuild` or names no file for that half. `OnlyUnusedRare`:
all labels of the list half are without rows, and the kernel is launched without
a block (`vf_gap`). No pending error: `"cuda"` is not in `Faults`. `Faultless`:
neither `"crash"` nor `"disk"` is; a short graph file is loaded unnoticed
(`vf_truncated`). `OneDataset`: calls that name the same file
have the same labels, threshold and degree; a file does not say what it was made
from. `ThresholdsFit`: no threshold is negative, as build and search compare it
with different types. The last three are hypotheses on constants; `Fits` and
`Wide` depend on the call and are part of the formula, `KeepsPromise` assumes that
they always hold. All of them are true of the instance of `vs_promise`.

The offsets themselves are `uint32_t` in the code and unbounded in the model: a
half with 2^32 rows or more is out of the model's range.

*The loops over the labels.* Neither `EveryRowFiled` nor `RegionsDisjoint` is
inductive: they speak of the state after the loops, or of labels that threads
hold, and nothing in them says how far a loop has come. The invariant `IInv`
(TLC finds it true on the instances of `vf_build` and `vf_crash`) adds the
following. `InvertedInv`: the rows collected for a label are those of the first
`i - 1` that carry it. `SizesInv` and `OffsetsInv`: the labels sized so far lie
one after the other in their half, with a label of the other half taking no
room, and the total is where the last one ends. `MapsInv`: each map ends where
the last label mapped so far ends, and holds every label's rows at its offset,
which is why appending a label's rows puts them in the right place.
`WorkersInv`: each label is either in `todo` or with at most one thread.
`StageInv`, `KernelInv` and `GraphInv` bound the loop index, the threads of the
kernel and the matrix. The proof has a lemma for each step of the loops; the
later steps leave what the loops made (`LaterFrame`), so that one lemma
(`LaterKeeps`) carries the first five parts over all of them.

*Graphs.* `BuildInv` follows a label's graph through the parallel loop: a label
that is neither waiting nor in a thread's hands has its graph in its region
(`OwnInv`), and stays so while other threads copy theirs (`CopyKeepsOwn`, from
the disjoint regions). `PathInv` says which calls get to the loading and saving.

*Lists.* `ListsInv` says of every list, while the threads of the kernel run, that
it holds as often as it is to at the end each row whose thread has run, and no
other (`Filling`). It needs that a thread's binary search finds the list of its
row, `ListOfRow`. Its recursive function is defined for every range at once; the
proof gives the values in closed form (the last label whose list begins at or
before the row) to show that such a function exists, and takes a least range on
which it differs (`LeastNatural`) to show that the function has these values.

*Files.* What one call saves, another may load if both have the same rows per
label, sizes, offsets and total. `Inverted` says what the first rows of a dataset
enter under a label, in which order; there is one such sequence (`InvertedOnce`),
and so one layout of the graph half (`OneLayout`). `GraphCacheInv` says that the
file, once closed, holds the graph of a call that names it; while it is written,
that it holds the first rows of the matrix in memory. `ListsCacheInv` does the
same for the lists, of which it knows the contents and not the order.

*Search.* `SearchInv` is the invariant of `VecFlowSpec` for both kernels.
`Places`: in each half, the places that were taken are the numbers up to the
counter, no two queries have the same, and a query without one has a thread that
has still to run. `Slots`: at the place of a query whose thread is done is that
query. `HalfFound` and `MergeInv` carry this through the two searches and the
merge: a query whose place is not waiting to be merged has its own answer. That
the answer is right needs all of the above: the search goes to the half where
the build has filed the label (`SameHalf`), finds there a graph over the label's
own rows (`GraphIsRight`) or a full list (`ListIsRight`), and both hold the rows
that carry the label (`RowsOfLabel`). With it every step of build and search is one
of `FilteredSearch` or leaves its variables alone (`PromiseBuilding`,
`PromiseSearching`).

The assumptions are the types of a call's arguments (`CallsAssumption`), that a
batch is an array of numbers (`RequestsAssumption`), those of the bounds, and
`LargestLabelAssumption`: a call's labels have a largest one, a natural number.
It holds because a dataset is finite, but following it from the definition of
the maximum needs an induction over finite sets that the installed provers do
not do; TLC evaluates it in each run.

### The CAGRA search

`CagraSearchProofs`, for any graph, plan and outcome of the random choices, any
width of an index and any sizes and fill rate of the tables:

| Theorem | Hypothesis | Shows |
|---|---|---|
| `SearchTypes` | none | `TypeOK` |
| `TableHasRoom` | none | `RoomInTable` |
| `NodesOnce` | none | `NoDuplicates` |
| `EndsConverged` | no filter, or the bitonic sort | `Converged` |
| `ImplementsBeam` | none | `Spec => Implements` |

The hypothesis of `EndsConverged` is part of its formula and is where the case
of `cagra_radix` lies: the flag that the filter raises is lowered only before the
bitonic sort. `ImplementsBeam` speaks of searches without a filter, since a filtered one
shows nothing to `BeamSearch`. `PlansAssumption` asks that a table is found that
holds the whole search, unless a small one is: the code raises an exception if
there is none (`search_plan.cuh:317`).

*The table* (`TableInv`). Linear probing finds a key again because, between the
home of a key and its place, no place is empty and none holds the key; a thread on
its way has passed no such place. Both survive the insertions of others, since a
place that is filled stays so until the table is emptied, when no thread is on its
way. It follows that a thread which is told "new" is the only one for its key.

*Its room* (`RoomInv`). The filled places and the threads still inserting are
at most `Budget`: the list, and the candidates of all rounds since the table was
emptied. After an emptying there are none, while it is restored as many as the list
is long. `ResetInterval`, or the size for the whole search, makes every budget
smaller than the table (`BudgetFits`; the fill rate is below 1), so that an
empty place is left (`RoomThere`). Neither `RoomInTable` nor the count of filled places
is inductive without the threads under way.

*No node twice* (`DistinctInv`). What list and candidates hold is in the table, and
once in the buffer; a candidate is new to the table, hence to the list. The difficult
phase is `pick` after an emptying: a node of the list is in the table, or a
thread has still to read it, or carries its key, whether the parent mark was set when
it read or not (`RestoreKey` clears it). At the barrier all are in the table again.

*The end* (`FlagInv`). Without a filter, a raised flag means that all entries are
marked, and that no sort brings in others, since without parents there are no
candidates. With a filter and the bitonic sort, a raised flag does not survive the sort.

*Refinement* (`BeamInv`). The implementation remembers visited nodes,
`BeamSearch` does not. What makes them agree is `Met`: a node that is in the
table, and is not in the list (or, before a sort, among the candidates), is
farther than all entries of a full list (`Outdone`). A neighbour that the table
drops would thus not have entered the beam; and lists only get nearer, so that
`Outdone` is never lost. `Expanding` says that the parents in hand are the
nearest nodes that were not expanded, and marked by now. For each thread the
invariant says which node it was asked to insert and, once it is done, that the
node is in the table (`MetInv`). The lemmas about the operators are that the
nodes of a sorted list are the nearest of what was sorted (`SortMerges`,
`SortMeets`, `BeamIs`), that the first unmarked entries of an ascending list are
the nearest unmarked nodes (`PickNearest`), and that the threads of an iteration
cover the neighbours of the parents (`ChildrenAre`). The first sort is `Start`,
every later one `Expand`; leaving the loop (`Sorted`, `Picked`) is `Finish`,
where `FlagInv` says that nothing is left to expand; all other steps are
invisible (`BeamStep`).

### The CAGRA graph

`CagraGraphProofs`, for any number of nodes, any kNN graphs and any contents of the
memory that nothing has written:

| Theorem | Hypothesis | Shows |
|---|---|---|
| `GraphTypes` | none | `TypeOK` |
| `BothEndsWritten` | none | `EdgesAgree` |
| `LabelsRight` | none | `LabelsAreClusters` |
| `ReverseGraphComplete` | none | `ReverseComplete` |

*Edges* (`EdgesInv`). `EdgesAgree` speaks of the state after a kernel. While its
threads run, the counter of incoming edges of a row is ahead of what was
written, and may pass its limit. `SlotsInv` says that every slot passed by a
counter is written or awaited by exactly one thread that has taken its place
(`Awaited`), and `Found` what such a thread has made sure of. `EndsInv` counts:
as many outgoing slots of i name j as incoming slots of j name i; a thread
writes both ends in one step, so both counts grow together. `LimitsInv` keeps
the two halves of a row apart, also after `Adjust` has moved the limits.

*Labels* (`LabelsInv`). A set of nodes that no edge leaves (`Closed`) is never
left by a label either: a thread joins the roots of two ends of an edge, which
are in the same closed sets. Conversely, as long as a pass has reported no
change, the ends of each edge that a thread has looked at have the same label,
which is a root (`Settled`): a thread that finds them different reports a
change. At the end of such a pass all edges are settled, so the nodes of one
label form a closed set, whose smallest member is the root since labels only
lead downwards. That the recursion of `get_root_label` ends is a lemma
(`RootExists`), by a least node at which it would not.

*Reverse edges* (`ReverseInv`, `OutputInv`). A row of the reverse graph holds, up to
its counter, the nodes whose edge has been reversed so far (`Into`), each once; a place
beyond the degree is counted and not written. The threads of the merge
stay within their rows because fewer edges are protected than a row has, whatever
`pruned_graph` holds.

### Only model-checked

- Liveness, here and in the refinements (that every call of the dynamic batching
  index and every launch returns, `ShutdownEnds`, `EverySearchEnds` and `KernelsLeave` of the runner
  cache, the passes of the graph optimisation end): out of the reach of the proof
  system, as is ENABLED.
- `Converged` of a search with a filter and the radix sort, which is false
  (`cagra_radix`).
- `SearchReadsLiveDataset`, and the properties of the other runs that expect a
  violation: the code does not have them.

## 6. Not modelled

See the status of each component in `PROJECT.json`. Most of the repository is
numerical: kernels for distances, selection, clustering, quantisation and graph
construction, of which a call is a function of its input, their instantiations
for each type, the headers that declare them for C++, C, Python and Rust, and the
benchmarks. A state machine has nothing to say about those, which is why the
model covers a small share of the lines: those where threads, kernels, files and
lifetimes meet. Of what remains:

- the multi-CTA and multi-kernel searches share the list, the table and the plan
  with `CagraSearch`; the filtered copy of the single-CTA kernel differs in how a
  query's region of the graph is found, not in its protocol. Of the filtered
  copy under a sample filter: it reads the index map before it has tested the
  index for validity;
- `extend` (`add_nodes.cuh`) works on new nodes one batch at a time, a thread for
  each node in its own row;
- the index interface and the multi-GPU index: no lock is held (`iface.hpp:39`),
  each shard belongs to one thread, and the merge is sequential;
- the shared stream pool, serialization formats other than VecFlow's caches;
- the lambda of the thread that `create_runner` starts notifies (1972) after the
  creating thread may have returned from the frame that holds the condition
  variable, and an exception in it ends the process: undefined behaviour in the
  first case, none to model in the second.

Weak memory effects of the relaxed atomics are not modelled: the tokens are
accessed with acquire-release read-modify-writes by the host and volatile accesses
by the GPU, and the plain data (request pointers) is published by a release store
that the gather kernel acquires; the mailboxes and queues of the persistent search
are likewise exchanged by acquire-release operations.
