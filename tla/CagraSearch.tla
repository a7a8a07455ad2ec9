----------------------------- MODULE CagraSearch -----------------------------
(***************************************************************************)
(* The search of one query by one thread block: search_core of             *)
(* cpp/src/neighbors/detail/cagra/search_single_cta_kernel-inl.cuh, with   *)
(* the table of visited nodes (hashmap.hpp, device_common.hpp) and the     *)
(* choice of its size (search_plan.cuh).                                   *)
(*                                                                         *)
(* The block keeps a sorted list of the nearest nodes (internal_topk).  In *)
(* every iteration it marks the nearest ones that are not marked yet as    *)
(* parents, reads their neighbours from the graph, drops those that the    *)
(* hash table says have been visited, and merges the rest into the list.   *)
(* A small table is emptied now and then and refilled from the list, while *)
(* the parents are being marked there.                                     *)
(*                                                                         *)
(* Threads of the block run concurrently between barriers (__syncthreads). *)
(* Nodes are numbered by their distance to the query, so that distances    *)
(* need no variable of their own: that of an invalid index is the largest. *)
(***************************************************************************)
EXTENDS Integers, Sequences, FiniteSets, FiniteSetsExt, SequencesExt

CONSTANTS
  IndexBits,   \* width of IndexT
  XorBits(_, _),   \* ^ of integers
  SmallBits,   \* min_bitlen .. max_bitlen of a small hash
  MinBits,     \* min_bitlen of a normal hash
  FillNum, FillDen,  \* hashmap_max_fill_rate
  Plans        \* the searches that are checked together, see PlansAssumption

Msb     == 2^(IndexBits - 1)
Invalid == 2 * Msb - 1           \* ~0: no node, and an empty place of the table
Used(x)  == x >= Msb             \* x & index_msb_1_mask
Clear(x) == x % Msb              \* x & ~index_msb_1_mask

ASSUME TableAssumption ==
  /\ IndexBits \in Nat \ {0} /\ \A x, y \in 0..Invalid : XorBits(x, y) \in Nat
  /\ SmallBits \subseteq Nat \ {0} /\ MinBits \in Nat
  /\ FillNum \in Nat /\ FillDen \in Nat /\ FillNum < FillDen

VARIABLES
  plan,           \* the search
  pc,             \* between which barriers the block is
  itopk,          \* result_buffer: the list ...
  candidates,     \* ... and the neighbours
  table,          \* local_visited_hashmap
  parents,        \* parent_list_buffer: places in the list, 0 for none
  terminate_flag, \* and filter_flag, which is the same word
  iter,
  probe           \* thread -> its insertion: position, key and places tried

vars == <<plan, pc, itopk, candidates, table, parents, terminate_flag, iter, probe>>

-----------------------------------------------------------------------------
(* The plan. *)

NumCandidates(p) == p.search_width * p.degree
MaxIterations(p) ==
  IF p.max_iterations < p.min_iterations THEN p.min_iterations ELSE p.max_iterations
HashMode(p) == IF p.filtered THEN "HASH" ELSE p.hash

\* max_visited_nodes of so many iterations, and the fill rate.
Visited(p, iterations) == p.itopk_size + NumCandidates(p) * iterations
FitsInto(n, bitlen)    == n * FillDen <= 2^bitlen * FillNum

\* The small table if there is one that is large enough, or 0.
SmallBitlen(p) ==
  LET enough == {b \in SmallBits : FitsInto(Visited(p, 1), b)}
  IN  IF HashMode(p) = "AUTO" /\ enough # {} THEN Min(enough) ELSE 0
\* Otherwise one for the whole search; more than 20 bits are refused.
Bits(p)   == {b \in MinBits..20 : FitsInto(Visited(p, MaxIterations(p)), b)}
Bitlen(p) == IF SmallBitlen(p) > 0 THEN SmallBitlen(p) ELSE Min(Bits(p))
IntervalTooLong(p) ==                            \* mutant: one iteration more
  IF SmallBitlen(p) = 0 THEN 1024 * 1024
  ELSE 1 + Max({r \in 1..2^SmallBitlen(p) : FitsInto(Visited(p, r), SmallBitlen(p))})
ResetInterval(p) ==
  IF SmallBitlen(p) = 0 THEN 1024 * 1024
  ELSE Max({r \in 1..2^SmallBitlen(p) : FitsInto(Visited(p, r), SmallBitlen(p))})

\* allowed: what the sample filter lets pass, filtered: whether there is one;
\* seeds: the outcome of the random choices, one for each place of the buffer;
\* Bits: a table for the whole search is found, unless a small one is.
ASSUME PlansAssumption ==
  \A p \in Plans :
    LET nodes == DOMAIN p.graph IN
    /\ nodes \subseteq 0..(Msb - 2) /\ p.allowed \subseteq nodes
    /\ p.degree \in Nat \ {0} /\ p.graph \in [nodes -> Seq(nodes)] /\ p.seeds \in Seq(nodes)
    /\ \A n \in nodes : Len(p.graph[n]) = p.degree
    /\ p.itopk_size \in Nat \ {0} /\ p.search_width \in Nat \ {0}
    /\ Len(p.seeds) = p.itopk_size + NumCandidates(p)
    /\ p.topk \in 1..p.itopk_size
    /\ p.max_iterations \in Nat \ {0} /\ p.min_iterations \in Nat
    /\ p.hash \in {"AUTO", "HASH"} /\ p.bitonic \in BOOLEAN /\ p.filtered \in BOOLEAN
    /\ SmallBitlen(p) > 0 \/ Bits(p) # {}

-----------------------------------------------------------------------------
(* The table: open addressing with linear probing. *)

Size       == 2^Bitlen(plan)
Places     == 0..(Size - 1)
EmptyTable == [a \in Places |-> Invalid]
Home(key)  == XorBits(key, key \div Size) % Size

Probing(key) == [pc |-> "probe", key |-> key, tried |-> 0]
Done         == [pc |-> "done", key |-> Invalid, tried |-> 0]

\* The place that thread i tries next.
Place(i) == (Home(probe[i].key) + probe[i].tried) % Size

\* After its insertion thread i writes x to its place of the buffer; the threads
\* that restore the table write nothing.
Written(i, x) ==
  LET size == plan.itopk_size IN
  CASE pc = "seeds" /\ i <= size -> itopk' = [itopk EXCEPT ![i] = x] /\ UNCHANGED candidates
    [] pc = "seeds" /\ i > size  -> candidates' = [candidates EXCEPT ![i - size] = x]
                                    /\ UNCHANGED itopk
    [] pc = "children" -> candidates' = [candidates EXCEPT ![i] = x] /\ UNCHANGED itopk
    [] pc = "pick"     -> UNCHANGED <<itopk, candidates>>

\* One atomicCAS: the key is entered, found, not found at the last place, or the
\* next place is to be tried.
Insert(i) ==
  LET key  == probe[i].key
      old  == table[Place(i)]
      last == probe[i].tried + 1 = Size
  IN
  /\ probe[i].pc = "probe"
  /\ table' = IF old = Invalid THEN [table EXCEPT ![Place(i)] = key] ELSE table
  /\ IF old \in {Invalid, key} \/ last
     THEN /\ probe' = [probe EXCEPT ![i] = Done]
          /\ Written(i, IF old = Invalid THEN key ELSE Invalid)
     ELSE /\ probe' = [probe EXCEPT ![i].tried = @ + 1]
          /\ UNCHANGED <<itopk, candidates>>
  /\ UNCHANGED <<plan, pc, parents, terminate_flag, iter>>

Barrier == \A i \in DOMAIN probe : probe[i].pc = "done"

-----------------------------------------------------------------------------
(* Sorting: an invalid index has the largest distance. *)
Nearer(x, y) == Clear(x) < Clear(y)
InOrder(s)   == \A k \in 1..(Len(s) - 1) : ~Nearer(s[k + 1], s[k])

\* The entries of s by their distance; equal ones stay in their order.
Rank(s, k) ==
  Cardinality({j \in DOMAIN s : Nearer(s[j], s[k]) \/ (~Nearer(s[k], s[j]) /\ j < k)}) + 1
SortedByDistance(s) == [r \in DOMAIN s |-> s[CHOOSE k \in DOMAIN s : Rank(s, k) = r]]

\* The k-th smallest number of S.
Nth(S, k) == CHOOSE x \in S : Cardinality({y \in S : y < x}) = k - 1

\* What both sorts leave of the list and the candidates.
Nearest(all) ==
  LET sorted == SortedByDistance(all) IN [k \in 1..plan.itopk_size |-> sorted[k]]
AnyOf(all) ==
  {[k \in 1..plan.itopk_size |-> all[f[k]]] :
     f \in {f \in [1..plan.itopk_size -> DOMAIN all] : IsInjective(f)}}

\* topk_by_bitonic_sort_and_merge takes the list for sorted, except in the first
\* iteration; of one that is not, any entries may be left, in any order.
BitonicMerge(list, rest, first) ==
  IF first \/ InOrder(list) THEN {Nearest(list \o rest)} ELSE AnyOf(list \o rest)

\* The bitonic sort sorts the candidates in place, as many as the list has
\* entries; topk_by_radix_sort leaves them as they are.
CandidatesAfter ==
  LET sorted == SortedByDistance(candidates)
  IN  [k \in DOMAIN candidates |->
        IF plan.bitonic /\ k <= plan.itopk_size THEN sorted[k] ELSE candidates[k]]

\* move_invalid_to_end_of_list, called for each parent: so many invalid entries, the
\* first ones, move to the end.  The last entry is invalid then, whatever it was.
InvalidMoved ==
  LET holes == {k \in DOMAIN itopk : itopk[k] = Invalid}
      moved == {k \in holes : Cardinality({j \in holes : j < k}) < plan.search_width}
      kept  == DOMAIN itopk \ moved
  IN  [k \in DOMAIN itopk |->
        IF k <= Cardinality(kept) /\ k < plan.itopk_size THEN itopk[Nth(kept, k)] ELSE Invalid]

Resets == (iter + 1) % ResetInterval(plan) = 0

-----------------------------------------------------------------------------
\* The table is empty, and the threads of the random nodes insert them.
Init ==
  /\ plan \in Plans
  /\ pc = "seeds" /\ iter = 0 /\ terminate_flag = FALSE /\ parents = <<>>
  /\ itopk = [i \in 1..plan.itopk_size |-> Invalid]
  /\ candidates = [i \in 1..NumCandidates(plan) |-> Invalid]
  /\ table = EmptyTable
  /\ probe = [i \in DOMAIN plan.seeds |-> Probing(plan.seeds[i])]

SeedsDone ==
  /\ pc = "seeds" /\ Barrier
  /\ pc' = "sort" /\ probe' = <<>>
  /\ UNCHANGED <<plan, itopk, candidates, table, parents, terminate_flag, iter>>

SortKeepFlag ==                                  \* mutant: the flag is not lowered
  /\ pc = "sort"
  /\ LET moved == plan.filtered /\ plan.bitonic /\ terminate_flag
         list  == IF moved THEN InvalidMoved ELSE itopk
     IN  itopk' \in IF plan.bitonic THEN BitonicMerge(list, candidates, iter = 0)
                    ELSE {Nearest(list \o candidates)}
  /\ candidates' = CandidatesAfter
  /\ table' = IF Resets THEN EmptyTable ELSE table
  /\ parents' = <<>>
  /\ pc' = "sorted"
  /\ UNCHANGED <<plan, iter, probe, terminate_flag>>

\* The list and the candidates are merged, after filtered parents have been moved
\* out; a small table is emptied meanwhile, or after the radix sort.
Sort ==
  /\ pc = "sort"
  /\ LET moved == plan.filtered /\ plan.bitonic /\ terminate_flag
         list  == IF moved THEN InvalidMoved ELSE itopk
     IN  /\ itopk' \in IF plan.bitonic THEN BitonicMerge(list, candidates, iter = 0)
                       ELSE {Nearest(list \o candidates)}
         /\ terminate_flag' = (terminate_flag /\ ~moved)
  /\ candidates' = CandidatesAfter
  /\ table' = IF Resets THEN EmptyTable ELSE table
  /\ parents' = <<>>
  /\ pc' = "sorted"
  /\ UNCHANGED <<plan, iter, probe>>

\* Where the loop is left to.
Left == IF plan.filtered THEN "post" ELSE "done"

SortedLate ==                                    \* mutant: off by one
  /\ pc = "sorted"
  /\ pc' = IF iter = MaxIterations(plan) THEN Left ELSE "pick"
  /\ probe' = IF pc' = "pick" /\ Resets
              THEN [i \in DOMAIN itopk |-> [Done EXCEPT !.pc = "read"]] ELSE <<>>
  /\ UNCHANGED <<plan, itopk, candidates, table, parents, terminate_flag, iter>>

\* The last iteration ends here; otherwise warp 0 picks up parents while the other
\* warps restore the small table.
Sorted ==
  /\ pc = "sorted"
  /\ pc' = IF iter + 1 = MaxIterations(plan) THEN Left ELSE "pick"
  /\ probe' = IF pc' = "pick" /\ Resets
              THEN [i \in DOMAIN itopk |-> [Done EXCEPT !.pc = "read"]] ELSE <<>>
  /\ UNCHANGED <<plan, itopk, candidates, table, parents, terminate_flag, iter>>

PickupUnmarked ==                                \* mutant: parents are not marked
  LET fresh == {k \in DOMAIN itopk : ~Used(itopk[k])}
      n     == Cardinality(fresh)
  IN
  /\ pc = "pick" /\ parents = <<>>
  /\ parents' = [j \in 1..plan.search_width |-> IF j <= n THEN Nth(fresh, j) ELSE 0]
  /\ terminate_flag' = (terminate_flag \/ n = 0)
  /\ UNCHANGED <<plan, pc, itopk, candidates, table, iter, probe>>

\* pickup_next_parents: the first entries that are not marked.
PickupNextParents ==
  LET fresh == {k \in DOMAIN itopk : ~Used(itopk[k])}
      n     == Cardinality(fresh)
  IN
  /\ pc = "pick" /\ parents = <<>>
  /\ parents' = [j \in 1..plan.search_width |-> IF j <= n THEN Nth(fresh, j) ELSE 0]
  /\ itopk' = [k \in DOMAIN itopk |->
                IF k \in Range(parents') THEN itopk[k] + Msb ELSE itopk[k]]
  /\ terminate_flag' = (terminate_flag \/ n = 0)
  /\ UNCHANGED <<plan, pc, candidates, table, iter, probe>>

\* hashmap_restore: thread i reads its entry, which may have been marked or not.
RestoreKeyMarked(x) == x                         \* mutant: the mark is not cleared
RestoreKey(x)       == Clear(x)
RestoreRead(i) ==
  /\ pc = "pick" /\ probe[i].pc = "read"
  /\ probe' = [probe EXCEPT ![i] = Probing(RestoreKey(itopk[i]))]
  /\ UNCHANGED <<plan, pc, itopk, candidates, table, parents, terminate_flag, iter>>

\* The neighbour that thread i reads from the graph, if its parent is one.
Child(i) ==
  LET d == plan.degree
      j == parents[(i - 1) \div d + 1]
  IN  IF j = 0 THEN Invalid ELSE plan.graph[Clear(itopk[j])][((i - 1) % d) + 1]

\* The search ends when no parent was found; otherwise the neighbours are inserted.
Picked ==
  /\ pc = "pick" /\ parents # <<>> /\ Barrier
  /\ IF terminate_flag /\ iter >= plan.min_iterations
     THEN pc' = Left /\ probe' = <<>> /\ UNCHANGED candidates
     ELSE /\ pc' = "children"
          /\ probe' = [i \in DOMAIN candidates |->
                        IF Child(i) = Invalid THEN Done ELSE Probing(Child(i))]
          /\ candidates' = [i \in DOMAIN candidates |-> Invalid]
  /\ UNCHANGED <<plan, itopk, table, parents, terminate_flag, iter>>

\* Parents that the filter does not let pass leave the list; the flag remembers it.
ChildrenDone ==
  /\ pc = "children" /\ Barrier
  /\ LET out == {j \in Range(parents) \ {0} : Clear(itopk[j]) \notin plan.allowed}
     IN  IF plan.filtered
         THEN /\ itopk' = [k \in DOMAIN itopk |-> IF k \in out THEN Invalid ELSE itopk[k]]
              /\ terminate_flag' = (out # {})
         ELSE UNCHANGED <<itopk, terminate_flag>>
  /\ iter' = iter + 1
  /\ pc' = "sort" /\ probe' = <<>>
  /\ UNCHANGED <<plan, candidates, table, parents>>

(* Post process for filtering. *)
Filtered(s) == [k \in DOMAIN s |-> IF s[k] # Invalid /\ Clear(s[k]) \notin plan.allowed
                                   THEN Invalid ELSE s[k]]

\* "Move invalid index items to the end of the buffer"; the place of an entry
\* that is not moved keeps what it held, or becomes invalid when there are fewer
\* than topk.
Compacted(s) ==
  LET valid == {k \in DOMAIN s : Clear(s[k]) # Invalid}
      n     == Cardinality(valid)
  IN  [k \in DOMAIN s |-> IF k <= n THEN s[Nth(valid, k)]
                          ELSE IF n < plan.topk THEN Invalid ELSE s[k]]

\* Results that are still missing are picked up from the candidates, by the bitonic
\* merge also when the radix sort has left them in another layout.
PostProcess ==
  /\ pc = "post"
  /\ LET list == Compacted(Filtered(itopk))
         rest == Filtered(candidates)
     IN  /\ candidates' = rest
         /\ IF list[plan.topk] = Invalid
            THEN itopk' \in IF plan.bitonic THEN BitonicMerge(list, rest, iter = 0)
                           ELSE AnyOf(list \o rest)
            ELSE itopk' = list
  /\ pc' = "done"
  /\ UNCHANGED <<plan, table, parents, terminate_flag, iter, probe>>

-----------------------------------------------------------------------------
Next ==
  \/ \E i \in DOMAIN probe : Insert(i) \/ RestoreRead(i)
  \/ SeedsDone \/ Sort \/ Sorted \/ PickupNextParents \/ Picked \/ ChildrenDone
  \/ PostProcess

Spec == Init /\ [][Next]_vars

-----------------------------------------------------------------------------
Indices == 0..Invalid

\* The types, and the length of the search.
TypeOK ==
  /\ pc \in {"seeds", "sort", "sorted", "pick", "children", "post", "done"}
  /\ itopk \in [1..plan.itopk_size -> Indices]
  /\ candidates \in [1..NumCandidates(plan) -> Indices]
  /\ table \in [Places -> Indices]
  /\ parents = <<>> \/ parents \in [1..plan.search_width -> 0..plan.itopk_size]
  /\ terminate_flag \in BOOLEAN
  /\ iter < MaxIterations(plan)
  /\ \A i \in DOMAIN probe : /\ probe[i].pc \in {"read", "probe", "done"}
                             /\ probe[i].key \in Indices /\ probe[i].tried \in Places

Nodes(s) == {Clear(s[k]) : k \in {k \in DOMAIN s : s[k] # Invalid}}
Distinct(s) == \A j, k \in DOMAIN s :
                 j # k /\ s[j] # Invalid => Clear(s[j]) # Clear(s[k])

\* No node is twice in the list, or enters it again: what is merged into it is
\* new, though two threads may find the same neighbour and the table may
\* have been emptied and refilled while parents were marked (hashmap_restore).
NoDuplicates ==
  CASE pc = "sort"     -> Distinct(itopk \o candidates)
    [] pc \in {"sorted", "pick", "children"} -> Distinct(itopk)
    [] OTHER           -> pc = "done" /\ ~plan.filtered => Distinct(itopk)

\* The table that the plan has chosen has room for every key that is inserted
\* before it is emptied (calc_hashmap_params): a full table would take new nodes
\* for visited ones.
RoomInTable ==
  \A i \in DOMAIN probe : probe[i].pc = "probe" =>
    \E a \in Places : table[a] \in {Invalid, probe[i].key}

\* A search that ends before max_iterations has expanded its whole list, though the
\* flag that ends it is also used by the filter (terminate_flag, filter_flag).
Converged ==
  pc \in {"post", "done"} /\ (pc = "done" => ~plan.filtered)
  /\ iter + 1 < MaxIterations(plan) => \A k \in DOMAIN itopk : Used(itopk[k])

\* Post process for filtering: "Move invalid index items to the end of the buffer".
InvalidLast ==
  pc = "done" => \A k \in 1..(plan.topk - 1) : itopk[k] = Invalid => itopk[k + 1] = Invalid

\* Without a filter, the search is a beam search that remembers nothing but its
\* beam.  (With one, the behaviour shows nothing.)
begun == ~plan.filtered /\ pc # "seeds" /\ (pc = "sort" => iter > 0)
Unmarked == {Clear(itopk[parents[j]]) : j \in {j \in DOMAIN parents : parents[j] # 0}}
Beam == INSTANCE BeamSearch WITH
  graph    <- plan.graph,
  seeds    <- Range(plan.seeds),
  size     <- plan.itopk_size,
  width    <- plan.search_width,
  limit    <- MaxIterations(plan),
  beam     <- IF begun THEN Nodes(itopk) ELSE {},
  expanded <- IF begun THEN {Clear(x) : x \in {x \in Range(itopk) \ {Invalid} : Used(x)}}
                            \ Unmarked
              ELSE {},
  steps    <- IF begun THEN (IF pc = "sort" THEN iter - 1 ELSE iter) ELSE 0,
  state    <- CASE ~begun -> "new"
                [] begun /\ pc = "done" -> "over"
                [] begun /\ pc # "done" -> "running"
Implements == Beam!Spec
=============================================================================
