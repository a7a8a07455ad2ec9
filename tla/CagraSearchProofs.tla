-------------------------- MODULE CagraSearchProofs --------------------------
(***************************************************************************)
(* CagraSearch for every plan: its types, that no node comes twice, that   *)
(* the table never fills, that a search does not stop early, and that a    *)
(* search without a filter is a beam search.                               *)
(***************************************************************************)
EXTENDS CagraSearch, FiniteSetTheorems, SequenceTheorems, TLAPS

TopK  == plan.itopk_size
Width == plan.search_width
Kids  == NumCandidates(plan)
Known == DOMAIN plan.graph
Buffer == itopk \o candidates

\* What the list, the candidates and the table may hold.
Entries == {x \in Indices : x = Invalid \/ Clear(x) \in Known}
Fresh   == Known \union {Invalid}
Keys    == 0..(Msb - 1)
InTable == {table[a] : a \in Places} \ {Invalid}

\* The place after t steps from h.
At(h, t) == (h + t) % Size

-----------------------------------------------------------------------------
(* The invariant.                                                          *)

Insertions(n, at, keys) ==
  /\ probe \in [1..n -> [pc : at, key : Indices, tried : Places]]
  /\ \A i \in 1..n : probe[i].pc = "probe" => probe[i].key \in keys

\* Which threads there are between which barriers.
ThreadsInv ==
  CASE pc = "seeds"             -> Insertions(TopK + Kids, {"probe", "done"}, Known)
    [] pc = "pick" /\ Resets    -> Insertions(TopK, {"read", "probe", "done"}, Keys)
    [] pc = "children"          -> Insertions(Kids, {"probe", "done"}, Known)
    [] OTHER                    -> probe = <<>>

Phases == {"seeds", "sort", "sorted", "pick", "children", "post", "done"}

ShapeInv ==
  /\ plan \in Plans /\ pc \in Phases /\ terminate_flag \in BOOLEAN
  /\ itopk \in [1..TopK -> Entries] /\ candidates \in [1..Kids -> Fresh]
  /\ table \in [Places -> Keys \union {Invalid}]
  /\ parents = <<>> \/ parents \in [1..Width -> 0..TopK]
  /\ iter \in Nat /\ iter < MaxIterations(plan)
  /\ pc \in {"pick", "children"} => iter + 1 < MaxIterations(plan)
  /\ pc = "post" => plan.filtered

\* A parent is a marked entry, and the children have parents.
ParentsInv ==
  /\ pc \in {"seeds", "sorted"} => parents = <<>>
  /\ pc = "children" => parents # <<>>
  /\ pc \in {"pick", "children"} /\ parents # <<>> =>
       \A j \in 1..Width : parents[j] # 0 =>
         Used(itopk[parents[j]]) /\ itopk[parents[j]] # Invalid

Shape == ShapeInv /\ ThreadsInv /\ ParentsInv

\* Between a key and its home no place is empty, nor has the key; a thread has passed
\* no such place.
TableInv ==
  /\ \A a, t \in Places : table[a] # Invalid /\ a = At(Home(table[a]), t) =>
       \A u \in 0..(t - 1) : table[At(Home(table[a]), u)] \notin {Invalid, table[a]}
  /\ \A i \in DOMAIN probe : probe[i].pc = "probe" =>
       \A u \in 0..(probe[i].tried - 1) :
         table[At(Home(probe[i].key), u)] \notin {Invalid, probe[i].key}

\* How many keys there may be until the table is emptied.
Rounds(n) == (n % ResetInterval(plan)) + 1
Budget ==
  CASE pc \in {"seeds", "sort"}              -> Visited(plan, Rounds(iter))
    [] pc \in {"sorted", "pick"} /\ ~Resets  -> Visited(plan, Rounds(iter))
    [] pc = "sorted" /\ Resets               -> 0
    [] pc = "pick" /\ Resets                 -> TopK
    [] pc = "children"                       -> Visited(plan, Rounds(iter + 1))
Filled == {a \in Places : table[a] # Invalid}
Active == {i \in DOMAIN probe : probe[i].pc # "done"}
RoomInv == pc \notin {"post", "done"} => Cardinality(Filled) + Cardinality(Active) <= Budget

\* The nodes of s are in the table.
Entered(s) == \A k \in DOMAIN s : s[k] # Invalid => Clear(s[k]) \in InTable

\* What has been met, and not been dropped, is in the table, and once in the buffer.
DistinctInv ==
  /\ pc \in {"seeds", "children", "sort"} => Distinct(Buffer) /\ Entered(Buffer)
  /\ pc \in {"sorted", "pick"} => Distinct(itopk)
  /\ pc \in {"sorted", "pick"} /\ ~Resets => Entered(itopk)
  /\ pc = "pick" /\ Resets => \A k \in 1..TopK :
       \/ probe[k].pc = "read"
       \/ probe[k].pc = "probe" /\ probe[k].key = Clear(itopk[k])
       \/ probe[k].pc = "done" /\ (itopk[k] # Invalid => Clear(itopk[k]) \in InTable)
  /\ pc = "done" /\ ~plan.filtered => Distinct(itopk)

AllUsed(s) == \A k \in DOMAIN s : Used(s[k])

\* A raised flag means that there is nothing to expand, unless the filter has raised it.
FlagInv ==
  /\ ~plan.filtered /\ terminate_flag =>
       /\ pc \notin {"seeds", "post"} /\ AllUsed(itopk)
       /\ parents # <<>> => \A j \in 1..Width : parents[j] = 0
       /\ pc \in {"children", "sort", "sorted"} => AllUsed(candidates)
       /\ pc = "children" => \A i \in 1..Kids : probe[i].pc = "done"
  /\ plan.filtered /\ plan.bitonic /\ terminate_flag =>
       /\ pc \notin {"seeds", "sorted"}
       /\ pc = "pick" => parents # <<>> /\ AllUsed(itopk)
  /\ plan.bitonic \/ ~plan.filtered => Converged

SearchInv == Shape /\ TableInv /\ RoomInv /\ DistinctInv /\ FlagInv

(* What the refinement needs besides, for a search without a filter.      *)

Ascending(s) == \A j, k \in DOMAIN s : j < k => Clear(s[j]) <= Clear(s[k])

\* All entries of the list are nearer than x.
Outdone(x) == \A k \in 1..TopK : Clear(itopk[k]) < x
\* A node of the table is in s, unless the list has no room for it.
Met(s) == \A x \in InTable \intersect Known : x \in Nodes(s) \/ Outdone(x)

Unexpanded == {x \in Range(itopk) : ~Used(x)}
Marked(s)  == {Clear(x) : x \in {x \in Range(s) \ {Invalid} : Used(x)}}
\* The parents are marked, and were the nearest nodes that were not.
Expanding  == /\ Unmarked \subseteq Marked(itopk)
              /\ Unmarked = Beam!Nearest(Unmarked \union Unexpanded, Width)

ListInv ==
  /\ pc = "seeds" => iter = 0
  /\ pc = "sort" => (parents = <<>> <=> iter = 0)
  /\ pc \in {"seeds", "sort"} /\ iter = 0 => \A k \in 1..TopK : itopk[k] \in Fresh
  /\ pc \in {"sorted", "pick", "children"} \/ (pc = "sort" /\ iter > 0) => Ascending(itopk)
  /\ pc \in {"pick", "children", "sort"} /\ parents # <<>> => Expanding

\* Where thread i writes in the buffer, and which node it is about.
Mine(i)  == IF pc = "seeds" THEN i ELSE TopK + i
Asked(i) == IF pc = "seeds" THEN plan.seeds[i] ELSE Child(i)

MetInv ==
  /\ pc \in {"seeds", "sort", "children"} => Met(Buffer)
  /\ pc \in {"sorted", "pick"} => Met(itopk)
  /\ pc \in {"seeds", "children"} => \A i \in DOMAIN probe :
       IF probe[i].pc = "probe" THEN probe[i].key = Asked(i) /\ Buffer[Mine(i)] = Invalid
       ELSE Asked(i) \in InTable \union {Invalid}
  /\ pc \in {"seeds", "sort"} /\ iter = 0 => Nodes(Buffer) \subseteq Range(plan.seeds)
  /\ pc = "children" \/ (pc = "sort" /\ iter > 0) =>
       Nodes(candidates) \subseteq Beam!Neighbours(Unmarked)
  /\ pc = "sort" /\ iter = 0 => Range(plan.seeds) \subseteq InTable
  /\ pc = "sort" /\ iter > 0 => Beam!Neighbours(Unmarked) \subseteq InTable \intersect Known

BeamInv == ~plan.filtered => ListInv /\ MetInv

-----------------------------------------------------------------------------
(* Numbers.                                                                *)

\* A set of naturals has a least one, and a bounded one has a greatest one.
LEMMA MinOfSet ==
  ASSUME NEW T, T \subseteq Nat, T # {}
  PROVE  Min(T) \in T /\ \A n \in T : Min(T) <= n
<1>1. PICK m \in T : \A n \in T : <<n, m>> \notin OpToRel(<, Nat)
  BY WFMin, NatLessThanWellFounded, Zenon
<1>2. ASSUME NEW n \in T PROVE ~(n < m)
  BY <1>1, Zenon DEF OpToRel
<1>3. \A n \in T : m <= n
  BY <1>2
<1> QED BY <1>3 DEF Min

LEMMA MaxOfSet ==
  ASSUME NEW n \in Nat, NEW T, T \subseteq 0..n, T # {}
  PROVE  Max(T) \in T /\ \A m \in T : m <= Max(T)
<1> DEFINE U == {n - x : x \in T}
<1>1. U \subseteq Nat /\ U # {}
  <2>1. \A x \in T : n - x \in Nat
    OBVIOUS
  <2> QED BY <2>1
<1>2. Min(U) \in U /\ \A x \in U : Min(U) <= x
  <2> HIDE DEF U
  <2> QED BY <1>1, MinOfSet
<1>3. PICK m \in T : Min(U) = n - m
  BY <1>2
<1>4. \A x \in T : n - m <= n - x
  BY <1>2, <1>3
<1>5. \A x \in T : x <= m
  BY <1>4
<1> QED BY <1>5 DEF Max

LEMMA Powers == ASSUME NEW n \in Nat PROVE 2^n \in Nat \ {0}
<1>1. IsFiniteSet(1..n) /\ Cardinality(1..n) = n
  BY FS_Interval
<1>2. IsFiniteSet(SUBSET (1..n)) /\ Cardinality(SUBSET (1..n)) = 2^n
  BY <1>1, FS_SUBSET
<1>3. Cardinality(SUBSET (1..n)) \in Nat
  BY <1>2, FS_CardinalityType
<1>4. Cardinality(SUBSET (1..n)) # 0
  <2>1. {} \in SUBSET (1..n)
    OBVIOUS
  <2> QED BY <1>2, <2>1, FS_EmptySet
<1> QED BY <1>2, <1>3, <1>4

LEMMA Bounds == Msb \in Nat \ {0} /\ Invalid = 2 * Msb - 1 /\ Indices = 0..(2 * Msb - 1)
<1>1. IndexBits - 1 \in Nat
  BY TableAssumption
<1> QED BY <1>1, Powers DEF Msb, Invalid, Indices

LEMMA ClearIs ==
  ASSUME NEW x \in Indices
  PROVE  /\ Clear(x) = IF x < Msb THEN x ELSE x - Msb
         /\ Clear(x) \in Keys
         /\ Used(x) <=> ~(x < Msb)
<1>1. Msb \in Nat /\ Msb > 0 /\ x \in Nat /\ x < 2 * Msb
  BY Bounds
<1>2. Clear(x) = IF x < Msb THEN x ELSE x - Msb
  BY <1>1 DEF Clear
<1>3. Clear(x) \in 0..(Msb - 1)
  BY <1>1, <1>2
<1> QED BY <1>1, <1>2, <1>3 DEF Used, Keys

LEMMA InvalidIs ==
  /\ Invalid \in Indices /\ Clear(Invalid) = Msb - 1 /\ Used(Invalid) /\ Invalid \notin Keys
  /\ Keys \subseteq Indices
<1>1. Msb \in Nat /\ Msb > 0 /\ Invalid = 2 * Msb - 1 /\ Indices = 0..(2 * Msb - 1)
  BY Bounds
<1>2. Invalid \in Indices /\ Keys \subseteq Indices /\ Invalid \notin Keys /\ ~(Invalid < Msb)
  BY <1>1 DEF Keys
<1> QED BY <1>1, <1>2, ClearIs

-----------------------------------------------------------------------------
(* The plan.                                                               *)

LEMMA PlanFacts ==
  ASSUME NEW p \in Plans
  PROVE  /\ p.degree \in Nat \ {0} /\ p.itopk_size \in Nat \ {0} /\ p.search_width \in Nat \ {0}
         /\ NumCandidates(p) \in Nat \ {0} /\ MaxIterations(p) \in Nat \ {0}
         /\ p.min_iterations \in Nat /\ p.filtered \in BOOLEAN /\ p.bitonic \in BOOLEAN
         /\ DOMAIN p.graph \subseteq 0..(Msb - 2) /\ DOMAIN p.graph \subseteq Keys
         /\ p.seeds \in [1..(p.itopk_size + NumCandidates(p)) -> DOMAIN p.graph]
         /\ \A n \in DOMAIN p.graph : p.graph[n] \in [1..p.degree -> DOMAIN p.graph]
         /\ p.topk \in 1..p.itopk_size
<1>1. /\ p.degree \in Nat \ {0} /\ p.itopk_size \in Nat \ {0} /\ p.search_width \in Nat \ {0}
      /\ p.max_iterations \in Nat \ {0} /\ p.min_iterations \in Nat
      /\ p.filtered \in BOOLEAN /\ p.bitonic \in BOOLEAN /\ p.topk \in 1..p.itopk_size
  BY PlansAssumption
<1>2. NumCandidates(p) \in Nat \ {0}
  <2> DEFINE w == p.search_width
             d == p.degree
  <2>1. w \in Nat /\ d \in Nat /\ w > 0 /\ d > 0
    BY <1>1
  <2> HIDE DEF w, d
  <2>2. w * d \in Nat /\ w * d > 0
    BY <2>1
  <2>3. NumCandidates(p) = w * d
    BY DEF NumCandidates, w, d
  <2> QED BY <2>2, <2>3
<1>3. MaxIterations(p) \in Nat \ {0}
  BY <1>1 DEF MaxIterations
<1>4. DOMAIN p.graph \subseteq 0..(Msb - 2)
  BY PlansAssumption
<1>5. DOMAIN p.graph \subseteq Keys
  BY <1>4, Bounds DEF Keys
<1>6. p.seeds \in [1..(p.itopk_size + NumCandidates(p)) -> DOMAIN p.graph]
  <2>1. p.seeds \in Seq(DOMAIN p.graph) /\ Len(p.seeds) = p.itopk_size + NumCandidates(p)
    BY PlansAssumption
  <2> QED BY <2>1
<1>7. ASSUME NEW n \in DOMAIN p.graph PROVE p.graph[n] \in [1..p.degree -> DOMAIN p.graph]
  <2>1. p.graph \in [DOMAIN p.graph -> Seq(DOMAIN p.graph)] /\ Len(p.graph[n]) = p.degree
    BY PlansAssumption
  <2>2. p.graph[n] \in Seq(DOMAIN p.graph)
    BY <2>1
  <2> QED BY <2>1, <2>2
<1> QED BY <1>1, <1>2, <1>3, <1>4, <1>5, <1>6, <1>7, Zenon

\* What is visited in some rounds, and how that grows.
LEMMA VisitedIs ==
  ASSUME NEW p \in Plans, NEW r \in Nat
  PROVE  /\ Visited(p, r) \in Nat
         /\ Visited(p, r + 1) = Visited(p, r) + NumCandidates(p)
         /\ \A q \in Nat : r <= q => Visited(p, r) <= Visited(p, q)
<1> DEFINE c == NumCandidates(p)
<1>1. c \in Nat /\ p.itopk_size \in Nat
  BY PlanFacts
<1>2. \A q : Visited(p, q) = p.itopk_size + c * q
  BY DEF Visited
<1> HIDE DEF c
<1>3. c * r \in Nat /\ c * (r + 1) = c * r + c
  BY <1>1
<1>4. ASSUME NEW q \in Nat, r <= q PROVE c * r <= c * q /\ c * q \in Nat
  <2>1. q - r \in Nat /\ q = r + (q - r)
    BY <1>4
  <2> DEFINE s == q - r
  <2>2. c * (r + s) = c * r + c * s /\ c * s \in Nat
    <3>1. s \in Nat
      BY <2>1
    <3> HIDE DEF s
    <3> QED BY <1>1, <3>1
  <2>3. c * q = c * r + c * s
    BY <2>1, <2>2
  <2> HIDE DEF s
  <2> QED BY <1>3, <2>2, <2>3
<1>5. r + 1 \in Nat
  OBVIOUS
<1> QED BY <1>1, <1>2, <1>3, <1>4, <1>5 DEF c

\* What fits into the table leaves a place in it.
LEMMA FitsLeavesRoom ==
  ASSUME NEW n \in Nat, NEW b \in Nat, FitsInto(n, b)
  PROVE  n < 2^b /\ \A m \in Nat : m <= n => FitsInto(m, b)
<1> DEFINE s == 2^b
<1>1. s \in Nat /\ s > 0 /\ FillNum \in Nat /\ FillDen \in Nat /\ FillNum < FillDen
  BY Powers, TableAssumption
<1>2. n * FillDen <= s * FillNum
  BY DEF FitsInto
<1>3. \A m : FitsInto(m, b) <=> m * FillDen <= s * FillNum
  BY DEF FitsInto
<1> HIDE DEF s
<1>4. s * FillNum < s * FillDen
  <2>1. s * FillDen = s * FillNum + s * (FillDen - FillNum)
    BY <1>1
  <2>2. s * (FillDen - FillNum) > 0
    BY <1>1
  <2> QED BY <1>1, <2>1, <2>2
<1>5. n < s
  <2> SUFFICES ASSUME s <= n PROVE FALSE
    BY <1>1
  <2>1. n * FillDen = s * FillDen + (n - s) * FillDen /\ (n - s) * FillDen >= 0
    BY <1>1
  <2> QED BY <1>1, <1>2, <1>4, <2>1
<1>6. ASSUME NEW m \in Nat, m <= n PROVE m * FillDen <= n * FillDen
  <2>1. n * FillDen = m * FillDen + (n - m) * FillDen /\ (n - m) * FillDen >= 0
    BY <1>1, <1>6
  <2> QED BY <1>1, <2>1
<1>7. ASSUME NEW m \in Nat, m <= n PROVE FitsInto(m, b)
  <2>1. m * FillDen \in Int /\ n * FillDen \in Int /\ s * FillNum \in Int
    BY <1>1
  <2> QED BY <1>2, <1>3, <1>6, <1>7, <2>1
<1> QED BY <1>5, <1>7 DEF s

LEMMA SmallTable ==
  ASSUME NEW p \in Plans
  PROVE  /\ SmallBitlen(p) \in Nat
         /\ SmallBitlen(p) > 0 => FitsInto(Visited(p, 1), SmallBitlen(p))
<1> DEFINE enough == {b \in SmallBits : FitsInto(Visited(p, 1), b)}
<1>1. enough \subseteq Nat
  BY TableAssumption
<1>2. ASSUME enough # {} PROVE Min(enough) \in Nat /\ FitsInto(Visited(p, 1), Min(enough))
  <2>1. Min(enough) \in enough
    <3> HIDE DEF enough
    <3> QED BY <1>1, <1>2, MinOfSet
  <2> QED BY <1>1, <2>1
<1>3. SmallBitlen(p) = IF HashMode(p) = "AUTO" /\ enough # {} THEN Min(enough) ELSE 0
  BY DEF SmallBitlen
<1> HIDE DEF enough
<1>4. CASE HashMode(p) = "AUTO" /\ enough # {}
  BY <1>2, <1>3, <1>4
<1>5. CASE ~(HashMode(p) = "AUTO" /\ enough # {})
  BY <1>3, <1>5
<1> QED BY <1>4, <1>5

LEMMA WholeTable ==
  ASSUME NEW p \in Plans, ~(SmallBitlen(p) > 0)
  PROVE  Min(Bits(p)) \in Nat /\ FitsInto(Visited(p, MaxIterations(p)), Min(Bits(p)))
<1>1. Bits(p) # {} /\ Bits(p) \subseteq Nat
  BY PlansAssumption, TableAssumption DEF Bits
<1>2. Min(Bits(p)) \in Bits(p)
  BY <1>1, MinOfSet
<1> QED BY <1>1, <1>2 DEF Bits

LEMMA Interval ==
  ASSUME NEW p \in Plans
  PROVE  /\ ResetInterval(p) \in Nat \ {0}
         /\ SmallBitlen(p) > 0 => FitsInto(Visited(p, ResetInterval(p)), SmallBitlen(p))
<1>1. CASE SmallBitlen(p) = 0
  BY <1>1 DEF ResetInterval
<1>2. CASE SmallBitlen(p) # 0
  <2> DEFINE s == SmallBitlen(p)
             n == 2^s
             T == {r \in 1..n : FitsInto(Visited(p, r), s)}
  <2>1. s \in Nat /\ FitsInto(Visited(p, 1), s)
    BY <1>2, SmallTable
  <2>2. n \in Nat /\ n > 0
    <3> HIDE DEF s
    <3> QED BY <2>1, Powers
  <2>3. T \subseteq 0..n /\ 1 \in T
    <3> HIDE DEF n
    <3> QED BY <2>1, <2>2
  <2>4. Max(T) \in T
    <3> HIDE DEF T, n
    <3> QED BY <2>2, <2>3, MaxOfSet
  <2>5. ResetInterval(p) = Max(T)
    BY <1>2 DEF ResetInterval
  <2> HIDE DEF n, s
  <2>6. Max(T) \in Nat \ {0} /\ FitsInto(Visited(p, Max(T)), s)
    <3> DEFINE m == Max(T)
    <3>1. m \in 1..n /\ FitsInto(Visited(p, m), s)
      BY <2>4
    <3> HIDE DEF m
    <3>2. m \in Nat \ {0}
      BY <2>2, <3>1
    <3> QED BY <3>1, <3>2 DEF m
  <2> QED BY <2>5, <2>6 DEF s
<1> QED BY <1>1, <1>2

LEMMA TableSize ==
  ASSUME NEW p \in Plans
  PROVE  2^Bitlen(p) \in Nat \ {0}
<1>1. Bitlen(p) \in Nat
  BY SmallTable, WholeTable DEF Bitlen
<1> QED BY <1>1, Powers

\* The table has room for as many rounds as there are before it is emptied.
LEMMA RoundsFit ==
  ASSUME NEW p \in Plans, NEW r \in Nat, r <= ResetInterval(p), r <= MaxIterations(p)
  PROVE  Visited(p, r) < 2^Bitlen(p)
<1>1. CASE SmallBitlen(p) > 0
  <2>1. ResetInterval(p) \in Nat /\ FitsInto(Visited(p, ResetInterval(p)), SmallBitlen(p))
    BY <1>1, Interval
  <2>2. /\ Visited(p, r) \in Nat /\ Visited(p, ResetInterval(p)) \in Nat
        /\ Visited(p, r) <= Visited(p, ResetInterval(p))
    BY <2>1, VisitedIs
  <2>3. SmallBitlen(p) \in Nat
    BY SmallTable
  <2>4. FitsInto(Visited(p, r), SmallBitlen(p))
    BY <2>1, <2>2, <2>3, FitsLeavesRoom
  <2>5. Visited(p, r) < 2^SmallBitlen(p)
    BY <2>2, <2>3, <2>4, FitsLeavesRoom
  <2> QED BY <1>1, <2>5 DEF Bitlen
<1>2. CASE ~(SmallBitlen(p) > 0)
  <2>1. MaxIterations(p) \in Nat
    BY PlanFacts
  <2>2. /\ Visited(p, r) \in Nat /\ Visited(p, MaxIterations(p)) \in Nat
        /\ Visited(p, r) <= Visited(p, MaxIterations(p))
    BY <2>1, VisitedIs
  <2>3. Min(Bits(p)) \in Nat /\ FitsInto(Visited(p, MaxIterations(p)), Min(Bits(p)))
    BY <1>2, WholeTable
  <2>4. FitsInto(Visited(p, r), Min(Bits(p)))
    BY <2>2, <2>3, FitsLeavesRoom
  <2>5. Visited(p, r) < 2^Min(Bits(p))
    BY <2>2, <2>3, <2>4, FitsLeavesRoom
  <2> QED BY <1>2, <2>5 DEF Bitlen
<1> QED BY <1>1, <1>2

\* The constants of the search at work.
LEMMA SearchFacts ==
  ASSUME plan \in Plans
  PROVE  /\ Size \in Nat \ {0} /\ Places = 0..(Size - 1)
         /\ TopK \in Nat \ {0} /\ Width \in Nat \ {0} /\ Kids \in Nat \ {0}
         /\ ResetInterval(plan) \in Nat \ {0} /\ MaxIterations(plan) \in Nat \ {0}
         /\ Known \subseteq Keys /\ Known \subseteq 0..(Msb - 2)
BY PlanFacts, TableSize, Interval DEF Size, Places, TopK, Width, Kids, Known

LEMMA PlanSame ==
  ASSUME plan' = plan
  PROVE  /\ Size' = Size /\ Places' = Places /\ TopK' = TopK /\ Width' = Width /\ Kids' = Kids
         /\ Known' = Known /\ Entries' = Entries /\ Fresh' = Fresh /\ EmptyTable' = EmptyTable
         /\ \A h : Home(h)' = Home(h)
         /\ \A h, t : At(h, t)' = At(h, t)
         /\ \A n : Rounds(n)' = Rounds(n)
BY DEF Size, Places, TopK, Width, Kids, Known, Entries, Fresh, EmptyTable, Home, At, Rounds

-----------------------------------------------------------------------------
(* The places of the table.                                                *)

LEMMA HomeIs ==
  ASSUME plan \in Plans, NEW key \in Keys
  PROVE  Home(key) \in Places
<1>1. Size \in Nat /\ Size > 0 /\ Places = 0..(Size - 1)
  BY SearchFacts
<1>2. key \in Nat /\ key \in Indices /\ key \div Size \in Nat /\ key \div Size <= key
  <2>1. key \in Nat /\ key \in Indices
    BY InvalidIs, Bounds DEF Keys
  <2> QED BY <1>1, <2>1
<1>3. key \div Size \in 0..Invalid /\ key \in 0..Invalid
  BY <1>2, Bounds
<1>4. XorBits(key, key \div Size) \in Nat
  BY <1>3, TableAssumption
<1> DEFINE x == XorBits(key, key \div Size)
<1>5. Home(key) = x % Size
  BY DEF Home
<1> HIDE DEF x
<1> QED BY <1>1, <1>4, <1>5 DEF x

\* Different numbers of steps lead to different places, and some number to each.
LEMMA AtIs ==
  ASSUME plan \in Plans, NEW h \in Places
  PROVE  /\ \A t \in Places : At(h, t) \in Places
         /\ \A t, u \in Places : At(h, t) = At(h, u) => t = u
         /\ \A a \in Places : \E t \in Places : a = At(h, t)
<1>1. Size \in Nat /\ Size > 0 /\ Places = 0..(Size - 1) /\ h \in Nat /\ h < Size
  BY SearchFacts
<1>2. ASSUME NEW t \in Places PROVE At(h, t) = IF h + t < Size THEN h + t ELSE h + t - Size
  <2>1. t \in Nat /\ t < Size
    BY <1>1
  <2>2. CASE h + t < Size
    BY <1>1, <2>1, <2>2 DEF At
  <2>3. CASE ~(h + t < Size)
    BY <1>1, <2>1, <2>3 DEF At
  <2> QED BY <2>2, <2>3
<1>3. \A t \in Places : At(h, t) \in Places
  BY <1>1, <1>2
<1>4. \A t, u \in Places : At(h, t) = At(h, u) => t = u
  BY <1>1, <1>2
<1>5. ASSUME NEW a \in Places PROVE \E t \in Places : a = At(h, t)
  <2>1. CASE h <= a
    <3>1. a - h \in Places /\ h + (a - h) < Size
      BY <1>1, <2>1
    <3>2. At(h, a - h) = a
      BY <1>1, <1>2, <3>1
    <3> QED BY <3>1, <3>2
  <2>2. CASE ~(h <= a)
    <3>1. a + Size - h \in Places /\ ~(h + (a + Size - h) < Size)
      BY <1>1, <2>2
    <3>2. At(h, a + Size - h) = a
      BY <1>1, <1>2, <3>1
    <3> QED BY <3>1, <3>2
  <2> QED BY <2>1, <2>2
<1> QED BY <1>3, <1>4, <1>5

-----------------------------------------------------------------------------
(* Order.                                                                  *)

\* The numbers of D by a weight, equal ones by themselves: each place from 1 to the
\* size of D is taken by one of them.
Comes(f, a, b) == f[a] < f[b] \/ (f[a] = f[b] /\ a < b)
PlaceIn(D, f, b) == Cardinality({a \in D : Comes(f, a, b)}) + 1
AllPlaced(D, f) ==
  /\ \A b \in D : PlaceIn(D, f, b) \in 1..Cardinality(D)
  /\ \A r \in 1..Cardinality(D) : \E b \in D : PlaceIn(D, f, b) = r
  /\ \A a, b \in D : PlaceIn(D, f, a) = PlaceIn(D, f, b) => a = b
  /\ \A a, b \in D : Comes(f, a, b) <=> PlaceIn(D, f, a) < PlaceIn(D, f, b)

LEMMA ComesOrder ==
  ASSUME NEW D, D \subseteq Nat, NEW f \in [D -> Nat], NEW a \in D, NEW b \in D
  PROVE  /\ ~Comes(f, a, a)
         /\ a # b => Comes(f, a, b) \/ Comes(f, b, a)
         /\ ~(Comes(f, a, b) /\ Comes(f, b, a))
         /\ \A c \in D : Comes(f, c, a) /\ Comes(f, a, b) => Comes(f, c, b)
<1>1. \A x \in D : f[x] \in Nat /\ x \in Nat
  OBVIOUS
<1>2. /\ ~Comes(f, a, a) /\ (a # b => Comes(f, a, b) \/ Comes(f, b, a))
      /\ ~(Comes(f, a, b) /\ Comes(f, b, a))
  <2>1. f[a] \in Nat /\ f[b] \in Nat /\ a \in Nat /\ b \in Nat
    BY <1>1
  <2> QED BY <2>1 DEF Comes
<1>3. ASSUME NEW c \in D, Comes(f, c, a), Comes(f, a, b) PROVE Comes(f, c, b)
  <2>1. /\ f[a] \in Nat /\ f[b] \in Nat /\ f[c] \in Nat /\ a \in Nat /\ b \in Nat /\ c \in Nat
    BY <1>1
  <2> QED BY <2>1, <1>3 DEF Comes
<1> QED BY <1>2, <1>3

LEMMA PlacesAreAll ==
  ASSUME NEW D, D \subseteq Nat, IsFiniteSet(D), NEW f \in [D -> Nat]
  PROVE  AllPlaced(D, f)
<1> DEFINE S(b) == {a \in D : Comes(f, a, b)}
           R == [b \in D |-> PlaceIn(D, f, b)]
           n == Cardinality(D)
<1>1. n \in Nat /\ IsFiniteSet(1..n) /\ Cardinality(1..n) = n
  BY FS_CardinalityType, FS_Interval
<1>2. \A b \in D : R[b] = Cardinality(S(b)) + 1
  BY DEF PlaceIn
<1> HIDE DEF R
<1>3. ASSUME NEW b \in D
      PROVE  IsFiniteSet(S(b)) /\ Cardinality(S(b)) \in Nat /\ Cardinality(S(b)) < n
  <2>1. S(b) \in SUBSET D /\ b \notin S(b)
    BY ComesOrder
  <2> HIDE DEF S
  <2>2. /\ IsFiniteSet(S(b)) /\ Cardinality(S(b)) <= n
        /\ n = Cardinality(S(b)) => S(b) = D
    BY <1>1, <2>1, FS_Subset
  <2>3. Cardinality(S(b)) \in Nat
    BY <2>2, FS_CardinalityType
  <2> QED BY <1>1, <2>1, <2>2, <2>3
<1>4. R \in [D -> 1..n]
  <2>1. ASSUME NEW b \in D PROVE Cardinality(S(b)) + 1 \in 1..n
    <3> HIDE DEF S, n
    <3>1. Cardinality(S(b)) \in Nat /\ Cardinality(S(b)) < n
      BY <1>3
    <3> QED BY <1>1, <3>1
  <2> QED BY <2>1 DEF R, PlaceIn
<1>5. ASSUME NEW a \in D, NEW b \in D, Comes(f, a, b) PROVE R[a] < R[b]
  <2>1. S(a) \in SUBSET S(b) /\ a \in S(b) /\ a \notin S(a)
    BY <1>5, ComesOrder
  <2>2. IsFiniteSet(S(b)) /\ Cardinality(S(a)) \in Nat /\ Cardinality(S(b)) \in Nat
    BY <1>3
  <2> HIDE DEF S
  <2>3. /\ Cardinality(S(a)) <= Cardinality(S(b))
        /\ Cardinality(S(b)) = Cardinality(S(a)) => S(b) = S(a)
    BY <2>1, <2>2, FS_Subset
  <2> QED BY <1>2, <2>1, <2>2, <2>3
<1>6. \A a, b \in D : R[a] \in Nat /\ R[b] \in Nat
  BY <1>4
<1>7. \A a, b \in D : Comes(f, a, b) <=> R[a] < R[b]
  <2> SUFFICES ASSUME NEW a \in D, NEW b \in D, ~Comes(f, a, b) PROVE ~(R[a] < R[b])
    BY <1>5
  <2>1. CASE a = b
    BY <1>6, <2>1
  <2>2. CASE a # b
    <3>1. Comes(f, b, a)
      BY <2>2, ComesOrder
    <3>2. R[b] < R[a] /\ R[a] \in Nat /\ R[b] \in Nat
      BY <1>5, <1>6, <3>1
    <3> QED BY <3>2
  <2> QED BY <2>1, <2>2
<1>8. \A a, b \in D : R[a] = R[b] => a = b
  BY <1>6, <1>7, ComesOrder
<1>9. IsFiniteSet(1..n) /\ Cardinality(D) = Cardinality(1..n)
  BY <1>1
<1>10. R \in Injection(D, 1..n)
  BY <1>4, <1>8 DEF Injection, IsInjective
<1>11. R \in Surjection(D, 1..n)
  <2> HIDE DEF n
  <2> QED BY <1>9, <1>10, FS_Injection
<1>12. \A r \in 1..n : \E b \in D : R[b] = r
  BY <1>11 DEF Surjection
<1>13. \A b \in D : R[b] = PlaceIn(D, f, b)
  BY DEF R
<1> QED BY <1>4, <1>7, <1>8, <1>12, <1>13 DEF AllPlaced

\* Nth(S, .) goes through a finite set of numbers from the smallest to the largest.
LEMMA NthIs ==
  ASSUME NEW S, S \subseteq Nat, IsFiniteSet(S)
  PROVE  /\ \A k \in 1..Cardinality(S) :
              Nth(S, k) \in S /\ Cardinality({y \in S : y < Nth(S, k)}) = k - 1
         /\ \A j, k \in 1..Cardinality(S) : j # k => Nth(S, j) # Nth(S, k)
         /\ \A x \in S : Cardinality({y \in S : y < x}) + 1 \in 1..Cardinality(S)
         /\ \A x \in S : Nth(S, Cardinality({y \in S : y < x}) + 1) = x
<1> DEFINE f == [x \in S |-> 0]
           Below(x) == {y \in S : y < x}
<1>1. f \in [S -> Nat] /\ \A x, y \in S : Comes(f, y, x) <=> y < x
  BY DEF Comes
<1>2. \A x \in S : {y \in S : Comes(f, y, x)} = Below(x)
  BY <1>1
<1> HIDE DEF f
<1>3. \A x \in S : PlaceIn(S, f, x) = Cardinality(Below(x)) + 1
  BY <1>2 DEF PlaceIn
<1> HIDE DEF Below
<1>4. /\ \A x \in S : Cardinality(Below(x)) + 1 \in 1..Cardinality(S)
      /\ \A k \in 1..Cardinality(S) : \E x \in S : Cardinality(Below(x)) + 1 = k
      /\ \A x, y \in S : Cardinality(Below(x)) + 1 = Cardinality(Below(y)) + 1 => x = y
  <2>1. /\ \A x \in S : PlaceIn(S, f, x) \in 1..Cardinality(S)
        /\ \A k \in 1..Cardinality(S) : \E x \in S : PlaceIn(S, f, x) = k
        /\ \A x, y \in S : PlaceIn(S, f, x) = PlaceIn(S, f, y) => x = y
    <3>1. f \in [S -> Nat]
      BY <1>1
    <3>2. AllPlaced(S, f)
      BY <3>1, PlacesAreAll
    <3> QED BY <3>2 DEF AllPlaced
  <2> QED BY <1>3, <2>1
<1>5. \A x \in S : Cardinality(Below(x)) \in Nat
  <2> SUFFICES ASSUME NEW x \in S PROVE Cardinality(Below(x)) \in Nat
    OBVIOUS
  <2>1. Below(x) \in SUBSET S
    BY DEF Below
  <2> QED BY <2>1, FS_Subset, FS_CardinalityType
<1>6. \A k : Nth(S, k) = CHOOSE x \in S : Cardinality(Below(x)) = k - 1
  BY DEF Nth, Below
<1>7. ASSUME NEW k \in 1..Cardinality(S)
      PROVE  Nth(S, k) \in S /\ Cardinality(Below(Nth(S, k))) = k - 1
  <2>1. PICK x \in S : Cardinality(Below(x)) + 1 = k
    BY <1>4
  <2>2. Cardinality(Below(x)) = k - 1
    BY <1>5, <2>1
  <2> QED BY <1>6, <2>2
<1>8. \A j, k \in 1..Cardinality(S) : j # k => Nth(S, j) # Nth(S, k)
  <2> SUFFICES ASSUME NEW j \in 1..Cardinality(S), NEW k \in 1..Cardinality(S),
                      Nth(S, j) = Nth(S, k)
               PROVE  j = k
    OBVIOUS
  <2>1. j - 1 = k - 1 /\ j \in Int /\ k \in Int
    BY <1>7
  <2> QED BY <2>1
<1>9. ASSUME NEW x \in S PROVE Nth(S, Cardinality(Below(x)) + 1) = x
  <2> DEFINE k == Cardinality(Below(x)) + 1
  <2>1. k \in 1..Cardinality(S) /\ k - 1 = Cardinality(Below(x)) /\ k \in Int
    BY <1>4, <1>5, <1>9
  <2> HIDE DEF k
  <2>2. Nth(S, k) \in S /\ Cardinality(Below(Nth(S, k))) = Cardinality(Below(x))
    BY <1>7, <2>1
  <2>3. Nth(S, k) = x
    BY <1>4, <2>2
  <2> QED BY <2>3 DEF k
<1> QED BY <1>4, <1>7, <1>8, <1>9 DEF Below

\* Where the entry stands that is sorted to place r.
Position(s, r) == CHOOSE k \in DOMAIN s : Rank(s, k) = r

LEMMA SortIs ==
  ASSUME NEW n \in Nat, NEW s \in [1..n -> Indices]
  PROVE  /\ \A r \in 1..n : Position(s, r) \in 1..n /\ Rank(s, Position(s, r)) = r
         /\ \A k \in 1..n : Rank(s, k) \in 1..n
         /\ \A j, k \in 1..n : Rank(s, j) = Rank(s, k) => j = k
         /\ \A j, k \in 1..n : Clear(s[j]) < Clear(s[k]) => Rank(s, j) < Rank(s, k)
         /\ \A j, k \in 1..n : Rank(s, j) < Rank(s, k) => Clear(s[j]) <= Clear(s[k])
         /\ SortedByDistance(s) = [r \in 1..n |-> s[Position(s, r)]]
<1> DEFINE f == [k \in 1..n |-> Clear(s[k])]
<1>1. IsFiniteSet(1..n) /\ Cardinality(1..n) = n /\ 1..n \subseteq Nat /\ DOMAIN s = 1..n
  BY FS_Interval
<1>2. \A k \in 1..n : Clear(s[k]) \in Nat
  <2> SUFFICES ASSUME NEW k \in 1..n PROVE Clear(s[k]) \in Nat
    OBVIOUS
  <2>1. Clear(s[k]) \in Keys
    BY ClearIs
  <2> QED BY <2>1, Bounds DEF Keys
<1>3. f \in [1..n -> Nat] /\ \A k \in 1..n : f[k] = Clear(s[k])
  BY <1>2
<1> HIDE DEF f
<1>4. ASSUME NEW j \in 1..n, NEW k \in 1..n
      PROVE  Comes(f, j, k) <=> Nearer(s[j], s[k]) \/ (~Nearer(s[k], s[j]) /\ j < k)
  <2>1. f[j] \in Nat /\ f[k] \in Nat /\ f[j] = Clear(s[j]) /\ f[k] = Clear(s[k])
    BY <1>3
  <2> QED BY <2>1 DEF Comes, Nearer
<1>5. ASSUME NEW k \in 1..n PROVE Rank(s, k) = PlaceIn(1..n, f, k)
  <2>1. {j \in DOMAIN s : Nearer(s[j], s[k]) \/ (~Nearer(s[k], s[j]) /\ j < k)}
        = {j \in 1..n : Comes(f, j, k)}
    BY <1>1, <1>4
  <2> QED BY <2>1 DEF Rank, PlaceIn
<1>6. /\ \A k \in 1..n : Rank(s, k) \in 1..n
      /\ \A r \in 1..n : \E k \in 1..n : Rank(s, k) = r
      /\ \A j, k \in 1..n : Rank(s, j) = Rank(s, k) => j = k
      /\ \A j, k \in 1..n : Comes(f, j, k) <=> Rank(s, j) < Rank(s, k)
  <2>1. /\ \A k \in 1..n : PlaceIn(1..n, f, k) \in 1..n
        /\ \A r \in 1..n : \E k \in 1..n : PlaceIn(1..n, f, k) = r
        /\ \A j, k \in 1..n : PlaceIn(1..n, f, j) = PlaceIn(1..n, f, k) => j = k
        /\ \A j, k \in 1..n : Comes(f, j, k) <=> PlaceIn(1..n, f, j) < PlaceIn(1..n, f, k)
    <3>1. f \in [1..n -> Nat] /\ 1..n \subseteq Nat /\ IsFiniteSet(1..n)
      BY <1>1, <1>3
    <3>2. Cardinality(1..n) = n
      BY <1>1
    <3>3. AllPlaced(1..n, f)
      BY <3>1, PlacesAreAll
    <3> QED BY <3>2, <3>3 DEF AllPlaced
  <2>2. \A k \in 1..n : Rank(s, k) = PlaceIn(1..n, f, k)
    BY <1>5
  <2>3. \A k \in 1..n : Rank(s, k) \in 1..n
    <3> TAKE k \in 1..n
    <3>1. Rank(s, k) = PlaceIn(1..n, f, k)
      BY <2>2, Zenon
    <3>2. PlaceIn(1..n, f, k) \in 1..n
      BY <2>1, Zenon
    <3> QED BY <3>1, <3>2, Zenon
  <2>4. \A r \in 1..n : \E k \in 1..n : Rank(s, k) = r
    <3> TAKE r \in 1..n
    <3>1. PICK k \in 1..n : PlaceIn(1..n, f, k) = r
      BY <2>1, Zenon
    <3>2. Rank(s, k) = r
      BY <2>2, <3>1, Zenon
    <3> QED BY <3>2
  <2>5. ASSUME NEW j \in 1..n, NEW k \in 1..n
        PROVE  /\ Rank(s, j) = Rank(s, k) => j = k
               /\ Comes(f, j, k) <=> Rank(s, j) < Rank(s, k)
    <3>1. Rank(s, j) = PlaceIn(1..n, f, j) /\ Rank(s, k) = PlaceIn(1..n, f, k)
      BY <2>2, Zenon
    <3>2. /\ PlaceIn(1..n, f, j) = PlaceIn(1..n, f, k) => j = k
          /\ Comes(f, j, k) <=> PlaceIn(1..n, f, j) < PlaceIn(1..n, f, k)
      BY <2>1, Zenon
    <3> QED BY <3>1, <3>2, Zenon
  <2> QED BY <2>3, <2>4, <2>5, Zenon
<1>7. \A r \in 1..n : Position(s, r) \in 1..n /\ Rank(s, Position(s, r)) = r
  BY <1>1, <1>6 DEF Position
<1>8. ASSUME NEW j \in 1..n, NEW k \in 1..n, Clear(s[j]) < Clear(s[k])
      PROVE  Rank(s, j) < Rank(s, k)
  BY <1>4, <1>6, <1>8 DEF Nearer
<1>9. ASSUME NEW j \in 1..n, NEW k \in 1..n, Rank(s, j) < Rank(s, k)
      PROVE  Clear(s[j]) <= Clear(s[k])
  <2>1. Comes(f, j, k)
    BY <1>6, <1>9
  <2>2. f[j] \in Nat /\ f[k] \in Nat /\ f[j] = Clear(s[j]) /\ f[k] = Clear(s[k])
    BY <1>3
  <2> QED BY <2>1, <2>2 DEF Comes
<1>10. SortedByDistance(s) = [r \in 1..n |-> s[Position(s, r)]]
  BY <1>1 DEF SortedByDistance, Position
<1> QED BY <1>6, <1>7, <1>8, <1>9, <1>10

-----------------------------------------------------------------------------
(* Entries of the list.                                                    *)

LEMMA EntryIs ==
  ASSUME plan \in Plans
  PROVE  /\ \A x \in Entries : x \in Indices /\ Clear(x) \in Keys
         /\ \A x \in Entries : x # Invalid => Clear(x) \in Known /\ Clear(x) < Msb - 1
         /\ \A x \in Entries : ~Used(x) =>
              /\ x \in Known /\ x # Invalid /\ Clear(x) = x
              /\ x + Msb \in Entries /\ x + Msb # Invalid
              /\ Clear(x + Msb) = x /\ Used(x + Msb)
         /\ \A x \in Known : x \in Indices /\ x # Invalid /\ Clear(x) = x /\ ~Used(x)
         /\ Known \subseteq Fresh /\ Fresh \subseteq Entries /\ Invalid \in Fresh
<1>1. Msb \in Nat /\ Msb > 0 /\ Invalid = 2 * Msb - 1 /\ Indices = 0..(2 * Msb - 1)
  BY Bounds
<1>2. Known \subseteq 0..(Msb - 2) /\ Invalid \in Indices
  BY SearchFacts, InvalidIs
<1>3. \A x \in Known : x \in Indices /\ x # Invalid /\ x < Msb
  BY <1>1, <1>2
<1>4. \A x \in Known : Clear(x) = x /\ ~Used(x)
  BY <1>3, ClearIs
<1>5. Known \subseteq Fresh /\ Fresh \subseteq Entries /\ Invalid \in Fresh
  BY <1>2, <1>3, <1>4 DEF Fresh, Entries
<1>6. \A x \in Entries : x \in Indices /\ Clear(x) \in Keys
  BY ClearIs DEF Entries
<1>7. ASSUME NEW x \in Entries, x # Invalid PROVE Clear(x) \in Known /\ Clear(x) < Msb - 1
  <2>1. Clear(x) \in Known
    BY <1>7 DEF Entries
  <2>2. Clear(x) \in 0..(Msb - 2)
    BY <1>2, <2>1
  <2> QED BY <1>1, <2>1, <2>2
<1>8. ASSUME NEW x \in Entries, ~Used(x)
      PROVE  /\ x \in Known /\ x # Invalid /\ Clear(x) = x
             /\ x + Msb \in Entries /\ x + Msb # Invalid
             /\ Clear(x + Msb) = x /\ Used(x + Msb)
  <2>1. x \in Indices /\ x < Msb /\ Clear(x) = x /\ x # Invalid
    BY <1>6, <1>8, ClearIs, InvalidIs
  <2>2. x \in Known
    BY <1>7, <2>1
  <2>3. x \in 0..(Msb - 2)
    BY <1>2, <2>2
  <2>4. x + Msb \in Indices /\ x + Msb # Invalid /\ ~(x + Msb < Msb) /\ (x + Msb) - Msb = x
    BY <1>1, <2>3
  <2>5. Clear(x + Msb) = x /\ Used(x + Msb)
    <3> DEFINE y == x + Msb
    <3>1. y \in Indices /\ ~(y < Msb) /\ y - Msb = x
      BY <2>4
    <3> HIDE DEF y
    <3>2. Clear(y) = x /\ Used(y)
      BY <3>1, ClearIs
    <3> QED BY <3>2 DEF y
  <2> QED BY <2>1, <2>2, <2>4, <2>5 DEF Entries
<1> QED BY <1>3, <1>4, <1>5, <1>6, <1>7, <1>8

LEMMA ConcatIs ==
  ASSUME NEW T, NEW m \in Nat, NEW n \in Nat, NEW s \in [1..m -> T], NEW r \in [1..n -> T]
  PROVE  /\ s \o r \in [1..(m + n) -> T]
         /\ \A k \in 1..m : (s \o r)[k] = s[k]
         /\ \A k \in 1..n : (s \o r)[m + k] = r[k]
         /\ \A k \in 1..(m + n) : (s \o r)[k] = IF k <= m THEN s[k] ELSE r[k - m]
<1>1. s \in Seq(T) /\ r \in Seq(T) /\ Len(s) = m /\ Len(r) = n
  BY SeqDef
<1>2. /\ s \o r \in Seq(T) /\ Len(s \o r) = m + n
      /\ \A k \in 1..(m + n) : (s \o r)[k] = IF k <= m THEN s[k] ELSE r[k - m]
  BY <1>1, ConcatProperties
<1>3. s \o r \in [1..(m + n) -> T]
  BY <1>2, LenProperties
<1>4. \A k \in 1..m : (s \o r)[k] = s[k]
  BY <1>2
<1>5. \A k \in 1..n : (s \o r)[m + k] = r[k]
  <2> TAKE k \in 1..n
  <2>1. m + k \in 1..(m + n) /\ ~(m + k <= m) /\ m + k - m = k
    OBVIOUS
  <2> QED BY <1>2, <2>1
<1> QED BY <1>2, <1>3, <1>4, <1>5

LEMMA DistinctIs ==
  ASSUME plan \in Plans, NEW n \in Nat, NEW s \in [1..n -> Entries]
  PROVE  Distinct(s) <=> \A j, k \in 1..n : /\ j # k
                                            /\ s[j] # Invalid
                                            /\ s[k] # Invalid
                                            => Clear(s[j]) # Clear(s[k])
<1>1. ASSUME NEW j \in 1..n, NEW k \in 1..n, s[j] # Invalid, s[k] = Invalid
      PROVE  Clear(s[j]) # Clear(s[k])
  <2>1. Clear(s[k]) = Msb - 1
    BY <1>1, InvalidIs
  <2>2. Clear(s[j]) < Msb - 1 /\ Clear(s[j]) \in Known
    BY <1>1, EntryIs
  <2>3. Clear(s[j]) \in Nat /\ Msb \in Nat
    BY <2>2, SearchFacts, Bounds
  <2> QED BY <2>1, <2>2, <2>3
<1> QED BY <1>1 DEF Distinct

\* Every node of new has its place in old, and no two have the same.
From(new, n, old, m) ==
  \E f \in [1..n -> 1..m] :
    /\ \A k \in 1..n : new[k] # Invalid => new[k] = old[f[k]]
    /\ \A j, k \in 1..n : j # k /\ new[j] # Invalid /\ new[k] # Invalid => f[j] # f[k]

LEMMA FromKeeps ==
  ASSUME plan \in Plans, NEW m \in Nat, NEW n \in Nat,
         NEW old \in [1..m -> Entries], NEW new \in [1..n -> Entries], From(new, n, old, m)
  PROVE  /\ Distinct(old) => Distinct(new)
         /\ Entered(old) => Entered(new)
         /\ AllUsed(old) => AllUsed(new)
         /\ \A k \in 1..n : new[k] # Invalid => \E j \in 1..m : new[k] = old[j]
<1>1. PICK f \in [1..n -> 1..m] :
        /\ \A k \in 1..n : new[k] # Invalid => new[k] = old[f[k]]
        /\ \A j, k \in 1..n : j # k /\ new[j] # Invalid /\ new[k] # Invalid => f[j] # f[k]
  BY DEF From
<1>2. \A k \in 1..n : f[k] \in 1..m
  BY <1>1
<1>3. Distinct(old) => Distinct(new)
  <2> SUFFICES ASSUME Distinct(old), NEW j \in 1..n, NEW k \in 1..n, j # k,
                      new[j] # Invalid, new[k] # Invalid
               PROVE  Clear(new[j]) # Clear(new[k])
    BY DistinctIs
  <2>1. f[j] # f[k] /\ new[j] = old[f[j]] /\ new[k] = old[f[k]] /\ f[j] \in 1..m /\ f[k] \in 1..m
    BY <1>1, <1>2
  <2> QED BY <2>1, DistinctIs
<1>4. Entered(old) => Entered(new)
  BY <1>1, <1>2 DEF Entered
<1>5. AllUsed(old) => AllUsed(new)
  BY <1>1, <1>2, InvalidIs DEF AllUsed
<1> QED BY <1>1, <1>2, <1>3, <1>4, <1>5

LEMMA FromConcat ==
  ASSUME NEW m \in Nat, NEW n \in Nat, NEW l \in Nat,
         NEW old \in [1..m -> Entries], NEW new \in [1..n -> Entries],
         NEW rest \in [1..l -> Entries], From(new, n, old, m)
  PROVE  From(new \o rest, n + l, old \o rest, m + l)
<1>1. PICK f \in [1..n -> 1..m] :
        /\ \A k \in 1..n : new[k] # Invalid => new[k] = old[f[k]]
        /\ \A j, k \in 1..n : j # k /\ new[j] # Invalid /\ new[k] # Invalid => f[j] # f[k]
  BY DEF From
<1> DEFINE N == new \o rest
           O == old \o rest
           g == [k \in 1..(n + l) |-> IF k <= n THEN f[k] ELSE (m + k) - n]
<1>2. /\ N \in [1..(n + l) -> Entries] /\ O \in [1..(m + l) -> Entries]
      /\ \A k \in 1..(n + l) : N[k] = IF k <= n THEN new[k] ELSE rest[k - n]
      /\ \A k \in 1..m : O[k] = old[k]
      /\ \A k \in 1..l : O[m + k] = rest[k]
  <2>1. N \in [1..(n + l) -> Entries] /\ O \in [1..(m + l) -> Entries]
    BY ConcatIs
  <2>2. \A k \in 1..(n + l) : N[k] = IF k <= n THEN new[k] ELSE rest[k - n]
    BY ConcatIs
  <2>3. \A k \in 1..m : O[k] = old[k]
    BY ConcatIs
  <2>4. \A k \in 1..l : O[m + k] = rest[k]
    BY ConcatIs
  <2> QED BY <2>1, <2>2, <2>3, <2>4
<1> HIDE DEF N, O
<1>3. \A k \in 1..n : f[k] \in 1..m
  BY <1>1
<1>4. \A k \in 1..(n + l) : k <= n => k \in 1..n /\ g[k] = f[k] /\ g[k] \in 1..m
  BY <1>3
<1>5. \A k \in 1..(n + l) : ~(k <= n) =>
        g[k] = (m + k) - n /\ k - n \in 1..l /\ g[k] = m + (k - n) /\ g[k] \in (m + 1)..(m + l)
  OBVIOUS
<1>6. g \in [1..(n + l) -> 1..(m + l)]
  <2>1. ASSUME NEW k \in 1..(n + l) PROVE (IF k <= n THEN f[k] ELSE (m + k) - n) \in 1..(m + l)
    BY <1>3
  <2> QED BY <2>1
<1> HIDE DEF g
<1>7. ASSUME NEW k \in 1..(n + l), N[k] # Invalid PROVE N[k] = O[g[k]]
  <2>1. CASE k <= n
    BY <1>1, <1>2, <1>4, <1>7, <2>1
  <2>2. CASE ~(k <= n)
    <3>1. g[k] = m + (k - n) /\ k - n \in 1..l
      BY <1>5, <2>2
    <3>2. N[k] = rest[k - n] /\ O[m + (k - n)] = rest[k - n]
      BY <1>2, <2>2, <3>1
    <3> QED BY <3>1, <3>2
  <2> QED BY <2>1, <2>2
<1>8. ASSUME NEW j \in 1..(n + l), NEW k \in 1..(n + l), j # k, N[j] # Invalid, N[k] # Invalid
      PROVE  g[j] # g[k]
  <2>1. CASE j <= n /\ k <= n
    BY <1>1, <1>2, <1>4, <1>8, <2>1
  <2>2. CASE j <= n /\ ~(k <= n)
    BY <1>4, <1>5, <2>2
  <2>3. CASE ~(j <= n) /\ k <= n
    BY <1>4, <1>5, <2>3
  <2>4. CASE ~(j <= n) /\ ~(k <= n)
    BY <1>5, <1>8, <2>4
  <2> QED BY <2>1, <2>2, <2>3, <2>4
<1>9. \E d \in [1..(n + l) -> 1..(m + l)] :
        /\ \A k \in 1..(n + l) : N[k] # Invalid => N[k] = O[d[k]]
        /\ \A j, k \in 1..(n + l) : j # k /\ N[j] # Invalid /\ N[k] # Invalid => d[j] # d[k]
  <2> WITNESS g \in [1..(n + l) -> 1..(m + l)]
  <2> QED BY <1>7, <1>8
<1> QED BY <1>9 DEF From, N, O

LEMMA FromFrom ==
  ASSUME NEW l \in Nat, NEW m \in Nat, NEW n \in Nat, NEW a \in [1..l -> Entries],
         NEW b \in [1..m -> Entries], NEW c \in [1..n -> Entries],
         From(b, m, a, l), From(c, n, b, m)
  PROVE  From(c, n, a, l)
<1>1. PICK f \in [1..m -> 1..l] :
        /\ \A k \in 1..m : b[k] # Invalid => b[k] = a[f[k]]
        /\ \A j, k \in 1..m : j # k /\ b[j] # Invalid /\ b[k] # Invalid => f[j] # f[k]
  BY DEF From
<1>2. PICK g \in [1..n -> 1..m] :
        /\ \A k \in 1..n : c[k] # Invalid => c[k] = b[g[k]]
        /\ \A j, k \in 1..n : j # k /\ c[j] # Invalid /\ c[k] # Invalid => g[j] # g[k]
  BY DEF From
<1> DEFINE h == [k \in 1..n |-> f[g[k]]]
<1>3. \A k \in 1..n : g[k] \in 1..m /\ f[g[k]] \in 1..l /\ h[k] = f[g[k]]
  BY <1>1, <1>2
<1>4. h \in [1..n -> 1..l]
  BY <1>3
<1> HIDE DEF h
<1>5. \A k \in 1..n : c[k] # Invalid => c[k] = a[h[k]]
  BY <1>1, <1>2, <1>3
<1>6. ASSUME NEW j \in 1..n, NEW k \in 1..n, j # k, c[j] # Invalid, c[k] # Invalid
      PROVE  h[j] # h[k]
  <2>1. g[j] # g[k] /\ b[g[j]] # Invalid /\ b[g[k]] # Invalid
    BY <1>2, <1>6
  <2>2. f[g[j]] # f[g[k]]
    BY <1>1, <1>3, <2>1
  <2> QED BY <1>3, <2>2
<1>7. \E d \in [1..n -> 1..l] :
        /\ \A k \in 1..n : c[k] # Invalid => c[k] = a[d[k]]
        /\ \A j, k \in 1..n : j # k /\ c[j] # Invalid /\ c[k] # Invalid => d[j] # d[k]
  <2> WITNESS h \in [1..n -> 1..l]
  <2> QED BY <1>5, <1>6
<1> QED BY <1>7 DEF From

\* What the sorts and the compaction select.
LEMMA NearestIs ==
  ASSUME plan \in Plans, NEW n \in Nat, TopK <= n, NEW all \in [1..n -> Entries]
  PROVE  /\ Nearest(all) \in [1..TopK -> Entries] /\ From(Nearest(all), TopK, all, n)
         /\ \A k \in 1..TopK : Nearest(all)[k] = all[Position(all, k)]
<1> DEFINE new == Nearest(all)
           f == [k \in 1..TopK |-> Position(all, k)]
<1>1. TopK \in Nat /\ 1..TopK \subseteq 1..n
  BY SearchFacts
<1>2. all \in [1..n -> Indices]
  BY EntryIs
<1>3. /\ \A r \in 1..n : Position(all, r) \in 1..n /\ Rank(all, Position(all, r)) = r
      /\ SortedByDistance(all) = [r \in 1..n |-> all[Position(all, r)]]
  BY <1>2, SortIs
<1>4. new = [k \in 1..TopK |-> SortedByDistance(all)[k]]
  BY DEF Nearest, TopK
<1>5. \A k \in 1..TopK : new[k] = all[Position(all, k)] /\ Position(all, k) \in 1..n
  BY <1>1, <1>3, <1>4
<1>6. new \in [1..TopK -> Entries]
  BY <1>4, <1>5
<1> HIDE DEF new
<1>7. f \in [1..TopK -> 1..n]
  BY <1>5
<1>8. ASSUME NEW j \in 1..TopK, NEW k \in 1..TopK, f[j] = f[k] PROVE j = k
  <2>1. Position(all, j) = Position(all, k) /\ j \in 1..n /\ k \in 1..n
    BY <1>1, <1>8
  <2> QED BY <1>3, <2>1
<1>9. \A k \in 1..TopK : new[k] = all[f[k]]
  BY <1>5
<1> HIDE DEF f
<1>10. \E d \in [1..TopK -> 1..n] :
        /\ \A k \in 1..TopK : new[k] # Invalid => new[k] = all[d[k]]
        /\ \A j, k \in 1..TopK : j # k /\ new[j] # Invalid /\ new[k] # Invalid => d[j] # d[k]
  <2> WITNESS f \in [1..TopK -> 1..n]
  <2> QED BY <1>8, <1>9
<1>11. From(new, TopK, all, n)
  BY <1>10 DEF From
<1> QED BY <1>5, <1>6, <1>11 DEF new

LEMMA AnyIs ==
  ASSUME plan \in Plans, NEW n \in Nat, NEW all \in [1..n -> Entries], NEW new \in AnyOf(all)
  PROVE  new \in [1..TopK -> Entries] /\ From(new, TopK, all, n)
<1>1. PICK f \in [1..TopK -> 1..n] :
        IsInjective(f) /\ new = [k \in 1..TopK |-> all[f[k]]]
  BY DEF AnyOf, TopK
<1>2. \A k \in 1..TopK : f[k] \in 1..n /\ new[k] = all[f[k]]
  BY <1>1
<1>3. new \in [1..TopK -> Entries]
  BY <1>1, <1>2
<1>4. \A j, k \in 1..TopK : f[j] = f[k] => j = k
  BY <1>1 DEF IsInjective
<1> QED BY <1>1, <1>2, <1>3, <1>4 DEF From

LEMMA MergeIs ==
  ASSUME plan \in Plans, NEW list \in [1..TopK -> Entries], NEW rest \in [1..Kids -> Entries],
         NEW first \in BOOLEAN, NEW new \in BitonicMerge(list, rest, first)
  PROVE  new \in [1..TopK -> Entries] /\ From(new, TopK, list \o rest, TopK + Kids)
<1>1. TopK \in Nat /\ Kids \in Nat /\ TopK + Kids \in Nat /\ TopK <= TopK + Kids
  BY SearchFacts
<1>2. list \o rest \in [1..(TopK + Kids) -> Entries]
  BY <1>1, ConcatIs
<1>3. CASE new = Nearest(list \o rest)
  BY <1>1, <1>2, <1>3, NearestIs
<1>4. CASE new \in AnyOf(list \o rest)
  BY <1>1, <1>2, <1>4, AnyIs
<1> QED BY <1>3, <1>4 DEF BitonicMerge

LEMMA InvalidMovedIs ==
  ASSUME plan \in Plans, itopk \in [1..TopK -> Entries]
  PROVE  InvalidMoved \in [1..TopK -> Entries] /\ From(InvalidMoved, TopK, itopk, TopK)
<1> DEFINE holes == {k \in DOMAIN itopk : itopk[k] = Invalid}
           moved == {k \in holes : Cardinality({j \in holes : j < k}) < plan.search_width}
           kept  == DOMAIN itopk \ moved
           n     == Cardinality(kept)
           new   == InvalidMoved
           f     == [k \in 1..TopK |-> IF k <= n THEN Nth(kept, k) ELSE 1]
<1>1. DOMAIN itopk = 1..TopK /\ TopK \in Nat /\ TopK > 0
  BY SearchFacts
<1>2. new = [k \in 1..TopK |-> IF k <= n /\ k < TopK THEN itopk[Nth(kept, k)] ELSE Invalid]
  BY <1>1 DEF InvalidMoved, TopK
<1>3. kept \in SUBSET (1..TopK) /\ IsFiniteSet(1..TopK)
  BY <1>1, FS_Interval
<1> HIDE DEF kept, new
<1>4. IsFiniteSet(kept) /\ kept \subseteq Nat /\ n \in Nat
  <2>1. IsFiniteSet(kept)
    BY <1>3, FS_Subset
  <2>2. n \in Nat
    BY <2>1, FS_CardinalityType
  <2>3. kept \subseteq Nat
    BY <1>3
  <2> QED BY <2>1, <2>2, <2>3
<1>5. /\ \A k \in 1..n : Nth(kept, k) \in kept
      /\ \A j, k \in 1..n : j # k => Nth(kept, j) # Nth(kept, k)
  BY <1>4, NthIs
<1> HIDE DEF n
<1>6. \A k \in 1..TopK : k <= n => k \in 1..n /\ Nth(kept, k) \in 1..TopK
  <2> SUFFICES ASSUME NEW k \in 1..TopK, k <= n PROVE k \in 1..n /\ Nth(kept, k) \in 1..TopK
    OBVIOUS
  <2>1. k \in 1..n
    BY <1>4
  <2>2. Nth(kept, k) \in kept
    BY <1>5, <2>1
  <2> QED BY <1>3, <2>1, <2>2
<1>7. Invalid \in Entries
  BY EntryIs
<1>8. new \in [1..TopK -> Entries]
  <2>1. ASSUME NEW k \in 1..TopK
        PROVE  (IF k <= n /\ k < TopK THEN itopk[Nth(kept, k)] ELSE Invalid) \in Entries
    BY <1>6, <1>7
  <2> QED BY <1>2, <2>1
<1>9. f \in [1..TopK -> 1..TopK]
  <2>1. 1 \in 1..TopK
    BY <1>1
  <2>2. ASSUME NEW k \in 1..TopK PROVE (IF k <= n THEN Nth(kept, k) ELSE 1) \in 1..TopK
    BY <1>6, <2>1
  <2> QED BY <2>2
<1>10. \A k \in 1..TopK : k <= n => f[k] = Nth(kept, k)
  OBVIOUS
<1> HIDE DEF f
<1>11. ASSUME NEW k \in 1..TopK, new[k] # Invalid PROVE k <= n /\ new[k] = itopk[f[k]]
  BY <1>2, <1>10, <1>11
<1>12. ASSUME NEW j \in 1..TopK, NEW k \in 1..TopK, j # k, new[j] # Invalid, new[k] # Invalid
       PROVE  f[j] # f[k]
  <2>1. j \in 1..n /\ k \in 1..n /\ f[j] = Nth(kept, j) /\ f[k] = Nth(kept, k)
    BY <1>6, <1>10, <1>11, <1>12
  <2> QED BY <1>5, <1>12, <2>1
<1>13. \E d \in [1..TopK -> 1..TopK] :
         /\ \A k \in 1..TopK : new[k] # Invalid => new[k] = itopk[d[k]]
         /\ \A j, k \in 1..TopK : j # k /\ new[j] # Invalid /\ new[k] # Invalid => d[j] # d[k]
  <2> WITNESS f \in [1..TopK -> 1..TopK]
  <2> QED BY <1>11, <1>12
<1> QED BY <1>8, <1>13 DEF From, new

LEMMA CandidatesAfterIs ==
  ASSUME plan \in Plans, candidates \in [1..Kids -> Fresh]
  PROVE  /\ CandidatesAfter \in [1..Kids -> Fresh]
         /\ AllUsed(candidates) => AllUsed(CandidatesAfter)
<1>1. Kids \in Nat /\ Fresh \subseteq Entries /\ Entries \subseteq Indices
  BY SearchFacts, EntryIs
<1>2. candidates \in [1..Kids -> Indices] /\ DOMAIN candidates = 1..Kids
  BY <1>1
<1>3. /\ \A r \in 1..Kids : Position(candidates, r) \in 1..Kids
      /\ SortedByDistance(candidates) = [r \in 1..Kids |-> candidates[Position(candidates, r)]]
  BY <1>1, <1>2, SortIs
<1> DEFINE C == SortedByDistance(candidates)
<1>4. C \in [1..Kids -> Fresh] /\ \A r \in 1..Kids : C[r] = candidates[Position(candidates, r)]
  BY <1>3
<1>5. CandidatesAfter = [k \in 1..Kids |->
        IF plan.bitonic /\ k <= plan.itopk_size THEN C[k] ELSE candidates[k]]
  BY <1>2 DEF CandidatesAfter
<1> HIDE DEF C
<1>6. CandidatesAfter \in [1..Kids -> Fresh]
  BY <1>4, <1>5
<1>7. ASSUME AllUsed(candidates), NEW k \in 1..Kids PROVE Used(CandidatesAfter[k])
  <2>1. \A r \in 1..Kids : Used(candidates[r])
    BY <1>2, <1>7 DEF AllUsed
  <2>2. \A r \in 1..Kids : Used(C[r])
    BY <1>3, <1>4, <2>1
  <2>3. CandidatesAfter[k] = C[k] \/ CandidatesAfter[k] = candidates[k]
    BY <1>5
  <2> QED BY <2>1, <2>2, <2>3
<1>8. DOMAIN CandidatesAfter = 1..Kids
  BY <1>5
<1> QED BY <1>6, <1>7, <1>8 DEF AllUsed

LEMMA SortSelects ==
  ASSUME plan \in Plans, itopk \in [1..TopK -> Entries], candidates \in [1..Kids -> Fresh],
         iter \in Nat, Sort
  PROVE  itopk' \in [1..TopK -> Entries] /\ From(itopk', TopK, Buffer, TopK + Kids)
<1> DEFINE list == IF plan.filtered /\ plan.bitonic /\ terminate_flag THEN InvalidMoved ELSE itopk
<1>1. TopK \in Nat /\ Kids \in Nat /\ TopK + Kids \in Nat /\ TopK <= TopK + Kids
  BY SearchFacts
<1>2. candidates \in [1..Kids -> Entries] /\ (iter = 0) \in BOOLEAN
  BY EntryIs
<1>3. From(itopk, TopK, itopk, TopK)
  <2> DEFINE id == [k \in 1..TopK |-> k]
  <2>1. id \in [1..TopK -> 1..TopK]
    OBVIOUS
  <2>3. \A k \in 1..TopK : id[k] = k
    OBVIOUS
  <2> HIDE DEF id
  <2>2. \E d \in [1..TopK -> 1..TopK] :
         /\ \A k \in 1..TopK : itopk[k] # Invalid => itopk[k] = itopk[d[k]]
         /\ \A j, k \in 1..TopK :
              j # k /\ itopk[j] # Invalid /\ itopk[k] # Invalid => d[j] # d[k]
    <3> WITNESS id \in [1..TopK -> 1..TopK]
    <3> QED BY <2>3
  <2> QED BY <2>2 DEF From
<1>4. list \in [1..TopK -> Entries] /\ From(list, TopK, itopk, TopK)
  BY <1>3, InvalidMovedIs
<1>5. itopk' \in BitonicMerge(list, candidates, iter = 0) \/ itopk' = Nearest(list \o candidates)
  BY DEF Sort
<1> HIDE DEF list
<1>6. list \o candidates \in [1..(TopK + Kids) -> Entries]
  BY <1>1, <1>2, <1>4, ConcatIs
<1>7. itopk' \in [1..TopK -> Entries] /\ From(itopk', TopK, list \o candidates, TopK + Kids)
  <2>1. CASE itopk' \in BitonicMerge(list, candidates, iter = 0)
    BY <1>2, <1>4, <2>1, MergeIs
  <2>2. CASE itopk' = Nearest(list \o candidates)
    BY <1>1, <1>6, <2>2, NearestIs
  <2> QED BY <1>5, <2>1, <2>2
<1>8. From(list \o candidates, TopK + Kids, itopk \o candidates, TopK + Kids)
  BY <1>1, <1>2, <1>4, FromConcat
<1>9. itopk \o candidates \in [1..(TopK + Kids) -> Entries]
  BY <1>1, <1>2, ConcatIs
<1>10. From(itopk', TopK, itopk \o candidates, TopK + Kids)
  BY <1>1, <1>6, <1>7, <1>8, <1>9, FromFrom
<1> QED BY <1>7, <1>10 DEF Buffer

-----------------------------------------------------------------------------
(* Parents and children.                                                   *)

\* Marking keeps the nodes.
Remarked(new, old) ==
  \A k \in 1..TopK : /\ Clear(new[k]) = Clear(old[k])
                     /\ new[k] = Invalid <=> old[k] = Invalid
                     /\ Used(old[k]) => new[k] = old[k]

LEMMA PickIs ==
  ASSUME plan \in Plans, itopk \in [1..TopK -> Entries], PickupNextParents
  PROVE  /\ parents' \in [1..Width -> 0..TopK] /\ parents' # <<>>
         /\ itopk' \in [1..TopK -> Entries] /\ Remarked(itopk', itopk)
         /\ \A j \in 1..Width : parents'[j] # 0 =>
              Used(itopk'[parents'[j]]) /\ itopk'[parents'[j]] # Invalid
         /\ terminate_flag' = (terminate_flag \/ AllUsed(itopk))
         /\ AllUsed(itopk) => AllUsed(itopk') /\ \A j \in 1..Width : parents'[j] = 0
<1> DEFINE fresh == {k \in DOMAIN itopk : ~Used(itopk[k])}
           n == Cardinality(fresh)
<1>1. TopK \in Nat /\ Width \in Nat /\ Width > 0 /\ DOMAIN itopk = 1..TopK
  BY SearchFacts
<1>2. fresh \in SUBSET (1..TopK) /\ IsFiniteSet(1..TopK)
  BY <1>1, FS_Interval
<1>3. AllUsed(itopk) <=> fresh = {}
  BY DEF AllUsed
<1>4. /\ parents' = [j \in 1..Width |-> IF j <= n THEN Nth(fresh, j) ELSE 0]
      /\ itopk' = [k \in 1..TopK |-> IF k \in Range(parents') THEN itopk[k] + Msb ELSE itopk[k]]
      /\ terminate_flag' = (terminate_flag \/ n = 0)
  BY <1>1 DEF PickupNextParents, Width
<1>5. \A k \in 1..TopK : k \in fresh <=> ~Used(itopk[k])
  BY <1>1
<1> HIDE DEF fresh
<1>6. IsFiniteSet(fresh)
  BY <1>2, FS_Subset
<1>7. n \in Nat /\ fresh \subseteq Nat /\ (n = 0 <=> fresh = {})
  <2>1. n \in Nat
    BY <1>6, FS_CardinalityType
  <2>2. n = 0 <=> fresh = {}
    BY <1>6, FS_EmptySet
  <2>3. fresh \subseteq Nat
    BY <1>2
  <2> QED BY <2>1, <2>2, <2>3
<1>8. \A k \in 1..n : Nth(fresh, k) \in fresh
  BY <1>6, <1>7, NthIs
<1> HIDE DEF n
<1>9. ASSUME NEW j \in 1..Width, j <= n PROVE Nth(fresh, j) \in fresh
  <2>1. j \in 1..n
    BY <1>1, <1>7, <1>9
  <2> QED BY <1>8, <2>1
<1>10. parents' \in [1..Width -> 0..TopK]
  <2>1. ASSUME NEW j \in 1..Width
        PROVE  (IF j <= n THEN Nth(fresh, j) ELSE 0) \in 0..TopK
    <3>1. CASE j <= n
      <4>1. Nth(fresh, j) \in fresh
        BY <1>9, <3>1
      <4>2. Nth(fresh, j) \in 1..TopK
        BY <1>2, <4>1
      <4> QED BY <1>1, <3>1, <4>2
    <3>2. CASE ~(j <= n)
      BY <1>1, <3>2
    <3> QED BY <3>1, <3>2
  <2> QED BY <1>4, <2>1
<1>11. \A j \in 1..Width : parents'[j] # 0 => parents'[j] \in fresh
  BY <1>4, <1>9
<1>12. \A k \in 1..TopK : k \in Range(parents') => k \in fresh
  <2> SUFFICES ASSUME NEW k \in 1..TopK, k \in Range(parents') PROVE k \in fresh
    OBVIOUS
  <2>1. PICK j \in 1..Width : k = parents'[j]
    BY <1>10 DEF Range
  <2> QED BY <1>1, <1>11, <2>1
<1>13. \A j \in 1..Width : parents'[j] \in Range(parents')
  BY <1>10 DEF Range
<1>14. parents' # <<>>
  <2>1. DOMAIN parents' = 1..Width /\ 1 \in 1..Width
    BY <1>1, <1>10
  <2>2. DOMAIN <<>> = {}
    OBVIOUS
  <2> QED BY <2>1, <2>2
<1>15. ASSUME NEW k \in fresh
       PROVE  /\ itopk[k] + Msb \in Entries /\ itopk[k] + Msb # Invalid /\ itopk[k] # Invalid
              /\ Clear(itopk[k] + Msb) = Clear(itopk[k]) /\ Used(itopk[k] + Msb)
  <2>1. k \in 1..TopK /\ ~Used(itopk[k]) /\ itopk[k] \in Entries
    BY <1>2, <1>5
  <2> QED BY <2>1, EntryIs
<1>16. itopk' \in [1..TopK -> Entries]
  <2>1. ASSUME NEW k \in 1..TopK
        PROVE  (IF k \in Range(parents') THEN itopk[k] + Msb ELSE itopk[k]) \in Entries
    BY <1>12, <1>15
  <2> QED BY <1>4, <2>1
<1>17. ASSUME NEW k \in 1..TopK
       PROVE  /\ Clear(itopk'[k]) = Clear(itopk[k])
              /\ itopk'[k] = Invalid <=> itopk[k] = Invalid
              /\ Used(itopk[k]) => itopk'[k] = itopk[k]
  <2>1. CASE k \in Range(parents')
    BY <1>4, <1>5, <1>12, <1>15, <2>1
  <2>2. CASE k \notin Range(parents')
    BY <1>4, <2>2
  <2> QED BY <2>1, <2>2
<1>18. ASSUME NEW j \in 1..Width, parents'[j] # 0
       PROVE  Used(itopk'[parents'[j]]) /\ itopk'[parents'[j]] # Invalid
  <2>1. parents'[j] \in fresh /\ parents'[j] \in Range(parents') /\ parents'[j] \in 1..TopK
    BY <1>2, <1>11, <1>13, <1>18
  <2>2. itopk'[parents'[j]] = itopk[parents'[j]] + Msb
    BY <1>4, <2>1
  <2> QED BY <1>15, <2>1, <2>2
<1>19. ASSUME AllUsed(itopk) PROVE AllUsed(itopk') /\ \A j \in 1..Width : parents'[j] = 0
  <2>1. fresh = {}
    BY <1>3, <1>19
  <2>2. \A j \in 1..Width : parents'[j] = 0
    BY <1>11, <2>1
  <2>3. \A k \in 1..TopK : Used(itopk'[k])
    BY <1>5, <1>17, <2>1
  <2> QED BY <1>16, <2>2, <2>3 DEF AllUsed
<1>20. terminate_flag' = (terminate_flag \/ AllUsed(itopk))
  BY <1>3, <1>4, <1>7
<1> QED BY <1>10, <1>14, <1>16, <1>17, <1>18, <1>19, <1>20 DEF Remarked

\* The thread of a child, its parent and the edge.
LEMMA ThreadIs ==
  ASSUME plan \in Plans, NEW i \in 1..Kids
  PROVE  /\ (i - 1) \div plan.degree + 1 \in 1..Width
         /\ ((i - 1) % plan.degree) + 1 \in 1..plan.degree
<1> DEFINE w == Width
           d == plan.degree
           q == (i - 1) \div d
           r == (i - 1) % d
<1>1. w \in Nat /\ w > 0 /\ d \in Nat /\ d > 0 /\ Kids = w * d
  BY PlanFacts DEF Kids, NumCandidates, Width
<1>2. i - 1 \in Nat /\ i - 1 < w * d
  BY <1>1, SearchFacts
<1> HIDE DEF w, d
<1>3. q \in Nat /\ r \in 0..(d - 1) /\ i - 1 = d * q + r
  BY <1>1, <1>2
<1> HIDE DEF q, r
<1>4. q < w
  <2> SUFFICES ASSUME ~(q < w) PROVE FALSE
    OBVIOUS
  <2>1. q - w \in Nat /\ q = w + (q - w)
    BY <1>1, <1>3
  <2> DEFINE u == q - w
  <2>2. d * (w + u) = w * d + d * u /\ d * u \in Nat
    <3>1. u \in Nat
      BY <2>1
    <3> HIDE DEF u
    <3> QED BY <1>1, <3>1
  <2>3. d * q = w * d + d * u
    BY <2>1, <2>2
  <2> HIDE DEF u
  <2> DEFINE x == d * q
             y == w * d
             z == d * u
  <2>4. x \in Int /\ y \in Int /\ z \in Int /\ x = y + z /\ z >= 0
    <3>1. x \in Int /\ y \in Int
      BY <1>1, <1>3
    <3>2. z \in Nat /\ x = y + z
      BY <2>2, <2>3
    <3> HIDE DEF x, y, z
    <3> QED BY <3>1, <3>2
  <2>5. i - 1 = x + r /\ i - 1 < y
    BY <1>2, <1>3
  <2> HIDE DEF x, y, z
  <2> QED BY <1>1, <1>3, <2>4, <2>5
<1>5. q + 1 \in 1..w /\ r + 1 \in 1..d
  BY <1>1, <1>3, <1>4
<1> QED BY <1>5 DEF w, d, q, r

LEMMA ChildIs ==
  ASSUME plan \in Plans, itopk \in [1..TopK -> Entries], parents \in [1..Width -> 0..TopK],
         \A j \in 1..Width : parents[j] # 0 => itopk[parents[j]] # Invalid,
         NEW i \in 1..Kids
  PROVE  /\ Child(i) \in Fresh
         /\ (\A j \in 1..Width : parents[j] = 0) => Child(i) = Invalid
<1> DEFINE j == (i - 1) \div plan.degree + 1
           e == ((i - 1) % plan.degree) + 1
           p == parents[j]
<1>1. j \in 1..Width /\ e \in 1..plan.degree
  BY ThreadIs
<1>2. Child(i) = IF p = 0 THEN Invalid ELSE plan.graph[Clear(itopk[p])][e]
  BY DEF Child
<1> HIDE DEF j, e
<1>3. p \in 0..TopK /\ (p # 0 => itopk[p] # Invalid)
  BY <1>1
<1>4. CASE p = 0
  BY <1>2, <1>4, EntryIs
<1>5. CASE p # 0
  <2>1. p \in 1..TopK
    BY <1>3, <1>5, SearchFacts
  <2>2. Clear(itopk[p]) \in Known
    BY <1>3, <1>5, <2>1, EntryIs
  <2>3. plan.graph[Clear(itopk[p])] \in [1..plan.degree -> Known]
    BY <2>2, PlanFacts DEF Known
  <2>4. plan.graph[Clear(itopk[p])][e] \in Known
    BY <1>1, <2>3
  <2> QED BY <1>1, <1>2, <1>5, <2>4, EntryIs
<1> QED BY <1>4, <1>5

-----------------------------------------------------------------------------
(* Threads.                                                                *)

LEMMA ThreadsAre ==
  ASSUME plan \in Plans, pc \in Phases, ThreadsInv
  PROVE  /\ DOMAIN probe = CASE pc = "seeds"          -> 1..(TopK + Kids)
                             [] pc = "pick" /\ Resets -> 1..TopK
                             [] pc = "children"       -> 1..Kids
                             [] OTHER                 -> {}
         /\ probe \in [DOMAIN probe -> [pc : {"read", "probe", "done"}, key : Indices,
                                        tried : Places]]
         /\ \A i \in DOMAIN probe : probe[i].pc = "probe" =>
              probe[i].key \in Keys /\ (pc # "pick" => probe[i].key \in Known)
         /\ \A i \in DOMAIN probe : probe[i].pc = "read" => pc = "pick"
         /\ IsFiniteSet(DOMAIN probe)
<1>1. Known \subseteq Keys /\ TopK \in Nat /\ Kids \in Nat /\ TopK + Kids \in Nat
  BY SearchFacts
<1>2. IsFiniteSet(1..(TopK + Kids)) /\ IsFiniteSet(1..TopK) /\ IsFiniteSet(1..Kids)
  BY <1>1, FS_Interval
<1>3. IsFiniteSet({})
  BY FS_EmptySet
<1>4. CASE pc = "seeds"
  <2>1. Insertions(TopK + Kids, {"probe", "done"}, Known)
    BY <1>4 DEF ThreadsInv
  <2> QED BY <1>1, <1>2, <1>4, <2>1 DEF Insertions
<1>5. CASE pc = "children"
  <2>1. Insertions(Kids, {"probe", "done"}, Known)
    BY <1>5 DEF ThreadsInv
  <2> QED BY <1>1, <1>2, <1>5, <2>1 DEF Insertions
<1>6. CASE pc = "pick" /\ Resets
  <2>1. Insertions(TopK, {"read", "probe", "done"}, Keys)
    BY <1>6 DEF ThreadsInv
  <2> QED BY <1>1, <1>2, <1>6, <2>1 DEF Insertions
<1>7. CASE pc # "seeds" /\ pc # "children" /\ ~(pc = "pick" /\ Resets)
  <2>1. probe = <<>>
    BY <1>7 DEF ThreadsInv
  <2> QED BY <1>3, <1>7, <2>1
<1> QED BY <1>4, <1>5, <1>6, <1>7

LEMMA WrittenIs ==
  ASSUME ShapeInv, ThreadsInv, NEW i \in DOMAIN probe, NEW x, Written(i, x),
         pc # "pick" => x \in Fresh, plan' = plan
  PROVE  /\ itopk' \in [1..TopK -> Entries] /\ candidates' \in [1..Kids -> Fresh]
         /\ pc = "pick" => itopk' = itopk /\ candidates' = candidates
         /\ pc = "children" => itopk' = itopk
         /\ pc # "pick" => \A k \in 1..(TopK + Kids) :
                             Buffer'[k] = IF k = Mine(i) THEN x ELSE Buffer[k]
<1>1. /\ itopk \in [1..TopK -> Entries] /\ candidates \in [1..Kids -> Fresh] /\ plan \in Plans
      /\ pc \in Phases
  BY DEF ShapeInv
<1>2. TopK \in Nat /\ Kids \in Nat /\ TopK = plan.itopk_size /\ Fresh \subseteq Entries
  BY <1>1, SearchFacts, EntryIs DEF TopK
<1>3. ASSUME NEW s \in [1..TopK -> Entries], NEW r \in [1..Kids -> Fresh],
             NEW k \in 1..(TopK + Kids)
      PROVE  (s \o r)[k] = IF k <= TopK THEN s[k] ELSE r[k - TopK]
  <2>1. r \in [1..Kids -> Entries]
    BY <1>2
  <2>2. TopK \in Nat /\ Kids \in Nat
    BY <1>2
  <2>3. \A l \in 1..(TopK + Kids) : (s \o r)[l] = IF l <= TopK THEN s[l] ELSE r[l - TopK]
    BY <2>1, <2>2, ConcatIs
  <2> QED BY <2>3
<1>4. DOMAIN probe = CASE pc = "seeds"          -> 1..(TopK + Kids)
                       [] pc = "pick" /\ Resets -> 1..TopK
                       [] pc = "children"       -> 1..Kids
                       [] OTHER                 -> {}
  BY <1>1, ThreadsAre
<1>5. CASE pc = "seeds" /\ i <= TopK
  <2>1. i \in 1..TopK /\ itopk' = [itopk EXCEPT ![i] = x] /\ candidates' = candidates
    <3>1. i \in 1..TopK
      BY <1>2, <1>4, <1>5
    <3>2. pc = "seeds" /\ i <= plan.itopk_size /\ ~(i > plan.itopk_size)
      BY <1>2, <1>4, <1>5
    <3> QED BY <3>1, <3>2 DEF Written, TopK
  <2>2. itopk' \in [1..TopK -> Entries]
    BY <1>1, <1>2, <1>5, <2>1
  <2>3. \A k \in 1..(TopK + Kids) : Buffer'[k] = IF k = i THEN x ELSE Buffer[k]
    BY <1>1, <1>2, <1>3, <2>1, <2>2 DEF Buffer
  <2> QED BY <1>1, <1>5, <2>1, <2>2, <2>3 DEF Mine
<1>6. CASE pc = "seeds" /\ i > TopK
  <2>1. /\ i - TopK \in 1..Kids /\ itopk' = itopk
        /\ candidates' = [candidates EXCEPT ![i - TopK] = x]
    <3>1. i - TopK \in 1..Kids
      BY <1>2, <1>4, <1>6
    <3>2. pc = "seeds" /\ ~(i <= plan.itopk_size) /\ i > plan.itopk_size
      BY <1>2, <1>4, <1>6
    <3> QED BY <3>1, <3>2 DEF Written, TopK
  <2>2. candidates' \in [1..Kids -> Fresh]
    BY <1>1, <1>2, <1>6, <2>1
  <2>3. \A k \in 1..(TopK + Kids) : Buffer'[k] = IF k = i THEN x ELSE Buffer[k]
    <3> TAKE k \in 1..(TopK + Kids)
    <3>1. Buffer'[k] = IF k <= TopK THEN itopk[k] ELSE candidates'[k - TopK]
      BY <1>1, <1>3, <2>1, <2>2 DEF Buffer
    <3>2. Buffer[k] = IF k <= TopK THEN itopk[k] ELSE candidates[k - TopK]
      BY <1>1, <1>3 DEF Buffer
    <3>3. i \in Nat /\ i > TopK
      BY <1>2, <1>4, <1>6
    <3> QED BY <1>1, <1>2, <2>1, <3>1, <3>2, <3>3
  <2> QED BY <1>1, <1>6, <2>1, <2>2, <2>3 DEF Mine
<1>7. CASE pc = "children"
  <2>1. i \in 1..Kids /\ itopk' = itopk /\ candidates' = [candidates EXCEPT ![i] = x]
    BY <1>2, <1>4, <1>7 DEF Written
  <2>2. candidates' \in [1..Kids -> Fresh]
    BY <1>1, <1>2, <1>7, <2>1
  <2>3. \A k \in 1..(TopK + Kids) : Buffer'[k] = IF k = TopK + i THEN x ELSE Buffer[k]
    <3> TAKE k \in 1..(TopK + Kids)
    <3>1. Buffer'[k] = IF k <= TopK THEN itopk[k] ELSE candidates'[k - TopK]
      BY <1>1, <1>3, <2>1, <2>2 DEF Buffer
    <3>2. Buffer[k] = IF k <= TopK THEN itopk[k] ELSE candidates[k - TopK]
      BY <1>1, <1>3 DEF Buffer
    <3> QED BY <1>1, <1>2, <2>1, <3>1, <3>2
  <2> QED BY <1>1, <1>7, <2>1, <2>2, <2>3 DEF Mine
<1>8. CASE pc = "pick"
  BY <1>1, <1>8 DEF Written
<1>9. pc = "seeds" \/ pc = "children" \/ pc = "pick"
  BY <1>4
<1>10. pc = "seeds" => i \in Nat
  BY <1>4
<1> QED BY <1>2, <1>5, <1>6, <1>7, <1>8, <1>9, <1>10

\* What one atomicCAS does: it enters the key, ends the insertion or goes on.
Enters(i) ==
  /\ table[Place(i)] = Invalid /\ table' = [table EXCEPT ![Place(i)] = probe[i].key]
  /\ probe' = [probe EXCEPT ![i] = Done] /\ Written(i, probe[i].key)
Leaves(i) ==
  /\ table[Place(i)] # Invalid /\ (table[Place(i)] = probe[i].key \/ probe[i].tried + 1 = Size)
  /\ table' = table /\ probe' = [probe EXCEPT ![i] = Done] /\ Written(i, Invalid)
Goes(i) ==
  /\ table[Place(i)] \notin {Invalid, probe[i].key} /\ probe[i].tried + 1 # Size
  /\ table' = table /\ probe' = [probe EXCEPT ![i].tried = @ + 1]
  /\ itopk' = itopk /\ candidates' = candidates

LEMMA InsertIs ==
  ASSUME ShapeInv, ThreadsInv, NEW i \in DOMAIN probe, Insert(i)
  PROVE  /\ probe[i] \in [pc : {"read", "probe", "done"}, key : Indices, tried : Places]
         /\ probe[i].pc = "probe" /\ probe[i].key \in Keys /\ probe[i].key # Invalid
         /\ pc # "pick" => probe[i].key \in Known
         /\ Home(probe[i].key) \in Places /\ Place(i) = At(Home(probe[i].key), probe[i].tried)
         /\ Place(i) \in Places
         /\ Enters(i) \/ Leaves(i) \/ Goes(i)
         /\ plan' = plan /\ pc' = pc /\ parents' = parents /\ terminate_flag' = terminate_flag
         /\ iter' = iter
<1>1. plan \in Plans /\ pc \in Phases /\ table \in [Places -> Keys \union {Invalid}]
  BY DEF ShapeInv
<1>2. /\ probe \in [DOMAIN probe -> [pc : {"read", "probe", "done"}, key : Indices,
                                     tried : Places]]
      /\ probe[i].pc = "probe" => probe[i].key \in Keys /\ (pc # "pick" => probe[i].key \in Known)
  BY <1>1, ThreadsAre
<1>3. /\ probe[i].pc = "probe" /\ plan' = plan /\ pc' = pc /\ parents' = parents
      /\ terminate_flag' = terminate_flag /\ iter' = iter
  BY DEF Insert
<1>4. probe[i] \in [pc : {"read", "probe", "done"}, key : Indices, tried : Places]
  BY <1>2
<1>5. probe[i].key \in Keys /\ probe[i].key # Invalid /\ (pc # "pick" => probe[i].key \in Known)
  BY <1>2, <1>3, InvalidIs
<1>6. Home(probe[i].key) \in Places
  BY <1>1, <1>5, HomeIs
<1>7. Place(i) = At(Home(probe[i].key), probe[i].tried)
  BY DEF Place, At
<1>8. Place(i) \in Places
  <2>1. probe[i].tried \in Places
    BY <1>4
  <2>2. At(Home(probe[i].key), probe[i].tried) \in Places
    BY <1>1, <1>6, <2>1, AtIs
  <2> QED BY <1>7, <2>2
<1>9. Enters(i) \/ Leaves(i) \/ Goes(i)
  <2>1. CASE table[Place(i)] = Invalid
    BY <2>1 DEF Insert, Enters
  <2>2. CASE /\ table[Place(i)] # Invalid
             /\ table[Place(i)] = probe[i].key \/ probe[i].tried + 1 = Size
    BY <2>2 DEF Insert, Leaves
  <2>3. CASE table[Place(i)] \notin {Invalid, probe[i].key} /\ probe[i].tried + 1 # Size
    BY <2>3 DEF Insert, Goes
  <2> QED BY <2>1, <2>2, <2>3
<1> QED BY <1>3, <1>4, <1>5, <1>6, <1>7, <1>8, <1>9

LEMMA ThreadsKept ==
  ASSUME ShapeInv, ThreadsInv, plan' = plan, pc' = pc, iter' = iter, NEW i \in DOMAIN probe,
         NEW v \in [pc : {"probe", "done"}, key : Indices, tried : Places],
         v.pc = "probe" => v.key \in Keys /\ (pc # "pick" => v.key \in Known),
         probe' = [probe EXCEPT ![i] = v]
  PROVE  ThreadsInv'
<1>1. /\ plan \in Plans /\ pc \in Phases /\ Resets' = Resets /\ TopK' = TopK /\ Kids' = Kids
      /\ Known' = Known /\ Keys' = Keys /\ Places' = Places /\ Indices' = Indices
  BY PlanSame DEF ShapeInv, Resets, Keys, Indices
<1>2. ASSUME NEW n, NEW at, NEW keys, Insertions(n, at, keys), {"probe", "done"} \subseteq at,
             v.pc = "probe" => v.key \in keys
      PROVE  /\ probe' \in [1..n -> [pc : at, key : Indices, tried : Places]]
             /\ \A j \in 1..n : probe'[j].pc = "probe" => probe'[j].key \in keys
  <2>1. probe \in [1..n -> [pc : at, key : Indices, tried : Places]]
    BY <1>2 DEF Insertions
  <2>2. v \in [pc : at, key : Indices, tried : Places] /\ i \in 1..n
    BY <1>2, <2>1
  <2>3. \A j \in 1..n : probe'[j] = IF j = i THEN v ELSE probe[j]
    BY <2>1, <2>2
  <2>4. probe' \in [1..n -> [pc : at, key : Indices, tried : Places]]
    BY <2>1, <2>2
  <2>5. ASSUME NEW j \in 1..n, probe'[j].pc = "probe" PROVE probe'[j].key \in keys
    BY <1>2, <2>3, <2>5 DEF Insertions
  <2> QED BY <2>4, <2>5
<1>3. CASE pc = "seeds"
  <2>1. Insertions(TopK + Kids, {"probe", "done"}, Known)
    BY <1>3 DEF ThreadsInv
  <2>2. /\ probe' \in [1..(TopK + Kids) -> [pc : {"probe", "done"}, key : Indices, tried : Places]]
        /\ \A j \in 1..(TopK + Kids) : probe'[j].pc = "probe" => probe'[j].key \in Known
    BY <1>2, <1>3, <2>1
  <2>3. Insertions(TopK + Kids, {"probe", "done"}, Known)'
    BY <1>1, <2>2 DEF Insertions
  <2> QED BY <1>3, <2>3 DEF ThreadsInv
<1>4. CASE pc = "children"
  <2>1. Insertions(Kids, {"probe", "done"}, Known)
    BY <1>4 DEF ThreadsInv
  <2>2. /\ probe' \in [1..Kids -> [pc : {"probe", "done"}, key : Indices, tried : Places]]
        /\ \A j \in 1..Kids : probe'[j].pc = "probe" => probe'[j].key \in Known
    BY <1>2, <1>4, <2>1
  <2>3. Insertions(Kids, {"probe", "done"}, Known)'
    BY <1>1, <2>2 DEF Insertions
  <2> QED BY <1>4, <2>3 DEF ThreadsInv
<1>5. CASE pc = "pick" /\ Resets
  <2>1. Insertions(TopK, {"read", "probe", "done"}, Keys)
    BY <1>5 DEF ThreadsInv
  <2>2. /\ probe' \in [1..TopK -> [pc : {"read", "probe", "done"}, key : Indices, tried : Places]]
        /\ \A j \in 1..TopK : probe'[j].pc = "probe" => probe'[j].key \in Keys
    BY <1>2, <2>1
  <2>3. Insertions(TopK, {"read", "probe", "done"}, Keys)'
    BY <1>1, <2>2 DEF Insertions
  <2> QED BY <1>1, <1>5, <2>3 DEF ThreadsInv
<1>6. pc = "seeds" \/ pc = "children" \/ (pc = "pick" /\ Resets)
  BY <1>1, ThreadsAre
<1> QED BY <1>3, <1>4, <1>5, <1>6

LEMMA NoThreads ==
  ASSUME probe = <<>>, pc \notin {"seeds", "children"}, pc = "pick" => ~Resets
  PROVE  ThreadsInv
BY DEF ThreadsInv

-----------------------------------------------------------------------------
(* The shape of the state is kept.                                         *)

LEMMA InsertShape ==
  ASSUME Shape, NEW i \in DOMAIN probe, Insert(i)
  PROVE  Shape'
<1>1. /\ plan \in Plans /\ pc \in Phases /\ plan' = plan /\ pc' = pc /\ iter' = iter
      /\ parents' = parents /\ terminate_flag' = terminate_flag
      /\ table \in [Places -> Keys \union {Invalid}]
  BY InsertIs DEF Shape, ShapeInv
<1>2. /\ probe[i] \in [pc : {"read", "probe", "done"}, key : Indices, tried : Places]
      /\ probe[i].pc = "probe" /\ probe[i].key \in Keys
      /\ pc # "pick" => probe[i].key \in Known
      /\ Place(i) \in Places
      /\ Enters(i) \/ Leaves(i) \/ Goes(i)
  BY InsertIs DEF Shape
<1>3. /\ TopK' = TopK /\ Kids' = Kids /\ Places' = Places /\ Entries' = Entries /\ Fresh' = Fresh
      /\ Width' = Width /\ MaxIterations(plan)' = MaxIterations(plan)
  BY <1>1, PlanSame
<1>4. \A x \in Known : x \in Fresh
  BY <1>1, EntryIs
<1>5. itopk' \in [1..TopK -> Entries] /\ candidates' \in [1..Kids -> Fresh]
      /\ (pc = "children" \/ pc = "pick" => itopk' = itopk)
  <2>1. CASE Goes(i)
    BY <2>1 DEF Goes, Shape, ShapeInv
  <2>2. CASE Enters(i)
    <3>1. Written(i, probe[i].key) /\ (pc # "pick" => probe[i].key \in Fresh)
      BY <1>2, <1>4, <2>2 DEF Enters
    <3> QED BY <1>1, <3>1, WrittenIs DEF Shape
  <2>3. CASE Leaves(i)
    <3>1. Written(i, Invalid) /\ Invalid \in Fresh
      BY <1>1, <2>3, EntryIs DEF Leaves
    <3> QED BY <1>1, <3>1, WrittenIs DEF Shape
  <2> QED BY <1>2, <2>1, <2>2, <2>3
<1>6. table' \in [Places -> Keys \union {Invalid}]
  BY <1>1, <1>2 DEF Enters, Leaves, Goes
<1>7. ShapeInv'
  BY <1>1, <1>3, <1>5, <1>6 DEF Shape, ShapeInv
<1>8. ThreadsInv'
  <2>1. 0 \in Places /\ Invalid \in Indices
    BY <1>1, SearchFacts, InvalidIs
  <2>2. CASE Enters(i) \/ Leaves(i)
    <3>1. Done \in [pc : {"probe", "done"}, key : Indices, tried : Places] /\ Done.pc # "probe"
      BY <2>1 DEF Done
    <3>2. probe' = [probe EXCEPT ![i] = Done]
      BY <2>2 DEF Enters, Leaves
    <3> QED BY <1>1, <3>1, <3>2, ThreadsKept DEF Shape
  <2>3. CASE Goes(i)
    <3> DEFINE v == [probe[i] EXCEPT !.tried = probe[i].tried + 1]
    <3>1. probe' = [probe EXCEPT ![i] = v]
      BY <2>3 DEF Goes
    <3>2. probe[i].tried + 1 \in Places
      <4>1. probe[i].tried \in 0..(Size - 1) /\ Size \in Nat /\ probe[i].tried + 1 # Size
        BY <1>1, <1>2, <2>3, SearchFacts DEF Goes
      <4> QED BY <1>1, <4>1, SearchFacts
    <3>3. v.pc = "probe" /\ v.key = probe[i].key
      BY <1>2
    <3>4. v \in [pc : {"probe", "done"}, key : Indices, tried : Places]
      BY <1>2, <3>2
    <3> HIDE DEF v
    <3>5. v.pc = "probe" => v.key \in Keys /\ (pc # "pick" => v.key \in Known)
      BY <1>2, <3>3
    <3> QED BY <1>1, <3>1, <3>4, <3>5, ThreadsKept DEF Shape
  <2> QED BY <1>2, <2>2, <2>3
<1>9. ParentsInv'
  BY <1>1, <1>3, <1>5 DEF Shape, ParentsInv
<1> QED BY <1>7, <1>8, <1>9 DEF Shape

LEMMA RestoreShape ==
  ASSUME Shape, NEW i \in DOMAIN probe, RestoreRead(i)
  PROVE  /\ Shape' /\ pc = "pick" /\ Resets /\ i \in 1..TopK
         /\ probe' = [probe EXCEPT ![i] = Probing(Clear(itopk[i]))]
<1>1. /\ plan \in Plans /\ pc \in Phases /\ plan' = plan /\ pc' = pc /\ iter' = iter
      /\ parents' = parents /\ terminate_flag' = terminate_flag /\ table' = table
      /\ itopk' = itopk /\ candidates' = candidates /\ pc = "pick"
      /\ itopk \in [1..TopK -> Entries]
  BY DEF RestoreRead, Shape, ShapeInv
<1>2. Resets /\ i \in 1..TopK
  BY <1>1, ThreadsAre DEF Shape
<1>3. Clear(itopk[i]) \in Keys /\ Clear(itopk[i]) \in Indices
  <2>1. Clear(itopk[i]) \in Keys
    BY <1>1, <1>2, EntryIs
  <2> QED BY <2>1, InvalidIs
<1> DEFINE v == Probing(Clear(itopk[i]))
<1>4. probe' = [probe EXCEPT ![i] = v]
  BY DEF RestoreRead, RestoreKey
<1>5. v \in [pc : {"probe", "done"}, key : Indices, tried : Places] /\ v.key = Clear(itopk[i])
  <2>1. 0 \in Places
    BY <1>1, SearchFacts
  <2> QED BY <1>3, <2>1 DEF Probing
<1> HIDE DEF v
<1>6. v.pc = "probe" => v.key \in Keys /\ (pc # "pick" => v.key \in Known)
  BY <1>1, <1>3, <1>5
<1>7. ThreadsInv'
  BY <1>1, <1>4, <1>5, <1>6, ThreadsKept DEF Shape
<1>8. /\ TopK' = TopK /\ Kids' = Kids /\ Places' = Places /\ Entries' = Entries /\ Fresh' = Fresh
      /\ Width' = Width /\ MaxIterations(plan)' = MaxIterations(plan)
  BY <1>1, PlanSame
<1>9. ShapeInv' /\ ParentsInv'
  BY <1>1, <1>8 DEF Shape, ShapeInv, ParentsInv
<1> QED BY <1>1, <1>2, <1>4, <1>7, <1>9 DEF Shape, v

LEMMA SameShape ==
  ASSUME plan' = plan
  PROVE  /\ TopK' = TopK /\ Kids' = Kids /\ Places' = Places /\ Entries' = Entries
         /\ Fresh' = Fresh /\ Known' = Known /\ Width' = Width /\ Phases' = Phases
         /\ MaxIterations(plan)' = MaxIterations(plan)
         /\ (Keys \union {Invalid})' = Keys \union {Invalid}
BY PlanSame DEF Phases, Keys

LEMMA SortShape ==
  ASSUME Shape, Sort
  PROVE  Shape' /\ CandidatesAfter \in [1..Kids -> Fresh]
<1>1. /\ plan \in Plans /\ plan' = plan /\ pc = "sort" /\ pc' = "sorted" /\ iter' = iter
      /\ parents' = <<>> /\ probe' = probe /\ candidates' = CandidatesAfter
      /\ terminate_flag' \in BOOLEAN
  BY DEF Sort, Shape, ShapeInv
<1>2. itopk' \in [1..TopK -> Entries]
  BY SortSelects DEF Shape, ShapeInv
<1>3. CandidatesAfter \in [1..Kids -> Fresh]
  BY CandidatesAfterIs DEF Shape, ShapeInv
<1>4. table' \in [Places -> Keys \union {Invalid}]
  <2>1. EmptyTable \in [Places -> Keys \union {Invalid}]
    BY DEF EmptyTable
  <2>2. table \in [Places -> Keys \union {Invalid}]
    BY DEF Shape, ShapeInv
  <2> QED BY <2>1, <2>2 DEF Sort
<1>5. ShapeInv'
  BY <1>1, <1>2, <1>3, <1>4, SameShape DEF Shape, ShapeInv, Phases
<1>6. probe = <<>>
  BY <1>1 DEF Shape, ThreadsInv
<1>7. ThreadsInv'
  BY <1>1, <1>6 DEF ThreadsInv
<1> QED BY <1>1, <1>3, <1>5, <1>7 DEF Shape, ParentsInv

LEMMA SortedShape ==
  ASSUME Shape, Sorted
  PROVE  /\ Shape' /\ parents = <<>>
         /\ pc' = "pick" /\ Resets =>
              probe' = [i \in 1..TopK |-> [Done EXCEPT !.pc = "read"]]
         /\ ~(pc' = "pick" /\ Resets) => probe' = <<>>
<1>1. /\ plan \in Plans /\ plan' = plan /\ pc = "sorted" /\ iter' = iter /\ iter \in Nat
      /\ parents' = parents /\ candidates' = candidates /\ itopk' = itopk /\ table' = table
      /\ terminate_flag' = terminate_flag /\ itopk \in [1..TopK -> Entries]
  BY DEF Sorted, Shape, ShapeInv
<1>2. /\ pc' \in {"post", "done", "pick"} /\ (pc' = "pick" => iter + 1 # MaxIterations(plan))
      /\ pc' = "post" => plan.filtered
  BY <1>1 DEF Sorted, Left
<1>3. iter + 1 # MaxIterations(plan) => iter + 1 < MaxIterations(plan)
  BY <1>1, SearchFacts DEF Shape, ShapeInv
<1>4. ShapeInv'
  BY <1>1, <1>2, <1>3, SameShape DEF Shape, ShapeInv, Phases
<1>5. parents = <<>>
  BY <1>1 DEF Shape, ParentsInv
<1>6. Resets' = Resets
  BY <1>1 DEF Resets
<1>7. CASE pc' = "pick" /\ Resets
  <2> DEFINE d == [Done EXCEPT !.pc = "read"]
  <2>1. probe' = [i \in 1..TopK |-> d]
    BY <1>1, <1>7 DEF Sorted
  <2>2. d \in [pc : {"read", "probe", "done"}, key : Indices, tried : Places] /\ d.pc = "read"
    BY <1>1, SearchFacts, InvalidIs DEF Done
  <2> HIDE DEF d
  <2>3. Insertions(TopK, {"read", "probe", "done"}, Keys)'
    <3>1. TopK' = TopK /\ Places' = Places /\ Indices' = Indices /\ Keys' = Keys
      BY <1>1, SameShape DEF Indices, Keys
    <3>2. probe' \in [1..TopK -> [pc : {"read", "probe", "done"}, key : Indices, tried : Places]]
      BY <2>1, <2>2
    <3>3. \A i \in 1..TopK : probe'[i].pc # "probe"
      BY <2>1, <2>2
    <3> QED BY <3>1, <3>2, <3>3 DEF Insertions
  <2>4. ThreadsInv'
    BY <1>6, <1>7, <2>3 DEF ThreadsInv
  <2> QED BY <1>1, <1>4, <1>5, <1>7, <2>1, <2>4 DEF Shape, ParentsInv, d
<1>8. CASE ~(pc' = "pick" /\ Resets)
  <2>1. probe' = <<>>
    BY <1>8 DEF Sorted
  <2>2. ThreadsInv'
    BY <1>2, <1>6, <1>8, <2>1 DEF ThreadsInv
  <2> QED BY <1>1, <1>2, <1>4, <1>5, <1>8, <2>1, <2>2 DEF Shape, ParentsInv
<1> QED BY <1>7, <1>8

LEMMA PickShape ==
  ASSUME Shape, PickupNextParents
  PROVE  Shape'
<1>1. /\ plan \in Plans /\ plan' = plan /\ pc = "pick" /\ pc' = pc /\ iter' = iter
      /\ probe' = probe /\ candidates' = candidates /\ table' = table
      /\ terminate_flag \in BOOLEAN /\ itopk \in [1..TopK -> Entries]
  BY DEF PickupNextParents, Shape, ShapeInv
<1>2. /\ parents' \in [1..Width -> 0..TopK] /\ parents' # <<>>
      /\ itopk' \in [1..TopK -> Entries]
      /\ \A j \in 1..Width : parents'[j] # 0 =>
           Used(itopk'[parents'[j]]) /\ itopk'[parents'[j]] # Invalid
      /\ terminate_flag' = (terminate_flag \/ AllUsed(itopk))
  BY <1>1, PickIs
<1>3. terminate_flag' \in BOOLEAN
  BY <1>1, <1>2 DEF AllUsed
<1>4. ShapeInv'
  BY <1>1, <1>2, <1>3, SameShape DEF Shape, ShapeInv
<1>5. ThreadsInv'
  <2>1. /\ Resets' = Resets /\ TopK' = TopK /\ Places' = Places /\ Indices' = Indices
        /\ Keys' = Keys
    BY <1>1, SameShape DEF Resets, Indices, Keys
  <2>2. CASE Resets
    <3>1. Insertions(TopK, {"read", "probe", "done"}, Keys)
      BY <1>1, <2>2 DEF Shape, ThreadsInv
    <3>2. Insertions(TopK, {"read", "probe", "done"}, Keys)'
      BY <1>1, <2>1, <3>1 DEF Insertions
    <3> QED BY <1>1, <2>1, <2>2, <3>2 DEF ThreadsInv
  <2>3. CASE ~Resets
    BY <1>1, <2>1, <2>3 DEF Shape, ThreadsInv
  <2> QED BY <2>2, <2>3
<1>6. ParentsInv'
  BY <1>1, <1>2, SameShape DEF ParentsInv
<1> QED BY <1>4, <1>5, <1>6 DEF Shape

LEMMA PickedShape ==
  ASSUME Shape, Picked
  PROVE  /\ Shape' /\ parents \in [1..Width -> 0..TopK]
         /\ pc' = "children" =>
              /\ candidates' = [i \in 1..Kids |-> Invalid]
              /\ DOMAIN probe' = 1..Kids
              /\ \A i \in 1..Kids : probe'[i] = Done \/ probe'[i] = Probing(Child(i))
              /\ (\A j \in 1..Width : parents[j] = 0) => \A i \in 1..Kids : probe'[i] = Done
<1>1. /\ plan \in Plans /\ plan' = plan /\ pc = "pick" /\ iter' = iter /\ parents # <<>>
      /\ parents' = parents /\ itopk' = itopk /\ table' = table
      /\ terminate_flag' = terminate_flag /\ itopk \in [1..TopK -> Entries]
      /\ candidates \in [1..Kids -> Fresh]
  BY DEF Picked, Shape, ShapeInv
<1>2. parents \in [1..Width -> 0..TopK]
  BY <1>1 DEF Shape, ShapeInv
<1>3. \A j \in 1..Width : parents[j] # 0 => itopk[parents[j]] # Invalid
  BY <1>1 DEF Shape, ParentsInv
<1>4. \A i \in 1..Kids : /\ Child(i) \in Fresh
                         /\ (\A j \in 1..Width : parents[j] = 0) => Child(i) = Invalid
  BY <1>1, <1>2, <1>3, ChildIs
<1>5. CASE pc' = "children"
  <2>1. /\ candidates' = [i \in 1..Kids |-> Invalid]
        /\ probe' = [i \in 1..Kids |-> IF Child(i) = Invalid THEN Done ELSE Probing(Child(i))]
    <3>1. DOMAIN candidates = 1..Kids /\ Left # "children"
      BY <1>1 DEF Left
    <3> QED BY <1>5, <3>1 DEF Picked
  <2>2. candidates' \in [1..Kids -> Fresh]
    BY <1>1, <2>1, EntryIs
  <2>3. ShapeInv'
    BY <1>1, <1>5, <2>2, SameShape DEF Shape, ShapeInv, Phases
  <2>4. Insertions(Kids, {"probe", "done"}, Known)'
    <3>1. TopK' = TopK /\ Kids' = Kids /\ Places' = Places /\ Indices' = Indices /\ Known' = Known
      BY <1>1, SameShape DEF Indices
    <3>2. 0 \in Places /\ Invalid \in Indices
      BY <1>1, SearchFacts, InvalidIs
    <3>3. Done \in [pc : {"probe", "done"}, key : Indices, tried : Places] /\ Done.pc # "probe"
      BY <3>2 DEF Done
    <3>4. ASSUME NEW i \in 1..Kids, Child(i) # Invalid
          PROVE  /\ Probing(Child(i)) \in [pc : {"probe", "done"}, key : Indices, tried : Places]
                 /\ Probing(Child(i)).key \in Known
      <4>1. Child(i) \in Known
        BY <1>4, <3>4 DEF Fresh
      <4>2. Child(i) \in Indices
        BY <1>1, <4>1, EntryIs
      <4> QED BY <3>2, <4>1, <4>2 DEF Probing
    <3>5. probe' \in [1..Kids -> [pc : {"probe", "done"}, key : Indices, tried : Places]]
      <4>1. ASSUME NEW i \in 1..Kids
            PROVE  (IF Child(i) = Invalid THEN Done ELSE Probing(Child(i)))
                      \in [pc : {"probe", "done"}, key : Indices, tried : Places]
        BY <3>3, <3>4
      <4> QED BY <2>1, <4>1
    <3>6. \A i \in 1..Kids : probe'[i].pc = "probe" => probe'[i].key \in Known
      BY <2>1, <3>3, <3>4
    <3> QED BY <3>1, <3>5, <3>6 DEF Insertions
  <2>5. ThreadsInv'
    BY <1>5, <2>4 DEF ThreadsInv
  <2>6. ParentsInv'
    BY <1>1, <1>5, SameShape DEF Shape, ParentsInv
  <2> QED BY <1>2, <1>4, <1>5, <2>1, <2>3, <2>5, <2>6 DEF Shape
<1>6. CASE pc' # "children"
  <2>1. /\ pc' \in {"post", "done"} /\ probe' = <<>> /\ candidates' = candidates
        /\ pc' = "post" => plan.filtered
    BY <1>6 DEF Picked, Left
  <2>2. ShapeInv'
    BY <1>1, <2>1, SameShape DEF Shape, ShapeInv, Phases
  <2>3. ThreadsInv' /\ ParentsInv'
    BY <2>1 DEF ThreadsInv, ParentsInv
  <2> QED BY <1>2, <1>6, <2>2, <2>3 DEF Shape
<1> QED BY <1>5, <1>6

LEMMA ChildrenShape ==
  ASSUME Shape, ChildrenDone
  PROVE  /\ Shape' /\ candidates' = candidates
         /\ \A k \in 1..TopK : itopk'[k] = itopk[k] \/ itopk'[k] = Invalid
         /\ ~plan.filtered => itopk' = itopk /\ terminate_flag' = terminate_flag
<1>1. /\ plan \in Plans /\ plan' = plan /\ pc = "children" /\ pc' = "sort" /\ iter' = iter + 1
      /\ probe' = <<>> /\ parents' = parents /\ table' = table /\ candidates' = candidates
      /\ itopk \in [1..TopK -> Entries] /\ iter \in Nat /\ iter + 1 < MaxIterations(plan)
  BY DEF ChildrenDone, Shape, ShapeInv
<1>2. /\ itopk' \in [1..TopK -> Entries]
      /\ \A k \in 1..TopK : itopk'[k] = itopk[k] \/ itopk'[k] = Invalid
  <2>1. Invalid \in Entries
    BY <1>1, EntryIs
  <2>2. CASE plan.filtered
    <3>1. PICK out : itopk' = [k \in 1..TopK |-> IF k \in out THEN Invalid ELSE itopk[k]]
      BY <1>1, <2>2 DEF ChildrenDone
    <3> QED BY <1>1, <2>1, <3>1
  <2>3. CASE ~plan.filtered
    BY <1>1, <2>3 DEF ChildrenDone
  <2> QED BY <2>2, <2>3
<1>3. terminate_flag' \in BOOLEAN
  BY DEF ChildrenDone, Shape, ShapeInv
<1>4. ShapeInv'
  BY <1>1, <1>2, <1>3, SameShape DEF Shape, ShapeInv, Phases
<1>5. ThreadsInv' /\ ParentsInv'
  BY <1>1 DEF ThreadsInv, ParentsInv
<1>6. ~plan.filtered => itopk' = itopk /\ terminate_flag' = terminate_flag
  BY DEF ChildrenDone
<1> QED BY <1>1, <1>2, <1>4, <1>5, <1>6 DEF Shape

LEMMA PostShape ==
  ASSUME Shape, PostProcess
  PROVE  Shape'
<1> DEFINE flt == Filtered(itopk)
           list == Compacted(flt)
           rest == Filtered(candidates)
<1>1. /\ plan \in Plans /\ plan' = plan /\ pc = "post" /\ pc' = "done" /\ iter' = iter
      /\ probe' = probe /\ parents' = parents /\ table' = table /\ candidates' = rest
      /\ terminate_flag' = terminate_flag /\ itopk \in [1..TopK -> Entries]
      /\ candidates \in [1..Kids -> Fresh] /\ iter \in Nat
  BY DEF PostProcess, Shape, ShapeInv
<1>2. Invalid \in Entries /\ Invalid \in Fresh /\ TopK \in Nat /\ Kids \in Nat /\ Fresh \subseteq Entries
  BY <1>1, EntryIs, SearchFacts
<1>3. flt \in [1..TopK -> Entries]
  BY <1>1, <1>2 DEF Filtered
<1>4. rest \in [1..Kids -> Fresh]
  BY <1>1, <1>2 DEF Filtered
<1> HIDE DEF flt, rest
<1>5. list \in [1..TopK -> Entries]
  <2> DEFINE valid == {k \in DOMAIN flt : Clear(flt[k]) # Invalid}
             n == Cardinality(valid)
  <2>1. list = [k \in 1..TopK |-> IF k <= n THEN flt[Nth(valid, k)]
                                  ELSE IF n < plan.topk THEN Invalid ELSE flt[k]]
    BY <1>3 DEF Compacted
  <2>2. valid \in SUBSET (1..TopK) /\ IsFiniteSet(1..TopK)
    BY <1>2, <1>3, FS_Interval
  <2> HIDE DEF valid
  <2>3. IsFiniteSet(valid)
    BY <2>2, FS_Subset
  <2>4. n \in Nat /\ valid \subseteq Nat
    <3>1. n \in Nat
      BY <2>3, FS_CardinalityType
    <3>2. valid \subseteq Nat
      BY <2>2
    <3> QED BY <3>1, <3>2
  <2>5. \A k \in 1..n : Nth(valid, k) \in valid
    BY <2>3, <2>4, NthIs
  <2> HIDE DEF n
  <2>6. ASSUME NEW k \in 1..TopK, k <= n PROVE flt[Nth(valid, k)] \in Entries
    <3>1. k \in 1..n
      BY <1>2, <2>4, <2>6
    <3>2. Nth(valid, k) \in valid
      BY <2>5, <3>1
    <3>3. Nth(valid, k) \in 1..TopK
      BY <2>2, <3>2
    <3> QED BY <1>3, <3>3
  <2> HIDE DEF list
  <2> QED BY <1>2, <1>3, <2>1, <2>6
<1> HIDE DEF list
<1>6. itopk' \in [1..TopK -> Entries]
  <2>1. rest \in [1..Kids -> Entries] /\ (iter = 0) \in BOOLEAN
    BY <1>2, <1>4
  <2>2. CASE itopk' = list
    BY <1>5, <2>2
  <2>3. CASE itopk' \in BitonicMerge(list, rest, iter = 0)
    BY <1>1, <1>5, <2>1, <2>3, MergeIs
  <2>4. CASE itopk' \in AnyOf(list \o rest)
    <3>1. TopK \in Nat /\ Kids \in Nat /\ TopK + Kids \in Nat
      BY <1>2
    <3>2. list \o rest \in [1..(TopK + Kids) -> Entries]
      BY <1>5, <2>1, <3>1, ConcatIs
    <3> QED BY <1>1, <2>4, <3>1, <3>2, AnyIs
  <2>5. itopk' = list \/ itopk' \in BitonicMerge(list, rest, iter = 0) \/ itopk' \in AnyOf(list \o rest)
    BY DEF PostProcess, list, rest, flt
  <2> QED BY <2>2, <2>3, <2>4, <2>5
<1>7. ShapeInv'
  BY <1>1, <1>4, <1>6, SameShape DEF Shape, ShapeInv, Phases
<1>8. probe = <<>>
  BY <1>1 DEF Shape, ThreadsInv
<1>9. ThreadsInv' /\ ParentsInv'
  BY <1>1, <1>8 DEF ThreadsInv, ParentsInv
<1> QED BY <1>7, <1>9 DEF Shape

LEMMA SeedsShape ==
  ASSUME Shape, SeedsDone
  PROVE  Shape'
<1>1. /\ plan \in Plans /\ plan' = plan /\ pc = "seeds" /\ pc' = "sort" /\ iter' = iter
      /\ probe' = <<>> /\ parents' = parents /\ table' = table /\ candidates' = candidates
      /\ terminate_flag' = terminate_flag /\ itopk' = itopk
  BY DEF SeedsDone, Shape, ShapeInv
<1>2. ShapeInv'
  BY <1>1, SameShape DEF Shape, ShapeInv, Phases
<1>3. ThreadsInv' /\ ParentsInv'
  BY <1>1 DEF ThreadsInv, ParentsInv
<1> QED BY <1>2, <1>3 DEF Shape

LEMMA InitShape ==
  ASSUME Init
  PROVE  Shape /\ DOMAIN probe = 1..(TopK + Kids)
<1>1. /\ plan \in Plans /\ pc = "seeds" /\ iter = 0 /\ terminate_flag = FALSE /\ parents = <<>>
      /\ itopk = [i \in 1..TopK |-> Invalid] /\ candidates = [i \in 1..Kids |-> Invalid]
      /\ table = [a \in Places |-> Invalid]
      /\ probe = [i \in DOMAIN plan.seeds |-> Probing(plan.seeds[i])]
  BY DEF Init, TopK, Kids, EmptyTable
<1>2. Invalid \in Entries /\ Invalid \in Fresh /\ MaxIterations(plan) \in Nat \ {0}
  BY <1>1, EntryIs, SearchFacts
<1>3. ShapeInv
  <2>1. itopk \in [1..TopK -> Entries] /\ candidates \in [1..Kids -> Fresh]
    BY <1>1, <1>2
  <2>2. table \in [Places -> Keys \union {Invalid}]
    BY <1>1
  <2>3. iter \in Nat /\ iter < MaxIterations(plan)
    BY <1>1, <1>2
  <2> QED BY <1>1, <2>1, <2>2, <2>3 DEF ShapeInv, Phases
<1>4. plan.seeds \in [1..(TopK + Kids) -> Known]
  BY <1>1, PlanFacts DEF TopK, Kids, Known
<1>5. ASSUME NEW i \in 1..(TopK + Kids)
      PROVE  /\ Probing(plan.seeds[i]) \in [pc : {"probe", "done"}, key : Indices, tried : Places]
             /\ Probing(plan.seeds[i]).key \in Known
  <2>1. plan.seeds[i] \in Known
    BY <1>4
  <2>2. plan.seeds[i] \in Indices /\ 0 \in Places
    BY <1>1, <2>1, EntryIs, SearchFacts
  <2> QED BY <2>1, <2>2 DEF Probing
<1>6. probe = [i \in 1..(TopK + Kids) |-> Probing(plan.seeds[i])]
  BY <1>1, <1>4
<1>7. Insertions(TopK + Kids, {"probe", "done"}, Known)
  BY <1>5, <1>6 DEF Insertions
<1>8. ThreadsInv /\ ParentsInv
  BY <1>1, <1>7 DEF ThreadsInv, ParentsInv
<1> QED BY <1>3, <1>6, <1>8 DEF Shape

LEMMA ShapeNext ==
  ASSUME Shape, [Next]_vars
  PROVE  Shape'
<1>1. CASE Next
  <2>1. CASE \E i \in DOMAIN probe : Insert(i) \/ RestoreRead(i)
    BY <2>1, InsertShape, RestoreShape
  <2>2. CASE SeedsDone
    BY <2>2, SeedsShape
  <2>3. CASE Sort
    BY <2>3, SortShape
  <2>4. CASE Sorted
    BY <2>4, SortedShape
  <2>5. CASE PickupNextParents
    BY <2>5, PickShape
  <2>6. CASE Picked
    BY <2>6, PickedShape
  <2>7. CASE ChildrenDone
    BY <2>7, ChildrenShape
  <2>8. CASE PostProcess
    BY <2>8, PostShape
  <2> QED BY <1>1, <2>1, <2>2, <2>3, <2>4, <2>5, <2>6, <2>7, <2>8 DEF Next
<1>2. CASE UNCHANGED vars
  <2>1. /\ plan' = plan /\ pc' = pc /\ itopk' = itopk /\ candidates' = candidates
        /\ table' = table /\ parents' = parents /\ terminate_flag' = terminate_flag
        /\ iter' = iter /\ probe' = probe
    BY <1>2 DEF vars
  <2>2. ShapeInv' /\ ParentsInv'
    BY <2>1, SameShape DEF Shape, ShapeInv, ParentsInv
  <2>3. ThreadsInv'
    <3>1. /\ Resets' = Resets /\ TopK' = TopK /\ Kids' = Kids /\ Places' = Places
          /\ Indices' = Indices /\ Keys' = Keys /\ Known' = Known
      BY <2>1, SameShape DEF Resets, Indices, Keys
    <3> QED BY <2>1, <3>1 DEF Shape, ThreadsInv, Insertions
  <2> QED BY <2>2, <2>3 DEF Shape
<1> QED BY <1>1, <1>2

\* The list, the candidates, the parents and the table hold what they should, a thread
\* does not leave the table, and the search does not last longer than its plan says
\* (max_iterations): TypeOK, for every plan.
THEOREM SearchTypes == Spec => []TypeOK
<1>1. Init => Shape
  BY InitShape
<1>2. Shape /\ [Next]_vars => Shape'
  BY ShapeNext
<1>3. Shape => TypeOK
  <2> SUFFICES ASSUME Shape PROVE TypeOK
    OBVIOUS
  <2>1. plan \in Plans /\ pc \in Phases
    BY DEF Shape, ShapeInv
  <2>2. itopk \in [1..plan.itopk_size -> Indices]
    BY <2>1, EntryIs DEF Shape, ShapeInv, TopK
  <2>3. candidates \in [1..NumCandidates(plan) -> Indices]
    BY <2>1, EntryIs DEF Shape, ShapeInv, Kids
  <2>4. table \in [Places -> Indices]
    BY <2>1, InvalidIs DEF Shape, ShapeInv
  <2>5. parents = <<>> \/ parents \in [1..plan.search_width -> 0..plan.itopk_size]
    BY DEF Shape, ShapeInv, TopK, Width
  <2>6. probe \in [DOMAIN probe -> [pc : {"read", "probe", "done"}, key : Indices, tried : Places]]
    BY <2>1, ThreadsAre DEF Shape
  <2> QED BY <2>2, <2>3, <2>4, <2>5, <2>6 DEF TypeOK, Shape, ShapeInv, Phases
<1> QED BY <1>1, <1>2, <1>3, PTL DEF Spec

-----------------------------------------------------------------------------
(* The table.                                                              *)

\* A key whose thread has come to an empty place is not in the table.
LEMMA NotThere ==
  ASSUME Shape, TableInv, NEW i \in DOMAIN probe, Insert(i), table[Place(i)] = Invalid
  PROVE  probe[i].key \notin InTable
<1> DEFINE key == probe[i].key
           h == Home(key)
           n == probe[i].tried
<1>1. plan \in Plans /\ Size \in Nat /\ Places = 0..(Size - 1)
  BY SearchFacts DEF Shape, ShapeInv
<1>2. h \in Places /\ n \in Places /\ Place(i) = At(h, n) /\ probe[i].pc = "probe" /\ key # Invalid
  BY InsertIs DEF Shape
<1>3. SUFFICES ASSUME NEW a \in Places, table[a] = key PROVE FALSE
  BY DEF InTable
<1>4. PICK t \in Places : a = At(h, t)
  BY <1>1, <1>2, AtIs
<1>5. \A u \in 0..(t - 1) : table[At(h, u)] \notin {Invalid, key}
  BY <1>2, <1>3, <1>4 DEF TableInv
<1>6. \A u \in 0..(n - 1) : table[At(h, u)] \notin {Invalid, key}
  BY <1>2 DEF TableInv
<1>7. t \in Nat /\ n \in Nat
  BY <1>1, <1>2
<1> HIDE DEF key, h, n
<1>8. CASE n < t
  <2>1. n \in 0..(t - 1)
    BY <1>7, <1>8
  <2> QED BY <1>2, <1>5, <2>1
<1>9. CASE t < n
  <2>1. t \in 0..(n - 1)
    BY <1>7, <1>9
  <2> QED BY <1>3, <1>4, <1>6, <2>1
<1>10. CASE t = n
  BY <1>2, <1>3, <1>4, <1>10
<1> QED BY <1>7, <1>8, <1>9, <1>10

LEMMA TableKept ==
  ASSUME Shape, TableInv, plan' = plan, table' = table,
         \A i \in DOMAIN probe' : probe'[i].pc = "probe" => probe'[i].tried = 0
  PROVE  TableInv'
<1>1. /\ Places' = Places /\ (\A h : Home(h)' = Home(h)) /\ \A h, t : At(h, t)' = At(h, t)
  BY PlanSame
<1>2. \A a, t \in Places : table[a] # Invalid /\ a = At(Home(table[a]), t) =>
        \A u \in 0..(t - 1) : table[At(Home(table[a]), u)] \notin {Invalid, table[a]}
  BY DEF TableInv
<1>3. 0..(0 - 1) = {}
  OBVIOUS
<1>4. \A i \in DOMAIN probe' : probe'[i].pc = "probe" =>
       \A u \in 0..(probe'[i].tried - 1) :
         table[At(Home(probe'[i].key), u)] \notin {Invalid, probe'[i].key}
  BY <1>3
<1>5. (\A a, t \in Places : table[a] # Invalid /\ a = At(Home(table[a]), t) =>
        \A u \in 0..(t - 1) : table[At(Home(table[a]), u)] \notin {Invalid, table[a]})'
  BY <1>1, <1>2
<1>6. (\A i \in DOMAIN probe : probe[i].pc = "probe" =>
       \A u \in 0..(probe[i].tried - 1) :
         table[At(Home(probe[i].key), u)] \notin {Invalid, probe[i].key})'
  BY <1>1, <1>4
<1> QED BY <1>5, <1>6 DEF TableInv

LEMMA EmptyFits ==
  ASSUME plan \in Plans, table = EmptyTable,
         \A i \in DOMAIN probe : probe[i].pc = "probe" => probe[i].tried = 0
  PROVE  TableInv
<1>1. \A a \in Places : table[a] = Invalid
  BY DEF EmptyTable
<1>2. 0..(0 - 1) = {}
  OBVIOUS
<1> QED BY <1>1, <1>2 DEF TableInv

LEMMA InsertTable ==
  ASSUME Shape, TableInv, NEW i \in DOMAIN probe, Insert(i)
  PROVE  TableInv'
<1> DEFINE key == probe[i].key
           h == Home(key)
           n == probe[i].tried
           p == Place(i)
<1>1. /\ plan \in Plans /\ Size \in Nat /\ Places = 0..(Size - 1)
      /\ table \in [Places -> Keys \union {Invalid}] /\ Places' = Places
      /\ (\A k : Home(k)' = Home(k)) /\ \A g, t : At(g, t)' = At(g, t)
  BY InsertIs, SearchFacts, PlanSame DEF Shape, ShapeInv
<1>2. /\ h \in Places /\ n \in Places /\ p = At(h, n) /\ p \in Places
      /\ probe[i].pc = "probe" /\ key # Invalid
      /\ Enters(i) \/ Leaves(i) \/ Goes(i)
  BY InsertIs DEF Shape
<1>3. probe \in [DOMAIN probe -> [pc : {"read", "probe", "done"}, key : Indices, tried : Places]]
  BY ThreadsAre DEF Shape, ShapeInv
<1>4. \A a, t \in Places : table[a] # Invalid /\ a = At(Home(table[a]), t) =>
        \A u \in 0..(t - 1) : table[At(Home(table[a]), u)] \notin {Invalid, table[a]}
  BY DEF TableInv
<1>5. \A j \in DOMAIN probe : probe[j].pc = "probe" =>
        \A u \in 0..(probe[j].tried - 1) :
          table[At(Home(probe[j].key), u)] \notin {Invalid, probe[j].key}
  BY DEF TableInv
<1>6. DOMAIN probe' = DOMAIN probe
  BY <1>2 DEF Enters, Leaves, Goes
<1>7. SUFFICES
        /\ \A a, t \in Places : table'[a] # Invalid /\ a = At(Home(table'[a]), t) =>
             \A u \in 0..(t - 1) : table'[At(Home(table'[a]), u)] \notin {Invalid, table'[a]}
        /\ \A j \in DOMAIN probe : probe'[j].pc = "probe" =>
             \A u \in 0..(probe'[j].tried - 1) :
               table'[At(Home(probe'[j].key), u)] \notin {Invalid, probe'[j].key}
  BY <1>1, <1>6 DEF TableInv
<1>8. ASSUME NEW j \in DOMAIN probe, j # i PROVE probe'[j] = probe[j]
  BY <1>2, <1>3, <1>8 DEF Enters, Leaves, Goes
<1>9. CASE Enters(i)
  <2>1. table[p] = Invalid /\ \A b \in Places : table'[b] = IF b = p THEN key ELSE table[b]
    BY <1>1, <1>2, <1>9 DEF Enters
  <2>2. probe'[i].pc # "probe"
    BY <1>3, <1>9 DEF Enters, Done
  <2>3. ASSUME NEW b, NEW x, table[b] \notin {Invalid, x}, b \in Places
        PROVE  table'[b] \notin {Invalid, x}
    BY <2>1, <2>3
  <2>4. ASSUME NEW a \in Places, NEW t \in Places, table'[a] # Invalid,
               a = At(Home(table'[a]), t), NEW u \in 0..(t - 1)
        PROVE  table'[At(Home(table'[a]), u)] \notin {Invalid, table'[a]}
    <3>1. u \in Places
      BY <1>1
    <3>2. CASE a = p
      <4>1. table'[a] = key
        BY <2>1, <3>2
      <4>2. t = n
        <5>1. a = At(h, t)
          BY <2>4, <4>1
        <5>2. At(h, t) = At(h, n)
          BY <1>2, <3>2, <5>1
        <5> QED BY <1>1, <1>2, <5>2, AtIs
      <4>3. table[At(h, u)] \notin {Invalid, key}
        BY <1>2, <1>5, <4>2
      <4>4. At(h, u) \in Places
        BY <1>1, <1>2, <3>1, AtIs
      <4> QED BY <2>3, <4>1, <4>3, <4>4
    <3>3. CASE a # p
      <4>1. table'[a] = table[a]
        BY <2>1, <3>3
      <4>2. table[At(Home(table[a]), u)] \notin {Invalid, table[a]}
        BY <1>4, <2>4, <4>1
      <4>3. table[a] \in Keys
        BY <1>1, <2>4, <4>1
      <4>4. Home(table[a]) \in Places
        BY <1>1, <4>3, HomeIs
      <4>5. At(Home(table[a]), u) \in Places
        BY <1>1, <3>1, <4>4, AtIs
      <4> QED BY <2>3, <4>1, <4>2, <4>5
    <3> QED BY <3>2, <3>3
  <2>5. ASSUME NEW j \in DOMAIN probe, probe'[j].pc = "probe", NEW u \in 0..(probe'[j].tried - 1)
        PROVE  table'[At(Home(probe'[j].key), u)] \notin {Invalid, probe'[j].key}
    <3>1. j # i /\ probe'[j] = probe[j]
      BY <1>8, <2>2, <2>5
    <3>2. table[At(Home(probe[j].key), u)] \notin {Invalid, probe[j].key}
      BY <1>5, <2>5, <3>1
    <3>3. probe[j].tried \in Places /\ probe[j].key \in Keys
      BY <1>3, <2>5, <3>1, ThreadsAre DEF Shape, ShapeInv
    <3>4. Home(probe[j].key) \in Places /\ u \in Places
      <4>1. Home(probe[j].key) \in Places
        BY <1>1, <3>3, HomeIs
      <4>2. u \in Places
        BY <1>1, <3>1, <3>3
      <4> QED BY <4>1, <4>2
    <3>5. At(Home(probe[j].key), u) \in Places
      BY <1>1, <3>4, AtIs
    <3> QED BY <2>3, <3>1, <3>2, <3>5
  <2> QED BY <2>4, <2>5
<1>10. CASE Leaves(i)
  <2>1. table' = table
    BY <1>10 DEF Leaves
  <2>2. probe'[i].pc # "probe"
    BY <1>3, <1>10 DEF Leaves, Done
  <2>3. ASSUME NEW j \in DOMAIN probe, probe'[j].pc = "probe", NEW u \in 0..(probe'[j].tried - 1)
        PROVE  table[At(Home(probe'[j].key), u)] \notin {Invalid, probe'[j].key}
    <3>1. j # i /\ probe'[j] = probe[j]
      BY <1>8, <2>2, <2>3
    <3> QED BY <1>5, <2>3, <3>1
  <2> QED BY <1>4, <2>1, <2>3
<1>11. CASE Goes(i)
  <2>1. table' = table /\ table[p] \notin {Invalid, key}
    BY <1>11 DEF Goes
  <2>2. probe'[i].key = key /\ probe'[i].tried = n + 1
    <3>1. probe[i] \in [pc : {"read", "probe", "done"}, key : Indices, tried : Places]
      BY <1>3
    <3> QED BY <1>3, <1>11, <3>1 DEF Goes
  <2>3. ASSUME NEW j \in DOMAIN probe, probe'[j].pc = "probe", NEW u \in 0..(probe'[j].tried - 1)
        PROVE  table[At(Home(probe'[j].key), u)] \notin {Invalid, probe'[j].key}
    <3>1. CASE j # i
      <4>1. probe'[j] = probe[j]
        BY <1>8, <3>1
      <4> QED BY <1>5, <2>3, <4>1
    <3>2. CASE j = i
      <4>1. n \in Nat /\ u \in 0..n
        BY <1>1, <1>2, <2>2, <2>3, <3>2
      <4>2. CASE u = n
        BY <1>2, <2>1, <2>2, <3>2, <4>2
      <4>3. CASE u # n
        <5>1. u \in 0..(n - 1)
          BY <4>1, <4>3
        <5>2. table[At(h, u)] \notin {Invalid, key}
          BY <1>2, <1>5, <5>1
        <5> QED BY <2>2, <3>2, <5>2
      <4> QED BY <4>2, <4>3
    <3> QED BY <3>1, <3>2
  <2> QED BY <1>4, <2>1, <2>3
<1> QED BY <1>2, <1>9, <1>10, <1>11

LEMMA TableNext ==
  ASSUME Shape, TableInv, [Next]_vars
  PROVE  TableInv'
<1>1. plan \in Plans /\ pc \in Phases
  BY DEF Shape, ShapeInv
<1>2. ASSUME NEW i \in DOMAIN probe, Insert(i) PROVE TableInv'
  BY <1>2, InsertTable
<1>3. ASSUME NEW i \in DOMAIN probe, RestoreRead(i) PROVE TableInv'
  <2>1. /\ table' = table /\ plan' = plan
        /\ probe' = [probe EXCEPT ![i] = Probing(Clear(itopk[i]))]
    BY <1>3 DEF RestoreRead, RestoreKey
  <2>2. /\ Places' = Places /\ (\A h : Home(h)' = Home(h)) /\ \A h, t : At(h, t)' = At(h, t)
    BY <2>1, PlanSame
  <2>3. ASSUME NEW j \in DOMAIN probe', probe'[j].pc = "probe",
               NEW u \in 0..(probe'[j].tried - 1)
        PROVE  table[At(Home(probe'[j].key), u)] \notin {Invalid, probe'[j].key}
    <3>1. CASE j = i
      <4>1. probe'[j].tried = 0
        BY <1>3, <2>1, <3>1 DEF Probing
      <4> QED BY <2>3, <4>1
    <3>2. CASE j # i
      <4>1. probe'[j] = probe[j] /\ j \in DOMAIN probe
        BY <2>1, <2>3, <3>2
      <4> QED BY <2>3, <4>1 DEF TableInv
    <3> QED BY <3>1, <3>2
  <2>4. (\A a, t \in Places : table[a] # Invalid /\ a = At(Home(table[a]), t) =>
          \A u \in 0..(t - 1) : table[At(Home(table[a]), u)] \notin {Invalid, table[a]})'
    BY <2>1, <2>2 DEF TableInv
  <2>5. (\A j \in DOMAIN probe : probe[j].pc = "probe" =>
          \A u \in 0..(probe[j].tried - 1) :
            table[At(Home(probe[j].key), u)] \notin {Invalid, probe[j].key})'
    BY <2>1, <2>2, <2>3
  <2> QED BY <2>4, <2>5 DEF TableInv
<1>4. CASE SeedsDone \/ ChildrenDone
  BY <1>4, TableKept DEF SeedsDone, ChildrenDone
<1>5. CASE Sort
  <2>1. probe = <<>> /\ probe' = probe /\ plan' = plan /\ EmptyTable' = EmptyTable
    BY <1>5, PlanSame DEF Sort, Shape, ThreadsInv
  <2>2. DOMAIN probe' = {}
    BY <2>1
  <2>3. CASE table' = table
    BY <2>1, <2>2, <2>3, TableKept
  <2>4. CASE table' = EmptyTable
    <3>1. /\ Places' = Places /\ \A a \in Places : table'[a] = Invalid
      BY <2>1, <2>4, PlanSame DEF EmptyTable
    <3> QED BY <2>2, <3>1 DEF TableInv
  <2> QED BY <1>5, <2>3, <2>4 DEF Sort
<1>6. CASE Sorted
  <2>1. \A i \in DOMAIN probe' : probe'[i].pc # "probe"
    <3>1. CASE pc' = "pick" /\ Resets
      <4>1. probe' = [i \in 1..TopK |-> [Done EXCEPT !.pc = "read"]]
        BY <1>6, <3>1, SortedShape
      <4> QED BY <4>1 DEF Done
    <3>2. CASE ~(pc' = "pick" /\ Resets)
      <4>1. probe' = <<>>
        BY <1>6, <3>2, SortedShape
      <4> QED BY <4>1
    <3> QED BY <3>1, <3>2
  <2> QED BY <1>6, <2>1, TableKept DEF Sorted
<1>7. CASE PickupNextParents \/ PostProcess \/ UNCHANGED vars
  <2>1. probe' = probe /\ table' = table /\ plan' = plan
    BY <1>7 DEF PickupNextParents, PostProcess, vars
  <2>2. /\ Places' = Places /\ (\A h : Home(h)' = Home(h)) /\ \A h, t : At(h, t)' = At(h, t)
    BY <2>1, PlanSame
  <2> QED BY <2>1, <2>2 DEF TableInv
<1>8. CASE Picked
  <2>1. \A i \in DOMAIN probe' : probe'[i].pc = "probe" => probe'[i].tried = 0
    <3>1. CASE pc' = "children"
      <4>1. /\ DOMAIN probe' = 1..Kids
            /\ \A i \in 1..Kids : probe'[i] = Done \/ probe'[i] = Probing(Child(i))
        BY <1>8, <3>1, PickedShape
      <4> QED BY <4>1 DEF Done, Probing
    <3>2. CASE pc' # "children"
      BY <1>8, <3>2 DEF Picked
    <3> QED BY <3>1, <3>2
  <2> QED BY <1>8, <2>1, TableKept DEF Picked
<1> QED BY <1>2, <1>3, <1>4, <1>5, <1>6, <1>7, <1>8 DEF Next

-----------------------------------------------------------------------------
(* Room in the table.                                                      *)

LEMMA Remainder ==
  ASSUME NEW j \in Nat, NEW d \in Nat \ {0}, NEW c \in 0..(d - 1)
  PROVE  (j * d + c) % d = c
<1>1. j * d \in Nat /\ c \in Nat /\ c < d
  OBVIOUS
<1> QED BY <1>1, SMTT(30)

LEMMA RoundsAre ==
  ASSUME plan \in Plans, NEW n \in Nat
  PROVE  /\ Rounds(n) \in Nat \ {0} /\ Rounds(n) <= ResetInterval(plan) /\ Rounds(n) <= n + 1
         /\ (n + 1) % ResetInterval(plan) = 0 => Rounds(n + 1) = 1
         /\ (n + 1) % ResetInterval(plan) # 0 => Rounds(n + 1) = Rounds(n) + 1
         /\ Rounds(0) = 1
<1> DEFINE R == ResetInterval(plan)
<1>1. R \in Nat /\ R > 0
  BY SearchFacts
<1>2. \A m : Rounds(m) = (m % R) + 1
  BY DEF Rounds
<1> HIDE DEF R
<1> DEFINE r == n % R
           q == n \div R
<1>3. q \in Nat /\ r \in 0..(R - 1) /\ n = R * q + r
  BY <1>1
<1>4. r <= n
  BY <1>1
<1>5. 0 % R = 0
  BY <1>1
<1>6. Rounds(n) = r + 1 /\ Rounds(n + 1) = ((n + 1) % R) + 1
  BY <1>2
<1>7. Rounds(0) = 1
  BY <1>2, <1>5
<1> DEFINE Claim == /\ Rounds(n) \in Nat \ {0} /\ Rounds(n) <= R /\ Rounds(n) <= n + 1
                    /\ (n + 1) % R = 0 => Rounds(n + 1) = 1
                    /\ (n + 1) % R # 0 => Rounds(n + 1) = Rounds(n) + 1
<1>8. ASSUME r + 1 < R PROVE Claim
  <2>1. (q * R + (r + 1)) % R = r + 1 /\ r + 1 \in Nat
    <3> HIDE DEF r, q
    <3>1. r + 1 \in 0..(R - 1)
      BY <1>1, <1>3, <1>8
    <3> QED BY <1>1, <1>3, <3>1, Remainder
  <2>2. n + 1 = q * R + (r + 1)
    BY <1>1, <1>3
  <2>3. (n + 1) % R = r + 1
    BY <2>1, <2>2
  <2> HIDE DEF r, q
  <2> QED BY <1>1, <1>3, <1>4, <1>8, <1>6, <2>1, <2>3
<1>9. ASSUME ~(r + 1 < R) PROVE Claim
  <2>1. ((q + 1) * R + 0) % R = 0
    <3>1. q + 1 \in Nat /\ 0 \in 0..(R - 1)
      BY <1>1, <1>3
    <3> HIDE DEF q
    <3> QED BY <1>1, <3>1, Remainder
  <2>2. n + 1 = (q + 1) * R + 0
    <3>1. r + 1 = R /\ (q + 1) * R = q * R + R /\ q * R = R * q /\ q * R \in Nat
      <4> HIDE DEF q, r
      <4> QED BY <1>1, <1>3, <1>9
    <3> HIDE DEF q, r
    <3> QED BY <1>1, <1>3, <3>1
  <2>3. (n + 1) % R = 0
    BY <2>1, <2>2
  <2> HIDE DEF r, q
  <2> QED BY <1>1, <1>3, <1>4, <1>6, <2>3
<1> QED BY <1>8, <1>9, <1>7 DEF R

LEMMA RoomFacts ==
  ASSUME Shape
  PROVE  /\ IsFiniteSet(Places) /\ Cardinality(Places) = Size
         /\ IsFiniteSet(Filled) /\ Cardinality(Filled) \in Nat /\ Filled \subseteq Places
         /\ IsFiniteSet(Active) /\ Cardinality(Active) \in Nat
<1>1. plan \in Plans /\ pc \in Phases /\ Size \in Nat /\ Size > 0 /\ Places = 0..(Size - 1)
  BY SearchFacts DEF Shape, ShapeInv
<1>2. IsFiniteSet(0..(Size - 1)) /\ Cardinality(0..(Size - 1)) = Size
  BY <1>1, FS_Interval
<1>3. Filled \in SUBSET Places /\ Active \in SUBSET DOMAIN probe
  BY DEF Filled, Active
<1>4. IsFiniteSet(DOMAIN probe)
  BY <1>1, ThreadsAre DEF Shape
<1>5. IsFiniteSet(Filled) /\ IsFiniteSet(Active)
  BY <1>1, <1>2, <1>3, <1>4, FS_Subset
<1> QED BY <1>1, <1>2, <1>3, <1>5, FS_CardinalityType

\* What may be in the table while there are threads leaves a place in it.
LEMMA BudgetFits ==
  ASSUME Shape, DOMAIN probe # {}
  PROVE  Budget \in Nat /\ Budget < Size
<1>1. /\ plan \in Plans /\ pc \in Phases /\ iter \in Nat /\ iter < MaxIterations(plan)
      /\ (pc \in {"pick", "children"} => iter + 1 < MaxIterations(plan))
      /\ MaxIterations(plan) \in Nat /\ ResetInterval(plan) \in Nat
  BY SearchFacts DEF Shape, ShapeInv
<1>2. pc = "seeds" \/ (pc = "pick" /\ Resets) \/ pc = "children"
  BY <1>1, ThreadsAre DEF Shape
<1>3. ASSUME NEW r \in Nat, r <= ResetInterval(plan), r <= MaxIterations(plan)
      PROVE  Visited(plan, r) \in Nat /\ Visited(plan, r) < Size
  BY <1>1, <1>3, RoundsFit, VisitedIs DEF Size
<1>4. CASE pc = "seeds"
  <2>1. /\ Rounds(iter) \in Nat /\ Rounds(iter) <= ResetInterval(plan)
        /\ Rounds(iter) <= MaxIterations(plan)
    <3>1. /\ Rounds(iter) \in Nat /\ Rounds(iter) <= ResetInterval(plan)
          /\ Rounds(iter) <= iter + 1
      BY <1>1, RoundsAre
    <3> QED BY <1>1, <3>1
  <2> QED BY <1>3, <1>4, <2>1 DEF Budget
<1>5. CASE pc = "pick" /\ Resets
  <2>1. Visited(plan, 0) \in Nat /\ Visited(plan, 0) < Size
    BY <1>1, <1>3
  <2>2. Visited(plan, 0) = TopK
    <3>1. Visited(plan, 0) = TopK + Kids * 0
      BY DEF Visited, TopK, Kids
    <3>2. TopK \in Nat /\ Kids \in Nat
      BY <1>1, SearchFacts
    <3> QED BY <3>1, <3>2
  <2> QED BY <1>5, <2>1, <2>2 DEF Budget
<1>6. CASE pc = "children"
  <2>1. /\ Rounds(iter + 1) \in Nat /\ Rounds(iter + 1) <= ResetInterval(plan)
        /\ Rounds(iter + 1) <= MaxIterations(plan)
    <3>1. iter + 1 \in Nat
      BY <1>1
    <3>2. /\ Rounds(iter + 1) \in Nat /\ Rounds(iter + 1) <= ResetInterval(plan)
          /\ Rounds(iter + 1) <= (iter + 1) + 1
      BY <1>1, <3>1, RoundsAre
    <3> QED BY <1>1, <1>6, <3>2
  <2> QED BY <1>3, <1>6, <2>1 DEF Budget
<1> QED BY <1>2, <1>4, <1>5, <1>6

LEMMA RoomThere ==
  ASSUME Shape, RoomInv, DOMAIN probe # {}
  PROVE  \E a \in Places : table[a] = Invalid
<1>1. Budget \in Nat /\ Budget < Size
  BY BudgetFits
<1>2. /\ IsFiniteSet(Places) /\ Cardinality(Places) = Size
      /\ Cardinality(Filled) \in Nat /\ Cardinality(Active) \in Nat
  BY RoomFacts
<1>3. pc \notin {"post", "done"}
  BY ThreadsAre DEF Shape, ShapeInv, Phases
<1>4. Cardinality(Filled) + Cardinality(Active) <= Budget
  BY <1>3 DEF RoomInv
<1>5. Size \in Nat
  BY SearchFacts DEF Shape, ShapeInv
<1>6. Cardinality(Filled) # Cardinality(Places)
  BY <1>1, <1>2, <1>4, <1>5
<1>7. Filled # Places
  BY <1>6
<1> QED BY <1>7 DEF Filled

\* So a thread that ends at an occupied place has found its key there.
LEMMA Found ==
  ASSUME Shape, TableInv, RoomInv, NEW i \in DOMAIN probe, Insert(i), Leaves(i)
  PROVE  table[Place(i)] = probe[i].key
<1> DEFINE key == probe[i].key
           h == Home(key)
           n == probe[i].tried
<1>1. plan \in Plans /\ Size \in Nat /\ Places = 0..(Size - 1)
  BY SearchFacts DEF Shape, ShapeInv
<1>2. h \in Places /\ n \in Places /\ Place(i) = At(h, n) /\ probe[i].pc = "probe"
  BY InsertIs DEF Shape
<1>3. SUFFICES ASSUME table[Place(i)] # key PROVE FALSE
  OBVIOUS
<1>4. table[Place(i)] # Invalid /\ n + 1 = Size
  BY <1>3 DEF Leaves
<1>5. PICK a \in Places : table[a] = Invalid
  BY RoomThere
<1>6. PICK t \in Places : a = At(h, t)
  BY <1>1, <1>2, AtIs
<1>7. \A u \in 0..(n - 1) : table[At(h, u)] \notin {Invalid, key}
  BY <1>2 DEF TableInv
<1> HIDE DEF key, h, n
<1>8. t = n \/ t \in 0..(n - 1)
  BY <1>1, <1>2, <1>4
<1> QED BY <1>2, <1>4, <1>5, <1>6, <1>7, <1>8

LEMMA InsertRoom ==
  ASSUME Shape, RoomInv, NEW i \in DOMAIN probe, Insert(i)
  PROVE  RoomInv'
<1>1. /\ plan' = plan /\ pc' = pc /\ iter' = iter /\ Place(i) \in Places /\ probe[i].pc = "probe"
      /\ Enters(i) \/ Leaves(i) \/ Goes(i)
  BY InsertIs DEF Shape
<1>2. /\ IsFiniteSet(Filled) /\ Cardinality(Filled) \in Nat
      /\ IsFiniteSet(Active) /\ Cardinality(Active) \in Nat
  BY RoomFacts
<1>3. /\ Places' = Places /\ Budget' = Budget
  <2>1. /\ Places' = Places /\ TopK' = TopK /\ (\A n : Rounds(n)' = Rounds(n))
        /\ Resets' = Resets
    BY <1>1, PlanSame DEF Resets
  <2>2. Rounds(iter)' = Rounds(iter) /\ Rounds(iter + 1)' = Rounds(iter + 1)
    BY <1>1, <2>1
  <2> QED BY <1>1, <2>1, <2>2 DEF Budget
<1>4. /\ table \in [Places -> Keys \union {Invalid}]
      /\ probe \in [DOMAIN probe -> [pc : {"read", "probe", "done"}, key : Indices, tried : Places]]
  BY ThreadsAre DEF Shape, ShapeInv
<1>5. i \in Active
  BY <1>1 DEF Active
<1>6. Enters(i) \/ Leaves(i) => Active' = Active \ {i}
  BY <1>4 DEF Active, Enters, Leaves, Done
<1>7. CASE Enters(i)
  <2>1. Place(i) \notin Filled
    BY <1>7 DEF Enters, Filled
  <2>2. probe[i].key # Invalid
    BY InsertIs DEF Shape
  <2>3. Filled' = Filled \union {Place(i)}
    BY <1>1, <1>3, <1>4, <1>7, <2>2 DEF Filled, Enters
  <2>4. Cardinality(Filled') = Cardinality(Filled) + 1
    BY <1>2, <2>1, <2>3, FS_AddElement
  <2>5. Cardinality(Active') = Cardinality(Active) - 1
    BY <1>2, <1>5, <1>6, <1>7, FS_RemoveElement
  <2>6. pc \notin {"post", "done"} => Cardinality(Filled') + Cardinality(Active') <= Budget'
    BY <1>2, <1>3, <2>4, <2>5 DEF RoomInv
  <2> QED BY <1>1, <2>6 DEF RoomInv
<1>8. CASE Leaves(i)
  <2>1. Filled' = Filled
    BY <1>3, <1>8 DEF Filled, Leaves
  <2>2. Cardinality(Active') = Cardinality(Active) - 1
    BY <1>2, <1>5, <1>6, <1>8, FS_RemoveElement
  <2>3. pc \in {"seeds", "pick", "children"}
    BY ThreadsAre DEF Shape, ShapeInv
  <2>4. Budget \in Nat
    BY BudgetFits
  <2>5. Cardinality(Filled') + Cardinality(Active') <= Budget'
    BY <1>2, <1>3, <2>1, <2>2, <2>3, <2>4 DEF RoomInv
  <2> QED BY <2>5 DEF RoomInv
<1>9. CASE Goes(i)
  <2>1. Filled' = Filled
    BY <1>3, <1>9 DEF Filled, Goes
  <2>2. Active' = Active
    BY <1>1, <1>4, <1>9 DEF Active, Goes
  <2> QED BY <1>1, <1>3, <2>1, <2>2 DEF RoomInv
<1> QED BY <1>1, <1>7, <1>8, <1>9

LEMMA RoomNext ==
  ASSUME Shape, RoomInv, [Next]_vars
  PROVE  RoomInv'
<1>1. /\ plan \in Plans /\ pc \in Phases /\ iter \in Nat
      /\ TopK \in Nat /\ Kids \in Nat
  BY SearchFacts DEF Shape, ShapeInv
<1>2. /\ IsFiniteSet(Filled) /\ Cardinality(Filled) \in Nat
      /\ IsFiniteSet(Active) /\ Cardinality(Active) \in Nat
  BY RoomFacts
<1>3. plan' = plan
  BY InsertIs DEF Next, RestoreRead, SeedsDone, Sort, Sorted, PickupNextParents, Picked,
                  ChildrenDone, PostProcess, vars, Shape
<1>4. /\ Places' = Places /\ TopK' = TopK /\ (\A n : Rounds(n)' = Rounds(n))
      /\ \A n : Visited(plan, n)' = Visited(plan, n)
  BY <1>3, PlanSame
<1>5. /\ Rounds(iter) \in Nat /\ Visited(plan, Rounds(iter)) \in Nat
      /\ Rounds(iter + 1) \in Nat /\ Visited(plan, Rounds(iter + 1)) \in Nat
      /\ iter + 1 \in Nat
  <2>1. iter + 1 \in Nat
    BY <1>1
  <2>2. Rounds(iter) \in Nat /\ Rounds(iter + 1) \in Nat
    BY <1>1, <2>1, RoundsAre
  <2> QED BY <1>1, <2>1, <2>2, VisitedIs
<1>6. table' = table => Filled' = Filled
  BY <1>4 DEF Filled
<1>7. probe' = <<>> => Cardinality(Active') = 0
  <2>1. probe' = <<>> => Active' = {}
    BY DEF Active
  <2> QED BY <2>1, FS_EmptySet
<1>8. probe = <<>> => Cardinality(Active) = 0
  <2>1. probe = <<>> => Active = {}
    BY DEF Active
  <2> QED BY <2>1, FS_EmptySet
<1>9. ASSUME NEW i \in DOMAIN probe, Insert(i) PROVE RoomInv'
  BY <1>9, InsertRoom
<1>10. ASSUME NEW i \in DOMAIN probe, RestoreRead(i) PROVE RoomInv'
  <2>1. /\ pc = "pick" /\ pc' = pc /\ iter' = iter /\ table' = table /\ probe[i].pc = "read"
        /\ probe' = [probe EXCEPT ![i] = Probing(Clear(itopk[i]))]
    BY <1>10 DEF RestoreRead, RestoreKey
  <2>2. Active' = Active
    BY <2>1 DEF Active, Probing
  <2>3. Resets' = Resets
    BY <1>3, <2>1 DEF Resets
  <2>4. Budget' = Budget
    BY <1>3, <1>4, <2>1, <2>3 DEF Budget
  <2> QED BY <1>6, <2>1, <2>2, <2>4 DEF RoomInv
<1>11. CASE SeedsDone
  <2>1. pc = "seeds" /\ pc' = "sort" /\ iter' = iter /\ table' = table /\ probe' = <<>>
    BY <1>11 DEF SeedsDone
  <2>2. Budget = Visited(plan, Rounds(iter)) /\ Budget' = Visited(plan, Rounds(iter))
    <3>1. Rounds(iter)' = Rounds(iter)
      BY <1>4, <2>1
    <3> QED BY <1>4, <2>1, <3>1 DEF Budget
  <2>3. Cardinality(Filled) + Cardinality(Active) <= Budget
    BY <2>1 DEF RoomInv
  <2>4. Cardinality(Filled') + Cardinality(Active') <= Budget'
    BY <1>2, <1>5, <1>6, <1>7, <2>1, <2>2, <2>3
  <2> QED BY <2>4 DEF RoomInv
<1>12. CASE Sort
  <2>1. pc = "sort" /\ pc' = "sorted" /\ iter' = iter /\ probe' = probe /\ probe = <<>>
    BY <1>12 DEF Sort, Shape, ThreadsInv
  <2>2. Cardinality(Filled) <= Visited(plan, Rounds(iter))
    BY <1>2, <1>8, <2>1 DEF RoomInv, Budget
  <2>3. Resets' = Resets
    BY <1>3, <2>1 DEF Resets
  <2>4. CASE Resets
    <3>1. Filled' = {}
      BY <1>4, <1>12, <2>4 DEF Sort, Filled, EmptyTable
    <3>2. Cardinality(Filled') = 0
      BY <3>1, FS_EmptySet
    <3>3. Budget' = 0
      BY <2>1, <2>3, <2>4 DEF Budget
    <3>4. Cardinality(Filled') + Cardinality(Active') <= Budget'
      BY <1>7, <2>1, <3>2, <3>3
    <3> QED BY <3>4 DEF RoomInv
  <2>5. CASE ~Resets
    <3>1. Filled' = Filled
      BY <1>6, <1>12, <2>5 DEF Sort
    <3>2. Budget' = Visited(plan, Rounds(iter))
      <4>1. Rounds(iter)' = Rounds(iter)
        BY <1>4, <2>1
      <4> QED BY <1>4, <2>1, <2>3, <2>5, <4>1 DEF Budget
    <3>3. Cardinality(Filled') + Cardinality(Active') <= Budget'
      BY <1>2, <1>5, <1>7, <2>1, <2>2, <3>1, <3>2
    <3> QED BY <3>3 DEF RoomInv
  <2> QED BY <2>4, <2>5
<1>13. CASE Sorted
  <2>1. /\ pc = "sorted" /\ pc' \in {"post", "done", "pick"} /\ iter' = iter /\ table' = table
        /\ probe = <<>>
    BY <1>13 DEF Sorted, Left, Shape, ThreadsInv
  <2>2. Resets' = Resets
    BY <1>3, <2>1 DEF Resets
  <2>3. CASE pc' = "pick" /\ Resets
    <3>1. Cardinality(Filled) = 0
      BY <1>2, <1>8, <2>1, <2>3 DEF RoomInv, Budget
    <3>2. Active' = 1..TopK
      <4>1. probe' = [i \in 1..TopK |-> [Done EXCEPT !.pc = "read"]]
        BY <1>13, <2>3, SortedShape
      <4>2. DOMAIN probe' = 1..TopK /\ \A i \in 1..TopK : probe'[i].pc = "read"
        BY <4>1 DEF Done
      <4> QED BY <4>2 DEF Active
    <3>3. Cardinality(Active') = TopK
      BY <1>1, <3>2, FS_Interval
    <3>4. Budget' = TopK
      BY <1>4, <2>2, <2>3 DEF Budget
    <3>5. Cardinality(Filled') + Cardinality(Active') <= Budget'
      BY <1>1, <1>6, <2>1, <3>1, <3>3, <3>4
    <3> QED BY <3>5 DEF RoomInv
  <2>4. CASE pc' = "pick" /\ ~Resets
    <3>1. probe' = <<>>
      BY <1>13, <2>4, SortedShape
    <3>2. Cardinality(Filled) <= Visited(plan, Rounds(iter))
      BY <1>2, <1>8, <2>1, <2>4 DEF RoomInv, Budget
    <3>3. Budget' = Visited(plan, Rounds(iter))
      <4>1. Rounds(iter)' = Rounds(iter)
        BY <1>4, <2>1
      <4> QED BY <1>4, <2>2, <2>4, <4>1 DEF Budget
    <3>4. Cardinality(Filled') + Cardinality(Active') <= Budget'
      BY <1>2, <1>5, <1>6, <1>7, <2>1, <3>1, <3>2, <3>3
    <3> QED BY <3>4 DEF RoomInv
  <2>5. CASE pc' # "pick"
    BY <2>1, <2>5 DEF RoomInv
  <2> QED BY <2>3, <2>4, <2>5
<1>14. CASE PickupNextParents \/ UNCHANGED vars
  <2>1. pc' = pc /\ iter' = iter /\ table' = table /\ probe' = probe
    BY <1>14 DEF PickupNextParents, vars
  <2>2. Resets' = Resets /\ Active' = Active
    BY <1>3, <2>1 DEF Resets, Active
  <2>3. pc \notin {"post", "done"} => Budget' = Budget
    <3>1. Rounds(iter)' = Rounds(iter) /\ Rounds(iter + 1)' = Rounds(iter + 1)
      BY <1>4, <2>1
    <3>2. \/ pc \in {"seeds", "sort"} \/ (pc \in {"sorted", "pick"} /\ ~Resets)
          \/ (pc = "sorted" /\ Resets) \/ (pc = "pick" /\ Resets) \/ pc = "children"
          \/ pc \in {"post", "done"}
      BY <1>1 DEF Phases
    <3> QED BY <1>4, <2>1, <2>2, <3>1, <3>2 DEF Budget
  <2> QED BY <1>6, <2>1, <2>2, <2>3 DEF RoomInv
<1>15. CASE Picked
  <2>1. /\ pc = "pick" /\ pc' \in {"post", "done", "children"} /\ iter' = iter /\ table' = table
    BY <1>15 DEF Picked, Left
  <2>2. CASE pc' = "children"
    <3>1. DOMAIN probe' = 1..Kids
      BY <1>15, <2>2, PickedShape
    <3>2. Active' \in SUBSET (1..Kids) /\ IsFiniteSet(1..Kids) /\ Cardinality(1..Kids) = Kids
      BY <1>1, <3>1, FS_Interval DEF Active
    <3>3. Cardinality(Active') <= Kids /\ Cardinality(Active') \in Nat
      BY <3>2, FS_Subset, FS_CardinalityType
    <3>4. Budget' = Visited(plan, Rounds(iter + 1))
      <4>1. Rounds(iter + 1)' = Rounds(iter + 1)
        BY <1>4, <2>1
      <4> QED BY <1>4, <2>2, <4>1 DEF Budget
    <3>5. Cardinality(Filled) + Kids <= Visited(plan, Rounds(iter + 1))
      <4>1. CASE Resets
        <5>1. Cardinality(Filled) <= TopK
          BY <1>1, <1>2, <2>1, <4>1 DEF RoomInv, Budget
        <5>2. Rounds(iter + 1) = 1
          BY <1>1, <4>1, RoundsAre DEF Resets
        <5>3. Visited(plan, 1) = TopK + Kids
          <6>1. Visited(plan, 1) = TopK + Kids * 1
            BY DEF Visited, TopK, Kids
          <6> QED BY <1>1, <6>1
        <5> QED BY <1>1, <1>2, <5>1, <5>2, <5>3
      <4>2. CASE ~Resets
        <5>1. Cardinality(Filled) <= Visited(plan, Rounds(iter))
          BY <1>2, <1>5, <2>1, <4>2 DEF RoomInv, Budget
        <5>2. Rounds(iter + 1) = Rounds(iter) + 1
          BY <1>1, <4>2, RoundsAre DEF Resets
        <5>3. Visited(plan, Rounds(iter) + 1) = Visited(plan, Rounds(iter)) + Kids
          BY <1>1, <1>5, VisitedIs DEF Kids
        <5> QED BY <1>1, <1>2, <1>5, <5>1, <5>2, <5>3
      <4> QED BY <4>1, <4>2
    <3>6. Cardinality(Filled') + Cardinality(Active') <= Budget'
      BY <1>1, <1>2, <1>5, <1>6, <2>1, <3>3, <3>4, <3>5
    <3> QED BY <3>6 DEF RoomInv
  <2>3. CASE pc' # "children"
    BY <2>1, <2>3 DEF RoomInv
  <2> QED BY <2>2, <2>3
<1>16. CASE ChildrenDone
  <2>1. pc = "children" /\ pc' = "sort" /\ iter' = iter + 1 /\ table' = table /\ probe' = <<>>
    BY <1>16 DEF ChildrenDone
  <2>2. Budget = Visited(plan, Rounds(iter + 1)) /\ Budget' = Visited(plan, Rounds(iter + 1))
    <3>1. Rounds(iter)' = Rounds(iter + 1)
      BY <1>4, <2>1
    <3> QED BY <1>4, <2>1, <3>1 DEF Budget
  <2>3. Cardinality(Filled) + Cardinality(Active) <= Budget
    BY <2>1 DEF RoomInv
  <2>4. Cardinality(Filled') + Cardinality(Active') <= Budget'
    BY <1>2, <1>5, <1>6, <1>7, <2>1, <2>2, <2>3
  <2> QED BY <2>4 DEF RoomInv
<1>17. CASE PostProcess
  BY <1>17 DEF PostProcess, RoomInv
<1> QED BY <1>9, <1>10, <1>11, <1>12, <1>13, <1>14, <1>15, <1>16, <1>17 DEF Next

LEMMA InitTable ==
  ASSUME Init
  PROVE  TableInv /\ RoomInv
<1>1. Shape /\ DOMAIN probe = 1..(TopK + Kids) /\ plan \in Plans
  BY InitShape DEF Init
<1>2. /\ table = EmptyTable /\ pc = "seeds" /\ iter = 0
      /\ probe = [i \in DOMAIN plan.seeds |-> Probing(plan.seeds[i])]
  BY DEF Init
<1>3. \A i \in DOMAIN probe : probe[i].pc = "probe" /\ probe[i].tried = 0
  BY <1>2 DEF Probing
<1>4. TableInv
  BY <1>1, <1>2, <1>3, EmptyFits
<1>5. TopK \in Nat /\ Kids \in Nat /\ TopK + Kids \in Nat
  BY <1>1, SearchFacts
<1>6. Cardinality(Filled) = 0
  <2>1. Filled = {}
    BY <1>2 DEF Filled, EmptyTable
  <2> QED BY <2>1, FS_EmptySet
<1>7. Cardinality(Active) = TopK + Kids
  <2>1. Active = 1..(TopK + Kids)
    BY <1>1, <1>3 DEF Active
  <2> QED BY <1>5, <2>1, FS_Interval
<1>8. Budget = TopK + Kids
  <2>1. Rounds(0) = 1
    BY <1>1, RoundsAre
  <2>2. Budget = Visited(plan, 1)
    BY <1>2, <2>1 DEF Budget
  <2>3. Visited(plan, 1) = TopK + Kids * 1
    BY DEF Visited, TopK, Kids
  <2> QED BY <1>5, <2>2, <2>3
<1> QED BY <1>4, <1>5, <1>6, <1>7, <1>8 DEF RoomInv

\* A key that is being inserted finds its place: the table is never full of others
\* (RoomInTable), whatever the graph, the sizes and the fill rate below one.
THEOREM TableHasRoom == Spec => []RoomInTable
<1>1. Init => Shape /\ RoomInv
  BY InitShape, InitTable
<1>2. Shape /\ RoomInv /\ [Next]_vars => (Shape /\ RoomInv)'
  BY ShapeNext, RoomNext
<1>3. Shape /\ RoomInv => RoomInTable
  <2> SUFFICES ASSUME Shape, RoomInv, NEW i \in DOMAIN probe, probe[i].pc = "probe"
               PROVE  \E a \in Places : table[a] \in {Invalid, probe[i].key}
    BY DEF RoomInTable
  <2>1. PICK a \in Places : table[a] = Invalid
    BY RoomThere
  <2> QED BY <2>1
<1> QED BY <1>1, <1>2, <1>3, PTL DEF Spec

-----------------------------------------------------------------------------
(* No node comes twice.                                                    *)

LEMMA BufferIs ==
  ASSUME Shape
  PROVE  /\ Buffer \in [1..(TopK + Kids) -> Entries]
         /\ \A k \in 1..TopK : Buffer[k] = itopk[k] /\ k \in 1..(TopK + Kids)
         /\ \A k \in 1..Kids : Buffer[TopK + k] = candidates[k] /\ TopK + k \in 1..(TopK + Kids)
         /\ \A k \in 1..(TopK + Kids) :
              Buffer[k] = IF k <= TopK THEN itopk[k] ELSE candidates[k - TopK]
         /\ TopK \in Nat /\ Kids \in Nat /\ TopK + Kids \in Nat
<1>1. itopk \in [1..TopK -> Entries] /\ candidates \in [1..Kids -> Fresh] /\ plan \in Plans
  BY DEF Shape, ShapeInv
<1>2. TopK \in Nat /\ Kids \in Nat /\ TopK + Kids \in Nat
  BY <1>1, SearchFacts
<1>3. candidates \in [1..Kids -> Entries]
  BY <1>1, EntryIs
<1>4. Buffer \in [1..(TopK + Kids) -> Entries]
  BY <1>1, <1>2, <1>3, ConcatIs DEF Buffer
<1>5. \A k \in 1..TopK : Buffer[k] = itopk[k]
  BY <1>1, <1>2, <1>3, ConcatIs DEF Buffer
<1>6. \A k \in 1..Kids : Buffer[TopK + k] = candidates[k]
  BY <1>1, <1>2, <1>3, ConcatIs DEF Buffer
<1>7. \A k \in 1..(TopK + Kids) :
        Buffer[k] = IF k <= TopK THEN itopk[k] ELSE candidates[k - TopK]
  BY <1>1, <1>2, <1>3, ConcatIs DEF Buffer
<1>8. (\A k \in 1..TopK : k \in 1..(TopK + Kids)) /\ \A k \in 1..Kids : TopK + k \in 1..(TopK + Kids)
  BY <1>2
<1> QED BY <1>2, <1>4, <1>5, <1>6, <1>7, <1>8

LEMMA BufferWritten ==
  ASSUME Shape, NEW i \in DOMAIN probe, NEW x, Written(i, x), x \in Fresh, pc # "pick",
         plan' = plan
  PROVE  /\ Buffer' \in [1..(TopK + Kids) -> Entries]
         /\ \A k \in 1..(TopK + Kids) : Buffer'[k] = IF k = Mine(i) THEN x ELSE Buffer[k]
<1>1. plan \in Plans /\ TopK \in Nat /\ Kids \in Nat
  BY SearchFacts DEF Shape, ShapeInv
<1>2. /\ itopk' \in [1..TopK -> Entries] /\ candidates' \in [1..Kids -> Fresh]
      /\ \A k \in 1..(TopK + Kids) : Buffer'[k] = IF k = Mine(i) THEN x ELSE Buffer[k]
  BY WrittenIs DEF Shape
<1>3. candidates' \in [1..Kids -> Entries]
  BY <1>1, <1>2, EntryIs
<1>4. itopk' \o candidates' \in [1..(TopK + Kids) -> Entries]
  BY <1>1, <1>2, <1>3, ConcatIs
<1> QED BY <1>2, <1>4 DEF Buffer

LEMMA InTableGrows ==
  ASSUME Shape, NEW i \in DOMAIN probe, Insert(i)
  PROVE  /\ InTable \subseteq InTable'
         /\ Enters(i) => probe[i].key \in InTable'
         /\ ~Enters(i) => InTable' = InTable
         /\ Enters(i) => InTable' = InTable \union {probe[i].key}
<1>1. /\ plan' = plan /\ Place(i) \in Places /\ probe[i].key # Invalid
      /\ Enters(i) \/ Leaves(i) \/ Goes(i)
      /\ table \in [Places -> Keys \union {Invalid}] /\ Places' = Places
  BY InsertIs, PlanSame DEF Shape, ShapeInv
<1>2. ASSUME Enters(i) PROVE InTable' = InTable \union {probe[i].key}
  <2>1. /\ table[Place(i)] = Invalid
        /\ \A a \in Places : table'[a] = IF a = Place(i) THEN probe[i].key ELSE table[a]
    BY <1>1, <1>2 DEF Enters
  <2> QED BY <1>1, <2>1 DEF InTable
<1>3. ASSUME ~Enters(i) PROVE InTable' = InTable
  <2>1. table' = table
    BY <1>1, <1>3 DEF Leaves, Goes
  <2> QED BY <1>1, <2>1 DEF InTable
<1> QED BY <1>2, <1>3

\* Writing a node that is not in the table.
LEMMA InsertDistinct ==
  ASSUME Shape, TableInv, RoomInv, DistinctInv, NEW i \in DOMAIN probe, Insert(i)
  PROVE  DistinctInv'
<1> DEFINE n == TopK + Kids
           key == probe[i].key
<1>1. /\ plan \in Plans /\ pc \in Phases /\ plan' = plan /\ pc' = pc /\ iter' = iter
      /\ key # Invalid /\ (pc # "pick" => key \in Known) /\ probe[i].pc = "probe"
      /\ Place(i) \in Places
      /\ Enters(i) \/ Leaves(i) \/ Goes(i)
  BY InsertIs DEF Shape, ShapeInv
<1>2. pc = "seeds" \/ pc = "children" \/ (pc = "pick" /\ Resets /\ i \in 1..TopK)
  BY <1>1, ThreadsAre DEF Shape
<1>3. Buffer \in [1..n -> Entries] /\ n \in Nat
  BY BufferIs
<1>4. /\ TopK' = TopK /\ Resets' = Resets
  BY <1>1, PlanSame DEF Resets
<1>5. CASE pc # "pick"
  <2> SUFFICES Distinct(Buffer') /\ Entered(Buffer)'
    BY <1>1, <1>2, <1>5 DEF DistinctInv, Distinct
  <2>1. Distinct(Buffer) /\ Entered(Buffer)
    BY <1>2, <1>5 DEF DistinctInv
  <2>2. DOMAIN Buffer = 1..n
    BY <1>3
  <2>3. \A k \in 1..n : Buffer[k] # Invalid => Clear(Buffer[k]) \in InTable
    BY <2>1, <2>2 DEF Entered
  <2>4. CASE Goes(i)
    <3>1. Buffer' = Buffer /\ InTable' = InTable
      <4>1. ~Enters(i)
        BY <2>4 DEF Goes, Enters
      <4> QED BY <2>4, <4>1, InTableGrows DEF Goes, Buffer
    <3> QED BY <2>1, <3>1 DEF Entered
  <2>5. ASSUME NEW x \in Fresh, Written(i, x),
               x # Invalid => x = key /\ key \in InTable' /\ key \notin InTable
        PROVE  Distinct(Buffer') /\ Entered(Buffer)'
    <3>1. /\ Buffer' \in [1..n -> Entries]
          /\ \A k \in 1..n : Buffer'[k] = IF k = Mine(i) THEN x ELSE Buffer[k]
      BY <1>1, <1>5, <2>5, BufferWritten
    <3>2. x # Invalid => Clear(x) = key
      BY <1>1, <1>5, <2>5, EntryIs
    <3>3. ASSUME NEW j \in 1..n, NEW k \in 1..n, j # k, Buffer'[j] # Invalid, Buffer'[k] # Invalid
          PROVE  Clear(Buffer'[j]) # Clear(Buffer'[k])
      <4>1. CASE j # Mine(i) /\ k # Mine(i)
        <5>1. Buffer'[j] = Buffer[j] /\ Buffer'[k] = Buffer[k]
          BY <3>1, <4>1
        <5> QED BY <1>1, <1>3, <2>1, <3>3, <5>1, DistinctIs
      <4>2. CASE j = Mine(i) /\ k # Mine(i)
        BY <2>3, <2>5, <3>1, <3>2, <3>3, <4>2
      <4>3. CASE k = Mine(i) /\ j # Mine(i)
        BY <2>3, <2>5, <3>1, <3>2, <3>3, <4>3
      <4> QED BY <3>3, <4>1, <4>2, <4>3
    <3>4. Distinct(Buffer')
      BY <1>1, <1>3, <3>1, <3>3, DistinctIs
    <3>5. ASSUME NEW k \in 1..n, Buffer'[k] # Invalid PROVE Clear(Buffer'[k]) \in InTable'
      <4>1. InTable \subseteq InTable'
        BY InTableGrows
      <4> QED BY <2>3, <2>5, <3>1, <3>2, <3>5, <4>1
    <3>6. DOMAIN Buffer' = 1..n
      BY <3>1
    <3> QED BY <3>4, <3>5, <3>6 DEF Entered
  <2>6. CASE Enters(i)
    <3>1. key \notin InTable
      BY <2>6, NotThere DEF Enters
    <3>2. key \in InTable' /\ key \in Fresh /\ Written(i, key)
      BY <1>1, <1>5, <2>6, InTableGrows, EntryIs DEF Enters
    <3> QED BY <2>5, <3>1, <3>2
  <2>7. CASE Leaves(i)
    <3>1. Invalid \in Fresh /\ Written(i, Invalid)
      BY <1>1, <2>7, EntryIs DEF Leaves
    <3> QED BY <2>5, <3>1
  <2> QED BY <1>1, <2>4, <2>6, <2>7
<1>6. CASE pc = "pick"
  <2>1. Resets /\ i \in 1..TopK /\ Distinct(itopk)
    BY <1>2, <1>6 DEF DistinctInv
  <2>2. itopk' = itopk
    BY <1>1, <1>6 DEF Enters, Leaves, Goes, Written
  <2>3. /\ InTable \subseteq InTable' /\ (Enters(i) => key \in InTable')
    BY InTableGrows
  <2>4. \A k \in 1..TopK :
       \/ probe[k].pc = "read"
       \/ probe[k].pc = "probe" /\ probe[k].key = Clear(itopk[k])
       \/ probe[k].pc = "done" /\ (itopk[k] # Invalid => Clear(itopk[k]) \in InTable)
    BY <1>6, <2>1 DEF DistinctInv
  <2>5. DOMAIN probe = 1..TopK /\ probe \in [1..TopK -> [pc : {"read", "probe", "done"},
                                                         key : Indices, tried : Places]]
    BY <1>1, <1>6, <2>1, ThreadsAre DEF Shape
  <2>6. ASSUME NEW k \in 1..TopK
        PROVE  \/ probe'[k].pc = "read"
               \/ probe'[k].pc = "probe" /\ probe'[k].key = Clear(itopk[k])
               \/ probe'[k].pc = "done" /\ (itopk[k] # Invalid => Clear(itopk[k]) \in InTable')
    <3>1. CASE k # i
      <4>1. probe'[k] = probe[k]
        BY <1>1, <2>5, <3>1 DEF Enters, Leaves, Goes
      <4> QED BY <2>3, <2>4, <4>1
    <3>2. CASE k = i
      <4>1. key = Clear(itopk[k])
        BY <1>1, <2>4, <3>2
      <4>2. CASE Enters(i)
        <5>1. probe'[k].pc = "done"
          BY <2>5, <3>2, <4>2 DEF Enters, Done
        <5> QED BY <2>3, <4>1, <4>2, <5>1
      <4>3. CASE Leaves(i)
        <5>1. probe'[k].pc = "done"
          BY <2>5, <3>2, <4>3 DEF Leaves, Done
        <5>2. table[Place(i)] = key /\ table' = table
          BY <4>3, Found DEF Leaves
        <5>3. key \in InTable
          BY <1>1, <5>2 DEF InTable
        <5> QED BY <2>3, <4>1, <5>1, <5>3
      <4>4. CASE Goes(i)
        <5>1. probe'[k] = [probe[k] EXCEPT !.tried = probe[k].tried + 1]
          BY <2>5, <3>2, <4>4 DEF Goes
        <5>2. probe'[k].pc = "probe" /\ probe'[k].key = key
          <6>1. probe[k] \in [pc : {"read", "probe", "done"}, key : Indices, tried : Places]
            BY <2>5
          <6> QED BY <1>1, <3>2, <5>1, <6>1
        <5> QED BY <4>1, <5>2
      <4> QED BY <1>1, <4>2, <4>3, <4>4
    <3> QED BY <3>1, <3>2
  <2> QED BY <1>1, <1>4, <1>6, <2>1, <2>2, <2>6 DEF DistinctInv
<1> QED BY <1>5, <1>6

LEMMA FromSame ==
  ASSUME NEW n \in Nat, NEW old \in [1..n -> Entries], NEW new \in [1..n -> Entries],
         \A k \in 1..n : new[k] = old[k] \/ new[k] = Invalid
  PROVE  From(new, n, old, n)
<1> DEFINE id == [k \in 1..n |-> k]
<1>1. id \in [1..n -> 1..n]
  OBVIOUS
<1>2. \A k \in 1..n : id[k] = k
  OBVIOUS
<1> HIDE DEF id
<1>3. \E d \in [1..n -> 1..n] :
        /\ \A k \in 1..n : new[k] # Invalid => new[k] = old[d[k]]
        /\ \A j, k \in 1..n : j # k /\ new[j] # Invalid /\ new[k] # Invalid => d[j] # d[k]
  <2> WITNESS id \in [1..n -> 1..n]
  <2> QED BY <1>2
<1> QED BY <1>3 DEF From

\* Marking keeps the nodes distinct and entered.
LEMMA RemarkKeeps ==
  ASSUME plan \in Plans, NEW old \in [1..TopK -> Entries], NEW new \in [1..TopK -> Entries],
         Remarked(new, old)
  PROVE  (Distinct(old) => Distinct(new)) /\ (Entered(old) => Entered(new))
<1>1. \A k \in 1..TopK : Clear(new[k]) = Clear(old[k]) /\ (new[k] = Invalid <=> old[k] = Invalid)
  BY DEF Remarked
<1>2. TopK \in Nat
  BY SearchFacts
<1>3. Distinct(old) => Distinct(new)
  <2> SUFFICES ASSUME Distinct(old), NEW j \in 1..TopK, NEW k \in 1..TopK, j # k,
                      new[j] # Invalid, new[k] # Invalid
               PROVE  Clear(new[j]) # Clear(new[k])
    BY <1>2, DistinctIs
  <2>1. old[j] # Invalid /\ old[k] # Invalid
    BY <1>1
  <2>2. Clear(old[j]) # Clear(old[k])
    BY <1>2, <2>1, DistinctIs
  <2> QED BY <1>1, <2>2
<1>4. Entered(old) => Entered(new)
  <2>1. DOMAIN old = 1..TopK /\ DOMAIN new = 1..TopK
    OBVIOUS
  <2> QED BY <1>1, <2>1 DEF Entered
<1> QED BY <1>3, <1>4

\* The list that only has lost entries since, with candidates that are all new to it.
LEMMA DistinctNext ==
  ASSUME Shape, TableInv, RoomInv, DistinctInv, [Next]_vars
  PROVE  DistinctInv'
<1>1. /\ plan \in Plans /\ pc \in Phases /\ TopK \in Nat /\ Kids \in Nat /\ TopK + Kids \in Nat
      /\ itopk \in [1..TopK -> Entries] /\ candidates \in [1..Kids -> Fresh]
      /\ candidates \in [1..Kids -> Entries]
  BY SearchFacts, EntryIs DEF Shape, ShapeInv
<1>2. plan' = plan
  BY InsertIs DEF Next, RestoreRead, SeedsDone, Sort, Sorted, PickupNextParents, Picked,
                  ChildrenDone, PostProcess, vars, Shape
<1>3. TopK' = TopK /\ Kids' = Kids /\ Places' = Places
  BY <1>2, PlanSame
<1>4. table' = table => InTable' = InTable
  BY <1>3 DEF InTable
<1>5. Buffer \in [1..(TopK + Kids) -> Entries]
  BY BufferIs
<1>6. ASSUME NEW i \in DOMAIN probe, Insert(i) PROVE DistinctInv'
  BY <1>6, InsertDistinct
<1>7. ASSUME NEW i \in DOMAIN probe, RestoreRead(i) PROVE DistinctInv'
  <2>1. /\ pc = "pick" /\ pc' = pc /\ iter' = iter /\ table' = table /\ itopk' = itopk /\ Resets
        /\ probe' = [probe EXCEPT ![i] = Probing(Clear(itopk[i]))]
    BY <1>7, RestoreShape DEF RestoreRead
  <2>2. Resets' = Resets
    BY <1>2, <2>1 DEF Resets
  <2>3. Distinct(itopk)
    BY <2>1 DEF DistinctInv
  <2>4. \A k \in 1..TopK :
       \/ probe[k].pc = "read"
       \/ probe[k].pc = "probe" /\ probe[k].key = Clear(itopk[k])
       \/ probe[k].pc = "done" /\ (itopk[k] # Invalid => Clear(itopk[k]) \in InTable)
    BY <2>1 DEF DistinctInv
  <2>5. DOMAIN probe = 1..TopK
    BY <1>1, <2>1, ThreadsAre DEF Shape
  <2>6. ASSUME NEW k \in 1..TopK
        PROVE  \/ probe'[k].pc = "read"
               \/ probe'[k].pc = "probe" /\ probe'[k].key = Clear(itopk[k])
               \/ probe'[k].pc = "done" /\ (itopk[k] # Invalid => Clear(itopk[k]) \in InTable)
    <3>1. CASE k = i
      BY <2>1, <2>5, <3>1 DEF Probing
    <3>2. CASE k # i
      BY <2>1, <2>4, <2>5, <3>2
    <3> QED BY <3>1, <3>2
  <2> QED BY <1>2, <1>3, <1>4, <2>1, <2>2, <2>3, <2>6 DEF DistinctInv
<1>8. CASE SeedsDone
  <2>1. /\ pc = "seeds" /\ pc' = "sort" /\ table' = table /\ itopk' = itopk
        /\ candidates' = candidates
    BY <1>8 DEF SeedsDone
  <2>2. Distinct(Buffer) /\ Entered(Buffer) /\ Buffer' = Buffer
    BY <2>1 DEF DistinctInv, Buffer
  <2>3. Distinct(Buffer)' /\ Entered(Buffer)'
    BY <1>4, <2>1, <2>2 DEF Distinct, Entered
  <2> QED BY <2>1, <2>3 DEF DistinctInv
<1>9. CASE Sort
  <2>1. pc = "sort" /\ pc' = "sorted" /\ iter' = iter /\ iter \in Nat
    BY <1>9 DEF Sort, Shape, ShapeInv
  <2>2. itopk' \in [1..TopK -> Entries] /\ From(itopk', TopK, Buffer, TopK + Kids)
    BY <1>1, <1>9, <2>1, SortSelects
  <2>3. Distinct(Buffer) /\ Entered(Buffer)
    BY <2>1 DEF DistinctInv
  <2>4. Distinct(itopk') /\ Entered(itopk')
    BY <1>1, <1>5, <2>2, <2>3, FromKeeps
  <2>5. ~Resets => table' = table
    BY <1>9 DEF Sort
  <2>6. Resets' = Resets
    BY <1>2, <2>1 DEF Resets
  <2>7. Distinct(itopk)' /\ (~Resets => Entered(itopk)')
    BY <1>4, <2>4, <2>5 DEF Distinct, Entered
  <2> QED BY <2>1, <2>6, <2>7 DEF DistinctInv
<1>10. CASE Sorted
  <2>1. /\ pc = "sorted" /\ pc' \in {"post", "done", "pick"} /\ iter' = iter /\ table' = table
        /\ itopk' = itopk
    BY <1>10 DEF Sorted, Left
  <2>2. Resets' = Resets
    BY <1>2, <2>1 DEF Resets
  <2>3. Distinct(itopk) /\ (~Resets => Entered(itopk))
    BY <2>1 DEF DistinctInv
  <2>4. pc' = "pick" /\ Resets => \A k \in 1..TopK : probe'[k].pc = "read"
    <3>1. pc' = "pick" /\ Resets => probe' = [i \in 1..TopK |-> [Done EXCEPT !.pc = "read"]]
      BY <1>10, SortedShape
    <3> QED BY <3>1 DEF Done
  <2>5. Distinct(itopk)' /\ (~Resets => Entered(itopk)')
    BY <1>4, <2>1, <2>3 DEF Distinct, Entered
  <2> QED BY <1>3, <2>1, <2>2, <2>4, <2>5 DEF DistinctInv
<1>11. CASE PickupNextParents
  <2>1. /\ pc = "pick" /\ pc' = pc /\ iter' = iter /\ table' = table /\ probe' = probe
    BY <1>11 DEF PickupNextParents
  <2>2. itopk' \in [1..TopK -> Entries] /\ Remarked(itopk', itopk)
    BY <1>1, <1>11, PickIs
  <2>3. Resets' = Resets
    BY <1>2, <2>1 DEF Resets
  <2>4. Distinct(itopk) /\ (~Resets => Entered(itopk))
    BY <2>1 DEF DistinctInv
  <2>5. Distinct(itopk') /\ (~Resets => Entered(itopk'))
    BY <1>1, <2>2, <2>4, RemarkKeeps
  <2>6. Distinct(itopk)' /\ (~Resets => Entered(itopk)')
    BY <1>4, <2>1, <2>5 DEF Distinct, Entered
  <2>7. Resets => \A k \in 1..TopK :
       \/ probe[k].pc = "read"
       \/ probe[k].pc = "probe" /\ probe[k].key = Clear(itopk'[k])
       \/ probe[k].pc = "done" /\ (itopk'[k] # Invalid => Clear(itopk'[k]) \in InTable)
    BY <2>1, <2>2 DEF DistinctInv, Remarked
  <2> QED BY <1>3, <1>4, <2>1, <2>3, <2>6, <2>7 DEF DistinctInv
<1>12. CASE Picked
  <2>1. /\ pc = "pick" /\ pc' \in {"post", "done", "children"} /\ table' = table /\ itopk' = itopk
    BY <1>12 DEF Picked, Left
  <2>2. Distinct(itopk)
    BY <2>1 DEF DistinctInv
  <2>3. Entered(itopk)
    <3>1. CASE Resets
      <4>1. DOMAIN probe = 1..TopK
        BY <1>1, <2>1, <3>1, ThreadsAre DEF Shape
      <4>2. \A k \in 1..TopK : probe[k].pc = "done"
        BY <1>12, <4>1 DEF Picked, Barrier
      <4>3. \A k \in 1..TopK : itopk[k] # Invalid => Clear(itopk[k]) \in InTable
        BY <2>1, <3>1, <4>2 DEF DistinctInv
      <4>4. DOMAIN itopk = 1..TopK
        BY <1>1
      <4> QED BY <4>3, <4>4 DEF Entered
    <3>2. CASE ~Resets
      BY <2>1, <3>2 DEF DistinctInv
    <3> QED BY <3>1, <3>2
  <2>4. CASE pc' = "children"
    <3>1. candidates' = [i \in 1..Kids |-> Invalid]
      BY <1>12, <2>4, PickedShape
    <3>2. candidates' \in [1..Kids -> Entries]
      BY <1>1, <3>1, EntryIs
    <3>3. /\ itopk \o candidates' \in [1..(TopK + Kids) -> Entries]
          /\ \A k \in 1..(TopK + Kids) :
               (itopk \o candidates')[k] = IF k <= TopK THEN itopk[k] ELSE candidates'[k - TopK]
      <4>1. itopk \o candidates' \in [1..(TopK + Kids) -> Entries]
        BY <1>1, <3>2, ConcatIs
      <4>2. \A k \in 1..(TopK + Kids) :
               (itopk \o candidates')[k] = IF k <= TopK THEN itopk[k] ELSE candidates'[k - TopK]
        BY <1>1, <3>2, ConcatIs
      <4> QED BY <4>1, <4>2
    <3> DEFINE B == itopk \o candidates'
    <3>4. Buffer' = B
      BY <2>1 DEF Buffer
    <3>5. B \in [1..(TopK + Kids) -> Entries]
      BY <3>3
    <3>6. \A k \in 1..(TopK + Kids) : B[k] # Invalid => k \in 1..TopK /\ B[k] = itopk[k]
      <4> TAKE k \in 1..(TopK + Kids)
      <4>1. B[k] = IF k <= TopK THEN itopk[k] ELSE candidates'[k - TopK]
        BY <3>3
      <4>2. ~(k <= TopK) => candidates'[k - TopK] = Invalid
        BY <1>1, <3>1
      <4> QED BY <1>1, <4>1, <4>2
    <3> HIDE DEF B
    <3>7. \A j, k \in 1..(TopK + Kids) : j # k /\ B[j] # Invalid /\ B[k] # Invalid
                                         => Clear(B[j]) # Clear(B[k])
      BY <1>1, <2>2, <3>6, DistinctIs
    <3>8. Distinct(B)
      BY <1>1, <3>5, <3>7, DistinctIs
    <3>9. \A k \in DOMAIN B : B[k] # Invalid => Clear(B[k]) \in InTable
      BY <1>1, <2>3, <3>5, <3>6 DEF Entered
    <3>10. Distinct(Buffer)' /\ Entered(Buffer)'
      BY <1>4, <2>1, <3>4, <3>8, <3>9 DEF Distinct, Entered
    <3> QED BY <2>4, <3>10 DEF DistinctInv
  <2>5. CASE pc' # "children"
    <3>1. Distinct(itopk)'
      BY <2>1, <2>2 DEF Distinct
    <3> QED BY <2>1, <2>5, <3>1 DEF DistinctInv
  <2> QED BY <2>4, <2>5
<1>13. CASE ChildrenDone
  <2>1. pc = "children" /\ pc' = "sort" /\ table' = table /\ candidates' = candidates
    BY <1>13 DEF ChildrenDone
  <2>2. itopk' \in [1..TopK -> Entries]
    BY <1>3, <1>13, ChildrenShape, PlanSame, <1>2 DEF Shape, ShapeInv
  <2>3. \A k \in 1..TopK : itopk'[k] = itopk[k] \/ itopk'[k] = Invalid
    BY <1>13, ChildrenShape
  <2>4. From(itopk', TopK, itopk, TopK)
    BY <1>1, <2>2, <2>3, FromSame
  <2>5. From(itopk' \o candidates, TopK + Kids, itopk \o candidates, TopK + Kids)
    BY <1>1, <2>2, <2>4, FromConcat
  <2>6. itopk' \o candidates \in [1..(TopK + Kids) -> Entries]
    BY <1>1, <2>2, ConcatIs
  <2>7. Distinct(Buffer) /\ Entered(Buffer)
    BY <2>1 DEF DistinctInv
  <2>8. Distinct(itopk' \o candidates) /\ Entered(itopk' \o candidates)
    BY <1>1, <1>5, <2>5, <2>6, <2>7, FromKeeps DEF Buffer
  <2>9. Distinct(Buffer)' /\ Entered(Buffer)'
    BY <1>4, <2>1, <2>8 DEF Distinct, Entered, Buffer
  <2> QED BY <2>1, <2>9 DEF DistinctInv
<1>14. CASE PostProcess
  <2>1. pc' = "done" /\ plan'.filtered
    BY <1>2, <1>14 DEF PostProcess, Shape, ShapeInv
  <2> QED BY <2>1 DEF DistinctInv
<1>15. CASE UNCHANGED vars
  <2>1. /\ pc' = pc /\ itopk' = itopk /\ candidates' = candidates /\ table' = table
        /\ iter' = iter /\ probe' = probe
    BY <1>15 DEF vars
  <2>2. Buffer' = Buffer /\ Resets' = Resets /\ InTable' = InTable
    BY <1>2, <1>4, <2>1 DEF Buffer, Resets
  <2> QED BY <1>2, <1>3, <2>1, <2>2 DEF DistinctInv, Distinct, Entered
<1> QED BY <1>6, <1>7, <1>8, <1>9, <1>10, <1>11, <1>12, <1>13, <1>14, <1>15 DEF Next

LEMMA InitDistinct ==
  ASSUME Init
  PROVE  DistinctInv
<1>1. Shape
  BY InitShape
<1>2. pc = "seeds" /\ itopk = [i \in 1..TopK |-> Invalid] /\ candidates = [i \in 1..Kids |-> Invalid]
  BY DEF Init, TopK, Kids
<1>3. \A k \in DOMAIN Buffer : Buffer[k] = Invalid
  <2>1. /\ DOMAIN Buffer = 1..(TopK + Kids) /\ TopK \in Nat /\ Kids \in Nat
        /\ \A k \in 1..(TopK + Kids) :
             Buffer[k] = IF k <= TopK THEN itopk[k] ELSE candidates[k - TopK]
    BY <1>1, BufferIs
  <2> QED BY <1>2, <2>1
<1> QED BY <1>2, <1>3 DEF DistinctInv, Distinct, Entered

\* No node is twice in the list, or comes back into it (NoDuplicates): also when two
\* threads meet the same neighbour, and when the table is emptied and filled again
\* from the list while entries of it are being marked (hashmap_restore).
THEOREM NodesOnce == Spec => []NoDuplicates
<1> DEFINE Inv == Shape /\ TableInv /\ RoomInv /\ DistinctInv
<1>1. Init => Inv
  BY InitShape, InitTable, InitDistinct
<1>2. Inv /\ [Next]_vars => Inv'
  BY ShapeNext, TableNext, RoomNext, DistinctNext
<1>3. Inv => NoDuplicates
  <2> SUFFICES ASSUME Shape, DistinctInv PROVE NoDuplicates
    OBVIOUS
  <2>1. pc \in Phases
    BY DEF Shape, ShapeInv
  <2>2. CASE pc = "sort"
    BY <2>2 DEF NoDuplicates, DistinctInv, Buffer
  <2>3. CASE pc \in {"sorted", "pick"}
    BY <2>3 DEF NoDuplicates, DistinctInv
  <2>4. CASE pc = "children"
    <3>1. /\ plan \in Plans /\ itopk \in [1..TopK -> Entries] /\ TopK \in Nat
          /\ Buffer \in [1..(TopK + Kids) -> Entries] /\ TopK + Kids \in Nat
          /\ \A k \in 1..TopK : Buffer[k] = itopk[k] /\ k \in 1..(TopK + Kids)
      BY BufferIs DEF Shape, ShapeInv
    <3>2. Distinct(Buffer)
      BY <2>4 DEF DistinctInv
    <3>3. \A j, k \in 1..(TopK + Kids) : j # k /\ Buffer[j] # Invalid /\ Buffer[k] # Invalid
                                         => Clear(Buffer[j]) # Clear(Buffer[k])
      BY <3>1, <3>2, DistinctIs
    <3>4. \A j, k \in 1..TopK : j # k /\ itopk[j] # Invalid /\ itopk[k] # Invalid
                                => Clear(itopk[j]) # Clear(itopk[k])
      BY <3>1, <3>3
    <3>5. Distinct(itopk)
      BY <3>1, <3>4, DistinctIs
    <3> QED BY <2>4, <3>5 DEF NoDuplicates
  <2>5. CASE pc \in {"seeds", "post", "done"}
    BY <2>5 DEF NoDuplicates, DistinctInv
  <2> QED BY <2>1, <2>2, <2>3, <2>4, <2>5 DEF Phases
<1> QED BY <1>1, <1>2, <1>3, PTL DEF Spec

-----------------------------------------------------------------------------
(* When the search ends.                                                   *)

LEMMA InitFlag ==
  ASSUME Init
  PROVE  FlagInv
<1>1. terminate_flag = FALSE /\ pc = "seeds"
  BY DEF Init
<1> QED BY <1>1 DEF FlagInv, Converged

\* While the flag is down, or the search is without the bitonic sort and with a filter,
\* nothing is claimed but that the search goes on.
LEMMA FlagNext ==
  ASSUME Shape, FlagInv, [Next]_vars
  PROVE  FlagInv'
<1>1. /\ plan \in Plans /\ pc \in Phases /\ TopK \in Nat /\ Kids \in Nat /\ TopK + Kids \in Nat
      /\ itopk \in [1..TopK -> Entries] /\ candidates \in [1..Kids -> Fresh]
      /\ candidates \in [1..Kids -> Entries] /\ plan.filtered \in BOOLEAN
      /\ plan.bitonic \in BOOLEAN /\ terminate_flag \in BOOLEAN
  BY SearchFacts, EntryIs, PlanFacts DEF Shape, ShapeInv
<1>2. plan' = plan
  BY InsertIs DEF Next, RestoreRead, SeedsDone, Sort, Sorted, PickupNextParents, Picked,
                  ChildrenDone, PostProcess, vars, Shape
<1>3. /\ TopK' = TopK /\ Kids' = Kids /\ Width' = Width
      /\ MaxIterations(plan)' = MaxIterations(plan)
  BY <1>2, PlanSame
<1>4. pc' \notin {"post", "done"} => Converged'
  BY DEF Converged
<1>5. ~plan.filtered /\ terminate_flag =>
       /\ pc \notin {"seeds", "post"} /\ AllUsed(itopk)
       /\ parents # <<>> => \A j \in 1..Width : parents[j] = 0
       /\ pc \in {"children", "sort", "sorted"} => AllUsed(candidates)
       /\ pc = "children" => \A i \in 1..Kids : probe[i].pc = "done"
  BY DEF FlagInv
<1>6. plan.filtered /\ plan.bitonic /\ terminate_flag =>
       /\ pc \notin {"seeds", "sorted"}
       /\ pc = "pick" => parents # <<>> /\ AllUsed(itopk)
  BY DEF FlagInv
<1>7. ASSUME NEW i \in DOMAIN probe, Insert(i) PROVE FlagInv'
  <2>1. /\ pc' = pc /\ parents' = parents /\ terminate_flag' = terminate_flag /\ iter' = iter
        /\ probe[i].pc = "probe" /\ (Enters(i) \/ Leaves(i) \/ Goes(i))
    BY <1>7, InsertIs DEF Shape
  <2>2. pc \in {"seeds", "pick", "children"}
    BY <1>1, <1>7, ThreadsAre DEF Shape
  <2>3. pc = "children" => i \in 1..Kids
    BY <1>1, <1>7, ThreadsAre DEF Shape
  <2>4. pc = "pick" => itopk' = itopk
    BY <2>1 DEF Enters, Leaves, Goes, Written
  <2>5. ~plan.filtered /\ terminate_flag => pc = "pick"
    BY <1>5, <2>1, <2>2, <2>3
  <2>6. plan.filtered /\ plan.bitonic /\ terminate_flag => pc # "seeds"
    BY <1>6
  <2> QED BY <1>2, <1>3, <1>4, <1>5, <1>6, <2>1, <2>2, <2>4, <2>5, <2>6 DEF FlagInv
<1>8. ASSUME NEW i \in DOMAIN probe, RestoreRead(i) PROVE FlagInv'
  BY <1>2, <1>3, <1>4, <1>5, <1>6, <1>8 DEF RestoreRead, FlagInv
<1>9. CASE SeedsDone
  <2>1. terminate_flag' = terminate_flag /\ pc = "seeds" /\ pc' = "sort"
    BY <1>9 DEF SeedsDone
  <2> QED BY <1>2, <1>4, <1>5, <1>6, <2>1 DEF FlagInv
<1>10. CASE Sort
  <2>1. /\ pc = "sort" /\ pc' = "sorted" /\ parents' = <<>> /\ iter \in Nat
        /\ candidates' = CandidatesAfter
        /\ plan.filtered /\ plan.bitonic => ~terminate_flag'
        /\ ~plan.filtered => terminate_flag' = terminate_flag
    BY <1>1, <1>10 DEF Sort, Shape, ShapeInv
  <2>2. itopk' \in [1..TopK -> Entries] /\ From(itopk', TopK, Buffer, TopK + Kids)
    BY <1>1, <1>10, <2>1, SortSelects
  <2>3. AllUsed(candidates) => AllUsed(CandidatesAfter)
    BY <1>1, CandidatesAfterIs
  <2>4. ASSUME AllUsed(itopk), AllUsed(candidates) PROVE AllUsed(itopk')
    <3>1. /\ Buffer \in [1..(TopK + Kids) -> Entries]
          /\ \A k \in 1..(TopK + Kids) :
               Buffer[k] = IF k <= TopK THEN itopk[k] ELSE candidates[k - TopK]
      BY BufferIs
    <3>2. \A k \in 1..TopK : Used(itopk[k])
      BY <1>1, <2>4 DEF AllUsed
    <3>3. \A k \in 1..Kids : Used(candidates[k])
      BY <1>1, <2>4 DEF AllUsed
    <3>4. \A k \in 1..(TopK + Kids) : Used(Buffer[k])
      <4> TAKE k \in 1..(TopK + Kids)
      <4>1. CASE k <= TopK
        <5>1. k \in 1..TopK
          BY <1>1, <4>1
        <5> QED BY <3>1, <3>2, <4>1, <5>1
      <4>2. CASE ~(k <= TopK)
        <5>1. k - TopK \in 1..Kids
          BY <1>1, <4>2
        <5> QED BY <3>1, <3>3, <4>2, <5>1
      <4> QED BY <4>1, <4>2
    <3>5. AllUsed(Buffer)
      BY <3>1, <3>4 DEF AllUsed
    <3> QED BY <1>1, <2>2, <3>1, <3>5, FromKeeps
  <2>5. ~plan.filtered /\ terminate_flag' => AllUsed(itopk)' /\ AllUsed(candidates)'
    <3>1. ~plan.filtered /\ terminate_flag' => AllUsed(itopk') /\ AllUsed(candidates')
      BY <1>5, <2>1, <2>3, <2>4
    <3> QED BY <3>1 DEF AllUsed
  <2> QED BY <1>2, <1>4, <2>1, <2>5 DEF FlagInv
<1>11. CASE Sorted
  <2>1. /\ pc = "sorted" /\ pc' \in {"post", "done", "pick"} /\ terminate_flag' = terminate_flag
        /\ itopk' = itopk /\ parents' = parents /\ parents = <<>> /\ iter' = iter
        /\ pc' = "pick" \/ iter + 1 = MaxIterations(plan)
        /\ pc' = "post" => plan.filtered
    BY <1>11, SortedShape DEF Sorted, Left
  <2>2. MaxIterations(plan) \in Nat
    BY <1>1, SearchFacts
  <2>3. Converged'
    BY <1>2, <1>3, <1>4, <2>1, <2>2 DEF Converged
  <2>4. ~plan.filtered /\ terminate_flag => AllUsed(itopk)'
    BY <1>5, <2>1 DEF AllUsed
  <2> QED BY <1>2, <1>6, <2>1, <2>3, <2>4 DEF FlagInv
<1>12. CASE PickupNextParents
  <2>1. pc = "pick" /\ pc' = "pick"
    BY <1>12 DEF PickupNextParents
  <2>2. /\ parents' # <<>> /\ terminate_flag' = (terminate_flag \/ AllUsed(itopk))
        /\ AllUsed(itopk) => AllUsed(itopk') /\ \A j \in 1..Width : parents'[j] = 0
    BY <1>1, <1>12, PickIs
  <2>3. parents = <<>>
    BY <1>12 DEF PickupNextParents
  <2>4. (~plan.filtered \/ plan.bitonic) /\ terminate_flag' => AllUsed(itopk)
    BY <1>1, <1>5, <1>6, <2>1, <2>2, <2>3
  <2>5. (~plan.filtered \/ plan.bitonic) /\ terminate_flag' =>
          AllUsed(itopk)' /\ \A j \in 1..Width : parents'[j] = 0
    BY <2>2, <2>4 DEF AllUsed
  <2> QED BY <1>2, <1>3, <1>4, <2>1, <2>2, <2>5 DEF FlagInv
<1>13. CASE Picked
  <2>1. /\ pc = "pick" /\ pc' \in {"post", "done", "children"} /\ terminate_flag' = terminate_flag
        /\ itopk' = itopk /\ parents' = parents /\ parents # <<>> /\ iter' = iter
        /\ pc' # "children" => terminate_flag
        /\ pc' = "post" => plan.filtered
    BY <1>13 DEF Picked, Left
  <2>2. AllUsed(itopk)' <=> AllUsed(itopk)
    BY <2>1 DEF AllUsed
  <2>3. (plan.bitonic \/ ~plan.filtered) => Converged'
    <3>1. CASE pc' = "children"
      BY <1>4, <3>1
    <3>2. CASE pc' # "children"
      <4>1. plan.bitonic \/ ~plan.filtered => AllUsed(itopk)
        BY <1>1, <1>5, <1>6, <2>1, <3>2
      <4> QED BY <2>1, <4>1 DEF Converged, AllUsed
    <3> QED BY <3>1, <3>2
  <2>4. ~plan.filtered /\ terminate_flag /\ pc' = "children" =>
          AllUsed(candidates)' /\ \A i \in 1..Kids : probe'[i].pc = "done"
    <3> SUFFICES ASSUME ~plan.filtered, terminate_flag, pc' = "children"
                 PROVE  AllUsed(candidates)' /\ \A i \in 1..Kids : probe'[i].pc = "done"
      OBVIOUS
    <3>1. \A j \in 1..Width : parents[j] = 0
      BY <1>5, <2>1
    <3>2. /\ candidates' = [i \in 1..Kids |-> Invalid]
          /\ \A i \in 1..Kids : probe'[i] = Done
      BY <1>13, <3>1, PickedShape
    <3> QED BY <3>2, InvalidIs DEF AllUsed, Done
  <2> QED BY <1>2, <1>3, <1>5, <1>6, <2>1, <2>2, <2>3, <2>4 DEF FlagInv
<1>14. CASE ChildrenDone
  <2>1. /\ pc = "children" /\ pc' = "sort" /\ candidates' = candidates /\ parents' = parents
        /\ ~plan.filtered => itopk' = itopk /\ terminate_flag' = terminate_flag
    BY <1>14, ChildrenShape DEF ChildrenDone
  <2>2. ~plan.filtered /\ terminate_flag' =>
          /\ AllUsed(itopk)' /\ AllUsed(candidates)'
          /\ parents' # <<>> => \A j \in 1..Width : parents'[j] = 0
    BY <1>5, <2>1 DEF AllUsed
  <2> QED BY <1>2, <1>3, <1>4, <2>1, <2>2 DEF FlagInv
<1>15. CASE PostProcess
  <2>1. pc = "post" /\ pc' = "done" /\ plan.filtered
    BY <1>15 DEF PostProcess, Shape, ShapeInv
  <2> QED BY <1>2, <2>1 DEF FlagInv, Converged
<1>16. CASE UNCHANGED vars
  <2>1. /\ pc' = pc /\ itopk' = itopk /\ candidates' = candidates /\ parents' = parents
        /\ iter' = iter /\ probe' = probe /\ terminate_flag' = terminate_flag
    BY <1>16 DEF vars
  <2> QED BY <1>2, <1>3, <2>1 DEF FlagInv, AllUsed, Converged
<1> QED BY <1>7, <1>8, <1>9, <1>10, <1>11, <1>12, <1>13, <1>14, <1>15, <1>16 DEF Next

\* A search that ends before max_iterations has marked its whole list (Converged),
\* though the filter raises the flag that ends it: unless the radix sort is used with a
\* filter, where nothing lowers that flag.
THEOREM EndsConverged == Spec => [](plan.bitonic \/ ~plan.filtered => Converged)
<1>1. Init => Shape /\ FlagInv
  BY InitShape, InitFlag
<1>2. Shape /\ FlagInv /\ [Next]_vars => (Shape /\ FlagInv)'
  BY ShapeNext, FlagNext
<1>3. FlagInv => (plan.bitonic \/ ~plan.filtered => Converged)
  BY DEF FlagInv
<1> QED BY <1>1, <1>2, <1>3, PTL DEF Spec

-----------------------------------------------------------------------------
(* A search without a filter is a beam search.                             *)

\* The operators of the standard modules are the same in an instance.
LEMMA SameOperators ==
  /\ \A S : Beam!Cardinality(S) = Cardinality(S)
  /\ \A f : Beam!Range(f) = Range(f)
BY Zenon DEF Beam!Cardinality, Cardinality, Beam!Range, Range

\* The nearest of T are those that all others are farther than, if there are so many.
LEMMA NearestOf ==
  ASSUME NEW T \in SUBSET Nat, IsFiniteSet(T), NEW n \in Nat, NEW P \in SUBSET T,
         Cardinality(P) <= n,
         \A x \in T \ P : Cardinality(P) = n /\ \A y \in P : y < x
  PROVE  P = Beam!Nearest(T, n)
<1> DEFINE Below(x) == {y \in T : y < x}
<1>1. IsFiniteSet(P) /\ Cardinality(P) \in Nat
  BY FS_Subset, FS_CardinalityType
<1>2. ASSUME NEW x \in P PROVE Cardinality(Below(x)) < n
  <2>1. Below(x) \subseteq P \ {x}
    <3> SUFFICES ASSUME NEW y \in T, y < x PROVE y \in P \ {x}
      OBVIOUS
    <3>1. y \in Nat /\ x \in Nat
      OBVIOUS
    <3>2. y # x /\ ~(x < y)
      BY <3>1
    <3> QED BY <3>2
  <2>2. IsFiniteSet(P \ {x}) /\ Cardinality(P \ {x}) = Cardinality(P) - 1
    BY <1>1, FS_RemoveElement
  <2>3. IsFiniteSet(Below(x)) /\ Cardinality(Below(x)) <= Cardinality(P \ {x})
    BY <2>1, <2>2, FS_Subset
  <2>4. Cardinality(Below(x)) \in Nat
    BY <2>3, FS_CardinalityType
  <2> QED BY <1>1, <2>2, <2>3, <2>4
<1>3. ASSUME NEW x \in T \ P PROVE ~(Cardinality(Below(x)) < n)
  <2>1. P \subseteq Below(x) /\ IsFiniteSet(Below(x))
    BY FS_Subset
  <2>2. Cardinality(P) <= Cardinality(Below(x)) /\ Cardinality(P) = n
    BY <2>1, FS_Subset
  <2>3. Cardinality(Below(x)) \in Nat
    BY <2>1, FS_CardinalityType
  <2> QED BY <2>2, <2>3
<1>4. P = {x \in T : Cardinality(Below(x)) < n}
  BY <1>2, <1>3
<1> QED BY <1>4, SameOperators DEF Beam!Nearest

LEMMA KnownIs ==
  ASSUME plan \in Plans
  PROVE  IsFiniteSet(Known) /\ Known \subseteq Nat /\ \A x \in Known : x < Msb - 1
<1>1. Msb \in Nat /\ Known \subseteq 0..(Msb - 2)
  BY Bounds, SearchFacts
<1>2. IsFiniteSet(0..(Msb - 2))
  BY <1>1, FS_Interval
<1>3. IsFiniteSet(Known)
  BY <1>1, <1>2, FS_Subset
<1>4. \A x \in 0..(Msb - 2) : x \in Nat /\ x < Msb - 1
  BY <1>1
<1> QED BY <1>1, <1>3, <1>4

LEMMA NodesAre ==
  ASSUME plan \in Plans, NEW n \in Nat, NEW s \in [1..n -> Entries]
  PROVE  /\ Nodes(s) \subseteq Known
         /\ \A k \in 1..n : s[k] # Invalid => Clear(s[k]) \in Nodes(s)
         /\ \A x \in Nodes(s) : \E k \in 1..n : s[k] # Invalid /\ Clear(s[k]) = x
         /\ IsFiniteSet(Nodes(s)) /\ Cardinality(Nodes(s)) <= n
         /\ Distinct(s) /\ (\A k \in 1..n : s[k] # Invalid) => Cardinality(Nodes(s)) = n
<1> DEFINE full == {k \in 1..n : s[k] # Invalid}
           f    == [k \in full |-> Clear(s[k])]
<1>1. Nodes(s) = {Clear(s[k]) : k \in full}
  BY DEF Nodes
<1>2. Nodes(s) \subseteq Known
  BY <1>1, EntryIs
<1>3. /\ \A k \in 1..n : s[k] # Invalid => Clear(s[k]) \in Nodes(s)
      /\ \A x \in Nodes(s) : \E k \in 1..n : s[k] # Invalid /\ Clear(s[k]) = x
  BY <1>1
<1>4. IsFiniteSet(1..n) /\ Cardinality(1..n) = n
  BY FS_Interval
<1>5. IsFiniteSet(full) /\ Cardinality(full) <= n
  BY <1>4, FS_Subset
<1>6. f \in Surjection(full, Nodes(s))
  BY <1>1 DEF Surjection
<1>7. /\ IsFiniteSet(Nodes(s)) /\ Cardinality(Nodes(s)) <= Cardinality(full)
      /\ Cardinality(Nodes(s)) = Cardinality(full) <=> f \in Injection(full, Nodes(s))
  BY <1>5, <1>6, FS_Surjection
<1>8. Cardinality(full) \in Nat /\ Cardinality(Nodes(s)) \in Nat
  BY <1>5, <1>7, FS_CardinalityType
<1>9. ASSUME Distinct(s), \A k \in 1..n : s[k] # Invalid PROVE Cardinality(Nodes(s)) = n
  <2>1. full = 1..n
    BY <1>9
  <2>2. \A j, k \in full : f[j] = f[k] => j = k
    BY <1>9, DistinctIs
  <2>3. f \in Injection(full, Nodes(s))
    BY <1>6, <2>2 DEF Surjection, Injection, IsInjective
  <2> QED BY <1>4, <1>7, <2>1, <2>3
<1> QED BY <1>2, <1>3, <1>5, <1>7, <1>8, <1>9

\* The list holds the nearest nodes of T if it has only lost what is farther than all.
LEMMA BeamIs ==
  ASSUME plan \in Plans, NEW s \in [1..TopK -> Entries], Distinct(s), NEW T \in SUBSET Known,
         Nodes(s) \subseteq T,
         \A x \in T : x \in Nodes(s) \/ \A k \in 1..TopK : Clear(s[k]) < x
  PROVE  Nodes(s) = Beam!Nearest(T, TopK)
<1>1. TopK \in Nat /\ Msb \in Nat
  BY SearchFacts, Bounds
<1>2. T \in SUBSET Nat /\ IsFiniteSet(T)
  BY KnownIs, FS_Subset
<1>3. /\ Cardinality(Nodes(s)) <= TopK
      /\ \A x \in Nodes(s) : \E k \in 1..TopK : s[k] # Invalid /\ Clear(s[k]) = x
      /\ (\A k \in 1..TopK : s[k] # Invalid) => Cardinality(Nodes(s)) = TopK
  BY <1>1, NodesAre
<1>4. ASSUME NEW x \in T \ Nodes(s)
      PROVE  Cardinality(Nodes(s)) = TopK /\ \A y \in Nodes(s) : y < x
  <2>1. \A k \in 1..TopK : Clear(s[k]) < x
    OBVIOUS
  <2>2. ASSUME NEW k \in 1..TopK PROVE s[k] # Invalid
    <3>1. x \in Nat /\ x < Msb - 1 /\ Clear(s[k]) < x
      BY <2>1, KnownIs
    <3> QED BY <1>1, <3>1, InvalidIs
  <2> QED BY <1>3, <2>1, <2>2
<1>5. Nodes(s) \in SUBSET T
  OBVIOUS
<1> QED BY <1>1, <1>2, <1>3, <1>4, <1>5, NearestOf

\* What the sort leaves is sorted, and nearer than what it drops.
LEMMA NearestBeats ==
  ASSUME plan \in Plans, NEW n \in Nat, TopK <= n, NEW all \in [1..n -> Entries]
  PROVE  /\ Ascending(Nearest(all))
         /\ \A j \in 1..n : \/ \E k \in 1..TopK : Nearest(all)[k] = all[j]
                            \/ \A k \in 1..TopK : Clear(Nearest(all)[k]) <= Clear(all[j])
         /\ \A x \in Keys : (\A k \in 1..TopK : Clear(all[k]) < x)
                            => \A k \in 1..TopK : Clear(Nearest(all)[k]) < x
<1> DEFINE new == Nearest(all)
<1>1. TopK \in Nat /\ 1..TopK \subseteq 1..n /\ Msb \in Nat
  BY SearchFacts, Bounds
<1>2. all \in [1..n -> Indices] /\ \A k \in 1..n : Clear(all[k]) \in Nat
  <2>1. all \in [1..n -> Indices] /\ \A k \in 1..n : Clear(all[k]) \in Keys
    BY EntryIs
  <2>2. Keys \subseteq Nat
    BY Bounds DEF Keys
  <2> QED BY <2>1, <2>2
<1>3. /\ \A r \in 1..n : Position(all, r) \in 1..n /\ Rank(all, Position(all, r)) = r
      /\ \A k \in 1..n : Rank(all, k) \in 1..n
      /\ \A j, k \in 1..n : Rank(all, j) = Rank(all, k) => j = k
      /\ \A j, k \in 1..n : Clear(all[j]) < Clear(all[k]) => Rank(all, j) < Rank(all, k)
      /\ \A j, k \in 1..n : Rank(all, j) < Rank(all, k) => Clear(all[j]) <= Clear(all[k])
  BY <1>2, SortIs
<1>4. new \in [1..TopK -> Entries] /\ \A k \in 1..TopK : new[k] = all[Position(all, k)]
  BY NearestIs
<1> HIDE DEF new
<1>5. ASSUME NEW j \in 1..TopK, NEW k \in 1..TopK, j < k PROVE Clear(new[j]) <= Clear(new[k])
  BY <1>1, <1>3, <1>4, <1>5
<1>6. ASSUME NEW j \in 1..n
      PROVE  \/ \E k \in 1..TopK : new[k] = all[j]
             \/ \A k \in 1..TopK : Clear(new[k]) <= Clear(all[j])
  <2>1. CASE Rank(all, j) \in 1..TopK
    <3>1. Position(all, Rank(all, j)) = j
      BY <1>3
    <3> QED BY <1>4, <2>1, <3>1
  <2>2. CASE Rank(all, j) \notin 1..TopK
    <3> SUFFICES ASSUME NEW k \in 1..TopK PROVE Clear(new[k]) <= Clear(all[j])
      OBVIOUS
    <3>1. Rank(all, Position(all, k)) = k /\ Position(all, k) \in 1..n /\ Rank(all, j) \in 1..n
      BY <1>1, <1>3
    <3>2. k < Rank(all, j)
      BY <1>1, <2>2, <3>1
    <3> QED BY <1>3, <1>4, <3>1, <3>2
  <2> QED BY <2>1, <2>2
<1>7. ASSUME NEW x \in Keys, \A k \in 1..TopK : Clear(all[k]) < x,
             NEW k \in 1..TopK, ~(Clear(new[k]) < x)
      PROVE  FALSE
  <2> DEFINE p == Position(all, k)
             f == [i \in 1..TopK |-> Rank(all, i)]
  <2>1. p \in 1..n /\ Rank(all, p) = k /\ new[k] = all[p]
    BY <1>1, <1>3, <1>4
  <2>2. x \in Nat /\ Clear(all[p]) \in Nat
    BY <1>1, <1>2, <2>1 DEF Keys
  <2>3. ASSUME NEW i \in 1..TopK PROVE Rank(all, i) \in 1..(k - 1)
    <3>1. i \in 1..n /\ Clear(all[i]) \in Nat
      BY <1>1, <1>2
    <3>2. Clear(all[i]) < Clear(all[p])
      BY <1>7, <2>1, <2>2, <3>1
    <3>3. Rank(all, i) < k /\ Rank(all, i) \in 1..n
      BY <1>3, <2>1, <3>1, <3>2
    <3> QED BY <3>3
  <2>4. f \in [1..TopK -> 1..(k - 1)]
    BY <2>3
  <2>5. IsFiniteSet(1..TopK) /\ Cardinality(1..TopK) = TopK
    BY <1>1, FS_Interval
  <2>6. IsFiniteSet(1..(k - 1)) /\ Cardinality(1..(k - 1)) = k - 1
    BY <1>1, FS_Interval
  <2>7. Cardinality(1..(k - 1)) < Cardinality(1..TopK)
    BY <1>1, <2>5, <2>6
  <2>8. \A i \in 1..TopK : f[i] = Rank(all, i)
    OBVIOUS
  <2> HIDE DEF f
  <2>9. PICK a, b \in 1..TopK : a # b /\ f[a] = f[b]
    BY <2>4, <2>5, <2>6, <2>7, FS_PigeonHole
  <2>10. Rank(all, a) = Rank(all, b) /\ a \in 1..n /\ b \in 1..n
    BY <1>1, <2>8, <2>9
  <2> QED BY <1>3, <2>9, <2>10
<1>8. Ascending(new)
  <2>1. DOMAIN new = 1..TopK
    BY <1>4
  <2> QED BY <1>5, <2>1 DEF Ascending
<1> QED BY <1>6, <1>7, <1>8 DEF new

\* Without a filter the list is sorted when the sorts take it for sorted.
LEMMA SortMerges ==
  ASSUME plan \in Plans, itopk \in [1..TopK -> Entries], iter # 0 => Ascending(itopk),
         ~plan.filtered, Sort
  PROVE  itopk' = Nearest(Buffer)
<1>1. \/ itopk' \in BitonicMerge(itopk, candidates, iter = 0)
      \/ itopk' = Nearest(itopk \o candidates)
  BY DEF Sort
<1>2. ASSUME iter # 0 PROVE InOrder(itopk)
  <2>1. TopK \in Nat /\ DOMAIN itopk = 1..TopK
    BY SearchFacts
  <2>2. Len(itopk) = TopK
    <3>1. itopk \in Seq(Entries)
      BY <2>1, SeqDef
    <3> QED BY <2>1, <3>1, LenProperties
  <2>3. ASSUME NEW k \in 1..(TopK - 1) PROVE ~Nearer(itopk[k + 1], itopk[k])
    <3>1. k \in 1..TopK /\ k + 1 \in 1..TopK /\ k < k + 1
      BY <2>1
    <3>2. Clear(itopk[k]) <= Clear(itopk[k + 1])
      BY <1>2, <2>1, <3>1 DEF Ascending
    <3>3. Clear(itopk[k]) \in Keys /\ Clear(itopk[k + 1]) \in Keys
      BY <3>1, EntryIs
    <3>4. Clear(itopk[k]) \in Nat /\ Clear(itopk[k + 1]) \in Nat
      BY <3>3, Bounds DEF Keys
    <3> QED BY <3>2, <3>4 DEF Nearer
  <2> QED BY <2>2, <2>3 DEF InOrder
<1>3. BitonicMerge(itopk, candidates, iter = 0) = {Nearest(itopk \o candidates)}
  BY <1>2 DEF BitonicMerge
<1> QED BY <1>1, <1>3 DEF Buffer

\* A node that has been met is in the sorted list, or farther than all of it.
LEMMA SortMeets ==
  ASSUME Shape, Met(Buffer), NEW x \in InTable \intersect Known
  PROVE  x \in Nodes(Nearest(Buffer)) \/ \A k \in 1..TopK : Clear(Nearest(Buffer)[k]) < x
<1> DEFINE new == Nearest(Buffer)
<1>1. /\ plan \in Plans /\ TopK \in Nat /\ TopK <= TopK + Kids
      /\ Buffer \in [1..(TopK + Kids) -> Entries] /\ TopK + Kids \in Nat
      /\ \A k \in 1..TopK : Buffer[k] = itopk[k]
  BY BufferIs, SearchFacts DEF Shape, ShapeInv
<1>2. new \in [1..TopK -> Entries]
  BY <1>1, NearestIs
<1>3. /\ \A j \in 1..(TopK + Kids) : \/ \E k \in 1..TopK : new[k] = Buffer[j]
                                     \/ \A k \in 1..TopK : Clear(new[k]) <= Clear(Buffer[j])
      /\ \A y \in Keys : (\A k \in 1..TopK : Clear(Buffer[k]) < y)
                         => \A k \in 1..TopK : Clear(new[k]) < y
  BY <1>1, NearestBeats
<1> HIDE DEF new
<1>4. x \in Keys /\ x \in Nat /\ x < Msb - 1 /\ Msb \in Nat /\ Keys \subseteq Nat
  BY <1>1, KnownIs, SearchFacts, Bounds DEF Keys
<1>5. CASE Outdone(x)
  BY <1>1, <1>3, <1>4, <1>5 DEF Outdone, new
<1>6. CASE x \in Nodes(Buffer)
  <2>1. PICK j \in 1..(TopK + Kids) : Buffer[j] # Invalid /\ Clear(Buffer[j]) = x
    BY <1>1, <1>6, NodesAre
  <2>2. ASSUME NEW k \in 1..TopK, Clear(new[k]) = x PROVE x \in Nodes(new)
    <3>1. new[k] # Invalid
      BY <1>4, <2>2, InvalidIs
    <3> QED BY <1>1, <1>2, <2>2, <3>1, NodesAre
  <2>3. CASE \E k \in 1..TopK : new[k] = Buffer[j]
    BY <2>1, <2>2, <2>3 DEF new
  <2>4. CASE \A k \in 1..TopK : Clear(new[k]) <= x
    <3>1. \A k \in 1..TopK : Clear(new[k]) \in Nat
      BY <1>1, <1>2, <1>4, EntryIs
    <3> QED BY <1>4, <2>2, <2>4, <3>1 DEF new
  <2> QED BY <1>3, <2>1, <2>3, <2>4
<1> QED BY <1>5, <1>6 DEF Met, new

\* Every edge of a parent has its thread.
LEMMA ThreadOf ==
  ASSUME plan \in Plans, NEW j \in 1..Width, NEW e \in 1..plan.degree
  PROVE  \E i \in 1..Kids : (i - 1) \div plan.degree + 1 = j /\ ((i - 1) % plan.degree) + 1 = e
<1> DEFINE w == Width
           d == plan.degree
           a == (j - 1) * d
           i == a + e
<1>1. w \in Nat /\ w > 0 /\ d \in Nat /\ d > 0 /\ Kids = w * d
  BY PlanFacts DEF Kids, NumCandidates, Width
<1>2. j - 1 \in Nat /\ e - 1 \in 0..(d - 1) /\ j <= w
  BY <1>1
<1>3. a \in Nat /\ a + d <= Kids
  <2> HIDE DEF w, d
  <2>1. a \in Nat
    BY <1>1, <1>2
  <2>2. j * d = a + d
    BY <1>1, <1>2
  <2>3. j * d <= w * d
    BY <1>1, <1>2
  <2> HIDE DEF a
  <2> DEFINE x == j * d
             y == w * d
  <2>4. x = a + d /\ x <= y /\ y = Kids
    BY <1>1, <2>2, <2>3
  <2> HIDE DEF x, y
  <2> QED BY <1>1, <2>1, <2>4
<1>4. (a + (e - 1)) % d = e - 1
  <2> HIDE DEF d
  <2> QED BY <1>1, <1>2, Remainder
<1>5. (a + (e - 1)) \div d = j - 1
  <2> DEFINE s == a + (e - 1)
             p == j - 1
             q == s \div d
             r == s % d
  <2> HIDE DEF d
  <2>1. p \in Nat /\ a = p * d /\ s \in Nat /\ s = a + (e - 1) /\ r = e - 1
    BY <1>1, <1>2, <1>3, <1>4
  <2> HIDE DEF s
  <2>2. q \in Nat /\ r \in 0..(d - 1) /\ s = d * q + r
    BY <1>1, <2>1
  <2> HIDE DEF q, r, p, a
  <2> DEFINE z == d * q
  <2>3. z \in Nat /\ s = z + r
    BY <1>1, <2>2
  <2> HIDE DEF z
  <2>4. z = a
    BY <1>1, <1>2, <1>3, <2>1, <2>2, <2>3
  <2>5. d * q = p * d
    BY <2>1, <2>4 DEF z
  <2>6. q = p
    BY <1>1, <2>1, <2>2, <2>5
  <2> QED BY <2>6 DEF q, p, s
<1>6. i - 1 = a + (e - 1) /\ i \in 1..Kids
  <2> HIDE DEF a, d
  <2> QED BY <1>1, <1>2, <1>3, SearchFacts
<1> HIDE DEF i, a
<1>7. (i - 1) \div d + 1 = j /\ ((i - 1) % d) + 1 = e
  <2>1. (i - 1) \div d = j - 1 /\ (i - 1) % d = e - 1
    BY <1>4, <1>5, <1>6
  <2> HIDE DEF d
  <2> QED BY <1>2, <2>1
<1> QED BY <1>6, <1>7

LEMMA ChildrenAre ==
  ASSUME plan \in Plans, itopk \in [1..TopK -> Entries], parents \in [1..Width -> 0..TopK],
         \A j \in 1..Width : parents[j] # 0 => itopk[parents[j]] # Invalid
  PROVE  /\ \A i \in 1..Kids : Child(i) # Invalid => Child(i) \in Beam!Neighbours(Unmarked)
         /\ \A x \in Beam!Neighbours(Unmarked) :
              x \in Known /\ \E i \in 1..Kids : Child(i) = x
<1> DEFINE p(j) == Clear(itopk[parents[j]])
<1>1. ASSUME NEW j \in 1..Width, parents[j] # 0
      PROVE  p(j) \in Unmarked /\ plan.graph[p(j)] \in [1..plan.degree -> Known]
  <2>1. parents[j] \in 1..TopK
    BY <1>1, SearchFacts
  <2>2. p(j) \in Known
    BY <1>1, <2>1, EntryIs
  <2>3. p(j) \in Unmarked
    BY <1>1 DEF Unmarked
  <2> QED BY <2>2, <2>3, PlanFacts DEF Known
<1>2. ASSUME NEW i \in 1..Kids, Child(i) # Invalid
      PROVE  Child(i) \in Beam!Neighbours(Unmarked)
  <2> DEFINE j == (i - 1) \div plan.degree + 1
             e == ((i - 1) % plan.degree) + 1
  <2>1. j \in 1..Width /\ e \in 1..plan.degree
    BY ThreadIs
  <2>2. parents[j] # 0 /\ Child(i) = plan.graph[p(j)][e]
    BY <1>2 DEF Child
  <2> HIDE DEF j, e
  <2>3. p(j) \in Unmarked /\ plan.graph[p(j)] \in [1..plan.degree -> Known]
    BY <1>1, <2>1, <2>2
  <2>4. Child(i) \in Range(plan.graph[p(j)])
    BY <2>1, <2>2, <2>3 DEF Range
  <2> QED BY <2>3, <2>4, SameOperators DEF Beam!Neighbours
<1>3. ASSUME NEW x \in Beam!Neighbours(Unmarked)
      PROVE  x \in Known /\ \E i \in 1..Kids : Child(i) = x
  <2>1. PICK n \in Unmarked : x \in Range(plan.graph[n])
    BY <1>3, SameOperators DEF Beam!Neighbours
  <2>2. PICK j \in 1..Width : parents[j] # 0 /\ n = p(j)
    BY DEF Unmarked
  <2>3. plan.graph[n] \in [1..plan.degree -> Known]
    BY <1>1, <2>2
  <2>4. PICK e \in 1..plan.degree : x = plan.graph[n][e]
    BY <2>1, <2>3 DEF Range
  <2>5. PICK i \in 1..Kids :
          (i - 1) \div plan.degree + 1 = j /\ ((i - 1) % plan.degree) + 1 = e
    BY ThreadOf
  <2>6. Child(i) = IF parents[j] = 0 THEN Invalid ELSE plan.graph[Clear(itopk[parents[j]])][e]
    BY <2>5 DEF Child
  <2> QED BY <2>2, <2>3, <2>4, <2>6
<1> QED BY <1>2, <1>3

\* The parents are the first entries that were not marked.
LEMMA PickOrder ==
  ASSUME plan \in Plans, itopk \in [1..TopK -> Entries], PickupNextParents
  PROVE  /\ \A j \in 1..Width : parents'[j] # 0 =>
              /\ parents'[j] \in 1..TopK /\ ~Used(itopk[parents'[j]])
              /\ itopk'[parents'[j]] = itopk[parents'[j]] + Msb
         /\ \A k \in 1..TopK :
              \/ itopk'[k] = itopk[k]
              \/ \E j \in 1..Width : parents'[j] = k
         /\ \A k \in 1..TopK : ~Used(itopk'[k]) =>
              \A j \in 1..Width : parents'[j] # 0 /\ parents'[j] < k
         /\ \A i, j \in 1..Width : i # j /\ parents'[i] # 0 => parents'[i] # parents'[j]
<1> DEFINE fresh == {k \in DOMAIN itopk : ~Used(itopk[k])}
           n == Cardinality(fresh)
           Below(k) == {y \in fresh : y < k}
<1>1. TopK \in Nat /\ Width \in Nat /\ Width > 0 /\ DOMAIN itopk = 1..TopK
  BY SearchFacts
<1>2. fresh \in SUBSET (1..TopK) /\ IsFiniteSet(1..TopK)
  BY <1>1, FS_Interval
<1>3. /\ parents' = [j \in 1..Width |-> IF j <= n THEN Nth(fresh, j) ELSE 0]
      /\ itopk' = [k \in 1..TopK |-> IF k \in Range(parents') THEN itopk[k] + Msb ELSE itopk[k]]
  BY <1>1 DEF PickupNextParents, Width
<1>4. \A k \in 1..TopK : k \in fresh <=> ~Used(itopk[k])
  BY <1>1
<1> HIDE DEF fresh
<1>5. IsFiniteSet(fresh) /\ fresh \subseteq Nat /\ n \in Nat
  <2>1. IsFiniteSet(fresh)
    BY <1>2, FS_Subset
  <2>2. n \in Nat
    BY <2>1, FS_CardinalityType
  <2>3. fresh \subseteq Nat
    BY <1>2
  <2> QED BY <2>1, <2>2, <2>3
<1>6. /\ \A k \in 1..n : Nth(fresh, k) \in fresh /\ Cardinality(Below(Nth(fresh, k))) = k - 1
      /\ \A j, k \in 1..n : j # k => Nth(fresh, j) # Nth(fresh, k)
      /\ \A x \in fresh : Cardinality(Below(x)) + 1 \in 1..n
      /\ \A x \in fresh : Nth(fresh, Cardinality(Below(x)) + 1) = x
  BY <1>5, NthIs
<1> HIDE DEF n
<1>7. \A j \in 1..Width : parents'[j] = IF j <= n THEN Nth(fresh, j) ELSE 0
  BY <1>3
<1>8. ASSUME NEW j \in 1..Width, parents'[j] # 0
      PROVE  /\ j \in 1..n /\ parents'[j] = Nth(fresh, j) /\ parents'[j] \in fresh
             /\ parents'[j] \in Range(parents')
  <2>1. j <= n /\ parents'[j] = Nth(fresh, j)
    BY <1>7, <1>8
  <2>2. j \in 1..n
    BY <1>1, <1>5, <2>1
  <2> QED BY <1>3, <1>6, <2>1, <2>2 DEF Range
<1>9. ASSUME NEW j \in 1..Width, parents'[j] # 0
      PROVE  /\ parents'[j] \in 1..TopK /\ ~Used(itopk[parents'[j]])
             /\ itopk'[parents'[j]] = itopk[parents'[j]] + Msb
  <2>1. parents'[j] \in fresh /\ parents'[j] \in 1..TopK /\ parents'[j] \in Range(parents')
    BY <1>2, <1>8, <1>9
  <2> QED BY <1>3, <1>4, <2>1
<1>10. ASSUME NEW k \in 1..TopK, itopk'[k] # itopk[k] PROVE \E j \in 1..Width : parents'[j] = k
  <2>1. k \in Range(parents')
    BY <1>3, <1>10
  <2> QED BY <1>3, <2>1 DEF Range
<1>11. ASSUME NEW k \in 1..TopK, ~Used(itopk'[k]), NEW j \in 1..Width
       PROVE  parents'[j] # 0 /\ parents'[j] < k
  <2> DEFINE r == Cardinality(Below(k)) + 1
  <2>1. k \in fresh /\ \A i \in 1..Width : parents'[i] # k
    <3>1. ASSUME NEW i \in 1..Width, parents'[i] = k PROVE FALSE
      <4>1. ~Used(itopk[k]) /\ itopk'[k] = itopk[k] + Msb
        BY <1>1, <1>9, <3>1
      <4>2. itopk[k] \in Entries
        OBVIOUS
      <4>3. Used(itopk[k] + Msb)
        BY <4>1, <4>2, EntryIs
      <4> QED BY <1>11, <4>1, <4>3
    <3>2. itopk'[k] = itopk[k]
      BY <1>10, <3>1
    <3> QED BY <1>4, <1>11, <3>1, <3>2
  <2>2. r \in 1..n /\ Nth(fresh, r) = k
    BY <1>6, <2>1
  <2>3. Cardinality(Below(k)) \in Nat /\ IsFiniteSet(Below(k))
    <3>1. IsFiniteSet(Below(k))
      BY <1>5, FS_Subset
    <3> QED BY <3>1, FS_CardinalityType
  <2>4. r > Width
    <3> SUFFICES ASSUME ~(r > Width) PROVE FALSE
      OBVIOUS
    <3>1. r \in 1..Width /\ r <= n
      BY <1>1, <1>5, <2>2, <2>3
    <3>2. parents'[r] = k
      BY <1>7, <2>2, <3>1
    <3> QED BY <2>1, <3>1, <3>2
  <2> DEFINE m == Nth(fresh, j)
  <2>5. j <= n /\ j \in 1..n
    BY <1>1, <1>5, <2>2, <2>4
  <2>6. parents'[j] = m /\ m \in fresh /\ Cardinality(Below(m)) = j - 1
    BY <1>6, <1>7, <2>5
  <2> HIDE DEF m
  <2>7. m < k
    <3> SUFFICES ASSUME ~(m < k) PROVE FALSE
      OBVIOUS
    <3>1. m \in Nat /\ k \in Nat
      BY <1>5, <2>6
    <3>2. k <= m
      BY <3>1
    <3>3. Below(k) \subseteq Below(m) /\ IsFiniteSet(Below(m))
      <4>1. \A y \in fresh : y \in Nat
        BY <1>5
      <4>2. Below(k) \subseteq Below(m)
        BY <3>1, <3>2, <4>1
      <4> QED BY <1>5, <4>2, FS_Subset
    <3>4. Cardinality(Below(k)) <= Cardinality(Below(m))
      BY <3>3, FS_Subset
    <3> QED BY <1>1, <2>3, <2>4, <2>6, <3>4
  <2>8. m # 0
    BY <1>2, <2>6
  <2> QED BY <2>6, <2>7, <2>8
<1>12. ASSUME NEW i \in 1..Width, NEW j \in 1..Width, i # j, parents'[i] # 0
       PROVE  parents'[i] # parents'[j]
  BY <1>6, <1>8, <1>12
<1> QED BY <1>9, <1>10, <1>11, <1>12

\* They were the nearest nodes not marked, and are marked now.
LEMMA PickNearest ==
  ASSUME plan \in Plans, itopk \in [1..TopK -> Entries], PickupNextParents,
         Distinct(itopk), Ascending(itopk), parents = <<>>
  PROVE  /\ Unmarked' = Beam!Nearest(Unmarked' \union Unexpanded', Width)
         /\ Unmarked' \subseteq Marked(itopk')
         /\ Marked(itopk') \ Unmarked' = Marked(itopk) /\ Nodes(itopk') = Nodes(itopk)
<1> DEFINE J    == {j \in 1..Width : parents'[j] # 0}
           U    == {itopk[parents'[j]] : j \in J}
           rest == {k \in 1..TopK : ~Used(itopk'[k])}
           X    == {itopk[k] : k \in rest}
<1>1. /\ TopK \in Nat /\ Width \in Nat /\ DOMAIN itopk = 1..TopK
      /\ parents' \in [1..Width -> 0..TopK] /\ DOMAIN parents' = 1..Width
      /\ itopk' \in [1..TopK -> Entries] /\ Remarked(itopk', itopk) /\ DOMAIN itopk' = 1..TopK
  BY PickIs, SearchFacts
<1>2. ASSUME NEW j \in J
      PROVE  /\ parents'[j] \in 1..TopK /\ itopk[parents'[j]] \in Known
             /\ Clear(itopk[parents'[j]]) = itopk[parents'[j]]
             /\ itopk[parents'[j]] # Invalid
             /\ Clear(itopk'[parents'[j]]) = itopk[parents'[j]]
             /\ Used(itopk'[parents'[j]]) /\ itopk'[parents'[j]] # Invalid
  <2>1. /\ parents'[j] \in 1..TopK /\ ~Used(itopk[parents'[j]])
        /\ itopk'[parents'[j]] = itopk[parents'[j]] + Msb
    BY PickOrder
  <2>2. itopk[parents'[j]] \in Entries
    BY <2>1
  <2> QED BY <2>1, <2>2, EntryIs
<1>3. ASSUME NEW k \in rest
      PROVE  /\ itopk'[k] = itopk[k] /\ itopk[k] \in Known /\ Clear(itopk[k]) = itopk[k]
             /\ itopk[k] # Invalid
             /\ \A j \in 1..Width : parents'[j] # 0 /\ parents'[j] < k
  <2>1. \A j \in 1..Width : parents'[j] # 0 /\ parents'[j] < k
    BY PickOrder
  <2>2. \A j \in 1..Width : parents'[j] # k
    BY <1>1, <2>1
  <2>3. itopk'[k] = itopk[k]
    BY <2>2, PickOrder
  <2>4. itopk[k] \in Entries /\ ~Used(itopk[k])
    BY <2>3
  <2> QED BY <2>1, <2>3, <2>4, EntryIs
<1>4. Unmarked' = U
  <2>1. Unmarked' = {Clear(itopk'[parents'[j]]) : j \in J}
    BY <1>1 DEF Unmarked
  <2> QED BY <1>2, <2>1
<1>5. Unexpanded' = X
  <2>1. Unexpanded' = {itopk'[k] : k \in rest}
    BY <1>1 DEF Unexpanded, Range
  <2> QED BY <1>3, <2>1
<1>6. U \subseteq Known /\ X \subseteq Known /\ IsFiniteSet(U \union X) /\ U \union X \in SUBSET Nat
  <2>1. U \subseteq Known /\ X \subseteq Known
    BY <1>2, <1>3
  <2> QED BY <2>1, KnownIs, FS_Subset
<1> HIDE DEF X, rest
<1>7. IsFiniteSet(J) /\ Cardinality(J) <= Width /\ (J = 1..Width => Cardinality(J) = Width)
  <2>1. IsFiniteSet(1..Width) /\ Cardinality(1..Width) = Width
    BY <1>1, FS_Interval
  <2> QED BY <2>1, FS_Subset
<1> DEFINE f == [j \in J |-> itopk[parents'[j]]]
<1>8. f \in Injection(J, U) /\ f \in Surjection(J, U)
  <2>1. f \in [J -> U] /\ \A x \in U : \E j \in J : f[j] = x
    OBVIOUS
  <2>2. ASSUME NEW i \in J, NEW j \in J, f[i] = f[j] PROVE i = j
    <3> SUFFICES ASSUME i # j PROVE FALSE
      OBVIOUS
    <3>1. parents'[i] # parents'[j] /\ itopk[parents'[i]] = itopk[parents'[j]]
      BY <2>2, PickOrder
    <3> QED BY <1>1, <1>2, <3>1, DistinctIs
  <2> QED BY <2>1, <2>2 DEF Injection, Surjection, IsInjective
<1>9. IsFiniteSet(U) /\ Cardinality(U) = Cardinality(J)
  BY <1>7, <1>8, FS_Surjection
<1> HIDE DEF J
<1>10. ASSUME NEW x \in (U \union X) \ U
       PROVE  Cardinality(U) = Width /\ \A y \in U : y < x
  <2>1. PICK k \in rest : x = itopk[k]
    BY <1>10 DEF X
  <2>2. /\ itopk[k] \in Known /\ Clear(itopk[k]) = itopk[k] /\ itopk[k] # Invalid
        /\ \A j \in 1..Width : parents'[j] # 0 /\ parents'[j] < k
    BY <1>3
  <2>3. J = 1..Width
    BY <2>2 DEF J
  <2>4. ASSUME NEW j \in J PROVE itopk[parents'[j]] < x
    <3>1. parents'[j] < k /\ parents'[j] \in 1..TopK /\ k \in 1..TopK
      BY <1>2, <2>2, <2>3 DEF rest
    <3>2. Clear(itopk[parents'[j]]) <= Clear(itopk[k])
      BY <1>1, <3>1 DEF Ascending
    <3>3. parents'[j] # k
      BY <3>1
    <3>4. Clear(itopk[parents'[j]]) # Clear(itopk[k])
      BY <1>1, <1>2, <2>2, <3>1, <3>3, DistinctIs
    <3>5. itopk[parents'[j]] \in Nat /\ x \in Nat
      BY <1>2, <2>1, <2>2, KnownIs
    <3> QED BY <1>2, <2>1, <2>2, <3>2, <3>4, <3>5
  <2> QED BY <1>7, <1>9, <2>3, <2>4
<1>11. U = Beam!Nearest(U \union X, Width)
  <2>1. Cardinality(U) <= Width /\ U \in SUBSET (U \union X)
    BY <1>7, <1>9
  <2>2. \A x \in (U \union X) \ U : Cardinality(U) = Width /\ \A y \in U : y < x
    BY <1>10
  <2>3. U \union X \in SUBSET Nat /\ IsFiniteSet(U \union X)
    BY <1>6
  <2> DEFINE T == U \union X
  <2> HIDE DEF U, X
  <2>4. T \in SUBSET Nat /\ IsFiniteSet(T) /\ U \in SUBSET T
    BY <2>1, <2>3
  <2>5. \A x \in T \ U : Cardinality(U) = Width /\ \A y \in U : y < x
    BY <2>2
  <2> HIDE DEF T
  <2>6. U = Beam!Nearest(T, Width)
    BY <1>1, <2>1, <2>4, <2>5, NearestOf
  <2> QED BY <2>6 DEF T
<1>12. ASSUME NEW x \in Marked(itopk') \ U PROVE x \in Marked(itopk)
  <2>1. PICK k \in 1..TopK : itopk'[k] # Invalid /\ Used(itopk'[k]) /\ x = Clear(itopk'[k])
    BY <1>1, <1>12 DEF Marked, Range
  <2>2. ASSUME NEW j \in 1..Width, parents'[j] = k PROVE FALSE
    <3>1. j \in J
      BY <1>1, <2>2 DEF J
    <3> QED BY <1>2, <1>12, <2>1, <2>2, <3>1
  <2>3. itopk'[k] = itopk[k]
    BY <2>2, PickOrder
  <2> QED BY <1>1, <2>1, <2>3 DEF Marked, Range
<1>13. ASSUME NEW x \in Marked(itopk) PROVE x \in Marked(itopk') /\ x \notin U
  <2>1. PICK k \in 1..TopK : itopk[k] # Invalid /\ Used(itopk[k]) /\ x = Clear(itopk[k])
    BY <1>1, <1>13 DEF Marked, Range
  <2>2. itopk'[k] = itopk[k]
    BY <2>1, <1>1 DEF Remarked
  <2>3. x \in Marked(itopk')
    BY <1>1, <2>1, <2>2 DEF Marked, Range
  <2>4. ASSUME NEW j \in J, x = itopk[parents'[j]] PROVE FALSE
    <3>1. parents'[j] \in 1..TopK /\ ~Used(itopk[parents'[j]])
      BY <1>2, PickOrder DEF J
    <3>2. parents'[j] # k
      BY <2>1, <3>1
    <3>3. Clear(itopk[parents'[j]]) = x /\ itopk[parents'[j]] # Invalid
      BY <1>2, <2>4
    <3> QED BY <1>1, <2>1, <3>1, <3>2, <3>3, DistinctIs
  <2> QED BY <2>3, <2>4
<1>14. Nodes(itopk') = Nodes(itopk)
  BY <1>1 DEF Remarked, Nodes
<1>15. Marked(itopk') \ U = Marked(itopk)
  BY <1>12, <1>13
<1>16. ASSUME NEW j \in J PROVE itopk[parents'[j]] \in Marked(itopk')
  BY <1>1, <1>2 DEF Marked, Range
<1> QED BY <1>4, <1>5, <1>11, <1>14, <1>15, <1>16

\* What Met and the rest of MetInv say, for one node and for one thread.
MetBy(x, s, list) == x \in Nodes(s) \/ \A k \in 1..TopK : Clear(list[k]) < x
Accounted(i, thread, buffer, known) ==
  IF thread.pc = "probe" THEN thread.key = Asked(i) /\ buffer[Mine(i)] = Invalid
  ELSE Asked(i) \in known \union {Invalid}

LEMMA InsertMet ==
  ASSUME Shape, TableInv, RoomInv, ListInv, MetInv, pc # "pick", NEW i \in DOMAIN probe, Insert(i)
  PROVE  /\ \A x \in InTable' \intersect Known : MetBy(x, Buffer', itopk')
         /\ \A j \in DOMAIN probe : Accounted(j, probe'[j], Buffer', InTable')
         /\ \A x \in Nodes(Buffer') : x \in Nodes(Buffer) \/ x = Asked(i)
         /\ pc = "children" =>
              \A x \in Nodes(candidates') : x \in Nodes(candidates) \/ x = Asked(i)
         /\ DOMAIN probe' = DOMAIN probe
         /\ pc = "seeds" => \A k \in 1..TopK : itopk'[k] \in Fresh
<1> DEFINE n == TopK + Kids
           key == probe[i].key
<1>1. /\ plan \in Plans /\ pc \in Phases /\ plan' = plan /\ pc' = pc /\ iter' = iter
      /\ key # Invalid /\ key \in Known /\ probe[i].pc = "probe"
      /\ Place(i) \in Places
      /\ Enters(i) \/ Leaves(i) \/ Goes(i)
  BY InsertIs DEF Shape, ShapeInv
<1>2. /\ Buffer \in [1..n -> Entries] /\ n \in Nat /\ TopK \in Nat /\ Kids \in Nat
      /\ \A k \in 1..TopK : Buffer[k] = itopk[k] /\ k \in 1..n
      /\ \A k \in 1..Kids : Buffer[TopK + k] = candidates[k] /\ TopK + k \in 1..n
  BY BufferIs
<1>3. /\ (pc = "seeds" /\ DOMAIN probe = 1..n) \/ (pc = "children" /\ DOMAIN probe = 1..Kids)
      /\ probe \in [DOMAIN probe -> [pc : {"read", "probe", "done"}, key : Indices, tried : Places]]
      /\ \A j \in DOMAIN probe : probe[j].pc = "read" => pc = "pick"
  <2>1. ThreadsInv
    BY DEF Shape
  <2>2. pc = "seeds" \/ pc = "children"
    BY <1>1, <2>1, ThreadsAre
  <2>3. pc = "seeds" => DOMAIN probe = 1..n
    BY <1>1, <2>1, ThreadsAre
  <2>4. pc = "children" => DOMAIN probe = 1..Kids
    BY <1>1, <2>1, ThreadsAre
  <2>5. /\ probe \in [DOMAIN probe -> [pc : {"read", "probe", "done"}, key : Indices,
                                       tried : Places]]
        /\ \A j \in DOMAIN probe : probe[j].pc = "read" => pc = "pick"
    BY <1>1, <2>1, ThreadsAre
  <2> QED BY <2>2, <2>3, <2>4, <2>5
<1>4. \A j \in DOMAIN probe : Mine(j) \in 1..n
  BY <1>2, <1>3 DEF Mine
<1>5. \A j \in DOMAIN probe : j # i => Mine(j) # Mine(i)
  BY <1>2, <1>3 DEF Mine
<1>6. \A j \in DOMAIN probe : Accounted(j, probe[j], Buffer, InTable)
  BY <1>3 DEF MetInv, Accounted
<1>7. key = Asked(i) /\ Buffer[Mine(i)] = Invalid
  BY <1>1, <1>6 DEF Accounted
<1>8. \A x \in InTable \intersect Known : MetBy(x, Buffer, itopk)
  BY <1>3 DEF MetInv, Met, MetBy, Outdone
<1>9. Clear(key) = key
  BY <1>1, EntryIs
<1>10. CASE Goes(i)
  <2>1. ~Enters(i) /\ itopk' = itopk /\ candidates' = candidates
    BY <1>10 DEF Goes, Enters
  <2>2. Buffer' = Buffer /\ InTable' = InTable
    BY <2>1, InTableGrows DEF Buffer
  <2>3. probe' = [probe EXCEPT ![i].tried = probe[i].tried + 1]
    BY <1>10 DEF Goes
  <2>4. \A j \in DOMAIN probe : probe'[j].pc = probe[j].pc /\ probe'[j].key = probe[j].key
    <3> SUFFICES ASSUME NEW j \in DOMAIN probe
                 PROVE  probe'[j].pc = probe[j].pc /\ probe'[j].key = probe[j].key
      OBVIOUS
    <3>1. CASE j # i
      BY <2>3, <3>1
    <3>2. CASE j = i
      <4>1. probe'[j] = [probe[i] EXCEPT !.tried = probe[i].tried + 1]
        BY <2>3, <3>2
      <4>2. probe[i] \in [pc : {"read", "probe", "done"}, key : Indices, tried : Places]
        BY <1>3
      <4> QED BY <3>2, <4>1, <4>2
    <3> QED BY <3>1, <3>2
  <2>5. \A j \in DOMAIN probe : Accounted(j, probe'[j], Buffer', InTable')
    BY <1>6, <2>2, <2>4 DEF Accounted
  <2>6. DOMAIN probe' = DOMAIN probe
    BY <2>3
  <2>7. pc = "seeds" => \A k \in 1..TopK : itopk'[k] \in Fresh
    BY <2>1 DEF ListInv
  <2>8. \A x \in InTable' \intersect Known : MetBy(x, Buffer', itopk')
    BY <1>8, <2>1, <2>2
  <2> QED BY <2>1, <2>2, <2>5, <2>6, <2>7, <2>8
<1>11. ASSUME NEW x \in {key, Invalid}, Written(i, x), probe' = [probe EXCEPT ![i] = Done],
              key \in InTable', \A y \in InTable' : y \in InTable \/ (y = key /\ x = key)
       PROVE  /\ \A y \in InTable' \intersect Known : MetBy(y, Buffer', itopk')
              /\ \A j \in DOMAIN probe : Accounted(j, probe'[j], Buffer', InTable')
              /\ \A y \in Nodes(Buffer') : y \in Nodes(Buffer) \/ y = Asked(i)
              /\ pc = "children" =>
                   \A y \in Nodes(candidates') : y \in Nodes(candidates) \/ y = Asked(i)
              /\ DOMAIN probe' = DOMAIN probe
              /\ pc = "seeds" => \A k \in 1..TopK : itopk'[k] \in Fresh
  <2>1. x \in Fresh
    BY <1>1, EntryIs
  <2>2. /\ Buffer' \in [1..n -> Entries]
        /\ \A k \in 1..n : Buffer'[k] = IF k = Mine(i) THEN x ELSE Buffer[k]
    BY <1>1, <1>11, <2>1, BufferWritten
  <2>3. /\ itopk' \in [1..TopK -> Entries] /\ candidates' \in [1..Kids -> Entries]
        /\ pc = "children" => itopk' = itopk
    <3>1. /\ itopk' \in [1..TopK -> Entries] /\ candidates' \in [1..Kids -> Fresh]
          /\ pc = "children" => itopk' = itopk
      BY <1>1, <1>11, <2>1, WrittenIs DEF Shape
    <3> QED BY <1>1, <3>1, EntryIs
  <2> DEFINE list == itopk'
             rest == candidates'
  <2>15. list \in [1..TopK -> Entries] /\ rest \in [1..Kids -> Entries]
    BY <2>3
  <2>16. Buffer' = list \o rest
    BY DEF Buffer
  <2> HIDE DEF list, rest
  <2>17. /\ \A k \in 1..TopK : (list \o rest)[k] = list[k]
         /\ \A k \in 1..Kids : (list \o rest)[TopK + k] = rest[k]
    <3>1. TopK \in Nat /\ Kids \in Nat
      BY <1>2
    <3>2. \A k \in 1..TopK : (list \o rest)[k] = list[k]
      BY <2>15, <3>1, ConcatIs
    <3>3. \A k \in 1..Kids : (list \o rest)[TopK + k] = rest[k]
      BY <2>15, <3>1, ConcatIs
    <3> QED BY <3>2, <3>3
  <2>4. \A k \in 1..TopK : Buffer'[k] = itopk'[k]
    BY <2>16, <2>17 DEF list
  <2>5. \A k \in 1..Kids : Buffer'[TopK + k] = candidates'[k]
    BY <2>16, <2>17 DEF rest
  <2>6. ASSUME NEW y \in Nodes(Buffer) PROVE y \in Nodes(Buffer')
    <3>1. PICK k \in 1..n : Buffer[k] # Invalid /\ Clear(Buffer[k]) = y
      BY <1>1, <1>2, NodesAre
    <3>2. Buffer'[k] = Buffer[k]
      BY <1>7, <2>2, <3>1
    <3> QED BY <1>1, <1>2, <2>2, <3>1, <3>2, NodesAre
  <2>7. x = key => key \in Nodes(Buffer')
    <3>1. Mine(i) \in 1..n
      BY <1>4
    <3>2. x = key => Buffer'[Mine(i)] = key
      BY <2>2, <3>1
    <3>3. \A k \in 1..n : Buffer'[k] # Invalid => Clear(Buffer'[k]) \in Nodes(Buffer')
      BY <1>1, <1>2, <2>2, NodesAre
    <3> QED BY <1>1, <1>9, <3>1, <3>2, <3>3
  <2>8. ASSUME NEW y \in Known, \A k \in 1..TopK : Clear(itopk[k]) < y
        PROVE  itopk' = itopk
    <3>1. CASE pc = "children"
      BY <2>3, <3>1
    <3>2. CASE pc = "seeds"
      <4>1. ~(i \in 1..TopK)
        <5> SUFFICES ASSUME i \in 1..TopK PROVE FALSE
          OBVIOUS
        <5>1. itopk[i] = Invalid
          BY <1>2, <1>7, <3>2 DEF Mine
        <5>2. Msb - 1 < y /\ y < Msb - 1 /\ y \in Nat /\ Msb \in Nat
          BY <1>1, <2>8, <5>1, InvalidIs, KnownIs, Bounds
        <5> QED BY <5>2
      <4>2. i > plan.itopk_size /\ ~(i <= plan.itopk_size)
        BY <1>2, <1>3, <3>2, <4>1 DEF TopK
      <4>3. pc # "children" /\ pc # "pick"
        BY <3>2
      <4> QED BY <1>11, <3>2, <4>2, <4>3 DEF Written
    <3> QED BY <1>3, <3>1, <3>2
  <2>9. ASSUME NEW y \in InTable' \intersect Known PROVE MetBy(y, Buffer', itopk')
    <3>1. CASE y = key /\ x = key
      BY <2>7, <3>1 DEF MetBy
    <3>2. CASE y \in InTable
      <4>1. MetBy(y, Buffer, itopk)
        BY <1>8, <3>2
      <4> QED BY <2>6, <2>8, <4>1 DEF MetBy
    <3> QED BY <1>11, <3>1, <3>2
  <2>10. ASSUME NEW j \in DOMAIN probe PROVE Accounted(j, probe'[j], Buffer', InTable')
    <3>1. CASE j = i
      <4>1. probe'[j].pc = "done"
        BY <1>11, <3>1 DEF Done
      <4> QED BY <1>7, <1>11, <3>1, <4>1 DEF Accounted
    <3>2. CASE j # i
      <4>1. probe'[j] = probe[j] /\ Buffer'[Mine(j)] = Buffer[Mine(j)]
        BY <1>4, <1>5, <1>11, <2>2, <3>2
      <4>2. InTable \subseteq InTable'
        BY InTableGrows
      <4> QED BY <1>6, <4>1, <4>2 DEF Accounted
    <3> QED BY <3>1, <3>2
  <2>11. ASSUME NEW y \in Nodes(Buffer') PROVE y \in Nodes(Buffer) \/ y = Asked(i)
    <3>1. PICK k \in 1..n : Buffer'[k] # Invalid /\ Clear(Buffer'[k]) = y
      BY <1>1, <1>2, <2>2, NodesAre
    <3>2. CASE k = Mine(i)
      BY <1>7, <1>9, <1>11, <2>2, <3>1, <3>2
    <3>3. CASE k # Mine(i)
      BY <1>1, <1>2, <2>2, <3>1, <3>3, NodesAre
    <3> QED BY <3>2, <3>3
  <2>12. ASSUME pc = "children", NEW y \in Nodes(candidates')
         PROVE  y \in Nodes(candidates) \/ y = Asked(i)
    <3>1. candidates \in [1..Kids -> Entries]
      BY <1>1, EntryIs DEF Shape, ShapeInv
    <3>2. PICK k \in 1..Kids : candidates'[k] # Invalid /\ Clear(candidates'[k]) = y
      BY <1>1, <1>2, <2>3, NodesAre
    <3>3. TopK + k \in 1..n /\ Buffer'[TopK + k] = candidates'[k]
          /\ Buffer[TopK + k] = candidates[k]
      BY <1>2, <2>5
    <3>4. CASE TopK + k # Mine(i)
      <4>1. candidates'[k] = candidates[k]
        BY <2>2, <3>3, <3>4
      <4> QED BY <1>1, <1>2, <3>1, <3>2, <4>1, NodesAre
    <3>5. CASE TopK + k = Mine(i)
      BY <1>7, <1>9, <1>11, <2>2, <3>2, <3>3, <3>5
    <3> QED BY <3>4, <3>5
  <2>13. ASSUME pc = "seeds", NEW k \in 1..TopK PROVE itopk'[k] \in Fresh
    <3>1. itopk[k] \in Fresh
      BY <2>13 DEF ListInv
    <3>2. itopk'[k] = x \/ itopk'[k] = itopk[k]
      BY <1>2, <2>2, <2>4
    <3> QED BY <2>1, <3>1, <3>2
  <2>14. DOMAIN probe' = DOMAIN probe
    BY <1>11
  <2> QED BY <2>9, <2>10, <2>11, <2>12, <2>13, <2>14
<1>12. CASE Enters(i)
  <2>1. InTable' = InTable \union {key}
    BY <1>12, InTableGrows
  <2>2. Written(i, key) /\ probe' = [probe EXCEPT ![i] = Done]
    BY <1>12 DEF Enters
  <2> QED BY <1>11, <2>1, <2>2
<1>13. CASE Leaves(i)
  <2>1. InTable' = InTable
    BY <1>13, InTableGrows DEF Enters, Leaves
  <2>2. table[Place(i)] = key
    BY <1>13, Found
  <2>3. key \in InTable'
    BY <1>1, <2>1, <2>2 DEF InTable
  <2>4. Written(i, Invalid) /\ probe' = [probe EXCEPT ![i] = Done]
    BY <1>13 DEF Leaves
  <2> QED BY <1>11, <2>1, <2>3, <2>4
<1> QED BY <1>1, <1>10, <1>12, <1>13

LEMMA SameBeam ==
  ASSUME plan' = plan, itopk' = itopk, parents' = parents
  PROVE  /\ Unmarked' = Unmarked /\ Unexpanded' = Unexpanded /\ Nodes(itopk)' = Nodes(itopk)
         /\ \A i : Child(i)' = Child(i)
         /\ Beam!Neighbours(Unmarked)' = Beam!Neighbours(Unmarked)
         /\ Expanding' = Expanding
         /\ Ascending(itopk)' = Ascending(itopk)
<1>1. Unmarked' = Unmarked /\ Unexpanded' = Unexpanded /\ Width' = Width
  BY DEF Unmarked, Unexpanded, Width
<1>2. Nodes(itopk)' = Nodes(itopk) /\ Ascending(itopk)' = Ascending(itopk)
  BY DEF Nodes, Ascending
<1>3. \A i : Child(i)' = Child(i)
  BY DEF Child
<1>4. Beam!Neighbours(Unmarked)' = Beam!Neighbours(Unmarked)
  BY <1>1 DEF Beam!Neighbours
<1>5. Expanding' = Expanding
  <2>1. Marked(itopk)' = Marked(itopk)
    BY DEF Marked, Range
  <2> QED BY <1>1, <2>1 DEF Expanding, Beam!Nearest
<1> QED BY <1>1, <1>2, <1>3, <1>4, <1>5

LEMMA InsertBeam ==
  ASSUME Shape, TableInv, RoomInv, DistinctInv, ListInv, MetInv, NEW i \in DOMAIN probe, Insert(i)
  PROVE  ListInv' /\ MetInv'
<1>1. /\ plan \in Plans /\ pc \in Phases /\ plan' = plan /\ pc' = pc /\ iter' = iter
      /\ parents' = parents /\ Known' = Known /\ TopK' = TopK /\ Kids' = Kids /\ Fresh' = Fresh
      /\ probe[i].pc = "probe"
      /\ Enters(i) \/ Leaves(i) \/ Goes(i)
  BY InsertIs, PlanSame DEF Shape, ShapeInv
<1>2. /\ pc = "seeds" \/ pc = "children" \/ (pc = "pick" /\ Resets)
      /\ pc = "pick" => i \in 1..TopK
  BY <1>1, ThreadsAre DEF Shape
<1>3. pc # "seeds" => itopk' = itopk
  <2>1. pc \in {"pick", "children"} => itopk' = itopk
    <3>1. CASE Goes(i)
      BY <3>1 DEF Goes
    <3>2. CASE ~Goes(i)
      BY <1>1, <3>2 DEF Enters, Leaves, Written
    <3> QED BY <3>1, <3>2
  <2> QED BY <1>2, <2>1
<1>4. CASE pc = "pick"
  <2>1. itopk' = itopk
    BY <1>3, <1>4
  <2>2. ListInv'
    BY <1>1, <1>4, <2>1, SameBeam DEF ListInv
  <2>3. ASSUME NEW x \in InTable' \intersect Known PROVE x \in Nodes(itopk) \/ Outdone(x)
    <3>1. CASE x \in InTable
      BY <1>4, <3>1 DEF MetInv, Met
    <3>2. CASE x \notin InTable
      <4>1. x = probe[i].key
        BY <3>2, InTableGrows
      <4>2. probe[i].key = Clear(itopk[i])
        BY <1>1, <1>2, <1>4 DEF DistinctInv
      <4>3. itopk \in [1..TopK -> Entries] /\ TopK \in Nat
        BY <1>1, SearchFacts DEF Shape, ShapeInv
      <4>4. itopk[i] # Invalid
        <5>1. x # Msb - 1
          BY <1>1, KnownIs, Bounds
        <5> QED BY <4>1, <4>2, <5>1, InvalidIs
      <4> QED BY <1>1, <1>2, <1>4, <4>1, <4>2, <4>3, <4>4, NodesAre
    <3> QED BY <3>1, <3>2
  <2>4. Met(itopk)'
    <3>1. Nodes(itopk)' = Nodes(itopk) /\ \A x : Outdone(x)' = Outdone(x)
      BY <1>1, <2>1 DEF Nodes, Outdone
    <3> QED BY <1>1, <2>3, <3>1 DEF Met
  <2>5. pc' = "pick"
    BY <1>1, <1>4
  <2>6. MetInv'
    BY <2>4, <2>5 DEF MetInv
  <2> QED BY <2>2, <2>6
<1>5. CASE pc # "pick"
  <2>1. /\ \A x \in InTable' \intersect Known : MetBy(x, Buffer', itopk')
        /\ \A j \in DOMAIN probe : Accounted(j, probe'[j], Buffer', InTable')
        /\ DOMAIN probe' = DOMAIN probe
    BY <1>5, InsertMet
  <2>2. \A x \in Nodes(Buffer') : x \in Nodes(Buffer) \/ x = Asked(i)
    BY <1>5, InsertMet
  <2>3. pc = "children" =>
          \A x \in Nodes(candidates') : x \in Nodes(candidates) \/ x = Asked(i)
    BY <1>5, InsertMet
  <2>4. pc = "seeds" => \A k \in 1..TopK : itopk'[k] \in Fresh
    BY <1>5, InsertMet
  <2>5. Met(Buffer)'
    <3>1. Nodes(Buffer)' = Nodes(Buffer')
      BY DEF Nodes
    <3> QED BY <1>1, <2>1, <3>1 DEF Met, MetBy, Outdone
  <2>6. \A j : Asked(j)' = Asked(j) /\ Mine(j)' = Mine(j)
    <3>1. pc = "children" => \A j : Child(j)' = Child(j)
      BY <1>1, <1>3, SameBeam
    <3> QED BY <1>1, <1>2, <1>5, <3>1 DEF Asked, Mine
  <2>7. \A j \in DOMAIN probe' :
          IF probe'[j].pc = "probe" THEN probe'[j].key = Asked(j)' /\ Buffer'[Mine(j)'] = Invalid
          ELSE Asked(j)' \in InTable' \union {Invalid}
    BY <2>1, <2>6 DEF Accounted
  <2>8. CASE pc = "seeds"
    <3>1. ListInv'
      BY <1>1, <2>4, <2>8 DEF ListInv, Shape, ParentsInv
    <3>2. Asked(i) \in Range(plan.seeds)
      <4>1. i \in 1..(TopK + Kids)
        BY <1>1, <2>8, ThreadsAre DEF Shape
      <4>2. plan.seeds \in [1..(TopK + Kids) -> Known]
        BY <1>1, PlanFacts DEF TopK, Kids, Known
      <4> QED BY <2>8, <4>1, <4>2 DEF Asked, Range
    <3>3. iter = 0 /\ Nodes(Buffer) \subseteq Range(plan.seeds)
      BY <2>8 DEF ListInv, MetInv
    <3>4. Nodes(Buffer)' = Nodes(Buffer') /\ Range(plan.seeds)' = Range(plan.seeds)
      BY <1>1 DEF Nodes, Range
    <3>5. Nodes(Buffer)' \subseteq Range(plan.seeds)'
      BY <2>2, <3>2, <3>3, <3>4
    <3> QED BY <1>1, <2>5, <2>7, <2>8, <3>1, <3>5 DEF MetInv
  <2>9. CASE pc = "children"
    <3>1. itopk' = itopk
      BY <1>3, <2>9
    <3>2. ListInv'
      BY <1>1, <2>9, <3>1, SameBeam DEF ListInv
    <3>3. /\ itopk \in [1..TopK -> Entries] /\ parents \in [1..Width -> 0..TopK]
          /\ \A j \in 1..Width : parents[j] # 0 => itopk[parents[j]] # Invalid
      BY <2>9 DEF Shape, ShapeInv, ParentsInv
    <3>4. i \in 1..Kids
      BY <1>1, <2>9, ThreadsAre DEF Shape
    <3>5. Asked(i) # Invalid
      <4>1. Accounted(i, probe[i], Buffer, InTable)
        BY <2>9 DEF MetInv, Accounted
      <4>2. probe[i].key # Invalid
        BY InsertIs DEF Shape
      <4> QED BY <1>1, <4>1, <4>2 DEF Accounted
    <3>6. Asked(i) \in Beam!Neighbours(Unmarked)
      BY <1>1, <2>9, <3>3, <3>4, <3>5, ChildrenAre DEF Asked
    <3>7. Nodes(candidates) \subseteq Beam!Neighbours(Unmarked)
      BY <2>9 DEF MetInv
    <3>8. Nodes(candidates') \subseteq Beam!Neighbours(Unmarked)
      BY <2>3, <2>9, <3>6, <3>7
    <3>9. Nodes(candidates)' = Nodes(candidates')
      BY DEF Nodes
    <3>10. Beam!Neighbours(Unmarked)' = Beam!Neighbours(Unmarked)
      BY <1>1, <3>1, SameBeam
    <3> QED BY <1>1, <2>5, <2>7, <2>9, <3>2, <3>8, <3>9, <3>10 DEF MetInv
  <2> QED BY <1>2, <1>5, <2>8, <2>9
<1> QED BY <1>4, <1>5

\* What a step of the beam search chooses from.
Offered == IF iter = 0 THEN Range(plan.seeds) ELSE Nodes(itopk) \union Beam!Neighbours(Unmarked)

LEMMA OfferedIs ==
  ASSUME Shape, DistinctInv, ListInv, MetInv, pc = "sort"
  PROVE  Offered \subseteq InTable \intersect Known /\ Nodes(Buffer) \subseteq Offered
<1>1. /\ plan \in Plans /\ TopK \in Nat /\ Kids \in Nat /\ TopK + Kids \in Nat /\ iter \in Nat
      /\ itopk \in [1..TopK -> Entries] /\ candidates \in [1..Kids -> Entries]
      /\ Buffer \in [1..(TopK + Kids) -> Entries]
      /\ \A k \in 1..TopK : Buffer[k] = itopk[k] /\ k \in 1..(TopK + Kids)
      /\ \A k \in 1..(TopK + Kids) :
           Buffer[k] = IF k <= TopK THEN itopk[k] ELSE candidates[k - TopK]
  BY BufferIs, EntryIs DEF Shape, ShapeInv
<1>2. CASE iter = 0
  <2>1. plan.seeds \in [1..(TopK + Kids) -> Known]
    BY <1>1, PlanFacts DEF TopK, Kids, Known
  <2>2. Range(plan.seeds) \subseteq Known
    BY <2>1 DEF Range
  <2> QED BY <1>2, <2>2 DEF Offered, MetInv
<1>3. CASE iter # 0
  <2>1. /\ Nodes(candidates) \subseteq Beam!Neighbours(Unmarked)
        /\ Beam!Neighbours(Unmarked) \subseteq InTable \intersect Known
    BY <1>1, <1>3 DEF MetInv
  <2>3. ASSUME NEW x \in Nodes(itopk) PROVE x \in InTable \intersect Known
    <3>1. PICK k \in 1..TopK : itopk[k] # Invalid /\ Clear(itopk[k]) = x
      BY <1>1, NodesAre
    <3>2. Buffer[k] # Invalid /\ Clear(Buffer[k]) = x /\ k \in DOMAIN Buffer
      BY <1>1, <3>1
    <3>3. x \in InTable
      BY <3>2 DEF DistinctInv, Entered
    <3>4. Nodes(itopk) \subseteq Known
      BY <1>1, NodesAre
    <3> QED BY <3>3, <3>4
  <2>4. ASSUME NEW x \in Nodes(Buffer) PROVE x \in Nodes(itopk) \/ x \in Nodes(candidates)
    <3>1. PICK k \in 1..(TopK + Kids) : Buffer[k] # Invalid /\ Clear(Buffer[k]) = x
      BY <1>1, NodesAre
    <3>2. CASE k <= TopK
      <4>1. k \in 1..TopK /\ Buffer[k] = itopk[k]
        BY <1>1, <3>2
      <4> QED BY <1>1, <3>1, <4>1, NodesAre
    <3>3. CASE ~(k <= TopK)
      <4>1. k - TopK \in 1..Kids /\ Buffer[k] = candidates[k - TopK]
        BY <1>1, <3>3
      <4> QED BY <1>1, <3>1, <4>1, NodesAre
    <3> QED BY <3>2, <3>3
  <2> QED BY <1>3, <2>1, <2>3, <2>4 DEF Offered
<1> QED BY <1>2, <1>3

\* The marks stay with their nodes.
LEMMA MarksStay ==
  ASSUME Shape, ListInv, pc = "sort", Distinct(Buffer), NEW new \in [1..TopK -> Entries],
         From(new, TopK, Buffer, TopK + Kids)
  PROVE  /\ Marked(new) = Marked(itopk) \intersect Nodes(new)
         /\ iter = 0 => Marked(itopk) = {}
<1>1. /\ plan \in Plans /\ TopK \in Nat /\ Kids \in Nat /\ TopK + Kids \in Nat
      /\ itopk \in [1..TopK -> Entries] /\ candidates \in [1..Kids -> Fresh]
      /\ Buffer \in [1..(TopK + Kids) -> Entries]
      /\ \A k \in 1..TopK : Buffer[k] = itopk[k] /\ k \in 1..(TopK + Kids)
      /\ \A k \in 1..(TopK + Kids) :
           Buffer[k] = IF k <= TopK THEN itopk[k] ELSE candidates[k - TopK]
  BY BufferIs DEF Shape, ShapeInv
<1>2. \A x \in Fresh : x # Invalid => ~Used(x)
  BY <1>1, EntryIs DEF Fresh
<1>3. \A k \in 1..TopK : new[k] # Invalid => \E j \in 1..(TopK + Kids) : new[k] = Buffer[j]
  BY <1>1, FromKeeps
<1>4. ASSUME NEW x \in Marked(new) PROVE x \in Marked(itopk) /\ x \in Nodes(new)
  <2>1. PICK k \in 1..TopK : new[k] # Invalid /\ Used(new[k]) /\ x = Clear(new[k])
    BY <1>4 DEF Marked, Range
  <2>2. PICK j \in 1..(TopK + Kids) : new[k] = Buffer[j]
    BY <1>3, <2>1
  <2>3. j <= TopK
    <3> SUFFICES ASSUME ~(j <= TopK) PROVE FALSE
      OBVIOUS
    <3>1. j - TopK \in 1..Kids /\ Buffer[j] = candidates[j - TopK]
      BY <1>1
    <3> QED BY <1>1, <1>2, <2>1, <2>2, <3>1
  <2>4. j \in 1..TopK /\ itopk[j] = new[k]
    BY <1>1, <2>2, <2>3
  <2>5. x \in Marked(itopk)
    BY <1>1, <2>1, <2>4 DEF Marked, Range
  <2>6. x \in Nodes(new)
    BY <1>1, <2>1, NodesAre
  <2> QED BY <2>5, <2>6
<1>5. ASSUME NEW x \in Marked(itopk) \intersect Nodes(new) PROVE x \in Marked(new)
  <2>1. PICK j \in 1..TopK : itopk[j] # Invalid /\ Used(itopk[j]) /\ x = Clear(itopk[j])
    BY <1>1, <1>5 DEF Marked, Range
  <2>2. PICK k \in 1..TopK : new[k] # Invalid /\ Clear(new[k]) = x
    BY <1>1, <1>5, NodesAre
  <2>3. PICK m \in 1..(TopK + Kids) : new[k] = Buffer[m]
    BY <1>3, <2>2
  <2>4. j \in 1..(TopK + Kids) /\ Buffer[j] = itopk[j]
    BY <1>1
  <2>5. m = j
    <3>1. /\ Buffer[m] # Invalid /\ Buffer[j] # Invalid /\ Clear(Buffer[m]) = Clear(Buffer[j])
          /\ j \in 1..(TopK + Kids)
      BY <2>1, <2>2, <2>3, <2>4
    <3> QED BY <1>1, <3>1, DistinctIs
  <2>6. new[k] = itopk[j]
    BY <2>3, <2>4, <2>5
  <2> QED BY <2>1, <2>6 DEF Marked, Range
<1>6. ASSUME iter = 0, NEW x \in Marked(itopk) PROVE FALSE
  <2>1. PICK j \in 1..TopK : itopk[j] # Invalid /\ Used(itopk[j]) /\ x = Clear(itopk[j])
    BY <1>1, <1>6 DEF Marked, Range
  <2>2. itopk[j] \in Fresh
    BY <1>6 DEF ListInv
  <2> QED BY <1>2, <2>1, <2>2
<1> QED BY <1>4, <1>5, <1>6

\* A sort is a step of the beam search.
LEMMA SortBeam ==
  ASSUME Shape, DistinctInv, ListInv, MetInv, ~plan.filtered, Sort
  PROVE  /\ ListInv' /\ MetInv'
         /\ Nodes(itopk') = Beam!Nearest(Offered, TopK)
         /\ Marked(itopk') = Marked(itopk) \intersect Nodes(itopk')
         /\ iter = 0 => Marked(itopk) = {}
<1>1. /\ plan \in Plans /\ TopK \in Nat /\ Kids \in Nat /\ TopK + Kids \in Nat
      /\ TopK <= TopK + Kids
      /\ itopk \in [1..TopK -> Entries] /\ candidates \in [1..Kids -> Fresh] /\ iter \in Nat
      /\ Buffer \in [1..(TopK + Kids) -> Entries]
  BY BufferIs DEF Shape, ShapeInv
<1>2. /\ pc = "sort" /\ pc' = "sorted" /\ plan' = plan /\ iter' = iter /\ parents' = <<>>
      /\ table' = IF Resets THEN EmptyTable ELSE table
      /\ TopK' = TopK /\ Known' = Known /\ Places' = Places
  BY PlanSame DEF Sort
<1>3. iter # 0 => Ascending(itopk)
  BY <1>1, <1>2 DEF ListInv
<1>4. itopk' = Nearest(Buffer)
  BY <1>1, <1>3, SortMerges
<1>5. itopk' \in [1..TopK -> Entries] /\ From(itopk', TopK, Buffer, TopK + Kids)
  BY <1>1, SortSelects
<1>6. Distinct(Buffer) /\ Met(Buffer)
  BY <1>2 DEF DistinctInv, MetInv
<1>7. Distinct(itopk')
  BY <1>1, <1>5, <1>6, FromKeeps
<1>8. \A x \in InTable \intersect Known :
        x \in Nodes(itopk') \/ \A k \in 1..TopK : Clear(itopk'[k]) < x
  BY <1>4, <1>6, SortMeets
<1>9. Nodes(itopk') = Beam!Nearest(Offered, TopK)
  <2>1. Offered \subseteq InTable \intersect Known /\ Nodes(Buffer) \subseteq Offered
    BY <1>2, OfferedIs
  <2>2. ASSUME NEW x \in Nodes(itopk') PROVE x \in Nodes(Buffer)
    <3> DEFINE new == itopk'
    <3>3. new \in [1..TopK -> Entries] /\ x \in Nodes(new)
      BY <1>5
    <3> HIDE DEF new
    <3>4. \E k \in 1..TopK : new[k] # Invalid /\ Clear(new[k]) = x
      BY <1>1, <3>3, NodesAre
    <3>1. PICK k \in 1..TopK : itopk'[k] # Invalid /\ Clear(itopk'[k]) = x
      BY <3>4 DEF new
    <3>2. PICK j \in 1..(TopK + Kids) : itopk'[k] = Buffer[j]
      BY <1>1, <1>5, <3>1, FromKeeps
    <3> QED BY <1>1, <3>1, <3>2, NodesAre
  <2> DEFINE T == Offered
             s == itopk'
  <2>3. /\ T \in SUBSET Known /\ Nodes(s) \subseteq T /\ s \in [1..TopK -> Entries] /\ Distinct(s)
        /\ \A x \in T : x \in Nodes(s) \/ \A k \in 1..TopK : Clear(s[k]) < x
    BY <1>5, <1>7, <1>8, <2>1, <2>2
  <2> HIDE DEF T, s
  <2>4. Nodes(s) = Beam!Nearest(T, TopK)
    BY <1>1, <2>3, BeamIs
  <2> QED BY <2>4 DEF T, s
<1>10. /\ Marked(itopk') = Marked(itopk) \intersect Nodes(itopk')
       /\ iter = 0 => Marked(itopk) = {}
  BY <1>2, <1>5, <1>6, MarksStay
<1>11. ListInv'
  <2>1. Ascending(itopk')
    BY <1>1, <1>4, NearestBeats
  <2>2. Ascending(itopk)'
    BY <2>1 DEF Ascending
  <2> QED BY <1>2, <2>2 DEF ListInv
<1>12. MetInv'
  <2>1. InTable' \subseteq InTable
    <3>1. CASE Resets
      BY <1>2, <3>1 DEF InTable, EmptyTable
    <3>2. CASE ~Resets
      BY <1>2, <3>2 DEF InTable
    <3> QED BY <3>1, <3>2
  <2>2. Nodes(itopk)' = Nodes(itopk')
    BY DEF Nodes
  <2>3. Met(itopk)'
    BY <1>2, <1>8, <2>1, <2>2 DEF Met, Outdone
  <2> QED BY <1>2, <2>3 DEF MetInv
<1> QED BY <1>9, <1>10, <1>11, <1>12

LEMMA InitBeam ==
  ASSUME Init
  PROVE  BeamInv
<1>1. /\ plan \in Plans /\ pc = "seeds" /\ iter = 0 /\ parents = <<>> /\ table = EmptyTable
      /\ probe = [i \in DOMAIN plan.seeds |-> Probing(plan.seeds[i])]
  BY DEF Init
<1>2. itopk = [i \in 1..TopK |-> Invalid] /\ candidates = [i \in 1..Kids |-> Invalid]
  BY DEF Init, TopK, Kids
<1>3. /\ Shape /\ DOMAIN probe = 1..(TopK + Kids) /\ TopK \in Nat /\ Kids \in Nat
      /\ Buffer \in [1..(TopK + Kids) -> Entries]
      /\ \A k \in 1..(TopK + Kids) :
           Buffer[k] = IF k <= TopK THEN itopk[k] ELSE candidates[k - TopK]
  BY InitShape, BufferIs
<1>4. \A k \in 1..(TopK + Kids) : Buffer[k] = Invalid
  BY <1>2, <1>3
<1>5. ListInv
  <2>1. \A k \in 1..TopK : itopk[k] \in Fresh
    BY <1>1, <1>2, EntryIs
  <2> QED BY <1>1, <2>1 DEF ListInv
<1>6. MetInv
  <2>1. InTable = {}
    BY <1>1 DEF InTable, EmptyTable
  <2>2. \A i \in DOMAIN probe : probe[i].key = Asked(i) /\ Buffer[Mine(i)] = Invalid
    BY <1>1, <1>3, <1>4 DEF Probing, Asked, Mine
  <2>3. \A i \in DOMAIN probe : probe[i].pc = "probe"
    BY <1>1 DEF Probing
  <2>4. Nodes(Buffer) = {}
    BY <1>3, <1>4 DEF Nodes
  <2>5. Met(Buffer)
    BY <2>1 DEF Met
  <2> QED BY <1>1, <2>2, <2>3, <2>4, <2>5 DEF MetInv
<1> QED BY <1>5, <1>6 DEF BeamInv

LEMMA SeedsBeam ==
  ASSUME Shape, ListInv, MetInv, SeedsDone
  PROVE  ListInv' /\ MetInv'
<1>1. /\ plan \in Plans /\ pc \in Phases /\ pc = "seeds" /\ pc' = "sort" /\ plan' = plan
      /\ itopk' = itopk /\ candidates' = candidates /\ table' = table /\ parents' = parents
      /\ iter' = iter /\ Barrier /\ probe' = <<>>
  BY DEF SeedsDone, Shape, ShapeInv
<1>2. /\ Known' = Known /\ TopK' = TopK /\ Places' = Places /\ Fresh' = Fresh
  BY <1>1, PlanSame
<1>3. iter = 0 /\ parents = <<>>
  BY <1>1 DEF ListInv, Shape, ParentsInv
<1>4. ListInv'
  BY <1>1, <1>2, <1>3 DEF ListInv
<1>5. Range(plan.seeds) \subseteq InTable
  <2>1. plan.seeds \in [1..(TopK + Kids) -> Known] /\ Known \subseteq Keys
    BY <1>1, PlanFacts, SearchFacts DEF TopK, Kids, Known
  <2>2. DOMAIN probe = 1..(TopK + Kids)
    BY <1>1, ThreadsAre DEF Shape
  <2>3. ASSUME NEW i \in 1..(TopK + Kids) PROVE plan.seeds[i] \in InTable
    <3>1. probe[i].pc = "done"
      BY <1>1, <2>2 DEF Barrier
    <3>2. plan.seeds[i] \in InTable \union {Invalid}
      BY <1>1, <2>2, <3>1 DEF MetInv, Asked
    <3>3. plan.seeds[i] \in Keys
      BY <2>1
    <3> QED BY <3>2, <3>3, InvalidIs
  <2> QED BY <2>1, <2>3 DEF Range
<1>6. MetInv'
  <2>1. Buffer' = Buffer /\ InTable' = InTable
    BY <1>1, <1>2 DEF Buffer, InTable
  <2>2. Met(Buffer) /\ Nodes(Buffer) \subseteq Range(plan.seeds)
    BY <1>1, <1>3 DEF MetInv
  <2>3. Met(Buffer)'
    BY <1>1, <1>2, <2>1, <2>2 DEF Met, Outdone, Nodes
  <2>4. Nodes(Buffer)' \subseteq Range(plan.seeds)' /\ Range(plan.seeds)' \subseteq InTable'
    BY <1>1, <1>5, <2>1, <2>2 DEF Nodes, Range
  <2> QED BY <1>1, <1>3, <2>3, <2>4 DEF MetInv
<1> QED BY <1>4, <1>6

LEMMA SortedBeam ==
  ASSUME Shape, ListInv, MetInv, Sorted
  PROVE  ListInv' /\ MetInv'
<1>1. /\ pc = "sorted" /\ pc' \in {"post", "done", "pick"} /\ plan' = plan
      /\ itopk' = itopk /\ candidates' = candidates /\ table' = table /\ parents' = parents
      /\ iter' = iter /\ parents = <<>>
  BY DEF Sorted, Left, Shape, ParentsInv
<1>2. /\ Known' = Known /\ TopK' = TopK /\ Places' = Places
  BY <1>1, PlanSame
<1>3. ListInv'
  <2>1. Ascending(itopk) /\ Ascending(itopk)' = Ascending(itopk)
    BY <1>1, SameBeam DEF ListInv
  <2> QED BY <1>1, <2>1 DEF ListInv
<1>4. Met(itopk)'
  <2>1. Met(itopk)
    BY <1>1 DEF MetInv
  <2>2. InTable' = InTable
    BY <1>1, <1>2 DEF InTable
  <2> QED BY <1>1, <1>2, <2>1, <2>2 DEF Met, Outdone, Nodes
<1>5. MetInv'
  BY <1>1, <1>4 DEF MetInv
<1> QED BY <1>3, <1>5

LEMMA PickBeam ==
  ASSUME Shape, DistinctInv, ListInv, MetInv, PickupNextParents
  PROVE  ListInv' /\ MetInv'
<1>1. /\ plan \in Plans /\ pc = "pick" /\ pc' = pc /\ plan' = plan /\ table' = table
      /\ parents = <<>> /\ itopk \in [1..TopK -> Entries] /\ TopK \in Nat
  BY SearchFacts DEF PickupNextParents, Shape, ShapeInv
<1>2. /\ Known' = Known /\ TopK' = TopK /\ Places' = Places /\ Width' = Width
  BY <1>1, PlanSame
<1>3. Distinct(itopk) /\ Ascending(itopk) /\ Met(itopk)
  BY <1>1 DEF DistinctInv, ListInv, MetInv
<1>4. /\ Unmarked' = Beam!Nearest(Unmarked' \union Unexpanded', Width)
      /\ Nodes(itopk') = Nodes(itopk)
  BY <1>1, <1>3, PickNearest
<1>5. \A k \in 1..TopK : Clear(itopk'[k]) = Clear(itopk[k])
  BY <1>1, PickIs DEF Remarked
<1>6. DOMAIN itopk' = 1..TopK
  BY <1>1, PickIs
<1>7. ListInv'
  <2>1. Ascending(itopk)'
    BY <1>1, <1>3, <1>5, <1>6 DEF Ascending
  <2>2. Expanding'
    <3>1. Unmarked' \subseteq Marked(itopk') /\ Marked(itopk)' = Marked(itopk')
      BY <1>1, <1>3, PickNearest DEF Marked
    <3> QED BY <1>2, <1>4, <3>1 DEF Expanding, Beam!Nearest
  <2> QED BY <1>1, <2>1, <2>2 DEF ListInv
<1>8. MetInv'
  <2>1. InTable' = InTable /\ Nodes(itopk)' = Nodes(itopk)
    BY <1>1, <1>2, <1>4 DEF InTable, Nodes
  <2>2. \A x : Outdone(x)' <=> Outdone(x)
    BY <1>2, <1>5 DEF Outdone
  <2>3. Met(itopk)'
    BY <1>2, <1>3, <2>1, <2>2 DEF Met
  <2> QED BY <1>1, <2>3 DEF MetInv
<1> QED BY <1>7, <1>8

LEMMA PickedBeam ==
  ASSUME Shape, ListInv, MetInv, Picked, ~plan.filtered
  PROVE  ListInv' /\ MetInv'
<1>1. /\ plan \in Plans /\ pc = "pick" /\ pc' \in {"done", "children"} /\ plan' = plan
      /\ itopk' = itopk /\ table' = table /\ parents' = parents /\ parents # <<>>
      /\ TopK \in Nat /\ Kids \in Nat /\ itopk \in [1..TopK -> Entries]
      /\ candidates \in [1..Kids -> Fresh]
  BY SearchFacts DEF Picked, Left, Shape, ShapeInv
<1>2. /\ Known' = Known /\ TopK' = TopK /\ Places' = Places
  BY <1>1, PlanSame
<1>3. ListInv'
  BY <1>1, SameBeam DEF ListInv
<1>4. CASE pc' = "done"
  BY <1>3, <1>4 DEF MetInv
<1>5. CASE pc' = "children"
  <2>1. /\ candidates' = [i \in 1..Kids |-> Invalid]
        /\ probe' = [i \in 1..Kids |-> IF Child(i) = Invalid THEN Done ELSE Probing(Child(i))]
    <3>1. DOMAIN candidates = 1..Kids
      BY <1>1
    <3>2. pc' # Left
      BY <1>5 DEF Left
    <3>3. /\ candidates' = [i \in DOMAIN candidates |-> Invalid]
          /\ probe' = [i \in DOMAIN candidates |->
                         IF Child(i) = Invalid THEN Done ELSE Probing(Child(i))]
      BY <3>2 DEF Picked
    <3> QED BY <3>1, <3>3
  <2> DEFINE rest == candidates'
             B == itopk \o rest
  <2>2. rest \in [1..Kids -> Entries] /\ \A k \in 1..Kids : rest[k] = Invalid
    BY <1>1, <2>1, EntryIs
  <2>3. Buffer' = B
    BY <1>1 DEF Buffer
  <2> HIDE DEF rest
  <2>4. B \in [1..(TopK + Kids) -> Entries]
    BY <1>1, <2>2, ConcatIs
  <2>5. /\ \A k \in 1..TopK : B[k] = itopk[k]
        /\ \A k \in 1..Kids : B[TopK + k] = rest[k]
    BY <1>1, <2>2, ConcatIs
  <2> HIDE DEF B
  <2>6. ASSUME NEW x \in Nodes(itopk) PROVE x \in Nodes(B)
    <3>1. PICK k \in 1..TopK : itopk[k] # Invalid /\ Clear(itopk[k]) = x
      BY <1>1, NodesAre
    <3>2. k \in 1..(TopK + Kids) /\ B[k] = itopk[k] /\ TopK + Kids \in Nat
      BY <1>1, <2>5
    <3> QED BY <1>1, <2>4, <3>1, <3>2, NodesAre
  <2>7. Met(itopk)
    BY <1>1 DEF MetInv
  <2>8. Met(Buffer)'
    <3>1. Nodes(Buffer)' = Nodes(B) /\ InTable' = InTable /\ \A x : Outdone(x)' <=> Outdone(x)
      BY <1>1, <1>2, <2>3 DEF Nodes, InTable, Outdone
    <3> QED BY <1>2, <2>6, <2>7, <3>1 DEF Met
  <2>9. Nodes(candidates)' = {}
    <3>1. Nodes(candidates)' = Nodes(rest)
      BY DEF Nodes, rest
    <3> QED BY <2>2, <3>1 DEF Nodes
  <2>10. ASSUME NEW i \in DOMAIN probe'
         PROVE  IF probe'[i].pc = "probe" THEN probe'[i].key = Asked(i)' /\ Buffer'[Mine(i)'] = Invalid
                ELSE Asked(i)' \in InTable' \union {Invalid}
    <3>1. i \in 1..Kids
      BY <2>1
    <3>2. Asked(i)' = Child(i) /\ Mine(i)' = TopK + i
      BY <1>1, <1>2, <1>5, SameBeam DEF Asked, Mine
    <3>3. Buffer'[TopK + i] = Invalid
      BY <2>2, <2>3, <2>5, <3>1
    <3>4. CASE Child(i) = Invalid
      BY <2>1, <3>1, <3>2, <3>4 DEF Done
    <3>5. CASE Child(i) # Invalid
      BY <2>1, <3>1, <3>2, <3>3, <3>5 DEF Probing
    <3> QED BY <3>4, <3>5
  <2>11. MetInv'
    BY <1>5, <2>8, <2>9, <2>10 DEF MetInv
  <2> QED BY <1>3, <2>11
<1> QED BY <1>1, <1>4, <1>5

LEMMA ChildrenBeam ==
  ASSUME Shape, ListInv, MetInv, ChildrenDone, ~plan.filtered
  PROVE  ListInv' /\ MetInv'
<1>1. /\ plan \in Plans /\ pc \in Phases /\ pc = "children" /\ pc' = "sort" /\ plan' = plan
      /\ itopk' = itopk /\ candidates' = candidates /\ table' = table /\ parents' = parents
      /\ iter' = iter + 1 /\ iter \in Nat /\ parents # <<>> /\ Barrier
      /\ itopk \in [1..TopK -> Entries] /\ parents \in [1..Width -> 0..TopK]
      /\ \A j \in 1..Width : parents[j] # 0 => itopk[parents[j]] # Invalid
  BY DEF ChildrenDone, Shape, ShapeInv, ParentsInv
<1>2. /\ Known' = Known /\ TopK' = TopK /\ Places' = Places
  BY <1>1, PlanSame
<1>3. iter' > 0 /\ iter' # 0
  BY <1>1
<1>4. ListInv'
  BY <1>1, <1>3, SameBeam DEF ListInv
<1>5. Beam!Neighbours(Unmarked) \subseteq InTable \intersect Known
  <2>1. DOMAIN probe = 1..Kids
    BY <1>1, ThreadsAre DEF Shape
  <2>2. ASSUME NEW x \in Beam!Neighbours(Unmarked) PROVE x \in InTable \intersect Known
    <3>1. PICK i \in 1..Kids : Child(i) = x
      BY <1>1, ChildrenAre
    <3>2. x \in Known
      BY <1>1, ChildrenAre
    <3>3. probe[i].pc = "done"
      BY <1>1, <2>1 DEF Barrier
    <3>4. Child(i) \in InTable \union {Invalid}
      BY <1>1, <2>1, <3>3 DEF MetInv, Asked
    <3> QED BY <1>1, <3>1, <3>2, <3>4, EntryIs
  <2> QED BY <2>2
<1>6. MetInv'
  <2>1. Buffer' = Buffer /\ InTable' = InTable
    BY <1>1, <1>2 DEF Buffer, InTable
  <2>2. Met(Buffer) /\ Nodes(candidates) \subseteq Beam!Neighbours(Unmarked)
    BY <1>1 DEF MetInv
  <2>3. Met(Buffer)' /\ Nodes(candidates)' = Nodes(candidates)
    BY <1>1, <1>2, <2>1, <2>2 DEF Met, Outdone, Nodes
  <2>4. Beam!Neighbours(Unmarked)' = Beam!Neighbours(Unmarked)
    BY <1>1, SameBeam
  <2> QED BY <1>1, <1>2, <1>3, <1>5, <2>1, <2>2, <2>3, <2>4 DEF MetInv
<1> QED BY <1>4, <1>6

LEMMA BeamNext ==
  ASSUME Shape, TableInv, RoomInv, DistinctInv, BeamInv, [Next]_vars
  PROVE  BeamInv'
<1>1. plan' = plan
  BY InsertIs DEF Next, RestoreRead, SeedsDone, Sort, Sorted, PickupNextParents, Picked,
                  ChildrenDone, PostProcess, vars, Shape
<1>2. SUFFICES ASSUME ~plan.filtered, ListInv, MetInv PROVE ListInv' /\ MetInv'
  BY <1>1 DEF BeamInv
<1>3. ASSUME pc' = pc, itopk' = itopk, candidates' = candidates, table' = table,
             parents' = parents, iter' = iter, pc \in {"seeds", "children"} => probe' = probe
      PROVE  ListInv' /\ MetInv'
  <2>1. /\ Known' = Known /\ TopK' = TopK /\ Places' = Places /\ Fresh' = Fresh
    BY <1>1, PlanSame
  <2>2. ListInv'
    <3>1. Ascending(itopk)' = Ascending(itopk) /\ Expanding' = Expanding
      BY <1>1, <1>3, SameBeam
    <3>2. pc' \in {"sorted", "pick", "children"} \/ (pc' = "sort" /\ iter' > 0) => Ascending(itopk)'
      BY <1>2, <1>3, <3>1 DEF ListInv
    <3>3. pc' \in {"pick", "children", "sort"} /\ parents' # <<>> =>
            Expanding'
      BY <1>2, <1>3, <3>1 DEF ListInv
    <3>4. /\ pc' = "seeds" => iter' = 0
          /\ pc' = "sort" => (parents' = <<>> <=> iter' = 0)
          /\ pc' \in {"seeds", "sort"} /\ iter' = 0 => \A k \in 1..TopK' : itopk'[k] \in Fresh'
      BY <1>2, <1>3, <2>1 DEF ListInv
    <3> QED BY <3>2, <3>3, <3>4 DEF ListInv
  <2>3. /\ InTable' = InTable /\ Buffer' = Buffer /\ \A x : Outdone(x)' <=> Outdone(x)
    BY <1>3, <2>1 DEF InTable, Buffer, Outdone
  <2>4. /\ Nodes(Buffer)' = Nodes(Buffer) /\ Nodes(itopk)' = Nodes(itopk)
        /\ Nodes(candidates)' = Nodes(candidates) /\ Range(plan.seeds)' = Range(plan.seeds)
    BY <1>1, <1>3, <2>3 DEF Nodes, Range
  <2>5. Met(Buffer)' = Met(Buffer) /\ Met(itopk)' = Met(itopk)
    BY <2>1, <2>3, <2>4 DEF Met
  <2>6. \A i : Asked(i)' = Asked(i) /\ Mine(i)' = Mine(i)
    BY <1>1, <1>3, <2>1, SameBeam DEF Asked, Mine
  <2>7. Beam!Neighbours(Unmarked)' = Beam!Neighbours(Unmarked)
    BY <1>1, <1>3, SameBeam
  <2>8. /\ pc' \in {"seeds", "sort", "children"} => Met(Buffer)'
        /\ pc' \in {"sorted", "pick"} => Met(itopk)'
    BY <1>2, <1>3, <2>5 DEF MetInv
  <2>9. pc' \in {"seeds", "children"} => \A i \in DOMAIN probe' :
          IF probe'[i].pc = "probe" THEN probe'[i].key = Asked(i)' /\ Buffer'[Mine(i)'] = Invalid
          ELSE Asked(i)' \in InTable' \union {Invalid}
    BY <1>2, <1>3, <2>3, <2>6 DEF MetInv
  <2>10. /\ pc' \in {"seeds", "sort"} /\ iter' = 0 => Nodes(Buffer)' \subseteq Range(plan.seeds)'
         /\ pc' = "children" \/ (pc' = "sort" /\ iter' > 0) =>
              Nodes(candidates)' \subseteq Beam!Neighbours(Unmarked)'
         /\ pc' = "sort" /\ iter' = 0 => Range(plan.seeds)' \subseteq InTable'
         /\ pc' = "sort" /\ iter' > 0 =>
              Beam!Neighbours(Unmarked)' \subseteq InTable' \intersect Known'
    BY <1>2, <1>3, <2>1, <2>3, <2>4, <2>7 DEF MetInv
  <2>11. MetInv'
    BY <2>8, <2>9, <2>10 DEF MetInv
  <2> QED BY <2>2, <2>11
<1>4. ASSUME NEW i \in DOMAIN probe, Insert(i) PROVE ListInv' /\ MetInv'
  BY <1>2, <1>4, InsertBeam
<1>5. ASSUME NEW i \in DOMAIN probe, RestoreRead(i) PROVE ListInv' /\ MetInv'
  BY <1>3, <1>5 DEF RestoreRead
<1>6. CASE SeedsDone
  BY <1>2, <1>6, SeedsBeam
<1>7. CASE Sort
  BY <1>2, <1>7, SortBeam
<1>8. CASE Sorted
  BY <1>2, <1>8, SortedBeam
<1>9. CASE PickupNextParents
  BY <1>2, <1>9, PickBeam
<1>10. CASE Picked
  BY <1>2, <1>10, PickedBeam
<1>11. CASE ChildrenDone
  BY <1>2, <1>11, ChildrenBeam
<1>12. CASE PostProcess
  BY <1>2, <1>12 DEF PostProcess, Shape, ShapeInv
<1>13. CASE UNCHANGED vars
  BY <1>3, <1>13 DEF vars
<1> QED BY <1>4, <1>5, <1>6, <1>7, <1>8, <1>9, <1>10, <1>11, <1>12, <1>13 DEF Next

LEMMA ListDistinct ==
  ASSUME Shape, DistinctInv, pc = "sort"
  PROVE  Distinct(itopk)
<1>1. /\ plan \in Plans /\ itopk \in [1..TopK -> Entries] /\ TopK \in Nat
      /\ Buffer \in [1..(TopK + Kids) -> Entries] /\ TopK + Kids \in Nat
      /\ \A k \in 1..TopK : Buffer[k] = itopk[k] /\ k \in 1..(TopK + Kids)
  BY BufferIs DEF Shape, ShapeInv
<1>2. Distinct(Buffer)
  BY DEF DistinctInv
<1>3. \A j, k \in 1..(TopK + Kids) : j # k /\ Buffer[j] # Invalid /\ Buffer[k] # Invalid
                                     => Clear(Buffer[j]) # Clear(Buffer[k])
  BY <1>1, <1>2, DistinctIs
<1>4. \A j, k \in 1..TopK : j # k /\ itopk[j] # Invalid /\ itopk[k] # Invalid
                            => Clear(itopk[j]) # Clear(itopk[k])
  BY <1>1, <1>3
<1> QED BY <1>1, <1>4, DistinctIs

\* A node of the list is marked or not, and not both.
LEMMA NodesSplit ==
  ASSUME plan \in Plans, itopk \in [1..TopK -> Entries], Distinct(itopk)
  PROVE  Nodes(itopk) = Marked(itopk) \union Unexpanded /\ Marked(itopk) \intersect Unexpanded = {}
<1>1. TopK \in Nat /\ DOMAIN itopk = 1..TopK
  BY SearchFacts
<1>2. \A k \in 1..TopK : ~Used(itopk[k]) => itopk[k] # Invalid /\ Clear(itopk[k]) = itopk[k]
  BY <1>1, EntryIs
<1>3. Nodes(itopk) = {Clear(itopk[k]) : k \in {k \in 1..TopK : itopk[k] # Invalid}}
  BY <1>1 DEF Nodes
<1>4. Marked(itopk) =
        {Clear(itopk[k]) : k \in {k \in 1..TopK : itopk[k] # Invalid /\ Used(itopk[k])}}
  BY <1>1 DEF Marked, Range
<1>5. Unexpanded = {itopk[k] : k \in {k \in 1..TopK : ~Used(itopk[k])}}
  BY <1>1 DEF Unexpanded, Range
<1>6. Nodes(itopk) = Marked(itopk) \union Unexpanded
  BY <1>2, <1>3, <1>4, <1>5
<1>7. ASSUME NEW x \in Marked(itopk), x \in Unexpanded PROVE FALSE
  <2>1. PICK j \in 1..TopK : itopk[j] # Invalid /\ Used(itopk[j]) /\ x = Clear(itopk[j])
    BY <1>4
  <2>2. PICK k \in 1..TopK : ~Used(itopk[k]) /\ x = itopk[k]
    BY <1>5, <1>7
  <2>3. j # k /\ itopk[k] # Invalid /\ Clear(itopk[k]) = x
    BY <1>2, <2>1, <2>2
  <2> QED BY <1>1, <2>1, <2>3, DistinctIs
<1> QED BY <1>6, <1>7

ExpandedNow == Marked(itopk) \ Unmarked
StepsNow    == IF pc = "sort" THEN iter - 1 ELSE iter

LEMMA BeamStutters ==
  ASSUME plan' = plan, begun' <=> begun,
         begun => /\ Nodes(itopk)' = Nodes(itopk) /\ ExpandedNow' = ExpandedNow
                  /\ StepsNow' = StepsNow /\ (pc' = "done" <=> pc = "done")
  PROVE  UNCHANGED Beam!vars
<1>1. MaxIterations(plan)' = MaxIterations(plan) /\ Range(plan.seeds)' = Range(plan.seeds)
  BY DEF MaxIterations, Range
<1>2. UNCHANGED Beam!given
  BY <1>1 DEF Beam!given
<1>3. CASE begun
  BY <1>2, <1>3 DEF Beam!vars, ExpandedNow, StepsNow, Marked
<1>4. CASE ~begun
  BY <1>2, <1>4 DEF Beam!vars
<1> QED BY <1>3, <1>4

\* Marking, and the table, do not show; a sort is a step, the end of the loop the end.
LEMMA BeamStep ==
  ASSUME Shape, Shape', DistinctInv, FlagInv, BeamInv, [Next]_vars
  PROVE  [Beam!Start \/ Beam!Expand \/ Beam!Finish]_(Beam!vars)
<1> DEFINE Action == Beam!Start \/ Beam!Expand \/ Beam!Finish
<1>1. /\ plan \in Plans /\ pc \in Phases /\ pc' \in Phases /\ plan' = plan /\ iter \in Nat
      /\ itopk \in [1..TopK -> Entries] /\ TopK \in Nat /\ MaxIterations(plan) \in Nat
      /\ plan.itopk_size = TopK /\ plan.search_width = Width
  <2>1. plan' = plan
    BY InsertIs DEF Next, RestoreRead, SeedsDone, Sort, Sorted, PickupNextParents, Picked,
                    ChildrenDone, PostProcess, vars, Shape
  <2> QED BY <2>1, SearchFacts DEF Shape, ShapeInv, TopK, Width
<1>2. /\ MaxIterations(plan)' = MaxIterations(plan) /\ Range(plan.seeds)' = Range(plan.seeds)
      /\ UNCHANGED Beam!given
  BY <1>1 DEF MaxIterations, Range, Beam!given
<1>3. CASE plan.filtered
  <2>1. ~begun /\ ~begun'
    BY <1>1, <1>3 DEF begun
  <2> QED BY <1>1, <2>1, BeamStutters
<1>4. CASE ~plan.filtered
  <2>1. ListInv /\ MetInv
    BY <1>4 DEF BeamInv
  <2>2. ASSUME pc' = pc, itopk' = itopk, parents' = parents, iter' = iter
        PROVE  UNCHANGED Beam!vars
    <3>1. begun' <=> begun
      BY <1>1, <2>2 DEF begun
    <3>2. Nodes(itopk)' = Nodes(itopk) /\ ExpandedNow' = ExpandedNow /\ StepsNow' = StepsNow
      BY <2>2 DEF Nodes, ExpandedNow, Marked, Unmarked, Range, StepsNow
    <3> QED BY <1>1, <2>2, <3>1, <3>2, BeamStutters
  <2>3. ASSUME NEW i \in DOMAIN probe, Insert(i) PROVE UNCHANGED Beam!vars
    <3>1. /\ pc' = pc /\ parents' = parents /\ iter' = iter
          /\ Enters(i) \/ Leaves(i) \/ Goes(i)
          /\ pc = "seeds" \/ pc = "children" \/ pc = "pick"
      BY <1>1, <2>3, InsertIs, ThreadsAre DEF Shape
    <3>2. CASE pc = "seeds"
      <4>1. ~begun /\ ~begun'
        BY <3>1, <3>2 DEF begun
      <4> QED BY <1>1, <4>1, BeamStutters
    <3>3. CASE pc # "seeds"
      <4>1. itopk' = itopk
        <5>1. CASE Goes(i)
          BY <5>1 DEF Goes
        <5>2. CASE ~Goes(i)
          BY <3>1, <3>3, <5>2 DEF Enters, Leaves, Written
        <5> QED BY <5>1, <5>2
      <4> QED BY <2>2, <3>1, <4>1
    <3> QED BY <3>2, <3>3
  <2>4. ASSUME NEW i \in DOMAIN probe, RestoreRead(i) PROVE UNCHANGED Beam!vars
    BY <2>2, <2>4 DEF RestoreRead
  <2>5. ASSUME SeedsDone PROVE UNCHANGED Beam!vars
    <3>1. pc = "seeds" /\ pc' = "sort" /\ iter' = iter /\ iter = 0
      BY <2>1, <2>5 DEF SeedsDone, ListInv
    <3>2. ~begun /\ ~begun'
      BY <3>1 DEF begun
    <3> QED BY <1>1, <3>2, BeamStutters
  <2>6. ASSUME PickupNextParents PROVE UNCHANGED Beam!vars
    <3>1. pc = "pick" /\ pc' = pc /\ iter' = iter /\ parents = <<>>
      BY <2>6 DEF PickupNextParents
    <3>2. Distinct(itopk) /\ Ascending(itopk)
      BY <2>1, <3>1 DEF DistinctInv, ListInv
    <3>3. Marked(itopk') \ Unmarked' = Marked(itopk) /\ Nodes(itopk') = Nodes(itopk)
      BY <1>1, <2>6, <3>1, <3>2, PickNearest
    <3>4. Unmarked = {}
      BY <3>1 DEF Unmarked
    <3>5. Nodes(itopk)' = Nodes(itopk) /\ ExpandedNow' = ExpandedNow
      BY <3>3, <3>4 DEF Nodes, ExpandedNow, Marked
    <3>6. (begun' <=> begun) /\ StepsNow' = StepsNow
      BY <1>1, <3>1 DEF begun, StepsNow
    <3> QED BY <1>1, <3>1, <3>5, <3>6, BeamStutters
  <2>7. ASSUME ChildrenDone PROVE UNCHANGED Beam!vars
    <3>1. /\ pc = "children" /\ pc' = "sort" /\ iter' = iter + 1 /\ itopk' = itopk
          /\ parents' = parents
      BY <1>4, <2>7 DEF ChildrenDone
    <3>2. begun /\ begun' /\ StepsNow' = StepsNow
      BY <1>1, <1>4, <3>1 DEF begun, StepsNow
    <3>3. Nodes(itopk)' = Nodes(itopk) /\ ExpandedNow' = ExpandedNow
      BY <3>1 DEF Nodes, ExpandedNow, Marked, Unmarked, Range
    <3> QED BY <1>1, <3>1, <3>2, <3>3, BeamStutters
  <2>8. ASSUME begun, begun', itopk' = itopk, pc' = "done", pc \in {"sorted", "pick"},
               iter' = iter, ExpandedNow' = ExpandedNow,
               Nodes(itopk) = ExpandedNow \/ iter + 1 = MaxIterations(plan)
        PROVE  Beam!Finish
    <3>1. Nodes(itopk)' = Nodes(itopk)
      BY <2>8 DEF Nodes
    <3> QED BY <1>2, <2>8, <3>1 DEF Beam!Finish, ExpandedNow, Marked
  <2>9. ASSUME Sorted PROVE Action \/ UNCHANGED Beam!vars
    <3>1. /\ pc = "sorted" /\ pc' \in {"done", "pick"} /\ itopk' = itopk /\ parents' = parents
          /\ iter' = iter /\ (pc' = "pick" \/ iter + 1 = MaxIterations(plan))
      BY <1>4, <2>9 DEF Sorted, Left
    <3>2. begun /\ begun'
      BY <1>1, <1>4, <3>1 DEF begun
    <3>3. Nodes(itopk)' = Nodes(itopk) /\ ExpandedNow' = ExpandedNow
      BY <3>1 DEF Nodes, ExpandedNow, Marked, Unmarked, Range
    <3>4. CASE pc' = "pick"
      <4>1. StepsNow' = StepsNow
        BY <3>1, <3>4 DEF StepsNow
      <4> QED BY <1>1, <3>1, <3>2, <3>3, <3>4, <4>1, BeamStutters
    <3>5. CASE pc' = "done"
      BY <2>8, <3>1, <3>2, <3>3, <3>5
    <3> QED BY <3>1, <3>4, <3>5
  <2>10. ASSUME Picked PROVE Action \/ UNCHANGED Beam!vars
    <3>1. /\ pc = "pick" /\ pc' \in {"done", "children"} /\ itopk' = itopk
          /\ parents' = parents /\ iter' = iter /\ parents # <<>>
          /\ pc' = "children" \/ terminate_flag
      BY <1>4, <2>10 DEF Picked, Left
    <3>2. begun /\ begun'
      BY <1>1, <1>4, <3>1 DEF begun
    <3>3. Nodes(itopk)' = Nodes(itopk) /\ ExpandedNow' = ExpandedNow
      BY <3>1 DEF Nodes, ExpandedNow, Marked, Unmarked, Range
    <3>4. CASE pc' = "children"
      <4>1. StepsNow' = StepsNow
        BY <3>1, <3>4 DEF StepsNow
      <4> QED BY <1>1, <3>1, <3>2, <3>3, <3>4, <4>1, BeamStutters
    <3>5. CASE pc' = "done"
      <4>1. AllUsed(itopk) /\ \A j \in 1..Width : parents[j] = 0
        BY <1>4, <3>1, <3>5 DEF FlagInv
      <4>2. Unmarked = {}
        <5>1. DOMAIN parents = 1..Width
          BY <3>1 DEF Shape, ShapeInv
        <5> QED BY <4>1, <5>1 DEF Unmarked
      <4>3. Nodes(itopk) = Marked(itopk)
        BY <1>1, <4>1 DEF Nodes, Marked, AllUsed, Range
      <4>4. Nodes(itopk) = ExpandedNow
        BY <4>2, <4>3 DEF ExpandedNow
      <4> QED BY <2>8, <3>1, <3>2, <3>3, <3>5, <4>4
    <3> QED BY <3>1, <3>4, <3>5
  <2>11. ASSUME Sort PROVE Action
    <3>1. /\ pc = "sort" /\ pc' = "sorted" /\ iter' = iter /\ parents' = <<>>
      BY <2>11 DEF Sort
    <3>2. /\ Nodes(itopk') = Beam!Nearest(Offered, TopK)
          /\ Marked(itopk') = Marked(itopk) \intersect Nodes(itopk')
          /\ iter = 0 => Marked(itopk) = {}
      BY <1>4, <2>1, <2>11, SortBeam
    <3>3. begun' /\ Nodes(itopk)' = Nodes(itopk') /\ ExpandedNow' = Marked(itopk')
      <4>1. Unmarked' = {}
        BY <3>1 DEF Unmarked
      <4>2. Marked(itopk)' = Marked(itopk')
        BY DEF Marked
      <4> QED BY <1>1, <1>4, <3>1, <4>1, <4>2 DEF begun, Nodes, ExpandedNow
    <3>4. CASE iter = 0
      <4>1. ~begun
        BY <3>1, <3>4 DEF begun
      <4>2. ExpandedNow' = {} /\ Nodes(itopk)' = Beam!Nearest(Range(plan.seeds), plan.itopk_size)
        BY <1>1, <3>2, <3>3, <3>4 DEF Offered
      <4>3. Beam!Start
        BY <1>2, <3>1, <3>3, <3>4, <4>1, <4>2 DEF Beam!Start, ExpandedNow, Marked
      <4> QED BY <4>3
    <3>5. CASE iter # 0
      <4>1. begun /\ iter < MaxIterations(plan) /\ iter > 0 /\ parents # <<>>
        BY <1>1, <1>4, <2>1, <3>1, <3>5 DEF begun, Shape, ShapeInv, ListInv
      <4>2. Expanding /\ Distinct(itopk)
        <5>1. Expanding
          BY <2>1, <3>1, <4>1 DEF ListInv
        <5>2. Distinct(itopk)
          BY <3>1, ListDistinct
        <5> QED BY <5>1, <5>2
      <4>3. Nodes(itopk) \ ExpandedNow = Unmarked \union Unexpanded
        BY <1>1, <4>2, NodesSplit DEF ExpandedNow, Expanding
      <4>4. ExpandedNow \union Unmarked = Marked(itopk)
        BY <4>2 DEF ExpandedNow, Expanding
      <4>5. Unmarked = Beam!Nearest(Nodes(itopk) \ ExpandedNow, plan.search_width)
        BY <1>1, <4>2, <4>3 DEF Expanding
      <4>6. /\ Nodes(itopk)' = Beam!Nearest(Nodes(itopk) \union Beam!Neighbours(Unmarked),
                                            plan.itopk_size)
            /\ ExpandedNow' = (ExpandedNow \union Unmarked) \intersect Nodes(itopk)'
        BY <1>1, <3>2, <3>3, <3>5, <4>4 DEF Offered
      <4>7. StepsNow + 1 < MaxIterations(plan) /\ StepsNow' = StepsNow + 1
        BY <1>1, <3>1, <4>1 DEF StepsNow
      <4>8. Beam!Expand
        BY <1>2, <3>1, <3>3, <4>1, <4>5, <4>6, <4>7
           DEF Beam!Expand, ExpandedNow, StepsNow, Marked
      <4> QED BY <4>8
    <3> QED BY <3>4, <3>5
  <2>12. ASSUME PostProcess PROVE FALSE
    BY <1>4, <2>12 DEF PostProcess, Shape, ShapeInv
  <2>13. ASSUME UNCHANGED vars PROVE UNCHANGED Beam!vars
    BY <2>2, <2>13 DEF vars
  <2> QED BY <2>3, <2>4, <2>5, <2>6, <2>7, <2>9, <2>10, <2>11, <2>12, <2>13 DEF Next
<1> QED BY <1>3, <1>4

\* Without a filter, the search with its table of visited nodes, which may be emptied
\* and refilled, its two sorts and its threads is the beam search of BeamSearch:
\* every sort after the first is one expansion of the nearest nodes that are not
\* expanded, and what the threads do in between shows nothing (search_core).
THEOREM ImplementsBeam == Spec => Implements
<1> DEFINE Inv == SearchInv /\ BeamInv
<1>1. Init => Inv
  BY InitShape, InitTable, InitDistinct, InitFlag, InitBeam DEF SearchInv
<1>2. Inv /\ [Next]_vars => Inv'
  <2> SUFFICES ASSUME Inv, [Next]_vars PROVE Inv'
    OBVIOUS
  <2>1. Shape /\ TableInv /\ RoomInv /\ DistinctInv /\ FlagInv /\ BeamInv
    BY DEF SearchInv
  <2>2. Shape' /\ TableInv' /\ RoomInv' /\ DistinctInv' /\ FlagInv'
    BY <2>1, ShapeNext, TableNext, RoomNext, DistinctNext, FlagNext
  <2>3. BeamInv'
    BY <2>1, <2>2, BeamNext
  <2> QED BY <2>2, <2>3 DEF SearchInv
<1>3. Inv /\ Inv' /\ [Next]_vars => [Beam!Start \/ Beam!Expand \/ Beam!Finish]_(Beam!vars)
  BY BeamStep DEF SearchInv
<1>4. Init => Beam!Init
  <2> SUFFICES ASSUME Init PROVE Beam!Init
    OBVIOUS
  <2>1. ~begun
    BY DEF Init, begun
  <2> QED BY <2>1 DEF Beam!Init
<1> HIDE DEF Inv
<1> QED BY <1>1, <1>2, <1>3, <1>4, PTL DEF Spec, Implements, Beam!Spec
=============================================================================
