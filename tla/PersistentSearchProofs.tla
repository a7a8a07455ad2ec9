----------------------- MODULE PersistentSearchProofs -----------------------
(***************************************************************************)
(* Theorems about PersistentSearch: the types, and who has the workers and *)
(* the jobs.  As long as no thread is late, it loses no worker and no job, *)
(* gives a job back only when its last query has been answered, and        *)
(* implements the safety part of SearchService, step by step.  That every  *)
(* launch returns is left to TLC (ps_launch, ps_lap).                      *)
(***************************************************************************)
EXTENDS PersistentSearchInv, FiniteSetTheorems, TLAPS

-----------------------------------------------------------------------------
(* Constants.                                                              *)

LEMMA MaxSizeType ==
  /\ MaxSize \in ReqSizes /\ MaxSize \in Nat /\ MaxSize > 0
  /\ \A n \in ReqSizes : n \in Nat /\ n > 0 /\ n <= MaxSize
<1>1. PICK n \in ReqSizes : \A m \in ReqSizes : m <= n
  BY ConstantsAssumption
<1>2. MaxSize \in ReqSizes /\ \A m \in ReqSizes : m <= MaxSize
  BY <1>1 DEF MaxSize
<1>3. \A m \in ReqSizes : m \in Nat /\ m > 0
  BY ConstantsAssumption
<1> QED BY <1>2, <1>3

LEMMA IdsAreNumbers ==
  /\ Empty = -1 /\ Empty \notin Workers /\ Empty \notin Jobs
  /\ Workers \subseteq Nat /\ Jobs \subseteq Nat /\ 0 \in Rows /\ Rows \subseteq Nat
  /\ Jobs # {} /\ Workers # {}
  /\ -2 \notin Jobs /\ Wait # NoMore
BY ConstantsAssumption, MaxSizeType DEF Empty, Workers, Jobs, Rows, Wait, NoMore

-----------------------------------------------------------------------------
(* The queues.                                                             *)

\* A counter gives a slot.
LEMMA SlotType ==
  ASSUME NEW size \in Nat \ {0}, NEW ids, NEW q \in Queue(size, ids), NEW k \in Nat
  PROVE  Slot(q, k) \in DOMAIN q.buf /\ DOMAIN q.buf = 0..(size - 1)
<1>1. DOMAIN q.buf = 0..(size - 1)
  BY DEF Queue
<1>2. Cardinality(0..(size - 1)) = size
  BY FS_Interval
<1>3. PICK n \in Nat : n = k * Increment
  BY ConstantsAssumption
<1>4. n % size \in 0..(size - 1)
  OBVIOUS
<1> QED BY <1>1, <1>2, <1>3, <1>4 DEF Slot

\* Standing in line and reserving a place leave the slots as they are.
LEMMA CountersOnly ==
  ASSUME NEW size \in Nat \ {0}, NEW ids, NEW q \in Queue(size, ids)
  PROVE  /\ Promised(q) \in Queue(size, ids) /\ Promised(q).buf = q.buf
         /\ Reserved(q) \in Queue(size, ids) /\ Reserved(q).buf = q.buf
BY DEF Queue, Promised, Reserved

\* Taking a value empties its slot.
LEMMA TakenFromQueue ==
  ASSUME NEW size \in Nat \ {0}, NEW ids, NEW q \in Queue(size, ids), NEW k \in Nat,
         Ready(q, k)
  PROVE  /\ Taken(q, k) \in Queue(size, ids) /\ Value(q, k) \in ids
         /\ Value(q, k) \in Queued(q)
         /\ Single(q) => /\ Single(Taken(q, k))
                         /\ Queued(Taken(q, k)) = Queued(q) \ {Value(q, k)}
<1>1. PICK s : s = Slot(q, k)
  OBVIOUS
<1>2. s \in DOMAIN q.buf /\ DOMAIN q.buf = 0..(size - 1)
  BY <1>1, SlotType
<1>3. q.buf \in [0..(size - 1) -> ids \union {Empty}]
  BY DEF Queue
<1>4. /\ Value(q, k) = q.buf[s] /\ q.buf[s] # Empty
      /\ Taken(q, k) = [q EXCEPT !.buf[s] = Empty]
  BY <1>1 DEF Value, Ready, Taken, Put
<1>5. /\ Taken(q, k).buf = [q.buf EXCEPT ![s] = Empty]
      /\ Taken(q, k) = [head |-> q.head, tail |-> q.tail, buf |-> [q.buf EXCEPT ![s] = Empty]]
      /\ q.head \in Nat /\ q.tail \in Nat
  BY <1>4 DEF Queue
<1>6. Taken(q, k) \in Queue(size, ids)
  <2>1. [q.buf EXCEPT ![s] = Empty] \in [0..(size - 1) -> ids \union {Empty}]
    BY <1>3
  <2> QED BY <1>5, <2>1 DEF Queue
<1>7. Value(q, k) \in ids /\ Value(q, k) \in Queued(q)
  BY <1>2, <1>3, <1>4 DEF Queued
<1>8. PICK b : b = Taken(q, k).buf
  OBVIOUS
<1>9. DOMAIN b = DOMAIN q.buf /\ \A r \in DOMAIN q.buf : b[r] = IF r = s THEN Empty ELSE q.buf[r]
  BY <1>5, <1>8
<1>10. Single(q) => Single(Taken(q, k))
  BY <1>2, <1>8, <1>9 DEF Single
<1>11. ASSUME Single(q) PROVE Queued(Taken(q, k)) = Queued(q) \ {Value(q, k)}
  BY <1>2, <1>4, <1>8, <1>9, <1>11 DEF Queued, Single
<1> QED BY <1>6, <1>7, <1>10, <1>11

\* Putting a value fills an empty slot.
LEMMA PutIntoQueue ==
  ASSUME NEW size \in Nat \ {0}, NEW ids, NEW q \in Queue(size, ids), NEW k \in Nat,
         NEW x \in ids, ~Ready(q, k)
  PROVE  /\ Put(q, k, x) \in Queue(size, ids)
         /\ Single(q) /\ x \notin Queued(q) => Single(Put(q, k, x))
         /\ x # Empty => Queued(Put(q, k, x)) = Queued(q) \union {x}
<1>1. PICK s : s = Slot(q, k)
  OBVIOUS
<1>2. s \in DOMAIN q.buf /\ DOMAIN q.buf = 0..(size - 1)
  BY <1>1, SlotType
<1>3. q.buf \in [0..(size - 1) -> ids \union {Empty}]
  BY DEF Queue
<1>4. q.buf[s] = Empty /\ Put(q, k, x) = [q EXCEPT !.buf[s] = x]
  BY <1>1 DEF Value, Ready, Put
<1>5. /\ Put(q, k, x) = [head |-> q.head, tail |-> q.tail, buf |-> [q.buf EXCEPT ![s] = x]]
      /\ q.head \in Nat /\ q.tail \in Nat
  BY <1>4 DEF Queue
<1>6. Put(q, k, x) \in Queue(size, ids)
  <2>1. [q.buf EXCEPT ![s] = x] \in [0..(size - 1) -> ids \union {Empty}]
    BY <1>3
  <2> QED BY <1>5, <2>1 DEF Queue
<1>7. PICK b : b = Put(q, k, x).buf
  OBVIOUS
<1>8. DOMAIN b = DOMAIN q.buf /\ \A r \in DOMAIN q.buf : b[r] = IF r = s THEN x ELSE q.buf[r]
  BY <1>5, <1>7
<1>9. Single(q) /\ x \notin Queued(q) => Single(Put(q, k, x))
  BY <1>2, <1>7, <1>8 DEF Single, Queued
<1>10. x # Empty => Queued(Put(q, k, x)) = Queued(q) \union {x}
  BY <1>2, <1>4, <1>7, <1>8 DEF Queued
<1> QED BY <1>6, <1>9, <1>10

-----------------------------------------------------------------------------
(* The pending workers of a launcher.                                      *)

LEMMA EntriesOf ==
  ASSUME NEW S, NEW s \in Seq(S)
  PROVE  Entries(s) \subseteq S /\ Entries(s) = {s[p] : p \in 1..Len(s)} /\ Len(s) \in Nat
BY DEF Entries

LEMMA EntriesAppended ==
  ASSUME NEW S, NEW s \in Seq(S), NEW x \in S
  PROVE  /\ Append(s, x) \in Seq(S) /\ Len(Append(s, x)) = Len(s) + 1
         /\ Entries(Append(s, x)) = Entries(s) \union {x}
         /\ Append(s, x) # <<>>
<1>1. PICK u : u = Append(s, x)
  OBVIOUS
<1>2. /\ u \in Seq(S) /\ Len(u) = Len(s) + 1 /\ Len(s) \in Nat /\ u[Len(s) + 1] = x
      /\ \A p \in 1..Len(s) : u[p] = s[p]
      /\ DOMAIN u = 1..(Len(s) + 1) /\ DOMAIN s = 1..Len(s)
  BY <1>1
<1>3. Entries(u) \subseteq Entries(s) \union {x}
  <2> SUFFICES ASSUME NEW p \in 1..(Len(s) + 1) PROVE u[p] \in Entries(s) \union {x}
    BY <1>2 DEF Entries
  <2>1. p \in 1..Len(s) \/ p = Len(s) + 1
    BY <1>2
  <2> QED BY <1>2, <2>1 DEF Entries
<1>4. Entries(s) \subseteq Entries(u)
  <2> SUFFICES ASSUME NEW p \in 1..Len(s) PROVE s[p] \in Entries(u)
    BY <1>2 DEF Entries
  <2>1. p \in 1..(Len(s) + 1) /\ u[p] = s[p]
    BY <1>2
  <2> QED BY <1>2, <2>1 DEF Entries
<1>5. x \in Entries(u)
  <2>1. Len(s) + 1 \in 1..(Len(s) + 1)
    BY <1>2
  <2> QED BY <1>2, <2>1 DEF Entries
<1>6. u # <<>>
  BY <1>2
<1> QED BY <1>1, <1>2, <1>3, <1>4, <1>5, <1>6

LEMMA EntriesOfTail ==
  ASSUME NEW S, NEW s \in Seq(S), s # <<>>
  PROVE  /\ Tail(s) \in Seq(S) /\ Len(Tail(s)) = Len(s) - 1 /\ Head(s) \in S
         /\ Entries(s) = Entries(Tail(s)) \union {Head(s)}
         /\ (\A p, q \in DOMAIN s : s[p] = s[q] => p = q) =>
              /\ Head(s) \notin Entries(Tail(s))
              /\ \A p, q \in DOMAIN Tail(s) : Tail(s)[p] = Tail(s)[q] => p = q
<1>1. /\ Tail(s) \in Seq(S) /\ Len(Tail(s)) = Len(s) - 1 /\ Len(s) \in Nat /\ Len(s) > 0
      /\ \A p \in 1..(Len(s) - 1) : Tail(s)[p] = s[p + 1]
      /\ Head(s) = s[1] /\ DOMAIN s = 1..Len(s) /\ DOMAIN Tail(s) = 1..(Len(s) - 1)
  OBVIOUS
<1>2. Head(s) \in S
  BY <1>1
<1>3. Entries(s) = Entries(Tail(s)) \union {Head(s)}
  <2>1. ASSUME NEW p \in 1..Len(s) PROVE s[p] \in Entries(Tail(s)) \union {Head(s)}
    <3>1. CASE p = 1
      BY <1>1, <3>1
    <3>2. CASE p # 1
      <4>1. p - 1 \in 1..(Len(s) - 1) /\ Tail(s)[p - 1] = s[p]
        BY <1>1, <3>2
      <4> QED BY <1>1, <4>1 DEF Entries
    <3> QED BY <3>1, <3>2
  <2>2. ASSUME NEW p \in 1..(Len(s) - 1) PROVE Tail(s)[p] \in Entries(s)
    <3>1. p + 1 \in 1..Len(s)
      BY <1>1
    <3> QED BY <1>1, <3>1 DEF Entries
  <2>3. Head(s) \in Entries(s)
    BY <1>1 DEF Entries
  <2>4. Entries(s) \subseteq Entries(Tail(s)) \union {Head(s)}
    BY <1>1, <2>1 DEF Entries
  <2>5. Entries(Tail(s)) \subseteq Entries(s)
    BY <1>1, <2>2 DEF Entries
  <2> QED BY <2>3, <2>4, <2>5
<1>4. ASSUME \A p, q \in DOMAIN s : s[p] = s[q] => p = q
      PROVE  /\ Head(s) \notin Entries(Tail(s))
             /\ \A p, q \in DOMAIN Tail(s) : Tail(s)[p] = Tail(s)[q] => p = q
  <2>1. ASSUME NEW p \in 1..(Len(s) - 1) PROVE Tail(s)[p] # Head(s)
    <3>1. p + 1 \in 1..Len(s) /\ 1 \in 1..Len(s) /\ p + 1 # 1
      BY <1>1
    <3> QED BY <1>1, <1>4, <3>1
  <2>2. ASSUME NEW p \in 1..(Len(s) - 1), NEW q \in 1..(Len(s) - 1), Tail(s)[p] = Tail(s)[q]
        PROVE  p = q
    <3>1. p + 1 \in 1..Len(s) /\ q + 1 \in 1..Len(s) /\ s[p + 1] = s[q + 1]
      BY <1>1, <2>2
    <3>2. p + 1 = q + 1
      BY <1>1, <1>4, <3>1
    <3> QED BY <3>2
  <2> QED BY <1>1, <2>1, <2>2 DEF Entries
<1> QED BY <1>1, <1>2, <1>3, <1>4

LEMMA EntriesPrepended ==
  ASSUME NEW S, NEW s \in Seq(S), NEW x \in S
  PROVE  /\ <<x>> \o s \in Seq(S) /\ Len(<<x>> \o s) = Len(s) + 1 /\ Len(s) \in Nat
         /\ Entries(<<x>> \o s) = Entries(s) \union {x}
         /\ (\A p, q \in DOMAIN s : s[p] = s[q] => p = q) /\ x \notin Entries(s) =>
              \A p, q \in DOMAIN (<<x>> \o s) : (<<x>> \o s)[p] = (<<x>> \o s)[q] => p = q
<1>1. PICK u : u = <<x>> \o s
  OBVIOUS
<1>2. /\ u \in Seq(S) /\ Len(u) = Len(s) + 1 /\ Len(s) \in Nat /\ u[1] = x
      /\ \A p \in 1..Len(s) : u[p + 1] = s[p]
      /\ DOMAIN u = 1..(Len(s) + 1) /\ DOMAIN s = 1..Len(s)
  BY <1>1
<1>3. ASSUME NEW p \in 1..(Len(s) + 1), p # 1 PROVE p - 1 \in 1..Len(s) /\ u[p] = s[p - 1]
  <2>1. p - 1 \in 1..Len(s) /\ (p - 1) + 1 = p
    BY <1>2, <1>3
  <2> QED BY <1>2, <2>1
<1>4. Entries(u) = Entries(s) \union {x}
  <2>1. Entries(u) \subseteq Entries(s) \union {x}
    <3> SUFFICES ASSUME NEW p \in 1..(Len(s) + 1) PROVE u[p] \in Entries(s) \union {x}
      BY <1>2 DEF Entries
    <3>1. CASE p = 1
      BY <1>2, <3>1
    <3>2. CASE p # 1
      <4>1. p - 1 \in DOMAIN s /\ u[p] = s[p - 1]
        BY <1>2, <1>3, <3>2
      <4> QED BY <4>1 DEF Entries
    <3> QED BY <3>1, <3>2
  <2>2. ASSUME NEW p \in 1..Len(s) PROVE s[p] \in Entries(u)
    <3>1. p + 1 \in 1..(Len(s) + 1)
      BY <1>2
    <3> QED BY <1>2, <3>1 DEF Entries
  <2>3. x \in Entries(u)
    BY <1>2 DEF Entries
  <2>4. Entries(s) \subseteq Entries(u)
    BY <1>2, <2>2 DEF Entries
  <2> QED BY <2>1, <2>3, <2>4
<1>5. ASSUME \A p, q \in DOMAIN s : s[p] = s[q] => p = q, x \notin Entries(s),
             NEW p \in DOMAIN u, NEW q \in DOMAIN u, u[p] = u[q]
      PROVE  p = q
  <2>1. CASE p # 1 /\ q # 1
    <3>1. p - 1 = q - 1
      <4>1. p - 1 \in DOMAIN s /\ u[p] = s[p - 1] /\ q - 1 \in DOMAIN s /\ u[q] = s[q - 1]
        BY <1>2, <1>3, <2>1
      <4>2. s[p - 1] = s[q - 1]
        BY <1>5, <4>1
      <4> QED BY <1>5, <4>1, <4>2
    <3> QED BY <1>2, <3>1
  <2>2. CASE p = 1 \/ q = 1
    <3>1. ASSUME NEW k \in 1..(Len(s) + 1), k # 1 PROVE u[k] # x
      <4>2. k - 1 \in DOMAIN s /\ u[k] = s[k - 1]
        BY <1>2, <1>3, <3>1
      <4>1. u[k] \in Entries(s)
        BY <4>2 DEF Entries
      <4> QED BY <1>5, <4>1
    <3> QED BY <1>2, <1>5, <2>2, <3>1
  <2> QED BY <2>1, <2>2
<1> QED BY <1>1, <1>2, <1>4, <1>5

-----------------------------------------------------------------------------
(* What the steps of a launcher do to the workers that it has.             *)

\* Taking the oldest pending worker in hand instead of the one that was.
LEMMA AfterPopOld ==
  ASSUME NEW r \in Launcher, r.pending # <<>>, NEW pc \in Places, NEW u, u = PopOld(r, pc)
  PROVE  /\ u \in Launcher /\ u.pc = pc /\ u.old # Empty
         /\ Len(u.pending) = Len(r.pending) - 1 /\ Len(r.pending) \in Nat
         /\ u.n = r.n /\ u.i = r.i /\ u.job = r.job /\ u.slot = r.slot /\ u.put = r.put
         /\ u.worker = r.worker /\ u.all_done = r.all_done /\ u.then = r.then
         /\ Apart(r) => Apart(u) /\ Held(u) = Held(r) \ {r.old}
         /\ GivenWork(u) = Entries(r.pending)
<1>1. PICK x : x = Head(r.pending)
  OBVIOUS
<1>2. PICK v : v = Tail(r.pending)
  OBVIOUS
<1>3. r.pending \in Seq(Workers)
  BY DEF Launcher
<1>4. u = [r EXCEPT !.old = x, !.pending = v, !.pc = pc]
  BY <1>1, <1>2 DEF PopOld
<1>5. /\ v \in Seq(Workers) /\ Len(v) = Len(r.pending) - 1 /\ x \in Workers
      /\ Entries(r.pending) = Entries(v) \union {x}
      /\ (\A p, q \in DOMAIN r.pending : r.pending[p] = r.pending[q] => p = q) =>
           x \notin Entries(v) /\ \A p, q \in DOMAIN v : v[p] = v[q] => p = q
  BY <1>1, <1>2, <1>3, EntriesOfTail
<1>6. /\ u.pc = pc /\ u.old = x /\ u.pending = v
      /\ u.n = r.n /\ u.i = r.i /\ u.job = r.job /\ u.slot = r.slot /\ u.put = r.put
      /\ u.worker = r.worker /\ u.all_done = r.all_done /\ u.then = r.then
  BY <1>4 DEF Launcher
<1>7. u \in Launcher
  BY <1>4, <1>5 DEF Launcher, Ids
<1>8. x # Empty /\ Len(r.pending) \in Nat
  BY <1>3, <1>5, IdsAreNumbers
<1>9. Apart(r) => Apart(u) /\ Held(u) = Held(r) \ {r.old}
  BY <1>5, <1>6, <1>8 DEF Apart, Held
<1>10. GivenWork(u) = Entries(r.pending)
  <2>1. Empty \notin Entries(r.pending)
    BY <1>3, EntriesOf, IdsAreNumbers
  <2> QED BY <1>5, <1>6, <2>1 DEF GivenWork
<1> QED BY <1>5, <1>6, <1>7, <1>8, <1>9, <1>10

\* launch() is left: a launcher without a job, a worker in hand or a pending one.
LEMMA AfterLeft ==
  ASSUME NEW r \in Launcher, NEW u, u = Left(r)
  PROVE  /\ u \in Launcher /\ u.pc = "idle" /\ u.n = r.n /\ u.i = 0 /\ u.job = Empty
         /\ u.worker = Empty /\ u.old = Empty /\ u.pending = <<>> /\ u.all_done = FALSE
         /\ u.then = "none" /\ Apart(u) /\ Held(u) = {}
<1>1. u = [pc |-> "idle", n |-> r.n, i |-> 0, job |-> Empty, slot |-> 0, put |-> 0,
           worker |-> Empty, old |-> Empty, pending |-> <<>>, all_done |-> FALSE, then |-> "none"]
  BY DEF Left, NoLauncher
<1>2. u \in Launcher
  <2>1. <<>> \in Seq(Workers)
    OBVIOUS
  <2>2. r.n \in {0} \union ReqSizes
    BY DEF Launcher
  <2>3. 0 \in Rows
    BY IdsAreNumbers
  <2> QED BY <1>1, <2>1, <2>2, <2>3 DEF Launcher, Places, Ids
<1>3. Entries(<<>>) = {} /\ DOMAIN <<>> = {}
  BY DEF Entries
<1>4. /\ u.pc = "idle" /\ u.n = r.n /\ u.i = 0 /\ u.job = Empty /\ u.worker = Empty
      /\ u.old = Empty /\ u.then = "none"
  BY <1>1
<1>5. u.pending = <<>>
  BY <1>1
<1>6. u.all_done = FALSE
  BY <1>1
<1> QED BY <1>2, <1>3, <1>4, <1>5, <1>6 DEF Apart, Held

\* The pending workers are drained, or the flag is waited for.
LEMMA AfterDrain ==
  ASSUME NEW r \in Launcher, NEW u, u = Drain(r)
  PROVE  /\ u \in Launcher /\ u.n = r.n /\ u.i = r.i /\ u.job = r.job /\ u.worker = r.worker
         /\ u.all_done = r.all_done /\ u.then = r.then
         /\ \/ u.pc = "drain" /\ u.old # Empty /\ GivenWork(u) = Entries(r.pending)
            \/ u.pc = "flag" /\ u.old = Empty /\ u.pending = <<>> /\ r.pending = <<>>
         /\ Len(u.pending) <= Len(r.pending)
         /\ Apart(r) => Apart(u) /\ Held(u) = Held(r) \ {r.old}
<1>1. r.pending \in Seq(Workers)
  BY DEF Launcher
<1>2. CASE r.pending # <<>>
  <2>1. u = PopOld(r, "drain") /\ "drain" \in Places
    BY <1>2 DEF Drain, Places
  <2>2. PICK pc \in Places : pc = "drain"
    BY <2>1
  <2>3. u = PopOld(r, pc)
    BY <2>1, <2>2
  <2>4. /\ u \in Launcher /\ u.n = r.n /\ u.i = r.i /\ u.job = r.job /\ u.worker = r.worker
        /\ u.all_done = r.all_done /\ u.then = r.then /\ u.pc = pc /\ u.old # Empty
    BY <1>2, <2>3, AfterPopOld
  <2>5. Len(u.pending) = Len(r.pending) - 1 /\ Len(r.pending) \in Nat
    BY <1>2, <2>3, AfterPopOld
  <2>6. Apart(r) => Apart(u) /\ Held(u) = Held(r) \ {r.old}
    BY <1>2, <2>3, AfterPopOld
  <2>7. GivenWork(u) = Entries(r.pending)
    BY <1>2, <2>3, AfterPopOld
  <2>8. Len(u.pending) <= Len(r.pending)
    BY <2>5
  <2> QED BY <2>2, <2>4, <2>6, <2>7, <2>8
<1>3. CASE r.pending = <<>>
  <2>1. u = [r EXCEPT !.pc = "flag", !.old = Empty]
    BY <1>3 DEF Drain
  <2>2. /\ u.pc = "flag" /\ u.old = Empty /\ u.pending = <<>> /\ u.n = r.n /\ u.i = r.i
        /\ u.job = r.job /\ u.worker = r.worker /\ u.all_done = r.all_done /\ u.then = r.then
    BY <1>3, <2>1 DEF Launcher
  <2>3. u \in Launcher
    BY <2>1 DEF Launcher, Places, Ids
  <2>4. Apart(r) => Apart(u) /\ Held(u) = Held(r) \ {r.old}
    BY <1>3, <2>2 DEF Apart, Held, Entries
  <2> QED BY <1>3, <2>2, <2>3, <2>4
<1> QED BY <1>2, <1>3

\* The next query, or wait().
LEMMA AfterAdvance ==
  ASSUME NEW r \in Launcher, r.n \in ReqSizes, r.i < r.n, NEW u, u = Advance(r)
  PROVE  /\ u \in Launcher /\ u.n = r.n /\ u.job = r.job /\ u.worker = r.worker
         /\ u.all_done = r.all_done /\ u.then = r.then
         /\ \/ /\ u.pc = "stand" /\ u.i = r.i + 1 /\ u.i < u.n /\ u.old = Empty
               /\ u.pending = r.pending
            \/ /\ u.pc = "drain" /\ u.i = r.i /\ u.i + 1 = u.n /\ u.old # Empty
               /\ GivenWork(u) = Entries(r.pending)
            \/ /\ u.pc = "flag" /\ u.i = r.i /\ u.i + 1 = u.n /\ u.old = Empty
               /\ u.pending = <<>> /\ r.pending = <<>>
         /\ Len(u.pending) <= Len(r.pending)
         /\ Apart(r) => Apart(u) /\ Held(u) = Held(r) \ {r.old}
<1>1. r.pending \in Seq(Workers) /\ r.i \in Nat /\ r.n \in Nat /\ r.n <= MaxSize
  <2>1. r.n \in Nat /\ r.n <= MaxSize
    BY MaxSizeType
  <2>2. r.i \in Rows /\ r.pending \in Seq(Workers)
    BY DEF Launcher
  <2> QED BY <2>1, <2>2, MaxSizeType DEF Rows
<1>2. CASE r.i + 1 < r.n
  <2>1. u = [r EXCEPT !.i = r.i + 1, !.pc = "stand", !.old = Empty]
    BY <1>2 DEF Advance
  <2>2. /\ u.pc = "stand" /\ u.old = Empty /\ u.pending = r.pending /\ u.n = r.n /\ u.i = r.i + 1
        /\ u.job = r.job /\ u.worker = r.worker /\ u.all_done = r.all_done /\ u.then = r.then
    BY <2>1 DEF Launcher
  <2>3. r.i + 1 \in Rows
    BY <1>1, <1>2, MaxSizeType DEF Rows
  <2>4. u \in Launcher
    BY <2>1, <2>3 DEF Launcher, Places, Ids
  <2>5. Apart(r) => Apart(u) /\ Held(u) = Held(r) \ {r.old}
    BY <2>2 DEF Apart, Held
  <2> QED BY <1>1, <1>2, <2>2, <2>4, <2>5
<1>3. CASE ~(r.i + 1 < r.n)
  <2>1. u = Drain(r) /\ r.i + 1 = r.n
    BY <1>1, <1>3 DEF Advance
  <2> QED BY <2>1, AfterDrain
<1> QED BY <1>2, <1>3

\* A worker that has been given work is remembered.
LEMMA AfterKeep ==
  ASSUME NEW r \in Launcher, r.n \in ReqSizes, r.i < r.n, r.worker # Empty,
         NEW u, u = Keep(r)
  PROVE  /\ u \in Launcher /\ u.n = r.n /\ u.job = r.job /\ u.worker = Empty
         /\ u.all_done = r.all_done /\ u.then = r.then
         /\ \/ /\ u.pc = "soft" /\ u.i = r.i /\ u.old # Empty
               /\ Len(u.pending) = Len(r.pending)
               /\ GivenWork(u) = Entries(r.pending) \union {r.worker}
            \/ /\ u.pc = "stand" /\ u.i = r.i + 1 /\ u.i < u.n /\ u.old = Empty
               /\ Entries(u.pending) = Entries(r.pending) \union {r.worker}
            \/ /\ u.pc = "drain" /\ u.i = r.i /\ u.i + 1 = u.n /\ u.old # Empty
               /\ GivenWork(u) = Entries(r.pending) \union {r.worker}
         /\ Len(u.pending) <= Len(r.pending) + 1
         /\ Apart(r) => Apart(u) /\ Held(u) = Held(r) \ {r.old}
<1>1. r.pending \in Seq(Workers) /\ r.worker \in Workers
  BY DEF Launcher, Ids
<1>2. PICK s : s = Append(r.pending, r.worker)
  OBVIOUS
<1>3. /\ s \in Seq(Workers) /\ Len(s) = Len(r.pending) + 1 /\ Len(r.pending) \in Nat
      /\ Entries(s) = Entries(r.pending) \union {r.worker} /\ s # <<>>
  BY <1>1, <1>2, EntriesAppended, EntriesOf
<1>4. PICK k : k = [r EXCEPT !.pending = s, !.worker = Empty, !.old = Empty]
  OBVIOUS
<1>5. /\ k.pending = s /\ k.worker = Empty /\ k.old = Empty /\ k.n = r.n /\ k.i = r.i
      /\ k.job = r.job /\ k.all_done = r.all_done /\ k.then = r.then /\ k.pc = r.pc
  BY <1>4 DEF Launcher
<1>6. k \in Launcher
  BY <1>3, <1>4 DEF Launcher, Ids
<1>7. Apart(r) => Apart(k) /\ Held(k) = Held(r) \ {r.old}
  <2> SUFFICES ASSUME Apart(r) PROVE Apart(k) /\ Held(k) = Held(r) \ {r.old}
    OBVIOUS
  <2>1. r.worker # r.old /\ r.worker \notin Entries(r.pending) /\ r.worker # Empty
    BY DEF Apart
  <2>2. Held(k) = Held(r) \ {r.old}
    <3>1. r.old # Empty => r.old \notin Entries(r.pending)
      BY DEF Apart
    <3>2. Empty \notin Entries(r.pending)
      BY <1>1, EntriesOf, IdsAreNumbers
    <3> QED BY <1>3, <1>5, <2>1, <3>1, <3>2 DEF Held
  <2>3. ASSUME NEW p \in DOMAIN s, NEW q \in DOMAIN s, s[p] = s[q] PROVE p = q
    <3>1. /\ \A l \in 1..Len(r.pending) : s[l] = r.pending[l]
          /\ s[Len(r.pending) + 1] = r.worker
          /\ DOMAIN s = 1..(Len(r.pending) + 1) /\ DOMAIN r.pending = 1..Len(r.pending)
      BY <1>1, <1>2
    <3>2. \A l \in 1..Len(r.pending) : r.pending[l] # r.worker
      BY <2>1, <3>1 DEF Entries
    <3>3. p \in 1..Len(r.pending) \/ p = Len(r.pending) + 1
      BY <1>3, <2>3, <3>1
    <3>4. q \in 1..Len(r.pending) \/ q = Len(r.pending) + 1
      BY <1>3, <2>3, <3>1
    <3>5. CASE p \in 1..Len(r.pending) /\ q \in 1..Len(r.pending)
      BY <2>3, <3>1, <3>5 DEF Apart
    <3> QED BY <2>3, <3>1, <3>2, <3>3, <3>4, <3>5
  <2> QED BY <1>5, <2>2, <2>3 DEF Apart
<1>8. u = IF r.i >= SoftMax THEN PopOld(k, "soft") ELSE Advance(k)
  BY <1>2, <1>4 DEF Keep
<1>9. r.pending # <<>> \/ Entries(r.pending) = {}
  BY DEF Entries
<1>10. CASE r.i >= SoftMax
  <2>1. PICK pc \in Places : pc = "soft"
    BY DEF Places
  <2>2. u = PopOld(k, pc) /\ k.pending # <<>>
    BY <1>3, <1>5, <1>8, <1>10, <2>1
  <2>3. /\ u \in Launcher /\ u.n = k.n /\ u.i = k.i /\ u.job = k.job /\ u.pc = pc
        /\ u.old # Empty
    BY <1>6, <2>2, AfterPopOld
  <2>9. u.worker = k.worker /\ u.all_done = k.all_done /\ u.then = k.then
    BY <1>6, <2>2, AfterPopOld
  <2>4. Len(u.pending) = Len(k.pending) - 1
    BY <1>6, <2>2, AfterPopOld
  <2>5. ASSUME Apart(k) PROVE Apart(u) /\ Held(u) = Held(k) \ {k.old}
    <3>1. Apart(u)
      BY <1>6, <2>2, <2>5, AfterPopOld
    <3>2. Held(u) = Held(k) \ {k.old}
      BY <1>6, <2>2, <2>5, AfterPopOld
    <3> QED BY <3>1, <3>2
  <2>6. GivenWork(u) = Entries(k.pending)
    BY <1>6, <2>2, AfterPopOld
  <2>7. Len(u.pending) = Len(r.pending) /\ Len(u.pending) <= Len(r.pending) + 1
    BY <1>3, <1>5, <2>4
  <2>8. Apart(r) => Apart(u) /\ Held(u) = Held(r) \ {r.old}
    <3>1. Empty \notin Held(r)
      BY DEF Held
    <3> QED BY <1>5, <1>7, <2>5, <3>1
  <2> QED BY <1>3, <1>5, <2>1, <2>3, <2>6, <2>7, <2>8, <2>9
<1>11. CASE ~(r.i >= SoftMax)
  <2>1. u = Advance(k) /\ k.n \in ReqSizes /\ k.i < k.n
    BY <1>5, <1>8, <1>11
  <2>2. /\ u \in Launcher /\ u.n = k.n /\ u.job = k.job /\ u.worker = k.worker
        /\ u.all_done = k.all_done /\ u.then = k.then
    BY <1>6, <2>1, AfterAdvance
  <2>3. \/ /\ u.pc = "stand" /\ u.i = k.i + 1 /\ u.i < u.n /\ u.old = Empty
           /\ u.pending = k.pending
        \/ /\ u.pc = "drain" /\ u.i = k.i /\ u.i + 1 = u.n /\ u.old # Empty
           /\ GivenWork(u) = Entries(k.pending)
    BY <1>3, <1>5, <1>6, <2>1, AfterAdvance
  <2>4. Len(u.pending) <= Len(k.pending)
    BY <1>6, <2>1, AfterAdvance
  <2>5. Apart(k) => Apart(u) /\ Held(u) = Held(k) \ {k.old}
    BY <1>6, <2>1, AfterAdvance
  <2>6. Len(u.pending) <= Len(r.pending) + 1
    BY <1>3, <1>5, <2>4
  <2>7. Apart(r) => Apart(u) /\ Held(u) = Held(r) \ {r.old}
    <3>1. Empty \notin Held(r)
      BY DEF Held
    <3> QED BY <1>5, <1>7, <2>5, <3>1
  <2>8. \/ /\ u.pc = "stand" /\ u.i = r.i + 1 /\ u.i < u.n /\ u.old = Empty
           /\ Entries(u.pending) = Entries(r.pending) \union {r.worker}
        \/ /\ u.pc = "drain" /\ u.i = r.i /\ u.i + 1 = u.n /\ u.old # Empty
           /\ GivenWork(u) = Entries(r.pending) \union {r.worker}
    BY <1>3, <1>5, <2>3
  <2> QED BY <1>5, <2>2, <2>6, <2>7, <2>8
<1> QED BY <1>10, <1>11

\* After an exception the next pending worker is taken in hand, or launch() is left.
LEMMA AfterCleanUp ==
  ASSUME NEW r \in Launcher, r.worker = Empty, r.job = Empty, NEW u, u = CleanUp(r)
  PROVE  /\ u \in Launcher /\ u.n = r.n /\ u.job = Empty /\ u.worker = Empty
         /\ \/ u.pc = "cleanup" /\ u.old # Empty /\ u.i = r.i /\ u.all_done = r.all_done
            \/ u = Left(r)
         /\ Len(u.pending) <= Len(r.pending)
         /\ Apart(r) => Apart(u) /\ Held(u) = Held(r) \ {r.old}
<1>1. r.pending \in Seq(Workers)
  BY DEF Launcher
<1>2. CASE r.pending # <<>>
  <2>1. PICK pc \in Places : pc = "cleanup"
    BY DEF Places
  <2>2. u = PopOld(r, pc)
    BY <1>2, <2>1 DEF CleanUp
  <2>3. /\ u \in Launcher /\ u.n = r.n /\ u.i = r.i /\ u.job = r.job /\ u.worker = r.worker
        /\ u.all_done = r.all_done /\ u.pc = pc /\ u.old # Empty
    BY <1>2, <2>2, AfterPopOld
  <2>4. Len(u.pending) = Len(r.pending) - 1 /\ Len(r.pending) \in Nat
    BY <1>2, <2>2, AfterPopOld
  <2>5. Apart(r) => Apart(u) /\ Held(u) = Held(r) \ {r.old}
    BY <1>2, <2>2, AfterPopOld
  <2>6. Len(u.pending) <= Len(r.pending)
    BY <2>4
  <2> QED BY <2>1, <2>3, <2>5, <2>6
<1>3. CASE r.pending = <<>>
  <2>1. u = Left(r)
    BY <1>3 DEF CleanUp
  <2>2. /\ u \in Launcher /\ u.n = r.n /\ u.job = Empty /\ u.worker = Empty
        /\ u.pending = <<>> /\ Apart(u) /\ Held(u) = {}
    BY <2>1, AfterLeft
  <2>3. Held(r) \ {r.old} = {}
    BY <1>3 DEF Held, Entries
  <2>4. Len(u.pending) <= Len(r.pending)
    BY <1>3, <2>2
  <2> QED BY <2>1, <2>2, <2>3, <2>4
<1> QED BY <1>2, <1>3

\* The worker in hand is pending again.
LEMMA AfterReturn ==
  ASSUME NEW r \in Launcher, r.old # Empty, NEW u, u = Return(r)
  PROVE  /\ u \in Launcher /\ u.n = r.n /\ u.i = r.i /\ u.job = r.job /\ u.worker = r.worker
         /\ u.all_done = r.all_done /\ u.then = r.then /\ u.pc = r.pc /\ u.slot = r.slot
         /\ u.old = Empty /\ Len(u.pending) = Len(r.pending) + 1 /\ Len(r.pending) \in Nat
         /\ Entries(u.pending) = Entries(r.pending) \union {r.old}
         /\ Apart(r) => Apart(u) /\ Held(u) = Held(r)
<1>1. r.pending \in Seq(Workers) /\ r.old \in Workers
  BY DEF Launcher, Ids
<1>2. PICK s : s = <<r.old>> \o r.pending
  OBVIOUS
<1>3. /\ s \in Seq(Workers) /\ Len(s) = Len(r.pending) + 1 /\ Len(r.pending) \in Nat
      /\ Entries(s) = Entries(r.pending) \union {r.old}
  BY <1>1, <1>2, EntriesPrepended
<1>8. (\A p, q \in DOMAIN r.pending : r.pending[p] = r.pending[q] => p = q)
           /\ r.old \notin Entries(r.pending) =>
           \A p, q \in DOMAIN s : s[p] = s[q] => p = q
  BY <1>1, <1>2, EntriesPrepended
<1>4. u = [r EXCEPT !.pending = s, !.old = Empty]
  BY <1>2 DEF Return
<1>5. /\ u.pending = s /\ u.old = Empty /\ u.n = r.n /\ u.i = r.i /\ u.job = r.job
      /\ u.worker = r.worker /\ u.all_done = r.all_done /\ u.then = r.then /\ u.pc = r.pc
      /\ u.slot = r.slot
  BY <1>4 DEF Launcher
<1>6. u \in Launcher
  BY <1>3, <1>4 DEF Launcher, Ids
<1>7. Apart(r) => Apart(u) /\ Held(u) = Held(r)
  BY <1>3, <1>5, <1>8 DEF Apart, Held
<1> QED BY <1>3, <1>5, <1>6, <1>7

-----------------------------------------------------------------------------
(* What each step makes of the launcher of its thread.                     *)

LEMMA CapacityType ==
  ASSUME mode \in Modes, NEW r \in Launcher
  PROVE  /\ Capacity(r) \in Nat
         /\ r.n \in ReqSizes => Capacity(r) > 0
         /\ \A u \in Launcher : u.n = r.n => Capacity(u) = Capacity(r)
<1>1. mode.max_pending \in Nat /\ mode.max_pending > 0
  BY ModesAssumption
<1>2. r.n \in Nat /\ (r.n \in ReqSizes => r.n > 0)
  <2>1. r.n \in {0} \union ReqSizes
    BY DEF Launcher
  <2>2. CASE r.n \in ReqSizes
    BY <2>2, MaxSizeType
  <2>3. CASE r.n \notin ReqSizes
    BY <2>1, <2>3
  <2> QED BY <2>2, <2>3
<1>3. \A u \in Launcher : u.n = r.n => Capacity(u) = Capacity(r)
  BY DEF Capacity
<1>4. Capacity(r) = IF r.n <= mode.max_pending THEN r.n ELSE mode.max_pending
  BY DEF Capacity
<1> QED BY <1>1, <1>2, <1>3, <1>4

\* What a step of a launcher with queries in mailboxes leaves as it was.
Keeps(r, u) ==
  /\ u.n = r.n /\ u.job = r.job /\ u.all_done = r.all_done
  /\ Submitted(u) = Submitted(r) /\ Working(u) = Working(r)

\* A launcher without a job and workers.
LEMMA FreshLauncher ==
  ASSUME NEW pc \in Places, NEW n \in {0} \union ReqSizes, NEW k \in Nat
  PROVE  [pc |-> pc, n |-> n, i |-> 0, job |-> Empty, slot |-> k, put |-> 0,
          worker |-> Empty, old |-> Empty, pending |-> <<>>, all_done |-> FALSE,
          then |-> "none"] \in Launcher
<1>1. 0 \in Rows /\ <<>> \in Seq(Workers)
  BY IdsAreNumbers
<1> QED BY <1>1 DEF Launcher, Ids

LEMMA LaunchStep ==
  ASSUME NEW n \in ReqSizes, NEW k \in Nat, mode \in Modes,
         NEW u, u = [NoLauncher EXCEPT !.pc = "job", !.n = n, !.slot = k]
  PROVE  /\ u \in Launcher /\ LauncherInv(u) /\ Apart(u) /\ Held(u) = {}
         /\ u.pc = "job" /\ u.job = Empty
<1>1. /\ u.pc = "job" /\ u.n = n /\ u.i = 0 /\ u.job = Empty /\ u.slot = k /\ u.put = 0
      /\ u.worker = Empty /\ u.old = Empty /\ u.then = "none"
  BY DEF NoLauncher
<1>2. u.pending = <<>> /\ u.all_done = FALSE
  BY DEF NoLauncher
<1>3. u \in Launcher
  <2>1. PICK pc \in Places : pc = "job"
    BY DEF Places
  <2>2. PICK m \in {0} \union ReqSizes : m = n
    OBVIOUS
  <2>3. PICK v : v = [pc |-> pc, n |-> m, i |-> 0, job |-> Empty, slot |-> k, put |-> 0,
                      worker |-> Empty, old |-> Empty, pending |-> <<>>, all_done |-> FALSE,
                      then |-> "none"]
    OBVIOUS
  <2>4. v \in Launcher
    BY <2>3, FreshLauncher
  <2>5. u = [pc |-> "job", n |-> n, i |-> 0, job |-> Empty, slot |-> k, put |-> 0,
             worker |-> Empty, old |-> Empty, pending |-> <<>>, all_done |-> FALSE,
             then |-> "none"]
    BY DEF NoLauncher
  <2>6. u = v
    BY <2>1, <2>2, <2>3, <2>5
  <2> QED BY <2>4, <2>6
<1>4. Apart(u) /\ Held(u) = {}
  BY <1>1, <1>2 DEF Apart, Held, Entries
<1>5. LauncherInv(u)
  <2>1. Capacity(u) \in Nat /\ Len(u.pending) = 0 /\ n \in Nat /\ n > 0
    BY <1>2, <1>3, CapacityType, MaxSizeType
  <2> QED BY <1>1, <1>2, <2>1 DEF LauncherInv, Where
<1> QED BY <1>1, <1>3, <1>4, <1>5

LEMMA TakeJobStep ==
  ASSUME NEW r \in Launcher, LauncherInv(r), Apart(r), mode \in Modes, r.pc = "job",
         NEW j \in Jobs, NEW u, u = [r EXCEPT !.pc = "stand", !.slot = 0, !.job = j]
  PROVE  /\ u \in Launcher /\ LauncherInv(u) /\ Apart(u) /\ Held(u) = Held(r)
         /\ u.pc = "stand" /\ u.n = r.n /\ u.job = j /\ u.all_done = r.all_done
         /\ Submitted(u) = Submitted(r) /\ Working(u) = {}
<1>1. /\ u.pc = "stand" /\ u.n = r.n /\ u.i = r.i /\ u.job = j /\ u.worker = r.worker
      /\ u.old = r.old /\ u.then = r.then /\ u.pending = r.pending /\ u.all_done = r.all_done
  BY DEF Launcher
<1>2. u \in Launcher
  BY DEF Launcher, Places
<1>3. Capacity(u) = Capacity(r)
  BY <1>1, <1>2, CapacityType
<1>4. LauncherInv(u)
  BY <1>1, <1>3, IdsAreNumbers DEF LauncherInv, Where
<1>5. Held(u) = Held(r) /\ GivenWork(u) = GivenWork(r) /\ Apart(u)
  BY <1>1 DEF Held, GivenWork, Apart
<1>6. Submitted(u) = Submitted(r)
  BY <1>1 DEF Submitted, Where
<1>7. Working(u) = {}
  <2>1. r.pending = <<>> /\ r.old = Empty
    BY DEF LauncherInv, Where
  <2> QED BY <1>1, <2>1 DEF Working, Where, GivenWork, Entries
<1> QED BY <1>1, <1>2, <1>4, <1>5, <1>6, <1>7

LEMMA StandInLineStep ==
  ASSUME NEW r \in Launcher, LauncherInv(r), Apart(r), mode \in Modes, r.pc = "stand",
         NEW k \in Nat,
         NEW u, u = [r EXCEPT !.pc = IF r.i = 0 THEN "await" ELSE "test", !.slot = k]
  PROVE  /\ u \in Launcher /\ LauncherInv(u) /\ Apart(u) /\ Held(u) = Held(r)
         /\ u.pc \in {"await", "test"} /\ Keeps(r, u)
<1>1. /\ u.pc \in {"await", "test"} /\ u.n = r.n /\ u.i = r.i /\ u.job = r.job
      /\ u.worker = r.worker
      /\ u.old = r.old /\ u.then = r.then /\ u.pending = r.pending /\ u.all_done = r.all_done
  BY DEF Launcher
<1>2. u \in Launcher
  BY DEF Launcher, Places
<1>3. Capacity(u) = Capacity(r)
  BY <1>1, <1>2, CapacityType
<1>4. LauncherInv(u)
  BY <1>1, <1>3, IdsAreNumbers DEF LauncherInv, Where
<1>5. Held(u) = Held(r) /\ GivenWork(u) = GivenWork(r) /\ Apart(u)
  BY <1>1 DEF Held, GivenWork, Apart
<1>6. Keeps(r, u)
  BY <1>1, <1>5 DEF Submitted, Where, Keeps, Working
<1> QED BY <1>1, <1>2, <1>4, <1>5, <1>6

LEMMA TakeWorkerStep ==
  ASSUME NEW r \in Launcher, LauncherInv(r), Apart(r), mode \in Modes,
         r.pc \in {"await", "test"}, NEW w \in Workers, w \notin Held(r),
         NEW u, u = [r EXCEPT !.pc = "submit", !.slot = 0, !.worker = w]
  PROVE  /\ u \in Launcher /\ LauncherInv(u) /\ Apart(u) /\ Held(u) = Held(r) \union {w}
         /\ u.pc = "submit" /\ Keeps(r, u)
<1>1. /\ u.pc = "submit" /\ u.n = r.n /\ u.i = r.i /\ u.job = r.job /\ u.worker = w
      /\ u.old = r.old /\ u.then = r.then /\ u.pending = r.pending /\ u.all_done = r.all_done
  BY DEF Launcher
<1>2. u \in Launcher
  BY DEF Launcher, Places, Ids
<1>3. Capacity(u) = Capacity(r)
  BY <1>1, <1>2, CapacityType
<1>4. LauncherInv(u)
  BY <1>1, <1>3, IdsAreNumbers DEF LauncherInv, Where
<1>5. r.worker = Empty /\ w # Empty /\ r.old = Empty
  BY IdsAreNumbers DEF LauncherInv, Where
<1>6. Held(u) = Held(r) \union {w} /\ Apart(u)
  BY <1>1, <1>5 DEF Held, Apart
<1>7. GivenWork(u) = GivenWork(r)
  BY <1>1 DEF GivenWork
<1>8. Keeps(r, u)
  BY <1>1, <1>7 DEF Submitted, Where, Keeps, Working
<1> QED BY <1>1, <1>2, <1>4, <1>6, <1>8

LEMMA LeftStep ==
  ASSUME NEW r \in Launcher, mode \in Modes, NEW u, u = Left(r)
  PROVE  LauncherInv(u)
<1>1. /\ u \in Launcher /\ u.pc = "idle" /\ u.job = Empty /\ u.worker = Empty /\ u.old = Empty
      /\ u.pending = <<>> /\ u.all_done = FALSE /\ u.then = "none"
  BY AfterLeft
<1>2. Capacity(u) \in Nat /\ Len(u.pending) = 0
  BY <1>1, CapacityType
<1> QED BY <1>1, <1>2 DEF LauncherInv, Where

\* The next of the pending workers is tried while the promise is not kept.
LEMMA NextPollStep ==
  ASSUME NEW r \in Launcher, mode \in Modes, r.n \in ReqSizes, r.i < r.n, r.worker = Empty,
         r.job # Empty, r.then = "none", ~r.all_done, Len(r.pending) <= Capacity(r),
         r.pending # <<>>, Apart(r), NEW u, u = PopOld(r, "poll")
  PROVE  /\ u \in Launcher /\ LauncherInv(u) /\ Apart(u) /\ Held(u) = Held(r) \ {r.old}
         /\ u.pc = "poll" /\ u.n = r.n /\ u.job = r.job /\ ~u.all_done
         /\ Submitted(u) = r.i /\ Working(u) = Entries(r.pending)
<1>1. PICK pc \in Places : pc = "poll"
  BY DEF Places
<1>2. u = PopOld(r, pc)
  BY <1>1
<1>3. /\ u \in Launcher /\ u.pc = pc /\ u.old # Empty /\ u.n = r.n /\ u.i = r.i /\ u.job = r.job
  BY <1>2, AfterPopOld
<1>4. u.worker = r.worker /\ u.all_done = r.all_done /\ u.then = r.then
  BY <1>2, AfterPopOld
<1>5. Len(u.pending) = Len(r.pending) - 1 /\ Len(r.pending) \in Nat
  BY <1>2, AfterPopOld
<1>6. GivenWork(u) = Entries(r.pending)
  BY <1>2, AfterPopOld
<1>7. Apart(u)
  BY <1>2, AfterPopOld
<1>8. Held(u) = Held(r) \ {r.old}
  BY <1>2, AfterPopOld
<1>9. Capacity(u) = Capacity(r) /\ Capacity(r) \in Nat
  BY <1>3, CapacityType
<1>10. Len(u.pending) < Capacity(u) /\ Len(u.pending) <= Capacity(u)
  BY <1>5, <1>9
<1>11. LauncherInv(u)
  BY <1>1, <1>3, <1>4, <1>10 DEF LauncherInv, Where
<1>12. Working(u) = Entries(r.pending)
  BY <1>1, <1>3, <1>4, <1>6 DEF Working, Where
<1>13. Submitted(u) = r.i
  BY <1>1, <1>3 DEF Submitted, Where
<1>14. ~u.all_done
  BY <1>4
<1> QED BY <1>1, <1>3, <1>7, <1>8, <1>11, <1>12, <1>13, <1>14

LEMMA PollStep ==
  ASSUME NEW r \in Launcher, LauncherInv(r), Apart(r), mode \in Modes, r.pc = "test",
         r.pending # <<>>, NEW u, u = PopOld(r, "poll")
  PROVE  /\ u \in Launcher /\ LauncherInv(u) /\ Apart(u) /\ Held(u) = Held(r)
         /\ u.pc = "poll" /\ Keeps(r, u)
<1>1. /\ r.n \in ReqSizes /\ r.i < r.n /\ r.worker = Empty /\ r.old = Empty /\ r.job # Empty
      /\ r.then = "none" /\ Len(r.pending) <= Capacity(r)
  BY DEF LauncherInv, Where
<1>2. ~r.all_done
  BY DEF LauncherInv, Where
<1>3. /\ u \in Launcher /\ LauncherInv(u) /\ Apart(u)
      /\ u.pc = "poll" /\ u.n = r.n /\ u.job = r.job /\ ~u.all_done
  BY <1>1, <1>2, NextPollStep
<1>4. Held(u) = Held(r) \ {r.old}
  BY <1>1, <1>2, NextPollStep
<1>5. Submitted(u) = r.i
  BY <1>1, <1>2, NextPollStep
<1>6. Working(u) = Entries(r.pending)
  BY <1>1, <1>2, NextPollStep
<1>7. u.all_done = r.all_done
  BY <1>2, <1>3 DEF Launcher
<1>8. Held(u) = Held(r)
  BY <1>1, <1>4 DEF Held
<1>9. Working(u) = Working(r)
  <2>1. r.pending \in Seq(Workers)
    BY DEF Launcher
  <2>2. Empty \notin Entries(r.pending)
    BY <2>1, EntriesOf, IdsAreNumbers
  <2> QED BY <1>1, <1>6, <2>2 DEF Working, GivenWork, Where
<1>10. Submitted(u) = Submitted(r)
  BY <1>5 DEF Submitted, Where
<1> QED BY <1>3, <1>7, <1>8, <1>9, <1>10 DEF Keeps

\* submit_query with room in the local queue: the worker is remembered.
LEMMA KeepStep ==
  ASSUME NEW r \in Launcher, mode \in Modes, r.n \in ReqSizes, r.i < r.n, r.worker # Empty,
         r.job # Empty, r.then = "none", ~r.all_done, Len(r.pending) < Capacity(r), Apart(r),
         NEW u, u = Keep(r)
  PROVE  /\ u \in Launcher /\ LauncherInv(u) /\ Apart(u) /\ Held(u) = Held(r) \ {r.old}
         /\ u.pc \in {"soft", "stand", "drain"}
         /\ u.n = r.n /\ u.job = r.job /\ ~u.all_done
         /\ Submitted(u) = r.i + 1 /\ Working(u) = Entries(r.pending) \union {r.worker}
<1>1. /\ u \in Launcher /\ u.n = r.n /\ u.job = r.job /\ u.worker = Empty
      /\ u.all_done = r.all_done /\ u.then = r.then
  BY AfterKeep
<1>2. \/ /\ u.pc = "soft" /\ u.i = r.i /\ u.old # Empty
         /\ Len(u.pending) = Len(r.pending)
         /\ GivenWork(u) = Entries(r.pending) \union {r.worker}
      \/ /\ u.pc = "stand" /\ u.i = r.i + 1 /\ u.i < u.n /\ u.old = Empty
         /\ Entries(u.pending) = Entries(r.pending) \union {r.worker}
      \/ /\ u.pc = "drain" /\ u.i = r.i /\ u.i + 1 = u.n /\ u.old # Empty
         /\ GivenWork(u) = Entries(r.pending) \union {r.worker}
  BY AfterKeep
<1>3. Len(u.pending) <= Len(r.pending) + 1
  BY AfterKeep
<1>4. Apart(u)
  BY AfterKeep
<1>5. Held(u) = Held(r) \ {r.old}
  BY AfterKeep
<1>6. Capacity(u) = Capacity(r) /\ Capacity(r) \in Nat
  BY <1>1, CapacityType
<1>7. Len(u.pending) \in Nat /\ Len(r.pending) \in Nat
  BY <1>1 DEF Launcher
<1>8. Len(u.pending) <= Capacity(u)
  BY <1>3, <1>6, <1>7
<1>9. u.pc = "soft" => Len(u.pending) < Capacity(u)
  BY <1>2, <1>6
<1>10. LauncherInv(u)
  BY <1>1, <1>2, <1>8, <1>9 DEF LauncherInv, Where
<1>11. Working(u) = Entries(r.pending) \union {r.worker}
  <2>1. CASE u.pc = "stand"
    <3>1. u.pending \in Seq(Workers)
      BY <1>1 DEF Launcher
    <3>2. Empty \notin Entries(u.pending)
      BY <3>1, EntriesOf, IdsAreNumbers
    <3> QED BY <1>2, <2>1, <3>2 DEF Working, Where, GivenWork
  <2>2. CASE u.pc # "stand"
    BY <1>2, <2>2 DEF Working, Where
  <2> QED BY <2>1, <2>2
<1>12. Submitted(u) = r.i + 1
  BY <1>2 DEF Submitted, Where
<1>13. ~u.all_done
  BY <1>1
<1> QED BY <1>1, <1>2, <1>4, <1>5, <1>10, <1>11, <1>12, <1>13

LEMMA EvictStep ==
  ASSUME NEW r \in Launcher, LauncherInv(r), Apart(r), mode \in Modes, r.pc = "submit",
         ~(Len(r.pending) < Capacity(r)), NEW u, u = PopOld(r, "evict")
  PROVE  /\ u \in Launcher /\ LauncherInv(u) /\ Apart(u) /\ Held(u) = Held(r)
         /\ u.pc = "evict" /\ u.n = r.n /\ u.job = r.job /\ ~u.all_done
         /\ Submitted(u) = r.i + 1 /\ Working(u) = Entries(r.pending) \union {r.worker}
<1>1. PICK pc \in Places : pc = "evict"
  BY DEF Places
<1>2. u = PopOld(r, pc)
  BY <1>1
<1>3. r.n \in ReqSizes /\ r.old = Empty /\ r.worker # Empty /\ ~r.all_done /\ r.then = "none"
  BY DEF LauncherInv, Where
<1>4. r.pending # <<>>
  <2>1. Capacity(r) \in Nat /\ Capacity(r) > 0
    BY <1>3, CapacityType
  <2> QED BY <2>1
<1>5. /\ u \in Launcher /\ u.pc = pc /\ u.old # Empty /\ u.n = r.n /\ u.i = r.i /\ u.job = r.job
  BY <1>2, <1>4, AfterPopOld
<1>6. u.worker = r.worker /\ u.all_done = r.all_done /\ u.then = r.then
  BY <1>2, <1>4, AfterPopOld
<1>7. Len(u.pending) = Len(r.pending) - 1 /\ Len(r.pending) \in Nat
  BY <1>2, <1>4, AfterPopOld
<1>8. GivenWork(u) = Entries(r.pending)
  BY <1>2, <1>4, AfterPopOld
<1>9. Apart(u)
  BY <1>2, <1>4, AfterPopOld
<1>10. Held(u) = Held(r) \ {r.old}
  BY <1>2, <1>4, AfterPopOld
<1>11. Held(u) = Held(r)
  BY <1>3, <1>10 DEF Held
<1>12. Capacity(u) = Capacity(r) /\ Capacity(r) \in Nat
  BY <1>5, CapacityType
<1>13. Len(u.pending) < Capacity(u) /\ Len(u.pending) <= Capacity(u)
  <2>1. Len(r.pending) <= Capacity(r)
    BY DEF LauncherInv
  <2> QED BY <1>7, <1>12, <2>1
<1>14. LauncherInv(u)
  BY <1>1, <1>5, <1>6, <1>13 DEF LauncherInv, Where
<1>15. Working(u) = Entries(r.pending) \union {r.worker}
  BY <1>1, <1>5, <1>6, <1>8 DEF Working, Where
<1>16. Submitted(u) = r.i + 1
  BY <1>1, <1>5 DEF Submitted, Where
<1>17. ~u.all_done
  BY <1>3, <1>6
<1> QED BY <1>1, <1>5, <1>9, <1>11, <1>14, <1>15, <1>16, <1>17

LEMMA TryReturnStep ==
  ASSUME NEW r \in Launcher, LauncherInv(r), Apart(r), mode \in Modes,
         r.pc \in {"poll", "evict", "soft", "drain"}, NEW k \in Nat,
         NEW u, u = [r EXCEPT !.pc = "push", !.then = r.pc, !.put = k]
  PROVE  /\ u \in Launcher /\ LauncherInv(u) /\ Apart(u) /\ Held(u) = Held(r)
         /\ u.pc = "push" /\ u.then = r.pc /\ u.n = r.n /\ u.job = r.job
         /\ u.all_done = r.all_done
         /\ Submitted(u) = Submitted(r) /\ Working(u) = Working(r) \ {r.old}
<1>1. /\ u.pc = "push" /\ u.n = r.n /\ u.i = r.i /\ u.job = r.job /\ u.worker = r.worker
      /\ u.old = r.old /\ u.then = r.pc /\ u.pending = r.pending /\ u.all_done = r.all_done
  BY DEF Launcher
<1>2. u \in Launcher
  BY DEF Launcher, Places
<1>3. Capacity(u) = Capacity(r)
  BY <1>1, <1>2, CapacityType
<1>4. Where(u) = Where(r) /\ Where(r) = r.pc
  BY <1>1 DEF Where
<1>5. LauncherInv(u)
  BY <1>1, <1>3, <1>4 DEF LauncherInv
<1>6. Held(u) = Held(r) /\ Apart(u)
  BY <1>1 DEF Held, Apart
<1>7. Submitted(u) = Submitted(r)
  BY <1>1, <1>4 DEF Submitted
<1>8. Working(u) = Working(r) \ {r.old}
  <2>1. r.old # Empty
    BY <1>4 DEF LauncherInv
  <2>2. r.old \notin Entries(r.pending)
    BY <2>1 DEF Apart
  <2>3. Empty \notin Entries(r.pending)
    BY EntriesOf, IdsAreNumbers DEF Launcher
  <2>4. r.pc = "evict" => r.worker # r.old
    BY <2>1, <1>4 DEF Apart, LauncherInv
  <2>5. GivenWork(r) = Entries(r.pending) \union {r.old}
    BY <2>1, <2>3 DEF GivenWork
  <2>6. CASE r.pc = "evict"
    <3>1. Working(u) = Entries(r.pending) \union {r.worker}
      BY <1>1, <1>4, <2>6 DEF Working
    <3>2. Working(r) = Entries(r.pending) \union {r.old} \union {r.worker}
      BY <1>4, <2>5, <2>6 DEF Working
    <3> QED BY <2>2, <2>4, <2>6, <3>1, <3>2
  <2>7. CASE r.pc # "evict"
    <3>1. Working(u) = Entries(r.pending)
      BY <1>1, <1>4, <2>7 DEF Working
    <3>2. Working(r) = Entries(r.pending) \union {r.old}
      BY <1>4, <2>5, <2>7 DEF Working
    <3> QED BY <2>2, <3>1, <3>2
  <2> QED BY <2>6, <2>7
<1> QED BY <1>1, <1>2, <1>5, <1>6, <1>7, <1>8

\* What advancing makes of a launcher with nothing in hand but the worker given back.
LEMMA AdvanceStep ==
  ASSUME NEW r \in Launcher, mode \in Modes, r.n \in ReqSizes, r.i < r.n, r.worker = Empty,
         r.job # Empty, r.then = "none", ~r.all_done, Len(r.pending) <= Capacity(r), Apart(r),
         NEW u, u = Advance(r)
  PROVE  /\ u \in Launcher /\ LauncherInv(u) /\ Apart(u) /\ Held(u) = Held(r) \ {r.old}
         /\ u.pc \in {"stand", "drain", "flag"} /\ u.n = r.n /\ u.job = r.job /\ ~u.all_done
         /\ Submitted(u) = r.i + 1 /\ Working(u) = Entries(r.pending)
<1>1. /\ u \in Launcher /\ u.n = r.n /\ u.job = r.job /\ u.worker = Empty
      /\ u.all_done = r.all_done /\ u.then = r.then
  BY AfterAdvance
<1>2. \/ /\ u.pc = "stand" /\ u.i = r.i + 1 /\ u.i < u.n /\ u.old = Empty
         /\ u.pending = r.pending
      \/ /\ u.pc = "drain" /\ u.i = r.i /\ u.i + 1 = u.n /\ u.old # Empty
         /\ GivenWork(u) = Entries(r.pending)
      \/ /\ u.pc = "flag" /\ u.i = r.i /\ u.i + 1 = u.n /\ u.old = Empty
         /\ u.pending = <<>> /\ r.pending = <<>>
  BY AfterAdvance
<1>3. Len(u.pending) <= Len(r.pending)
  BY AfterAdvance
<1>4. Apart(u)
  BY AfterAdvance
<1>5. Held(u) = Held(r) \ {r.old}
  BY AfterAdvance
<1>6. Capacity(u) = Capacity(r) /\ Capacity(r) \in Nat
  BY <1>1, CapacityType
<1>7. Len(u.pending) \in Nat /\ Len(r.pending) \in Nat
  BY <1>1 DEF Launcher
<1>8. Len(u.pending) <= Capacity(u)
  BY <1>3, <1>6, <1>7
<1>9. LauncherInv(u)
  BY <1>1, <1>2, <1>8 DEF LauncherInv, Where
<1>10. Working(u) = Entries(r.pending)
  <2>1. r.pending \in Seq(Workers)
    BY DEF Launcher
  <2>2. Empty \notin Entries(r.pending)
    BY <2>1, EntriesOf, IdsAreNumbers
  <2>3. CASE u.pc = "drain"
    BY <1>2, <2>3 DEF Working, Where
  <2>4. CASE u.pc \in {"stand", "flag"}
    <3>1. u.pending = r.pending /\ u.old = Empty
      BY <1>2, <2>4
    <3> QED BY <2>2, <2>4, <3>1 DEF Working, Where, GivenWork
  <2> QED BY <1>2, <2>3, <2>4
<1>11. Submitted(u) = r.i + 1
  BY <1>2 DEF Submitted, Where
<1>12. ~u.all_done
  BY <1>1
<1> QED BY <1>1, <1>2, <1>4, <1>5, <1>9, <1>10, <1>11, <1>12

LEMMA DrainStep ==
  ASSUME NEW r \in Launcher, mode \in Modes, r.n \in ReqSizes, r.i + 1 = r.n,
         r.worker = Empty, r.job # Empty, r.then = "none", Len(r.pending) <= Capacity(r),
         Apart(r), NEW u, u = Drain(r)
  PROVE  /\ u \in Launcher /\ LauncherInv(u) /\ Apart(u) /\ Held(u) = Held(r) \ {r.old}
         /\ u.pc \in {"drain", "flag"} /\ u.n = r.n /\ u.job = r.job /\ u.all_done = r.all_done
         /\ Submitted(u) = r.i + 1 /\ Working(u) = Entries(r.pending)
<1>1. /\ u \in Launcher /\ u.n = r.n /\ u.job = r.job /\ u.worker = Empty /\ u.i = r.i
      /\ u.all_done = r.all_done /\ u.then = r.then
  BY AfterDrain
<1>2. \/ u.pc = "drain" /\ u.old # Empty /\ GivenWork(u) = Entries(r.pending)
      \/ u.pc = "flag" /\ u.old = Empty /\ u.pending = <<>> /\ r.pending = <<>>
  BY AfterDrain
<1>3. Len(u.pending) <= Len(r.pending)
  BY AfterDrain
<1>4. Apart(u)
  BY AfterDrain
<1>5. Held(u) = Held(r) \ {r.old}
  BY AfterDrain
<1>6. Capacity(u) = Capacity(r) /\ Capacity(r) \in Nat
  BY <1>1, CapacityType
<1>7. Len(u.pending) \in Nat /\ Len(r.pending) \in Nat /\ r.i \in Nat /\ r.n \in Nat
  <2>1. r.i \in Nat
    BY IdsAreNumbers DEF Launcher
  <2>2. r.n \in Nat
    BY MaxSizeType
  <2> QED BY <1>1, <2>1, <2>2 DEF Launcher
<1>8. Len(u.pending) <= Capacity(u) /\ u.i < u.n
  BY <1>1, <1>3, <1>6, <1>7
<1>9. LauncherInv(u)
  BY <1>1, <1>2, <1>8 DEF LauncherInv, Where
<1>10. Working(u) = Entries(r.pending)
  <2>1. CASE u.pc = "drain"
    BY <1>2, <2>1 DEF Working, Where
  <2>2. CASE u.pc = "flag"
    <3>1. u.pending = r.pending /\ u.old = Empty /\ Entries(r.pending) = {}
      BY <1>2, <2>2 DEF Entries
    <3> QED BY <2>2, <3>1 DEF Working, Where, GivenWork
  <2> QED BY <1>2, <2>1, <2>2
<1>11. Submitted(u) = r.i + 1
  BY <1>1, <1>2 DEF Submitted, Where
<1> QED BY <1>1, <1>2, <1>4, <1>5, <1>9, <1>10, <1>11

\* After an exception: the next worker to push, or launch() is left.
LEMMA CleanUpStep ==
  ASSUME NEW r \in Launcher, mode \in Modes, r.n \in ReqSizes, r.i < r.n, r.worker = Empty,
         r.job = Empty, ~r.all_done, Len(r.pending) <= Capacity(r), Apart(r),
         NEW u, u = CleanUp(r)
  PROVE  /\ u \in Launcher /\ LauncherInv(u) /\ Apart(u) /\ Held(u) = Held(r) \ {r.old}
         /\ u.pc \in {"cleanup", "idle"} /\ u.n = r.n /\ u.job = Empty /\ ~u.all_done
<1>1. u \in Launcher /\ u.n = r.n /\ u.job = Empty /\ u.worker = Empty
  BY AfterCleanUp
<1>2. \/ u.pc = "cleanup" /\ u.old # Empty /\ u.i = r.i /\ u.all_done = r.all_done
      \/ u = Left(r)
  BY AfterCleanUp
<1>3. Len(u.pending) <= Len(r.pending)
  BY AfterCleanUp
<1>4. Apart(u)
  BY AfterCleanUp
<1>5. Held(u) = Held(r) \ {r.old}
  BY AfterCleanUp
<1>6. Capacity(u) = Capacity(r) /\ Capacity(r) \in Nat
  BY <1>1, CapacityType
<1>7. Len(u.pending) \in Nat /\ Len(r.pending) \in Nat
  BY <1>1 DEF Launcher
<1>8. Len(u.pending) <= Capacity(u)
  BY <1>3, <1>6, <1>7
<1>9. CASE u = Left(r)
  <2>1. LauncherInv(u)
    BY <1>9, LeftStep
  <2>2. u.pc = "idle"
    BY <1>9, AfterLeft
  <2>3. u.all_done = FALSE
    BY <1>9, AfterLeft
  <2> QED BY <1>1, <1>4, <1>5, <2>1, <2>2, <2>3
<1>10. CASE u.pc = "cleanup" /\ u.old # Empty /\ u.i = r.i /\ u.all_done = r.all_done
  <2>1. ~u.all_done
    BY <1>10
  <2>2. LauncherInv(u)
    BY <1>1, <1>8, <1>10, <2>1 DEF LauncherInv, Where
  <2> QED BY <1>1, <1>4, <1>5, <1>10, <2>1, <2>2
<1> QED BY <1>2, <1>9, <1>10

Placed(p) == [p EXCEPT !.put = 0, !.then = "none"]
Pushed(p, r, u) ==
  u = CASE p.then = "poll" /\ r.pending # <<>> -> PopOld(r, "poll")
        [] p.then = "poll" /\ r.pending = <<>> -> [r EXCEPT !.pc = "test", !.old = Empty]
        [] p.then = "evict"   -> Keep(r)
        [] p.then = "soft"    -> Advance(r)
        [] p.then = "drain"   -> Drain(r)
        [] p.then = "cleanup" -> CleanUp(r)

\* The worker in hand is in the queue; on to what the caller of push() does next.
LEMMA PushStep ==
  ASSUME NEW p \in Launcher, LauncherInv(p), Apart(p), mode \in Modes, p.pc = "push",
         NEW r, r = Placed(p),
         NEW u, Pushed(p, r, u)
  PROVE  /\ u \in Launcher /\ LauncherInv(u) /\ Apart(u) /\ Held(u) = Held(p) \ {p.old}
         /\ u.pc \in {"poll", "test", "soft", "stand", "drain", "flag", "cleanup", "idle"}
         /\ u.n = p.n /\ u.job = p.job /\ (p.then # "cleanup" => Keeps(p, u))
<1>1. /\ r.pc = "push" /\ r.n = p.n /\ r.i = p.i /\ r.job = p.job /\ r.worker = p.worker
      /\ r.old = p.old /\ r.then = "none" /\ r.pending = p.pending /\ r.all_done = p.all_done
  BY DEF Launcher, Placed
<1>2. r \in Launcher
  BY DEF Launcher, Placed
<1>3. Held(r) = Held(p) /\ Apart(r) /\ GivenWork(r) = GivenWork(p)
  BY <1>1 DEF Held, Apart, GivenWork
<1>4. Capacity(r) = Capacity(p) /\ Len(r.pending) <= Capacity(r)
  <2>1. Capacity(r) = Capacity(p)
    BY <1>1, <1>2, CapacityType
  <2> QED BY <1>1, <2>1 DEF LauncherInv
<1>5. r.n \in ReqSizes /\ r.i < r.n /\ Where(p) = p.then
  BY <1>1 DEF LauncherInv, Where
<1>6. p.then \in {"poll", "evict", "soft", "drain", "cleanup"}
  BY DEF Launcher, LauncherInv
<1>7. /\ p.worker = Empty <=> p.then # "evict"
      /\ p.old # Empty
      /\ p.job = Empty <=> p.then = "cleanup"
      /\ p.then \in {"poll", "evict", "soft"} => Len(p.pending) < Capacity(p)
      /\ p.then = "drain" => p.i + 1 = p.n
      /\ p.all_done => p.then = "drain"
  BY <1>5, <1>6 DEF LauncherInv
<1>8. Working(p) = Entries(p.pending) \union (IF p.then = "evict" THEN {p.worker} ELSE {})
  BY <1>5 DEF Working
<1>9. Submitted(p) = IF p.then = "poll" THEN p.i ELSE p.i + 1
  BY <1>5, <1>6 DEF Submitted
<1>16. /\ p.then # "evict" => r.worker = Empty
       /\ p.then # "cleanup" => r.job # Empty
       /\ p.then # "drain" => ~r.all_done
       /\ p.then = "drain" => r.i + 1 = r.n
  BY <1>1, <1>7
<1>10. CASE p.then = "poll" /\ r.pending # <<>>
  <2>1. u = PopOld(r, "poll") /\ r.worker = Empty /\ r.job # Empty
    <3>1. u = PopOld(r, "poll")
      BY <1>10 DEF Pushed
    <3> QED BY <1>10, <1>16, <3>1
  <2>2. ~r.all_done
    BY <1>10, <1>16
  <2>3. /\ u \in Launcher /\ LauncherInv(u) /\ Apart(u)
        /\ u.pc = "poll" /\ u.n = r.n /\ u.job = r.job /\ ~u.all_done
    <3>1. u \in Launcher /\ LauncherInv(u)
      BY <1>1, <1>2, <1>3, <1>4, <1>5, <1>10, <2>1, <2>2, NextPollStep
    <3>2. Apart(u)
      BY <1>1, <1>2, <1>3, <1>4, <1>5, <1>10, <2>1, <2>2, NextPollStep
    <3>3. u.pc = "poll" /\ u.n = r.n /\ u.job = r.job /\ ~u.all_done
      BY <1>1, <1>2, <1>3, <1>4, <1>5, <1>10, <2>1, <2>2, NextPollStep
    <3> QED BY <3>1, <3>2, <3>3
  <2>4. Held(u) = Held(r) \ {r.old}
    BY <1>1, <1>2, <1>3, <1>4, <1>5, <1>10, <2>1, <2>2, NextPollStep
  <2>5. Submitted(u) = r.i
    BY <1>1, <1>2, <1>3, <1>4, <1>5, <1>10, <2>1, <2>2, NextPollStep
  <2>6. Working(u) = Entries(r.pending)
    BY <1>1, <1>2, <1>3, <1>4, <1>5, <1>10, <2>1, <2>2, NextPollStep
  <2>7. u.all_done = p.all_done
    BY <1>1, <1>2, <2>2, <2>3 DEF Launcher
  <2>8. Keeps(p, u)
    BY <1>1, <1>8, <1>9, <1>10, <2>3, <2>5, <2>6, <2>7 DEF Keeps
  <2> QED BY <1>1, <1>3, <2>3, <2>4, <2>8
<1>11. CASE p.then = "poll" /\ r.pending = <<>>
  <2>1. u = [r EXCEPT !.pc = "test", !.old = Empty]
    BY <1>11 DEF Pushed
  <2>2. /\ u.pc = "test" /\ u.n = r.n /\ u.i = r.i /\ u.job = r.job /\ u.worker = r.worker
        /\ u.old = Empty /\ u.then = r.then /\ u.pending = r.pending /\ u.all_done = r.all_done
    BY <1>2, <2>1 DEF Launcher
  <2>3. u \in Launcher
    <3>1. "test" \in Places /\ Empty \in Ids
      BY DEF Places, Ids
    <3> QED BY <1>2, <2>1, <3>1 DEF Launcher
  <2>4. Capacity(u) = Capacity(r)
    BY <1>2, <2>2, <2>3, CapacityType
  <2>5. LauncherInv(u)
    BY <1>1, <1>4, <1>5, <1>7, <1>11, <2>2, <2>4 DEF LauncherInv, Where
  <2>6. Apart(u) /\ Held(u) = Held(r) \ {r.old} /\ Entries(u.pending) = {}
    BY <1>1, <1>7, <1>11, <2>2 DEF Apart, Held, Entries
  <2>7. Working(u) = Working(p)
    BY <1>1, <1>8, <1>11, <2>2, <2>6 DEF Working, Where, GivenWork
  <2>8. Submitted(u) = Submitted(p)
    BY <1>1, <1>9, <1>11, <2>2 DEF Submitted, Where
  <2> QED BY <1>1, <1>3, <2>2, <2>3, <2>5, <2>6, <2>7, <2>8 DEF Keeps
<1>12. CASE p.then = "evict"
  <2>1. u = Keep(r) /\ Len(r.pending) < Capacity(r) /\ r.worker # Empty /\ r.job # Empty
    BY <1>1, <1>4, <1>7, <1>12 DEF Pushed
  <2>2. ~r.all_done
    BY <1>12, <1>16
  <2>3. /\ u \in Launcher /\ LauncherInv(u) /\ Apart(u)
        /\ u.pc \in {"soft", "stand", "drain"} /\ u.n = r.n /\ u.job = r.job /\ ~u.all_done
    BY <1>1, <1>2, <1>3, <1>5, <2>1, <2>2, KeepStep
  <2>4. Held(u) = Held(r) \ {r.old}
    BY <1>1, <1>2, <1>3, <1>5, <2>1, <2>2, KeepStep
  <2>5. Submitted(u) = r.i + 1
    BY <1>1, <1>2, <1>3, <1>5, <2>1, <2>2, KeepStep
  <2>6. Working(u) = Entries(r.pending) \union {r.worker}
    BY <1>1, <1>2, <1>3, <1>5, <2>1, <2>2, KeepStep
  <2>7. u.all_done = p.all_done
    BY <1>1, <1>2, <2>2, <2>3 DEF Launcher
  <2>8. Keeps(p, u)
    BY <1>1, <1>8, <1>9, <1>12, <2>3, <2>5, <2>6, <2>7 DEF Keeps
  <2> QED BY <1>1, <1>3, <2>3, <2>4, <2>8
<1>13. CASE p.then = "soft"
  <2>1. u = Advance(r) /\ r.worker = Empty /\ r.job # Empty
    <3>1. u = Advance(r)
      BY <1>13 DEF Pushed
    <3> QED BY <1>13, <1>16, <3>1
  <2>2. ~r.all_done
    BY <1>13, <1>16
  <2>3. /\ u \in Launcher /\ LauncherInv(u) /\ Apart(u)
        /\ u.pc \in {"stand", "drain", "flag"} /\ u.n = r.n /\ u.job = r.job /\ ~u.all_done
    <3>1. u \in Launcher /\ LauncherInv(u)
      BY <1>1, <1>2, <1>3, <1>4, <1>5, <2>1, <2>2, AdvanceStep
    <3>2. Apart(u)
      BY <1>1, <1>2, <1>3, <1>4, <1>5, <2>1, <2>2, AdvanceStep
    <3>3. u.pc \in {"stand", "drain", "flag"} /\ u.n = r.n /\ u.job = r.job /\ ~u.all_done
      BY <1>1, <1>2, <1>3, <1>4, <1>5, <2>1, <2>2, AdvanceStep
    <3> QED BY <3>1, <3>2, <3>3
  <2>4. Held(u) = Held(r) \ {r.old}
    BY <1>1, <1>2, <1>3, <1>4, <1>5, <2>1, <2>2, AdvanceStep
  <2>5. Submitted(u) = r.i + 1
    BY <1>1, <1>2, <1>3, <1>4, <1>5, <2>1, <2>2, AdvanceStep
  <2>6. Working(u) = Entries(r.pending)
    BY <1>1, <1>2, <1>3, <1>4, <1>5, <2>1, <2>2, AdvanceStep
  <2>7. u.all_done = p.all_done
    BY <1>1, <1>2, <2>2, <2>3 DEF Launcher
  <2>8. Keeps(p, u)
    BY <1>1, <1>8, <1>9, <1>13, <2>3, <2>5, <2>6, <2>7 DEF Keeps
  <2> QED BY <1>1, <1>3, <2>3, <2>4, <2>8
<1>14. CASE p.then = "drain"
  <2>1. u = Drain(r) /\ r.worker = Empty /\ r.job # Empty /\ r.i + 1 = r.n
    <3>1. u = Drain(r)
      BY <1>14 DEF Pushed
    <3> QED BY <1>14, <1>16, <3>1
  <2>2. /\ u \in Launcher /\ LauncherInv(u) /\ Apart(u)
        /\ u.pc \in {"drain", "flag"} /\ u.n = r.n /\ u.job = r.job
    <3>1. u \in Launcher /\ LauncherInv(u)
      BY <1>1, <1>2, <1>3, <1>4, <1>5, <2>1, DrainStep
    <3>2. Apart(u)
      BY <1>1, <1>2, <1>3, <1>4, <1>5, <2>1, DrainStep
    <3>3. u.pc \in {"drain", "flag"} /\ u.n = r.n /\ u.job = r.job
      BY <1>1, <1>2, <1>3, <1>4, <1>5, <2>1, DrainStep
    <3> QED BY <3>1, <3>2, <3>3
  <2>3. Held(u) = Held(r) \ {r.old}
    BY <1>1, <1>2, <1>3, <1>4, <1>5, <2>1, DrainStep
  <2>4. Submitted(u) = r.i + 1
    BY <1>1, <1>2, <1>3, <1>4, <1>5, <2>1, DrainStep
  <2>5. Working(u) = Entries(r.pending)
    BY <1>1, <1>2, <1>3, <1>4, <1>5, <2>1, DrainStep
  <2>6. u.all_done = p.all_done
    BY <1>1, <1>2, <1>3, <1>4, <1>5, <2>1, DrainStep
  <2>7. Keeps(p, u)
    BY <1>1, <1>8, <1>9, <1>14, <2>2, <2>4, <2>5, <2>6 DEF Keeps
  <2> QED BY <1>1, <1>3, <2>2, <2>3, <2>7
<1>15. CASE p.then = "cleanup"
  <2>1. u = CleanUp(r) /\ r.worker = Empty /\ r.job = Empty
    BY <1>1, <1>7, <1>15 DEF Pushed
  <2>2. ~r.all_done
    BY <1>15, <1>16
  <2>3. /\ u \in Launcher /\ LauncherInv(u) /\ Apart(u)
        /\ u.pc \in {"cleanup", "idle"} /\ u.n = r.n /\ u.job = Empty
    BY <1>1, <1>2, <1>3, <1>4, <1>5, <2>1, <2>2, CleanUpStep
  <2>4. Held(u) = Held(r) \ {r.old}
    BY <1>1, <1>2, <1>3, <1>4, <1>5, <2>1, <2>2, CleanUpStep
  <2> QED BY <1>1, <1>3, <1>15, <2>1, <2>3, <2>4
<1> QED BY <1>6, <1>10, <1>11, <1>12, <1>13, <1>14, <1>15

LEMMA SubmitStep ==
  ASSUME NEW r \in Launcher, LauncherInv(r), Apart(r), mode \in Modes, r.pc = "submit",
         NEW u, u = IF Len(r.pending) < Capacity(r) THEN Keep(r) ELSE PopOld(r, "evict")
  PROVE  /\ u \in Launcher /\ LauncherInv(u) /\ Apart(u) /\ Held(u) = Held(r)
         /\ u.pc \in {"soft", "stand", "drain", "evict"} /\ u.n = r.n /\ u.job = r.job
         /\ u.all_done = r.all_done /\ Submitted(r) = r.i /\ Submitted(u) = r.i + 1
         /\ Working(u) = Working(r) \union {r.worker}
         /\ r.worker \in Workers /\ r.job \in Jobs
<1>1. /\ r.n \in ReqSizes /\ r.i < r.n /\ r.worker # Empty /\ r.old = Empty /\ r.job # Empty
      /\ r.then = "none"
  BY DEF LauncherInv, Where
<1>2. ~r.all_done
  BY DEF LauncherInv, Where
<1>3. Working(r) = Entries(r.pending)
  <2>1. r.pending \in Seq(Workers)
    BY DEF Launcher
  <2>2. Empty \notin Entries(r.pending)
    BY <2>1, EntriesOf, IdsAreNumbers
  <2> QED BY <1>1, <2>2 DEF Working, GivenWork, Where
<1>4. Submitted(r) = r.i
  BY DEF Submitted, Where
<1>5. r.worker \in Workers /\ r.job \in Jobs
  BY <1>1 DEF Launcher, Ids
<1>6. CASE Len(r.pending) < Capacity(r)
  <2>1. u = Keep(r)
    BY <1>6
  <2>2. /\ u \in Launcher /\ LauncherInv(u) /\ Apart(u)
        /\ u.pc \in {"soft", "stand", "drain"} /\ u.n = r.n /\ u.job = r.job /\ ~u.all_done
    BY <1>1, <1>2, <1>6, <2>1, KeepStep
  <2>3. Held(u) = Held(r) \ {r.old}
    BY <1>1, <1>2, <1>6, <2>1, KeepStep
  <2>4. Submitted(u) = r.i + 1
    BY <1>1, <1>2, <1>6, <2>1, KeepStep
  <2>5. Working(u) = Entries(r.pending) \union {r.worker}
    BY <1>1, <1>2, <1>6, <2>1, KeepStep
  <2>6. u.all_done = r.all_done
    BY <1>2, <2>2 DEF Launcher
  <2>7. Held(u) = Held(r)
    BY <1>1, <2>3 DEF Held
  <2> QED BY <1>3, <1>4, <1>5, <2>2, <2>4, <2>5, <2>6, <2>7
<1>7. CASE ~(Len(r.pending) < Capacity(r))
  <2>1. u = PopOld(r, "evict")
    BY <1>7
  <2>2. /\ u \in Launcher /\ LauncherInv(u) /\ Apart(u)
        /\ u.pc = "evict" /\ u.n = r.n /\ u.job = r.job /\ ~u.all_done
    BY <1>7, <2>1, EvictStep
  <2>3. Held(u) = Held(r)
    BY <1>7, <2>1, EvictStep
  <2>4. Submitted(u) = r.i + 1
    BY <1>7, <2>1, EvictStep
  <2>5. Working(u) = Entries(r.pending) \union {r.worker}
    BY <1>7, <2>1, EvictStep
  <2>6. u.all_done = r.all_done
    BY <1>2, <2>2 DEF Launcher
  <2> QED BY <1>3, <1>4, <1>5, <2>2, <2>3, <2>4, <2>5, <2>6
<1> QED BY <1>6, <1>7

\* Waiting calmly, asking for the flag, and looking at the mailbox again.
LEMMA AwaitStep ==
  ASSUME NEW r \in Launcher, LauncherInv(r), Apart(r), mode \in Modes, r.pc = "test",
         NEW u, u = [r EXCEPT !.pc = "await"]
  PROVE  /\ u \in Launcher /\ LauncherInv(u) /\ Apart(u) /\ Held(u) = Held(r)
         /\ u.pc = "await" /\ Keeps(r, u)
<1>1. /\ u.pc = "await" /\ u.n = r.n /\ u.i = r.i /\ u.job = r.job /\ u.worker = r.worker
      /\ u.old = r.old /\ u.then = r.then /\ u.pending = r.pending /\ u.all_done = r.all_done
  BY DEF Launcher
<1>2. u \in Launcher
  BY DEF Launcher, Places
<1>3. Capacity(u) = Capacity(r)
  BY <1>1, <1>2, CapacityType
<1>4. LauncherInv(u)
  BY <1>1, <1>3 DEF LauncherInv, Where
<1>5. Held(u) = Held(r) /\ GivenWork(u) = GivenWork(r) /\ Apart(u)
  BY <1>1 DEF Held, GivenWork, Apart
<1>6. Keeps(r, u)
  BY <1>1, <1>5 DEF Submitted, Where, Keeps, Working
<1> QED BY <1>1, <1>2, <1>4, <1>5, <1>6

LEMMA AskStep ==
  ASSUME NEW r \in Launcher, LauncherInv(r), Apart(r), mode \in Modes, r.pc = "drain",
         NEW u, u = [r EXCEPT !.pc = "ask"], ~r.all_done
  PROVE  /\ u \in Launcher /\ LauncherInv(u) /\ Apart(u) /\ Held(u) = Held(r)
         /\ u.pc = "ask" /\ Keeps(r, u)
<1>1. /\ u.pc = "ask" /\ u.n = r.n /\ u.i = r.i /\ u.job = r.job /\ u.worker = r.worker
      /\ u.old = r.old /\ u.then = r.then /\ u.pending = r.pending /\ u.all_done = r.all_done
  BY DEF Launcher
<1>2. u \in Launcher
  BY DEF Launcher, Places
<1>3. Capacity(u) = Capacity(r)
  BY <1>1, <1>2, CapacityType
<1>4. LauncherInv(u)
  BY <1>1, <1>3 DEF LauncherInv, Where
<1>5. Held(u) = Held(r) /\ GivenWork(u) = GivenWork(r) /\ Apart(u)
  BY <1>1 DEF Held, GivenWork, Apart
<1>6. Keeps(r, u)
  BY <1>1, <1>5 DEF Submitted, Where, Keeps, Working
<1> QED BY <1>1, <1>2, <1>4, <1>5, <1>6

LEMMA AnswerStep ==
  ASSUME NEW r \in Launcher, LauncherInv(r), Apart(r), mode \in Modes, r.pc = "ask",
         NEW done \in BOOLEAN, NEW u, u = [r EXCEPT !.pc = "drain", !.all_done = done]
  PROVE  /\ u \in Launcher /\ LauncherInv(u) /\ Apart(u) /\ Held(u) = Held(r)
         /\ u.pc = "drain" /\ u.n = r.n /\ u.job = r.job /\ u.all_done = done
         /\ Submitted(u) = Submitted(r) /\ Working(u) = Working(r)
<1>1. /\ u.pc = "drain" /\ u.n = r.n /\ u.i = r.i /\ u.job = r.job /\ u.worker = r.worker
      /\ u.old = r.old /\ u.then = r.then /\ u.pending = r.pending
  BY DEF Launcher
<1>2. u.all_done = done
  BY DEF Launcher
<1>3. u \in Launcher
  BY DEF Launcher, Places
<1>4. Capacity(u) = Capacity(r)
  BY <1>1, <1>3, CapacityType
<1>5. LauncherInv(u)
  BY <1>1, <1>4 DEF LauncherInv, Where
<1>6. Held(u) = Held(r) /\ GivenWork(u) = GivenWork(r) /\ Apart(u)
  BY <1>1 DEF Held, GivenWork, Apart
<1>7. Submitted(u) = Submitted(r) /\ Working(u) = Working(r)
  BY <1>1, <1>6 DEF Submitted, Where, Working
<1> QED BY <1>1, <1>2, <1>3, <1>5, <1>6, <1>7

LEMMA FlagStep ==
  ASSUME NEW r \in Launcher, LauncherInv(r), Apart(r), mode \in Modes, r.pc = "flag",
         NEW k \in Nat, NEW u, u = [r EXCEPT !.pc = "give", !.put = k]
  PROVE  /\ u \in Launcher /\ LauncherInv(u) /\ Apart(u) /\ Held(u) = Held(r)
         /\ u.pc = "give" /\ Keeps(r, u)
<1>1. /\ u.pc = "give" /\ u.n = r.n /\ u.i = r.i /\ u.job = r.job /\ u.worker = r.worker
      /\ u.old = r.old /\ u.then = r.then /\ u.pending = r.pending /\ u.all_done = r.all_done
  BY DEF Launcher
<1>2. u \in Launcher
  BY DEF Launcher, Places
<1>3. Capacity(u) = Capacity(r)
  BY <1>1, <1>2, CapacityType
<1>4. LauncherInv(u)
  BY <1>1, <1>3 DEF LauncherInv, Where
<1>5. Held(u) = Held(r) /\ GivenWork(u) = GivenWork(r) /\ Apart(u)
  BY <1>1 DEF Held, GivenWork, Apart
<1>6. Keeps(r, u)
  BY <1>1, <1>5 DEF Submitted, Where, Keeps, Working
<1> QED BY <1>1, <1>2, <1>4, <1>5, <1>6

\* try_return_worker without success: the worker is pending again.
LEMMA ReturnedStep ==
  ASSUME NEW r \in Launcher, LauncherInv(r), Apart(r), mode \in Modes,
         r.pc \in {"poll", "soft"}, NEW v, v = Return(r)
  PROVE  /\ v \in Launcher /\ v.n = r.n /\ v.i = r.i /\ v.job = r.job /\ v.worker = Empty
         /\ v.old = Empty /\ v.then = "none" /\ v.n \in ReqSizes /\ v.i < v.n /\ v.job # Empty
         /\ ~v.all_done /\ ~r.all_done /\ Len(v.pending) <= Capacity(v)
         /\ Apart(v) /\ Held(v) = Held(r) /\ Working(r) = Entries(v.pending)
<1>1. /\ r.n \in ReqSizes /\ r.i < r.n /\ r.worker = Empty /\ r.old # Empty /\ r.job # Empty
      /\ r.then = "none" /\ Len(r.pending) < Capacity(r)
  BY DEF LauncherInv, Where
<1>2. ~r.all_done
  BY DEF LauncherInv, Where
<1>3. /\ v \in Launcher /\ v.n = r.n /\ v.i = r.i /\ v.job = r.job /\ v.worker = r.worker
      /\ v.then = r.then /\ v.old = Empty
  BY <1>1, AfterReturn
<1>4. v.all_done = r.all_done
  BY <1>1, AfterReturn
<1>5. Len(v.pending) = Len(r.pending) + 1 /\ Len(r.pending) \in Nat
  BY <1>1, AfterReturn
<1>6. Entries(v.pending) = Entries(r.pending) \union {r.old}
  BY <1>1, AfterReturn
<1>7. Apart(v)
  BY <1>1, AfterReturn
<1>8. Held(v) = Held(r)
  BY <1>1, AfterReturn
<1>9. Capacity(v) = Capacity(r) /\ Capacity(r) \in Nat
  BY <1>3, CapacityType
<1>10. Len(v.pending) <= Capacity(v)
  BY <1>1, <1>5, <1>9
<1>11. Working(r) = Entries(v.pending)
  <2>1. r.pending \in Seq(Workers)
    BY DEF Launcher
  <2>2. Empty \notin Entries(r.pending)
    BY <2>1, EntriesOf, IdsAreNumbers
  <2> QED BY <1>1, <1>6, <2>2 DEF Working, GivenWork, Where
<1>12. ~v.all_done
  BY <1>2, <1>4
<1> QED BY <1>1, <1>2, <1>3, <1>7, <1>8, <1>10, <1>11, <1>12

LEMMA TryReturnFailsStep ==
  ASSUME NEW r \in Launcher, LauncherInv(r), Apart(r), mode \in Modes,
         r.pc \in {"poll", "soft", "drain"}, ~r.all_done,
         NEW v, v = Return(r),
         NEW u, u = CASE r.pc = "poll"  -> [v EXCEPT !.pc = "test"]
                      [] r.pc = "soft"  -> Advance(v)
                      [] r.pc = "drain" -> [r EXCEPT !.pc = "ask"]
  PROVE  /\ u \in Launcher /\ LauncherInv(u) /\ Apart(u) /\ Held(u) = Held(r)
         /\ u.pc \in {"test", "stand", "drain", "flag", "ask"} /\ Keeps(r, u)
<1>1. CASE r.pc = "poll"
  <2>1. u = [v EXCEPT !.pc = "test"]
    BY <1>1
  <2>2. /\ v \in Launcher /\ v.n = r.n /\ v.i = r.i /\ v.job = r.job /\ v.worker = Empty
        /\ v.old = Empty /\ v.then = "none" /\ v.n \in ReqSizes /\ v.i < v.n /\ v.job # Empty
    BY <1>1, ReturnedStep
  <2>3. ~v.all_done /\ Apart(v)
    BY <1>1, ReturnedStep
  <2>4. Len(v.pending) <= Capacity(v)
    BY <1>1, ReturnedStep
  <2>5. Held(v) = Held(r)
    BY <1>1, ReturnedStep
  <2>6. Working(r) = Entries(v.pending)
    BY <1>1, ReturnedStep
  <2>7. /\ u.pc = "test" /\ u.n = v.n /\ u.i = v.i /\ u.job = v.job /\ u.worker = v.worker
        /\ u.old = v.old /\ u.then = v.then /\ u.pending = v.pending
    BY <2>1, <2>2 DEF Launcher
  <2>8. u.all_done = v.all_done /\ u.all_done = r.all_done
    BY <2>1, <2>2, <2>3 DEF Launcher
  <2>9. u \in Launcher
    BY <2>1, <2>2 DEF Launcher, Places
  <2>10. Capacity(u) = Capacity(v)
    BY <2>2, <2>7, <2>9, CapacityType
  <2>11. LauncherInv(u)
    BY <2>2, <2>3, <2>4, <2>7, <2>8, <2>10 DEF LauncherInv, Where
  <2>12. Apart(u) /\ Held(u) = Held(v) /\ GivenWork(u) = GivenWork(v)
    BY <2>3, <2>7 DEF Apart, Held, GivenWork
  <2>13. Working(u) = Working(r)
    <3>1. v.pending \in Seq(Workers)
      BY <2>2 DEF Launcher
    <3>2. Empty \notin Entries(v.pending)
      BY <3>1, EntriesOf, IdsAreNumbers
    <3> QED BY <2>2, <2>6, <2>7, <2>12, <3>2 DEF Working, GivenWork, Where
  <2>14. Submitted(u) = Submitted(r)
    BY <1>1, <2>2, <2>7 DEF Submitted, Where
  <2> QED BY <2>2, <2>5, <2>7, <2>8, <2>9, <2>11, <2>12, <2>13, <2>14 DEF Keeps
<1>2. CASE r.pc = "soft"
  <2>1. u = Advance(v)
    BY <1>2
  <2>2. /\ v \in Launcher /\ v.n = r.n /\ v.i = r.i /\ v.job = r.job /\ v.worker = Empty
        /\ v.old = Empty /\ v.then = "none" /\ v.n \in ReqSizes /\ v.i < v.n /\ v.job # Empty
    BY <1>2, ReturnedStep
  <2>3. ~v.all_done /\ Apart(v)
    BY <1>2, ReturnedStep
  <2>4. Len(v.pending) <= Capacity(v)
    BY <1>2, ReturnedStep
  <2>5. Held(v) = Held(r)
    BY <1>2, ReturnedStep
  <2>6. Working(r) = Entries(v.pending)
    BY <1>2, ReturnedStep
  <2>7. /\ u \in Launcher /\ LauncherInv(u) /\ Apart(u)
        /\ u.pc \in {"stand", "drain", "flag"} /\ u.n = v.n /\ u.job = v.job /\ ~u.all_done
    BY <2>1, <2>2, <2>3, <2>4, AdvanceStep
  <2>8. Held(u) = Held(v) \ {v.old}
    BY <2>1, <2>2, <2>3, <2>4, AdvanceStep
  <2>9. Submitted(u) = v.i + 1
    BY <2>1, <2>2, <2>3, <2>4, AdvanceStep
  <2>10. Working(u) = Entries(v.pending)
    BY <2>1, <2>2, <2>3, <2>4, AdvanceStep
  <2>11. u.all_done = r.all_done
    BY <2>7 DEF Launcher
  <2>12. Held(u) = Held(r)
    BY <2>2, <2>5, <2>8 DEF Held
  <2>13. Submitted(r) = r.i + 1
    BY <1>2 DEF Submitted, Where
  <2> QED BY <2>2, <2>6, <2>7, <2>9, <2>10, <2>11, <2>12, <2>13 DEF Keeps
<1>3. CASE r.pc = "drain"
  <2>1. u = [r EXCEPT !.pc = "ask"]
    BY <1>3
  <2> QED BY <1>3, <2>1, AskStep
<1> QED BY <1>1, <1>2, <1>3

\* The job is back in the queue.
LEMMA GiveStep ==
  ASSUME NEW r \in Launcher, LauncherInv(r), Apart(r), mode \in Modes, r.pc = "give",
         NEW k, k = [r EXCEPT !.job = Empty],
         NEW u, u = IF r.then = "cleanup" THEN CleanUp(k) ELSE Left(r)
  PROVE  /\ u \in Launcher /\ LauncherInv(u) /\ Apart(u) /\ Held(u) = Held(r)
         /\ u.pc \in {"cleanup", "idle"} /\ u.n = r.n /\ u.job = Empty
         /\ r.job \in Jobs /\ Submitted(r) = r.n
         /\ (r.then = "none" => Working(r) = {} /\ u = Left(r))
<1>1. /\ r.n \in ReqSizes /\ r.i < r.n /\ r.worker = Empty /\ r.old = Empty /\ r.job # Empty
      /\ r.then \in {"none", "cleanup"} /\ Len(r.pending) <= Capacity(r) /\ r.i + 1 = r.n
  BY DEF LauncherInv, Where
<1>2. r.job \in Jobs
  BY <1>1 DEF Launcher
<1>3. Submitted(r) = r.n
  BY <1>1 DEF Submitted, Where
<1>4. CASE r.then = "cleanup"
  <2>1. /\ k.n = r.n /\ k.i = r.i /\ k.job = Empty /\ k.worker = Empty
        /\ k.old = Empty /\ k.pending = r.pending
    BY <1>1 DEF Launcher
  <2>2. k.all_done = r.all_done
    BY DEF Launcher
  <2>3. k \in Launcher
    BY DEF Launcher
  <2>4. Capacity(k) = Capacity(r)
    BY <2>1, <2>3, CapacityType
  <2>5. Apart(k) /\ Held(k) = Held(r)
    BY <1>1, <2>1 DEF Apart, Held
  <2>6. CASE ~r.all_done
    <3>1. ~k.all_done /\ u = CleanUp(k)
      BY <1>4, <2>2, <2>6
    <3>2. /\ u \in Launcher /\ LauncherInv(u) /\ Apart(u)
          /\ u.pc \in {"cleanup", "idle"} /\ u.n = k.n /\ u.job = Empty
      BY <1>1, <2>1, <2>3, <2>4, <2>5, <3>1, CleanUpStep
    <3>3. Held(u) = Held(k) \ {k.old}
      BY <1>1, <2>1, <2>3, <2>4, <2>5, <3>1, CleanUpStep
    <3>4. Held(u) = Held(r)
      BY <2>1, <2>5, <3>3 DEF Held
    <3> QED BY <1>2, <1>3, <1>4, <2>1, <3>2, <3>4
  <2>7. CASE r.all_done
    BY <1>4, <2>7 DEF LauncherInv
  <2> QED BY <2>6, <2>7
<1>5. CASE r.then = "none"
  <2>1. u = Left(r) /\ r.pending = <<>>
    BY <1>5 DEF LauncherInv
  <2>2. LauncherInv(u)
    BY <2>1, LeftStep
  <2>3. u \in Launcher /\ u.pc = "idle" /\ u.n = r.n /\ u.job = Empty /\ Apart(u) /\ Held(u) = {}
    BY <2>1, AfterLeft
  <2>4. Held(r) = {} /\ Working(r) = {}
    BY <1>1, <1>5, <2>1 DEF Held, Working, GivenWork, Where, Entries
  <2> QED BY <1>2, <1>3, <1>5, <2>1, <2>2, <2>3, <2>4
<1> QED BY <1>1, <1>4, <1>5

(* Exceptions. *)

LEMMA AbandonStep ==
  ASSUME NEW r \in Launcher, LauncherInv(r), Apart(r), mode \in Modes, r.pc = "poll",
         NEW u, u = [r EXCEPT !.pc = "abandon"]
  PROVE  /\ u \in Launcher /\ LauncherInv(u) /\ Apart(u) /\ Held(u) = Held(r)
         /\ u.pc = "abandon" /\ u.n = r.n /\ u.job = r.job
<1>1. /\ u.pc = "abandon" /\ u.n = r.n /\ u.i = r.i /\ u.job = r.job /\ u.worker = r.worker
      /\ u.old = r.old /\ u.then = r.then /\ u.pending = r.pending /\ u.all_done = r.all_done
  BY DEF Launcher
<1>2. u \in Launcher
  BY DEF Launcher, Places
<1>3. Capacity(u) = Capacity(r)
  BY <1>1, <1>2, CapacityType
<1>4. LauncherInv(u)
  BY <1>1, <1>3 DEF LauncherInv, Where
<1>5. Held(u) = Held(r) /\ Apart(u)
  BY <1>1 DEF Held, Apart
<1> QED BY <1>1, <1>2, <1>4, <1>5

LEMMA ThrowInWaitStep ==
  ASSUME NEW r \in Launcher, LauncherInv(r), Apart(r), mode \in Modes,
         r.pc \in {"ask", "flag"}, ~r.all_done, NEW k \in Nat,
         NEW u, u = [r EXCEPT !.pc = "give", !.then = "cleanup", !.old = Empty, !.put = k]
  PROVE  /\ u \in Launcher /\ LauncherInv(u) /\ Apart(u) /\ Held(u) = Held(r) \ {r.old}
         /\ u.pc = "give" /\ u.n = r.n /\ u.job = r.job
<1>1. /\ u.pc = "give" /\ u.n = r.n /\ u.i = r.i /\ u.job = r.job /\ u.worker = r.worker
      /\ u.old = Empty /\ u.then = "cleanup" /\ u.pending = r.pending
  BY DEF Launcher
<1>2. ~u.all_done
  BY DEF Launcher
<1>3. u \in Launcher
  BY DEF Launcher, Places, Ids
<1>4. Capacity(u) = Capacity(r)
  BY <1>1, <1>3, CapacityType
<1>5. LauncherInv(u)
  BY <1>1, <1>2, <1>4 DEF LauncherInv, Where
<1>6. Apart(u)
  BY <1>1 DEF Apart
<1>7. Held(u) = Held(r) \ {r.old}
  <2>1. r.worker = Empty
    BY DEF LauncherInv, Where
  <2>2. r.old # Empty => r.old \notin Entries(r.pending)
    BY DEF Apart
  <2>3. r.old = Empty => Held(r) \ {r.old} = Held(r)
    BY DEF Held
  <2> QED BY <1>1, <2>1, <2>2, <2>3 DEF Held
<1> QED BY <1>1, <1>3, <1>5, <1>6, <1>7

LEMMA PushBusyStep ==
  ASSUME NEW r \in Launcher, LauncherInv(r), Apart(r), mode \in Modes, r.pc = "cleanup",
         NEW k \in Nat,
         NEW u, u = [r EXCEPT !.pc = "push", !.then = "cleanup", !.put = k]
  PROVE  /\ u \in Launcher /\ LauncherInv(u) /\ Apart(u) /\ Held(u) = Held(r)
         /\ u.pc = "push" /\ u.n = r.n /\ u.job = r.job
<1>1. /\ u.pc = "push" /\ u.n = r.n /\ u.i = r.i /\ u.job = r.job /\ u.worker = r.worker
      /\ u.old = r.old /\ u.then = "cleanup" /\ u.pending = r.pending
  BY DEF Launcher
<1>2. u.all_done = r.all_done
  BY DEF Launcher
<1>3. u \in Launcher
  BY DEF Launcher, Places
<1>4. Capacity(u) = Capacity(r)
  BY <1>1, <1>3, CapacityType
<1>5. ~r.all_done
  BY DEF LauncherInv, Where
<1>6. LauncherInv(u)
  BY <1>1, <1>2, <1>4, <1>5 DEF LauncherInv, Where
<1>7. Held(u) = Held(r) /\ Apart(u)
  BY <1>1 DEF Held, Apart
<1> QED BY <1>1, <1>3, <1>6, <1>7

-----------------------------------------------------------------------------
(* Types, and who has what: the steps of the threads.                      *)

LEMMA Sizes ==
  /\ NumJobs \in Nat \ {0} /\ WorkerSize \in Nat \ {0} /\ NumWorkers \in Nat \ {0}
  /\ NumWorkers <= WorkerSize
BY ConstantsAssumption

LEMMA Hands ==
  ASSUME HandsInv, NEW t \in Threads
  PROVE  /\ launcher[t] \in Launcher /\ LauncherInv(launcher[t]) /\ Apart(launcher[t])
         /\ mode \in Modes
         /\ worker_queue \in Queue(WorkerSize, Workers) /\ Single(worker_queue)
         /\ job_queue \in Queue(NumJobs, Jobs) /\ Single(job_queue)
         /\ Held(launcher[t]) \intersect Queued(worker_queue) = {}
         /\ launcher[t].job \notin Queued(job_queue)
         /\ worker_queue.head \in Nat /\ worker_queue.tail \in Nat
         /\ job_queue.head \in Nat /\ job_queue.tail \in Nat
         /\ launcher[t].slot \in Nat /\ launcher[t].put \in Nat
<1>1. launcher \in [Threads -> Launcher] /\ mode \in Modes
  BY DEF HandsInv, TypeInv, RecordsOK
<1>2. launcher[t] \in Launcher
  BY <1>1
<1>3. worker_queue \in Queue(WorkerSize, Workers) /\ job_queue \in Queue(NumJobs, Jobs)
  BY DEF HandsInv, TypeInv, QueuesOK
<1>4. /\ worker_queue.head \in Nat /\ worker_queue.tail \in Nat
      /\ job_queue.head \in Nat /\ job_queue.tail \in Nat
  BY <1>3 DEF Queue
<1>5. launcher[t].slot \in Nat /\ launcher[t].put \in Nat
  BY <1>2 DEF Launcher
<1> QED BY <1>1, <1>2, <1>3, <1>4, <1>5 DEF HandsInv, TypeInv, OwnersInv, WorkersInv, JobsInv

\* A thread's launcher changes, and the memory with it does not.
LEMMA LauncherMoves ==
  ASSUME HandsInv, NEW t \in Threads, NEW u \in Launcher, LauncherInv(u),
         launcher' = [launcher EXCEPT ![t] = u], UNCHANGED <<block, runner, mode>>
  PROVE  RecordsOK' /\ (\A v \in Threads : LauncherInv(launcher[v]))'
<1>1. launcher \in [Threads -> Launcher] /\ \A v \in Threads : LauncherInv(launcher[v])
  BY DEF HandsInv, TypeInv, RecordsOK
<1>2. RecordsOK'
  BY <1>1 DEF HandsInv, TypeInv, RecordsOK
<1>3. ASSUME NEW v \in Threads PROVE LauncherInv(launcher[v])'
  <2>1. CASE v = t
    <3>1. launcher'[v] = u
      BY <1>1, <2>1
    <3> QED BY <3>1 DEF LauncherInv, Where, Capacity
  <2>2. CASE v # t
    <3>1. launcher'[v] = launcher[v] /\ LauncherInv(launcher[v])
      BY <1>1, <2>2
    <3> QED BY <3>1 DEF LauncherInv, Where, Capacity
  <2> QED BY <2>1, <2>2
<1> QED BY <1>2, <1>3

\* Workers pass between the queue and one launcher.
LEMMA WorkersMove ==
  ASSUME HandsInv, NEW t \in Threads, NEW u \in Launcher, Apart(u),
         launcher' = [launcher EXCEPT ![t] = u],
         NEW q, worker_queue' = q, Single(q), Held(u) \intersect Queued(q) = {},
         Held(u) \union Queued(q) \subseteq Held(launcher[t]) \union Queued(worker_queue)
  PROVE  WorkersInv'
<1>1. launcher \in [Threads -> Launcher]
  BY DEF HandsInv, TypeInv, RecordsOK
<1>2. \A v \in Threads : launcher'[v] = IF v = t THEN u ELSE launcher[v]
  BY <1>1
<1>3. /\ \A v \in Threads : Apart(launcher[v]) /\ Held(launcher[v]) \intersect Queued(worker_queue) = {}
      /\ \A v, w \in Threads : v # w => Held(launcher[v]) \intersect Held(launcher[w]) = {}
  BY DEF HandsInv, OwnersInv, WorkersInv
<1>4. Single(worker_queue)'
  BY DEF Single
<1>5. ASSUME NEW v \in Threads
      PROVE  Apart(launcher[v])' /\ (Held(launcher[v]) \intersect Queued(worker_queue) = {})'
  <2>1. PICK h \in Launcher : h = launcher'[v] /\ h = IF v = t THEN u ELSE launcher[v]
    BY <1>1, <1>2
  <2>2. Apart(h)
    BY <1>3, <2>1
  <2>3. Held(h) \intersect Queued(q) = {}
    <3>1. CASE v = t
      BY <2>1, <3>1
    <3>2. CASE v # t
      <4>1. h = launcher[v] /\ Held(h) \intersect Held(launcher[t]) = {}
            /\ Held(h) \intersect Queued(worker_queue) = {}
        BY <1>3, <2>1, <3>2
      <4> QED BY <4>1
    <3> QED BY <3>1, <3>2
  <2>4. Apart(launcher[v])'
    BY <2>1, <2>2
  <2>5. (Held(launcher[v]) \intersect Queued(worker_queue) = {})'
    BY <2>1, <2>3
  <2> QED BY <2>4, <2>5
<1>6. ASSUME NEW v \in Threads, NEW w \in Threads, v # w
      PROVE  (Held(launcher[v]) \intersect Held(launcher[w]) = {})'
  <2>1. PICK h \in Launcher : h = launcher'[v] /\ h = IF v = t THEN u ELSE launcher[v]
    BY <1>1, <1>2
  <2>2. PICK g \in Launcher : g = launcher'[w] /\ g = IF w = t THEN u ELSE launcher[w]
    BY <1>1, <1>2
  <2>3. Held(h) \intersect Held(g) = {}
    <3>1. CASE v = t
      <4>1. /\ h = u /\ g = launcher[w] /\ Held(g) \intersect Held(launcher[t]) = {}
            /\ Held(g) \intersect Queued(worker_queue) = {}
        BY <1>3, <1>6, <2>1, <2>2, <3>1
      <4> QED BY <4>1
    <3>2. CASE w = t
      <4>1. /\ g = u /\ h = launcher[v] /\ Held(h) \intersect Held(launcher[t]) = {}
            /\ Held(h) \intersect Queued(worker_queue) = {}
        BY <1>3, <1>6, <2>1, <2>2, <3>2
      <4> QED BY <4>1
    <3>3. CASE v # t /\ w # t
      BY <1>3, <1>6, <2>1, <2>2, <3>3
    <3> QED BY <3>1, <3>2, <3>3
  <2> QED BY <2>1, <2>2, <2>3
<1> QED BY <1>4, <1>5, <1>6 DEF WorkersInv

\* A job passes between the queue and one launcher.
LEMMA JobsMove ==
  ASSUME HandsInv, NEW t \in Threads, NEW u \in Launcher,
         launcher' = [launcher EXCEPT ![t] = u],
         NEW q, job_queue' = q, Single(q), u.job \notin Queued(q),
         Queued(q) \union {u.job} \subseteq Queued(job_queue) \union {launcher[t].job, Empty}
  PROVE  JobsInv'
<1>1. launcher \in [Threads -> Launcher]
  BY DEF HandsInv, TypeInv, RecordsOK
<1>2. \A v \in Threads : launcher'[v] = IF v = t THEN u ELSE launcher[v]
  BY <1>1
<1>3. /\ \A v \in Threads : launcher[v].job \notin Queued(job_queue)
      /\ \A v, w \in Threads : launcher[v].job # Empty /\ launcher[v].job = launcher[w].job => v = w
  BY DEF HandsInv, OwnersInv, JobsInv
<1>4. Single(job_queue)'
  BY DEF Single
<1>5. Empty \notin Queued(q)
  BY DEF Queued
<1>6. ASSUME NEW v \in Threads PROVE (launcher[v].job \notin Queued(job_queue))'
  <2>1. PICK j : j = launcher'[v].job
    OBVIOUS
  <2>2. j \notin Queued(q)
    BY <1>2, <1>3, <1>5, <2>1
  <2> QED BY <2>1, <2>2
<1>7. ASSUME NEW v \in Threads, NEW w \in Threads, launcher'[v].job # Empty,
             launcher'[v].job = launcher'[w].job
      PROVE  v = w
  BY <1>2, <1>3, <1>7
<1> QED BY <1>4, <1>6, <1>7 DEF JobsInv

\* Everything else in a step of a thread that leaves mailboxes and descriptions alone.
LEMMA HandsMove ==
  ASSUME HandsInv, NEW t \in Threads, NEW u \in Launcher, LauncherInv(u), Apart(u),
         launcher' = [launcher EXCEPT ![t] = u], u.pc # "idle" => launcher[t].pc # "idle",
         u.job \in {Empty, launcher[t].job},
         NEW q \in Queue(WorkerSize, Workers), worker_queue' = q, Single(q),
         Held(u) \intersect Queued(q) = {},
         Held(u) \union Queued(q) \subseteq Held(launcher[t]) \union Queued(worker_queue),
         NEW p \in Queue(NumJobs, Jobs), job_queue' = p, Single(p), u.job \notin Queued(p),
         Queued(p) \subseteq Queued(job_queue) \union {launcher[t].job},
         UNCHANGED <<worker_handle, jobVars, block, runner, num, out, mode>>
  PROVE  HandsInv'
<1>1. RecordsOK' /\ (\A v \in Threads : LauncherInv(launcher[v]))'
  BY LauncherMoves
<1>2. QueuesOK'
  BY DEF QueuesOK
<1>3. MemoryOK'
  BY DEF HandsInv, TypeInv, MemoryOK, jobVars
<1>4. BatchInv'
  <2>1. launcher \in [Threads -> Launcher]
    BY DEF HandsInv, TypeInv, RecordsOK
  <2>2. \A v \in Threads : launcher'[v] = IF v = t THEN u ELSE launcher[v]
    BY <2>1
  <2>3. BatchInv
    BY DEF HandsInv, TypeInv
  <2>4. ASSUME NEW v \in Threads, launcher'[v].pc # "idle" PROVE num'[v] > 0
    BY <2>2, <2>3, <2>4 DEF BatchInv
  <2>5. ASSUME NEW v \in Threads, launcher'[v].job # Empty PROVE Described(launcher[v].job)'
    <3>1. launcher'[v].job = launcher[v].job
      BY <2>2, <2>5
    <3> QED BY <2>3, <2>5, <3>1 DEF BatchInv, Described, jobVars
  <2> QED BY <2>3, <2>4, <2>5 DEF BatchInv, Described, jobVars
<1>5. WorkersInv'
  BY WorkersMove
<1>6. JobsInv'
  <2>1. Queued(p) \union {u.job} \subseteq Queued(job_queue) \union {launcher[t].job, Empty}
    OBVIOUS
  <2> QED BY <2>1, JobsMove
<1> QED BY <1>1, <1>2, <1>3, <1>4, <1>5, <1>6 DEF HandsInv, TypeInv, OwnersInv

\* A step of a thread that leaves the queues alone, too.
LEMMA QueuesStay ==
  ASSUME HandsInv, NEW t \in Threads, NEW u \in Launcher, LauncherInv(u), Apart(u),
         launcher' = [launcher EXCEPT ![t] = u], u.pc # "idle" => launcher[t].pc # "idle",
         u.job \in {Empty, launcher[t].job}, Held(u) \subseteq Held(launcher[t]),
         NEW q \in Queue(WorkerSize, Workers), worker_queue' = q, q.buf = worker_queue.buf,
         NEW p \in Queue(NumJobs, Jobs), job_queue' = p, p.buf = job_queue.buf,
         UNCHANGED <<worker_handle, jobVars, block, runner, num, out, mode>>
  PROVE  HandsInv'
<1>1. /\ Single(worker_queue) /\ Held(launcher[t]) \intersect Queued(worker_queue) = {}
      /\ Single(job_queue) /\ launcher[t].job \notin Queued(job_queue)
  BY Hands
<1>2. Queued(q) = Queued(worker_queue) /\ Queued(p) = Queued(job_queue)
  BY DEF Queued
<1>3. Single(q) /\ Single(p)
  BY <1>1 DEF Single
<1>4. Held(u) \intersect Queued(q) = {}
  BY <1>1, <1>2
<1>5. Held(u) \union Queued(q) \subseteq Held(launcher[t]) \union Queued(worker_queue)
  BY <1>2
<1>6. u.job \notin Queued(p)
  BY <1>1, <1>2 DEF Queued
<1>7. Queued(p) \subseteq Queued(job_queue) \union {launcher[t].job}
  BY <1>2
<1> QED BY <1>3, <1>4, <1>5, <1>6, <1>7, HandsMove

LEMMA HandsStay ==
  ASSUME HandsInv, NEW t \in Threads, NEW u \in Launcher, LauncherInv(u), Apart(u),
         launcher' = [launcher EXCEPT ![t] = u], u.pc # "idle" => launcher[t].pc # "idle",
         u.job \in {Empty, launcher[t].job}, Held(u) \subseteq Held(launcher[t]),
         UNCHANGED <<queues, worker_handle, jobVars, block, runner, num, out, mode>>
  PROVE  HandsInv'
<1>1. PICK q \in Queue(WorkerSize, Workers) : q = worker_queue
  BY Hands
<1>2. PICK p \in Queue(NumJobs, Jobs) : p = job_queue
  BY Hands
<1>3. /\ worker_queue' = q /\ q.buf = worker_queue.buf /\ job_queue' = p /\ p.buf = job_queue.buf
      /\ UNCHANGED <<worker_handle, jobVars, block, runner, num, out, mode>>
  BY <1>1, <1>2 DEF queues
<1> QED BY <1>3, QueuesStay

-----------------------------------------------------------------------------
(* The queries of a job: the steps of the threads that leave mailboxes, jobs *)
(* and blocks alone.                                                       *)

LEMMA WorkerSets ==
  /\ \A S \in SUBSET Workers : IsFiniteSet(S) /\ Cardinality(S) \in Nat
  /\ \A j \in Jobs :
       /\ InMail(j) \in SUBSET Workers /\ InBlock(j) \in SUBSET Workers
       /\ Cardinality(InMail(j)) \in Nat /\ Cardinality(InBlock(j)) \in Nat
       /\ Outstanding(j) \in Nat
       /\ Outstanding(j) = 0 => InMail(j) = {} /\ InBlock(j) = {}
<1>1. IsFiniteSet(Workers)
  BY Sizes, FS_Interval DEF Workers
<1>2. ASSUME NEW S \in SUBSET Workers PROVE IsFiniteSet(S) /\ Cardinality(S) \in Nat
  BY <1>1, FS_Subset, FS_CardinalityType
<1>3. ASSUME NEW j \in Jobs
      PROVE  /\ InMail(j) \in SUBSET Workers /\ InBlock(j) \in SUBSET Workers
             /\ Cardinality(InMail(j)) \in Nat /\ Cardinality(InBlock(j)) \in Nat
             /\ Outstanding(j) \in Nat
             /\ Outstanding(j) = 0 => InMail(j) = {} /\ InBlock(j) = {}
  <2>1. InMail(j) \in SUBSET Workers /\ InBlock(j) \in SUBSET Workers
    BY DEF InMail, InBlock
  <2>2. Cardinality(InMail(j)) \in Nat /\ Cardinality(InBlock(j)) \in Nat
    BY <1>2, <2>1
  <2>3. Outstanding(j) \in Nat
    BY <2>2 DEF Outstanding
  <2>4. Outstanding(j) = 0 => Cardinality(InMail(j)) = 0 /\ Cardinality(InBlock(j)) = 0
    BY <2>2 DEF Outstanding
  <2>5. Outstanding(j) = 0 => InMail(j) = {} /\ InBlock(j) = {}
    BY <1>2, <2>1, <2>4, FS_EmptySet
  <2> QED BY <2>1, <2>2, <2>3, <2>5
<1> QED BY <1>2, <1>3

\* The workers that a job's queries are with depend on mailboxes and blocks only.
LEMMA JobStays ==
  ASSUME UNCHANGED <<worker_handle, block>>, NEW j
  PROVE  /\ InMail(j)' = InMail(j) /\ InBlock(j)' = InBlock(j) /\ Raising(j)' = Raising(j)
         /\ Outstanding(j)' = Outstanding(j)
<1>1. InMail(j)' = InMail(j) /\ InBlock(j)' = InBlock(j) /\ Raising(j)' = Raising(j)
  BY DEF InMail, InBlock, Raising
<1> QED BY <1>1 DEF Outstanding

\* The account of a job is the same if what it is made of is.
LEMMA AccountStays ==
  ASSUME NEW t \in Threads, NEW j \in Jobs, Counts(t, j),
         NEW r \in Launcher, r = launcher[t], NEW u \in Launcher, launcher'[t] = u,
         u.n = r.n, Submitted(u) = Submitted(r),
         u.all_done \/ u.pc = "give" => r.all_done \/ r.pc = "give" \/ completion_flag[j],
         num'[t] = num[t], counter'[j] = counter[j], descriptor'[j] = descriptor[j],
         completion_flag'[j] = completion_flag[j],
         Outstanding(j)' = Outstanding(j), Raising(j)' = Raising(j)
  PROVE  Counts(t, j)'
<1>1. Finished(j)' = Finished(j)
  BY DEF Finished
<1>2. PICK c : c = counter[j]
  OBVIOUS
<1>3. PICK o : o = Outstanding(j)
  OBVIOUS
<1>4. PICK f : f = Finished(j)
  OBVIOUS
<1>5. Counted(r, c, o, f)
  BY <1>2, <1>3, <1>4 DEF Counts
<1>6. Counted(u, c, o, f)
  BY <1>5 DEF Counted
<1>7. Counted(launcher[t], counter[j], Outstanding(j), Finished(j))'
  BY <1>1, <1>2, <1>3, <1>4, <1>6
<1>8. (launcher[t].all_done \/ launcher[t].pc = "give" => completion_flag[j])'
  BY DEF Counts
<1>9. (descriptor[j] = [thread |-> t, num |-> num[t], n |-> launcher[t].n])'
  BY DEF Counts
<1> QED BY <1>7, <1>8, <1>9 DEF Counts

LEMMA AccountOfOther ==
  ASSUME HandsInv, NEW v \in Threads, NEW j \in Jobs, Counts(v, j), launcher'[v] = launcher[v],
         num'[v] = num[v], counter'[j] = counter[j], descriptor'[j] = descriptor[j],
         completion_flag'[j] = completion_flag[j],
         Outstanding(j)' = Outstanding(j), Raising(j)' = Raising(j)
  PROVE  Counts(v, j)'
<1>1. PICK h \in Launcher : h = launcher[v]
  BY DEF HandsInv, TypeInv, RecordsOK
<1> QED BY <1>1, AccountStays

\* A full mailbox is still waited for.
LEMMA MailStays ==
  ASSUME HandsInv, MailInv, NEW t \in Threads, NEW r \in Launcher, r = launcher[t],
         NEW u \in Launcher, launcher' = [launcher EXCEPT ![t] = u],
         \A w \in Working(r) : (w \in Working(u) /\ u.job = r.job)
                               \/ ~Busy(w) \/ worker_handle[w].job # r.job,
         UNCHANGED <<worker_handle, block>>
  PROVE  MailInv'
<1>1. launcher \in [Threads -> Launcher]
  BY DEF HandsInv, TypeInv, RecordsOK
<1>2. \A v \in Threads : launcher'[v] = IF v = t THEN u ELSE launcher[v]
  BY <1>1
<1>3. ASSUME NEW w \in Workers, Busy(w)'
      PROVE  \E v \in Threads : w \in Working(launcher'[v])
                                /\ worker_handle'[w].job = launcher'[v].job
  <2>1. Busy(w)
    BY <1>3 DEF Busy
  <2>2. PICK v \in Threads : w \in Working(launcher[v]) /\ worker_handle[w].job = launcher[v].job
    BY <2>1 DEF MailInv
  <2>3. CASE v = t
    <3>1. w \in Working(u) /\ u.job = r.job
      BY <2>1, <2>2, <2>3
    <3>2. launcher'[v] = u
      BY <1>2, <2>3
    <3> QED BY <2>2, <2>3, <3>1, <3>2
  <2>4. CASE v # t
    <3>1. launcher'[v] = launcher[v]
      BY <1>2, <2>4
    <3> QED BY <2>2, <3>1
  <2> QED BY <2>3, <2>4
<1>4. (\A w \in Workers : block[w].pc = "clear" => worker_handle[w] = block[w].got)'
  BY DEF MailInv
<1> QED BY <1>3, <1>4 DEF MailInv

LEMMA MailOfJobStays ==
  ASSUME HandsInv, MailInv, NEW t \in Threads, NEW r \in Launcher, r = launcher[t],
         NEW u \in Launcher, launcher' = [launcher EXCEPT ![t] = u], u.job = r.job,
         \A w \in Working(r) : w \in Working(u) \/ ~Busy(w) \/ worker_handle[w].job # r.job,
         UNCHANGED <<worker_handle, block>>
  PROVE  MailInv'
<1>1. \A w \in Working(r) : (w \in Working(u) /\ u.job = r.job)
                            \/ ~Busy(w) \/ worker_handle[w].job # r.job
  OBVIOUS
<1> QED BY <1>1, MailStays

\* The workers that a launcher and the queue have between them are the same.
LEMMA WorkersThereStay ==
  ASSUME HandsInv, WorkersThere, NEW t \in Threads, NEW r \in Launcher, r = launcher[t],
         NEW u \in Launcher, launcher' = [launcher EXCEPT ![t] = u],
         NEW q, worker_queue' = q, Held(u) \union Queued(q) = Held(r) \union Queued(worker_queue),
         \A w \in Workers : worker_handle'[w] = NoMore <=> worker_handle[w] = NoMore
  PROVE  WorkersThere'
<1>1. launcher \in [Threads -> Launcher]
  BY DEF HandsInv, TypeInv, RecordsOK
<1>2. \A v \in Threads : launcher'[v] = IF v = t THEN u ELSE launcher[v]
  BY <1>1
<1>3. ASSUME NEW w \in Workers
      PROVE  (w \in Queued(q) \/ \E v \in Threads : w \in Held(launcher'[v])) <=>
             (w \in Queued(worker_queue) \/ \E v \in Threads : w \in Held(launcher[v]))
  <2>1. (w \in Queued(q) \/ w \in Held(u)) <=> (w \in Queued(worker_queue) \/ w \in Held(r))
    OBVIOUS
  <2>2. \A v \in Threads \ {t} : launcher'[v] = launcher[v]
    BY <1>2
  <2>3. launcher'[t] = u
    BY <1>2
  <2>4. \A v \in Threads : v # t => (w \in Held(launcher'[v]) <=> w \in Held(launcher[v]))
    BY <2>2
  <2>5. (w \in Held(launcher'[t]) <=> w \in Held(u)) /\ (w \in Held(launcher[t]) <=> w \in Held(r))
    BY <2>3
  <2> QED BY <2>1, <2>4, <2>5
<1>4. ASSUME NEW w \in Workers
      PROVE  (worker_handle[w] = NoMore)' <=>
             (w \notin Queued(worker_queue))' /\ \A v \in Threads : w \notin Held(launcher'[v])
  BY <1>3 DEF WorkersThere
<1> QED BY <1>4 DEF WorkersThere

LEMMA CompletionMove ==
  ASSUME HandsInv, Completion, NEW t \in Threads, NEW r \in Launcher, r = launcher[t],
         NEW u \in Launcher, launcher' = [launcher EXCEPT ![t] = u],
         u.n = r.n, u.job = r.job, Submitted(u) = Submitted(r),
         u.pc \notin {"job", "abandon", "cleanup"}, u.then # "cleanup",
         \A j \in Jobs : j = r.job /\ (u.all_done \/ u.pc = "give") =>
                           r.all_done \/ r.pc = "give" \/ completion_flag[j],
         \A w \in Working(r) : w \in Working(u) \/ ~Busy(w) \/ worker_handle[w].job # r.job,
         NEW q, worker_queue' = q, Held(u) \union Queued(q) = Held(r) \union Queued(worker_queue),
         NEW p, job_queue' = p, Queued(p) = Queued(job_queue),
         UNCHANGED <<worker_handle, jobVars, block, num>>
  PROVE  Completion'
<1>1. launcher \in [Threads -> Launcher]
  BY DEF HandsInv, TypeInv, RecordsOK
<1>2. \A v \in Threads : launcher'[v] = IF v = t THEN u ELSE launcher[v]
  BY <1>1
<1>3. UNCHANGED <<worker_handle, descriptor, completion_flag, counter, block, num>>
  BY DEF jobVars
<1>4. \A v \in Threads : launcher'[v].job = launcher[v].job
  BY <1>2
<1>5. InTimeInv'
  BY <1>2 DEF Completion, InTimeInv
<1>6. CountInv'
  <2> SUFFICES ASSUME NEW v \in Threads, NEW j \in Jobs, launcher'[v].job = j
               PROVE  Counts(v, j)'
    BY DEF CountInv
  <2>1. Counts(v, j)
    BY <1>4 DEF Completion, CountInv
  <2>2. Outstanding(j)' = Outstanding(j) /\ Raising(j)' = Raising(j)
    BY <1>3, JobStays
  <2>3. CASE v = t
    <3>1. launcher'[v] = u /\ j = r.job
      BY <1>2, <2>3
    <3>2. u.all_done \/ u.pc = "give" => r.all_done \/ r.pc = "give" \/ completion_flag[j]
      BY <3>1
    <3> QED BY <1>3, <2>1, <2>2, <2>3, <3>1, <3>2, AccountStays
  <2>4. CASE v # t
    <3>1. PICK h \in Launcher : h = launcher[v] /\ launcher'[v] = h
      BY <1>1, <1>2, <2>4
    <3> QED BY <1>3, <2>1, <2>2, <3>1, AccountStays
  <2> QED BY <2>3, <2>4
<1>7. UnusedInv'
  <2> SUFFICES ASSUME NEW j \in Jobs, \A v \in Threads : launcher'[v].job # j
               PROVE  Traceless(j)'
    BY DEF UnusedInv
  <2>1. Traceless(j)
    BY <1>4 DEF Completion, UnusedInv
  <2>2. Outstanding(j)' = Outstanding(j) /\ Raising(j)' = Raising(j)
    BY <1>3, JobStays
  <2> QED BY <1>3, <2>1, <2>2 DEF Traceless
<1>8. RaiseInv'
  BY <1>3 DEF Completion, RaiseInv, Raising
<1>9. MailInv'
  <2>1. MailInv /\ UNCHANGED <<worker_handle, block>>
    BY <1>3 DEF Completion
  <2> QED BY <2>1, MailOfJobStays
<1>10. ThereInv'
  <2>1. WorkersThere'
    BY <1>3, WorkersThereStay DEF Completion, ThereInv
  <2>2. JobsThere'
    BY <1>4 DEF Completion, ThereInv, JobsThere
  <2> QED BY <2>1, <2>2 DEF ThereInv
<1> QED BY <1>5, <1>6, <1>7, <1>8, <1>9, <1>10 DEF Completion

\* A step that keeps the account of its job.
LEMMA CompletionKeeps ==
  ASSUME HandsInv, Completion, NEW t \in Threads, NEW r \in Launcher, r = launcher[t],
         NEW u \in Launcher, LauncherInv(u), launcher' = [launcher EXCEPT ![t] = u], Keeps(r, u),
         u.pc \in {"stand", "await", "test", "submit", "poll", "evict", "soft", "drain", "ask",
                   "flag"},
         NEW q, worker_queue' = q, Held(u) \union Queued(q) = Held(r) \union Queued(worker_queue),
         NEW p, job_queue' = p, Queued(p) = Queued(job_queue),
         UNCHANGED <<worker_handle, jobVars, block, num>>
  PROVE  Completion'
<1>1. /\ u.n = r.n /\ u.job = r.job /\ u.all_done = r.all_done
      /\ Submitted(u) = Submitted(r) /\ Working(u) = Working(r)
  BY DEF Keeps
<1>2. u.then = "none"
  BY DEF LauncherInv
<1>3. u.pc \notin {"job", "abandon", "cleanup", "give"} /\ u.then # "cleanup"
  BY <1>2
<1> QED BY <1>1, <1>3, CompletionMove

\* A step of a thread in time that loses no worker and no job.
LEMMA KeptMove ==
  ASSUME HandsInv, Kept, NEW t \in Threads, NEW r \in Launcher, r = launcher[t],
         NEW u \in Launcher, LauncherInv(u), launcher' = [launcher EXCEPT ![t] = u],
         u.pc \notin {"abandon", "cleanup"}, u.pc = "job" => u.i = 0,
         u.pc \in {"push", "give"} => u.then # "cleanup",
         NEW q, worker_queue' = q, Held(r) \union Queued(worker_queue) \subseteq Held(u) \union Queued(q),
         NEW p, job_queue' = p, Queued(job_queue) \union {r.job} \subseteq Queued(p) \union {u.job, Empty},
         UNCHANGED runner
  PROVE  Kept'
<1>1. launcher \in [Threads -> Launcher]
  BY DEF HandsInv, TypeInv, RecordsOK
<1>2. \A v \in Threads : launcher'[v] = IF v = t THEN u ELSE launcher[v]
  BY <1>1
<1>3. u.then # "cleanup"
  BY DEF LauncherInv
<1>4. InTimeInv'
  BY <1>2, <1>3 DEF Kept, InTimeInv
<1>5. JobsThere'
  <2> SUFFICES ASSUME NEW j \in Jobs
               PROVE  j \in Queued(p) \/ \E v \in Threads : launcher'[v].job = j
    BY DEF JobsThere
  <2>1. j # Empty
    BY IdsAreNumbers
  <2>2. CASE j \in Queued(job_queue) \/ j = r.job
    BY <1>2, <2>1, <2>2
  <2>3. CASE j \notin Queued(job_queue) /\ j # r.job
    <3>1. PICK v \in Threads : launcher[v].job = j
      BY <2>3 DEF Kept, JobsThere
    <3>2. launcher'[v].job = j
      BY <1>2, <2>3, <3>1
    <3> QED BY <3>2
  <2> QED BY <2>2, <2>3
<1>6. WorkersKept'
  <2> SUFFICES ASSUME runner.pc = "up", NEW w \in Workers
               PROVE  w \in Queued(q) \/ \E v \in Threads : w \in Held(launcher'[v])
    BY DEF WorkersKept
  <2>1. w \in Queued(worker_queue) \/ \E v \in Threads : w \in Held(launcher[v])
    BY DEF Kept, WorkersKept
  <2>2. CASE w \in Queued(worker_queue) \/ w \in Held(r)
    BY <1>2, <2>2
  <2>3. CASE w \notin Queued(worker_queue) /\ w \notin Held(r)
    <3>1. PICK v \in Threads : w \in Held(launcher[v])
      BY <2>1, <2>3
    <3>2. launcher'[v] = launcher[v]
      BY <1>2, <2>3, <3>1
    <3> QED BY <3>1, <3>2
  <2> QED BY <2>2, <2>3
<1> QED BY <1>4, <1>5, <1>6 DEF Kept

\* A step of a block, or of the destructor.
LEMMA KeptStays ==
  ASSUME Kept, UNCHANGED <<launcher, job_queue>>,
         runner'.pc # "up" \/ UNCHANGED <<runner, worker_queue>>
  PROVE  Kept'
<1>1. InTimeInv' /\ JobsThere'
  BY DEF Kept, InTimeInv, JobsThere
<1>2. WorkersKept'
  BY DEF Kept, WorkersKept
<1> QED BY <1>1, <1>2 DEF Kept

LEMMA HandsTestFails ==
  ASSUME HandsInv, NEW t \in Threads, TestFails(t), UNCHANGED mode
  PROVE  HandsInv' /\ (Completion => Completion') /\ (Kept => Kept')
<1>1. PICK r \in Launcher : r = launcher[t]
  BY Hands
<1>2. LauncherInv(r) /\ Apart(r) /\ mode \in Modes /\ r.pc = "test"
  BY <1>1, Hands DEF TestFails
<1>3. PICK u : u = IF r.pending = <<>> THEN [r EXCEPT !.pc = "await"] ELSE PopOld(r, "poll")
  OBVIOUS
<1>4. /\ u \in Launcher /\ LauncherInv(u) /\ Apart(u) /\ Held(u) = Held(r)
      /\ u.job = r.job /\ u.pc \in {"await", "poll"} /\ Keeps(r, u)
  <2>1. CASE r.pending = <<>>
    <3>1. u = [r EXCEPT !.pc = "await"]
      BY <1>3, <2>1
    <3> QED BY <1>2, <3>1, AwaitStep DEF Keeps
  <2>2. CASE r.pending # <<>>
    <3>1. u = PopOld(r, "poll")
      BY <1>3, <2>2
    <3> QED BY <1>2, <2>2, <3>1, PollStep DEF Keeps
  <2> QED BY <2>1, <2>2
<1>5. /\ launcher' = [launcher EXCEPT ![t] = u]
      /\ UNCHANGED <<queues, worker_handle, jobVars, block, runner, num, out, mode>>
  BY <1>1, <1>3 DEF TestFails, Become
<1>20. HandsInv'
  BY <1>1, <1>2, <1>4, <1>5, HandsStay
<1>21. ASSUME Completion PROVE Completion'
  <2>1. /\ Held(u) \union Queued(worker_queue) = Held(r) \union Queued(worker_queue)
        /\ worker_queue' = worker_queue /\ job_queue' = job_queue
    BY <1>4, <1>5 DEF queues
  <2> QED BY <1>1, <1>4, <1>5, <1>21, <2>1, CompletionKeeps
<1>25. ASSUME Kept PROVE Kept'
  <2>1. /\ Held(r) \union Queued(worker_queue) \subseteq Held(u) \union Queued(worker_queue)
        /\ Queued(job_queue) \union {r.job} \subseteq Queued(job_queue) \union {u.job, Empty}
        /\ worker_queue' = worker_queue /\ job_queue' = job_queue /\ runner' = runner
    BY <1>4, <1>5 DEF queues
  <2> QED BY <1>1, <1>4, <1>5, <1>25, <2>1, KeptMove
<1> QED BY <1>20, <1>21, <1>25

LEMMA HandsTryReturnFails ==
  ASSUME HandsInv, NEW t \in Threads, TryReturnFails(t), UNCHANGED mode
  PROVE  HandsInv' /\ (Completion => Completion') /\ (Kept => Kept')
<1>1. PICK r \in Launcher : r = launcher[t]
  BY Hands
<1>2. LauncherInv(r) /\ Apart(r) /\ mode \in Modes /\ r.pc \in {"poll", "soft", "drain"}
  BY <1>1, Hands DEF TryReturnFails
<1>3. ~r.all_done
  BY <1>1 DEF TryReturnFails
<1>4. PICK v : v = Return(r)
  OBVIOUS
<1>5. PICK u : u = CASE r.pc = "poll"  -> [v EXCEPT !.pc = "test"]
                     [] r.pc = "soft"  -> Advance(v)
                     [] r.pc = "drain" -> [r EXCEPT !.pc = "ask"]
  OBVIOUS
<1>6. /\ u \in Launcher /\ LauncherInv(u) /\ Apart(u) /\ Held(u) = Held(r) /\ u.job = r.job
      /\ Keeps(r, u) /\ u.pc \in {"test", "stand", "drain", "flag", "ask"}
  <2>1. u \in Launcher /\ LauncherInv(u) /\ Apart(u) /\ Keeps(r, u)
    BY <1>2, <1>3, <1>4, <1>5, TryReturnFailsStep
  <2>2. Held(u) = Held(r)
    BY <1>2, <1>3, <1>4, <1>5, TryReturnFailsStep
  <2>3. u.pc \in {"test", "stand", "drain", "flag", "ask"}
    BY <1>2, <1>3, <1>4, <1>5, TryReturnFailsStep
  <2>4. u.job = r.job
    BY <2>1 DEF Keeps
  <2> QED BY <2>1, <2>2, <2>3, <2>4
<1>7. /\ launcher' = [launcher EXCEPT ![t] = u]
      /\ UNCHANGED <<queues, worker_handle, jobVars, block, runner, num, out, mode>>
  BY <1>1, <1>4, <1>5 DEF TryReturnFails, Become
<1>20. HandsInv'
  BY <1>1, <1>2, <1>6, <1>7, HandsStay
<1>21. ASSUME Completion PROVE Completion'
  <2>1. /\ Held(u) \union Queued(worker_queue) = Held(r) \union Queued(worker_queue)
        /\ worker_queue' = worker_queue /\ job_queue' = job_queue
    BY <1>6, <1>7 DEF queues
  <2> QED BY <1>1, <1>6, <1>7, <1>21, <2>1, CompletionKeeps
<1>25. ASSUME Kept PROVE Kept'
  <2>1. /\ Held(r) \union Queued(worker_queue) \subseteq Held(u) \union Queued(worker_queue)
        /\ Queued(job_queue) \union {r.job} \subseteq Queued(job_queue) \union {u.job, Empty}
        /\ worker_queue' = worker_queue /\ job_queue' = job_queue /\ runner' = runner
    BY <1>6, <1>7 DEF queues
  <2> QED BY <1>1, <1>6, <1>7, <1>25, <2>1, KeptMove
<1> QED BY <1>20, <1>21, <1>25

LEMMA HandsAskAllDone ==
  ASSUME HandsInv, NEW t \in Threads, AskAllDone(t), UNCHANGED mode
  PROVE  HandsInv' /\ (Completion => Completion') /\ (Kept => Kept')
<1>1. PICK r \in Launcher : r = launcher[t]
  BY Hands
<1>2. LauncherInv(r) /\ Apart(r) /\ mode \in Modes /\ r.pc = "ask"
  BY <1>1, Hands DEF AskAllDone
<1>3. completion_flag[r.job] \in BOOLEAN
  <2>1. r.job # Empty
    BY <1>2 DEF LauncherInv, Where
  <2>2. r.job \in Jobs
    BY <2>1 DEF Launcher
  <2> QED BY <2>2 DEF HandsInv, TypeInv, MemoryOK
<1>4. PICK done \in BOOLEAN : done = completion_flag[r.job]
  BY <1>3
<1>5. PICK u : u = [r EXCEPT !.pc = "drain", !.all_done = done]
  OBVIOUS
<1>6. u \in Launcher /\ LauncherInv(u) /\ Apart(u) /\ Held(u) = Held(r) /\ u.job = r.job
  <2>1. u \in Launcher /\ LauncherInv(u)
    BY <1>2, <1>5, AnswerStep
  <2>3. Apart(u)
    BY <1>2, <1>5, AnswerStep
  <2>4. u.job = r.job
    BY <1>5 DEF Launcher
  <2>2. Held(u) = Held(r)
    BY <1>2, <1>5, AnswerStep
  <2> QED BY <2>1, <2>2, <2>3, <2>4
<1>7. /\ launcher' = [launcher EXCEPT ![t] = u]
      /\ UNCHANGED <<queues, worker_handle, jobVars, block, runner, num, out, mode>>
  BY <1>1, <1>4, <1>5 DEF AskAllDone, Become
<1>20. HandsInv'
  BY <1>1, <1>2, <1>6, <1>7, HandsStay
<1>21. ASSUME Completion PROVE Completion'
  <2>1. /\ Held(u) \union Queued(worker_queue) = Held(r) \union Queued(worker_queue)
        /\ worker_queue' = worker_queue /\ job_queue' = job_queue
    BY <1>6, <1>7 DEF queues
  <2>2. u.n = r.n /\ u.pc = "drain" /\ u.all_done = done
    BY <1>5 DEF Launcher
  <2>3. Submitted(u) = Submitted(r) /\ Working(u) = Working(r)
    <3>1. /\ u.i = r.i /\ u.pending = r.pending /\ u.worker = r.worker /\ u.old = r.old
          /\ u.then = r.then
      BY <1>5 DEF Launcher
    <3>2. Submitted(u) = Submitted(r)
      BY <1>2, <2>2, <3>1 DEF Submitted, Where
    <3>3. Working(u) = Working(r)
      BY <1>2, <2>2, <3>1 DEF Working, Where, GivenWork
    <3> QED BY <3>2, <3>3
  <2>4. u.then # "cleanup"
    BY <1>6, <2>2 DEF LauncherInv
  <2>5. \A j \in Jobs : j = r.job /\ u.all_done => completion_flag[j]
    BY <1>4, <2>2
  <2>6. u.pc \notin {"job", "abandon", "cleanup", "give"}
    BY <2>2
  <2> QED BY <1>1, <1>6, <1>7, <1>21, <2>1, <2>2, <2>3, <2>4, <2>5, <2>6, CompletionMove
<1>25. ASSUME Kept PROVE Kept'
  <2>1. /\ Held(r) \union Queued(worker_queue) \subseteq Held(u) \union Queued(worker_queue)
        /\ Queued(job_queue) \union {r.job} \subseteq Queued(job_queue) \union {u.job, Empty}
        /\ worker_queue' = worker_queue /\ job_queue' = job_queue /\ runner' = runner
    BY <1>6, <1>7 DEF queues
  <2>2. u.pc = "drain"
    BY <1>5 DEF Launcher
  <2> QED BY <1>1, <1>6, <1>7, <1>25, <2>1, <2>2, KeptMove
<1> QED BY <1>20, <1>21, <1>25

LEMMA HandsThrowInConstructor ==
  ASSUME HandsInv, NEW t \in Threads, ThrowInConstructor(t), UNCHANGED mode
  PROVE  HandsInv'
<1>1. PICK r \in Launcher : r = launcher[t]
  BY Hands
<1>2. LauncherInv(r) /\ Apart(r) /\ mode \in Modes /\ r.pc \in {"poll", "evict"}
  BY <1>1, Hands DEF ThrowInConstructor
<1>3. PICK u : u = IF r.pc = "poll" THEN [r EXCEPT !.pc = "abandon"] ELSE Left(r)
  OBVIOUS
<1>4. /\ u \in Launcher /\ LauncherInv(u) /\ Apart(u) /\ Held(u) \subseteq Held(r)
      /\ u.job \in {Empty, r.job}
  <2>1. CASE r.pc = "poll"
    <3>1. u = [r EXCEPT !.pc = "abandon"]
      BY <1>3, <2>1
    <3> QED BY <1>2, <2>1, <3>1, AbandonStep
  <2>2. CASE r.pc = "evict"
    <3>1. u = Left(r)
      BY <1>3, <2>2
    <3>2. LauncherInv(u)
      BY <1>2, <3>1, LeftStep
    <3> QED BY <3>1, <3>2, AfterLeft
  <2> QED BY <1>2, <2>1, <2>2
<1>5. /\ launcher' = [launcher EXCEPT ![t] = u]
      /\ UNCHANGED <<queues, worker_handle, jobVars, block, runner, num, out, mode>>
  BY <1>1, <1>3 DEF ThrowInConstructor, Become
<1> QED BY <1>1, <1>2, <1>4, <1>5, HandsStay

LEMMA HandsStandInLine ==
  ASSUME HandsInv, NEW t \in Threads, StandInLine(t), UNCHANGED mode
  PROVE  HandsInv' /\ (Completion => Completion') /\ (Kept => Kept')
<1>1. PICK r \in Launcher : r = launcher[t]
  BY Hands
<1>2. LauncherInv(r) /\ Apart(r) /\ mode \in Modes /\ r.pc = "stand"
  BY <1>1, Hands DEF StandInLine
<1>3. PICK k \in Nat : k = worker_queue.tail
  BY Hands
<1>4. PICK u : u = [r EXCEPT !.pc = IF r.i = 0 THEN "await" ELSE "test", !.slot = k]
  OBVIOUS
<1>5. /\ u \in Launcher /\ LauncherInv(u) /\ Apart(u) /\ Held(u) = Held(r) /\ u.job = r.job
      /\ Keeps(r, u)
  <2>1. u \in Launcher /\ LauncherInv(u) /\ Apart(u) /\ Keeps(r, u)
    BY <1>2, <1>4, StandInLineStep
  <2>2. Held(u) = Held(r)
    BY <1>2, <1>4, StandInLineStep
  <2>3. u.job = r.job
    BY <2>1 DEF Keeps
  <2> QED BY <2>1, <2>2, <2>3
<1>6. PICK q \in Queue(WorkerSize, Workers) : q = Promised(worker_queue) /\ q.buf = worker_queue.buf
  BY Hands, Sizes, CountersOnly
<1>7. PICK p \in Queue(NumJobs, Jobs) : p = job_queue
  BY Hands
<1>8. /\ launcher' = [launcher EXCEPT ![t] = u] /\ worker_queue' = q /\ job_queue' = p
      /\ UNCHANGED <<worker_handle, jobVars, block, runner, num, out, mode>>
  BY <1>1, <1>3, <1>4, <1>6, <1>7 DEF StandInLine, Become
<1>20. HandsInv'
  BY <1>1, <1>2, <1>5, <1>6, <1>7, <1>8, QueuesStay
<1>21. ASSUME Completion PROVE Completion'
  <2>1. Held(u) \union Queued(q) = Held(r) \union Queued(worker_queue)
    BY <1>5, <1>6 DEF Queued
  <2>2. u.pc \in {"await", "test"}
    BY <1>4 DEF Launcher
  <2> QED BY <1>1, <1>5, <1>7, <1>8, <1>21, <2>1, <2>2, CompletionKeeps
<1>25. ASSUME Kept PROVE Kept'
  <2>1. /\ Held(r) \union Queued(worker_queue) \subseteq Held(u) \union Queued(q)
        /\ Queued(job_queue) \union {r.job} \subseteq Queued(p) \union {u.job, Empty}
        /\ runner' = runner
    BY <1>5, <1>6, <1>7, <1>8 DEF Queued
  <2>2. u.pc \in {"await", "test"}
    BY <1>4 DEF Launcher
  <2> QED BY <1>1, <1>5, <1>8, <1>25, <2>1, <2>2, KeptMove
<1> QED BY <1>20, <1>21, <1>25

LEMMA HandsTryReturn ==
  ASSUME HandsInv, NEW t \in Threads, TryReturn(t), UNCHANGED mode
  PROVE  HandsInv' /\ (Completion => Completion') /\ (Kept => Kept')
<1>1. PICK r \in Launcher : r = launcher[t]
  BY Hands
<1>2. LauncherInv(r) /\ Apart(r) /\ mode \in Modes /\ r.pc \in {"poll", "evict", "soft", "drain"}
  BY <1>1, Hands DEF TryReturn
<1>3. PICK k \in Nat : k = worker_queue.head
  BY Hands
<1>4. PICK u : u = [r EXCEPT !.pc = "push", !.then = r.pc, !.put = k]
  OBVIOUS
<1>5. u \in Launcher /\ LauncherInv(u) /\ Apart(u) /\ Held(u) = Held(r) /\ u.job = r.job
  <2>1. u \in Launcher
    BY <1>2, <1>4 DEF Launcher, Places
  <2>5. LauncherInv(u)
    BY <1>2, <1>4, TryReturnStep
  <2>3. Apart(u)
    BY <1>2, <1>4, TryReturnStep
  <2>4. u.job = r.job
    BY <1>4 DEF Launcher
  <2>2. Held(u) = Held(r)
    <3>1. u.worker = r.worker /\ u.old = r.old /\ u.pending = r.pending
      BY <1>4 DEF Launcher
    <3> QED BY <3>1 DEF Held
  <2> QED BY <2>1, <2>2, <2>3, <2>4, <2>5
<1>6. PICK q \in Queue(WorkerSize, Workers) : q = Reserved(worker_queue) /\ q.buf = worker_queue.buf
  BY Hands, Sizes, CountersOnly
<1>7. PICK p \in Queue(NumJobs, Jobs) : p = job_queue
  BY Hands
<1>8. /\ launcher' = [launcher EXCEPT ![t] = u] /\ worker_queue' = q /\ job_queue' = p
      /\ UNCHANGED <<worker_handle, jobVars, block, runner, num, out, mode>>
  BY <1>1, <1>3, <1>4, <1>6, <1>7 DEF TryReturn, Become
<1>20. HandsInv'
  BY <1>1, <1>2, <1>5, <1>6, <1>7, <1>8, QueuesStay
<1>21. ASSUME Completion PROVE Completion'
  <2>1. Held(u) \union Queued(q) = Held(r) \union Queued(worker_queue)
    BY <1>5, <1>6 DEF Queued
  <2>2. u.n = r.n /\ u.pc = "push" /\ u.then = r.pc /\ u.all_done = r.all_done
    BY <1>4 DEF Launcher
  <2>3. Submitted(u) = Submitted(r)
    <3>1. u.i = r.i
      BY <1>4 DEF Launcher
    <3> QED BY <1>2, <2>2, <3>1 DEF Submitted, Where
  <2>4. Working(u) = Working(r) \ {r.old}
    BY <1>2, <1>4, TryReturnStep
  <2>5. ~Busy(r.old) \/ worker_handle[r.old].job # r.job
    <3>1. CASE ~r.all_done
      BY <1>1, <3>1 DEF TryReturn
    <3>2. CASE r.all_done
      <4>1. r.job # Empty /\ r.old # Empty
        BY <1>2 DEF LauncherInv, Where
      <4>2. r.job \in Jobs /\ r.old \in Workers
        BY <4>1 DEF Launcher, Ids
      <4>3. PICK j \in Jobs : j = r.job
        BY <4>2
      <4>4. Counts(t, j)
        BY <1>1, <1>21, <4>3 DEF Completion, CountInv
      <4>5. Finished(j) /\ Counted(launcher[t], counter[j], Outstanding(j), Finished(j))
        BY <1>1, <3>2, <4>4 DEF Counts, Finished
      <4>6. Outstanding(j) = 0
        BY <4>5 DEF Counted
      <4>7. InMail(j) = {}
        BY <4>6, WorkerSets
      <4> QED BY <4>2, <4>3, <4>7 DEF InMail
    <3> QED BY <3>1, <3>2
  <2>6. \A w \in Working(r) : w \in Working(u) \/ ~Busy(w) \/ worker_handle[w].job # r.job
    BY <2>4, <2>5
  <2>7. u.pc \notin {"job", "abandon", "cleanup", "give"} /\ u.then # "cleanup"
    BY <1>2, <2>2
  <2> QED BY <1>1, <1>5, <1>7, <1>8, <1>21, <2>1, <2>2, <2>3, <2>6, <2>7, CompletionMove
<1>25. ASSUME Kept PROVE Kept'
  <2>1. /\ Held(r) \union Queued(worker_queue) \subseteq Held(u) \union Queued(q)
        /\ Queued(job_queue) \union {r.job} \subseteq Queued(p) \union {u.job, Empty}
        /\ runner' = runner
    BY <1>5, <1>6, <1>7, <1>8 DEF Queued
  <2>2. u.pc = "push" /\ u.then # "cleanup"
    BY <1>2, <1>4 DEF Launcher
  <2> QED BY <1>1, <1>5, <1>8, <1>25, <2>1, <2>2, KeptMove
<1> QED BY <1>20, <1>21, <1>25

LEMMA HandsPushBusy ==
  ASSUME HandsInv, NEW t \in Threads, PushBusy(t), UNCHANGED mode
  PROVE  HandsInv'
<1>1. PICK r \in Launcher : r = launcher[t]
  BY Hands
<1>2. LauncherInv(r) /\ Apart(r) /\ mode \in Modes /\ r.pc = "cleanup"
  BY <1>1, Hands DEF PushBusy
<1>3. PICK k \in Nat : k = worker_queue.head
  BY Hands
<1>4. PICK u : u = [r EXCEPT !.pc = "push", !.then = "cleanup", !.put = k]
  OBVIOUS
<1>5. u \in Launcher /\ LauncherInv(u) /\ Apart(u) /\ Held(u) = Held(r) /\ u.job = r.job
  BY <1>2, <1>4, PushBusyStep
<1>6. PICK q \in Queue(WorkerSize, Workers) : q = Reserved(worker_queue) /\ q.buf = worker_queue.buf
  BY Hands, Sizes, CountersOnly
<1>7. PICK p \in Queue(NumJobs, Jobs) : p = job_queue
  BY Hands
<1>8. /\ launcher' = [launcher EXCEPT ![t] = u] /\ worker_queue' = q /\ job_queue' = p
      /\ UNCHANGED <<worker_handle, jobVars, block, runner, num, out, mode>>
  BY <1>1, <1>3, <1>4, <1>6, <1>7 DEF PushBusy, Become
<1> QED BY <1>1, <1>2, <1>5, <1>6, <1>7, <1>8, QueuesStay

LEMMA HandsIsAllDone ==
  ASSUME HandsInv, NEW t \in Threads, IsAllDone(t), UNCHANGED mode
  PROVE  HandsInv' /\ (Completion => Completion') /\ (Kept => Kept')
<1>1. PICK r \in Launcher : r = launcher[t]
  BY Hands
<1>2. LauncherInv(r) /\ Apart(r) /\ mode \in Modes /\ r.pc = "flag"
  BY <1>1, Hands DEF IsAllDone
<1>3. PICK k \in Nat : k = job_queue.head
  BY Hands
<1>4. PICK u : u = [r EXCEPT !.pc = "give", !.put = k]
  OBVIOUS
<1>5. u \in Launcher /\ LauncherInv(u) /\ Apart(u) /\ Held(u) = Held(r) /\ u.job = r.job
  <2>1. u \in Launcher /\ u.job = r.job
    BY <1>4 DEF Launcher, Places
  <2>2. LauncherInv(u)
    BY <1>2, <1>4, FlagStep
  <2>3. Apart(u)
    BY <1>2, <1>4, FlagStep
  <2>4. Held(u) = Held(r)
    BY <1>2, <1>4, FlagStep
  <2> QED BY <2>1, <2>2, <2>3, <2>4
<1>6. PICK p \in Queue(NumJobs, Jobs) : p = Reserved(job_queue) /\ p.buf = job_queue.buf
  BY Hands, Sizes, CountersOnly
<1>7. PICK q \in Queue(WorkerSize, Workers) : q = worker_queue
  BY Hands
<1>8. /\ launcher' = [launcher EXCEPT ![t] = u] /\ worker_queue' = q /\ job_queue' = p
      /\ UNCHANGED <<worker_handle, jobVars, block, runner, num, out, mode>>
  BY <1>1, <1>3, <1>4, <1>6, <1>7 DEF IsAllDone, Become
<1>20. HandsInv'
  BY <1>1, <1>2, <1>5, <1>6, <1>7, <1>8, QueuesStay
<1>21. ASSUME Completion PROVE Completion'
  <2>1. /\ Held(u) \union Queued(q) = Held(r) \union Queued(worker_queue)
        /\ Queued(p) = Queued(job_queue)
    BY <1>5, <1>6, <1>7 DEF Queued
  <2>2. Keeps(r, u)
    BY <1>2, <1>4, FlagStep
  <2>3. u.pc = "give" /\ u.then = r.then /\ r.then = "none"
    <3>1. r.then = "none"
      BY <1>2 DEF LauncherInv
    <3> QED BY <1>4, <3>1 DEF Launcher
  <2>4. r.all_done \/ completion_flag[r.job]
    BY <1>1 DEF IsAllDone
  <2>5. /\ u.n = r.n /\ u.job = r.job /\ Submitted(u) = Submitted(r) /\ Working(u) = Working(r)
    BY <2>2 DEF Keeps
  <2>6. \A j \in Jobs : j = r.job => r.all_done \/ completion_flag[j]
    BY <2>4
  <2>7. u.pc \notin {"job", "abandon", "cleanup"} /\ u.then # "cleanup"
    BY <2>3
  <2> QED BY <1>1, <1>5, <1>8, <1>21, <2>1, <2>5, <2>6, <2>7, CompletionMove
<1>25. ASSUME Kept PROVE Kept'
  <2>1. /\ Held(r) \union Queued(worker_queue) \subseteq Held(u) \union Queued(q)
        /\ Queued(job_queue) \union {r.job} \subseteq Queued(p) \union {u.job, Empty}
        /\ runner' = runner
    BY <1>5, <1>6, <1>7, <1>8 DEF Queued
  <2>2. u.pc = "give" /\ u.then # "cleanup"
    <3>1. r.then = "none"
      BY <1>2 DEF LauncherInv
    <3> QED BY <1>4, <3>1 DEF Launcher
  <2> QED BY <1>1, <1>5, <1>8, <1>25, <2>1, <2>2, KeptMove
<1> QED BY <1>20, <1>21, <1>25

LEMMA HandsThrowInWait ==
  ASSUME HandsInv, NEW t \in Threads, ThrowInWait(t), UNCHANGED mode
  PROVE  HandsInv'
<1>1. PICK r \in Launcher : r = launcher[t]
  BY Hands
<1>2. LauncherInv(r) /\ Apart(r) /\ mode \in Modes /\ r.pc \in {"ask", "flag"}
  BY <1>1, Hands DEF ThrowInWait
<1>3. ~r.all_done
  BY <1>1 DEF ThrowInWait
<1>4. PICK k \in Nat : k = job_queue.head
  BY Hands
<1>5. PICK u : u = [r EXCEPT !.pc = "give", !.then = "cleanup", !.old = Empty, !.put = k]
  OBVIOUS
<1>6. u \in Launcher /\ LauncherInv(u) /\ Apart(u) /\ Held(u) \subseteq Held(r) /\ u.job = r.job
  <2>1. u \in Launcher /\ LauncherInv(u) /\ Apart(u) /\ u.job = r.job
    BY <1>2, <1>3, <1>5, ThrowInWaitStep
  <2>2. Held(u) = Held(r) \ {r.old}
    BY <1>2, <1>3, <1>5, ThrowInWaitStep
  <2> QED BY <2>1, <2>2
<1>7. PICK p \in Queue(NumJobs, Jobs) : p = Reserved(job_queue) /\ p.buf = job_queue.buf
  BY Hands, Sizes, CountersOnly
<1>8. PICK q \in Queue(WorkerSize, Workers) : q = worker_queue
  BY Hands
<1>9. /\ launcher' = [launcher EXCEPT ![t] = u] /\ worker_queue' = q /\ job_queue' = p
      /\ UNCHANGED <<worker_handle, jobVars, block, runner, num, out, mode>>
  BY <1>1, <1>4, <1>5, <1>7, <1>8 DEF ThrowInWait, Become
<1> QED BY <1>1, <1>2, <1>6, <1>7, <1>8, <1>9, QueuesStay

LEMMA HandsTakeWorker ==
  ASSUME HandsInv, NEW t \in Threads, TakeWorker(t), UNCHANGED mode
  PROVE  HandsInv' /\ (Completion => Completion') /\ (Kept => Kept')
<1>1. PICK r \in Launcher : r = launcher[t]
  BY Hands
<1>2. /\ LauncherInv(r) /\ Apart(r) /\ mode \in Modes /\ r.pc \in {"await", "test"}
      /\ Held(r) \intersect Queued(worker_queue) = {}
  BY <1>1, Hands DEF TakeWorker
<1>3. PICK k \in Nat : k = r.slot
  BY <1>1, Hands
<1>4. PICK x : x = Value(worker_queue, k)
  OBVIOUS
<1>5. Ready(worker_queue, k)
  BY <1>1, <1>3 DEF TakeWorker
<1>6. PICK q : q = Taken(worker_queue, k)
  OBVIOUS
<1>7. /\ q \in Queue(WorkerSize, Workers) /\ x \in Workers /\ x \in Queued(worker_queue)
      /\ Single(q) /\ Queued(q) = Queued(worker_queue) \ {x}
  BY <1>4, <1>5, <1>6, Hands, Sizes, TakenFromQueue
<1>8. PICK u : u = [r EXCEPT !.pc = "submit", !.slot = 0, !.worker = x]
  OBVIOUS
<1>9. x \notin Held(r)
  BY <1>2, <1>7
<1>10. u \in Launcher /\ LauncherInv(u) /\ Apart(u) /\ u.job = r.job
  <2>1. u \in Launcher /\ u.job = r.job
    BY <1>7, <1>8 DEF Launcher, Places, Ids
  <2>2. LauncherInv(u)
    BY <1>2, <1>7, <1>8, <1>9, TakeWorkerStep
  <2>3. Apart(u)
    BY <1>2, <1>7, <1>8, <1>9, TakeWorkerStep
  <2> QED BY <2>1, <2>2, <2>3
<1>11. Held(u) = Held(r) \union {x}
  BY <1>2, <1>7, <1>8, <1>9, TakeWorkerStep
<1>12. PICK p \in Queue(NumJobs, Jobs) : p = job_queue /\ Single(p) /\ r.job \notin Queued(p)
  BY <1>1, Hands
<1>13. /\ launcher' = [launcher EXCEPT ![t] = u] /\ worker_queue' = q /\ job_queue' = p
       /\ UNCHANGED <<worker_handle, jobVars, block, runner, num, out, mode>>
  BY <1>1, <1>3, <1>4, <1>6, <1>8, <1>12 DEF TakeWorker, Become
<1>14. /\ Held(u) \intersect Queued(q) = {}
       /\ Held(u) \union Queued(q) \subseteq Held(launcher[t]) \union Queued(worker_queue)
  BY <1>1, <1>2, <1>7, <1>11
<1>15. Queued(p) \subseteq Queued(job_queue) \union {launcher[t].job} /\ u.job \notin Queued(p)
  BY <1>10, <1>12
<1>16. launcher[t].pc # "idle" /\ u.job \in {Empty, launcher[t].job}
  BY <1>1, <1>2, <1>10
<1>20. HandsInv'
  BY <1>7, <1>10, <1>12, <1>13, <1>14, <1>15, <1>16, HandsMove
<1>21. ASSUME Completion PROVE Completion'
  <2>1. Held(u) \union Queued(q) = Held(r) \union Queued(worker_queue)
    BY <1>7, <1>11
  <2>2. Keeps(r, u)
    BY <1>2, <1>7, <1>8, <1>9, TakeWorkerStep
  <2>3. u.pc = "submit" /\ Queued(p) = Queued(job_queue)
    BY <1>8, <1>12 DEF Launcher
  <2> QED BY <1>1, <1>10, <1>13, <1>21, <2>1, <2>2, <2>3, CompletionKeeps
<1>25. ASSUME Kept PROVE Kept'
  <2>1. /\ Held(r) \union Queued(worker_queue) \subseteq Held(u) \union Queued(q)
        /\ Queued(job_queue) \union {r.job} \subseteq Queued(p) \union {u.job, Empty}
        /\ runner' = runner
    BY <1>7, <1>10, <1>11, <1>12, <1>13
  <2>2. u.pc = "submit"
    BY <1>8 DEF Launcher
  <2> QED BY <1>1, <1>10, <1>13, <1>25, <2>1, <2>2, KeptMove
<1> QED BY <1>20, <1>21, <1>25

LEMMA HandsAbandon ==
  ASSUME HandsInv, NEW t \in Threads, Abandon(t), UNCHANGED mode
  PROVE  HandsInv'
<1>1. PICK r \in Launcher : r = launcher[t]
  BY Hands
<1>2. mode \in Modes /\ r.pc = "abandon"
  BY <1>1, Hands DEF Abandon
<1>3. PICK k \in Nat : k = r.slot
  BY <1>1, Hands
<1>4. Ready(worker_queue, k)
  BY <1>1, <1>3 DEF Abandon
<1>5. PICK q : q = Taken(worker_queue, k)
  OBVIOUS
<1>6. /\ q \in Queue(WorkerSize, Workers)
      /\ Single(q) /\ Queued(q) = Queued(worker_queue) \ {Value(worker_queue, k)}
  BY <1>4, <1>5, Hands, Sizes, TakenFromQueue
<1>7. PICK u : u = Left(r)
  OBVIOUS
<1>8. u \in Launcher /\ u.pc = "idle" /\ u.job = Empty /\ Apart(u) /\ Held(u) = {}
  BY <1>7, AfterLeft
<1>9. LauncherInv(u)
  BY <1>2, <1>7, LeftStep
<1>10. PICK p \in Queue(NumJobs, Jobs) : p = job_queue /\ Single(p)
  BY <1>1, Hands
<1>11. /\ launcher' = [launcher EXCEPT ![t] = u] /\ worker_queue' = q /\ job_queue' = p
       /\ UNCHANGED <<worker_handle, jobVars, block, runner, num, out, mode>>
  BY <1>1, <1>3, <1>5, <1>7, <1>10 DEF Abandon, Become
<1>12. /\ Held(u) \intersect Queued(q) = {}
       /\ Held(u) \union Queued(q) \subseteq Held(launcher[t]) \union Queued(worker_queue)
  BY <1>6, <1>8
<1>13. Queued(p) \subseteq Queued(job_queue) \union {launcher[t].job} /\ u.job \notin Queued(p)
  BY <1>8, <1>10 DEF Queued
<1> QED BY <1>6, <1>8, <1>9, <1>10, <1>11, <1>12, <1>13, HandsMove

LEMMA HandsPushWorker ==
  ASSUME HandsInv, NEW t \in Threads, PushWorker(t), UNCHANGED mode
  PROVE  HandsInv' /\ (Completion => Completion') /\ (Kept => Kept')
<1>1. PICK p \in Launcher : p = launcher[t]
  BY Hands
<1>2. /\ LauncherInv(p) /\ Apart(p) /\ mode \in Modes /\ p.pc = "push"
      /\ Held(p) \intersect Queued(worker_queue) = {}
  BY <1>1, Hands DEF PushWorker
<1>3. PICK k \in Nat : k = p.put
  BY <1>1, Hands
<1>4. PICK x : x = p.old
  OBVIOUS
<1>5. ~Ready(worker_queue, k)
  BY <1>1, <1>3 DEF PushWorker
<1>6. x \in Workers /\ x # Empty /\ x \in Held(p)
  <2>1. p.then \in {"poll", "evict", "soft", "drain", "cleanup"}
    BY <1>2 DEF Launcher, LauncherInv
  <2>2. p.old # Empty
    BY <1>2, <2>1 DEF LauncherInv, Where
  <2> QED BY <1>4, <2>2 DEF Launcher, Ids, Held
<1>7. PICK q : q = Put(worker_queue, k, x)
  OBVIOUS
<1>8. /\ q \in Queue(WorkerSize, Workers) /\ Single(q)
      /\ Queued(q) = Queued(worker_queue) \union {x}
  <2>1. x \notin Queued(worker_queue) /\ Single(worker_queue)
    BY <1>2, <1>6, Hands
  <2>2. worker_queue \in Queue(WorkerSize, Workers)
    BY Hands
  <2>3. q \in Queue(WorkerSize, Workers)
    BY <1>5, <1>6, <1>7, <2>2, Sizes, PutIntoQueue
  <2>4. Single(q)
    BY <1>5, <1>6, <1>7, <2>1, <2>2, Sizes, PutIntoQueue
  <2>5. Queued(q) = Queued(worker_queue) \union {x}
    BY <1>5, <1>6, <1>7, <2>2, Sizes, PutIntoQueue
  <2> QED BY <2>3, <2>4, <2>5
<1>9. PICK r : r = [p EXCEPT !.put = 0, !.then = "none"]
  OBVIOUS
<1>10. PICK u : u = CASE p.then = "poll" /\ r.pending # <<>> -> PopOld(r, "poll")
                      [] p.then = "poll" /\ r.pending = <<>> ->
                           [r EXCEPT !.pc = "test", !.old = Empty]
                      [] p.then = "evict"   -> Keep(r)
                      [] p.then = "soft"    -> Advance(r)
                      [] p.then = "drain"   -> Drain(r)
                      [] p.then = "cleanup" -> CleanUp(r)
  OBVIOUS
<1>18. Pushed(p, r, u) /\ r = Placed(p)
  BY <1>9, <1>10 DEF Pushed, Placed
<1>11. u \in Launcher /\ LauncherInv(u) /\ Apart(u) /\ u.job = p.job
  BY <1>2, <1>18, PushStep
<1>12. Held(u) = Held(p) \ {x}
  BY <1>2, <1>4, <1>18, PushStep
<1>13. PICK j \in Queue(NumJobs, Jobs) : j = job_queue /\ Single(j) /\ p.job \notin Queued(j)
  BY <1>1, Hands
<1>14. /\ launcher' = [launcher EXCEPT ![t] = u] /\ worker_queue' = q /\ job_queue' = j
       /\ UNCHANGED <<worker_handle, jobVars, block, runner, num, out, mode>>
  BY <1>1, <1>3, <1>4, <1>7, <1>9, <1>10, <1>13 DEF PushWorker, Become
<1>15. /\ Held(u) \intersect Queued(q) = {}
       /\ Held(u) \union Queued(q) \subseteq Held(launcher[t]) \union Queued(worker_queue)
  BY <1>1, <1>2, <1>6, <1>8, <1>12
<1>16. Queued(j) \subseteq Queued(job_queue) \union {launcher[t].job} /\ u.job \notin Queued(j)
  BY <1>11, <1>13
<1>17. launcher[t].pc # "idle" /\ u.job \in {Empty, launcher[t].job}
  BY <1>1, <1>2, <1>11
<1>20. HandsInv'
  BY <1>8, <1>11, <1>13, <1>14, <1>15, <1>16, <1>17, HandsMove
<1>21. ASSUME Completion PROVE Completion'
  <2>1. Held(u) \union Queued(q) = Held(p) \union Queued(worker_queue)
    BY <1>6, <1>8, <1>12
  <2>2. p.then # "cleanup" /\ p.job # Empty
    <3>1. p.then # "cleanup"
      BY <1>1, <1>21 DEF Completion, InTimeInv
    <3> QED BY <1>2, <3>1 DEF LauncherInv, Where, Launcher
  <2>3. Keeps(p, u)
    BY <1>2, <1>18, <2>2, PushStep
  <2>4. u.pc \in {"poll", "test", "soft", "stand", "drain", "flag"}
    <3>1. u.pc \in {"poll", "test", "soft", "stand", "drain", "flag", "cleanup", "idle"}
      BY <1>2, <1>18, PushStep
    <3>2. u.job # Empty
      BY <2>2, <1>11
    <3>3. Where(u) \notin {"idle", "cleanup"}
      BY <1>11, <3>2 DEF LauncherInv
    <3> QED BY <3>1, <3>3 DEF Where
  <2>5. Queued(j) = Queued(job_queue)
    BY <1>13
  <2> QED BY <1>1, <1>11, <1>14, <1>21, <2>1, <2>3, <2>4, <2>5, CompletionKeeps
<1>25. ASSUME Kept PROVE Kept'
  <2>1. /\ Held(p) \union Queued(worker_queue) \subseteq Held(u) \union Queued(q)
        /\ Queued(job_queue) \union {p.job} \subseteq Queued(j) \union {u.job, Empty}
        /\ runner' = runner
    BY <1>6, <1>8, <1>11, <1>12, <1>13, <1>14
  <2>2. p.then # "cleanup" /\ p.job # Empty
    <3>1. p.then # "cleanup"
      BY <1>1, <1>25 DEF Kept, InTimeInv
    <3> QED BY <1>2, <3>1 DEF LauncherInv, Where, Launcher
  <2>3. u.pc \in {"poll", "test", "soft", "stand", "drain", "flag"}
    <3>1. u.pc \in {"poll", "test", "soft", "stand", "drain", "flag", "cleanup", "idle"}
      BY <1>2, <1>18, PushStep
    <3>2. u.job # Empty
      BY <2>2, <1>11
    <3>3. Where(u) \notin {"idle", "cleanup"}
      BY <1>11, <3>2 DEF LauncherInv
    <3> QED BY <3>1, <3>3 DEF Where
  <2> QED BY <1>1, <1>11, <1>14, <1>25, <2>1, <2>3, KeptMove
<1> QED BY <1>20, <1>21, <1>25

LEMMA HandsPushJob ==
  ASSUME HandsInv, NEW t \in Threads, PushJob(t), UNCHANGED mode
  PROVE  HandsInv' /\ (Completion => Completion') /\ (Kept => Kept')
<1>1. PICK r \in Launcher : r = launcher[t]
  BY Hands
<1>2. /\ LauncherInv(r) /\ Apart(r) /\ mode \in Modes /\ r.pc = "give"
      /\ Held(r) \intersect Queued(worker_queue) = {}
  BY <1>1, Hands DEF PushJob
<1>3. PICK k \in Nat : k = r.put
  BY <1>1, Hands
<1>4. ~Ready(job_queue, k)
  BY <1>1, <1>3 DEF PushJob
<1>5. PICK s : s = [r EXCEPT !.job = Empty]
  OBVIOUS
<1>6. PICK u : u = IF r.then = "cleanup" THEN CleanUp(s) ELSE Left(r)
  OBVIOUS
<1>7. u \in Launcher /\ LauncherInv(u) /\ Apart(u) /\ u.job = Empty /\ r.job \in Jobs
  BY <1>2, <1>5, <1>6, GiveStep
<1>8. Held(u) = Held(r)
  BY <1>2, <1>5, <1>6, GiveStep
<1>9. PICK x \in Jobs : x = r.job
  BY <1>7
<1>10. PICK p : p = Put(job_queue, k, x)
  OBVIOUS
<1>11. x # Empty /\ x \notin Queued(job_queue) /\ Single(job_queue)
       /\ job_queue \in Queue(NumJobs, Jobs)
  BY <1>1, <1>9, Hands, IdsAreNumbers
<1>12. p \in Queue(NumJobs, Jobs) /\ Single(p)
  BY <1>4, <1>10, <1>11, Sizes, PutIntoQueue
<1>13. Queued(p) = Queued(job_queue) \union {x}
  BY <1>4, <1>10, <1>11, Sizes, PutIntoQueue
<1>14. PICK q \in Queue(WorkerSize, Workers) : q = worker_queue /\ Single(q)
  BY Hands
<1>15. /\ launcher' = [launcher EXCEPT ![t] = u] /\ worker_queue' = q /\ job_queue' = p
       /\ UNCHANGED <<worker_handle, jobVars, block, runner, num, out, mode>>
  BY <1>1, <1>3, <1>5, <1>6, <1>9, <1>10, <1>14 DEF PushJob, Become
<1>16. /\ Held(u) \intersect Queued(q) = {}
       /\ Held(u) \union Queued(q) \subseteq Held(launcher[t]) \union Queued(worker_queue)
  BY <1>1, <1>2, <1>8, <1>14
<1>17. u.job \notin Queued(p)
  BY <1>7 DEF Queued
<1>18. Queued(p) \subseteq Queued(job_queue) \union {launcher[t].job}
  BY <1>1, <1>9, <1>13
<1>19. launcher[t].pc # "idle" /\ u.job \in {Empty, launcher[t].job}
  BY <1>1, <1>2, <1>7
<1>30. HandsInv'
  BY <1>7, <1>12, <1>14, <1>15, <1>16, <1>17, <1>18, <1>19, HandsMove
<1>31. ASSUME Completion PROVE Completion'
  <2>1. r.then = "none"
    <3>1. r.then # "cleanup"
      BY <1>1, <1>31 DEF Completion, InTimeInv
    <3> QED BY <1>2, <3>1 DEF LauncherInv
  <2>2. u = Left(r)
    BY <1>6, <2>1
  <2>3. u.pc = "idle" /\ u.then = "none"
    BY <2>2 DEF Left, NoLauncher
  <2>4. Working(r) = {}
    BY <1>2, <1>5, <1>6, <2>1, GiveStep
  <2>5. launcher \in [Threads -> Launcher]
    BY DEF HandsInv, TypeInv, RecordsOK
  <2>6. \A v \in Threads : launcher'[v] = IF v = t THEN u ELSE launcher[v]
    BY <1>15, <2>5
  <2>7. UNCHANGED <<worker_handle, descriptor, completion_flag, counter, block, num>>
    BY <1>15 DEF jobVars
  <2>8. InTimeInv'
    BY <1>31, <2>3, <2>6 DEF Completion, InTimeInv
  <2>9. Counts(t, x)
    BY <1>1, <1>9, <1>31 DEF Completion, CountInv
  <2>10. Traceless(x)
    <3>1. completion_flag[x]
      BY <1>1, <1>2, <2>9 DEF Counts
    <3>2. Finished(x)
      BY <3>1 DEF Finished
    <3>3. Outstanding(x) = 0 /\ counter[x] = 0
      BY <2>9, <3>2 DEF Counts, Counted
    <3>4. Raising(x) = {}
      <4>1. \A w \in Workers : w \notin Raising(x)
        BY <1>31, <3>1 DEF Completion, RaiseInv
      <4> QED BY <4>1 DEF Raising
    <3> QED BY <3>3, <3>4 DEF Traceless
  <2>11. CountInv'
    <3> SUFFICES ASSUME NEW v \in Threads, NEW j \in Jobs, launcher'[v].job = j
                 PROVE  Counts(v, j)'
      BY DEF CountInv
    <3>1. v # t
      BY <1>7, <2>6, IdsAreNumbers
    <3>2. launcher'[v] = launcher[v] /\ Counts(v, j)
      BY <1>31, <2>6, <3>1 DEF Completion, CountInv
    <3> QED BY <2>7, <3>2, JobStays, AccountOfOther
  <2>12. UnusedInv'
    <3> SUFFICES ASSUME NEW j \in Jobs, \A v \in Threads : launcher'[v].job # j
                 PROVE  Traceless(j)'
      BY DEF UnusedInv
    <3>1. Traceless(j)
      <4>1. CASE j = x
        BY <2>10, <4>1
      <4>2. CASE j # x
        <5>1. \A v \in Threads : launcher[v].job # j
          BY <1>1, <1>9, <2>6, <4>2
        <5> QED BY <1>31, <5>1 DEF Completion, UnusedInv
      <4> QED BY <4>1, <4>2
    <3>2. Outstanding(j)' = Outstanding(j) /\ Raising(j)' = Raising(j)
      BY <2>7, JobStays
    <3> QED BY <2>7, <3>1, <3>2 DEF Traceless
  <2>13. RaiseInv'
    BY <1>31, <2>7 DEF Completion, RaiseInv, Raising
  <2>14. MailInv'
    BY <1>1, <1>7, <1>15, <1>31, <2>4, <2>7, MailStays DEF Completion
  <2>15. WorkersThere'
    <3>1. Held(u) \union Queued(q) = Held(r) \union Queued(worker_queue)
      BY <1>8, <1>14
    <3> QED BY <1>1, <1>7, <1>15, <1>31, <2>7, <3>1, WorkersThereStay DEF Completion, ThereInv
  <2>16. JobsThere'
    <3> SUFFICES ASSUME NEW j \in Jobs
                 PROVE  j \in Queued(p) \/ \E v \in Threads : launcher'[v].job = j
      BY <1>15 DEF JobsThere
    <3>1. CASE j = x \/ j \in Queued(job_queue)
      BY <1>13, <3>1
    <3>2. CASE j # x /\ j \notin Queued(job_queue)
      <4>1. PICK v \in Threads : launcher[v].job = j
        BY <1>31, <3>2 DEF Completion, ThereInv, JobsThere
      <4> QED BY <1>1, <1>9, <2>6, <3>2, <4>1
    <3> QED BY <3>1, <3>2
  <2> QED BY <2>8, <2>11, <2>12, <2>13, <2>14, <2>15, <2>16 DEF Completion, ThereInv
<1>35. ASSUME Kept PROVE Kept'
  <2>1. /\ Held(r) \union Queued(worker_queue) \subseteq Held(u) \union Queued(q)
        /\ Queued(job_queue) \union {r.job} \subseteq Queued(p) \union {u.job, Empty}
        /\ runner' = runner
    BY <1>8, <1>9, <1>13, <1>14, <1>15
  <2>2. r.then = "none"
    <3>1. r.then # "cleanup"
      BY <1>1, <1>35 DEF Kept, InTimeInv
    <3> QED BY <1>2, <3>1 DEF LauncherInv
  <2>3. u.pc = "idle"
    BY <1>6, <2>2 DEF Left, NoLauncher
  <2> QED BY <1>1, <1>7, <1>15, <1>35, <2>1, <2>3, KeptMove
<1> QED BY <1>30, <1>31, <1>35

LEMMA HandsLaunch ==
  ASSUME HandsInv, NEW t \in Threads, Launch(t), UNCHANGED mode
  PROVE  HandsInv' /\ (Completion => Completion') /\ (Kept => Kept')
<1>1. PICK r \in Launcher : r = launcher[t]
  BY Hands
<1>2. /\ mode \in Modes /\ r.pc = "idle" /\ LauncherInv(r)
      /\ Held(r) \intersect Queued(worker_queue) = {}
  BY <1>1, Hands DEF Launch
<1>3. PICK n \in ReqSizes : n = mode.batch[t]
  BY <1>2, ModesAssumption
<1>4. PICK k \in Nat : k = job_queue.tail
  BY Hands
<1>5. PICK u : u = [NoLauncher EXCEPT !.pc = "job", !.n = n, !.slot = k]
  OBVIOUS
<1>6. /\ u \in Launcher /\ LauncherInv(u) /\ Apart(u) /\ Held(u) = {}
      /\ u.pc = "job" /\ u.job = Empty
  BY <1>2, <1>5, LaunchStep
<1>7. PICK p \in Queue(NumJobs, Jobs) : p = Promised(job_queue) /\ p.buf = job_queue.buf
  BY Hands, Sizes, CountersOnly
<1>8. PICK q \in Queue(WorkerSize, Workers) : q = worker_queue /\ Single(q)
  BY Hands
<1>9. /\ launcher' = [launcher EXCEPT ![t] = u] /\ worker_queue' = q /\ job_queue' = p
      /\ num' = [num EXCEPT ![t] = @ + 1] /\ num[t] < mode.launches[t]
      /\ out' = [out EXCEPT ![t] = [i \in Rows |-> NoQuery]]
      /\ UNCHANGED <<worker_handle, jobVars, block, runner, mode>>
  BY <1>3, <1>4, <1>5, <1>7, <1>8 DEF Launch, Become
<1>10. num \in [Threads -> 0..MaxReqs] /\ num[t] + 1 \in 0..MaxReqs
  <2>1. mode.launches[t] \in 0..MaxReqs
    BY <1>2, ModesAssumption
  <2>2. num \in [Threads -> 0..MaxReqs]
    BY DEF HandsInv, TypeInv, MemoryOK
  <2>3. num[t] \in 0..MaxReqs /\ MaxReqs \in Nat
    BY <2>2, ConstantsAssumption
  <2> QED BY <1>9, <2>1, <2>2, <2>3
<1>11. MemoryOK'
  BY <1>9, <1>10 DEF HandsInv, TypeInv, MemoryOK, jobVars
<1>12. BatchInv'
  <2>1. launcher \in [Threads -> Launcher]
    BY DEF HandsInv, TypeInv, RecordsOK
  <2>2. \A v \in Threads : launcher'[v] = IF v = t THEN u ELSE launcher[v]
    BY <1>9, <2>1
  <2>3. BatchInv
    BY DEF HandsInv, TypeInv
  <2>4. ASSUME NEW v \in Threads, launcher'[v].pc # "idle" PROVE num'[v] > 0
    <3>1. CASE v = t
      <4>1. num'[t] = num[t] + 1 /\ num[t] \in 0..MaxReqs
        BY <1>9, <1>10
      <4> QED BY <3>1, <4>1
    <3>2. CASE v # t
      BY <1>9, <1>10, <2>2, <2>3, <2>4, <3>2 DEF BatchInv
    <3> QED BY <3>1, <3>2
  <2>5. ASSUME NEW v \in Threads, launcher'[v].job # Empty PROVE Described(launcher[v].job)'
    <3>1. launcher'[v].job = launcher[v].job
      BY <1>6, <2>2, <2>5
    <3> QED BY <1>9, <2>3, <2>5, <3>1 DEF BatchInv, Described, jobVars
  <2> QED BY <1>9, <2>3, <2>4, <2>5 DEF BatchInv, Described, jobVars
<1>13. RecordsOK' /\ (\A v \in Threads : LauncherInv(launcher[v]))'
  BY <1>6, <1>9, LauncherMoves
<1>14. QueuesOK'
  BY <1>7, <1>8, <1>9 DEF QueuesOK
<1>15. WorkersInv'
  BY <1>6, <1>8, <1>9, WorkersMove
<1>16. JobsInv'
  <2>1. Single(p) /\ Queued(p) = Queued(job_queue)
    BY <1>7, Hands DEF Single, Queued
  <2>2. u.job \notin Queued(p)
    BY <1>6 DEF Queued
  <2>3. Queued(p) \union {u.job} \subseteq Queued(job_queue) \union {launcher[t].job, Empty}
    BY <1>6, <2>1
  <2> QED BY <1>6, <1>9, <2>1, <2>2, <2>3, JobsMove
<1>30. HandsInv'
  BY <1>11, <1>12, <1>13, <1>14, <1>15, <1>16 DEF HandsInv, TypeInv, OwnersInv
<1>31. ASSUME Completion PROVE Completion'
  <2>1. launcher \in [Threads -> Launcher]
    BY DEF HandsInv, TypeInv, RecordsOK
  <2>2. \A v \in Threads : launcher'[v] = IF v = t THEN u ELSE launcher[v]
    BY <1>9, <2>1
  <2>3. UNCHANGED <<worker_handle, descriptor, completion_flag, counter, block>>
    BY <1>9 DEF jobVars
  <2>4. u.i = 0 /\ u.then = "none" /\ u.pc = "job" /\ u.job = Empty
    BY <1>5 DEF NoLauncher
  <2>5. r.job = Empty /\ r.worker = Empty /\ r.old = Empty /\ r.pending = <<>>
    BY <1>2 DEF LauncherInv, Where
  <2>6. Entries(r.pending) = {}
    BY <2>5 DEF Entries
  <2>7. Held(r) = {} /\ Working(r) = {}
    BY <1>2, <2>5, <2>6 DEF Held, Working, GivenWork, Where
  <2>8. \A v \in Threads : launcher'[v].job = launcher[v].job
    BY <1>1, <2>2, <2>4, <2>5
  <2>9. InTimeInv'
    BY <1>31, <2>2, <2>4 DEF Completion, InTimeInv
  <2>10. CountInv'
    <3> SUFFICES ASSUME NEW v \in Threads, NEW j \in Jobs, launcher'[v].job = j
                 PROVE  Counts(v, j)'
      BY DEF CountInv
    <3>1. v # t
      BY <2>2, <2>4, IdsAreNumbers
    <3>2. launcher'[v] = launcher[v] /\ num'[v] = num[v] /\ Counts(v, j)
      BY <1>9, <1>10, <1>31, <2>2, <3>1 DEF Completion, CountInv
    <3> QED BY <2>3, <3>2, JobStays, AccountOfOther
  <2>11. UnusedInv'
    <3> SUFFICES ASSUME NEW j \in Jobs, \A v \in Threads : launcher'[v].job # j
                 PROVE  Traceless(j)'
      BY DEF UnusedInv
    <3>1. Traceless(j)
      BY <1>31, <2>8 DEF Completion, UnusedInv
    <3>2. Outstanding(j)' = Outstanding(j) /\ Raising(j)' = Raising(j)
      BY <2>3, JobStays
    <3> QED BY <2>3, <3>1, <3>2 DEF Traceless
  <2>12. RaiseInv'
    BY <1>31, <2>3 DEF Completion, RaiseInv, Raising
  <2>13. MailInv'
    BY <1>1, <1>6, <1>9, <1>31, <2>3, <2>7, MailStays DEF Completion
  <2>14. WorkersThere'
    <3>1. Held(u) \union Queued(q) = Held(r) \union Queued(worker_queue)
      BY <1>6, <1>8, <2>7
    <3> QED BY <1>1, <1>6, <1>9, <1>31, <2>3, <3>1, WorkersThereStay DEF Completion, ThereInv
  <2>15. JobsThere'
    <3>1. Queued(p) = Queued(job_queue)
      BY <1>7 DEF Queued
    <3> QED BY <1>9, <1>31, <2>8, <3>1 DEF Completion, ThereInv, JobsThere
  <2> QED BY <2>9, <2>10, <2>11, <2>12, <2>13, <2>14, <2>15 DEF Completion, ThereInv
<1>35. ASSUME Kept PROVE Kept'
  <2>1. r.job = Empty /\ r.worker = Empty /\ r.old = Empty /\ r.pending = <<>>
    BY <1>2 DEF LauncherInv, Where
  <2>2. Held(r) = {}
    BY <2>1 DEF Held, Entries
  <2>3. /\ Held(r) \union Queued(worker_queue) \subseteq Held(u) \union Queued(q)
        /\ Queued(job_queue) \union {r.job} \subseteq Queued(p) \union {u.job, Empty}
        /\ runner' = runner
    BY <1>7, <1>8, <1>9, <2>1, <2>2 DEF Queued
  <2>4. u.i = 0 /\ u.pc = "job"
    BY <1>5 DEF NoLauncher
  <2> QED BY <1>1, <1>6, <1>9, <1>35, <2>3, <2>4, KeptMove
<1> QED BY <1>30, <1>31, <1>35

LEMMA HandsTakeJob ==
  ASSUME HandsInv, NEW t \in Threads, TakeJob(t), UNCHANGED mode
  PROVE  HandsInv' /\ (Completion => Completion') /\ (Kept => Kept')
<1>1. PICK r \in Launcher : r = launcher[t]
  BY Hands
<1>2. /\ LauncherInv(r) /\ Apart(r) /\ mode \in Modes /\ r.pc = "job"
      /\ Held(r) \intersect Queued(worker_queue) = {}
  BY <1>1, Hands DEF TakeJob
<1>3. PICK k \in Nat : k = r.slot
  BY <1>1, Hands
<1>4. PICK j : j = Value(job_queue, k)
  OBVIOUS
<1>5. Ready(job_queue, k)
  BY <1>1, <1>3 DEF TakeJob
<1>6. PICK p : p = Taken(job_queue, k)
  OBVIOUS
<1>7. /\ p \in Queue(NumJobs, Jobs) /\ j \in Jobs /\ j \in Queued(job_queue)
      /\ Single(p) /\ Queued(p) = Queued(job_queue) \ {j}
  BY <1>4, <1>5, <1>6, Hands, Sizes, TakenFromQueue
<1>8. PICK u : u = [r EXCEPT !.pc = "stand", !.slot = 0, !.job = j]
  OBVIOUS
<1>22. LauncherInv(r) /\ Apart(r) /\ mode \in Modes /\ r.pc = "job" /\ j \in Jobs
  BY <1>2, <1>7
<1>9. u \in Launcher /\ LauncherInv(u) /\ Apart(u) /\ u.job = j
  <2>1. u \in Launcher
    BY <1>8, <1>22, TakeJobStep
  <2>2. LauncherInv(u)
    BY <1>8, <1>22, TakeJobStep
  <2>3. Apart(u)
    BY <1>8, <1>22, TakeJobStep
  <2>4. u.job = j
    BY <1>8 DEF Launcher
  <2> QED BY <2>1, <2>2, <2>3, <2>4
<1>10. Held(u) = Held(r)
  <2>1. u.worker = r.worker /\ u.old = r.old /\ u.pending = r.pending
    BY <1>8 DEF Launcher
  <2> QED BY <2>1 DEF Held
<1>11. PICK q \in Queue(WorkerSize, Workers) : q = worker_queue /\ Single(q)
  BY Hands
<1>12. /\ launcher' = [launcher EXCEPT ![t] = u] /\ worker_queue' = q /\ job_queue' = p
       /\ descriptor' = [descriptor EXCEPT ![j] = [thread |-> t, num |-> num[t], n |-> r.n]]
       /\ completion_flag' = [completion_flag EXCEPT ![j] = FALSE]
       /\ UNCHANGED <<counter, worker_handle, block, runner, num, out, mode>>
  BY <1>1, <1>3, <1>4, <1>6, <1>8, <1>11 DEF TakeJob, Become
<1>13. num[t] \in 0..MaxReqs /\ num[t] > 0 /\ r.n \in ReqSizes
  <2>1. num[t] > 0
    BY <1>1, <1>2 DEF HandsInv, TypeInv, BatchInv
  <2>2. r.n \in ReqSizes
    BY <1>2 DEF LauncherInv
  <2> QED BY <2>1, <2>2 DEF HandsInv, TypeInv, MemoryOK
<1>14. PICK d : d = [thread |-> t, num |-> num[t], n |-> r.n]
  OBVIOUS
<1>15. d \in Batches /\ d.num > 0 /\ d.thread = t
  BY <1>13, <1>14 DEF Batches
<1>16. MemoryOK'
  <2>1. descriptor' \in [Jobs -> Batches]
    BY <1>12, <1>14, <1>15 DEF HandsInv, TypeInv, MemoryOK
  <2>2. completion_flag' \in [Jobs -> BOOLEAN]
    BY <1>12 DEF HandsInv, TypeInv, MemoryOK
  <2> QED BY <1>12, <2>1, <2>2 DEF HandsInv, TypeInv, MemoryOK
<1>17. BatchInv'
  <2>1. launcher \in [Threads -> Launcher] /\ descriptor \in [Jobs -> Batches]
    BY DEF HandsInv, TypeInv, RecordsOK, MemoryOK
  <2>2. \A v \in Threads : launcher'[v] = IF v = t THEN u ELSE launcher[v]
    BY <1>12, <2>1
  <2>3. \A i \in Jobs : descriptor'[i] = IF i = j THEN d ELSE descriptor[i]
    BY <1>12, <1>14, <2>1
  <2>4. BatchInv
    BY DEF HandsInv, TypeInv
  <2>5. ASSUME NEW i, Described(i) PROVE Described(i)'
    BY <1>15, <2>3, <2>5 DEF Described
  <2>6. ASSUME NEW v \in Threads, launcher'[v].pc # "idle" PROVE num'[v] > 0
    BY <1>1, <1>2, <1>12, <2>2, <2>4, <2>6 DEF BatchInv
  <2>7. ASSUME NEW i \in Jobs, descriptor'[i].num > 0 PROVE descriptor'[i].thread \in Threads
    BY <1>15, <2>3, <2>4, <2>7 DEF BatchInv
  <2>8. ASSUME NEW v \in Threads, launcher'[v].job # Empty PROVE Described(launcher[v].job)'
    <3>1. CASE v = t
      <4>1. launcher'[v].job = j
        BY <1>9, <2>2, <3>1
      <4>2. descriptor'[j].num > 0
        BY <1>7, <1>15, <2>3
      <4> QED BY <1>7, <4>1, <4>2 DEF Described
    <3>2. CASE v # t
      <4>1. PICK i : i = launcher[v].job
        OBVIOUS
      <4>2. launcher'[v].job = i /\ Described(i)
        BY <2>2, <2>4, <2>8, <3>2, <4>1 DEF BatchInv
      <4>3. Described(i)'
        BY <2>5, <4>2
      <4> QED BY <4>2, <4>3 DEF Described
    <3> QED BY <3>1, <3>2
  <2>9. ASSUME NEW w \in Workers, worker_handle'[w] \notin {Wait, NoMore}
        PROVE  Described(worker_handle[w].job)'
    <3>1. PICK i : i = worker_handle[w].job
      OBVIOUS
    <3>2. Described(i)
      BY <1>12, <2>4, <2>9, <3>1 DEF BatchInv
    <3>3. Described(i)'
      BY <2>5, <3>2
    <3> QED BY <1>12, <3>1, <3>3 DEF Described
  <2>10. ASSUME NEW w \in Workers, block'[w].pc \notin {"load", "exited"}
         PROVE  Described(block[w].got.job)'
    <3>1. PICK i : i = block[w].got.job
      OBVIOUS
    <3>2. Described(i)
      BY <1>12, <2>4, <2>10, <3>1 DEF BatchInv
    <3>3. Described(i)'
      BY <2>5, <3>2
    <3> QED BY <1>12, <3>1, <3>3 DEF Described
  <2> QED BY <2>6, <2>7, <2>8, <2>9, <2>10 DEF BatchInv
<1>18. RecordsOK' /\ (\A v \in Threads : LauncherInv(launcher[v]))'
  BY <1>9, <1>12, LauncherMoves
<1>19. QueuesOK'
  BY <1>7, <1>11, <1>12 DEF QueuesOK
<1>20. WorkersInv'
  BY <1>1, <1>2, <1>9, <1>10, <1>11, <1>12, WorkersMove
<1>21. JobsInv'
  <2>1. u.job \notin Queued(p)
    BY <1>7, <1>9
  <2>2. Queued(p) \union {u.job} \subseteq Queued(job_queue) \union {launcher[t].job, Empty}
    BY <1>7, <1>9
  <2> QED BY <1>7, <1>9, <1>12, <2>1, <2>2, JobsMove
<1>30. HandsInv'
  BY <1>16, <1>17, <1>18, <1>19, <1>20, <1>21 DEF HandsInv, TypeInv, OwnersInv
<1>31. ASSUME Completion PROVE Completion'
  <2>1. launcher \in [Threads -> Launcher] /\ descriptor \in [Jobs -> Batches]
        /\ completion_flag \in [Jobs -> BOOLEAN]
    BY DEF HandsInv, TypeInv, RecordsOK, MemoryOK
  <2>2. \A v \in Threads : launcher'[v] = IF v = t THEN u ELSE launcher[v]
    BY <1>12, <2>1
  <2>3. \A v \in Threads : launcher[v].job # j
    <3>1. \A v \in Threads : launcher[v].job \notin Queued(job_queue)
      BY DEF HandsInv, OwnersInv, JobsInv
    <3> QED BY <1>7, <3>1
  <2>4. Traceless(j)
    BY <1>7, <1>31, <2>3 DEF Completion, UnusedInv
  <2>5. Outstanding(j) = 0 /\ counter[j] = 0 /\ Raising(j) = {} /\ InBlock(j) = {}
    BY <1>7, <2>4, WorkerSets DEF Traceless
  <2>6. /\ u.pc = "stand" /\ u.n = r.n /\ u.i = r.i /\ u.then = r.then
        /\ u.all_done = r.all_done
    BY <1>8 DEF Launcher
  <2>7. r.then = "none" /\ ~r.all_done /\ r.n \in ReqSizes
    BY <1>2 DEF LauncherInv, Where
  <2>8. r.i = 0
    BY <1>1, <1>2, <1>31 DEF Completion, InTimeInv
  <2>9. InTimeInv'
    BY <1>31, <2>2, <2>6, <2>7 DEF Completion, InTimeInv
  <2>10. \A i \in Jobs : i # j => /\ descriptor'[i] = descriptor[i]
                                  /\ completion_flag'[i] = completion_flag[i]
    BY <1>12, <2>1
  <2>11. UNCHANGED <<worker_handle, block>> /\ counter' = counter /\ num' = num
    BY <1>12
  <2>12. Counts(t, j)'
    <3>1. descriptor'[j] = d /\ completion_flag'[j] = FALSE
      BY <1>7, <1>12, <1>14, <2>1
    <3>2. Outstanding(j)' = 0 /\ Raising(j)' = {} /\ counter'[j] = 0
      BY <2>5, <2>11, JobStays
    <3>3. launcher'[t] = u
      BY <2>2
    <3>4. ~Finished(j)'
      BY <3>1, <3>2 DEF Finished
    <3>5. Submitted(u) = 0 /\ u.n \in Nat /\ u.n > 0
      BY <2>6, <2>7, <2>8, MaxSizeType DEF Submitted, Where
    <3>6. Counted(u, 0, 0, FALSE)
      BY <3>5 DEF Counted
    <3>7. Counted(launcher[t], counter[j], Outstanding(j), Finished(j))'
      BY <3>2, <3>3, <3>4, <3>6 DEF Counted
    <3>8. ~u.all_done /\ u.pc # "give"
      BY <2>6, <2>7
    <3>9. (descriptor[j] = [thread |-> t, num |-> num[t], n |-> launcher[t].n])'
      BY <1>14, <2>6, <2>11, <3>1, <3>3
    <3> QED BY <3>3, <3>7, <3>8, <3>9 DEF Counts
  <2>13. CountInv'
    <3> SUFFICES ASSUME NEW v \in Threads, NEW i \in Jobs, launcher'[v].job = i
                 PROVE  Counts(v, i)'
      BY DEF CountInv
    <3>1. CASE v = t
      <4>1. i = j
        BY <1>9, <2>2, <3>1
      <4> QED BY <2>12, <3>1, <4>1
    <3>2. CASE v # t
      <4>1. launcher'[v] = launcher[v] /\ i # j /\ Counts(v, i)
        BY <1>31, <2>2, <2>3, <3>2 DEF Completion, CountInv
      <4> QED BY <2>10, <2>11, <4>1, JobStays, AccountOfOther
    <3> QED BY <3>1, <3>2
  <2>14. UnusedInv'
    <3> SUFFICES ASSUME NEW i \in Jobs, \A v \in Threads : launcher'[v].job # i
                 PROVE  Traceless(i)'
      BY DEF UnusedInv
    <3>1. \A v \in Threads : launcher[v].job # i
      <4>1. launcher[t].job = Empty
        BY <1>1, <1>2 DEF LauncherInv, Where
      <4>2. i # Empty
        BY IdsAreNumbers
      <4> QED BY <2>2, <4>1, <4>2
    <3>2. Traceless(i)
      BY <1>31, <3>1 DEF Completion, UnusedInv
    <3>3. Outstanding(i)' = Outstanding(i) /\ Raising(i)' = Raising(i)
      BY <2>11, JobStays
    <3> QED BY <2>11, <3>2, <3>3 DEF Traceless
  <2>15. RaiseInv'
    <3> SUFFICES ASSUME NEW w \in Workers, NEW i \in Jobs
                 PROVE  (/\ w \in Raising(i) => ~completion_flag[i] /\ Raising(i) = {w}
                         /\ block[w].pc = "arrive" /\ block[w].got.job = i =>
                              block[w].desc = descriptor[i]
                         /\ block[w].pc \in {"load", "exited"} => block[w].got.job # i)'
      BY DEF RaiseInv
    <3>1. Raising(i)' = Raising(i) /\ block' = block
      BY <2>11, JobStays
    <3>2. /\ w \in Raising(i) => ~completion_flag[i] /\ Raising(i) = {w}
          /\ block[w].pc = "arrive" /\ block[w].got.job = i => block[w].desc = descriptor[i]
          /\ block[w].pc \in {"load", "exited"} => block[w].got.job # i
      BY <1>31 DEF Completion, RaiseInv
    <3>3. CASE i = j
      <4>1. ~(block[w].pc = "arrive" /\ block[w].got.job = i)
        BY <2>5, <3>3 DEF InBlock
      <4> QED BY <2>5, <3>1, <3>2, <3>3, <4>1
    <3>4. CASE i # j
      BY <2>10, <3>1, <3>2, <3>4
    <3> QED BY <3>3, <3>4
  <2>16. Working(r) = {}
    <3>1. r.old = Empty /\ r.pending = <<>>
      BY <1>2 DEF LauncherInv, Where
    <3>2. Entries(r.pending) = {}
      BY <3>1 DEF Entries
    <3> QED BY <1>2, <3>1, <3>2 DEF Working, GivenWork, Where
  <2>17. MailInv'
    BY <1>1, <1>9, <1>12, <1>31, <2>11, <2>16, MailStays DEF Completion
  <2>18. WorkersThere'
    <3>1. Held(u) \union Queued(q) = Held(r) \union Queued(worker_queue)
      BY <1>10, <1>11
    <3> QED BY <1>1, <1>9, <1>12, <1>31, <2>11, <3>1, WorkersThereStay DEF Completion, ThereInv
  <2>19. JobsThere'
    <3> SUFFICES ASSUME NEW i \in Jobs
                 PROVE  i \in Queued(p) \/ \E v \in Threads : launcher'[v].job = i
      BY <1>12 DEF JobsThere
    <3>1. CASE i = j
      BY <1>9, <2>2, <3>1
    <3>2. CASE i # j
      <4>1. i \in Queued(job_queue) \/ \E v \in Threads : launcher[v].job = i
        BY <1>31 DEF Completion, ThereInv, JobsThere
      <4>2. launcher[t].job # i
        BY <1>1, <1>2, IdsAreNumbers DEF LauncherInv, Where
      <4> QED BY <1>7, <2>2, <3>2, <4>1, <4>2
    <3> QED BY <3>1, <3>2
  <2> QED BY <2>9, <2>13, <2>14, <2>15, <2>17, <2>18, <2>19 DEF Completion, ThereInv
<1>35. ASSUME Kept PROVE Kept'
  <2>1. r.job = Empty
    BY <1>2 DEF LauncherInv, Where
  <2>2. /\ Held(r) \union Queued(worker_queue) \subseteq Held(u) \union Queued(q)
        /\ Queued(job_queue) \union {r.job} \subseteq Queued(p) \union {u.job, Empty}
        /\ runner' = runner
    BY <1>7, <1>9, <1>10, <1>11, <1>12, <2>1
  <2>3. u.pc = "stand"
    BY <1>8 DEF Launcher
  <2> QED BY <1>1, <1>9, <1>12, <1>35, <2>2, <2>3, KeptMove
<1> QED BY <1>30, <1>31, <1>35

LEMMA HandsSubmit ==
  ASSUME HandsInv, NEW t \in Threads, Submit(t), UNCHANGED mode
  PROVE  HandsInv' /\ (Kept => Kept')
<1>1. PICK r \in Launcher : r = launcher[t]
  BY Hands
<1>2. /\ LauncherInv(r) /\ Apart(r) /\ mode \in Modes /\ r.pc = "submit"
      /\ Held(r) \intersect Queued(worker_queue) = {}
  BY <1>1, Hands DEF Submit
<1>3. PICK u : u = IF Len(r.pending) < Capacity(r) THEN Keep(r) ELSE PopOld(r, "evict")
  OBVIOUS
<1>4. u \in Launcher /\ LauncherInv(u) /\ Apart(u)
  BY <1>2, <1>3, SubmitStep
<1>5. u.job = r.job /\ r.worker \in Workers /\ r.job \in Jobs
  BY <1>2, <1>3, SubmitStep
<1>6. Held(u) = Held(r)
  BY <1>2, <1>3, SubmitStep
<1>7. PICK m : m = [job |-> r.job, query |-> r.i]
  OBVIOUS
<1>8. m \in Mail /\ m.job = r.job
  <2>1. r.i \in Rows
    BY DEF Launcher
  <2> QED BY <1>5, <1>7, <2>1 DEF Mail
<1>9. /\ launcher' = [launcher EXCEPT ![t] = u]
      /\ worker_handle' = [worker_handle EXCEPT ![r.worker] = m]
      /\ UNCHANGED <<queues, jobVars, block, runner, num, out, mode>>
  BY <1>1, <1>3, <1>7 DEF Submit, Become
<1>10. MemoryOK'
  BY <1>5, <1>8, <1>9 DEF HandsInv, TypeInv, MemoryOK, jobVars
<1>11. BatchInv'
  <2>1. launcher \in [Threads -> Launcher] /\ worker_handle \in [Workers -> Mail]
    BY DEF HandsInv, TypeInv, RecordsOK, MemoryOK
  <2>2. \A v \in Threads : launcher'[v] = IF v = t THEN u ELSE launcher[v]
    BY <1>9, <2>1
  <2>3. \A w \in Workers : worker_handle'[w] = IF w = r.worker THEN m ELSE worker_handle[w]
    BY <1>9, <2>1
  <2>4. BatchInv /\ descriptor' = descriptor
    BY <1>9 DEF HandsInv, TypeInv, jobVars
  <2>5. ASSUME NEW v \in Threads, launcher'[v].pc # "idle" PROVE num'[v] > 0
    BY <1>1, <1>2, <1>9, <2>2, <2>4, <2>5 DEF BatchInv
  <2>6. ASSUME NEW v \in Threads, launcher'[v].job # Empty PROVE Described(launcher[v].job)'
    <3>1. launcher'[v].job = launcher[v].job
      BY <1>1, <1>5, <2>2, <2>6
    <3> QED BY <2>4, <2>6, <3>1 DEF BatchInv, Described
  <2>7. Described(r.job)
    BY <1>1, <1>5, <2>4, IdsAreNumbers DEF BatchInv
  <2>8. ASSUME NEW w \in Workers, worker_handle'[w] \notin {Wait, NoMore}
        PROVE  Described(worker_handle[w].job)'
    BY <1>8, <2>3, <2>4, <2>7, <2>8 DEF BatchInv, Described
  <2> QED BY <1>9, <2>4, <2>5, <2>6, <2>8 DEF BatchInv, Described
<1>12. RecordsOK' /\ (\A v \in Threads : LauncherInv(launcher[v]))'
  BY <1>4, <1>9, LauncherMoves
<1>13. QueuesOK'
  BY <1>9 DEF HandsInv, TypeInv, QueuesOK, queues
<1>14. PICK q : q = worker_queue /\ Single(q)
  BY Hands
<1>15. PICK p : p = job_queue /\ Single(p) /\ r.job \notin Queued(p)
  BY <1>1, Hands
<1>16. worker_queue' = q /\ job_queue' = p
  BY <1>9, <1>14, <1>15 DEF queues
<1>17. WorkersInv'
  BY <1>1, <1>2, <1>4, <1>6, <1>9, <1>14, <1>16, WorkersMove
<1>18. JobsInv'
  <2>1. Queued(p) \union {u.job} \subseteq Queued(job_queue) \union {launcher[t].job, Empty}
    BY <1>1, <1>5, <1>15
  <2> QED BY <1>4, <1>5, <1>9, <1>15, <1>16, <2>1, JobsMove
<1>19. HandsInv'
  BY <1>10, <1>11, <1>12, <1>13, <1>17, <1>18 DEF HandsInv, TypeInv, OwnersInv
<1>20. ASSUME Kept PROVE Kept'
  <2>1. /\ Held(r) \union Queued(worker_queue) \subseteq Held(u) \union Queued(q)
        /\ Queued(job_queue) \union {r.job} \subseteq Queued(p) \union {u.job, Empty}
        /\ runner' = runner
    BY <1>5, <1>6, <1>9, <1>14, <1>15
  <2>2. u.pc \in {"soft", "stand", "drain", "evict"}
    BY <1>2, <1>3, SubmitStep
  <2>3. u.pc \notin {"abandon", "cleanup", "job", "push", "give"}
    BY <2>2
  <2> QED BY <1>1, <1>4, <1>9, <1>16, <1>20, <2>1, <2>3, KeptMove
<1> QED BY <1>19, <1>20

-----------------------------------------------------------------------------
(* The blocks and the destructor of the runner.                            *)

\* What a block reads of a mailbox, and of a job's description, has the right type.
LEMMA Memory ==
  ASSUME HandsInv
  PROVE  /\ launcher \in [Threads -> Launcher] /\ block \in [Workers -> Block] /\ runner \in Runner
         /\ mode \in Modes
         /\ worker_handle \in [Workers -> Mail] /\ descriptor \in [Jobs -> Batches]
         /\ completion_flag \in [Jobs -> BOOLEAN] /\ counter \in [Jobs -> Nat]
         /\ num \in [Threads -> 0..MaxReqs]
         /\ out \in [Threads -> [Rows -> {NoQuery} \union (Threads \X (1..MaxReqs) \X Rows)]]
         /\ BatchInv /\ \A t \in Threads : LauncherInv(launcher[t])
BY DEF HandsInv, TypeInv, RecordsOK, MemoryOK

LEMMA MailType ==
  /\ Wait \in Mail /\ Wait.job = -1 /\ NoMore.job = -2
  /\ \A m \in Mail : m = Wait \/ m = NoMore \/ (m.job \in Jobs /\ m.query \in Rows)
  /\ \A m \in Mail : m.job \in Jobs => m \notin {Wait, NoMore}
<1>1. /\ Wait.job = -1 /\ NoMore.job = -2 /\ -1 \notin Jobs /\ -2 \notin Jobs
  BY IdsAreNumbers DEF Wait, NoMore, Empty
<1> QED BY <1>1 DEF Mail

\* When the threads and the queues do not move.
LEMMA ThreadsStay ==
  ASSUME HandsInv, UNCHANGED <<queues, launcher, mode>>
  PROVE  /\ QueuesOK' /\ OwnersInv' /\ (\A t \in Threads : LauncherInv(launcher[t]))'
<1>1. QueuesOK'
  BY DEF HandsInv, TypeInv, QueuesOK, queues
<1>2. OwnersInv'
  BY DEF HandsInv, OwnersInv, WorkersInv, JobsInv, queues
<1>3. (\A t \in Threads : LauncherInv(launcher[t]))'
  BY DEF HandsInv, TypeInv, LauncherInv, Where, Capacity
<1> QED BY <1>1, <1>2, <1>3

LEMMA HandsLoad ==
  ASSUME HandsInv, NEW w \in Workers, Load(w), UNCHANGED mode
  PROVE  HandsInv'
<1>1. UNCHANGED <<queues, worker_handle, jobVars, launcher, runner, num, out, mode>>
  BY DEF Load
<1>2. PICK m \in Mail : m = worker_handle[w]
  BY Memory
<1>3. m # Wait
  BY <1>2 DEF Load
<1>4. PICK b \in Block : b = [block[w] EXCEPT !.got = m,
                                !.pc = IF m = NoMore THEN "exited" ELSE "clear"]
  BY Memory DEF Block
<1>5. /\ b.got = m /\ b.pc = IF m = NoMore THEN "exited" ELSE "clear"
      /\ block' = [block EXCEPT ![w] = b]
  <2>1. block[w] \in Block
    BY Memory
  <2>2. block' = [block EXCEPT ![w] = b]
    BY <1>2, <1>4, Memory DEF Load
  <2> QED BY <1>4, <2>1, <2>2 DEF Block
<1>6. block' \in [Workers -> Block]
  BY <1>5, Memory
<1>7. RecordsOK' /\ MemoryOK'
  BY <1>1, <1>6, Memory DEF RecordsOK, MemoryOK, jobVars
<1>8. BatchInv'
  <2>1. ASSUME NEW v \in Workers, block'[v].pc \notin {"load", "exited"}
        PROVE  Described(block[v].got.job)'
    <3>1. CASE v = w
      <4>1. block'[w] = b
        BY <1>5, Memory
      <4>2. m \notin {Wait, NoMore}
        BY <1>3, <1>5, <2>1, <3>1, <4>1
      <4>3. Described(m.job)
        BY <1>2, <4>2, Memory DEF BatchInv
      <4>4. block'[v].got.job = m.job
        BY <1>5, <3>1, <4>1
      <4> QED BY <1>1, <4>3, <4>4 DEF Described, jobVars
    <3>2. CASE v # w
      <4>1. block'[v] = block[v]
        BY <1>5, <3>2, Memory
      <4> QED BY <1>1, <2>1, <4>1, Memory DEF BatchInv, Described, jobVars
    <3> QED BY <3>1, <3>2
  <2> QED BY <1>1, <2>1, Memory DEF BatchInv, Described, jobVars
<1> QED BY <1>1, <1>7, <1>8, ThreadsStay DEF HandsInv, TypeInv

LEMMA HandsClear ==
  ASSUME HandsInv, NEW w \in Workers, Clear(w), UNCHANGED mode
  PROVE  HandsInv'
<1>1. UNCHANGED <<queues, jobVars, launcher, runner, num, out, mode>>
  BY DEF Clear
<1>2. /\ worker_handle' = [worker_handle EXCEPT ![w] = Wait]
      /\ block' = [block EXCEPT ![w].pc = "search"] /\ block[w].pc = "clear"
  BY DEF Clear
<1>3. worker_handle' \in [Workers -> Mail]
  BY <1>2, Memory, MailType
<1>4. block' \in [Workers -> Block]
  BY <1>2, Memory DEF Block
<1>5. RecordsOK' /\ MemoryOK'
  BY <1>1, <1>3, <1>4, Memory DEF RecordsOK, MemoryOK, jobVars
<1>6. BatchInv'
  <2>1. ASSUME NEW v \in Workers, block'[v].pc \notin {"load", "exited"}
        PROVE  Described(block[v].got.job)'
    <3>1. block'[v].got = block[v].got /\ block[v].pc \notin {"load", "exited"}
      BY <1>2, <2>1, Memory DEF Block
    <3> QED BY <1>1, <3>1, Memory DEF BatchInv, Described, jobVars
  <2>2. ASSUME NEW v \in Workers, worker_handle'[v] \notin {Wait, NoMore}
        PROVE  Described(worker_handle[v].job)'
    <3>1. worker_handle'[v] = worker_handle[v]
      BY <1>2, <2>2, Memory
    <3> QED BY <1>1, <2>2, <3>1, Memory DEF BatchInv, Described, jobVars
  <2> QED BY <1>1, <2>1, <2>2, Memory DEF BatchInv, Described, jobVars
<1> QED BY <1>1, <1>5, <1>6, ThreadsStay DEF HandsInv, TypeInv

LEMMA HandsSearch ==
  ASSUME HandsInv, NEW w \in Workers, Search(w), UNCHANGED mode
  PROVE  HandsInv'
<1>1. UNCHANGED <<queues, worker_handle, jobVars, launcher, runner, num, mode>>
  BY DEF Search
<1>2. PICK b \in Block : b = block[w]
  BY Memory
<1>3. b.pc = "search" /\ Described(b.got.job)
  BY <1>2, Memory DEF Search, BatchInv
<1>4. PICK j \in Jobs : j = b.got.job
  BY <1>3 DEF Described
<1>5. PICK d \in Batches : d = descriptor[j]
  BY Memory
<1>6. d.num > 0 /\ d.thread \in Threads /\ d.num \in 1..MaxReqs
  <2>1. d.num > 0
    BY <1>3, <1>4, <1>5 DEF Described
  <2>2. d.thread \in Threads
    BY <1>5, <2>1, Memory DEF BatchInv
  <2>3. d.num \in 0..MaxReqs
    BY DEF Batches
  <2>4. MaxReqs \in Nat
    BY ConstantsAssumption
  <2> QED BY <2>1, <2>2, <2>3, <2>4
<1>7. PICK q : q = b.got.query
  OBVIOUS
<1>8. PICK c : c = [b EXCEPT !.desc = d, !.pc = "arrive"]
  OBVIOUS
<1>9. c \in Block /\ c.got = b.got
  BY <1>8 DEF Block
<1>10. /\ block' = [block EXCEPT ![w] = c]
       /\ out' = IF q \in Rows THEN [out EXCEPT ![d.thread][q] = <<d.thread, d.num, q>>] ELSE out
  <2>1. block' = [block EXCEPT ![w].desc = d, ![w].pc = "arrive"]
    BY <1>2, <1>4, <1>5 DEF Search
  <2>2. block' = [block EXCEPT ![w] = c]
    BY <1>2, <1>8, <2>1, Memory
  <2> QED BY <1>2, <1>4, <1>5, <1>7, <2>2 DEF Search
<1>11. block' \in [Workers -> Block]
  BY <1>9, <1>10, Memory
<1>12. out' \in [Threads -> [Rows -> {NoQuery} \union (Threads \X (1..MaxReqs) \X Rows)]]
  <2>1. CASE q \in Rows
    <3>1. PICK x : x = <<d.thread, d.num, q>>
      OBVIOUS
    <3>2. x \in Threads \X (1..MaxReqs) \X Rows
      BY <1>6, <2>1, <3>1
    <3>3. out' = [out EXCEPT ![d.thread][q] = x]
      BY <1>10, <2>1, <3>1
    <3> QED BY <1>6, <2>1, <3>2, <3>3, Memory
  <2>2. CASE q \notin Rows
    BY <1>10, <2>2, Memory
  <2> QED BY <2>1, <2>2
<1>13. RecordsOK' /\ MemoryOK'
  BY <1>1, <1>11, <1>12, Memory DEF RecordsOK, MemoryOK, jobVars
<1>14. BatchInv'
  <2>1. ASSUME NEW v \in Workers, block'[v].pc \notin {"load", "exited"}
        PROVE  Described(block[v].got.job)'
    <3>1. block'[v].got = block[v].got
      BY <1>2, <1>9, <1>10, Memory
    <3>2. block[v].pc \notin {"load", "exited"}
      BY <1>2, <1>3, <1>10, <2>1, Memory
    <3> QED BY <1>1, <3>1, <3>2, Memory DEF BatchInv, Described, jobVars
  <2> QED BY <1>1, <2>1, Memory DEF BatchInv, Described, jobVars
<1> QED BY <1>1, <1>13, <1>14, ThreadsStay DEF HandsInv, TypeInv

\* A block that goes back to its mailbox.
LEMMA LoopingType == Looping \in Block /\ Looping.pc = "load" /\ Looping.got = Wait
<1>1. NoDescriptor \in Batches
  <2>1. 0 \in 0..MaxReqs
    BY ConstantsAssumption
  <2> QED BY <2>1 DEF NoDescriptor, Batches
<1> QED BY <1>1, MailType DEF Looping, Block

LEMMA HandsArrive ==
  ASSUME HandsInv, NEW w \in Workers, Arrive(w), UNCHANGED mode
  PROVE  HandsInv'
<1>1. /\ UNCHANGED <<queues, worker_handle, descriptor, completion_flag, launcher, runner, num,
                     out, mode>>
      /\ block[w].pc = "arrive"
  BY DEF Arrive
<1>2. PICK b \in Block : b = block[w]
  BY Memory
<1>3. PICK j \in Jobs : j = b.got.job
  BY <1>1, <1>2, Memory DEF BatchInv, Described
<1>4. PICK c : c = IF IsLast(counter[j], b.desc.n) THEN [b EXCEPT !.pc = "raise"] ELSE Looping
  OBVIOUS
<1>10. /\ c \in Block
       /\ c.pc \in {"raise", "load"}
       /\ (c.pc = "raise" => c.got = b.got)
  <2>1. CASE IsLast(counter[j], b.desc.n)
    <3>1. c = [b EXCEPT !.pc = "raise"]
      BY <1>4, <2>1
    <3> QED BY <3>1 DEF Block
  <2>2. CASE ~IsLast(counter[j], b.desc.n)
    <3>1. c = Looping
      BY <1>4, <2>2
    <3> QED BY <3>1, LoopingType
  <2> QED BY <2>1, <2>2
<1>5. /\ block' = [block EXCEPT ![w] = c]
      /\ counter' = [counter EXCEPT ![j] = Inc(counter[j], b.desc.n)]
  BY <1>2, <1>3, <1>4, Memory DEF Arrive
<1>6. Inc(counter[j], b.desc.n) \in Nat
  BY Memory DEF Inc
<1>7. block' \in [Workers -> Block] /\ counter' \in [Jobs -> Nat]
  BY <1>5, <1>6, <1>10, Memory
<1>8. RecordsOK' /\ MemoryOK'
  BY <1>1, <1>7, Memory DEF RecordsOK, MemoryOK
<1>9. BatchInv'
  <2>1. ASSUME NEW v \in Workers, block'[v].pc \notin {"load", "exited"}
        PROVE  Described(block[v].got.job)'
    <3>1. block'[v].got = block[v].got /\ block[v].pc \notin {"load", "exited"}
      <4>1. CASE v = w
        <5>1. block'[v] = c
          BY <1>5, <4>1, Memory
        <5> QED BY <1>1, <1>2, <1>10, <2>1, <4>1, <5>1
      <4>2. CASE v # w
        BY <1>5, <2>1, <4>2, Memory
      <4> QED BY <4>1, <4>2
    <3> QED BY <1>1, <3>1, Memory DEF BatchInv, Described
  <2> QED BY <1>1, <2>1, Memory DEF BatchInv, Described
<1> QED BY <1>1, <1>8, <1>9, ThreadsStay DEF HandsInv, TypeInv

LEMMA HandsRaiseFlag ==
  ASSUME HandsInv, NEW w \in Workers, RaiseFlag(w), UNCHANGED mode
  PROVE  HandsInv'
<1>1. /\ UNCHANGED <<queues, worker_handle, descriptor, counter, launcher, runner, num, out, mode>>
      /\ completion_flag' = [completion_flag EXCEPT ![block[w].got.job] = TRUE]
      /\ block' = [block EXCEPT ![w] = Looping]
  BY DEF RaiseFlag
<1>2. block' \in [Workers -> Block] /\ completion_flag' \in [Jobs -> BOOLEAN]
  BY <1>1, LoopingType, Memory
<1>3. RecordsOK' /\ MemoryOK'
  BY <1>1, <1>2, Memory DEF RecordsOK, MemoryOK
<1>4. BatchInv'
  <2>1. ASSUME NEW v \in Workers, block'[v].pc \notin {"load", "exited"}
        PROVE  Described(block[v].got.job)'
    <3>1. block'[v] = block[v]
      BY <1>1, <2>1, LoopingType, Memory
    <3> QED BY <1>1, <2>1, <3>1, Memory DEF BatchInv, Described
  <2> QED BY <1>1, <2>1, Memory DEF BatchInv, Described
<1> QED BY <1>1, <1>3, <1>4, ThreadsStay DEF HandsInv, TypeInv

LEMMA HandsDestroy ==
  ASSUME HandsInv, Destroy \/ DestroySync \/ DestroyPop, UNCHANGED mode
  PROVE  HandsInv'
<1>1. /\ UNCHANGED <<job_queue, worker_handle, jobVars, launcher, block, num, out, mode>>
      /\ worker_queue' = worker_queue \/ worker_queue' = Promised(worker_queue)
  BY DEF Destroy, DestroySync, DestroyPop, queues
<1>2. runner \in Runner /\ runner.left \in 0..NumWorkers /\ worker_queue.tail \in Nat
  <2>1. worker_queue.tail \in Nat
    BY DEF HandsInv, TypeInv, QueuesOK, Queue
  <2> QED BY <2>1, Memory DEF Runner
<1>3. runner' \in Runner
  <2>1. CASE Destroy
    BY <1>2, <2>1 DEF Destroy, Runner
  <2>2. CASE DestroySync
    BY <1>2, <2>2 DEF DestroySync, Runner
  <2>3. CASE DestroyPop
    <3>1. CASE runner.left > 0
      <4>1. runner' = [pc |-> "stop", left |-> runner.left - 1, slot |-> worker_queue.tail]
        BY <2>3, <3>1 DEF DestroyPop
      <4>2. runner.left - 1 \in 0..NumWorkers
        BY <1>2, <3>1, ConstantsAssumption
      <4> QED BY <1>2, <4>1, <4>2 DEF Runner
    <3>2. CASE ~(runner.left > 0)
      BY <1>2, <2>3, <3>2 DEF DestroyPop, Runner
    <3> QED BY <3>1, <3>2
  <2> QED BY <2>1, <2>2, <2>3
<1>4. PICK q : q = worker_queue'
  OBVIOUS
<1>5. q \in Queue(WorkerSize, Workers) /\ q.buf = worker_queue.buf
  <2>1. worker_queue \in Queue(WorkerSize, Workers)
    BY DEF HandsInv, TypeInv, QueuesOK
  <2> QED BY <1>1, <1>4, <2>1, Sizes, CountersOnly
<1>6. QueuesOK'
  BY <1>1, <1>4, <1>5 DEF HandsInv, TypeInv, QueuesOK
<1>7. RecordsOK' /\ MemoryOK' /\ BatchInv'
  BY <1>1, <1>3, Memory DEF RecordsOK, MemoryOK, BatchInv, Described, jobVars
<1>8. (\A t \in Threads : LauncherInv(launcher[t]))'
  BY <1>1 DEF HandsInv, TypeInv, LauncherInv, Where, Capacity
<1>9. OwnersInv'
  <2>1. Queued(q) = Queued(worker_queue) /\ (Single(worker_queue) => Single(q))
    BY <1>5 DEF Queued, Single
  <2>2. (Queued(worker_queue) = Queued(q) /\ (Single(q) => Single(worker_queue)))'
    BY <1>4
  <2>3. WorkersInv'
    BY <1>1, <1>4, <2>1 DEF HandsInv, OwnersInv, WorkersInv
  <2>4. JobsInv'
    BY <1>1 DEF HandsInv, OwnersInv, JobsInv
  <2> QED BY <2>3, <2>4 DEF OwnersInv
<1> QED BY <1>6, <1>7, <1>8, <1>9 DEF HandsInv, TypeInv

LEMMA HandsDestroyStop ==
  ASSUME HandsInv, DestroyStop, UNCHANGED mode
  PROVE  HandsInv'
<1>1. /\ UNCHANGED <<job_queue, jobVars, launcher, block, num, out, mode>>
      /\ Ready(worker_queue, runner.slot)
      /\ worker_queue' = Taken(worker_queue, runner.slot)
      /\ worker_handle' = [worker_handle EXCEPT ![Value(worker_queue, runner.slot)] = NoMore]
      /\ runner' = [runner EXCEPT !.pc = "pop"]
  BY DEF DestroyStop
<1>2. runner \in Runner
  BY Memory
<1>3. PICK k \in Nat : k = runner.slot
  BY <1>2 DEF Runner
<1>4. worker_queue \in Queue(WorkerSize, Workers) /\ Single(worker_queue)
  BY DEF HandsInv, TypeInv, QueuesOK, OwnersInv, WorkersInv
<1>5. PICK q : q = Taken(worker_queue, k)
  OBVIOUS
<1>6. PICK x : x = Value(worker_queue, k)
  OBVIOUS
<1>7. /\ q \in Queue(WorkerSize, Workers) /\ x \in Workers /\ Single(q)
      /\ Queued(q) = Queued(worker_queue) \ {x}
  BY <1>1, <1>3, <1>4, <1>5, <1>6, Sizes, TakenFromQueue
<1>8. /\ worker_queue' = q /\ job_queue' = job_queue
      /\ worker_handle' = [worker_handle EXCEPT ![x] = NoMore]
  BY <1>1, <1>3, <1>5, <1>6
<1>9. QueuesOK'
  BY <1>7, <1>8 DEF HandsInv, TypeInv, QueuesOK
<1>10. runner' \in Runner
  BY <1>1, <1>2 DEF Runner
<1>11. worker_handle' \in [Workers -> Mail]
  BY <1>7, <1>8, Memory DEF Mail
<1>12. RecordsOK' /\ MemoryOK'
  BY <1>1, <1>10, <1>11, Memory DEF RecordsOK, MemoryOK, jobVars
<1>13. BatchInv'
  <2>1. ASSUME NEW v \in Workers, worker_handle'[v] \notin {Wait, NoMore}
        PROVE  Described(worker_handle[v].job)'
    <3>1. worker_handle'[v] = worker_handle[v]
      BY <1>7, <1>8, <2>1, Memory
    <3> QED BY <1>1, <2>1, <3>1, Memory DEF BatchInv, Described, jobVars
  <2> QED BY <1>1, <2>1, Memory DEF BatchInv, Described, jobVars
<1>14. (\A t \in Threads : LauncherInv(launcher[t]))'
  BY <1>1 DEF HandsInv, TypeInv, LauncherInv, Where, Capacity
<1>15. WorkersInv'
  <2>1. Single(worker_queue)'
    BY <1>7, <1>8 DEF Single
  <2>2. ASSUME NEW t \in Threads
        PROVE  Apart(launcher[t])' /\ (Held(launcher[t]) \intersect Queued(worker_queue) = {})'
    <3>1. PICK r : r = launcher[t]
      OBVIOUS
    <3>2. Apart(r) /\ Held(r) \intersect Queued(worker_queue) = {}
      BY <3>1 DEF HandsInv, OwnersInv, WorkersInv
    <3>3. Held(r) \intersect Queued(q) = {}
      BY <1>7, <3>2
    <3>4. launcher'[t] = r
      BY <1>1, <3>1
    <3>5. Apart(launcher[t])'
      BY <3>2, <3>4
    <3>6. (Held(launcher[t]) \intersect Queued(worker_queue) = {})'
      BY <1>8, <3>3, <3>4
    <3> QED BY <3>5, <3>6
  <2>3. (\A t, u \in Threads : t # u => Held(launcher[t]) \intersect Held(launcher[u]) = {})'
    BY <1>1 DEF HandsInv, OwnersInv, WorkersInv
  <2> QED BY <2>1, <2>2, <2>3 DEF WorkersInv
<1>16. JobsInv'
  BY <1>1 DEF HandsInv, OwnersInv, JobsInv
<1> QED BY <1>9, <1>12, <1>13, <1>14, <1>15, <1>16 DEF HandsInv, TypeInv, OwnersInv

-----------------------------------------------------------------------------
(* The initial states.                                                     *)

\* kCounterIncrement is coprime with the size of the ring: every slot is that of exactly one
\* of size numbers in a row (static_assert of resource_queue_t).
LEMMA EverySlot ==
  ASSUME NEW size \in {NumJobs, WorkerSize}, NEW s \in 0..(size - 1)
  PROVE  \E k \in 0..(size - 1) : (k * Increment) % size = s
<1>1. size \in Nat \ {0} /\ Increment \in Nat
  BY Sizes, ConstantsAssumption
<1> DEFINE S == 0..(size - 1)
           f == [k \in S |-> (k * Increment) % size]
<1>2. \A k \in S : (k * Increment) % size \in S
  <2> SUFFICES ASSUME NEW k \in S PROVE (k * Increment) % size \in S
    OBVIOUS
  <2>1. PICK n \in Nat : n = k * Increment
    BY <1>1
  <2>2. n % size \in S
    BY <1>1
  <2> QED BY <2>1, <2>2
<1>3. \A k, l \in S : (k * Increment) % size = (l * Increment) % size => k = l
  BY IncrementAssumption
<1>4. f \in [S -> S]
  BY <1>2
<1>5. f \in Injection(S, S)
  BY <1>3, <1>4 DEF Injection, IsInjective
<1>6. IsFiniteSet(S)
  BY <1>1, FS_Interval
<1>7. f \in Surjection(S, S)
  BY <1>5, <1>6, FS_Injection
<1> QED BY <1>7 DEF Surjection

LEMMA FilledType ==
  ASSUME NEW size \in {NumJobs, WorkerSize}, NEW n \in Nat, n <= size
  PROVE  /\ Filled(size, n) \in Queue(size, 0..(n - 1))
         /\ Single(Filled(size, n))
         /\ Queued(Filled(size, n)) = 0..(n - 1)
<1>1. size \in Nat \ {0}
  BY Sizes
<1> DEFINE S == 0..(size - 1)
           F(s) == CHOOSE k \in S : (k * Increment) % size = s
           b == Filled(size, n).buf
<1>2. \A s \in S : F(s) \in S /\ (F(s) * Increment) % size = s
  BY EverySlot
<1>3. ASSUME NEW k \in S PROVE \E s \in S : F(s) = k
  <2>1. PICK m \in Nat : m = k * Increment
    BY <1>1, ConstantsAssumption
  <2>2. PICK s \in S : s = m % size
    BY <1>1
  <2>3. (k * Increment) % size = s
    BY <2>1, <2>2
  <2>4. F(s) = k
    BY <1>2, <2>3, IncrementAssumption
  <2> QED BY <2>4
<1>4. /\ DOMAIN b = S
      /\ \A s \in S : b[s] = IF F(s) < n THEN F(s) ELSE Empty
      /\ b \in [S -> (0..(n - 1)) \union {Empty}]
  <2>1. b = [s \in S |-> IF F(s) < n THEN F(s) ELSE Empty]
    BY DEF Filled
  <2> HIDE DEF F, b
  <2>2. \A s \in S : (IF F(s) < n THEN F(s) ELSE Empty) \in (0..(n - 1)) \union {Empty}
    BY <1>1, <1>2
  <2> QED BY <2>1, <2>2
<1>5. Filled(size, n) = [head |-> n, tail |-> 0, buf |-> b]
  BY DEF Filled
<1> HIDE DEF F, b
<1>6. Filled(size, n) \in Queue(size, 0..(n - 1))
  BY <1>4, <1>5 DEF Queue
<1>7. Single(Filled(size, n))
  <2>1. ASSUME NEW s \in S, NEW r \in S, b[s] # Empty, b[s] = b[r] PROVE s = r
    <3>1. F(s) = F(r)
      BY <1>4, <2>1
    <3> QED BY <1>2, <3>1
  <2> QED BY <1>4, <1>5, <2>1 DEF Single
<1>8. Queued(Filled(size, n)) = 0..(n - 1)
  <2>1. ASSUME NEW k \in 0..(n - 1) PROVE \E s \in S : b[s] = k /\ k # Empty
    <3>1. k \in S /\ k < n /\ k # Empty
      BY <1>1 DEF Empty
    <3>2. PICK s \in S : F(s) = k
      BY <1>3, <3>1
    <3> QED BY <1>4, <3>1, <3>2
  <2>2. ASSUME NEW s \in S, b[s] # Empty PROVE b[s] \in 0..(n - 1)
    BY <1>4, <2>2
  <2>3. Queued(Filled(size, n)) = {b[s] : s \in S} \ {Empty}
    BY <1>4, <1>5 DEF Queued
  <2> QED BY <2>1, <2>2, <2>3
<1> QED BY <1>6, <1>7, <1>8

LEMMA IdleLauncher ==
  ASSUME mode \in Modes
  PROVE  /\ NoLauncher \in Launcher /\ LauncherInv(NoLauncher) /\ Apart(NoLauncher)
         /\ Held(NoLauncher) = {} /\ NoLauncher.job = Empty /\ NoLauncher.pc = "idle"
<1>1. PICK pc \in Places : pc = "idle"
  BY DEF Places
<1>2. PICK p \in Seq(Workers) : p = <<>>
  BY <<>> \in Seq(Workers)
<1>3. PICK then \in {"none", "poll", "evict", "soft", "drain", "cleanup"} : then = "none"
  OBVIOUS
<1>4. NoLauncher = [pc |-> pc, n |-> 0, i |-> 0, job |-> Empty, slot |-> 0, put |-> 0,
                    worker |-> Empty, old |-> Empty, pending |-> p, all_done |-> FALSE,
                    then |-> then]
  BY <1>1, <1>2, <1>3 DEF NoLauncher
<1>5. 0 \in Rows
  BY IdsAreNumbers
<1>6. NoLauncher \in Launcher
  BY <1>4, <1>5 DEF Launcher, Ids
<1>7. Entries(p) = {} /\ Len(p) = 0 /\ DOMAIN p = {}
  BY <1>2 DEF Entries
<1>8. Held(NoLauncher) = {} /\ Apart(NoLauncher)
  BY <1>4, <1>7 DEF Held, Apart
<1>9. Capacity(NoLauncher) >= 0
  <2>1. NoLauncher.n = 0
    BY <1>4
  <2>2. mode.max_pending \in Nat
    BY ModesAssumption
  <2>3. Capacity(NoLauncher) = 0
    BY <2>1, <2>2 DEF Capacity
  <2> QED BY <2>3
<1>10. LauncherInv(NoLauncher)
  BY <1>1, <1>2, <1>3, <1>4, <1>7, <1>9 DEF LauncherInv, Where
<1> QED BY <1>1, <1>4, <1>6, <1>8, <1>10

LEMMA HandsInit ==
  ASSUME Init
  PROVE  HandsInv
<1>1. PICK r \in Launcher : /\ r = NoLauncher /\ Apart(r) /\ Held(r) = {}
                            /\ r.job = Empty /\ r.pc = "idle"
  BY IdleLauncher DEF Init
<1>2. launcher = [t \in Threads |-> r]
  BY <1>1 DEF Init
<1>3. /\ job_queue \in Queue(NumJobs, Jobs) /\ Single(job_queue) /\ Queued(job_queue) = Jobs
      /\ worker_queue \in Queue(WorkerSize, Workers) /\ Single(worker_queue)
      /\ Queued(worker_queue) = Workers
  BY Sizes, FilledType DEF Init, Jobs, Workers
<1>4. NoDescriptor \in Batches /\ NoDescriptor.num = 0
  <2>1. 0 \in 0..MaxReqs
    BY ConstantsAssumption
  <2> QED BY <2>1 DEF NoDescriptor, Batches
<1>5. runner \in Runner
  <2>1. NumWorkers \in 0..NumWorkers
    BY ConstantsAssumption
  <2> QED BY <2>1 DEF Init, Runner
<1>6. RecordsOK
  <2>1. mode \in Modes /\ block = [w \in Workers |-> Looping]
    BY DEF Init
  <2> QED BY <1>2, <1>5, <2>1, LoopingType DEF RecordsOK
<1>7. MemoryOK
  <2>1. 0 \in 0..MaxReqs
    BY ConstantsAssumption
  <2>2. num \in [Threads -> 0..MaxReqs]
    BY <2>1 DEF Init
  <2>3. counter \in [Jobs -> Nat]
    BY ConstantsAssumption DEF Init
  <2>4. worker_handle \in [Workers -> Mail]
    BY MailType DEF Init
  <2>5. descriptor \in [Jobs -> Batches] /\ completion_flag \in [Jobs -> BOOLEAN]
    BY <1>4 DEF Init
  <2>6. out \in [Threads -> [Rows -> {NoQuery} \union (Threads \X (1..MaxReqs) \X Rows)]]
    BY DEF Init
  <2> QED BY <2>2, <2>3, <2>4, <2>5, <2>6 DEF MemoryOK
<1>8. \A t \in Threads : LauncherInv(launcher[t])
  BY <1>1, <1>2, IdleLauncher DEF Init
<1>9. BatchInv
  <2>1. \A t \in Threads : launcher[t].pc = "idle" /\ launcher[t].job = Empty
    BY <1>1, <1>2
  <2>2. \A j \in Jobs : descriptor[j].num = 0
    BY <1>4 DEF Init
  <2>3. \A w \in Workers : worker_handle[w] = Wait /\ block[w].pc = "load"
    BY LoopingType DEF Init
  <2> QED BY <2>1, <2>2, <2>3 DEF BatchInv
<1>10. WorkersInv
  <2>1. \A t \in Threads : Apart(launcher[t]) /\ Held(launcher[t]) = {}
    BY <1>1, <1>2
  <2> QED BY <1>3, <2>1 DEF WorkersInv
<1>11. JobsInv
  <2>1. \A t \in Threads : launcher[t].job = Empty
    BY <1>1, <1>2
  <2>2. Empty \notin Jobs
    BY IdsAreNumbers
  <2> QED BY <1>3, <2>1, <2>2 DEF JobsInv
<1> QED BY <1>3, <1>6, <1>7, <1>8, <1>9, <1>10, <1>11
     DEF HandsInv, TypeInv, QueuesOK, OwnersInv

LEMMA HandsNext ==
  ASSUME HandsInv, Next
  PROVE  HandsInv'
<1>1. UNCHANGED mode
  BY DEF Next
<1>2. ASSUME NEW t \in Threads, Launch(t) \/ ThreadStep(t) \/ Throw(t) PROVE HandsInv'
  <2>1. CASE Launch(t) \/ TakeJob(t) \/ Submit(t) \/ PushJob(t)
    BY <1>1, <2>1, HandsLaunch, HandsTakeJob, HandsSubmit, HandsPushJob
  <2>2. CASE StandInLine(t) \/ TakeWorker(t) \/ TestFails(t) \/ TryReturn(t) \/ PushWorker(t)
    BY <1>1, <2>2, HandsStandInLine, HandsTakeWorker, HandsTestFails, HandsTryReturn,
       HandsPushWorker
  <2>3. CASE TryReturnFails(t) \/ AskAllDone(t) \/ IsAllDone(t) \/ Abandon(t) \/ PushBusy(t)
    BY <1>1, <2>3, HandsTryReturnFails, HandsAskAllDone, HandsIsAllDone, HandsAbandon,
       HandsPushBusy
  <2>4. CASE Throw(t)
    BY <1>1, <2>4, HandsThrowInConstructor, HandsThrowInWait DEF Throw
  <2> QED BY <1>2, <2>1, <2>2, <2>3, <2>4 DEF ThreadStep
<1>3. ASSUME NEW w \in Workers, BlockStep(w) PROVE HandsInv'
  BY <1>1, <1>3, HandsLoad, HandsClear, HandsSearch, HandsArrive, HandsRaiseFlag DEF BlockStep
<1>4. CASE Destroy \/ DestructorStep
  BY <1>1, <1>4, HandsDestroy, HandsDestroyStop DEF DestructorStep
<1> QED BY <1>2, <1>3, <1>4 DEF Next, Step

LEMMA HandsSame ==
  ASSUME HandsInv, UNCHANGED vars
  PROVE  HandsInv'
<1>1. UNCHANGED <<queues, worker_handle, jobVars, launcher, block, runner, num, out, mode>>
  BY DEF vars
<1>2. RecordsOK' /\ MemoryOK'
  BY <1>1, Memory DEF RecordsOK, MemoryOK, jobVars
<1>3. BatchInv'
  BY <1>1, Memory DEF BatchInv, Described, jobVars
<1> QED BY <1>1, <1>2, <1>3, ThreadsStay DEF HandsInv, TypeInv

\* Everything has its type, a launcher has a job and workers according to its place in
\* launch(), mailboxes name jobs that are described, and no worker and no job is in two hands:
\* in every reachable state, also with threads that miss their deadline, and whatever the
\* memory of the counters holds at first.
THEOREM HandsCorrect == Spec => []HandsInv
<1>1. Init => HandsInv
  BY HandsInit
<1>2. HandsInv /\ [Next]_vars => HandsInv'
  BY HandsNext, HandsSame
<1> QED BY <1>1, <1>2, PTL DEF Spec

\* A counter that starts below the size of the largest batch stays below it: atomicInc.
LEMMA CountersStep ==
  ASSUME HandsInv, CountersBelow, [Next]_vars
  PROVE  CountersBelow'
<1>1. ASSUME NEW w \in Workers, Arrive(w) PROVE CountersBelow'
  <2>1. PICK b \in Block : b = block[w]
    BY Memory
  <2>2. PICK j \in Jobs : j = b.got.job
    BY <1>1, <2>1, Memory DEF BatchInv, Described, Arrive
  <2>3. PICK n : n = b.desc.n
    OBVIOUS
  <2>4. n \in {0} \union ReqSizes
    BY <2>3 DEF Block, Batches
  <2>5. n \in Nat /\ n <= MaxSize /\ MaxSize \in Nat
    <3>1. CASE n \in ReqSizes
      BY <3>1, MaxSizeType
    <3>2. CASE n = 0
      BY <3>2, MaxSizeType
    <3> QED BY <2>4, <3>1, <3>2
  <2>6. counter[j] \in 0..(MaxSize - 1)
    BY DEF CountersBelow
  <2>7. Inc(counter[j], n) \in 0..(MaxSize - 1)
    BY <2>5, <2>6 DEF Inc
  <2>8. counter' = [counter EXCEPT ![j] = Inc(counter[j], n)]
    BY <1>1, <2>1, <2>2, <2>3, Memory DEF Arrive
  <2> QED BY <2>7, <2>8 DEF CountersBelow
<1>2. ASSUME NEW w \in Workers, Load(w) \/ Clear(w) \/ Search(w) \/ RaiseFlag(w) PROVE counter' = counter
  BY <1>2 DEF Load, Clear, Search, RaiseFlag, jobVars
<1>3. ASSUME NEW t \in Threads, Launch(t) \/ ThreadStep(t) \/ Throw(t) PROVE counter' = counter
  BY <1>3 DEF ThreadStep, Throw, Launch, TakeJob, StandInLine, TakeWorker, TestFails, Submit, TryReturn,
     PushWorker, TryReturnFails, AskAllDone, IsAllDone, PushJob, Abandon, PushBusy, ThrowInConstructor,
     ThrowInWait, jobVars
<1>4. ASSUME Destroy \/ DestructorStep PROVE counter' = counter
  BY <1>4 DEF Destroy, DestructorStep, DestroyPop, DestroyStop, DestroySync, jobVars
<1>5. ASSUME UNCHANGED vars PROVE counter' = counter
  BY <1>5 DEF vars, jobVars
<1>6. ASSUME counter' = counter PROVE CountersBelow'
  BY <1>6 DEF CountersBelow
<1> QED BY <1>1, <1>2, <1>3, <1>4, <1>5, <1>6 DEF Next, Step, BlockStep

\* What the threads and the blocks read has its type, and no launcher holds more workers than
\* its local queue has places (pending_reads of launcher_t).  A job's counter stays below the
\* size of the largest batch if all of them start there.
THEOREM TypeCorrect == Spec /\ CountersBelow => []TypeOK
<1>1. HandsInv /\ CountersBelow => TypeOK
  <2> SUFFICES ASSUME HandsInv, CountersBelow PROVE TypeOK
    OBVIOUS
  <2>1. QueuesOK
    BY DEF HandsInv, TypeInv
  <2>2. ASSUME NEW t \in Threads
        PROVE  LET r == launcher[t] IN
                 /\ r.pc \in {"idle", "job", "stand", "await", "test", "submit", "poll",
                              "evict", "soft", "drain", "ask", "push", "flag", "give", "abandon",
                              "cleanup"}
                 /\ r.n \in {0} \union ReqSizes /\ r.i \in Rows
                 /\ r.job \in Jobs \union {Empty} /\ r.worker \in Ids /\ r.old \in Ids
                 /\ r.slot \in Nat /\ r.put \in Nat
                 /\ r.pending \in Seq(Workers) /\ Len(r.pending) <= Capacity(r)
                 /\ r.all_done \in BOOLEAN
                 /\ r.then \in {"none", "poll", "evict", "soft", "drain", "cleanup"}
    <3>1. PICK r \in Launcher : r = launcher[t]
      BY Memory
    <3>2. LauncherInv(r)
      BY <3>1, Memory
    <3>3. Len(r.pending) <= Capacity(r)
      BY <3>2 DEF LauncherInv
    <3>4. /\ r.pc \in Places /\ r.n \in {0} \union ReqSizes /\ r.i \in Rows
          /\ r.job \in Jobs \union {Empty} /\ r.worker \in Ids /\ r.old \in Ids
          /\ r.slot \in Nat /\ r.put \in Nat /\ r.pending \in Seq(Workers)
          /\ r.then \in {"none", "poll", "evict", "soft", "drain", "cleanup"}
      BY DEF Launcher
    <3>5. r.all_done \in BOOLEAN
      BY DEF Launcher
    <3> QED BY <3>1, <3>3, <3>4, <3>5 DEF Places
  <2>3. \A w \in Workers : /\ block[w].pc \in {"load", "clear", "search", "arrive", "raise", "exited"}
                           /\ block[w].got \in Mail /\ block[w].desc \in Batches
    BY Memory DEF Block
  <2>4. runner.pc \in {"up", "pop", "stop", "sync", "down"} /\ runner.left \in 0..NumWorkers
        /\ runner.slot \in Nat
    BY Memory DEF Runner
  <2> QED BY <2>1, <2>2, <2>3, <2>4, Memory DEF TypeOK, QueuesOK, CountersBelow
<1>2. HandsInv /\ CountersBelow /\ [Next]_vars => CountersBelow'
  BY CountersStep
<1> QED BY <1>1, <1>2, HandsCorrect, PTL DEF Spec

-----------------------------------------------------------------------------
(* No worker and no job is given to two.                                   *)

\* A set in which any two are the same has at most one element.
LEMMA AtMostOne ==
  ASSUME NEW S, \A x, y \in S : x = y
  PROVE  Cardinality(S) <= 1
<1>1. CASE S = {}
  BY <1>1, FS_EmptySet
<1>2. CASE S # {}
  <2>1. PICK x : x \in S
    BY <1>2
  <2>2. S = {x}
    BY <2>1
  <2> QED BY <2>2, FS_Singleton
<1> QED BY <1>1, <1>2

LEMMA OnePlaceForWorkers ==
  ASSUME HandsInv, NEW w \in Workers
  PROVE  \A x, y \in WorkerPlaces(w) : x = y
<1>1. w # Empty
  BY IdsAreNumbers
<1>2. WorkersInv
  BY DEF HandsInv, OwnersInv
<1>3. ASSUME NEW x \in WorkerPlaces(w)
      PROVE  \/ \E s \in DOMAIN worker_queue.buf : worker_queue.buf[s] = w /\ x = <<"queue", s>>
             \/ \E t \in Threads :
                  \/ launcher[t].worker = w /\ x = <<"submits", t>>
                  \/ launcher[t].old = w /\ x = <<"returns", t>>
                  \/ \E p \in DOMAIN launcher[t].pending :
                       launcher[t].pending[p] = w /\ x = <<"pending", t, p>>
  BY DEF WorkerPlaces
<1>4. ASSUME NEW t \in Threads,
             \/ launcher[t].worker = w
             \/ launcher[t].old = w
             \/ \E p \in DOMAIN launcher[t].pending : launcher[t].pending[p] = w
      PROVE  w \in Held(launcher[t])
  BY <1>1, <1>4 DEF Held, Entries
<1>5. CASE w \in Queued(worker_queue)
  <2>1. \A t \in Threads : w \notin Held(launcher[t])
    BY <1>2, <1>5 DEF WorkersInv
  <2>2. ASSUME NEW x \in WorkerPlaces(w)
        PROVE  \E s \in DOMAIN worker_queue.buf : worker_queue.buf[s] = w /\ x = <<"queue", s>>
    BY <1>3, <1>4, <2>1
  <2>3. \A s, u \in DOMAIN worker_queue.buf :
          worker_queue.buf[s] = w /\ worker_queue.buf[u] = w => s = u
    BY <1>1, <1>2 DEF WorkersInv, Single
  <2> QED BY <2>2, <2>3
<1>6. CASE w \notin Queued(worker_queue)
  <2>1. \A s \in DOMAIN worker_queue.buf : worker_queue.buf[s] # w
    BY <1>1, <1>6 DEF Queued
  <2>2. ASSUME NEW x \in WorkerPlaces(w), NEW y \in WorkerPlaces(w) PROVE x = y
    <3>1. PICK t \in Threads :
            \/ launcher[t].worker = w /\ x = <<"submits", t>>
            \/ launcher[t].old = w /\ x = <<"returns", t>>
            \/ \E p \in DOMAIN launcher[t].pending :
                 launcher[t].pending[p] = w /\ x = <<"pending", t, p>>
      BY <1>3, <2>1
    <3>2. PICK v \in Threads :
            \/ launcher[v].worker = w /\ y = <<"submits", v>>
            \/ launcher[v].old = w /\ y = <<"returns", v>>
            \/ \E p \in DOMAIN launcher[v].pending :
                 launcher[v].pending[p] = w /\ y = <<"pending", v, p>>
      BY <1>3, <2>1
    <3>3. v = t
      <4>1. w \in Held(launcher[t]) /\ w \in Held(launcher[v])
        BY <1>4, <3>1, <3>2
      <4> QED BY <1>2, <4>1 DEF WorkersInv
    <3>4. PICK r : r = launcher[t]
      OBVIOUS
    <3>5. Apart(r)
      BY <1>2, <3>4 DEF WorkersInv
    <3>6. CASE r.worker = w
      <4>1. r.old # w /\ \A p \in DOMAIN r.pending : r.pending[p] # w
        BY <1>1, <3>5, <3>6 DEF Apart, Entries
      <4> QED BY <3>1, <3>2, <3>3, <3>4, <4>1
    <3>7. CASE r.old = w
      <4>1. r.worker # w /\ \A p \in DOMAIN r.pending : r.pending[p] # w
        BY <1>1, <3>5, <3>7 DEF Apart, Entries
      <4> QED BY <3>1, <3>2, <3>3, <3>4, <4>1
    <3>8. CASE r.worker # w /\ r.old # w
      <4>1. PICK p \in DOMAIN r.pending : r.pending[p] = w /\ x = <<"pending", t, p>>
        BY <3>1, <3>4, <3>8
      <4>2. PICK q \in DOMAIN r.pending : r.pending[q] = w /\ y = <<"pending", t, q>>
        BY <3>2, <3>3, <3>4, <3>8
      <4>3. p = q
        BY <3>5, <4>1, <4>2 DEF Apart
      <4> QED BY <4>1, <4>2, <4>3
    <3> QED BY <3>6, <3>7, <3>8
  <2> QED BY <2>2
<1> QED BY <1>5, <1>6

LEMMA OnePlaceForJobs ==
  ASSUME HandsInv, NEW j \in Jobs
  PROVE  \A x, y \in JobPlaces(j) : x = y
<1>1. j # Empty /\ JobsInv
  BY IdsAreNumbers DEF HandsInv, OwnersInv
<1>2. ASSUME NEW x \in JobPlaces(j)
      PROVE  \/ \E s \in DOMAIN job_queue.buf : job_queue.buf[s] = j /\ x = <<"queue", s>>
             \/ \E t \in Threads : launcher[t].job = j /\ x = <<"launch", t>>
  BY DEF JobPlaces
<1>3. CASE j \in Queued(job_queue)
  <2>1. \A t \in Threads : launcher[t].job # j
    BY <1>1, <1>3 DEF JobsInv
  <2>2. \A s, r \in DOMAIN job_queue.buf : job_queue.buf[s] = j /\ job_queue.buf[r] = j => s = r
    BY <1>1 DEF JobsInv, Single
  <2> QED BY <1>2, <2>1, <2>2
<1>4. CASE j \notin Queued(job_queue)
  <2>1. \A s \in DOMAIN job_queue.buf : job_queue.buf[s] # j
    BY <1>1, <1>4 DEF Queued
  <2>2. \A t, u \in Threads : launcher[t].job = j /\ launcher[u].job = j => t = u
    BY <1>1 DEF JobsInv
  <2> QED BY <1>2, <2>1, <2>2
<1> QED BY <1>3, <1>4

\* No worker and no job is ever with two threads, twice with one, or with a thread and in the
\* queue, whatever is thrown (resource_queue_t, pending_reads, ~launcher_t).
THEOREM NeverTwice == Spec => []NoneTwice
<1>1. HandsInv => NoneTwice
  <2> SUFFICES ASSUME HandsInv PROVE NoneTwice
    OBVIOUS
  <2>1. ASSUME NEW w \in Workers PROVE Cardinality(WorkerPlaces(w)) <= 1
    BY OnePlaceForWorkers, AtMostOne
  <2>2. ASSUME NEW j \in Jobs PROVE Cardinality(JobPlaces(j)) <= 1
    BY OnePlaceForJobs, AtMostOne
  <2> QED BY <2>1, <2>2 DEF NoneTwice
<1> QED BY <1>1, HandsCorrect, PTL
-----------------------------------------------------------------------------
(* The queries of a job: submitting one, the blocks, and the destructor of the *)
(* runner.                                                                 *)

\* The workers that a launcher has given work to are workers that it has.
LEMMA WorkingIsHeld ==
  ASSUME NEW r \in Launcher, LauncherInv(r)
  PROVE  Working(r) \subseteq Held(r) /\ (r.pc = "submit" /\ Apart(r) => r.worker \notin Working(r))
<1>1. r.pending \in Seq(Workers)
  BY DEF Launcher
<1>2. Empty \notin Entries(r.pending)
  BY <1>1, EntriesOf, IdsAreNumbers
<1>3. Working(r) \subseteq Held(r)
  BY <1>2 DEF Working, GivenWork, Held, LauncherInv
<1>4. ASSUME r.pc = "submit", Apart(r) PROVE r.worker \notin Working(r)
  <2>1. r.worker # Empty /\ Where(r) = "submit"
    BY <1>4 DEF LauncherInv, Where
  <2>2. r.worker # r.old /\ r.worker \notin Entries(r.pending)
    BY <1>4, <2>1 DEF Apart
  <2> QED BY <1>4, <2>1, <2>2 DEF Working, GivenWork
<1> QED BY <1>3, <1>4

\* A worker in the queue, or in hand to be given a query, has an empty mailbox.
LEMMA IdleWorkers ==
  ASSUME HandsInv, MailInv
  PROVE  /\ \A w \in Workers : w \in Queued(worker_queue) => ~Busy(w)
         /\ \A t \in Threads : launcher[t].pc = "submit" => ~Busy(launcher[t].worker)
<1>1. /\ \A t \in Threads : Held(launcher[t]) \intersect Queued(worker_queue) = {}
      /\ \A t, u \in Threads : t # u => Held(launcher[t]) \intersect Held(launcher[u]) = {}
  BY DEF HandsInv, OwnersInv, WorkersInv
<1>2. \A t \in Threads : Working(launcher[t]) \subseteq Held(launcher[t])
  BY Hands, WorkingIsHeld
<1>3. ASSUME NEW w \in Workers, w \in Queued(worker_queue) PROVE ~Busy(w)
  <2> SUFFICES ASSUME Busy(w) PROVE FALSE
    OBVIOUS
  <2>1. PICK t \in Threads : w \in Working(launcher[t])
    BY DEF MailInv
  <2> QED BY <1>1, <1>2, <1>3, <2>1
<1>4. ASSUME NEW t \in Threads, launcher[t].pc = "submit" PROVE ~Busy(launcher[t].worker)
  <2> SUFFICES ASSUME Busy(launcher[t].worker) PROVE FALSE
    OBVIOUS
  <2>1. PICK r \in Launcher : r = launcher[t] /\ LauncherInv(r) /\ Apart(r) /\ r.pc = "submit"
    BY <1>4, Hands
  <2>2. r.worker \in Workers /\ r.worker \in Held(r)
    BY <2>1 DEF LauncherInv, Where, Launcher, Ids, Held
  <2>3. PICK v \in Threads : r.worker \in Working(launcher[v])
    BY <2>1, <2>2 DEF MailInv
  <2>4. v = t
    BY <1>1, <1>2, <2>1, <2>2, <2>3
  <2> QED BY <2>1, <2>3, <2>4, WorkingIsHeld
<1> QED BY <1>3, <1>4

\* A step of a block that changes the accounts of the jobs in J only.
LEMMA CompletionStays ==
  ASSUME HandsInv, Completion, UNCHANGED <<launcher, num, descriptor, job_queue>>,
         NEW J \in SUBSET Jobs,
         \A i \in Jobs \ J : /\ counter'[i] = counter[i] /\ completion_flag'[i] = completion_flag[i]
                             /\ Outstanding(i)' = Outstanding(i) /\ Raising(i)' = Raising(i),
         \A j \in J : \E t \in Threads : launcher[t].job = j /\ Counts(t, j)',
         RaiseInv', MailInv', WorkersThere'
  PROVE  Completion'
<1>1. InTimeInv' /\ JobsThere'
  BY DEF Completion, InTimeInv, ThereInv, JobsThere
<1>2. CountInv'
  <2> SUFFICES ASSUME NEW v \in Threads, NEW i \in Jobs, launcher'[v].job = i
               PROVE  Counts(v, i)'
    BY DEF CountInv
  <2>1. CASE i \in J
    <3>1. PICK t \in Threads : launcher[t].job = i /\ Counts(t, i)'
      BY <2>1
    <3>2. t = v
      <4>1. i # Empty
        BY IdsAreNumbers
      <4> QED BY <3>1, <4>1 DEF HandsInv, OwnersInv, JobsInv
    <3> QED BY <3>1, <3>2
  <2>2. CASE i \notin J
    <3>1. Counts(v, i)
      BY DEF Completion, CountInv
    <3>2. i \in Jobs \ J
      BY <2>2
    <3> QED BY <3>1, <3>2, AccountOfOther
  <2> QED BY <2>1, <2>2
<1>3. UnusedInv'
  <2> SUFFICES ASSUME NEW i \in Jobs, \A v \in Threads : launcher'[v].job # i
               PROVE  Traceless(i)'
    BY DEF UnusedInv
  <2>1. i \in Jobs \ J /\ Traceless(i)
    BY DEF Completion, UnusedInv
  <2> QED BY <2>1 DEF Traceless
<1> QED BY <1>1, <1>2, <1>3 DEF Completion, ThereInv

LEMMA NobodyStopped ==
  ASSUME WorkersThere, UNCHANGED <<launcher, worker_queue>>,
         \A w \in Workers : worker_handle'[w] = NoMore <=> worker_handle[w] = NoMore
  PROVE  WorkersThere'
BY DEF WorkersThere

\* A step after which every job has the account that it had.
LEMMA AccountsStay ==
  ASSUME HandsInv, Completion, UNCHANGED <<launcher, num, jobVars, job_queue>>,
         \A i \in Jobs : Outstanding(i)' = Outstanding(i) /\ Raising(i)' = Raising(i),
         \A v \in Workers : \A i \in Jobs :
           /\ block'[v].pc = "arrive" /\ block'[v].got.job = i => block'[v].desc = descriptor[i]
           /\ block'[v].pc \in {"load", "exited"} => block'[v].got.job # i,
         MailInv', WorkersThere'
  PROVE  Completion'
<1>1. PICK J \in SUBSET Jobs : J = {}
  OBVIOUS
<1>2. UNCHANGED <<launcher, num, descriptor, job_queue, counter, completion_flag>>
  BY DEF jobVars
<1>3. RaiseInv'
  <2>1. ASSUME NEW v \in Workers, NEW i \in Jobs, (v \in Raising(i))'
        PROVE  (~completion_flag[i] /\ Raising(i) = {v})'
    BY <1>2, <2>1 DEF Completion, RaiseInv
  <2> QED BY <1>2, <2>1 DEF RaiseInv
<1> QED BY <1>1, <1>2, <1>3, CompletionStays

\* A block that moves to a place where it neither reads nor counts.
LEMMA CompletionLoad ==
  ASSUME HandsInv, Completion, NEW w \in Workers, Load(w)
  PROVE  Completion'
<1>1. UNCHANGED <<queues, worker_handle, jobVars, launcher, runner, num, out>>
  BY DEF Load
<1>2. PICK m \in Mail : m = worker_handle[w]
  BY Memory
<1>3. /\ block[w] \in Block /\ block[w].pc = "load" /\ m # Wait
      /\ block' = [block EXCEPT ![w].got = m, ![w].pc = IF m = NoMore THEN "exited" ELSE "clear"]
  BY <1>2, Memory DEF Load
<1>4. /\ block'[w].pc = IF m = NoMore THEN "exited" ELSE "clear"
      /\ block'[w].got = m
      /\ \A v \in Workers : v # w => block'[v] = block[v]
  BY <1>3, Memory DEF Block
<1>5. ASSUME NEW j \in Jobs
      PROVE  Outstanding(j)' = Outstanding(j) /\ Raising(j)' = Raising(j)
  <2>1. InMail(j)' = InMail(j)
    BY <1>1 DEF InMail
  <2>2. block[w].pc = "load" /\ block'[w].pc \in {"exited", "clear"}
    BY <1>3, <1>4
  <2>3. InBlock(j)' = InBlock(j)
    BY <1>4, <2>2 DEF InBlock
  <2>4. Raising(j)' = Raising(j)
    BY <1>4, <2>2 DEF Raising
  <2> QED BY <2>1, <2>3, <2>4 DEF Outstanding
<1>6. ASSUME NEW v \in Workers, NEW j \in Jobs
      PROVE  /\ block'[v].pc = "arrive" /\ block'[v].got.job = j => block'[v].desc = descriptor[j]
             /\ block'[v].pc \in {"load", "exited"} => block'[v].got.job # j
  <2>1. NoMore.job # j
    BY MailType, IdsAreNumbers
  <2> QED BY <1>4, <2>1 DEF Completion, RaiseInv
<1>7. MailInv'
  <2>1. \A v \in Workers : block'[v].pc = "clear" => worker_handle'[v] = block'[v].got
    BY <1>1, <1>2, <1>4 DEF Completion, MailInv
  <2> QED BY <1>1, <2>1 DEF Completion, MailInv, Busy
<1>8. WorkersThere'
  BY <1>1, NobodyStopped DEF Completion, ThereInv, queues
<1> QED BY <1>1, <1>5, <1>6, <1>7, <1>8, AccountsStay DEF queues

\* One worker less, or more, in a set of workers.
LEMMA OneLess ==
  ASSUME NEW S \in SUBSET Workers, NEW w \in S
  PROVE  Cardinality(S \ {w}) = Cardinality(S) - 1
BY WorkerSets, FS_RemoveElement

LEMMA OneMore ==
  ASSUME NEW S \in SUBSET Workers, NEW w \in Workers, w \notin S
  PROVE  Cardinality(S \union {w}) = Cardinality(S) + 1
BY WorkerSets, FS_AddElement

\* A query passes from the mailbox to the block: it is outstanding as before.
LEMMA CompletionClear ==
  ASSUME HandsInv, Completion, NEW w \in Workers, Clear(w)
  PROVE  Completion'
<1>1. UNCHANGED <<queues, jobVars, launcher, runner, num, out>>
  BY DEF Clear
<1>2. block[w] \in Block /\ block[w].pc = "clear"
  BY Memory DEF Clear
<1>3. /\ block'[w].pc = "search" /\ block'[w].got = block[w].got
      /\ \A v \in Workers : v # w => block'[v] = block[v]
  BY <1>2, Memory DEF Clear, Block
<1>4. /\ worker_handle'[w] = Wait /\ worker_handle[w] = block[w].got
      /\ \A v \in Workers : v # w => worker_handle'[v] = worker_handle[v]
  BY <1>2, Memory DEF Clear, Completion, MailInv
<1>5. PICK i \in Jobs : i = block[w].got.job
  BY <1>2, Memory DEF BatchInv, Described
<1>6. worker_handle[w] # NoMore /\ Wait # NoMore
  BY <1>4, <1>5, MailType, IdsAreNumbers
<1>7. ASSUME NEW j \in Jobs
      PROVE  Outstanding(j)' = Outstanding(j) /\ Raising(j)' = Raising(j)
  <2>1. Raising(j)' = Raising(j)
    <3>1. block[w].pc # "raise" /\ block'[w].pc # "raise"
      BY <1>2, <1>3
    <3> QED BY <1>3, <3>1 DEF Raising
  <2>2. Wait.job # j
    BY MailType, IdsAreNumbers
  <2>3. CASE j = i
    <3>1. InMail(j)' = InMail(j) \ {w} /\ w \in InMail(j)
      BY <1>4, <1>5, <2>2, <2>3 DEF InMail
    <3>2. InBlock(j)' = InBlock(j) \union {w} /\ w \notin InBlock(j)
      <4>1. w \notin InBlock(j)
        BY <1>2 DEF InBlock
      <4>2. w \in InBlock(j)'
        BY <1>3, <1>5, <2>3 DEF InBlock
      <4>3. \A v \in Workers : v # w => (v \in InBlock(j)' <=> v \in InBlock(j))
        BY <1>3 DEF InBlock
      <4> QED BY <4>1, <4>2, <4>3 DEF InBlock
    <3>3. Cardinality(InMail(j)') = Cardinality(InMail(j)) - 1
      BY <3>1, WorkerSets, OneLess
    <3>4. Cardinality(InBlock(j)') = Cardinality(InBlock(j)) + 1
      BY <3>2, WorkerSets, OneMore
    <3>5. Cardinality(InMail(j)) \in Nat /\ Cardinality(InBlock(j)) \in Nat
      BY WorkerSets
    <3>6. Outstanding(j)' = Outstanding(j)
      BY <3>3, <3>4, <3>5 DEF Outstanding
    <3> QED BY <2>1, <3>6
  <2>4. CASE j # i
    <3>1. InMail(j)' = InMail(j)
      BY <1>4, <1>5, <2>2, <2>4 DEF InMail
    <3>2. InBlock(j)' = InBlock(j)
      BY <1>2, <1>3, <1>5, <2>4 DEF InBlock
    <3> QED BY <2>1, <3>1, <3>2 DEF Outstanding
  <2> QED BY <2>3, <2>4
<1>8. ASSUME NEW v \in Workers, NEW j \in Jobs
      PROVE  /\ block'[v].pc = "arrive" /\ block'[v].got.job = j => block'[v].desc = descriptor[j]
             /\ block'[v].pc \in {"load", "exited"} => block'[v].got.job # j
  BY <1>3 DEF Completion, RaiseInv
<1>9. MailInv'
  <2>1. \A v \in Workers : block'[v].pc = "clear" => worker_handle'[v] = block'[v].got
    BY <1>3, <1>4 DEF Completion, MailInv
  <2>2. \A v \in Workers : Busy(v)' => v # w /\ Busy(v)
    BY <1>4 DEF Busy
  <2> QED BY <1>1, <1>4, <2>1, <2>2 DEF Completion, MailInv
<1>10. WorkersThere'
  <2>1. \A v \in Workers : worker_handle'[v] = NoMore <=> worker_handle[v] = NoMore
    BY <1>4, <1>6
  <2> QED BY <1>1, <2>1, NobodyStopped DEF Completion, ThereInv, queues
<1> QED BY <1>1, <1>7, <1>8, <1>9, <1>10, AccountsStay DEF queues

\* The description of the job is read.
LEMMA CompletionSearch ==
  ASSUME HandsInv, Completion, NEW w \in Workers, Search(w)
  PROVE  Completion'
<1>1. UNCHANGED <<queues, worker_handle, jobVars, launcher, runner, num>>
  BY DEF Search
<1>2. block[w] \in Block /\ block[w].pc = "search"
  BY Memory DEF Search
<1>3. PICK i \in Jobs : i = block[w].got.job
  BY <1>2, Memory DEF BatchInv, Described
<1>4. /\ block'[w].pc = "arrive" /\ block'[w].got = block[w].got /\ block'[w].desc = descriptor[i]
      /\ \A v \in Workers : v # w => block'[v] = block[v]
  BY <1>2, <1>3, Memory DEF Search, Block
<1>5. ASSUME NEW j \in Jobs
      PROVE  Outstanding(j)' = Outstanding(j) /\ Raising(j)' = Raising(j)
  <2>1. InMail(j)' = InMail(j)
    BY <1>1 DEF InMail
  <2>2. InBlock(j)' = InBlock(j)
    BY <1>2, <1>4 DEF InBlock
  <2>3. Raising(j)' = Raising(j)
    BY <1>2, <1>4 DEF Raising
  <2> QED BY <2>1, <2>2, <2>3 DEF Outstanding
<1>6. ASSUME NEW v \in Workers, NEW j \in Jobs
      PROVE  /\ block'[v].pc = "arrive" /\ block'[v].got.job = j => block'[v].desc = descriptor[j]
             /\ block'[v].pc \in {"load", "exited"} => block'[v].got.job # j
  BY <1>3, <1>4 DEF Completion, RaiseInv
<1>7. MailInv'
  <2>1. \A v \in Workers : block'[v].pc = "clear" => worker_handle'[v] = block'[v].got
    BY <1>1, <1>4 DEF Completion, MailInv
  <2> QED BY <1>1, <2>1 DEF Completion, MailInv, Busy
<1>8. WorkersThere'
  BY <1>1, NobodyStopped DEF Completion, ThereInv, queues
<1> QED BY <1>1, <1>5, <1>6, <1>7, <1>8, AccountsStay DEF queues

\* A job that has left a trace belongs to a launch, and its queries so far are counted.
LEMMA JobInUse ==
  ASSUME HandsInv, Completion, NEW j \in Jobs, ~Traceless(j)
  PROVE  \E t \in Threads :
           /\ launcher[t].job = j /\ Counts(t, j) /\ launcher[t].n \in ReqSizes
           /\ Submitted(launcher[t]) \in Nat /\ Submitted(launcher[t]) <= launcher[t].n
<1>1. PICK t \in Threads : launcher[t].job = j
  BY DEF Completion, UnusedInv
<1>2. PICK r \in Launcher : r = launcher[t] /\ LauncherInv(r)
  BY Hands
<1>3. r.pc # "idle" /\ r.n \in ReqSizes /\ r.i < r.n /\ r.i \in Nat /\ r.n \in Nat
  <2>1. r.pc # "idle"
    BY <1>1, <1>2, IdsAreNumbers DEF LauncherInv, Where
  <2>2. r.i \in Nat
    BY IdsAreNumbers DEF Launcher
  <2> QED BY <1>2, <2>1, <2>2, MaxSizeType DEF LauncherInv
<1>4. Submitted(r) \in Nat /\ Submitted(r) <= r.n
  BY <1>3 DEF Submitted
<1> QED BY <1>1, <1>2, <1>3, <1>4 DEF Completion, CountInv

\* A query is counted; the last one of the batch clears the counter and raises the flag next.
LEMMA CompletionArrive ==
  ASSUME HandsInv, Completion, NEW w \in Workers, Arrive(w)
  PROVE  Completion'
<1>1. /\ UNCHANGED <<queues, worker_handle, descriptor, completion_flag, launcher, runner, num,
                     out>>
      /\ block[w].pc = "arrive"
  BY DEF Arrive
<1>2. PICK b \in Block : b = block[w]
  BY Memory
<1>3. PICK j \in Jobs : j = b.got.job
  BY <1>1, <1>2, Memory DEF BatchInv, Described
<1>4. w \in InBlock(j) /\ InBlock(j) \in SUBSET Workers
  BY <1>1, <1>2, <1>3, WorkerSets DEF InBlock
<1>5. PICK inBlock \in Nat : inBlock = Cardinality(InBlock(j))
  BY WorkerSets
<1>6. PICK inMail \in Nat : inMail = Cardinality(InMail(j))
  BY WorkerSets
<1>7. Cardinality(InBlock(j) \ {w}) = inBlock - 1 /\ inBlock > 0
  <2>1. Cardinality(InBlock(j) \ {w}) = inBlock - 1
    BY <1>4, <1>5, OneLess
  <2>2. Cardinality(InBlock(j) \ {w}) \in Nat
    BY <1>4, WorkerSets
  <2> QED BY <2>1, <2>2
<1>8. PICK o \in Nat : o = Outstanding(j) /\ o = inMail + inBlock /\ o > 0
  BY <1>5, <1>6, <1>7 DEF Outstanding
<1>9. PICK t \in Threads :
        /\ launcher[t].job = j /\ Counts(t, j) /\ launcher[t].n \in ReqSizes
        /\ Submitted(launcher[t]) \in Nat /\ Submitted(launcher[t]) <= launcher[t].n
  <2>1. ~Traceless(j)
    BY <1>8 DEF Traceless
  <2> QED BY <2>1, JobInUse
<1>10. PICK n \in ReqSizes : n = launcher[t].n
  BY <1>9
<1>11. n \in Nat /\ n > 0
  BY MaxSizeType
<1>12. PICK s \in Nat : s = Submitted(launcher[t]) /\ s <= n
  BY <1>9, <1>10
<1>13. b.desc.n = n
  <2>1. b.desc = descriptor[j]
    BY <1>1, <1>2, <1>3 DEF Completion, RaiseInv
  <2> QED BY <1>9, <1>10, <2>1 DEF Counts
<1>14. PICK k \in Nat : k = counter[j]
  BY Memory, MaxSizeType
<1>15. ~Finished(j) /\ k < n /\ k + o = s
  BY <1>8, <1>9, <1>10, <1>12, <1>14 DEF Counts, Counted
<1>16. ~completion_flag[j] /\ Raising(j) = {}
  BY <1>15 DEF Finished
<1>17. PICK c : c = IF IsLast(k, n) THEN [b EXCEPT !.pc = "raise"] ELSE Looping
  OBVIOUS
<1>18. /\ block'[w] = c
       /\ \A v \in Workers : v # w => block'[v] = block[v]
       /\ counter'[j] = Inc(k, n)
       /\ \A i \in Jobs : i # j => counter'[i] = counter[i]
  BY <1>2, <1>3, <1>13, <1>14, <1>17, Memory DEF Arrive
<1>19. \/ IsLast(k, n) /\ c.pc = "raise" /\ c.got = b.got
       \/ ~IsLast(k, n) /\ c.pc = "load" /\ c.got = Wait
  <2>1. CASE IsLast(k, n)
    <3>1. c = [b EXCEPT !.pc = "raise"]
      BY <1>17, <2>1
    <3>2. c.pc = "raise" /\ c.got = b.got
      BY <3>1 DEF Block
    <3> QED BY <2>1, <3>2
  <2>2. CASE ~IsLast(k, n)
    BY <1>17, <2>2, LoopingType
  <2> QED BY <2>1, <2>2
<1>20. \A i \in Jobs : Wait.job # i
  BY MailType, IdsAreNumbers
<1>21. InMail(j)' = InMail(j) /\ InBlock(j)' = InBlock(j) \ {w}
  <2>1. InMail(j)' = InMail(j)
    BY <1>1 DEF InMail
  <2>2. c.pc \notin {"search", "arrive"}
    BY <1>19
  <2> QED BY <1>18, <2>1, <2>2 DEF InBlock
<1>22. Outstanding(j)' = o - 1
  BY <1>6, <1>7, <1>8, <1>21 DEF Outstanding
<1>23. Raising(j)' = IF IsLast(k, n) THEN {w} ELSE {}
  <2>1. \A v \in Workers : v # w => v \notin Raising(j)'
    BY <1>16, <1>18 DEF Raising
  <2>2. w \in Raising(j)' <=> IsLast(k, n)
    BY <1>3, <1>18, <1>19 DEF Raising
  <2>3. Raising(j)' \subseteq Workers
    BY DEF Raising
  <2> QED BY <2>1, <2>2, <2>3
<1>24. Counts(t, j)'
  <2>1. Finished(j)' = IsLast(k, n)
    BY <1>1, <1>16, <1>23 DEF Finished, IsLast
  <2>2. IF IsLast(k, n) THEN s = n /\ o - 1 = 0 /\ Inc(k, n) = 0
                        ELSE Inc(k, n) < n /\ Inc(k, n) + (o - 1) = s
    BY <1>8, <1>11, <1>12, <1>15 DEF IsLast, Inc
  <2>3. PICK r : r = launcher[t]
    OBVIOUS
  <2>4. Counted(r, Inc(k, n), o - 1, IsLast(k, n))
    BY <1>10, <1>12, <2>2, <2>3 DEF Counted
  <2>5. launcher' = launcher
    BY <1>1
  <2>6. Counted(launcher[t], counter[j], Outstanding(j), Finished(j))'
    BY <1>18, <1>22, <2>1, <2>3, <2>4, <2>5
  <2> QED BY <1>1, <1>9, <2>6 DEF Counts
<1>25. ASSUME NEW i \in Jobs \ {j}
       PROVE  Outstanding(i)' = Outstanding(i) /\ Raising(i)' = Raising(i)
  <2>1. b.got.job # i /\ c.got.job # i
    BY <1>3, <1>19, <1>20
  <2>2. InMail(i)' = InMail(i)
    BY <1>1 DEF InMail
  <2>3. InBlock(i)' = InBlock(i)
    BY <1>2, <1>18, <2>1 DEF InBlock
  <2>4. Raising(i)' = Raising(i)
    BY <1>2, <1>18, <2>1 DEF Raising
  <2> QED BY <2>2, <2>3, <2>4 DEF Outstanding
<1>26. RaiseInv'
  <2>1. ASSUME NEW v \in Workers, NEW i \in Jobs, (v \in Raising(i))'
        PROVE  (~completion_flag[i] /\ Raising(i) = {v})'
    <3>1. CASE i = j
      BY <1>1, <1>16, <1>23, <2>1, <3>1
    <3>2. CASE i # j
      BY <1>1, <1>25, <2>1, <3>2 DEF Completion, RaiseInv
    <3> QED BY <3>1, <3>2
  <2>2. ASSUME NEW v \in Workers, NEW i \in Jobs
        PROVE  /\ block'[v].pc = "arrive" /\ block'[v].got.job = i => block'[v].desc = descriptor'[i]
               /\ block'[v].pc \in {"load", "exited"} => block'[v].got.job # i
    <3>1. CASE v = w
      BY <1>18, <1>19, <1>20, <3>1
    <3>2. CASE v # w
      BY <1>1, <1>18, <3>2 DEF Completion, RaiseInv
    <3> QED BY <3>1, <3>2
  <2> QED BY <2>1, <2>2 DEF RaiseInv
<1>27. MailInv'
  <2>1. \A v \in Workers : block'[v].pc = "clear" => worker_handle'[v] = block'[v].got
    BY <1>1, <1>18, <1>19 DEF Completion, MailInv
  <2> QED BY <1>1, <2>1 DEF Completion, MailInv, Busy
<1>28. WorkersThere'
  BY <1>1, NobodyStopped DEF Completion, ThereInv, queues
<1>29. UNCHANGED <<launcher, num, descriptor, job_queue>>
  BY <1>1 DEF queues
<1>30. PICK J \in SUBSET Jobs : J = {j}
  OBVIOUS
<1>31. \A i \in J : \E v \in Threads : launcher[v].job = i /\ Counts(v, i)'
  BY <1>9, <1>24, <1>30
<1>32. \A i \in Jobs \ J : /\ counter'[i] = counter[i] /\ completion_flag'[i] = completion_flag[i]
                           /\ Outstanding(i)' = Outstanding(i) /\ Raising(i)' = Raising(i)
  BY <1>1, <1>18, <1>25, <1>30
<1> QED BY <1>26, <1>27, <1>28, <1>29, <1>31, <1>32, CompletionStays

\* The flag is raised: the batch was finished, and stays so.
LEMMA CompletionRaiseFlag ==
  ASSUME HandsInv, Completion, NEW w \in Workers, RaiseFlag(w)
  PROVE  Completion'
<1>1. /\ UNCHANGED <<queues, worker_handle, descriptor, counter, launcher, runner, num, out>>
      /\ block[w].pc = "raise"
  BY DEF RaiseFlag
<1>2. PICK j \in Jobs : j = block[w].got.job
  BY <1>1, Memory DEF BatchInv, Described
<1>3. /\ block'[w].pc = "load" /\ block'[w].got = Wait
      /\ \A v \in Workers : v # w => block'[v] = block[v]
      /\ completion_flag'[j] = TRUE
      /\ \A i \in Jobs : i # j => completion_flag'[i] = completion_flag[i]
  BY <1>2, LoopingType, Memory DEF RaiseFlag
<1>4. \A i \in Jobs : Wait.job # i
  BY MailType, IdsAreNumbers
<1>5. Raising(j) = {w} /\ Finished(j)
  <2>1. w \in Raising(j)
    BY <1>1, <1>2 DEF Raising
  <2> QED BY <2>1 DEF Completion, RaiseInv, Finished
<1>6. PICK t \in Threads : launcher[t].job = j /\ Counts(t, j)
  BY <1>5, JobInUse DEF Traceless
<1>7. ASSUME NEW i \in Jobs
      PROVE  Outstanding(i)' = Outstanding(i)
  <2>1. InMail(i)' = InMail(i)
    BY <1>1 DEF InMail
  <2>2. InBlock(i)' = InBlock(i)
    BY <1>1, <1>3 DEF InBlock
  <2> QED BY <2>1, <2>2 DEF Outstanding
<1>8. Raising(j)' = {}
  <2>1. ASSUME NEW v \in Workers PROVE v \notin Raising(j)'
    BY <1>3, <1>5 DEF Raising
  <2> QED BY <2>1 DEF Raising
<1>9. ASSUME NEW i \in Jobs \ {j} PROVE Raising(i)' = Raising(i)
  BY <1>1, <1>2, <1>3 DEF Raising
<1>10. Counts(t, j)'
  <2>1. Finished(j)' = TRUE /\ Finished(j) = TRUE
    BY <1>3, <1>5 DEF Finished
  <2>2. Counted(launcher[t], counter[j], Outstanding(j), TRUE)
    BY <1>6, <2>1 DEF Counts
  <2>3. launcher' = launcher /\ counter' = counter
    BY <1>1
  <2>4. Counted(launcher[t], counter[j], Outstanding(j), Finished(j))'
    BY <1>7, <2>1, <2>2, <2>3 DEF Counted, Submitted, Where
  <2> QED BY <1>1, <1>3, <1>6, <2>4 DEF Counts
<1>11. RaiseInv'
  <2>1. ASSUME NEW v \in Workers, NEW i \in Jobs, (v \in Raising(i))'
        PROVE  (~completion_flag[i] /\ Raising(i) = {v})'
    <3>1. i # j
      BY <1>8, <2>1
    <3> QED BY <1>3, <1>9, <2>1, <3>1 DEF Completion, RaiseInv
  <2>2. ASSUME NEW v \in Workers, NEW i \in Jobs
        PROVE  /\ block'[v].pc = "arrive" /\ block'[v].got.job = i => block'[v].desc = descriptor'[i]
               /\ block'[v].pc \in {"load", "exited"} => block'[v].got.job # i
    <3>1. CASE v = w
      BY <1>3, <1>4, <3>1
    <3>2. CASE v # w
      BY <1>1, <1>3, <3>2 DEF Completion, RaiseInv
    <3> QED BY <3>1, <3>2
  <2> QED BY <2>1, <2>2 DEF RaiseInv
<1>12. MailInv'
  <2>1. \A v \in Workers : block'[v].pc = "clear" => worker_handle'[v] = block'[v].got
    BY <1>1, <1>3 DEF Completion, MailInv
  <2> QED BY <1>1, <2>1 DEF Completion, MailInv, Busy
<1>13. WorkersThere'
  BY <1>1, NobodyStopped DEF Completion, ThereInv, queues
<1>14. UNCHANGED <<launcher, num, descriptor, job_queue>>
  BY <1>1 DEF queues
<1>15. PICK J \in SUBSET Jobs : J = {j}
  OBVIOUS
<1>16. \A i \in J : \E v \in Threads : launcher[v].job = i /\ Counts(v, i)'
  BY <1>6, <1>10, <1>15
<1>17. \A i \in Jobs \ J : /\ counter'[i] = counter[i] /\ completion_flag'[i] = completion_flag[i]
                           /\ Outstanding(i)' = Outstanding(i) /\ Raising(i)' = Raising(i)
  BY <1>1, <1>3, <1>7, <1>9, <1>15
<1> QED BY <1>11, <1>12, <1>13, <1>14, <1>16, <1>17, CompletionStays

LEMMA CompletionDestroy ==
  ASSUME HandsInv, Completion, Destroy \/ DestroySync \/ DestroyPop
  PROVE  Completion'
<1>1. /\ UNCHANGED <<job_queue, worker_handle, jobVars, launcher, block, num, out>>
      /\ worker_queue' = worker_queue \/ worker_queue' = Promised(worker_queue)
  BY DEF Destroy, DestroySync, DestroyPop, queues
<1>2. PICK q : q = worker_queue' /\ q.buf = worker_queue.buf
  <2>1. worker_queue \in Queue(WorkerSize, Workers)
    BY DEF HandsInv, TypeInv, QueuesOK
  <2> QED BY <1>1, <2>1, Sizes, CountersOnly
<1>3. Queued(q) = Queued(worker_queue)
  BY <1>2 DEF Queued
<1>4. WorkersThere'
  BY <1>1, <1>2, <1>3 DEF Completion, ThereInv, WorkersThere
<1>5. MailInv'
  BY <1>1 DEF Completion, MailInv, Busy
<1>6. \A v \in Workers : \A i \in Jobs :
        /\ block'[v].pc = "arrive" /\ block'[v].got.job = i => block'[v].desc = descriptor[i]
        /\ block'[v].pc \in {"load", "exited"} => block'[v].got.job # i
  BY <1>1 DEF Completion, RaiseInv
<1> QED BY <1>1, <1>4, <1>5, <1>6, JobStays, AccountsStay

\* A worker is stopped only while it is in the queue, with an empty mailbox.
LEMMA CompletionDestroyStop ==
  ASSUME HandsInv, Completion, DestroyStop
  PROVE  Completion'
<1>1. /\ UNCHANGED <<job_queue, jobVars, launcher, block, num, out>>
      /\ Ready(worker_queue, runner.slot)
      /\ worker_queue' = Taken(worker_queue, runner.slot)
      /\ worker_handle' = [worker_handle EXCEPT ![Value(worker_queue, runner.slot)] = NoMore]
  BY DEF DestroyStop
<1>2. PICK k \in Nat : k = runner.slot
  BY Memory DEF Runner
<1>3. worker_queue \in Queue(WorkerSize, Workers) /\ Single(worker_queue)
  BY DEF HandsInv, TypeInv, QueuesOK, OwnersInv, WorkersInv
<1>4. PICK q : q = Taken(worker_queue, k)
  OBVIOUS
<1>5. PICK x : x = Value(worker_queue, k)
  OBVIOUS
<1>6. x \in Workers /\ x \in Queued(worker_queue) /\ Queued(q) = Queued(worker_queue) \ {x}
  BY <1>1, <1>2, <1>3, <1>4, <1>5, Sizes, TakenFromQueue
<1>7. /\ worker_queue' = q /\ worker_handle'[x] = NoMore
      /\ \A v \in Workers : v # x => worker_handle'[v] = worker_handle[v]
  BY <1>1, <1>2, <1>4, <1>5, <1>6, Memory
<1>8. worker_handle[x] \in {Wait, NoMore}
  BY <1>6, IdleWorkers DEF Completion, Busy
<1>9. ASSUME NEW i \in Jobs
      PROVE  Outstanding(i)' = Outstanding(i) /\ Raising(i)' = Raising(i)
  <2>1. worker_handle[x].job # i /\ worker_handle'[x].job # i
    BY <1>7, <1>8, MailType, IdsAreNumbers
  <2>2. InMail(i)' = InMail(i)
    BY <1>7, <2>1 DEF InMail
  <2>3. InBlock(i)' = InBlock(i) /\ Raising(i)' = Raising(i)
    BY <1>1 DEF InBlock, Raising
  <2> QED BY <2>2, <2>3 DEF Outstanding
<1>10. \A v \in Workers : \A i \in Jobs :
        /\ block'[v].pc = "arrive" /\ block'[v].got.job = i => block'[v].desc = descriptor[i]
        /\ block'[v].pc \in {"load", "exited"} => block'[v].got.job # i
  BY <1>1 DEF Completion, RaiseInv
<1>11. MailInv'
  <2>1. ASSUME NEW v \in Workers, Busy(v)' PROVE v # x /\ Busy(v)
    BY <1>7, <2>1 DEF Busy
  <2>2. ASSUME NEW v \in Workers, block[v].pc = "clear" PROVE v # x
    <3>1. worker_handle[v] = block[v].got
      BY <2>2 DEF Completion, MailInv
    <3>2. block[v].got.job \in Jobs
      BY <2>2, Memory DEF BatchInv, Described
    <3> QED BY <1>8, <3>1, <3>2, MailType, IdsAreNumbers
  <2>3. \A v \in Workers : block'[v].pc = "clear" => worker_handle'[v] = block'[v].got
    BY <1>1, <1>7, <2>2 DEF Completion, MailInv
  <2> QED BY <1>1, <1>7, <2>1, <2>3 DEF Completion, MailInv
<1>12. WorkersThere'
  <2>1. \A t \in Threads : x \notin Held(launcher[t])
    BY <1>6 DEF HandsInv, OwnersInv, WorkersInv
  <2>2. ASSUME NEW v \in Workers
        PROVE  worker_handle'[v] = NoMore <=>
                 v \notin Queued(q) /\ \A t \in Threads : v \notin Held(launcher[t])
    <3>1. CASE v = x
      BY <1>6, <1>7, <2>1, <3>1
    <3>2. CASE v # x
      BY <1>6, <1>7, <3>2 DEF Completion, ThereInv, WorkersThere
    <3> QED BY <3>1, <3>2
  <2> QED BY <1>1, <1>7, <2>2 DEF WorkersThere
<1> QED BY <1>1, <1>9, <1>10, <1>11, <1>12, AccountsStay

\* A query goes into the mailbox of a worker, which was empty: one more is submitted, and one
\* more is outstanding.
LEMMA CompletionSubmit ==
  ASSUME HandsInv, Completion, NEW t \in Threads, Submit(t)
  PROVE  Completion'
<1>1. PICK r \in Launcher : r = launcher[t]
  BY Hands
<1>2. LauncherInv(r) /\ Apart(r) /\ mode \in Modes /\ r.pc = "submit"
  BY <1>1, Hands DEF Submit
<1>3. PICK u : u = IF Len(r.pending) < Capacity(r) THEN Keep(r) ELSE PopOld(r, "evict")
  OBVIOUS
<1>4. u \in Launcher /\ LauncherInv(u) /\ u.pc \in {"soft", "stand", "drain", "evict"}
  BY <1>2, <1>3, SubmitStep
<1>5. u.n = r.n /\ u.job = r.job /\ u.all_done = r.all_done
  BY <1>2, <1>3, SubmitStep
<1>6. Held(u) = Held(r)
  BY <1>2, <1>3, SubmitStep
<1>7. Submitted(r) = r.i /\ Submitted(u) = r.i + 1
  BY <1>2, <1>3, SubmitStep
<1>8. Working(u) = Working(r) \union {r.worker}
  BY <1>2, <1>3, SubmitStep
<1>9. PICK w \in Workers : w = r.worker
  BY <1>2, <1>3, SubmitStep
<1>10. PICK j \in Jobs : j = r.job
  BY <1>2, <1>3, SubmitStep
<1>11. PICK m : m = [job |-> j, query |-> r.i]
  OBVIOUS
<1>12. /\ launcher' = [launcher EXCEPT ![t] = u]
       /\ worker_handle' = [worker_handle EXCEPT ![w] = m]
       /\ UNCHANGED <<job_queue, worker_queue, descriptor, counter, completion_flag, block, num>>
  BY <1>1, <1>3, <1>9, <1>10, <1>11 DEF Submit, Become, queues, jobVars
<1>13. launcher \in [Threads -> Launcher]
  BY DEF HandsInv, TypeInv, RecordsOK
<1>14. \A v \in Threads : launcher'[v] = IF v = t THEN u ELSE launcher[v]
  BY <1>12, <1>13
<1>15. /\ worker_handle'[w] = m /\ m.job = j
       /\ \A v \in Workers : v # w => worker_handle'[v] = worker_handle[v]
  BY <1>11, <1>12, Memory
<1>16. worker_handle[w] = Wait
  <2>1. worker_handle[w] \in {Wait, NoMore}
    BY <1>1, <1>2, <1>9, IdleWorkers DEF Completion, Busy
  <2>2. w \in Held(launcher[t])
    BY <1>1, <1>9, IdsAreNumbers DEF Held
  <2>3. worker_handle[w] # NoMore
    BY <2>2 DEF Completion, ThereInv, WorkersThere
  <2> QED BY <2>1, <2>3
<1>17. m # NoMore /\ \A i \in Jobs : Wait.job # i
  BY <1>15, MailType, IdsAreNumbers
<1>18. ASSUME NEW i \in Jobs
       PROVE  /\ Raising(i)' = Raising(i)
              /\ Outstanding(i)' = IF i = j THEN Outstanding(i) + 1 ELSE Outstanding(i)
  <2>1. Raising(i)' = Raising(i) /\ InBlock(i)' = InBlock(i)
    BY <1>12 DEF Raising, InBlock
  <2>2. CASE i = j
    <3>1. InMail(i)' = InMail(i) \union {w}
      BY <1>15, <2>2 DEF InMail
    <3>2. w \notin InMail(i)
      BY <1>16, <1>17 DEF InMail
    <3>3. Cardinality(InMail(i)') = Cardinality(InMail(i)) + 1
      BY <3>1, <3>2, WorkerSets, OneMore
    <3>4. Cardinality(InMail(i)) \in Nat /\ Cardinality(InBlock(i)) \in Nat
      BY WorkerSets
    <3> QED BY <2>1, <2>2, <3>3, <3>4 DEF Outstanding
  <2>3. CASE i # j
    <3>1. InMail(i)' = InMail(i)
      BY <1>15, <1>16, <1>17, <2>3 DEF InMail
    <3> QED BY <2>1, <2>3, <3>1 DEF Outstanding
  <2> QED BY <2>2, <2>3
<1>19. \A v \in Threads : launcher'[v].job = launcher[v].job
  BY <1>1, <1>5, <1>14
<1>20. InTimeInv'
  <2>1. u.then # "cleanup"
    BY <1>4 DEF LauncherInv
  <2> QED BY <1>4, <1>14, <2>1 DEF Completion, InTimeInv
<1>21. Counts(t, j)'
  <2>1. Counts(t, j)
    BY <1>1, <1>10 DEF Completion, CountInv
  <2>2. r.i < r.n /\ r.i \in Nat /\ r.n \in Nat /\ ~r.all_done
    <3>1. r.i < r.n /\ r.n \in ReqSizes /\ ~r.all_done
      BY <1>2 DEF LauncherInv, Where
    <3>2. r.i \in Nat
      BY IdsAreNumbers DEF Launcher
    <3> QED BY <3>1, <3>2, MaxSizeType
  <2>3. PICK c \in Nat : c = counter[j]
    BY Memory, MaxSizeType
  <2>4. PICK o \in Nat : o = Outstanding(j)
    BY WorkerSets
  <2>5. ~Finished(j) /\ c < r.n /\ c + o = r.i
    BY <1>1, <1>7, <2>1, <2>2, <2>3, <2>4 DEF Counts, Counted
  <2>6. ~Finished(j)'
    BY <1>12, <1>18, <2>5 DEF Finished
  <2>7. Counted(u, c, o + 1, FALSE)
    BY <1>5, <1>7, <2>2, <2>5 DEF Counted
  <2>8. launcher'[t] = u /\ Outstanding(j)' = o + 1 /\ counter'[j] = c
    BY <1>12, <1>14, <1>18, <2>3, <2>4
  <2>9. Counted(launcher[t], counter[j], Outstanding(j), Finished(j))'
    BY <2>6, <2>7, <2>8 DEF Counted
  <2>10. ~u.all_done /\ u.pc # "give"
    BY <1>4, <1>5, <2>2
  <2>11. (descriptor[j] = [thread |-> t, num |-> num[t], n |-> launcher[t].n])'
    BY <1>1, <1>5, <1>12, <2>1, <2>8 DEF Counts
  <2> QED BY <2>8, <2>9, <2>10, <2>11 DEF Counts
<1>22. CountInv'
  <2> SUFFICES ASSUME NEW v \in Threads, NEW i \in Jobs, launcher'[v].job = i
               PROVE  Counts(v, i)'
    BY DEF CountInv
  <2>1. launcher[v].job = i /\ Counts(v, i)
    BY <1>19 DEF Completion, CountInv
  <2>2. CASE v = t
    BY <1>1, <1>10, <1>21, <2>1, <2>2
  <2>3. CASE v # t
    <3>1. i # j
      <4>1. i # Empty
        BY IdsAreNumbers
      <4> QED BY <1>1, <1>10, <2>1, <2>3, <4>1 DEF HandsInv, OwnersInv, JobsInv
    <3>2. launcher'[v] = launcher[v]
      BY <1>14, <2>3
    <3>3. Outstanding(i)' = Outstanding(i) /\ Raising(i)' = Raising(i)
      BY <1>18, <3>1
    <3> QED BY <1>12, <2>1, <3>2, <3>3, AccountOfOther
  <2> QED BY <2>2, <2>3
<1>23. UnusedInv'
  <2> SUFFICES ASSUME NEW i \in Jobs, \A v \in Threads : launcher'[v].job # i
               PROVE  Traceless(i)'
    BY DEF UnusedInv
  <2>1. Traceless(i) /\ i # j
    BY <1>1, <1>10, <1>19 DEF Completion, UnusedInv
  <2>2. Outstanding(i)' = Outstanding(i) /\ Raising(i)' = Raising(i)
    BY <1>18, <2>1
  <2> QED BY <1>12, <2>1, <2>2 DEF Traceless
<1>24. RaiseInv'
  <2>1. ASSUME NEW v \in Workers, NEW i \in Jobs, (v \in Raising(i))'
        PROVE  (~completion_flag[i] /\ Raising(i) = {v})'
    BY <1>12, <1>18, <2>1 DEF Completion, RaiseInv
  <2> QED BY <1>12, <2>1 DEF Completion, RaiseInv
<1>25. MailInv'
  <2>1. ASSUME NEW v \in Workers, Busy(v)'
        PROVE  \E x \in Threads : v \in Working(launcher'[x])
                                  /\ worker_handle'[v].job = launcher'[x].job
    <3>1. CASE v = w
      <4>1. launcher'[t] = u /\ w \in Working(u)
        BY <1>8, <1>9, <1>14
      <4> QED BY <1>5, <1>10, <1>15, <3>1, <4>1
    <3>2. CASE v # w
      <4>1. worker_handle'[v] = worker_handle[v] /\ Busy(v)
        BY <1>15, <2>1, <3>2 DEF Busy
      <4>2. PICK x \in Threads : v \in Working(launcher[x]) /\ worker_handle[v].job = launcher[x].job
        BY <4>1 DEF Completion, MailInv
      <4>3. CASE x = t
        <5>1. launcher'[x] = u /\ v \in Working(u)
          BY <1>1, <1>8, <1>14, <4>2, <4>3
        <5> QED BY <1>1, <1>5, <4>1, <4>2, <4>3, <5>1
      <4>4. CASE x # t
        <5>1. launcher'[x] = launcher[x]
          BY <1>14, <4>4
        <5> QED BY <4>1, <4>2, <5>1
      <4> QED BY <4>3, <4>4
    <3> QED BY <3>1, <3>2
  <2>2. ASSUME NEW v \in Workers, block[v].pc = "clear" PROVE v # w
    <3>1. worker_handle[v] = block[v].got
      BY <2>2 DEF Completion, MailInv
    <3>2. block[v].got.job \in Jobs
      BY <2>2, Memory DEF BatchInv, Described
    <3> QED BY <1>16, <1>17, <3>1, <3>2
  <2>3. \A v \in Workers : block'[v].pc = "clear" => worker_handle'[v] = block'[v].got
    BY <1>12, <1>15, <2>2 DEF Completion, MailInv
  <2> QED BY <2>1, <2>3 DEF MailInv
<1>26. WorkersThere'
  <2>1. \A v \in Workers : worker_handle'[v] = NoMore <=> worker_handle[v] = NoMore
    BY <1>15, <1>16, <1>17, IdsAreNumbers
  <2>2. PICK q : q = worker_queue
    OBVIOUS
  <2>3. worker_queue' = q /\ Held(u) \union Queued(q) = Held(r) \union Queued(worker_queue)
    BY <1>6, <1>12, <2>2
  <2> QED BY <1>1, <1>4, <1>12, <2>1, <2>3, WorkersThereStay DEF Completion, ThereInv
<1>27. JobsThere'
  BY <1>12, <1>19 DEF Completion, ThereInv, JobsThere
<1> QED BY <1>20, <1>22, <1>23, <1>24, <1>25, <1>26, <1>27 DEF Completion, ThereInv

-----------------------------------------------------------------------------
(* Nothing is lost, and a free job has left no trace, as long as no thread is late. *)

\* At first all workers wait in the queue, and no job has a trace.
LEMMA CompletionInit ==
  ASSUME Init, Zeroed
  PROVE  Completion
<1>1. PICK r \in Launcher : /\ r = NoLauncher /\ Held(r) = {} /\ r.job = Empty /\ r.pc = "idle"
                            /\ r.then = "none"
  BY IdleLauncher DEF Init, NoLauncher
<1>2. \A t \in Threads : launcher[t] = r
  BY <1>1 DEF Init
<1>3. Queued(job_queue) = Jobs /\ Queued(worker_queue) = Workers
  BY Sizes, FilledType DEF Init, Jobs, Workers
<1>4. /\ \A w \in Workers : worker_handle[w] = Wait /\ block[w].pc = "load" /\ block[w].got = Wait
      /\ \A j \in Jobs : counter[j] = 0 /\ Wait.job # j
  BY LoopingType, MailType, IdsAreNumbers DEF Init, Zeroed
<1>5. InTimeInv
  BY <1>1, <1>2 DEF InTimeInv
<1>6. CountInv
  <2>1. Empty \notin Jobs
    BY IdsAreNumbers
  <2> QED BY <1>1, <1>2, <2>1 DEF CountInv
<1>7. UnusedInv
  <2> SUFFICES ASSUME NEW j \in Jobs PROVE Traceless(j)
    BY DEF UnusedInv
  <2>1. InMail(j) = {} /\ InBlock(j) = {} /\ Raising(j) = {}
    BY <1>4 DEF InMail, InBlock, Raising
  <2>2. Outstanding(j) = 0
    BY <2>1, FS_EmptySet DEF Outstanding
  <2> QED BY <1>4, <2>1, <2>2 DEF Traceless
<1>8. RaiseInv
  BY <1>4 DEF RaiseInv, Raising
<1>9. MailInv
  BY <1>4 DEF MailInv, Busy
<1>10. ThereInv
  <2>1. Wait # NoMore
    BY IdsAreNumbers
  <2>2. WorkersThere
    BY <1>1, <1>2, <1>3, <1>4, <2>1 DEF WorkersThere
  <2>3. JobsThere
    BY <1>3 DEF JobsThere
  <2> QED BY <2>2, <2>3 DEF ThereInv
<1> QED BY <1>5, <1>6, <1>7, <1>8, <1>9, <1>10 DEF Completion

LEMMA CompletionNext ==
  ASSUME HandsInv, CompletionInv, Next
  PROVE  CompletionInv'
<1>1. UNCHANGED mode
  BY DEF Next
<1> SUFFICES ASSUME ~mode.late PROVE Completion'
  BY <1>1 DEF CompletionInv
<1>2. Completion
  BY DEF CompletionInv
<1>3. ASSUME NEW t \in Threads, Launch(t) \/ ThreadStep(t) \/ Throw(t) PROVE Completion'
  <2>1. CASE Launch(t) \/ TakeJob(t) \/ Submit(t) \/ PushJob(t)
    BY <1>1, <1>2, <2>1, HandsLaunch, HandsTakeJob, CompletionSubmit, HandsPushJob
  <2>2. CASE StandInLine(t) \/ TakeWorker(t) \/ TestFails(t) \/ TryReturn(t) \/ PushWorker(t)
    BY <1>1, <1>2, <2>2, HandsStandInLine, HandsTakeWorker, HandsTestFails, HandsTryReturn,
       HandsPushWorker
  <2>3. CASE TryReturnFails(t) \/ AskAllDone(t) \/ IsAllDone(t)
    BY <1>1, <1>2, <2>3, HandsTryReturnFails, HandsAskAllDone, HandsIsAllDone
  <2>4. CASE Abandon(t) \/ PushBusy(t) \/ Throw(t)
    BY <1>2, <2>4 DEF Abandon, PushBusy, Throw, ThrowInConstructor, ThrowInWait,
                      Completion, InTimeInv
  <2> QED BY <1>3, <2>1, <2>2, <2>3, <2>4 DEF ThreadStep
<1>4. ASSUME NEW w \in Workers, BlockStep(w) PROVE Completion'
  BY <1>2, <1>4, CompletionLoad, CompletionClear, CompletionSearch, CompletionArrive,
     CompletionRaiseFlag DEF BlockStep
<1>5. CASE Destroy \/ DestructorStep
  BY <1>2, <1>5, CompletionDestroy, CompletionDestroyStop DEF DestructorStep
<1> QED BY <1>3, <1>4, <1>5 DEF Next, Step

LEMMA CompletionSame ==
  ASSUME HandsInv, CompletionInv, UNCHANGED vars
  PROVE  CompletionInv'
<1>1. UNCHANGED <<queues, worker_handle, jobVars, launcher, block, runner, num, out, mode>>
  BY DEF vars
<1> SUFFICES ASSUME ~mode.late PROVE Completion'
  BY <1>1 DEF CompletionInv
<1>2. Completion
  BY DEF CompletionInv
<1>3. \A v \in Workers : \A i \in Jobs :
        /\ block'[v].pc = "arrive" /\ block'[v].got.job = i => block'[v].desc = descriptor[i]
        /\ block'[v].pc \in {"load", "exited"} => block'[v].got.job # i
  BY <1>1, <1>2 DEF Completion, RaiseInv
<1>4. MailInv'
  BY <1>1, <1>2 DEF Completion, MailInv, Busy
<1>5. WorkersThere'
  BY <1>1, <1>2, NobodyStopped DEF Completion, ThereInv, queues
<1> QED BY <1>1, <1>2, <1>3, <1>4, <1>5, JobStays, AccountsStay DEF queues

\* As long as no thread misses its deadline, the counter of a job and the workers that have its
\* queries always add up to what has been submitted; the flag is raised once, when the last query
\* has been counted; and a free job has left no trace in any counter, mailbox or block.  That
\* is so if the counters are 0 in the first state, which the constructor of the runner does not
\* see to; a residue in a counter is never lost again.
THEOREM CompletionCorrect == Spec /\ Zeroed => [](HandsInv /\ CompletionInv)
<1> DEFINE I == HandsInv /\ CompletionInv
<1>1. Init /\ Zeroed => I
  BY HandsInit, CompletionInit DEF CompletionInv
<1>2. I /\ [Next]_vars => I'
  BY HandsNext, HandsSame, CompletionNext, CompletionSame
<1> HIDE DEF I
<1>3. Spec /\ Zeroed => []I
  BY <1>1, <1>2, PTL DEF Spec
<1> QED BY <1>3 DEF I

LEMMA ExactlyOne ==
  ASSUME NEW S, \A x, y \in S : x = y, S # {}
  PROVE  Cardinality(S) = 1
<1>1. PICK x : S = {x}
  OBVIOUS
<1> QED BY <1>1, FS_Singleton

\* A worker is in a place if and only if it is in the queue or with a thread.
LEMMA PlaceOfWorker ==
  ASSUME HandsInv, NEW w \in Workers
  PROVE  Cardinality(WorkerPlaces(w)) =
           IF w \in Queued(worker_queue) \/ \E t \in Threads : w \in Held(launcher[t]) THEN 1 ELSE 0
<1>1. w # Empty
  BY IdsAreNumbers
<1>2. (w \in Queued(worker_queue) \/ \E t \in Threads : w \in Held(launcher[t]))
        <=> WorkerPlaces(w) # {}
  <2>1. ASSUME w \in Queued(worker_queue) PROVE WorkerPlaces(w) # {}
    <3>1. PICK s \in DOMAIN worker_queue.buf : worker_queue.buf[s] = w
      BY <2>1 DEF Queued
    <3>2. <<"queue", s>> \in WorkerPlaces(w)
      BY <3>1 DEF WorkerPlaces
    <3> QED BY <3>2
  <2>2. ASSUME NEW t \in Threads, w \in Held(launcher[t]) PROVE WorkerPlaces(w) # {}
    <3>1. \/ launcher[t].worker = w
          \/ launcher[t].old = w
          \/ \E p \in DOMAIN launcher[t].pending : launcher[t].pending[p] = w
      BY <2>2 DEF Held, Entries
    <3>2. CASE launcher[t].worker = w
      <4>1. <<"submits", t>> \in WorkerPlaces(w)
        BY <3>2 DEF WorkerPlaces
      <4> QED BY <4>1
    <3>3. CASE launcher[t].old = w
      <4>1. <<"returns", t>> \in WorkerPlaces(w)
        BY <3>3 DEF WorkerPlaces
      <4> QED BY <4>1
    <3>4. CASE \E p \in DOMAIN launcher[t].pending : launcher[t].pending[p] = w
      <4>1. PICK p \in DOMAIN launcher[t].pending : launcher[t].pending[p] = w
        BY <3>4
      <4>2. <<"pending", t, p>> \in WorkerPlaces(w)
        BY <4>1 DEF WorkerPlaces
      <4> QED BY <4>2
    <3> QED BY <3>1, <3>2, <3>3, <3>4
  <2>3. ASSUME NEW x \in WorkerPlaces(w)
        PROVE  w \in Queued(worker_queue) \/ \E t \in Threads : w \in Held(launcher[t])
    <3>1. \/ \E s \in DOMAIN worker_queue.buf : worker_queue.buf[s] = w
          \/ \E t \in Threads :
               \/ launcher[t].worker = w
               \/ launcher[t].old = w
               \/ \E p \in DOMAIN launcher[t].pending : launcher[t].pending[p] = w
      BY <2>3 DEF WorkerPlaces
    <3> QED BY <1>1, <3>1 DEF Queued, Held, Entries
  <2> QED BY <2>1, <2>2, <2>3
<1>3. CASE WorkerPlaces(w) = {}
  BY <1>2, <1>3, FS_EmptySet
<1>4. CASE WorkerPlaces(w) # {}
  BY <1>2, <1>4, OnePlaceForWorkers, ExactlyOne
<1> QED BY <1>3, <1>4

LEMMA PlaceOfJob ==
  ASSUME HandsInv, NEW j \in Jobs, j \in Queued(job_queue) \/ \E t \in Threads : launcher[t].job = j
  PROVE  Cardinality(JobPlaces(j)) = 1
<1>1. JobPlaces(j) # {}
  <2>1. CASE j \in Queued(job_queue)
    <3>1. PICK s \in DOMAIN job_queue.buf : job_queue.buf[s] = j
      BY <2>1 DEF Queued
    <3>2. <<"queue", s>> \in JobPlaces(j)
      BY <3>1 DEF JobPlaces
    <3> QED BY <3>2
  <2>2. CASE j \notin Queued(job_queue)
    <3>1. PICK t \in Threads : launcher[t].job = j
      BY <2>2
    <3>2. <<"launch", t>> \in JobPlaces(j)
      BY <3>1 DEF JobPlaces
    <3> QED BY <3>2
  <2> QED BY <2>1, <2>2
<1> QED BY <1>1, OnePlaceForJobs, ExactlyOne

LEMMA KeptInit ==
  ASSUME Init
  PROVE  Kept
<1>1. PICK r \in Launcher : r = NoLauncher /\ r.job = Empty /\ r.pc = "idle" /\ r.then = "none"
  BY IdleLauncher DEF Init, NoLauncher
<1>2. \A t \in Threads : launcher[t] = r
  BY <1>1 DEF Init
<1>3. Queued(job_queue) = Jobs /\ Queued(worker_queue) = Workers
  BY Sizes, FilledType DEF Init, Jobs, Workers
<1> QED BY <1>1, <1>2, <1>3 DEF Kept, InTimeInv, JobsThere, WorkersKept

LEMMA KeptNext ==
  ASSUME HandsInv, KeptInv, [Next]_vars
  PROVE  KeptInv'
<1>1. UNCHANGED mode
  BY DEF Next, vars
<1> SUFFICES ASSUME ~mode.late PROVE Kept'
  BY <1>1 DEF KeptInv
<1>2. Kept
  BY DEF KeptInv
<1>3. ASSUME NEW t \in Threads, Launch(t) \/ ThreadStep(t) \/ Throw(t) PROVE Kept'
  <2>1. CASE Launch(t) \/ TakeJob(t) \/ Submit(t) \/ PushJob(t)
    BY <1>1, <1>2, <2>1, HandsLaunch, HandsTakeJob, HandsSubmit, HandsPushJob
  <2>2. CASE StandInLine(t) \/ TakeWorker(t) \/ TestFails(t) \/ TryReturn(t) \/ PushWorker(t)
    BY <1>1, <1>2, <2>2, HandsStandInLine, HandsTakeWorker, HandsTestFails, HandsTryReturn,
       HandsPushWorker
  <2>3. CASE TryReturnFails(t) \/ AskAllDone(t) \/ IsAllDone(t)
    BY <1>1, <1>2, <2>3, HandsTryReturnFails, HandsAskAllDone, HandsIsAllDone
  <2>4. CASE Abandon(t) \/ PushBusy(t) \/ Throw(t)
    BY <1>2, <2>4 DEF Abandon, PushBusy, Throw, ThrowInConstructor, ThrowInWait, Kept, InTimeInv
  <2> QED BY <1>3, <2>1, <2>2, <2>3, <2>4 DEF ThreadStep
<1>4. ASSUME NEW w \in Workers, BlockStep(w) PROVE Kept'
  <2>1. UNCHANGED <<launcher, job_queue, worker_queue, runner>>
    BY <1>4 DEF BlockStep, Load, Clear, Search, Arrive, RaiseFlag, queues
  <2> QED BY <1>2, <2>1, KeptStays
<1>5. CASE Destroy \/ DestructorStep
  <2>1. UNCHANGED <<launcher, job_queue>>
    BY <1>5 DEF Destroy, DestructorStep, DestroyPop, DestroyStop, DestroySync, queues
  <2>2. runner'.pc # "up"
    BY <1>5, Memory DEF Destroy, DestructorStep, DestroyPop, DestroyStop, DestroySync, Runner
  <2> QED BY <1>2, <2>1, <2>2, KeptStays
<1>6. CASE UNCHANGED vars
  BY <1>2, <1>6, KeptStays DEF vars, queues
<1> QED BY <1>3, <1>4, <1>5, <1>6 DEF Next, Step

\* As long as no thread misses its deadline, every job is in one place, the queue or a thread, and
\* so is every worker until the destructor runs, whatever the memory of the counters holds at
\* first: also when a launch takes a residue for the end of its batch and gives its workers back
\* with their mailboxes full (launcher_t, resource_queue_t).
THEOREM NothingLeaks == Spec => []NoneLeaks
<1>1. HandsInv /\ KeptInv => NoneLeaks
  BY PlaceOfWorker, PlaceOfJob DEF KeptInv, Kept, NoneLeaks, JobsThere, WorkersKept
<1>2. Init => KeptInv
  BY KeptInit DEF KeptInv
<1>3. HandsInv /\ KeptInv /\ [Next]_vars => KeptInv'
  BY KeptNext
<1> QED BY <1>1, <1>2, <1>3, HandsCorrect, PTL DEF Spec

\* As long as no thread misses its deadline, every worker that the destructor has not stopped is
\* in one place, and so is every job (launcher_t, ~persistent_runner_t).  Counters that start
\* at 0 are needed for what the destructor stops: a worker that came back with its mailbox full
\* empties it of the order to stop.
THEOREM NothingLost == Spec /\ Zeroed => []NoneLost
<1>1. HandsInv /\ CompletionInv => NoneLost
  <2> SUFFICES ASSUME HandsInv, CompletionInv, ~mode.late PROVE AllThere
    BY DEF NoneLost
  <2>1. WorkersThere /\ JobsThere
    BY DEF CompletionInv, Completion, ThereInv
  <2>2. ASSUME NEW w \in Workers
        PROVE  Cardinality(WorkerPlaces(w)) = IF worker_handle[w] = NoMore THEN 0 ELSE 1
    BY <2>1, PlaceOfWorker DEF WorkersThere
  <2>3. ASSUME NEW j \in Jobs PROVE Cardinality(JobPlaces(j)) = 1
    BY <2>1, PlaceOfJob DEF JobsThere
  <2> QED BY <2>2, <2>3 DEF AllThere
<1> QED BY <1>1, CompletionCorrect, PTL

\* As long as no thread misses its deadline, nothing refers to a job that is free: its counter
\* is at 0 for the next batch, and no mailbox and no block holds a query of it (wait(),
\* search_kernel_p).
THEOREM FreeJobsAreFree == Spec /\ Zeroed => []NoStragglers
<1>1. HandsInv /\ CompletionInv => NoStragglers
  <2> SUFFICES ASSUME HandsInv, CompletionInv, ~mode.late,
                      NEW s \in DOMAIN job_queue.buf, job_queue.buf[s] # Empty
               PROVE  /\ counter[job_queue.buf[s]] = 0
                      /\ \A w \in Workers : /\ worker_handle[w].job # job_queue.buf[s]
                                            /\ block[w].got.job # job_queue.buf[s]
    BY DEF NoStragglers
  <2>1. Completion
    BY DEF CompletionInv
  <2>2. PICK j \in Jobs : j = job_queue.buf[s]
    BY DEF HandsInv, TypeInv, QueuesOK, Queue
  <2>3. \A t \in Threads : launcher[t].job # j
    BY <2>2 DEF HandsInv, OwnersInv, JobsInv, Queued
  <2>4. Traceless(j)
    BY <2>1, <2>3 DEF Completion, UnusedInv
  <2>5. counter[j] = 0 /\ InMail(j) = {} /\ InBlock(j) = {} /\ Raising(j) = {}
    BY <2>4, WorkerSets DEF Traceless
  <2>6. ASSUME NEW w \in Workers PROVE worker_handle[w].job # j /\ block[w].got.job # j
    <3>1. worker_handle[w].job # j
      BY <2>5 DEF InMail
    <3>2. block[w].pc \in {"load", "clear", "search", "arrive", "raise", "exited"}
      BY Memory DEF Block
    <3>3. CASE block[w].pc \in {"search", "arrive"}
      BY <2>5, <3>1, <3>3 DEF InBlock
    <3>4. CASE block[w].pc = "raise"
      BY <2>5, <3>1, <3>4 DEF Raising
    <3>5. CASE block[w].pc = "clear"
      BY <2>1, <3>1, <3>5 DEF Completion, MailInv
    <3>6. CASE block[w].pc \in {"load", "exited"}
      BY <2>1, <3>1, <3>6 DEF Completion, RaiseInv
    <3> QED BY <3>1, <3>2, <3>3, <3>4, <3>5, <3>6
  <2> QED BY <2>2, <2>5, <2>6
<1> QED BY <1>1, CompletionCorrect, PTL

-----------------------------------------------------------------------------
(* The answers.                                                            *)

\* The steps of a thread inside a launch, between the choice of its job and its return, that
\* do not submit a query.
Inner(t) ==
  \/ StandInLine(t) \/ TakeWorker(t) \/ TestFails(t) \/ TryReturn(t) \/ PushWorker(t)
  \/ TryReturnFails(t) \/ AskAllDone(t) \/ IsAllDone(t)

LEMMA InnerShape ==
  ASSUME HandsInv, Completion, NEW t \in Threads, Inner(t)
  PROVE  /\ launcher[t].pc \notin {"idle", "job"} /\ launcher[t].job \in Jobs
         /\ \A v \in Threads : v # t => launcher'[v] = launcher[v]
         /\ UNCHANGED <<worker_handle, jobVars, block, runner, num, out>>
         /\ Queued(job_queue)' = Queued(job_queue)
<1>1. launcher \in [Threads -> Launcher]
  BY Memory
<1>2. PICK r \in Launcher : r = launcher[t] /\ LauncherInv(r)
  BY Hands
<1>3. r.pc \notin {"idle", "job", "cleanup", "abandon"} /\ r.then # "cleanup"
  <2>1. r.pc \in {"stand", "await", "test", "poll", "evict", "soft", "drain", "push", "ask", "flag"}
    BY <1>2 DEF Inner, StandInLine, TakeWorker, TestFails, TryReturn, PushWorker,
                TryReturnFails, AskAllDone, IsAllDone
  <2> QED BY <1>2, <2>1 DEF Completion, InTimeInv
<1>4. r.job \in Jobs
  <2>1. Where(r) \notin {"idle", "job", "cleanup"}
    BY <1>2, <1>3 DEF Where, LauncherInv, Launcher
  <2> QED BY <1>2, <2>1 DEF LauncherInv, Launcher
<1>5. /\ \E u : launcher' = [launcher EXCEPT ![t] = u]
      /\ UNCHANGED <<worker_handle, jobVars, block, runner, num, out>>
      /\ job_queue' = job_queue \/ job_queue' = Reserved(job_queue)
  <2>1. CASE StandInLine(t) \/ TakeWorker(t) \/ TestFails(t)
    BY <2>1 DEF StandInLine, TakeWorker, TestFails, Become, queues
  <2>2. CASE TryReturn(t) \/ PushWorker(t) \/ TryReturnFails(t)
    BY <2>2 DEF TryReturn, PushWorker, TryReturnFails, Become, queues
  <2>3. CASE AskAllDone(t) \/ IsAllDone(t)
    BY <2>3 DEF AskAllDone, IsAllDone, Become, queues
  <2> QED BY <2>1, <2>2, <2>3 DEF Inner
<1>6. \A v \in Threads : v # t => launcher'[v] = launcher[v]
  BY <1>1, <1>5
<1>7. Queued(job_queue)' = Queued(job_queue)
  <2>1. PICK q : q = job_queue' /\ q.buf = job_queue.buf
    <3>1. job_queue \in Queue(NumJobs, Jobs)
      BY DEF HandsInv, TypeInv, QueuesOK
    <3> QED BY <1>5, <3>1, Sizes, CountersOnly
  <2> QED BY <2>1 DEF Queued
<1> QED BY <1>2, <1>3, <1>4, <1>5, <1>6, <1>7

\* Such a step keeps the job, the number of queries and the number of those submitted.
LEMMA InnerKeeps ==
  ASSUME HandsInv, Completion, HandsInv', Completion', NEW t \in Threads, Inner(t)
  PROVE  \E r \in Launcher, u \in Launcher :
           /\ r = launcher[t] /\ u = launcher'[t] /\ u.job = r.job /\ u.n = r.n
           /\ Submitted(u) = Submitted(r) /\ u.pc \notin {"idle", "job"}
<1>1. /\ launcher[t].pc \notin {"idle", "job"} /\ launcher[t].job \in Jobs
      /\ \A v \in Threads : v # t => launcher'[v] = launcher[v]
      /\ UNCHANGED <<worker_handle, jobVars, block, runner, num, out>>
      /\ Queued(job_queue)' = Queued(job_queue)
  BY InnerShape
<1>2. PICK r \in Launcher : r = launcher[t]
  BY Memory
<1>3. PICK u \in Launcher : u = launcher'[t]
  BY DEF HandsInv, TypeInv, RecordsOK
<1>4. PICK j \in Jobs : j = r.job
  BY <1>1, <1>2
<1>5. u.job = j
  <2>1. j \notin Queued(job_queue)'
    BY <1>1, <1>2, <1>4 DEF HandsInv, OwnersInv, JobsInv
  <2>2. PICK v \in Threads : launcher'[v].job = j
    BY <2>1 DEF Completion, ThereInv, JobsThere
  <2>3. v = t
    <3>1. ASSUME v # t PROVE FALSE
      <4>1. launcher[v].job = j /\ launcher[t].job = j /\ j # Empty
        BY <1>1, <1>2, <1>4, <2>2, <3>1, IdsAreNumbers
      <4> QED BY <3>1, <4>1 DEF HandsInv, OwnersInv, JobsInv
    <3> QED BY <3>1
  <2> QED BY <1>3, <2>2, <2>3
<1>6. Counts(t, j) /\ Counts(t, j)'
  BY <1>2, <1>3, <1>4, <1>5 DEF Completion, CountInv
<1>7. /\ descriptor'[j] = descriptor[j] /\ counter'[j] = counter[j] /\ num'[t] = num[t]
      /\ Outstanding(j)' = Outstanding(j) /\ Finished(j)' = Finished(j)
  <2>1. Outstanding(j)' = Outstanding(j) /\ Raising(j)' = Raising(j)
    BY <1>1, JobStays
  <2> QED BY <1>1, <2>1 DEF jobVars, Finished
<1>8. u.n = r.n
  BY <1>2, <1>3, <1>6, <1>7 DEF Counts
<1>9. PICK c : c = counter[j]
  OBVIOUS
<1>10. PICK o : o = Outstanding(j)
  OBVIOUS
<1>11. PICK f : f = Finished(j)
  OBVIOUS
<1>12. Counted(r, c, o, f)
  BY <1>2, <1>6, <1>9, <1>10, <1>11 DEF Counts
<1>13. Counted(u, c, o, f)
  BY <1>3, <1>6, <1>7, <1>9, <1>10, <1>11 DEF Counts
<1>14. Submitted(u) = Submitted(r)
  BY <1>8, <1>12, <1>13 DEF Counted
<1>15. u.pc \notin {"idle", "job"}
  <2>1. (launcher[t].job = Empty <=> Where(launcher[t]) \in {"idle", "job", "cleanup"})'
    BY DEF HandsInv, TypeInv, LauncherInv
  <2>2. u.job = Empty <=> Where(u) \in {"idle", "job", "cleanup"}
    BY <1>3, <2>1
  <2>3. u.job # Empty
    BY <1>5, IdsAreNumbers
  <2> QED BY <2>2, <2>3 DEF Where
<1> QED BY <1>2, <1>3, <1>4, <1>5, <1>8, <1>14, <1>15

\* The workers with a query, if neither mailboxes nor blocks change.
LEMMA QueriesStay ==
  ASSUME UNCHANGED <<worker_handle, block>>, NEW j, NEW i
  PROVE  (Gone(j, i)' <=> Gone(j, i)) /\ (OnTheWay(j, i)' <=> OnTheWay(j, i))
<1>1. Unread(j, i)' = Unread(j, i) /\ Searching(j, i)' = Searching(j, i)
  BY DEF Unread, Searching
<1> QED BY <1>1 DEF Gone, OnTheWay

\* A query that keeps its answer and its workers.
LEMMA QueryStays ==
  ASSUME NEW t \in Threads, NEW j \in Jobs, NEW i \in Rows, QueryInv(t, j, i),
         NEW r \in Launcher, r = launcher[t], NEW u \in Launcher, u = launcher'[t],
         i < Submitted(u) <=> i < Submitted(r), num'[t] = num[t], out'[t][i] = out[t][i],
         (Gone(j, i)' <=> Gone(j, i)), (OnTheWay(j, i)' <=> OnTheWay(j, i))
  PROVE  QueryInv(t, j, i)'
<1>1. i < Submitted(launcher'[t]) <=> i < Submitted(launcher[t])
  OBVIOUS
<1> QED BY <1>1 DEF QueryInv

LEMMA AnswersInner ==
  ASSUME HandsInv, Completion, HandsInv', Completion', Answers, NEW t \in Threads, Inner(t)
  PROVE  Answers'
<1>1. /\ \A v \in Threads : v # t => launcher'[v] = launcher[v]
      /\ UNCHANGED <<worker_handle, block, num, out>>
  BY InnerShape
<1>2. PICK r \in Launcher, u \in Launcher :
           /\ r = launcher[t] /\ u = launcher'[t] /\ u.job = r.job /\ u.n = r.n
           /\ Submitted(u) = Submitted(r) /\ u.pc \notin {"idle", "job"}
  BY InnerKeeps
<1>3. ASSUME NEW v \in Threads, NEW i \in Rows, launcher'[v].pc = "job" PROVE out'[v][i] = NoQuery
  BY <1>1, <1>2, <1>3 DEF Answers
<1>4. ASSUME NEW v \in Threads, NEW i \in Rows, NEW j \in Jobs, launcher'[v].job = j
      PROVE  QueryInv(v, j, i)'
  <2>1. QueryInv(v, j, i)
    BY <1>1, <1>2, <1>4 DEF Answers
  <2>2. PICK h \in Launcher : h = launcher[v]
    BY Memory
  <2>3. PICK g \in Launcher : g = launcher'[v]
    BY DEF HandsInv, TypeInv, RecordsOK
  <2>4. i < Submitted(g) <=> i < Submitted(h)
    BY <1>1, <1>2, <2>2, <2>3
  <2> QED BY <1>1, <2>1, <2>2, <2>3, <2>4, QueriesStay, QueryStays
<1> QED BY <1>3, <1>4 DEF Answers

LEMMA AnswersLaunch ==
  ASSUME HandsInv, Answers, NEW t \in Threads, Launch(t)
  PROVE  Answers'
<1>1. /\ out' = [out EXCEPT ![t] = [i \in Rows |-> NoQuery]]
      /\ UNCHANGED <<worker_handle, block>>
      /\ \A v \in Threads : v # t => num'[v] = num[v]
  BY Memory DEF Launch
<1>2. /\ launcher'[t].job = Empty
      /\ \A v \in Threads : v # t => launcher'[v] = launcher[v]
  BY Memory DEF Launch, Become, NoLauncher
<1>3. /\ \A i \in Rows : out'[t][i] = NoQuery
      /\ \A v \in Threads : v # t => out'[v] = out[v]
  BY <1>1, Memory
<1>4. ASSUME NEW v \in Threads, NEW i \in Rows, launcher'[v].pc = "job" PROVE out'[v][i] = NoQuery
  BY <1>2, <1>3, <1>4 DEF Answers
<1>5. ASSUME NEW v \in Threads, NEW i \in Rows, NEW j \in Jobs, launcher'[v].job = j
      PROVE  QueryInv(v, j, i)'
  <2>1. v # t
    BY <1>2, <1>5, IdsAreNumbers
  <2>2. PICK h \in Launcher : h = launcher[v] /\ h = launcher'[v]
    BY <1>2, <2>1, Memory
  <2>3. QueryInv(v, j, i)
    BY <1>5, <2>2 DEF Answers
  <2> QED BY <1>1, <1>3, <2>1, <2>2, <2>3, QueriesStay, QueryStays
<1> QED BY <1>4, <1>5 DEF Answers

\* A free job has no query with any worker.
LEMMA AnswersTakeJob ==
  ASSUME HandsInv, Completion, Answers, NEW t \in Threads, TakeJob(t)
  PROVE  Answers'
<1>1. UNCHANGED <<worker_handle, block, num, out>>
  BY DEF TakeJob
<1>2. PICK r \in Launcher : r = launcher[t] /\ r.pc = "job" /\ r.i = 0
  BY Memory DEF TakeJob, Completion, InTimeInv
<1>3. PICK k \in Nat : k = r.slot
  BY DEF Launcher
<1>4. PICK j : j = Value(job_queue, k)
  OBVIOUS
<1>5. j \in Jobs /\ j \in Queued(job_queue)
  <2>1. Ready(job_queue, k) /\ job_queue \in Queue(NumJobs, Jobs)
    BY <1>2, <1>3 DEF TakeJob, HandsInv, TypeInv, QueuesOK
  <2> QED BY <1>4, <2>1, Sizes, TakenFromQueue
<1>6. PICK u : u = [r EXCEPT !.pc = "stand", !.slot = 0, !.job = j]
  OBVIOUS
<1>7. /\ launcher'[t] = u /\ u.job = j /\ u.pc = "stand" /\ u.i = 0
      /\ \A v \in Threads : v # t => launcher'[v] = launcher[v]
  <2>1. launcher' = [launcher EXCEPT ![t] = u]
    BY <1>2, <1>3, <1>4, <1>6 DEF TakeJob, Become
  <2>2. u.job = j /\ u.pc = "stand" /\ u.i = 0
    BY <1>2, <1>6 DEF Launcher
  <2> QED BY <2>1, <2>2, Memory
<1>8. ASSUME NEW i \in Rows PROVE Gone(j, i)
  <2>1. \A v \in Threads : launcher[v].job # j
    BY <1>5 DEF HandsInv, OwnersInv, JobsInv
  <2>2. Traceless(j)
    BY <1>5, <2>1 DEF Completion, UnusedInv
  <2>3. InMail(j) = {} /\ InBlock(j) = {}
    BY <1>5, <2>2, WorkerSets DEF Traceless
  <2> QED BY <2>3 DEF Gone, Unread, Searching, InMail, InBlock
<1>9. ASSUME NEW v \in Threads, NEW i \in Rows, launcher'[v].pc = "job" PROVE out'[v][i] = NoQuery
  BY <1>1, <1>7, <1>9 DEF Answers
<1>10. ASSUME NEW v \in Threads, NEW i \in Rows, NEW l \in Jobs, launcher'[v].job = l
       PROVE  QueryInv(v, l, i)'
  <2>1. CASE v = t
    <3>1. l = j
      BY <1>7, <1>10, <2>1
    <3>2. Submitted(u) = 0
      BY <1>7 DEF Submitted, Where
    <3>3. ~(i < Submitted(launcher'[t]))
      BY <1>7, <3>2, IdsAreNumbers
    <3>4. out'[t][i] = NoQuery
      BY <1>1, <1>2 DEF Answers
    <3>5. Gone(j, i)'
      BY <1>1, <1>8, QueriesStay
    <3> QED BY <2>1, <3>1, <3>3, <3>4, <3>5 DEF QueryInv
  <2>2. CASE v # t
    <3>1. PICK h \in Launcher : h = launcher[v] /\ h = launcher'[v]
      BY <1>7, <2>2, Memory
    <3>2. QueryInv(v, l, i)
      BY <1>10, <3>1 DEF Answers
    <3> QED BY <1>1, <3>1, <3>2, QueriesStay, QueryStays
  <2> QED BY <2>1, <2>2
<1> QED BY <1>9, <1>10 DEF Answers

LEMMA AnswersPushJob ==
  ASSUME HandsInv, Completion, Answers, NEW t \in Threads, PushJob(t)
  PROVE  Answers' /\ launcher'[t].pc = "idle" /\ launcher'[t].n = launcher[t].n
<1>1. UNCHANGED <<worker_handle, block, num, out>>
  BY DEF PushJob
<1>2. PICK r \in Launcher : r = launcher[t] /\ r.then # "cleanup"
  BY Memory DEF Completion, InTimeInv
<1>3. PICK u : u = Left(r)
  OBVIOUS
<1>4. /\ launcher'[t] = u /\ u.job = Empty /\ u.pc = "idle" /\ u.n = r.n
      /\ \A v \in Threads : v # t => launcher'[v] = launcher[v]
  <2>1. launcher' = [launcher EXCEPT ![t] = u]
    BY <1>2, <1>3 DEF PushJob, Become
  <2> QED BY <1>3, <2>1, AfterLeft, Memory
<1>5. ASSUME NEW v \in Threads, NEW i \in Rows, launcher'[v].pc = "job" PROVE out'[v][i] = NoQuery
  BY <1>1, <1>4, <1>5 DEF Answers
<1>6. ASSUME NEW v \in Threads, NEW i \in Rows, NEW j \in Jobs, launcher'[v].job = j
      PROVE  QueryInv(v, j, i)'
  <2>1. v # t
    BY <1>4, <1>6, IdsAreNumbers
  <2>2. PICK h \in Launcher : h = launcher[v] /\ h = launcher'[v]
    BY <1>4, <2>1, Memory
  <2>3. QueryInv(v, j, i)
    BY <1>6, <2>2 DEF Answers
  <2> QED BY <1>1, <2>2, <2>3, QueriesStay, QueryStays
<1>7. Answers'
  BY <1>5, <1>6 DEF Answers
<1> QED BY <1>2, <1>4, <1>7

\* The query that is submitted was with no worker, and now is with one.
LEMMA AnswersSubmit ==
  ASSUME HandsInv, Completion, Answers, NEW t \in Threads, Submit(t)
  PROVE  /\ Answers' /\ launcher[t].pc # "idle" /\ launcher'[t].pc # "idle"
         /\ launcher'[t].n = launcher[t].n
<1>1. PICK r \in Launcher : r = launcher[t]
  BY Hands
<1>2. LauncherInv(r) /\ Apart(r) /\ mode \in Modes /\ r.pc = "submit"
  BY <1>1, Hands DEF Submit
<1>3. PICK u : u = IF Len(r.pending) < Capacity(r) THEN Keep(r) ELSE PopOld(r, "evict")
  OBVIOUS
<1>4. u \in Launcher /\ u.pc \in {"soft", "stand", "drain", "evict"} /\ u.n = r.n /\ u.job = r.job
  BY <1>2, <1>3, SubmitStep
<1>5. Submitted(r) = r.i /\ Submitted(u) = r.i + 1
  BY <1>2, <1>3, SubmitStep
<1>6. PICK w \in Workers : w = r.worker
  BY <1>2, <1>3, SubmitStep
<1>7. PICK j \in Jobs : j = r.job
  BY <1>2, <1>3, SubmitStep
<1>8. PICK k \in Rows : k = r.i
  BY DEF Launcher
<1>9. PICK m : m = [job |-> j, query |-> k]
  OBVIOUS
<1>10. /\ launcher' = [launcher EXCEPT ![t] = u]
       /\ worker_handle' = [worker_handle EXCEPT ![w] = m]
       /\ UNCHANGED <<block, num, out>>
  BY <1>1, <1>3, <1>6, <1>7, <1>8, <1>9 DEF Submit, Become
<1>11. launcher'[t] = u /\ \A v \in Threads : v # t => launcher'[v] = launcher[v]
  BY <1>10, Memory
<1>12. worker_handle'[w] = m /\ \A v \in Workers : v # w => worker_handle'[v] = worker_handle[v]
  BY <1>10, Memory
<1>13. worker_handle[w].job \notin Jobs
  <2>1. worker_handle[w] \in {Wait, NoMore}
    BY <1>1, <1>2, <1>6, IdleWorkers DEF Completion, Busy
  <2> QED BY <2>1, MailType, IdsAreNumbers
<1>14. ASSUME NEW l \in Jobs, NEW i \in Rows
       PROVE  /\ Searching(l, i)' = Searching(l, i)
              /\ Unread(l, i)' = IF l = j /\ i = k THEN Unread(l, i) \union {w} ELSE Unread(l, i)
  <2>1. Searching(l, i)' = Searching(l, i)
    BY <1>10 DEF Searching
  <2>2. PICK x : x = [job |-> l, query |-> i]
    OBVIOUS
  <2>3. m = x <=> l = j /\ i = k
    <3>1. x.job = l /\ x.query = i /\ m.job = j /\ m.query = k
      BY <1>9, <2>2
    <3> QED BY <1>9, <2>2, <3>1
  <2>4. worker_handle[w] # x
    <3>1. x.job = l
      BY <2>2
    <3> QED BY <1>13, <3>1
  <2>5. Unread(l, i) = {v \in Workers : worker_handle[v] = x}
        /\ Unread(l, i)' = {v \in Workers : worker_handle'[v] = x}
    BY <2>2 DEF Unread
  <2> QED BY <1>12, <2>1, <2>3, <2>4, <2>5
<1>15. QueryInv(t, j, k)'
  <2>1. QueryInv(t, j, k)
    BY <1>1, <1>7 DEF Answers
  <2>2. ~(k < Submitted(launcher[t]))
    BY <1>1, <1>5, <1>8, IdsAreNumbers
  <2>3. out[t][k] = NoQuery /\ Unread(j, k) = {} /\ Searching(j, k) = {}
    BY <2>1, <2>2 DEF QueryInv, Gone
  <2>4. Unread(j, k)' = {w} /\ Searching(j, k)' = {}
    BY <1>14, <2>3
  <2>5. OnTheWay(j, k)'
    BY <2>4 DEF OnTheWay
  <2>6. k < Submitted(launcher'[t])
    BY <1>5, <1>8, <1>11, IdsAreNumbers
  <2> QED BY <1>10, <2>3, <2>5, <2>6 DEF QueryInv
<1>16. ASSUME NEW v \in Threads, NEW i \in Rows, NEW l \in Jobs, launcher'[v].job = l
       PROVE  QueryInv(v, l, i)'
  <2>1. launcher[v].job = l /\ QueryInv(v, l, i)
    BY <1>1, <1>4, <1>11, <1>16 DEF Answers
  <2>2. CASE v = t /\ i = k
    <3>1. l = j
      BY <1>1, <1>7, <2>1, <2>2
    <3> QED BY <1>15, <2>2, <3>1
  <2>3. CASE ~(v = t /\ i = k)
    <3>1. ~(l = j /\ i = k)
      <4>1. l # Empty
        BY IdsAreNumbers
      <4>2. l = j => v = t
        BY <1>1, <1>7, <2>1, <4>1 DEF HandsInv, OwnersInv, JobsInv
      <4> QED BY <2>3, <4>2
    <3>2. Unread(l, i)' = Unread(l, i) /\ Searching(l, i)' = Searching(l, i)
      BY <1>14, <3>1
    <3>3. (Gone(l, i)' <=> Gone(l, i)) /\ (OnTheWay(l, i)' <=> OnTheWay(l, i))
      BY <3>2 DEF Gone, OnTheWay
    <3>4. PICK h \in Launcher : h = launcher[v]
      BY Memory
    <3>5. PICK g \in Launcher : g = launcher'[v] /\ (i < Submitted(g) <=> i < Submitted(h))
      <4>1. CASE v = t
        <5>1. i # k
          BY <2>3, <4>1
        <5>2. i < k + 1 <=> i < k
          BY <5>1, IdsAreNumbers
        <5> QED BY <1>1, <1>4, <1>5, <1>8, <1>11, <3>4, <4>1, <5>2
      <4>2. CASE v # t
        BY <1>11, <3>4, <4>2
      <4> QED BY <4>1, <4>2
    <3> QED BY <1>10, <2>1, <3>3, <3>4, <3>5, QueryStays
  <2> QED BY <2>2, <2>3
<1>17. ASSUME NEW v \in Threads, NEW i \in Rows, launcher'[v].pc = "job" PROVE out'[v][i] = NoQuery
  BY <1>4, <1>10, <1>11, <1>17 DEF Answers
<1>18. Answers'
  BY <1>16, <1>17 DEF Answers
<1> QED BY <1>1, <1>2, <1>4, <1>11, <1>18

\* A step of a block or of the destructor that answers nothing.
LEMMA AnswersStay ==
  ASSUME HandsInv, Answers, UNCHANGED <<launcher, num, out>>,
         \A j \in Jobs : \A i \in Rows : /\ Gone(j, i)' <=> Gone(j, i)
                                         /\ OnTheWay(j, i)' <=> OnTheWay(j, i)
  PROVE  Answers'
<1>1. ASSUME NEW v \in Threads, NEW i \in Rows, NEW j \in Jobs, launcher'[v].job = j
      PROVE  QueryInv(v, j, i)'
  <2>1. PICK h \in Launcher : h = launcher[v] /\ h = launcher'[v]
    BY Memory
  <2>2. QueryInv(v, j, i)
    BY <1>1, <2>1 DEF Answers
  <2> QED BY <2>1, <2>2, QueryStays
<1> QED BY <1>1 DEF Answers

LEMMA AnswersQuiet ==
  ASSUME HandsInv, Answers, UNCHANGED <<launcher, num, out>>,
         \A j \in Jobs : \A i \in Rows : /\ Unread(j, i)' = Unread(j, i)
                                         /\ Searching(j, i)' = Searching(j, i)
  PROVE  Answers'
<1>1. \A j \in Jobs : \A i \in Rows : /\ Gone(j, i)' <=> Gone(j, i)
                                      /\ OnTheWay(j, i)' <=> OnTheWay(j, i)
  BY DEF Gone, OnTheWay
<1> QED BY <1>1, AnswersStay

LEMMA AnswersBlock ==
  ASSUME HandsInv, Answers, NEW w \in Workers, Load(w) \/ Arrive(w) \/ RaiseFlag(w)
  PROVE  Answers'
<1>1. UNCHANGED <<launcher, num, out, worker_handle>>
  BY DEF Load, Arrive, RaiseFlag
<1>2. /\ block[w].pc # "search" /\ block'[w].pc # "search"
      /\ \A v \in Workers : v # w => block'[v] = block[v]
  <2>1. CASE Load(w)
    BY <2>1, Memory DEF Load, Block
  <2>2. CASE Arrive(w)
    <3>1. PICK c : /\ block' = [block EXCEPT ![w] = c]
                   /\ c = [block[w] EXCEPT !.pc = "raise"] \/ c = Looping
      BY <2>2 DEF Arrive
    <3>2. c.pc # "search"
      BY <3>1, LoopingType, Memory DEF Block
    <3> QED BY <2>2, <3>1, <3>2, Memory DEF Arrive
  <2>3. CASE RaiseFlag(w)
    BY <2>3, LoopingType, Memory DEF RaiseFlag
  <2> QED BY <2>1, <2>2, <2>3
<1>3. ASSUME NEW j \in Jobs, NEW i \in Rows
      PROVE  Unread(j, i)' = Unread(j, i) /\ Searching(j, i)' = Searching(j, i)
  BY <1>1, <1>2 DEF Unread, Searching
<1> QED BY <1>1, <1>3, AnswersQuiet

LEMMA AnswersDestroy ==
  ASSUME HandsInv, Completion, Answers, Destroy \/ DestructorStep
  PROVE  Answers'
<1>1. UNCHANGED <<launcher, num, out, block>>
  BY DEF Destroy, DestructorStep, DestroyPop, DestroyStop, DestroySync
<1>2. CASE DestroyStop
  <2>1. PICK k \in Nat : k = runner.slot
    BY Memory DEF Runner
  <2>2. PICK x : x = Value(worker_queue, k)
    OBVIOUS
  <2>3. x \in Workers /\ x \in Queued(worker_queue)
    <3>1. Ready(worker_queue, k) /\ worker_queue \in Queue(WorkerSize, Workers)
      BY <1>2, <2>1 DEF DestroyStop, HandsInv, TypeInv, QueuesOK
    <3> QED BY <2>2, <3>1, Sizes, TakenFromQueue
  <2>4. worker_handle'[x] = NoMore /\ \A v \in Workers : v # x => worker_handle'[v] = worker_handle[v]
    BY <1>2, <2>1, <2>2, <2>3, Memory DEF DestroyStop
  <2>5. worker_handle[x].job \notin Jobs /\ worker_handle'[x].job \notin Jobs
    <3>1. worker_handle[x] \in {Wait, NoMore}
      BY <2>3, IdleWorkers DEF Completion, Busy
    <3> QED BY <2>4, <3>1, MailType, IdsAreNumbers
  <2>6. ASSUME NEW j \in Jobs, NEW i \in Rows
        PROVE  Unread(j, i)' = Unread(j, i) /\ Searching(j, i)' = Searching(j, i)
    <3>1. PICK m : m = [job |-> j, query |-> i]
      OBVIOUS
    <3>2. m.job \in Jobs
      BY <3>1
    <3>3. worker_handle[x] # m /\ worker_handle'[x] # m
      BY <2>5, <3>2
    <3>4. {v \in Workers : worker_handle'[v] = m} = {v \in Workers : worker_handle[v] = m}
      BY <2>4, <3>3
    <3> QED BY <1>1, <3>1, <3>4 DEF Unread, Searching
  <2> QED BY <1>1, <2>6, AnswersQuiet
<1>3. CASE ~DestroyStop
  <2>1. UNCHANGED worker_handle
    BY <1>3 DEF Destroy, DestructorStep, DestroyPop, DestroySync
  <2>2. ASSUME NEW j \in Jobs, NEW i \in Rows
        PROVE  Unread(j, i)' = Unread(j, i) /\ Searching(j, i)' = Searching(j, i)
    BY <1>1, <2>1 DEF Unread, Searching
  <2> QED BY <1>1, <2>2, AnswersQuiet
<1> QED BY <1>2, <1>3

\* A query passes from the mailbox to the search.
LEMMA AnswersClear ==
  ASSUME HandsInv, Completion, Answers, NEW w \in Workers, Clear(w)
  PROVE  Answers'
<1>1. UNCHANGED <<launcher, num, out>>
  BY DEF Clear
<1>2. block[w] \in Block /\ block[w].pc = "clear"
  BY Memory DEF Clear
<1>3. /\ block'[w].pc = "search" /\ block'[w].got = block[w].got
      /\ \A v \in Workers : v # w => block'[v] = block[v]
  BY <1>2, Memory DEF Clear, Block
<1>4. /\ worker_handle'[w] = Wait /\ worker_handle[w] = block[w].got
      /\ \A v \in Workers : v # w => worker_handle'[v] = worker_handle[v]
  BY <1>2, Memory DEF Clear, Completion, MailInv
<1>5. ASSUME NEW j \in Jobs, NEW i \in Rows
      PROVE  (Gone(j, i)' <=> Gone(j, i)) /\ (OnTheWay(j, i)' <=> OnTheWay(j, i))
  <2>1. PICK m : m = [job |-> j, query |-> i]
    OBVIOUS
  <2>2. m # Wait
    <3>1. m.job = j
      BY <2>1
    <3> QED BY <3>1, MailType, IdsAreNumbers
  <2>3. PICK un, se, un1, se1 :
          /\ un = Unread(j, i) /\ un1 = Unread(j, i)'
          /\ se = Searching(j, i) /\ se1 = Searching(j, i)'
    OBVIOUS
  <2>4. /\ un = {v \in Workers : worker_handle[v] = m}
        /\ un1 = {v \in Workers : worker_handle'[v] = m}
        /\ se = {v \in Workers : block[v].pc = "search" /\ block[v].got = m}
        /\ se1 = {v \in Workers : block'[v].pc = "search" /\ block'[v].got = m}
    BY <2>1, <2>3 DEF Unread, Searching
  <2>5. CASE block[w].got = m
    <3>1. un1 = un \ {w} /\ w \in un
      BY <1>4, <2>2, <2>4, <2>5
    <3>2. se1 = se \union {w} /\ w \notin se
      BY <1>2, <1>3, <2>4, <2>5
    <3>3. ~(un = {} /\ se = {}) /\ ~(un1 = {} /\ se1 = {})
      BY <3>1, <3>2
    <3>4. (\E v \in Workers : (un1 = {v} /\ se1 = {}) \/ (un1 = {} /\ se1 = {v})) <=>
            un1 = {} /\ se1 = {w}
      BY <3>1, <3>2
    <3>5. (\E v \in Workers : (un = {v} /\ se = {}) \/ (un = {} /\ se = {v})) <=>
            un = {w} /\ se = {}
      BY <3>1, <3>2
    <3>6. un1 = {} /\ se1 = {w} <=> un = {w} /\ se = {}
      BY <3>1, <3>2
    <3> QED BY <2>3, <3>3, <3>4, <3>5, <3>6 DEF Gone, OnTheWay
  <2>6. CASE block[w].got # m
    <3>1. un1 = un
      BY <1>4, <2>2, <2>4, <2>6
    <3>2. se1 = se
      BY <1>2, <1>3, <2>4, <2>6
    <3> QED BY <2>3, <3>1, <3>2 DEF Gone, OnTheWay
  <2> QED BY <2>5, <2>6
<1> QED BY <1>1, <1>5, AnswersStay

\* The query that is answered is one of the batch of a thread in launch(), and had no answer.
LEMMA AnswersSearch ==
  ASSUME HandsInv, Completion, Answers, NEW w \in Workers, Search(w)
  PROVE  /\ Answers'
         /\ \E t \in Threads, q \in Rows :
              /\ launcher[t].pc # "idle" /\ q < launcher[t].n /\ out[t][q] = NoQuery
              /\ out' = [out EXCEPT ![t][q] = <<t, num[t], q>>]
<1>1. UNCHANGED <<launcher, num, worker_handle>>
  BY DEF Search
<1>2. PICK b \in Block : b = block[w]
  BY Memory
<1>3. b.pc = "search" /\ Described(b.got.job)
  BY <1>2, Memory DEF Search, BatchInv
<1>4. PICK j \in Jobs : j = b.got.job
  BY <1>3 DEF Described
<1>5. PICK q \in Rows : q = b.got.query /\ b.got = [job |-> j, query |-> q]
  <2>1. b.got \in Mail
    BY DEF Block
  <2>2. b.got \in [job : Jobs, query : Rows]
    <3>1. b.got \notin {Wait, NoMore}
      BY <1>4, <2>1, MailType
    <3> QED BY <2>1, <3>1 DEF Mail
  <2> QED BY <1>4, <2>2
<1>6. w \in Searching(j, q)
  BY <1>2, <1>3, <1>5 DEF Searching
<1>7. Outstanding(j) # 0
  <2>1. w \in InBlock(j)
    BY <1>2, <1>3, <1>4 DEF InBlock
  <2> QED BY <2>1, WorkerSets
<1>8. PICK t \in Threads :
        /\ launcher[t].job = j /\ Counts(t, j) /\ launcher[t].n \in ReqSizes
        /\ Submitted(launcher[t]) \in Nat /\ Submitted(launcher[t]) <= launcher[t].n
  <2>1. ~Traceless(j)
    BY <1>7 DEF Traceless
  <2> QED BY <2>1, JobInUse
<1>9. PICK r \in Launcher : r = launcher[t]
  BY Memory
<1>10. r.pc # "idle"
  <2>1. LauncherInv(r) /\ r.job # Empty
    BY <1>8, <1>9, Memory, IdsAreNumbers
  <2> QED BY <2>1 DEF LauncherInv, Where
<1>11. QueryInv(t, j, q)
  BY <1>8 DEF Answers
<1>12. q < Submitted(r) /\ out[t][q] = NoQuery /\ Searching(j, q) = {w} /\ Unread(j, q) = {}
  BY <1>6, <1>9, <1>11 DEF QueryInv, Gone, OnTheWay
<1>13. q < r.n
  <2>1. PICK s \in Nat : s = Submitted(r)
    BY <1>8, <1>9
  <2>2. PICK n \in Nat : n = r.n
    BY <1>8, <1>9, MaxSizeType
  <2>3. q \in Nat /\ s <= n /\ q < s
    BY <1>8, <1>9, <1>12, <2>1, <2>2, IdsAreNumbers
  <2> QED BY <2>2, <2>3
<1>14. PICK a : a = <<t, num[t], q>>
  OBVIOUS
<1>15. out' = [out EXCEPT ![t][q] = a]
  <2>1. PICK d : d = descriptor[j]
    OBVIOUS
  <2>2. d.thread = t /\ d.num = num[t]
    BY <1>8, <2>1 DEF Counts
  <2>3. out' = [out EXCEPT ![d.thread][q] = <<d.thread, d.num, q>>]
    BY <1>2, <1>4, <1>5, <2>1 DEF Search
  <2> QED BY <1>14, <2>2, <2>3
<1>16. /\ out'[t][q] = a
       /\ \A v \in Threads : \A i \in Rows : v # t \/ i # q => out'[v][i] = out[v][i]
  BY <1>15, Memory
<1>17. /\ block'[w].pc # "search"
       /\ \A v \in Workers : v # w => block'[v] = block[v]
  BY <1>2, Memory DEF Search, Block
<1>18. ASSUME NEW l \in Jobs, NEW i \in Rows
       PROVE  /\ Unread(l, i)' = Unread(l, i)
              /\ Searching(l, i)' = Searching(l, i) \ {w}
  BY <1>1, <1>17 DEF Unread, Searching
<1>19. QueryInv(t, j, q)'
  <2>1. Gone(j, q)'
    BY <1>12, <1>18 DEF Gone
  <2>2. q < Submitted(launcher'[t])
    BY <1>1, <1>9, <1>12
  <2> QED BY <1>1, <1>14, <1>16, <2>1, <2>2 DEF QueryInv
<1>20. ASSUME NEW v \in Threads, NEW i \in Rows, NEW l \in Jobs, launcher'[v].job = l
       PROVE  QueryInv(v, l, i)'
  <2>1. launcher[v].job = l /\ QueryInv(v, l, i)
    BY <1>1, <1>20 DEF Answers
  <2>2. CASE v = t /\ i = q
    BY <1>8, <1>19, <2>1, <2>2
  <2>3. CASE v # t \/ i # q
    <3>1. ~(l = j /\ i = q)
      <4>1. l # Empty
        BY IdsAreNumbers
      <4>2. l = j => v = t
        BY <1>8, <2>1, <4>1 DEF HandsInv, OwnersInv, JobsInv
      <4> QED BY <2>3, <4>2
    <3>2. w \notin Searching(l, i)
      <4>1. PICK m : m = [job |-> l, query |-> i]
        OBVIOUS
      <4>2. m.job = l /\ m.query = i
        BY <4>1
      <4>3. b.got.job = j /\ b.got.query = q
        BY <1>4, <1>5
      <4>4. b.got # m
        BY <3>1, <4>2, <4>3
      <4> QED BY <1>2, <4>1, <4>4 DEF Searching
    <3>3. (Gone(l, i)' <=> Gone(l, i)) /\ (OnTheWay(l, i)' <=> OnTheWay(l, i))
      <4>1. Unread(l, i)' = Unread(l, i) /\ Searching(l, i)' = Searching(l, i)
        BY <1>18, <3>2
      <4> QED BY <4>1 DEF Gone, OnTheWay
    <3>4. PICK h \in Launcher : h = launcher[v] /\ h = launcher'[v]
      BY <1>1, Memory
    <3> QED BY <1>1, <1>16, <2>1, <2>3, <3>3, <3>4, QueryStays
  <2> QED BY <2>2, <2>3
<1>21. ASSUME NEW v \in Threads, NEW i \in Rows, launcher'[v].pc = "job" PROVE out'[v][i] = NoQuery
  <2>1. v # t
    <3>1. r.pc # "job"
      <4>1. LauncherInv(r) /\ r.job # Empty
        BY <1>8, <1>9, Memory, IdsAreNumbers
      <4> QED BY <4>1 DEF LauncherInv, Where
    <3> QED BY <1>1, <1>9, <1>21, <3>1
  <2> QED BY <1>1, <1>16, <1>21, <2>1 DEF Answers
<1>22. Answers'
  BY <1>20, <1>21 DEF Answers
<1>23. /\ launcher[t].pc # "idle" /\ q < launcher[t].n /\ out[t][q] = NoQuery
       /\ out' = [out EXCEPT ![t][q] = <<t, num[t], q>>]
  BY <1>9, <1>10, <1>12, <1>13, <1>14, <1>15
<1> QED BY <1>22, <1>23

\* What may happen while nobody is late.
LEMMA InTimeSteps ==
  ASSUME Completion, ~mode.late, Step
  PROVE  \/ \E t \in Threads : Launch(t) \/ TakeJob(t) \/ Submit(t) \/ PushJob(t) \/ Inner(t)
         \/ \E w \in Workers : Load(w) \/ Clear(w) \/ Search(w) \/ Arrive(w) \/ RaiseFlag(w)
         \/ Destroy \/ DestructorStep
<1>1. ASSUME NEW t \in Threads PROVE ~Abandon(t) /\ ~PushBusy(t) /\ ~Throw(t)
  BY DEF Completion, InTimeInv, Abandon, PushBusy, Throw, ThrowInConstructor, ThrowInWait
<1>2. ASSUME NEW t \in Threads, ThreadStep(t)
      PROVE  TakeJob(t) \/ Submit(t) \/ PushJob(t) \/ Inner(t)
  BY <1>1, <1>2 DEF ThreadStep, Inner
<1> QED BY <1>1, <1>2 DEF Step, BlockStep

LEMMA AnswersNext ==
  ASSUME HandsInv, HandsInv', CompletionInv, CompletionInv', AnswersInv, Next
  PROVE  AnswersInv'
<1>1. Step /\ mode' = mode
  BY DEF Next
<1> SUFFICES ASSUME ~mode.late PROVE Answers'
  BY <1>1 DEF AnswersInv
<1>2. Completion /\ Answers
  BY DEF CompletionInv, AnswersInv
<1>3. Completion'
  BY <1>1 DEF CompletionInv
<1>4. CASE \E t \in Threads : Launch(t) \/ TakeJob(t) \/ Submit(t) \/ PushJob(t) \/ Inner(t)
  BY <1>2, <1>3, <1>4, AnswersLaunch, AnswersTakeJob, AnswersSubmit, AnswersPushJob, AnswersInner
<1>5. CASE \E w \in Workers : Load(w) \/ Clear(w) \/ Search(w) \/ Arrive(w) \/ RaiseFlag(w)
  BY <1>2, <1>5, AnswersBlock, AnswersClear, AnswersSearch
<1>6. CASE Destroy \/ DestructorStep
  BY <1>2, <1>6, AnswersDestroy
<1> QED BY <1>1, <1>2, <1>4, <1>5, <1>6, InTimeSteps

LEMMA AnswersSame ==
  ASSUME HandsInv, AnswersInv, UNCHANGED vars
  PROVE  AnswersInv'
<1>1. UNCHANGED <<worker_handle, launcher, block, num, out, mode>>
  BY DEF vars, queues
<1> SUFFICES ASSUME ~mode.late PROVE Answers'
  BY <1>1 DEF AnswersInv
<1>2. Answers
  BY DEF AnswersInv
<1>3. ASSUME NEW j \in Jobs, NEW i \in Rows
      PROVE  Unread(j, i)' = Unread(j, i) /\ Searching(j, i)' = Searching(j, i)
  BY <1>1 DEF Unread, Searching
<1> QED BY <1>1, <1>2, <1>3, AnswersQuiet

\* As long as no thread misses its deadline, each query of a launch is with exactly one worker
\* from its submission to its answer, and the answer is written once, where the
\* launch expects it (submit_query, search_kernel_p).
THEOREM AnswersCorrect == Spec /\ Zeroed => [](HandsInv /\ CompletionInv /\ AnswersInv)
<1>1. Spec /\ Zeroed => [](HandsInv /\ CompletionInv)
  BY CompletionCorrect
<1>2. ASSUME Init PROVE AnswersInv
  <2>1. \A t \in Threads : launcher[t].pc # "job" /\ launcher[t].job \notin Jobs
    BY <1>2, IdsAreNumbers DEF Init, NoLauncher
  <2> QED BY <2>1 DEF AnswersInv, Answers
<1> DEFINE I == HandsInv /\ CompletionInv
<1>3. I /\ I' /\ AnswersInv /\ [Next]_vars => AnswersInv'
  BY AnswersNext, AnswersSame
<1>4. Spec /\ Zeroed => []I
  BY <1>1
<1> HIDE DEF I
<1>5. Spec /\ Zeroed => [](I /\ AnswersInv)
  BY <1>2, <1>3, <1>4, PTL DEF Spec
<1> QED BY <1>5 DEF I

-----------------------------------------------------------------------------
(* PersistentSearch implements the safety part of SearchService.           *)

\* A launch is a call.
LEMMA PromiseCall ==
  ASSUME HandsInv, ~mode.late, mode' = mode, NEW t \in Threads, Launch(t)
  PROVE  \E n \in ReqSizes : Promise!Call(t, n)
<1>1. /\ mode.launches[t] \in 0..MaxReqs /\ mode.batch[t] \in ReqSizes /\ MaxReqs \in Nat
      /\ num \in [Threads -> 0..MaxReqs]
  BY Memory, ModesAssumption, ConstantsAssumption
<1>2. PICK n \in ReqSizes : n = mode.batch[t]
  BY <1>1
<1>3. /\ launcher[t].pc = "idle" /\ num[t] < mode.launches[t]
      /\ num' = [num EXCEPT ![t] = @ + 1]
      /\ out' = [out EXCEPT ![t] = [i \in Rows |-> NoQuery]]
  BY DEF Launch
<1>4. /\ launcher'[t].pc = "job" /\ launcher'[t].n = n
      /\ \A v \in Threads : v # t => launcher'[v] = launcher[v]
  BY <1>2, Memory DEF Launch, Become, NoLauncher
<1>5. num[t] < MaxReqs
  BY <1>1, <1>3
<1>6. {u \in Threads : launcher'[u].pc # "idle" /\ ~mode'.late}
        = {u \in Threads : launcher[u].pc # "idle" /\ ~mode.late} \union {t}
  BY <1>4
<1>7. [u \in Threads |-> IF mode'.late THEN 0 ELSE num'[u]]
        = [[u \in Threads |-> IF mode.late THEN 0 ELSE num[u]] EXCEPT ![t] = num[t] + 1]
  BY <1>1, <1>3
<1>8. [u \in Threads |-> IF mode'.late THEN 0 ELSE launcher'[u].n]
        = [[u \in Threads |-> IF mode.late THEN 0 ELSE launcher[u].n] EXCEPT ![t] = n]
  BY <1>4
<1>9. [u \in Threads |-> IF mode'.late THEN [i \in Rows |-> NoQuery] ELSE out'[u]]
        = [[u \in Threads |-> IF mode.late THEN [i \in Rows |-> NoQuery] ELSE out[u]]
             EXCEPT ![t] = [i \in Rows |-> NoQuery]]
  BY <1>3, Memory
<1>10. Promise!Call(t, n)
  BY <1>3, <1>5, <1>6, <1>7, <1>8, <1>9 DEF Promise!Call, Promise!NoQuery, NoQuery
<1> QED BY <1>10

\* A worker that writes a result answers one query.
LEMMA PromiseAnswer ==
  ASSUME HandsInv, Completion, Answers, ~mode.late, mode' = mode, NEW w \in Workers, Search(w)
  PROVE  Promise!AnswerSome
<1>1. PICK t \in Threads, q \in Rows :
              /\ launcher[t].pc # "idle" /\ q < launcher[t].n /\ out[t][q] = NoQuery
              /\ out' = [out EXCEPT ![t][q] = <<t, num[t], q>>]
  BY AnswersSearch
<1>2. UNCHANGED <<launcher, num>>
  BY DEF Search
<1> DEFINE batch == [v \in Threads |-> IF v = t THEN {q} ELSE {}]
           answer == [v \in Threads |-> IF mode.late THEN [i \in Rows |-> NoQuery] ELSE out[v]]
           number == [v \in Threads |-> IF mode.late THEN 0 ELSE num[v]]
<1>3. batch \in [Threads -> SUBSET Rows]
  OBVIOUS
<1>4. \A v \in Threads : batch[v] \subseteq Promise!Unanswered(v)
  BY <1>1 DEF Promise!Unanswered, Promise!NoQuery, NoQuery
<1>5. \A v \in Threads : batch[v] # {} =>
        v \in {u \in Threads : launcher[u].pc # "idle" /\ ~mode.late}
  BY <1>1
<1>6. answer' = [v \in Threads |-> [i \in Rows |->
                   IF i \in batch[v] THEN <<v, number[v], i>> ELSE answer[v][i]]]
  <2>1. answer' = [v \in Threads |-> out'[v]]
    OBVIOUS
  <2>2. ASSUME NEW v \in Threads
        PROVE  out'[v] = [i \in Rows |->
                            IF i \in batch[v] THEN <<v, number[v], i>> ELSE answer[v][i]]
    <3>1. out[v] = [i \in Rows |-> out[v][i]] /\ out[t] = [i \in Rows |-> out[t][i]]
      BY Memory
    <3>2. CASE v = t
      <4>1. out'[t] = [i \in Rows |-> IF i = q THEN <<t, num[t], q>> ELSE out[t][i]]
        BY <1>1, <3>1, Memory
      <4> QED BY <3>2, <4>1
    <3>3. CASE v # t
      <4>1. out'[v] = out[v]
        BY <1>1, <3>3, Memory
      <4> QED BY <3>1, <3>3, <4>1
    <3> QED BY <3>2, <3>3
  <2> HIDE DEF answer, batch, number
  <2> QED BY <2>1, <2>2
<1> HIDE DEF batch
<1>7. Promise!Answer(batch)
  BY <1>2, <1>4, <1>5, <1>6 DEF Promise!Answer
<1> QED BY <1>3, <1>7 DEF Promise!AnswerSome

\* The return of a job whose flag is raised is the return of a call with all its answers.
LEMMA PromiseReturn ==
  ASSUME HandsInv, Completion, Answers, ~mode.late, mode' = mode, NEW t \in Threads, PushJob(t)
  PROVE  Promise!Return(t)
<1>1. UNCHANGED <<num, out>> /\ launcher[t].pc = "give"
  BY DEF PushJob
<1>2. /\ launcher'[t].pc = "idle" /\ launcher'[t].n = launcher[t].n
      /\ \A v \in Threads : v # t => launcher'[v] = launcher[v]
  BY AnswersPushJob, Memory DEF PushJob, Become
<1>3. PICK r \in Launcher : r = launcher[t] /\ LauncherInv(r) /\ r.then # "cleanup"
  BY Hands DEF Completion, InTimeInv
<1>4. PICK j \in Jobs : j = r.job
  BY <1>1, <1>3 DEF LauncherInv, Where, Launcher
<1>5. Counts(t, j)
  BY <1>3, <1>4 DEF Completion, CountInv
<1>6. completion_flag[j]
  BY <1>1, <1>5 DEF Counts
<1>7. PICK c : c = counter[j]
  OBVIOUS
<1>8. PICK o : o = Outstanding(j)
  OBVIOUS
<1>9. Counted(r, c, o, TRUE)
  BY <1>3, <1>5, <1>6, <1>7, <1>8 DEF Counts, Finished
<1>10. Submitted(r) = r.n /\ Outstanding(j) = 0
  BY <1>8, <1>9 DEF Counted
<1>11. InMail(j) = {} /\ InBlock(j) = {}
  BY <1>10, WorkerSets
<1>12. ASSUME NEW i \in Rows, i < r.n PROVE out[t][i] # NoQuery
  <2>1. Gone(j, i)
    BY <1>11 DEF Gone, Unread, Searching, InMail, InBlock
  <2>2. ~OnTheWay(j, i)
    BY <2>1 DEF Gone, OnTheWay
  <2>3. i < Submitted(launcher[t])
    BY <1>3, <1>10, <1>12
  <2>4. QueryInv(t, j, i)
    BY <1>3, <1>4 DEF Answers
  <2>5. out[t][i] = <<t, num[t], i>>
    BY <2>2, <2>3, <2>4 DEF QueryInv
  <2> QED BY <2>5 DEF NoQuery
<1>13. Promise!Unanswered(t) = {}
  BY <1>3, <1>12 DEF Promise!Unanswered, Promise!NoQuery, NoQuery
<1>14. {u \in Threads : launcher'[u].pc # "idle" /\ ~mode'.late}
        = {u \in Threads : launcher[u].pc # "idle" /\ ~mode.late} \ {t}
  BY <1>2
<1>15. [u \in Threads |-> IF mode'.late THEN 0 ELSE launcher'[u].n]
         = [u \in Threads |-> IF mode.late THEN 0 ELSE launcher[u].n]
  BY <1>2
<1> QED BY <1>1, <1>13, <1>14, <1>15 DEF Promise!Return

\* All else is invisible to the callers.
LEMMA PromiseStutter ==
  ASSUME mode' = mode, UNCHANGED <<num, out>>,
         \A u \in Threads : /\ launcher'[u].pc # "idle" <=> launcher[u].pc # "idle"
                            /\ launcher'[u].n = launcher[u].n
  PROVE  UNCHANGED Promise!vars
<1>1. {u \in Threads : launcher'[u].pc # "idle" /\ ~mode'.late}
        = {u \in Threads : launcher[u].pc # "idle" /\ ~mode.late}
  OBVIOUS
<1>2. [u \in Threads |-> IF mode'.late THEN 0 ELSE launcher'[u].n]
         = [u \in Threads |-> IF mode.late THEN 0 ELSE launcher[u].n]
  OBVIOUS
<1> QED BY <1>1, <1>2 DEF Promise!vars

LEMMA PromiseStep ==
  ASSUME HandsInv, HandsInv', CompletionInv, CompletionInv', AnswersInv, [Next]_vars
  PROVE  [Promise!Next]_(Promise!vars)
<1>1. mode' = mode
  BY DEF Next, vars
<1>2. CASE UNCHANGED vars
  <2>1. UNCHANGED <<launcher, num, out>>
    BY <1>2 DEF vars
  <2> QED BY <1>1, <2>1, PromiseStutter
<1>3. CASE mode.late
  BY <1>1, <1>3 DEF Promise!vars
<1>4. CASE Step /\ ~mode.late
  <2>1. Completion /\ Answers
    BY <1>4 DEF CompletionInv, AnswersInv
  <2>2. Completion'
    BY <1>1, <1>4 DEF CompletionInv
  <2>3. ASSUME NEW t \in Threads, Launch(t) PROVE Promise!Next
    BY <1>1, <1>4, <2>3, PromiseCall DEF Promise!Next
  <2>4. ASSUME NEW t \in Threads, PushJob(t) PROVE Promise!Next
    BY <1>1, <1>4, <2>1, <2>4, PromiseReturn DEF Promise!Next
  <2>5. ASSUME NEW w \in Workers, Search(w) PROVE Promise!Next
    BY <1>1, <1>4, <2>1, <2>5, PromiseAnswer DEF Promise!Next
  <2>6. ASSUME NEW t \in Threads, TakeJob(t) PROVE UNCHANGED Promise!vars
    <3>1. UNCHANGED <<num, out>> /\ launcher[t].pc = "job"
      BY <2>6 DEF TakeJob
    <3>2. launcher'[t].pc = "stand" /\ launcher'[t].n = launcher[t].n
          /\ \A v \in Threads : v # t => launcher'[v] = launcher[v]
      BY <2>6, Memory DEF TakeJob, Become, Launcher
    <3> QED BY <1>1, <3>1, <3>2, PromiseStutter
  <2>7. ASSUME NEW t \in Threads, Submit(t) PROVE UNCHANGED Promise!vars
    <3>1. UNCHANGED <<num, out>> /\ \A v \in Threads : v # t => launcher'[v] = launcher[v]
      BY <2>7, Memory DEF Submit, Become
    <3> QED BY <1>1, <2>1, <2>7, <3>1, AnswersSubmit, PromiseStutter
  <2>8. ASSUME NEW t \in Threads, Inner(t) PROVE UNCHANGED Promise!vars
    <3>1. UNCHANGED <<num, out>> /\ launcher[t].pc # "idle"
          /\ \A v \in Threads : v # t => launcher'[v] = launcher[v]
      BY <2>1, <2>8, InnerShape
    <3>2. launcher'[t].pc # "idle" /\ launcher'[t].n = launcher[t].n
      BY <2>1, <2>2, <2>8, InnerKeeps
    <3> QED BY <1>1, <3>1, <3>2, PromiseStutter
  <2>9. ASSUME NEW w \in Workers, Load(w) \/ Clear(w) \/ Arrive(w) \/ RaiseFlag(w)
        PROVE  UNCHANGED Promise!vars
    <3>1. UNCHANGED <<launcher, num, out>>
      BY <2>9 DEF Load, Clear, Arrive, RaiseFlag
    <3> QED BY <1>1, <3>1, PromiseStutter
  <2>10. ASSUME Destroy \/ DestructorStep PROVE UNCHANGED Promise!vars
    <3>1. UNCHANGED <<launcher, num, out>>
      BY <2>10 DEF Destroy, DestructorStep, DestroyPop, DestroyStop, DestroySync
    <3> QED BY <1>1, <3>1, PromiseStutter
  <2> QED BY <1>4, <2>1, <2>3, <2>4, <2>5, <2>6, <2>7, <2>8, <2>9, <2>10, InTimeSteps
<1> QED BY <1>2, <1>3, <1>4 DEF Next

\* The persistent search implements SearchService: launch() is a search of its own, each query
\* is answered once, with its own neighbors, and none before the call or after the return.
THEOREM ImplementsPromise == Spec /\ Zeroed => Promise!Safe
<1> DEFINE I == HandsInv /\ CompletionInv /\ AnswersInv
<1>1. Spec /\ Zeroed => []I
  BY AnswersCorrect
<1>2. I /\ I' /\ [Next]_vars => [Promise!Next]_(Promise!vars)
  BY PromiseStep
<1>3. Init => Promise!Init
  <2> SUFFICES ASSUME Init PROVE Promise!Init
    OBVIOUS
  <2>1. /\ \A t \in Threads : launcher[t].pc = "idle" /\ launcher[t].n = 0 /\ num[t] = 0
        /\ \A t \in Threads : out[t] = [i \in Rows |-> NoQuery]
    BY DEF Init, NoLauncher
  <2>2. {t \in Threads : launcher[t].pc # "idle" /\ ~mode.late} = {}
    BY <2>1
  <2>3. /\ [t \in Threads |-> IF mode.late THEN 0 ELSE num[t]] = [t \in Threads |-> 0]
        /\ [t \in Threads |-> IF mode.late THEN 0 ELSE launcher[t].n] = [t \in Threads |-> 0]
    BY <2>1
  <2>4. [t \in Threads |-> IF mode.late THEN [i \in Rows |-> NoQuery] ELSE out[t]]
          = [t \in Threads |-> [i \in Rows |-> NoQuery]]
    BY <2>1
  <2> QED BY <2>2, <2>3, <2>4 DEF Promise!Init, Promise!NoQuery, NoQuery
<1> HIDE DEF I
<1> QED BY <1>1, <1>2, <1>3, PTL DEF Spec, Promise!Safe
=============================================================================
