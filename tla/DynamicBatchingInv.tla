------------------------- MODULE DynamicBatchingInv -------------------------
(***************************************************************************)
(* The inductive invariant of DynamicBatching: how the counters, the slots *)
(* of the ring, the IO buffers, the blocks of the gather kernel and the    *)
(* rows that threads hold belong together.  DynamicBatchingRing and        *)
(* DynamicBatchingAnswers prove its parts, one after the other; TLC checks *)
(* them with dyn_inv.cfg.                                                  *)
(***************************************************************************)
EXTENDS DynamicBatching

-----------------------------------------------------------------------------
(* Types.                                                                  *)

\* Past the wait for an IO buffer.
Acquired == Claiming \ {"popFull", "await"}

\* What the types alone do not say: a full token and a thread that has got past
\* the wait have a real buffer, and a claim fits into the request and the batch.
TokenBuf == \A s \in Slots : token[s].full => token[s].buf \in Buffers
ReqFits  == \A t \in Threads : req[t].need <= req[t].total /\ req[t].total < MaxBatch
ClaimFits ==
  \A t \in Threads : pc[t] \in Claiming =>
    /\ claim[t].cnt <= req[t].need /\ claim[t].sub <= claim[t].cnt
    /\ claim[t].off + claim[t].cnt <= MaxBatch
    /\ pc[t] \in Acquired => claim[t].buf \in Buffers
    /\ pc[t] = "pushWait" => claim[t].next \in Nat
KernelSet ==
  \A b \in Buffers : /\ kern[b].stage # "idle" => kern[b].seq \in Nat
                     /\ kern[b].stage = "copied" => kern[b].next \in Nat

TypeInv == TypeOK /\ TokenBuf /\ ReqFits /\ ClaimFits /\ KernelSet

-----------------------------------------------------------------------------
(* The ring.                                                               *)

\* The batch that slot s, or the slot of n, is at: the last to be filled there, or
\* the next one.
Batch(s) == KSize * token[s].round + s
At(n)    == Batch(Slot(n))

\* Nobody commits to batch n any more.
Gone(n) == At(n) > n \/ (At(n) = n /\ Uncommittable(token[Slot(n)]))

\* Batches that will get a buffer: a dispatcher waits for the slot, or the kernels
\* on a buffer return it there.
Pushing  == {t \in Threads : pc[t] = "pushWait"}
Reserved == {claim[t].next : t \in Pushing} \union ({kern[b].next : b \in Buffers} \ {None})

\* Buffer b has been given to batch m, which is not launched yet, or will be.
Due(b, m) ==
  \/ kern[b].next = m
  \/ \E t \in Pushing : claim[t].next = m /\ claim[t].buf = b
  \/ kern[b].stage = "idle" /\ \E s \in Slots :
       token[s].full /\ token[s].buf = b /\ Batch(s) = m

\* A slot is at most one round behind the reservations and the head; it is full
\* until the gather kernel empties it, and empty until a buffer is returned.
SlotInv(s) ==
  /\ Batch(s) < tail + KSize
  /\ head <= Batch(s) + KSize
  /\ token[s].full => Batch(s) < tail /\ Batch(s) \notin Reserved
  /\ ~token[s].full => (Batch(s) >= tail \/ Batch(s) \in Reserved) /\ ~token[s].closed

\* A reservation is for the batch its slot is at or the one of the next round, and
\* each has one holder.
ReservedInv ==
  /\ \A p \in Reserved : p < tail /\ At(p) <= p /\ p <= At(p) + KSize
  /\ \A t, u \in Pushing : claim[t].next = claim[u].next => t = u
  /\ \A b, c \in Buffers : kern[b].next # None /\ kern[b].next = kern[c].next => b = c
  /\ \A b \in Buffers : kern[b].next # None =>
       /\ ~token[Slot(kern[b].next)].full /\ At(kern[b].next) = kern[b].next
       /\ \A t \in Pushing : claim[t].next # kern[b].next

\* Every batch before the tail has a buffer coming, or has been launched.
DueInv ==
  \A m \in 0..(tail - 1) : (\E b \in Buffers : Due(b, m)) \/ (m <= head /\ At(m) >= m)

PoppedInv == \A n \in 0..(head - 1) : Gone(n)

\* A buffer is in one slot.
OffersInv ==
  \A r, s \in Slots : token[r].full /\ token[s].full /\ token[r].buf = token[s].buf => r = s

QueueInv == (\A s \in Slots : SlotInv(s)) /\ ReservedInv /\ PoppedInv /\ OffersInv

-----------------------------------------------------------------------------
(* The threads and the kernels.                                            *)

\* Points at which a thread may still have to hand over queries; and row i is one
\* that t has not handed over.
Holding == {"popFull", "await", "launch", "submit"}
Pending(t, i) ==
  /\ pc[t] \in Holding
  /\ claim[t].off + claim[t].sub <= i /\ i < claim[t].off + claim[t].cnt

\* Points that only the dispatcher of a batch gets to, and those between the launch
\* of its gather kernel and that of its scatter kernel.
Alone       == {"launch", "takeSize", "resetSize", "push", "pushWait", "record", "publish"}
AtWork      == {"submit", "takeSize", "resetSize", "push", "pushWait"}
Launched(t) == pc[t] \in AtWork /\ claim[t].off = 0

\* A thread that committed to a batch finds its slot at that batch as long as it
\* has queries to hand over, and while it does, its rows are committed and its
\* buffer is the slot's.
ThreadInv(t) ==
  /\ seq[t] <= head
  /\ pc[t] \in {"popRetry", "popFull"} => Gone(seq[t])
  /\ pc[t] \in {"head", "bound", "commit", "popRetry"} => req[t].need > 0
  /\ pc[t] \in Alone => claim[t].off = 0
  /\ pc[t] \in Claiming =>
       /\ At(seq[t]) >= seq[t] /\ claim[t].cnt > 0
       /\ claim[t].sub < claim[t].cnt => At(seq[t]) = seq[t]
       /\ At(seq[t]) = seq[t] =>
            /\ claim[t].off + claim[t].cnt <= token[Slot(seq[t])].sc
            /\ claim[t].buf # None => /\ token[Slot(seq[t])].full
                                      /\ token[Slot(seq[t])].buf = claim[t].buf
  /\ pc[t] \in Holding \ {"submit"} => claim[t].sub = 0
  /\ pc[t] = "await" => claim[t].buf = None
  /\ pc[t] \in Claiming \ Holding => claim[t].sub = claim[t].cnt

\* The buffer is offered while nothing is launched on it, is in the slot of its
\* batch until the gather kernel has emptied that, and then in none.
KernelInv(b) ==
  LET k == kern[b] IN
  /\ k.stage = "idle" => k.next = None /\ \E s \in Slots : token[s].full /\ token[s].buf = b
  /\ k.stage = "gather" =>
       /\ token[Slot(k.seq)].full /\ token[Slot(k.seq)].buf = b
       /\ At(k.seq) = k.seq /\ token[Slot(k.seq)].sc > 0
       /\ \A t \in Threads :
            pc[t] \in {"popFull", "await", "launch"} /\ claim[t].off = 0 => seq[t] # k.seq
  /\ k.stage \in {"gathered", "copied"} =>
       \A s \in Slots : ~(token[s].full /\ token[s].buf = b)
  /\ k.stage = "gathered" => At(k.seq) > k.seq
  /\ k.stage = "copied" => k.next # None

\* Between the launch and the reservation the dispatcher's kernels are its own.
LaunchedInv(t) ==
  Launched(t) =>
    LET k == kern[claim[t].buf] IN
    k.stage \in {"gather", "gathered"} /\ k.seq = seq[t] /\ k.next = None

\* A block has left only when its row is handed over and taken, or will never be
\* committed; a pointer is set only for a committed row of the batch in the slot,
\* by the thread that holds it.
BlockInv(b, i) ==
  /\ kern[b].stage = "gather" /\ blk[b][i] = "done" =>
       /\ \A t \in Threads : seq[t] = kern[b].seq => ~Pending(t, i)
       /\ token[Slot(kern[b].seq)].sc <= i => token[Slot(kern[b].seq)].closed
       /\ ptrs[b][i].query = NoQuery
  /\ ptrs[b][i].query # NoQuery =>
       /\ kern[b].stage \in {"idle", "gather"}
       /\ \A s \in Slots : token[s].full /\ token[s].buf = b =>
            /\ i < token[s].sc
            /\ \A t \in Threads : seq[t] = Batch(s) => ~Pending(t, i)

RingInv ==
  /\ QueueInv
  /\ DueInv
  /\ \A t \in Threads : ThreadInv(t) /\ LaunchedInv(t)
  /\ ClaimsDisjoint
  /\ \A b \in Buffers : KernelInv(b) /\ \A i \in Rows : BlockInv(b, i)

-----------------------------------------------------------------------------
(* What the gather kernel collects.                                        *)

\* The query of the request of t that goes to row i of its batch.
Own(t, i) == Query(t, req[t].num, req[t].total - req[t].need + i - claim[t].off)

\* The batch store has, row by row, the queries whose outputs the pointers name.
RowInv(b, i) ==
  /\ ptrs[b][i].query # NoQuery => ptrs[b][i].query = ptrs[b][i].out
  /\ kern[b].stage = "gather" /\ blk[b][i] = "done" /\ i < token[Slot(kern[b].seq)].sc
       => gathered[b][i] = ptrs[b][i].out
  /\ kern[b].stage = "gathered" /\ i < progress[b] => gathered[b][i] = ptrs[b][i].out

\* What a thread has handed over is in the pointers or, taken, in the batch store.
HandedInv(t, i) ==
  pc[t] \in Acquired /\ At(seq[t]) = seq[t]
  /\ claim[t].off <= i /\ i < claim[t].off + claim[t].sub =>
    LET b == claim[t].buf IN
    \/ ptrs[b][i].query = Own(t, i)
    \/ kern[b].stage = "gather" /\ blk[b][i] = "done" /\ gathered[b][i] = Own(t, i)

AnswersInv ==
  /\ \A b \in Buffers, i \in Rows : RowInv(b, i)
  /\ \A t \in Threads, i \in Rows : HandedInv(t, i)
  /\ GatherComplete /\ AnswerIsOwn

-----------------------------------------------------------------------------
(* Conservative dispatch.                                                  *)

\* Dispatcher t has still to take the size of the batch that is gathered in buffer b;
\* or to take or reset the size of the batch that was in slot s.
Gathers(t, b) ==
  /\ Launched(t) /\ pc[t] \in {"submit", "takeSize"}
  /\ claim[t].buf = b /\ seq[t] = kern[b].seq
Resets(t, s) ==
  /\ Launched(t) /\ pc[t] \in {"submit", "takeSize", "resetSize"} /\ Slot(seq[t]) = s
  /\ kern[claim[t].buf].stage = "gathered" /\ bsize[s] = progress[claim[t].buf]

\* The dispatchers at work are in different slots, and with conservative dispatch
\* every batch that gathers, and every size that is not reset, has its own.
SizesInv ==
  /\ \A t, u \in Threads : Launched(t) /\ Launched(u) /\ Slot(seq[t]) = Slot(seq[u]) => t = u
  /\ Conservative =>
       /\ \A b \in Buffers : kern[b].stage = "gather" => \E t \in Threads : Gathers(t, b)
       /\ \A s \in Slots : bsize[s] # 0 => \E t \in Threads : Resets(t, s)
  /\ SizeIsOwn

-----------------------------------------------------------------------------
(* Publication and completion, as long as no dispatcher is paused just     *)
(* before it records its event, nor overtaken by a whole ring.             *)

\* Thread t has launched the gather kernel of its batch and not published it yet.
Dispatcher(t) == pc[t] \in AtWork \union {"record", "publish"} /\ claim[t].off = 0

\* A slot has one dispatcher at a time, whose batch comes after the published ones;
\* and a batch is not published before its gather kernel is launched.
DispatchedInv ==
  /\ \A t, u \in Threads : Dispatcher(t) /\ Dispatcher(u) /\ Slot(seq[t]) = Slot(seq[u]) => t = u
  /\ \A t \in Threads : Dispatcher(t) => dispatched[Slot(seq[t])] < seq[t]
  /\ \A s \in Slots : /\ dispatched[s] <= Batch(s)
                      /\ dispatched[s] = Batch(s) => /\ token[s].full
                                                     /\ kern[token[s].buf].stage = "gather"

\* The event of a buffer in use was recorded for its batch, or will be before that is
\* published; who waits for it finds it so.
EventOf(b) ==
  kern[b].stage # "idle" /\ event[b] # kern[b].seq =>
    \E t \in Threads : /\ Dispatcher(t) /\ pc[t] # "publish"
                       /\ claim[t].buf = b /\ seq[t] = kern[b].seq
WaiterInv(t) ==
  LET k == kern[claim[t].buf] IN
  /\ pc[t] = "record" => k.stage = "idle" \/ k.seq = seq[t]
  /\ pc[t] \in {"record", "publish"} => seq[t] \in waits[t]
  /\ pc[t] \in {"record", "publish", "waitEvent"} /\ At(seq[t]) = seq[t] => k.stage = "gather"
  /\ pc[t] = "waitEvent" /\ k.stage # "idle" /\ k.seq = seq[t] => event[claim[t].buf] = seq[t]

EventInv == (\A b \in Buffers : EventOf(b)) /\ \A t \in Threads : WaiterInv(t)

\* A batch has one buffer at a time, and is complete only once that is idle again.
DoneInv ==
  /\ \A m \in done : At(m) > m
  /\ \A b \in Buffers : kern[b].stage # "idle" =>
       /\ kern[b].seq \notin done
       /\ kern[b].stage = "copied" => At(kern[b].seq) > kern[b].seq
       /\ \A c \in Buffers : kern[c].stage # "idle" /\ kern[c].seq = kern[b].seq => b = c

\* The upstream search is given all the rows of the batch.
GivenInv ==
  /\ ~Conservative => \A t \in Threads :
       /\ pc[t] \notin {"takeSize", "resetSize"}
       /\ pc[t] \in {"push", "pushWait"} => claim[t].size = MaxBatch
  /\ \A b \in Buffers : kern[b].next # None =>
       /\ kern[b].stage = "gather" => kern[b].size = MaxBatch
       /\ kern[b].stage = "gathered" => progress[b] <= kern[b].size

\* Query q is in a row of the batch that buffer b is used for.
InBatch(b, q) == \E j \in Rows :
  \/ /\ kern[b].stage = "gather" /\ j < token[Slot(kern[b].seq)].sc
     /\ ptrs[b][j].query = q \/ (blk[b][j] = "done" /\ gathered[b][j] = q)
  \/ kern[b].stage = "gathered" /\ j < progress[b] /\ ptrs[b][j].out = q

Answered(t, i) == out[t][i] # NoQuery

\* A query that a thread is done with is answered or in a batch that its stream waits
\* for; one it has handed over to its current batch is there as long as that runs.
FinishedInv(t) ==
  \A i \in Rows : i < req[t].total - req[t].need =>
    Answered(t, i) \/ \E b \in Buffers : /\ kern[b].seq \in waits[t]
                                         /\ InBatch(b, Query(t, req[t].num, i))
CarriedInv(t) ==
  pc[t] \in Acquired /\ At(seq[t]) > seq[t] =>
    \A i \in Rows : claim[t].off <= i /\ i < claim[t].off + claim[t].sub =>
      \/ Answered(t, req[t].total - req[t].need + i - claim[t].off)
      \/ kern[claim[t].buf].seq = seq[t] /\ InBatch(claim[t].buf, Own(t, i))

\* A request is over when nothing is left of it and its stream has been waited for.
OverInv(t) ==
  /\ pc[t] \in {"idle", "sync", "synced"} => req[t].need = 0
  /\ pc[t] \in {"idle", "synced"} => waits[t] = {}

ReadyInv ==
  /\ DispatchedInv /\ EventInv /\ DoneInv /\ GivenInv
  /\ \A t \in Threads : FinishedInv(t) /\ CarriedInv(t) /\ OverInv(t)

-----------------------------------------------------------------------------
(* What the refinement of SearchService needs besides.                     *)

\* Row j of buffer b holds a query that is not answered yet.
Live(b, j) ==
  \/ ptrs[b][j].query # NoQuery
  \/ /\ kern[b].stage = "gather" /\ blk[b][j] = "done"
     /\ j < token[Slot(kern[b].seq)].sc
  \/ kern[b].stage = "gathered" /\ j < progress[b]

\* How many queries of its request a thread has handed over.
HandedOver(t) == req[t].total - req[t].need + claim[t].sub

\* Query q is one of a current request, handed over and not answered yet.
Open(q) == \E t \in Threads, i \in Rows :
  q = Query(t, req[t].num, i) /\ i < HandedOver(t) /\ ~Answered(t, i)

\* The live rows are distinct queries that are handed over and not answered; a query
\* that is not handed over is not answered either.
OpenInv == \A b \in Buffers, j \in Rows : Live(b, j) => Open(ptrs[b][j].out)
DistinctInv ==
  \A b, c \in Buffers, j, k \in Rows :
    Live(b, j) /\ Live(c, k) /\ ptrs[b][j].out = ptrs[c][k].out => b = c /\ j = k
FirstInv ==
  \A t \in Threads : /\ \A i \in Rows : i >= HandedOver(t) => ~Answered(t, i)
                     /\ pc[t] \notin Claiming => claim[t].sub = 0

LiveInv == OpenInv /\ DistinctInv /\ FirstInv
=============================================================================
