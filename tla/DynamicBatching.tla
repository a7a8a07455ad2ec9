--------------------------- MODULE DynamicBatching ---------------------------
(***************************************************************************)
(* The dynamic batching index: cpp/src/neighbors/detail/dynamic_batching.cuh.*)
(*                                                                         *)
(* Host threads call batch_runner::search.  Each takes queries of its      *)
(* request to a batch by committing to a slot of a ring buffer of batch    *)
(* tokens, waits until the slot holds an IO buffer, and hands its queries  *)
(* over through a table of request pointers.  The thread that committed at *)
(* offset 0 is the dispatcher: it launches the gather kernel, the upstream *)
(* search and the scatter kernel on its stream, and reserves the slot into *)
(* which the scatter kernel will return the buffer.  The other threads     *)
(* wait until the dispatcher has published the batch and make their stream *)
(* wait for the completion event of the buffer.                            *)
(*                                                                         *)
(* Time is abstracted: a timeout is a number that is compared and          *)
(* minimised, and the gather kernel may find its time exhausted at any     *)
(* moment.  The atomics are taken to be sequentially consistent, and the   *)
(* counters to be unbounded (BatchQueueWrap has their width).              *)
(***************************************************************************)
EXTENDS Integers, FiniteSets

CONSTANTS
  Threads,       \* host threads that call search()
  KSize,         \* batch_queue_t::kSize, slots of the ring buffer
  NQueues,       \* index_params::n_queues, IO buffers
  MaxBatch,      \* index_params::max_batch_size
  Conservative,  \* index_params::conservative_dispatch
  EmptyOffset,   \* slot_state::kEmpty, what tells an empty round from a full one
  ReqSizes,      \* sizes of the requests the threads make
  MaxReqs,       \* bound: requests per thread
  Timeout,       \* search_params::dispatch_timeout_ms of each thread
  NoTimeout      \* numeric_limits<int32_t>::max()

ASSUME SizesAssumption ==
  /\ KSize \in Nat \ {0}
  /\ NQueues \in 1..KSize
  /\ MaxBatch \in Nat \ {0}
  /\ EmptyOffset \in Nat /\ EmptyOffset > 3

ASSUME RequestsAssumption ==
  /\ ReqSizes \subseteq 0..(MaxBatch - 1)
  /\ MaxReqs \in Nat
  /\ NoTimeout \in Nat
  /\ Timeout \in [Threads -> 0..NoTimeout]
  /\ Conservative \in BOOLEAN

Slots   == 0..(KSize - 1)
Buffers == 0..(NQueues - 1)
Rows    == 0..(MaxBatch - 1)
None    == -1

\* A query is named by its thread, the request and its row in the request.
Query(t, r, i) == <<t, r, i>>
Queries        == Threads \X Nat \X Rows
NoQuery        == <<>>

VARIABLES
  head, tail,    \* batch_queue_t: the two counters
  token,         \* slot -> batch_token
  rem,           \* slot -> rem_time_us_
  bsize,         \* slot -> batch_sizes_
  dispatched,    \* slot -> dispatch_sequence_id_
  event,         \* buffer -> batch that last recorded its completion event
  ptrs,          \* buffer, row -> request pointers [query, out]
  gathered,      \* buffer, row -> content of the batch store queries_
  progress,      \* buffer -> kernel_progress_counter
  blk,           \* buffer, row -> where that block of gather_inputs is
  kern,          \* buffer -> the kernels enqueued on it
  done,          \* batches whose scatter kernel has completed
  pc,            \* thread -> where it is in search()
  seq,           \* thread -> seq_id
  claim,         \* thread -> what it committed, and its locals
  req,           \* thread -> its request
  waits,         \* thread -> batches its stream waits for
  out            \* thread, row -> the neighbors delivered to the request

queueVars  == <<head, tail, token, rem, bsize, dispatched>>
bufferVars == <<event, ptrs, gathered, progress, blk, kern, done>>
threadVars == <<pc, seq, claim, req, waits, out>>
vars == <<queueVars, bufferVars, threadVars>>

-----------------------------------------------------------------------------
(* batch_queue_t: rounds, tokens and slot states.                          *)

Slot(n)  == n % KSize
Round(n) == n \div KSize

FullToken(n, b) == [full |-> TRUE, round |-> Round(n), buf |-> b,
                    sc |-> 0, closed |-> FALSE]

EmptyToken(r) == [full |-> FALSE, round |-> r, buf |-> KSize - 1,
                  sc |-> 0, closed |-> FALSE]

\* The code adds kEmptyPast rounds; kEmpty of them are the mark of an empty token,
\* so the slot that batch n leaves is an empty slot of the following round.
EmptiedInSameRound(n) == EmptyToken(Round(n))   \* mutant: no round is added
make_empty_token(n) == EmptyToken(Round(n) + 1)

kEmptyPast == EmptyOffset + 1
kEmpty     == EmptyOffset
kEmptyBusy == EmptyOffset - 1
kFullPast  == 1
kFull      == 0
kFullBusy  == -1
Invalid    == -2     \* RAFT_FAIL("Invalid batch state")

\* batch_status(token, seq_id); the mutant takes a slot of the previous round for
\* an error.
StatusBusyIsInvalid(tok, n) ==
  LET v == tok.round - Round(n) + (IF tok.full THEN 0 ELSE EmptyOffset)
  IN  CASE v <= kFullBusy                       -> Invalid
        [] v > kFullBusy /\ v < kEmptyBusy      -> IF v < kFullPast THEN v ELSE kFullPast
        [] OTHER                                -> IF v < kEmptyPast THEN v ELSE kEmptyPast

Status(tok, n) ==
  LET v == tok.round - Round(n) + (IF tok.full THEN 0 ELSE EmptyOffset)
  IN  CASE v < kFullBusy                        -> Invalid
        [] v >= kFullBusy /\ v < kEmptyBusy     -> IF v < kFullPast THEN v ELSE kFullPast
        [] OTHER                                -> IF v < kEmptyPast THEN v ELSE kEmptyPast

\* The commit counter as the host reads it: the closing byte is its highest.
UncommittableIfFull(tok) == tok.sc >= MaxBatch   \* mutant: the byte is masked off
Uncommittable(tok) == tok.closed \/ tok.sc >= MaxBatch

\* Commit counter after a request for n more queries.
CommittedUnclamped(sc, n) == sc + n              \* mutant: no std::min
Committed(sc, n) == IF sc + n < MaxBatch THEN sc + n ELSE MaxBatch

\* Head after pop(): an atomic maximum.
PoppedByAdding(h, n) == h + 1                    \* mutant: fetch_add
Popped(h, n) == IF h < n + 1 THEN n + 1 ELSE h

\* States in which push() still waits for the slot.
InUseUnlessFull(st) == st \in {kFull, kEmptyBusy}  \* mutant: forgets kFullBusy
InUse(st) == st \in {kFull, kFullBusy, kEmptyBusy}

NoClaim == [off |-> 0, cnt |-> 0, sub |-> 0, buf |-> None, size |-> 0, next |-> None]
NoReq   == [num |-> 0, total |-> 0, need |-> 0]
IdleKernel == [stage |-> "idle", seq |-> None, deps |-> {}, size |-> 0, next |-> None]
NoPtrs  == [query |-> NoQuery, out |-> NoQuery]

\* The state batch_runner's constructor leaves: NQueues slots pushed and filled.
Init ==
  /\ head = 0
  /\ tail = NQueues
  /\ token = [s \in Slots |-> IF s < NQueues THEN FullToken(s, s) ELSE EmptyToken(0)]
  /\ rem = [s \in Slots |-> NoTimeout]
  /\ bsize = [s \in Slots |-> 0]
  /\ dispatched = [s \in Slots |-> None]
  /\ event = [b \in Buffers |-> None]
  /\ ptrs = [b \in Buffers |-> [i \in Rows |-> NoPtrs]]
  /\ gathered = [b \in Buffers |-> [i \in Rows |-> NoQuery]]
  /\ progress = [b \in Buffers |-> 0]
  /\ blk = [b \in Buffers |-> [i \in Rows |-> "off"]]
  /\ kern = [b \in Buffers |-> IdleKernel]
  /\ done = {}
  /\ pc = [t \in Threads |-> "idle"]
  /\ seq = [t \in Threads |-> 0]
  /\ claim = [t \in Threads |-> NoClaim]
  /\ req = [t \in Threads |-> NoReq]
  /\ waits = [t \in Threads |-> {}]
  /\ out = [t \in Threads |-> [i \in Rows |-> NoQuery]]

-----------------------------------------------------------------------------
(* search(): from the call to a commit.                                    *)

Goto(t, l) == pc' = [pc EXCEPT ![t] = l]

\* The call.  A request of MaxBatch queries or more, or with another k, goes
\* straight to the upstream search and touches none of this state.
StartSearch(t, n) ==
  /\ pc[t] = "idle"
  /\ req[t].num < MaxReqs
  /\ req' = [req EXCEPT ![t] = [num |-> req[t].num + 1, total |-> n, need |-> n]]
  /\ out' = [out EXCEPT ![t] = [i \in Rows |-> NoQuery]]
  /\ Goto(t, "head")
  /\ UNCHANGED <<queueVars, bufferVars, seq, claim, waits>>

\* batch_queue_t::head() loads the head counter ...
LoadHead(t) ==
  /\ pc[t] = "head"
  /\ seq' = [seq EXCEPT ![t] = head]
  /\ Goto(t, "bound")
  /\ UNCHANGED <<queueVars, bufferVars, claim, req, waits, out>>

\* ... and reloads it until it is less than KSize ahead of the tail.
CheckTail(t) ==
  /\ pc[t] = "bound"
  /\ IF seq[t] - tail < KSize
     THEN Goto(t, "commit") /\ UNCHANGED seq
     ELSE seq' = [seq EXCEPT ![t] = head] /\ UNCHANGED pc
  /\ UNCHANGED <<queueVars, bufferVars, claim, req, waits, out>>

\* The thread continues once its batch has an IO buffer; the one at offset 0
\* is the dispatcher.
AfterCommit(c) ==
  IF c.buf = None THEN "await" ELSE IF c.off = 0 THEN "launch" ELSE "submit"

\* Bound: a thread does not sleep here while its slot advances by EmptyOffset
\* rounds, after which it would take a full slot for an empty one.
RoundBound(t) ==
  token[Slot(seq[t])].round - Round(seq[t]) \in (1 - EmptyOffset)..(EmptyOffset - 1)

\* try_commit() up to its successful compare-exchange, or to its early return.
TryCommit(t) ==
  LET tok  == token[Slot(seq[t])]
      st   == Status(tok, seq[t])
      sc2  == Committed(tok.sc, req[t].need)
      c    == [off |-> tok.sc, cnt |-> sc2 - tok.sc, sub |-> 0, size |-> 0,
               buf |-> IF st = kFull THEN tok.buf ELSE None, next |-> None]
  IN
  /\ pc[t] = "commit"
  /\ RoundBound(t)
  /\ \/ /\ st = Invalid
        /\ Goto(t, "raised")
        /\ UNCHANGED <<token, claim>>
     \/ /\ st \in {kFullBusy, kEmptyBusy}
        /\ Goto(t, "head")
        /\ UNCHANGED <<token, claim>>
     \/ /\ \/ st \in {kFullPast, kEmptyPast}
           \/ st \in {kFull, kEmpty} /\ Uncommittable(tok)
        /\ Goto(t, "popRetry")
        /\ UNCHANGED <<token, claim>>
     \/ /\ st \in {kFull, kEmpty} /\ ~Uncommittable(tok)
        /\ token' = [token EXCEPT ![Slot(seq[t])].sc = sc2]
        /\ claim' = [claim EXCEPT ![t] = c]
        /\ Goto(t, IF sc2 >= MaxBatch THEN "popFull" ELSE AfterCommit(c))
  /\ UNCHANGED <<head, tail, rem, bsize, dispatched, bufferVars, seq, req, waits, out>>

\* batch_queue_t::pop(), an atomic maximum on the head: after an unusable slot
\* the thread looks again, after a commit that filled the batch it goes on.
Pop(t) ==
  /\ pc[t] \in {"popRetry", "popFull"}
  /\ head' = Popped(head, seq[t])
  /\ Goto(t, IF pc[t] = "popRetry" THEN "head" ELSE AfterCommit(claim[t]))
  /\ UNCHANGED <<tail, token, rem, bsize, dispatched, bufferVars,
                 seq, claim, req, waits, out>>

\* The loop that waits for an IO buffer to arrive in the slot.
AwaitBuffer(t) ==
  LET tok == token[Slot(seq[t])]
      c   == [claim[t] EXCEPT !.buf = tok.buf]
  IN
  /\ pc[t] = "await"
  /\ RoundBound(t)
  /\ \/ /\ Status(tok, seq[t]) = kFull
        /\ claim' = [claim EXCEPT ![t] = c]
        /\ Goto(t, AfterCommit(c))
     \/ /\ Status(tok, seq[t]) = Invalid
        /\ Goto(t, "raised")
        /\ UNCHANGED claim
  /\ UNCHANGED <<queueVars, bufferVars, seq, req, waits, out>>

-----------------------------------------------------------------------------
(* search(): from a buffer to the dispatch of the batch.                   *)

Claiming == {"popFull", "await", "launch", "submit", "takeSize", "resetSize", "push",
             "pushWait", "record", "publish", "waitDispatch", "waitEvent"}
Dispatching(t) == pc[t] \in Claiming /\ claim[t].off = 0

\* The dispatcher initialises the remaining time and launches gather_inputs on
\* its stream, behind whatever the stream already waits for.
LaunchGather(t) ==
  LET b == claim[t].buf IN
  /\ pc[t] = "launch"
  /\ rem' = [rem EXCEPT ![Slot(seq[t])] = Timeout[t]]
  /\ kern' = [kern EXCEPT ![b] = [stage |-> "gather", seq |-> seq[t], deps |-> waits[t],
                                  size |-> 0, next |-> None]]
  /\ blk' = [blk EXCEPT ![b] = [i \in Rows |-> "poll"]]
  /\ Goto(t, "submit")
  /\ UNCHANGED <<head, tail, token, bsize, dispatched, event, ptrs, gathered, progress,
                 done, seq, claim, req, waits, out>>

\* The pointers of the thread's next row: the queries before local_io_offset have
\* gone to earlier batches.
PointersWithoutOffset(t) ==                      \* mutant: offset for the output only
  [query |-> Query(t, req[t].num, claim[t].sub),
   out   |-> Query(t, req[t].num, req[t].total - req[t].need + claim[t].sub)]
PointersOfFirstPart(t) ==                        \* mutant: local_io_offset stays 0
  [query |-> Query(t, req[t].num, claim[t].sub),
   out   |-> Query(t, req[t].num, claim[t].sub)]
Pointers(t) ==
  LET o == req[t].total - req[t].need + claim[t].sub
  IN  [query |-> Query(t, req[t].num, o), out |-> Query(t, req[t].num, o)]

\* One iteration of the loop that sets the request pointers.
SubmitQuery(t) ==
  /\ pc[t] = "submit"
  /\ claim[t].sub < claim[t].cnt
  /\ ptrs' = [ptrs EXCEPT ![claim[t].buf][claim[t].off + claim[t].sub] = Pointers(t)]
  /\ claim' = [claim EXCEPT ![t].sub = @ + 1]
  /\ UNCHANGED <<queueVars, event, gathered, progress, blk, kern, done,
                 pc, seq, req, waits, out>>

\* rem_time_us_ref.fetch_min, once all pointers are set.
SubmitDeadline(t) ==
  LET s == Slot(seq[t]) IN
  /\ pc[t] = "submit"
  /\ claim[t].sub = claim[t].cnt
  /\ rem' = [rem EXCEPT ![s] = IF Timeout[t] < @ THEN Timeout[t] ELSE @]
  /\ Goto(t, IF claim[t].off > 0 THEN "waitDispatch"
             ELSE IF Conservative THEN "takeSize" ELSE "push")
  /\ claim' = [claim EXCEPT ![t].size = MaxBatch]
  /\ UNCHANGED <<head, tail, token, bsize, dispatched, bufferVars, seq, req, waits, out>>

\* Conservative dispatch: the load that ends the wait for the batch size ...
TakeSize(t) ==
  /\ pc[t] = "takeSize"
  /\ bsize[Slot(seq[t])] # 0
  /\ claim' = [claim EXCEPT ![t].size = bsize[Slot(seq[t])]]
  /\ Goto(t, "resetSize")
  /\ UNCHANGED <<queueVars, bufferVars, seq, req, waits, out>>

\* ... and the store that resets it.
KeepSize(t) ==                                   \* mutant: the store is missing
  /\ pc[t] = "resetSize"
  /\ Goto(t, "push")
  /\ UNCHANGED <<queueVars, bufferVars, seq, claim, req, waits, out>>

ResetSize(t) ==
  /\ pc[t] = "resetSize"
  /\ bsize' = [bsize EXCEPT ![Slot(seq[t])] = 0]
  /\ Goto(t, "push")
  /\ UNCHANGED <<head, tail, token, rem, dispatched, bufferVars,
                 seq, claim, req, waits, out>>

\* batch_queue_t::push() reserves the slot at the tail ...
PushReserve(t) ==
  /\ pc[t] = "push"
  /\ tail' = tail + 1
  /\ claim' = [claim EXCEPT ![t].next = tail]
  /\ Goto(t, "pushWait")
  /\ UNCHANGED <<head, token, rem, bsize, dispatched, bufferVars, seq, req, waits, out>>

\* ... and waits until that slot is empty.  The upstream search, enqueued just
\* before, and the scatter kernel, enqueued just after, follow the gather kernel
\* on the stream.
PushWait(t) ==
  LET st == Status(token[Slot(claim[t].next)], claim[t].next) IN
  /\ pc[t] = "pushWait"
  /\ ~InUse(st)
  /\ IF st = Invalid
     THEN Goto(t, "raised") /\ UNCHANGED <<kern, waits>>
     ELSE /\ kern' = [kern EXCEPT ![claim[t].buf].size = claim[t].size,
                                  ![claim[t].buf].next = claim[t].next]
          /\ waits' = [waits EXCEPT ![t] = @ \union {seq[t]}]
          /\ Goto(t, "record")
  /\ UNCHANGED <<queueVars, event, ptrs, gathered, progress, blk, done,
                 seq, claim, req, out>>

\* cudaEventRecord(completion_events_[batch_id], stream)
RecordEvent(t) ==
  /\ pc[t] = "record"
  /\ event' = [event EXCEPT ![claim[t].buf] = seq[t]]
  /\ Goto(t, "publish")
  /\ UNCHANGED <<queueVars, ptrs, gathered, progress, blk, kern, done,
                 seq, claim, req, waits, out>>

\* End of the loop body: what is left of the request goes to another batch, and
\* search() returns when nothing is left.
EndOfBatch(t) ==
  /\ req' = [req EXCEPT ![t].need = @ - claim[t].cnt]
  /\ claim' = [claim EXCEPT ![t] = NoClaim]
  /\ Goto(t, IF req[t].need = claim[t].cnt THEN "sync" ELSE "head")

Publish(t) ==
  /\ pc[t] = "publish"
  /\ dispatched' = [dispatched EXCEPT ![Slot(seq[t])] = seq[t]]
  /\ EndOfBatch(t)
  /\ UNCHANGED <<head, tail, token, rem, bsize, bufferVars, seq, waits, out>>

\* The other threads wait for the publication ...
WaitDispatch(t) ==
  /\ pc[t] = "waitDispatch"
  /\ seq[t] <= dispatched[Slot(seq[t])]
  /\ Goto(t, "waitEvent")
  /\ UNCHANGED <<queueVars, bufferVars, seq, claim, req, waits, out>>

\* ... and make their stream wait for the last recording of the buffer's event.
SkipEvent(t) ==                                  \* mutant: the stream does not wait
  /\ pc[t] = "waitEvent"
  /\ EndOfBatch(t)
  /\ UNCHANGED <<queueVars, bufferVars, seq, waits, out>>

WaitEvent(t) ==
  /\ pc[t] = "waitEvent"
  /\ waits' = [waits EXCEPT ![t] = @ \union ({event[claim[t].buf]} \ {None})]
  /\ EndOfBatch(t)
  /\ UNCHANGED <<queueVars, bufferVars, seq, out>>

\* The caller synchronises with its stream and reads the neighbors.
Sync(t) ==
  /\ pc[t] = "sync"
  /\ waits[t] \subseteq done
  /\ Goto(t, "synced")
  /\ waits' = [waits EXCEPT ![t] = {}]
  /\ UNCHANGED <<queueVars, bufferVars, seq, claim, req, out>>

Return(t) ==
  /\ pc[t] = "synced"
  /\ Goto(t, "idle")
  /\ UNCHANGED <<queueVars, bufferVars, seq, claim, req, waits, out>>

-----------------------------------------------------------------------------
(* The kernels.  A kernel runs once the stream's earlier work is complete. *)

Running(b) == kern[b].stage = "gather" /\ kern[b].deps \subseteq done
GatherToken(b) == token[Slot(kern[b].seq)]

\* gather_inputs, block i: the query has been submitted; erase the pointer and
\* copy the query to the batch store.
GatherTake(b, i) ==
  /\ Running(b)
  /\ blk[b][i] = "poll"
  /\ ptrs[b][i].query # NoQuery
  /\ gathered' = [gathered EXCEPT ![b][i] = ptrs[b][i].query]
  /\ ptrs' = [ptrs EXCEPT ![b][i].query = NoQuery]
  /\ blk' = [blk EXCEPT ![b][i] = "done"]
  /\ UNCHANGED <<queueVars, event, progress, kern, done, threadVars>>

\* The row is not committed and the batch is closed.
GatherSkip(b, i) ==
  /\ Running(b)
  /\ blk[b][i] = "poll"
  /\ GatherToken(b).sc <= i /\ GatherToken(b).closed
  /\ blk' = [blk EXCEPT ![b][i] = "done"]
  /\ UNCHANGED <<queueVars, event, ptrs, gathered, progress, kern, done, threadVars>>

\* The row is not committed, the batch is open, and has_time() is false.
GatherExpire(b, i) ==
  /\ Running(b)
  /\ blk[b][i] = "poll"
  /\ GatherToken(b).sc <= i /\ ~GatherToken(b).closed
  /\ blk' = [blk EXCEPT ![b][i] = "closing"]
  /\ UNCHANGED <<queueVars, event, ptrs, gathered, progress, kern, done, threadVars>>

\* The block closes the batch with a byte store, and reads the counter again:
\* its row may have been committed in the meantime.
AfterCloseLeave(sc, i) == "done"                 \* mutant: no second look
AfterClose(sc, i) == IF sc > i THEN "poll" ELSE "done"

GatherClose(b, i) ==
  LET s == Slot(kern[b].seq) IN
  /\ Running(b)
  /\ blk[b][i] = "closing"
  /\ token' = [token EXCEPT ![s].closed = TRUE]
  /\ blk' = [blk EXCEPT ![b][i] = AfterClose(token[s].sc, i)]
  /\ UNCHANGED <<head, tail, rem, bsize, dispatched,
                 event, ptrs, gathered, progress, kern, done, threadVars>>

\* The last block reads the size of the batch, passes it on to the dispatcher
\* and to the scatter kernel, and empties the slot.
GatherFinish(b) ==
  LET s == Slot(kern[b].seq) IN
  /\ Running(b)
  /\ \A i \in Rows : blk[b][i] = "done"
  /\ bsize' = IF Conservative THEN [bsize EXCEPT ![s] = token[s].sc] ELSE bsize
  /\ progress' = [progress EXCEPT ![b] = token[s].sc]
  /\ token' = [token EXCEPT ![s] = make_empty_token(kern[b].seq)]
  /\ kern' = [kern EXCEPT ![b].stage = "gathered"]
  /\ blk' = [blk EXCEPT ![b] = [i \in Rows |-> "off"]]
  /\ UNCHANGED <<head, tail, rem, dispatched, event, ptrs, gathered, done, threadVars>>

\* What the upstream search finds for row i of the batch: rows beyond the size
\* it was given keep an older result.
Found(b, i) == IF i < kern[b].size THEN gathered[b][i] ELSE NoQuery

\* scatter_outputs copies the results of the batch to the requesters.  (One that
\* has already returned does not look at them any more.)
ScatterCopy(b) ==
  LET RowsFor(t, i) == {j \in 0..(progress[b] - 1) : ptrs[b][j].out = Query(t, req[t].num, i)}
  IN
  /\ kern[b].stage = "gathered"
  /\ kern[b].next # None
  /\ out' = [t \in Threads |-> [i \in Rows |->
               IF RowsFor(t, i) = {} THEN out[t][i]
               ELSE Found(b, CHOOSE j \in RowsFor(t, i) : TRUE)]]
  /\ progress' = [progress EXCEPT ![b] = 0]
  /\ kern' = [kern EXCEPT ![b].stage = "copied"]
  /\ UNCHANGED <<queueVars, event, ptrs, gathered, blk, done, pc, seq, claim, req, waits>>

\* ... and then returns the buffer by writing the id half of the reserved token,
\* which keeps what has been committed to that slot in advance.
ScatterRelease(b) ==
  LET n == kern[b].next IN
  /\ kern[b].stage = "copied"
  /\ token' = [token EXCEPT ![Slot(n)] = [@ EXCEPT !.full = TRUE, !.round = Round(n), !.buf = b]]
  /\ kern' = [kern EXCEPT ![b] = IdleKernel]
  /\ done' = done \union {kern[b].seq}
  /\ UNCHANGED <<head, tail, rem, bsize, dispatched, event, ptrs, gathered, progress, blk,
                 threadVars>>

-----------------------------------------------------------------------------
Terminated == \A t \in Threads : pc[t] = "idle" /\ req[t].num = MaxReqs
Terminating == Terminated /\ UNCHANGED vars

Begin(t) == \E n \in ReqSizes : StartSearch(t, n)

OtherStep(t) ==
  \/ LoadHead(t) \/ CheckTail(t) \/ TryCommit(t) \/ Pop(t) \/ AwaitBuffer(t)
  \/ SubmitQuery(t) \/ SubmitDeadline(t)
  \/ TakeSize(t) \/ ResetSize(t) \/ PushReserve(t) \/ PushWait(t)
  \/ RecordEvent(t) \/ Publish(t) \/ WaitDispatch(t) \/ WaitEvent(t)
  \/ Sync(t) \/ Return(t)
Step(t) == OtherStep(t) \/ LaunchGather(t)

Block(b, i) ==
  GatherTake(b, i) \/ GatherSkip(b, i) \/ GatherExpire(b, i) \/ GatherClose(b, i)

Kernel(b) == GatherFinish(b) \/ ScatterCopy(b) \/ ScatterRelease(b)

KernelsStep == \E b \in Buffers : Kernel(b) \/ \E i \in Rows : Block(b, i)

Next ==
  \/ \E t \in Threads : Begin(t) \/ Step(t)
  \/ KernelsStep
  \/ Terminating

Spec == Init /\ [][Next]_vars

\* Behaviours in which no dispatcher is paused for long: when one launches its gather
\* kernel, none that is a whole ring behind it is still to publish its batch, and the
\* last one to use the buffer has recorded its completion event.  No statement of the
\* code sees to it; it relies on pauses that are short beside a round of the ring.
OnTime(t) ==
  \A u \in Threads :
    /\ Dispatching(u) => seq[t] - seq[u] < KSize
    /\ ~(pc[u] = "record" /\ claim[u].buf = claim[t].buf)

TimelyLaunch(t) == LaunchGather(t) /\ OnTime(t)
TimelyStep(t)   == OtherStep(t) \/ TimelyLaunch(t)

TimelyNext ==
  \/ \E t \in Threads : Begin(t) \/ TimelyStep(t)
  \/ KernelsStep
  \/ Terminating

TimelySpec == Init /\ [][TimelyNext]_vars

\* The operating system runs every thread inside search(), and the GPU every
\* block and kernel that can run, so a deadline passes too.  Nobody is bound to
\* call search().
Fairness ==
  /\ \A t \in Threads : WF_vars(TimelyStep(t))
  /\ \A b \in Buffers : WF_vars(Kernel(b)) /\ \A i \in Rows : WF_vars(Block(b, i))

FairTimelySpec == TimelySpec /\ Fairness

-----------------------------------------------------------------------------
(* Properties.                                                             *)

PCs == Claiming \union {"idle", "head", "bound", "commit", "popRetry", "sync", "synced",
                        "raised"}
Seqs == Nat

Token == [full : BOOLEAN, round : Nat, buf : Slots, sc : 0..MaxBatch, closed : BOOLEAN]
Pointer == [query : Queries \union {NoQuery}, out : Queries \union {NoQuery}]
KernelState == [stage : {"idle", "gather", "gathered", "copied"}, seq : Seqs \union {None},
                deps : SUBSET Seqs, size : 0..MaxBatch, next : Seqs \union {None}]
Claim == [off : 0..MaxBatch, cnt : 0..MaxBatch, sub : 0..MaxBatch, size : 0..MaxBatch,
          buf : Buffers \union {None}, next : Seqs \union {None}]
Request == [num : Nat, total : 0..MaxBatch, need : 0..MaxBatch]

\* Every variable has its type.
TypeOK ==
  /\ head \in Nat /\ tail \in Nat
  /\ token \in [Slots -> Token]
  /\ rem \in [Slots -> 0..NoTimeout]
  /\ bsize \in [Slots -> 0..MaxBatch]
  /\ dispatched \in [Slots -> Seqs \union {None}]
  /\ event \in [Buffers -> Seqs \union {None}]
  /\ ptrs \in [Buffers -> [Rows -> Pointer]]
  /\ gathered \in [Buffers -> [Rows -> Queries \union {NoQuery}]]
  /\ progress \in [Buffers -> 0..MaxBatch]
  /\ blk \in [Buffers -> [Rows -> {"off", "poll", "closing", "done"}]]
  /\ kern \in [Buffers -> KernelState]
  /\ done \subseteq Seqs
  /\ pc \in [Threads -> PCs]
  /\ seq \in [Threads -> Seqs]
  /\ claim \in [Threads -> Claim]
  /\ req \in [Threads -> Request]
  /\ waits \in [Threads -> SUBSET Seqs]
  /\ out \in [Threads -> [Rows -> Queries \union {NoQuery}]]

RowsOf(t) == claim[t].off .. (claim[t].off + claim[t].cnt - 1)

\* Two threads never hold the same row of the same batch, however often the ring
\* was wrapped between the load of the head and the commit of try_commit().
ClaimsDisjoint ==
  \A t, u \in Threads :
    t # u /\ pc[t] \in Claiming /\ pc[u] \in Claiming /\ seq[t] = seq[u]
      => RowsOf(t) \intersect RowsOf(u) = {}

\* batch_status never meets a state "indicating an error in the algo".
NoInvalidState == \A t \in Threads : pc[t] # "raised"

\* An IO buffer is either offered in exactly one slot of the queue, and then no
\* later kernel of an earlier batch is still to run on it, or owned by the batch
\* that is past its gather kernel: the scatter kernel returns it after its copy,
\* and the next dispatcher finds it unused.
Offers(b) == {s \in Slots : token[s].full /\ token[s].buf = b}
BufferExclusive ==
  \A b \in Buffers :
    CASE kern[b].stage = "idle"   -> Cardinality(Offers(b)) = 1
      [] kern[b].stage = "gather" -> /\ Offers(b) = {Slot(kern[b].seq)}
                                     /\ GatherToken(b).round = Round(kern[b].seq)
                                     /\ \A t \in Threads :
                                          ~(pc[t] = "launch" /\ claim[t].buf = b)
      [] OTHER                    -> Offers(b) = {}

\* When the gather kernel empties the slot it has waited for every query that was
\* committed to the batch, whatever raced with its deadline: each thread that
\* still holds rows of that batch finds its own queries in the batch store.
GatherComplete ==
  \A b \in Buffers, t \in Threads :
    kern[b].stage = "gathered" /\ pc[t] \in Claiming /\ seq[t] = kern[b].seq =>
      /\ claim[t].off + claim[t].cnt <= progress[b]
      /\ \A i \in RowsOf(t) :
           gathered[b][i] = Query(t, req[t].num,
                                  req[t].total - req[t].need + i - claim[t].off)

\* A requester never gets the neighbors of another query, or of a row that the
\* upstream search was not given.
AnswerIsOwn ==
  \A t \in Threads, i \in Rows : out[t][i] \in {NoQuery, Query(t, req[t].num, i)}

\* pop() "makes the given batch slot and all prior slots unreachable (not possible
\* to commit)": a thread that still holds an older head, and has not slept for
\* EmptyOffset rounds of its slot, pops again or looks again and cannot commit there.
PoppedIsDead ==
  \A n \in 0..(head - 1) :
    LET tok == token[Slot(n)]
        st  == Status(tok, n)
    IN  tok.round - Round(n) < EmptyOffset =>
          \/ st \in {kFullPast, kEmptyPast}
          \/ st = kEmptyBusy /\ tok.full
          \/ st \in {kFull, kEmpty} /\ Uncommittable(tok)

\* Once the gather kernel has closed a batch, no thread commits to it any more
\* until the slot is emptied: the blocks that left would not come back.
ClosedStays ==
  [][\A s \in Slots : token[s].closed =>
       \/ token'[s] = token[s]
       \/ ~token'[s].full /\ token'[s].round = token[s].round + 1]_vars

\* When the caller has synchronised with its stream, all its neighbors are there.
ResultsReady ==
  \A t \in Threads : pc[t] = "synced" =>
    \A i \in 0..(req[t].total - 1) : out[t][i] # NoQuery

\* "the batch is dispatched no later than any of the timeouts is exceeded": while a
\* batch gathers, its remaining time is at most that of any thread that has
\* submitted its own.
DeadlineKept ==
  \A t \in Threads, b \in Buffers :
    pc[t] \in {"waitDispatch", "takeSize", "push", "pushWait"}
    /\ kern[b].stage = "gather" /\ kern[b].seq = seq[t]
      => rem[Slot(seq[t])] <= Timeout[t]

\* Conservative dispatch: the size the dispatcher gives to the upstream search is
\* the number of queries of its own batch, not one left from an earlier round.
SizeIsOwn ==
  \A t \in Threads :
    pc[t] \in {"resetSize", "push", "pushWait"} /\ Conservative =>
      LET b == claim[t].buf IN
        kern[b].stage = "gathered" /\ kern[b].seq = seq[t] /\ claim[t].size = progress[b]

\* The index implements SearchService: a query is answered exactly once, with its
\* own neighbors, between the call and the return, and every call returns.
Service == INSTANCE SearchService WITH
  calling <- {t \in Threads : pc[t] # "idle"},
  num     <- [t \in Threads |-> req[t].num],
  size    <- [t \in Threads |-> req[t].total],
  answer  <- out
ServiceSpec == Service!Spec

=============================================================================
