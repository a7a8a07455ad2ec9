--------------------------- MODULE PersistentSearch ---------------------------
(***************************************************************************)
(* The persistent CAGRA search:                                            *)
(* cpp/src/neighbors/detail/cagra/search_single_cta_kernel-inl.cuh, from   *)
(* job_desc_t to persistent_runner_t.                                      *)
(*                                                                         *)
(* One kernel runs for ever.  Each of its blocks is a worker with a        *)
(* mailbox of one entry.  A thread that searches pops a free job and       *)
(* describes its batch there, pops an idle worker for every query, puts    *)
(* (job, query) into the worker's mailbox, and gives the worker back to    *)
(* the queue as soon as the mailbox has been emptied, which is before the  *)
(* query is answered.  The worker that answers the last query of the job   *)
(* raises the job's completion flag.                                       *)
(*                                                                         *)
(* Each atomic access to shared memory is an action.                       *)
(***************************************************************************)
EXTENDS Integers, Sequences, FiniteSets

CONSTANTS
  Threads,      \* host threads that call launch()
  NumWorkers,   \* blocks of the kernel, calc_coop_grid_size()
  WorkerSize,   \* kMaxWorkersNum, size of the queue of idle workers
  NumJobs,      \* kMaxJobsNum, size of the job queue and number of jobs
  Increment,    \* kCounterIncrement, coprime with both sizes
  SoftMax,      \* kSoftMaxWorkersPerThread
  ReqSizes,     \* numbers of queries in a batch
  MaxReqs,      \* bound: launches of a thread
  Modes,        \* the instances that are checked together, see ModesAssumption
  Initially,    \* what the memory of completion_counters may hold at first
  Pauses        \* whether a thread may be paused in the loop that tests a
                \* promise for as long as the others need to go round the ring

ASSUME ConstantsAssumption ==
  /\ NumWorkers \in Nat \ {0} /\ WorkerSize \in Nat /\ NumWorkers <= WorkerSize
  /\ NumJobs \in Nat \ {0} /\ Increment \in Nat \ {0}
  /\ SoftMax \in Nat \ {0} /\ MaxReqs \in Nat
  /\ ReqSizes \subseteq Nat \ {0} /\ \E n \in ReqSizes : \A m \in ReqSizes : m <= n
  /\ Initially \subseteq Nat /\ Pauses \in BOOLEAN

\* static_assert(std::gcd(kCounterIncrement, kSize) == 1): all slots are used.
ASSUME IncrementAssumption ==
  \A size \in {NumJobs, WorkerSize} : \A k, l \in 0..(size - 1) :
    (k * Increment) % size = (l * Increment) % size => k = l

\* late: whether threads may miss their deadline in pause(); max_pending:
\* kMaxWorkersPerThread; launches, batch: how often each thread calls launch() and
\* with how many queries.
ASSUME ModesAssumption ==
  Modes \subseteq [late : BOOLEAN, max_pending : Nat \ {0},
                  launches : [Threads -> 0..MaxReqs], batch : [Threads -> ReqSizes]]

Workers == 0..(NumWorkers - 1)
Jobs    == 0..(NumJobs - 1)
MaxSize == CHOOSE n \in ReqSizes : \A m \in ReqSizes : m <= n
Rows    == 0..(MaxSize - 1)

Empty   == -1                                     \* kEmpty, no id
NoQuery == <<>>                                   \* a result nobody has written
Wait    == [job |-> -1, query |-> -1]             \* kWaitForWork
NoMore  == [job |-> -2, query |-> -2]             \* kNoMoreWork

VARIABLES
  job_queue, worker_queue,  \* resource_queue_t: head, tail, buf
  worker_handle,  \* worker -> its mailbox
  descriptor,     \* job -> whose results, of which request, how many queries
  completion_flag,
  counter,        \* job -> completion_counters
  launcher,       \* thread -> launcher_t and the position in launch()
  block,          \* worker -> position of the block in search_kernel_p
  runner,         \* the destructor: position and workers still to be stopped
  num,            \* thread -> number of its current launch
  out,            \* thread, row -> the query whose result was written there
  mode            \* the instance

queues == <<job_queue, worker_queue>>
jobVars == <<descriptor, completion_flag, counter>>
vars == <<queues, worker_handle, jobVars, launcher, block, runner, num, out, mode>>

-----------------------------------------------------------------------------
(* resource_queue_t.  head and tail count the pushes and the pops; the code's *)
(* counters are these times kCounterIncrement.                             *)
Slot(q, k) == (k * Increment) % Cardinality(DOMAIN q.buf)

\* The queue that the constructor of the runner has filled with 0..n-1.
Filled(size, n) ==
  [head |-> n, tail |-> 0,
   buf  |-> [s \in 0..(size - 1) |->
               LET k == CHOOSE k \in 0..(size - 1) : (k * Increment) % size = s
               IN  IF k < n THEN k ELSE Empty]]

\* pop() stands in line: the promise is for the value of the push of that number.
Promised(q)  == [q EXCEPT !.tail = @ + 1]
\* push() takes its number, and waits until the slot is empty to put the value there.
Reserved(q)  == [q EXCEPT !.head = @ + 1]
Put(q, k, x) == [q EXCEPT !.buf[Slot(q, k)] = x]
Value(q, k)  == q.buf[Slot(q, k)]
\* wait() and test() exchange the value with the empty one.
Ready(q, k)  == Value(q, k) # Empty
TakenByLoad(q, k) == q                           \* mutant: a load, no exchange
Taken(q, k)  == Put(q, k, Empty)

-----------------------------------------------------------------------------
Busy(w) == worker_handle[w] \notin {Wait, NoMore}         \* is_worker_busy

\* slot is the promise's place, put the place reserved by a push, worker the one
\* to submit to, old the one to give back, then the position after a push.
NoLauncher == [pc |-> "idle", n |-> 0, i |-> 0, job |-> Empty, slot |-> 0, put |-> 0,
               worker |-> Empty, old |-> Empty, pending |-> <<>>,
               all_done |-> FALSE, then |-> "none"]

\* pending_reads{min(n_queries, kMaxWorkersPerThread)}
Capacity(r) == IF r.n <= mode.max_pending THEN r.n ELSE mode.max_pending

\* launch() is left; how many queries it had is remembered for Promise.
Left(r) == [NoLauncher EXCEPT !.n = r.n]

\* Take the oldest of the pending workers in hand and go to pc.
PopOld(r, pc) == [r EXCEPT !.old = Head(r.pending), !.pending = Tail(r.pending),
                           !.pc = pc]
\* wait(): the next pending worker, or the flag.
Drain(r)   == IF r.pending # <<>> THEN PopOld(r, "drain")
              ELSE [r EXCEPT !.pc = "flag", !.old = Empty]
\* The next query of the batch, or wait().
Advance(r) == IF r.i + 1 < r.n
              THEN [r EXCEPT !.i = @ + 1, !.pc = "stand", !.old = Empty]
              ELSE Drain(r)
\* The tail of submit_query and of the loop after it: the worker is remembered,
\* and beyond the soft maximum the oldest one is offered back.
Keep(r) ==
  LET kept == [r EXCEPT !.pending = Append(@, r.worker), !.worker = Empty,
                        !.old = Empty]
  IN  IF r.i >= SoftMax THEN PopOld(kept, "soft") ELSE Advance(kept)
\* ~launcher_t: the next pending worker is pushed, or the exception leaves launch().
CleanUp(r) == IF r.pending # <<>> THEN PopOld(r, "cleanup") ELSE Left(r)
\* pending_reads.push_front
Return(r)  == [r EXCEPT !.pending = <<r.old>> \o @, !.old = Empty]

\* A block that is waiting for its mailbox; what it read before is dead.
NoDescriptor == [thread |-> Empty, num |-> 0, n |-> 0]
Looping      == [pc |-> "load", got |-> Wait, desc |-> NoDescriptor]

Become(t, r) == launcher' = [launcher EXCEPT ![t] = r]

-----------------------------------------------------------------------------
Init ==
  /\ job_queue = Filled(NumJobs, NumJobs)
  /\ worker_queue = Filled(WorkerSize, NumWorkers)
  /\ worker_handle = [w \in Workers |-> Wait]
  /\ descriptor = [j \in Jobs |-> NoDescriptor]
  /\ completion_flag = [j \in Jobs |-> FALSE]
  /\ counter \in [Jobs -> Initially]
  /\ launcher = [t \in Threads |-> NoLauncher]
  /\ block = [w \in Workers |-> Looping]
  /\ runner = [pc |-> "up", left |-> NumWorkers, slot |-> 0]
  /\ num = [t \in Threads |-> 0]
  /\ out = [t \in Threads |-> [i \in Rows |-> NoQuery]]
  /\ mode \in Modes

(* A thread in launch(): the constructor of launcher_t. *)

\* job_ids.pop()
Launch(t) == LET n == mode.batch[t] IN
  /\ launcher[t].pc = "idle" /\ num[t] < mode.launches[t] /\ runner.pc = "up"
  /\ num' = [num EXCEPT ![t] = @ + 1]
  /\ out' = [out EXCEPT ![t] = [i \in Rows |-> NoQuery]]
  /\ Become(t, [NoLauncher EXCEPT !.pc = "job", !.n = n, !.slot = job_queue.tail])
  /\ job_queue' = Promised(job_queue)
  /\ UNCHANGED <<worker_queue, worker_handle, jobVars, block, runner>>

\* .wait(), and record_work: the job's description is written and its completion
\* flag cleared, before any worker can know of them.
TakeJob(t) ==
  LET r == launcher[t]
      j == Value(job_queue, r.slot)
  IN
  /\ r.pc = "job" /\ Ready(job_queue, r.slot)
  /\ job_queue' = Taken(job_queue, r.slot)
  /\ descriptor' = [descriptor EXCEPT ![j] = [thread |-> t, num |-> num[t], n |-> r.n]]
  /\ completion_flag' = [completion_flag EXCEPT ![j] = FALSE]
  /\ Become(t, [r EXCEPT !.pc = "stand", !.slot = 0, !.job = j])
  /\ UNCHANGED <<counter, worker_queue, worker_handle, block, runner, num, out>>

\* idle_worker_ids.pop(); the first query is waited for at once.
StandInLine(t) ==
  LET r == launcher[t] IN
  /\ r.pc = "stand"
  /\ Become(t, [r EXCEPT !.pc = IF r.i = 0 THEN "await" ELSE "test",
                         !.slot = worker_queue.tail])
  /\ worker_queue' = Promised(worker_queue)
  /\ UNCHANGED <<job_queue, worker_handle, jobVars, block, runner, num, out>>

TakeWorker(t) ==
  LET r == launcher[t] IN
  /\ r.pc \in {"await", "test"} /\ Ready(worker_queue, r.slot)
  /\ worker_queue' = Taken(worker_queue, r.slot)
  /\ Become(t, [r EXCEPT !.pc = "submit", !.slot = 0,
                         !.worker = Value(worker_queue, r.slot)])
  /\ UNCHANGED <<job_queue, worker_handle, jobVars, block, runner, num, out>>

TestFailsKeeping(t) ==                           \* mutant: waits with workers in hand
  LET r == launcher[t] IN
  /\ r.pc = "test" /\ ~Ready(worker_queue, r.slot)
  /\ Become(t, [r EXCEPT !.pc = "await"])
  /\ UNCHANGED <<queues, worker_handle, jobVars, block, runner, num, out>>

\* While the promise is not kept: try to give back own workers; without any,
\* wait calmly.
TestFails(t) ==
  LET r == launcher[t] IN
  /\ r.pc = "test" /\ ~Ready(worker_queue, r.slot)
  /\ Become(t, IF r.pending = <<>> THEN [r EXCEPT !.pc = "await"]
               ELSE PopOld(r, "poll"))
  /\ UNCHANGED <<queues, worker_handle, jobVars, block, runner, num, out>>

\* submit_query: into the mailbox; a full local queue must give up its oldest.
Submit(t) ==
  LET r == launcher[t] IN
  /\ r.pc = "submit"
  /\ worker_handle' = [worker_handle EXCEPT ![r.worker] =
                         [job |-> r.job, query |-> r.i]]
  /\ Become(t, IF Len(r.pending) < Capacity(r) THEN Keep(r)
               ELSE PopOld(r, "evict"))
  /\ UNCHANGED <<queues, jobVars, block, runner, num, out>>

\* The bound on pauses: no push of t takes the last number before a thread u in
\* its loop would come round to the slot that it waits for itself.
Overtakes(t) ==
  \E u \in Threads \ {t} : LET r == launcher[u] IN
    /\ "poll" \in {r.pc, r.then}
    /\ worker_queue.head - r.slot >= WorkerSize - 1 - Len(r.pending)

\* try_return_worker with success.  Only the worker empties a mailbox that is
\* full, so the load and the increment of the queue's head are one action.
TryReturn(t) ==
  LET r == launcher[t] IN
  /\ r.pc \in {"poll", "evict", "soft", "drain"}
  /\ r.all_done \/ ~Busy(r.old)
  /\ Pauses \/ ~Overtakes(t)
  /\ Become(t, [r EXCEPT !.pc = "push", !.then = r.pc, !.put = worker_queue.head])
  /\ worker_queue' = Reserved(worker_queue)
  /\ UNCHANGED <<job_queue, worker_handle, jobVars, block, runner, num, out>>

\* The compare-exchange of push(), and on to what the caller does next.
PushWorker(t) ==
  LET p == launcher[t]
      r == [p EXCEPT !.put = 0, !.then = "none"]
  IN
  /\ p.pc = "push" /\ ~Ready(worker_queue, p.put)
  /\ worker_queue' = Put(worker_queue, p.put, p.old)
  /\ Become(t, CASE p.then = "poll" /\ r.pending # <<>> -> PopOld(r, "poll")
                 [] p.then = "poll" /\ r.pending = <<>> ->
                      [r EXCEPT !.pc = "test", !.old = Empty]
                 [] p.then = "evict"   -> Keep(r)
                 [] p.then = "soft"    -> Advance(r)
                 [] p.then = "drain"   -> Drain(r)
                 [] p.then = "cleanup" -> CleanUp(r))
  /\ UNCHANGED <<job_queue, worker_handle, jobVars, block, runner, num, out>>

\* try_return_worker without success: in the constructor the worker is pending
\* again, except that submit_query (evict) insists, with a pause; in wait() the
\* flag is looked at.
TryReturnFails(t) ==
  LET r == launcher[t] IN
  /\ r.pc \in {"poll", "soft", "drain"} /\ Busy(r.old) /\ ~r.all_done
  /\ Become(t, CASE r.pc = "poll"  -> [Return(r) EXCEPT !.pc = "test"]
                 [] r.pc = "soft"  -> Advance(Return(r))
                 [] r.pc = "drain" -> [r EXCEPT !.pc = "ask"])
  /\ UNCHANGED <<queues, worker_handle, jobVars, block, runner, num, out>>

\* is_all_done in between: the answer is kept, and workers are then given back
\* without a look at their mailboxes.
AskAllDone(t) ==
  LET r == launcher[t] IN
  /\ r.pc = "ask"
  /\ Become(t, [r EXCEPT !.pc = "drain", !.all_done = completion_flag[r.job]])
  /\ UNCHANGED <<queues, worker_handle, jobVars, block, runner, num, out>>

\* is_all_done after all workers have been given back.
IsAllDone(t) ==
  LET r == launcher[t] IN
  /\ r.pc = "flag" /\ (r.all_done \/ completion_flag[r.job])
  /\ Become(t, [r EXCEPT !.pc = "give", !.put = job_queue.head])
  /\ job_queue' = Reserved(job_queue)
  /\ UNCHANGED <<worker_queue, worker_handle, jobVars, block, runner, num, out>>

\* job_ids.push(job_id), and launch() returns.
PushJob(t) ==
  LET r == launcher[t] IN
  /\ r.pc = "give" /\ ~Ready(job_queue, r.put)
  /\ job_queue' = Put(job_queue, r.put, r.job)
  /\ Become(t, IF r.then = "cleanup" THEN CleanUp([r EXCEPT !.job = Empty])
               ELSE Left(r))
  /\ UNCHANGED <<worker_queue, worker_handle, jobVars, block, runner, num, out>>

(* The exception of pause(), after the deadline. *)

\* In the constructor: the launcher's destructor does not run, and that of the
\* promise, in the loop that tests it, first waits for the worker.
ThrowInConstructor(t) ==
  LET r == launcher[t] IN
  /\ mode.late /\ r.pc \in {"poll", "evict"} /\ Busy(r.old)
  /\ Become(t, IF r.pc = "poll" THEN [r EXCEPT !.pc = "abandon"] ELSE Left(r))
  /\ UNCHANGED <<queues, worker_handle, jobVars, block, runner, num, out>>

Abandon(t) ==
  LET r == launcher[t] IN
  /\ r.pc = "abandon" /\ Ready(worker_queue, r.slot)
  /\ worker_queue' = Taken(worker_queue, r.slot)
  /\ Become(t, Left(r))
  /\ UNCHANGED <<job_queue, worker_handle, jobVars, block, runner, num, out>>

\* In wait(): ~launcher_t pushes the job and the workers that are pending, busy
\* or not.  The worker in hand is not among them.
ThrowInWait(t) ==
  LET r == launcher[t] IN
  /\ mode.late
  /\ r.pc \in {"ask", "flag"} /\ ~r.all_done
  /\ Become(t, [r EXCEPT !.pc = "give", !.then = "cleanup", !.old = Empty,
                         !.put = job_queue.head])
  /\ job_queue' = Reserved(job_queue)
  /\ UNCHANGED <<worker_queue, worker_handle, jobVars, block, runner, num, out>>

PushBusyAgain(t) ==                              \* mutant: the worker stays pending
  LET r == launcher[t] IN
  /\ r.pc = "cleanup"
  /\ Become(t, [r EXCEPT !.pc = "push", !.then = "cleanup", !.put = worker_queue.head,
                         !.pending = IF Len(@) < 1 THEN <<r.old>> \o @ ELSE @])
  /\ worker_queue' = Reserved(worker_queue)
  /\ UNCHANGED <<job_queue, worker_handle, jobVars, block, runner, num, out>>

\* idle_worker_ids.push() of ~launcher_t.
PushBusy(t) ==
  LET r == launcher[t] IN
  /\ r.pc = "cleanup"
  /\ Become(t, [r EXCEPT !.pc = "push", !.then = "cleanup",
                         !.put = worker_queue.head])
  /\ worker_queue' = Reserved(worker_queue)
  /\ UNCHANGED <<job_queue, worker_handle, jobVars, block, runner, num, out>>

-----------------------------------------------------------------------------
(* A block of search_kernel_p: in its loop, what thread 0 does.            *)

\* The mailbox is full: load it.
Load(w) ==
  /\ block[w].pc = "load" /\ worker_handle[w] # Wait
  /\ block' = [block EXCEPT ![w].got = worker_handle[w],
                 ![w].pc = IF worker_handle[w] = NoMore THEN "exited" ELSE "clear"]
  /\ UNCHANGED <<queues, worker_handle, jobVars, launcher, runner, num, out>>

\* Empty it: from here on the worker may be given back.
Clear(w) ==
  /\ block[w].pc = "clear"
  /\ worker_handle' = [worker_handle EXCEPT ![w] = Wait]
  /\ block' = [block EXCEPT ![w].pc = "search"]
  /\ UNCHANGED <<queues, jobVars, launcher, runner, num, out>>

\* A copy of the job's description; search_core writes the result where it says.
\* (In a batch that was given up the description may be another's by now.)
Search(w) ==
  LET q == block[w].got.query
      d == descriptor[block[w].got.job]
  IN
  /\ block[w].pc = "search"
  /\ out' = IF q \in Rows
            THEN [out EXCEPT ![d.thread][q] = <<d.thread, d.num, q>>] ELSE out
  /\ block' = [block EXCEPT ![w].desc = d, ![w].pc = "arrive"]
  /\ UNCHANGED <<queues, worker_handle, jobVars, launcher, runner, num>>

\* atomicInc(counter, n - 1) starts again from 0 after n - 1.
IncNoWrap(c, n) == c + 1                         \* mutant: a plain increment
Inc(c, n)       == IF c >= n - 1 THEN 0 ELSE c + 1
\* completed_count >= n_queries, with the value before the increment.
IsLastEarly(c, n) == c + 2 >= n                  \* mutant: off by one
IsLast(c, n)      == c + 1 >= n

Arrive(w) ==
  LET b == block[w]
      j == b.got.job
  IN
  /\ b.pc = "arrive"
  /\ counter' = [counter EXCEPT ![j] = Inc(@, b.desc.n)]
  /\ block' = [block EXCEPT ![w] = IF IsLast(counter[j], b.desc.n)
                                   THEN [b EXCEPT !.pc = "raise"] ELSE Looping]
  /\ UNCHANGED <<queues, worker_handle, descriptor, completion_flag, launcher,
                 runner, num, out>>

RaiseFlag(w) ==
  /\ block[w].pc = "raise"
  /\ completion_flag' = [completion_flag EXCEPT ![block[w].got.job] = TRUE]
  /\ block' = [block EXCEPT ![w] = Looping]
  /\ UNCHANGED <<queues, worker_handle, descriptor, counter, launcher, runner, num, out>>

-----------------------------------------------------------------------------
(* ~persistent_runner_t, when the last reference to the runner has gone: no *)
(* thread is in launch().                                                   *)
Destroy ==
  /\ runner.pc = "up" /\ \A t \in Threads : launcher[t].pc = "idle"
  /\ runner' = [runner EXCEPT !.pc = "pop"]
  /\ UNCHANGED <<queues, worker_handle, jobVars, launcher, block, num, out>>

DestroyPopEarly ==                               \* mutant: one worker is forgotten
  /\ runner.pc = "pop"
  /\ IF runner.left > 1
     THEN /\ runner' = [pc |-> "stop", left |-> runner.left - 1,
                        slot |-> worker_queue.tail]
          /\ worker_queue' = Promised(worker_queue)
     ELSE /\ runner' = [runner EXCEPT !.pc = "sync"]
          /\ UNCHANGED worker_queue
  /\ UNCHANGED <<job_queue, worker_handle, jobVars, launcher, block, num, out>>

\* worker_queue.pop() for each worker, then the stream is waited for.
DestroyPop ==
  /\ runner.pc = "pop"
  /\ IF runner.left > 0
     THEN /\ runner' = [pc |-> "stop", left |-> runner.left - 1,
                        slot |-> worker_queue.tail]
          /\ worker_queue' = Promised(worker_queue)
     ELSE /\ runner' = [runner EXCEPT !.pc = "sync"]
          /\ UNCHANGED worker_queue
  /\ UNCHANGED <<job_queue, worker_handle, jobVars, launcher, block, num, out>>

\* The mailbox of the worker tells it to stop.
DestroyStop ==
  /\ runner.pc = "stop" /\ Ready(worker_queue, runner.slot)
  /\ worker_handle' = [worker_handle EXCEPT
                         ![Value(worker_queue, runner.slot)] = NoMore]
  /\ worker_queue' = Taken(worker_queue, runner.slot)
  /\ runner' = [runner EXCEPT !.pc = "pop"]
  /\ UNCHANGED <<job_queue, jobVars, launcher, block, num, out>>

\* cudaStreamSynchronize
DestroySync ==
  /\ runner.pc = "sync" /\ \A w \in Workers : block[w].pc = "exited"
  /\ runner' = [runner EXCEPT !.pc = "down"]
  /\ UNCHANGED <<queues, worker_handle, jobVars, launcher, block, num, out>>

-----------------------------------------------------------------------------
ThreadStep(t) ==
  \/ TakeJob(t) \/ StandInLine(t) \/ TakeWorker(t) \/ TestFails(t)
  \/ Submit(t) \/ TryReturn(t) \/ PushWorker(t) \/ TryReturnFails(t)
  \/ AskAllDone(t) \/ IsAllDone(t) \/ PushJob(t) \/ Abandon(t) \/ PushBusy(t)
Throw(t)     == ThrowInConstructor(t) \/ ThrowInWait(t)
BlockStep(w) == Load(w) \/ Clear(w) \/ Search(w) \/ Arrive(w) \/ RaiseFlag(w)
DestructorStep == DestroyPop \/ DestroyStop \/ DestroySync

Step ==
  \/ \E t \in Threads : Launch(t) \/ ThreadStep(t) \/ Throw(t)
  \/ \E w \in Workers : BlockStep(w)
  \/ Destroy \/ DestructorStep
Next == Step /\ UNCHANGED mode

\* The operating system runs the threads; a cooperative launch has all of its
\* blocks resident, so each of them runs.
Fairness ==
  /\ \A t \in Threads : WF_vars(ThreadStep(t) /\ UNCHANGED mode)
  /\ \A w \in Workers : WF_vars(BlockStep(w) /\ UNCHANGED mode)
  /\ WF_vars(DestructorStep /\ UNCHANGED mode)

Spec == Init /\ [][Next]_vars /\ Fairness
-----------------------------------------------------------------------------
Batches == [thread : Threads \union {Empty}, num : 0..MaxReqs, n : {0} \union ReqSizes]
Mail    == [job : Jobs, query : Rows] \union {Wait, NoMore}
Ids     == Workers \union {Empty}
Queue(size, ids) == [head : Nat, tail : Nat, buf : [0..(size - 1) -> ids \union {Empty}]]

\* The types; a counter stays below the size of the largest batch.
TypeOK ==
  /\ job_queue \in Queue(NumJobs, Jobs)
  /\ worker_queue \in Queue(WorkerSize, Workers)
  /\ worker_handle \in [Workers -> Mail]
  /\ descriptor \in [Jobs -> Batches]
  /\ completion_flag \in [Jobs -> BOOLEAN]
  /\ counter \in [Jobs -> 0..(MaxSize - 1)]
  /\ \A t \in Threads : LET r == launcher[t] IN
       /\ r.pc \in {"idle", "job", "stand", "await", "test", "submit", "poll",
                    "evict", "soft", "drain", "ask", "push", "flag", "give", "abandon", "cleanup"}
       /\ r.n \in {0} \union ReqSizes /\ r.i \in Rows
       /\ r.job \in Jobs \union {Empty} /\ r.worker \in Ids /\ r.old \in Ids
       /\ r.slot \in Nat /\ r.put \in Nat
       /\ r.pending \in Seq(Workers) /\ Len(r.pending) <= Capacity(r)
       /\ r.all_done \in BOOLEAN
       /\ r.then \in {"none", "poll", "evict", "soft", "drain", "cleanup"}
  /\ \A w \in Workers :
       /\ block[w].pc \in {"load", "clear", "search", "arrive", "raise", "exited"}
       /\ block[w].got \in Mail /\ block[w].desc \in Batches
  /\ runner.pc \in {"up", "pop", "stop", "sync", "down"}
  /\ runner.left \in 0..NumWorkers /\ runner.slot \in Nat
  /\ num \in [Threads -> 0..MaxReqs]
  /\ out \in [Threads -> [Rows -> {NoQuery} \union (Threads \X (1..MaxReqs) \X Rows)]]

\* Where the worker w, and the job j, may be found.
WorkerPlaces(w) ==
       {<<"queue", s>> : s \in {s \in DOMAIN worker_queue.buf : worker_queue.buf[s] = w}}
  \union {<<"submits", t>> : t \in {t \in Threads : launcher[t].worker = w}}
  \union {<<"returns", t>> : t \in {t \in Threads : launcher[t].old = w}}
  \union UNION {{<<"pending", t, p>> : p \in {p \in DOMAIN launcher[t].pending :
                                              launcher[t].pending[p] = w}} : t \in Threads}
JobPlaces(j) ==
       {<<"queue", s>> : s \in {s \in DOMAIN job_queue.buf : job_queue.buf[s] = j}}
  \union {<<"launch", t>> : t \in {t \in Threads : launcher[t].job = j}}

\* No worker and no job is ever given to two, whatever is thrown (resource_queue_t,
\* pending_reads and the hand-over between them, ~launcher_t).
NoneTwice ==
  /\ \A w \in Workers : Cardinality(WorkerPlaces(w)) <= 1
  /\ \A j \in Jobs : Cardinality(JobPlaces(j)) <= 1

\* None is lost, either: every worker that has not been stopped
\* is in the queue of idle workers or with exactly one thread, and so is every
\* job.  A thread that throws loses some.
AllThere ==
  /\ \A w \in Workers : Cardinality(WorkerPlaces(w)) =
                         IF worker_handle[w] = NoMore THEN 0 ELSE 1
  /\ \A j \in Jobs : Cardinality(JobPlaces(j)) = 1
NoneLost == ~mode.late => AllThere

\* A job that is back in the queue has left no trace: its counter is at 0 for
\* the next batch, and no mailbox and no block that has still to read or to
\* update the job refers to it (atomicInc of search_kernel_p, wait()).
NoStragglers == mode.late \/
  \A s \in DOMAIN job_queue.buf : LET j == job_queue.buf[s] IN
    j # Empty => /\ counter[j] = 0
                 /\ \A w \in Workers :
                      /\ worker_handle[w].job # j
                      /\ block[w].got.job # j

\* What the persistent search promises: launch() is a search with the caller's
\* own queries that answers each once, before it returns; and it does return,
\* though threads wait for workers while others hold some.  (No promise is made to
\* threads that may be late: their behaviors show nothing to it.)
Promise == INSTANCE SearchService WITH
  calling <- {t \in Threads : launcher[t].pc # "idle" /\ ~mode.late},
  num     <- [t \in Threads |-> IF mode.late THEN 0 ELSE num[t]],
  size    <- [t \in Threads |-> IF mode.late THEN 0 ELSE launcher[t].n],
  answer  <- [t \in Threads |-> IF mode.late THEN [i \in Rows |-> NoQuery] ELSE out[t]]
Implements == Promise!Spec

\* Every launch returns.
LaunchesReturn ==
  \A t \in Threads : launcher[t].pc # "idle" ~> launcher[t].pc = "idle"

\* The destructor of the runner finds all workers and stops the kernel.
ShutdownEnds == runner.pc = "pop" /\ ~mode.late ~> runner.pc = "down"

\* "Try to gracefully cleanup the queue resources if the launcher is being
\* destructed after an exception" (~launcher_t): when no thread is in launch(),
\* all jobs and workers are in the queues again.
GracefulCleanUp ==
  runner.pc = "up" /\ (\A t \in Threads : launcher[t].pc = "idle") => AllThere
=============================================================================
