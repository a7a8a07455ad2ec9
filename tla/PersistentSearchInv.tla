------------------------ MODULE PersistentSearchInv ------------------------
(***************************************************************************)
(* The inductive invariants of PersistentSearch: where workers and jobs    *)
(* are, what is in the mailboxes, and how a job's counter and flag belong  *)
(* to the queries that are still to be answered.  PersistentSearchProofs   *)
(* proves them; TLC checks them with ps_inv.cfg.                           *)
(***************************************************************************)
EXTENDS PersistentSearch

-----------------------------------------------------------------------------
(* Types.                                                                  *)

Places == {"idle", "job", "stand", "await", "test", "submit", "poll", "evict", "soft", "drain",
           "ask", "push", "flag", "give", "abandon", "cleanup"}
Launcher == [pc : Places, n : {0} \union ReqSizes, i : Rows, job : Jobs \union {Empty},
             slot : Nat, put : Nat, worker : Ids, old : Ids, pending : Seq(Workers),
             all_done : BOOLEAN,
             then : {"none", "poll", "evict", "soft", "drain", "cleanup"}]
Block == [pc : {"load", "clear", "search", "arrive", "raise", "exited"}, got : Mail,
          desc : Batches]
Runner == [pc : {"up", "pop", "stop", "sync", "down"}, left : 0..NumWorkers, slot : Nat]

QueuesOK == job_queue \in Queue(NumJobs, Jobs) /\ worker_queue \in Queue(WorkerSize, Workers)
RecordsOK ==
  /\ launcher \in [Threads -> Launcher]
  /\ block \in [Workers -> Block]
  /\ runner \in Runner
  /\ mode \in Modes
MemoryOK ==
  /\ worker_handle \in [Workers -> Mail]
  /\ descriptor \in [Jobs -> Batches]
  /\ completion_flag \in [Jobs -> BOOLEAN]
  /\ counter \in [Jobs -> Nat]
  /\ num \in [Threads -> 0..MaxReqs]
  /\ out \in [Threads -> [Rows -> {NoQuery} \union (Threads \X (1..MaxReqs) \X Rows)]]

\* Where a thread is in launch(), whether or not it is just pushing a worker there.
Where(r) == IF r.pc = "push" THEN r.then ELSE r.pc

\* What a launcher has at each place: a job from record_work to the return of the job,
\* a worker in hand to submit to, another to give back, and room for that one.
LauncherInv(r) ==
  /\ r.pc = "push" => r.then # "none"
  /\ r.pc = "give" => r.then \in {"none", "cleanup"}
  /\ r.pc \notin {"push", "give", "cleanup"} => r.then = "none"
  /\ r.pc # "idle" => r.n \in ReqSizes /\ r.i < r.n
  /\ r.job = Empty <=> Where(r) \in {"idle", "job", "cleanup"}
  /\ r.worker = Empty <=> Where(r) \notin {"submit", "evict"}
  /\ r.old = Empty <=>
       Where(r) \notin {"poll", "evict", "soft", "drain", "ask", "abandon", "cleanup"}
  /\ Where(r) \in {"poll", "evict", "soft"} => Len(r.pending) < Capacity(r)
  /\ Where(r) \in {"idle", "job", "flag"} => r.pending = <<>>
  /\ r.pc = "give" /\ r.then = "none" => r.pending = <<>>
  /\ Where(r) \in {"drain", "ask", "flag", "give"} => r.i + 1 = r.n
  /\ r.all_done => Where(r) \in {"drain", "flag", "give"} /\ r.then # "cleanup"
  /\ Len(r.pending) <= Capacity(r)

\* A job is described for a launch before anything refers to it.
Described(j) == j \in Jobs /\ descriptor[j].num > 0
BatchInv ==
  /\ \A t \in Threads : launcher[t].pc # "idle" => num[t] > 0
  /\ \A j \in Jobs : descriptor[j].num > 0 => descriptor[j].thread \in Threads
  /\ \A t \in Threads : launcher[t].job # Empty => Described(launcher[t].job)
  /\ \A w \in Workers : worker_handle[w] \notin {Wait, NoMore} => Described(worker_handle[w].job)
  /\ \A w \in Workers : block[w].pc \notin {"load", "exited"} => Described(block[w].got.job)

TypeInv == QueuesOK /\ RecordsOK /\ MemoryOK /\ (\A t \in Threads : LauncherInv(launcher[t])) /\ BatchInv

-----------------------------------------------------------------------------
(* Who has the workers and the jobs.                                       *)

Entries(s) == {s[p] : p \in DOMAIN s}

\* The workers a launcher has, each in one place.
Held(r) == ({r.worker, r.old} \union Entries(r.pending)) \ {Empty}
Apart(r) ==
  /\ r.worker # Empty => r.worker # r.old /\ r.worker \notin Entries(r.pending)
  /\ r.old # Empty => r.old \notin Entries(r.pending)
  /\ \A p, q \in DOMAIN r.pending : r.pending[p] = r.pending[q] => p = q

\* A queue holds nothing twice, and nothing that a thread has.
Single(q) == \A s, r \in DOMAIN q.buf : q.buf[s] # Empty /\ q.buf[s] = q.buf[r] => s = r
Queued(q) == {q.buf[s] : s \in DOMAIN q.buf} \ {Empty}

WorkersInv ==
  /\ Single(worker_queue)
  /\ \A t \in Threads : Apart(launcher[t]) /\ Held(launcher[t]) \intersect Queued(worker_queue) = {}
  /\ \A t, u \in Threads : t # u => Held(launcher[t]) \intersect Held(launcher[u]) = {}
JobsInv ==
  /\ Single(job_queue)
  /\ \A t \in Threads : launcher[t].job \notin Queued(job_queue)
  /\ \A t, u \in Threads : launcher[t].job # Empty /\ launcher[t].job = launcher[u].job => t = u
OwnersInv == WorkersInv /\ JobsInv

HandsInv == TypeInv /\ OwnersInv

-----------------------------------------------------------------------------
(* The queries of a job, as long as nobody is late.                        *)

\* How many queries a launcher has put into mailboxes.
Submitted(r) ==
  IF Where(r) \in {"job", "stand", "await", "test", "submit", "poll"} THEN r.i ELSE r.i + 1

\* The workers that have a query of job j in the mailbox; that have taken one out and not
\* counted it; and that are to raise the flag.
InMail(j)  == {w \in Workers : worker_handle[w].job = j}
InBlock(j) == {w \in Workers : block[w].pc \in {"search", "arrive"} /\ block[w].got.job = j}
Raising(j) == {w \in Workers : block[w].pc = "raise" /\ block[w].got.job = j}

Outstanding(j) == Cardinality(InMail(j)) + Cardinality(InBlock(j))
Finished(j)    == completion_flag[j] \/ Raising(j) # {}

\* No thread has missed its deadline.
InTimeInv ==
  \A t \in Threads :
    /\ launcher[t].pc \notin {"abandon", "cleanup"} /\ launcher[t].then # "cleanup"
    /\ launcher[t].pc = "job" => launcher[t].i = 0

\* The counter of a job in use counts the submitted queries that are not outstanding any
\* more, up to the last, and then the flag is raised; an unused job has left no trace.
Counted(r, count, outstanding, finished) ==
  IF finished THEN Submitted(r) = r.n /\ outstanding = 0 /\ count = 0
              ELSE count < r.n /\ count + outstanding = Submitted(r)
Counts(t, j) ==
  /\ Counted(launcher[t], counter[j], Outstanding(j), Finished(j))
  /\ launcher[t].all_done \/ launcher[t].pc = "give" => completion_flag[j]
  /\ descriptor[j] = [thread |-> t, num |-> num[t], n |-> launcher[t].n]
CountInv == \A t \in Threads : \A j \in Jobs : launcher[t].job = j => Counts(t, j)
Traceless(j) == Outstanding(j) = 0 /\ counter[j] = 0 /\ Raising(j) = {}
UnusedInv == \A j \in Jobs : (\A t \in Threads : launcher[t].job # j) => Traceless(j)

\* A flag is raised once, with the description of its batch.
RaiseInv ==
  \A w \in Workers : \A j \in Jobs :
    /\ w \in Raising(j) => ~completion_flag[j] /\ Raising(j) = {w}
    /\ block[w].pc = "arrive" /\ block[w].got.job = j => block[w].desc = descriptor[j]
    /\ block[w].pc \in {"load", "exited"} => block[w].got.job # j

\* The workers a launcher has given work to, and has not found idle since.
GivenWork(r) == (Entries(r.pending) \union {r.old}) \ {Empty}
Working(r) ==
  (IF r.pc = "push" THEN Entries(r.pending) ELSE GivenWork(r))
    \union (IF Where(r) = "evict" THEN {r.worker} ELSE {})

\* A mailbox is full only while a launcher has the worker and waits for it; the block that
\* has read it finds it unchanged when it empties it.
MailInv ==
  /\ \A w \in Workers : Busy(w) => \E t \in Threads :
       w \in Working(launcher[t]) /\ worker_handle[w].job = launcher[t].job
  /\ \A w \in Workers : block[w].pc = "clear" => worker_handle[w] = block[w].got

\* A worker that has not been stopped is in the queue or with a thread; so is a job.
WorkersThere ==
  \A w \in Workers :
    worker_handle[w] = NoMore <=>
      w \notin Queued(worker_queue) /\ \A t \in Threads : w \notin Held(launcher[t])
JobsThere == \A j \in Jobs : j \in Queued(job_queue) \/ \E t \in Threads : launcher[t].job = j
ThereInv  == WorkersThere /\ JobsThere

\* What of that does not depend on the counters: until the destructor runs, every worker is in
\* the queue or with a thread; and every job is, always.
WorkersKept ==
  runner.pc = "up" =>
    \A w \in Workers : w \in Queued(worker_queue) \/ \E t \in Threads : w \in Held(launcher[t])
Kept    == InTimeInv /\ JobsThere /\ WorkersKept
KeptInv == ~mode.late => Kept

\* Every job is in one place, and every worker is until the destructor runs.
NoneLeaks == ~mode.late =>
  /\ runner.pc = "up" => \A w \in Workers : Cardinality(WorkerPlaces(w)) = 1
  /\ \A j \in Jobs : Cardinality(JobPlaces(j)) = 1

\* The counters start at 0.  The constructor of the runner does not see to it: it allocates
\* completion_counters and never clears it.
Zeroed == \A j \in Jobs : counter[j] = 0
CountersBelow == counter \in [Jobs -> 0..(MaxSize - 1)]

Completion == InTimeInv /\ CountInv /\ UnusedInv /\ RaiseInv /\ MailInv /\ ThereInv
CompletionInv == ~mode.late => Completion
-----------------------------------------------------------------------------
(* The answers, as long as nobody is late.                                 *)

\* The workers that have query i of job j in the mailbox, and those that search it.
Unread(j, i)    == {w \in Workers : worker_handle[w] = [job |-> j, query |-> i]}
Searching(j, i) == {w \in Workers : block[w].pc = "search"
                                    /\ block[w].got = [job |-> j, query |-> i]}
Gone(j, i)   == Unread(j, i) = {} /\ Searching(j, i) = {}
OnTheWay(j, i) == \E w \in Workers : \/ Unread(j, i) = {w} /\ Searching(j, i) = {}
                                     \/ Unread(j, i) = {} /\ Searching(j, i) = {w}

\* A query is with one worker from its submission until it is answered, and with none before
\* and after; the answer is its own.
QueryInv(t, j, i) ==
  IF i < Submitted(launcher[t])
  THEN \/ out[t][i] = NoQuery /\ OnTheWay(j, i)
       \/ out[t][i] = <<t, num[t], i>> /\ Gone(j, i)
  ELSE out[t][i] = NoQuery /\ Gone(j, i)
Answers ==
  \A t \in Threads : \A i \in Rows :
    /\ launcher[t].pc = "job" => out[t][i] = NoQuery
    /\ \A j \in Jobs : launcher[t].job = j => QueryInv(t, j, i)
AnswersInv == ~mode.late => Answers
=============================================================================
