------------------------------ MODULE RunnerCache ------------------------------
(***************************************************************************)
(* The one persistent runner that searches share:                          *)
(* cpp/src/neighbors/detail/cagra/search_single_cta_kernel-inl.cuh, from   *)
(* persistent_state to select_and_run, with the constructor, destructor    *)
(* and time stamp of persistent_runner_t.                                  *)
(*                                                                         *)
(* A runner is a kernel that occupies the GPU until the runner is          *)
(* destroyed.  The global persistent.runner refers to the newest one;      *)
(* every thread has a weak pointer to the one it used last; a search holds *)
(* a strong reference.  A search with other parameters replaces the        *)
(* runner.  Each runner has a detached thread that drops the global        *)
(* reference when no search has touched the runner for its lifetime.       *)
(* Whoever drops the last reference runs the destructor, which waits for   *)
(* the kernel to end.  PersistentSearch shows how launches and the         *)
(* destructor come to an end; here they are steps.                         *)
(***************************************************************************)
EXTENDS Integers, Sequences, FiniteSets, Functions

CONSTANTS
  Threads,     \* host threads that search
  Params,      \* the arguments of create_runner
  Asks,        \* bound: thread -> those it searches with
  Late,        \* bound: threads that may miss their deadline
  Hash,        \* [Params -> Nat], calculate_parameter_hash
  MaxCalls,    \* bound: thread -> number of its searches
  Fits,        \* whether the GPU has room for two kernels
  InitWaits    \* whether the constructor's stream waits for that room, too

ASSUME CacheAssumption ==
  /\ Params # {} /\ Hash \in [Params -> Nat]
  /\ Asks \in [Threads -> SUBSET Params] /\ MaxCalls \in [Threads -> Nat]
  /\ Late \subseteq Threads
  /\ Fits \in BOOLEAN /\ InitWaits \in BOOLEAN

None == 0

VARIABLES
  pc,       \* thread -> where it is in select_and_run
  want,     \* thread -> the parameters of its search
  weak,     \* thread -> the runner its thread_local weak pointer is for
  mine,     \* thread -> the runner it holds a reference to
  calls,    \* thread -> searches so far
  current,  \* persistent.runner
  lock,     \* persistent.lock: free, or who holds it
  runner    \* runners so far: hash and parameters they were created with, whether
            \* last_touch is within the lifetime, the kernel, who destroys it, the
            \* keep-alive thread, whether no launch on it has thrown

vars == <<pc, want, weak, mine, calls, current, lock, runner>>

Runners == DOMAIN runner
Free == <<"free">>         \* nobody holds the lock, or runs the destructor

\* A keep-alive thread has a reference while it looks at the time or waits for
\* the lock.
KeeperHolds(r) == runner[r].keeper \in {"look", "lock"}
Users(r)       == {t \in Threads : mine[t] = r}
\* Whether weak.lock() gets a reference.
Alive(r)       == r # None /\ (current = r \/ KeeperHolds(r) \/ Users(r) # {})
\* The runners when actor drops a reference: the last one runs the destructor,
\* which tells the kernel to stop.
Dropped(r, last, actor) ==
  IF last THEN [runner EXCEPT ![r].by = actor] ELSE runner
\* Whatever destructor actor ran has come to its end.
Buried(actor) == \A r \in Runners : runner[r].by # actor

Kernels(k) == {r \in Runners : runner[r].kernel = k}

-----------------------------------------------------------------------------
Init ==
  /\ pc = [t \in Threads |-> "idle"] /\ want = [t \in Threads |-> CHOOSE p \in Params : TRUE]
  /\ weak = [t \in Threads |-> None] /\ mine = [t \in Threads |-> None]
  /\ calls = [t \in Threads |-> 0]
  /\ current = None /\ lock = Free /\ runner = <<>>

Search(t, p) ==
  /\ pc[t] = "idle" /\ calls[t] < MaxCalls[t]
  /\ calls' = [calls EXCEPT ![t] = @ + 1]
  /\ want' = [want EXCEPT ![t] = p]
  /\ pc' = [pc EXCEPT ![t] = "get"]
  /\ UNCHANGED <<weak, mine, current, lock, runner>>

(* get_runner *)

GetRunnerOfAny(t) ==                             \* mutant: the hashes are not compared
  /\ pc[t] = "get"
  /\ IF Alive(weak[t])
     THEN /\ mine' = [mine EXCEPT ![t] = weak[t]]
          /\ pc' = [pc EXCEPT ![t] = "launch"]
     ELSE /\ pc' = [pc EXCEPT ![t] = "create"]
          /\ UNCHANGED mine
  /\ UNCHANGED <<want, weak, calls, current, lock, runner>>

\* weak.lock(), and the comparison of the hashes; the reference is kept, or
\* dropped in another step.
GetRunner(t) ==
  /\ pc[t] = "get"
  /\ IF Alive(weak[t])
     THEN /\ mine' = [mine EXCEPT ![t] = weak[t]]
          /\ pc' = [pc EXCEPT ![t] = IF runner[weak[t]].hash = Hash[want[t]]
                                     THEN "launch" ELSE "other"]
     ELSE /\ pc' = [pc EXCEPT ![t] = "create"]
          /\ UNCHANGED mine
  /\ UNCHANGED <<want, weak, calls, current, lock, runner>>

\* weak.reset(), runner.reset()
ForgetOther(t) ==
  /\ pc[t] = "other"
  /\ weak' = [weak EXCEPT ![t] = None]
  /\ mine' = [mine EXCEPT ![t] = None]
  /\ LET r == mine[t]
         last == current # r /\ ~KeeperHolds(r) /\ Users(r) = {t}
     IN  runner' = Dropped(r, last, <<"thread", t>>)
  /\ pc' = [pc EXCEPT ![t] = "create"]
  /\ UNCHANGED <<want, calls, current, lock>>

(* create_runner, under the lock *)

LockAndLookOnly(t) ==                            \* mutant: the lock is not held on
  /\ pc[t] = "create" /\ Buried(<<"thread", t>>) /\ lock = Free
  /\ IF current # None /\ runner[current].hash = Hash[want[t]]
     THEN /\ mine' = [mine EXCEPT ![t] = current]
          /\ weak' = [weak EXCEPT ![t] = current]
          /\ pc' = [pc EXCEPT ![t] = "launch"]
          /\ UNCHANGED <<current, runner>>
     ELSE /\ current' = None
          /\ LET last == ~KeeperHolds(current) /\ Users(current) = {}
             IN  runner' = IF current = None THEN runner
                           ELSE Dropped(current, last, <<"thread", t>>)
          /\ pc' = [pc EXCEPT ![t] = "spawn"]
          /\ UNCHANGED <<mine, weak>>
  /\ UNCHANGED <<want, calls, lock>>

\* The current runner will do, or it is dropped: if nobody else has it, its
\* destructor runs here.
LockAndLook(t) ==
  /\ pc[t] = "create" /\ Buried(<<"thread", t>>) /\ lock = Free
  /\ IF current # None /\ runner[current].hash = Hash[want[t]]
     THEN /\ mine' = [mine EXCEPT ![t] = current]
          /\ weak' = [weak EXCEPT ![t] = current]
          /\ pc' = [pc EXCEPT ![t] = "launch"]
          /\ UNCHANGED <<lock, current, runner>>
     ELSE /\ lock' = <<"thread", t>>
          /\ current' = None
          /\ LET last == ~KeeperHolds(current) /\ Users(current) = {}
             IN  runner' = IF current = None THEN runner
                           ELSE Dropped(current, last, <<"thread", t>>)
          /\ pc' = [pc EXCEPT ![t] = "spawn"]
          /\ UNCHANGED <<mine, weak>>
  /\ UNCHANGED <<want, calls>>

\* The new thread constructs the runner and launches the kernel, while this one
\* holds the lock and waits.
Spawn(t) ==
  /\ pc[t] = "spawn" /\ Buried(<<"thread", t>>)
  /\ InitWaits => Fits \/ Kernels("running") = {}
  /\ runner' = Append(runner, [params |-> want[t], hash |-> Hash[want[t]],
                              fresh |-> TRUE, kernel |-> "queued", by |-> Free,
                              keeper |-> "sleep", whole |-> TRUE])
  /\ current' = Len(runner')
  /\ mine' = [mine EXCEPT ![t] = Len(runner')]
  /\ weak' = [weak EXCEPT ![t] = Len(runner')]
  /\ lock' = Free
  /\ pc' = [pc EXCEPT ![t] = "launch"]
  /\ UNCHANGED <<want, calls>>

(* launch *)

Using == {t \in Threads : pc[t] \in {"launch", "wait"}}

\* The queries are submitted, and the runner touched.
Launch(t) ==
  /\ pc[t] = "launch"
  /\ runner' = [runner EXCEPT ![mine[t]].fresh = TRUE]
  /\ pc' = [pc EXCEPT ![t] = "wait"]
  /\ UNCHANGED <<want, weak, mine, calls, current, lock>>

AnsweredKeeping(t) ==                            \* mutant: the thread keeps the reference
  /\ pc[t] = "wait" /\ runner[mine[t]].kernel = "running"
  /\ pc' = [pc EXCEPT ![t] = "leave"]
  /\ UNCHANGED <<want, weak, mine, calls, current, lock, runner>>

\* launch() is left, and the reference that select_and_run had is dropped.
Release(t) ==
  /\ mine' = [mine EXCEPT ![t] = None]
  /\ pc' = [pc EXCEPT ![t] = "leave"]
  /\ UNCHANGED <<want, weak, calls, current, lock>>
IsLastUser(t) == LET r == mine[t] IN current # r /\ ~KeeperHolds(r) /\ Users(r) = {t}

\* The kernel answers.
Answered(t) ==
  /\ pc[t] = "wait" /\ runner[mine[t]].kernel = "running"
  /\ runner' = Dropped(mine[t], IsLastUser(t), <<"thread", t>>)
  /\ Release(t)

\* pause() throws after the deadline, before or after all queries are submitted.
\* Workers of the kernel may be lost, so that the destructor waits for them for ever
\* (PersistentSearch has the details).
Throw(t) ==
  /\ t \in Using \intersect Late
  /\ LET left == Dropped(mine[t], IsLastUser(t), <<"thread", t>>)
     IN  runner' = [left EXCEPT ![mine[t]].whole = FALSE]
  /\ Release(t)

Leave(t) ==
  /\ pc[t] = "leave" /\ Buried(<<"thread", t>>)
  /\ pc' = [pc EXCEPT ![t] = "idle"]
  /\ UNCHANGED <<want, weak, mine, calls, current, lock, runner>>

-----------------------------------------------------------------------------
(* The keep-alive thread of runner r. *)
Keeper(r, to) == [runner EXCEPT ![r].keeper = to]

\* After a sleep: runner_weak.lock()
Wake(r) ==
  /\ runner[r].keeper = "sleep" /\ Buried(<<"keeper", r>>)
  /\ runner' = Keeper(r, IF Alive(r) THEN "look" ELSE "exit")
  /\ UNCHANGED <<pc, want, weak, mine, calls, current, lock>>

\* A runner that was touched lately is let alone; the reference is dropped.
LookFresh(r) ==
  /\ runner[r].keeper = "look" /\ runner[r].fresh
  /\ LET kept == Keeper(r, "sleep")
     IN  runner' = IF current = r \/ Users(r) # {} THEN kept
                   ELSE [kept EXCEPT ![r].by = <<"keeper", r>>]
  /\ UNCHANGED <<pc, want, weak, mine, calls, current, lock>>

LookStale(r) ==
  /\ runner[r].keeper = "look" /\ ~runner[r].fresh
  /\ runner' = Keeper(r, "lock")
  /\ UNCHANGED <<pc, want, weak, mine, calls, current, lock>>

DropCurrentWhenFresh(r) ==                       \* mutant: looks again under the lock
  /\ runner[r].keeper = "lock" /\ lock = Free
  /\ current' = IF current = r /\ ~runner[r].fresh THEN None ELSE current
  /\ LET gone == Keeper(r, "exit")
     IN  runner' = IF Users(r) # {} \/ current' = r THEN gone
                   ELSE [gone EXCEPT ![r].by = <<"keeper", r>>]
  /\ UNCHANGED <<pc, want, weak, mine, calls, lock>>

\* Under the lock: the global reference goes, if it is to r.  The lock is given
\* back first, then the thread's own reference.
DropCurrent(r) ==
  /\ runner[r].keeper = "lock" /\ lock = Free
  /\ current' = IF current = r THEN None ELSE current
  /\ LET gone == Keeper(r, "exit")
     IN  runner' = IF Users(r) # {} THEN gone
                   ELSE [gone EXCEPT ![r].by = <<"keeper", r>>]
  /\ UNCHANGED <<pc, want, weak, mine, calls, lock>>

(* Time and the GPU. *)

\* A lifetime has passed since the runner was touched; it matters while the
\* keep-alive thread may look.
Age(r) ==
  /\ runner[r].fresh /\ runner[r].keeper \in {"sleep", "look"}
  /\ runner' = [runner EXCEPT ![r].fresh = FALSE]
  /\ UNCHANGED <<pc, want, weak, mine, calls, current, lock>>

\* A cooperative launch waits until there is room for all blocks.
Start(r) ==
  /\ runner[r].kernel = "queued" /\ (Fits \/ Kernels("running") = {})
  /\ runner' = [runner EXCEPT ![r].kernel = "running"]
  /\ UNCHANGED <<pc, want, weak, mine, calls, current, lock>>

\* The kernel has been told to stop, and ~persistent_runner_t returns.
End(r) ==
  /\ runner[r].kernel = "running" /\ runner[r].by # Free
  /\ runner' = [runner EXCEPT ![r].kernel = "gone", ![r].by = Free]
  /\ UNCHANGED <<pc, want, weak, mine, calls, current, lock>>

-----------------------------------------------------------------------------
ThreadStep(t) == \/ GetRunner(t) \/ ForgetOther(t) \/ LockAndLook(t) \/ Spawn(t)
                 \/ Launch(t) \/ Answered(t) \/ Leave(t)
KeeperStep(r) == Wake(r) \/ LookFresh(r) \/ LookStale(r) \/ DropCurrent(r)

Next ==
  \/ \E t \in Threads : \E p \in Asks[t] : Search(t, p)
  \/ \E t \in Threads : ThreadStep(t) \/ Throw(t)
  \/ \E r \in Runners : KeeperStep(r) \/ Age(r) \/ Start(r) \/ End(r)

\* Each search creates at most one runner.
MaxRunners == FoldFunction(+, 0, MaxCalls)

\* Threads and kernels run, and time passes; nobody has to search or to throw.  The
\* destructor of a runner comes to its end if no launch on it has thrown.
Fairness ==
  /\ \A t \in Threads : WF_vars(ThreadStep(t))
  /\ \A r \in 1..MaxRunners :
       /\ WF_vars(r \in Runners /\ KeeperStep(r)) /\ WF_vars(r \in Runners /\ Age(r))
       /\ WF_vars(r \in Runners /\ Start(r)) /\ WF_vars(r \in Runners /\ runner[r].whole /\ End(r))

Spec == Init /\ [][Next]_vars /\ Fairness

-----------------------------------------------------------------------------
Actors == {Free} \union ({"thread"} \X Threads) \union ({"keeper"} \X Nat)
RunnerSet == [params : Params, hash : Nat, fresh : BOOLEAN,
              kernel : {"queued", "running", "gone"}, by : Actors,
              keeper : {"sleep", "look", "lock", "exit"}, whole : BOOLEAN]

\* The types; whoever holds the lock is creating a runner.
TypeOK ==
  /\ pc \in [Threads -> {"idle", "get", "other", "create", "spawn", "launch", "wait", "leave"}]
  /\ want \in [Threads -> Params]
  /\ runner \in Seq(RunnerSet)
  /\ weak \in [Threads -> Runners \union {None}]
  /\ mine \in [Threads -> Runners \union {None}]
  /\ calls \in [Threads -> Nat] /\ \A t \in Threads : calls[t] <= MaxCalls[t]
  /\ current \in Runners \union {None}
  /\ \A t \in Threads : lock = <<"thread", t>> <=> pc[t] = "spawn"
  /\ lock \in {Free} \union ({"thread"} \X Threads)

\* A search runs with a runner whose parameters have the hash of its own, and nobody
\* destroys that runner meanwhile, though others replace it, its keep-alive thread
\* drops it and others throw (weak.lock(), create_runner, launch).
RunnerMatches ==
  \A t \in Using :
    LET r == runner[mine[t]] IN
    Hash[r.params] = Hash[want[t]] /\ r.by = Free /\ r.kernel # "gone"

\* As long as no launch has thrown, every search ends: nobody waits for ever for the
\* lock, for a destructor or for room on the GPU (select_and_run).
Thrown == \E r \in Runners : ~runner[r].whole
EverySearchEnds == \A t \in Threads : pc[t] # "idle" ~> pc[t] = "idle" \/ Thrown

\* As long as no launch has thrown, a kernel leaves the GPU when the searches have
\* stopped (the keep-alive thread).
KernelsLeave ==
  \A r \in 1..MaxRunners :
    (r \in Runners /\ runner[r].kernel # "gone")
      ~> (r \in Runners /\ runner[r].kernel = "gone") \/ Thrown

\* "Calculate the hash of the parameters to detect if they've changed across the
\* calls" (calculate_parameter_hash): a search runs with its own parameters.  The
\* code does not have this property, as parameters may differ and have one hash.
RunnerIsOwn == \A t \in Using : runner[mine[t]].params = want[t]

-----------------------------------------------------------------------------
(* The inductive invariant.                                                *)

\* A runner has the hash of its parameters.  It lives as long as somebody has a
\* reference, and no longer: whoever drops the last one destroys it.
RunnerInv ==
  \A r \in Runners :
    /\ runner[r].hash = Hash[runner[r].params]
    /\ Alive(r) <=> runner[r].by = Free /\ runner[r].kernel # "gone"

\* A thread has a reference from get_runner to the answer, to a runner with the
\* hash of its parameters once it launches; nobody but the thread that creates a
\* runner sets the global reference, which it has dropped before.
ThreadInv ==
  \A t \in Threads :
    /\ mine[t] # None <=> pc[t] \in {"other", "launch", "wait"}
    /\ t \in Using => runner[mine[t]].hash = Hash[want[t]]
    /\ pc[t] = "spawn" => current = None

CacheInv == TypeOK /\ RunnerInv /\ ThreadInv
=============================================================================
