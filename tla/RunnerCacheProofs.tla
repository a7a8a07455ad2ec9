------------------------- MODULE RunnerCacheProofs -------------------------
(***************************************************************************)
(* Proofs about the runner that searches share: its type, that a runner    *)
(* lives exactly as long as somebody refers to it, and that a search runs  *)
(* with a living runner whose parameters have the hash of its own.         *)
(***************************************************************************)
EXTENDS RunnerCache, TLAPS

-----------------------------------------------------------------------------
\* Init chooses any parameters.
LEMMA Initially ==
  Init => CacheInv
<1> SUFFICES ASSUME Init PROVE CacheInv
  OBVIOUS
<1>1. (CHOOSE p \in Params : TRUE) \in Params
  BY CacheAssumption
<1>2. \A t \in Threads : MaxCalls[t] \in Nat
  BY CacheAssumption
<1>3. runner = <<>> /\ Runners = {} /\ runner \in Seq(RunnerSet)
  BY DEF Init, Runners
<1>4. TypeOK
  BY <1>1, <1>2, <1>3 DEF Init, TypeOK, Free
<1>5. RunnerInv /\ ThreadInv
  BY <1>3 DEF Init, RunnerInv, ThreadInv, Using, None
<1> QED BY <1>4, <1>5 DEF CacheInv

LEMMA NoneIsNoRunner == ASSUME TypeOK PROVE None \notin Runners
BY DEF TypeOK, Runners, None

\* A step that gives runner r a new state.
LEMMA Update ==
  ASSUME TypeOK, NEW r \in Runners, NEW x \in RunnerSet, runner' = [runner EXCEPT ![r] = x]
  PROVE  /\ runner' \in Seq(RunnerSet) /\ Runners' = Runners
         /\ runner'[r] = x /\ \A i \in Runners : i # r => runner'[i] = runner[i]
<1>1. runner \in Seq(RunnerSet)
  BY DEF TypeOK
<1> QED BY <1>1 DEF Runners

\* The last reference to r is dropped, or one that is not the last.
LEMMA Drop ==
  ASSUME TypeOK, NEW r \in Runners, NEW last \in BOOLEAN, NEW a \in Actors
  PROVE  LET left == Dropped(r, last, a) IN
         /\ left \in Seq(RunnerSet) /\ DOMAIN left = Runners
         /\ \A i \in Runners :
              /\ left[i].params = runner[i].params /\ left[i].hash = runner[i].hash
              /\ left[i].kernel = runner[i].kernel /\ left[i].keeper = runner[i].keeper
              /\ left[i].by = IF i = r /\ last THEN a ELSE runner[i].by
<1> DEFINE left == Dropped(r, last, a)
           x == [runner[r] EXCEPT !.by = a]
<1>1. runner \in Seq(RunnerSet) /\ runner[r] \in RunnerSet
  BY DEF TypeOK, Runners
<1>2. /\ x \in RunnerSet /\ x.params = runner[r].params /\ x.hash = runner[r].hash
      /\ x.kernel = runner[r].kernel /\ x.keeper = runner[r].keeper /\ x.by = a
  BY <1>1 DEF RunnerSet
<1>3. last => left = [runner EXCEPT ![r] = x]
  BY DEF Dropped
<1>4. ~last => left = runner
  BY DEF Dropped
<1> HIDE DEF left, x
<1>5. CASE last
  <2>1. /\ left \in Seq(RunnerSet) /\ DOMAIN left = Runners
        /\ left[r] = x /\ \A i \in Runners : i # r => left[i] = runner[i]
    BY <1>1, <1>2, <1>3, <1>5 DEF Runners
  <2> QED BY <2>1, <1>2, <1>5 DEF left
<1>6. CASE ~last
  <2>1. left \in Seq(RunnerSet) /\ DOMAIN left = Runners
    BY <1>1, <1>4, <1>6 DEF Runners
  <2> QED BY <2>1, <1>4, <1>6 DEF left
<1> QED BY <1>5, <1>6

-----------------------------------------------------------------------------
(* The steps of the threads.                                               *)

LEMMA SearchKeeps ==
  ASSUME CacheInv, NEW t \in Threads, NEW p \in Asks[t], Search(t, p) PROVE CacheInv'
<1>1. MaxCalls[t] \in Nat /\ p \in Params
  BY CacheAssumption
<1>2. TypeOK'
  BY <1>1 DEF CacheInv, Search, TypeOK, Runners
<1>3. RunnerInv'
  BY DEF CacheInv, Search, RunnerInv, Runners, Alive, KeeperHolds, Users
<1>4. ThreadInv'
  BY DEF CacheInv, Search, ThreadInv, TypeOK, Using
<1> QED BY <1>2, <1>3, <1>4 DEF CacheInv

LEMMA GetRunnerKeeps ==
  ASSUME CacheInv, NEW t \in Threads, GetRunner(t) PROVE CacheInv'
<1>1. TypeOK'
  BY DEF CacheInv, GetRunner, TypeOK, Runners, Alive, None
<1>2. RunnerInv'
  <2>1. mine[t] = None /\ \A u \in Threads : u # t => mine'[u] = mine[u]
    BY DEF CacheInv, GetRunner, TypeOK, ThreadInv
  <2>2. mine'[t] # None => mine'[t] = weak[t] /\ Alive(weak[t])
    BY <2>1 DEF CacheInv, GetRunner, TypeOK
  <2>3. UNCHANGED <<runner, current>>
    BY DEF GetRunner
  <2>4. \A i \in Runners : i # None /\ (KeeperHolds(i)' <=> KeeperHolds(i))
    BY <2>3, NoneIsNoRunner DEF CacheInv, KeeperHolds
  <2>5. \A i \in Runners : Users(i) \subseteq Users(i)' /\ (Users(i)' # Users(i) => i = weak[t])
    BY <2>1, <2>2, <2>4 DEF Users
  <2>6. \A i \in Runners : Alive(i)' <=> Alive(i)
    <3> SUFFICES ASSUME NEW i \in Runners PROVE Alive(i)' <=> Alive(i)
      OBVIOUS
    <3>1. CASE Users(i)' = Users(i)
      BY <2>3, <2>4, <3>1 DEF Alive
    <3>2. CASE Users(i)' # Users(i)
      <4>1. i = weak[t] /\ Users(i)' # {}
        BY <2>5, <3>2
      <4>2. mine'[t] = i
        BY <2>1, <2>2, <2>4, <3>2, <4>1 DEF Users
      <4> QED BY <2>2, <2>3, <2>4, <4>1, <4>2 DEF Alive
    <3> QED BY <3>1, <3>2
  <2> QED BY <2>3, <2>6 DEF CacheInv, RunnerInv, Runners
<1>3. ThreadInv'
  BY DEF CacheInv, GetRunner, ThreadInv, TypeOK, Using, Alive
<1> QED BY <1>1, <1>2, <1>3 DEF CacheInv

LEMMA ForgetOtherKeeps ==
  ASSUME CacheInv, NEW t \in Threads, ForgetOther(t) PROVE CacheInv'
<1> DEFINE a == <<"thread", t>>
<1>0. PICK r \in Runners, last \in BOOLEAN :
        r = mine[t] /\ last = (current # r /\ ~KeeperHolds(r) /\ Users(r) = {t})
  <2>1. mine[t] \in Runners
    BY DEF CacheInv, ForgetOther, ThreadInv, TypeOK
  <2> QED BY <2>1
<1>1. a \in Actors /\ a # Free /\ runner' = Dropped(r, last, a)
  BY <1>0 DEF ForgetOther, Actors, Free
<1> HIDE DEF a
<1>2. /\ runner' \in Seq(RunnerSet) /\ Runners' = Runners
      /\ \A i \in Runners :
           /\ runner'[i].params = runner[i].params /\ runner'[i].hash = runner[i].hash
           /\ runner'[i].kernel = runner[i].kernel /\ runner'[i].keeper = runner[i].keeper
           /\ runner'[i].by = IF i = r /\ last THEN a ELSE runner[i].by
  <2> DEFINE left == Dropped(r, last, a)
  <2>1. /\ left \in Seq(RunnerSet) /\ DOMAIN left = Runners
        /\ \A i \in Runners :
             /\ left[i].params = runner[i].params /\ left[i].hash = runner[i].hash
             /\ left[i].kernel = runner[i].kernel /\ left[i].keeper = runner[i].keeper
             /\ left[i].by = IF i = r /\ last THEN a ELSE runner[i].by
    BY <1>1, Drop DEF CacheInv
  <2>2. runner' = left
    BY <1>1
  <2> HIDE DEF left
  <2> QED BY <2>1, <2>2 DEF Runners
<1>3. TypeOK'
  BY <1>2 DEF CacheInv, ForgetOther, TypeOK
<1>4. RunnerInv'
  <2> SUFFICES ASSUME NEW i \in Runners
               PROVE  /\ runner'[i].hash = Hash[runner'[i].params]
                      /\ Alive(i)' <=> runner'[i].by = Free /\ runner'[i].kernel # "gone"
    BY <1>2 DEF RunnerInv
  <2>1. Users(i)' = Users(i) \ {t}
    BY DEF CacheInv, ForgetOther, TypeOK, Users, Runners, None
  <2>2. (t \in Users(i) <=> i = r) /\ (Users(i) # {} /\ Users(i)' = {} <=> Users(i) = {t})
    BY <1>0, <2>1 DEF Users
  <2>3. current' = current /\ (KeeperHolds(i)' <=> KeeperHolds(i))
    BY <1>2 DEF ForgetOther, KeeperHolds
  <2>4. Alive(i)' <=> Alive(i) /\ ~(i = r /\ last)
    BY <1>0, <2>1, <2>2, <2>3 DEF Alive
  <2> QED BY <1>1, <1>2, <2>4 DEF CacheInv, RunnerInv
<1>5. ThreadInv'
  <2>1. \A u \in Threads : mine[u] # None => mine[u] \in Runners /\ runner'[mine[u]].hash = runner[mine[u]].hash
    BY <1>2 DEF CacheInv, TypeOK
  <2>2. \A u \in Threads : u # t => pc'[u] = pc[u] /\ mine'[u] = mine[u]
    BY DEF CacheInv, ForgetOther, TypeOK
  <2>3. pc'[t] = "create" /\ mine'[t] = None /\ UNCHANGED <<want, current>>
    BY DEF CacheInv, ForgetOther, TypeOK
  <2> QED BY <2>1, <2>2, <2>3 DEF CacheInv, ThreadInv, Using
<1> QED BY <1>3, <1>4, <1>5 DEF CacheInv

\* What the lock leaves to the others; nobody else is about to create a runner.
LEMMA LockAndLookKeeps ==
  ASSUME CacheInv, NEW t \in Threads, LockAndLook(t) PROVE CacheInv'
<1> DEFINE a == <<"thread", t>>
<1>0. a \in Actors /\ a # Free
  BY DEF Actors, Free
<1> HIDE DEF a
<1>1. CASE current # None /\ runner[current].hash = Hash[want[t]]
  <2>1. /\ UNCHANGED <<want, calls, lock, current, runner>>
        /\ mine' = [mine EXCEPT ![t] = current] /\ weak' = [weak EXCEPT ![t] = current]
        /\ pc[t] = "create" /\ pc' = [pc EXCEPT ![t] = "launch"]
    BY <1>1 DEF LockAndLook
  <2>2. TypeOK'
    BY <2>1 DEF CacheInv, TypeOK, Runners
  <2>3. RunnerInv'
    <3>1. /\ mine[t] = None /\ mine'[t] = current
          /\ \A u \in Threads : u # t => mine'[u] = mine[u]
      BY <2>1 DEF CacheInv, TypeOK, ThreadInv
    <3>2. \A i \in Runners : i # current => Users(i)' = Users(i)
      BY <3>1, NoneIsNoRunner DEF CacheInv, Users
    <3>3. \A i \in Runners : Alive(i)' <=> Alive(i)
      BY <2>1, <3>2 DEF Alive, KeeperHolds
    <3> QED BY <2>1, <3>3 DEF CacheInv, RunnerInv, Runners
  <2>4. ThreadInv'
    BY <1>1, <2>1 DEF CacheInv, ThreadInv, TypeOK, Using
  <2> QED BY <2>2, <2>3, <2>4 DEF CacheInv
<1>2. CASE ~(current # None /\ runner[current].hash = Hash[want[t]])
  <2>1. /\ UNCHANGED <<want, calls, mine, weak>> /\ lock = Free /\ lock' = a /\ current' = None
        /\ pc[t] = "create" /\ pc' = [pc EXCEPT ![t] = "spawn"]
    BY <1>2 DEF LockAndLook, a
  <2>2. /\ runner' \in Seq(RunnerSet) /\ Runners' = Runners
        /\ \A i \in Runners :
             /\ runner'[i].params = runner[i].params /\ runner'[i].hash = runner[i].hash
             /\ Users(i)' = Users(i) /\ (KeeperHolds(i)' <=> KeeperHolds(i))
             /\ runner'[i].kernel = runner[i].kernel
             /\ runner'[i].by = IF i = current /\ ~KeeperHolds(i) /\ Users(i) = {}
                                THEN a ELSE runner[i].by
    <3>1. CASE current = None
      BY <1>2, <2>1, <3>1 DEF LockAndLook, CacheInv, TypeOK, Runners, KeeperHolds, Users, None
    <3>2. CASE current # None
      <4>1. PICK r \in Runners, last \in BOOLEAN :
              r = current /\ last = (~KeeperHolds(r) /\ Users(r) = {})
        BY <3>2 DEF CacheInv, TypeOK
      <4>2. runner' = Dropped(r, last, a)
        BY <1>2, <3>2, <4>1 DEF LockAndLook, a
      <4>3. /\ runner' \in Seq(RunnerSet) /\ Runners' = Runners
            /\ \A i \in Runners :
                 /\ runner'[i].params = runner[i].params /\ runner'[i].hash = runner[i].hash
                 /\ runner'[i].kernel = runner[i].kernel /\ runner'[i].keeper = runner[i].keeper
                 /\ runner'[i].by = IF i = r /\ last THEN a ELSE runner[i].by
        BY <1>0, <4>2, Drop DEF CacheInv, Runners
      <4>4. \A i \in Runners : Users(i)' = Users(i) /\ (KeeperHolds(i)' <=> KeeperHolds(i))
        BY <2>1, <4>3 DEF Users, KeeperHolds
      <4> QED BY <4>1, <4>3, <4>4
    <3> QED BY <3>1, <3>2
  <2>3. TypeOK'
    <3>1. \A u \in Threads : lock' = <<"thread", u>> <=> pc'[u] = "spawn"
      BY <2>1 DEF CacheInv, TypeOK, Free, a
    <3>2. lock' \in {"thread"} \X Threads
      BY <2>1 DEF a
    <3> QED BY <2>1, <2>2, <3>1, <3>2 DEF CacheInv, TypeOK
  <2>4. RunnerInv'
    <3>1. \A i \in Runners : Alive(i)' <=> Alive(i) /\ ~(i = current /\ ~KeeperHolds(i) /\ Users(i) = {})
      BY <2>1, <2>2 DEF Alive, Runners, None
    <3> QED BY <1>0, <2>2, <3>1 DEF CacheInv, RunnerInv
  <2>5. ThreadInv'
    <3>1. \A u \in Threads : mine[u] # None => mine[u] \in Runners /\ runner'[mine[u]].hash = runner[mine[u]].hash
      BY <2>2 DEF CacheInv, TypeOK
    <3> QED BY <2>1, <3>1 DEF CacheInv, ThreadInv, TypeOK, Using
  <2> QED BY <2>3, <2>4, <2>5 DEF CacheInv
<1> QED BY <1>1, <1>2

\* The new runner has the creating thread and the global pointer as references.
LEMMA SpawnKeeps ==
  ASSUME CacheInv, NEW t \in Threads, Spawn(t) PROVE CacheInv'
<1> DEFINE x == [params |-> want[t], hash |-> Hash[want[t]], fresh |-> TRUE,
                 kernel |-> "queued", by |-> Free, keeper |-> "sleep", whole |-> TRUE]
<1>1. PICK n \in Nat : n = Len(runner) + 1
  BY DEF CacheInv, TypeOK
<1>2. x \in RunnerSet
  BY CacheAssumption DEF CacheInv, TypeOK, RunnerSet, Actors
<1>3. x.hash = Hash[x.params] /\ x.hash = Hash[want[t]] /\ x.by = Free /\ x.kernel # "gone"
      /\ x.keeper = "sleep"
  OBVIOUS
<1> HIDE DEF x
<1>4. runner' = Append(runner, x)
  BY DEF Spawn, x
<1>5. /\ runner' \in Seq(RunnerSet) /\ Len(runner') = n /\ n # None /\ n \notin Runners
      /\ Runners' = Runners \union {n}
      /\ runner'[n] = x /\ \A i \in Runners : runner'[i] = runner[i]
  BY <1>1, <1>2, <1>4 DEF CacheInv, TypeOK, Runners, None
<1>6. /\ current' = n /\ mine' = [mine EXCEPT ![t] = n] /\ weak' = [weak EXCEPT ![t] = n]
      /\ lock' = Free /\ pc[t] = "spawn" /\ pc' = [pc EXCEPT ![t] = "launch"]
      /\ UNCHANGED <<want, calls>> /\ current = None /\ mine[t] = None
  BY <1>5 DEF Spawn, CacheInv, ThreadInv
<1>7. TypeOK'
  <2>1. \A u \in Threads : lock' = <<"thread", u>> <=> pc'[u] = "spawn"
    BY <1>6 DEF CacheInv, TypeOK, Free
  <2> QED BY <1>5, <1>6, <2>1 DEF CacheInv, TypeOK
<1>8. RunnerInv'
  <2>1. \A i \in Runners : Users(i)' = Users(i) /\ (KeeperHolds(i)' <=> KeeperHolds(i)) /\ i # n
    BY <1>5, <1>6 DEF CacheInv, TypeOK, Users, KeeperHolds, Runners, None
  <2>2. \A i \in Runners : Alive(i)' <=> Alive(i)
    BY <1>6, <2>1 DEF Alive, Runners, None
  <2>3. Alive(n)'
    BY <1>5, <1>6 DEF Alive
  <2> SUFFICES ASSUME NEW i \in Runners'
               PROVE  /\ runner'[i].hash = Hash[runner'[i].params]
                      /\ Alive(i)' <=> runner'[i].by = Free /\ runner'[i].kernel # "gone"
    BY DEF RunnerInv
  <2>4. CASE i = n
    BY <1>3, <1>5, <2>3, <2>4
  <2>5. CASE i \in Runners
    BY <1>5, <2>2, <2>5 DEF CacheInv, RunnerInv
  <2> QED BY <1>5, <2>4, <2>5
<1>9. ThreadInv'
  <2>1. \A u \in Threads : u # t => /\ pc'[u] = pc[u] /\ mine'[u] = mine[u] /\ pc[u] # "spawn"
                                    /\ mine[u] # None => mine[u] \in Runners
    BY <1>6 DEF CacheInv, TypeOK
  <2>2. mine'[t] = n /\ pc'[t] = "launch"
    BY <1>6 DEF CacheInv, TypeOK
  <2> QED BY <1>3, <1>5, <1>6, <2>1, <2>2 DEF CacheInv, ThreadInv, Using
<1> QED BY <1>7, <1>8, <1>9 DEF CacheInv

LEMMA LaunchKeeps ==
  ASSUME CacheInv, NEW t \in Threads, Launch(t) PROVE CacheInv'
<1>1. PICK r \in Runners : r = mine[t]
  BY DEF CacheInv, TypeOK, ThreadInv, Launch
<1> DEFINE x == [runner[r] EXCEPT !.fresh = TRUE]
<1>2. runner[r] \in RunnerSet
  BY DEF CacheInv, TypeOK, Runners
<1>3. /\ x \in RunnerSet /\ x.params = runner[r].params /\ x.hash = runner[r].hash
      /\ x.kernel = runner[r].kernel /\ x.by = runner[r].by /\ x.keeper = runner[r].keeper
  BY <1>2 DEF RunnerSet
<1> HIDE DEF x
<1>4. runner' = [runner EXCEPT ![r] = x]
  BY <1>1 DEF Launch, x
<1>5. /\ runner' \in Seq(RunnerSet) /\ Runners' = Runners
      /\ runner'[r] = x /\ \A i \in Runners : i # r => runner'[i] = runner[i]
  BY <1>3, <1>4, Update DEF CacheInv
<1>6. \A i \in Runners : /\ runner'[i].params = runner[i].params /\ runner'[i].hash = runner[i].hash
                         /\ runner'[i].kernel = runner[i].kernel /\ runner'[i].by = runner[i].by
                         /\ KeeperHolds(i)' <=> KeeperHolds(i)
  BY <1>3, <1>5 DEF KeeperHolds
<1>7. TypeOK'
  BY <1>5 DEF CacheInv, TypeOK, Launch
<1>8. RunnerInv'
  <2>1. \A i \in Runners : Alive(i)' <=> Alive(i)
    BY <1>6 DEF Launch, Alive, Users
  <2> QED BY <1>5, <1>6, <2>1 DEF CacheInv, RunnerInv
<1>9. ThreadInv'
  <2>1. \A u \in Threads : mine[u] # None => mine[u] \in Runners /\ runner'[mine[u]].hash = runner[mine[u]].hash
    BY <1>6 DEF CacheInv, TypeOK
  <2> QED BY <2>1 DEF CacheInv, ThreadInv, TypeOK, Launch, Using
<1> QED BY <1>7, <1>8, <1>9 DEF CacheInv

\* launch() is left, after the answer or by an exception: what the step does to the
\* runner besides is to mark it.
LEMMA ReleaseKeeps ==
  ASSUME CacheInv, NEW t \in Using, Release(t), runner' \in Seq(RunnerSet), Runners' = Runners,
         \A i \in Runners :
           /\ runner'[i].params = runner[i].params /\ runner'[i].hash = runner[i].hash
           /\ runner'[i].kernel = runner[i].kernel /\ runner'[i].keeper = runner[i].keeper
           /\ runner'[i].by = IF i = mine[t] /\ IsLastUser(t) THEN <<"thread", t>> ELSE runner[i].by
  PROVE  CacheInv'
<1>0. PICK r \in Runners, last \in BOOLEAN :
        r = mine[t] /\ last = (current # r /\ ~KeeperHolds(r) /\ Users(r) = {t})
  <2>1. mine[t] \in Runners
    BY DEF CacheInv, Using, ThreadInv, TypeOK
  <2> QED BY <2>1
<1>1. t \in Threads
  BY DEF Using
<1>2. \A i \in Runners :
        /\ runner'[i].params = runner[i].params /\ runner'[i].hash = runner[i].hash
        /\ runner'[i].kernel = runner[i].kernel /\ runner'[i].keeper = runner[i].keeper
        /\ runner'[i].by = IF i = r /\ last THEN <<"thread", t>> ELSE runner[i].by
  BY <1>0 DEF IsLastUser
<1>3. TypeOK'
  BY <1>1, <1>2 DEF CacheInv, Release, Using, TypeOK
<1>4. RunnerInv'
  <2> SUFFICES ASSUME NEW i \in Runners
               PROVE  /\ runner'[i].hash = Hash[runner'[i].params]
                      /\ Alive(i)' <=> runner'[i].by = Free /\ runner'[i].kernel # "gone"
    BY <1>2 DEF RunnerInv
  <2>1. Users(i)' = Users(i) \ {t}
    BY <1>1 DEF CacheInv, Release, TypeOK, Users, Runners, None
  <2>2. (t \in Users(i) <=> i = r) /\ (Users(i) # {} /\ Users(i)' = {} <=> Users(i) = {t})
    BY <1>0, <1>1, <2>1 DEF Users
  <2>3. current' = current /\ (KeeperHolds(i)' <=> KeeperHolds(i))
    BY <1>2 DEF Release, KeeperHolds
  <2>4. Alive(i)' <=> Alive(i) /\ ~(i = r /\ last)
    BY <1>0, <2>1, <2>2, <2>3 DEF Alive
  <2> QED BY <1>2, <2>4 DEF CacheInv, RunnerInv, Free
<1>5. ThreadInv'
  <2>1. \A u \in Threads : mine[u] # None => mine[u] \in Runners /\ runner'[mine[u]].hash = runner[mine[u]].hash
    BY <1>2 DEF CacheInv, TypeOK
  <2>2. \A u \in Threads : u # t => pc'[u] = pc[u] /\ mine'[u] = mine[u]
    BY DEF CacheInv, Release, TypeOK
  <2>3. pc'[t] = "leave" /\ mine'[t] = None /\ UNCHANGED <<want, current>>
    BY <1>1 DEF CacheInv, Release, TypeOK
  <2> QED BY <1>1, <2>1, <2>2, <2>3 DEF CacheInv, ThreadInv, Using
<1> QED BY <1>3, <1>4, <1>5 DEF CacheInv

LEMMA AnsweredKeeps ==
  ASSUME CacheInv, NEW t \in Threads, Answered(t) PROVE CacheInv'
<1>1. t \in Using /\ Release(t)
  BY DEF Answered, Using
<1>2. mine[t] \in Runners
  BY <1>1 DEF CacheInv, Using, ThreadInv, TypeOK
<1>3. IsLastUser(t) \in BOOLEAN /\ <<"thread", t>> \in Actors
  BY DEF IsLastUser, Actors
<1>4. runner' = Dropped(mine[t], IsLastUser(t), <<"thread", t>>)
  BY DEF Answered
<1>5. /\ runner' \in Seq(RunnerSet) /\ Runners' = Runners
      /\ \A i \in Runners :
           /\ runner'[i].params = runner[i].params /\ runner'[i].hash = runner[i].hash
           /\ runner'[i].kernel = runner[i].kernel /\ runner'[i].keeper = runner[i].keeper
           /\ runner'[i].by = IF i = mine[t] /\ IsLastUser(t) THEN <<"thread", t>> ELSE runner[i].by
  <2> DEFINE left == Dropped(mine[t], IsLastUser(t), <<"thread", t>>)
  <2>1. /\ left \in Seq(RunnerSet) /\ DOMAIN left = Runners
        /\ \A i \in Runners :
             /\ left[i].params = runner[i].params /\ left[i].hash = runner[i].hash
             /\ left[i].kernel = runner[i].kernel /\ left[i].keeper = runner[i].keeper
             /\ left[i].by = IF i = mine[t] /\ IsLastUser(t) THEN <<"thread", t>> ELSE runner[i].by
    BY <1>2, <1>3, Drop DEF CacheInv
  <2>2. runner' = left
    BY <1>4
  <2> HIDE DEF left
  <2> QED BY <2>1, <2>2 DEF Runners
<1> QED BY <1>1, <1>5, ReleaseKeeps

LEMMA ThrowKeeps ==
  ASSUME CacheInv, NEW t \in Threads, Throw(t) PROVE CacheInv'
<1>1. t \in Using /\ Release(t)
  BY DEF Throw
<1>2. PICK r \in Runners : r = mine[t]
  BY <1>1 DEF CacheInv, Using, ThreadInv, TypeOK
<1>3. IsLastUser(t) \in BOOLEAN /\ <<"thread", t>> \in Actors
  BY DEF IsLastUser, Actors
<1> DEFINE left == Dropped(r, IsLastUser(t), <<"thread", t>>)
           x == [left[r] EXCEPT !.whole = FALSE]
<1>4. /\ left \in Seq(RunnerSet) /\ DOMAIN left = Runners
      /\ \A i \in Runners :
           /\ left[i].params = runner[i].params /\ left[i].hash = runner[i].hash
           /\ left[i].kernel = runner[i].kernel /\ left[i].keeper = runner[i].keeper
           /\ left[i].by = IF i = r /\ IsLastUser(t) THEN <<"thread", t>> ELSE runner[i].by
  BY <1>3, Drop DEF CacheInv
<1>5. runner' = [left EXCEPT ![r].whole = FALSE]
  BY <1>2 DEF Throw
<1> HIDE DEF left
<1>6. left[r] \in RunnerSet
  BY <1>4 DEF Runners
<1>7. /\ x \in RunnerSet /\ x.params = left[r].params /\ x.hash = left[r].hash
      /\ x.kernel = left[r].kernel /\ x.keeper = left[r].keeper /\ x.by = left[r].by
  BY <1>6 DEF RunnerSet
<1>8. runner' = [left EXCEPT ![r] = x]
  BY <1>5
<1> HIDE DEF x
<1>9. /\ runner' \in Seq(RunnerSet) /\ Runners' = Runners
      /\ runner'[r] = x /\ \A i \in Runners : i # r => runner'[i] = left[i]
  BY <1>4, <1>7, <1>8 DEF Runners
<1>10. \A i \in Runners :
         /\ runner'[i].params = runner[i].params /\ runner'[i].hash = runner[i].hash
         /\ runner'[i].kernel = runner[i].kernel /\ runner'[i].keeper = runner[i].keeper
         /\ runner'[i].by = IF i = mine[t] /\ IsLastUser(t) THEN <<"thread", t>> ELSE runner[i].by
  BY <1>2, <1>4, <1>7, <1>9
<1> QED BY <1>1, <1>9, <1>10, ReleaseKeeps

LEMMA LeaveKeeps ==
  ASSUME CacheInv, NEW t \in Threads, Leave(t) PROVE CacheInv'
<1>1. TypeOK'
  BY DEF CacheInv, Leave, TypeOK, Runners
<1>2. RunnerInv'
  BY DEF CacheInv, Leave, RunnerInv, Runners, Alive, KeeperHolds, Users
<1>3. ThreadInv'
  BY DEF CacheInv, Leave, ThreadInv, TypeOK, Using
<1> QED BY <1>1, <1>2, <1>3 DEF CacheInv

-----------------------------------------------------------------------------
(* The steps of the keep-alive threads, of time and of the GPU.            *)

\* What such a step has to do to keep the invariant: runner r gets a new state x, and
\* lives on if and only if it is still referred to.
LEMMA OthersKeep ==
  ASSUME CacheInv, NEW r \in Runners, NEW x \in RunnerSet,
         UNCHANGED <<pc, want, weak, mine, calls, lock>>,
         runner' = [runner EXCEPT ![r] = x], current' = current \/ (current = r /\ current' = None),
         x.params = runner[r].params, x.hash = runner[r].hash,
         (current' = r \/ x.keeper \in {"look", "lock"} \/ Users(r) # {})
           <=> x.by = Free /\ x.kernel # "gone"
  PROVE  CacheInv'
<1>1. /\ runner' \in Seq(RunnerSet) /\ Runners' = Runners
      /\ runner'[r] = x /\ \A i \in Runners : i # r => runner'[i] = runner[i]
  BY Update DEF CacheInv
<1>2. current' \in Runners \union {None} /\ \A i \in Runners : i # r => (current' = i <=> current = i)
  BY DEF CacheInv, TypeOK, Runners, None
<1>3. TypeOK'
  BY <1>1, <1>2 DEF CacheInv, TypeOK
<1>4. RunnerInv'
  <2> SUFFICES ASSUME NEW i \in Runners
               PROVE  /\ runner'[i].hash = Hash[runner'[i].params]
                      /\ Alive(i)' <=> runner'[i].by = Free /\ runner'[i].kernel # "gone"
    BY <1>1 DEF RunnerInv
  <2>1. Users(i)' = Users(i) /\ i # None
    BY NoneIsNoRunner DEF CacheInv, Users
  <2>2. CASE i = r
    BY <1>1, <2>1, <2>2 DEF CacheInv, RunnerInv, Alive, KeeperHolds
  <2>3. CASE i # r
    <3>1. Alive(i)' <=> Alive(i)
      BY <1>1, <1>2, <2>1, <2>3 DEF Alive, KeeperHolds
    <3> QED BY <1>1, <2>3, <3>1 DEF CacheInv, RunnerInv
  <2> QED BY <2>2, <2>3
<1>5. ThreadInv'
  <2>1. \A u \in Threads : mine[u] # None => mine[u] \in Runners /\ runner'[mine[u]].hash = runner[mine[u]].hash
    BY <1>1 DEF CacheInv, TypeOK
  <2> QED BY <2>1 DEF CacheInv, ThreadInv, Using
<1> QED BY <1>3, <1>4, <1>5 DEF CacheInv

LEMMA KeeperKeeps ==
  ASSUME CacheInv, NEW r \in Runners, KeeperStep(r) PROVE CacheInv'
<1>1. runner[r] \in RunnerSet /\ (Alive(r) <=> runner[r].by = Free /\ runner[r].kernel # "gone")
  BY DEF CacheInv, TypeOK, RunnerInv, Runners
<1>2. r # None /\ Free \in Actors /\ <<"keeper", r>> \in Actors /\ <<"keeper", r>> # Free
  BY NoneIsNoRunner DEF CacheInv, TypeOK, Actors, Free, Runners
<1> PICK a \in Actors : a = <<"keeper", r>> /\ a # Free
  BY <1>2
<1>4. ASSUME NEW k \in {"sleep", "look", "lock", "exit"}, NEW b \in Actors,
             UNCHANGED <<pc, want, weak, mine, calls, lock>>,
             current' = current \/ (current = r /\ current' = None),
             runner' = [runner EXCEPT ![r] = [runner[r] EXCEPT !.keeper = k, !.by = b]],
             (current' = r \/ k \in {"look", "lock"} \/ Users(r) # {})
               <=> b = Free /\ runner[r].kernel # "gone"
      PROVE  CacheInv'
  <2> DEFINE x == [runner[r] EXCEPT !.keeper = k, !.by = b]
  <2>1. /\ x \in RunnerSet /\ x.params = runner[r].params /\ x.hash = runner[r].hash
        /\ x.kernel = runner[r].kernel /\ x.keeper = k /\ x.by = b
    BY <1>1 DEF RunnerSet
  <2>2. runner' = [runner EXCEPT ![r] = x]
    BY <1>4
  <2> HIDE DEF x
  <2> QED BY <1>4, <2>1, <2>2, OthersKeep
<1>5. ASSUME NEW k
      PROVE  /\ Keeper(r, k) = [runner EXCEPT ![r] = [runner[r] EXCEPT !.keeper = k, !.by = runner[r].by]]
             /\ \A b : [Keeper(r, k) EXCEPT ![r].by = b]
                         = [runner EXCEPT ![r] = [runner[r] EXCEPT !.keeper = k, !.by = b]]
  <2>1. [runner[r] EXCEPT !.keeper = k] = [runner[r] EXCEPT !.keeper = k, !.by = runner[r].by]
    BY <1>1 DEF RunnerSet
  <2>2. Keeper(r, k) = [runner EXCEPT ![r] = [runner[r] EXCEPT !.keeper = k]]
    BY DEF Keeper
  <2>3. Keeper(r, k)[r] = [runner[r] EXCEPT !.keeper = k]
    BY <2>2 DEF Runners
  <2>4. ASSUME NEW b
        PROVE  [Keeper(r, k) EXCEPT ![r].by = b]
                 = [runner EXCEPT ![r] = [runner[r] EXCEPT !.keeper = k, !.by = b]]
    BY <2>2, <2>3
  <2> QED BY <2>1, <2>2, <2>4
<1>6. CASE Wake(r)
  <2>1. UNCHANGED <<pc, want, weak, mine, calls, lock, current>> /\ ~KeeperHolds(r)
    BY <1>6 DEF Wake, KeeperHolds
  <2>2. runner[r].by \in Actors
    BY <1>1 DEF RunnerSet
  <2>3. CASE Alive(r)
    <3>1. runner' = Keeper(r, "look")
      BY <1>6, <2>3 DEF Wake
    <3> QED BY <1>1, <1>4, <1>5, <2>1, <2>2, <2>3, <3>1
  <2>4. CASE ~Alive(r)
    <3>1. runner' = Keeper(r, "exit")
      BY <1>6, <2>4 DEF Wake
    <3> QED BY <1>1, <1>2, <1>4, <1>5, <2>1, <2>2, <2>4, <3>1 DEF Alive
  <2> QED BY <2>3, <2>4
<1>7. CASE LookFresh(r)
  <2>1. /\ UNCHANGED <<pc, want, weak, mine, calls, lock, current>>
        /\ runner[r].by = Free /\ runner[r].kernel # "gone"
    BY <1>1, <1>2, <1>7 DEF LookFresh, Alive, KeeperHolds
  <2>2. CASE current = r \/ Users(r) # {}
    <3>1. runner' = Keeper(r, "sleep")
      BY <1>7, <2>2 DEF LookFresh
    <3> QED BY <1>1, <1>2, <1>4, <1>5, <2>1, <2>2, <3>1
  <2>3. CASE ~(current = r \/ Users(r) # {})
    <3>1. runner' = [runner EXCEPT ![r] = [runner[r] EXCEPT !.keeper = "sleep", !.by = a]]
      BY <1>5, <1>7, <2>3 DEF LookFresh
    <3> QED BY <1>2, <1>4, <2>1, <2>3, <3>1
  <2> QED BY <2>2, <2>3
<1>8. CASE LookStale(r)
  BY <1>1, <1>2, <1>4, <1>5, <1>8 DEF LookStale, Alive, KeeperHolds, RunnerSet
<1>9. CASE DropCurrent(r)
  <2>1. /\ UNCHANGED <<pc, want, weak, mine, calls, lock>>
        /\ current' = IF current = r THEN None ELSE current
        /\ runner[r].by = Free /\ runner[r].kernel # "gone"
    BY <1>1, <1>2, <1>9 DEF DropCurrent, Alive, KeeperHolds
  <2>2. CASE Users(r) # {}
    <3>1. runner' = Keeper(r, "exit")
      BY <1>9, <2>2 DEF DropCurrent
    <3> QED BY <1>1, <1>2, <1>4, <1>5, <2>1, <2>2, <3>1
  <2>3. CASE ~(Users(r) # {})
    <3>1. runner' = [runner EXCEPT ![r] = [runner[r] EXCEPT !.keeper = "exit", !.by = a]]
      BY <1>5, <1>9, <2>3 DEF DropCurrent
    <3> QED BY <1>2, <1>4, <2>1, <2>3, <3>1
  <2> QED BY <2>2, <2>3
<1> QED BY <1>6, <1>7, <1>8, <1>9 DEF KeeperStep

LEMMA GpuKeeps ==
  ASSUME CacheInv, NEW r \in Runners, Age(r) \/ Start(r) \/ End(r) PROVE CacheInv'
<1>1. runner[r] \in RunnerSet /\ (Alive(r) <=> runner[r].by = Free /\ runner[r].kernel # "gone")
  BY DEF CacheInv, TypeOK, RunnerInv, Runners
<1>2. r # None /\ Free \in Actors
  BY NoneIsNoRunner DEF CacheInv, Actors
<1>3. CASE Age(r)
  <2> DEFINE x == [runner[r] EXCEPT !.fresh = FALSE]
  <2>1. /\ x \in RunnerSet /\ x.params = runner[r].params /\ x.hash = runner[r].hash
        /\ x.kernel = runner[r].kernel /\ x.by = runner[r].by /\ x.keeper = runner[r].keeper
    BY <1>1 DEF RunnerSet
  <2>2. runner' = [runner EXCEPT ![r] = x] /\ UNCHANGED <<pc, want, weak, mine, calls, lock, current>>
    BY <1>3 DEF Age
  <2> HIDE DEF x
  <2> QED BY <1>1, <1>2, <2>1, <2>2, OthersKeep DEF Alive, KeeperHolds
<1>4. CASE Start(r)
  <2> DEFINE x == [runner[r] EXCEPT !.kernel = "running"]
  <2>1. /\ x \in RunnerSet /\ x.params = runner[r].params /\ x.hash = runner[r].hash
        /\ x.kernel = "running" /\ x.by = runner[r].by /\ x.keeper = runner[r].keeper
    BY <1>1 DEF RunnerSet
  <2>2. /\ runner' = [runner EXCEPT ![r] = x] /\ UNCHANGED <<pc, want, weak, mine, calls, lock, current>>
        /\ runner[r].kernel = "queued"
    BY <1>4 DEF Start
  <2> HIDE DEF x
  <2> QED BY <1>1, <1>2, <2>1, <2>2, OthersKeep DEF Alive, KeeperHolds
<1>5. CASE End(r)
  <2> DEFINE x == [runner[r] EXCEPT !.kernel = "gone", !.by = Free]
  <2>1. /\ x \in RunnerSet /\ x.params = runner[r].params /\ x.hash = runner[r].hash
        /\ x.kernel = "gone" /\ x.by = Free /\ x.keeper = runner[r].keeper
    BY <1>1, <1>2 DEF RunnerSet
  <2>2. /\ runner' = [runner EXCEPT ![r] = x] /\ UNCHANGED <<pc, want, weak, mine, calls, lock, current>>
        /\ runner[r].by # Free
    BY <1>1, <1>5 DEF End, RunnerSet
  <2> HIDE DEF x
  <2> QED BY <1>1, <1>2, <2>1, <2>2, OthersKeep DEF Alive, KeeperHolds
<1> QED BY <1>3, <1>4, <1>5

-----------------------------------------------------------------------------
LEMMA StepKeeps ==
  CacheInv /\ [Next]_vars => CacheInv'
<1> SUFFICES ASSUME CacheInv, [Next]_vars PROVE CacheInv'
  OBVIOUS
<1>1. CASE \E t \in Threads : \E p \in Asks[t] : Search(t, p)
  BY <1>1, SearchKeeps
<1>2. CASE \E t \in Threads : ThreadStep(t) \/ Throw(t)
  BY <1>2, GetRunnerKeeps, ForgetOtherKeeps, LockAndLookKeeps, SpawnKeeps, LaunchKeeps,
     AnsweredKeeps, ThrowKeeps, LeaveKeeps DEF ThreadStep
<1>3. CASE \E r \in Runners : KeeperStep(r) \/ Age(r) \/ Start(r) \/ End(r)
  BY <1>3, KeeperKeeps, GpuKeeps
<1>4. CASE UNCHANGED vars
  <2>1. TypeOK'
    BY <1>4 DEF vars, CacheInv, TypeOK, Runners
  <2>2. RunnerInv'
    BY <1>4 DEF vars, CacheInv, RunnerInv, Runners, Alive, KeeperHolds, Users
  <2>3. ThreadInv'
    BY <1>4 DEF vars, CacheInv, ThreadInv, Using
  <2> QED BY <2>1, <2>2, <2>3 DEF CacheInv
<1> QED BY <1>1, <1>2, <1>3, <1>4 DEF Next

\* Every variable keeps its type, however often the searches replace the runner.
THEOREM TypeCorrect == Spec => []TypeOK
<1>1. CacheInv => TypeOK
  BY DEF CacheInv
<1> QED BY <1>1, Initially, StepKeeps, PTL DEF Spec

\* A runner lives exactly as long as somebody refers to it: no search and no keep-alive
\* thread is left with a destroyed one, and none is forgotten (the shared and weak
\* pointers of select_and_run and create_runner).
THEOREM RunnersLive == Spec => []RunnerInv
<1>1. CacheInv => RunnerInv
  BY DEF CacheInv
<1> QED BY <1>1, Initially, StepKeeps, PTL DEF Spec

\* A search runs with a living runner whose parameters have the hash of its own,
\* whatever the hash tells apart and however launches end.
THEOREM RunnersMatch == Spec => []RunnerMatches
<1>1. CacheInv => RunnerMatches
  <2> SUFFICES ASSUME CacheInv, NEW t \in Using
               PROVE  LET r == runner[mine[t]] IN
                      Hash[r.params] = Hash[want[t]] /\ r.by = Free /\ r.kernel # "gone"
    BY DEF RunnerMatches
  <2>1. t \in Threads /\ mine[t] # None /\ runner[mine[t]].hash = Hash[want[t]]
    BY DEF CacheInv, ThreadInv, Using
  <2>2. PICK r \in Runners : r = mine[t]
    BY <2>1 DEF CacheInv, TypeOK
  <2>3. Alive(r)
    BY <2>1, <2>2 DEF Alive, Users
  <2> QED BY <2>1, <2>2, <2>3 DEF CacheInv, RunnerInv
<1> QED BY <1>1, Initially, StepKeeps, PTL DEF Spec
=============================================================================
