----------------------- MODULE DynamicBatchingAnswers -----------------------
(***************************************************************************)
(* What the requesters of DynamicBatching get.  AnswersInv is inductive,   *)
(* given RingInv, so the gather kernel misses no query and nobody gets the *)
(* neighbors of another query; with conservative dispatch, SizesInv is     *)
(* inductive as long as no dispatcher is overtaken by a whole ring.  And   *)
(* ReadyInv is inductive, so whoever has synchronised with its stream has  *)
(* all its neighbors, as long as no dispatcher is paused just before it    *)
(* records its event (dyn_event_race shows what happens then), nor         *)
(* overtaken by a whole ring.                                              *)
(*                                                                         *)
(* DynamicBatching implements the safety part of SearchService, step by    *)
(* step: a query is answered once, with its own neighbors, between the     *)
(* call and the return.  LiveInv is inductive, given the other invariants, *)
(* and says which queries the next scatter kernel may answer.  That every  *)
(* call returns is left to TLC (dyn_service).                              *)
(***************************************************************************)
EXTENDS DynamicBatchingRing

-----------------------------------------------------------------------------
(* Queries and rows.                                                       *)

LEMMA OwnIsQuery ==
  ASSUME NEW t, NEW r, NEW i
  PROVE  Query(t, r, i) # NoQuery
BY DEF Query, NoQuery

\* A thread that holds rows of the batch its slot is at has the buffer of that slot,
\* and the rows are rows of the batch.
LEMMA HolderRows ==
  ASSUME TypeInv, RingInv, NEW t \in Threads, pc[t] \in Claiming, At(seq[t]) = seq[t]
  PROVE  /\ seq[t] \in Nat /\ Slot(seq[t]) \in Slots
         /\ claim[t].off \in Nat /\ claim[t].cnt \in Nat /\ claim[t].sub \in Nat
         /\ claim[t].sub <= claim[t].cnt /\ token[Slot(seq[t])].sc \in 0..MaxBatch
         /\ claim[t].off + claim[t].cnt <= token[Slot(seq[t])].sc
         /\ RowsOf(t) \subseteq Rows
         /\ pc[t] \in Acquired => /\ claim[t].buf \in Buffers
                                  /\ token[Slot(seq[t])].full
                                  /\ token[Slot(seq[t])].buf = claim[t].buf
<1> USE DEF TypeInv
<1>1. seq[t] \in Nat /\ Slot(seq[t]) \in Slots
  BY SlotRoundType DEF TypeOK, Seqs
<1>2. /\ claim[t].off \in Nat /\ claim[t].cnt \in Nat /\ claim[t].sub \in Nat
      /\ claim[t].sub <= claim[t].cnt /\ token[Slot(seq[t])].sc \in 0..MaxBatch
  BY <1>1, SizesAssumption DEF TypeOK, Claim, Token, ClaimFits
<1>3. claim[t].off + claim[t].cnt <= token[Slot(seq[t])].sc
  BY DEF RingInv, ThreadInv
<1>4. RowsOf(t) \subseteq Rows
  BY <1>2, <1>3, SizesAssumption DEF RowsOf, Rows
<1>5. pc[t] \in Acquired => claim[t].buf \in Buffers /\ claim[t].buf # None
  BY DEF ClaimFits, Buffers, None
<1>6. pc[t] \in Acquired => token[Slot(seq[t])].full /\ token[Slot(seq[t])].buf = claim[t].buf
  BY <1>5 DEF RingInv, ThreadInv
<1> QED BY <1>1, <1>2, <1>3, <1>4, <1>5, <1>6

\* Holders of the same buffer hold rows of the same batch.
LEMMA HoldersOfBuffer ==
  ASSUME TypeInv, RingInv, NEW t \in Threads, NEW u \in Threads,
         pc[t] \in Acquired, At(seq[t]) = seq[t], pc[u] \in Acquired, At(seq[u]) = seq[u],
         claim[t].buf = claim[u].buf
  PROVE  seq[t] = seq[u]
<1>1. pc[t] \in Claiming /\ pc[u] \in Claiming
  BY DEF Acquired
<1>2. Slot(seq[t]) = Slot(seq[u])
  BY <1>1, HolderRows DEF RingInv, QueueInv, OffersInv
<1> QED BY <1>2 DEF At

\* While the gather kernel runs on the buffer of a holder, it is for its batch.
LEMMA HolderOfGather ==
  ASSUME TypeInv, RingInv, NEW t \in Threads, pc[t] \in Acquired, At(seq[t]) = seq[t]
  PROVE  /\ kern[claim[t].buf].stage \in {"idle", "gather"}
         /\ kern[claim[t].buf].stage = "gather" => kern[claim[t].buf].seq = seq[t]
<1> DEFINE b == claim[t].buf
<1>0. pc[t] \in Claiming
  BY DEF Acquired
<1>1. /\ b \in Buffers /\ Slot(seq[t]) \in Slots /\ token[Slot(seq[t])].full
      /\ token[Slot(seq[t])].buf = b
  BY <1>0, HolderRows
<1>2. kern[b].stage \in {"idle", "gather"}
  <2>1. kern[b].stage \notin {"gathered", "copied"}
    BY <1>1 DEF RingInv, KernelInv
  <2>2. kern[b] \in KernelState
    BY <1>1 DEF TypeInv, TypeOK
  <2> QED BY <2>1, <2>2 DEF KernelState
<1>3. ASSUME kern[b].stage = "gather" PROVE kern[b].seq = seq[t]
  <2>1. Slot(kern[b].seq) = Slot(seq[t]) /\ At(kern[b].seq) = kern[b].seq
    BY <1>1, <1>3, GatherSlot
  <2> QED BY <2>1 DEF At
<1> QED BY <1>2, <1>3

-----------------------------------------------------------------------------
(* What a step that leaves the rows alone preserves.                       *)

LEMMA AnswersInit == Init => AnswersInv
<1> SUFFICES ASSUME Init PROVE AnswersInv
  OBVIOUS
<1>1. \A b \in Buffers, i \in Rows : RowInv(b, i)
  BY DEF Init, RowInv, NoPtrs, IdleKernel
<1>2. \A t \in Threads, i \in Rows : HandedInv(t, i)
  BY DEF Init, HandedInv, Acquired, Claiming
<1>3. GatherComplete
  BY DEF Init, GatherComplete, IdleKernel
<1>4. AnswerIsOwn
  BY DEF Init, AnswerIsOwn
<1> QED BY <1>1, <1>2, <1>3, <1>4 DEF AnswersInv

\* The buffers are not touched; t keeps what it has of a batch, or lets go of it.
LEMMA AnswersMove ==
  ASSUME TypeInv, RingInv, AnswersInv, NEW t \in Threads,
         UNCHANGED <<ptrs, gathered, blk, progress>>,
         \A b \in Buffers : kern'[b].stage = kern[b].stage /\ kern'[b].seq = kern[b].seq,
         \A s \in Slots : token'[s].round = token[s].round /\ token'[s].sc = token[s].sc,
         AnswerIsOwn',
         \A u \in Threads \ {t} : /\ pc'[u] = pc[u] /\ seq'[u] = seq[u]
                                  /\ claim'[u] = claim[u] /\ req'[u] = req[u],
         pc'[t] \in Claiming =>
           /\ pc[t] \in Claiming /\ seq'[t] = seq[t] /\ req'[t] = req[t]
           /\ claim'[t].off = claim[t].off /\ claim'[t].cnt = claim[t].cnt
           /\ claim'[t].sub = claim[t].sub
           /\ \/ claim[t].sub = 0
              \/ claim'[t].buf = claim[t].buf /\ (pc'[t] \in Acquired => pc[t] \in Acquired)
  PROVE  AnswersInv'
<1> USE DEF TypeInv
<1>1. ASSUME NEW b \in Buffers, NEW i \in Rows PROVE RowInv(b, i)'
  <2>1. kern[b].stage = "gather" => Slot(kern[b].seq) \in Slots
    BY SlotRoundType DEF KernelSet
  <2> QED BY <2>1 DEF AnswersInv, RowInv
<1>2. ASSUME NEW u \in Threads, pc'[u] \in Claiming
      PROVE  /\ pc[u] \in Claiming /\ seq'[u] = seq[u] /\ req'[u] = req[u]
             /\ claim'[u].off = claim[u].off /\ claim'[u].cnt = claim[u].cnt
             /\ claim'[u].sub = claim[u].sub
             /\ \/ claim[u].sub = 0
                \/ claim'[u].buf = claim[u].buf /\ (pc'[u] \in Acquired => pc[u] \in Acquired)
  BY <1>2
<1>3. ASSUME NEW u \in Threads, NEW i \in Rows PROVE HandedInv(u, i)'
  <2> SUFFICES ASSUME pc'[u] \in Acquired, (At(seq[u]) = seq[u])', claim'[u].off <= i,
                      i < claim'[u].off + claim'[u].sub
               PROVE  LET b == claim'[u].buf IN
                      \/ ptrs'[b][i].query = Own(u, i)'
                      \/ kern'[b].stage = "gather" /\ blk'[b][i] = "done"
                         /\ gathered'[b][i] = Own(u, i)'
    BY DEF HandedInv
  <2>1. pc'[u] \in Claiming
    BY DEF Acquired
  <2>2. claim[u].sub # 0
    BY <1>2, <2>1, SizesAssumption DEF TypeOK, Claim, Rows
  <2>3. claim'[u].buf = claim[u].buf /\ pc[u] \in Acquired
    BY <1>2, <2>1, <2>2
  <2>4. Own(u, i)' = Own(u, i)
    BY <1>2, <2>1 DEF Own
  <2>5. At(seq[u]) = seq[u]
    <3>1. Slot(seq[u]) \in Slots
      BY SlotRoundType DEF TypeOK, Seqs
    <3> QED BY <1>2, <2>1, <3>1 DEF At, Batch
  <2>6. HandedInv(u, i)
    BY DEF AnswersInv
  <2>7. claim[u].buf \in Buffers
    BY <2>3 DEF ClaimFits, Acquired
  <2> QED BY <1>2, <2>1, <2>3, <2>4, <2>5, <2>6, <2>7 DEF HandedInv
<1>4. GatherComplete'
  <2> SUFFICES ASSUME NEW b \in Buffers, NEW u \in Threads, kern'[b].stage = "gathered",
                      pc'[u] \in Claiming, seq'[u] = kern'[b].seq
               PROVE  /\ claim'[u].off + claim'[u].cnt <= progress'[b]
                      /\ \A i \in RowsOf(u)' :
                           gathered'[b][i] = Query(u, req'[u].num,
                              req'[u].total - req'[u].need + i - claim'[u].off)
    BY DEF GatherComplete
  <2>1. RowsOf(u)' = RowsOf(u)
    BY <1>2 DEF RowsOf
  <2> QED BY <1>2, <2>1 DEF AnswersInv, GatherComplete
<1> QED BY <1>1, <1>3, <1>4 DEF AnswersInv

-----------------------------------------------------------------------------
(* The steps of a thread.                                                  *)

\* The ones that touch no buffer.
LEMMA AnswersMoves ==
  ASSUME TypeInv, RingInv, AnswersInv, NEW t \in Threads,
         \/ \E n \in ReqSizes : StartSearch(t, n)
         \/ LoadHead(t) \/ CheckTail(t) \/ Pop(t) \/ AwaitBuffer(t) \/ SubmitDeadline(t)
         \/ TakeSize(t) \/ ResetSize(t) \/ PushReserve(t) \/ PushWait(t) \/ RecordEvent(t)
         \/ Publish(t) \/ WaitDispatch(t) \/ WaitEvent(t) \/ Sync(t) \/ Return(t)
  PROVE  AnswersInv'
<1> USE DEF Goto, queueVars, bufferVars, TypeInv
<1>1. ThreadInv(t) /\ claim[t] \in Claim /\ AnswerIsOwn
  BY DEF RingInv, TypeOK, AnswersInv
<1>2. UNCHANGED <<req, out>> => AnswerIsOwn'
  BY <1>1 DEF AnswerIsOwn
<1>3. ASSUME NEW n \in ReqSizes, StartSearch(t, n) PROVE AnswersInv'
  <2>1. AnswerIsOwn'
    <3>1. \A i \in Rows : out'[t][i] = NoQuery
      BY <1>3 DEF StartSearch, TypeOK
    <3>2. \A u \in Threads \ {t} : out'[u] = out[u] /\ req'[u] = req[u]
      BY <1>3 DEF StartSearch, TypeOK
    <3> QED BY <1>1, <3>1, <3>2 DEF AnswerIsOwn
  <2>2. pc'[t] \notin Claiming
    BY <1>3 DEF StartSearch, TypeOK, Claiming
  <2> QED BY <1>3, <2>1, <2>2, AnswersMove DEF StartSearch, TypeOK
<1>4. CASE LoadHead(t) \/ CheckTail(t)
  <2>1. /\ pc'[t] \notin Claiming
        /\ UNCHANGED <<token, ptrs, gathered, blk, progress, kern, claim, req, out>>
        /\ \A u \in Threads \ {t} : pc'[u] = pc[u] /\ seq'[u] = seq[u]
    BY <1>4 DEF LoadHead, CheckTail, TypeOK, Claiming
  <2> QED BY <1>2, <2>1, AnswersMove
<1>5. CASE Pop(t) \/ RecordEvent(t) \/ WaitDispatch(t) \/ Sync(t) \/ Return(t)
  <2>1. /\ UNCHANGED <<token, ptrs, gathered, blk, progress, kern, seq, claim, req, out>>
        /\ \A u \in Threads \ {t} : pc'[u] = pc[u]
    BY <1>5 DEF Pop, RecordEvent, WaitDispatch, Sync, Return, TypeOK
  <2>2. pc'[t] \in Claiming => /\ pc[t] \in Claiming
                               /\ claim[t].sub = 0 \/ (pc'[t] \in Acquired => pc[t] \in Acquired)
    <3>1. CASE Pop(t)
      BY <1>1, <3>1 DEF Pop, ThreadInv, Holding, Claiming, TypeOK
    <3>2. CASE RecordEvent(t) \/ WaitDispatch(t) \/ Sync(t) \/ Return(t)
      BY <3>2 DEF RecordEvent, WaitDispatch, Sync, Return, Claiming, Acquired, TypeOK
    <3> QED BY <1>5, <3>1, <3>2
  <2> QED BY <1>2, <2>1, <2>2, AnswersMove
<1>6. CASE AwaitBuffer(t)
  <2>1. /\ pc[t] = "await" /\ claim[t].sub = 0
        /\ UNCHANGED <<token, ptrs, gathered, blk, progress, kern, seq, req, out>>
        /\ \A u \in Threads \ {t} : pc'[u] = pc[u] /\ claim'[u] = claim[u]
    BY <1>1, <1>6 DEF AwaitBuffer, TypeOK, ThreadInv, Holding
  <2>2. /\ claim'[t].off = claim[t].off /\ claim'[t].cnt = claim[t].cnt
        /\ claim'[t].sub = claim[t].sub
    BY <1>1, <1>6 DEF AwaitBuffer, TypeOK, Claim
  <2> QED BY <1>2, <2>1, <2>2, AnswersMove DEF Claiming
<1>7. CASE SubmitDeadline(t) \/ TakeSize(t) \/ ResetSize(t) \/ PushReserve(t)
  <2>1. /\ pc[t] \in Claiming /\ pc[t] \in Acquired
        /\ UNCHANGED <<token, ptrs, gathered, blk, progress, kern, seq, req, out>>
        /\ \A u \in Threads \ {t} : pc'[u] = pc[u] /\ claim'[u] = claim[u]
    BY <1>7 DEF SubmitDeadline, TakeSize, ResetSize, PushReserve, TypeOK, Claiming, Acquired
  <2>2. /\ claim'[t].off = claim[t].off /\ claim'[t].cnt = claim[t].cnt
        /\ claim'[t].sub = claim[t].sub /\ claim'[t].buf = claim[t].buf
    BY <1>1, <1>7 DEF SubmitDeadline, TakeSize, ResetSize, PushReserve, TypeOK, Claim
  <2> QED BY <1>2, <2>1, <2>2, AnswersMove
<1>8. CASE PushWait(t)
  <2>1. /\ pc[t] \in Claiming /\ pc[t] \in Acquired
        /\ UNCHANGED <<token, ptrs, gathered, blk, progress, seq, claim, req, out>>
        /\ \A u \in Threads \ {t} : pc'[u] = pc[u]
    BY <1>8 DEF PushWait, TypeOK, Claiming, Acquired
  <2>2. \A b \in Buffers : kern'[b].stage = kern[b].stage /\ kern'[b].seq = kern[b].seq
    <3>1. CASE UNCHANGED kern
      BY <3>1
    <3>2. CASE kern' = [kern EXCEPT ![claim[t].buf].size = claim[t].size,
                                    ![claim[t].buf].next = claim[t].next]
      BY <3>2 DEF TypeOK, KernelState
    <3> QED BY <1>8, <3>1, <3>2 DEF PushWait
  <2> QED BY <1>2, <2>1, <2>2, AnswersMove
<1>9. CASE Publish(t) \/ WaitEvent(t)
  <2>1. /\ pc'[t] \notin Claiming
        /\ UNCHANGED <<token, ptrs, gathered, blk, progress, kern, seq, out>>
        /\ req' = [req EXCEPT ![t].need = @ - claim[t].cnt]
        /\ claim' = [claim EXCEPT ![t] = NoClaim]
        /\ \A u \in Threads \ {t} : pc'[u] = pc[u]
    BY <1>9 DEF Publish, WaitEvent, EndOfBatch, TypeOK, Claiming
  <2>2. \A u \in Threads : req'[u].num = req[u].num
    BY <2>1 DEF TypeOK, Request
  <2>3. AnswerIsOwn'
    BY <1>1, <2>1, <2>2 DEF AnswerIsOwn
  <2>4. \A u \in Threads \ {t} : claim'[u] = claim[u] /\ req'[u] = req[u]
    BY <2>1 DEF TypeOK
  <2> QED BY <2>1, <2>3, <2>4, AnswersMove
<1> QED BY <1>3, <1>4, <1>5, <1>6, <1>7, <1>8, <1>9

\* A commit takes rows that nobody holds and the gather kernel has not passed.
LEMMA AnswersTryCommit ==
  ASSUME TypeInv, TypeInv', RingInv, AnswersInv, NEW t \in Threads, TryCommit(t)
  PROVE  AnswersInv'
<1> USE DEF Goto, bufferVars, TypeInv
<1>0. PICK n, s : n = seq[t] /\ s = Slot(n)
  OBVIOUS
<1>1. /\ n = seq[t] /\ s = Slot(n) /\ n \in Nat /\ s \in Slots /\ pc[t] = "commit"
      /\ n <= head /\ RoundBound(t) /\ AnswerIsOwn
      /\ UNCHANGED <<ptrs, gathered, blk, progress, kern, seq, req, out>>
      /\ \A u \in Threads \ {t} : pc'[u] = pc[u] /\ claim'[u] = claim[u]
  BY <1>0, SlotRoundType DEF TryCommit, TypeOK, Seqs, RingInv, ThreadInv, AnswersInv
<1>2. AnswerIsOwn'
  BY <1>1 DEF AnswerIsOwn
<1>3. CASE UNCHANGED <<token, claim>> /\ pc'[t] \notin Claiming
  BY <1>1, <1>2, <1>3, AnswersMove
<1>4. CASE /\ Status(token[s], n) \in {kFull, kEmpty} /\ ~Uncommittable(token[s])
           /\ \E sc : token' = [token EXCEPT ![s].sc = sc]
           /\ claim'[t].sub = 0
  <2>1. At(n) = n /\ ~token[s].closed
    BY <1>1, <1>4, ThreadReads DEF RingInv, Uncommittable
  <2>2. /\ \A r \in Slots : token'[r].round = token[r].round
        /\ \A r \in Slots \ {s} : token'[r] = token[r]
    BY <1>1, <1>4 DEF TypeOK, Token
  <2>3. ASSUME NEW b \in Buffers, NEW i \in Rows PROVE RowInv(b, i)'
    <3>1. RowInv(b, i) /\ BlockInv(b, i)
      BY DEF AnswersInv, RingInv
    <3>2. ASSUME kern[b].stage = "gather", blk[b][i] = "done",
                 i < token'[Slot(kern[b].seq)].sc
          PROVE  i < token[Slot(kern[b].seq)].sc
      <4>1. Slot(kern[b].seq) \in Slots
        BY <3>2, GatherSlot
      <4>2. CASE Slot(kern[b].seq) = s
        <5>1. ~(token[s].sc <= i)
          BY <2>1, <3>1, <3>2, <4>2 DEF BlockInv
        <5>2. token[s].sc \in Nat /\ i \in Nat
          BY <1>1 DEF TypeOK, Token, Rows
        <5> QED BY <4>2, <5>1, <5>2
      <4>3. CASE Slot(kern[b].seq) # s
        BY <2>2, <3>2, <4>1, <4>3
      <4> QED BY <4>2, <4>3
    <3> QED BY <1>1, <3>1, <3>2 DEF RowInv
  <2>4. ASSUME NEW u \in Threads, NEW i \in Rows PROVE HandedInv(u, i)'
    <3>1. CASE u = t
      <4>1. claim'[t].off \in Nat /\ i \in Nat
        BY SizesAssumption DEF TypeOK, Claim, Rows
      <4> QED BY <1>4, <3>1, <4>1 DEF HandedInv
    <3>2. CASE u # t
      <4>1. Slot(seq[u]) \in Slots /\ seq'[u] = seq[u] /\ req'[u] = req[u]
            /\ claim'[u] = claim[u] /\ pc'[u] = pc[u]
        BY <1>1, <3>2, SlotRoundType DEF TypeOK, Seqs
      <4>2. At(seq[u])' = At(seq[u])
        BY <2>2, <4>1 DEF At, Batch
      <4>3. Own(u, i)' = Own(u, i)
        BY <4>1 DEF Own
      <4>4. HandedInv(u, i)
        BY DEF AnswersInv
      <4> QED BY <1>1, <4>1, <4>2, <4>3, <4>4 DEF HandedInv
    <3> QED BY <3>1, <3>2
  <2>5. GatherComplete'
    <3>1. \A b \in Buffers : kern[b].stage = "gathered" => kern[b].seq # n
      BY <1>1, <2>1 DEF RingInv, KernelInv
    <3>2. \A u \in Threads \ {t} : RowsOf(u)' = RowsOf(u)
      BY <1>1 DEF RowsOf
    <3> QED BY <1>1, <3>1, <3>2 DEF AnswersInv, GatherComplete
  <2> QED BY <1>2, <2>3, <2>4, <2>5 DEF AnswersInv
<1>5. Status(token[s], n) # Invalid
  BY <1>1, ThreadReads DEF RingInv
<1>6. \/ UNCHANGED <<token, claim>> /\ Goto(t, "head")
      \/ UNCHANGED <<token, claim>> /\ Goto(t, "popRetry")
      \/ /\ Status(token[s], n) \in {kFull, kEmpty} /\ ~Uncommittable(token[s])
         /\ \E sc : token' = [token EXCEPT ![s].sc = sc]
         /\ \E c : claim' = [claim EXCEPT ![t] = c] /\ c.sub = 0
  <2> DEFINE tok == token[s]
             sc2 == Committed(tok.sc, req[t].need)
             c   == [off |-> tok.sc, cnt |-> sc2 - tok.sc, sub |-> 0, size |-> 0,
                     buf |-> IF Status(tok, n) = kFull THEN tok.buf ELSE None, next |-> None]
  <2>1. c.sub = 0
    OBVIOUS
  <2>2. \/ UNCHANGED <<token, claim>> /\ Goto(t, "head")
        \/ UNCHANGED <<token, claim>> /\ Goto(t, "popRetry")
        \/ /\ Status(tok, n) \in {kFull, kEmpty} /\ ~Uncommittable(tok)
           /\ token' = [token EXCEPT ![s].sc = sc2] /\ claim' = [claim EXCEPT ![t] = c]
    BY <1>1, <1>5 DEF TryCommit
  <2> HIDE DEF c, sc2
  <2> QED BY <2>1, <2>2
<1> QED BY <1>3, <1>4, <1>6 DEF TypeOK, Claiming

\* The gather kernel is launched on an unused buffer.
LEMMA AnswersLaunch ==
  ASSUME TypeInv, RingInv, AnswersInv, NEW t \in Threads, LaunchGather(t)
  PROVE  AnswersInv'
<1> USE DEF Goto, TypeInv
<1>0. PICK c : c = claim[t].buf
  OBVIOUS
<1>1. /\ c \in Buffers /\ kern[c].stage = "idle"
      /\ UNCHANGED <<token, ptrs, gathered, progress, seq, claim, req, out>>
      /\ kern'[c].stage = "gather"
      /\ \A i \in Rows : blk'[c][i] = "poll"
      /\ \A b \in Buffers \ {c} : kern'[b] = kern[b] /\ blk'[b] = blk[b]
  BY <1>0, LaunchIsFirst DEF LaunchGather, TypeOK
<1>2. pc'[t] = "submit" /\ pc[t] = "launch" /\ \A u \in Threads \ {t} : pc'[u] = pc[u]
  BY DEF LaunchGather, TypeOK
<1>3. ASSUME NEW b \in Buffers, NEW i \in Rows PROVE RowInv(b, i)'
  <2>1. RowInv(b, i)
    BY DEF AnswersInv
  <2>2. CASE b = c
    BY <1>1, <2>1, <2>2 DEF RowInv
  <2>3. CASE b # c
    BY <1>1, <2>1, <2>3 DEF RowInv
  <2> QED BY <2>2, <2>3
<1>4. ASSUME NEW u \in Threads, NEW i \in Rows PROVE HandedInv(u, i)'
  <2>1. HandedInv(u, i) /\ Own(u, i)' = Own(u, i) /\ At(seq[u])' = At(seq[u])
    BY <1>1 DEF AnswersInv, Own, At, Batch
  <2>2. pc'[u] \in Acquired => pc[u] \in Acquired
    BY <1>2 DEF Acquired, Claiming
  <2>3. pc[u] \in Acquired => claim[u].buf \in Buffers
    BY DEF ClaimFits, Acquired
  <2> QED BY <1>1, <2>1, <2>2, <2>3 DEF HandedInv
<1>5. GatherComplete'
  <2>1. \A u \in Threads : RowsOf(u)' = RowsOf(u) /\ (pc'[u] \in Claiming => pc[u] \in Claiming)
    BY <1>1, <1>2 DEF RowsOf, Claiming
  <2>2. \A b \in Buffers : kern'[b].stage = "gathered" => b # c /\ kern'[b] = kern[b]
    BY <1>1
  <2> QED BY <1>1, <2>1, <2>2 DEF AnswersInv, GatherComplete
<1>6. AnswerIsOwn'
  BY <1>1 DEF AnswersInv, AnswerIsOwn
<1> QED BY <1>3, <1>4, <1>5, <1>6 DEF AnswersInv

\* A thread sets the pointers of a row of its own, which the gather kernel awaits.
LEMMA AnswersSubmit ==
  ASSUME TypeInv, TypeInv', RingInv, AnswersInv, NEW t \in Threads, SubmitQuery(t)
  PROVE  AnswersInv'
<1> USE DEF queueVars, TypeInv
<1>0. PICK c, k : c = claim[t].buf /\ k = claim[t].off + claim[t].sub
  OBVIOUS
<1>1. /\ c = claim[t].buf /\ k = claim[t].off + claim[t].sub
      /\ pc[t] = "submit" /\ claim[t].sub < claim[t].cnt
      /\ UNCHANGED <<token, gathered, progress, blk, kern, pc, seq, req, out>>
      /\ ptrs' = [ptrs EXCEPT ![c][k] = Pointers(t)]
  BY <1>0 DEF SubmitQuery
<1>2. /\ claim'[t].off = claim[t].off /\ claim'[t].cnt = claim[t].cnt
      /\ claim'[t].buf = claim[t].buf /\ claim'[t].sub = claim[t].sub + 1
      /\ \A u \in Threads \ {t} : claim'[u] = claim[u]
  BY DEF SubmitQuery, TypeOK, Claim
<1>3. pc[t] \in Claiming /\ pc[t] \in Acquired /\ At(seq[t]) = seq[t]
  BY <1>1 DEF RingInv, ThreadInv, Claiming, Acquired
<1>4. /\ c \in Buffers /\ claim[t].off \in Nat /\ claim[t].sub \in Nat /\ claim[t].cnt \in Nat
      /\ RowsOf(t) \subseteq Rows /\ k \in Rows /\ k \in RowsOf(t)
  <2>1. /\ c \in Buffers /\ claim[t].off \in Nat /\ claim[t].sub \in Nat /\ claim[t].cnt \in Nat
        /\ RowsOf(t) \subseteq Rows
    BY <1>1, <1>3, HolderRows
  <2>2. k \in RowsOf(t)
    BY <1>1, <2>1 DEF RowsOf
  <2> QED BY <2>1, <2>2
<1>5. /\ ptrs'[c][k] = Pointers(t)
      /\ \A b \in Buffers, i \in Rows : b # c \/ i # k => ptrs'[b][i] = ptrs[b][i]
  BY <1>1, <1>4 DEF TypeOK
<1>6. Pointers(t).query = Pointers(t).out /\ Pointers(t).query = Own(t, k)
  <2>1. req[t].total - req[t].need + k - claim[t].off
          = req[t].total - req[t].need + claim[t].sub
    BY <1>1, <1>4, SizesAssumption DEF TypeOK, Request
  <2> QED BY <2>1 DEF Pointers, Own
<1>7. /\ kern[c].stage \in {"idle", "gather"}
      /\ kern[c].stage = "gather" => blk[c][k] # "done"
  <2>1. kern[c].stage \in {"idle", "gather"} /\ (kern[c].stage = "gather" => kern[c].seq = seq[t])
    BY <1>1, <1>3, HolderOfGather
  <2>2. Pending(t, k)
    BY <1>1, <1>4 DEF Pending, Holding
  <2> QED BY <1>4, <2>1, <2>2 DEF RingInv, BlockInv
<1>8. ASSUME NEW b \in Buffers, NEW i \in Rows PROVE RowInv(b, i)'
  <2>1. RowInv(b, i)
    BY DEF AnswersInv
  <2>2. CASE b = c /\ i = k
    BY <1>1, <1>5, <1>6, <1>7, <2>2 DEF RowInv
  <2>3. CASE b # c \/ i # k
    BY <1>1, <1>5, <2>1, <2>3 DEF RowInv
  <2> QED BY <2>2, <2>3
<1>9. ASSUME NEW u \in Threads, NEW i \in Rows PROVE HandedInv(u, i)'
  <2> SUFFICES ASSUME pc[u] \in Acquired, At(seq[u]) = seq[u], claim'[u].off <= i,
                      i < claim'[u].off + claim'[u].sub
               PROVE  LET b == claim[u].buf IN
                      \/ ptrs'[b][i].query = Own(u, i)
                      \/ kern[b].stage = "gather" /\ blk[b][i] = "done"
                         /\ gathered[b][i] = Own(u, i)
    <3>1. At(seq[u])' = At(seq[u]) /\ claim'[u].buf = claim[u].buf
      BY <1>1, <1>2 DEF At, Batch
    <3>2. Own(u, i)' = Own(u, i)
      BY <1>1, <1>2 DEF Own
    <3> QED BY <1>1, <3>1, <3>2 DEF HandedInv
  <2>1. HandedInv(u, i) /\ claim[u].buf \in Buffers
    BY DEF AnswersInv, ClaimFits, Acquired
  <2>2. CASE u = t /\ i = k
    BY <1>1, <1>5, <1>6, <2>2
  <2>3. CASE u = t /\ i # k
    <3>1. i < claim[t].off + claim[t].sub
      BY <1>1, <1>2, <1>4, <2>3 DEF Rows
    <3> QED BY <1>1, <1>2, <1>5, <2>1, <2>3, <3>1 DEF HandedInv
  <2>4. CASE u # t
    <3>1. claim[u].off <= i /\ i < claim[u].off + claim[u].sub
      BY <1>2, <2>4
    <3>2. claim[u].buf # c \/ i # k
      <4> SUFFICES ASSUME claim[u].buf = c PROVE i # k
        OBVIOUS
      <4>1. seq[u] = seq[t] /\ pc[u] \in Claiming
        BY <1>1, <1>3, HoldersOfBuffer DEF Acquired
      <4>2. i \in RowsOf(u)
        <5>1. claim[u].sub <= claim[u].cnt /\ claim[u].off \in Nat /\ claim[u].sub \in Nat
              /\ claim[u].cnt \in Nat /\ i \in Nat
          BY <4>1, HolderRows DEF Rows
        <5> QED BY <3>1, <5>1 DEF RowsOf
      <4>3. RowsOf(t) \intersect RowsOf(u) = {}
        BY <1>3, <2>4, <4>1 DEF RingInv, ClaimsDisjoint
      <4> QED BY <1>4, <4>2, <4>3
    <3> QED BY <1>5, <2>1, <3>1, <3>2 DEF HandedInv
  <2> QED BY <2>2, <2>3, <2>4
<1>10. GatherComplete'
  <2>1. \A u \in Threads : RowsOf(u)' = RowsOf(u)
    BY <1>2 DEF RowsOf
  <2>2. \A u \in Threads : claim'[u].off = claim[u].off /\ claim'[u].cnt = claim[u].cnt
    BY <1>2
  <2> QED BY <1>1, <2>1, <2>2 DEF AnswersInv, GatherComplete
<1>11. AnswerIsOwn'
  BY <1>1 DEF AnswersInv, AnswerIsOwn
<1> QED BY <1>8, <1>9, <1>10, <1>11 DEF AnswersInv

-----------------------------------------------------------------------------
(* The steps of the kernels.                                               *)

\* A block takes the query of its row, or leaves a row that nobody holds.
LEMMA AnswersBlock ==
  ASSUME TypeInv, TypeInv', RingInv, AnswersInv,
         NEW c \in Buffers, NEW k \in Rows, Block(c, k)
  PROVE  AnswersInv'
<1> USE DEF queueVars, threadVars, TypeInv
<1>1. /\ kern[c].stage = "gather" /\ blk[c][k] # "done" /\ Slot(kern[c].seq) \in Slots
      /\ UNCHANGED <<progress, kern, pc, seq, claim, req, out>>
  <2>1. /\ kern[c].stage = "gather" /\ blk[c][k] # "done"
        /\ UNCHANGED <<progress, kern, pc, seq, claim, req, out>>
    BY DEF Block, GatherTake, GatherSkip, GatherExpire, GatherClose, Running
  <2> QED BY <2>1, GatherSlot
<1>2. \A s \in Slots : token'[s].sc = token[s].sc /\ token'[s].round = token[s].round
  <2>1. CASE UNCHANGED token
    BY <2>1
  <2>2. CASE GatherClose(c, k)
    <3>1. token' = [token EXCEPT ![Slot(kern[c].seq)] =
                      [token[Slot(kern[c].seq)] EXCEPT !.closed = TRUE]]
      BY <2>2 DEF GatherClose
    <3>2. \A s \in Slots : LET new == [token[s] EXCEPT !.closed = TRUE]
                           IN  new.sc = token[s].sc /\ new.round = token[s].round
      BY DEF TypeOK, Token
    <3> QED BY <3>1, <3>2 DEF TypeOK
  <2> QED BY <2>1, <2>2 DEF Block, GatherTake, GatherSkip, GatherExpire
<1>3. \A b \in Buffers, i \in Rows : b # c \/ i # k =>
         ptrs'[b][i] = ptrs[b][i] /\ blk'[b][i] = blk[b][i] /\ gathered'[b][i] = gathered[b][i]
  BY DEF Block, GatherTake, GatherSkip, GatherExpire, GatherClose, TypeOK
<1>4. \/ /\ ptrs[c][k].query # NoQuery /\ gathered'[c][k] = ptrs[c][k].query
         /\ ptrs'[c][k].query = NoQuery /\ ptrs'[c][k].out = ptrs[c][k].out
         /\ blk'[c][k] = "done"
      \/ /\ ptrs'[c][k] = ptrs[c][k] /\ gathered'[c][k] = gathered[c][k]
         /\ blk'[c][k] = "done" => token[Slot(kern[c].seq)].sc <= k
  <2>1. CASE GatherTake(c, k)
    BY <2>1 DEF GatherTake, TypeOK, Pointer
  <2>2. CASE GatherSkip(c, k) \/ GatherExpire(c, k)
    BY <2>2 DEF GatherSkip, GatherExpire, GatherToken, TypeOK
  <2>3. CASE GatherClose(c, k)
    <3>1. token[Slot(kern[c].seq)].sc \in Nat /\ k \in Nat
      BY <1>1 DEF TypeOK, Token, Rows
    <3> QED BY <2>3, <3>1 DEF GatherClose, AfterClose, TypeOK
  <2> QED BY <2>1, <2>2, <2>3 DEF Block
<1>5. ASSUME NEW b \in Buffers, NEW i \in Rows PROVE RowInv(b, i)'
  <2>1. RowInv(b, i) /\ (kern[b].stage = "gather" => Slot(kern[b].seq) \in Slots)
    BY SlotRoundType DEF AnswersInv, KernelSet
  <2>2. CASE b # c \/ i # k
    BY <1>1, <1>2, <1>3, <2>1, <2>2 DEF RowInv
  <2>3. CASE b = c /\ i = k
    <3>1. token[Slot(kern[c].seq)].sc \in Nat /\ k \in Nat
      BY <1>1 DEF TypeOK, Token, Rows
    <3> QED BY <1>1, <1>2, <1>4, <2>1, <2>3, <3>1 DEF RowInv
  <2> QED BY <2>2, <2>3
<1>6. ASSUME NEW u \in Threads, NEW i \in Rows PROVE HandedInv(u, i)'
  <2> SUFFICES ASSUME pc[u] \in Acquired, At(seq[u]) = seq[u], claim[u].off <= i,
                      i < claim[u].off + claim[u].sub
               PROVE  LET b == claim[u].buf IN
                      \/ ptrs'[b][i].query = Own(u, i)
                      \/ kern[b].stage = "gather" /\ blk'[b][i] = "done"
                         /\ gathered'[b][i] = Own(u, i)
    <3>1. Slot(seq[u]) \in Slots
      BY SlotRoundType DEF TypeOK, Seqs
    <3>2. At(seq[u])' = At(seq[u])
      BY <1>1, <1>2, <3>1 DEF At, Batch
    <3>3. Own(u, i)' = Own(u, i)
      BY <1>1 DEF Own
    <3> QED BY <1>1, <3>2, <3>3 DEF HandedInv
  <2>1. /\ claim[u].buf \in Buffers
        /\ \/ ptrs[claim[u].buf][i].query = Own(u, i)
           \/ kern[claim[u].buf].stage = "gather" /\ blk[claim[u].buf][i] = "done"
              /\ gathered[claim[u].buf][i] = Own(u, i)
    BY DEF AnswersInv, HandedInv, ClaimFits, Acquired
  <2> QED BY <1>1, <1>3, <1>4, <2>1
<1>7. GatherComplete'
  <2>1. \A u \in Threads : RowsOf(u)' = RowsOf(u)
    BY <1>1 DEF RowsOf
  <2>2. \A b \in Buffers : kern[b].stage = "gathered" => gathered'[b] = gathered[b]
    BY <1>1 DEF Block, GatherTake, GatherSkip, GatherExpire, GatherClose, TypeOK
  <2> QED BY <1>1, <2>1, <2>2 DEF AnswersInv, GatherComplete
<1>8. AnswerIsOwn'
  BY <1>1 DEF AnswersInv, AnswerIsOwn
<1> QED BY <1>5, <1>6, <1>7, <1>8 DEF AnswersInv

\* When the last block leaves, the batch store has the queries of all holders.
LEMMA AnswersGatherFinish ==
  ASSUME TypeInv, TypeInv', RingInv, RingInv', AnswersInv, NEW c \in Buffers, GatherFinish(c)
  PROVE  AnswersInv'
<1> USE DEF threadVars, TypeInv
<1>0. PICK n, s : n = kern[c].seq /\ s = Slot(n)
  OBVIOUS
<1>1. /\ n = kern[c].seq /\ s = Slot(n) /\ kern[c].stage = "gather"
      /\ n \in Nat /\ s \in Slots /\ token[s].full /\ token[s].buf = c /\ At(n) = n
      /\ token[s].sc \in Nat
  BY <1>0, GatherSlot DEF GatherFinish, Running, Token
<1>2. /\ UNCHANGED <<ptrs, gathered, pc, seq, claim, req, out>>
      /\ \A i \in Rows : blk[c][i] = "done"
      /\ kern'[c].stage = "gathered" /\ kern'[c].seq = n /\ progress'[c] = token[s].sc
      /\ \A b \in Buffers \ {c} : kern'[b] = kern[b] /\ blk'[b] = blk[b]
                                  /\ progress'[b] = progress[b]
      /\ \A r \in Slots \ {s} : token'[r] = token[r]
  BY <1>1 DEF GatherFinish, TypeOK, KernelState
<1>3. ASSUME NEW b \in Buffers, NEW i \in Rows PROVE RowInv(b, i)'
  <2>1. RowInv(b, i)
    BY DEF AnswersInv
  <2>2. CASE b = c
    BY <1>1, <1>2, <2>1, <2>2 DEF RowInv
  <2>3. CASE b # c
    <3>1. kern[b].stage = "gather" => Slot(kern[b].seq) \in Slots /\ Slot(kern[b].seq) # s
      BY <1>1, <2>3, GatherSlot
    <3> QED BY <1>2, <2>1, <2>3, <3>1 DEF RowInv
  <2> QED BY <2>2, <2>3
<1>4. ASSUME NEW u \in Threads, NEW i \in Rows PROVE HandedInv(u, i)'
  <2> SUFFICES ASSUME pc[u] \in Acquired, (At(seq[u]) = seq[u])'
               PROVE  /\ At(seq[u]) = seq[u] /\ Own(u, i)' = Own(u, i)
                      /\ claim[u].buf \in Buffers \ {c}
    <3>1. HandedInv(u, i)
      BY DEF AnswersInv
    <3> QED BY <1>2, <3>1 DEF HandedInv
  <2>1. pc[u] \in Claiming /\ seq[u] \in Nat /\ Slot(seq[u]) \in Slots
    BY SlotRoundType DEF Acquired, TypeOK, Seqs
  <2>2. /\ claim'[u].buf \in Buffers /\ token'[Slot(seq'[u])].full
        /\ token'[Slot(seq'[u])].buf = claim'[u].buf
    <3>1. claim'[u].buf \in Buffers /\ claim'[u].buf # None
      BY <1>2 DEF ClaimFits, Acquired, Buffers, None
    <3> QED BY <1>2, <2>1, <3>1 DEF RingInv, ThreadInv
  <2>3. \A r \in Slots : ~(token'[r].full /\ token'[r].buf = c)
    BY <1>2 DEF RingInv, KernelInv
  <2>4. claim[u].buf # c
    BY <1>2, <2>1, <2>2, <2>3
  <2>5. Slot(seq[u]) # s
    <3>1. ~token'[s].full
      BY <1>1 DEF GatherFinish, make_empty_token, EmptyToken, TypeOK
    <3> QED BY <1>2, <2>2, <3>1
  <2>6. At(seq[u]) = seq[u]
    BY <1>2, <2>1, <2>5 DEF At, Batch
  <2>7. Own(u, i)' = Own(u, i)
    BY <1>2 DEF Own
  <2> QED BY <1>2, <2>2, <2>4, <2>6, <2>7
<1>5. GatherComplete'
  <2>1. \A u \in Threads : RowsOf(u)' = RowsOf(u)
    BY <1>2 DEF RowsOf
  <2>2. ASSUME NEW u \in Threads, pc[u] \in Claiming, seq[u] = n
        PROVE  /\ claim[u].off + claim[u].cnt <= token[s].sc
               /\ \A i \in RowsOf(u) : gathered[c][i] = Own(u, i)
    <3>1. /\ claim[u].off \in Nat /\ claim[u].cnt \in Nat /\ claim[u].sub \in Nat
          /\ claim[u].sub <= claim[u].cnt /\ claim[u].off + claim[u].cnt <= token[s].sc
          /\ RowsOf(u) \subseteq Rows
          /\ pc[u] \in Acquired => claim[u].buf = c
      BY <1>1, <2>2, HolderRows
    <3>2. claim[u].sub = claim[u].cnt
      <4> SUFFICES ASSUME claim[u].sub < claim[u].cnt PROVE FALSE
        BY <3>1
      <4> DEFINE i == claim[u].off + claim[u].sub
      <4>1. i \in Rows /\ claim[u].off + claim[u].sub <= i /\ i < claim[u].off + claim[u].cnt
        BY <3>1 DEF RowsOf
      <4>2. pc[u] \in Holding
        BY <2>2, <3>1 DEF RingInv, ThreadInv
      <4>3. Pending(u, i)
        BY <4>1, <4>2 DEF Pending
      <4> QED BY <1>1, <1>2, <2>2, <4>1, <4>3 DEF RingInv, BlockInv
    <3>3. claim[u].cnt > 0
      BY <2>2 DEF RingInv, ThreadInv
    <3>4. pc[u] \in Acquired
      BY <2>2, <3>1, <3>2, <3>3 DEF RingInv, ThreadInv, Acquired, Holding
    <3>5. ASSUME NEW i \in RowsOf(u) PROVE gathered[c][i] = Own(u, i)
      <4>1. i \in Rows /\ claim[u].off <= i /\ i < claim[u].off + claim[u].sub
        BY <3>1, <3>2, <3>5 DEF RowsOf
      <4>2. \/ ptrs[c][i].query = Own(u, i)
            \/ gathered[c][i] = Own(u, i)
        BY <1>1, <2>2, <3>1, <3>4, <4>1 DEF AnswersInv, HandedInv
      <4>3. ptrs[c][i].query = NoQuery
        BY <1>1, <1>2, <4>1 DEF RingInv, BlockInv
      <4> QED BY <4>2, <4>3, OwnIsQuery DEF Own
    <3> QED BY <3>1, <3>5
  <2>3. ASSUME NEW b \in Buffers, b # c, kern'[b].stage = "gathered", NEW u \in Threads,
               pc[u] \in Claiming, seq[u] = kern'[b].seq
        PROVE  /\ claim[u].off + claim[u].cnt <= progress'[b]
               /\ \A i \in RowsOf(u) : gathered[b][i] = Own(u, i)
    BY <1>2, <2>3 DEF AnswersInv, GatherComplete, Own
  <2> QED BY <1>1, <1>2, <2>1, <2>2, <2>3 DEF GatherComplete, Own
<1>6. AnswerIsOwn'
  BY <1>2 DEF AnswersInv, AnswerIsOwn
<1> QED BY <1>3, <1>4, <1>5, <1>6 DEF AnswersInv

\* The scatter kernel gives every requester what was found for its own query: the
\* pointers of the rows of the batch name the queries in the batch store.
LEMMA AnswersScatterCopy ==
  ASSUME TypeInv, RingInv, AnswersInv, NEW c \in Buffers, ScatterCopy(c)
  PROVE  AnswersInv'
<1> USE DEF queueVars, TypeInv
<1>1. /\ kern[c].stage = "gathered" /\ kern'[c].stage = "copied"
      /\ UNCHANGED <<token, ptrs, gathered, blk, pc, seq, claim, req>>
      /\ \A b \in Buffers \ {c} : kern'[b] = kern[b] /\ progress'[b] = progress[b]
  BY DEF ScatterCopy, TypeOK, KernelState
<1>2. ASSUME NEW b \in Buffers, NEW i \in Rows PROVE RowInv(b, i)'
  <2>1. RowInv(b, i)
    BY DEF AnswersInv
  <2>2. CASE b = c
    BY <1>1, <2>1, <2>2 DEF RowInv
  <2>3. CASE b # c
    BY <1>1, <2>1, <2>3 DEF RowInv
  <2> QED BY <2>2, <2>3
<1>3. ASSUME NEW u \in Threads, NEW i \in Rows PROVE HandedInv(u, i)'
  <2>1. HandedInv(u, i) /\ Own(u, i)' = Own(u, i) /\ At(seq[u])' = At(seq[u])
    BY <1>1 DEF AnswersInv, Own, At, Batch
  <2>2. pc[u] \in Acquired => claim[u].buf \in Buffers
    BY DEF ClaimFits, Acquired
  <2> QED BY <1>1, <2>1, <2>2 DEF HandedInv
<1>4. GatherComplete'
  <2>1. \A u \in Threads : RowsOf(u)' = RowsOf(u)
    BY <1>1 DEF RowsOf
  <2>2. \A b \in Buffers : kern'[b].stage = "gathered" => b # c /\ kern'[b] = kern[b]
    BY <1>1
  <2> QED BY <1>1, <2>1, <2>2 DEF AnswersInv, GatherComplete
<1>5. AnswerIsOwn'
  <2> SUFFICES ASSUME NEW t \in Threads, NEW i \in Rows
               PROVE  out'[t][i] \in {NoQuery, Query(t, req[t].num, i)}
    BY <1>1 DEF AnswerIsOwn
  <2> DEFINE found == {j \in 0..(progress[c] - 1) : ptrs[c][j].out = Query(t, req[t].num, i)}
  <2>1. out'[t][i] = IF found = {} THEN out[t][i] ELSE Found(c, CHOOSE j \in found : TRUE)
    BY DEF ScatterCopy
  <2>2. ASSUME NEW j \in found PROVE Found(c, j) \in {NoQuery, Query(t, req[t].num, i)}
    <3>1. progress[c] \in 0..MaxBatch /\ MaxBatch \in Nat
      BY SizesAssumption DEF TypeOK
    <3>2. j \in Rows /\ j < progress[c]
      BY <3>1 DEF Rows
    <3>3. gathered[c][j] = ptrs[c][j].out
      BY <1>1, <3>2 DEF AnswersInv, RowInv
    <3> QED BY <3>3 DEF Found
  <2>3. out[t][i] \in {NoQuery, Query(t, req[t].num, i)}
    BY DEF AnswersInv, AnswerIsOwn
  <2> HIDE DEF found
  <2> QED BY <2>1, <2>2, <2>3
<1> QED BY <1>2, <1>3, <1>4, <1>5 DEF AnswersInv

\* Returning the buffer changes no row.
LEMMA AnswersScatterRelease ==
  ASSUME TypeInv, RingInv, AnswersInv, NEW c \in Buffers, ScatterRelease(c)
  PROVE  AnswersInv'
<1> USE DEF threadVars, TypeInv
<1>0. PICK n, s : n = kern[c].next /\ s = Slot(n)
  OBVIOUS
<1>1. /\ n = kern[c].next /\ s = Slot(n) /\ n \in Nat /\ s \in Slots
      /\ kern[c].stage = "copied" /\ At(n) = n /\ token[s].round = Round(n)
  <2>1. kern[c].stage = "copied" /\ n # None /\ n \in Nat
    BY <1>0 DEF ScatterRelease, KernelSet, None
  <2>2. At(n) = n
    BY <1>0, <2>1 DEF RingInv, QueueInv, ReservedInv
  <2> QED BY <1>0, <2>1, <2>2, AtOf
<1>2. /\ UNCHANGED <<ptrs, gathered, blk, progress, pc, seq, claim, req, out>>
      /\ kern'[c].stage = "idle" /\ \A b \in Buffers \ {c} : kern'[b] = kern[b]
  BY DEF ScatterRelease, TypeOK, IdleKernel
<1>3. \A r \in Slots : token'[r].sc = token[r].sc /\ token'[r].round = token[r].round
  <2>1. token' = [token EXCEPT ![s] = [token[s] EXCEPT !.full = TRUE, !.round = Round(n), !.buf = c]]
    BY <1>1 DEF ScatterRelease
  <2>2. LET new == [token[s] EXCEPT !.full = TRUE, !.round = Round(n), !.buf = c]
        IN  new.sc = token[s].sc /\ new.round = Round(n)
    BY <1>1 DEF TypeOK, Token
  <2> QED BY <1>1, <2>1, <2>2 DEF TypeOK
<1>4. ASSUME NEW b \in Buffers, NEW i \in Rows PROVE RowInv(b, i)'
  <2>1. RowInv(b, i) /\ (kern[b].stage = "gather" => Slot(kern[b].seq) \in Slots)
    BY SlotRoundType DEF AnswersInv, KernelSet
  <2>2. CASE b = c
    BY <1>1, <1>2, <2>1, <2>2 DEF RowInv
  <2>3. CASE b # c
    BY <1>2, <1>3, <2>1, <2>3 DEF RowInv
  <2> QED BY <2>2, <2>3
<1>5. ASSUME NEW u \in Threads, NEW i \in Rows PROVE HandedInv(u, i)'
  <2>1. HandedInv(u, i) /\ Own(u, i)' = Own(u, i)
    BY <1>2 DEF AnswersInv, Own
  <2>2. pc[u] \in Acquired => claim[u].buf \in Buffers
    BY DEF ClaimFits, Acquired
  <2>3. At(seq[u])' = At(seq[u])
    <3>1. Slot(seq[u]) \in Slots
      BY SlotRoundType DEF TypeOK, Seqs
    <3> QED BY <1>2, <1>3, <3>1 DEF At, Batch
  <2> QED BY <1>1, <1>2, <2>1, <2>2, <2>3 DEF HandedInv
<1>6. GatherComplete'
  <2>1. \A u \in Threads : RowsOf(u)' = RowsOf(u)
    BY <1>2 DEF RowsOf
  <2>2. \A b \in Buffers : kern'[b].stage = "gathered" => b # c /\ kern'[b] = kern[b]
    BY <1>2
  <2> QED BY <1>2, <2>1, <2>2 DEF AnswersInv, GatherComplete
<1>7. AnswerIsOwn'
  BY <1>2 DEF AnswersInv, AnswerIsOwn
<1> QED BY <1>4, <1>5, <1>6, <1>7 DEF AnswersInv

LEMMA AnswersStep ==
  ASSUME TypeInv, TypeInv', RingInv, RingInv', AnswersInv, [Next]_vars
  PROVE  AnswersInv'
<1>1. ASSUME NEW t \in Threads, Begin(t) \/ Step(t) PROVE AnswersInv'
  BY <1>1, AnswersMoves, AnswersTryCommit, AnswersLaunch, AnswersSubmit DEF Begin, Step, OtherStep
<1>2. ASSUME NEW b \in Buffers, Kernel(b) \/ \E i \in Rows : Block(b, i) PROVE AnswersInv'
  BY <1>2, AnswersBlock, AnswersGatherFinish, AnswersScatterCopy, AnswersScatterRelease
  DEF Kernel
<1>3. CASE UNCHANGED vars
  <2> USE <1>3 DEF vars, queueVars, bufferVars, threadVars
  <2>1. (\A b \in Buffers, i \in Rows : RowInv(b, i)') /\ AnswerIsOwn'
    BY DEF AnswersInv, RowInv, AnswerIsOwn
  <2>2. \A t \in Threads, i \in Rows : HandedInv(t, i)'
    <3>1. \A t \in Threads, i \in Rows : Own(t, i)' = Own(t, i) /\ At(seq[t])' = At(seq[t])
      BY DEF Own, At, Batch
    <3> QED BY <3>1 DEF AnswersInv, HandedInv
  <2>3. GatherComplete'
    BY DEF AnswersInv, GatherComplete, RowsOf
  <2> QED BY <2>1, <2>2, <2>3 DEF AnswersInv
<1> QED BY <1>1, <1>2, <1>3 DEF Next, KernelsStep, Terminating

-----------------------------------------------------------------------------
(* What the requesters get.                                                *)

\* The pointers, the batch store and what the threads have handed over always agree.
THEOREM AnswersCorrect ==
  ASSUME NoEmptyRequest
  PROVE  Spec => []AnswersInv
<1> DEFINE I == TypeInv /\ RingInv
<1>1. Spec => []I
  BY RingCorrect
<1>2. I /\ I' /\ AnswersInv /\ [Next]_vars => AnswersInv'
  BY AnswersStep
<1> HIDE DEF I
<1> QED BY <1>1, <1>2, AnswersInit, PTL DEF Spec

\* When the gather kernel empties the slot, the batch store has the queries of every
\* thread that committed to the batch, whatever raced with its deadline.
THEOREM GatherIsComplete ==
  ASSUME NoEmptyRequest
  PROVE  Spec => []GatherComplete
<1>1. AnswersInv => GatherComplete
  BY DEF AnswersInv
<1> QED BY <1>1, AnswersCorrect, PTL

\* A requester never gets the neighbors of another query, or of another request.
THEOREM AnswersAreOwn ==
  ASSUME NoEmptyRequest
  PROVE  Spec => []AnswerIsOwn
<1>1. AnswersInv => AnswerIsOwn
  BY DEF AnswersInv
<1> QED BY <1>1, AnswersCorrect, PTL

-----------------------------------------------------------------------------
(* Conservative dispatch.                                                  *)

LEMMA SizesInit == Init => SizesInv
BY DEF Init, SizesInv, Launched, AtWork, SizeIsOwn, IdleKernel

LEMMA LaunchedBuffer ==
  ASSUME TypeInv, NEW t \in Threads, Launched(t)
  PROVE  /\ claim[t].buf \in Buffers /\ seq[t] \in Nat /\ Slot(seq[t]) \in Slots
         /\ pc[t] \in Claiming /\ claim[t].off = 0
BY SlotRoundType DEF TypeInv, TypeOK, Seqs, ClaimFits, Launched, AtWork, Acquired, Claiming

\* A step of a thread that is not between launch and reservation, or leaves that.
LEMMA SizesMove ==
  ASSUME TypeInv, SizesInv, NEW t \in Threads, UNCHANGED <<bsize, progress>>,
         \A b \in Buffers : kern'[b].stage = kern[b].stage /\ kern'[b].seq = kern[b].seq,
         \A u \in Threads \ {t} : pc'[u] = pc[u] /\ seq'[u] = seq[u] /\ claim'[u] = claim[u],
         Launched(t) => pc[t] = "pushWait", ~Launched(t)',
         pc'[t] \notin {"resetSize", "push", "pushWait"}
  PROVE  SizesInv'
<1>1. \A u \in Threads \ {t} : Launched(u)' <=> Launched(u)
  BY DEF Launched
<1>2. \A u \in Threads, b \in Buffers : Gathers(u, b) => Gathers(u, b)'
  <2>1. \A u \in Threads, b \in Buffers : Gathers(u, b) => u # t
    BY DEF Gathers
  <2> QED BY <1>1, <2>1 DEF Gathers
<1>3. \A u \in Threads, s \in Slots : Resets(u, s) => Resets(u, s)'
  <2>1. \A u \in Threads, s \in Slots : Resets(u, s) => u # t /\ claim[u].buf \in Buffers
    BY LaunchedBuffer DEF Resets
  <2> QED BY <1>1, <2>1 DEF Resets
<1>4. SizeIsOwn'
  <2> SUFFICES ASSUME NEW u \in Threads \ {t}, pc[u] \in {"resetSize", "push", "pushWait"}
               PROVE  claim[u].buf \in Buffers
    BY DEF SizesInv, SizeIsOwn
  <2> QED BY DEF TypeInv, ClaimFits, Acquired, Claiming
<1>5. \A u, v \in Threads : Launched(u)' /\ Launched(v)' /\ Slot(seq'[u]) = Slot(seq'[v]) => u = v
  BY <1>1 DEF SizesInv
<1> QED BY <1>2, <1>3, <1>4, <1>5 DEF SizesInv

\* The dispatcher goes on; its batch size is that of its batch.
LEMMA SizesWork ==
  ASSUME TypeInv, RingInv, SizesInv, NEW t \in Threads, Launched(t),
         \/ SubmitQuery(t) \/ SubmitDeadline(t) \/ TakeSize(t) \/ ResetSize(t) \/ PushReserve(t)
  PROVE  SizesInv'
<1> USE DEF Goto, queueVars, bufferVars, TypeInv
<1>0. PICK c, n : c = claim[t].buf /\ n = seq[t]
  OBVIOUS
<1>1. /\ c = claim[t].buf /\ n = seq[t] /\ c \in Buffers /\ Slot(n) \in Slots /\ claim[t].off = 0
      /\ kern[c].seq = n /\ kern[c].stage \in {"gather", "gathered"}
      /\ UNCHANGED <<progress, kern, seq>>
  <2>1. UNCHANGED <<progress, kern, seq>>
    BY DEF SubmitQuery, SubmitDeadline, TakeSize, ResetSize, PushReserve
  <2> QED BY <1>0, <2>1, LaunchedBuffer DEF RingInv, LaunchedInv
<1>2. /\ \A u \in Threads \ {t} : pc'[u] = pc[u] /\ claim'[u] = claim[u]
      /\ claim'[t].off = claim[t].off /\ claim'[t].buf = claim[t].buf
  BY DEF SubmitQuery, SubmitDeadline, TakeSize, ResetSize, PushReserve, TypeOK, Claim
<1>3. \/ pc[t] = "submit" /\ pc'[t] = "submit" /\ UNCHANGED bsize
      \/ /\ pc[t] = "submit" /\ UNCHANGED bsize
         /\ pc'[t] = IF Conservative THEN "takeSize" ELSE "push"
      \/ /\ pc[t] = "takeSize" /\ pc'[t] = "resetSize" /\ UNCHANGED bsize
         /\ bsize[Slot(n)] # 0 /\ claim'[t].size = bsize[Slot(n)]
      \/ /\ pc[t] = "resetSize" /\ pc'[t] = "push" /\ claim'[t].size = claim[t].size
         /\ bsize' = [bsize EXCEPT ![Slot(n)] = 0]
      \/ /\ pc[t] = "push" /\ pc'[t] = "pushWait" /\ claim'[t].size = claim[t].size
         /\ UNCHANGED bsize
  BY <1>1 DEF SubmitQuery, SubmitDeadline, TakeSize, ResetSize, PushReserve, TypeOK, Claim
<1>4. Launched(t)' /\ \A u \in Threads \ {t} : Launched(u)' <=> Launched(u)
  BY <1>1, <1>2, <1>3 DEF Launched, AtWork
<1>5. \A u, v \in Threads : Launched(u)' /\ Launched(v)' /\ Slot(seq'[u]) = Slot(seq'[v]) => u = v
  BY <1>1, <1>4 DEF SizesInv
<1>6. ASSUME Conservative, pc[t] = "takeSize", bsize[Slot(n)] # 0
      PROVE  kern[c].stage = "gathered" /\ bsize[Slot(n)] = progress[c]
  <2>1. PICK u \in Threads : Resets(u, Slot(n))
    BY <1>1, <1>6 DEF SizesInv
  <2>2. u = t
    BY <1>1, <2>1 DEF Resets, SizesInv
  <2> QED BY <1>1, <2>1, <2>2 DEF Resets
<1>7. Conservative => \A b \in Buffers : kern'[b].stage = "gather" =>
                        \E u \in Threads : Gathers(u, b)'
  <2> SUFFICES ASSUME Conservative, NEW b \in Buffers, kern[b].stage = "gather",
                      NEW u \in Threads, Gathers(u, b)
               PROVE  Gathers(u, b)'
    BY <1>1 DEF SizesInv
  <2>1. CASE u = t
    <3>1. pc'[t] \in {"submit", "takeSize"}
      BY <1>1, <1>3, <1>6, <2>1 DEF Gathers
    <3> QED BY <1>1, <1>2, <1>4, <2>1, <3>1 DEF Gathers
  <2>2. CASE u # t
    BY <1>1, <1>2, <1>4, <2>2 DEF Gathers
  <2> QED BY <2>1, <2>2
<1>8. Conservative => \A s \in Slots : bsize'[s] # 0 => \E u \in Threads : Resets(u, s)'
  <2> SUFFICES ASSUME Conservative, NEW s \in Slots, bsize'[s] # 0
               PROVE  \E u \in Threads : Resets(u, s)'
    OBVIOUS
  <2>1. bsize'[s] = bsize[s] /\ ~(pc[t] = "resetSize" /\ s = Slot(n))
    BY <1>1, <1>3 DEF TypeOK
  <2>2. PICK u \in Threads : Resets(u, s)
    BY <2>1 DEF SizesInv
  <2>3. CASE u = t
    <3>1. pc'[t] \in {"submit", "takeSize", "resetSize"}
      BY <1>1, <1>3, <2>1, <2>2, <2>3 DEF Resets
    <3> QED BY <1>1, <1>2, <1>4, <2>1, <2>2, <2>3, <3>1 DEF Resets
  <2>4. CASE u # t
    BY <1>1, <1>2, <1>4, <2>1, <2>2, <2>4 DEF Resets
  <2> QED BY <2>3, <2>4
<1>9. SizeIsOwn'
  <2> SUFFICES ASSUME NEW u \in Threads, pc'[u] \in {"resetSize", "push", "pushWait"},
                      Conservative
               PROVE  LET b == claim[u].buf IN
                        kern[b].stage = "gathered" /\ kern[b].seq = seq[u]
                        /\ claim'[u].size = progress[b]
    BY <1>1, <1>2 DEF SizeIsOwn
  <2>1. CASE u = t
    BY <1>1, <1>3, <1>6, <2>1 DEF SizesInv, SizeIsOwn
  <2>2. CASE u # t
    BY <1>2, <2>2 DEF SizesInv, SizeIsOwn
  <2> QED BY <2>1, <2>2
<1> QED BY <1>5, <1>7, <1>8, <1>9 DEF SizesInv

\* A dispatcher launches only when none is at work a round behind.
LEMMA SizesLaunch ==
  ASSUME TypeInv, RingInv, SizesInv, NEW t \in Threads, LaunchGather(t), OnTime(t)
  PROVE  SizesInv'
<1> USE DEF Goto, TypeInv
<1>0. PICK c, n : c = claim[t].buf /\ n = seq[t]
  OBVIOUS
<1>1. /\ c = claim[t].buf /\ n = seq[t] /\ c \in Buffers /\ n \in Nat /\ Slot(n) \in Slots
      /\ kern[c].stage = "idle" /\ At(n) = n
      /\ kern'[c].stage = "gather" /\ kern'[c].seq = n
      /\ UNCHANGED <<seq, claim, progress, bsize>>
      /\ \A b \in Buffers \ {c} : kern'[b] = kern[b]
  BY <1>0, LaunchIsFirst DEF LaunchGather, TypeOK
<1>2. /\ pc[t] = "launch" /\ pc'[t] = "submit" /\ claim[t].off = 0 /\ pc[t] \in Claiming
      /\ \A u \in Threads \ {t} : pc'[u] = pc[u]
  BY DEF LaunchGather, TypeOK, RingInv, ThreadInv, Alone, Claiming
<1>3. Launched(t)' /\ \A u \in Threads \ {t} : Launched(u)' <=> Launched(u)
  BY <1>1, <1>2 DEF Launched, AtWork
<1>4. ASSUME NEW u \in Threads, u # t, Launched(u) PROVE Slot(seq[u]) # Slot(n)
  <2> SUFFICES ASSUME Slot(seq[u]) = Slot(n) PROVE FALSE
    OBVIOUS
  <2>1. seq[u] \in Nat /\ pc[u] \in Claiming /\ claim[u].off = 0
    BY <1>4, LaunchedBuffer
  <2>2. seq[u] # n
    BY <1>1, <1>2, <1>4, <2>1, OneDispatcher
  <2>3. seq[u] <= n
    BY <1>1, <2>1 DEF RingInv, ThreadInv, At
  <2>4. seq[u] + KSize <= n
    BY <1>1, <2>1, <2>2, <2>3, SameSlot
  <2>5. n - seq[u] < KSize
    BY <1>1, <2>1 DEF OnTime, Dispatching
  <2> QED BY <1>1, <2>1, <2>4, <2>5, SizesAssumption, RequestsAssumption
<1>5. \A u, v \in Threads : Launched(u)' /\ Launched(v)' /\ Slot(seq'[u]) = Slot(seq'[v]) => u = v
  BY <1>1, <1>3, <1>4 DEF SizesInv
<1>6. Conservative => \A b \in Buffers : kern'[b].stage = "gather" =>
                        \E u \in Threads : Gathers(u, b)'
  <2> SUFFICES ASSUME Conservative, NEW b \in Buffers, kern'[b].stage = "gather"
               PROVE  \E u \in Threads : Gathers(u, b)'
    OBVIOUS
  <2>1. CASE b = c
    BY <1>1, <1>2, <1>3, <2>1 DEF Gathers
  <2>2. CASE b # c
    <3>1. PICK u \in Threads : Gathers(u, b)
      BY <1>1, <2>2 DEF SizesInv
    <3>2. u # t
      BY <1>2, <3>1 DEF Gathers
    <3> QED BY <1>1, <1>2, <1>3, <2>2, <3>1, <3>2 DEF Gathers
  <2> QED BY <2>1, <2>2
<1>7. \A u \in Threads, s \in Slots : Resets(u, s) => Resets(u, s)'
  <2>1. \A u \in Threads, s \in Slots : Resets(u, s) => u # t /\ claim[u].buf \in Buffers \ {c}
    BY <1>1, <1>2, LaunchedBuffer DEF Resets
  <2> QED BY <1>1, <1>2, <1>3, <2>1 DEF Resets
<1>8. SizeIsOwn'
  <2> SUFFICES ASSUME NEW u \in Threads, pc'[u] \in {"resetSize", "push", "pushWait"},
                      Conservative
               PROVE  LET b == claim[u].buf IN
                        kern'[b].stage = "gathered" /\ kern'[b].seq = seq[u]
                        /\ claim[u].size = progress[b]
    BY <1>1 DEF SizeIsOwn
  <2>1. u # t /\ pc[u] = pc'[u]
    BY <1>2
  <2>2. LET b == claim[u].buf IN
          b \in Buffers /\ kern[b].stage = "gathered" /\ kern[b].seq = seq[u]
          /\ claim[u].size = progress[b]
    BY <2>1 DEF SizesInv, SizeIsOwn, ClaimFits, Acquired, Claiming
  <2> QED BY <1>1, <2>2
<1> QED BY <1>1, <1>5, <1>6, <1>7, <1>8 DEF SizesInv

\* The other steps of a thread.
LEMMA SizesOther ==
  ASSUME TypeInv, RingInv, SizesInv, NEW t \in Threads,
         Begin(t) \/ Step(t), ~LaunchGather(t), ~Launched(t) \/ PushWait(t)
  PROVE  SizesInv'
<1> USE DEF Goto, queueVars, bufferVars, TypeInv
<1>1. ThreadInv(t) /\ claim[t] \in Claim
  BY DEF RingInv, TypeOK
<1>2. CASE TryCommit(t)
  <2>1. UNCHANGED <<bsize, progress, kern, seq>>
        /\ \A u \in Threads \ {t} : pc'[u] = pc[u] /\ claim'[u] = claim[u]
    BY <1>2 DEF TryCommit, TypeOK
  <2>2. pc[t] = "commit" /\ pc'[t] \notin {"takeSize", "resetSize", "push", "pushWait"}
    BY <1>2 DEF TryCommit, AfterCommit, TypeOK
  <2>3. pc'[t] = "submit" => claim'[t].off # 0
    <3> DEFINE tok == token[Slot(seq[t])]
               sc2 == Committed(tok.sc, req[t].need)
               c   == [off |-> tok.sc, cnt |-> sc2 - tok.sc, sub |-> 0, size |-> 0,
                       buf |-> IF Status(tok, seq[t]) = kFull THEN tok.buf ELSE None,
                       next |-> None]
    <3>1. pc'[t] = "submit" => claim' = [claim EXCEPT ![t] = c] /\ pc'[t] = AfterCommit(c)
      BY <1>2 DEF TryCommit, TypeOK
    <3> HIDE DEF c
    <3> QED BY <3>1 DEF AfterCommit, TypeOK
  <2> QED BY <2>1, <2>2, <2>3, SizesMove DEF Launched, AtWork
<1>3. CASE Pop(t)
  <2>1. UNCHANGED <<bsize, progress, kern, seq, claim>>
        /\ \A u \in Threads \ {t} : pc'[u] = pc[u]
    BY <1>3 DEF Pop, TypeOK
  <2>2. /\ pc[t] \in {"popRetry", "popFull"}
        /\ pc'[t] \notin {"takeSize", "resetSize", "push", "pushWait"}
        /\ pc'[t] = "submit" => claim[t].off # 0
    BY <1>3 DEF Pop, AfterCommit, TypeOK
  <2> QED BY <2>1, <2>2, SizesMove DEF Launched, AtWork
<1>4. CASE AwaitBuffer(t)
  <2>1. UNCHANGED <<bsize, progress, kern, seq>>
        /\ \A u \in Threads \ {t} : pc'[u] = pc[u] /\ claim'[u] = claim[u]
    BY <1>4 DEF AwaitBuffer, TypeOK
  <2>2. /\ pc[t] = "await"
        /\ pc'[t] \notin {"takeSize", "resetSize", "push", "pushWait"}
        /\ claim'[t].off = claim[t].off
        /\ pc'[t] = "submit" => claim[t].off # 0
    BY <1>1, <1>4 DEF AwaitBuffer, AfterCommit, TypeOK, Claim
  <2> QED BY <2>1, <2>2, SizesMove DEF Launched, AtWork
<1>5. CASE SubmitQuery(t) \/ SubmitDeadline(t)
  <2>1. /\ pc[t] = "submit" /\ claim[t].off > 0
        /\ UNCHANGED <<bsize, progress, kern, seq>>
        /\ \A u \in Threads \ {t} : pc'[u] = pc[u] /\ claim'[u] = claim[u]
        /\ claim'[t].off = claim[t].off
    BY <1>1, <1>5, SizesAssumption
    DEF SubmitQuery, SubmitDeadline, TypeOK, Claim, Launched, AtWork, PushWait
  <2>2. pc'[t] \in {"submit", "waitDispatch"}
    BY <1>5, <2>1 DEF SubmitQuery, SubmitDeadline, TypeOK
  <2> QED BY <2>1, <2>2, SizesMove DEF Launched, AtWork
<1>6. CASE TakeSize(t) \/ ResetSize(t) \/ PushReserve(t)
  BY <1>1, <1>6 DEF TakeSize, ResetSize, PushReserve, Launched, AtWork, ThreadInv, Alone, PushWait
<1>7. CASE PushWait(t)
  <2>1. /\ pc[t] = "pushWait" /\ pc'[t] \in {"record", "raised"}
        /\ UNCHANGED <<bsize, progress, seq, claim>>
        /\ \A u \in Threads \ {t} : pc'[u] = pc[u]
    BY <1>7 DEF PushWait, TypeOK
  <2>2. \A b \in Buffers : kern'[b].stage = kern[b].stage /\ kern'[b].seq = kern[b].seq
    <3>1. CASE UNCHANGED kern
      BY <3>1
    <3>2. CASE kern' = [kern EXCEPT ![claim[t].buf].size = claim[t].size,
                                    ![claim[t].buf].next = claim[t].next]
      BY <3>2 DEF TypeOK, KernelState
    <3> QED BY <1>7, <3>1, <3>2 DEF PushWait
  <2> QED BY <2>1, <2>2, SizesMove DEF Launched, AtWork
<1>8. CASE Begin(t) \/ LoadHead(t) \/ CheckTail(t) \/ RecordEvent(t) \/ Publish(t)
           \/ WaitDispatch(t) \/ WaitEvent(t) \/ Sync(t) \/ Return(t)
  <2>1. /\ UNCHANGED <<bsize, progress, kern>>
        /\ \A u \in Threads \ {t} : pc'[u] = pc[u] /\ seq'[u] = seq[u] /\ claim'[u] = claim[u]
    BY <1>8 DEF Begin, StartSearch, LoadHead, CheckTail, RecordEvent, Publish, EndOfBatch,
       WaitDispatch, WaitEvent, Sync, Return, TypeOK
  <2>2. pc[t] \notin AtWork /\ pc'[t] \notin AtWork \union {"resetSize"}
    BY <1>8 DEF Begin, StartSearch, LoadHead, CheckTail, RecordEvent, Publish, EndOfBatch,
       WaitDispatch, WaitEvent, Sync, Return, TypeOK, AtWork
  <2> QED BY <2>1, <2>2, SizesMove DEF Launched, AtWork
<1> QED BY <1>2, <1>3, <1>4, <1>5, <1>6, <1>7, <1>8 DEF Step, OtherStep

\* The kernels: only the last block of the gather kernel writes a batch size, and it
\* does so for the dispatcher that waits for it.
LEMMA SizesKernel ==
  ASSUME TypeInv, RingInv, SizesInv, NEW c \in Buffers,
         Kernel(c) \/ \E i \in Rows : Block(c, i)
  PROVE  SizesInv'
<1> USE DEF threadVars, TypeInv
<1>1. UNCHANGED <<pc, seq, claim>>
  BY DEF Kernel, Block, GatherFinish, ScatterCopy, ScatterRelease, GatherTake, GatherSkip,
         GatherExpire, GatherClose
<1>2. \A u \in Threads : Launched(u)' <=> Launched(u)
  BY <1>1 DEF Launched
<1>3. \A u, v \in Threads : Launched(u)' /\ Launched(v)' /\ Slot(seq'[u]) = Slot(seq'[v]) => u = v
  BY <1>1, <1>2 DEF SizesInv
<1>4. ASSUME NEW u \in Threads, pc[u] \in {"resetSize", "push", "pushWait"}, Conservative
      PROVE  LET b == claim[u].buf IN
               b \in Buffers /\ kern[b].stage = "gathered" /\ kern[b].seq = seq[u]
               /\ claim[u].size = progress[b]
  BY <1>4 DEF SizesInv, SizeIsOwn, ClaimFits, Acquired, Claiming
<1>5. CASE \E i \in Rows : Block(c, i)
  <2>1. UNCHANGED <<bsize, progress, kern>>
    BY <1>5 DEF Block, GatherTake, GatherSkip, GatherExpire, GatherClose, queueVars
  <2> QED BY <1>1, <1>2, <1>3, <2>1 DEF SizesInv, Gathers, Resets, SizeIsOwn
<1>6. CASE GatherFinish(c)
  <2>0. PICK n, s : n = kern[c].seq /\ s = Slot(n)
    OBVIOUS
  <2>1. /\ n = kern[c].seq /\ s = Slot(n) /\ s \in Slots /\ kern[c].stage = "gather"
        /\ kern'[c].stage = "gathered"
        /\ progress'[c] = token[s].sc
        /\ \A b \in Buffers \ {c} : kern'[b] = kern[b] /\ progress'[b] = progress[b]
        /\ Conservative => bsize'[s] = token[s].sc
        /\ \A r \in Slots \ {s} : bsize'[r] = bsize[r]
    BY <1>6, <2>0, SlotRoundType DEF GatherFinish, Running, TypeOK, KernelState, KernelSet
  <2>2. ASSUME Conservative, NEW b \in Buffers, kern'[b].stage = "gather"
        PROVE  \E u \in Threads : Gathers(u, b)'
    <3>1. b # c /\ kern'[b] = kern[b]
      BY <2>1, <2>2
    <3> QED BY <1>1, <1>2, <2>2, <3>1 DEF SizesInv, Gathers
  <2>3. ASSUME Conservative, NEW r \in Slots, bsize'[r] # 0
        PROVE  \E u \in Threads : Resets(u, r)'
    <3>1. CASE r = s
      <4>1. PICK u \in Threads : Gathers(u, c)
        BY <2>1, <2>3 DEF SizesInv
      <4> QED BY <1>1, <1>2, <2>1, <2>3, <3>1, <4>1 DEF Gathers, Resets
    <3>2. CASE r # s
      <4>1. PICK u \in Threads : Resets(u, r)
        BY <2>1, <2>3, <3>2 DEF SizesInv
      <4>2. claim[u].buf \in Buffers \ {c}
        BY <2>1, <4>1, LaunchedBuffer DEF Resets
      <4> QED BY <1>1, <1>2, <2>1, <3>2, <4>1, <4>2 DEF Resets
    <3> QED BY <3>1, <3>2
  <2>4. SizeIsOwn'
    BY <1>1, <1>4, <2>1 DEF SizeIsOwn
  <2> QED BY <1>3, <2>2, <2>3, <2>4 DEF SizesInv
<1>7. CASE ScatterCopy(c) \/ ScatterRelease(c)
  <2>1. /\ UNCHANGED bsize /\ kern'[c].stage # "gather"
        /\ \A b \in Buffers \ {c} : kern'[b] = kern[b] /\ progress'[b] = progress[b]
        /\ kern[c].stage \in {"gathered", "copied"}
        /\ kern[c].stage = "gathered" => kern[c].next # None
    BY <1>7 DEF ScatterCopy, ScatterRelease, TypeOK, KernelState, IdleKernel, queueVars
  <2>2. \A u \in Threads : Launched(u) => claim[u].buf \in Buffers \ {c}
    BY <2>1, LaunchedBuffer DEF RingInv, LaunchedInv
  <2>3. \A u \in Threads, b \in Buffers : b # c /\ Gathers(u, b) => Gathers(u, b)'
    BY <1>1, <1>2, <2>1 DEF Gathers
  <2>4. \A u \in Threads, s \in Slots : Resets(u, s) => Resets(u, s)'
    BY <1>1, <1>2, <2>1, <2>2 DEF Resets
  <2>5. SizeIsOwn'
    <3> SUFFICES ASSUME NEW u \in Threads, pc[u] \in {"resetSize", "push", "pushWait"},
                        Conservative
                 PROVE  claim[u].buf # c
      BY <1>1, <1>4, <2>1 DEF SizeIsOwn
    <3>1. Launched(u)
      BY DEF Launched, AtWork, RingInv, ThreadInv, Alone
    <3> QED BY <2>2, <3>1
  <2> QED BY <1>3, <2>1, <2>3, <2>4, <2>5 DEF SizesInv
<1> QED BY <1>5, <1>6, <1>7 DEF Kernel

\* A step in a behaviour without long pauses is a step of the code.
LEMMA TimelySteps ==
  ASSUME NEW t \in Threads, Begin(t) \/ TimelyStep(t)
  PROVE  (Begin(t) \/ Step(t)) /\ (LaunchGather(t) => OnTime(t))
<1>1. CASE TimelyLaunch(t)
  BY <1>1 DEF TimelyLaunch, Step
<1>2. CASE Begin(t)
  BY <1>2 DEF Begin, StartSearch, LaunchGather
<1>3. CASE OtherStep(t)
  <2>1. Step(t)
    BY <1>3 DEF Step
  <2>2. ~LaunchGather(t)
    BY <1>3 DEF OtherStep, LaunchGather, LoadHead, CheckTail, TryCommit, Pop, AwaitBuffer, SubmitQuery,
       SubmitDeadline, TakeSize, ResetSize, PushReserve, PushWait, RecordEvent, Publish, WaitDispatch,
       WaitEvent, Sync, Return
  <2> QED BY <2>1, <2>2
<1> QED BY <1>1, <1>2, <1>3 DEF TimelyStep

LEMMA SizesStep ==
  ASSUME TypeInv, RingInv, SizesInv, [TimelyNext]_vars
  PROVE  SizesInv'
<1>1. ASSUME NEW t \in Threads, Begin(t) \/ Step(t), LaunchGather(t) => OnTime(t) PROVE SizesInv'
  <2>1. CASE LaunchGather(t)
    BY <1>1, <2>1, SizesLaunch
  <2>2. CASE ~LaunchGather(t) /\ (~Launched(t) \/ PushWait(t))
    BY <1>1, <2>2, SizesOther
  <2>3. CASE Launched(t) /\ ~PushWait(t) /\ ~LaunchGather(t)
    <3>1. pc[t] \in AtWork
      BY <2>3 DEF Launched
    <3>2. \/ SubmitQuery(t) \/ SubmitDeadline(t) \/ TakeSize(t) \/ ResetSize(t)
          \/ PushReserve(t)
      BY <1>1, <2>3, <3>1 DEF AtWork, Begin, Step, OtherStep, StartSearch, LoadHead, CheckTail, TryCommit, Pop,
         AwaitBuffer, RecordEvent, Publish, WaitDispatch, WaitEvent, Sync, Return
    <3> QED BY <2>3, <3>2, SizesWork
  <2> QED BY <2>1, <2>2, <2>3
<1>2. ASSUME NEW b \in Buffers, Kernel(b) \/ \E i \in Rows : Block(b, i) PROVE SizesInv'
  BY <1>2, SizesKernel
<1>3. CASE UNCHANGED vars
  BY <1>3 DEF vars, queueVars, bufferVars, threadVars, SizesInv, Launched, Gathers, Resets, SizeIsOwn
<1> QED BY <1>1, <1>2, <1>3, TimelySteps DEF TimelyNext, KernelsStep, Terminating

\* A behaviour without long pauses is a behaviour of the code.
LEMMA TimelyIsSpec == TimelySpec => Spec
<1>1. [TimelyNext]_vars => [Next]_vars
  BY TimelySteps DEF TimelyNext, Next
<1> QED BY <1>1, PTL DEF TimelySpec, Spec

\* The dispatchers at work, the batches that gather and the sizes match, as long as no
\* dispatcher is paused for long.
THEOREM SizesCorrect ==
  ASSUME NoEmptyRequest
  PROVE  TimelySpec => []SizesInv
<1> DEFINE I == TypeInv /\ RingInv
<1>1. TimelySpec => []I
  BY RingCorrect, TimelyIsSpec, PTL
<1>2. I /\ SizesInv /\ [TimelyNext]_vars => SizesInv'
  BY SizesStep
<1> HIDE DEF I
<1> QED BY <1>1, <1>2, SizesInit, PTL DEF TimelySpec

\* With conservative dispatch, the upstream search is given the size of its own batch,
\* as long as no dispatcher is overtaken by a whole ring.
THEOREM SizesAreOwn ==
  ASSUME NoEmptyRequest
  PROVE  TimelySpec => []SizeIsOwn
<1>1. SizesInv => SizeIsOwn
  BY DEF SizesInv
<1> QED BY <1>1, SizesCorrect, PTL

-----------------------------------------------------------------------------
(* When a request is complete.                                             *)

(* What a step changes.                                                    *)

\* A thread's step changes nothing of another thread.
LEMMA OtherThreads ==
  ASSUME TypeOK, NEW t \in Threads, Begin(t) \/ Step(t), NEW u \in Threads \ {t}
  PROVE  /\ pc'[u] = pc[u] /\ seq'[u] = seq[u] /\ claim'[u] = claim[u] /\ req'[u] = req[u]
         /\ waits'[u] = waits[u] /\ out'[u] = out[u]
<1> USE DEF Goto, queueVars, bufferVars
<1>1. CASE Begin(t) \/ LoadHead(t) \/ CheckTail(t) \/ Pop(t) \/ AwaitBuffer(t)
  BY <1>1 DEF TypeOK, Begin, StartSearch, LoadHead, CheckTail, Pop, AwaitBuffer
<1>2. CASE TryCommit(t)
  BY <1>2 DEF TypeOK, TryCommit
<1>3. CASE LaunchGather(t) \/ SubmitQuery(t) \/ SubmitDeadline(t) \/ TakeSize(t) \/ ResetSize(t)
  BY <1>3 DEF TypeOK, LaunchGather, SubmitQuery, SubmitDeadline, TakeSize, ResetSize
<1>4. CASE PushReserve(t) \/ PushWait(t) \/ RecordEvent(t) \/ Publish(t)
  BY <1>4 DEF TypeOK, PushReserve, PushWait, RecordEvent, Publish, EndOfBatch
<1>5. CASE WaitDispatch(t) \/ WaitEvent(t) \/ Sync(t) \/ Return(t)
  BY <1>5 DEF TypeOK, WaitDispatch, WaitEvent, EndOfBatch, Sync, Return
<1> QED BY <1>1, <1>2, <1>3, <1>4, <1>5 DEF Step, OtherStep

\* A thread's step leaves the slots at their batches; it only commits rows.
LEMMA StepTokens ==
  ASSUME TypeInv, NEW t \in Threads, Begin(t) \/ Step(t), NEW s \in Slots
  PROVE  /\ token'[s].full = token[s].full /\ token'[s].buf = token[s].buf
         /\ token'[s].round = token[s].round /\ token[s].sc <= token'[s].sc
         /\ token'[s].sc # token[s].sc => TryCommit(t) /\ s = Slot(seq[t])
<1> USE DEF TypeInv
<1>1. CASE UNCHANGED token
  BY <1>1 DEF TypeOK, Token
<1>2. CASE TryCommit(t)
  <2>0. PICK r, sc2 : r = Slot(seq[t]) /\ sc2 = Committed(token[r].sc, req[t].need)
    OBVIOUS
  <2>1. r = Slot(seq[t]) /\ (UNCHANGED token \/ token' = [token EXCEPT ![r].sc = sc2])
    BY <1>2, <2>0 DEF TryCommit
  <2>2. r \in Slots /\ token[r].sc \in 0..MaxBatch /\ req[t].need \in Nat
    BY <2>1, SlotRoundType, SizesAssumption DEF TypeOK, Token, Request, Seqs
  <2>3. token[r].sc <= sc2
    BY <2>0, <2>2, SizesAssumption DEF Committed
  <2>4. ASSUME token' = [token EXCEPT ![r].sc = sc2]
        PROVE  /\ token'[r].full = token[r].full /\ token'[r].buf = token[r].buf
               /\ token'[r].round = token[r].round /\ token'[r].sc = sc2
               /\ s # r => token'[s] = token[s]
    BY <2>2, <2>4 DEF TypeOK, Token
  <2>5. token[s].sc \in Nat
    BY DEF TypeOK, Token
  <2> QED BY <1>1, <1>2, <2>1, <2>3, <2>4, <2>5
<1>3. CASE ~TryCommit(t)
  BY <1>1, <1>3 DEF Begin, StartSearch, Step, OtherStep, LoadHead, CheckTail, Pop, AwaitBuffer, LaunchGather,
     SubmitQuery, SubmitDeadline, TakeSize, ResetSize, PushReserve, PushWait, RecordEvent,
     Publish, WaitDispatch, WaitEvent, Sync, Return, queueVars
<1> QED BY <1>2, <1>3

\* The slots stay at their batches for any number, too.
LEMMA StepAt ==
  ASSUME TypeInv, NEW t \in Threads, Begin(t) \/ Step(t), NEW n \in Nat
  PROVE  At(n)' = At(n) /\ Slot(n) \in Slots
<1>1. Slot(n) \in Slots
  BY SlotRoundType
<1> QED BY <1>1, StepTokens DEF At, Batch

\* Only a launch, which is on an unused buffer, starts kernels.
LEMMA StepKernels ==
  ASSUME TypeInv, NEW t \in Threads, Begin(t) \/ Step(t)
  PROVE  /\ UNCHANGED <<gathered, progress, done>>
         /\ SubmitQuery(t) \/ UNCHANGED ptrs
         /\ RecordEvent(t) \/ UNCHANGED event
         /\ Publish(t) \/ UNCHANGED dispatched
         /\ \/ LaunchGather(t)
            \/ /\ UNCHANGED blk
               /\ \A b \in Buffers : kern'[b].stage = kern[b].stage /\ kern'[b].seq = kern[b].seq
<1> USE DEF queueVars, bufferVars, TypeInv
<1>1. CASE Begin(t) \/ LoadHead(t) \/ CheckTail(t) \/ Pop(t) \/ AwaitBuffer(t) \/ TryCommit(t)
  BY <1>1 DEF Begin, StartSearch, LoadHead, CheckTail, Pop, AwaitBuffer, TryCommit
<1>2. CASE LaunchGather(t) \/ SubmitQuery(t) \/ SubmitDeadline(t) \/ TakeSize(t) \/ ResetSize(t)
           \/ PushReserve(t) \/ RecordEvent(t)
  BY <1>2 DEF LaunchGather, SubmitQuery, SubmitDeadline, TakeSize, ResetSize, PushReserve,
     RecordEvent
<1>3. CASE Publish(t) \/ WaitDispatch(t) \/ WaitEvent(t) \/ Sync(t) \/ Return(t)
  BY <1>3 DEF Publish, WaitDispatch, WaitEvent, Sync, Return
<1>4. CASE PushWait(t)
  <2>1. \A b \in Buffers : kern'[b].stage = kern[b].stage /\ kern'[b].seq = kern[b].seq
    <3>1. CASE UNCHANGED kern
      BY <3>1
    <3>2. CASE kern' = [kern EXCEPT ![claim[t].buf].size = claim[t].size,
                                    ![claim[t].buf].next = claim[t].next]
      BY <3>2 DEF TypeOK, KernelState
    <3> QED BY <1>4, <3>1, <3>2 DEF PushWait
  <2> QED BY <1>4, <2>1 DEF PushWait
<1> QED BY <1>1, <1>2, <1>3, <1>4 DEF Step, OtherStep

\* The kernels touch nothing that is a thread's, a published batch or an event.
LEMMA KernelThreads ==
  ASSUME NEW c \in Buffers, Kernel(c) \/ \E i \in Rows : Block(c, i)
  PROVE  UNCHANGED <<head, tail, dispatched, event, pc, seq, claim, req, waits>>
BY DEF Kernel, Block, GatherFinish, ScatterCopy, ScatterRelease, GatherTake, GatherSkip,
       GatherExpire, GatherClose, queueVars, threadVars

\* They leave every slot at its batch, and full if it was, but the one that the last block
\* of a gather kernel empties.
LEMMA KernelSlots ==
  ASSUME TypeInv, TypeInv', RingInv, NEW c \in Buffers,
         Kernel(c) \/ \E i \in Rows : Block(c, i), NEW s \in Slots
  PROVE  \/ /\ Batch(s)' = Batch(s) /\ token'[s].sc = token[s].sc
            /\ token[s].full => token'[s].full /\ token'[s].buf = token[s].buf
            /\ GatherFinish(c) => s # Slot(kern[c].seq) /\ ~(token[s].full /\ token[s].buf = c)
         \/ /\ GatherFinish(c) /\ s = Slot(kern[c].seq) /\ Batch(s) = kern[c].seq
            /\ token[s].full /\ token[s].buf = c
            /\ Batch(s)' > Batch(s) /\ Batch(s)' \in Nat /\ Batch(s) \in Nat
<1> USE DEF TypeInv
<1>1. CASE GatherFinish(c)
  <2>0. PICK n, r : n = kern[c].seq /\ r = Slot(n)
    OBVIOUS
  <2>1. /\ r \in Slots /\ n \in Nat /\ Batch(r) = n /\ token[r].full /\ token[r].buf = c
        /\ \A q \in Slots : token[q].full /\ token[q].buf = c => q = r
    BY <1>1, <2>0, GatherSlot DEF GatherFinish, Running
  <2>2. token'[r].round = Round(n) + 1 /\ \A q \in Slots \ {r} : token'[q] = token[q]
    BY <1>1, <2>0, <2>1 DEF GatherFinish, make_empty_token, EmptyToken, TypeOK
  <2>3. Slot(Batch(r)') = r /\ Round(Batch(r)') = Round(n) + 1 /\ Batch(r)' \in Nat
    <3>1. token'[r].round \in Nat
      BY <2>1, <2>2, SlotRoundType
    <3> QED BY <2>1, <2>2, <3>1, SlotRoundOf DEF Batch
  <2>4. n < Batch(r)'
    BY <2>0, <2>1, <2>3, SameSlot, SlotRoundType
  <2>5. CASE s = r
    BY <1>1, <2>0, <2>1, <2>3, <2>4, <2>5
  <2>6. CASE s # r
    BY <2>0, <2>1, <2>2, <2>6 DEF Batch
  <2> QED BY <2>5, <2>6
<1>2. CASE ScatterRelease(c)
  <2>0. PICK n, r : n = kern[c].next /\ r = Slot(n)
    OBVIOUS
  <2>1. n \in Nat /\ r \in Slots /\ ~token[r].full /\ token[r].round = Round(n)
        /\ ~GatherFinish(c)
    <3>1. n \in Nat /\ n # None /\ ~GatherFinish(c)
      BY <1>2, <2>0 DEF ScatterRelease, KernelSet, None, GatherFinish, Running
    <3> QED BY <2>0, <3>1, AtOf DEF RingInv, QueueInv, ReservedInv
  <2>2. /\ token'[r].round = token[r].round /\ token'[r].sc = token[r].sc
        /\ \A q \in Slots \ {r} : token'[q] = token[q]
    <3>1. token' = [token EXCEPT ![r] = [token[r] EXCEPT !.full = TRUE, !.round = Round(n), !.buf = c]]
      BY <1>2, <2>0 DEF ScatterRelease
    <3>2. LET new == [token[r] EXCEPT !.full = TRUE, !.round = Round(n), !.buf = c]
          IN  new.round = Round(n) /\ new.sc = token[r].sc
      BY <2>1 DEF TypeOK, Token
    <3> QED BY <2>1, <3>1, <3>2 DEF TypeOK
  <2> QED BY <2>1, <2>2 DEF Batch
<1>3. CASE ScatterCopy(c)
  BY <1>3 DEF ScatterCopy, GatherFinish, Running, queueVars, Batch
<1>4. CASE \E i \in Rows : Block(c, i)
  <2>1. CASE UNCHANGED token
    <3>1. ~GatherFinish(c)
      BY <1>4 DEF Block, GatherTake, GatherSkip, GatherExpire, GatherClose, GatherFinish, Running
    <3> QED BY <2>1, <3>1 DEF Batch
  <2>2. CASE \E r : token' = [token EXCEPT ![r].closed = TRUE]
    <3>1. ~GatherFinish(c)
      BY <1>4 DEF Block, GatherTake, GatherSkip, GatherExpire, GatherClose, GatherFinish, Running
    <3>2. /\ token'[s].full = token[s].full /\ token'[s].buf = token[s].buf
          /\ token'[s].round = token[s].round /\ token'[s].sc = token[s].sc
      BY <2>2 DEF TypeOK, Token
    <3> QED BY <3>1, <3>2 DEF Batch
  <2> QED BY <1>4, <2>1, <2>2
      DEF Block, GatherTake, GatherSkip, GatherExpire, GatherClose, queueVars
<1> QED BY <1>1, <1>2, <1>3, <1>4 DEF Kernel

\* The kernels of a buffer go through their stages, and no other buffer's do.
LEMMA KernelStages ==
  ASSUME TypeInv, NEW c \in Buffers, Kernel(c) \/ \E i \in Rows : Block(c, i)
  PROVE  /\ \A b \in Buffers \ {c} : kern'[b] = kern[b] /\ progress'[b] = progress[b]
         /\ \/ UNCHANGED <<kern, progress, done>> /\ \E i \in Rows : Block(c, i)
            \/ /\ GatherFinish(c) /\ kern[c].stage = "gather" /\ kern'[c].stage = "gathered"
               /\ kern'[c].seq = kern[c].seq /\ UNCHANGED done
            \/ /\ ScatterCopy(c) /\ kern[c].stage = "gathered" /\ kern'[c].stage = "copied"
               /\ kern'[c].seq = kern[c].seq /\ UNCHANGED done
            \/ /\ ScatterRelease(c) /\ kern[c].stage = "copied" /\ kern'[c].stage = "idle"
               /\ done' = done \union {kern[c].seq}
<1> USE DEF TypeInv
<1>1. CASE GatherFinish(c)
  BY <1>1 DEF GatherFinish, Running, TypeOK, KernelState
<1>2. CASE ScatterCopy(c)
  BY <1>2 DEF ScatterCopy, TypeOK, KernelState
<1>3. CASE ScatterRelease(c)
  BY <1>3 DEF ScatterRelease, TypeOK, IdleKernel
<1>4. CASE \E i \in Rows : Block(c, i)
  BY <1>4 DEF Block, GatherTake, GatherSkip, GatherExpire, GatherClose
<1> QED BY <1>1, <1>2, <1>3, <1>4 DEF Kernel

\* How a thread gets to where it publishes its batch or waits for the event.
LEMMA LastSteps ==
  ASSUME TypeInv, NEW t \in Threads, Begin(t) \/ Step(t)
  PROVE  /\ pc'[t] = "record" => PushWait(t)
         /\ pc'[t] = "publish" => RecordEvent(t)
         /\ pc'[t] = "waitEvent" => WaitDispatch(t)
         /\ pc'[t] = "synced" => Sync(t)
<1> USE DEF Goto, TypeInv
<1>1. CASE Begin(t) \/ LoadHead(t) \/ CheckTail(t)
  BY <1>1 DEF TypeOK, Begin, StartSearch, LoadHead, CheckTail
<1>2. CASE TryCommit(t)
  BY <1>2 DEF TypeOK, TryCommit, AfterCommit
<1>3. CASE Pop(t) \/ AwaitBuffer(t)
  BY <1>3 DEF TypeOK, Pop, AwaitBuffer, AfterCommit
<1>4. CASE LaunchGather(t) \/ SubmitQuery(t) \/ SubmitDeadline(t) \/ TakeSize(t) \/ ResetSize(t)
  BY <1>4 DEF TypeOK, LaunchGather, SubmitQuery, SubmitDeadline, TakeSize, ResetSize
<1>5. CASE PushReserve(t) \/ PushWait(t) \/ RecordEvent(t) \/ Publish(t)
  BY <1>5 DEF TypeOK, PushReserve, PushWait, RecordEvent, Publish, EndOfBatch
<1>6. CASE WaitDispatch(t) \/ WaitEvent(t) \/ Sync(t) \/ Return(t)
  BY <1>6 DEF TypeOK, WaitDispatch, WaitEvent, EndOfBatch, Sync, Return
<1> QED BY <1>1, <1>2, <1>3, <1>4, <1>5, <1>6 DEF Step, OtherStep

\* A thread becomes a dispatcher when it launches, and stays one, of the same batch and
\* with the same buffer, until it publishes.
LEMMA DispatcherSteps ==
  ASSUME TypeInv, RingInv, NEW t \in Threads, Begin(t) \/ Step(t)
  PROVE  /\ Dispatcher(t)' => Dispatcher(t) \/ LaunchGather(t)
         /\ Dispatcher(t) \/ LaunchGather(t) => 
              /\ Dispatcher(t)' \/ Publish(t)
              /\ seq'[t] = seq[t]
              /\ Dispatcher(t)' => claim'[t].buf = claim[t].buf
         /\ Publish(t) => ~Dispatcher(t)'
<1> USE DEF Goto, queueVars, bufferVars, TypeInv
<1>1. ThreadInv(t) /\ claim[t] \in Claim /\ pc[t] \in PCs
  BY DEF RingInv, TypeOK
<1>2. CASE Begin(t) \/ LoadHead(t) \/ CheckTail(t)
  BY <1>2 DEF TypeOK, Begin, StartSearch, LoadHead, CheckTail, Dispatcher, AtWork, LaunchGather,
     Publish
<1>3. CASE TryCommit(t)
  <2>1. pc[t] = "commit" /\ pc'[t] \notin {"takeSize", "resetSize", "push", "pushWait", "record",
                                           "publish"}
    BY <1>3 DEF TryCommit, AfterCommit, TypeOK
  <2>2. pc'[t] = "submit" => claim'[t].off # 0
    <3> DEFINE tok == token[Slot(seq[t])]
               sc2 == Committed(tok.sc, req[t].need)
               c   == [off |-> tok.sc, cnt |-> sc2 - tok.sc, sub |-> 0, size |-> 0,
                       buf |-> IF Status(tok, seq[t]) = kFull THEN tok.buf ELSE None,
                       next |-> None]
    <3>1. pc'[t] = "submit" => claim' = [claim EXCEPT ![t] = c] /\ pc'[t] = AfterCommit(c)
      BY <1>3 DEF TryCommit, TypeOK
    <3> HIDE DEF c
    <3> QED BY <3>1 DEF AfterCommit, TypeOK
  <2> QED BY <2>1, <2>2 DEF Dispatcher, AtWork, LaunchGather, Publish
<1>4. CASE Pop(t)
  BY <1>1, <1>4 DEF Pop, AfterCommit, TypeOK, Dispatcher, AtWork, LaunchGather, Publish
<1>5. CASE AwaitBuffer(t)
  <2>1. claim'[t].off = claim[t].off
    BY <1>1, <1>5 DEF AwaitBuffer, TypeOK, Claim
  <2>2. pc[t] = "await" /\ (pc'[t] = "submit" => claim[t].off # 0)
        /\ pc'[t] \in {"await", "launch", "submit", "raised"}
    BY <1>1, <1>5 DEF AwaitBuffer, AfterCommit, TypeOK, Claim
  <2> QED BY <2>1, <2>2 DEF Dispatcher, AtWork, LaunchGather, Publish
<1>6. CASE LaunchGather(t)
  BY <1>1, <1>6 DEF LaunchGather, TypeOK, Dispatcher, AtWork, ThreadInv, Alone, Publish
<1>7. CASE SubmitQuery(t) \/ SubmitDeadline(t) \/ TakeSize(t) \/ ResetSize(t) \/ PushReserve(t)
  <2>1. /\ claim'[t].off = claim[t].off /\ claim'[t].buf = claim[t].buf /\ seq'[t] = seq[t]
    BY <1>1, <1>7 DEF SubmitQuery, SubmitDeadline, TakeSize, ResetSize, PushReserve, TypeOK, Claim
  <2>2. pc[t] \in AtWork /\ (pc'[t] \in AtWork \/ claim[t].off > 0)
    BY <1>7 DEF SubmitQuery, SubmitDeadline, TakeSize, ResetSize, PushReserve, TypeOK, AtWork
  <2>3. claim[t].off > 0 => claim[t].off # 0
    BY <1>1, SizesAssumption DEF Claim
  <2> QED BY <1>7, <2>1, <2>2, <2>3 DEF Dispatcher, AtWork, LaunchGather, Publish
<1>8. CASE PushWait(t)
  <2>1. pc[t] = "pushWait" /\ UNCHANGED <<claim, seq>> /\ pc'[t] = "record"
    BY <1>8, PushReads DEF PushWait, TypeOK
  <2> QED BY <2>1 DEF Dispatcher, AtWork, LaunchGather, Publish
<1>9. CASE RecordEvent(t)
  BY <1>9 DEF RecordEvent, TypeOK, Dispatcher, AtWork, LaunchGather, Publish
<1>10. CASE Publish(t)
  BY <1>10 DEF Publish, EndOfBatch, TypeOK, Dispatcher, AtWork, LaunchGather
<1>11. CASE WaitDispatch(t) \/ WaitEvent(t) \/ Sync(t) \/ Return(t)
  BY <1>11 DEF WaitDispatch, WaitEvent, EndOfBatch, Sync, Return, TypeOK, Dispatcher, AtWork,
     LaunchGather, Publish
<1> QED BY <1>2, <1>3, <1>4, <1>5, <1>6, <1>7, <1>8, <1>9, <1>10, <1>11 DEF Step, OtherStep

LEMMA DispatcherType ==
  ASSUME TypeInv, RingInv, NEW t \in Threads, Dispatcher(t)
  PROVE  /\ claim[t].buf \in Buffers /\ seq[t] \in Nat /\ Slot(seq[t]) \in Slots
         /\ pc[t] \in Claiming /\ claim[t].off = 0 /\ At(seq[t]) >= seq[t] /\ At(seq[t]) \in Nat
<1>1. /\ claim[t].buf \in Buffers /\ seq[t] \in Nat /\ Slot(seq[t]) \in Slots
      /\ pc[t] \in Claiming /\ claim[t].off = 0
  BY SlotRoundType DEF TypeInv, TypeOK, Seqs, ClaimFits, Dispatcher, AtWork, Acquired, Claiming
<1> QED BY <1>1, AtOf DEF RingInv, ThreadInv, TypeInv

-----------------------------------------------------------------------------
(* Publication.                                                            *)

LEMMA DispatchedInit == Init => DispatchedInv
<1> SUFFICES ASSUME Init PROVE DispatchedInv
  OBVIOUS
<1>1. \A t \in Threads : ~Dispatcher(t)
  BY DEF Init, Dispatcher, AtWork
<1>2. ASSUME NEW s \in Slots PROVE dispatched[s] = -1 /\ Batch(s) \in Nat
  <2>1. token[s].round \in Nat
    <3>1. s \in Nat /\ Round(s) \in Nat
      BY SlotRoundType DEF Slots
    <3> QED BY <3>1 DEF Init, FullToken, EmptyToken
  <2>2. s \in Nat /\ KSize * token[s].round \in Nat
    BY <2>1, SizesAssumption DEF Slots
  <2> QED BY <2>2 DEF Init, Batch, None
<1> QED BY <1>1, <1>2 DEF DispatchedInv

\* A launch is later than anything published from the slot, and the only one at work.
LEMMA DispatchedLaunch ==
  ASSUME TypeInv, RingInv, DispatchedInv, NEW t \in Threads, LaunchGather(t), OnTime(t)
  PROVE  DispatchedInv'
<1> USE DEF TypeInv
<1>0. PICK c, n : c = claim[t].buf /\ n = seq[t]
  OBVIOUS
<1>1. /\ c = claim[t].buf /\ n = seq[t] /\ c \in Buffers /\ n \in Nat /\ Slot(n) \in Slots
      /\ kern[c].stage = "idle" /\ At(n) = n /\ Batch(Slot(n)) = n
      /\ token[Slot(n)].full /\ token[Slot(n)].buf = c
      /\ kern'[c].stage = "gather"
      /\ UNCHANGED <<token, seq, claim, dispatched>>
      /\ \A b \in Buffers \ {c} : kern'[b] = kern[b]
  BY <1>0, LaunchIsFirst DEF LaunchGather, TypeOK, At
<1>2. /\ pc[t] = "launch" /\ claim[t].off = 0 /\ pc[t] \in Claiming
      /\ \A u \in Threads \ {t} : pc'[u] = pc[u]
      /\ \A u \in Threads \ {t} : Dispatcher(u)' <=> Dispatcher(u)
  BY DEF LaunchGather, TypeOK, RingInv, ThreadInv, Alone, Claiming, Goto, Dispatcher
<1>3. ASSUME NEW u \in Threads, u # t, Dispatcher(u) PROVE Slot(seq[u]) # Slot(n)
  <2> SUFFICES ASSUME Slot(seq[u]) = Slot(n) PROVE FALSE
    OBVIOUS
  <2>1. seq[u] \in Nat /\ pc[u] \in Claiming /\ claim[u].off = 0 /\ At(seq[u]) >= seq[u]
    BY <1>3, DispatcherType
  <2>2. seq[u] # n
    BY <1>1, <1>2, <1>3, <2>1, OneDispatcher
  <2>3. seq[u] <= n
    BY <1>1, <2>1 DEF At
  <2>4. seq[u] + KSize <= n
    BY <1>1, <2>1, <2>2, <2>3, SameSlot
  <2>5. n - seq[u] < KSize
    BY <1>1, <1>2, <2>1 DEF OnTime, Dispatching
  <2> QED BY <1>1, <2>1, <2>4, <2>5, SizesAssumption, RequestsAssumption
<1>4. \A u, v \in Threads : Dispatcher(u)' /\ Dispatcher(v)' /\ Slot(seq'[u]) = Slot(seq'[v]) => u = v
  BY <1>1, <1>2, <1>3 DEF DispatchedInv
<1>5. dispatched[Slot(n)] < n
  <2>1. dispatched[Slot(n)] <= n /\ dispatched[Slot(n)] # n
    BY <1>1 DEF DispatchedInv
  <2>2. dispatched[Slot(n)] \in Nat \union {-1}
    BY <1>1 DEF TypeOK, Seqs, None
  <2> QED BY <1>1, <2>1, <2>2
<1>6. \A u \in Threads : Dispatcher(u)' => dispatched'[Slot(seq'[u])] < seq'[u]
  BY <1>1, <1>2, <1>5 DEF DispatchedInv
<1>7. ASSUME NEW s \in Slots
      PROVE  /\ dispatched'[s] <= Batch(s)'
             /\ dispatched'[s] = Batch(s)' => token'[s].full /\ kern'[token'[s].buf].stage = "gather"
  <2>1. Batch(s)' = Batch(s)
    BY <1>1 DEF Batch
  <2>2. token[s].full => token[s].buf \in Buffers
    BY DEF TokenBuf
  <2> QED BY <1>1, <2>1, <2>2 DEF DispatchedInv
<1> QED BY <1>4, <1>6, <1>7 DEF DispatchedInv

\* The other steps of a thread.
LEMMA DispatchedThread ==
  ASSUME TypeInv, RingInv, DispatchedInv, EventInv, NEW t \in Threads,
         Begin(t) \/ Step(t), ~LaunchGather(t)
  PROVE  DispatchedInv'
<1> USE DEF TypeInv
<1>1. \A u \in Threads : Dispatcher(u)' => Dispatcher(u) /\ seq'[u] = seq[u]
  <2>1. \A u \in Threads \ {t} : pc'[u] = pc[u] /\ seq'[u] = seq[u] /\ claim'[u] = claim[u]
    BY OtherThreads
  <2>2. Dispatcher(t)' => Dispatcher(t) /\ seq'[t] = seq[t]
    BY DispatcherSteps
  <2> QED BY <2>1, <2>2 DEF Dispatcher
<1>2. \A u, v \in Threads : Dispatcher(u)' /\ Dispatcher(v)' /\ Slot(seq'[u]) = Slot(seq'[v]) => u = v
  BY <1>1 DEF DispatchedInv
<1>3. \A s \in Slots : Batch(s)' = Batch(s) /\ token'[s].full = token[s].full
                       /\ token'[s].buf = token[s].buf
  BY StepTokens DEF Batch
<1>4. \A b \in Buffers : kern'[b].stage = kern[b].stage
  BY StepKernels
<1>5. CASE UNCHANGED dispatched
  <2>1. \A u \in Threads : Dispatcher(u)' => dispatched'[Slot(seq'[u])] < seq'[u]
    BY <1>1, <1>5 DEF DispatchedInv
  <2>2. \A s \in Slots : token[s].full => token[s].buf \in Buffers
    BY DEF TokenBuf
  <2> QED BY <1>2, <1>3, <1>4, <1>5, <2>1, <2>2 DEF DispatchedInv
<1>6. CASE Publish(t)
  <2>0. PICK n, s : n = seq[t] /\ s = Slot(n)
    OBVIOUS
  <2>1. n = seq[t] /\ s = Slot(n) /\ pc[t] = "publish" /\ Dispatcher(t) /\ ~Dispatcher(t)'
    BY <1>6, <2>0, DispatcherSteps DEF Publish, RingInv, ThreadInv, Alone, Dispatcher
  <2>2. n \in Nat /\ s \in Slots /\ claim[t].buf \in Buffers /\ n <= At(n) /\ At(n) = Batch(s)
        /\ pc[t] \in Claiming
    BY <2>1, DispatcherType DEF At
  <2>3. dispatched'[s] = n /\ \A r \in Slots \ {s} : dispatched'[r] = dispatched[r]
    BY <1>6, <2>1, <2>2 DEF Publish, TypeOK
  <2>4. ASSUME NEW u \in Threads, Dispatcher(u)' PROVE dispatched'[Slot(seq'[u])] < seq'[u]
    <3>1. Dispatcher(u) /\ seq'[u] = seq[u] /\ u # t
      BY <1>1, <2>1, <2>4
    <3>2. Slot(seq[u]) # s /\ Slot(seq[u]) \in Slots
      BY <2>1, <3>1, DispatcherType DEF DispatchedInv
    <3> QED BY <2>3, <3>1, <3>2 DEF DispatchedInv
  <2>5. ASSUME n = Batch(s) PROVE token[s].full /\ kern[token[s].buf].stage = "gather"
    <3>1. kern[claim[t].buf].stage = "gather"
      BY <2>1, <2>2, <2>5 DEF EventInv, WaiterInv
    <3>2. token[s].full /\ token[s].buf = claim[t].buf
      BY <2>1, <2>2, <2>5, HolderRows DEF Acquired
    <3> QED BY <3>1, <3>2
  <2>6. \A r \in Slots : token[r].full => token[r].buf \in Buffers
    BY DEF TokenBuf
  <2> QED BY <1>2, <1>3, <1>4, <2>2, <2>3, <2>4, <2>5, <2>6 DEF DispatchedInv
<1> QED BY <1>5, <1>6, StepKernels

\* The steps of the kernels: the slot that is emptied moves to a later batch.
LEMMA DispatchedKernel ==
  ASSUME TypeInv, TypeInv', RingInv, DispatchedInv, NEW c \in Buffers,
         Kernel(c) \/ \E i \in Rows : Block(c, i)
  PROVE  DispatchedInv'
<1> USE DEF TypeInv
<1>1. UNCHANGED <<dispatched, pc, seq, claim>>
  BY KernelThreads
<1>2. /\ \A u, v \in Threads : Dispatcher(u)' /\ Dispatcher(v)' /\ Slot(seq'[u]) = Slot(seq'[v]) => u = v
      /\ \A u \in Threads : Dispatcher(u)' => dispatched'[Slot(seq'[u])] < seq'[u]
  BY <1>1 DEF DispatchedInv, Dispatcher
<1>3. ASSUME NEW s \in Slots
      PROVE  /\ dispatched[s] <= Batch(s)'
             /\ dispatched[s] = Batch(s)' => token'[s].full /\ kern'[token'[s].buf].stage = "gather"
  <2>1. /\ dispatched[s] <= Batch(s) /\ dispatched[s] \in Int
        /\ dispatched[s] = Batch(s) => token[s].full /\ kern[token[s].buf].stage = "gather"
        /\ token[s].full => token[s].buf \in Buffers
    BY DEF DispatchedInv, TokenBuf, TypeOK, Seqs, None
  <2>2. CASE Batch(s)' > Batch(s) /\ Batch(s)' \in Nat /\ Batch(s) \in Nat
    BY <2>1, <2>2
  <2>3. CASE /\ Batch(s)' = Batch(s)
             /\ token[s].full => token'[s].full /\ token'[s].buf = token[s].buf
             /\ GatherFinish(c) => ~(token[s].full /\ token[s].buf = c)
    BY <2>1, <2>3, KernelStages
  <2> QED BY <2>2, <2>3, KernelSlots
<1> QED BY <1>1, <1>2, <1>3 DEF DispatchedInv

-----------------------------------------------------------------------------
(* Completion.                                                             *)

LEMMA DoneInit == Init => DoneInv
BY DEF Init, DoneInv, IdleKernel

\* A batch is launched once.
LEMMA DoneLaunch ==
  ASSUME TypeInv, RingInv, DoneInv, NEW t \in Threads, LaunchGather(t)
  PROVE  DoneInv'
<1> USE DEF TypeInv
<1>0. PICK c, n : c = claim[t].buf /\ n = seq[t]
  OBVIOUS
<1>1. /\ c \in Buffers /\ n \in Nat /\ Slot(n) \in Slots /\ kern[c].stage = "idle" /\ At(n) = n
      /\ token[Slot(n)].full /\ token[Slot(n)].buf = c
      /\ kern'[c].stage = "gather" /\ kern'[c].seq = n
      /\ UNCHANGED <<token, done>>
      /\ \A b \in Buffers \ {c} : kern'[b] = kern[b]
  BY <1>0, LaunchIsFirst DEF LaunchGather, TypeOK
<1>2. \A m \in done' : At(m)' > m
  BY <1>1 DEF DoneInv, At, Batch
<1>3. n \notin done
  BY <1>1 DEF DoneInv
<1>4. ASSUME NEW b \in Buffers, kern[b].stage # "idle" PROVE kern[b].seq # n
  <2>1. CASE kern[b].stage = "gather"
    BY <1>1, <2>1 DEF RingInv, KernelInv
  <2>2. CASE kern[b].stage = "gathered"
    BY <1>1, <2>2 DEF RingInv, KernelInv
  <2>3. CASE kern[b].stage = "copied"
    BY <1>1, <1>4, <2>3 DEF DoneInv
  <2> QED BY <1>4, <2>1, <2>2, <2>3 DEF TypeOK, KernelState
<1>5. ASSUME NEW b \in Buffers, kern'[b].stage # "idle"
      PROVE  /\ kern'[b].seq \notin done
             /\ kern'[b].stage = "copied" => (At(kern[b].seq) > kern[b].seq)'
             /\ \A d \in Buffers : kern'[d].stage # "idle" /\ kern'[d].seq = kern'[b].seq => b = d
  <2>1. CASE b = c
    BY <1>1, <1>3, <1>4, <2>1
  <2>2. CASE b # c
    <3>1. kern'[b] = kern[b] /\ kern[b].stage # "idle" /\ kern[b].seq # n
      BY <1>1, <1>4, <1>5, <2>2
    <3>2. kern[b].stage = "copied" => At(kern[b].seq) > kern[b].seq
      BY <3>1 DEF DoneInv
    <3>3. At(kern[b].seq)' = At(kern[b].seq)
      BY <1>1, <3>1 DEF At, Batch
    <3> QED BY <1>1, <2>2, <3>1, <3>2, <3>3 DEF DoneInv
  <2> QED BY <2>1, <2>2
<1> QED BY <1>1, <1>2, <1>5 DEF DoneInv

LEMMA DoneThread ==
  ASSUME TypeInv, RingInv, DoneInv, NEW t \in Threads, Begin(t) \/ Step(t), ~LaunchGather(t)
  PROVE  DoneInv'
<1> USE DEF TypeInv
<1>1. done' = done /\ \A b \in Buffers : kern'[b].stage = kern[b].stage /\ kern'[b].seq = kern[b].seq
  BY StepKernels
<1>2. \A m \in Nat : At(m)' = At(m)
  BY StepAt
<1>3. done \subseteq Nat
  BY DEF TypeOK, Seqs
<1>4. \A b \in Buffers : kern[b].stage # "idle" =>
        kern[b].seq \in Nat /\ At(kern[b].seq)' = At(kern[b].seq)
  <2> SUFFICES ASSUME NEW b \in Buffers, kern[b].stage # "idle"
               PROVE  kern[b].seq \in Nat /\ At(kern[b].seq)' = At(kern[b].seq)
    OBVIOUS
  <2>1. PICK n \in Nat : n = kern[b].seq
    BY DEF KernelSet
  <2>2. kern'[b].seq = n
    BY <1>1, <2>1
  <2>3. At(n)' = At(n)
    BY <1>2
  <2> QED BY <2>1, <2>2, <2>3 DEF At
<1> QED BY <1>1, <1>2, <1>3, <1>4 DEF DoneInv

\* The kernels of a batch complete after its slot has moved on.
LEMMA DoneKernel ==
  ASSUME TypeInv, TypeInv', RingInv, DoneInv, NEW c \in Buffers,
         Kernel(c) \/ \E i \in Rows : Block(c, i)
  PROVE  DoneInv'
<1> USE DEF TypeInv
<1>1. \A m \in Nat : At(m) > m => At(m)' > m
  <2> SUFFICES ASSUME NEW m \in Nat, At(m) > m PROVE At(m)' > m
    OBVIOUS
  <2>1. PICK s \in Slots : s = Slot(m)
    BY SlotRoundType
  <2>2. Batch(s) > m /\ Batch(s) \in Nat
    BY <2>1, BatchOfSlot DEF At
  <2>3. Batch(s)' > m
    BY <2>2, KernelSlots
  <2> QED BY <2>1, <2>3 DEF At
<1>2. done \subseteq Nat
  BY DEF TypeOK, Seqs
<1>3. \A b \in Buffers : kern[b].stage # "idle" => kern[b].seq \in Nat
  BY DEF KernelSet
<1>4. \A b \in Buffers : kern[b].stage \in {"gathered", "copied"} => At(kern[b].seq) > kern[b].seq
  BY DEF RingInv, KernelInv, DoneInv
<1>5. \A m \in done' : At(m)' > m
  <2>1. \A m \in done : At(m)' > m
    BY <1>1, <1>2 DEF DoneInv
  <2>2. kern[c].stage = "copied" => \A m \in {kern[c].seq} : At(m)' > m
    BY <1>1, <1>3, <1>4
  <2>3. done' = done \/ (kern[c].stage = "copied" /\ done' = done \union {kern[c].seq})
    BY KernelStages
  <2> QED BY <2>1, <2>2, <2>3
<1>6. ASSUME NEW b \in Buffers, kern'[b].stage # "idle"
      PROVE  kern[b].stage # "idle" /\ kern'[b].seq = kern[b].seq
             /\ (kern'[b].stage = "copied" => kern[b].stage \in {"gathered", "copied"})
             /\ kern[b].seq \notin done'
  <2>1. /\ kern[b].stage # "idle" /\ kern'[b].seq = kern[b].seq
        /\ kern'[b].stage = "copied" => kern[b].stage \in {"gathered", "copied"}
    BY <1>6, KernelStages
  <2>2. kern[b].seq \notin done /\ (b # c /\ kern[c].stage = "copied" => kern[b].seq # kern[c].seq)
    BY <2>1 DEF DoneInv
  <2>3. \/ done' = done
        \/ b # c /\ kern[c].stage = "copied" /\ done' = done \union {kern[c].seq}
    BY <1>6, KernelStages
  <2> QED BY <2>1, <2>2, <2>3
<1>7. ASSUME NEW b \in Buffers, kern'[b].stage = "copied" PROVE (At(kern[b].seq) > kern[b].seq)'
  <2>1. PICK n \in Nat : n = kern[b].seq
    BY <1>3, <1>6, <1>7
  <2>2. kern'[b].seq = n /\ At(n) > n
    BY <1>4, <1>6, <1>7, <2>1
  <2>3. At(n)' > n
    BY <1>1, <2>2
  <2> QED BY <2>2, <2>3 DEF At
<1> QED BY <1>5, <1>6, <1>7 DEF DoneInv

-----------------------------------------------------------------------------
(* The completion events.                                                  *)

LEMMA EventInit == Init => EventInv
BY DEF Init, EventInv, EventOf, WaiterInv, IdleKernel

LEMMA WaiterType ==
  ASSUME TypeInv, NEW t \in Threads, pc[t] \in {"record", "publish", "waitEvent"}
  PROVE  /\ claim[t].buf \in Buffers /\ seq[t] \in Nat
         /\ pc[t] \in Acquired /\ pc[t] \in Claiming
BY DEF TypeInv, TypeOK, Seqs, ClaimFits, Acquired, Claiming

\* A buffer is launched again only when nobody is to record its event or waits for it.
LEMMA EventLaunch ==
  ASSUME TypeInv, RingInv, EventInv, NEW t \in Threads, LaunchGather(t), OnTime(t)
  PROVE  EventInv'
<1> USE DEF TypeInv
<1>0. PICK c, n : c = claim[t].buf /\ n = seq[t]
  OBVIOUS
<1>1. /\ c = claim[t].buf /\ n = seq[t]
      /\ c \in Buffers /\ n \in Nat /\ kern[c].stage = "idle" /\ At(n) = n
      /\ kern'[c].stage = "gather" /\ kern'[c].seq = n
      /\ UNCHANGED <<token, seq, claim, event, waits>>
      /\ \A b \in Buffers \ {c} : kern'[b] = kern[b]
      /\ \A u \in Threads : ~(pc[u] = "record" /\ claim[u].buf = c)
  BY <1>0, LaunchIsFirst DEF LaunchGather, TypeOK, OnTime
<1>2. /\ pc[t] = "launch" /\ pc'[t] = "submit" /\ claim[t].off = 0
      /\ \A u \in Threads \ {t} : pc'[u] = pc[u]
  BY DEF LaunchGather, TypeOK, RingInv, ThreadInv, Alone, Goto
<1>3. \A u \in Threads : Dispatcher(u)' <=> Dispatcher(u) \/ u = t
  BY <1>1, <1>2 DEF Dispatcher, AtWork
<1>4. ASSUME NEW b \in Buffers PROVE EventOf(b)'
  <2>1. CASE b = c
    BY <1>1, <1>2, <1>3, <2>1 DEF EventOf
  <2>2. CASE b # c
    <3>1. EventOf(b) /\ ~Dispatcher(t)
      BY <1>2 DEF EventInv, Dispatcher, AtWork
    <3> QED BY <1>1, <1>2, <1>3, <2>2, <3>1 DEF EventOf
  <2> QED BY <2>1, <2>2
<1>5. ASSUME NEW u \in Threads PROVE WaiterInv(u)'
  <2>1. CASE u = t
    BY <1>2, <2>1 DEF WaiterInv
  <2>2. CASE u # t
    <3>1. WaiterInv(u) /\ pc'[u] = pc[u] /\ At(seq[u])' = At(seq[u])
      BY <1>1, <1>2, <2>2 DEF EventInv, At, Batch
    <3>2. pc[u] \in {"record", "publish", "waitEvent"} => claim[u].buf \in Buffers
      BY WaiterType
    <3>3. CASE claim[u].buf = c
      BY <1>1, <3>1, <3>3 DEF WaiterInv
    <3>4. CASE claim[u].buf # c
      BY <1>1, <3>1, <3>2, <3>4 DEF WaiterInv
    <3> QED BY <3>3, <3>4
  <2> QED BY <2>1, <2>2
<1> QED BY <1>4, <1>5 DEF EventInv

\* A dispatcher records the event before it publishes the batch.
LEMMA EventThread ==
  ASSUME TypeInv, RingInv, EventInv, DispatchedInv, NEW t \in Threads,
         Begin(t) \/ Step(t), ~LaunchGather(t)
  PROVE  EventInv'
<1> USE DEF TypeInv
<1>1. \A u \in Threads \ {t} : pc'[u] = pc[u] /\ seq'[u] = seq[u] /\ claim'[u] = claim[u]
                               /\ waits'[u] = waits[u]
  BY OtherThreads
<1>2. \A b \in Buffers : kern'[b].stage = kern[b].stage /\ kern'[b].seq = kern[b].seq
  BY StepKernels
<1>3. ASSUME RecordEvent(t)
      PROVE  /\ claim[t].buf \in Buffers /\ event'[claim[t].buf] = seq[t]
             /\ \A b \in Buffers : b # claim[t].buf => event'[b] = event[b]
             /\ kern[claim[t].buf].stage = "idle" \/ kern[claim[t].buf].seq = seq[t]
  BY <1>3, WaiterType DEF RecordEvent, TypeOK, EventInv, WaiterInv
<1>4. ASSUME NEW b \in Buffers PROVE EventOf(b)'
  <2> SUFFICES ASSUME kern[b].stage # "idle", event'[b] # kern[b].seq
               PROVE  \E u \in Threads : /\ Dispatcher(u)' /\ pc'[u] # "publish"
                                         /\ claim'[u].buf = b /\ seq'[u] = kern[b].seq
    BY <1>2 DEF EventOf
  <2>1. event[b] # kern[b].seq /\ ~(RecordEvent(t) /\ b = claim[t].buf)
    BY <1>3, StepKernels
  <2>2. PICK u \in Threads : /\ Dispatcher(u) /\ pc[u] # "publish"
                             /\ claim[u].buf = b /\ seq[u] = kern[b].seq
    BY <2>1 DEF EventInv, EventOf
  <2>3. CASE u = t
    <3>1. ~Publish(t)
      BY <2>2, <2>3 DEF Publish
    <3>2. Dispatcher(t)' /\ seq'[t] = seq[t] /\ claim'[t].buf = claim[t].buf
      BY <2>2, <2>3, <3>1, DispatcherSteps
    <3>3. pc'[t] # "publish"
      BY <2>1, <2>2, <2>3, LastSteps
    <3> QED BY <2>2, <2>3, <3>2, <3>3
  <2>4. CASE u # t
    BY <1>1, <2>2, <2>4 DEF Dispatcher
  <2> QED BY <2>3, <2>4
<1>5. ASSUME NEW u \in Threads, u # t PROVE WaiterInv(u)'
  <2>1. WaiterInv(u) /\ seq[u] \in Nat
    BY DEF EventInv, TypeOK, Seqs
  <2>2. At(seq[u])' = At(seq[u])
    <3>1. PICK n \in Nat : n = seq[u]
      BY <2>1
    <3>2. seq'[u] = n /\ At(n)' = At(n)
      BY <1>1, <1>5, <3>1, StepAt
    <3> QED BY <3>1, <3>2 DEF At
  <2>3. pc[u] \in {"record", "publish", "waitEvent"} => claim[u].buf \in Buffers
    BY WaiterType
  <2>4. pc[u] = "waitEvent" /\ kern[claim[u].buf].stage # "idle" /\ kern[claim[u].buf].seq = seq[u]
          => event'[claim[u].buf] = event[claim[u].buf] \/ event'[claim[u].buf] = seq[u]
    BY <1>3, <2>3, StepKernels
  <2> QED BY <1>1, <1>2, <1>5, <2>1, <2>2, <2>3, <2>4 DEF WaiterInv
<1>6. WaiterInv(t)'
  <2>1. CASE PushWait(t)
    <3>1. /\ pc[t] = "pushWait" /\ pc'[t] = "record" /\ UNCHANGED <<seq, claim>>
          /\ seq[t] \in waits'[t]
      BY <2>1, PushReads DEF PushWait, TypeOK, Goto
    <3>2. Launched(t)
      BY <3>1 DEF Launched, AtWork, Alone, RingInv, ThreadInv
    <3>3. PICK n \in Nat, b \in Buffers : n = seq[t] /\ b = claim[t].buf
      BY <3>2, LaunchedBuffer
    <3>4. kern[b].seq = n /\ kern[b].stage # "idle"
      BY <3>2, <3>3 DEF RingInv, LaunchedInv
    <3>5. At(n) = n => kern[b].stage = "gather"
      BY <3>1, <3>3, <3>4, HolderOfGather DEF Acquired, Claiming
    <3>6. At(n)' = At(n)
      BY StepAt
    <3> QED BY <1>2, <3>1, <3>3, <3>4, <3>5, <3>6 DEF WaiterInv
  <2>2. CASE RecordEvent(t)
    <3>1. pc[t] = "record" /\ pc'[t] = "publish" /\ UNCHANGED <<seq, claim, waits>> /\ WaiterInv(t)
      BY <2>2 DEF RecordEvent, TypeOK, EventInv, Goto
    <3>2. PICK n \in Nat, b \in Buffers : n = seq[t] /\ b = claim[t].buf
      BY <3>1, WaiterType
    <3>3. At(n)' = At(n)
      BY StepAt
    <3> QED BY <1>2, <3>1, <3>2, <3>3 DEF WaiterInv
  <2>3. CASE WaitDispatch(t)
    <3>1. /\ pc[t] = "waitDispatch" /\ pc'[t] = "waitEvent" /\ UNCHANGED <<seq, claim, event>>
          /\ seq[t] <= dispatched[Slot(seq[t])]
      BY <2>3 DEF WaitDispatch, TypeOK, Goto, bufferVars
    <3>2. PICK n \in Nat, b \in Buffers : n = seq[t] /\ b = claim[t].buf
      BY <3>1 DEF TypeOK, Seqs, ClaimFits, Acquired, Claiming
    <3>3. At(n)' = At(n) /\ Slot(n) \in Slots /\ dispatched[Slot(n)] \in Int
      BY StepAt DEF TypeOK, Seqs, None
    <3>4. ASSUME At(n) = n PROVE kern[b].stage = "gather"
      <4>1. dispatched[Slot(n)] = Batch(Slot(n))
        BY <3>1, <3>2, <3>3, <3>4 DEF DispatchedInv, At
      <4>2. token[Slot(n)].buf = b
        BY <3>1, <3>2, <3>4, HolderRows DEF Acquired, Claiming
      <4> QED BY <3>3, <4>1, <4>2 DEF DispatchedInv
    <3>5. ASSUME kern[b].stage # "idle", kern[b].seq = n PROVE event[b] = n
      <4> SUFFICES ASSUME event[b] # n PROVE FALSE
        OBVIOUS
      <4>1. PICK u \in Threads : Dispatcher(u) /\ seq[u] = n
        BY <3>5 DEF EventInv, EventOf
      <4>2. dispatched[Slot(n)] < n
        BY <4>1 DEF DispatchedInv
      <4> QED BY <3>1, <3>2, <3>3, <4>2
    <3> QED BY <1>2, <3>1, <3>2, <3>3, <3>4, <3>5 DEF WaiterInv
  <2>4. CASE ~PushWait(t) /\ ~RecordEvent(t) /\ ~WaitDispatch(t)
    BY <2>4, LastSteps DEF WaiterInv
  <2> QED BY <2>1, <2>2, <2>3, <2>4
<1> QED BY <1>4, <1>5, <1>6 DEF EventInv

\* The kernels record nothing; a batch that a dispatcher has not left its slot of gathers.
LEMMA EventKernel ==
  ASSUME TypeInv, TypeInv', RingInv, EventInv, NEW c \in Buffers,
         Kernel(c) \/ \E i \in Rows : Block(c, i)
  PROVE  EventInv'
<1> USE DEF TypeInv
<1>1. UNCHANGED <<event, pc, seq, claim, waits>>
  BY KernelThreads
<1>2. \A b \in Buffers : kern'[b].stage # "idle" =>
         kern[b].stage # "idle" /\ kern'[b].seq = kern[b].seq
  BY KernelStages
<1>3. \A b \in Buffers : EventOf(b)'
  BY <1>1, <1>2 DEF EventInv, EventOf, Dispatcher
<1>4. ASSUME NEW u \in Threads PROVE WaiterInv(u)'
  <2> SUFFICES ASSUME pc[u] \in {"record", "publish", "waitEvent"} PROVE WaiterInv(u)'
    BY <1>1 DEF WaiterInv
  <2>1. PICK n \in Nat, b \in Buffers, s \in Slots : n = seq[u] /\ b = claim[u].buf /\ s = Slot(n)
    BY WaiterType, SlotRoundType
  <2>2. WaiterInv(u) /\ pc[u] \in Acquired /\ pc[u] \in Claiming
    BY WaiterType DEF EventInv
  <2>3. ASSUME Batch(s)' = n
        PROVE  kern'[b].stage = "gather"
    <3>1. Batch(s) >= n
      BY <2>1, <2>2 DEF RingInv, ThreadInv, At
    <3>2. /\ Batch(s) = n
          /\ GatherFinish(c) => ~(token[s].full /\ token[s].buf = c)
      BY <2>3, <3>1, KernelSlots
    <3>3. token[s].full /\ token[s].buf = b
      BY <2>1, <2>2, <3>2, HolderRows DEF At
    <3>4. kern[b].stage = "gather"
      BY <2>1, <2>2, <3>2 DEF WaiterInv, At
    <3> QED BY <3>2, <3>3, <3>4, KernelStages
  <2> QED BY <1>1, <1>2, <2>1, <2>2, <2>3 DEF WaiterInv, At
<1> QED BY <1>3, <1>4 DEF EventInv

-----------------------------------------------------------------------------
(* What the upstream search is given.                                      *)

LEMMA GivenInit == Init => GivenInv
BY DEF Init, GivenInv, IdleKernel

LEMMA GivenThread ==
  ASSUME TypeInv, RingInv, SizesInv, GivenInv, NEW t \in Threads, Begin(t) \/ Step(t)
  PROVE  GivenInv'
<1> USE DEF Goto, TypeInv
<1>0. \A u \in Threads \ {t} : pc'[u] = pc[u] /\ claim'[u] = claim[u]
  BY OtherThreads
<1>1. ASSUME ~Conservative
      PROVE  /\ pc'[t] \notin {"takeSize", "resetSize"}
             /\ pc'[t] \in {"push", "pushWait"} => claim'[t].size = MaxBatch
  <2>0. claim[t] \in Claim /\ pc[t] \in PCs
    BY DEF TypeOK
  <2>1. CASE Begin(t) \/ LoadHead(t) \/ CheckTail(t)
    BY <2>1 DEF TypeOK, Begin, StartSearch, LoadHead, CheckTail
  <2>2. CASE TryCommit(t)
    BY <2>2 DEF TypeOK, TryCommit, AfterCommit
  <2>3. CASE Pop(t) \/ AwaitBuffer(t)
    BY <2>3 DEF TypeOK, Pop, AwaitBuffer, AfterCommit
  <2>4. CASE LaunchGather(t) \/ SubmitQuery(t)
    BY <2>4 DEF TypeOK, LaunchGather, SubmitQuery
  <2>5. CASE SubmitDeadline(t)
    BY <1>1, <2>0, <2>5 DEF TypeOK, SubmitDeadline, Claim
  <2>6. CASE TakeSize(t) \/ ResetSize(t)
    BY <1>1, <2>6 DEF GivenInv, TakeSize, ResetSize
  <2>7. CASE PushReserve(t)
    BY <1>1, <2>0, <2>7 DEF TypeOK, PushReserve, Claim, GivenInv
  <2>8. CASE PushWait(t) \/ RecordEvent(t) \/ Publish(t) \/ WaitDispatch(t) \/ WaitEvent(t)
             \/ Sync(t) \/ Return(t)
    BY <2>8 DEF TypeOK, PushWait, RecordEvent, Publish, EndOfBatch, WaitDispatch, WaitEvent, Sync,
       Return
  <2> QED BY <2>1, <2>2, <2>3, <2>4, <2>5, <2>6, <2>7, <2>8 DEF Step, OtherStep
<1>2. ASSUME NEW b \in Buffers, kern'[b].next # None
      PROVE  /\ kern'[b].stage = "gather" => kern'[b].size = MaxBatch
             /\ kern'[b].stage = "gathered" => progress'[b] <= kern'[b].size
  <2>1. CASE kern'[b] = kern[b]
    BY <1>2, <2>1, StepKernels DEF GivenInv
  <2>2. CASE kern'[b] # kern[b]
    <3>1. CASE LaunchGather(t)
      <4>1. claim[t].buf \in Buffers
        BY <3>1, LaunchIsFirst DEF LaunchGather
      <4> QED BY <1>2, <2>2, <3>1, <4>1 DEF LaunchGather, TypeOK
    <3>2. CASE PushWait(t)
      <4>1. pc[t] = "pushWait"
        BY <3>2 DEF PushWait
      <4>2. PICK c \in Buffers : c = claim[t].buf
        BY <4>1 DEF ClaimFits, Acquired, Claiming
      <4>3. kern' = [kern EXCEPT ![c].size = claim[t].size, ![c].next = claim[t].next]
        BY <2>2, <3>2, <4>2 DEF PushWait
      <4>4. b = c /\ kern'[c].size = claim[t].size /\ kern'[c].stage = kern[c].stage
        BY <2>2, <4>3 DEF TypeOK, KernelState
      <4>5. Launched(t)
        BY <4>1 DEF Launched, AtWork, Alone, RingInv, ThreadInv
      <4>6. ~Conservative => claim[t].size = MaxBatch
        BY <4>1 DEF GivenInv
      <4>7. Conservative => kern[c].stage = "gathered" /\ claim[t].size = progress[c]
        BY <4>1, <4>2 DEF SizesInv, SizeIsOwn
      <4>8. progress'[b] = progress[b] /\ progress[b] \in 0..MaxBatch /\ MaxBatch \in Nat
        BY StepKernels, SizesAssumption DEF TypeOK
      <4> QED BY <4>4, <4>6, <4>7, <4>8
    <3>3. UNCHANGED kern \/ LaunchGather(t) \/ PushWait(t)
      BY DEF Begin, StartSearch, Step, OtherStep, LoadHead, CheckTail, TryCommit, Pop, AwaitBuffer,
         SubmitQuery, SubmitDeadline, TakeSize, ResetSize, PushReserve, RecordEvent, Publish,
         WaitDispatch, WaitEvent, Sync, Return, bufferVars
    <3> QED BY <2>2, <3>1, <3>2, <3>3
  <2> QED BY <2>1, <2>2
<1> QED BY <1>0, <1>1, <1>2 DEF GivenInv

LEMMA GivenKernel ==
  ASSUME TypeInv, RingInv, GivenInv, NEW c \in Buffers, Kernel(c) \/ \E i \in Rows : Block(c, i)
  PROVE  GivenInv'
<1> USE DEF TypeInv
<1>1. UNCHANGED <<pc, claim>> /\ \A b \in Buffers \ {c} : kern'[b] = kern[b] /\ progress'[b] = progress[b]
  BY KernelThreads, KernelStages
<1>2. ASSUME kern'[c].next # None
      PROVE  /\ kern'[c].stage = "gather" => kern'[c].size = MaxBatch
             /\ kern'[c].stage = "gathered" => progress'[c] <= kern'[c].size
  <2>1. CASE UNCHANGED <<kern, progress>>
    BY <1>2, <2>1 DEF GivenInv
  <2>2. CASE GatherFinish(c)
    <3>1. kern[c].stage = "gather"
      BY <2>2 DEF GatherFinish, Running
    <3>2. PICK s \in Slots : s = Slot(kern[c].seq)
      BY <3>1, GatherSlot
    <3>3. /\ kern'[c].stage = "gathered" /\ kern'[c].size = kern[c].size
          /\ kern'[c].next = kern[c].next /\ progress'[c] = token[s].sc
      BY <2>2, <3>2 DEF GatherFinish, TypeOK, KernelState
    <3>4. token[s].sc <= MaxBatch
      BY SizesAssumption DEF TypeOK, Token
    <3> QED BY <1>2, <3>1, <3>3, <3>4 DEF GivenInv
  <2> QED BY <2>1, <2>2, KernelStages
<1> QED BY <1>1, <1>2 DEF GivenInv

-----------------------------------------------------------------------------
(* Where the queries are.                                                  *)

\* Threads take no query out of a batch.
LEMMA InBatchThread ==
  ASSUME TypeInv, RingInv, NEW t \in Threads, Begin(t) \/ Step(t),
         NEW b \in Buffers, NEW q, q # NoQuery, InBatch(b, q)
  PROVE  InBatch(b, q)' /\ kern'[b].seq = kern[b].seq
<1> USE DEF TypeInv
<1>1. PICK j \in Rows :
        \/ /\ kern[b].stage = "gather" /\ j < token[Slot(kern[b].seq)].sc
           /\ ptrs[b][j].query = q \/ (blk[b][j] = "done" /\ gathered[b][j] = q)
        \/ kern[b].stage = "gathered" /\ j < progress[b] /\ ptrs[b][j].out = q
  BY DEF InBatch
<1>2. kern'[b].stage = kern[b].stage /\ kern'[b].seq = kern[b].seq /\ blk'[b] = blk[b]
  <2>1. CASE LaunchGather(t)
    <3>1. claim[t].buf \in Buffers /\ kern[claim[t].buf].stage = "idle"
      BY <2>1, LaunchIsFirst DEF LaunchGather
    <3> QED BY <1>1, <2>1, <3>1 DEF LaunchGather, TypeOK
  <2> QED BY <2>1, StepKernels
<1>3. ptrs'[b][j] = ptrs[b][j]
  <2>1. CASE SubmitQuery(t)
    <3>0. PICK c, k : c = claim[t].buf /\ k = claim[t].off + claim[t].sub
      OBVIOUS
    <3>1. /\ c = claim[t].buf /\ k = claim[t].off + claim[t].sub
          /\ pc[t] = "submit" /\ claim[t].sub < claim[t].cnt
          /\ ptrs' = [ptrs EXCEPT ![c][k] = Pointers(t)]
      BY <2>1, <3>0 DEF SubmitQuery
    <3>2. pc[t] \in Claiming /\ pc[t] \in Acquired /\ At(seq[t]) = seq[t]
      BY <3>1 DEF RingInv, ThreadInv, Claiming, Acquired
    <3>3. /\ c \in Buffers /\ claim[t].off \in Nat /\ claim[t].sub \in Nat /\ claim[t].cnt \in Nat
          /\ kern[c].stage \in {"idle", "gather"} /\ (kern[c].stage = "gather" => kern[c].seq = seq[t])
      BY <3>1, <3>2, HolderRows, HolderOfGather
    <3>4. ASSUME b = c, j = k PROVE FALSE
      <4>1. Pending(t, j)
        BY <3>1, <3>3, <3>4 DEF Pending, Holding
      <4>2. kern[c].stage = "gather" /\ kern[c].seq = seq[t]
        BY <1>1, <3>3, <3>4
      <4>3. blk[c][j] # "done"
        BY <3>4, <4>1, <4>2 DEF RingInv, BlockInv
      <4>4. ptrs[c][j].query # NoQuery
        BY <1>1, <3>4, <4>2, <4>3
      <4> QED BY <3>4, <4>1, <4>2, <4>4, GatherSlot DEF RingInv, BlockInv
    <3> QED BY <3>1, <3>3, <3>4 DEF TypeOK
  <2> QED BY <2>1, StepKernels
<1>4. kern[b].stage = "gather" =>
        Slot(kern[b].seq) \in Slots
        /\ (j < token[Slot(kern[b].seq)].sc => j < token'[Slot(kern[b].seq)].sc)
  <2> SUFFICES ASSUME NEW s \in Slots, j < token[s].sc PROVE j < token'[s].sc
    BY GatherSlot
  <2>1. token[s].sc <= token'[s].sc /\ token[s].sc \in Nat /\ j \in Nat
    <3>1. token[s].sc <= token'[s].sc
      BY StepTokens
    <3>2. token[s].sc \in 0..MaxBatch
      BY DEF TypeOK, Token
    <3>3. MaxBatch \in Nat
      BY SizesAssumption
    <3> QED BY <3>1, <3>2, <3>3 DEF Rows
  <2>2. token'[s].sc \in Int
    <3>1. CASE token'[s].sc = token[s].sc
      BY <2>1, <3>1
    <3>2. CASE TryCommit(t)
      <4>1. token'[s].sc = token[s].sc \/ token'[s].sc = Committed(token[s].sc, req[t].need)
        BY <3>2 DEF TryCommit, TypeOK, Token
      <4> QED BY <2>1, <4>1, SizesAssumption DEF Committed, TypeOK, Request
    <3> QED BY <3>1, <3>2, StepTokens
  <2> QED BY <2>1, <2>2
<1>5. progress'[b] = progress[b] /\ gathered'[b] = gathered[b]
  BY StepKernels
<1> QED BY <1>1, <1>2, <1>3, <1>4, <1>5 DEF InBatch

\* A kernel passes the queries on, but for the scatter kernel.
LEMMA InBatchKernel ==
  ASSUME TypeInv, TypeInv', RingInv, AnswersInv, NEW c \in Buffers,
         Kernel(c) \/ \E i \in Rows : Block(c, i),
         NEW b \in Buffers, NEW q, q # NoQuery, InBatch(b, q), ~(b = c /\ ScatterCopy(c))
  PROVE  InBatch(b, q)' /\ kern'[b].seq = kern[b].seq
<1> USE DEF TypeInv
<1>1. PICK j \in Rows :
        \/ /\ kern[b].stage = "gather" /\ j < token[Slot(kern[b].seq)].sc
           /\ ptrs[b][j].query = q \/ (blk[b][j] = "done" /\ gathered[b][j] = q)
        \/ kern[b].stage = "gathered" /\ j < progress[b] /\ ptrs[b][j].out = q
  BY DEF InBatch
<1>2. CASE GatherFinish(c) /\ b = c
  <2>1. PICK s \in Slots : s = Slot(kern[c].seq)
    BY <1>2, GatherSlot DEF GatherFinish, Running
  <2>2. /\ kern[c].stage = "gather" /\ kern'[c].stage = "gathered" /\ kern'[c].seq = kern[c].seq
        /\ progress'[c] = token[s].sc /\ UNCHANGED <<ptrs, gathered>> /\ blk[c][j] = "done"
    BY <1>2, <2>1 DEF GatherFinish, Running, TypeOK, KernelState
  <2>3. ptrs[c][j].query = NoQuery /\ gathered[c][j] = ptrs[c][j].out
    BY <1>1, <1>2, <2>1, <2>2 DEF RingInv, BlockInv, AnswersInv, RowInv
  <2> QED BY <1>1, <1>2, <2>1, <2>2, <2>3 DEF InBatch
<1>3. CASE ~(GatherFinish(c) /\ b = c)
  <2>1. kern'[b].stage = kern[b].stage /\ kern'[b].seq = kern[b].seq /\ progress'[b] = progress[b]
    BY <1>1, <1>3, KernelStages
  <2>2. kern[b].stage = "gather" =>
          Slot(kern[b].seq) \in Slots
          /\ token'[Slot(kern[b].seq)].sc = token[Slot(kern[b].seq)].sc
    <3> SUFFICES ASSUME kern[b].stage = "gather", NEW s \in Slots, s = Slot(kern[b].seq)
                 PROVE  token'[s].sc = token[s].sc
      BY GatherSlot
    <3>1. token[s].full /\ token[s].buf = b
      BY GatherSlot
    <3> QED BY <1>3, <3>1, KernelSlots
  <2>3. CASE ptrs'[b][j] = ptrs[b][j] /\ gathered'[b][j] = gathered[b][j]
             /\ (blk[b][j] = "done" /\ kern[b].stage = "gather" => blk'[b][j] = "done")
    BY <1>1, <2>1, <2>2, <2>3 DEF InBatch
  <2>4. CASE b = c /\ GatherTake(c, j)
    <3>1. /\ kern[c].stage = "gather" /\ blk[c][j] = "poll" /\ blk'[c][j] = "done"
          /\ gathered'[c][j] = ptrs[c][j].query
      BY <2>4 DEF GatherTake, Running, TypeOK
    <3> QED BY <1>1, <2>1, <2>2, <2>4, <3>1 DEF InBatch
  <2>5. CASE b # c \/ ~GatherTake(c, j)
    <3>1. CASE \E i \in Rows : Block(c, i)
      <4>1. PICK i \in Rows : Block(c, i)
        BY <3>1
      <4>2. CASE b # c \/ i # j
        <5>1. ptrs'[b][j] = ptrs[b][j] /\ gathered'[b][j] = gathered[b][j] /\ blk'[b][j] = blk[b][j]
          BY <4>1, <4>2 DEF Block, GatherTake, GatherSkip, GatherExpire, GatherClose, TypeOK
        <5> QED BY <2>3, <5>1
      <4>3. CASE b = c /\ i = j
        <5>1. GatherSkip(c, j) \/ GatherExpire(c, j) \/ GatherClose(c, j)
          BY <2>5, <4>1, <4>3 DEF Block
        <5>2. UNCHANGED <<ptrs, gathered>> /\ blk[c][j] # "done"
          BY <5>1 DEF GatherSkip, GatherExpire, GatherClose
        <5> QED BY <1>1, <2>1, <2>2, <4>3, <5>2 DEF InBatch
      <4> QED BY <2>3, <4>2, <4>3
    <3>2. CASE GatherFinish(c)
      BY <1>3, <2>3, <3>2 DEF GatherFinish, TypeOK
    <3>3. CASE ScatterCopy(c) \/ ScatterRelease(c)
      BY <2>3, <3>3 DEF ScatterCopy, ScatterRelease
    <3> QED BY <3>1, <3>2, <3>3 DEF Kernel
  <2> QED BY <2>4, <2>5
<1> QED BY <1>2, <1>3

\* The scatter kernel answers the queries of its batch, and takes no answer back.
LEMMA ScatterAnswers ==
  ASSUME TypeInv, AnswersInv, GivenInv, NEW c \in Buffers, ScatterCopy(c),
         NEW t \in Threads, NEW i \in Rows
  PROVE  Answered(t, i) \/ InBatch(c, Query(t, req[t].num, i)) => Answered(t, i)'
<1> USE DEF TypeInv
<1> DEFINE found == {j \in 0..(progress[c] - 1) : ptrs[c][j].out = Query(t, req[t].num, i)}
<1>1. /\ out'[t][i] = IF found = {} THEN out[t][i] ELSE Found(c, CHOOSE j \in found : TRUE)
      /\ kern[c].stage = "gathered" /\ kern[c].next # None
  BY DEF ScatterCopy
<1>2. progress[c] \in 0..MaxBatch /\ MaxBatch \in Nat /\ progress[c] <= kern[c].size
      /\ kern[c].size \in Nat
  BY <1>1, SizesAssumption DEF TypeOK, GivenInv, KernelState
<1>3. ASSUME NEW j \in found PROVE Found(c, j) # NoQuery
  <2>1. j \in Rows /\ j < progress[c] /\ j < kern[c].size
    BY <1>2 DEF Rows
  <2>2. gathered[c][j] = ptrs[c][j].out
    BY <1>1, <2>1 DEF AnswersInv, RowInv
  <2> QED BY <2>1, <2>2, OwnIsQuery DEF Found
<1>4. ASSUME InBatch(c, Query(t, req[t].num, i)) PROVE found # {}
  <2>1. PICK j \in Rows : j < progress[c] /\ ptrs[c][j].out = Query(t, req[t].num, i)
    BY <1>1, <1>4 DEF InBatch
  <2>2. j \in 0..(progress[c] - 1)
    BY <1>2, <2>1 DEF Rows
  <2> QED BY <2>1, <2>2
<1> HIDE DEF found
<1> QED BY <1>1, <1>3, <1>4 DEF Answered

-----------------------------------------------------------------------------
(* Who is answered.                                                        *)

LEMMA FinishedInit == Init => \A t \in Threads : FinishedInv(t) /\ CarriedInv(t) /\ OverInv(t)
BY DEF Init, FinishedInv, CarriedInv, OverInv, NoReq, Rows, Acquired, Claiming

\* A claim is within the batch.
LEMMA ClaimInBatch ==
  ASSUME TypeInv, NEW t \in Threads, pc[t] \in Claiming
  PROVE  claim[t].off + claim[t].cnt <= MaxBatch
BY DEF TypeInv, ClaimFits

\* What a thread has handed over of its current batch is answered or in the buffer.
LEMMA HandedOn ==
  ASSUME TypeInv, RingInv, AnswersInv, NEW t \in Threads, CarriedInv(t), pc[t] \in Acquired,
         At(seq[t]) = seq[t] => kern[claim[t].buf].stage # "idle",
         NEW i \in Rows, claim[t].off <= i, i < claim[t].off + claim[t].sub
  PROVE  \/ Answered(t, req[t].total - req[t].need + i - claim[t].off)
         \/ kern[claim[t].buf].seq = seq[t] /\ InBatch(claim[t].buf, Own(t, i))
<1> USE DEF TypeInv
<1>1. pc[t] \in Claiming
  BY DEF Acquired
<1>2. CASE At(seq[t]) = seq[t]
  <2>1. kern[claim[t].buf].stage = "gather" /\ kern[claim[t].buf].seq = seq[t]
    BY <1>2, HolderOfGather
  <2>2. \/ ptrs[claim[t].buf][i].query = Own(t, i)
        \/ blk[claim[t].buf][i] = "done" /\ gathered[claim[t].buf][i] = Own(t, i)
    BY <1>2 DEF AnswersInv, HandedInv
  <2>3. i < token[Slot(seq[t])].sc
    <3>1. /\ claim[t].off \in Nat /\ claim[t].sub \in Nat /\ claim[t].cnt \in Nat
          /\ claim[t].sub <= claim[t].cnt /\ token[Slot(seq[t])].sc \in 0..MaxBatch
          /\ claim[t].off + claim[t].cnt <= token[Slot(seq[t])].sc
      BY <1>1, <1>2, HolderRows
    <3> QED BY <3>1, SizesAssumption DEF Rows
  <2> QED BY <2>1, <2>2, <2>3 DEF InBatch
<1>3. CASE At(seq[t]) # seq[t]
  <2>1. At(seq[t]) > seq[t]
    <3>1. At(seq[t]) >= seq[t] /\ seq[t] \in Nat /\ At(seq[t]) \in Nat
      BY <1>1, AtOf DEF RingInv, ThreadInv, TypeOK, Seqs
    <3> QED BY <1>3, <3>1
  <2> QED BY <2>1 DEF CarriedInv
<1> QED BY <1>2, <1>3

\* A thread's step leaves what it is done with answered, or in a batch it waits for.
LEMMA FinishedThread ==
  ASSUME TypeInv, RingInv, AnswersInv, ReadyInv, NEW t \in Threads, Begin(t) \/ Step(t),
         NEW u \in Threads
  PROVE  FinishedInv(u)'
<1> USE DEF Goto, TypeInv
<1>1. ASSUME NEW i \in Rows, i < req[u].total - req[u].need, req'[u].num = req[u].num,
             out'[u] = out[u], waits[u] \subseteq waits'[u]
      PROVE  Answered(u, i)' \/ \E b \in Buffers : /\ kern'[b].seq \in waits'[u]
                                                   /\ InBatch(b, Query(u, req[u].num, i))'
  <2>1. CASE Answered(u, i)
    BY <1>1, <2>1 DEF Answered
  <2>2. CASE ~Answered(u, i)
    <3>1. PICK b \in Buffers : /\ kern[b].seq \in waits[u]
                               /\ InBatch(b, Query(u, req[u].num, i))
      BY <1>1, <2>2 DEF ReadyInv, FinishedInv
    <3>2. PICK q : q = Query(u, req[u].num, i)
      OBVIOUS
    <3>3. q # NoQuery /\ InBatch(b, q)
      BY <3>1, <3>2, OwnIsQuery
    <3>4. InBatch(b, q)' /\ kern'[b].seq = kern[b].seq
      BY <3>3, InBatchThread
    <3>5. InBatch(b, Query(u, req[u].num, i))'
      BY <1>1, <3>2, <3>4
    <3> QED BY <1>1, <3>1, <3>4, <3>5
  <2> QED BY <2>1, <2>2
<1>2. CASE req'[u] = req[u] /\ out'[u] = out[u] /\ waits[u] \subseteq waits'[u]
  BY <1>1, <1>2 DEF FinishedInv
<1>3. CASE u # t
  BY <1>2, <1>3, OtherThreads
<1>4. CASE u = t /\ Begin(t)
  <2>1. PICK n \in Nat : req'[t].total = n /\ req'[t].need = n
    BY <1>4, RequestsAssumption, SizesAssumption DEF Begin, StartSearch, TypeOK
  <2>2. \A i \in Rows : ~(i < req'[t].total - req'[t].need)
    BY <2>1 DEF Rows
  <2> QED BY <1>4, <2>2 DEF FinishedInv
<1>5. CASE u = t /\ Sync(t)
  <2> SUFFICES ASSUME NEW i \in Rows, i < req[t].total - req[t].need PROVE Answered(t, i)
    BY <1>5 DEF FinishedInv, Sync, Answered
  <2>1. waits[t] \subseteq done
    BY <1>5 DEF Sync
  <2> SUFFICES ASSUME NEW b \in Buffers, kern[b].seq \in waits[t],
                      InBatch(b, Query(t, req[t].num, i))
               PROVE  FALSE
    BY DEF ReadyInv, FinishedInv
  <2>2. kern[b].stage # "idle"
    BY DEF InBatch
  <2> QED BY <2>1, <2>2 DEF ReadyInv, DoneInv
<1>6. CASE u = t /\ (Publish(t) \/ WaitEvent(t))
  <2>0. PICK c \in Buffers, n \in Nat : c = claim[t].buf /\ n = seq[t]
    BY <1>6, WaiterType DEF Publish, WaitEvent
  <2>1. /\ pc[t] \in {"publish", "waitEvent"} /\ waits[t] \subseteq waits'[t] /\ UNCHANGED <<kern, out>>
        /\ req' = [req EXCEPT ![t].need = @ - claim[t].cnt]
    BY <1>6 DEF Publish, WaitEvent, EndOfBatch, bufferVars, TypeOK
  <2>2. /\ req[t].total \in Nat /\ req[t].need \in Nat /\ req[t].need <= req[t].total
        /\ claim[t].off \in Nat /\ claim[t].cnt \in Nat /\ claim[t].cnt <= req[t].need
        /\ claim[t].sub = claim[t].cnt
    <3>1. claim[t].sub = claim[t].cnt
      BY <2>1 DEF RingInv, ThreadInv, Claiming, Holding
    <3> QED BY <2>1, <3>1, SizesAssumption DEF TypeOK, Request, Claim, ReqFits, ClaimFits, Claiming
  <2>3. /\ req'[t].num = req[t].num /\ req'[t].total = req[t].total
        /\ req'[t].need = req[t].need - claim[t].cnt
    BY <2>1 DEF TypeOK, Request
  <2>4. ASSUME kern[c].seq = n, kern[c].stage # "idle" PROVE n \in waits'[t]
    <3>1. CASE Publish(t)
      <4>1. n \in waits[t]
        BY <2>0, <3>1 DEF Publish, ReadyInv, EventInv, WaiterInv
      <4> QED BY <2>1, <4>1
    <3>2. CASE WaitEvent(t)
      <4>1. event[c] = n
        BY <2>0, <2>4, <3>2 DEF WaitEvent, ReadyInv, EventInv, WaiterInv
      <4>2. waits'[t] = waits[t] \union ({event[c]} \ {None}) /\ n # None
        BY <2>0, <3>2 DEF WaitEvent, TypeOK, None
      <4> QED BY <4>1, <4>2
    <3> QED BY <1>6, <3>1, <3>2
  <2>5. ASSUME NEW i \in Rows, i < req'[t].total - req'[t].need
        PROVE  Answered(t, i)' \/ \E b \in Buffers : /\ kern'[b].seq \in waits'[t]
                                                     /\ InBatch(b, Query(t, req[t].num, i))'
    <3>1. CASE i < req[t].total - req[t].need
      BY <1>1, <1>6, <2>1, <2>3, <3>1
    <3>2. CASE ~(i < req[t].total - req[t].need)
      <4>1. PICK j : j = i - (req[t].total - req[t].need) + claim[t].off
        OBVIOUS
      <4>2. /\ j \in Nat /\ claim[t].off <= j /\ j < claim[t].off + claim[t].sub
            /\ req[t].total - req[t].need + j - claim[t].off = i
        BY <2>2, <2>3, <2>5, <3>2, <4>1 DEF Rows
      <4>3. j \in Rows
        <5>1. claim[t].off + claim[t].cnt <= MaxBatch
          BY <2>1, ClaimInBatch DEF Claiming
        <5> QED BY <2>2, <4>2, <5>1, SizesAssumption DEF Rows
      <4>4. At(n) = n => kern[c].stage # "idle"
        BY <2>0, <2>1 DEF ReadyInv, EventInv, WaiterInv
      <4>5. Answered(t, i) \/ (kern[c].seq = n /\ InBatch(c, Own(t, j)))
        <5>1. CarriedInv(t) /\ pc[t] \in Acquired
          BY <2>1 DEF ReadyInv, Acquired, Claiming
        <5> QED BY <2>0, <4>2, <4>3, <4>4, <5>1, HandedOn
      <4>6. PICK q : q = Query(t, req[t].num, i)
        OBVIOUS
      <4>7. Own(t, j) = q /\ q # NoQuery
        BY <4>2, <4>6, OwnIsQuery DEF Own
      <4>8. CASE Answered(t, i)
        BY <2>1, <4>8 DEF Answered
      <4>9. CASE kern[c].seq = n /\ InBatch(c, q)
        <5>1. InBatch(c, q)' /\ kern'[c].seq = n
          BY <4>7, <4>9, InBatchThread
        <5>2. InBatch(c, Query(t, req[t].num, i))'
          BY <2>3, <4>6, <5>1
        <5>3. n \in waits'[t]
          BY <2>4, <4>9 DEF InBatch
        <5> QED BY <5>1, <5>2, <5>3
      <4> QED BY <4>5, <4>7, <4>8, <4>9
    <3> QED BY <3>1, <3>2
  <2> QED BY <1>6, <2>3, <2>5 DEF FinishedInv
<1>7. CASE u = t /\ ~Begin(t) /\ ~Sync(t) /\ ~Publish(t) /\ ~WaitEvent(t)
  <2>1. UNCHANGED <<req, out>> /\ (UNCHANGED waits \/ PushWait(t))
    BY <1>7 DEF Step, OtherStep, LoadHead, CheckTail, TryCommit, Pop, AwaitBuffer, LaunchGather,
       SubmitQuery, SubmitDeadline, TakeSize, ResetSize, PushReserve, RecordEvent, WaitDispatch,
       Return, PushWait
  <2>2. PushWait(t) => waits[t] \subseteq waits'[t]
    BY DEF PushWait, TypeOK
  <2> QED BY <1>2, <1>7, <2>1, <2>2
<1> QED BY <1>3, <1>4, <1>5, <1>6, <1>7

\* While a thread has its rows, what it has handed over stays there or is answered.
LEMMA CarriedThread ==
  ASSUME TypeInv, RingInv, ReadyInv, NEW t \in Threads, Begin(t) \/ Step(t), NEW u \in Threads
  PROVE  CarriedInv(u)'
<1> USE DEF Goto, TypeInv
<1>0. PICK n \in Nat : n = seq[u]
  BY DEF TypeOK, Seqs
<1>1. CASE /\ pc'[u] \in Acquired => pc[u] \in Acquired
           /\ seq'[u] = n /\ req'[u] = req[u] /\ out'[u] = out[u]
           /\ claim'[u].off = claim[u].off /\ claim'[u].sub = claim[u].sub
           /\ claim'[u].buf = claim[u].buf
  <2> SUFFICES ASSUME pc'[u] \in Acquired, (At(seq[u]) > seq[u])',
                      NEW i \in Rows, claim[u].off <= i, i < claim[u].off + claim[u].sub
               PROVE  \/ Answered(u, req[u].total - req[u].need + i - claim[u].off)'
                      \/ (kern[claim[u].buf].seq = seq[u] /\ InBatch(claim[u].buf, Own(u, i)))'
    BY <1>1 DEF CarriedInv
  <2>1. PICK b \in Buffers : b = claim[u].buf
    BY <1>1 DEF ClaimFits, Acquired, Claiming
  <2>2. At(n) > n /\ pc[u] \in Acquired
    <3>1. At(n)' = At(n)
      BY StepAt
    <3> QED BY <1>1, <3>1 DEF At
  <2>3. PICK q : q = Own(u, i)
    OBVIOUS
  <2>4. \/ Answered(u, req[u].total - req[u].need + i - claim[u].off)
        \/ kern[b].seq = n /\ InBatch(b, q)
    BY <1>0, <2>1, <2>2, <2>3 DEF ReadyInv, CarriedInv
  <2>5. CASE Answered(u, req[u].total - req[u].need + i - claim[u].off)
    BY <1>1, <2>5 DEF Answered
  <2>6. CASE kern[b].seq = n /\ InBatch(b, q)
    <3>1. q # NoQuery
      BY <2>3, OwnIsQuery DEF Own
    <3>2. InBatch(b, q)' /\ kern'[b].seq = n
      BY <2>6, <3>1, InBatchThread
    <3>3. Own(u, i)' = q /\ claim'[u].buf = b
      BY <1>1, <2>1, <2>3 DEF Own
    <3>4. InBatch(claim[u].buf, Own(u, i))'
      BY <3>2, <3>3 DEF InBatch
    <3> QED BY <1>1, <3>2, <3>3, <3>4
  <2> QED BY <2>4, <2>5, <2>6
<1>2. CASE u # t
  BY <1>0, <1>1, <1>2, OtherThreads
<1>3. CASE u = t /\ pc'[t] \notin Acquired
  BY <1>3 DEF CarriedInv
<1>4. CASE u = t /\ claim'[t].sub = 0 /\ claim'[t].off \in Nat
  BY <1>4 DEF CarriedInv, Rows
<1>5. CASE u = t /\ SubmitQuery(t)
  <2>1. At(n) = n /\ seq'[t] = n
    BY <1>0, <1>5 DEF SubmitQuery, RingInv, ThreadInv, Claiming
  <2>2. At(n)' = At(n)
    BY StepAt
  <2>3. ~(At(seq[t]) > seq[t])'
    BY <2>1, <2>2 DEF At
  <2> QED BY <1>5, <2>3 DEF CarriedInv
<1>6. CASE u = t /\ ~SubmitQuery(t)
  <2>0. claim[t] \in Claim /\ ThreadInv(t) /\ claim[t].off \in Nat
    BY SizesAssumption DEF TypeOK, RingInv, Claim
  <2>1. CASE Begin(t) \/ LoadHead(t) \/ CheckTail(t) \/ Publish(t) \/ WaitEvent(t) \/ Sync(t)
             \/ Return(t)
    <3>1. pc'[t] \notin Acquired
      BY <2>1 DEF Begin, StartSearch, LoadHead, CheckTail, Publish, WaitEvent, EndOfBatch, Sync, Return,
         TypeOK, Acquired, Claiming
    <3> QED BY <1>3, <1>6, <3>1
  <2>2. CASE TryCommit(t)
    <3> DEFINE tok == token[Slot(seq[t])]
               sc2 == Committed(tok.sc, req[t].need)
               c   == [off |-> tok.sc, cnt |-> sc2 - tok.sc, sub |-> 0, size |-> 0,
                       buf |-> IF Status(tok, seq[t]) = kFull THEN tok.buf ELSE None,
                       next |-> None]
    <3>1. pc'[t] \in Acquired => claim' = [claim EXCEPT ![t] = c]
      BY <2>2 DEF TryCommit, TypeOK, Acquired, Claiming
    <3>2. Slot(seq[t]) \in Slots
      BY SlotRoundType DEF TypeOK, Seqs
    <3>3. c.sub = 0 /\ c.off = tok.sc /\ tok.sc \in Nat
      BY <3>2, SizesAssumption DEF TypeOK, Token
    <3> HIDE DEF c, tok
    <3> QED BY <1>3, <1>4, <1>6, <3>1, <3>3 DEF TypeOK
  <2>3. CASE Pop(t) \/ LaunchGather(t)
    <3>1. pc'[t] \in Acquired => claim'[t].sub = 0 /\ claim'[t].off = claim[t].off
      BY <2>0, <2>3 DEF Pop, LaunchGather, ThreadInv, Holding, AfterCommit, Acquired, Claiming, TypeOK
    <3> QED BY <1>3, <1>4, <1>6, <2>0, <3>1
  <2>4. CASE AwaitBuffer(t)
    <3>1. claim'[t].sub = 0 /\ claim'[t].off = claim[t].off
      BY <2>0, <2>4 DEF AwaitBuffer, ThreadInv, Holding, TypeOK, Claim
    <3> QED BY <1>4, <1>6, <2>0, <3>1
  <2>5. CASE SubmitDeadline(t) \/ TakeSize(t) \/ ResetSize(t) \/ PushReserve(t) \/ PushWait(t)
             \/ RecordEvent(t) \/ WaitDispatch(t)
    <3>1. /\ pc[t] \in Acquired /\ UNCHANGED <<seq, req, out>>
          /\ claim'[t].off = claim[t].off /\ claim'[t].sub = claim[t].sub
          /\ claim'[t].buf = claim[t].buf
      BY <2>0, <2>5 DEF SubmitDeadline, TakeSize, ResetSize, PushReserve, PushWait, RecordEvent,
         WaitDispatch, TypeOK, Claim, Acquired, Claiming
    <3> QED BY <1>0, <1>1, <1>6, <3>1
  <2> QED BY <1>6, <2>1, <2>2, <2>3, <2>4, <2>5 DEF Step, OtherStep
<1> QED BY <1>2, <1>5, <1>6

LEMMA OverThread ==
  ASSUME TypeInv, ReadyInv, NEW t \in Threads, Begin(t) \/ Step(t), NEW u \in Threads
  PROVE  OverInv(u)'
<1> USE DEF Goto, TypeInv
<1>1. OverInv(u)
  BY DEF ReadyInv
<1>2. CASE u # t
  BY <1>1, <1>2, OtherThreads DEF OverInv
<1>3. CASE u = t /\ pc'[t] \notin {"idle", "sync", "synced"}
  BY <1>3 DEF OverInv
<1>4. CASE u = t /\ (Publish(t) \/ WaitEvent(t))
  BY <1>4 DEF Publish, WaitEvent, EndOfBatch, TypeOK, Request, Claim, OverInv
<1>5. CASE u = t /\ (Sync(t) \/ Return(t))
  BY <1>1, <1>5 DEF Sync, Return, TypeOK, OverInv
<1>6. CASE u = t /\ (Begin(t) \/ LoadHead(t) \/ CheckTail(t) \/ Pop(t) \/ AwaitBuffer(t))
  BY <1>3, <1>6 DEF Begin, StartSearch, LoadHead, CheckTail, Pop, AwaitBuffer, AfterCommit, TypeOK
<1>7. CASE u = t /\ TryCommit(t)
  BY <1>3, <1>7 DEF TryCommit, AfterCommit, TypeOK
<1>8. CASE u = t /\ (LaunchGather(t) \/ SubmitQuery(t) \/ SubmitDeadline(t) \/ TakeSize(t)
                     \/ ResetSize(t) \/ PushReserve(t) \/ PushWait(t) \/ RecordEvent(t)
                     \/ WaitDispatch(t))
  BY <1>3, <1>8 DEF LaunchGather, SubmitQuery, SubmitDeadline, TakeSize, ResetSize, PushReserve,
     PushWait, RecordEvent, WaitDispatch, TypeOK
<1> QED BY <1>2, <1>4, <1>5, <1>6, <1>7, <1>8 DEF Step, OtherStep

\* The kernels: the queries of a batch stay there until the scatter kernel answers them.
LEMMA AnsweredKernel ==
  ASSUME TypeInv, TypeInv', RingInv, AnswersInv, ReadyInv, NEW c \in Buffers,
         Kernel(c) \/ \E i \in Rows : Block(c, i), NEW t \in Threads
  PROVE  FinishedInv(t)' /\ CarriedInv(t)' /\ OverInv(t)'
<1> USE DEF TypeInv
<1>1. UNCHANGED <<pc, seq, claim, req, waits>>
  BY KernelThreads
<1>2. OverInv(t)'
  BY <1>1 DEF ReadyInv, OverInv
<1>3. ASSUME NEW i \in Rows, Answered(t, i) PROVE Answered(t, i)'
  <2>1. CASE ScatterCopy(c)
    BY <1>3, <2>1, ScatterAnswers DEF ReadyInv
  <2>2. CASE ~ScatterCopy(c)
    BY <1>3, <2>2 DEF Kernel, Block, GatherTake, GatherSkip, GatherExpire, GatherClose,
       GatherFinish, ScatterRelease, threadVars, Answered
  <2> QED BY <2>1, <2>2
<1>4. ASSUME NEW i \in Rows, NEW b \in Buffers, NEW q, q = Query(t, req[t].num, i), InBatch(b, q)
      PROVE  Answered(t, i)' \/ (InBatch(b, q)' /\ kern'[b].seq = kern[b].seq)
  <2>1. CASE b = c /\ ScatterCopy(c)
    BY <1>4, <2>1, ScatterAnswers DEF ReadyInv
  <2>2. CASE ~(b = c /\ ScatterCopy(c))
    <3>1. q # NoQuery
      BY <1>4, OwnIsQuery
    <3> QED BY <1>4, <2>2, <3>1, InBatchKernel
  <2> QED BY <2>1, <2>2
<1>5. FinishedInv(t)'
  <2> SUFFICES ASSUME NEW i \in Rows, i < req[t].total - req[t].need
               PROVE  Answered(t, i)' \/ \E b \in Buffers :
                        kern'[b].seq \in waits[t] /\ InBatch(b, Query(t, req[t].num, i))'
    BY <1>1 DEF FinishedInv
  <2>1. CASE Answered(t, i)
    BY <1>3, <2>1
  <2>2. CASE ~Answered(t, i)
    <3>0. PICK q : q = Query(t, req[t].num, i)
      OBVIOUS
    <3>1. PICK b \in Buffers : kern[b].seq \in waits[t] /\ InBatch(b, q)
      BY <2>2, <3>0 DEF ReadyInv, FinishedInv
    <3>2. Answered(t, i)' \/ (InBatch(b, q)' /\ kern'[b].seq = kern[b].seq)
      BY <1>4, <3>0, <3>1
    <3>3. InBatch(b, q)' => InBatch(b, Query(t, req[t].num, i))'
      BY <1>1, <3>0
    <3> QED BY <3>1, <3>2, <3>3
  <2> QED BY <2>1, <2>2
<1>6. CarriedInv(t)'
  <2> SUFFICES ASSUME pc[t] \in Acquired, (At(seq[t]) > seq[t])',
                      NEW j \in Rows, claim[t].off <= j, j < claim[t].off + claim[t].sub
               PROVE  \/ Answered(t, req[t].total - req[t].need + j - claim[t].off)'
                      \/ (kern[claim[t].buf].seq = seq[t] /\ InBatch(claim[t].buf, Own(t, j)))'
    BY <1>1 DEF CarriedInv
  <2>1. PICK b \in Buffers, n \in Nat, s \in Slots : b = claim[t].buf /\ n = seq[t] /\ s = Slot(n)
    BY SlotRoundType DEF ClaimFits, Acquired, Claiming, TypeOK, Seqs
  <2>2. PICK i : i = req[t].total - req[t].need + j - claim[t].off
    OBVIOUS
  <2>3. i \in Rows
    <3>1. /\ claim[t].sub <= claim[t].cnt /\ claim[t].cnt <= req[t].need
          /\ req[t].need <= req[t].total /\ req[t].total < MaxBatch
      BY DEF ClaimFits, ReqFits, Acquired, Claiming
    <3>2. MaxBatch \in Nat
      BY SizesAssumption
    <3>3. claim[t] \in Claim /\ req[t] \in Request
      BY DEF TypeOK
    <3>4. claim[t].sub \in Nat /\ claim[t].cnt \in Nat /\ claim[t].off \in Nat
      BY <3>2, <3>3 DEF Claim
    <3>5. req[t].need \in Nat /\ req[t].total \in Nat
      BY <3>2, <3>3 DEF Request
    <3>6. j \in Nat
      BY <3>2 DEF Rows
    <3> QED BY <2>2, <3>1, <3>2, <3>4, <3>5, <3>6 DEF Rows
  <2>4. PICK q : q = Own(t, j)
    OBVIOUS
  <2>5. q = Query(t, req[t].num, i)
    BY <2>2, <2>4 DEF Own
  <2>6. Batch(s)' > n
    BY <1>1, <2>1 DEF At
  <2>7. Answered(t, i) \/ (kern[b].seq = n /\ InBatch(b, q))
    <3>1. CASE Batch(s) = n
      <4>1. token[s].full /\ token[s].buf = b
        BY <2>1, <3>1, HolderRows DEF At, Acquired
      <4>2. GatherFinish(c) /\ kern[c].stage # "idle" /\ b = c
        BY <2>6, <3>1, <4>1, KernelSlots DEF GatherFinish, Running
      <4>3. CarriedInv(t)
        BY DEF ReadyInv
      <4> QED BY <2>1, <2>2, <2>4, <4>2, <4>3, HandedOn
    <3>2. CASE Batch(s) # n
      <4>1. At(n) >= n /\ At(n) \in Nat /\ At(n) = Batch(s)
        BY <2>1, AtOf DEF RingInv, ThreadInv, Acquired, At
      <4>2. At(n) > n
        BY <3>2, <4>1
      <4> QED BY <2>1, <2>2, <2>4, <4>2 DEF ReadyInv, CarriedInv
    <3> QED BY <3>1, <3>2
  <2>8. Answered(t, i)' \/ (kern'[b].seq = n /\ InBatch(b, q)')
    BY <1>3, <1>4, <2>3, <2>5, <2>7
  <2>9. Answered(t, i)' => Answered(t, req[t].total - req[t].need + j - claim[t].off)'
    BY <1>1, <2>2
  <2>10. kern'[b].seq = n /\ InBatch(b, q)' =>
           (kern[claim[t].buf].seq = seq[t] /\ InBatch(claim[t].buf, Own(t, j)))'
    <3>1. Own(t, j)' = q
      BY <1>1, <2>4 DEF Own
    <3> QED BY <1>1, <2>1, <3>1 DEF InBatch
  <2> QED BY <2>8, <2>9, <2>10
<1> QED BY <1>2, <1>5, <1>6

-----------------------------------------------------------------------------
(* The results.                                                            *)

LEMMA ReadyStep ==
  ASSUME TypeInv, TypeInv', RingInv, AnswersInv, SizesInv, ReadyInv, NoEmptyRequest,
         [TimelyNext]_vars
  PROVE  ReadyInv'
<1>1. ASSUME NEW t \in Threads, Begin(t) \/ Step(t), LaunchGather(t) => OnTime(t) PROVE ReadyInv'
  <2>1. CASE LaunchGather(t)
    BY <1>1, <2>1, DispatchedLaunch, EventLaunch, DoneLaunch, GivenThread, FinishedThread,
       CarriedThread, OverThread DEF ReadyInv
  <2>2. CASE ~LaunchGather(t)
    BY <1>1, <2>2, DispatchedThread, EventThread, DoneThread, GivenThread, FinishedThread,
       CarriedThread, OverThread DEF ReadyInv
  <2> QED BY <2>1, <2>2
<1>2. ASSUME NEW b \in Buffers, Kernel(b) \/ \E i \in Rows : Block(b, i) PROVE ReadyInv'
  BY <1>2, DispatchedKernel, EventKernel, DoneKernel, GivenKernel, AnsweredKernel DEF ReadyInv
<1>3. CASE UNCHANGED vars
  <2> USE <1>3 DEF vars, queueVars, bufferVars, threadVars
  <2>1. DispatchedInv' /\ EventInv' /\ DoneInv' /\ GivenInv'
    BY DEF ReadyInv, DispatchedInv, Dispatcher, Batch, EventInv, EventOf, WaiterInv, At, DoneInv,
       GivenInv
  <2>2. \A b \in Buffers : \A q : InBatch(b, q) => InBatch(b, q)'
    BY DEF InBatch
  <2>3. \A t \in Threads, j \in Rows : Own(t, j)' = Own(t, j)
    BY DEF Own
  <2>4. \A t \in Threads : FinishedInv(t)' /\ OverInv(t)'
    BY <2>2 DEF ReadyInv, FinishedInv, OverInv, Answered
  <2>5. \A t \in Threads : CarriedInv(t)'
    BY DEF ReadyInv, CarriedInv, Answered, At, Batch, Own, InBatch
  <2> QED BY <2>1, <2>4, <2>5 DEF ReadyInv
<1> QED BY <1>1, <1>2, <1>3, TimelySteps DEF TimelyNext, KernelsStep, Terminating

LEMMA ReadyInit == Init => ReadyInv
BY DispatchedInit, EventInit, DoneInit, GivenInit, FinishedInit DEF ReadyInv

\* Publication, completion events and answers go together as ReadyInv says.
THEOREM ReadyCorrect ==
  ASSUME NoEmptyRequest
  PROVE  TimelySpec => []ReadyInv
<1> DEFINE I == TypeInv /\ RingInv /\ AnswersInv /\ SizesInv
<1>1. TimelySpec => []I
  BY RingCorrect, AnswersCorrect, SizesCorrect, TimelyIsSpec, PTL
<1>2. I /\ I' /\ ReadyInv /\ [TimelyNext]_vars => ReadyInv'
  BY ReadyStep
<1> HIDE DEF I
<1> QED BY <1>1, <1>2, ReadyInit, PTL DEF TimelySpec

\* When the caller has synchronised with its stream, all its neighbors are there.
THEOREM ResultsAreReady ==
  ASSUME NoEmptyRequest
  PROVE  TimelySpec => []ResultsReady
<1>1. TypeInv /\ ReadyInv => ResultsReady
  <2> SUFFICES ASSUME TypeInv, ReadyInv, NEW t \in Threads, pc[t] = "synced",
                      NEW i \in 0..(req[t].total - 1)
               PROVE  out[t][i] # NoQuery
    BY DEF ResultsReady
  <2>1. req[t].need = 0 /\ waits[t] = {} /\ FinishedInv(t)
    BY DEF ReadyInv, OverInv
  <2>2. i \in Rows /\ i < req[t].total - req[t].need
    <3>1. req[t].total \in Nat /\ req[t].total < MaxBatch
      BY SizesAssumption DEF TypeInv, TypeOK, Request, ReqFits
    <3> QED BY <2>1, <3>1, SizesAssumption DEF Rows
  <2> QED BY <2>1, <2>2 DEF FinishedInv, Answered
<1>2. TimelySpec => []TypeInv
  BY RingCorrect, TimelyIsSpec, PTL
<1> QED BY <1>1, <1>2, ReadyCorrect, PTL
-----------------------------------------------------------------------------
(* What has been handed over.                                              *)

LEMMA SameQuery ==
  ASSUME NEW t, NEW r, NEW i, NEW u, NEW s, NEW j, Query(t, r, i) = Query(u, s, j)
  PROVE  t = u /\ r = s /\ i = j
BY DEF Query

\* A thread hands over no more than its request has.
LEMMA HandedType ==
  ASSUME TypeInv, FirstInv, NEW t \in Threads
  PROVE  /\ HandedOver(t) \in Nat /\ HandedOver(t) <= req[t].total
         /\ req[t].total \in Nat /\ req[t].total < MaxBatch
         /\ req[t].need \in Nat /\ claim[t].sub \in Nat
<1> USE DEF TypeInv
<1>1. MaxBatch \in Nat
  BY SizesAssumption
<1>2. req[t] \in Request /\ claim[t] \in Claim
  BY DEF TypeOK
<1>3. /\ req[t].total \in Nat /\ req[t].need \in Nat
      /\ claim[t].sub \in Nat /\ claim[t].cnt \in Nat
  BY <1>1, <1>2 DEF Request, Claim
<1>4. claim[t].sub <= req[t].need /\ req[t].need <= req[t].total /\ req[t].total < MaxBatch
  <2>1. CASE pc[t] \in Claiming
    BY <1>3, <2>1 DEF ClaimFits, ReqFits
  <2>2. CASE pc[t] \notin Claiming
    BY <1>3, <2>2 DEF FirstInv, ReqFits
  <2> QED BY <2>1, <2>2
<1> QED BY <1>3, <1>4 DEF HandedOver

\* A thread between two calls has all its answers.
LEMMA AllAnswered ==
  ASSUME TypeInv, ReadyInv, NEW t \in Threads, pc[t] \in {"idle", "synced"},
         NEW i \in Rows, i < req[t].total
  PROVE  Answered(t, i)
<1>1. req[t].need = 0 /\ waits[t] = {} /\ FinishedInv(t)
  BY DEF ReadyInv, OverInv
<1>2. req[t].total \in Nat
  BY SizesAssumption DEF TypeInv, TypeOK, Request
<1>3. i < req[t].total - req[t].need
  BY <1>1, <1>2 DEF Rows
<1> QED BY <1>1, <1>3 DEF FinishedInv

\* A step of a thread that is not its call keeps its request; it hands over a query only
\* where it sets the pointers.
LEMMA HandedThread ==
  ASSUME TypeInv, RingInv, FirstInv, NoInvalidState', NEW t \in Threads, Step(t)
  PROVE  /\ req'[t].num = req[t].num /\ req'[t].total = req[t].total /\ out'[t] = out[t]
         /\ SubmitQuery(t) => HandedOver(t)' = HandedOver(t) + 1
         /\ ~SubmitQuery(t) => HandedOver(t)' = HandedOver(t)
         /\ pc'[t] \notin Claiming => claim'[t].sub = 0
<1> USE DEF TypeInv, Goto
<1>1. /\ HandedOver(t) \in Nat /\ req[t].need \in Nat /\ claim[t].sub \in Nat
      /\ req[t].total \in Nat
  BY HandedType
<1>2. CASE SubmitQuery(t)
  <2>1. /\ req' = req /\ out' = out /\ pc' = pc /\ pc[t] = "submit"
        /\ claim'[t].sub = claim[t].sub + 1
    BY <1>2 DEF SubmitQuery, TypeOK
  <2> QED BY <1>1, <1>2, <2>1 DEF HandedOver, Claiming
<1>3. CASE TryCommit(t)
  <2>1. pc[t] \notin Claiming /\ req' = req /\ out' = out
    BY <1>3 DEF TryCommit, Claiming
  <2>2. claim[t].sub = 0 /\ claim'[t].sub = 0
    BY <1>3, <2>1 DEF TryCommit, FirstInv, TypeOK
  <2>3. ~SubmitQuery(t)
    BY <1>3 DEF TryCommit, SubmitQuery
  <2> QED BY <2>1, <2>2, <2>3 DEF HandedOver
<1>4. CASE Publish(t) \/ WaitEvent(t)
  <2>1. /\ pc[t] \in Claiming /\ pc[t] \in Claiming \ Holding /\ ~SubmitQuery(t)
        /\ EndOfBatch(t) /\ out' = out
    BY <1>4 DEF Publish, WaitEvent, Claiming, Holding, SubmitQuery
  <2>2. claim[t].sub = claim[t].cnt
    BY <2>1 DEF RingInv, ThreadInv
  <2>3. /\ req'[t].num = req[t].num /\ req'[t].total = req[t].total
        /\ req'[t].need = req[t].need - claim[t].cnt /\ claim'[t].sub = 0
    BY <2>1 DEF EndOfBatch, NoClaim, TypeOK
  <2> QED BY <1>1, <2>1, <2>2, <2>3 DEF HandedOver
<1>5. CASE ~(SubmitQuery(t) \/ TryCommit(t) \/ Publish(t) \/ WaitEvent(t))
  <2>1. req' = req /\ out' = out
    BY <1>5 DEF Step, OtherStep, LoadHead, CheckTail, Pop, AwaitBuffer, LaunchGather, SubmitDeadline, TakeSize,
       ResetSize, PushReserve, PushWait, RecordEvent, WaitDispatch, Sync, Return
  <2>2. claim'[t].sub = claim[t].sub
    <3>1. CASE LoadHead(t) \/ CheckTail(t) \/ Pop(t) \/ LaunchGather(t) \/ ResetSize(t)
      BY <3>1 DEF LoadHead, CheckTail, Pop, LaunchGather, ResetSize
    <3>2. CASE PushWait(t) \/ RecordEvent(t) \/ WaitDispatch(t) \/ Sync(t) \/ Return(t)
      BY <3>2 DEF PushWait, RecordEvent, WaitDispatch, Sync, Return
    <3>3. CASE AwaitBuffer(t)
      BY <3>3 DEF AwaitBuffer, TypeOK, Claim
    <3>4. CASE SubmitDeadline(t) \/ TakeSize(t) \/ PushReserve(t)
      BY <3>4 DEF SubmitDeadline, TakeSize, PushReserve, TypeOK, Claim
    <3> QED BY <1>5, <3>1, <3>2, <3>3, <3>4 DEF Step, OtherStep
  <2>3. pc'[t] \notin Claiming => pc[t] \notin Claiming \/ pc[t] = "await"
    <3>1. CASE LoadHead(t) \/ CheckTail(t) \/ AwaitBuffer(t) \/ Sync(t) \/ Return(t)
      BY <3>1 DEF LoadHead, CheckTail, AwaitBuffer, Sync, Return, Claiming
    <3>2. CASE Pop(t)
      BY <3>2 DEF Pop, AfterCommit, TypeOK, Claiming
    <3>3. CASE LaunchGather(t) \/ SubmitDeadline(t) \/ TakeSize(t) \/ ResetSize(t)
      BY <3>3 DEF LaunchGather, SubmitDeadline, TakeSize, ResetSize, TypeOK, Claiming
    <3>4. CASE PushReserve(t) \/ PushWait(t) \/ RecordEvent(t) \/ WaitDispatch(t)
      BY <3>4 DEF PushReserve, PushWait, RecordEvent, WaitDispatch, TypeOK, Claiming,
        NoInvalidState
    <3> QED BY <1>5, <3>1, <3>2, <3>3, <3>4 DEF Step, OtherStep
  <2>4. pc[t] = "await" => claim[t].sub = 0
    BY DEF RingInv, ThreadInv, Holding
  <2> QED BY <1>5, <2>1, <2>2, <2>3, <2>4 DEF HandedOver, FirstInv
<1> QED BY <1>2, <1>3, <1>4, <1>5

-----------------------------------------------------------------------------
(* What is live.                                                           *)

\* A row whose block has left the gather kernel is committed already, or never.
LEMMA LeftIsSettled ==
  ASSUME TypeInv, RingInv, NEW t \in Threads, Begin(t) \/ Step(t),
         NEW b \in Buffers, NEW j \in Rows, kern[b].stage = "gather", blk[b][j] = "done",
         j < token'[Slot(kern[b].seq)].sc
  PROVE  j < token[Slot(kern[b].seq)].sc
<1>1. PICK s \in Slots : s = Slot(kern[b].seq)
  BY GatherSlot
<1>2. CASE token'[s].sc = token[s].sc
  BY <1>1, <1>2
<1>3. CASE token'[s].sc # token[s].sc
  <2>1. TryCommit(t) /\ s = Slot(seq[t])
    BY <1>3, StepTokens
  <2>2. ~token[s].closed
    BY <1>3, <2>1 DEF TryCommit, Uncommittable
  <2>3. token[s].sc \in 0..MaxBatch /\ MaxBatch \in Nat
    BY SizesAssumption DEF TypeInv, TypeOK, Token
  <2>4. ~(token[s].sc <= j)
    BY <1>1, <2>2 DEF RingInv, BlockInv
  <2> QED BY <1>1, <2>3, <2>4 DEF Rows
<1> QED BY <1>2, <1>3

\* The row that a thread hands over next.
NextRow(t, b, j) == b = claim[t].buf /\ j = claim[t].off + claim[t].sub

\* A thread makes a row live only by handing it over.
LEMMA LiveThread ==
  ASSUME TypeInv, RingInv, NEW t \in Threads, Begin(t) \/ Step(t),
         NEW b \in Buffers, NEW j \in Rows, Live(b, j)', ~(SubmitQuery(t) /\ NextRow(t, b, j))
  PROVE  Live(b, j) /\ ptrs'[b][j] = ptrs[b][j]
<1> USE DEF TypeInv
<1>1. ptrs'[b][j] = ptrs[b][j]
  <2>1. CASE SubmitQuery(t)
    <3>1. /\ ~NextRow(t, b, j)
          /\ ptrs' = [ptrs EXCEPT ![claim[t].buf][claim[t].off + claim[t].sub] = Pointers(t)]
      BY <2>1 DEF SubmitQuery
    <3> QED BY <3>1 DEF NextRow, TypeOK
  <2> QED BY <2>1, StepKernels
<1>2. CASE LaunchGather(t)
  <2>1. /\ progress' = progress /\ token' = token
        /\ \/ kern'[b] = kern[b] /\ blk'[b] = blk[b]
           \/ kern'[b].stage = "gather" /\ blk'[b][j] = "poll"
    BY <1>2 DEF LaunchGather, TypeOK
  <2> QED BY <1>1, <2>1 DEF Live
<1>3. CASE ~LaunchGather(t)
  <2>1. /\ blk' = blk /\ progress' = progress
        /\ kern'[b].stage = kern[b].stage /\ kern'[b].seq = kern[b].seq
    BY <1>3, StepKernels
  <2> QED BY <1>1, <2>1, LeftIsSettled DEF Live
<1> QED BY <1>1, <1>2, <1>3

\* The kernels make no row live, and the scatter kernel leaves none in its buffer.
LEMMA LiveKernel ==
  ASSUME TypeInv, TypeInv', RingInv, NEW c \in Buffers, Kernel(c) \/ \E i \in Rows : Block(c, i),
         NEW b \in Buffers, NEW j \in Rows, Live(b, j)'
  PROVE  Live(b, j) /\ ptrs'[b][j].out = ptrs[b][j].out /\ ~(b = c /\ ScatterCopy(c))
<1> USE DEF TypeInv
<1>1. ptrs'[b][j].out = ptrs[b][j].out /\ (ptrs'[b][j].query # NoQuery => ptrs[b][j].query # NoQuery)
  <2>1. CASE \E i \in Rows : GatherTake(c, i)
    BY <2>1 DEF GatherTake, TypeOK, Pointer
  <2>2. CASE ~ \E i \in Rows : GatherTake(c, i)
    BY <2>2 DEF Kernel, Block, GatherSkip, GatherExpire, GatherClose, GatherFinish, ScatterCopy,
       ScatterRelease
  <2> QED BY <2>1, <2>2
<1>2. CASE b # c
  <2>1. kern'[b] = kern[b] /\ progress'[b] = progress[b]
    BY <1>2, KernelStages
  <2>2. blk'[b] = blk[b]
    BY <1>2 DEF Kernel, Block, GatherTake, GatherSkip, GatherExpire, GatherClose, GatherFinish,
       ScatterCopy, ScatterRelease, TypeOK
  <2>3. kern[b].stage = "gather" =>
          token'[Slot(kern[b].seq)].sc = token[Slot(kern[b].seq)].sc
    BY <1>2, GatherSlot, KernelSlots
  <2> QED BY <1>1, <1>2, <2>1, <2>2, <2>3 DEF Live
<1>3. CASE b = c /\ \E i \in Rows : Block(c, i)
  <2>1. PICK i \in Rows : Block(c, i)
    BY <1>3
  <2>2. kern'[b] = kern[b] /\ progress'[b] = progress[b] /\ kern[b].stage = "gather"
    BY <1>3, <2>1 DEF Block, GatherTake, GatherSkip, GatherExpire, GatherClose, Running
  <2>3. PICK s \in Slots : s = Slot(kern[b].seq)
    BY <2>2, GatherSlot
  <2>4. token'[s].sc = token[s].sc
    <3>1. ~GatherFinish(c)
      BY <1>3, <2>2 DEF GatherFinish, TypeOK, KernelState
    <3> QED BY <1>3, <2>3, <3>1, KernelSlots
  <2>5. ASSUME blk'[b][j] = "done", blk[b][j] # "done", ptrs'[b][j].query = NoQuery,
               j < token[s].sc
        PROVE  ptrs[b][j].query # NoQuery
    <3>1. CASE GatherTake(c, i)
      BY <1>3, <2>5, <3>1 DEF GatherTake, TypeOK
    <3>2. CASE GatherSkip(c, i) \/ GatherExpire(c, i)
      <4>1. i = j => token[s].sc <= j
        BY <1>3, <2>3, <3>2 DEF GatherSkip, GatherExpire, GatherToken
      <4>2. i = j
        BY <1>3, <2>5, <3>2 DEF GatherSkip, GatherExpire, TypeOK
      <4>3. token[s].sc \in 0..MaxBatch /\ MaxBatch \in Nat
        BY SizesAssumption DEF TypeOK, Token
      <4> QED BY <2>5, <4>1, <4>2, <4>3 DEF Rows
    <3>3. CASE GatherClose(c, i)
      <4>1. i = j /\ blk'[c][i] = AfterClose(token[s].sc, i)
        BY <1>3, <2>3, <2>5, <3>3 DEF GatherClose, TypeOK
      <4> QED BY <1>3, <2>5, <4>1 DEF AfterClose
    <3> QED BY <2>1, <3>1, <3>2, <3>3 DEF Block
  <2>6. blk[b][j] = "done" \/ ptrs[b][j].query # NoQuery \/ ~(j < token[s].sc) \/ blk'[b][j] # "done"
    BY <1>1, <2>5
  <2>7. ~ScatterCopy(c)
    BY <1>3, <2>2 DEF ScatterCopy
  <2> QED BY <1>1, <2>2, <2>3, <2>4, <2>6, <2>7 DEF Live
<1>4. CASE b = c /\ GatherFinish(c)
  <2>1. PICK s \in Slots : s = Slot(kern[b].seq)
    BY <1>4, GatherSlot DEF GatherFinish, Running
  <2>2. /\ kern[b].stage = "gather" /\ blk[b][j] = "done" /\ ptrs' = ptrs
        /\ kern'[b].stage = "gathered" /\ progress'[b] = token[s].sc
    BY <1>4, <2>1 DEF GatherFinish, Running, TypeOK
  <2>3. ~ScatterCopy(c)
    BY <1>4, <2>2 DEF ScatterCopy
  <2> QED BY <2>1, <2>2, <2>3 DEF Live
<1>5. CASE b = c /\ (ScatterCopy(c) \/ ScatterRelease(c))
  <2>1. kern[b].stage \in {"gathered", "copied"} /\ kern'[b].stage \in {"copied", "idle"}
    BY <1>5, KernelStages DEF ScatterCopy, ScatterRelease, Block, GatherTake, GatherSkip,
       GatherExpire, GatherClose, Running
  <2>2. ptrs[b][j].query # NoQuery
    BY <1>1, <2>1 DEF Live
  <2> QED BY <2>1, <2>2 DEF RingInv, BlockInv
<1> QED BY <1>2, <1>3, <1>4, <1>5 DEF Kernel

-----------------------------------------------------------------------------
(* LiveInv is inductive.                                                   *)

LEMMA LiveInit == Init => LiveInv
<1> SUFFICES ASSUME Init PROVE LiveInv
  OBVIOUS
<1>1. \A b \in Buffers, j \in Rows : ~Live(b, j)
  BY DEF Init, Live, NoPtrs, IdleKernel
<1>2. FirstInv
  BY DEF Init, FirstInv, Answered, NoClaim
<1> QED BY <1>1, <1>2 DEF LiveInv, OpenInv, DistinctInv

\* An open query stays open while threads take steps, unless its thread begins a new request,
\* and then it has none.
LEMMA OpenThread ==
  ASSUME TypeInv, RingInv, ReadyInv, FirstInv, NoInvalidState', NEW t \in Threads,
         Begin(t) \/ Step(t), NEW q, Open(q)
  PROVE  Open(q)'
<1>1. PICK u \in Threads, i \in Rows :
        q = Query(u, req[u].num, i) /\ i < HandedOver(u) /\ ~Answered(u, i)
  BY DEF Open
<1>2. /\ HandedOver(u) \in Nat /\ HandedOver(u) <= req[u].total /\ req[u].total \in Nat
      /\ i \in Nat
  BY HandedType, SizesAssumption DEF Rows
<1>3. CASE u # t
  <2>1. req'[u] = req[u] /\ claim'[u] = claim[u] /\ out'[u] = out[u]
    BY <1>3, OtherThreads DEF TypeInv
  <2> QED BY <1>1, <2>1 DEF Open, HandedOver, Answered
<1>4. CASE u = t /\ Begin(t)
  <2>1. pc[t] = "idle"
    BY <1>4 DEF Begin, StartSearch
  <2> QED BY <1>1, <1>2, <1>4, <2>1, AllAnswered
<1>5. CASE u = t /\ Step(t)
  <2>1. /\ req'[t].num = req[t].num /\ out'[t] = out[t]
        /\ HandedOver(t)' = HandedOver(t) + 1 \/ HandedOver(t)' = HandedOver(t)
    BY <1>5, HandedThread
  <2>2. i < HandedOver(t)'
    BY <1>1, <1>2, <1>5, <2>1
  <2> QED BY <1>1, <1>5, <2>1, <2>2 DEF Open, Answered
<1> QED BY <1>3, <1>4, <1>5

\* The query whose pointers a thread sets is not open before, and is then.
LEMMA OpenNext ==
  ASSUME TypeInv, RingInv, FirstInv, NEW t \in Threads, SubmitQuery(t),
         NEW b \in Buffers, NEW j \in Rows, NextRow(t, b, j), NEW q, q = ptrs'[b][j].out
  PROVE  ~Open(q) /\ Open(q)'
<1> USE DEF TypeInv
<1>1. PICK i : i = HandedOver(t)
  OBVIOUS
<1>2. /\ i \in Nat /\ req[t].total \in Nat /\ req[t].total < MaxBatch /\ req[t].need \in Nat
      /\ claim[t].sub \in Nat /\ MaxBatch \in Nat /\ claim[t].cnt \in Nat
  BY <1>1, HandedType, SizesAssumption DEF TypeOK, Claim
<1>3. pc[t] = "submit" /\ claim[t].sub < claim[t].cnt
  BY DEF SubmitQuery
<1>4. claim[t].cnt <= req[t].need /\ req[t].need <= req[t].total
  BY <1>3 DEF ClaimFits, ReqFits, Claiming
<1>5. i \in Rows
  BY <1>1, <1>2, <1>3, <1>4 DEF HandedOver, Rows
<1>6. /\ ptrs' = [ptrs EXCEPT ![b][j] = Pointers(t)] /\ req' = req /\ out' = out
      /\ claim'[t].sub = claim[t].sub + 1
  BY DEF SubmitQuery, NextRow, TypeOK
<1>7. q = Query(t, req[t].num, i)
  <2>1. ptrs'[b][j] = Pointers(t)
    BY <1>6 DEF TypeOK
  <2> QED BY <1>1, <2>1 DEF Pointers, HandedOver
<1>8. ~Open(q)
  <2> SUFFICES ASSUME Open(q) PROVE FALSE
    OBVIOUS
  <2>1. PICK u \in Threads, k \in Rows : q = Query(u, req[u].num, k) /\ k < HandedOver(u)
    BY DEF Open
  <2>2. u = t /\ k = i
    BY <1>7, <2>1 DEF Query
  <2> QED BY <1>1, <1>2, <2>1, <2>2
<1>9. ~Answered(t, i)'
  BY <1>1, <1>2, <1>5, <1>6 DEF FirstInv, Answered
<1>10. HandedOver(t)' = i + 1
  BY <1>1, <1>2, <1>6 DEF HandedOver
<1>11. Open(q)'
  <2>1. req'[t].num = req[t].num /\ i < HandedOver(t)'
    BY <1>2, <1>6, <1>10
  <2> QED BY <1>5, <1>7, <1>9, <2>1 DEF Open
<1> QED BY <1>8, <1>11

\* The steps of the threads.
LEMMA LiveOfThread ==
  ASSUME TypeInv, RingInv, ReadyInv, LiveInv, NoInvalidState', NEW t \in Threads,
         Begin(t) \/ Step(t)
  PROVE  LiveInv'
<1> USE DEF LiveInv
<1>1. OpenInv'
  <2> SUFFICES ASSUME NEW b \in Buffers, NEW j \in Rows, Live(b, j)'
               PROVE  Open(ptrs[b][j].out)'
    BY DEF OpenInv
  <2>1. PICK q : q = ptrs'[b][j].out
    OBVIOUS
  <2>2. Open(q)'
    <3>1. CASE SubmitQuery(t) /\ NextRow(t, b, j)
      BY <2>1, <3>1, OpenNext
    <3>2. CASE ~(SubmitQuery(t) /\ NextRow(t, b, j))
      <4>1. Live(b, j) /\ ptrs[b][j].out = q
        BY <2>1, <3>2, LiveThread
      <4>2. Open(q)
        BY <4>1 DEF OpenInv
      <4> QED BY <4>2, OpenThread
    <3> QED BY <3>1, <3>2
  <2> QED BY <2>1, <2>2 DEF Open
<1>2. DistinctInv'
  <2> SUFFICES ASSUME NEW b \in Buffers, NEW c \in Buffers, NEW j \in Rows, NEW k \in Rows,
                      Live(b, j)', Live(c, k)', ptrs'[b][j].out = ptrs'[c][k].out
               PROVE  b = c /\ j = k
    BY DEF DistinctInv
  <2>1. PICK q : q = ptrs'[b][j].out
    OBVIOUS
  <2>2. \/ SubmitQuery(t) /\ NextRow(t, b, j) /\ ~Open(q)
        \/ Live(b, j) /\ ptrs[b][j].out = q /\ Open(q)
    BY <2>1, LiveThread, OpenNext DEF OpenInv
  <2>3. \/ SubmitQuery(t) /\ NextRow(t, c, k) /\ ~Open(q)
        \/ Live(c, k) /\ ptrs[c][k].out = q /\ Open(q)
    BY <2>1, LiveThread, OpenNext DEF OpenInv
  <2> QED BY <2>2, <2>3 DEF NextRow, DistinctInv
<1>3. FirstInv'
  <2> SUFFICES ASSUME NEW u \in Threads
               PROVE  /\ \A i \in Rows : i >= HandedOver(u)' => ~Answered(u, i)'
                      /\ pc'[u] \notin Claiming => claim'[u].sub = 0
    BY DEF FirstInv
  <2>1. CASE u # t
    <3>1. /\ req'[u] = req[u] /\ claim'[u] = claim[u] /\ out'[u] = out[u] /\ pc'[u] = pc[u]
      BY <2>1, OtherThreads DEF TypeInv
    <3> QED BY <3>1 DEF HandedOver, Answered, FirstInv
  <2>2. CASE u = t /\ Begin(t)
    <3>1. pc[t] = "idle" /\ claim' = claim /\ \A i \in Rows : out'[t][i] = NoQuery
      BY <2>2 DEF Begin, StartSearch, TypeInv, TypeOK
    <3>2. claim[t].sub = 0
      BY <3>1 DEF FirstInv, Claiming
    <3> QED BY <2>2, <3>1, <3>2 DEF Answered
  <2>3. CASE u = t /\ Step(t)
    <3>1. /\ out'[t] = out[t] /\ (pc'[t] \notin Claiming => claim'[t].sub = 0)
          /\ HandedOver(t)' = HandedOver(t) + 1 \/ HandedOver(t)' = HandedOver(t)
      BY <2>3, HandedThread
    <3>2. HandedOver(t) \in Nat /\ \A i \in Rows : i \in Nat
      BY HandedType, SizesAssumption DEF Rows
    <3>3. \A i \in Rows : i >= HandedOver(t)' => i >= HandedOver(t)
      BY <3>1, <3>2
    <3> QED BY <2>3, <3>1, <3>3 DEF FirstInv, Answered
  <2> QED BY <2>1, <2>2, <2>3
<1> QED BY <1>1, <1>2, <1>3

\* A kernel other than a scatter kernel answers nothing.
LEMMA KernelAnswers ==
  ASSUME TypeInv, NEW c \in Buffers, Kernel(c) \/ \E i \in Rows : Block(c, i)
  PROVE  out' = out \/ ScatterCopy(c)
BY DEF Kernel, Block, threadVars, GatherFinish, ScatterRelease, GatherTake, GatherSkip,
   GatherExpire, GatherClose

\* The scatter kernel answers the queries of its rows, which are open, each with its own
\* neighbors.
LEMMA ScatterOpen ==
  ASSUME TypeInv, AnswersInv, GivenInv, OpenInv, NEW c \in Buffers, ScatterCopy(c),
         NEW t \in Threads, NEW i \in Rows
  PROVE  \/ out'[t][i] = out[t][i]
         \/ /\ out'[t][i] = Query(t, req[t].num, i) /\ ~Answered(t, i) /\ i < HandedOver(t)
            /\ \E j \in Rows : Live(c, j) /\ ptrs[c][j].out = Query(t, req[t].num, i)
<1> USE DEF TypeInv
<1> DEFINE found == {j \in 0..(progress[c] - 1) : ptrs[c][j].out = Query(t, req[t].num, i)}
<1>1. /\ out'[t][i] = IF found = {} THEN out[t][i] ELSE Found(c, CHOOSE j \in found : TRUE)
      /\ kern[c].stage = "gathered" /\ kern[c].next # None
  BY DEF ScatterCopy
<1>2. /\ progress[c] \in 0..MaxBatch /\ MaxBatch \in Nat /\ progress[c] <= kern[c].size
      /\ kern[c].size \in Nat
  BY <1>1, SizesAssumption DEF TypeOK, GivenInv, KernelState
<1>3. SUFFICES ASSUME found # {}
               PROVE  /\ out'[t][i] = Query(t, req[t].num, i) /\ ~Answered(t, i)
                      /\ i < HandedOver(t)
                      /\ \E j \in Rows : Live(c, j) /\ ptrs[c][j].out = Query(t, req[t].num, i)
  BY <1>1
<1>4. PICK j : j = CHOOSE k \in found : TRUE
  OBVIOUS
<1>5. j \in found
  BY <1>3, <1>4
<1>6. j \in Rows /\ j < progress[c] /\ j < kern[c].size
  BY <1>2, <1>5 DEF Rows
<1>7. gathered[c][j] = ptrs[c][j].out /\ Live(c, j)
  BY <1>1, <1>6 DEF AnswersInv, RowInv, Live
<1>8. ptrs[c][j].out = Query(t, req[t].num, i)
  BY <1>5
<1>9. out'[t][i] = Query(t, req[t].num, i)
  BY <1>1, <1>3, <1>4, <1>6, <1>7, <1>8 DEF Found
<1>10. PICK u \in Threads, k \in Rows :
         /\ ptrs[c][j].out = Query(u, req[u].num, k) /\ k < HandedOver(u) /\ ~Answered(u, k)
  BY <1>6, <1>7 DEF OpenInv, Open
<1>11. u = t /\ k = i
  BY <1>8, <1>10 DEF Query
<1> QED BY <1>6, <1>7, <1>8, <1>9, <1>10, <1>11

\* The steps of the kernels: what a scatter kernel answers is live nowhere else.
LEMMA LiveOfKernel ==
  ASSUME TypeInv, TypeInv', RingInv, AnswersInv, GivenInv, LiveInv, NEW c \in Buffers,
         Kernel(c) \/ \E i \in Rows : Block(c, i)
  PROVE  LiveInv'
<1> USE DEF LiveInv
<1>1. req' = req /\ claim' = claim /\ pc' = pc
  BY KernelThreads
<1>2. \A t \in Threads : HandedOver(t)' = HandedOver(t)
  BY <1>1 DEF HandedOver
<1>3. OpenInv'
  <2> SUFFICES ASSUME NEW b \in Buffers, NEW j \in Rows, Live(b, j)'
               PROVE  Open(ptrs[b][j].out)'
    BY DEF OpenInv
  <2>1. PICK q : q = ptrs'[b][j].out
    OBVIOUS
  <2>2. Live(b, j) /\ ptrs[b][j].out = q /\ ~(b = c /\ ScatterCopy(c))
    BY <2>1, LiveKernel
  <2>3. PICK t \in Threads, i \in Rows :
          q = Query(t, req[t].num, i) /\ i < HandedOver(t) /\ ~Answered(t, i)
    BY <2>2 DEF OpenInv, Open
  <2>4. ~Answered(t, i)'
    <3>1. CASE out' = out
      BY <2>3, <3>1 DEF Answered
    <3>2. CASE ScatterCopy(c)
      <4>1. ~ \E k \in Rows : Live(c, k) /\ ptrs[c][k].out = Query(t, req[t].num, i)
        BY <2>2, <2>3, <3>2 DEF DistinctInv
      <4>2. out'[t][i] = out[t][i]
        BY <3>2, <4>1, ScatterOpen
      <4> QED BY <2>3, <4>2 DEF Answered
    <3> QED BY <3>1, <3>2, KernelAnswers
  <2> QED BY <1>1, <1>2, <2>1, <2>3, <2>4 DEF Open
<1>4. DistinctInv'
  <2> SUFFICES ASSUME NEW b \in Buffers, NEW d \in Buffers, NEW j \in Rows, NEW k \in Rows,
                      Live(b, j)', Live(d, k)', ptrs'[b][j].out = ptrs'[d][k].out
               PROVE  b = d /\ j = k
    BY DEF DistinctInv
  <2>1. Live(b, j) /\ ptrs[b][j].out = ptrs'[b][j].out
    BY LiveKernel
  <2>2. Live(d, k) /\ ptrs[d][k].out = ptrs'[d][k].out
    BY LiveKernel
  <2> QED BY <2>1, <2>2 DEF DistinctInv
<1>5. FirstInv'
  <2> SUFFICES ASSUME NEW t \in Threads, NEW i \in Rows, i >= HandedOver(t)
               PROVE  ~Answered(t, i)'
    BY <1>1, <1>2 DEF FirstInv
  <2>1. ~Answered(t, i)
    BY DEF FirstInv
  <2>2. ~(i < HandedOver(t))
    BY HandedType, SizesAssumption DEF Rows
  <2>3. out'[t][i] = out[t][i]
    BY <2>2, KernelAnswers, ScatterOpen
  <2> QED BY <2>1, <2>3 DEF Answered
<1> QED BY <1>3, <1>4, <1>5

LEMMA LiveStep ==
  ASSUME TypeInv, TypeInv', RingInv, AnswersInv, ReadyInv, NoInvalidState', LiveInv, [Next]_vars
  PROVE  LiveInv'
<1>1. ASSUME NEW t \in Threads, Begin(t) \/ Step(t) PROVE LiveInv'
  BY <1>1, LiveOfThread
<1>2. ASSUME NEW b \in Buffers, Kernel(b) \/ \E i \in Rows : Block(b, i) PROVE LiveInv'
  BY <1>2, LiveOfKernel DEF ReadyInv
<1>3. CASE UNCHANGED vars
  <2> USE <1>3 DEF vars, queueVars, bufferVars, threadVars
  <2>1. OpenInv'
    BY DEF LiveInv, OpenInv, Live, Open, HandedOver, Answered
  <2>2. DistinctInv'
    BY DEF LiveInv, DistinctInv, Live
  <2>3. FirstInv'
    BY DEF LiveInv, FirstInv, HandedOver, Answered
  <2> QED BY <2>1, <2>2, <2>3 DEF LiveInv
<1> QED BY <1>1, <1>2, <1>3 DEF Next, KernelsStep, Terminating

\* What is live is open, and no query is live twice: an invariant of the specification.
THEOREM LiveCorrect ==
  ASSUME NoEmptyRequest
  PROVE  TimelySpec => []LiveInv
<1> DEFINE I == TypeInv /\ RingInv /\ AnswersInv /\ ReadyInv /\ NoInvalidState
<1>1. TimelySpec => []I
  BY RingCorrect, AnswersCorrect, ReadyCorrect, NeverInvalid, TimelyIsSpec, PTL
<1>2. I /\ I' /\ LiveInv /\ [Next]_vars => LiveInv'
  BY LiveStep
<1> HIDE DEF I
<1>3. TimelySpec => Init /\ [][Next]_vars
  BY TimelyIsSpec DEF Spec
<1> QED BY <1>1, <1>2, <1>3, LiveInit, PTL

-----------------------------------------------------------------------------
(* Every step of DynamicBatching is a step of SearchService, or none.       *)

\* The initial states of the index are initial states of the service.
LEMMA ServiceInit == Init => Service!Init
BY DEF Init, Service!Init, NoReq, NoQuery, Service!NoQuery

\* The call of a thread.
LEMMA ServiceCall ==
  ASSUME TypeInv, NEW t \in Threads, NEW n \in ReqSizes, StartSearch(t, n)
  PROVE  Service!Call(t, n)
<1> USE DEF TypeInv, Goto, StartSearch
<1>1. {u \in Threads : pc'[u] # "idle"} = {u \in Threads : pc[u] # "idle"} \union {t}
  BY DEF TypeOK
<1>2. [u \in Threads |-> req'[u].num] =
        [[u \in Threads |-> req[u].num] EXCEPT ![t] = req[t].num + 1]
  BY DEF TypeOK
<1>3. [u \in Threads |-> req'[u].total] = [[u \in Threads |-> req[u].total] EXCEPT ![t] = n]
  BY DEF TypeOK
<1>4. out' = [out EXCEPT ![t] = [i \in Rows |-> Service!NoQuery]]
  BY DEF NoQuery, Service!NoQuery
<1> QED BY <1>1, <1>2, <1>3, <1>4 DEF Service!Call

\* The return of a thread that has all its answers.
LEMMA ServiceReturn ==
  ASSUME TypeInv, ReadyInv, NEW t \in Threads, Return(t)
  PROVE  Service!Return(t)
<1> USE DEF TypeInv
<1>1. pc[t] = "synced" /\ pc' = [pc EXCEPT ![t] = "idle"] /\ req' = req /\ out' = out
  BY DEF Return, Goto
<1>2. {u \in Threads : pc'[u] # "idle"} = {u \in Threads : pc[u] # "idle"} \ {t}
  BY <1>1 DEF TypeOK
<1>3. Service!Unanswered(t) = {}
  BY <1>1, AllAnswered DEF Service!Unanswered, Answered, NoQuery, Service!NoQuery
<1> QED BY <1>1, <1>2, <1>3 DEF Service!Return

\* The scatter kernel: the queries it answers are unanswered queries of calls in progress.
LEMMA ServiceAnswer ==
  ASSUME TypeInv, AnswersInv, ReadyInv, LiveInv, NEW c \in Buffers, ScatterCopy(c)
  PROVE  Service!AnswerSome
<1> USE DEF TypeInv
<1> DEFINE batch == [t \in Threads |-> {i \in Rows : out'[t][i] # out[t][i]}]
<1>1. batch \in [Threads -> SUBSET Rows]
  OBVIOUS
<1>2. pc' = pc /\ req' = req
  BY DEF ScatterCopy
<1>3. ASSUME NEW t \in Threads, NEW i \in batch[t]
      PROVE  /\ i \in Rows /\ out'[t][i] = Query(t, req[t].num, i)
             /\ out[t][i] = NoQuery /\ i < req[t].total /\ pc[t] # "idle"
  <2>1. i \in Rows /\ out'[t][i] # out[t][i]
    OBVIOUS
  <2>2. out'[t][i] = Query(t, req[t].num, i) /\ ~Answered(t, i) /\ i < HandedOver(t)
    BY <2>1, ScatterOpen DEF LiveInv, ReadyInv
  <2>3. i < req[t].total
    <3>1. /\ HandedOver(t) \in Nat /\ HandedOver(t) <= req[t].total /\ req[t].total \in Nat
      BY HandedType DEF LiveInv
    <3>2. i \in Nat
      BY <2>1, SizesAssumption DEF Rows
    <3> QED BY <2>2, <3>1, <3>2
  <2>4. pc[t] # "idle"
    BY <2>1, <2>2, <2>3, AllAnswered
  <2> QED BY <2>1, <2>2, <2>3, <2>4 DEF Answered
<1>4. out' = [t \in Threads |-> [i \in Rows |->
                IF i \in batch[t] THEN <<t, req[t].num, i>> ELSE out[t][i]]]
  <2>1. \A t \in Threads, i \in Rows :
          out'[t][i] = IF i \in batch[t] THEN <<t, req[t].num, i>> ELSE out[t][i]
    BY <1>3 DEF Query
  <2>2. PICK f : out' = [t \in Threads |-> [i \in Rows |-> f[t][i]]]
    <3>1. out' = [t \in Threads |-> [i \in Rows |-> out'[t][i]]]
      BY DEF ScatterCopy
    <3> QED BY <3>1
  <2> HIDE DEF batch
  <2>3. \A t \in Threads : out'[t] = [i \in Rows |->
                IF i \in batch[t] THEN <<t, req[t].num, i>> ELSE out[t][i]]
    BY <2>1, <2>2
  <2> QED BY <2>2, <2>3
<1> HIDE DEF batch
<1>5. \A t \in Threads : batch[t] \subseteq Service!Unanswered(t)
  BY <1>3 DEF Service!Unanswered, NoQuery, Service!NoQuery
<1>6. \A t \in Threads : batch[t] # {} => t \in {u \in Threads : pc[u] # "idle"}
  BY <1>3
<1>7. Service!Answer(batch)
  BY <1>2, <1>4, <1>5, <1>6 DEF Service!Answer
<1> QED BY <1>1, <1>7 DEF Service!AnswerSome

\* A thread leaves "idle" by its call, and gets there by its return.
LEMMA StepIsInside ==
  ASSUME TypeInv, NEW t \in Threads, Step(t), ~Return(t)
  PROVE  pc[t] # "idle" /\ pc'[t] # "idle"
<1> USE DEF TypeInv, TypeOK, Goto
<1>1. CASE LoadHead(t) \/ CheckTail(t) \/ AwaitBuffer(t) \/ Pop(t)
  BY <1>1 DEF LoadHead, CheckTail, AwaitBuffer, Pop, AfterCommit
<1>2. CASE TryCommit(t)
  BY <1>2 DEF TryCommit, AfterCommit
<1>3. CASE LaunchGather(t) \/ SubmitQuery(t) \/ SubmitDeadline(t) \/ TakeSize(t) \/ ResetSize(t)
  BY <1>3 DEF LaunchGather, SubmitQuery, SubmitDeadline, TakeSize, ResetSize
<1>4. CASE PushReserve(t) \/ PushWait(t) \/ RecordEvent(t) \/ Publish(t)
  BY <1>4 DEF PushReserve, PushWait, RecordEvent, Publish, EndOfBatch
<1>5. CASE WaitDispatch(t) \/ WaitEvent(t) \/ Sync(t)
  BY <1>5 DEF WaitDispatch, WaitEvent, EndOfBatch, Sync
<1> QED BY <1>1, <1>2, <1>3, <1>4, <1>5 DEF Step, OtherStep

\* All other steps are invisible to the callers.
LEMMA ServiceStutter ==
  ASSUME TypeInv, TypeInv', RingInv, FirstInv, NoInvalidState', [Next]_vars,
         \A t \in Threads : ~Begin(t) /\ ~Return(t), \A b \in Buffers : ~ScatterCopy(b)
  PROVE  UNCHANGED Service!vars
<1> USE DEF TypeInv
<1>1. ASSUME NEW u \in Threads
      PROVE  /\ pc'[u] # "idle" <=> pc[u] # "idle"
             /\ req'[u].num = req[u].num /\ req'[u].total = req[u].total /\ out'[u] = out[u]
  <2>1. CASE \E t \in Threads : Step(t)
    <3>1. PICK t \in Threads : Step(t) /\ ~Return(t)
      BY <2>1
    <3>2. CASE u = t
      BY <3>1, <3>2, StepIsInside, HandedThread
    <3>3. CASE u # t
      BY <3>1, <3>3, OtherThreads
    <3> QED BY <3>2, <3>3
  <2>2. CASE \E b \in Buffers : Kernel(b) \/ \E i \in Rows : Block(b, i)
    BY <2>2, KernelThreads, KernelAnswers
  <2>3. CASE UNCHANGED vars
    BY <2>3 DEF vars, threadVars
  <2> QED BY <2>1, <2>2, <2>3 DEF Next, KernelsStep, Terminating
<1>2. {u \in Threads : pc'[u] # "idle"} = {u \in Threads : pc[u] # "idle"}
  BY <1>1
<1>3. /\ [u \in Threads |-> req'[u].num] = [u \in Threads |-> req[u].num]
      /\ [u \in Threads |-> req'[u].total] = [u \in Threads |-> req[u].total]
  BY <1>1
<1>4. out' = out
  BY <1>1 DEF TypeOK
<1> QED BY <1>2, <1>3, <1>4 DEF Service!vars

LEMMA ServiceStep ==
  ASSUME TypeInv, TypeInv', RingInv, AnswersInv, ReadyInv, LiveInv, NoInvalidState', [Next]_vars
  PROVE  [Service!Next]_(Service!vars)
<1>1. CASE \E t \in Threads : Begin(t)
  BY <1>1, ServiceCall DEF Begin, Service!Next
<1>2. CASE \E t \in Threads : Return(t)
  BY <1>2, ServiceReturn DEF Service!Next
<1>3. CASE \E b \in Buffers : ScatterCopy(b)
  BY <1>3, ServiceAnswer DEF Service!Next
<1>4. CASE /\ \A t \in Threads : ~Begin(t) /\ ~Return(t)
           /\ \A b \in Buffers : ~ScatterCopy(b)
  BY <1>4, ServiceStutter DEF LiveInv
<1> QED BY <1>1, <1>2, <1>3, <1>4

\* The index implements SearchService: concurrent calls are separate searches, each query
\* answered once, with its own neighbors, between its call and its return.
THEOREM ImplementsService ==
  ASSUME NoEmptyRequest
  PROVE  TimelySpec => Service!Safe
<1> DEFINE I == TypeInv /\ RingInv /\ AnswersInv /\ ReadyInv /\ LiveInv /\ NoInvalidState
<1>1. TimelySpec => []I
  BY RingCorrect, AnswersCorrect, ReadyCorrect, LiveCorrect, NeverInvalid, TimelyIsSpec, PTL
<1>2. I /\ I' /\ [Next]_vars => [Service!Next]_(Service!vars)
  BY ServiceStep
<1> HIDE DEF I
<1>3. TimelySpec => Init /\ [][Next]_vars
  BY TimelyIsSpec DEF Spec
<1> QED BY <1>1, <1>2, <1>3, ServiceInit, PTL DEF Service!Safe
=============================================================================
