------------------------ MODULE DynamicBatchingRing ------------------------
(***************************************************************************)
(* The types and the ring of DynamicBatching: RingInv is inductive, for    *)
(* every number of threads, slots, buffers and rows, when no request is    *)
(* empty.                                                                  *)
(***************************************************************************)
EXTENDS DynamicBatchingInv, FiniteSetTheorems, TLAPS

-----------------------------------------------------------------------------
(* Arithmetic of the ring.                                                 *)

\* Slots and rounds of the counters are what they are meant to be.
LEMMA SlotRoundType ==
  ASSUME NEW n \in Nat
  PROVE  Slot(n) \in Slots /\ Round(n) \in Nat
BY SizesAssumption DEF Slot, Round, Slots

\* A counter is determined by its round and its slot.
LEMMA SlotRoundDecompose ==
  ASSUME NEW n \in Nat
  PROVE  n = KSize * Round(n) + Slot(n)
BY SizesAssumption DEF Slot, Round

\* Within the bound, a thread reads kFull exactly for a token filled in its own
\* round and kEmpty exactly for one emptied in the round before it.
LEMMA StatusInBound ==
  ASSUME NEW tok \in Token,
         NEW n \in Nat,
         tok.round - Round(n) \in (1 - EmptyOffset)..(EmptyOffset - 1)
  PROVE  /\ Status(tok, n) = kFull => tok.full /\ tok.round = Round(n)
         /\ Status(tok, n) = kEmpty => ~tok.full /\ tok.round = Round(n)
<1> DEFINE d == tok.round - Round(n)
<1>1. d \in Int /\ -EmptyOffset < d /\ d < EmptyOffset /\ tok.full \in BOOLEAN
  BY SizesAssumption, SlotRoundType DEF Token
<1>2. EmptyOffset \in Nat /\ EmptyOffset > 3
  BY SizesAssumption
<1>3. Status(tok, n) = LET v == d + (IF tok.full THEN 0 ELSE EmptyOffset)
                       IN  CASE v < -1                         -> -2
                             [] v >= -1 /\ v < EmptyOffset - 1 -> IF v < 1 THEN v ELSE 1
                             [] OTHER -> IF v < EmptyOffset + 1 THEN v ELSE EmptyOffset + 1
  BY DEF Status, kEmptyPast, kEmptyBusy, kFullPast, kFullBusy, Invalid
<1> HIDE DEF d
<1>4. CASE tok.full
  <2>1. Status(tok, n) = kFull => d = 0
    BY <1>1, <1>2, <1>3, <1>4 DEF kFull
  <2>2. Status(tok, n) # kEmpty
    BY <1>1, <1>2, <1>3, <1>4 DEF kEmpty
  <2> QED BY <1>1, <1>4, <2>1, <2>2, SlotRoundType DEF d, Token
<1>5. CASE ~tok.full
  <2>1. Status(tok, n) # kFull
    BY <1>1, <1>2, <1>3, <1>5 DEF kFull
  <2>2. Status(tok, n) = kEmpty => d = 0
    BY <1>1, <1>2, <1>3, <1>5 DEF kEmpty
  <2> QED BY <1>1, <1>5, <2>1, <2>2, SlotRoundType DEF d, Token
<1> QED BY <1>4, <1>5

-----------------------------------------------------------------------------
(* Type correctness.                                                       *)

LEMMA TokenTypes ==
  /\ \A n \in Nat, b \in Slots : FullToken(n, b) \in Token
  /\ \A r \in Nat : EmptyToken(r) \in Token
  /\ \A n \in Nat : make_empty_token(n) \in Token
<1>1. KSize - 1 \in Slots /\ 0 \in 0..MaxBatch
  BY SizesAssumption DEF Slots
<1>2. ASSUME NEW n \in Nat, NEW b \in Slots PROVE FullToken(n, b) \in Token
  BY <1>1, SlotRoundType DEF FullToken, Token
<1>3. ASSUME NEW r \in Nat PROVE EmptyToken(r) \in Token
  BY <1>1 DEF EmptyToken, Token
<1>4. ASSUME NEW n \in Nat PROVE make_empty_token(n) \in Token
  BY <1>3, SlotRoundType DEF make_empty_token
<1> QED BY <1>2, <1>3, <1>4

\* Initially.
LEMMA TypeInit == Init => TypeInv
<1> SUFFICES ASSUME Init PROVE TypeInv
  OBVIOUS
<1> USE SizesAssumption, RequestsAssumption DEF Init
<1>1. TypeOK
  <2>1. token \in [Slots -> Token]
    BY TokenTypes DEF Slots
  <2>2. kern \in [Buffers -> KernelState]
    BY DEF IdleKernel, KernelState
  <2>3. claim \in [Threads -> Claim]
    BY DEF NoClaim, Claim
  <2>4. req \in [Threads -> Request]
    BY DEF NoReq, Request
  <2>5. ptrs \in [Buffers -> [Rows -> Pointer]]
    BY DEF NoPtrs, Pointer
  <2> QED BY <2>1, <2>2, <2>3, <2>4, <2>5 DEF TypeOK, PCs, Seqs
<1>2. TokenBuf
  BY DEF TokenBuf, FullToken, EmptyToken, Slots, Buffers
<1>3. ReqFits /\ ClaimFits /\ KernelSet
  BY DEF ReqFits, ClaimFits, KernelSet, NoReq, Claiming, IdleKernel
<1> QED BY <1>1, <1>2, <1>3 DEF TypeInv


\* Updates of one component of a claim or a kernel.
LEMMA ClaimUpdate ==
  ASSUME NEW c \in Claim
  PROVE  /\ \A v \in 0..MaxBatch : [c EXCEPT !.size = v] \in Claim
         /\ \A v \in 0..MaxBatch : [c EXCEPT !.sub = v] \in Claim
         /\ \A v \in Buffers : [c EXCEPT !.buf = v] \in Claim
         /\ \A v \in Nat : [c EXCEPT !.next = v] \in Claim
BY DEF Claim, Seqs

LEMMA TokenUpdate ==
  ASSUME NEW tok \in Token
  PROVE  /\ [tok EXCEPT !.closed = TRUE] \in Token
         /\ \A r \in Nat, b \in Slots :
              [tok EXCEPT !.full = TRUE, !.round = r, !.buf = b] \in Token
BY DEF Token

LEMMA KernelUpdate ==
  ASSUME NEW k \in KernelState
  PROVE  /\ \A v \in 0..MaxBatch, n \in Seqs \union {None} :
              [k EXCEPT !.size = v, !.next = n] \in KernelState
         /\ \A st \in {"idle", "gather", "gathered", "copied"} :
              [k EXCEPT !.stage = st] \in KernelState
BY DEF KernelState

\* A finished batch leaves a request that is still well formed.
LEMMA EndOfBatchReq ==
  ASSUME req \in [Threads -> Request], ReqFits, NEW t \in Threads,
         claim[t].cnt \in 0..MaxBatch, claim[t].cnt <= req[t].need, EndOfBatch(t)
  PROVE  req' \in [Threads -> Request] /\ ReqFits'
<1>1. req[t].need - claim[t].cnt \in 0..MaxBatch /\ req[t].need - claim[t].cnt <= req[t].total
  BY SizesAssumption DEF Request, ReqFits
<1>2. req' = [req EXCEPT ![t] = [req[t] EXCEPT !.need = req[t].need - claim[t].cnt]]
  BY DEF EndOfBatch
<1>3. [req[t] EXCEPT !.need = req[t].need - claim[t].cnt] \in Request
  BY <1>1 DEF Request
<1>4. req' \in [Threads -> Request]
  BY <1>2, <1>3
<1>5. ReqFits'
  BY <1>1, <1>2 DEF ReqFits, Request
<1> QED BY <1>4, <1>5

\* The actions of a thread.
LEMMA TypeThread ==
  ASSUME TypeInv, NEW t \in Threads, Begin(t) \/ Step(t)
  PROVE  TypeInv'
<1> USE DEF Goto, TypeInv, Seqs, PCs, Claiming, Acquired
<1>1. ASSUME NEW n \in ReqSizes, StartSearch(t, n) PROVE TypeInv'
  <2>1. req' \in [Threads -> Request] /\ ReqFits'
    BY <1>1, RequestsAssumption, SizesAssumption DEF StartSearch, TypeOK, Request, ReqFits
  <2> QED BY <1>1, <2>1
    DEF StartSearch, TypeOK, TokenBuf, ReqFits, ClaimFits, KernelSet, queueVars, bufferVars
<1>2. CASE LoadHead(t)
  BY <1>2 DEF LoadHead, TypeOK, TokenBuf, ReqFits, ClaimFits, KernelSet, queueVars, bufferVars
<1>3. CASE CheckTail(t)
  <2>1. TypeOK'
    BY <1>3 DEF CheckTail, TypeOK, queueVars, bufferVars
  <2>2. ClaimFits'
    BY <1>3 DEF CheckTail, TypeOK, ClaimFits
  <2> QED BY <1>3, <2>1, <2>2 DEF CheckTail, TokenBuf, ReqFits, KernelSet, queueVars, bufferVars
<1>4. CASE TryCommit(t)
  <2> DEFINE tok == token[Slot(seq[t])]
             sc2 == Committed(tok.sc, req[t].need)
             st  == Status(tok, seq[t])
             c   == [off |-> tok.sc, cnt |-> sc2 - tok.sc, sub |-> 0, size |-> 0,
                     buf |-> IF st = kFull THEN tok.buf ELSE None, next |-> None]
  <2>1. Slot(seq[t]) \in Slots /\ tok \in Token /\ seq[t] \in Nat
    BY SlotRoundType DEF TypeOK
  <2>2. CASE UNCHANGED <<token, claim>> /\ \E l \in PCs \ Claiming : Goto(t, l)
    BY <1>4, <2>2
    DEF TryCommit, TypeOK, TokenBuf, ReqFits, ClaimFits, KernelSet, bufferVars
  <2>3. CASE /\ st \in {kFull, kEmpty} /\ ~Uncommittable(tok)
             /\ token' = [token EXCEPT ![Slot(seq[t])].sc = sc2]
             /\ claim' = [claim EXCEPT ![t] = c]
             /\ Goto(t, IF sc2 >= MaxBatch THEN "popFull" ELSE AfterCommit(c))
    <3>1. sc2 \in 0..MaxBatch /\ sc2 - tok.sc \in 0..MaxBatch /\ sc2 - tok.sc <= req[t].need
      BY <2>1, <2>3, SizesAssumption DEF TypeOK, Token, Request, Committed, Uncommittable
    <3>2. token' \in [Slots -> Token] /\ TokenBuf'
      BY <2>1, <2>3, <3>1 DEF TypeOK, Token, TokenBuf
    <3>3. st = kFull => tok.buf \in Buffers
      BY <1>4, <2>1, StatusInBound DEF TryCommit, RoundBound, TokenBuf
    <3>4. c \in Claim /\ c.sub = 0 /\ c.cnt = sc2 - tok.sc /\ c.off + c.cnt <= MaxBatch
          /\ c.buf = IF st = kFull THEN tok.buf ELSE None
      <4>2. tok.sc \in 0..MaxBatch /\ 0 \in 0..MaxBatch /\ MaxBatch \in Nat
        BY <2>1, SizesAssumption DEF Token
      <4> HIDE DEF sc2, tok, st
      <4>3. c.off = tok.sc /\ c.cnt = sc2 - tok.sc
        OBVIOUS
      <4>4. c.off + c.cnt <= MaxBatch
        BY <3>1, <4>2, <4>3
      <4> QED BY <4>2, <4>4, <3>1, <3>3 DEF Claim
    <3>5. None \notin Buffers
      BY DEF None, Buffers
    <3> HIDE DEF c, sc2, tok, st
    <3>6. claim' \in [Threads -> Claim] /\ pc' \in [Threads -> PCs]
      BY <2>3, <3>4 DEF TypeOK, AfterCommit
    <3>7. ClaimFits'
      BY <1>4, <2>3, <3>1, <3>3, <3>4, <3>5 DEF TryCommit, TypeOK, ClaimFits, AfterCommit
    <3> QED BY <1>4, <3>2, <3>6, <3>7
      DEF TryCommit, TypeOK, ReqFits, KernelSet, bufferVars
  <2> QED BY <1>4, <2>2, <2>3 DEF TryCommit, TypeOK
<1>5. CASE Pop(t)
  <2>1. head' \in Nat
    BY <1>5 DEF Pop, Popped, TypeOK
  <2>2. pc' \in [Threads -> PCs]
    BY <1>5 DEF Pop, AfterCommit, TypeOK
  <2>3. claim[t].buf # None => claim[t].buf \in Buffers
    BY DEF TypeOK, Claim
  <2>4. ClaimFits'
    BY <1>5, <2>3 DEF Pop, AfterCommit, TypeOK, ClaimFits
  <2> QED BY <1>5, <2>1, <2>2, <2>4
    DEF Pop, TypeOK, TokenBuf, ReqFits, KernelSet, bufferVars
<1>6. CASE AwaitBuffer(t)
  <2> DEFINE tok == token[Slot(seq[t])]
             c   == [claim[t] EXCEPT !.buf = tok.buf]
  <2>1. CASE UNCHANGED claim /\ Goto(t, "raised")
    BY <1>6, <2>1
    DEF AwaitBuffer, TypeOK, TokenBuf, ReqFits, ClaimFits, KernelSet, queueVars, bufferVars
  <2>2. CASE Status(tok, seq[t]) = kFull /\ claim' = [claim EXCEPT ![t] = c]
             /\ Goto(t, AfterCommit(c))
    <3>1. tok.buf \in Buffers
      BY <1>6, <2>2, StatusInBound, SlotRoundType DEF AwaitBuffer, RoundBound, TokenBuf, TypeOK
    <3>2. c \in Claim /\ c.cnt = claim[t].cnt /\ c.sub = claim[t].sub /\ c.buf = tok.buf
          /\ c.off = claim[t].off
      BY <3>1, ClaimUpdate DEF TypeOK, Claim
    <3> HIDE DEF c, tok
    <3>3. claim' \in [Threads -> Claim] /\ pc' \in [Threads -> PCs]
      BY <2>2, <3>2 DEF TypeOK, AfterCommit
    <3>4. ClaimFits'
      BY <1>6, <2>2, <3>1, <3>2 DEF AwaitBuffer, TypeOK, ClaimFits, AfterCommit
    <3> QED BY <1>6, <3>3, <3>4
      DEF AwaitBuffer, TypeOK, TokenBuf, ReqFits, KernelSet, queueVars, bufferVars
  <2> QED BY <1>6, <2>1, <2>2 DEF AwaitBuffer
<1>7. CASE LaunchGather(t)
  <2>1. claim[t].buf \in Buffers /\ seq[t] \in Nat /\ waits[t] \subseteq Nat
    BY <1>7 DEF LaunchGather, ClaimFits, TypeOK
  <2>2. rem' \in [Slots -> 0..NoTimeout]
    BY <1>7, RequestsAssumption DEF LaunchGather, TypeOK
  <2>3. [stage |-> "gather", seq |-> seq[t], deps |-> waits[t], size |-> 0, next |-> None]
          \in KernelState
    BY <2>1, SizesAssumption DEF KernelState
  <2>4. kern' \in [Buffers -> KernelState] /\ KernelSet'
    BY <1>7, <2>1, <2>3 DEF LaunchGather, TypeOK, KernelSet
  <2>5. blk' \in [Buffers -> [Rows -> {"off", "poll", "closing", "done"}]]
    BY <1>7 DEF LaunchGather, TypeOK
  <2>6. ClaimFits' /\ pc' \in [Threads -> PCs]
    BY <1>7 DEF LaunchGather, TypeOK, ClaimFits
  <2> QED BY <1>7, <2>2, <2>4, <2>5, <2>6
    DEF LaunchGather, TypeOK, TokenBuf, ReqFits
<1>8. CASE SubmitQuery(t)
  <2>1. /\ claim[t].sub \in 0..MaxBatch /\ claim[t].cnt \in 0..MaxBatch
        /\ claim[t].sub < claim[t].cnt /\ claim[t].cnt <= req[t].need
        /\ req[t].num \in Nat /\ req[t].need \in 0..MaxBatch
        /\ req[t].total \in 0..MaxBatch /\ req[t].need <= req[t].total
        /\ req[t].total < MaxBatch
    BY <1>8 DEF SubmitQuery, TypeOK, ClaimFits, ReqFits, Claim, Request
  <2>2. req[t].total - req[t].need + claim[t].sub \in Rows /\ claim[t].sub + 1 \in 0..MaxBatch
    BY <2>1, SizesAssumption DEF Rows
  <2>3. Pointers(t) \in Pointer
    BY <2>1, <2>2 DEF Pointers, Pointer, Queries, Query
  <2>4. ptrs' \in [Buffers -> [Rows -> Pointer]]
    BY <1>8, <2>3 DEF SubmitQuery, TypeOK
  <2>5. claim' \in [Threads -> Claim]
    BY <1>8, <2>2, ClaimUpdate DEF SubmitQuery, TypeOK
  <2>6. ClaimFits'
    BY <1>8, <2>1 DEF SubmitQuery, TypeOK, ClaimFits, Claim
  <2> QED BY <1>8, <2>4, <2>5, <2>6
    DEF SubmitQuery, TypeOK, TokenBuf, ReqFits, KernelSet, queueVars
<1>9. CASE SubmitDeadline(t)
  <2>1. claim' \in [Threads -> Claim]
    <3>1. MaxBatch \in 0..MaxBatch /\ claim[t] \in Claim
      BY SizesAssumption DEF TypeOK
    <3>2. [claim[t] EXCEPT !.size = MaxBatch] \in Claim
      BY <3>1, ClaimUpdate
    <3> QED BY <1>9, <3>2 DEF SubmitDeadline, TypeOK
  <2>4. rem' \in [Slots -> 0..NoTimeout]
    <3>1. Timeout[t] \in 0..NoTimeout /\ \A s \in Slots : rem[s] \in 0..NoTimeout
      BY RequestsAssumption DEF TypeOK
    <3>2. rem' = [rem EXCEPT ![Slot(seq[t])] =
                    IF Timeout[t] < rem[Slot(seq[t])] THEN Timeout[t] ELSE rem[Slot(seq[t])]]
      BY <1>9 DEF SubmitDeadline
    <3> QED BY <3>1, <3>2, SlotRoundType DEF TypeOK
  <2>2. pc' \in [Threads -> PCs]
    BY <1>9 DEF SubmitDeadline, TypeOK
  <2>3. ClaimFits'
    BY <1>9 DEF SubmitDeadline, TypeOK, ClaimFits, Claim
  <2> QED BY <1>9, <2>1, <2>2, <2>3, <2>4
    DEF SubmitDeadline, TypeOK, TokenBuf, ReqFits, KernelSet, bufferVars
<1>10. CASE TakeSize(t)
  <2>1. claim' \in [Threads -> Claim]
    BY <1>10, SlotRoundType, ClaimUpdate DEF TakeSize, TypeOK
  <2>2. ClaimFits'
    BY <1>10 DEF TakeSize, TypeOK, ClaimFits, Claim
  <2> QED BY <1>10, <2>1, <2>2
    DEF TakeSize, TypeOK, TokenBuf, ReqFits, KernelSet, queueVars, bufferVars
<1>11. CASE ResetSize(t)
  BY <1>11, SlotRoundType, SizesAssumption
  DEF ResetSize, TypeOK, TokenBuf, ReqFits, ClaimFits, KernelSet, bufferVars
<1>12. CASE PushReserve(t)
  <2>1. claim' \in [Threads -> Claim]
    BY <1>12, ClaimUpdate DEF PushReserve, TypeOK
  <2>2. ClaimFits'
    BY <1>12 DEF PushReserve, TypeOK, ClaimFits, Claim
  <2> QED BY <1>12, <2>1, <2>2
    DEF PushReserve, TypeOK, TokenBuf, ReqFits, KernelSet, bufferVars
<1>13. CASE PushWait(t)
  <2>1. kern' \in [Buffers -> KernelState] /\ KernelSet'
    <3>1. CASE UNCHANGED kern
      BY <3>1 DEF TypeOK, KernelSet
    <3>2. CASE kern' = [kern EXCEPT ![claim[t].buf].size = claim[t].size,
                                    ![claim[t].buf].next = claim[t].next]
      <4>1. claim[t].size \in 0..MaxBatch /\ claim[t].next \in Seqs \union {None}
            /\ claim[t].buf \in Buffers /\ claim[t].next \in Nat
        BY <1>13 DEF PushWait, TypeOK, Claim, ClaimFits
      <4>2. kern' = [kern EXCEPT ![claim[t].buf] =
                       [kern[claim[t].buf] EXCEPT !.size = claim[t].size,
                                                  !.next = claim[t].next]]
        BY <3>2, <4>1 DEF TypeOK
      <4>3. kern' \in [Buffers -> KernelState]
        BY <4>1, <4>2, KernelUpdate DEF TypeOK
      <4>4. KernelSet'
        BY <4>1, <4>2 DEF TypeOK, KernelSet, KernelState
      <4> QED BY <4>3, <4>4
    <3> QED BY <1>13, <3>1, <3>2 DEF PushWait
  <2>2. waits' \in [Threads -> SUBSET Seqs] /\ pc' \in [Threads -> PCs]
    <3>1. seq[t] \in Seqs /\ waits[t] \in SUBSET Seqs
      BY DEF TypeOK
    <3>2. waits[t] \union {seq[t]} \in SUBSET Seqs
      BY <3>1
    <3>3. waits' = waits \/ waits' = [waits EXCEPT ![t] = waits[t] \union {seq[t]}]
      BY <1>13 DEF PushWait
    <3>4. waits' \in [Threads -> SUBSET Seqs]
      BY <3>2, <3>3 DEF TypeOK
    <3>5. pc' = [pc EXCEPT ![t] = "raised"] \/ pc' = [pc EXCEPT ![t] = "record"]
      BY <1>13 DEF PushWait, Goto
    <3>6. pc' \in [Threads -> PCs]
      BY <3>5 DEF TypeOK, PCs, Claiming
    <3> QED BY <3>4, <3>6
  <2>3. ClaimFits'
    BY <1>13 DEF PushWait, TypeOK, ClaimFits
  <2> QED BY <1>13, <2>1, <2>2, <2>3
    DEF PushWait, TypeOK, TokenBuf, ReqFits, queueVars
<1>14. CASE RecordEvent(t)
  BY <1>14 DEF RecordEvent, TypeOK, TokenBuf, ReqFits, ClaimFits, KernelSet, queueVars
<1>15. CASE Publish(t)
  <2>1. NoClaim \in Claim
    BY SizesAssumption DEF NoClaim, Claim
  <2>2. req' \in [Threads -> Request] /\ ReqFits'
    <3>1. claim[t].cnt <= req[t].need /\ claim[t].cnt \in 0..MaxBatch
      BY <1>15 DEF Publish, TypeOK, ClaimFits, Claim
    <3> QED BY <1>15, <3>1, EndOfBatchReq DEF Publish, TypeOK, ReqFits
  <2>3. claim' \in [Threads -> Claim] /\ pc' \in [Threads -> PCs]
    BY <1>15, <2>1 DEF Publish, EndOfBatch, TypeOK
  <2>4. ClaimFits'
    BY <1>15 DEF Publish, EndOfBatch, TypeOK, ClaimFits
  <2>5. dispatched' \in [Slots -> Seqs \union {None}]
    BY <1>15 DEF Publish, TypeOK
  <2> QED BY <1>15, <2>2, <2>3, <2>4, <2>5
    DEF Publish, TypeOK, TokenBuf, KernelSet, bufferVars
<1>16. CASE WaitDispatch(t)
  BY <1>16 DEF WaitDispatch, TypeOK, TokenBuf, ReqFits, ClaimFits, KernelSet, queueVars, bufferVars
<1>17. CASE WaitEvent(t)
  <2>1. NoClaim \in Claim
    BY SizesAssumption DEF NoClaim, Claim
  <2>2. req' \in [Threads -> Request] /\ ReqFits'
    <3>1. claim[t].cnt <= req[t].need /\ claim[t].cnt \in 0..MaxBatch
      BY <1>17 DEF WaitEvent, TypeOK, ClaimFits, Claim
    <3> QED BY <1>17, <3>1, EndOfBatchReq DEF WaitEvent, TypeOK, ReqFits
  <2>3. claim' \in [Threads -> Claim] /\ pc' \in [Threads -> PCs]
    BY <1>17, <2>1 DEF WaitEvent, EndOfBatch, TypeOK
  <2>4. ClaimFits'
    BY <1>17 DEF WaitEvent, EndOfBatch, TypeOK, ClaimFits
  <2>5. event[claim[t].buf] \in Seqs \union {None} /\ waits[t] \in SUBSET Seqs
    BY <1>17 DEF WaitEvent, TypeOK, ClaimFits
  <2>6. waits' \in [Threads -> SUBSET Seqs]
    BY <1>17, <2>5 DEF WaitEvent, TypeOK
  <2>7. UNCHANGED <<queueVars, bufferVars, seq, out>>
    BY <1>17 DEF WaitEvent
  <2>8. TokenBuf' /\ KernelSet'
    BY <2>7 DEF TokenBuf, KernelSet, queueVars, bufferVars
  <2>9. TypeOK'
    BY <2>2, <2>3, <2>6, <2>7 DEF TypeOK, queueVars, bufferVars
  <2> QED BY <2>2, <2>4, <2>8, <2>9
<1>18. CASE Sync(t) \/ Return(t)
  BY <1>18 DEF Sync, Return, TypeOK, TokenBuf, ReqFits, ClaimFits, KernelSet, queueVars, bufferVars
<1> QED
  BY <1>1, <1>2, <1>3, <1>4, <1>5, <1>6, <1>7, <1>8, <1>9, <1>10, <1>11, <1>12, <1>13,
     <1>14, <1>15, <1>16, <1>17, <1>18 DEF Begin, Step, OtherStep

\* The actions of the kernels.
LEMMA TypeBlock ==
  ASSUME TypeInv, NEW b \in Buffers, NEW i \in Rows, Block(b, i)
  PROVE  TypeInv'
<1> USE DEF TypeInv, Running
<1>1. CASE GatherTake(b, i)
  <2>1. ptrs[b][i].query \in Queries \union {NoQuery} /\ ptrs[b][i] \in Pointer
    BY DEF TypeOK, Pointer
  <2>2. gathered' \in [Buffers -> [Rows -> Queries \union {NoQuery}]]
    BY <1>1, <2>1 DEF GatherTake, TypeOK
  <2>3. [ptrs[b][i] EXCEPT !.query = NoQuery] \in Pointer
    BY <2>1 DEF Pointer
  <2>4. ptrs' \in [Buffers -> [Rows -> Pointer]]
    BY <1>1, <2>3 DEF GatherTake, TypeOK
  <2>5. blk' \in [Buffers -> [Rows -> {"off", "poll", "closing", "done"}]]
    BY <1>1 DEF GatherTake, TypeOK
  <2> QED BY <1>1, <2>2, <2>4, <2>5
    DEF GatherTake, TypeOK, TokenBuf, ReqFits, ClaimFits, KernelSet, queueVars, threadVars
<1>2. CASE GatherSkip(b, i) \/ GatherExpire(b, i)
  <2>1. blk' \in [Buffers -> [Rows -> {"off", "poll", "closing", "done"}]]
    <3>1. blk' = [blk EXCEPT ![b][i] = "done"] \/ blk' = [blk EXCEPT ![b][i] = "closing"]
      BY <1>2 DEF GatherSkip, GatherExpire
    <3>2. CASE blk' = [blk EXCEPT ![b][i] = "done"]
      BY <3>2 DEF TypeOK
    <3>3. CASE blk' = [blk EXCEPT ![b][i] = "closing"]
      BY <3>3 DEF TypeOK
    <3> QED BY <3>1, <3>2, <3>3
  <2> QED BY <1>2, <2>1
    DEF GatherSkip, GatherExpire, TypeOK, TokenBuf, ReqFits, ClaimFits, KernelSet,
        queueVars, threadVars
<1>3. CASE GatherClose(b, i)
  <2>1. blk' \in [Buffers -> [Rows -> {"off", "poll", "closing", "done"}]]
    BY <1>3 DEF GatherClose, AfterClose, TypeOK
  <2>2. token' \in [Slots -> Token] /\ TokenBuf'
    <3> DEFINE s == Slot(kern[b].seq)
               new == [token[s] EXCEPT !.closed = TRUE]
    <3>1. s \in Slots /\ token[s] \in Token
      BY <1>3, SlotRoundType DEF GatherClose, KernelSet, TypeOK
    <3>2. new \in Token /\ new.full = token[s].full /\ new.buf = token[s].buf
      BY <3>1, TokenUpdate DEF Token
    <3>3. token' = [token EXCEPT ![s] = new]
      BY <1>3 DEF GatherClose
    <3> HIDE DEF new, s
    <3> QED BY <3>1, <3>2, <3>3 DEF TypeOK, TokenBuf
  <2> QED BY <1>3, <2>1, <2>2
    DEF GatherClose, TypeOK, ReqFits, ClaimFits, KernelSet, threadVars
<1> QED BY <1>1, <1>2, <1>3 DEF Block

LEMMA TypeKernel ==
  ASSUME TypeInv, NEW b \in Buffers, Kernel(b)
  PROVE  TypeInv'
<1> USE DEF TypeInv, Running
<1>0. kern[b] \in KernelState
  BY DEF TypeOK
<1>1. CASE GatherFinish(b)
  <2> DEFINE s == Slot(kern[b].seq)
  <2>1. s \in Slots /\ kern[b].seq \in Nat /\ token[s].sc \in 0..MaxBatch
    BY <1>1, SlotRoundType DEF GatherFinish, KernelSet, TypeOK, Token
  <2>2. make_empty_token(kern[b].seq) \in Token /\ ~make_empty_token(kern[b].seq).full
    BY <2>1, TokenTypes DEF make_empty_token, EmptyToken
  <2> HIDE DEF s
  <2>3. token' \in [Slots -> Token] /\ TokenBuf'
    BY <1>1, <2>2 DEF GatherFinish, TypeOK, TokenBuf, s
  <2>4. bsize' \in [Slots -> 0..MaxBatch] /\ progress' \in [Buffers -> 0..MaxBatch]
    BY <1>1, <2>1 DEF GatherFinish, TypeOK, s
  <2>5. kern' \in [Buffers -> KernelState] /\ KernelSet'
    <3> DEFINE k == [kern[b] EXCEPT !.stage = "gathered"]
    <3>1. k \in KernelState /\ k.stage = "gathered" /\ k.seq = kern[b].seq /\ k.next = kern[b].next
      BY <1>0, KernelUpdate DEF KernelState
    <3>2. kern' = [kern EXCEPT ![b] = k]
      BY <1>1 DEF GatherFinish
    <3>3. kern[b].seq \in Nat 
      BY <1>0, <1>1 DEF GatherFinish, KernelSet, KernelState, Seqs
    <3> HIDE DEF k
    <3> QED BY <3>1, <3>2, <3>3 DEF TypeOK, KernelSet
  <2>6. blk' \in [Buffers -> [Rows -> {"off", "poll", "closing", "done"}]]
    BY <1>1 DEF GatherFinish, TypeOK
  <2> QED BY <1>1, <2>3, <2>4, <2>5, <2>6
    DEF GatherFinish, TypeOK, ReqFits, ClaimFits, threadVars
<1>2. CASE ScatterCopy(b)
  <2>1. out' \in [Threads -> [Rows -> Queries \union {NoQuery}]]
    <3>1. \A j \in 0..(progress[b] - 1) : j \in Rows
      <4>1. progress[b] \in 0..MaxBatch
        BY DEF TypeOK
      <4> QED BY <4>1, SizesAssumption DEF Rows
    <3>2. \A j \in Rows : Found(b, j) \in Queries \union {NoQuery}
      BY DEF Found, TypeOK
    <3>3. ASSUME NEW t \in Threads, NEW i \in Rows PROVE
            out'[t][i] \in Queries \union {NoQuery}
      BY <1>2, <3>1, <3>2 DEF ScatterCopy, TypeOK
    <3> QED BY <1>2, <3>3 DEF ScatterCopy
  <2>2. progress' \in [Buffers -> 0..MaxBatch]
    BY <1>2, SizesAssumption DEF ScatterCopy, TypeOK
  <2>3. kern' \in [Buffers -> KernelState] /\ KernelSet'
    <3> DEFINE k == [kern[b] EXCEPT !.stage = "copied"]
    <3>1. k \in KernelState /\ k.stage = "copied" /\ k.seq = kern[b].seq /\ k.next = kern[b].next
      BY <1>0, KernelUpdate DEF KernelState
    <3>2. kern' = [kern EXCEPT ![b] = k]
      BY <1>2 DEF ScatterCopy
    <3>3. kern[b].seq \in Nat /\ kern[b].next \in Nat
      BY <1>0, <1>2 DEF ScatterCopy, KernelSet, KernelState, Seqs
    <3> HIDE DEF k
    <3> QED BY <3>1, <3>2, <3>3 DEF TypeOK, KernelSet
  <2> QED BY <1>2, <2>1, <2>2, <2>3
    DEF ScatterCopy, TypeOK, TokenBuf, ReqFits, ClaimFits, queueVars
<1>3. CASE ScatterRelease(b)
  <2>1. kern[b].next \in Nat /\ kern[b].seq \in Nat
    BY <1>3 DEF ScatterRelease, KernelSet
  <2>2. Round(kern[b].next) \in Nat /\ b \in Slots
    BY <2>1, SlotRoundType, SizesAssumption DEF Buffers, Slots
  <2>3. token' \in [Slots -> Token] /\ TokenBuf'
    <3> DEFINE s == Slot(kern[b].next)
               new == [token[s] EXCEPT !.full = TRUE, !.round = Round(kern[b].next), !.buf = b]
    <3>1. s \in Slots /\ token[s] \in Token
      BY <2>1, SlotRoundType DEF TypeOK
    <3>2. new \in Token /\ new.buf = b
      BY <2>2, <3>1, TokenUpdate DEF Token
    <3>3. token' = [token EXCEPT ![s] = new]
      BY <1>3 DEF ScatterRelease
    <3> HIDE DEF new, s
    <3> QED BY <3>1, <3>2, <3>3 DEF TypeOK, TokenBuf
  <2>4. IdleKernel \in KernelState
    BY SizesAssumption DEF IdleKernel, KernelState
  <2>5. kern' \in [Buffers -> KernelState] /\ KernelSet'
    BY <1>3, <2>4 DEF ScatterRelease, TypeOK, KernelSet, IdleKernel
  <2>6. done' \subseteq Seqs
    BY <1>3, <2>1 DEF ScatterRelease, TypeOK, Seqs
  <2> QED BY <1>3, <2>3, <2>5, <2>6
    DEF ScatterRelease, TypeOK, ReqFits, ClaimFits, threadVars
<1> QED BY <1>1, <1>2, <1>3 DEF Kernel

LEMMA TypeNext == TypeInv /\ [Next]_vars => TypeInv'
<1> SUFFICES ASSUME TypeInv, [Next]_vars PROVE TypeInv'
  OBVIOUS
<1>1. CASE UNCHANGED vars
  BY <1>1 DEF TypeInv, TypeOK, TokenBuf, ReqFits, ClaimFits, KernelSet,
              vars, queueVars, bufferVars, threadVars
<1> QED BY <1>1, TypeThread, TypeBlock, TypeKernel DEF Next, KernelsStep, Terminating

\* Every reachable state is well typed: in particular the commit counter never
\* exceeds the batch, no thread writes a request pointer outside its request, and
\* a thread past the wait has the number of a real IO buffer.
THEOREM TypeCorrect == Spec => []TypeOK
<1>1. TypeInv => TypeOK
  BY DEF TypeInv
<1> QED BY <1>1, TypeInit, TypeNext, PTL DEF Spec

NoEmptyRequest == 0 \notin ReqSizes

-----------------------------------------------------------------------------
(* Batches, as rounds and slots.                                           *)

\* A batch is the pair of its round and its slot.
LEMMA SlotRoundOf ==
  ASSUME NEW r \in Nat, NEW s \in Slots
  PROVE  KSize * r + s \in Nat /\ Slot(KSize * r + s) = s /\ Round(KSize * r + s) = r
<1> DEFINE p == KSize * r
<1>1. p \in Nat /\ p % KSize = 0 /\ p \div KSize = r
  BY SizesAssumption, SMTT(30)
<1>2. s \in Nat /\ s < KSize /\ KSize \in Nat
  BY SizesAssumption DEF Slots
<1>3. (p + s) % KSize = s /\ (p + s) \div KSize = r
  BY <1>1, <1>2, SizesAssumption, SMTT(30)
<1> QED BY <1>1, <1>2, <1>3 DEF Slot, Round

\* Batches that share a slot are whole rounds apart.
LEMMA SameSlot ==
  ASSUME NEW n \in Nat, NEW m \in Nat, Slot(n) = Slot(m)
  PROVE  /\ n < m => n + KSize <= m
         /\ n < m <=> Round(n) < Round(m)
         /\ n = m <=> Round(n) = Round(m)
<1> DEFINE q == Round(n)
           r == Round(m)
           s == Slot(n)
<1>1. n = KSize * q + s /\ m = KSize * r + s /\ q \in Nat /\ r \in Nat /\ s \in Nat
  BY SlotRoundType, SlotRoundDecompose DEF Slots
<1>2. KSize \in Nat /\ KSize > 0
  BY SizesAssumption
<1> HIDE DEF q, r, s
<1>3. ASSUME NEW i \in Nat, NEW j \in Nat, i < j PROVE KSize * i + KSize <= KSize * j
  <2>1. j - i - 1 \in Nat /\ KSize * (j - i - 1) >= 0
    BY <1>2, <1>3, SMTT(30)
  <2>2. KSize * j = KSize * i + KSize + KSize * (j - i - 1)
    BY <1>2, <1>3, SMTT(30)
  <2> QED BY <1>2, <2>1, <2>2, SMTT(30)
<1>4. q < r => n + KSize <= m
  BY <1>1, <1>2, <1>3, SMTT(30)
<1>5. r < q => m + KSize <= n
  BY <1>1, <1>2, <1>3, SMTT(30)
<1>6. q = r => n = m
  BY <1>1
<1>7. q < r \/ r < q \/ q = r
  BY <1>1
<1> QED BY <1>1, <1>2, <1>4, <1>5, <1>6, <1>7 DEF q, r

\* The next round of a slot.
LEMMA NextRound ==
  ASSUME NEW n \in Nat
  PROVE  n + KSize \in Nat /\ Slot(n + KSize) = Slot(n) /\ Round(n + KSize) = Round(n) + 1
<1>1. n = KSize * Round(n) + Slot(n) /\ Round(n) \in Nat /\ Slot(n) \in Slots
  BY SlotRoundType, SlotRoundDecompose
<1>2. ASSUME NEW q \in Nat PROVE KSize * (q + 1) = KSize * q + KSize
  BY SizesAssumption
<1>3. KSize * (Round(n) + 1) + Slot(n) = n + KSize /\ Round(n) + 1 \in Nat
  <2> DEFINE p == KSize * Round(n)
             q == KSize * (Round(n) + 1)
  <2>1. p \in Nat /\ n = p + Slot(n) /\ q = p + KSize
    BY <1>1, <1>2, SizesAssumption
  <2>2. Slot(n) \in Int /\ Round(n) + 1 \in Nat /\ KSize \in Int
    BY <1>1, SizesAssumption DEF Slots
  <2>3. q + Slot(n) = n + KSize
    <3> HIDE DEF p, q
    <3> QED BY <2>1, <2>2
  <2> QED BY <2>2, <2>3
<1> QED BY <1>1, <1>3, SlotRoundOf, SizesAssumption

\* The batch of a slot is a number of that slot and the token's round.
LEMMA BatchOfSlot ==
  ASSUME TypeOK, NEW s \in Slots
  PROVE  Batch(s) \in Nat /\ Slot(Batch(s)) = s /\ Round(Batch(s)) = token[s].round
BY SlotRoundOf DEF TypeOK, Token, Batch

\* How the batch of its slot lies to a number.
LEMMA AtOf ==
  ASSUME TypeOK, NEW n \in Nat
  PROVE  /\ At(n) \in Nat /\ Slot(At(n)) = Slot(n) /\ Slot(n) \in Slots
         /\ At(n) < n => At(n) + KSize <= n
         /\ At(n) > n => At(n) >= n + KSize
         /\ At(n) = n <=> token[Slot(n)].round = Round(n)
         /\ At(n) < n <=> token[Slot(n)].round < Round(n)
         /\ At(n) > n <=> token[Slot(n)].round > Round(n)
         /\ token[Slot(n)].round \in Nat /\ Round(n) \in Nat
<1>1. Slot(n) \in Slots /\ Round(n) \in Nat
  BY SlotRoundType
<1>2. At(n) \in Nat /\ Slot(At(n)) = Slot(n) /\ Round(At(n)) = token[Slot(n)].round
  BY <1>1, BatchOfSlot DEF At
<1>3. token[Slot(n)].round \in Nat
  BY <1>1 DEF TypeOK, Token
<1> QED BY <1>1, <1>2, <1>3, SameSlot

\* A number of the previous round is at least one round away.
LEMMA OneRoundBehind ==
  ASSUME TypeOK, NEW n \in Nat, At(n) < n, n <= At(n) + KSize
  PROVE  At(n) + KSize = n /\ token[Slot(n)].round = Round(n) - 1
<1>0. KSize \in Nat
  BY SizesAssumption
<1>1. At(n) \in Nat /\ Slot(n) \in Slots /\ (At(n) < n => At(n) + KSize <= n)
  BY AtOf
<1>4. At(n) + KSize = n
  BY <1>0, <1>1
<1>2. Round(At(n)) + 1 = Round(n)
  BY <1>1, <1>4, NextRound, AtOf
<1>3. Round(At(n)) = token[Slot(n)].round /\ token[Slot(n)].round \in Nat
  BY <1>1, BatchOfSlot DEF At, TypeOK, Token
<1> QED BY <1>1, <1>2, <1>3, <1>4, SlotRoundType

-----------------------------------------------------------------------------
(* Reading the status of a batch.                                          *)

\* What a status says when the slot is at most one round behind and less than
\* EmptyOffset rounds ahead.
LEMMA StatusRead ==
  ASSUME NEW tok \in Token, NEW n \in Nat,
         tok.round - Round(n) \in (-1)..(EmptyOffset - 1)
  PROVE  LET st == Status(tok, n)
             d  == tok.round - Round(n)
         IN  /\ st # Invalid
             /\ st = kFull => tok.full /\ d = 0
             /\ st = kEmpty => ~tok.full /\ d = 0
             /\ st \in {kFullPast, kEmptyPast} => d > 0
             /\ d = -1 => InUse(st)
<1> DEFINE d == tok.round - Round(n)
           e == IF tok.full THEN 0 ELSE EmptyOffset
           v == d + e
<1>1. d \in Int /\ -1 <= d /\ d <= EmptyOffset - 1 /\ tok.full \in BOOLEAN
  BY SizesAssumption, SlotRoundType DEF Token
<1>2. EmptyOffset \in Nat /\ EmptyOffset > 3
  BY SizesAssumption
<1>3. Status(tok, n) = CASE v < -1                         -> -2
                         [] v >= -1 /\ v < EmptyOffset - 1 -> IF v < 1 THEN v ELSE 1
                         [] OTHER -> IF v < EmptyOffset + 1 THEN v ELSE EmptyOffset + 1
  BY DEF Status, kEmptyPast, kEmptyBusy, kFullPast, kFullBusy, Invalid
<1> HIDE DEF d
<1>4. CASE tok.full
  BY <1>1, <1>2, <1>3, <1>4
  DEF kFull, kEmpty, kFullPast, kEmptyPast, kEmptyBusy, kFullBusy, Invalid, InUse, d
<1>5. CASE ~tok.full
  BY <1>1, <1>2, <1>3, <1>5
  DEF kFull, kEmpty, kFullPast, kEmptyPast, kEmptyBusy, kFullBusy, Invalid, InUse, d
<1> QED BY <1>1, <1>4, <1>5

-----------------------------------------------------------------------------
(* Initially.                                                              *)

LEMMA RingInit == Init => RingInv
<1> SUFFICES ASSUME Init PROVE RingInv
  OBVIOUS
<1> USE SizesAssumption
<1>1. \A s \in Slots : token[s].round = 0 /\ ~token[s].closed /\ token[s].sc = 0
                       /\ (token[s].full <=> s < NQueues)
                       /\ (token[s].full => token[s].buf = s)
  <2>1. \A s \in Slots : s < NQueues => Round(s) = 0
    BY DEF Slots, Round
  <2> QED BY <2>1 DEF Init, FullToken, EmptyToken
<1>2. \A s \in Slots : Batch(s) = s /\ s \in Nat /\ s < KSize
  BY <1>1 DEF Batch, Slots
<1>3. Reserved = {} /\ Pushing = {}
  BY DEF Init, Reserved, Pushing, IdleKernel
<1>4. head = 0 /\ tail = NQueues /\ NQueues \in Nat /\ NQueues <= KSize /\ KSize \in Nat
  BY DEF Init
<1>5. QueueInv
  <2>1. \A s \in Slots : SlotInv(s)
    BY <1>1, <1>2, <1>3, <1>4 DEF SlotInv
  <2>2. ReservedInv
    BY <1>3 DEF ReservedInv, Init, IdleKernel
  <2>3. PoppedInv
    BY <1>4 DEF PoppedInv
  <2>4. OffersInv
    BY <1>1 DEF OffersInv
  <2> QED BY <2>1, <2>2, <2>3, <2>4 DEF QueueInv
<1>6. DueInv
  <2> SUFFICES ASSUME NEW m \in 0..(tail - 1) PROVE \E b \in Buffers : Due(b, m)
    BY DEF DueInv
  <2>1. m \in Buffers /\ m \in Slots /\ m < NQueues
    BY <1>4 DEF Buffers, Slots
  <2>2. Due(m, m)
    BY <1>1, <1>2, <2>1 DEF Due, Init, IdleKernel
  <2> QED BY <2>1, <2>2
<1>7. \A t \in Threads : ThreadInv(t) /\ LaunchedInv(t)
  BY <1>4 DEF Init, ThreadInv, LaunchedInv, Launched, AtWork, Claiming, Alone, Holding
<1>8. ClaimsDisjoint
  BY DEF Init, ClaimsDisjoint, Claiming
<1>9. ASSUME NEW b \in Buffers, NEW i \in Rows PROVE KernelInv(b) /\ BlockInv(b, i)
  <2>1. b \in Slots /\ b < NQueues
    BY <1>4 DEF Buffers, Slots
  <2>2. KernelInv(b)
    BY <1>1, <2>1 DEF Init, KernelInv, IdleKernel
  <2>3. BlockInv(b, i)
    BY DEF Init, BlockInv, IdleKernel, NoPtrs
  <2> QED BY <2>2, <2>3
<1>10. 0 \in Rows
  BY DEF Rows
<1> QED BY <1>5, <1>6, <1>7, <1>8, <1>9, <1>10 DEF RingInv

-----------------------------------------------------------------------------
(* What a step that leaves parts of the state alone preserves.             *)

\* Slot s stays at its batch, loses no commit, is not opened again and keeps its
\* buffer.
Grows(s) ==
  /\ token'[s].round = token[s].round /\ token[s].sc <= token'[s].sc
  /\ token[s].closed => token'[s].closed
  /\ token[s].full => token'[s].full /\ token'[s].buf = token[s].buf

LEMMA GrowsAt ==
  ASSUME TypeOK, TypeOK', NEW n \in Nat, Grows(Slot(n))
  PROVE  At(n)' = At(n) /\ (Gone(n) => Gone(n)')
<1>1. At(n)' = At(n)
  BY DEF At, Batch, Grows
<1>2. Uncommittable(token[Slot(n)]) => Uncommittable(token[Slot(n)])'
  <2>1. Slot(n) \in Slots
    BY SlotRoundType
  <2>2. token[Slot(n)].sc \in 0..MaxBatch /\ token'[Slot(n)].sc \in 0..MaxBatch
    BY <2>1 DEF TypeOK, Token
  <2> QED BY <2>2, SizesAssumption DEF Uncommittable, Grows
<1> QED BY <1>1, <1>2 DEF Gone

LEMMA SameReserved ==
  ASSUME \A b \in Buffers : kern'[b].next = kern[b].next,
         Pushing' = Pushing, \A t \in Pushing : claim'[t].next = claim[t].next
  PROVE  Reserved' = Reserved
BY DEF Reserved

LEMMA ReservedType ==
  ASSUME TypeInv
  PROVE  Reserved \subseteq Nat /\ \A b \in Buffers : kern[b].next # None => kern[b].next \in Nat
<1>1. \A b \in Buffers : kern[b].next # None => kern[b].next \in Nat
  BY DEF TypeInv, TypeOK, KernelState, Seqs
<1>2. \A t \in Pushing : claim[t].next \in Nat
  BY DEF TypeInv, ClaimFits, Pushing, Claiming
<1> QED BY <1>1, <1>2 DEF Reserved

\* No slot is filled or emptied, none that is empty is closed.
LEMMA QueueFrame ==
  ASSUME TypeInv, TypeOK', QueueInv, UNCHANGED <<head, tail>>,
         \A s \in Slots : /\ Grows(s) /\ token'[s].full = token[s].full
                          /\ ~token[s].full => token'[s].closed = token[s].closed,
         Reserved' = Reserved, \A b \in Buffers : kern'[b].next = kern[b].next,
         Pushing' = Pushing, \A t \in Pushing : claim'[t].next = claim[t].next
  PROVE  QueueInv'
<1>1. \A s \in Slots : Batch(s)' = Batch(s)
  BY DEF Batch, Grows
<1>2. ASSUME NEW n \in Nat PROVE At(n)' = At(n) /\ (Gone(n) => Gone(n)') /\ Slot(n) \in Slots
  BY GrowsAt, SlotRoundType DEF TypeInv
<1>3. ASSUME NEW s \in Slots PROVE SlotInv(s)'
  BY <1>1 DEF QueueInv, SlotInv
<1>4. ReservedInv'
  <2>1. \A p \in Reserved' : p < tail' /\ At(p)' <= p /\ p <= At(p)' + KSize
    BY <1>2, ReservedType DEF QueueInv, ReservedInv
  <2>2. ASSUME NEW b \in Buffers, NEW p \in Nat, kern'[b].next = p, p # None
        PROVE  /\ ~token'[Slot(p)].full /\ At(p)' = p
               /\ \A t \in Pushing' : claim'[t].next # p
    <3>1. Slot(p) \in Slots /\ At(p)' = At(p) /\ kern[b].next = p
      BY <2>2, <1>2
    <3> QED BY <2>2, <3>1 DEF QueueInv, ReservedInv
  <2>3. ASSUME NEW b \in Buffers, (kern[b].next)' # None
        PROVE  /\ (~token[Slot(kern[b].next)].full)' /\ (At(kern[b].next) = kern[b].next)'
               /\ \A t \in Pushing' : claim'[t].next # (kern[b].next)'
    <3>1. PICK p \in Nat : (kern[b].next)' = p
      BY <2>3, ReservedType
    <3>2. At(p)' = At(kern[b].next)'
      BY <3>1 DEF At
    <3> QED BY <2>2, <2>3, <3>1, <3>2
  <2> QED BY <2>1, <2>3 DEF QueueInv, ReservedInv
<1>5. PoppedInv'
  BY <1>2 DEF QueueInv, PoppedInv, TypeInv, TypeOK
<1>6. OffersInv'
  BY DEF QueueInv, OffersInv, Grows
<1> QED BY <1>3, <1>4, <1>5, <1>6 DEF QueueInv

LEMMA DueFrame ==
  ASSUME TypeOK, TypeOK', DueInv, tail' = tail, head <= head',
         \A s \in Slots : Grows(s),
         \A b \in Buffers : /\ kern'[b].next = kern[b].next
                            /\ kern[b].stage = "idle" => kern'[b].stage = "idle",
         Pushing' = Pushing,
         \A t \in Pushing : claim'[t].next = claim[t].next /\ claim'[t].buf = claim[t].buf
  PROVE  DueInv'
<1> SUFFICES ASSUME NEW m \in 0..(tail - 1)
             PROVE  (\E b \in Buffers : Due(b, m)') \/ (m <= head' /\ At(m)' >= m)
  BY DEF DueInv
<1>1. m \in Nat /\ At(m)' = At(m)
  BY GrowsAt, SlotRoundType
<1>2. ASSUME NEW b \in Buffers, Due(b, m) PROVE Due(b, m)'
  <2>1. \A s \in Slots : Batch(s)' = Batch(s)
    BY DEF Batch, Grows
  <2> QED BY <1>2, <2>1 DEF Due, Grows
<1>3. head \in Nat /\ head' \in Nat
  BY DEF TypeOK
<1> QED BY <1>1, <1>2, <1>3 DEF DueInv

LEMMA ThreadFrame ==
  ASSUME TypeOK, TypeOK', NEW u \in Threads, ThreadInv(u),
         pc'[u] = pc[u], seq'[u] = seq[u], claim'[u] = claim[u], req'[u] = req[u],
         head <= head', Grows(Slot(seq[u]))
  PROVE  ThreadInv(u)'
<1> DEFINE n == seq[u]
           s == Slot(seq[u])
<1>1. n \in Nat /\ s \in Slots /\ head \in Nat /\ head' \in Nat
  BY SlotRoundType DEF TypeOK, Seqs
<1>2. At(n)' = At(n) /\ (Gone(n) => Gone(n)')
  BY <1>1, GrowsAt
<1>3. token[s].sc \in Nat /\ token'[s].sc \in Nat /\ token[s].sc <= token'[s].sc
      /\ (token[s].full => token'[s].full /\ token'[s].buf = token[s].buf)
  BY <1>1 DEF Grows, TypeOK, Token
<1>4. claim[u].off + claim[u].cnt \in Nat
  BY SizesAssumption DEF TypeOK, Claim
<1>5. At(seq[u])' = At(n)' /\ Gone(seq[u])' = Gone(n)' /\ Slot(seq[u])' = s
  BY DEF At, Gone
<1>6. n <= head'
  BY <1>1 DEF ThreadInv
<1> HIDE DEF n, s
<1> QED BY <1>1, <1>2, <1>3, <1>4, <1>5, <1>6 DEF ThreadInv, n, s

\* The kernels of b are not touched and the threads before the launch are those
\* they were.
LEMMA KernelFrame ==
  ASSUME TypeOK, TypeOK', KernelSet, NEW b \in Buffers, KernelInv(b), kern'[b] = kern[b],
         \A s \in Slots : Grows(s),
         \A s \in Slots : token'[s].full /\ ~token[s].full => token'[s].buf # b,
         \A t \in Threads : pc'[t] \in {"popFull", "await", "launch"} /\ claim'[t].off = 0 =>
           \/ pc[t] \in {"popFull", "await", "launch"} /\ claim[t].off = 0 /\ seq'[t] = seq[t]
           \/ kern[b].stage = "gather" => seq'[t] # kern[b].seq
  PROVE  KernelInv(b)'
<1> DEFINE k == kern[b]
           n == k.seq
<1>1. k.stage # "idle" => n \in Nat /\ Slot(n) \in Slots /\ At(n)' = At(n)
  BY GrowsAt, SlotRoundType DEF KernelSet
<1>2. At(kern[b].seq)' = At(n)'
  BY DEF At
<1>3. k.stage = "gather" => token'[Slot(n)].sc > 0
  <2>1. k.stage = "gather" =>
          token[Slot(n)].sc \in Nat /\ token'[Slot(n)].sc \in Nat /\ token[Slot(n)].sc > 0
    BY <1>1 DEF TypeOK, Token, KernelInv
  <2> QED BY <1>1, <2>1 DEF Grows
<1>4. k.stage = "gather" =>
        /\ token'[Slot(n)].full /\ token'[Slot(n)].buf = b /\ At(n)' = n
        /\ \A t \in Threads :
             pc'[t] \in {"popFull", "await", "launch"} /\ claim'[t].off = 0 => seq'[t] # n
  BY <1>1 DEF KernelInv, Grows
<1>5. k.stage \in {"gathered", "copied"} => \A s \in Slots : ~(token'[s].full /\ token'[s].buf = b)
  BY DEF KernelInv, Grows
<1>6. k.stage = "idle" => \E s \in Slots : token'[s].full /\ token'[s].buf = b
  BY DEF KernelInv, Grows
<1> QED BY <1>1, <1>2, <1>3, <1>4, <1>5, <1>6 DEF KernelInv

\* Every pending row was pending in the same batch.
NothingNewPending ==
  \A t \in Threads, i \in Rows : Pending(t, i)' => Pending(t, i) /\ seq'[t] = seq[t]

LEMMA BlockFrame ==
  ASSUME TypeOK, TypeOK', KernelSet, NEW b \in Buffers, NEW i \in Rows, BlockInv(b, i),
         kern'[b].stage = kern[b].stage, kern'[b].seq = kern[b].seq,
         \A s \in Slots : /\ Grows(s) /\ token'[s].sc = token[s].sc
                          /\ token'[s].full => token[s].full \/ token'[s].buf # b,
         UNCHANGED <<ptrs[b][i], blk[b][i]>>, NothingNewPending
  PROVE  BlockInv(b, i)'
<1>1. kern[b].stage = "gather" => Slot(kern[b].seq) \in Slots
  BY SlotRoundType DEF KernelSet
<1>2. \A s \in Slots : Batch(s)' = Batch(s)
  BY DEF Batch, Grows
<1>3. kern[b].stage = "gather" => kern'[b].seq = kern[b].seq
  OBVIOUS
<1>4. kern[b].stage = "gather" /\ blk[b][i] = "done" =>
       /\ \A t \in Threads : seq'[t] = kern[b].seq => ~Pending(t, i)'
       /\ token'[Slot(kern[b].seq)].sc <= i => token'[Slot(kern[b].seq)].closed
       /\ ptrs'[b][i].query = NoQuery
  BY <1>1 DEF BlockInv, NothingNewPending, Grows
<1>5. ptrs[b][i].query # NoQuery =>
       /\ kern[b].stage \in {"idle", "gather"}
       /\ \A s \in Slots : token'[s].full /\ token'[s].buf = b =>
            /\ i < token'[s].sc
            /\ \A t \in Threads : seq'[t] = Batch(s) => ~Pending(t, i)'
  BY DEF BlockInv, NothingNewPending, Grows
<1> QED BY <1>2, <1>4, <1>5 DEF BlockInv

LEMMA ClaimsFrame ==
  ASSUME ClaimsDisjoint,
         \A t \in Threads : pc'[t] \in Claiming =>
           /\ pc[t] \in Claiming /\ seq'[t] = seq[t]
           /\ claim'[t].off = claim[t].off /\ claim'[t].cnt = claim[t].cnt
  PROVE  ClaimsDisjoint'
BY DEF ClaimsDisjoint, RowsOf

\* A thread's step within search() that touches no shared state the invariant is
\* about but the head; nobody takes rows, and no row becomes pending.
LEMMA ThreadMoveHead ==
  ASSUME TypeInv, TypeInv', RingInv, NEW t \in Threads,
         UNCHANGED <<tail, token, ptrs, blk, kern>>, head <= head', QueueInv',
         \A u \in Threads \ {t} : /\ pc'[u] = pc[u] /\ seq'[u] = seq[u]
                                  /\ claim'[u] = claim[u] /\ req'[u] = req[u],
         pc[t] # "pushWait", pc'[t] # "pushWait",
         pc'[t] \in Claiming => 
           /\ pc[t] \in Claiming /\ seq'[t] = seq[t] /\ claim'[t].off = claim[t].off
           /\ claim'[t].cnt = claim[t].cnt /\ claim'[t].sub = claim[t].sub,
         pc'[t] \in Holding => pc[t] \in Holding,
         pc'[t] \in {"popFull", "await", "launch"} => pc[t] \in {"popFull", "await", "launch"},
         ThreadInv(t)', LaunchedInv(t)'
  PROVE  RingInv'
<1> USE DEF TypeInv
<1>1. Pushing' = Pushing /\ \A u \in Pushing : u # t /\ claim'[u] = claim[u]
  BY DEF Pushing
<1>2. \A s \in Slots : Grows(s)
  BY DEF Grows, TypeOK, Token
<1>3. QueueInv'
  OBVIOUS
<1>4. DueInv'
  BY <1>1, <1>2, DueFrame DEF RingInv, TypeOK
<1>5. ASSUME NEW u \in Threads PROVE ThreadInv(u)' /\ LaunchedInv(u)'
  <2>1. CASE u # t
    <3>1. Slot(seq[u]) \in Slots
      BY SlotRoundType DEF TypeOK, Seqs
    <3>2. ThreadInv(u)'
      BY <1>2, <2>1, <3>1, ThreadFrame DEF RingInv
    <3>3. LaunchedInv(u)'
      BY <2>1 DEF RingInv, LaunchedInv, Launched
    <3> QED BY <3>2, <3>3
  <2> QED BY <2>1
<1>6. ClaimsDisjoint'
  BY ClaimsFrame DEF RingInv
<1>7. \A b \in Buffers : KernelInv(b)'
  <2>1. \A u \in Threads : pc'[u] \in {"popFull", "await", "launch"} /\ claim'[u].off = 0 =>
           pc[u] \in {"popFull", "await", "launch"} /\ claim[u].off = 0 /\ seq'[u] = seq[u]
    BY DEF Claiming
  <2> QED BY <1>2, <2>1, KernelFrame DEF RingInv
<1>8. ASSUME NEW b \in Buffers, NEW i \in Rows PROVE BlockInv(b, i)'
  <2>1. NothingNewPending
    BY DEF NothingNewPending, Pending, Holding, Claiming
  <2> QED BY <1>2, <2>1, BlockFrame DEF RingInv
<1> QED BY <1>3, <1>4, <1>5, <1>6, <1>7, <1>8 DEF RingInv

\* The same without the head.
LEMMA ThreadMove ==
  ASSUME TypeInv, TypeInv', RingInv, NEW t \in Threads,
         UNCHANGED <<head, tail, token, ptrs, blk, kern>>,
         \A u \in Threads \ {t} : /\ pc'[u] = pc[u] /\ seq'[u] = seq[u]
                                  /\ claim'[u] = claim[u] /\ req'[u] = req[u],
         pc[t] # "pushWait", pc'[t] # "pushWait",
         pc'[t] \in Claiming => 
           /\ pc[t] \in Claiming /\ seq'[t] = seq[t] /\ claim'[t].off = claim[t].off
           /\ claim'[t].cnt = claim[t].cnt /\ claim'[t].sub = claim[t].sub,
         pc'[t] \in Holding => pc[t] \in Holding,
         pc'[t] \in {"popFull", "await", "launch"} => pc[t] \in {"popFull", "await", "launch"},
         ThreadInv(t)', LaunchedInv(t)'
  PROVE  RingInv'
<1>1. Pushing' = Pushing /\ \A u \in Pushing : u # t /\ claim'[u] = claim[u]
  BY DEF Pushing
<1>2. \A s \in Slots : Grows(s)
  BY DEF Grows, TypeInv, TypeOK, Token
<1>3. QueueInv'
  BY <1>1, <1>2, SameReserved, QueueFrame DEF RingInv, TypeInv
<1>4. head <= head'
  BY DEF TypeInv, TypeOK
<1> QED BY <1>3, <1>4, ThreadMoveHead

-----------------------------------------------------------------------------
(* The steps of a thread.                                                  *)

\* A slot is at most one round behind a number that is at most the head.
LEMMA AtMostOneBehind ==
  ASSUME TypeOK, QueueInv, NEW n \in Nat, n <= head
  PROVE  token[Slot(n)].round - Round(n) >= -1
<1>0. At(n) \in Nat /\ Slot(n) \in Slots
  BY AtOf
<1>1. At(n) \in Nat /\ Slot(n) \in Slots /\ n <= At(n) + KSize
  BY <1>0, SizesAssumption DEF QueueInv, SlotInv, At, TypeOK
<1>2. CASE At(n) < n
  BY <1>1, <1>2, OneRoundBehind, SlotRoundType
<1>3. CASE At(n) >= n
  <2>1. token[Slot(n)].round >= Round(n) /\ token[Slot(n)].round \in Nat /\ Round(n) \in Nat
    BY <1>1, <1>3, AtOf
  <2> QED BY <2>1
<1> QED BY <1>1, <1>2, <1>3

\* What a thread learns from the status of its batch.
LEMMA ThreadReads ==
  ASSUME TypeOK, QueueInv, NEW t \in Threads, seq[t] <= head, RoundBound(t)
  PROVE  LET n   == seq[t]
             tok == token[Slot(n)]
             st  == Status(tok, n)
         IN  /\ n \in Nat /\ Slot(n) \in Slots
             /\ st # Invalid
             /\ st = kFull => tok.full /\ At(n) = n
             /\ st = kEmpty => ~tok.full /\ At(n) = n
             /\ st \in {kFullPast, kEmptyPast} => At(n) > n
<1> DEFINE n   == seq[t]
           tok == token[Slot(n)]
           d   == tok.round - Round(n)
<1>1. n \in Nat /\ Slot(n) \in Slots /\ tok \in Token
  BY SlotRoundType DEF TypeOK, Seqs
<1>2. d \in (-1)..(EmptyOffset - 1)
  BY <1>1, AtMostOneBehind, SizesAssumption DEF RoundBound
<1>3. /\ tok.round \in Nat /\ Round(n) \in Nat
      /\ At(n) = n <=> tok.round = Round(n)
      /\ At(n) > n <=> tok.round > Round(n)
  BY <1>1, AtOf
<1>4. /\ d = 0 => At(n) = n
      /\ d > 0 => At(n) > n
  BY <1>3
<1> HIDE DEF d
<1>5. LET st == Status(tok, n)
      IN  /\ st # Invalid
          /\ st = kFull => tok.full /\ d = 0
          /\ st = kEmpty => ~tok.full /\ d = 0
          /\ st \in {kFullPast, kEmptyPast} => d > 0
  BY <1>1, <1>2, StatusRead DEF d
<1> QED BY <1>1, <1>4, <1>5

LEMMA RingMoves ==
  ASSUME TypeInv, TypeInv', RingInv, NoEmptyRequest, NEW t \in Threads,
         \/ \E n \in ReqSizes : StartSearch(t, n)
         \/ LoadHead(t) \/ CheckTail(t) \/ AwaitBuffer(t) \/ SubmitDeadline(t)
         \/ TakeSize(t) \/ ResetSize(t) \/ RecordEvent(t) \/ Publish(t) \/ WaitDispatch(t)
         \/ WaitEvent(t) \/ Sync(t) \/ Return(t)
  PROVE  RingInv'
<1> USE DEF Goto, queueVars, bufferVars, TypeInv
<1>1. /\ ThreadInv(t) /\ LaunchedInv(t) /\ QueueInv
      /\ seq[t] \in Nat /\ head \in Nat /\ claim[t] \in Claim /\ req[t] \in Request
      /\ At(seq[t]) \in Nat /\ KSize \in Nat
  BY AtOf, SizesAssumption DEF RingInv, TypeOK, Seqs
<1>2. token' = token => At(seq[t])' = KSize * token[Slot(seq'[t])].round + Slot(seq'[t])
  BY DEF At, Batch
<1>3. \A n \in ReqSizes : n > 0
  BY RequestsAssumption DEF NoEmptyRequest
<1>4. ASSUME NEW n \in ReqSizes, StartSearch(t, n) PROVE RingInv'
  BY <1>1, <1>3, <1>4, ThreadMove
  DEF StartSearch, TypeOK, Claiming, Holding, ThreadInv, LaunchedInv, Launched, AtWork, Alone
<1>5. CASE LoadHead(t)
  BY <1>1, <1>5, ThreadMove
  DEF LoadHead, TypeOK, Claiming, Holding, ThreadInv, LaunchedInv, Launched, AtWork, Alone
<1>6. CASE CheckTail(t)
  <2>1. /\ pc[t] = "bound" /\ pc'[t] \in {"bound", "commit"}
        /\ \A u \in Threads \ {t} : pc'[u] = pc[u] /\ seq'[u] = seq[u]
        /\ seq'[t] \in {seq[t], head}
        /\ UNCHANGED <<head, tail, token, ptrs, blk, kern, claim, req>>
    BY <1>6 DEF CheckTail, TypeOK
  <2>2. ThreadInv(t)' /\ LaunchedInv(t)'
    BY <1>1, <2>1 DEF ThreadInv, LaunchedInv, Launched, AtWork, Alone, Claiming, Holding
  <2> QED BY <2>1, <2>2, ThreadMove DEF Claiming, Holding
<1>7. CASE TakeSize(t) \/ ResetSize(t)
  <2>1. /\ pc' = [pc EXCEPT ![t] = IF pc[t] = "takeSize" THEN "resetSize" ELSE "push"]
        /\ pc[t] \in {"takeSize", "resetSize"}
        /\ UNCHANGED <<head, tail, token, ptrs, blk, kern, seq, req>>
        /\ \A u \in Threads \ {t} : claim'[u] = claim[u]
        /\ claim'[t].off = claim[t].off /\ claim'[t].cnt = claim[t].cnt
        /\ claim'[t].sub = claim[t].sub /\ claim'[t].buf = claim[t].buf
    BY <1>1, <1>7 DEF TakeSize, ResetSize, TypeOK, Claim
  <2>2. ThreadInv(t)' /\ LaunchedInv(t)'
    BY <1>1, <2>1 DEF TypeOK, ThreadInv, LaunchedInv, Launched, AtWork, Alone, Claiming, Holding,
                      At, Batch
  <2> QED BY <2>1, <2>2, ThreadMove DEF TypeOK, Claiming, Holding
<1>8. CASE SubmitDeadline(t)
  <2>1. /\ pc' = [pc EXCEPT ![t] = IF claim[t].off > 0 THEN "waitDispatch"
                                   ELSE IF Conservative THEN "takeSize" ELSE "push"]
        /\ pc[t] = "submit" /\ claim[t].sub = claim[t].cnt
        /\ UNCHANGED <<head, tail, token, ptrs, blk, kern, seq, req>>
        /\ \A u \in Threads \ {t} : claim'[u] = claim[u]
        /\ claim'[t].off = claim[t].off /\ claim'[t].cnt = claim[t].cnt
        /\ claim'[t].sub = claim[t].sub /\ claim'[t].buf = claim[t].buf
    BY <1>1, <1>8 DEF SubmitDeadline, TypeOK, Claim
  <2>2. claim[t].off \in Nat
    BY <1>1, SizesAssumption DEF Claim
  <2>3. ThreadInv(t)' /\ LaunchedInv(t)'
    BY <1>1, <2>1, <2>2 DEF TypeOK, ThreadInv, LaunchedInv, Launched, AtWork, Alone, Claiming,
                      Holding, At, Batch
  <2> QED BY <2>1, <2>3, ThreadMove DEF TypeOK, Claiming, Holding
<1>9. CASE RecordEvent(t) \/ WaitDispatch(t)
  <2>1. /\ pc' = [pc EXCEPT ![t] = IF pc[t] = "record" THEN "publish" ELSE "waitEvent"]
        /\ pc[t] \in {"record", "waitDispatch"}
        /\ UNCHANGED <<head, tail, token, ptrs, blk, kern, seq, req, claim>>
    BY <1>9 DEF RecordEvent, WaitDispatch
  <2>2. ThreadInv(t)' /\ LaunchedInv(t)'
    BY <1>1, <2>1 DEF TypeOK, ThreadInv, LaunchedInv, Launched, AtWork, Alone, Claiming, Holding,
                      At, Batch
  <2> QED BY <2>1, <2>2, ThreadMove DEF TypeOK, Claiming, Holding
<1>10. CASE Publish(t) \/ WaitEvent(t)
  <2>1. /\ pc' = [pc EXCEPT ![t] = IF req[t].need = claim[t].cnt THEN "sync" ELSE "head"]
        /\ pc[t] \in {"publish", "waitEvent"}
        /\ req' = [req EXCEPT ![t].need = req[t].need - claim[t].cnt]
        /\ claim' = [claim EXCEPT ![t] = NoClaim]
        /\ UNCHANGED <<head, tail, token, ptrs, blk, kern, seq>>
    BY <1>10 DEF Publish, WaitEvent, EndOfBatch
  <2>2. claim[t].cnt <= req[t].need /\ claim[t].cnt \in Nat /\ req[t].need \in Nat
    BY <1>1, <2>1, SizesAssumption DEF ClaimFits, Claiming, Claim, Request
  <2>3. pc'[t] = "head" => req'[t].need > 0
    <3>1. req'[t].need = req[t].need - claim[t].cnt
      BY <2>1, <1>1 DEF TypeOK, Request
    <3>2. pc'[t] = "head" => req[t].need # claim[t].cnt
      BY <2>1 DEF TypeOK
    <3> QED BY <2>2, <3>1, <3>2
  <2>4. ThreadInv(t)' /\ LaunchedInv(t)'
    BY <1>1, <2>1, <2>3 DEF TypeOK, ThreadInv, LaunchedInv, Launched, AtWork, Alone, Claiming, Holding
  <2> QED BY <2>1, <2>4, ThreadMove DEF TypeOK, Claiming, Holding
<1>11. CASE Sync(t) \/ Return(t)
  <2>1. /\ pc' = [pc EXCEPT ![t] = IF pc[t] = "sync" THEN "synced" ELSE "idle"]
        /\ pc[t] \in {"sync", "synced"}
        /\ UNCHANGED <<head, tail, token, ptrs, blk, kern, seq, req, claim>>
    BY <1>11 DEF Sync, Return
  <2>2. ThreadInv(t)' /\ LaunchedInv(t)'
    BY <1>1, <2>1 DEF TypeOK, ThreadInv, LaunchedInv, Launched, AtWork, Alone, Claiming, Holding
  <2> QED BY <2>1, <2>2, ThreadMove DEF TypeOK, Claiming, Holding
<1>12. CASE AwaitBuffer(t)
  <2> DEFINE tok == token[Slot(seq[t])]
             c   == [claim[t] EXCEPT !.buf = tok.buf]
  <2>1. pc[t] = "await" /\ RoundBound(t) /\ seq[t] <= head
        /\ UNCHANGED <<head, tail, token, ptrs, blk, kern, seq, req>>
    BY <1>1, <1>12 DEF AwaitBuffer, ThreadInv
  <2>2. Status(tok, seq[t]) = kFull /\ claim' = [claim EXCEPT ![t] = c] /\ Goto(t, AfterCommit(c))
    BY <1>1, <1>12, <2>1, ThreadReads DEF AwaitBuffer, TypeOK
  <2>3. tok.full /\ tok.buf # None
    <3>1. tok.full /\ Slot(seq[t]) \in Slots
      BY <1>1, <2>1, <2>2, ThreadReads
    <3> QED BY <3>1 DEF TokenBuf, Buffers, None
  <2>4. /\ c.off = claim[t].off /\ c.cnt = claim[t].cnt /\ c.sub = claim[t].sub
        /\ c.buf = tok.buf
    BY <1>1 DEF Claim
  <2> HIDE DEF c
  <2>5. /\ claim'[t] = c /\ \A u \in Threads \ {t} : claim'[u] = claim[u] /\ pc'[u] = pc[u]
        /\ pc'[t] = IF claim[t].off = 0 THEN "launch" ELSE "submit"
    BY <2>2, <2>3, <2>4 DEF TypeOK, AfterCommit
  <2>6. ThreadInv(t)' /\ LaunchedInv(t)'
    BY <1>1, <2>1, <2>3, <2>4, <2>5
    DEF ThreadInv, LaunchedInv, Launched, AtWork, Alone, Claiming, Holding, At, Batch
  <2> QED BY <2>1, <2>4, <2>5, <2>6, ThreadMove DEF Claiming, Holding
<1> QED BY <1>4, <1>5, <1>6, <1>7, <1>8, <1>9, <1>10, <1>11, <1>12

\* A commit, or one of the early returns of try_commit().
LEMMA RingTryCommit ==
  ASSUME TypeInv, TypeInv', RingInv, NEW t \in Threads, TryCommit(t)
  PROVE  RingInv'
<1> USE DEF Goto, bufferVars, TypeInv
<1> DEFINE n   == seq[t]
           s   == Slot(n)
           tok == token[s]
           sc2 == Committed(tok.sc, req[t].need)
           st  == Status(tok, n)
           c   == [off |-> tok.sc, cnt |-> sc2 - tok.sc, sub |-> 0, size |-> 0,
                   buf |-> IF st = kFull THEN tok.buf ELSE None, next |-> None]
<1>1. /\ ThreadInv(t) /\ LaunchedInv(t) /\ QueueInv /\ n <= head /\ req[t].need > 0
      /\ pc[t] = "commit" /\ RoundBound(t) /\ req[t].need \in Nat
      /\ UNCHANGED <<head, tail, ptrs, blk, kern, seq, req>>
  BY SizesAssumption DEF RingInv, ThreadInv, TryCommit, TypeOK, Request
<1>2. /\ n \in Nat /\ s \in Slots /\ tok \in Token /\ st # Invalid
      /\ st = kFull => tok.full /\ At(n) = n
      /\ st = kEmpty => ~tok.full /\ At(n) = n
      /\ st \in {kFullPast, kEmptyPast} => At(n) > n
  BY <1>1, ThreadReads DEF TypeOK
<1>3. CASE UNCHANGED <<token, claim>> /\ Goto(t, "head")
  <2>1. ThreadInv(t)' /\ LaunchedInv(t)'
    BY <1>1, <1>3
    DEF TypeOK, ThreadInv, LaunchedInv, Launched, AtWork, Alone, Claiming, Holding
  <2> QED BY <1>1, <1>3, <2>1, ThreadMove DEF TypeOK, Claiming, Holding
<1>4. CASE /\ st \in {kFullPast, kEmptyPast} \/ (st \in {kFull, kEmpty} /\ Uncommittable(tok))
           /\ UNCHANGED <<token, claim>> /\ Goto(t, "popRetry")
  <2>1. Gone(n)
    BY <1>2, <1>4 DEF Gone
  <2>2. Gone(n)'
    BY <1>1, <1>4, <2>1 DEF Gone, At, Batch
  <2>3. ThreadInv(t)' /\ LaunchedInv(t)'
    BY <1>1, <1>4, <2>2
    DEF TypeOK, ThreadInv, LaunchedInv, Launched, AtWork, Alone, Claiming, Holding
  <2> QED BY <1>1, <1>4, <2>3, ThreadMove DEF TypeOK, Claiming, Holding
<1>5. CASE /\ st \in {kFull, kEmpty} /\ ~Uncommittable(tok)
           /\ token' = [token EXCEPT ![s].sc = sc2]
           /\ claim' = [claim EXCEPT ![t] = c]
           /\ Goto(t, IF sc2 >= MaxBatch THEN "popFull" ELSE AfterCommit(c))
  <2>1. /\ At(n) = n /\ tok.sc \in Nat /\ sc2 \in Nat /\ tok.sc < sc2 /\ ~tok.closed
        /\ MaxBatch \in Nat
    BY <1>1, <1>2, <1>5, SizesAssumption DEF Token, Uncommittable, Committed
  <2>2. /\ c.off = tok.sc /\ c.cnt = sc2 - tok.sc /\ c.sub = 0
        /\ c.buf = (IF st = kFull THEN tok.buf ELSE None)
        /\ c.buf # None => tok.full /\ c.buf = tok.buf
    BY <1>2
  <2>3. /\ token'[s].sc = sc2 /\ token'[s].full = tok.full /\ token'[s].buf = tok.buf
        /\ token'[s].round = tok.round /\ token'[s].closed = tok.closed
        /\ \A r \in Slots \ {s} : token'[r] = token[r]
    BY <1>2, <1>5 DEF TypeOK, Token
  <2> HIDE DEF c, st, sc2
  <2>4. /\ claim'[t] = c /\ pc'[t] \in {"popFull", "await", "launch", "submit"}
        /\ pc'[t] = "popFull" => sc2 >= MaxBatch
        /\ pc'[t] = "await" => c.buf = None
        /\ pc'[t] = "launch" => c.off = 0
        /\ pc'[t] = "submit" => c.off # 0
        /\ \A u \in Threads \ {t} : pc'[u] = pc[u] /\ claim'[u] = claim[u]
    BY <1>5 DEF AfterCommit, TypeOK
  <2>5. \A r \in Slots : Grows(r) /\ token'[r].full = token[r].full
                         /\ token'[r].closed = token[r].closed
    <3>1. \A r \in Slots : token[r].sc \in Nat
      BY DEF TypeOK, Token
    <3>2. Grows(s) /\ token'[s].full = token[s].full /\ token'[s].closed = token[s].closed
      BY <2>1, <2>3 DEF Grows
    <3>3. ASSUME NEW r \in Slots \ {s}
          PROVE  Grows(r) /\ token'[r].full = token[r].full /\ token'[r].closed = token[r].closed
      BY <2>3, <3>1 DEF Grows
    <3> QED BY <1>2, <3>2, <3>3
  <2>6. Pushing' = Pushing /\ \A u \in Pushing : u # t /\ claim'[u] = claim[u]
    BY <1>1, <2>4 DEF Pushing
  <2>7. QueueInv'
    BY <1>1, <2>5, <2>6, SameReserved, QueueFrame
  <2>8. DueInv'
    BY <1>1, <2>5, <2>6, DueFrame DEF RingInv, TypeOK
  <2>9. ASSUME NEW u \in Threads PROVE ThreadInv(u)' /\ LaunchedInv(u)'
    <3>1. CASE u # t
      <4>1. ThreadInv(u)'
        <5>1. Slot(seq[u]) \in Slots /\ head <= head'
          BY <1>1, SlotRoundType DEF TypeOK, Seqs
        <5> QED BY <1>1, <2>4, <2>5, <3>1, <5>1, ThreadFrame DEF RingInv
      <4>2. LaunchedInv(u)'
        BY <1>1, <2>4, <3>1 DEF RingInv, LaunchedInv, Launched
      <4> QED BY <4>1, <4>2
    <3>2. CASE u = t
      <4>1. At(n)' = n /\ At(seq[t])' = At(n)' /\ Slot(seq[t])' = s
        BY <1>1, <1>2, <2>1, <2>5, GrowsAt DEF At
      <4>2. pc'[t] = "popFull" => Gone(seq[t])'
        BY <1>1, <2>1, <2>3, <2>4, <4>1 DEF Gone, Uncommittable
      <4>3. LaunchedInv(t)'
        BY <2>2, <2>4 DEF LaunchedInv, Launched, AtWork
      <4>4. ThreadInv(t)'
        BY <1>1, <1>2, <2>1, <2>2, <2>3, <2>4, <4>1, <4>2
        DEF ThreadInv, Claiming, Holding, Alone
      <4> QED BY <3>2, <4>3, <4>4
    <3> QED BY <3>1, <3>2
  <2>10. ClaimsDisjoint'
    <3>1. ASSUME NEW u \in Threads, u # t, pc[u] \in Claiming, seq[u] = n
          PROVE  \A j \in RowsOf(u)' : j < tok.sc
      <4>1. claim[u].off + claim[u].cnt <= tok.sc /\ claim[u] \in Claim
        BY <2>1, <3>1 DEF RingInv, ThreadInv, TypeOK
      <4> QED BY <2>1, <2>4, <3>1, <4>1 DEF RowsOf, Claim
    <3>2. \A j \in RowsOf(t)' : j >= tok.sc
      BY <2>1, <2>2, <2>4 DEF RowsOf
    <3>3. \A u, v \in Threads : u # t /\ v # t => RowsOf(u)' = RowsOf(u) /\ RowsOf(v)' = RowsOf(v)
      BY <2>4 DEF RowsOf
    <3>4. ASSUME NEW u \in Threads, NEW v \in Threads, u # v, pc'[u] \in Claiming,
                 pc'[v] \in Claiming, seq[u] = seq[v]
          PROVE  RowsOf(u)' \intersect RowsOf(v)' = {}
      <4>1. CASE u # t /\ v # t
        BY <2>4, <3>3, <3>4, <4>1 DEF RingInv, ClaimsDisjoint
      <4>2. CASE u = t
        <5>1. \A j \in RowsOf(v)' : j < tok.sc /\ j \in Int
          BY <2>4, <3>1, <3>4, <4>2 DEF RowsOf
        <5> QED BY <2>1, <3>2, <4>2, <5>1
      <4>3. CASE v = t
        <5>1. \A j \in RowsOf(u)' : j < tok.sc /\ j \in Int
          BY <2>4, <3>1, <3>4, <4>3 DEF RowsOf
        <5> QED BY <2>1, <3>2, <4>3, <5>1
      <4> QED BY <4>1, <4>2, <4>3
    <3> QED BY <1>1, <3>4 DEF ClaimsDisjoint
  <2>11. ASSUME NEW b \in Buffers PROVE KernelInv(b)'
    <3>1. kern[b].stage = "gather" /\ tok.sc = 0 => kern[b].seq # n
      BY DEF RingInv, KernelInv
    <3> QED BY <1>1, <2>2, <2>4, <2>5, <3>1, KernelFrame DEF RingInv
  <2>12. ASSUME NEW b \in Buffers, NEW i \in Rows PROVE BlockInv(b, i)'
    <3>1. \A r \in Slots : Batch(r)' = Batch(r)
      BY <2>5 DEF Grows, Batch
    <3>2. \A u \in Threads : Pending(u, i)' => Pending(u, i) \/ (u = t /\ tok.sc <= i)
      BY <2>1, <2>2, <2>4 DEF Pending, Rows
    <3>3. ASSUME kern[b].stage = "gather", blk[b][i] = "done"
          PROVE  /\ \A u \in Threads : seq[u] = kern[b].seq => ~Pending(u, i)'
                 /\ token'[Slot(kern[b].seq)].sc <= i => token'[Slot(kern[b].seq)].closed
      <4>1. Slot(kern[b].seq) \in Slots /\ i \in Nat
        BY <3>3, SlotRoundType DEF KernelSet, Rows
      <4>2. /\ \A u \in Threads : seq[u] = kern[b].seq => ~Pending(u, i)
            /\ token[Slot(kern[b].seq)].sc <= i => token[Slot(kern[b].seq)].closed
        BY <3>3 DEF RingInv, BlockInv
      <4>3. kern[b].seq = n => ~(tok.sc <= i)
        BY <2>1, <4>2
      <4>4. token[Slot(kern[b].seq)].sc <= token'[Slot(kern[b].seq)].sc
            /\ token[Slot(kern[b].seq)].sc \in Nat /\ token'[Slot(kern[b].seq)].sc \in Nat
        BY <2>5, <4>1 DEF Grows, TypeOK, Token
      <4> QED BY <2>5, <3>2, <4>1, <4>2, <4>3, <4>4
    <3>4. ASSUME ptrs[b][i].query # NoQuery, NEW r \in Slots, token[r].full, token[r].buf = b
          PROVE  i < token'[r].sc /\ \A u \in Threads : seq[u] = Batch(r) => ~Pending(u, i)'
      <4>1. i < token[r].sc /\ \A u \in Threads : seq[u] = Batch(r) => ~Pending(u, i)
        BY <3>4 DEF RingInv, BlockInv
      <4>2. n = Batch(r) => r = s
        BY <1>2, <2>1, BatchOfSlot
      <4>3. token[r].sc <= token'[r].sc /\ token[r].sc \in Nat /\ token'[r].sc \in Nat /\ i \in Nat
        BY <2>5 DEF Grows, TypeOK, Token, Rows
      <4> QED BY <3>2, <4>1, <4>2, <4>3
    <3> QED BY <1>1, <2>3, <2>5, <3>1, <3>3, <3>4 DEF RingInv, BlockInv, Grows
  <2> QED BY <2>7, <2>8, <2>9, <2>10, <2>11, <2>12 DEF RingInv
<1> QED BY <1>1, <1>2, <1>3, <1>4, <1>5 DEF TryCommit

\* pop(): the head gets past a batch that nobody commits to any more.
LEMMA RingPop ==
  ASSUME TypeInv, TypeInv', RingInv, NEW t \in Threads, Pop(t)
  PROVE  RingInv'
<1> USE DEF Goto, bufferVars, TypeInv
<1> DEFINE n == seq[t]
<1>1. /\ ThreadInv(t) /\ LaunchedInv(t) /\ QueueInv /\ n <= head /\ Gone(n)
      /\ pc[t] \in {"popRetry", "popFull"}
      /\ UNCHANGED <<tail, token, ptrs, blk, kern, seq, claim, req>>
      /\ n \in Nat /\ head \in Nat /\ head' \in Nat /\ tail \in Nat /\ KSize \in Nat
  BY SizesAssumption DEF RingInv, ThreadInv, Pop, TypeOK, Seqs
<1>2. head' = head \/ (n = head /\ head' = n + 1)
  BY <1>1 DEF Pop, Popped
<1>3. (\A r : Batch(r)' = Batch(r)) /\ (\A m : At(m)' = At(m) /\ (Gone(m)' <=> Gone(m)))
  BY <1>1 DEF Batch, At, Gone
<1>4. Pushing' = Pushing
  BY <1>1 DEF Pop, Pushing, AfterCommit, TypeOK
<1>5. Reserved' = Reserved
  BY <1>1, <1>4, SameReserved
<1>6. At(n) >= n
  BY <1>1, AtOf DEF Gone
<1>7. QueueInv'
  <2>1. ASSUME NEW s \in Slots PROVE SlotInv(s)'
    <3>1. SlotInv(s) /\ Batch(s) \in Nat /\ Slot(Batch(s)) = s
      BY <1>1, BatchOfSlot DEF QueueInv
    <3>2. head' <= Batch(s) + KSize
      <4>1. ASSUME n = Batch(s) + KSize PROVE FALSE
        <5>1. Slot(n) = s
          BY <3>1, <4>1, NextRound
        <5> QED BY <1>1, <1>6, <3>1, <4>1, <5>1, SizesAssumption DEF At
      <4> QED BY <1>1, <1>2, <3>1, <4>1 DEF SlotInv
    <3> QED BY <1>1, <1>3, <1>5, <3>1, <3>2 DEF SlotInv
  <2>2. ReservedInv'
    BY <1>1, <1>3, <1>4, <1>5 DEF QueueInv, ReservedInv
  <2>3. PoppedInv'
    BY <1>1, <1>2, <1>3 DEF QueueInv, PoppedInv
  <2>4. OffersInv'
    BY <1>1 DEF QueueInv, OffersInv
  <2> QED BY <2>1, <2>2, <2>3, <2>4 DEF QueueInv
<1>8. /\ pc'[t] \in {"head", "await", "launch", "submit"}
      /\ \A u \in Threads \ {t} : pc'[u] = pc[u]
      /\ pc[t] = "popRetry" => pc'[t] = "head"
      /\ pc[t] = "popFull" => pc'[t] # "head"
      /\ pc'[t] = "await" => claim[t].buf = None
      /\ pc'[t] = "launch" => claim[t].off = 0
      /\ pc'[t] = "submit" => claim[t].off # 0
  BY <1>1 DEF Pop, AfterCommit, TypeOK
<1>9. At(seq[t])' = At(n)' /\ At(n)' = At(n)
  BY <1>1 DEF At, Batch
<1>10. ThreadInv(t)' /\ LaunchedInv(t)'
  <2>1. n <= head'
    BY <1>1, <1>2
  <2> QED BY <1>1, <1>8, <1>9, <2>1
      DEF ThreadInv, LaunchedInv, Launched, AtWork, Alone, Claiming, Holding
<1> QED BY <1>1, <1>2, <1>7, <1>8, <1>10, ThreadMoveHead DEF Claiming, Holding

\* The dispatcher finds its buffer unused.
LEMMA LaunchIsFirst ==
  ASSUME TypeInv, RingInv, NEW t \in Threads, pc[t] = "launch"
  PROVE  LET n == seq[t]
             b == claim[t].buf
         IN  /\ n \in Nat /\ Slot(n) \in Slots /\ b \in Buffers /\ At(n) = n
             /\ token[Slot(n)].full /\ token[Slot(n)].buf = b /\ token[Slot(n)].sc > 0
             /\ kern[b].stage = "idle" /\ kern[b].next = None
<1> USE DEF TypeInv
<1> DEFINE n == seq[t]
           b == claim[t].buf
<1>1. n \in Nat /\ Slot(n) \in Slots /\ b \in Buffers /\ b # None
  <2>1. n \in Nat /\ Slot(n) \in Slots
    BY SlotRoundType DEF TypeOK, Seqs
  <2>2. b \in Buffers
    BY DEF ClaimFits, Claiming, Acquired
  <2>3. None \notin Buffers
    BY DEF Buffers, None
  <2> QED BY <2>1, <2>2, <2>3
<1>2. /\ claim[t].sub = 0 /\ claim[t].cnt > 0 /\ claim[t].off = 0 /\ At(n) = n
      /\ token[Slot(n)].full /\ token[Slot(n)].buf = b
      /\ claim[t].off + claim[t].cnt <= token[Slot(n)].sc
  BY <1>1 DEF RingInv, ThreadInv, Claiming, Holding, Alone
<1>3. token[Slot(n)].sc > 0
  BY <1>1, <1>2, SizesAssumption DEF TypeOK, Token, Claim
<1>4. kern[b].stage \notin {"gathered", "copied"}
  BY <1>1, <1>2 DEF RingInv, KernelInv
<1>5. kern[b].stage # "gather"
  <2> SUFFICES ASSUME kern[b].stage = "gather" PROVE FALSE
    OBVIOUS
  <2> DEFINE m == kern[b].seq
  <2>1. m \in Nat /\ Slot(m) \in Slots
    BY <1>1, SlotRoundType DEF KernelSet
  <2>2. token[Slot(m)].full /\ token[Slot(m)].buf = b /\ At(m) = m /\ n # m
    BY <1>1, <1>2 DEF RingInv, KernelInv
  <2>3. Slot(m) = Slot(n)
    BY <1>1, <1>2, <2>1, <2>2 DEF RingInv, QueueInv, OffersInv
  <2> QED BY <1>2, <2>2, <2>3 DEF At
<1>6. kern[b].stage = "idle"
  BY <1>1, <1>4, <1>5 DEF TypeOK, KernelState
<1> QED BY <1>1, <1>2, <1>3, <1>6 DEF RingInv, KernelInv

\* Nobody else has rows of a batch at offset 0.
LEMMA OneDispatcher ==
  ASSUME TypeOK, RingInv, NEW t \in Threads, NEW u \in Threads,
         pc[t] \in Claiming, pc[u] \in Claiming, claim[t].off = 0, claim[u].off = 0,
         seq[t] = seq[u]
  PROVE  t = u
<1>1. claim[t].cnt > 0 /\ claim[u].cnt > 0 /\ claim[t].cnt \in Nat /\ claim[u].cnt \in Nat
  BY SizesAssumption DEF RingInv, ThreadInv, TypeOK, Claim
<1>2. 0 \in RowsOf(t) /\ 0 \in RowsOf(u)
  BY <1>1 DEF RowsOf
<1> QED BY <1>2 DEF RingInv, ClaimsDisjoint

LEMMA RingLaunchGather ==
  ASSUME TypeInv, TypeInv', RingInv, NEW t \in Threads, LaunchGather(t)
  PROVE  RingInv'
<1> USE DEF Goto, TypeInv
<1> DEFINE n == seq[t]
           c == claim[t].buf
<1>1. /\ n \in Nat /\ Slot(n) \in Slots /\ c \in Buffers /\ At(n) = n
      /\ token[Slot(n)].full /\ token[Slot(n)].buf = c /\ token[Slot(n)].sc > 0
      /\ kern[c].stage = "idle" /\ kern[c].next = None
  BY LaunchIsFirst DEF LaunchGather
<1>2. /\ pc[t] = "launch" /\ pc'[t] = "submit" /\ \A u \in Threads \ {t} : pc'[u] = pc[u]
      /\ UNCHANGED <<head, tail, token, ptrs, seq, claim, req>>
  BY DEF LaunchGather, TypeOK
<1>3. /\ kern'[c].stage = "gather" /\ kern'[c].seq = n /\ kern'[c].next = None
      /\ \A b \in Buffers \ {c} : kern'[b] = kern[b] /\ blk'[b] = blk[b]
      /\ \A i \in Rows : blk'[c][i] = "poll"
  BY <1>1 DEF LaunchGather, TypeOK
<1>4. \A s \in Slots : Grows(s)
  BY <1>2 DEF Grows, TypeOK, Token
<1>5. Pushing' = Pushing /\ \A b \in Buffers : kern'[b].next = kern[b].next
  BY <1>1, <1>2, <1>3 DEF Pushing
<1>6. (\A r : Batch(r)' = Batch(r)) /\ (\A m : At(m)' = At(m) /\ (Gone(m)' <=> Gone(m)))
  BY <1>2 DEF Batch, At, Gone
<1>7. QueueInv'
  BY <1>2, <1>4, <1>5, SameReserved, QueueFrame DEF RingInv
<1>8. ThreadInv(t) /\ claim[t].off = 0 /\ pc[t] \in Claiming
  BY <1>2 DEF RingInv, ThreadInv, Alone, Claiming
<1>9. DueInv'
  <2> SUFFICES ASSUME NEW m \in 0..(tail - 1)
               PROVE  (\E b \in Buffers : Due(b, m)') \/ (m <= head /\ At(m) >= m)
    BY <1>2, <1>6 DEF DueInv
  <2>1. ASSUME NEW b \in Buffers, Due(b, m), m # n PROVE Due(b, m)'
    <3>1. CASE kern[b].stage = "idle" /\ \E s \in Slots :
                 token[s].full /\ token[s].buf = b /\ Batch(s) = m
      <4>1. PICK s \in Slots : token[s].full /\ token[s].buf = b /\ Batch(s) = m
        BY <3>1
      <4>2. b # c
        BY <1>1, <2>1, <4>1 DEF RingInv, QueueInv, OffersInv, At
      <4> QED BY <1>2, <1>3, <1>6, <3>1, <4>1, <4>2 DEF Due
    <3> QED BY <1>2, <1>5, <2>1, <3>1 DEF Due
  <2>2. n <= head /\ At(n) >= n
    BY <1>1, <1>8 DEF ThreadInv
  <2> QED BY <2>1, <2>2 DEF RingInv, DueInv
<1>10. ASSUME NEW u \in Threads PROVE ThreadInv(u)' /\ LaunchedInv(u)'
  <2>1. CASE u # t
    <3>1. Slot(seq[u]) \in Slots /\ head <= head'
      BY <1>2, SlotRoundType DEF TypeOK, Seqs
    <3>2. ThreadInv(u)'
      BY <1>2, <1>4, <2>1, <3>1, ThreadFrame DEF RingInv
    <3>3. LaunchedInv(u)'
      <4>1. Launched(u) => claim[u].buf \in Buffers
        BY DEF Launched, AtWork, ClaimFits, Acquired, Claiming
      <4>2. Launched(u) => claim[u].buf # c
        BY <1>1 DEF RingInv, LaunchedInv
      <4> QED BY <1>2, <1>3, <2>1, <4>1, <4>2 DEF RingInv, LaunchedInv, Launched
    <3> QED BY <3>2, <3>3
  <2>2. CASE u = t
    <3>1. At(seq[t])' = At(n)'
      BY <1>2 DEF At
    <3>2. LaunchedInv(t)'
      BY <1>2, <1>3 DEF LaunchedInv
    <3>3. ThreadInv(t)'
      BY <1>1, <1>2, <1>6, <1>8, <3>1 DEF ThreadInv, Claiming, Holding, Alone
    <3> QED BY <2>2, <3>2, <3>3
  <2> QED BY <2>1, <2>2
<1>11. ClaimsDisjoint'
  <2>1. \A u \in Threads : pc'[u] \in Claiming => pc[u] \in Claiming
    BY <1>2, <1>8
  <2> QED BY <1>2, <2>1, ClaimsFrame DEF RingInv
<1>12. ASSUME NEW b \in Buffers PROVE KernelInv(b)'
  <2>1. CASE b # c
    <3>1. \A u \in Threads : pc'[u] \in {"popFull", "await", "launch"} => pc[u] = pc'[u]
      BY <1>2
    <3> QED BY <1>2, <1>3, <1>4, <2>1, <3>1, KernelFrame DEF RingInv
  <2>2. CASE b = c
    <3>1. \A u \in Threads : pc'[u] \in {"popFull", "await", "launch"} /\ claim'[u].off = 0
                              => seq'[u] # n
      BY <1>2, <1>8, OneDispatcher DEF Claiming
    <3>2. At(kern[c].seq)' = At(n)'
      BY <1>2, <1>3 DEF At
    <3> QED BY <1>1, <1>2, <1>3, <1>6, <2>2, <3>1, <3>2 DEF KernelInv
  <2> QED BY <2>1, <2>2
<1>13. ASSUME NEW b \in Buffers, NEW i \in Rows PROVE BlockInv(b, i)'
  <2>1. NothingNewPending
    BY <1>2 DEF NothingNewPending, Pending, Holding
  <2>2. CASE b # c
    BY <1>2, <1>3, <1>4, <2>1, <2>2, BlockFrame DEF RingInv
  <2>3. CASE b = c
    BY <1>1, <1>2, <1>3, <1>6, <2>1, <2>3 DEF RingInv, BlockInv, NothingNewPending
  <2> QED BY <2>2, <2>3
<1> QED BY <1>7, <1>9, <1>10, <1>11, <1>12, <1>13 DEF RingInv

LEMMA RingSubmitQuery ==
  ASSUME TypeInv, TypeInv', RingInv, NEW t \in Threads, SubmitQuery(t)
  PROVE  RingInv'
<1> USE DEF queueVars, TypeInv
<1> DEFINE n == seq[t]
           c == claim[t].buf
           k == claim[t].off + claim[t].sub
<1>1. /\ pc[t] = "submit" /\ claim[t].sub < claim[t].cnt
      /\ UNCHANGED <<head, tail, token, blk, kern, pc, seq, req>>
      /\ ptrs' = [ptrs EXCEPT ![c][k] = Pointers(t)]
      /\ n \in Nat /\ Slot(n) \in Slots /\ c \in Buffers /\ c # None
      /\ claim[t].sub \in Nat /\ claim[t].cnt \in Nat /\ claim[t].off \in Nat
  <2>1. n \in Nat /\ Slot(n) \in Slots
    BY SlotRoundType DEF TypeOK, Seqs
  <2>2. c \in Buffers
    BY DEF SubmitQuery, ClaimFits, Claiming, Acquired
  <2>3. None \notin Buffers
    BY DEF Buffers, None
  <2> QED BY <2>1, <2>2, <2>3, SizesAssumption DEF SubmitQuery, TypeOK, Claim
<1>2. /\ claim'[t].sub = claim[t].sub + 1 /\ claim'[t].off = claim[t].off
      /\ claim'[t].cnt = claim[t].cnt /\ claim'[t].buf = claim[t].buf
      /\ \A u \in Threads \ {t} : claim'[u] = claim[u]
  BY DEF SubmitQuery, TypeOK, Claim
<1>3. /\ ThreadInv(t) /\ At(n) = n /\ token[Slot(n)].full /\ token[Slot(n)].buf = c
      /\ k < token[Slot(n)].sc
  <2>1. ThreadInv(t) /\ pc[t] \in Claiming
    BY <1>1 DEF RingInv, Claiming
  <2>2. /\ At(n) = n /\ token[Slot(n)].full /\ token[Slot(n)].buf = c
        /\ claim[t].off + claim[t].cnt <= token[Slot(n)].sc
    BY <1>1, <2>1 DEF ThreadInv
  <2>3. token[Slot(n)].sc \in Nat
    BY <1>1 DEF TypeOK, Token
  <2> QED BY <1>1, <2>1, <2>2, <2>3
<1>4. k \in Rows /\ Pending(t, k)
  <2>1. token[Slot(n)].sc \in 0..MaxBatch
    BY <1>1 DEF TypeOK, Token
  <2> QED BY <1>1, <1>3, <2>1, SizesAssumption DEF Rows, Pending, Holding
<1>5. \A s \in Slots : Grows(s)
  BY <1>1 DEF Grows, TypeOK, Token
<1>6. Pushing' = Pushing /\ \A u \in Pushing : u # t /\ claim'[u] = claim[u]
  BY <1>1, <1>2 DEF Pushing
<1>7. (\A r : Batch(r)' = Batch(r)) /\ (\A m : At(m)' = At(m))
  BY <1>1 DEF Batch, At
<1>8. QueueInv'
  BY <1>1, <1>5, <1>6, SameReserved, QueueFrame DEF RingInv
<1>9. DueInv'
  BY <1>1, <1>5, <1>6, DueFrame DEF RingInv, TypeOK
<1>10. ASSUME NEW u \in Threads PROVE ThreadInv(u)' /\ LaunchedInv(u)'
  <2>1. CASE u # t
    <3>1. Slot(seq[u]) \in Slots /\ head <= head'
      BY <1>1, SlotRoundType DEF TypeOK, Seqs
    <3>2. ThreadInv(u)'
      BY <1>1, <1>2, <1>5, <2>1, <3>1, ThreadFrame DEF RingInv
    <3>3. LaunchedInv(u)'
      BY <1>1, <1>2, <2>1 DEF RingInv, LaunchedInv, Launched
    <3> QED BY <3>2, <3>3
  <2>2. CASE u = t
    <3>1. At(seq[t])' = At(n)
      BY <1>1 DEF At, Batch
    <3>2. LaunchedInv(t)'
      BY <1>1, <1>2 DEF RingInv, LaunchedInv, Launched
    <3>3. ThreadInv(t)'
      BY <1>1, <1>2, <1>3, <3>1 DEF ThreadInv, Claiming, Holding, Alone
    <3> QED BY <2>2, <3>2, <3>3
  <2> QED BY <2>1, <2>2
<1>11. ClaimsDisjoint'
  BY <1>1, <1>2, ClaimsFrame DEF RingInv
<1>12. ASSUME NEW b \in Buffers PROVE KernelInv(b)'
  BY <1>1, <1>2, <1>5, KernelFrame DEF RingInv
<1>13. ASSUME NEW b \in Buffers, NEW i \in Rows PROVE BlockInv(b, i)'
  <2>1. NothingNewPending
    BY <1>1, <1>2 DEF NothingNewPending, Pending, Rows
  <2>2. CASE b # c \/ i # k
    <3>1. ptrs'[b][i] = ptrs[b][i]
      BY <1>1, <2>2 DEF TypeOK
    <3> QED BY <1>1, <1>5, <2>1, <3>1, BlockFrame DEF RingInv
  <2>3. CASE b = c /\ i = k
    <3>1. ~(kern[c].stage = "gather" /\ blk[c][i] = "done")
      <4> SUFFICES ASSUME kern[c].stage = "gather", blk[c][i] = "done" PROVE FALSE
        OBVIOUS
      <4> DEFINE m == kern[c].seq
      <4>1. m \in Nat /\ Slot(m) \in Slots
        BY <1>1, SlotRoundType DEF KernelSet
      <4>2. token[Slot(m)].full /\ token[Slot(m)].buf = c /\ At(m) = m
        BY <1>1 DEF RingInv, KernelInv
      <4>3. m = n
        BY <1>1, <1>3, <4>1, <4>2 DEF RingInv, QueueInv, OffersInv, At
      <4> QED BY <1>1, <1>4, <2>3, <4>3 DEF RingInv, BlockInv
    <3>2. kern[c].stage \in {"idle", "gather"}
      <4>1. kern[c].stage \notin {"gathered", "copied"}
        BY <1>1, <1>3 DEF RingInv, KernelInv
      <4> QED BY <1>1, <4>1 DEF TypeOK, KernelState
    <3>3. ASSUME NEW s \in Slots, token[s].full, token[s].buf = c
          PROVE  /\ i < token[s].sc
                 /\ \A u \in Threads : seq[u] = Batch(s) => ~Pending(u, i)'
      <4>1. s = Slot(n) /\ Batch(s) = n
        BY <1>1, <1>3, <3>3 DEF RingInv, QueueInv, OffersInv, At
      <4>2. ASSUME NEW u \in Threads, seq[u] = n, Pending(u, i)' PROVE FALSE
        <5>1. u # t
          BY <1>1, <1>2, <2>3, <4>2 DEF Pending
        <5>2. Pending(u, i)
          BY <1>1, <1>2, <4>2, <5>1 DEF Pending
        <5>3. /\ claim[u].off \in Nat /\ claim[u].cnt \in Nat /\ claim[u].sub \in Nat
              /\ pc[u] \in Claiming /\ pc[t] \in Claiming
          BY <1>1, <5>2, SizesAssumption DEF Pending, TypeOK, Claim, Claiming, Holding
        <5>4. i \in RowsOf(u) /\ i \in RowsOf(t)
          BY <1>1, <2>3, <5>2, <5>3 DEF RowsOf, Pending
        <5> QED BY <1>1, <4>2, <5>1, <5>3, <5>4 DEF RingInv, ClaimsDisjoint
      <4> QED BY <1>3, <2>3, <4>1, <4>2
    <3> QED BY <1>1, <1>7, <2>3, <3>1, <3>2, <3>3 DEF BlockInv
  <2> QED BY <2>2, <2>3
<1> QED BY <1>8, <1>9, <1>10, <1>11, <1>12, <1>13 DEF RingInv

-----------------------------------------------------------------------------
(* The reservation of a slot.                                              *)

\* An interval of numbers that are mapped to different buffers other than c has
\* fewer elements than there are buffers.
LEMMA FewerThanBuffers ==
  ASSUME NEW a \in Nat, NEW z \in Nat, NEW c \in Buffers,
         NEW f \in [a..(z - 1) -> Buffers \ {c}],
         \A i, j \in a..(z - 1) : f[i] = f[j] => i = j
  PROVE  z - a < NQueues
<1>1. IsFiniteSet(Buffers) /\ Cardinality(Buffers) = NQueues
  BY FS_Interval, SizesAssumption DEF Buffers
<1>2. IsFiniteSet(Buffers \ {c}) /\ Cardinality(Buffers \ {c}) = NQueues - 1
  BY <1>1, FS_RemoveElement
<1>3. f \in Injection(a..(z - 1), Buffers \ {c})
  BY DEF Injection, IsInjective
<1>4. Cardinality(a..(z - 1)) <= NQueues - 1
  BY <1>2, <1>3, FS_Injection
<1>5. Cardinality(a..(z - 1)) = IF a > z - 1 THEN 0 ELSE (z - 1) - a + 1
  BY FS_Interval
<1> QED BY <1>4, <1>5, SizesAssumption

\* A buffer is due for one batch at most.
LEMMA DueOnce ==
  ASSUME TypeInv, RingInv, NEW b \in Buffers, NEW m \in Nat, NEW p \in Nat, Due(b, m), Due(b, p)
  PROVE  m = p
<1>1. kern[b].stage = "idle" => kern[b].next = None
  BY DEF RingInv, KernelInv
<1>2. ASSUME NEW t \in Pushing, claim[t].buf = b
      PROVE  Launched(t) /\ kern[b].stage # "idle" /\ kern[b].next = None /\ kern[b].seq = seq[t]
  <2>1. t \in Threads /\ Launched(t)
    BY DEF Pushing, Launched, AtWork, Alone, RingInv, ThreadInv
  <2> QED BY <1>2, <2>1 DEF RingInv, LaunchedInv
<1>3. ASSUME NEW t \in Pushing, NEW u \in Pushing, claim[t].buf = b, claim[u].buf = b
      PROVE  t = u
  BY <1>2, <1>3, OneDispatcher DEF Pushing, Launched, TypeInv, Claiming
<1>4. ASSUME NEW r \in Slots, NEW s \in Slots, token[r].full, token[s].full,
             token[r].buf = b, token[s].buf = b
      PROVE  r = s
  BY <1>4 DEF RingInv, QueueInv, OffersInv
<1>5. None \notin Nat
  BY DEF None
<1> QED BY <1>1, <1>2, <1>3, <1>4, <1>5 DEF Due

\* The tail never gets more than a round ahead of its slot: each batch in between
\* would have a buffer coming, and one buffer is in the hands of the thread itself.
LEMMA TailInReach ==
  ASSUME TypeInv, RingInv, NEW t \in Threads, pc[t] = "push"
  PROVE  tail <= At(tail) + KSize
<1> USE DEF TypeInv
<1> DEFINE a == At(tail) + KSize
           c == claim[t].buf
<1>1. /\ tail \in Nat /\ head \in Nat /\ KSize \in Nat /\ NQueues <= KSize /\ NQueues \in Nat
      /\ At(tail) \in Nat /\ Slot(tail) \in Slots /\ Slot(At(tail)) = Slot(tail)
  BY AtOf, SizesAssumption DEF TypeOK
<1>2. head <= a /\ a \in Nat /\ Slot(a) = Slot(tail)
  BY <1>1, NextRound DEF RingInv, QueueInv, SlotInv, At
<1> SUFFICES ASSUME a < tail PROVE FALSE
  BY <1>1
<1>3. a + KSize <= tail
  BY <1>1, <1>2, SameSlot
<1>4. c \in Buffers /\ Launched(t) /\ kern[c].next = None /\ kern[c].stage # "idle"
      /\ kern[c].seq = seq[t]
  <2>1. c \in Buffers /\ Launched(t)
    BY DEF ClaimFits, Claiming, Acquired, Launched, AtWork, RingInv, ThreadInv, Alone
  <2> QED BY <2>1 DEF RingInv, LaunchedInv
<1>5. ASSUME NEW m \in a..(tail - 1) PROVE \E b \in Buffers \ {c} : Due(b, m)
  <2>1. m \in 0..(tail - 1) /\ m \in Nat
    BY <1>1, <1>2
  <2>2. ~(m <= head /\ At(m) >= m)
    <3>1. m <= head => m = a
      BY <1>1, <1>2, <2>1
    <3>2. At(a) = At(tail) /\ At(tail) < a
      BY <1>1, <1>2, SizesAssumption DEF At
    <3> QED BY <1>1, <3>1, <3>2
  <2>3. PICK b \in Buffers : Due(b, m)
    BY <2>1, <2>2 DEF RingInv, DueInv
  <2>4. ~Due(c, m)
    <3>1. kern[c].next # m
      BY <1>4, <2>1 DEF None
    <3>2. ASSUME NEW u \in Pushing, claim[u].buf = c PROVE FALSE
      <4>1. u \in Threads /\ Launched(u) /\ pc[u] = "pushWait"
        BY DEF Pushing, Launched, AtWork, Alone, RingInv, ThreadInv
      <4>2. seq[u] = seq[t]
        BY <1>4, <3>2, <4>1 DEF RingInv, LaunchedInv
      <4>3. u = t
        BY <1>4, <4>1, <4>2, OneDispatcher DEF Launched, Claiming
      <4> QED BY <4>1, <4>3
    <3> QED BY <1>4, <3>1, <3>2 DEF Due
  <2> QED BY <2>3, <2>4
<1> DEFINE f == [m \in a..(tail - 1) |-> CHOOSE b \in Buffers \ {c} : Due(b, m)]
<1>6. \A m \in a..(tail - 1) : f[m] \in Buffers \ {c} /\ Due(f[m], m)
  BY <1>5
<1>7. \A i, j \in a..(tail - 1) : f[i] = f[j] => i = j
  <2> SUFFICES ASSUME NEW i \in a..(tail - 1), NEW j \in a..(tail - 1), f[i] = f[j] PROVE i = j
    OBVIOUS
  <2>1. i \in Nat /\ j \in Nat
    BY <1>1, <1>2
  <2>2. f[i] \in Buffers /\ Due(f[i], i) /\ Due(f[i], j)
    BY <1>6
  <2> HIDE DEF f
  <2> QED BY <2>1, <2>2, DueOnce
<1>8. f \in [a..(tail - 1) -> Buffers \ {c}]
  BY <1>6
<1> HIDE DEF f, a
<1>9. tail - a < NQueues
  BY <1>1, <1>2, <1>4, <1>7, <1>8, FewerThanBuffers
<1> QED BY <1>1, <1>2, <1>3, <1>9

LEMMA RingPushReserve ==
  ASSUME TypeInv, TypeInv', RingInv, NEW t \in Threads, PushReserve(t)
  PROVE  RingInv'
<1> USE DEF Goto, bufferVars, TypeInv
<1> DEFINE c == claim[t].buf
<1>1. /\ pc[t] = "push" /\ pc'[t] = "pushWait" /\ \A u \in Threads \ {t} : pc'[u] = pc[u]
      /\ tail' = tail + 1 /\ UNCHANGED <<head, token, ptrs, blk, kern, seq, req>>
      /\ tail \in Nat /\ KSize \in Nat
  BY SizesAssumption DEF PushReserve, TypeOK
<1>2. /\ claim'[t].next = tail /\ claim'[t].off = claim[t].off /\ claim'[t].cnt = claim[t].cnt
      /\ claim'[t].sub = claim[t].sub /\ claim'[t].buf = claim[t].buf
      /\ \A u \in Threads \ {t} : claim'[u] = claim[u]
  BY DEF PushReserve, TypeOK, Claim
<1>3. /\ Pushing' = Pushing \union {t} /\ t \notin Pushing
      /\ \A u \in Pushing : u # t /\ claim'[u] = claim[u]
  BY <1>1, <1>2 DEF Pushing
<1>4. Reserved' = Reserved \union {tail}
  BY <1>1, <1>2, <1>3 DEF Reserved
<1>5. Reserved \subseteq Nat /\ \A p \in Reserved : p < tail
  BY ReservedType DEF RingInv, QueueInv, ReservedInv
<1>6. (\A r : Batch(r)' = Batch(r)) /\ (\A m : At(m)' = At(m) /\ (Gone(m)' <=> Gone(m)))
  BY <1>1 DEF Batch, At, Gone
<1>7. \A s \in Slots : Grows(s)
  BY <1>1 DEF Grows, TypeOK, Token
<1>8. At(tail) <= tail /\ tail <= At(tail) + KSize
  <2>1. At(tail) \in Nat /\ Slot(tail) \in Slots /\ (At(tail) > tail => At(tail) >= tail + KSize)
    BY <1>1, AtOf
  <2>2. At(tail) < tail + KSize
    BY <2>1 DEF RingInv, QueueInv, SlotInv, At
  <2> QED BY <1>1, <2>1, <2>2, TailInReach
<1>9. QueueInv'
  <2>1. ASSUME NEW s \in Slots PROVE SlotInv(s)'
    <3>1. SlotInv(s) /\ Batch(s) \in Nat
      BY BatchOfSlot DEF RingInv, QueueInv
    <3> QED BY <1>1, <1>4, <1>6, <3>1 DEF SlotInv
  <2>2. ReservedInv'
    <3>1. ASSUME NEW p \in Reserved' PROVE p < tail' /\ At(p)' <= p /\ p <= At(p)' + KSize
      <4>1. CASE p \in Reserved
        <5>1. p < tail /\ At(p) <= p /\ p <= At(p) + KSize
          BY <4>1 DEF RingInv, QueueInv, ReservedInv
        <5>2. At(p)' = At(p)
          BY <1>6
        <5>3. p \in Nat /\ tail \in Nat /\ tail' = tail + 1
          BY <1>1, <1>5, <4>1
        <5> QED BY <5>1, <5>2, <5>3
      <4>2. CASE p = tail
        BY <1>1, <1>6, <1>8, <4>2
      <4> QED BY <1>4, <4>1, <4>2
    <3>2. \A u \in Pushing : claim[u].next # tail
      <4>1. \A u \in Pushing : claim[u].next \in Reserved
        BY DEF Reserved
      <4>2. tail \notin Reserved
        BY <1>1, <1>5
      <4> QED BY <4>1, <4>2
    <3>3. \A b \in Buffers : kern[b].next # tail
      BY <1>1, <1>5 DEF Reserved, None
    <3> QED BY <1>1, <1>2, <1>3, <1>6, <3>1, <3>2, <3>3 DEF RingInv, QueueInv, ReservedInv
  <2>3. PoppedInv' /\ OffersInv'
    BY <1>1, <1>6 DEF RingInv, QueueInv, PoppedInv, OffersInv
  <2> QED BY <2>1, <2>2, <2>3 DEF QueueInv
<1>10. DueInv'
  <2> SUFFICES ASSUME NEW m \in 0..tail
               PROVE  (\E b \in Buffers : Due(b, m)') \/ (m <= head /\ At(m) >= m)
    BY <1>1, <1>6 DEF DueInv
  <2>1. CASE m = tail
    <3>1. PICK b \in Buffers : b = c
      BY <1>1 DEF ClaimFits, Claiming, Acquired
    <3>2. Due(b, m)'
      BY <1>2, <1>3, <2>1, <3>1 DEF Due
    <3> QED BY <3>2
  <2>2. CASE m # tail
    <3>1. m \in 0..(tail - 1)
      BY <1>1, <2>2
    <3>2. ASSUME NEW b \in Buffers, Due(b, m) PROVE Due(b, m)'
      BY <1>1, <1>3, <1>6, <3>2 DEF Due
    <3> QED BY <3>1, <3>2 DEF RingInv, DueInv
  <2> QED BY <2>1, <2>2
<1>11. ASSUME NEW u \in Threads PROVE ThreadInv(u)' /\ LaunchedInv(u)'
  <2>1. CASE u # t
    <3>1. Slot(seq[u]) \in Slots /\ head <= head'
      BY <1>1, SlotRoundType DEF TypeOK, Seqs
    <3>2. ThreadInv(u)'
      BY <1>1, <1>2, <1>7, <2>1, <3>1, ThreadFrame DEF RingInv
    <3>3. LaunchedInv(u)'
      BY <1>1, <1>2, <2>1 DEF RingInv, LaunchedInv, Launched
    <3> QED BY <3>2, <3>3
  <2>2. CASE u = t
    <3>1. At(seq[t])' = At(seq[t])
      BY <1>1 DEF At, Batch
    <3>2. LaunchedInv(t)'
      BY <1>1, <1>2 DEF RingInv, LaunchedInv, Launched, AtWork
    <3>3. ThreadInv(t)'
      BY <1>1, <1>2, <3>1 DEF RingInv, ThreadInv, Claiming, Holding, Alone
    <3> QED BY <2>2, <3>2, <3>3
  <2> QED BY <2>1, <2>2
<1>12. ClaimsDisjoint'
  <2>1. \A u \in Threads : pc'[u] \in Claiming => pc[u] \in Claiming
    BY <1>1 DEF Claiming
  <2> QED BY <1>1, <1>2, <2>1, ClaimsFrame DEF RingInv
<1>13. ASSUME NEW b \in Buffers PROVE KernelInv(b)'
  BY <1>1, <1>2, <1>7, KernelFrame DEF RingInv
<1>14. ASSUME NEW b \in Buffers, NEW i \in Rows PROVE BlockInv(b, i)'
  <2>1. NothingNewPending
    BY <1>1, <1>2 DEF NothingNewPending, Pending, Holding
  <2> QED BY <1>1, <1>7, <2>1, BlockFrame DEF RingInv
<1> QED BY <1>9, <1>10, <1>11, <1>12, <1>13, <1>14 DEF RingInv

\* What the thread in push() learns from the status of the slot it reserved.
LEMMA PushReads ==
  ASSUME TypeInv, RingInv, NEW t \in Threads, pc[t] = "pushWait"
  PROVE  LET p   == claim[t].next
             tok == token[Slot(p)]
             st  == Status(tok, p)
         IN  /\ p \in Nat /\ p \in Reserved /\ p < tail /\ Slot(p) \in Slots /\ p # None
             /\ st # Invalid
             /\ ~InUse(st) => At(p) = p /\ ~tok.full
<1> USE DEF TypeInv
<1> DEFINE p   == claim[t].next
           tok == token[Slot(p)]
           st  == Status(tok, p)
<1>1. p \in Nat /\ p \in Reserved
  BY DEF ClaimFits, Claiming, Acquired, Pushing, Reserved
<1>2. p < tail /\ At(p) <= p /\ p <= At(p) + KSize /\ p # None
  BY <1>1 DEF RingInv, QueueInv, ReservedInv, None
<1>3. Slot(p) \in Slots /\ tok \in Token /\ At(p) \in Nat
  BY <1>1, AtOf DEF TypeOK
<1>4. (At(p) = p /\ tok.round = Round(p)) \/ tok.round = Round(p) - 1
  <2>1. At(p) = p => tok.round = Round(p)
    BY <1>1, AtOf
  <2>2. At(p) < p => tok.round = Round(p) - 1
    BY <1>1, <1>2, OneRoundBehind
  <2> QED BY <1>1, <1>2, <1>3, <2>1, <2>2
<1>5. tok.round - Round(p) \in {-1, 0}
  BY <1>1, <1>4, AtOf
<1>6. tok.round - Round(p) \in (-1)..(EmptyOffset - 1)
  BY <1>5, SizesAssumption
<1>7. st # Invalid /\ (tok.round - Round(p) = -1 => InUse(st))
  BY <1>1, <1>3, <1>6, StatusRead
<1>8. ~InUse(st) => tok.round = Round(p)
  <2>1. tok.round \in Nat /\ Round(p) \in Nat
    BY <1>1, AtOf
  <2> QED BY <1>5, <1>7, <2>1
<1>9. ~InUse(st) => At(p) = p
  BY <1>1, <1>8, AtOf
<1>10. At(p) = p => ~tok.full
  BY <1>1, <1>3 DEF RingInv, QueueInv, SlotInv, At
<1> QED BY <1>1, <1>2, <1>3, <1>7, <1>9, <1>10

\* push() comes back only when the slot is empty and at the reserved batch.
LEMMA RingPushWait ==
  ASSUME TypeInv, TypeInv', RingInv, NEW t \in Threads, PushWait(t)
  PROVE  RingInv'
<1> USE DEF Goto, queueVars, TypeInv
<1> DEFINE c   == claim[t].buf
           p   == claim[t].next
           tok == token[Slot(p)]
           st  == Status(tok, p)
<1>1. /\ pc[t] = "pushWait" /\ ~InUse(st)
      /\ UNCHANGED <<head, tail, token, ptrs, blk, seq, claim, req>>
      /\ p \in Nat /\ c \in Buffers /\ p \in Reserved /\ t \in Pushing
  BY DEF PushWait, ClaimFits, Claiming, Acquired, Pushing, Reserved
<1>2. p < tail /\ p # None
  BY <1>1, PushReads
<1>4. st # Invalid /\ At(p) = p
  BY <1>1, PushReads
<1>5. ~tok.full
  BY <1>1, PushReads
<1>6. /\ Launched(t) /\ kern[c].stage \in {"gather", "gathered"} /\ kern[c].seq = seq[t]
      /\ kern[c].next = None /\ claim[t].off = 0
  <2>1. Launched(t)
    BY <1>1 DEF Launched, AtWork, Alone, RingInv, ThreadInv
  <2> QED BY <2>1 DEF RingInv, LaunchedInv, Launched
<1>7. /\ pc'[t] = "record" /\ \A u \in Threads \ {t} : pc'[u] = pc[u]
      /\ kern'[c].stage = kern[c].stage /\ kern'[c].seq = kern[c].seq /\ kern'[c].next = p
      /\ \A b \in Buffers \ {c} : kern'[b] = kern[b]
  <2>1. Goto(t, "record") /\ kern' = [kern EXCEPT ![c].size = claim[t].size, ![c].next = p]
    BY <1>4 DEF PushWait
  <2>2. kern[c] \in KernelState /\ c \in Buffers
    BY <1>1 DEF TypeOK
  <2>3. kern' = [kern EXCEPT ![c] = [kern[c] EXCEPT !.size = claim[t].size, !.next = p]]
    BY <2>1
  <2>4. /\ kern'[c] = [kern[c] EXCEPT !.size = claim[t].size, !.next = p]
        /\ \A b \in Buffers \ {c} : kern'[b] = kern[b]
    BY <2>2, <2>3 DEF TypeOK
  <2>5. kern'[c].stage = kern[c].stage /\ kern'[c].seq = kern[c].seq /\ kern'[c].next = p
    BY <2>2, <2>4 DEF KernelState
  <2>6. pc'[t] = "record" /\ \A u \in Threads \ {t} : pc'[u] = pc[u]
    BY <2>1 DEF TypeOK
  <2> QED BY <2>4, <2>5, <2>6
<1>8. Pushing' = Pushing \ {t}
  BY <1>1, <1>7 DEF Pushing
<1>9. Reserved' = Reserved
  <2>1. \A r : r \in {claim[u].next : u \in Pushing'} \union {p} <=> r \in {claim[u].next : u \in Pushing}
    BY <1>1, <1>8
  <2>2. \A r : r \in {kern'[b].next : b \in Buffers} \ {None} <=>
               r \in ({kern[b].next : b \in Buffers} \ {None}) \union {p}
    BY <1>1, <1>2, <1>6, <1>7
  <2> QED BY <1>1, <2>1, <2>2 DEF Reserved
<1>10. (\A r : Batch(r)' = Batch(r)) /\ (\A m : At(m)' = At(m) /\ (Gone(m)' <=> Gone(m)))
  BY <1>1 DEF Batch, At, Gone
<1>11. \A s \in Slots : Grows(s)
  BY <1>1 DEF Grows, TypeOK, Token
<1>12. QueueInv'
  <2>1. ASSUME NEW s \in Slots PROVE SlotInv(s)'
    BY <1>1, <1>9, <1>10 DEF RingInv, QueueInv, SlotInv
  <2>2. ReservedInv'
    <3>1. \A q \in Reserved' : q < tail' /\ At(q)' <= q /\ q <= At(q)' + KSize
      BY <1>1, <1>9, <1>10 DEF RingInv, QueueInv, ReservedInv
    <3>2. \A u, v \in Pushing' : claim'[u].next = claim'[v].next => u = v
      BY <1>1, <1>8 DEF RingInv, QueueInv, ReservedInv
    <3>3. \A b \in Buffers : kern[b].next # p
      BY <1>1, <1>2 DEF RingInv, QueueInv, ReservedInv
    <3>4. \A b, d \in Buffers : kern'[b].next # None /\ kern'[b].next = kern'[d].next => b = d
      BY <1>7, <3>3 DEF RingInv, QueueInv, ReservedInv
    <3>5. ASSUME NEW b \in Buffers, NEW q, q = kern'[b].next, q # None
          PROVE  /\ ~token[Slot(q)].full /\ At(q) = q
                 /\ \A u \in Pushing' : claim[u].next # q
      <4>1. CASE b = c
        BY <1>1, <1>4, <1>5, <1>7, <1>8, <3>5, <4>1 DEF RingInv, QueueInv, ReservedInv
      <4>2. CASE b # c
        BY <1>7, <1>8, <3>5, <4>2 DEF RingInv, QueueInv, ReservedInv
      <4> QED BY <4>1, <4>2
    <3>6. ASSUME NEW b \in Buffers, (kern[b].next # None)'
          PROVE  /\ (~token[Slot(kern[b].next)].full)' /\ (At(kern[b].next) = kern[b].next)'
                 /\ \A u \in Pushing' : claim'[u].next # (kern[b].next)'
      <4>1. PICK q : q = (kern[b].next)'
        OBVIOUS
      <4>2. At(kern[b].next)' = At(q)' /\ At(q)' = At(q)
        BY <1>10, <4>1 DEF At
      <4> QED BY <1>1, <3>5, <3>6, <4>1, <4>2
    <3> QED BY <3>1, <3>2, <3>4, <3>6 DEF ReservedInv
  <2>3. PoppedInv' /\ OffersInv'
    BY <1>1, <1>10 DEF RingInv, QueueInv, PoppedInv, OffersInv
  <2> QED BY <2>1, <2>2, <2>3 DEF QueueInv
<1>13. DueInv'
  <2> SUFFICES ASSUME NEW m \in 0..(tail - 1), NEW b \in Buffers, Due(b, m)
               PROVE  Due(b, m)'
    BY <1>1, <1>10 DEF RingInv, DueInv
  <2>0. m # None
    BY DEF None
  <2>1. CASE kern[b].next = m
    BY <1>6, <1>7, <2>0, <2>1 DEF Due
  <2>2. CASE \E u \in Pushing : claim[u].next = m /\ claim[u].buf = b
    BY <1>1, <1>7, <1>8, <2>2 DEF Due
  <2>3. CASE kern[b].stage = "idle" /\ \E s \in Slots :
               token[s].full /\ token[s].buf = b /\ Batch(s) = m
    BY <1>1, <1>6, <1>7, <1>10, <2>3 DEF Due
  <2> QED BY <2>1, <2>2, <2>3 DEF Due
<1>14. ASSUME NEW u \in Threads PROVE ThreadInv(u)' /\ LaunchedInv(u)'
  <2>1. CASE u # t
    <3>1. Slot(seq[u]) \in Slots /\ head <= head'
      BY <1>1, SlotRoundType DEF TypeOK, Seqs
    <3>2. ThreadInv(u)'
      BY <1>1, <1>7, <1>11, <2>1, <3>1, ThreadFrame DEF RingInv
    <3>3. LaunchedInv(u)'
      <4>1. Launched(u) => claim[u].buf \in Buffers
        BY DEF Launched, AtWork, ClaimFits, Acquired, Claiming
      <4>2. Launched(u) => claim[u].buf # c
        <5>1. Launched(u) /\ claim[u].buf = c => seq[u] = seq[t]
          BY <1>6 DEF RingInv, LaunchedInv
        <5> QED BY <1>6, <2>1, <5>1, OneDispatcher DEF Launched, AtWork, Claiming
      <4> QED BY <1>1, <1>7, <2>1, <4>1, <4>2 DEF RingInv, LaunchedInv, Launched
    <3> QED BY <3>2, <3>3
  <2>2. CASE u = t
    <3>1. At(seq[t])' = At(seq[t])
      BY <1>1 DEF At, Batch
    <3>2. LaunchedInv(t)'
      BY <1>7 DEF LaunchedInv, Launched, AtWork
    <3>3. ThreadInv(t)'
      BY <1>1, <1>6, <1>7, <3>1 DEF RingInv, ThreadInv, Claiming, Holding, Alone
    <3> QED BY <2>2, <3>2, <3>3
  <2> QED BY <2>1, <2>2
<1>15. ClaimsDisjoint'
  <2>1. \A u \in Threads : pc'[u] \in Claiming => pc[u] \in Claiming
    BY <1>1, <1>7 DEF Claiming
  <2> QED BY <1>1, <2>1, ClaimsFrame DEF RingInv
<1>16. ASSUME NEW b \in Buffers PROVE KernelInv(b)'
  <2>1. \A u \in Threads : pc'[u] \in {"popFull", "await", "launch"} => pc[u] = pc'[u]
    BY <1>7
  <2>2. CASE b # c
    BY <1>1, <1>7, <1>11, <2>1, <2>2, KernelFrame DEF RingInv
  <2>3. CASE b = c
    <3>1. (At(kern[c].seq))' = At(kern[c].seq)
      BY <1>1, <1>7 DEF At, Batch
    <3> QED BY <1>1, <1>6, <1>7, <2>1, <2>3, <3>1 DEF RingInv, KernelInv
  <2> QED BY <2>2, <2>3
<1>17. ASSUME NEW b \in Buffers, NEW i \in Rows PROVE BlockInv(b, i)'
  <2>1. NothingNewPending
    BY <1>1, <1>7 DEF NothingNewPending, Pending, Holding
  <2>2. kern'[b].stage = kern[b].stage /\ kern'[b].seq = kern[b].seq
    BY <1>7
  <2> QED BY <1>1, <1>11, <2>1, <2>2, BlockFrame DEF RingInv
<1> QED BY <1>12, <1>13, <1>14, <1>15, <1>16, <1>17 DEF RingInv

-----------------------------------------------------------------------------
(* The steps of the kernels.                                               *)

\* A step of a block of the gather kernel: the slots stay at their batches, full or
\* empty as they were, with what is committed to them.
LEMMA BlockStep ==
  ASSUME TypeInv, TypeInv', RingInv, UNCHANGED <<head, tail, kern, threadVars>>,
         \A s \in Slots : /\ Grows(s) /\ token'[s].full = token[s].full
                          /\ token'[s].sc = token[s].sc
                          /\ ~token[s].full => token'[s].closed = token[s].closed,
         \A b \in Buffers, i \in Rows : BlockInv(b, i)'
  PROVE  RingInv'
<1> USE DEF threadVars, TypeInv
<1>1. Pushing' = Pushing
  BY DEF Pushing
<1>2. QueueInv'
  BY <1>1, SameReserved, QueueFrame DEF RingInv
<1>3. DueInv'
  BY <1>1, DueFrame DEF RingInv, TypeOK
<1>4. ASSUME NEW u \in Threads PROVE ThreadInv(u)' /\ LaunchedInv(u)'
  <2>1. Slot(seq[u]) \in Slots /\ head <= head'
    BY SlotRoundType DEF TypeOK, Seqs
  <2>2. ThreadInv(u)'
    BY <2>1, ThreadFrame DEF RingInv
  <2>3. LaunchedInv(u)'
    BY DEF RingInv, LaunchedInv, Launched
  <2> QED BY <2>2, <2>3
<1>5. ClaimsDisjoint'
  BY ClaimsFrame DEF RingInv
<1>6. \A b \in Buffers : KernelInv(b)'
  BY KernelFrame DEF RingInv
<1> QED BY <1>2, <1>3, <1>4, <1>5, <1>6 DEF RingInv

\* While the gather kernel of buffer b runs, it is the slot of its batch that b is in.
LEMMA GatherSlot ==
  ASSUME TypeInv, RingInv, NEW b \in Buffers, kern[b].stage = "gather"
  PROVE  LET n == kern[b].seq
             s == Slot(n)
         IN  /\ n \in Nat /\ s \in Slots /\ token[s] \in Token
             /\ token[s].full /\ token[s].buf = b /\ Batch(s) = n /\ At(n) = n
             /\ \A r \in Slots : token[r].full /\ token[r].buf = b => r = s
             /\ \A t \in Threads, i \in Rows :
                  seq[t] = n /\ Pending(t, i) => i < token[s].sc
<1> USE DEF TypeInv
<1> DEFINE n == kern[b].seq
           s == Slot(n)
<1>1. n \in Nat /\ s \in Slots /\ token[s] \in Token
  BY SlotRoundType DEF KernelSet, TypeOK
<1>2. token[s].full /\ token[s].buf = b /\ At(n) = n
  BY DEF RingInv, KernelInv
<1>3. \A r \in Slots : token[r].full /\ token[r].buf = b => r = s
  BY <1>1, <1>2 DEF RingInv, QueueInv, OffersInv
<1>4. ASSUME NEW t \in Threads, NEW i \in Rows, seq[t] = n, Pending(t, i)
      PROVE  i < token[s].sc
  <2>1. claim[t].off + claim[t].cnt <= token[s].sc /\ i < claim[t].off + claim[t].cnt
    BY <1>2, <1>4 DEF RingInv, ThreadInv, Pending, Holding, Claiming
  <2>2. i \in Nat /\ token[s].sc \in Nat /\ claim[t].off + claim[t].cnt \in Nat
    BY <1>1, SizesAssumption DEF Rows, Token, TypeOK, Claim
  <2> QED BY <2>1, <2>2
<1> QED BY <1>1, <1>2, <1>3, <1>4 DEF At

LEMMA RingBlock ==
  ASSUME TypeInv, TypeInv', RingInv, NEW c \in Buffers, NEW k \in Rows, Block(c, k)
  PROVE  RingInv'
<1> USE DEF queueVars, TypeInv
<1> DEFINE n == kern[c].seq
           s == Slot(n)
<1>1. /\ n \in Nat /\ s \in Slots /\ token[s] \in Token /\ kern[c].stage = "gather"
      /\ token[s].full /\ token[s].buf = c /\ Batch(s) = n
      /\ \A r \in Slots : token[r].full /\ token[r].buf = c => r = s
      /\ \A t \in Threads, i \in Rows : seq[t] = n /\ Pending(t, i) => i < token[s].sc
      /\ k \in Nat /\ token[s].sc \in Nat
  <2>1. kern[c].stage = "gather" /\ k \in Nat
    BY DEF Block, GatherTake, GatherSkip, GatherExpire, GatherClose, Running, Rows
  <2> QED BY <2>1, GatherSlot DEF Token
<1>2. UNCHANGED <<head, tail, kern, threadVars>>
  BY DEF Block, GatherTake, GatherSkip, GatherExpire, GatherClose
<1>3. NothingNewPending
  BY <1>2 DEF NothingNewPending, Pending, threadVars
<1>4. \A s0 \in Slots : /\ Grows(s0) /\ token'[s0].full = token[s0].full
                        /\ token'[s0].sc = token[s0].sc
                        /\ ~token[s0].full => token'[s0].closed = token[s0].closed
  <2>1. CASE UNCHANGED token
    BY <2>1 DEF Grows, TypeOK, Token
  <2>2. CASE GatherClose(c, k)
    <3>1. token' = [token EXCEPT ![s] = [token[s] EXCEPT !.closed = TRUE]]
      BY <2>2 DEF GatherClose
    <3>2. token'[s] = [token[s] EXCEPT !.closed = TRUE]
          /\ \A r \in Slots \ {s} : token'[r] = token[r]
      BY <1>1, <3>1 DEF TypeOK
    <3>3. /\ token'[s].closed = TRUE /\ token'[s].sc = token[s].sc
          /\ token'[s].full = token[s].full
          /\ token'[s].round = token[s].round /\ token'[s].buf = token[s].buf
      <4>1. token[s] \in Token
        BY <1>1
      <4> QED BY <3>2, <4>1 DEF Token
    <3>5. \A r \in Slots : token[r].sc \in Nat
      BY DEF TypeOK, Token
    <3>6. Grows(s) /\ token'[s].full = token[s].full /\ token'[s].sc = token[s].sc
      BY <1>1, <3>3, <3>5 DEF Grows
    <3>7. ASSUME NEW r \in Slots \ {s}
          PROVE  Grows(r) /\ token'[r] = token[r]
      BY <3>2, <3>5 DEF Grows
    <3> QED BY <1>1, <3>6, <3>7
  <2> QED BY <2>1, <2>2 DEF Block, GatherTake, GatherSkip, GatherExpire
<1>5. token[s].closed \/ GatherClose(c, k) => token'[s].closed
  <2>1. GatherClose(c, k) => token'[s].closed
    <3> SUFFICES ASSUME GatherClose(c, k) PROVE token'[s].closed
      OBVIOUS
    <3>1. token'[s] = [token[s] EXCEPT !.closed = TRUE]
      BY <1>1 DEF GatherClose, TypeOK
    <3> QED BY <1>1, <3>1 DEF Token
  <2> QED BY <1>1, <1>4, <2>1 DEF Grows
<1>6. ASSUME NEW b \in Buffers, NEW i \in Rows PROVE BlockInv(b, i)'
  <2>1. CASE b # c \/ i # k
    <3>1. ptrs'[b][i] = ptrs[b][i] /\ blk'[b][i] = blk[b][i]
      BY <2>1 DEF Block, GatherTake, GatherSkip, GatherExpire, GatherClose, TypeOK
    <3> QED BY <1>2, <1>3, <1>4, <3>1, BlockFrame DEF RingInv
  <2>2. CASE b = c /\ i = k
    <3>1. (Batch(s) = n)' /\ Slot(kern[c].seq)' = s /\ token'[s].sc = token[s].sc
          /\ \A t \in Threads : Pending(t, i)' => Pending(t, i) /\ seq'[t] = seq[t]
      BY <1>1, <1>2, <1>3, <1>4 DEF Batch, Grows, NothingNewPending
    <3>2. CASE GatherTake(c, k)
      <4>1. ptrs[c][k].query # NoQuery /\ ptrs'[c][k].query = NoQuery
        BY <3>2 DEF GatherTake, TypeOK, Pointer
      <4>2. k < token[s].sc /\ \A t \in Threads : seq[t] = n => ~Pending(t, i)
        BY <1>1, <2>2, <4>1 DEF RingInv, BlockInv
      <4> QED BY <1>1, <1>2, <2>2, <3>1, <4>1, <4>2 DEF BlockInv
    <3>3. CASE GatherSkip(c, k) \/ GatherClose(c, k)
      <4>1. UNCHANGED ptrs /\ token'[s].closed
        BY <1>5, <3>3 DEF GatherSkip, GatherClose, GatherToken
      <4>2. blk'[c][k] = "done" => token[s].sc <= k
        <5>1. CASE GatherSkip(c, k)
          BY <5>1 DEF GatherSkip, GatherToken
        <5>2. CASE GatherClose(c, k)
          BY <1>1, <5>2 DEF GatherClose, AfterClose, TypeOK
        <5> QED BY <3>3, <5>1, <5>2
      <4>3. blk'[c][k] = "done" =>
              ptrs[c][k].query = NoQuery /\ \A t \in Threads : seq[t] = n => ~Pending(t, i)
        BY <1>1, <2>2, <4>2 DEF RingInv, BlockInv
      <4>4. BlockInv(c, k)
        BY DEF RingInv
      <4>5. \A r \in Slots : Batch(r)' = Batch(r)
        BY <1>4 DEF Batch, Grows
      <4>6. ptrs[c][k].query # NoQuery =>
              \A r \in Slots : token'[r].full /\ token'[r].buf = c =>
                i < token'[r].sc /\ \A t \in Threads : seq'[t] = Batch(r)' => ~Pending(t, i)'
        BY <1>1, <1>4, <2>2, <3>1, <4>4, <4>5 DEF BlockInv, Grows
      <4> QED BY <1>1, <1>2, <2>2, <3>1, <4>1, <4>3, <4>6 DEF BlockInv, threadVars
    <3>4. CASE GatherExpire(c, k)
      <4>1. UNCHANGED <<ptrs, token>> /\ blk'[c][k] = "closing"
        BY <3>4 DEF GatherExpire, TypeOK
      <4>2. BlockInv(c, k)
        BY DEF RingInv
      <4> QED BY <1>2, <2>2, <3>1, <4>1, <4>2 DEF BlockInv, Batch
    <3> QED BY <3>2, <3>3, <3>4 DEF Block
  <2> QED BY <2>1, <2>2
<1> QED BY <1>2, <1>4, <1>6, BlockStep

\* The scatter kernel copies the results: no slot has its buffer, and the dispatcher
\* has reserved the slot to which it will return.
LEMMA RingScatterCopy ==
  ASSUME TypeInv, TypeInv', RingInv, NEW c \in Buffers, ScatterCopy(c)
  PROVE  RingInv'
<1> USE DEF queueVars, TypeInv
<1>1. /\ kern[c].stage = "gathered" /\ kern[c].next # None
      /\ UNCHANGED <<head, tail, token, ptrs, blk, pc, seq, claim, req>>
      /\ kern'[c].stage = "copied" /\ kern'[c].next = kern[c].next
      /\ \A b \in Buffers \ {c} : kern'[b] = kern[b]
  BY DEF ScatterCopy, TypeOK, KernelState
<1>2. \A s \in Slots : Grows(s)
  BY <1>1 DEF Grows, TypeOK, Token
<1>3. Pushing' = Pushing /\ \A b \in Buffers : kern'[b].next = kern[b].next
  BY <1>1 DEF Pushing
<1>4. NothingNewPending
  BY <1>1 DEF NothingNewPending, Pending
<1>5. QueueInv'
  BY <1>1, <1>2, <1>3, SameReserved, QueueFrame DEF RingInv
<1>6. DueInv'
  <2>1. \A b \in Buffers : kern[b].stage = "idle" => kern'[b].stage = "idle"
    BY <1>1
  <2>2. head <= head'
    BY <1>1 DEF TypeOK
  <2> QED BY <1>1, <1>2, <1>3, <2>1, <2>2, DueFrame DEF RingInv
<1>7. ASSUME NEW u \in Threads PROVE ThreadInv(u)' /\ LaunchedInv(u)'
  <2>1. Slot(seq[u]) \in Slots /\ head <= head'
    BY <1>1, SlotRoundType DEF TypeOK, Seqs
  <2>2. ThreadInv(u)'
    BY <1>1, <1>2, <2>1, ThreadFrame DEF RingInv
  <2>3. LaunchedInv(u)'
    <3>1. Launched(u) => claim[u].buf \in Buffers \ {c}
      BY <1>1 DEF RingInv, LaunchedInv, Launched, AtWork, ClaimFits, Acquired, Claiming
    <3> QED BY <1>1, <3>1 DEF RingInv, LaunchedInv, Launched
  <2> QED BY <2>2, <2>3
<1>8. ClaimsDisjoint'
  BY <1>1, ClaimsFrame DEF RingInv
<1>9. ASSUME NEW b \in Buffers PROVE KernelInv(b)'
  <2>1. CASE b # c
    BY <1>1, <1>2, <2>1, KernelFrame DEF RingInv
  <2>2. CASE b = c
    BY <1>1, <2>2 DEF RingInv, KernelInv
  <2> QED BY <2>1, <2>2
<1>10. ASSUME NEW b \in Buffers, NEW i \in Rows PROVE BlockInv(b, i)'
  <2>1. CASE b # c
    BY <1>1, <1>2, <1>4, <2>1, BlockFrame DEF RingInv
  <2>2. CASE b = c
    BY <1>1, <2>2 DEF RingInv, BlockInv
  <2> QED BY <2>1, <2>2
<1> QED BY <1>5, <1>6, <1>7, <1>8, <1>9, <1>10 DEF RingInv

\* The last block of the gather kernel empties the slot: every thread has handed over
\* its rows, and the next batch of the slot is reserved already or beyond the tail.
LEMMA RingGatherFinish ==
  ASSUME TypeInv, TypeInv', RingInv, NEW c \in Buffers, GatherFinish(c)
  PROVE  RingInv'
<1> USE DEF threadVars, TypeInv
<1>0. PICK n, s : n = kern[c].seq /\ s = Slot(n)
  OBVIOUS
<1>1. /\ n = kern[c].seq /\ s = Slot(n)
      /\ n \in Nat /\ s \in Slots /\ kern[c].stage = "gather"
      /\ token[s].full /\ token[s].buf = c /\ Batch(s) = n /\ At(n) = n
      /\ \A r \in Slots : token[r].full /\ token[r].buf = c => r = s
      /\ KSize \in Nat /\ KSize > 0 /\ head \in Nat /\ tail \in Nat
  BY <1>0, GatherSlot, SizesAssumption DEF GatherFinish, Running, TypeOK
<1>2. /\ UNCHANGED <<head, tail, ptrs, pc, seq, claim, req>>
      /\ \A i \in Rows : blk[c][i] = "done"
      /\ kern'[c].stage = "gathered" /\ kern'[c].next = kern[c].next /\ kern'[c].seq = n
      /\ \A b \in Buffers \ {c} : kern'[b] = kern[b] /\ blk'[b] = blk[b]
  BY <1>0 DEF GatherFinish, TypeOK, KernelState
<1>3. /\ ~token'[s].full /\ ~token'[s].closed /\ token'[s].round = Round(n) + 1
      /\ \A r \in Slots \ {s} : token'[r] = token[r]
  BY <1>1 DEF GatherFinish, make_empty_token, EmptyToken, TypeOK
<1>4. \A i \in Rows : /\ \A t \in Threads : seq[t] = n => ~Pending(t, i)
                      /\ ptrs[c][i].query = NoQuery
  BY <1>1, <1>2 DEF RingInv, BlockInv
<1>5. Batch(s)' = n + KSize /\ \A r \in Slots \ {s} : Batch(r)' = Batch(r)
  <2>1. Slot(n + KSize) = s /\ Round(n + KSize) = Round(n) + 1 /\ n + KSize \in Nat
    BY <1>1, NextRound
  <2>2. KSize * (Round(n) + 1) + s = n + KSize
    BY <2>1, SlotRoundDecompose
  <2>3. Batch(s)' = KSize * token'[s].round + s
    BY DEF Batch
  <2> QED BY <1>3, <2>2, <2>3 DEF Batch
<1>6. ASSUME NEW m \in Nat
      PROVE  /\ Slot(m) \in Slots /\ At(m) \in Nat
             /\ Slot(m) = s => At(m) = n /\ At(m)' = n + KSize
             /\ Slot(m) # s => At(m)' = At(m) /\ (Gone(m)' <=> Gone(m))
             /\ Gone(m) => Gone(m)'
  <2>1. Slot(m) \in Slots /\ At(m) \in Nat
    BY AtOf
  <2>2. Slot(m) = s => At(m) = n /\ At(m)' = n + KSize
    BY <1>1, <1>5 DEF At
  <2>3. Slot(m) # s => At(m)' = At(m) /\ (Gone(m)' <=> Gone(m))
    BY <1>3, <1>5, <2>1 DEF At, Gone
  <2>4. Slot(m) = s /\ Gone(m) => Gone(m)'
    BY <1>1, <2>2 DEF Gone
  <2> QED BY <2>1, <2>2, <2>3, <2>4
<1>7. Pushing' = Pushing /\ \A b \in Buffers : kern'[b].next = kern[b].next
  BY <1>2 DEF Pushing
<1>8. Reserved' = Reserved /\ Reserved \subseteq Nat
  BY <1>2, <1>7, SameReserved, ReservedType
<1>9. n + KSize >= tail \/ n + KSize \in Reserved
  <2> SUFFICES ASSUME n + KSize < tail PROVE n + KSize \in Reserved
    BY <1>1
  <2>1. PICK m \in 0..(tail - 1) : m = n + KSize
    BY <1>1
  <2>2. m \in Nat /\ Slot(m) = s /\ m # None /\ n < m
    BY <1>1, <2>1, NextRound DEF None
  <2>3. PICK b \in Buffers : Due(b, m)
    <3>1. ~(At(m) >= m)
      BY <1>1, <1>6, <2>2
    <3> QED BY <3>1 DEF RingInv, DueInv
  <2>4. ~ \E r \in Slots : token[r].full /\ token[r].buf = b /\ Batch(r) = m
    BY <1>1, <2>2, BatchOfSlot
  <2> QED BY <2>1, <2>2, <2>3, <2>4 DEF Due, Reserved
<1>10. QueueInv'
  <2>1. ASSUME NEW r \in Slots PROVE SlotInv(r)'
    <3>1. SlotInv(r)
      BY DEF RingInv, QueueInv
    <3>2. CASE r = s
      BY <1>1, <1>2, <1>3, <1>5, <1>8, <1>9, <3>1, <3>2 DEF SlotInv
    <3>3. CASE r # s
      BY <1>2, <1>3, <1>5, <1>8, <3>1, <3>3 DEF SlotInv
    <3> QED BY <3>2, <3>3
  <2>2. ReservedInv'
    <3>1. ASSUME NEW p \in Reserved PROVE p < tail /\ At(p)' <= p /\ p <= At(p)' + KSize
      <4>1. p \in Nat /\ p < tail /\ At(p) <= p /\ p <= At(p) + KSize
        BY <1>8 DEF RingInv, QueueInv, ReservedInv
      <4>2. CASE Slot(p) = s
        <5>1. p # n
          BY <1>1 DEF RingInv, QueueInv, SlotInv
        <5>2. At(p) = n /\ At(p)' = n + KSize
          BY <1>6, <4>1, <4>2
        <5>3. n < p => n + KSize <= p
          BY <1>1, <4>1, <4>2, SameSlot
        <5> QED BY <1>1, <4>1, <5>1, <5>2, <5>3
      <4>3. CASE Slot(p) # s
        BY <1>6, <4>1, <4>3
      <4> QED BY <4>2, <4>3
    <3>2. ASSUME NEW b \in Buffers, NEW q, q = kern[b].next, q # None
          PROVE  /\ ~token'[Slot(q)].full /\ At(q)' = q
                 /\ \A t \in Pushing : claim[t].next # q
      <4>1. /\ ~token[Slot(q)].full /\ At(q) = q
            /\ \A t \in Pushing : claim[t].next # q
        BY <3>2 DEF RingInv, QueueInv, ReservedInv
      <4>2. q \in Nat /\ Slot(q) # s
        BY <1>1, <3>2, <4>1, ReservedType
      <4> QED BY <1>3, <1>6, <4>1, <4>2
    <3>3. ASSUME NEW b \in Buffers, (kern[b].next # None)'
          PROVE  /\ (~token[Slot(kern[b].next)].full)' /\ (At(kern[b].next) = kern[b].next)'
                 /\ \A t \in Pushing' : claim'[t].next # (kern[b].next)'
      <4>1. PICK q : q = (kern[b].next)'
        OBVIOUS
      <4>2. At(kern[b].next)' = At(q)' /\ kern[b].next = q
        BY <1>7, <4>1 DEF At
      <4> QED BY <1>2, <1>7, <3>2, <3>3, <4>1, <4>2
    <3>4. \A t, u \in Pushing' : claim'[t].next = claim'[u].next => t = u
      BY <1>2, <1>7 DEF RingInv, QueueInv, ReservedInv
    <3>5. \A b, d \in Buffers : kern'[b].next # None /\ kern'[b].next = kern'[d].next => b = d
      BY <1>7 DEF RingInv, QueueInv, ReservedInv
    <3> QED BY <1>2, <1>8, <3>1, <3>3, <3>4, <3>5 DEF ReservedInv
  <2>3. PoppedInv'
    BY <1>1, <1>2, <1>6 DEF RingInv, QueueInv, PoppedInv
  <2>4. OffersInv'
    BY <1>3 DEF RingInv, QueueInv, OffersInv
  <2> QED BY <2>1, <2>2, <2>3, <2>4 DEF QueueInv
<1>11. DueInv'
  <2> SUFFICES ASSUME NEW m \in 0..(tail - 1)
               PROVE  (\E b \in Buffers : Due(b, m)') \/ (m <= head /\ At(m)' >= m)
    BY <1>2 DEF DueInv
  <2>1. ASSUME NEW b \in Buffers, Due(b, m) PROVE Due(b, m)'
    <3>1. CASE kern[b].stage = "idle" /\ \E r \in Slots :
                 token[r].full /\ token[r].buf = b /\ Batch(r) = m
      <4>1. PICK r \in Slots : token[r].full /\ token[r].buf = b /\ Batch(r) = m
        BY <3>1
      <4>2. b # c /\ r # s
        BY <1>1, <3>1, <4>1
      <4>3. kern'[b].stage = "idle" /\ token'[r].full /\ token'[r].buf = b /\ Batch(r)' = m
        BY <1>2, <1>3, <1>5, <3>1, <4>1, <4>2
      <4> QED BY <4>3 DEF Due
    <3> QED BY <1>2, <1>7, <2>1, <3>1 DEF Due
  <2>2. At(m) >= m => At(m)' >= m
    BY <1>1, <1>6
  <2> QED BY <2>1, <2>2 DEF RingInv, DueInv
<1>12. ASSUME NEW u \in Threads PROVE ThreadInv(u)' /\ LaunchedInv(u)'
  <2>0. PICK m : m = seq[u]
    OBVIOUS
  <2>1. m = seq[u] /\ m \in Nat /\ ThreadInv(u) /\ At(seq[u])' = At(m)' /\ m = seq'[u]
    BY <1>2, <2>0 DEF RingInv, TypeOK, Seqs, At
  <2>2. Slot(m) \in Slots /\ At(m) \in Nat /\ (Gone(seq[u]) => Gone(seq[u])')
    <3>1. Gone(seq[u])' = Gone(m)'
      BY <1>2, <2>1 DEF Gone, At
    <3> QED BY <1>6, <2>1, <3>1
  <2>3. ASSUME pc[u] \in Claiming
        PROVE  /\ At(m)' >= m
               /\ claim[u].sub < claim[u].cnt => At(m)' = m
               /\ At(m)' = m => Slot(m) # s /\ At(m) = m
    <3>1. /\ At(m) >= m
          /\ claim[u].sub < claim[u].cnt => At(m) = m
          /\ At(m) = m => claim[u].off + claim[u].cnt <= token[Slot(m)].sc
      BY <2>1, <2>3 DEF ThreadInv
    <3>2. At(m)' >= m
      BY <1>1, <1>6, <2>1, <3>1
    <3>3. ASSUME claim[u].sub < claim[u].cnt PROVE At(m)' = m
      <4> DEFINE i == claim[u].off + claim[u].sub
      <4>1. /\ claim[u].off \in Nat /\ claim[u].sub \in Nat /\ claim[u].cnt \in Nat
            /\ token[Slot(m)].sc \in 0..MaxBatch /\ MaxBatch \in Nat
        BY <2>2, SizesAssumption DEF TypeOK, Claim, Token
      <4>2. i \in Rows
        BY <3>1, <3>3, <4>1 DEF Rows
      <4>3. Pending(u, i)
        <5>1. pc[u] \in Holding
          BY <2>1, <2>3, <3>3, <4>1 DEF ThreadInv
        <5> QED BY <3>3, <4>1, <5>1 DEF Pending
      <4>4. m # n
        BY <1>4, <2>1, <4>2, <4>3
      <4> QED BY <1>6, <2>1, <3>1, <3>3, <4>4
    <3>4. At(m)' = m => Slot(m) # s
      BY <1>1, <1>6, <2>1, <3>1
    <3> QED BY <1>6, <2>1, <3>2, <3>3, <3>4
  <2>4. ThreadInv(u)'
    <3>1. pc[u] \in Claiming /\ At(m)' = m => token'[Slot(m)] = token[Slot(m)]
      BY <1>3, <2>2, <2>3
    <3>2. Slot(seq[u])' = Slot(m) /\ seq'[u] = m /\ seq[u] = m
      BY <2>1
    <3> QED BY <1>2, <2>1, <2>2, <2>3, <3>1, <3>2 DEF ThreadInv
  <2>5. LaunchedInv(u)'
    <3>1. Launched(u) => claim[u].buf \in Buffers
      BY DEF Launched, AtWork, ClaimFits, Acquired, Claiming
    <3>2. Launched(u)' <=> Launched(u)
      BY <1>2 DEF Launched
    <3>3. claim[u].buf = c \/ kern'[claim[u].buf] = kern[claim[u].buf] \/ ~Launched(u)
      BY <1>2, <3>1
    <3>4. claim'[u].buf = claim[u].buf /\ seq'[u] = seq[u]
      BY <1>2
    <3> QED BY <1>1, <1>2, <3>2, <3>3, <3>4 DEF RingInv, LaunchedInv
  <2> QED BY <2>4, <2>5
<1>13. ClaimsDisjoint'
  BY <1>2, ClaimsFrame DEF RingInv
<1>14. ASSUME NEW b \in Buffers PROVE KernelInv(b)'
  <2>1. KernelInv(b)
    BY DEF RingInv
  <2>2. CASE b # c
    <3>1. kern'[b] = kern[b] /\ \A r \in Slots : token[r].full /\ token[r].buf = b => r # s
      BY <1>1, <1>2, <2>2
    <3>0. PICK m : m = kern[b].seq
      OBVIOUS
    <3>2. m = kern[b].seq /\ (kern[b].stage # "idle" => m \in Nat /\ Slot(m) \in Slots)
      BY <3>0, SlotRoundType DEF KernelSet
    <3>3. At(kern[b].seq)' = At(m)'
      BY <3>1, <3>2 DEF At
    <3>4. CASE kern[b].stage = "idle"
      BY <1>3, <2>1, <3>1, <3>4 DEF KernelInv
    <3>5. CASE kern[b].stage = "gather"
      <4>1. Slot(m) # s /\ At(m)' = At(m) /\ token'[Slot(m)] = token[Slot(m)]
        BY <1>3, <1>6, <2>1, <3>1, <3>2, <3>5 DEF KernelInv
      <4> QED BY <1>2, <2>1, <3>1, <3>2, <3>3, <3>5, <4>1 DEF KernelInv
    <3>6. CASE kern[b].stage \in {"gathered", "copied"}
      <4>1. \A r \in Slots : ~(token'[r].full /\ token'[r].buf = b)
        BY <1>3, <2>1, <3>6 DEF KernelInv
      <4>2. At(m)' >= At(m) /\ At(m)' \in Nat /\ At(m) \in Nat
        BY <1>1, <1>6, <3>2, <3>6
      <4> QED BY <2>1, <3>1, <3>2, <3>3, <3>6, <4>1, <4>2 DEF KernelInv
    <3> QED BY <3>4, <3>5, <3>6 DEF TypeOK, KernelState
  <2>3. CASE b = c
    <3>1. \A r \in Slots : ~(token'[r].full /\ token'[r].buf = c)
      BY <1>1, <1>3
    <3>2. At(kern[c].seq)' = At(n)' /\ At(n)' = n + KSize
      BY <1>1, <1>2, <1>6 DEF At
    <3> QED BY <1>1, <1>2, <2>3, <3>1, <3>2 DEF KernelInv
  <2> QED BY <2>2, <2>3
<1>15. ASSUME NEW b \in Buffers, NEW i \in Rows PROVE BlockInv(b, i)'
  <2>1. BlockInv(b, i)
    BY DEF RingInv
  <2>2. \A t \in Threads : Pending(t, i)' <=> Pending(t, i)
    BY <1>2 DEF Pending
  <2>3. CASE b # c
    <3>1. /\ kern'[b] = kern[b] /\ blk'[b] = blk[b]
          /\ \A r \in Slots : token[r].full /\ token[r].buf = b => r # s
      BY <1>1, <1>2, <2>3
    <3>2. kern[b].stage = "gather" => token'[Slot(kern[b].seq)] = token[Slot(kern[b].seq)]
      <4>1. kern[b].stage = "gather" => Slot(kern[b].seq) \in Slots
        BY SlotRoundType DEF KernelSet
      <4> QED BY <1>3, <3>1, <4>1 DEF RingInv, KernelInv
    <3>3. \A r \in Slots : token'[r].full /\ token'[r].buf = b =>
            token[r].full /\ token[r].buf = b /\ token'[r] = token[r] /\ Batch(r)' = Batch(r)
      BY <1>3, <1>5
    <3> QED BY <1>2, <2>1, <2>2, <3>1, <3>2, <3>3 DEF BlockInv
  <2>4. CASE b = c
    BY <1>2, <1>4, <2>4 DEF BlockInv
  <2> QED BY <2>3, <2>4
<1> QED BY <1>10, <1>11, <1>12, <1>13, <1>14, <1>15 DEF RingInv

\* The scatter kernel returns the buffer: to the reserved slot, which is empty and at
\* the reserved batch, and which no other slot, thread or kernel is reserved for.
LEMMA RingScatterRelease ==
  ASSUME TypeInv, TypeInv', RingInv, NEW c \in Buffers, ScatterRelease(c)
  PROVE  RingInv'
<1> USE DEF threadVars, TypeInv
<1>0. PICK n, s : n = kern[c].next /\ s = Slot(n)
  OBVIOUS
<1>1. /\ n = kern[c].next /\ s = Slot(n) /\ n # None /\ kern[c].stage = "copied"
      /\ n \in Nat /\ s \in Slots /\ n \in Reserved /\ ~token[s].full /\ ~token[s].closed
      /\ At(n) = n /\ Batch(s) = n /\ n < tail
      /\ \A t \in Pushing : claim[t].next # n
      /\ \A b \in Buffers \ {c} : kern[b].next # n
      /\ \A r \in Slots : ~(token[r].full /\ token[r].buf = c)
  <2>1. n # None /\ n \in Nat /\ kern[c].stage = "copied"
    BY <1>0 DEF ScatterRelease, KernelSet, None
  <2>2. s \in Slots /\ n \in Reserved
    BY <1>0, <2>1, SlotRoundType DEF Reserved
  <2>3. /\ ~token[s].full /\ At(n) = n /\ \A t \in Pushing : claim[t].next # n
        /\ \A b \in Buffers \ {c} : kern[b].next # n /\ n < tail
    BY <1>0, <2>1, <2>2 DEF RingInv, QueueInv, ReservedInv
  <2>4. ~token[s].closed
    BY <2>2, <2>3 DEF RingInv, QueueInv, SlotInv
  <2>5. \A r \in Slots : ~(token[r].full /\ token[r].buf = c)
    BY <2>1 DEF RingInv, KernelInv
  <2>6. n < tail
    BY <2>2 DEF RingInv, QueueInv, ReservedInv
  <2> QED BY <1>0, <2>1, <2>2, <2>3, <2>4, <2>5, <2>6 DEF At
<1>2. /\ UNCHANGED <<head, tail, ptrs, blk, pc, seq, claim, req>>
      /\ kern'[c] = IdleKernel /\ \A b \in Buffers \ {c} : kern'[b] = kern[b]
  BY DEF ScatterRelease, TypeOK
<1>3. /\ token'[s].full /\ token'[s].buf = c /\ token'[s].round = token[s].round
      /\ token'[s].sc = token[s].sc /\ token'[s].closed = token[s].closed
      /\ \A r \in Slots \ {s} : token'[r] = token[r]
  <2>1. token' = [token EXCEPT ![s] = [token[s] EXCEPT !.full = TRUE, !.round = Round(n), !.buf = c]]
    BY <1>1 DEF ScatterRelease
  <2>2. token'[s] = [token[s] EXCEPT !.full = TRUE, !.round = Round(n), !.buf = c]
        /\ \A r \in Slots \ {s} : token'[r] = token[r]
    BY <1>1, <2>1 DEF TypeOK
  <2>3. token[s].round = Round(n) /\ token[s] \in Token
    BY <1>1, AtOf DEF TypeOK
  <2> QED BY <2>2, <2>3 DEF Token
<1>4. \A r \in Slots : Grows(r) /\ token'[r].sc = token[r].sc /\ Batch(r)' = Batch(r)
  <2>1. \A r \in Slots : token[r].sc \in Nat
    BY DEF TypeOK, Token
  <2>2. Grows(s) /\ Batch(s)' = Batch(s)
    BY <1>1, <1>3, <2>1 DEF Grows, Batch
  <2>3. ASSUME NEW r \in Slots \ {s}
        PROVE  Grows(r) /\ token'[r].sc = token[r].sc /\ Batch(r)' = Batch(r)
    BY <1>3, <2>1 DEF Grows, Batch
  <2> QED BY <1>3, <2>2, <2>3
<1>5. ASSUME NEW m \in Nat
      PROVE  At(m)' = At(m) /\ (Gone(m) => Gone(m)') /\ Slot(m) \in Slots
             /\ (At(m) = m /\ m # n => Slot(m) # s)
  <2>1. At(m)' = At(m) /\ (Gone(m) => Gone(m)') /\ Slot(m) \in Slots
    BY <1>4, GrowsAt, SlotRoundType
  <2> QED BY <1>1, <2>1 DEF At
<1>6. Pushing' = Pushing /\ kern'[c].next = None /\ kern'[c].stage = "idle"
  BY <1>2 DEF Pushing, IdleKernel
<1>7. Reserved' = Reserved \ {n}
  <2>1. \A q : q \in Reserved' <=> \/ \E t \in Pushing : q = claim[t].next
                                   \/ \E b \in Buffers : q = kern'[b].next /\ q # None
    BY <1>2, <1>6 DEF Reserved
  <2>2. \A q : q \in Reserved <=> \/ \E t \in Pushing : q = claim[t].next
                                  \/ \E b \in Buffers : q = kern[b].next /\ q # None
    BY DEF Reserved
  <2> QED BY <1>1, <1>2, <1>6, <2>1, <2>2
<1>8. Reserved \subseteq Nat
  BY ReservedType
<1>9. QueueInv'
  <2>1. ASSUME NEW r \in Slots PROVE SlotInv(r)'
    <3>1. SlotInv(r)
      BY DEF RingInv, QueueInv
    <3>2. CASE r = s
      BY <1>1, <1>2, <1>3, <1>4, <1>7, <3>1, <3>2 DEF SlotInv
    <3>3. CASE r # s
      <4>1. Batch(r) # n
        BY <1>1, <3>3, BatchOfSlot
      <4> QED BY <1>2, <1>3, <1>4, <1>7, <3>1, <3>3, <4>1 DEF SlotInv
    <3> QED BY <3>2, <3>3
  <2>2. ReservedInv'
    <3>1. \A p \in Reserved' : p < tail' /\ At(p)' <= p /\ p <= At(p)' + KSize
      BY <1>2, <1>5, <1>7, <1>8 DEF RingInv, QueueInv, ReservedInv
    <3>2. ASSUME NEW b \in Buffers, NEW q, q = kern'[b].next, q # None
          PROVE  /\ ~token'[Slot(q)].full /\ At(q)' = q
                 /\ \A t \in Pushing : claim[t].next # q
      <4>1. b # c /\ kern[b].next = q /\ q # n
        BY <1>1, <1>2, <1>6, <3>2
      <4>2. /\ ~token[Slot(q)].full /\ At(q) = q /\ q \in Nat
            /\ \A t \in Pushing : claim[t].next # q
        BY <3>2, <4>1, ReservedType DEF RingInv, QueueInv, ReservedInv
      <4> QED BY <1>3, <1>5, <4>1, <4>2
    <3>3. ASSUME NEW b \in Buffers, (kern[b].next # None)'
          PROVE  /\ (~token[Slot(kern[b].next)].full)' /\ (At(kern[b].next) = kern[b].next)'
                 /\ \A t \in Pushing' : claim'[t].next # (kern[b].next)'
      <4>1. PICK q : q = (kern[b].next)'
        OBVIOUS
      <4>2. At(kern[b].next)' = At(q)'
        BY <4>1 DEF At
      <4> QED BY <1>2, <1>6, <3>2, <3>3, <4>1, <4>2
    <3>4. \A t, u \in Pushing' : claim'[t].next = claim'[u].next => t = u
      BY <1>2, <1>6 DEF RingInv, QueueInv, ReservedInv
    <3>5. \A b, d \in Buffers : kern'[b].next # None /\ kern'[b].next = kern'[d].next => b = d
      BY <1>2, <1>6 DEF RingInv, QueueInv, ReservedInv
    <3> QED BY <3>1, <3>3, <3>4, <3>5 DEF ReservedInv
  <2>3. PoppedInv'
    BY <1>2, <1>5 DEF RingInv, QueueInv, PoppedInv, TypeOK
  <2>4. OffersInv'
    BY <1>1, <1>3 DEF RingInv, QueueInv, OffersInv
  <2> QED BY <2>1, <2>2, <2>3, <2>4 DEF QueueInv
<1>10. DueInv'
  <2> SUFFICES ASSUME NEW m \in 0..(tail - 1), NEW b \in Buffers, Due(b, m)
               PROVE  Due(b, m)'
    BY <1>2, <1>5 DEF RingInv, DueInv
  <2>1. CASE kern[b].next = m
    <3>1. CASE b = c
      BY <1>1, <1>3, <1>4, <1>6, <2>1, <3>1 DEF Due
    <3>2. CASE b # c
      BY <1>2, <2>1, <3>2 DEF Due
    <3> QED BY <3>1, <3>2
  <2>2. CASE \E u \in Pushing : claim[u].next = m /\ claim[u].buf = b
    BY <1>2, <1>6, <2>2 DEF Due
  <2>3. CASE kern[b].stage = "idle" /\ \E r \in Slots :
               token[r].full /\ token[r].buf = b /\ Batch(r) = m
    <3>1. kern'[b] = kern[b]
      BY <1>1, <1>2, <2>3
    <3> QED BY <1>4, <2>3, <3>1 DEF Due, Grows
  <2> QED BY <2>1, <2>2, <2>3 DEF Due
<1>11. ASSUME NEW u \in Threads PROVE ThreadInv(u)' /\ LaunchedInv(u)'
  <2>1. Slot(seq[u]) \in Slots /\ head <= head'
    BY <1>2, SlotRoundType DEF TypeOK, Seqs
  <2>2. ThreadInv(u)'
    BY <1>2, <1>4, <2>1, ThreadFrame DEF RingInv
  <2>3. LaunchedInv(u)'
    <3>1. Launched(u) => claim[u].buf \in Buffers \ {c}
      BY <1>1 DEF RingInv, LaunchedInv, Launched, AtWork, ClaimFits, Acquired, Claiming
    <3> QED BY <1>2, <3>1 DEF RingInv, LaunchedInv, Launched
  <2> QED BY <2>2, <2>3
<1>12. ClaimsDisjoint'
  BY <1>2, ClaimsFrame DEF RingInv
<1>13. ASSUME NEW b \in Buffers PROVE KernelInv(b)'
  <2>1. CASE b # c
    <3>1. \A r \in Slots : token'[r].full /\ ~token[r].full => token'[r].buf # b
      BY <1>3, <2>1
    <3> QED BY <1>2, <1>4, <2>1, <3>1, KernelFrame DEF RingInv
  <2>2. CASE b = c
    BY <1>1, <1>3, <1>6, <2>2 DEF KernelInv
  <2> QED BY <2>1, <2>2
<1>14. ASSUME NEW b \in Buffers, NEW i \in Rows PROVE BlockInv(b, i)'
  <2>1. NothingNewPending
    BY <1>2 DEF NothingNewPending, Pending
  <2>2. CASE b # c
    <3>1. \A r \in Slots : token'[r].full => token[r].full \/ token'[r].buf # b
      BY <1>3, <2>2
    <3> QED BY <1>2, <1>4, <2>1, <2>2, <3>1, BlockFrame DEF RingInv
  <2>3. CASE b = c
    BY <1>1, <1>2, <1>6, <2>3 DEF RingInv, BlockInv
  <2> QED BY <2>2, <2>3
<1> QED BY <1>9, <1>10, <1>11, <1>12, <1>13, <1>14 DEF RingInv

-----------------------------------------------------------------------------
(* RingInv is inductive.                                                   *)

LEMMA RingStep ==
  TypeInv /\ TypeInv' /\ RingInv /\ NoEmptyRequest /\ [Next]_vars => RingInv'
<1> SUFFICES ASSUME TypeInv, TypeInv', RingInv, NoEmptyRequest, [Next]_vars
             PROVE  RingInv'
  OBVIOUS
<1>1. ASSUME NEW t \in Threads, Begin(t) \/ Step(t) PROVE RingInv'
  BY <1>1, RingMoves, RingTryCommit, RingPop, RingLaunchGather, RingSubmitQuery,
     RingPushReserve, RingPushWait DEF Begin, Step, OtherStep
<1>2. ASSUME NEW b \in Buffers, Kernel(b) \/ \E i \in Rows : Block(b, i) PROVE RingInv'
  BY <1>2, RingBlock, RingGatherFinish, RingScatterCopy, RingScatterRelease DEF Kernel
<1>3. CASE UNCHANGED vars
  <2>1. \A s \in Slots : Grows(s)
    BY <1>3 DEF Grows, vars, queueVars, TypeInv, TypeOK, Token
  <2>2. UNCHANGED <<head, tail, kern, threadVars, token, ptrs, blk>>
    BY <1>3 DEF vars, queueVars, bufferVars
  <2>3. \A b \in Buffers, i \in Rows : BlockInv(b, i)'
    <3> SUFFICES ASSUME NEW b \in Buffers, NEW i \in Rows PROVE BlockInv(b, i)'
      OBVIOUS
    <3>1. NothingNewPending
      BY <2>2 DEF NothingNewPending, Pending, threadVars
    <3> QED BY <2>1, <2>2, <3>1, BlockFrame DEF RingInv, TypeInv
  <2> QED BY <2>1, <2>2, <2>3, BlockStep
<1> QED BY <1>1, <1>2, <1>3 DEF Next, KernelsStep, Terminating

-----------------------------------------------------------------------------
(* What the ring guarantees.                                               *)

\* The ring, the buffers and the claims of the threads always belong together: a slot
\* is at most one round behind, a reservation has one holder, a buffer is in one slot
\* or none, and the gather kernel waits for whatever was committed.
THEOREM RingCorrect ==
  ASSUME NoEmptyRequest
  PROVE  Spec => [](TypeInv /\ RingInv)
<1>1. Init => TypeInv /\ RingInv
  BY TypeInit, RingInit
<1>2. TypeInv /\ RingInv /\ [Next]_vars => TypeInv' /\ RingInv'
  BY NoEmptyRequest, TypeNext, RingStep
<1> QED BY <1>1, <1>2, PTL DEF Spec

\* Two threads never hold the same row of the same batch (try_commit()).
THEOREM ClaimsAreDisjoint ==
  ASSUME NoEmptyRequest
  PROVE  Spec => []ClaimsDisjoint
<1>1. RingInv => ClaimsDisjoint
  BY DEF RingInv
<1> QED BY <1>1, RingCorrect, PTL

\* An IO buffer is offered in one slot, or is at work for one batch.
LEMMA ExclusiveByRing == TypeInv /\ RingInv => BufferExclusive
<1> SUFFICES ASSUME TypeInv, RingInv, NEW b \in Buffers
             PROVE  CASE kern[b].stage = "idle"   -> Cardinality(Offers(b)) = 1
                      [] kern[b].stage = "gather" ->
                           /\ Offers(b) = {Slot(kern[b].seq)}
                           /\ GatherToken(b).round = Round(kern[b].seq)
                           /\ \A t \in Threads : ~(pc[t] = "launch" /\ claim[t].buf = b)
                      [] OTHER                    -> Offers(b) = {}
  BY DEF BufferExclusive
<1> DEFINE n == kern[b].seq
           s == Slot(n)
<1>1. CASE kern[b].stage = "idle"
  <2>1. PICK r \in Slots : token[r].full /\ token[r].buf = b
    BY <1>1 DEF RingInv, KernelInv
  <2>2. Offers(b) = {r}
    BY <2>1 DEF Offers, RingInv, QueueInv, OffersInv
  <2>3. Cardinality({r}) = 1
    BY FS_Singleton
  <2> QED BY <1>1, <2>2, <2>3
<1>2. CASE kern[b].stage = "gather"
  <2>1. /\ n \in Nat /\ s \in Slots /\ token[s].full /\ token[s].buf = b /\ At(n) = n
        /\ \A r \in Slots : token[r].full /\ token[r].buf = b => r = s
    BY <1>2, GatherSlot
  <2>2. Offers(b) = {s}
    BY <2>1 DEF Offers
  <2>3. token[s].round = Round(n)
    BY <2>1, AtOf DEF TypeInv
  <2>4. \A t \in Threads : ~(pc[t] = "launch" /\ claim[t].buf = b)
    BY <1>2, LaunchIsFirst
  <2> QED BY <1>2, <2>2, <2>3, <2>4 DEF GatherToken
<1>3. CASE kern[b].stage \in {"gathered", "copied"}
  <2>1. Offers(b) = {}
    BY <1>3 DEF Offers, RingInv, KernelInv
  <2> QED BY <1>3, <2>1
<1> QED BY <1>1, <1>2, <1>3 DEF TypeInv, TypeOK, KernelState

THEOREM BuffersAreExclusive ==
  ASSUME NoEmptyRequest
  PROVE  Spec => []BufferExclusive
BY RingCorrect, ExclusiveByRing, PTL

\* Below the head, nobody can commit any more.
LEMMA DeadByRing == TypeInv /\ RingInv => PoppedIsDead
<1> SUFFICES ASSUME TypeInv, RingInv, NEW n \in 0..(head - 1),
                    token[Slot(n)].round - Round(n) < EmptyOffset
             PROVE  LET tok == token[Slot(n)]
                        st  == Status(tok, n)
                    IN  \/ st \in {kFullPast, kEmptyPast}
                        \/ st = kEmptyBusy /\ tok.full
                        \/ st \in {kFull, kEmpty} /\ Uncommittable(tok)
  BY DEF PoppedIsDead
<1> DEFINE tok == token[Slot(n)]
           d   == tok.round - Round(n)
           e   == IF tok.full THEN 0 ELSE EmptyOffset
           v   == d + e
<1>1. n \in Nat /\ Slot(n) \in Slots /\ tok \in Token /\ Round(n) \in Nat /\ tok.round \in Nat
  BY AtOf DEF TypeInv, TypeOK
<1>2. Gone(n)
  BY DEF RingInv, QueueInv, PoppedInv
<1>3. d \in Nat /\ d < EmptyOffset /\ (d = 0 => Uncommittable(tok)) /\ tok.full \in BOOLEAN
  <2>1. CASE At(n) > n
    <3>1. tok.round > Round(n)
      BY <1>1, <2>1, AtOf DEF TypeInv
    <3> QED BY <1>1, <3>1 DEF Token
  <2>2. CASE At(n) = n /\ Uncommittable(tok)
    <3>1. tok.round = Round(n)
      BY <1>1, <2>2, AtOf DEF TypeInv
    <3> QED BY <1>1, <2>2, <3>1, SizesAssumption DEF Token
  <2> QED BY <1>2, <2>1, <2>2 DEF Gone
<1>4. EmptyOffset \in Nat /\ EmptyOffset > 3
  BY SizesAssumption
<1>5. Status(tok, n) = CASE v < -1                         -> -2
                         [] v >= -1 /\ v < EmptyOffset - 1 -> IF v < 1 THEN v ELSE 1
                         [] OTHER -> IF v < EmptyOffset + 1 THEN v ELSE EmptyOffset + 1
  BY DEF Status, kEmptyPast, kEmptyBusy, kFullPast, kFullBusy, Invalid
<1>6. PICK st : st = Status(tok, n)
  OBVIOUS
<1> HIDE DEF d, tok
<1>7. CASE tok.full
  <2>1. st \in {kFullPast, kEmptyPast} \/ (st = kEmptyBusy) \/ (st = kFull /\ d = 0)
    BY <1>3, <1>4, <1>5, <1>6, <1>7 DEF kFull, kFullPast, kEmptyPast, kEmptyBusy
  <2> QED BY <1>3, <1>6, <1>7, <2>1 DEF tok
<1>8. CASE ~tok.full
  <2>1. st \in {kFullPast, kEmptyPast} \/ (st = kEmpty /\ d = 0)
    BY <1>3, <1>4, <1>5, <1>6, <1>8 DEF kEmpty, kFullPast, kEmptyPast, kEmptyBusy
  <2> QED BY <1>3, <1>6, <1>8, <2>1 DEF tok
<1> QED BY <1>7, <1>8

\* What pop() promises.
THEOREM PoppedStaysDead ==
  ASSUME NoEmptyRequest
  PROVE  Spec => []PoppedIsDead
BY RingCorrect, DeadByRing, PTL

\* The status of a batch is never one "indicating an error in the algo": the slots of
\* all three callers are at most one round behind.
LEMMA NoInvalidStep ==
  ASSUME TypeInv, RingInv, NoInvalidState, [Next]_vars
  PROVE  NoInvalidState'
<1> USE DEF TypeInv
<1>1. SUFFICES ASSUME NEW t \in Threads, NEW u \in Threads, Begin(u) \/ Step(u)
               PROVE  pc'[t] # "raised"
  <2>1. CASE \E b \in Buffers : Kernel(b) \/ \E i \in Rows : Block(b, i)
    <3>1. ASSUME NEW b \in Buffers, Kernel(b) PROVE pc' = pc
      BY <3>1 DEF Kernel, threadVars, GatherFinish, ScatterCopy, ScatterRelease
    <3>2. ASSUME NEW b \in Buffers, NEW i \in Rows, Block(b, i) PROVE pc' = pc
      BY <3>2 DEF Block, threadVars, GatherTake, GatherSkip, GatherExpire, GatherClose
    <3> QED BY <2>1, <3>1, <3>2 DEF NoInvalidState
  <2>2. CASE Terminating \/ UNCHANGED vars
    BY <2>2 DEF NoInvalidState, Terminating, vars, threadVars
  <2>3. CASE \E u \in Threads : Begin(u) \/ Step(u)
    BY <1>1, <2>3 DEF NoInvalidState
  <2> QED BY <2>1, <2>2, <2>3 DEF Next, KernelsStep
<1>2. \A l : Goto(u, l) /\ l # "raised" => pc'[t] # "raised"
  BY DEF Goto, TypeOK, NoInvalidState
<1>3. pc' = pc => pc'[t] # "raised"
  BY DEF NoInvalidState
<1>4. CASE TryCommit(u)
  <2>1. seq[u] <= head /\ RoundBound(u)
    BY <1>4 DEF TryCommit, RingInv, ThreadInv
  <2>2. Status(token[Slot(seq[u])], seq[u]) # Invalid
    BY <2>1, ThreadReads DEF RingInv
  <2> QED BY <1>2, <1>4, <2>2 DEF TryCommit, AfterCommit
<1>5. CASE AwaitBuffer(u)
  <2>1. seq[u] <= head /\ RoundBound(u)
    BY <1>5 DEF AwaitBuffer, RingInv, ThreadInv
  <2>2. Status(token[Slot(seq[u])], seq[u]) # Invalid
    BY <2>1, ThreadReads DEF RingInv
  <2> QED BY <1>2, <1>5, <2>2 DEF AwaitBuffer, AfterCommit
<1>6. CASE PushWait(u)
  <2>1. Status(token[Slot(claim[u].next)], claim[u].next) # Invalid
    BY <1>6, PushReads DEF PushWait
  <2> QED BY <1>2, <1>6, <2>1 DEF PushWait
<1>7. CASE Pop(u)
  BY <1>2, <1>7 DEF Pop, AfterCommit
<1>8. CASE SubmitDeadline(u)
  BY <1>2, <1>8 DEF SubmitDeadline
<1>9. CASE Publish(u) \/ WaitEvent(u)
  BY <1>2, <1>9 DEF Publish, WaitEvent, EndOfBatch
<1>10. CASE Begin(u) \/ LoadHead(u) \/ CheckTail(u) \/ LaunchGather(u) \/ SubmitQuery(u)
            \/ TakeSize(u) \/ ResetSize(u) \/ PushReserve(u) \/ RecordEvent(u)
            \/ WaitDispatch(u) \/ Sync(u) \/ Return(u)
  BY <1>2, <1>3, <1>10 DEF Begin, StartSearch, LoadHead, CheckTail, LaunchGather, SubmitQuery,
     TakeSize, ResetSize, PushReserve, RecordEvent, WaitDispatch, Sync, Return
<1> QED BY <1>1, <1>4, <1>5, <1>6, <1>7, <1>8, <1>9, <1>10 DEF Step, OtherStep

\* RAFT_FAIL("Invalid batch state") is never reached.
THEOREM NeverInvalid ==
  ASSUME NoEmptyRequest
  PROVE  Spec => []NoInvalidState
<1>1. Init => NoInvalidState
  BY DEF Init, NoInvalidState
<1> QED BY <1>1, NoInvalidStep, RingCorrect, PTL DEF Spec

\* A closed slot does not change until the gather kernel empties it for the next round.
LEMMA ClosedStep ==
  ASSUME TypeInv, RingInv, [Next]_vars, NEW s \in Slots, token[s].closed
  PROVE  token'[s] = token[s] \/ (~token'[s].full /\ token'[s].round = token[s].round + 1)
<1> USE DEF TypeInv
<1>1. ASSUME NEW t \in Threads, TryCommit(t) PROVE token'[s] = token[s]
  <2>1. CASE UNCHANGED token
    BY <2>1
  <2>2. CASE ~Uncommittable(token[Slot(seq[t])])
             /\ \E sc : token' = [token EXCEPT ![Slot(seq[t])].sc = sc]
    BY <2>2 DEF Uncommittable, TypeOK
  <2> QED BY <1>1, <2>1, <2>2 DEF TryCommit
<1>2. ASSUME NEW b \in Buffers, NEW i \in Rows, GatherClose(b, i) PROVE token'[s] = token[s]
  <2>1. token' = [token EXCEPT ![Slot(kern[b].seq)] =
                    [token[Slot(kern[b].seq)] EXCEPT !.closed = TRUE]]
    BY <1>2 DEF GatherClose
  <2>2. [token[s] EXCEPT !.closed = TRUE] = token[s]
    BY DEF TypeOK, Token
  <2> QED BY <2>1, <2>2 DEF TypeOK
<1>3. ASSUME NEW b \in Buffers, GatherFinish(b)
      PROVE  token'[s] = token[s] \/ (~token'[s].full /\ token'[s].round = token[s].round + 1)
  <2>1. kern[b].stage = "gather"
    BY <1>3 DEF GatherFinish, Running
  <2>2. token[Slot(kern[b].seq)].round = Round(kern[b].seq)
    BY <2>1, GatherSlot, AtOf
  <2> QED BY <1>3, <2>2 DEF GatherFinish, make_empty_token, EmptyToken, TypeOK
<1>4. ASSUME NEW b \in Buffers, ScatterRelease(b) PROVE token'[s] = token[s]
  <2>1. kern[b].next \in Nat /\ kern[b].next # None
    BY <1>4 DEF ScatterRelease, KernelSet, None
  <2>2. ~token[Slot(kern[b].next)].full /\ Slot(kern[b].next) \in Slots
    BY <2>1, SlotRoundType DEF RingInv, QueueInv, ReservedInv
  <2>3. s # Slot(kern[b].next)
    BY <2>2 DEF RingInv, QueueInv, SlotInv
  <2> QED BY <1>4, <2>3 DEF ScatterRelease, TypeOK
<1>5. ASSUME NEW b \in Buffers, Kernel(b) \/ \E i \in Rows : Block(b, i)
      PROVE  token'[s] = token[s] \/ (~token'[s].full /\ token'[s].round = token[s].round + 1)
  BY <1>2, <1>3, <1>4, <1>5 DEF Kernel, Block, ScatterCopy, GatherTake, GatherSkip, GatherExpire,
     queueVars
<1>6. ASSUME NEW t \in Threads, Begin(t) \/ Step(t) PROVE token'[s] = token[s]
  BY <1>1, <1>6 DEF Begin, Step, OtherStep, StartSearch, LoadHead, CheckTail, Pop, AwaitBuffer, LaunchGather,
     SubmitQuery, SubmitDeadline, TakeSize, ResetSize, PushReserve, PushWait, RecordEvent, Publish,
     WaitDispatch, WaitEvent, Sync, Return, queueVars
<1> QED BY <1>5, <1>6 DEF Next, KernelsStep, Terminating, vars, queueVars

\* Nobody commits to a batch that the gather kernel has closed, until it is emptied.
THEOREM ClosedForGood ==
  ASSUME NoEmptyRequest
  PROVE  Spec => ClosedStays
<1>1. TypeInv /\ RingInv /\ [Next]_vars =>
        [\A s \in Slots : token[s].closed =>
           \/ token'[s] = token[s]
           \/ ~token'[s].full /\ token'[s].round = token[s].round + 1]_vars
  BY ClosedStep
<1> QED BY <1>1, RingCorrect, PTL DEF Spec, ClosedStays
=============================================================================
