---------------------------- MODULE SearchService ----------------------------
(***************************************************************************)
(* What a search index promises to the threads that call it, whatever      *)
(* happens inside: cpp/include/cuvs/neighbors/dynamic_batching.hpp says    *)
(* that a call is one search with its own queries and results, and that    *)
(* concurrent calls are safe.  DynamicBatching implements this.            *)
(***************************************************************************)
EXTENDS Integers

CONSTANTS Threads, Rows, ReqSizes, MaxReqs

VARIABLES
  calling,   \* threads inside a call
  num,       \* thread -> number of its current request
  size,      \* thread -> queries in that request
  answer     \* thread, row -> the query whose neighbors have been delivered

vars == <<calling, num, size, answer>>

NoQuery == <<>>
Unanswered(t) == {i \in Rows : i < size[t] /\ answer[t][i] = NoQuery}

Init ==
  /\ calling = {}
  /\ num = [t \in Threads |-> 0]
  /\ size = [t \in Threads |-> 0]
  /\ answer = [t \in Threads |-> [i \in Rows |-> NoQuery]]

\* A thread hands over the n queries of a new request.
Call(t, n) ==
  /\ t \notin calling /\ num[t] < MaxReqs
  /\ calling' = calling \union {t}
  /\ num' = [num EXCEPT ![t] = @ + 1]
  /\ size' = [size EXCEPT ![t] = n]
  /\ answer' = [answer EXCEPT ![t] = [i \in Rows |-> NoQuery]]

\* A set of queries, of one or more requests, is answered together; each gets
\* its own neighbors, and none is answered before the call or after the return.
Answer(batch) ==
  /\ \A t \in Threads : batch[t] \subseteq Unanswered(t)
  /\ \A t \in Threads : batch[t] # {} => t \in calling
  /\ answer' = [t \in Threads |-> [i \in Rows |->
                  IF i \in batch[t] THEN <<t, num[t], i>> ELSE answer[t][i]]]
  /\ UNCHANGED <<calling, num, size>>

\* The call is over when every query is answered.
Return(t) ==
  /\ t \in calling /\ Unanswered(t) = {}
  /\ calling' = calling \ {t}
  /\ UNCHANGED <<num, size, answer>>

AnswerSome == \E batch \in [Threads -> SUBSET Rows] : Answer(batch)

Next ==
  \/ \E t \in Threads, n \in ReqSizes : Call(t, n)
  \/ AnswerSome
  \/ \E t \in Threads : Return(t)

\* What may happen, and that every call returns.
Safe == Init /\ [][Next]_vars
Spec == Safe /\ \A t \in Threads : t \in calling ~> t \notin calling

=============================================================================
