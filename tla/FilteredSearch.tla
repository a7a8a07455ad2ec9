--------------------------- MODULE FilteredSearch ---------------------------
(***************************************************************************)
(* What VecFlow promises (README.md:3-5, vecflow.hpp:84-93): a query with  *)
(* a label is answered from the rows that carry the label, whether there   *)
(* are many or few of them, and each query of a batch gets its own answer. *)
(***************************************************************************)
EXTENDS Sequences

CONSTANT Requests

VARIABLES
  rows,      \* label -> the rows of the dataset that carry it
  asked,     \* the labels of the batch being answered
  answered   \* query -> its answer, empty while there is none

vars == <<rows, asked, answered>>

Init == rows = <<>> /\ asked = <<>> /\ answered = <<>>

\* The dataset is replaced, or withdrawn while it is replaced.
Load == rows' # rows /\ asked' = <<>> /\ answered' = <<>>

Ask ==
  /\ rows # <<>>
  /\ asked' \in Requests
  /\ answered' = <<>>
  /\ UNCHANGED rows

Answer ==
  /\ answered' = [q \in DOMAIN asked |-> [vector |-> q, over |-> rows[asked[q]]]]
  /\ UNCHANGED <<rows, asked>>

Next == Load \/ Ask \/ Answer

Spec == Init /\ [][Next]_vars
=============================================================================
