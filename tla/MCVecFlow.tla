------------------------------ MODULE MCVecFlow ------------------------------
(* Instances of VecFlow for TLC. *)
EXTENDS VecFlow

CONSTANTS w1

One == {w1}

\* Label 0 has three rows and label 1 two, 2 has none, 3 has one.
Rows == << <<0, 1>>, <<0>>, <<1, 0>>, <<3>> >>
\* The same rows, with the labels 0 and 1 exchanged.
Turned == << <<1, 0>>, <<1>>, <<0, 1>>, <<3>> >>

CallOf(vecs, threshold, named) ==
  [data_label_vecs |-> vecs, specificity_threshold |-> threshold,
   graph_degree |-> 1, named |-> named, force_rebuild |-> FALSE]

\* Two datasets, one of them in files.
Both  == {CallOf(Rows, 2, {}), CallOf(Rows, 2, Kind), CallOf(Turned, 2, {})}
First == {CallOf(Rows, 2, {})}

\* Batches with one label twice, with both halves, with an unused label, and empty.
Batches == { <<0, 1, 0>>, <<1, 0>>, <<3, 2>>, <<>>, <<0, 3, 0, 1>> }
Single  == { <<0>> }
=============================================================================
