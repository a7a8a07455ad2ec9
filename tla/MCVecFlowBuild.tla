--------------------------- MODULE MCVecFlowBuild ---------------------------
(* Instances of VecFlowBuild for TLC. *)
EXTENDS VecFlowBuild, TLC

CONSTANTS w1, w2, w3

Pair  == {w1, w2}
Trio  == {w1, w2, w3}
PairSymmetry == Permutations(Pair)
TrioSymmetry == Permutations(Trio)

\* Labels of four rows.  In Mixed, labels 0 and 2 are frequent, 1 and 3 rare,
\* and a row names its label twice.
Mixed   == << <<0, 2>>, <<0, 1, 2>>, <<2, 0>>, <<3, 3>> >>
\* All labels are frequent.
Twins   == << <<0, 1>>, <<1, 0>>, <<0, 1>>, <<0>> >>
\* Three frequent labels.
Triple  == << <<0, 1, 2>>, <<1, 2, 0>>, <<0, 2, 1>> >>
\* Only rare labels, and a label number that no row carries.
Rare    == << <<0>>, <<1>>, <<3>>, <<1>> >>
\* Label 0 is not used and label 1 is frequent.
Gap     == << <<1>>, <<1>>, <<1>> >>

CallOf(vecs, threshold, degree, named, force) ==
  [data_label_vecs |-> vecs, specificity_threshold |-> threshold,
   graph_degree |-> degree, named |-> named, force_rebuild |-> force]

Fresh == {CallOf(Mixed, 2, 1, {}, FALSE), CallOf(Twins, 2, 2, {}, FALSE),
          CallOf(Rare, 2, 1, {}, FALSE), CallOf(Triple, 2, 2, {}, FALSE)}

\* Every way to put labels 0 to 2 on three rows, at two thresholds, but for
\* those where only unused labels are rare.
RowLabels == {<<>>, <<0>>, <<1>>, <<2>>, <<0, 1>>, <<2, 0>>, <<1, 2>>, <<0, 1, 2>>}
Small     == {CallOf(<<a, b, c>>, t, 1, {}, FALSE) :
                a, b, c \in RowLabels, t \in {1, 2}}
Frequency(c, l) == Cardinality({p \in 1..3 : \E j \in DOMAIN c.data_label_vecs[p] :
                                               c.data_label_vecs[p][j] = l})
LargestLabel(c) == max_label(c.data_label_vecs)
AllSmall  == {c \in Small : \/ \E l \in 0..LargestLabel(c) :
                                 Frequency(c, l) \in 1..c.specificity_threshold
                            \/ \A l \in 0..LargestLabel(c) :
                                 Frequency(c, l) > c.specificity_threshold}

\* Builds that share their files, forced or not.
Cached == {CallOf(Mixed, 2, 1, Kind, f) : f \in BOOLEAN} \cup
          {CallOf(Twins, 2, 2, {"graph"}, f) : f \in BOOLEAN}

\* What no fault disturbs.
Sound == Fresh \cup AllSmall \cup Cached

\* The same build over and over.
Again       == {CallOf(Mixed, 2, 1, Kind, f) : f \in BOOLEAN}
FewRows     == {CallOf(Twins, 2, 4, {}, FALSE)}
UnusedLabel == {CallOf(Gap, 2, 1, {}, FALSE)}
=============================================================================
