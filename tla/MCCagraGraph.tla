----------------------------- MODULE MCCagraGraph -----------------------------
(* Instances of CagraGraph for TLC. *)
EXTENDS CagraGraph, TLC

Call(knn, degree, connect) == [knn |-> knn, degree |-> degree, connect |-> connect]

\* Two pairs of near neighbours, and all other nodes.
Pairs == 0 :> <<1, 2, 3>> @@ 1 :> <<0, 3, 2>> @@ 2 :> <<3, 0, 1>> @@ 3 :> <<2, 1, 0>>
\* Everybody's nearest neighbour is node 3, whose places run out.
Star  == 0 :> <<3, 1, 2>> @@ 1 :> <<3, 0, 2>> @@ 2 :> <<3, 1, 0>> @@ 3 :> <<0, 1, 2>>

Connecting == {Call(Pairs, 3, TRUE), Call(Star, 3, TRUE)}
Plain      == {Call(Pairs, 2, FALSE), Call(Star, 2, FALSE)}
AllJobs    == Connecting \union Plain
OnlyPairs  == {Call(Pairs, 3, TRUE)}
OnlyPlain  == {Call(Pairs, 2, FALSE)}
\* A node, or none.
SomeWords  == {0, GraphSize}
ZeroPage   == {0}
=============================================================================
