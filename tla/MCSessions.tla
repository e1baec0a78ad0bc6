----------------------------- MODULE MCSessions -----------------------------
(***************************************************************************)
(* Instances of Sessions for TLC: what the database holds at start, and    *)
(* the symmetry of tasks and sockets, which no definition tells apart.     *)
(***************************************************************************)
EXTENDS Sessions

CONSTANTS a1, a2

\* Two accounts with their numbers; one that has lost its number and one that
\* does not exist yet; none at all.
BothExist == (a1 :> <<1>>) @@ (a2 :> <<2>>)
OneExists == (a1 :> <<0>>) @@ (a2 :> <<>>)
NoneExists == [a \in Names |-> <<>>]

TaskSocketSymmetry == Permutations(Tasks) \cup Permutations(Sockets)
=============================================================================
