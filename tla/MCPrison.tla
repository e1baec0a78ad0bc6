------------------------------ MODULE MCPrison ------------------------------
(***************************************************************************)
(* Instances of Prison for TLC.                                            *)
(***************************************************************************)
EXTENDS Prison

CONSTANTS h1, r1, r2

\* What the client of a host saves: a prison without any rental, and one in
\* which an own worker of the host fills the first sector.
OwnWorker == [renter |-> NoMember, role |-> "Owner", until |-> 0]
SomeUploads == {[i \in Sectors |-> IF i = 0 THEN <<OwnWorker>> ELSE <<>>]}

NoUploads == {}

\* Selected against the operator of the standard modules.
ASSUME SelectedIsSelectSeq ==
    \A seq \in BoundedSeq({0, 1, 2}, 4) : \A S \in SUBSET {0, 1, 2} :
        Selected(seq, S) = SelectSeq(seq, LAMBDA e : e \in S)

TaskSymmetry == Permutations(Tasks)
=============================================================================
