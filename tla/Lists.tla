-------------------------------- MODULE Lists --------------------------------
(***************************************************************************)
(* Vec::retain, as the lists of the members of a room, of rentals and of   *)
(* lovers are filtered with it.                                            *)
(***************************************************************************)
EXTENDS Integers, Sequences

\* The elements of seq that are in S, in their order. This is SelectSeq with a set
\* for a test: an operator that takes no operator, which a theorem can be about.
Selected(seq, S) ==
    LET kept[n \in 0 .. Len(seq)] ==
            IF n = 0 THEN <<>>
            ELSE IF seq[n] \in S THEN Append(kept[n - 1], seq[n]) ELSE kept[n - 1]
    IN  kept[Len(seq)]
=============================================================================
