------------------------------ MODULE Registry ------------------------------
(***************************************************************************)
(* What the sessions promise about accounts: an account is held by one     *)
(* socket at most, a socket holds one account at most, and an account that *)
(* is held is released before another socket takes it.                     *)
(***************************************************************************)
CONSTANTS Names, Sockets, Nobody

VARIABLE holder    \* the socket that holds an account, or Nobody

Init == holder = [a \in Names |-> Nobody]

\* The accounts in A are given up.
Release(A) == holder' = [a \in Names |-> IF a \in A THEN Nobody ELSE holder[a]]

\* Socket s takes the account a, and gives up the one it holds.
Take(a, s) ==
    /\ holder[a] = Nobody
    /\ holder' = [b \in Names |-> IF b = a THEN s
                                  ELSE IF holder[b] = s THEN Nobody
                                  ELSE holder[b]]

Next ==
    \/ \E A \in SUBSET Names : Release(A)
    \/ \E a \in Names, s \in Sockets : Take(a, s)

Spec == Init /\ [][Next]_holder
=============================================================================
