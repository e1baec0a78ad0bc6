-------------------------------- MODULE Table --------------------------------
(***************************************************************************)
(* What the handlers count on the database for (db/mod.rs): a write of     *)
(* some fields of an account happens at once or not at all, and leaves the *)
(* other fields as they are at that moment.                                *)
(***************************************************************************)
CONSTANTS Accounts, Writers, Documents, Initial, NoRequest

VARIABLES
    row,      \* the fields of each account
    asked     \* the write each writer waits for, or NoRequest

Requests == [account : Accounts, doc : Documents]

\* The fields of doc are written over those of the record r.
Set(r, doc) == [f \in DOMAIN r |-> IF f \in DOMAIN doc THEN doc[f] ELSE r[f]]

Init ==
    /\ row = Initial
    /\ asked = [w \in Writers |-> NoRequest]

Ask(w) ==
    /\ asked[w] = NoRequest
    /\ asked'[w] \in Requests
    /\ asked' = [asked EXCEPT ![w] = asked'[w]]
    /\ UNCHANGED row

Apply(w) ==
    /\ asked[w] # NoRequest
    /\ row' = [row EXCEPT ![asked[w].account] = Set(@, asked[w].doc)]
    /\ asked' = [asked EXCEPT ![w] = NoRequest]

Reject(w) ==
    /\ asked[w] # NoRequest
    /\ asked' = [asked EXCEPT ![w] = NoRequest]
    /\ UNCHANGED row

\* The process stops and its requests with it.
Stop ==
    /\ asked' = [w \in Writers |-> NoRequest]
    /\ UNCHANGED row

Next ==
    \/ Stop
    \/ \E w \in Writers : Ask(w) \/ Apply(w) \/ Reject(w)

Spec == Init /\ [][Next]_<<row, asked>>
=============================================================================
