----------------------------- MODULE Placement -----------------------------
(***************************************************************************)
(* What the chat rooms promise about places: every member is in one room   *)
(* or in none, a step moves one member, and a room is open exactly as long *)
(* as somebody is in it. Rooms implements this, and so does Prison with    *)
(* the live views of the sectors for rooms.                                *)
(*                                                                         *)
(* A member who is loose may stay behind where it was when it goes         *)
(* elsewhere. Once loose, a member stays so; in Prison nobody is.          *)
(***************************************************************************)
CONSTANTS Members, RoomIds

VARIABLES
    place,   \* the rooms each member is in, none for the lobby or offline
    open,    \* the rooms that exist
    loose    \* the members who may be in several rooms

vars == <<place, open, loose>>

Init ==
    /\ place = [m \in Members |-> {}]
    /\ open = {}
    /\ loose = {}

Occupied(where) == UNION {where[m] : m \in Members}

AtMostOne(rs) == \A q, r \in rs : q = r

\* The member m, who was in some rooms, is in those of p now: it has entered one
\* at most.
Move(m, p) ==
    /\ AtMostOne(p \ place[m])
    /\ place' = [place EXCEPT ![m] = p]
    /\ open' = Occupied(place')
    /\ loose \subseteq loose' /\ loose' \subseteq Members
    /\ \A x \in Members \ loose' : AtMostOne(place'[x])

Next == \E m \in Members, p \in SUBSET RoomIds : Move(m, p)

Spec == Init /\ [][Next]_vars
=============================================================================
