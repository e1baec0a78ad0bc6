------------------------------ MODULE MCRooms ------------------------------
(***************************************************************************)
(* Instances of Rooms for TLC: the forms that clients submit, the          *)
(* environments of the sockets and the symmetries that are sound for each  *)
(* run.                                                                    *)
(***************************************************************************)
EXTENDS Rooms

CONSTANTS s1, s2, s3, m1, m2, m3, e1, e2

\* An open room that two members fill, one that only its admins and its
\* whitelist enter, hidden from the others, and one whose limit of 1 is out
\* of range and whose creator bans a member.
OpenForm ==
    [limit |-> 3, admin |-> {m1}, ban |-> {}, whitelist |-> {},
     access |-> {"All"}, visibility |-> {"All"}]

ClosedForm ==
    [limit |-> 2, admin |-> {m1, m2}, ban |-> {}, whitelist |-> {m2},
     access |-> {"Admin", "Whitelist"}, visibility |-> {"Admin"}]

BanForm ==
    [limit |-> 1, admin |-> {m1}, ban |-> {m2}, whitelist |-> {},
     access |-> {"All"}, visibility |-> {"Whitelist"}]

\* Requests that carry every optional field, and creations that leave the admins
\* to their default.
FullCreates == {CreateOptional}
PlainCreates == {CreateOptional \ {"Admin"}}
FullUpdates == {UpdateOptional}

OneForm == {OpenForm}
AllForms == {OpenForm, ClosedForm, BanForm}

OneEnv == [s \in Sockets |-> e1]
TwoEnvs == [s \in Sockets |-> IF s = s1 THEN e1 ELSE e2]

\* Sockets are interchangeable when they share an environment; rooms and names
\* always are; of the members, those whom no form names.
SameEnvSymmetry == Permutations(Sockets)

PlacesSymmetry ==
    Permutations(Sockets \ {s1}) \cup Permutations(RoomIds) \cup
    Permutations(Names) \cup Permutations(Members \ {m1})
=============================================================================
