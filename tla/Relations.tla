------------------------------ MODULE Relations ------------------------------
(***************************************************************************)
(* Ownership and lovership together: the handlers of both run side by side *)
(* on the same sessions and rows, and a login loads both.                  *)
(***************************************************************************)
EXTENDS Ownership, Lovership

----------------------------------------------------------------------------

\* Whose name Owner may be: a member's, another one, or none.
Owners == Members \cup Npcs \cup {NoMember}

Init == PresenceInit

MemberMove(m) == SignOut(m) \/ EnterRoom(m) \/ LeaveRoom(m)

Request(k) ==
    \E m \in Members :
        \/ BeginLogin(k, m)
        \/ \E x \in Members : OwnershipRequest(k, m, x) \/ LovershipRequest(k, m, x)
        \/ \E n \in Npcs : NpcRequest(k, m, n)
        \/ \E x \in Owners : BeginNameOwner(k, m, x)

TaskStep(k) == EnterLogin(k) \/ OwnershipStep(k) \/ LovershipStep(k)

Next ==
    \/ Tick
    \/ Crash
    \/ \E m \in Members : MemberMove(m)
    \/ \E k \in Tasks : Request(k) \/ TaskStep(k)

Spec == Init /\ [][Next]_vars

----------------------------------------------------------------------------
\* Types.

Bonds == [stage : {"none", "offer", "trial", "collar"}, by : Members \cup {NoMember},
          start : Nat, ending : Members \cup {NoMember}]

Entries == [with : Members \cup Npcs, stage : TieStages \cup {"offered", "npc"},
            start : Nat, engage : Members \cup {NoMember}, wed : Members \cup {NoMember}]

Accounts == [bond : Bonds, owner : Owners, loves : Seq(Entries)]

\* What a task carries, by its step.
Carried(pc) ==
    CASE pc = "enter" -> Accounts
      [] pc \in {"save", "notes"} -> [bond : Bonds, owner : Owners]
      [] pc = "name" -> Owners
      [] pc \in {"engage", "wed"} -> Nat \ {0}
      [] pc = "tie" -> [stage : TieStages, i : Nat, j : Nat]
      [] pc = "saveBoth" -> [own : Seq(Entries), other : Seq(Entries)]
      [] pc \in {"part", "saveList"} -> Seq(Entries)
      [] pc = "saveOwn" -> [list : Seq(Entries), met : BOOLEAN]
      [] OTHER -> {Blank}

Steps == {"enter", "offer", "offerEnd", "trial", "collar", "save", "notes", "release",
          "clear", "find", "clearAway", "unseat", "name",
          "date", "engage", "wed", "tie", "look", "saveBoth", "saveList",
          "part", "saveOwn", "lookUp", "pull"}

\* Every variable holds a value of its type, and who is in the room is online.
TypeOK ==
    /\ now \in Nat
    /\ here \subseteq online /\ online \subseteq Members
    /\ live \in [Members -> Accounts]
    /\ row \in [Members -> Accounts]
    /\ \A k \in Tasks :
          task[k] # NoTask =>
             /\ task[k].pc \in Steps
             /\ {task[k].who, task[k].about} \subseteq Members
             /\ task[k].seen \subseteq online
             /\ task[k].copy \in Carried(task[k].pc)
=============================================================================
