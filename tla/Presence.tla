------------------------------- MODULE Presence -------------------------------
(***************************************************************************)
(* What the handlers of relations/mod.rs share: who is online and who is   *)
(* in the room, the relations of an account in its session and in its row  *)
(* of the database, and the handlers under way.                            *)
(*                                                                         *)
(* A handler copies the sessions of the two members it is about, decides   *)
(* on the copies, then writes the sessions under another lock and the rows *)
(* after awaits; nothing is looked at again. The reads a handler makes     *)
(* before it writes anything are one action, each later lock or await is   *)
(* one of its own.                                                         *)
(*                                                                         *)
(* There is one room; who is not in it is elsewhere or offline. Names,     *)
(* notes and the messages to clients are left out.                         *)
(***************************************************************************)
EXTENDS Integers, Sequences

CONSTANTS
    Members,     \* member numbers of accounts
    Plays,       \* what may happen in a behaviour: the requests, which are triples
                 \* <<action, sender, target>>, the faults, and until when
                 \* the clock runs (bound)
    BlackList,   \* of each member, those it does not want to hear of
    Settled,     \* members that are in the room at start (bound)
    Tasks,       \* handlers that can run at a time (bound)
    NoMember

ASSUME PresenceAssumption ==
    /\ BlackList \in [Members -> SUBSET Members]
    /\ \A p \in Plays : p.faults \subseteq {"crash", "write"} /\ p.until \in Nat
    /\ Settled \subseteq Members
    /\ NoMember \notin Members

VARIABLES
    play,     \* what may happen in this behaviour (bound)
    now,      \* common_time
    online,   \* members with a session
    here,     \* those of them that are in the room
    live,     \* Ownership, Owner and Lovership in the sessions
    row,      \* the same fields in the database
    task,     \* what each handler is doing
    word      \* history: who has offered and accepted what to whom

setting == <<play, now>>
where == <<online, here>>
vars == <<setting, where, live, row, task, word>>

----------------------------------------------------------------------------
\* A definition with an underscore in its name (X_Bug) is the definition X with
\* a slip in it: X replaced by it breaks a property.

\* The Ownership object: "offer" has only StartTrialOfferedByMemberNumber, which
\* is "by"; a bond of Stage 0 is a "trial", one of Stage 1 a "collar", and "by"
\* is then its MemberNumber. ending is EndTrialOfferedByMemberNumber.
Free == [stage |-> "none", by |-> NoMember, start |-> 0, ending |-> NoMember]

\* An account's Ownership, its Owner (the name to show) and its Lovership.
Blank == [bond |-> Free, owner |-> NoMember, loves |-> <<>>]

\* who: the member that sent the request; about: the other one, or the one whose
\* bond it is; copy: what the task saw or will write, where it writes it;
\* seen: the members whose session the task has seen and is still there.
NoTask == [pc |-> "idle", who |-> NoMember, about |-> NoMember, copy |-> Blank,
           seen |-> {}]

At(k, pc) == task[k].pc = pc

Goto(k, pc, copy) ==
    task' = [task EXCEPT ![k].pc = pc, ![k].copy = copy, ![k].seen = {}]

Ends(k) == task' = [task EXCEPT ![k] = NoTask]

\* A handler of m about x goes on to step pc with the copy it has made.
Begin(k, pc, m, x, copy) ==
    /\ task[k] = NoTask
    /\ task' = [task EXCEPT ![k] = [pc |-> pc, who |-> m, about |-> x, copy |-> copy,
                                    seen |-> {m, x} \cap online]]

Asked(action, m, x) == <<action, m, x>> \in play.requests

\* A write to the database, or its failure, which no handler looks at.
Write(new) ==
    \/ row' = new
    \/ "write" \in play.faults /\ UNCHANGED row

Says(what, m, x) == word' = word \cup {<<what, m, x>>}

Together(m, x) == {m, x} \subseteq here

----------------------------------------------------------------------------
\* Sessions and the room, as far as relations see them. A login copies the row
\* and enters the session several awaits later.

BeginLogin(k, m) ==
    /\ Asked("Login", m, m)
    /\ m \notin online
    /\ \A l \in Tasks : ~ At(l, "enter")
    /\ Begin(k, "enter", m, m, row[m])
    /\ UNCHANGED <<setting, where, live, row, word>>

EnterLogin(k) ==
    LET m == task[k].about
    IN  /\ At(k, "enter")
        /\ online' = online \cup {m}
        /\ live' = [live EXCEPT ![m] = task[k].copy]
        /\ Ends(k)
        /\ UNCHANGED <<setting, here, row, word>>

SignOut_StaysHere(m) ==
    /\ Asked("SignOut", m, m)
    /\ m \in online
    /\ online' = online \ {m}
    /\ live' = [live EXCEPT ![m] = Blank]
    /\ task' = [k \in Tasks |-> [task[k] EXCEPT !.seen = @ \ {m}]]
    /\ UNCHANGED <<setting, here, row, word>>

SignOut(m) ==
    /\ Asked("SignOut", m, m)
    /\ m \in online
    /\ online' = online \ {m}
    /\ here' = here \ {m}
    /\ live' = [live EXCEPT ![m] = Blank]
    /\ task' = [k \in Tasks |-> [task[k] EXCEPT !.seen = @ \ {m}]]
    /\ UNCHANGED <<setting, row, word>>

EnterRoom(m) ==
    /\ m \in online \ here
    /\ here' = here \cup {m}
    /\ UNCHANGED <<setting, online, live, row, task, word>>

LeaveRoom(m) ==
    /\ Asked("LeaveRoom", m, m)
    /\ m \in here
    /\ here' = here \ {m}
    /\ UNCHANGED <<setting, online, live, row, task, word>>

\* The server stops in the middle of everything and starts again, and the settled
\* members come back at once.
Crash ==
    /\ "crash" \in play.faults
    /\ online' = Settled /\ here' = Settled
    /\ live' = [m \in Members |-> IF m \in Settled THEN row[m] ELSE Blank]
    /\ task' = [k \in Tasks |-> NoTask]
    /\ UNCHANGED <<setting, row, word>>

\* A handler takes far less than a delay of a week: time passes between them.
Tick ==
    /\ now < play.until
    /\ \A k \in Tasks : task[k] = NoTask
    /\ now' = now + 1
    /\ UNCHANGED <<play, where, live, row, task, word>>

PresenceInit ==
    /\ play \in Plays
    /\ now = 0
    /\ online = Settled /\ here = Settled
    /\ live = [m \in Members |-> Blank]
    /\ row = [m \in Members |-> Blank]
    /\ task = [k \in Tasks |-> NoTask]
    /\ word = {}
=============================================================================
