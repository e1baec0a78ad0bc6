------------------------------- MODULE Prison -------------------------------
(***************************************************************************)
(* Prison sectors: renting a place in a sector of a host's prison, being   *)
(* dismissed or ransomed, joining and leaving the live view of a sector,   *)
(* and the job that expires rentals (the prison part of account/mod.rs and *)
(* of state/world.rs).                                                     *)
(*                                                                         *)
(* The rentals of a host are stored in its row of the database and, while  *)
(* the host is online, in its session. A handler copies them, decides on   *)
(* the copy, and then writes the copy back to the row and to the session,  *)
(* one await or one lock at a time; each such piece is an action.          *)
(*                                                                         *)
(* Money is the client's to set (AccountUpdate writes it as well), so it   *)
(* is reduced to whether it suffices, and its writes to their place and    *)
(* their failure. Every sector is unlocked and has an overseer, a member   *)
(* has one private character at most, and of AccountUpdate only the write  *)
(* of the prison is modelled.                                              *)
(***************************************************************************)
EXTENDS Lists, SequencesExt

CONSTANTS
    Members,     \* member numbers of accounts
    Hosts,       \* the members whose prison is owned and public
    Sectors,     \* sector indices of a prison
    Workers,     \* members with a private character they can rent out
    Capacity,    \* rentals that fit in a sector
    Term,        \* PRISON_RENT_DURATION_MS, in ticks
    Uploads,     \* prisons that the client of a host saves
    Tasks,       \* handlers that can run at a time (bound)
    Kinds,       \* requests that clients send
    SentRoles,   \* the roles they name
    LastTime,    \* bound: ticks of the clock
    Faulty,      \* whether calls of the database may fail
    NoMember, NoSector

ASSUME PrisonAssumption ==
    /\ Hosts \subseteq Members /\ Workers \subseteq Members
    /\ Capacity \in Nat
    /\ Term \in Nat \ {0} /\ LastTime \in Nat
    /\ Faulty \in BOOLEAN
    /\ SentRoles \subseteq {"Self", "Slave"}
    /\ NoMember \notin Members
    /\ NoSector \notin Hosts \X Sectors

VARIABLES
    now,      \* common_time
    online,   \* members with a session
    row,      \* the prisons in the database
    live,     \* the prisons in the sessions of the hosts online
    views,    \* World.prison_sector_sessions, on the sectors in use
    task,     \* what each handler is doing
    sweep     \* what expire_prison_sector_rentals is doing

data == <<row, live>>
vars == <<now, online, data, views, task, sweep>>

----------------------------------------------------------------------------
\* A definition with an underscore in its name (X_Bug) is the definition X with
\* a slip in it: X replaced by it breaks a property.

Roles == {"Self", "Slave", "Owner"}

EmptyPrison == [i \in Sectors |-> <<>>]

NoTask == [pc |-> "idle", who |-> NoMember, host |-> NoMember, sector |-> NoSector,
           target |-> NoMember, role |-> "Owner", action |-> "none",
           pays |-> FALSE, prison |-> EmptyPrison]

NoSweep == [pc |-> "idle", time |-> 0, todo |-> {}, sector |-> NoSector,
            prison |-> EmptyPrison, expired |-> <<>>]

At(k, pc) == task[k].pc = pc

Goto(k, pc) == task' = [task EXCEPT ![k].pc = pc]

Ends(k) == task' = [task EXCEPT ![k] = NoTask]

Begin(k, request) ==
    /\ task[k] = NoTask
    /\ task' = [task EXCEPT ![k] = request]

\* rental_is_active: a rental without a term never ends.
IsActive(rental, time) == rental.until <= 0 \/ rental.until > time

Actives(rentals, time) ==
    Selected(rentals, {rental \in ToSet(rentals) : IsActive(rental, time)})

Expired(rentals, time) ==
    Selected(rentals, {rental \in ToSet(rentals) : ~ IsActive(rental, time)})

\* load_prison_host: from the session when there is one, else from the row.
\* Looking for the session and reading the row are one step here.
Loaded(h) == IF h \in online THEN live[h] ELSE row[h]

\* Only the read of a row may fail.
MayFail(h) == Faulty /\ h \notin online

----------------------------------------------------------------------------
\* Views. A view that nobody is left in is dropped.

Retained(v) == [x \in {y \in DOMAIN v : v[y] # {}} |-> v[x]]

WithoutAnywhere_LastView(m) ==
    [x \in DOMAIN views |-> IF views[x] = {m} THEN {} ELSE views[x]]

\* m removed from every view.
WithoutAnywhere(m) == [x \in DOMAIN views |-> views[x] \ {m}]

\* remove_prison_sector_member
LeaveSector_Kept(x, m) ==
    views' = [y \in DOMAIN views |-> IF y = x THEN views[y] \ {m} ELSE views[y]]

LeaveSector(x, m) ==
    views' = Retained([y \in DOMAIN views |-> IF y = x THEN views[y] \ {m} ELSE views[y]])

----------------------------------------------------------------------------
\* Sessions, as far as the prison sees them. A login reads the row and enters
\* the session several awaits later; login_mutex lets one login run at a time.

BeginLogin(k, m) ==
    /\ "Login" \in Kinds
    /\ m \notin online
    /\ \A l \in Tasks : ~ At(l, "enter")
    /\ Begin(k, [NoTask EXCEPT !.pc = "enter", !.who = m,
                               !.prison = IF m \in Hosts THEN row[m] ELSE EmptyPrison])
    /\ UNCHANGED <<now, online, data, views, sweep>>

EnterLogin(k) ==
    LET m == task[k].who
    IN  /\ At(k, "enter")
        /\ online' = online \cup {m}
        /\ live' = [h \in Hosts |-> IF h = m THEN task[k].prison ELSE live[h]]
        /\ Ends(k)
        /\ UNCHANGED <<now, row, views, sweep>>

\* remove_account: the session goes, and with it the member from every view.
SignOut(m) ==
    /\ m \in online
    /\ online' = online \ {m}
    /\ live' = [h \in Hosts |-> IF h = m THEN EmptyPrison ELSE live[h]]
    /\ views' = Retained(WithoutAnywhere(m))
    /\ UNCHANGED <<now, row, task, sweep>>

----------------------------------------------------------------------------
\* handle_prison_rent

BeginRent(k, m, x, role) ==
    /\ "Rent" \in Kinds
    /\ m \in online
    /\ m # x[1]
    /\ role = "Slave" => m \in Workers
    /\ Begin(k, [NoTask EXCEPT !.pc = "rent", !.who = m, !.host = x[1], !.sector = x,
                               !.target = m, !.role = role, !.action = "Rent"])
    /\ UNCHANGED <<now, online, data, views, sweep>>

HasRoom_Always(rentals) == TRUE

HasRoom(rentals) == Len(rentals) < Capacity

Placed(t, rentals) ==
    Append(rentals, [renter |-> t.who, role |-> t.role, until |-> now + Term])

\* The host is loaded, and the rental decided upon and written into the copy.
\* The request may also be refused for want of money or of the host.
LoadForRent(k) ==
    LET t       == task[k]
        prison  == Loaded(t.host)
        i       == t.sector[2]
        rentals == Actives(prison[i], now)
    IN  /\ At(k, "rent")
        /\ \/ /\ HasRoom(rentals)
              /\ task' = [task EXCEPT ![k].pc = "persist", ![k].pays = TRUE,
                             ![k].prison = [prison EXCEPT ![i] = Placed(t, rentals)]]
           \/ Ends(k)
        /\ UNCHANGED <<now, online, data, views, sweep>>

----------------------------------------------------------------------------
\* handle_prison_release

\* A host dismisses anybody; a renter ransoms itself.
BeginRelease(k, m, x, target, role, action) ==
    /\ action \in Kinds
    /\ m \in online
    /\ \/ action = "OwnerDismiss" /\ m = x[1]
       \/ action = "SelfRansom" /\ target = m /\ role = "Self"
    /\ Begin(k, [NoTask EXCEPT !.pc = "release", !.who = m, !.host = x[1], !.sector = x,
                               !.target = target, !.role = role, !.action = action])
    /\ UNCHANGED <<now, online, data, views, sweep>>

\* remove_prison_rental takes the first entry that matches.
Matching(rentals, t) ==
    {j \in DOMAIN rentals : rentals[j].renter = t.target /\ rentals[j].role = t.role}

\* A ransom costs something while the term lasts (ransom_fee), a dismissal does
\* not. The request may be refused for want of money or of the host.
LoadForRelease(k) ==
    LET t       == task[k]
        prison  == Loaded(t.host)
        i       == t.sector[2]
        found   == Matching(prison[i], t)
        first   == CHOOSE j \in found : \A l \in found : j <= l
    IN  /\ At(k, "release")
        /\ \/ /\ found # {}
              /\ task' = [task EXCEPT
                     ![k].pc = "persist",
                     ![k].pays = t.action = "SelfRansom" /\ prison[i][first].until > now,
                     ![k].prison = [prison EXCEPT ![i] = RemoveAt(@, first)]]
           \/ Ends(k)
        /\ UNCHANGED <<now, online, data, views, sweep>>

----------------------------------------------------------------------------
\* What renting and releasing do once they are decided.

\* persist_prison, which may fail.
Persist(k) ==
    LET t == task[k]
    IN  /\ At(k, "persist")
        /\ \/ /\ row' = [row EXCEPT ![t.host] = t.prison]
              /\ Goto(k, IF t.pays THEN "pay" ELSE "apply")
           \/ Faulty /\ Ends(k) /\ UNCHANGED row
        /\ UNCHANGED <<now, online, live, views, sweep>>

\* persist_money, which may fail and leave the row of the host as it is now.
Pay(k) ==
    /\ At(k, "pay")
    /\ Goto(k, "apply") \/ (Faulty /\ Ends(k))
    /\ UNCHANGED <<now, online, data, views, sweep>>

\* apply_prison_to_online, and apply_money_to_online.
Apply(k) ==
    LET t == task[k]
    IN  /\ At(k, "apply")
        /\ live' = IF t.host \in online THEN [live EXCEPT ![t.host] = t.prison] ELSE live
        /\ IF t.action = "Rent" THEN Ends(k) ELSE Goto(k, "expel")
        /\ UNCHANGED <<now, online, row, views, sweep>>

\* The released member leaves the view of the sector.
Expel(k) ==
    /\ At(k, "expel")
    /\ LeaveSector(task[k].sector, task[k].target)
    /\ Ends(k)
    /\ UNCHANGED <<now, online, data, sweep>>

----------------------------------------------------------------------------
\* handle_prison_work_room

BeginJoin(k, m, x) ==
    /\ "Join" \in Kinds
    /\ m \in online
    /\ Begin(k, [NoTask EXCEPT !.pc = "knock", !.who = m, !.host = x[1], !.sector = x])
    /\ UNCHANGED <<now, online, data, views, sweep>>

\* The host and those who rent a place for themselves may join.
HasPlace(m, rentals, time) ==
    \E rental \in ToSet(rentals) :
        rental.renter = m /\ rental.role = "Self" /\ IsActive(rental, time)

MayJoin(m, x, prison) == m = x[1] \/ HasPlace(m, prison[x[2]], now)

\* A request that only asks for the members of a view passes the same test and
\* changes nothing.
LoadForJoin(k) ==
    LET t     == task[k]
        admit == MayJoin(t.who, t.sector, Loaded(t.host))
    IN  /\ At(k, "knock")
        /\ \/ admit /\ Goto(k, "join")
           \/ (~ admit \/ MayFail(t.host)) /\ Ends(k)
        /\ UNCHANGED <<now, online, data, views, sweep>>

\* Nobody looks whether the member is still online.
Join(k) ==
    LET t    == task[k]
        left == WithoutAnywhere(t.who)
        kept == Retained(left)
    IN  /\ At(k, "join")
        /\ views' = [x \in DOMAIN kept \cup {t.sector} |->
                        IF x = t.sector
                        THEN {t.who} \cup (IF x \in DOMAIN kept THEN kept[x] ELSE {})
                        ELSE kept[x]]
        /\ Ends(k)
        /\ UNCHANGED <<now, online, data, sweep>>

Leave(m, x) ==
    /\ "Join" \in Kinds
    /\ m \in online
    /\ x \in DOMAIN views /\ m \in views[x]
    /\ LeaveSector(x, m)
    /\ UNCHANGED <<now, online, data, task, sweep>>

----------------------------------------------------------------------------
\* handle_account_update with the prison of the account: the session at once,
\* the row after an await.

BeginUpload(k, h, prison) ==
    /\ h \in online \cap Hosts
    /\ live' = [live EXCEPT ![h] = prison]
    /\ Begin(k, [NoTask EXCEPT !.pc = "save", !.host = h, !.prison = prison])
    /\ UNCHANGED <<now, online, row, views, sweep>>

Save(k) ==
    LET t == task[k]
    IN  /\ At(k, "save")
        /\ row' = [row EXCEPT ![t.host] = t.prison] \/ (Faulty /\ UNCHANGED row)
        /\ Ends(k)
        /\ UNCHANGED <<now, online, live, views, sweep>>

----------------------------------------------------------------------------
\* expire_prison_sector_rentals, every minute: one sector in use after another.

Tick ==
    /\ now < LastTime
    /\ now' = now + 1
    /\ UNCHANGED <<online, data, views, task, sweep>>

StartSweep ==
    /\ sweep = NoSweep
    /\ DOMAIN views # {}
    /\ sweep' = [NoSweep EXCEPT !.pc = "load", !.time = now, !.todo = DOMAIN views]
    /\ UNCHANGED <<now, online, data, views, task>>

NextSector ==
    IF sweep.todo = {} THEN NoSweep
    ELSE [NoSweep EXCEPT !.pc = "load", !.time = sweep.time, !.todo = sweep.todo]

\* A sector without an expired rental is done; the read of a row may fail.
SweepLoad(x) ==
    LET prison  == Loaded(x[1])
        expired == Expired(prison[x[2]], sweep.time)
        rest    == sweep.todo \ {x}
    IN  /\ sweep.pc = "load"
        /\ x \in sweep.todo
        /\ \/ /\ expired # <<>>
              /\ sweep' = [sweep EXCEPT !.pc = "persist", !.todo = rest, !.sector = x,
                              !.prison = [prison EXCEPT ![x[2]] = Actives(@, sweep.time)],
                              !.expired = expired]
           \/ /\ expired = <<>> \/ MayFail(x[1])
              /\ sweep' = IF rest = {} THEN NoSweep ELSE [sweep EXCEPT !.todo = rest]
        /\ UNCHANGED <<now, online, data, views, task>>

SweepPersist ==
    /\ sweep.pc = "persist"
    /\ \/ /\ row' = [row EXCEPT ![sweep.sector[1]] = sweep.prison]
          /\ sweep' = [sweep EXCEPT !.pc = "apply"]
       \/ Faulty /\ sweep' = NextSector /\ UNCHANGED row
    /\ UNCHANGED <<now, online, live, views, task>>

SweepApply ==
    LET h == sweep.sector[1]
    IN  /\ sweep.pc = "apply"
        /\ live' = IF h \in online THEN [live EXCEPT ![h] = sweep.prison] ELSE live
        /\ sweep' = [sweep EXCEPT !.pc = "remove"]
        /\ UNCHANGED <<now, online, row, views, task>>

\* Renters leave the view one after the other, whatever they have rented.
SweepRemove ==
    LET rental == Head(sweep.expired)
    IN  /\ sweep.pc = "remove"
        /\ IF rental.role \in {"Self", "Slave"}
           THEN LeaveSector(sweep.sector, rental.renter) ELSE UNCHANGED views
        /\ sweep' = IF Len(sweep.expired) = 1 THEN NextSector
                    ELSE [sweep EXCEPT !.expired = Tail(@)]
        /\ UNCHANGED <<now, online, data, task>>

----------------------------------------------------------------------------

Init ==
    /\ now = 1
    /\ online = {}
    /\ row = [h \in Hosts |-> EmptyPrison]
    /\ live = [h \in Hosts |-> EmptyPrison]
    /\ views = [x \in {} |-> {}]
    /\ task = [k \in Tasks |-> NoTask]
    /\ sweep = NoSweep

Sweep ==
    \/ StartSweep
    \/ \E x \in Hosts \X Sectors : SweepLoad(x)
    \/ SweepPersist \/ SweepApply \/ SweepRemove

TaskStep(k) ==
    \/ EnterLogin(k)
    \/ LoadForRent(k) \/ LoadForRelease(k) \/ LoadForJoin(k)
    \/ Persist(k) \/ Pay(k) \/ Apply(k) \/ Expel(k)
    \/ Join(k)
    \/ Save(k)

Request(k) ==
    \/ \E m \in Members : BeginLogin(k, m)
    \/ \E m \in Members, x \in Hosts \X Sectors :
          \/ \E role \in SentRoles : BeginRent(k, m, x, role)
          \/ \E target \in Members, role \in SentRoles,
                action \in {"OwnerDismiss", "SelfRansom"} :
                BeginRelease(k, m, x, target, role, action)
          \/ BeginJoin(k, m, x)
    \/ \E h \in Hosts, prison \in Uploads : BeginUpload(k, h, prison)

Next ==
    \/ Tick
    \/ \E m \in Members : SignOut(m)
    \/ \E m \in Members, x \in Hosts \X Sectors : Leave(m, x)
    \/ \E k \in Tasks : Request(k) \/ TaskStep(k)
    \/ Sweep

Spec == Init /\ [][Next]_vars

\* Time goes on, tasks are polled to their end, and the job runs every minute.
Fairness ==
    /\ WF_vars(Tick)
    /\ WF_vars(Sweep)
    /\ \A k \in Tasks : WF_vars(TaskStep(k))

FairSpec == Spec /\ Fairness

----------------------------------------------------------------------------
\* Properties.

Rental == [renter : Members \cup {NoMember}, role : Roles, until : Nat]

IsPrison(prison) ==
    /\ DOMAIN prison = Sectors
    /\ \A i \in Sectors : prison[i] \in Seq(Rental) /\ Len(prison[i]) <= Capacity

\* Every variable holds a value of its type. In particular no copy of a prison
\* ever holds more rentals in a sector than fit, however the copies overtake and
\* overwrite each other.
TypeOK ==
    /\ now \in Nat
    /\ online \subseteq Members
    /\ DOMAIN row = Hosts /\ \A h \in Hosts : IsPrison(row[h])
    /\ DOMAIN live = Hosts /\ \A h \in Hosts : IsPrison(live[h])
    /\ DOMAIN views \subseteq Hosts \X Sectors
    /\ \A x \in DOMAIN views : views[x] \subseteq Members
    /\ \A k \in Tasks : task[k].pc # "idle" => IsPrison(task[k].prison)

\* "One online player can only render one prison work sector at a time"
\* (account/mod.rs:1203): the views implement Placement, with sectors for rooms.
SectorsOf(m) == {x \in DOMAIN views : m \in views[x]}

InOneSector ==
    \A x, y \in DOMAIN views : views[x] \cap views[y] # {} => x = y

Seats == INSTANCE Placement WITH
            RoomIds <- Hosts \X Sectors, open <- DOMAIN views, loose <- {},
            place <- [m \in Members |-> SectorsOf(m)]

SeatsHold == Seats!Spec

\* "A modified client cannot keep rendering a player in a sector after the paid
\* term has ended" (account/mod.rs:1485): a renter in a view without an active
\* rental leaves the view, or rents again.
TermsEnd ==
    \A m \in Members, x \in Hosts \X Sectors :
        LET inside == x \in DOMAIN views /\ m \in views[x] /\ m # x[1]
            paid   == HasPlace(m, Loaded(x[1])[x[2]], now)
        IN  inside /\ ~ paid ~> ~ inside \/ paid
=============================================================================
