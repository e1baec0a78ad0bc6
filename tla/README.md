# A TLA+ model of BC-Server-Rust

BC-Server-Rust is a Socket.IO game server in Rust (axum, socketioxide, tokio).
Clients log in, meet in chat rooms, relay chat and appearance to each other, and
keep relations (owners, lovers) and an "underground prison" in which other
players can rent places. One process holds all live state in a `World` behind a
`parking_lot` read-write lock; accounts are rows of SQLite or MongoDB.

Every event of a client is handled by a task of its own: the next event of the
same socket, and the events of all the others, run beside it. What is hard to get right, and what this
development is about, is therefore what happens *between* two critical sections:
a `socket.join` after the lock is released, a row read before a lock is taken,
an account looked up under one lock and removed under another, a copy of a
record written back over newer data.

Contents: [1 Inventory](#1-inventory) · [2 Modules](#2-modules-and-their-correspondence-to-the-code) ·
[3 Runs](#3-runs-bounds-and-what-they-show) · [4 Fairness](#4-fairness) ·
[5 Proofs](#5-proofs) · [6 Divergences](#6-divergences-found) ·
[7 Assumptions and omissions](#7-assumptions-and-omissions) · [8 Plan](#8-plan)

All paths below are under `src/src/` of the repository.

## 1 Inventory

### Chat rooms (`room/mod.rs`, `room/admin.rs`, `state/chatroom.rs`)
State: `World.chat_rooms` (room id → room with its ordered member list, admin,
ban, white list, limit, access and visibility roles), `World.room_by_name_env`
(environment and upper-case name → id), `OnlineAccount.chat_room_id`, and the
Socket.IO rooms ("channels") of each socket. Operations: search, create, join,
leave, update, kick, ban, unban, whitelist, unwhitelist, promote, demote, swap,
move left/right, shuffle; leaving through a new login, a disconnection, a move
to another room. Interactions: login and disconnection remove members; chat and
synchronisation send to the channels.
Hard: three records of one fact (member list, `chat_room_id`, channel), the
third changed outside the lock; a room that must vanish with its last member
together with its key in the index; names that are compared globally on creation
but looked up by environment; rules applied separately by search and by join; a log-in or a
creation that ends on a socket with a session and is put over it.
Correct means: the records agree, the index is exact, nobody is admitted
or gains a right past the rules, members hear their room, ghosts go; and an
account that was put over costs nobody else any of this.

### Sessions (`auth/login.rs`, `auth/create.rs`, `handlers.rs`, `state/world.rs`)
State: `accounts_by_socket`, `socket_by_member`, `socket_by_account_name`,
`login_pending`, `login_queue_len`, `login_mutex`, `next_member_number`.
Operations: connect, log in (queue, find, verify, kick a duplicate, assign a
number, insert, re-bind the handlers), create an account, `AccountDisconnect`,
disconnect and clean up.
Hard: a login crosses eight awaits and locks; every refusal must give up the
queue slot, the pending entry and the mutex; the socket may vanish anywhere;
creations do not take the mutex.
Correct means: one session per account, indices that lead to every session,
unique numbers, an exact queue, logins that end, and creations that disturb this
for their own names and sockets only.

### Prison sectors (`account/mod.rs` 509–1561, `state/world.rs`)
State: the rentals of a host's prison, in the host's row and, while it is
online, in its session; `World.prison_sector_sessions`, the live view of each
sector in use. Operations: rent, dismiss, ransom, join, leave, sync, the minute
job `expire_prison_sector_rentals`, the client's own save through
`AccountUpdate`.
Hard: every handler copies the prison, awaits the database, and writes the copy
back to the row and then to the session; the job does the same; joins are
decided on one state and executed on another.
Correct means: one view per member, views that vanish when empty, no sector over
capacity in any copy, renters that leave when their term ends.

### Connection and message limits (`limits/mod.rs`, `handlers.rs`)
State: a bucket of connection times per address; a bucket of message times per
socket, kept by value in the socket's extensions. Operations: connect,
disconnect (and `AccountDisconnect`, which runs the same cleanup on a socket
that stays open), check a message. Hard: a bucket entry does not say which
connection it is of; the message bucket is read, changed and written back by
concurrent tasks. Correct means: an address is refused only because of
connections it really has, at most `limit` messages a second.

### Account updates and delayed writes (`account/mod.rs` 55–290, 2016–2059, `chat/mod.rs`, `handlers.rs`, `main.rs`)
State: the account in memory, its delayed fields (`delayed_appearance`,
`delayed_skill`, `delayed_game`), its row. Operations: `AccountUpdate`,
`ChatRoomCharacterUpdate`, the flush every 300 s, the flush on disconnect, the
flush at the shutdown. Hard: a value goes from a client to the session, to a
batch, to a writer and to the row, through awaits, while newer values of the same
field take other paths; a write fails after the value has left memory. Correct
means: nothing that waits is older than what it will overwrite, nothing falls
between two hands, what waits goes out.

### Database back ends (`db/`)
State: the rows; `write_lock` of the SQLite back end. Operations: partial
updates of an account by one writer or several. MongoDB merges fields by itself;
SQLite keeps the account as one JSON text, and the code reads, merges and
writes it back in a transaction, up to eight times while the database is busy.
Correct means: an update of fields happens at once or not at all, and ends.

### Ownership and lovership (`relations/mod.rs`, `account/mod.rs`)
State: `Ownership`, `Owner` and `Lovership` of each account, in its session and
in its row; offers live in the sessions only. Operations: propose, accept,
release, break up, notes, lovers without an account, with delays of a week.
Hard: a handler copies two sessions under one lock, writes both under another
and two rows after awaits; the other member may be offline, or become so.
Correct means: nobody is bound without both having said so, the shown owner is
the owner (or what the member has written there), offers do not outlive a session, nobody loses a bond it did not break.

### Password reset (`auth/reset.rs`, `mail/mod.rs`)
State: `World.password_resets`, `next_password_reset_at`. Operations: ask for a
number, send it back with a new password. Hard: the rate test and its update are
two critical sections; a number is looked up, then the password is hashed and
written, then the number is forgotten. Correct means: only the newest number of
an account sets its password.

### Room synchronisation and chat relay (`chat/mod.rs`, `socket_util.rs`)
State: none but the rooms'; messages in flight, each broadcast a spawned task.
Hard: order of delivery. Correct means: what clients see converges to the room.

### Hashing and mail (`auth/password.rs`, `mail/mod.rs`), start-up, jobs and shutdown (`main.rs`, `config.rs`), protocol and utilities (`protocol/mod.rs`, `util/`)
I/O, configuration, wire formats and validation. Of these, the models take what
they need: the flushes and the end of the process (Updates), the minute job
(Prison), the limits of a room (Rooms).

### How they interact
All handlers share the `World` behind its lock. A sign-out (a disconnection, a
login elsewhere, `AccountDisconnect`) takes the account out of its room (Rooms),
its sector (Prison), its session (Sessions) and the sessions that relations are
decided on (Presence), and flushes its delayed fields (Updates). Every handler
that keeps something writes fields of a row through `Db::update_fields`
(Store): `Updates` and `PasswordReset` are composed with it in `Accounts`, and
the modules that write rows as one step (Presence, Prison, Sessions) rely on
what `Accounts` shows of it. Relations are composed in `Relations`.

## 2 Modules and their correspondence to the code

| module | models | theorems |
|---|---|---|
| `Placement` | abstract: each member in one place, unless it is loose; a place open exactly while occupied; one member moves per step, into one place at most | |
| `Rooms` | the chat rooms | `RoomsProofs` |
| `Registry` | abstract: an account's holder changes only by a release (of one account or several) and then a take | |
| `Sessions` | connections, log-in, creation, disconnection | `SessionsProofs` |
| `Prison` | prison sectors | `PrisonProofs` |
| `Lists` | `Vec::retain`, for Prison and Lovership | `ListsProofs` |
| `Table` | abstract: a partial update of a row happens at once or not at all | |
| `Store` | `Db::update_fields` of both back ends | |
| `Updates` | account updates, delayed fields, the flushes, the shutdown (EXTENDS `Store`) | |
| `PasswordReset` | password resets (EXTENDS `Updates`) | |
| `Accounts` | the three together | `AccountsProofs` |
| `Presence` | who is online and in the room; the sessions' and rows' relations | |
| `Ownership`, `Lovership` | the handlers of each kind of relation (EXTEND `Presence`) | |
| `Relations` | both side by side | `RelationsProofs` (ownership), `LovershipProofs` |
| `MCRooms`, `MCSessions`, `MCPrison`, `MCAccounts`, `MCRelations` | values and symmetries for TLC | |

`Rooms` and `Prison` implement `Placement`; `Sessions` implements `Registry`;
`Accounts` implements `Table`.
Each is an `INSTANCE ... WITH` and a property of a run. A definition whose name
has an underscore (`X_Bug`) is `X` with a slip in it; replacing `X` by it breaks
the property it is kept for, which shows that the property has teeth.

**Rooms.** `rooms`, `index`, `chatRoom`, `account` are the maps of the same
content in `World`; partial functions stand for hash maps. Every handler takes
the write lock once and is one action: `CreateRoom`, `JoinRoom`, `LeaveRoom`,
`UpdateRoom`, `Swap`, `MoveLeft`, `MoveRight`, `Shuffle`, `Kick`, `BanPresent`,
`EditList`, `SignOut`, `Login`, `CreateAccount`, `Cleanup`. The exceptions are create and join,
which call `socket.join` after releasing the lock: `joining` counts such calls
and `FinishJoin` executes one. A join that leaves another room does it as the
code does: the old room first (and its key, if it became empty), then the
push. `JoinAnswer` and `Listed` are the two separate tests of the rules. Leaving
a channel happens under the lock, so it is part of the action. `Close` is the
transport closing; `Cleanup` the last critical section of the disconnect task.

The last step of a log-in or a creation (`InsertAccount`) does not look whether its
socket has a session already (`auth/login.rs` 163–172, `auth/create.rs` 122), and
nothing in `Rooms` does. `found` is `socket_by_member`: like `get_by_member`, the
rooms look a number up there and take whatever session the socket has (`Known`),
so a session that was put over leaves its number in its room, a join may find nobody
after it has left the old room (`FailJoin`), and leaving clears the `chat_room_id`
of any session with the number. The history `shared` remembers the accounts of such
meetings: those whose session met another account's on its socket, or a second one of
its own account. What the properties say of members they say of the others; what
they say of rooms, keys and names they say of all.

**Sessions.** A login is cut at its awaits and locks into `BeginLogin`, `Wake`
(the mutex and the delay), `Find`, `Verify`, `Kick`, `DropOld`, `Assign`,
`Insert`, `Strip`; a creation into `BeginCreate`, `Lookup`, `Store`,
`EnterCreated`, `StripCreated`. The history keeps what creations disturb: `twinned`,
the names that one has entered next to another session or login of the name, and
`created`, the sockets on which one has entered a session. `queue` is tokio's FIFO mutex. Outcomes of
`verify_password` and of database calls are chosen by the environment. `entries`
is the length of the bucket of the one address all sockets come from: a
connection is admitted and counted, or refused by the number (`ConnectionLimit`)
or the rate, which may refuse any; every cleanup takes an entry away, that of
an `AccountDisconnect` on an open socket included.

**Prison.** `row[h]` and `live[h]` are the two copies of the rentals of host h;
`views` is `prison_sector_sessions`; `task[k]` holds a handler's own copy. Rent and
release are cut into loading-and-deciding, `Persist`, `Pay`, `Apply` and, for a
release, `Expel`; joining into `LoadForJoin` and `Join`; the minute job into
`SweepLoad`, `SweepPersist`, `SweepApply`, `SweepRemove`, sector by sector.
`Faulty` says whether database calls may fail.

**Store, Updates, PasswordReset.** `writer[w]` is the call of `update_fields`
task w waits for: `Update` is MongoDB's merge; `Acquire`, `Read`, `Commit` are
the steps of a SQLite write, `Busy` an attempt that meets another transaction,
`Fail` any other error. `DelayUpdate` and `SaveUpdate` are the two ends of
`AccountUpdate`; `Cleanup` and `Remove` those of a disconnection; `PeriodicFlush`,
`ShutdownFlush` take the delayed fields of all sessions under the lock, `FlushNext`
submits them account by account. Values are version numbers: a later update has a
greater one. `settled`, `newest`, `issued` and `granted` are history. `AskReset`,
`NoteReset`, `IssueNumbers` are the three critical sections of a request for a
number, `Redeem` and `ForgetNumbers` those of its use. `Restart` loses everything
but the rows.

**Presence, Ownership, Lovership.** `live[m]` and `row[m]` are the relations of
member m in its session and in the database. A handler's decision on copies is
its `Begin...` action; each later lock or await is an action of its own, and
`task[k]` carries what the handler has copied, where it has found it (the index
of a list entry), and whose sessions it has seen that are still there (`seen`):
`get_by_socket_mut` finds nothing when the session has gone, also when the
member is back on another socket. `word` is the history of who has offered and
accepted what. A row is written by one step: that is what `Accounts` shows of
the database. Time passes (`Tick`) between handlers, since a handler takes
seconds and a delay a week. `BeginNameOwner` and `NameOwner` are an `AccountUpdate`
with an `Owner`: it is not among `IMMUTABLE_KEYS` (`account/mod.rs` 16–39), goes to
the row as the client sent it, and to the session at the next log-in. `TakeNpc` is
an `AccountUpdate` with a `Lover`: the list of the session changes, and is saved
unless the rest of the update is one field whose write is delayed. An update with both
is the two requests side by side.

**Plays.** `Accounts` and `Relations` have many kinds of requests, and all of them
at once exceed TLC. Their constant `Plays` is a set of records that say which
requests, faults and bounds a behaviour has; a behaviour picks one at its start and
keeps it. The proofs hold for any set of plays, thus for the one that
allows everything.

## 3 Runs, bounds and what they show

| run | question | instance | states |
|---|---|---|---|
| `rooms_admission` | who gets in, who changes the rules, does a search promise only what a join keeps | 2 sockets, 3 members, 1 room, 3 kinds of rules, one meeting of sessions | 494,551 |
| `rooms_index` | do all maps agree, is the index exact, does nobody go deaf, whoever's session is put over whose | 2 sockets, 3 members, 2 rooms, 2 names, 2 environments, one meeting | ~284,700 |
| `rooms_liveness` | do members come to hear, do ghosts leave | 2 sockets, 3 members, 1 room, one meeting | 174,945 |
| `rooms_channel` | (violated) is a channel the membership | 2 sockets, 2 rooms, no meeting | |
| `sessions_login` | queue length, pending entries, indices, the bucket of an address, hand-over of accounts | 3 tasks, 3 sockets, 2 accounts, logins | ~157,000 |
| `sessions_create` | numbers, pending entries, indices and hand-over while accounts are created, without a unique index; does every login end | 2 tasks, 2 sockets, 2 names, logins and creations, fair tasks | ~308,000 |
| `prison_sectors` | one view per member, views open while occupied | host, renter, 2 sectors, 2 tasks, faulty database, no expiry | 584,320 |
| `prison_rentals` | is a sector ever over capacity, in any copy | host, renter with a worker, 1 place, 2 tasks, the job, saves | 1,285,251 |
| `prison_expiry` | (violated) does a renter leave when the term has ended | host, 2 renters, fair tasks and job, no faults | |
| `relations` | does everybody consent to every bond, is the owner the owner, do offers lapse | 2 members court a third, 1 NPC, 2 tasks, 2 ticks, 9 plays | 599,436 |
| `lovership_partner` | (violated) does a partner that is left keep its other lovers | the same, 1 task | |
| `accounts` | are writes atomic, is what waits the newest, is nothing forgotten, are passwords granted, do delayed fields go out and writes end | 2 accounts, 2 sockets, 2 handlers and 2 flushes, 3 versions, 2 numbers, 2 attempts, 4 plays | 80,232 |

Why these bounds suffice. The races are between two critical sections of one
task and one or two of others, so two or three tasks and sockets show them; a
third member makes a room survive a departure and an order of members matter;
two rooms, names and environments are what moving, renaming and clashing take;
capacity 1 or 2 is a limit that one or two members reach. `MaxJoining` (joins of
one socket to one room under way) is 1; `MaxShared`, after which no session
meets another, is 1, so one log-in or creation is put over a session, which binds
two accounts, and a third account plays against them, before and after (0 in
`rooms_channel`, whose violation needs none); `LastNumber`, `LastTime` and the number
of tasks bound counters and concurrency. Two lovers (`MostLovers`) are what makes
an index stale and a list full. Delays of one tick and a clock of two let
an offer be too early, due, and lead from a trial to a collar that can be broken,
and from dating to a wedding. Three versions of a field are an old, a waiting and
a newer one; two attempts of a busy write are the first and the last.
Symmetry is used where no definition tells values apart (`SameEnvSymmetry`,
`PlacesSymmetry`, `TaskSocketSymmetry`, `TaskSymmetry`, `DomTaskSymmetry`), and in
no run with a liveness property.

All runs have `CHECK_DEADLOCK FALSE`: sockets are not recycled in `Sessions`,
numbers run out, the clock stops at its bound, and a server all of whose
clients are gone has nothing to do. That it does not hang with work left is the
subject of the liveness properties.

## 4 Fairness

- `Rooms`: `WF` of `FinishJoin` and `Cleanup`. Both are the rest of a task that
  has begun; tokio polls a task that is ready. Nothing is assumed of clients: no
  request is fair.
- `Sessions`: `WF` of the steps of each task and of `Cleanup`. Database calls
  return (with success or failure) and hashing ends. The order of waiting tasks
  is not fairness but state, `queue`, because `tokio::sync::Mutex` is FIFO.
- `Prison`: `WF` of task steps, of `Tick` (time goes on) and of the job as a
  whole (`tokio::time::interval` in `main.rs` 99–113). Under this fairness with a
  faulty database the job could fail every minute for ever, so `prison_expiry`
  sets `Faulty = FALSE`: the violation it finds is not the database's fault.

- `Accounts`: `SF` of the store's steps for each writer: a call of the database
  returns, and `write_lock` (a fair tokio mutex) comes round to each who waits,
  although others take it in between. `WF` of `PeriodicFlush` (the interval of
  `main.rs`), of `FlushNext` and of `Remove`. `Busy` and `Fail` are among the fair
  steps, so nothing assumes that a write succeeds.
- `Relations` has safety properties only.

## 5 Proofs

TLAPS checks, for all values of the constants that satisfy the modules' named
assumptions:

**RoomsProofs.** `Spec => []` of `TypeOK`, `SessionFound`, `MembershipAgrees`,
`OccupiedOnce`, `IndexExact` (with `NamesUnique`) and `NoDeafMember`, with every
log-in and creation, those that are put over a session included. The argument is
one inductive invariant

    IInv == SocketsOK /\ WorldOK(rooms, index) /\ Once(rooms, shared) /\ SessionFound
            /\ Agree(rooms, chatRoom, account, shared) /\ NoDeafMember

None of the properties is inductive alone. Removing a room's key is right only
if no other room has this key, hence the index as an inverse within `WorldOK`,
which has no exception: what happens to the accounts in `shared` leaves it intact.
The departure of a member takes it out of the room only if its list holds the number
once (`Once`), and clears the `chat_room_id` that named the room only if the account has
one session, found under its number (`SessionFound`). That a departure of an account in
`shared` strands nobody else takes all three for the others: the number it removes
is its own, the session it clears has this number, and the socket that leaves the
channel, the one under which the number is found, is nobody else's. A log-in or a
creation that meets a session puts both accounts into `shared`, in the step in which
they first disagree. `WorldOK`, `Once` and `Agree` take the maps as parameters
since joins and evictions pass through intermediate maps: the lemmas about leaving a
room are stated of any maps and used once for the member's departure and once for its
arrival. The facts about member lists (removing, swapping, appending keep numbers
single and have the expected set of members) come first, as lemmas about
sequences.

`SearchIsHonest` follows from `IInv` alone: the name index leads back to the room
that was listed. The two action properties say something of a room before and after
a step; `StepOK` is that, proved per action from `IInv` (`AllowedStep`): every step
but a join takes numbers out of a list or reorders it, every step but an admin's
leaves the rules alone, and a join tests the room it enters after the departure
from another room has changed the map. `Spec => PlacementHolds`: the places of a
member are the rooms that hold its number; a step changes those of one member and
adds one at most; by `MembershipAgrees` they are one at most for a member not in
`shared`, who are the loose members of `Placement`; and as no room is empty, the
rooms are exactly the occupied places.

**PrisonProofs.** `Spec => []InOneSector`, and `Spec => SeatsHold`: the views
implement `Placement`, for any number of sectors and handlers. The invariant adds
that no view is empty, that views are of members and sectors, and that a handler
past the test of a join knows a member and a sector. Each step changes the views
of one member at most (`OneMoves`, shown per action), and `StepPlaces` turns
that into a step of `Placement` or a stutter. The places of a member are the views it
is in (`SectorsOf`), and nobody is loose.

`UploadsFit => (Spec => []TypeOK)`: no sector is over capacity, in any copy. A copy
goes from a row or a session into a task, is changed there, and is written back
over whatever is there by then; so the two stores (`Stores`) and the copies of
handlers and the job (`Copies`) are bounded together, and every step writes what
some copy already was, or a copy from which rentals were filtered or removed, or to
which one was added after `HasRoom` had been found true of that very copy. The
hypothesis is about clients: `AccountUpdate` keeps the prison that a client sends
without counting its rentals, so the theorem says that the server never adds a
rental past the capacity to what was within it, and says nothing of a client that
saves more. `prison_rentals` has such a set of `Uploads`.

**ListsProofs.** What filtering yields: no longer than the list, its elements those
of the list that are in the set, in a list of the same type; and what finding,
removing at an index and taking the front yield. `Selected` is `SelectSeq` with a
set for its test. No theorem can be about `SelectSeq`, which takes an operator, but
`Selected` is a recursive function on the prefixes of the list, and induction on
numbers can be stated for sets instead of predicates (`Induction`), as a consequence
of every non-empty set of numbers having a least one (`LeastNatural`).
`MCPrison` has TLC compare `Selected` and `SelectSeq` on every list of up to four
elements over three values and every set.

**SessionsProofs.** For any numbers of tasks, sockets and names, and with logins and
creations side by side: `TypeOK`, `QueueLengthIsExact`, `PendingIsRunning`,
`EntriesAreConnections`, `NumbersAreUnique`, `OnePendingLogin`, `SessionsAreIndexed`
and `Spec => HoldersTakeTurns` (`Sessions` implements `Registry`). A creation enters
its session without looking whether the account or the socket has one
(`auth/create.rs` 122), and the last three say what this can cost: a second
login waits only on a socket on which a creation has entered a session (`created`), and
only a name that a creation has entered next to another session of the name, or next to
a login that has looked for a duplicate already (`twinned`), can be missing from
an index or be held twice. A session that is put over is released. The invariant is

    IInv == Core /\ Numbers /\ Indexed /\ HeldBackOK /\ OnePendingLogin

and its parts stand alone where they can. `Core`: the types, what a task carries at
each step (from `verify` to `assign` it has found a row), and the queue: it holds
the running logins, each once, and only its head is past the wait for
`login_mutex`; that is mutual exclusion, and most of what follows is about the one
login that holds the mutex. `Numbers`: a number above zero that a row, a session or
a task uses is below the counter and used for one account; the number that a
creation is about to store is nowhere else. `Indexed` adds to `SessionsAreIndexed`
that the eviction has done its work: past the kick no other socket has the account
unless it is in `twinned` (`EvictedOK`), and whoever has a session or stands in an index has been stripped of
its login handlers or is about to be (`HoldersOK`), without which a
socket could log in twice and leave an entry behind. `HeldBackOK`: a socket whose login
waits is in `login_pending`, or has lost its handlers, or is gone, so it cannot
begin another, or a creation has entered a session on it. The two counters count sets that are not assumed finite: that
finitely many sockets and tasks are in use at a time is part of the invariant
(`WaitersOK`, `EntriesOK`).

**AccountsProofs.** For any accounts, fields, sockets, writers and plays, and both
back ends: `TypeOK`, `DelayedIsNewest`, `NoUpdateForgotten`, `PasswordsAreGranted` and
`Spec => WritesAreAtomic` (`Accounts` implements `Table`). The invariant has a part
per module,

    IInv == StoreOK /\ FlowOK /\ ResetsOK

`StoreOK`: the lock is held by the writer between its read and its commit, and
the copy of that writer is still the row; this is what makes SQLite's read, merge
and write-back a partial update at once. `FlowOK`: one session per account; what waits
in a session is of a known field, is the newest value and is in no other hand
(`WaitingIsNewest`); the newest value of a field waits, flies or is settled
(`Remembered`), where a value flies while a flush or a call of the database has it. `ResetsOK`: a number that is noted for an account is the last one issued to it,
and every password in a row or in flight is granted. No step
lets a value of an immutable field appear that was nowhere before (`NoneInvented`):
with it the updates cannot disturb the passwords. Assumed beyond the types: finitely
many accounts, and that clients' updates name fields that the code knows.

**RelationsProofs.** While ownership and lovership handlers run side by side, for any
members, tasks and plays: `ConsentOfBoth`, `OwnerHoldsCollar`, and `OneClaimant`. In `IInv`
every copy of the two ownership fields, those in tasks included, is `Honest`: the
bond is covered by what members have said, and the owner shown holds the collar or is a
name that the member itself has set by an update (`Shown`). So the theorem is about
what the handlers of ownership show: none shows an owner that no longer is one, and
whoever reads `Owner` alone takes a member's word for it.
`TaskOK` says what a task has found true before its await. That is not enough: the
handler of the notes tests the owner, awaits, and writes the owner field from what
it tested, into a session that may have changed. It is right only because nobody
else can come to own the member meanwhile, which is `OneClaimant`: the holder of
the collar, the partner of a trial that has ripened or is about to end, and every
task that has seen this session and is going to write a collar are the same member.
A trial that is fresh claims nothing, and time, by which it ripens, passes only
while no handler runs: a handler takes seconds, a trial a week.

**LovershipProofs.** In the same composition: `ConsentOfLovers`, `OffersLapse` and
`Relations`' `TypeOK`. `LInv` says of every list, in sessions, in rows and in what
tasks carry, that it says no more than has been said: an offer in it was made by the
member it names, and a tie was offered by one and accepted by the other at each stage
it has passed through (`Loving`). Since `word` only grows, a list that was true
stays true, however old: writing a stale list back, or an entry over the one that
has moved to its index, may lose ties, which is divergence 2, but makes none.
`Holding` says what each step of a task carries; `MayTie`, of the task that is about to write a
tie, that the offer was made and that the stages before it were agreed to. Rows are
moreover `Offerless`, because what is saved has been cleaned (`Clean`), and
a session begins with what its row holds. `TypeOK` comes last: the types of the
ownership fields from `RelationsProofs`, those of the lists from `LInv`.

With these, every invariant, action property and refinement that a passing run checks
is also a theorem. Only model-checked is liveness (`EventuallyHeard`, `GhostsLeave`,
`LoginsEnd`, `DelayedGoesOut`, `WritesEnd`), which rests on fairness and ENABLED and is
out of the provers' reach. The three properties of section 6 are false.

## 6 Divergences found

1. **A socket may stay in the channel of a room it has left** (`rooms_channel`;
   `room/mod.rs` 604 and 470). `socket.join` runs after the lock is released; a
   leave or a kick in between calls `leave` first, and the `join` then stands.
   `room/mod.rs` 693: "Target leaves the Socket.IO room if still connected".
2. **Breaking up may cost the partner its other lovers** (`lovership_partner`;
   `relations/mod.rs` 1007). The handler notes that the partner is online, awaits,
   and then takes its list from its session; when the session has gone meanwhile
   the list counts as empty and is written to the row. `relations/mod.rs` 1007:
   "offline: pull from DB below", which runs only if the partner was offline
   at first.
3. **A renter may stay in a sector after its term** (`prison_expiry`;
   `account/mod.rs` 783). The job removes the renters whose expired rentals it
   finds; a rent purges expired rentals without touching the view. The same
   happens to a join decided before the term ended and executed after the job
   has passed. `account/mod.rs` 1485–1486: "A modified client cannot keep
   rendering a player in a sector after the paid term has ended."

The models also show behaviour about which the repository says nothing, or that
no run singles out, listed under hazards: a creation that completes on a socket
that has logged in meanwhile, rentals lost when two handlers write their copies, a
host whose login overtakes a rental, a prison that is written when the payment
fails, a renter present for itself who is taken out of the view when the
rental of its private character expires, two writes of one field that reach the row
in the wrong order, an acceptance that puts its bond over a newer one.

## 7 Assumptions and omissions

- *Rooms* lets a log-in or a creation end on any socket and for any number, more than
  `Sessions` allows, so what is shown does not rest on what `Sessions` shows. It
  says nothing of the accounts in `shared` but that they do no harm to others;
  their own numbers may stay in a room for ever. A room id (random in the code) is fresh: it is not one that
  a room, an unfinished join or a channel still refers to. A socket of the model
  is reused after its cleanup as a new connection. Space, language, game and
  ignored-name filters of the search, descriptions, backgrounds and custom data
  are left out: no rule looks at them. The order of broadcasts is not modelled.
- *Sessions* merges the insert into `login_pending` with the call of `lock()`,
  between which nothing is awaited. The limit on creations per address and the
  times in the bucket of an address are left out. What a disconnection writes is
  in *Updates*; its await is kept.
- *Prison* reduces money to "suffices or not" because `AccountUpdate` lets the
  client write it. Sectors are unlocked and overseen, prisons public. A member has
  one private character at most. Of `AccountUpdate` only the prison is
  modelled. Loading a host looks for the session and reads the row in one step.
- *Store*: every account has its row. SQLite's deferred transaction can meet a
  busy database when it reads and when it commits; both are `Busy`. Waiting and
  repeating between attempts is not timed.
- *Updates* keeps what reaches the database. `AccountUpdateEmail` and
  `AccountDifficulty`, which write one field after a test of their own, are left
  out, and so are the copies of the fields in the session. A value is replaced
  by the number of its update.
- *PasswordReset*: random numbers never repeat. A number that is used by two
  tasks at a time before either forgets it is in the model and excluded by no
  property, since both know the newest number; so are two requests that pass the
  test of five seconds together.
- *Presence* has one room, and names, notes and messages are left out. That a row
  is written at once is assumed here and shown by `Accounts`. A crash brings back
  the settled members at once.
- Not modelled: the message bucket of a socket, queries, migrations and conversions
  of the database, dotted paths, mail, hashing, configuration, wire formats,
  the order of broadcasts.

## 8 Plan

In order of importance; (done) means modelled, checked and listed above.

1. Rooms, Placement, RoomsProofs (done).
2. Sessions, Registry, SessionsProofs (done).
3. Prison, PrisonProofs, with the capacity (done).
4. Ownership, Lovership, Relations, RelationsProofs, LovershipProofs (done).
5. Store, Table, Updates, PasswordReset, Accounts, AccountsProofs (done).
6. RoomsProofs: the properties of a search and of a step, the refinement (done).
7. The message bucket of a socket: a client is cut off only for messages it sent.
8. Pure functions against reference definitions: `ransom_fee`, dotted paths
   (`util/json_path.rs`), `allow_item` (`chat/mod.rs`).
9. RoomSync: delivery of broadcasts out of order.
