------------------------------ MODULE Sessions ------------------------------
(***************************************************************************)
(* Sessions: how a socket becomes the session of an account and stops      *)
(* being it (auth/login.rs, auth/create.rs, the connection handlers of     *)
(* handlers.rs, the limit on connections of limits/mod.rs and the account  *)
(* maps of state/world.rs).                                                *)
(*                                                                         *)
(* Each event of a client is handled by a task of its own. A task is cut   *)
(* at its awaits and where it takes or releases the world lock; one action *)
(* is what it does between two cuts. Logins go one at a time through       *)
(* login_mutex, a fair lock; creations do not.                             *)
(*                                                                         *)
(* Passwords are abstracted to the two outcomes of verify_password. The    *)
(* limit on creations per address is left out here.                        *)
(***************************************************************************)
EXTENDS Integers, FiniteSets, SequencesExt

CONSTANTS
    Tasks,         \* handler tasks that can run at a time (bound)
    Sockets,       \* connections; an id is never used again (bound)
    Names,         \* account names, upper-cased as all handlers do first
    Kinds,         \* the pre-login events that clients send
    UniqueNames,   \* the database refuses a second row of a name (SQLite)
    InitialDb,     \* the numbers of the rows of a name at start, 0 if missing
    FirstNumber,   \* next_member_number at start
    LastNumber,    \* bound: the last number that is allocated
    ConnectionLimit, \* ip_connection_limit, for the address all sockets have
    NoSocket, NoName

ASSUME SessionsAssumption ==
    /\ Kinds \subseteq {"AccountLogin", "AccountCreate"}
    /\ UniqueNames \in BOOLEAN
    /\ InitialDb \in [Names -> Seq(Nat)]
    /\ \A a \in Names : Len(InitialDb[a]) <= 1
    /\ FirstNumber \in Nat /\ LastNumber \in Nat
    /\ \A a \in Names : \A i \in DOMAIN InitialDb[a] :
          InitialDb[a][i] # 0 =>
             /\ InitialDb[a][i] < FirstNumber
             /\ \A b \in Names : \A j \in DOMAIN InitialDb[b] :
                   InitialDb[b][j] = InitialDb[a][i] => b = a
    /\ FirstNumber > 0
    /\ ConnectionLimit \in Nat
    /\ NoSocket \notin Sockets
    /\ NoName \notin Names

VARIABLES
    transport,    \* of a socket: "new", "open", "closed", "gone" (cleaned up)
    entries,      \* entries in the bucket ip_connections of the address
    stripped,     \* sockets whose pre-login handlers on_login has replaced
    task,         \* what each task is doing
    pending,      \* World.login_pending
    queueLen,     \* World.login_queue_len
    queue,        \* the tasks at login_mutex; the first one holds it
    session,      \* World.accounts_by_socket
    byMember,     \* World.socket_by_member
    byName,       \* World.socket_by_account_name
    db,           \* member numbers of the rows of each name, oldest first
    nextNumber,   \* World.next_member_number
    twinned,      \* history: names a creation entered next to a session or login
    created       \* history: sockets on which a creation has entered a session

net == <<transport, entries, stripped>>
gate == <<pending, queueLen, queue>>
maps == <<session, byMember, byName>>
store == <<db, nextNumber>>
hist == <<twinned, created>>
vars == <<net, task, gate, maps, store, hist>>

----------------------------------------------------------------------------
\* A definition with an underscore in its name (X_Bug) is the definition X with
\* a slip in it: X replaced by it breaks a property.

Idle == [pc |-> "idle", socket |-> NoSocket, name |-> NoName,
         number |-> 0, old |-> NoSocket]

LoginSteps == {"queued", "find", "verify", "kick", "drop", "assign", "insert", "strip"}
CreateSteps == {"lookup", "store", "enter", "open"}

NoSession == [name |-> NoName, number |-> 0]

With(f, k, v) == [x \in DOMAIN f \cup {k} |-> IF x = k THEN v ELSE f[x]]

Drop(f, k) == [x \in DOMAIN f \ {k} |-> f[x]]

At(k, pc) == task[k].pc = pc

Goto(k, pc) == task' = [task EXCEPT ![k].pc = pc]

Ends(k) == task' = [task EXCEPT ![k] = Idle]

Connected(s) == transport[s] = "open"

\* saturating_sub(1)
OneLess(n) == IF n = 0 THEN 0 ELSE n - 1

----------------------------------------------------------------------------
\* The account maps of World.

InsertAccount_KeepsName(s, name, number) ==
    /\ session' = [session EXCEPT ![s] = [name |-> name, number |-> number]]
    /\ byMember' = With(byMember, number, s)
    /\ byName' = IF name \in DOMAIN byName THEN byName ELSE With(byName, name, s)

\* insert_account, which looks at nothing that the maps hold already.
InsertAccount(s, name, number) ==
    /\ session' = [session EXCEPT ![s] = [name |-> name, number |-> number]]
    /\ byMember' = With(byMember, number, s)
    /\ byName' = With(byName, name, s)

\* remove_account: the entries of the account of s, whatever they point to.
RemoveAccount(s) ==
    /\ pending' = pending \ {s}
    /\ IF session[s] = NoSession
       THEN UNCHANGED maps
       ELSE /\ session' = [session EXCEPT ![s] = NoSession]
            /\ byMember' = Drop(byMember, session[s].number)
            /\ byName' = Drop(byName, session[s].name)

----------------------------------------------------------------------------
\* Connections.

\* check_ip_connection_limit has room for one more.
Connect(s) ==
    /\ transport[s] = "new"
    /\ entries < ConnectionLimit
    /\ transport' = [transport EXCEPT ![s] = "open"]
    /\ entries' = entries + 1
    /\ UNCHANGED <<stripped, task, gate, maps, store, hist>>

\* The address has too many connections, or too many of the last second: the
\* socket is dropped before it has any handler, also that of its disconnection.
RefuseConnection(s) ==
    /\ transport[s] = "new"
    /\ transport' = [transport EXCEPT ![s] = "gone"]
    /\ UNCHANGED <<entries, stripped, task, gate, maps, store, hist>>

\* The transport goes away: the client leaves or its heartbeat times out.
Close(s) ==
    /\ transport[s] = "open"
    /\ transport' = [transport EXCEPT ![s] = "closed"]
    /\ UNCHANGED <<entries, stripped, task, gate, maps, store, hist>>

Cleanup_KeepsEntry(s) ==
    /\ transport[s] = "closed"
    /\ transport' = [transport EXCEPT ![s] = "gone"]
    /\ RemoveAccount(s)
    /\ UNCHANGED <<entries, stripped, task, queueLen, queue, store, hist>>

\* on_disconnect_cleanup, which socketioxide starts when the transport is gone:
\* its last locked section, after the delayed fields are written.
Cleanup(s) ==
    /\ transport[s] = "closed"
    /\ transport' = [transport EXCEPT ![s] = "gone"]
    /\ RemoveAccount(s)
    /\ entries' = OneLess(entries)
    /\ UNCHANGED <<stripped, task, queueLen, queue, store, hist>>

\* handle_account_disconnect: the same cleanup, on a socket that stays open; it
\* takes an entry of the bucket as well.
AccountDisconnect(s) ==
    /\ Connected(s)
    /\ s \in stripped
    /\ RemoveAccount(s)
    /\ entries' = OneLess(entries)
    /\ UNCHANGED <<transport, stripped, task, queueLen, queue, store, hist>>

----------------------------------------------------------------------------
\* handle_account_login.

\* Bound: there is a number for every task that is under way, and one more.
NumbersLeft ==
    nextNumber + Cardinality({k \in Tasks : task[k] # Idle}) <= LastNumber

BeginLogin_Again(k, s, name) ==
    /\ "AccountLogin" \in Kinds
    /\ NumbersLeft
    /\ task[k] = Idle
    /\ Connected(s)
    /\ s \notin stripped
    /\ pending' = pending \cup {s}
    /\ queueLen' = queueLen + 1
    /\ queue' = Append(queue, k)
    /\ task' = [task EXCEPT ![k] = [Idle EXCEPT !.pc = "queued", !.socket = s,
                                                !.name = name]]
    /\ UNCHANGED <<net, maps, store, hist>>

\* A login of a socket that has one pending is ignored.
BeginLogin(k, s, name) ==
    /\ "AccountLogin" \in Kinds
    /\ NumbersLeft
    /\ task[k] = Idle
    /\ Connected(s)
    /\ s \notin stripped
    /\ s \notin pending
    /\ pending' = pending \cup {s}
    /\ queueLen' = queueLen + 1
    /\ queue' = Append(queue, k)
    /\ task' = [task EXCEPT ![k] = [Idle EXCEPT !.pc = "queued", !.socket = s,
                                                !.name = name]]
    /\ UNCHANGED <<net, maps, store, hist>>

FinishQueueSlot_StaysPending(k) ==
    /\ queueLen' = OneLess(queueLen)
    /\ UNCHANGED pending

FinishQueueSlot(k) ==
    /\ pending' = pending \ {task[k].socket}
    /\ queueLen' = OneLess(queueLen)

\* The login fails; the task returns and so releases login_mutex.
Refuse(k) ==
    /\ FinishQueueSlot(k)
    /\ queue' = Tail(queue)
    /\ Ends(k)
    /\ UNCHANGED <<net, maps, store, hist>>

GiveUp_KeepsLength(k) ==
    /\ pending' = pending \ {task[k].socket}
    /\ queue' = Tail(queue)
    /\ Ends(k)
    /\ UNCHANGED <<queueLen, net, maps, store, hist>>

GiveUp_KeepsLock(k) ==
    /\ FinishQueueSlot(k)
    /\ Ends(k)
    /\ UNCHANGED <<queue, net, maps, store, hist>>

\* The socket has gone while its login waited in the queue.
GiveUp(k) == Refuse(k)

\* The lock is acquired and the pause of 50 ms is over.
Wake(k) ==
    /\ At(k, "queued")
    /\ Head(queue) = k
    /\ IF Connected(task[k].socket)
       THEN Goto(k, "find") /\ UNCHANGED <<net, gate, maps, store, hist>>
       ELSE GiveUp(k)

\* find_by_account_name answers; it may fail.
Find(k) ==
    /\ At(k, "find")
    /\ \/ Refuse(k)
       \/ /\ db[task[k].name] # <<>>
          /\ task' = [task EXCEPT ![k].pc = "verify",
                                  ![k].number = Head(db[task[k].name])]
          /\ UNCHANGED <<net, gate, maps, store, hist>>

FindDuplicateLogin_Misses(name) == NoSocket

FindDuplicateLogin(name) == IF name \in DOMAIN byName THEN byName[name] ELSE NoSocket

\* The password is wrong or the socket gone, or the task looks for a duplicate.
Verify(k) ==
    /\ At(k, "verify")
    /\ \/ Refuse(k)
       \/ LET old == FindDuplicateLogin(task[k].name)
          IN  /\ Connected(task[k].socket)
              /\ task' = [task EXCEPT ![k].pc = IF old = NoSocket THEN "assign" ELSE "kick",
                                      ![k].old = old]
              /\ UNCHANGED <<net, gate, maps, store, hist>>

\* The duplicate was looked up under another lock: it may be gone by now.
Kick(k) ==
    /\ At(k, "kick")
    /\ RemoveAccount(task[k].old)
    /\ Goto(k, "drop")
    /\ UNCHANGED <<net, queueLen, queue, store, hist>>

DropOld(k) ==
    /\ At(k, "drop")
    /\ transport' = IF Connected(task[k].old)
                    THEN [transport EXCEPT ![task[k].old] = "closed"]
                    ELSE transport
    /\ task' = [task EXCEPT ![k].pc = "assign", ![k].old = NoSocket]
    /\ UNCHANGED <<entries, stripped, gate, maps, store, hist>>

Allocate_NoIncrement == UNCHANGED nextNumber

\* allocate_member_number
Allocate == nextNumber' = nextNumber + 1

Assign_KeepsZero(k) ==
    /\ At(k, "assign")
    /\ Goto(k, "insert")
    /\ UNCHANGED <<net, gate, maps, store, hist>>

\* An account without a number gets one, which may fail to be stored; then
\* set_last_login is awaited.
Assign(k) ==
    /\ At(k, "assign")
    /\ IF task[k].number = 0
       THEN /\ Allocate
            /\ task' = [task EXCEPT ![k].pc = "insert", ![k].number = nextNumber]
            /\ \E stored \in BOOLEAN :
                  db' = IF stored THEN [db EXCEPT ![task[k].name][1] = nextNumber] ELSE db
       ELSE Goto(k, "insert") /\ UNCHANGED store
    /\ UNCHANGED <<net, gate, maps, hist>>

\* The socket may be gone by now: nothing looks at it any more.
Insert(k) ==
    /\ At(k, "insert")
    /\ FinishQueueSlot(k)
    /\ InsertAccount(task[k].socket, task[k].name, task[k].number)
    /\ Goto(k, "strip")
    /\ UNCHANGED <<net, queue, store, hist>>

\* on_login, and the end of the task.
Strip(k) ==
    /\ At(k, "strip")
    /\ stripped' = stripped \cup {task[k].socket}
    /\ queue' = Tail(queue)
    /\ Ends(k)
    /\ UNCHANGED <<transport, entries, pending, queueLen, maps, store, hist>>

----------------------------------------------------------------------------
\* handle_account_create.

BeginCreate(k, s, name) ==
    /\ "AccountCreate" \in Kinds
    /\ NumbersLeft
    /\ task[k] = Idle
    /\ Connected(s)
    /\ s \notin stripped
    /\ task' = [task EXCEPT ![k] = [Idle EXCEPT !.pc = "lookup", !.socket = s,
                                                !.name = name]]
    /\ UNCHANGED <<net, gate, maps, store, hist>>

\* The name is taken, or the database fails.
GiveUpCreation(k) ==
    /\ Ends(k)
    /\ UNCHANGED <<net, gate, maps, store, hist>>

\* find_by_account_name answers that the name is free; the password is hashed
\* and a number allocated.
Lookup(k) ==
    /\ At(k, "lookup")
    /\ \/ GiveUpCreation(k)
       \/ /\ db[task[k].name] = <<>>
          /\ Allocate
          /\ task' = [task EXCEPT ![k].pc = "store", ![k].number = nextNumber]
          /\ UNCHANGED <<net, gate, maps, db, hist>>

\* Db::insert_account
Store(k) ==
    /\ At(k, "store")
    /\ \/ GiveUpCreation(k)
       \/ /\ UniqueNames => db[task[k].name] = <<>>
          /\ db' = [db EXCEPT ![task[k].name] = Append(@, task[k].number)]
          /\ Goto(k, "enter")
          /\ UNCHANGED <<net, gate, maps, nextNumber, hist>>

\* A name that task k enters while another socket has its session, or while a
\* login that has looked for a duplicate already is about to enter it.
Twins(k) ==
    {a \in {task[k].name} :
        \/ \E s \in Sockets \ {task[k].socket} : session[s].name = a
        \/ \E l \in Tasks :
              task[l].pc \in {"kick", "drop", "assign", "insert"} /\ task[l].name = a}

\* The session is entered without a look at the maps: the name may have been
\* logged in since the row was stored, or stored twice, and the socket may have
\* a session. The history keeps both.
EnterCreated(k) ==
    /\ At(k, "enter")
    /\ InsertAccount(task[k].socket, task[k].name, task[k].number)
    /\ twinned' = twinned \cup Twins(k)
    /\ created' = created \cup {task[k].socket}
    /\ Goto(k, "open")
    /\ UNCHANGED <<net, gate, store>>

StripCreated(k) ==
    /\ At(k, "open")
    /\ stripped' = stripped \cup {task[k].socket}
    /\ Ends(k)
    /\ UNCHANGED <<transport, entries, gate, maps, store, hist>>

----------------------------------------------------------------------------

Init ==
    /\ transport = [s \in Sockets |-> "new"]
    /\ entries = 0
    /\ stripped = {}
    /\ task = [k \in Tasks |-> Idle]
    /\ pending = {}
    /\ queueLen = 0
    /\ queue = <<>>
    /\ session = [s \in Sockets |-> NoSession]
    /\ byMember = [n \in {} |-> NoSocket]
    /\ byName = [a \in {} |-> NoSocket]
    /\ db = InitialDb
    /\ nextNumber = FirstNumber
    /\ twinned = {}
    /\ created = {}

LoginStep(k) ==
    Wake(k) \/ Find(k) \/ Verify(k) \/ Kick(k) \/ DropOld(k) \/ Assign(k) \/ Insert(k)
    \/ Strip(k)

CreateStep(k) == Lookup(k) \/ Store(k) \/ EnterCreated(k) \/ StripCreated(k)

Socket(s) ==
    Connect(s) \/ RefuseConnection(s) \/ Close(s) \/ Cleanup(s) \/ AccountDisconnect(s)

Next ==
    \/ \E s \in Sockets : Socket(s)
    \/ \E k \in Tasks :
          \/ \E s \in Sockets, name \in Names : BeginLogin(k, s, name)
          \/ \E s \in Sockets, name \in Names : BeginCreate(k, s, name)
          \/ LoginStep(k)
          \/ CreateStep(k)

Spec == Init /\ [][Next]_vars

\* The runtime polls every task that can go on, and a database call returns.
Fairness ==
    /\ \A k \in Tasks : WF_vars(LoginStep(k)) /\ WF_vars(CreateStep(k))
    /\ \A s \in Sockets : WF_vars(Cleanup(s))

FairSpec == Spec /\ Fairness

----------------------------------------------------------------------------
\* Properties.

LoggingIn(k) == task[k].pc \in LoginSteps

\* A login that has not given its slot in the queue back.
Waiting(k) == LoggingIn(k) /\ ~ At(k, "strip")

\* Every variable holds a value of its type.
TypeOK ==
    /\ transport \in [Sockets -> {"new", "open", "closed", "gone"}]
    /\ entries \in Nat
    /\ stripped \subseteq Sockets
    /\ task \in [Tasks -> [pc : LoginSteps \cup CreateSteps \cup {"idle"},
                           socket : Sockets \cup {NoSocket},
                           name : Names \cup {NoName},
                           number : Nat,
                           old : Sockets \cup {NoSocket}]]
    /\ pending \subseteq Sockets
    /\ queueLen \in Nat
    /\ queue \in Seq(Tasks)
    /\ session \in [Sockets -> [name : Names \cup {NoName}, number : Nat]]
    /\ DOMAIN byMember \subseteq Nat \ {0}
    /\ byMember \in [DOMAIN byMember -> Sockets]
    /\ DOMAIN byName \subseteq Names
    /\ byName \in [DOMAIN byName -> Sockets]
    /\ db \in [Names -> Seq(Nat)]
    /\ nextNumber \in Nat \ {0}
    /\ twinned \subseteq Names
    /\ created \subseteq Sockets

\* login_queue_len, which the server shows to those who wait, counts the logins
\* that have begun and are neither refused nor done: no path forgets its slot.
QueueLengthIsExact ==
    queueLen = Cardinality({k \in Tasks : Waiting(k)})

\* A socket is never shut out of logging in: an entry of login_pending belongs
\* to a login that runs and will take it out.
PendingIsRunning ==
    \A s \in pending : \E k \in Tasks : Waiting(k) /\ task[k].socket = s

\* "Prevent duplicate pending logins for same socket" (auth/login.rs:30). The
\* exception is a socket on which a creation has entered a session: a login of
\* that account can kick it, which lets it log in while its first login waits.
OnePendingLogin ==
    \A k, l \in Tasks :
        Waiting(k) /\ Waiting(l) /\ task[k].socket = task[l].socket
        => k = l \/ task[k].socket \in created

\* The indices lead to every session: an account that is logged in is found by
\* its name and by its number, so that the next login finds it to kick it. Two
\* sessions of one account can then not be. The exception is a name that a
\* creation has entered next to another session or login of it.
SessionsAreIndexed ==
    \A s \in Sockets : session[s] # NoSession /\ session[s].name \notin twinned =>
        /\ session[s].name \in DOMAIN byName /\ byName[session[s].name] = s
        /\ session[s].number \in DOMAIN byMember /\ byMember[session[s].number] = s

\* A member number is given to one account, in the database and among the
\* sessions, also when storing it fails or two tasks allocate at a time.
NumbersAreUnique ==
    /\ \A a, b \in Names : \A i \in DOMAIN db[a], j \in DOMAIN db[b] :
          db[a][i] # 0 /\ db[a][i] = db[b][j] => a = b /\ i = j
    /\ \A s, t \in Sockets :
          session[s] # NoSession /\ session[s].number = session[t].number
          => session[s].name = session[t].name

\* An address is never shut out by connections that are gone: its bucket holds
\* no more entries than it has connections that are not cleaned up yet, whatever
\* order refusals, kicks, disconnections and AccountDisconnect come in.
EntriesAreConnections ==
    entries <= Cardinality({s \in Sockets : transport[s] \in {"open", "closed"}})

\* Every login that begins ends: the queue moves on whatever becomes of the
\* sockets, the passwords and the database.
LoginsEnd == \A k \in Tasks : At(k, "queued") ~> task[k] = Idle

\* The sessions implement Registry: an account changes hands only by a release
\* and then a take, never directly. Nobody holds an account that two may have.
HolderOf(a) ==
    IF a \notin twinned /\ \E s \in Sockets : session[s].name = a
    THEN CHOOSE s \in Sockets : session[s].name = a
    ELSE NoSocket

Held == INSTANCE Registry WITH Nobody <- NoSocket, holder <- [a \in Names |-> HolderOf(a)]

HoldersTakeTurns == Held!Spec
=============================================================================
