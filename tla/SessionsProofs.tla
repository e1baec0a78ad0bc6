--------------------------- MODULE SessionsProofs ---------------------------
(***************************************************************************)
(* Proofs about Sessions, for every number of tasks, sockets and names.    *)
(*                                                                         *)
(* Logins and creations run together in all of them. A creation enters its *)
(* session without looking whether the name or the socket has one          *)
(* (auth/create.rs). What it breaks is broken for that name or that socket *)
(* only, which the history variables twinned and created keep.             *)
(***************************************************************************)
EXTENDS Sessions, FiniteSetTheorems, SequenceTheorems, TLAPS

----------------------------------------------------------------------------
\* The inductive invariant.

\* What a task carries at each of its steps.
TasksOK ==
    \A k \in Tasks :
        /\ task[k].pc = "idle" => task[k] = Idle
        /\ task[k].pc # "idle" => task[k].socket \in Sockets /\ task[k].name \in Names
        /\ task[k].pc \in {"kick", "drop"} => task[k].old \in Sockets
        /\ task[k].pc \in {"verify", "kick", "drop", "assign"} => db[task[k].name] # <<>>
        /\ task[k].pc \in {"insert", "strip", "store", "enter", "open"} => task[k].number # 0

SessionsOK ==
    \A s \in Sockets : session[s] # NoSession =>
        session[s].name \in Names /\ session[s].number # 0

\* The queue holds the logins that run, each once, and only its head has got
\* past waiting for the lock.
QueueOK ==
    /\ \A i \in 1..Len(queue) : LoggingIn(queue[i])
    /\ \A k \in Tasks : LoggingIn(k) => \E i \in 1..Len(queue) : queue[i] = k
    /\ \A i, j \in 1..Len(queue) : queue[i] = queue[j] => i = j
    /\ \A k \in Tasks : LoggingIn(k) /\ ~ At(k, "queued") => k = queue[1]

WaitingTasks == {k \in Tasks : Waiting(k)}
OpenSockets == {s \in Sockets : transport[s] \in {"open", "closed"}}

\* The counters, with the finiteness without which they count nothing. No bound
\* on tasks and sockets is assumed: a finite number of them is in use at a time.
WaitersOK == IsFiniteSet(WaitingTasks) /\ queueLen = Cardinality(WaitingTasks)
EntriesOK == IsFiniteSet(OpenSockets) /\ entries <= Cardinality(OpenSockets)

\* Number n is used for the account a: by a row, a session or a task.
RowUses(n, a) == \E i \in DOMAIN db[a] : db[a][i] = n
SessionUses(n, a) == \E s \in Sockets : session[s].name = a /\ session[s].number = n
TaskUses(n, a) == \E k \in Tasks : task[k].name = a /\ task[k].number = n

Uses(n, a) == RowUses(n, a) \/ SessionUses(n, a) \/ TaskUses(n, a)

\* A number that has been given out is below the counter and of one account.
OwnersOK ==
    /\ \A n \in Nat \ {0}, a \in Names : Uses(n, a) => n < nextNumber
    /\ \A n \in Nat \ {0}, a, b \in Names : Uses(n, a) /\ Uses(n, b) => a = b

\* No number is in two rows of a name.
RowsOK ==
    \A a \in Names : \A i, j \in DOMAIN db[a] :
        db[a][i] # 0 /\ db[a][i] = db[a][j] => i = j

\* The number a creation is about to store is nowhere else yet.
FreshOK ==
    \A k \in Tasks : At(k, "store") =>
        /\ \A a \in Names : \A i \in DOMAIN db[a] : db[a][i] # task[k].number
        /\ \A l \in Tasks : l # k => task[l].number # task[k].number

Core == TypeOK /\ TasksOK /\ SessionsOK /\ QueueOK
Numbers == OwnersOK /\ RowsOK /\ FreshOK

\* The sockets that have lost their pre-login handlers or are about to.
OnStrip(s) ==
    \/ s \in stripped
    \/ \E k \in Tasks : task[k].pc \in {"strip", "open"} /\ task[k].socket = s

\* Only such sockets have a session, are in the index or are kicked.
HoldersOK ==
    /\ \A s \in Sockets : session[s] # NoSession => OnStrip(s)
    /\ \A a \in DOMAIN byName : OnStrip(byName[a])
    /\ \A k \in Tasks : At(k, "open") => task[k].socket \in created
    /\ \A k \in Tasks : At(k, "kick") => task[k].old \in stripped \cup created

\* Who can still have the account a login is about to enter.
EvictedOK ==
    \A k \in Tasks, s \in Sockets :
        session[s].name = task[k].name /\ task[k].name \notin twinned =>
            /\ ~ (task[k].pc \in {"drop", "assign", "insert"})
            /\ At(k, "kick") => s = task[k].old

\* What keeps a socket that waits from a second login.
HeldBackOK ==
    \A k \in Tasks : Waiting(k) =>
        /\ transport[task[k].socket] # "new"
        /\ \/ task[k].socket \in pending
           \/ task[k].socket \in stripped
           \/ task[k].socket \in created
           \/ ~ Connected(task[k].socket)

----------------------------------------------------------------------------
\* How the parts of the invariant depend on a step.

Records == [pc : LoginSteps \cup CreateSteps \cup {"idle"},
            socket : Sockets \cup {NoSocket},
            name : Names \cup {NoName},
            number : Nat,
            old : Sockets \cup {NoSocket}]

\* What TasksOK says of one task.
Carries(r, rows) ==
    /\ r \in Records
    /\ r.pc = "idle" => r = Idle
    /\ r.pc # "idle" => r.socket \in Sockets /\ r.name \in Names
    /\ r.pc \in {"kick", "drop"} => r.old \in Sockets
    /\ r.pc \in {"verify", "kick", "drop", "assign"} => rows[r.name] # <<>>
    /\ r.pc \in {"insert", "strip", "store", "enter", "open"} => r.number # 0

LEMMA TasksCarry ==
    TypeOK /\ TasksOK <=> TypeOK /\ \A k \in Tasks : Carries(task[k], db)
  BY DEF TypeOK, TasksOK, Carries, Records

\* One task changes, and no name loses its rows.
LEMMA TaskChanges ==
    ASSUME TypeOK, TasksOK, NEW k \in Tasks, NEW r, task' = [task EXCEPT ![k] = r],
           Carries(r, db'),
           \A a \in Names : db[a] # <<>> => db'[a] # <<>>
    PROVE  task' \in [Tasks -> Records] /\ TasksOK'
  <1>1. \A l \in Tasks : task'[l] = IF l = k THEN r ELSE task[l]
    BY DEF TypeOK
  <1>2. \A l \in Tasks : Carries(task'[l], db')
    BY <1>1, TasksCarry DEF Carries
  <1>3. task' \in [Tasks -> Records]
    BY <1>2 DEF TypeOK, Carries
  <1>4. TasksOK'
    BY <1>2 DEF TasksOK, Carries
  <1> QED BY <1>3, <1>4

LEMMA TasksSame ==
    ASSUME TypeOK, TasksOK, task' = task, \A a \in Names : db[a] # <<>> => db'[a] # <<>>
    PROVE  task' \in [Tasks -> Records] /\ TasksOK'
  BY DEF TypeOK, TasksOK, Records

\* The record of a task that begins, and of a task that goes on.
LEMMA IdleIs == Idle \in Records /\ Idle.pc = "idle" /\ Idle.number = 0 /\ Idle.name = NoName
  BY DEF Idle, Records

Begun(pc, s, name) == [Idle EXCEPT !.pc = pc, !.socket = s, !.name = name]
To(k, pc) == [task[k] EXCEPT !.pc = pc]
Numbered(k, pc, n) == [task[k] EXCEPT !.pc = pc, !.number = n]
Pointed(k, pc, old) == [task[k] EXCEPT !.pc = pc, !.old = old]

Steps == LoginSteps \cup CreateSteps

LEMMA BegunIs ==
    ASSUME NEW s \in Sockets, NEW name \in Names, NEW pc \in Steps
    PROVE  LET r == Begun(pc, s, name)
           IN  r \in Records /\ r.pc = pc /\ r.socket = s /\ r.name = name /\ r.number = 0
  BY IdleIs DEF Records, Begun, Steps

LEMMA ToIs ==
    ASSUME TypeOK, NEW k \in Tasks, NEW pc \in Steps
    PROVE  LET r == To(k, pc)
           IN  /\ r \in Records /\ r.pc = pc /\ r.socket = task[k].socket /\ r.name = task[k].name
               /\ r.number = task[k].number /\ r.old = task[k].old
  <1>1. task[k] \in Records
    BY DEF TypeOK, Records
  <1> QED BY <1>1 DEF Records, To, Steps

LEMMA NumberedIs ==
    ASSUME TypeOK, NEW k \in Tasks, NEW pc \in Steps, NEW n \in Nat
    PROVE  LET r == Numbered(k, pc, n)
           IN  /\ r \in Records /\ r.pc = pc /\ r.socket = task[k].socket /\ r.name = task[k].name
               /\ r.number = n /\ r.old = task[k].old
  <1>1. task[k] \in Records
    BY DEF TypeOK, Records
  <1> QED BY <1>1 DEF Records, Numbered, Steps

LEMMA PointedIs ==
    ASSUME TypeOK, NEW k \in Tasks, NEW pc \in Steps, NEW old \in Sockets \cup {NoSocket}
    PROVE  LET r == Pointed(k, pc, old)
           IN  /\ r \in Records /\ r.pc = pc /\ r.socket = task[k].socket /\ r.name = task[k].name
               /\ r.number = task[k].number /\ r.old = old
  <1>1. task[k] \in Records
    BY DEF TypeOK, Records
  <1> QED BY <1>1 DEF Records, Pointed, Steps

\* The same step, with the whole record replaced.
LEMMA Replaced ==
    ASSUME TypeOK, NEW k \in Tasks
    PROVE  \A pc : [task EXCEPT ![k].pc = pc] = [task EXCEPT ![k] = To(k, pc)]
  <1>1. DOMAIN task = Tasks
    BY DEF TypeOK
  <1> QED BY <1>1 DEF To

\* The maps of accounts.
MapsOK ==
    /\ session \in [Sockets -> [name : Names \cup {NoName}, number : Nat]]
    /\ DOMAIN byMember \subseteq Nat \ {0}
    /\ byMember \in [DOMAIN byMember -> Sockets]
    /\ DOMAIN byName \subseteq Names
    /\ byName \in [DOMAIN byName -> Sockets]
    /\ SessionsOK

LEMMA MapsAre == TypeOK /\ SessionsOK => MapsOK
  BY DEF TypeOK, MapsOK

LEMMA MapsSame == ASSUME MapsOK, UNCHANGED maps PROVE MapsOK'
  BY DEF MapsOK, maps, SessionsOK

LEMMA InsertMaps ==
    ASSUME MapsOK, NEW s \in Sockets, NEW name \in Names, NEW number \in Nat \ {0},
           InsertAccount(s, name, number)
    PROVE  MapsOK'
  <1>1. session' \in [Sockets -> [name : Names \cup {NoName}, number : Nat]] /\ SessionsOK'
    BY DEF MapsOK, InsertAccount, SessionsOK
  <1>2. DOMAIN byMember' = DOMAIN byMember \cup {number} /\ DOMAIN byName' = DOMAIN byName \cup {name}
    BY DEF InsertAccount, With
  <1>3. byMember' \in [DOMAIN byMember' -> Sockets] /\ byName' \in [DOMAIN byName' -> Sockets]
    BY DEF MapsOK, InsertAccount, With
  <1> QED BY <1>1, <1>2, <1>3 DEF MapsOK

LEMMA RemoveMaps ==
    ASSUME MapsOK, NEW s \in Sockets, RemoveAccount(s)
    PROVE  MapsOK'
  <1>1. CASE UNCHANGED maps
    BY <1>1, MapsSame
  <1>2. CASE /\ session' = [session EXCEPT ![s] = NoSession]
             /\ byMember' = Drop(byMember, session[s].number)
             /\ byName' = Drop(byName, session[s].name)
    <2>1. session' \in [Sockets -> [name : Names \cup {NoName}, number : Nat]] /\ SessionsOK'
      BY <1>2 DEF MapsOK, NoSession, SessionsOK
    <2>2. /\ DOMAIN byMember' \subseteq DOMAIN byMember
          /\ DOMAIN byName' \subseteq DOMAIN byName
      BY <1>2 DEF Drop
    <2>3. byMember' \in [DOMAIN byMember' -> Sockets] /\ byName' \in [DOMAIN byName' -> Sockets]
      BY <1>2 DEF MapsOK, Drop
    <2> QED BY <2>1, <2>2, <2>3 DEF MapsOK
  <1> QED BY <1>1, <1>2 DEF RemoveAccount

\* The queue.
LEMMA QueueSame ==
    ASSUME QueueOK, queue \in Seq(Tasks), queue' = queue,
           \A k \in Tasks : LoggingIn(k)' <=> LoggingIn(k),
           \A k \in Tasks : LoggingIn(k)' /\ ~ At(k, "queued")' => k = queue[1]
    PROVE  QueueOK' /\ queue' \in Seq(Tasks)
  BY DEF QueueOK

LEMMA QueueJoined ==
    ASSUME QueueOK, queue \in Seq(Tasks), NEW k \in Tasks, ~ LoggingIn(k),
           queue' = Append(queue, k),
           At(k, "queued")',
           \A l \in Tasks : l # k => task'[l] = task[l]
    PROVE  QueueOK' /\ queue' \in Seq(Tasks)
  <1>1. /\ queue' \in Seq(Tasks) /\ Len(queue') = Len(queue) + 1
        /\ \A i \in 1..Len(queue) : queue'[i] = queue[i]
        /\ queue'[Len(queue) + 1] = k
    OBVIOUS
  <1>2. LoggingIn(k)'
    BY DEF LoggingIn, At, LoginSteps
  <1>3. \A l \in Tasks : l # k => (LoggingIn(l)' <=> LoggingIn(l)) /\ (At(l, "queued")' <=> At(l, "queued"))
    BY DEF LoggingIn, At
  <1>4. \A i \in 1..Len(queue) : queue[i] \in Tasks /\ queue[i] # k
    BY DEF QueueOK
  <1>5. 1..Len(queue') = 1..Len(queue) \cup {Len(queue) + 1}
    BY <1>1
  <1>6. \A i \in 1..Len(queue') : LoggingIn(queue[i])'
    BY <1>1, <1>2, <1>3, <1>4, <1>5 DEF QueueOK
  <1>7. \A l \in Tasks : LoggingIn(l)' => \E i \in 1..Len(queue') : queue'[i] = l
    BY <1>1, <1>3, <1>5 DEF QueueOK
  <1>8. \A i, j \in 1..Len(queue') : queue'[i] = queue'[j] => i = j
    BY <1>1, <1>4, <1>5 DEF QueueOK
  <1>9. ASSUME NEW l \in Tasks, LoggingIn(l)', ~ At(l, "queued")'
        PROVE  l = queue'[1]
    <2>1. l # k /\ LoggingIn(l) /\ ~ At(l, "queued")
      BY <1>3, <1>9
    <2>2. PICK i \in 1..Len(queue) : queue[i] = l
      BY <2>1 DEF QueueOK
    <2>3. 1 \in 1..Len(queue)
      BY <2>2
    <2> QED BY <1>1, <2>1, <2>3 DEF QueueOK
  <1> QED BY <1>1, <1>6, <1>7, <1>8, <1>9 DEF QueueOK

LEMMA QueueLeft ==
    ASSUME QueueOK, queue \in Seq(Tasks), NEW k \in Tasks, LoggingIn(k), k = queue[1],
           queue' = Tail(queue),
           ~ LoggingIn(k)',
           \A l \in Tasks : l # k => task'[l] = task[l]
    PROVE  QueueOK' /\ queue' \in Seq(Tasks)
  <1>1. Len(queue) \in Nat \ {0}
    BY DEF QueueOK
  <1>2. /\ queue' \in Seq(Tasks) /\ Len(queue') = Len(queue) - 1
        /\ \A i \in 1..(Len(queue) - 1) : queue'[i] = queue[i + 1]
    BY <1>1
  <1>3. \A l \in Tasks : l # k => (LoggingIn(l)' <=> LoggingIn(l)) /\ (At(l, "queued")' <=> At(l, "queued"))
    BY DEF LoggingIn, At
  <1>4. \A i \in 2..Len(queue) : queue[i] \in Tasks /\ queue[i] # k
    BY <1>1 DEF QueueOK
  <1>5. \A i \in 1..Len(queue') : i + 1 \in 2..Len(queue) /\ i + 1 \in 1..Len(queue)
    BY <1>1, <1>2
  <1>6. \A i \in 1..Len(queue') : LoggingIn(queue[i])'
    BY <1>2, <1>3, <1>4, <1>5 DEF QueueOK
  <1>7. ASSUME NEW l \in Tasks, LoggingIn(l)'
        PROVE  \E i \in 1..Len(queue') : queue'[i] = l
    <2>1. PICK i \in 1..Len(queue) : queue[i] = l
      BY <1>3, <1>7 DEF QueueOK
    <2>2. i # 1
      BY <1>7, <2>1
    <2>3. i - 1 \in 1..Len(queue') /\ queue'[i - 1] = l
      BY <1>1, <1>2, <2>1, <2>2
    <2> QED BY <2>3
  <1>8. \A i, j \in 1..Len(queue') : queue'[i] = queue'[j] => i = j
    BY <1>1, <1>2, <1>5 DEF QueueOK
  <1>9. ASSUME NEW l \in Tasks, LoggingIn(l)', ~ At(l, "queued")'
        PROVE  l = queue'[1]
    <2>1. l # k /\ LoggingIn(l) /\ ~ At(l, "queued")
      BY <1>3, <1>9
    <2> QED BY <2>1 DEF QueueOK
  <1> QED BY <1>2, <1>6, <1>7, <1>8, <1>9 DEF QueueOK
LEMMA QueueKept ==
    ASSUME TypeOK, QueueOK, NEW k \in Tasks, NEW r, task' = [task EXCEPT ![k] = r],
           queue' = queue, r.pc \in LoginSteps <=> LoggingIn(k),
           LoggingIn(k) => k = queue[1]
    PROVE  QueueOK' /\ queue' \in Seq(Tasks)
  <1>1. task'[k] = r /\ \A l \in Tasks : l # k => task'[l] = task[l]
    BY DEF TypeOK
  <1>2. \A l \in Tasks : LoggingIn(l)' <=> LoggingIn(l)
    BY <1>1 DEF LoggingIn
  <1>3. \A l \in Tasks : LoggingIn(l)' /\ ~ At(l, "queued")' => l = queue[1]
    BY <1>1, <1>2 DEF LoggingIn, At, QueueOK
  <1> QED BY <1>2, <1>3, QueueSame DEF TypeOK

----------------------------------------------------------------------------
\* Types, tasks, sessions and the queue: action by action.

\* What is left of TypeOK when tasks, queue and maps are dealt with.
RestOK ==
    /\ transport \in [Sockets -> {"new", "open", "closed", "gone"}]
    /\ entries \in Nat
    /\ stripped \subseteq Sockets
    /\ pending \subseteq Sockets
    /\ queueLen \in Nat
    /\ db \in [Names -> Seq(Nat)]
    /\ nextNumber \in Nat \ {0}
    /\ twinned \subseteq Names
    /\ created \subseteq Sockets

LEMMA CoreParts ==
    Core <=> /\ RestOK /\ MapsOK
             /\ task \in [Tasks -> Records] /\ TasksOK
             /\ queue \in Seq(Tasks) /\ QueueOK
  BY DEF Core, TypeOK, RestOK, MapsOK, Records

LEMMA CorePartsNext ==
    Core' <=> /\ RestOK' /\ MapsOK'
              /\ task' \in [Tasks -> Records] /\ TasksOK'
              /\ queue' \in Seq(Tasks) /\ QueueOK'
  BY DEF Core, TypeOK, RestOK, MapsOK, Records

LEMMA RestSame == ASSUME RestOK, UNCHANGED <<net, pending, queueLen, store, hist>> PROVE RestOK'
  BY DEF RestOK, net, store, hist

LEMMA LessIsNat == \A n \in Nat : OneLess(n) \in Nat
  BY DEF OneLess

LEMMA SocketCore ==
    ASSUME Core, NEW s \in Sockets, Socket(s)
    PROVE  Core'
  <1>0. RestOK /\ MapsOK /\ TypeOK /\ TasksOK /\ QueueOK /\ queue \in Seq(Tasks)
    BY CoreParts DEF Core
  <1>1. UNCHANGED <<task, queue, store, hist>>
    BY DEF Socket, Connect, RefuseConnection, Close, Cleanup, AccountDisconnect, gate
  <1>2. TasksOK' /\ task' \in [Tasks -> Records]
    BY <1>0, <1>1, TasksSame DEF store
  <1>3. QueueOK' /\ queue' \in Seq(Tasks)
    BY <1>0, <1>1, QueueSame DEF LoggingIn, At, QueueOK
  <1>4. MapsOK' /\ pending' \subseteq pending
    <2>1. CASE RemoveAccount(s)
      BY <1>0, <2>1, RemoveMaps DEF RemoveAccount
    <2>2. CASE UNCHANGED <<maps, pending>>
      BY <1>0, <2>2, MapsSame
    <2> QED BY <2>1, <2>2 DEF Socket, Connect, RefuseConnection, Close, Cleanup, AccountDisconnect, gate
  <1>5. RestOK'
    <2>1. UNCHANGED <<stripped, queueLen>>
      BY DEF Socket, Connect, RefuseConnection, Close, Cleanup, AccountDisconnect, gate
    <2>2. entries' \in Nat
      BY <1>0, LessIsNat DEF RestOK, hist, net, Socket, Connect, RefuseConnection, Close, Cleanup, AccountDisconnect
    <2>3. transport' \in [Sockets -> {"new", "open", "closed", "gone"}]
      BY <1>0 DEF RestOK, hist, net, Socket, Connect, RefuseConnection, Close, Cleanup, AccountDisconnect
    <2> QED BY <1>0, <1>1, <1>4, <2>1, <2>2, <2>3 DEF RestOK, hist, store
  <1> QED BY <1>2, <1>3, <1>4, <1>5, CorePartsNext

LEMMA BeginLoginCore ==
    ASSUME Core, NEW k \in Tasks, NEW s \in Sockets, NEW name \in Names, BeginLogin(k, s, name)
    PROVE  Core'
  <1>0. RestOK /\ MapsOK /\ TypeOK /\ TasksOK /\ QueueOK /\ queue \in Seq(Tasks)
    BY CoreParts DEF Core
  <1> DEFINE r == Begun("queued", s, name)
  <1>1. r \in Records /\ r.pc = "queued" /\ r.socket = s /\ r.name = name
    BY BegunIs DEF LoginSteps, CreateSteps, Steps
  <1>2. task' = [task EXCEPT ![k] = r] /\ UNCHANGED <<net, maps, store, hist>> /\ ~ LoggingIn(k)
    BY DEF BeginLogin, Begun, Idle, LoggingIn, LoginSteps
  <1> HIDE DEF r
  <1>3. Carries(r, db')
    BY <1>1 DEF Carries
  <1>4. TasksOK' /\ task' \in [Tasks -> Records]
    BY <1>0, <1>2, <1>3, TaskChanges DEF store
  <1>5. At(k, "queued")' /\ \A l \in Tasks : l # k => task'[l] = task[l]
    BY <1>0, <1>1, <1>2 DEF At, TypeOK
  <1>6. QueueOK' /\ queue' \in Seq(Tasks)
    BY <1>0, <1>2, <1>5, QueueJoined DEF BeginLogin
  <1>7. RestOK' /\ MapsOK'
    BY <1>0, <1>2, MapsSame DEF RestOK, hist, net, store, BeginLogin
  <1> QED BY <1>4, <1>6, <1>7, CorePartsNext

LEMMA BeginCreateCore ==
    ASSUME Core, NEW k \in Tasks, NEW s \in Sockets, NEW name \in Names, BeginCreate(k, s, name)
    PROVE  Core'
  <1>0. RestOK /\ MapsOK /\ TypeOK /\ TasksOK /\ QueueOK /\ queue \in Seq(Tasks)
    BY CoreParts DEF Core
  <1> DEFINE r == Begun("lookup", s, name)
  <1>1. r \in Records /\ r.pc = "lookup" /\ r.socket = s /\ r.name = name
    BY BegunIs DEF LoginSteps, CreateSteps, Steps
  <1>2. task' = [task EXCEPT ![k] = r] /\ UNCHANGED <<net, gate, maps, store, hist>> /\ ~ LoggingIn(k)
    BY DEF BeginCreate, Begun, Idle, LoggingIn, LoginSteps
  <1> HIDE DEF r
  <1>3. Carries(r, db')
    BY <1>1 DEF Carries
  <1>4. TasksOK' /\ task' \in [Tasks -> Records]
    BY <1>0, <1>2, <1>3, TaskChanges DEF store
  <1>5. QueueOK' /\ queue' \in Seq(Tasks)
    BY <1>0, <1>1, <1>2, QueueKept DEF LoginSteps, gate
  <1>6. RestOK' /\ MapsOK'
    BY <1>0, <1>2, MapsSame, RestSame DEF gate
  <1> QED BY <1>4, <1>5, <1>6, CorePartsNext

\* A login that fails.
LEMMA RefuseCore ==
    ASSUME Core, NEW k \in Tasks, LoggingIn(k), k = queue[1], Refuse(k)
    PROVE  Core'
  <1>0. RestOK /\ MapsOK /\ TypeOK /\ TasksOK /\ QueueOK /\ queue \in Seq(Tasks)
    BY CoreParts DEF Core
  <1>1. task' = [task EXCEPT ![k] = Idle] /\ UNCHANGED <<net, maps, store, hist>> /\ queue' = Tail(queue)
    BY DEF Refuse, Ends
  <1>2. Carries(Idle, db')
    BY DEF Carries, Records, Idle
  <1>3. TasksOK' /\ task' \in [Tasks -> Records]
    BY <1>0, <1>1, <1>2, TaskChanges DEF store
  <1>4. ~ LoggingIn(k)' /\ \A l \in Tasks : l # k => task'[l] = task[l]
    BY <1>0, <1>1 DEF LoggingIn, TypeOK, LoginSteps, Idle
  <1>5. QueueOK' /\ queue' \in Seq(Tasks)
    BY <1>0, <1>1, <1>4, QueueLeft
  <1>6. RestOK' /\ MapsOK'
    BY <1>0, <1>1, MapsSame, LessIsNat DEF RestOK, hist, net, store, Refuse, FinishQueueSlot
  <1> QED BY <1>3, <1>5, <1>6, CorePartsNext
\* A step of a task in which the queue stays.
LEMMA StepCore ==
    ASSUME Core, NEW k \in Tasks, NEW r, task' = [task EXCEPT ![k] = r], r \in Records,
           Carries(r, db'),
           \A a \in Names : db[a] # <<>> => db'[a] # <<>>,
           queue' = queue, r.pc \in LoginSteps <=> LoggingIn(k),
           LoggingIn(k) => k = queue[1],
           RestOK', MapsOK'
    PROVE  Core'
  <1>1. TypeOK /\ TasksOK /\ QueueOK
    BY DEF Core
  <1>2. TasksOK' /\ task' \in [Tasks -> Records]
    BY <1>1, TaskChanges
  <1>3. QueueOK' /\ queue' \in Seq(Tasks)
    BY <1>1, QueueKept
  <1> QED BY <1>2, <1>3, CorePartsNext

\* The facts about a task of which a step is made.
LEMMA TaskIs ==
    ASSUME Core, NEW k \in Tasks, task[k].pc \in Steps
    PROVE  /\ TypeOK /\ RestOK /\ MapsOK
           /\ task[k] \in Records
           /\ task[k].socket \in Sockets /\ task[k].name \in Names
           /\ task[k].number \in Nat
           /\ LoggingIn(k) /\ ~ At(k, "queued") => k = queue[1]
  BY CoreParts DEF Core, TasksOK, QueueOK, Steps, LoginSteps, CreateSteps, Records

\* The task that has waited for login_mutex and gets it.
LEMMA WakerIs ==
    ASSUME Core, NEW k \in Tasks, Wake(k)
    PROVE  LoggingIn(k) /\ k = queue[1]
  <1>1. LoggingIn(k)
    BY DEF Wake, LoggingIn, At, LoginSteps
  <1>2. PICK i \in 1..Len(queue) : queue[i] = k
    BY <1>1 DEF Core, QueueOK
  <1>3. queue \in Seq(Tasks) /\ queue # <<>>
    BY <1>2 DEF Core, TypeOK
  <1> QED BY <1>1, <1>3 DEF Wake

LEMMA WakeCore == ASSUME Core, NEW k \in Tasks, Wake(k) PROVE Core'
  <1>0. LoggingIn(k) /\ k = queue[1] /\ task[k].pc \in Steps
    BY WakerIs DEF LoggingIn, Steps
  <1>1. CASE Refuse(k)
    BY <1>0, <1>1, RefuseCore
  <1>2. CASE Goto(k, "find") /\ UNCHANGED <<net, gate, maps, store, hist>>
    <2> DEFINE r == To(k, "find")
    <2>1. TypeOK /\ RestOK /\ MapsOK
      BY <1>0, TaskIs
    <2>2. /\ r \in Records /\ r.pc = "find"
          /\ r.socket = task[k].socket /\ r.name = task[k].name
      BY <2>1, ToIs DEF Steps, LoginSteps
    <2>3. task' = [task EXCEPT ![k] = r]
      BY <1>2, <2>1, Replaced DEF Goto
    <2> HIDE DEF r
    <2>4. Carries(r, db')
      BY <1>0, <2>2, TaskIs DEF Carries
    <2>5. RestOK' /\ MapsOK'
      BY <1>2, <2>1, RestSame, MapsSame DEF gate
    <2> QED BY <1>0, <1>2, <2>2, <2>3, <2>4, <2>5, StepCore DEF gate, store, LoginSteps
  <1> QED BY <1>1, <1>2 DEF Wake, GiveUp

LEMMA FindCore == ASSUME Core, NEW k \in Tasks, Find(k) PROVE Core'
  <1>0. LoggingIn(k) /\ task[k].pc \in Steps /\ ~ At(k, "queued")
    BY DEF Find, At, LoggingIn, Steps, LoginSteps
  <1>1. /\ TypeOK /\ RestOK /\ MapsOK /\ k = queue[1]
        /\ task[k].socket \in Sockets /\ task[k].name \in Names
    BY <1>0, TaskIs
  <1>2. CASE Refuse(k)
    BY <1>0, <1>1, <1>2, RefuseCore
  <1>3. CASE /\ db[task[k].name] # <<>>
             /\ task' = [task EXCEPT ![k].pc = "verify", ![k].number = Head(db[task[k].name])]
             /\ UNCHANGED <<net, gate, maps, store, hist>>
    <2> DEFINE n == Head(db[task[k].name])
               r == Numbered(k, "verify", n)
    <2>1. n \in Nat
      BY <1>1, <1>3 DEF TypeOK
    <2>2. task' = [task EXCEPT ![k] = r]
      <3>1. DOMAIN task = Tasks
        BY <1>1 DEF TypeOK
      <3> QED BY <1>3, <3>1 DEF Numbered
    <2> HIDE DEF n
    <2>3. /\ r \in Records /\ r.pc = "verify"
          /\ r.socket = task[k].socket /\ r.name = task[k].name
      BY <1>1, <2>1, NumberedIs DEF Steps, LoginSteps
    <2> HIDE DEF r
    <2>4. Carries(r, db')
      BY <1>1, <1>3, <2>3 DEF Carries, store
    <2>5. RestOK' /\ MapsOK'
      BY <1>1, <1>3, RestSame, MapsSame DEF gate
    <2> QED BY <1>0, <1>1, <1>3, <2>2, <2>3, <2>4, <2>5, StepCore DEF gate, store, LoginSteps
  <1> QED BY <1>2, <1>3 DEF Find

LEMMA VerifyCore == ASSUME Core, NEW k \in Tasks, Verify(k) PROVE Core'
  <1>0. LoggingIn(k) /\ task[k].pc \in Steps /\ ~ At(k, "queued")
    BY DEF Verify, At, LoggingIn, Steps, LoginSteps
  <1>1. /\ TypeOK /\ RestOK /\ MapsOK /\ k = queue[1]
        /\ task[k].socket \in Sockets /\ task[k].name \in Names
    BY <1>0, TaskIs
  <1>2. CASE Refuse(k)
    BY <1>0, <1>1, <1>2, RefuseCore
  <1>3. CASE ~ Refuse(k)
    <2> DEFINE old == FindDuplicateLogin(task[k].name)
               pc == IF old = NoSocket THEN "assign" ELSE "kick"
               r == Pointed(k, pc, old)
    <2>1. /\ old \in Sockets \cup {NoSocket}
          /\ pc \in {"assign", "kick"} /\ (pc = "kick" => old \in Sockets)
      BY <1>1 DEF FindDuplicateLogin, MapsOK
    <2>2. task' = [task EXCEPT ![k] = r] /\ UNCHANGED <<net, gate, maps, store, hist>>
      <3>1. DOMAIN task = Tasks
        BY <1>1 DEF TypeOK
      <3>2. /\ task' = [task EXCEPT ![k].pc = pc, ![k].old = old]
            /\ UNCHANGED <<net, gate, maps, store, hist>>
        BY <1>3 DEF Verify
      <3> HIDE DEF old, pc
      <3> QED BY <3>1, <3>2 DEF Pointed
    <2> HIDE DEF pc, old
    <2>3. /\ r \in Records /\ r.pc = pc /\ r.old = old
          /\ r.socket = task[k].socket /\ r.name = task[k].name
      BY <1>1, <2>1, PointedIs DEF Steps, LoginSteps
    <2>4. db[task[k].name] # <<>>
      BY DEF Core, TasksOK, Verify, At
    <2> HIDE DEF r
    <2>5. Carries(r, db')
      BY <1>1, <2>1, <2>2, <2>3, <2>4 DEF Carries, store
    <2>6. RestOK' /\ MapsOK'
      BY <1>1, <2>2, RestSame, MapsSame DEF gate
    <2> QED BY <1>0, <1>1, <2>1, <2>2, <2>3, <2>5, <2>6, StepCore DEF gate, store, LoginSteps
  <1> QED BY <1>2, <1>3
LEMMA KickCore == ASSUME Core, NEW k \in Tasks, Kick(k) PROVE Core'
  <1>0. LoggingIn(k) /\ task[k].pc \in Steps /\ ~ At(k, "queued")
    BY DEF Kick, At, LoggingIn, Steps, LoginSteps
  <1>1. /\ TypeOK /\ RestOK /\ MapsOK /\ k = queue[1]
        /\ task[k].socket \in Sockets /\ task[k].name \in Names
    BY <1>0, TaskIs
  <1>2. task[k].old \in Sockets /\ db[task[k].name] # <<>>
    BY DEF Core, TasksOK, Kick, At
  <1> DEFINE r == To(k, "drop")
  <1>3. /\ r \in Records /\ r.pc = "drop" /\ r.old = task[k].old
        /\ r.socket = task[k].socket /\ r.name = task[k].name
    BY <1>1, ToIs DEF Steps, LoginSteps
  <1>4. task' = [task EXCEPT ![k] = r] /\ UNCHANGED <<net, queueLen, queue, store, hist>>
    BY <1>1, Replaced DEF Kick, Goto
  <1> HIDE DEF r
  <1>5. Carries(r, db')
    BY <1>1, <1>2, <1>3, <1>4 DEF Carries, store
  <1>6. RemoveAccount(task[k].old)
    BY DEF Kick
  <1>7. MapsOK'
    BY <1>1, <1>2, <1>6, RemoveMaps
  <1>8. RestOK'
    BY <1>1, <1>4, <1>6 DEF RestOK, hist, net, store, RemoveAccount
  <1> QED BY <1>0, <1>1, <1>3, <1>4, <1>5, <1>7, <1>8, StepCore DEF store, LoginSteps

LEMMA DropOldCore == ASSUME Core, NEW k \in Tasks, DropOld(k) PROVE Core'
  <1>0. LoggingIn(k) /\ task[k].pc \in Steps /\ ~ At(k, "queued")
    BY DEF DropOld, At, LoggingIn, Steps, LoginSteps
  <1>1. /\ TypeOK /\ RestOK /\ MapsOK /\ k = queue[1]
        /\ task[k].socket \in Sockets /\ task[k].name \in Names
    BY <1>0, TaskIs
  <1>2. task[k].old \in Sockets /\ db[task[k].name] # <<>>
    BY DEF Core, TasksOK, DropOld, At
  <1> DEFINE r == Pointed(k, "assign", NoSocket)
  <1>3. /\ r \in Records /\ r.pc = "assign"
        /\ r.socket = task[k].socket /\ r.name = task[k].name
    <2>1. "assign" \in Steps /\ NoSocket \in Sockets \cup {NoSocket}
      BY DEF Steps, LoginSteps
    <2> HIDE DEF r
    <2>2. r = Pointed(k, "assign", NoSocket)
      BY DEF r
    <2> QED BY <1>1, <2>1, <2>2, PointedIs
  <1>4. task' = [task EXCEPT ![k] = r] /\ UNCHANGED <<entries, stripped, gate, maps, store, hist>>
    <2>1. DOMAIN task = Tasks
      BY <1>1 DEF TypeOK
    <2> QED BY <2>1 DEF DropOld, Pointed
  <1> HIDE DEF r
  <1>5. Carries(r, db')
    BY <1>1, <1>2, <1>3, <1>4 DEF Carries, store
  <1>6. MapsOK'
    BY <1>1, <1>4, MapsSame
  <1>7. transport' \in [Sockets -> {"new", "open", "closed", "gone"}]
    BY <1>1 DEF RestOK, hist, DropOld
  <1>8. RestOK'
    BY <1>1, <1>4, <1>7 DEF RestOK, hist, gate, store
  <1> QED BY <1>0, <1>1, <1>3, <1>4, <1>5, <1>6, <1>8, StepCore DEF store, gate, LoginSteps

LEMMA AssignCore == ASSUME Core, NEW k \in Tasks, Assign(k) PROVE Core'
  <1>0. LoggingIn(k) /\ task[k].pc \in Steps /\ ~ At(k, "queued")
    BY DEF Assign, At, LoggingIn, Steps, LoginSteps
  <1>1. /\ TypeOK /\ RestOK /\ MapsOK /\ k = queue[1] /\ task[k].number \in Nat
        /\ task[k].socket \in Sockets /\ task[k].name \in Names
    BY <1>0, TaskIs
  <1>2. db[task[k].name] # <<>> /\ UNCHANGED <<net, gate, maps, hist>>
    BY DEF Core, TasksOK, Assign, At
  <1>3. MapsOK'
    BY <1>1, <1>2, MapsSame
  <1>4. CASE task[k].number # 0
    <2> DEFINE r == To(k, "insert")
    <2>1. /\ r \in Records /\ r.pc = "insert" /\ r.number = task[k].number
          /\ r.socket = task[k].socket /\ r.name = task[k].name
      BY <1>1, ToIs DEF Steps, LoginSteps
    <2>2. task' = [task EXCEPT ![k] = r] /\ UNCHANGED store
      BY <1>1, <1>4, Replaced DEF Assign, Goto
    <2> HIDE DEF r
    <2>3. Carries(r, db')
      BY <1>1, <1>4, <2>1 DEF Carries
    <2>4. RestOK'
      BY <1>1, <1>2, <2>2, RestSame DEF gate
    <2> QED BY <1>0, <1>1, <1>2, <1>3, <2>1, <2>2, <2>3, <2>4, StepCore DEF store, gate, LoginSteps
  <1>5. CASE task[k].number = 0
    <2> DEFINE r == Numbered(k, "insert", nextNumber)
    <2>0. nextNumber \in Nat \ {0}
      BY <1>1 DEF RestOK
    <2>1. /\ r \in Records /\ r.pc = "insert" /\ r.number # 0
          /\ r.socket = task[k].socket /\ r.name = task[k].name
      <3>1. "insert" \in Steps /\ nextNumber \in Nat
        BY <2>0 DEF Steps, LoginSteps
      <3> HIDE DEF r
      <3>2. r = Numbered(k, "insert", nextNumber)
        BY DEF r
      <3> QED BY <1>1, <2>0, <3>1, <3>2, NumberedIs
    <2>2. task' = [task EXCEPT ![k] = r]
      <3>1. DOMAIN task = Tasks
        BY <1>1 DEF TypeOK
      <3> QED BY <1>5, <3>1 DEF Assign, Numbered
    <2> HIDE DEF r
    <2>3. Carries(r, db')
      BY <1>1, <2>1 DEF Carries
    <2>4. nextNumber' \in Nat \ {0}
      BY <1>5, <2>0 DEF Assign, Allocate
    <2>5. db' \in [Names -> Seq(Nat)] /\ \A a \in Names : db[a] # <<>> => db'[a] # <<>>
      <3>1. \/ db' = db
            \/ db' = [db EXCEPT ![task[k].name][1] = nextNumber]
        BY <1>5 DEF Assign
      <3>2. CASE db' = [db EXCEPT ![task[k].name][1] = nextNumber]
        <4> DEFINE rows == [db[task[k].name] EXCEPT ![1] = nextNumber]
        <4>1. db[task[k].name] \in Seq(Nat)
          BY <1>1 DEF RestOK
        <4>2. rows \in Seq(Nat) /\ Len(rows) = Len(db[task[k].name])
          BY <1>2, <2>0, <4>1, ExceptSeq
        <4>3. db' = [db EXCEPT ![task[k].name] = rows]
          BY <3>2
        <4> HIDE DEF rows
        <4>4. rows # <<>>
          BY <1>2, <4>1, <4>2
        <4> QED BY <1>1, <4>2, <4>3, <4>4 DEF RestOK
      <3> QED BY <1>1, <3>1, <3>2 DEF RestOK
    <2>6. RestOK'
      BY <1>1, <1>2, <2>4, <2>5 DEF RestOK, hist, net, gate
    <2> QED BY <1>0, <1>1, <1>2, <1>3, <2>1, <2>2, <2>3, <2>5, <2>6, StepCore DEF gate, LoginSteps
  <1> QED BY <1>4, <1>5

LEMMA InsertCore == ASSUME Core, NEW k \in Tasks, Insert(k) PROVE Core'
  <1>0. LoggingIn(k) /\ task[k].pc \in Steps /\ ~ At(k, "queued")
    BY DEF Insert, At, LoggingIn, Steps, LoginSteps
  <1>1. /\ TypeOK /\ RestOK /\ MapsOK /\ k = queue[1] /\ task[k].number \in Nat
        /\ task[k].socket \in Sockets /\ task[k].name \in Names
    BY <1>0, TaskIs
  <1>2. task[k].number # 0
    BY DEF Core, TasksOK, Insert, At
  <1> DEFINE r == To(k, "strip")
  <1>3. /\ r \in Records /\ r.pc = "strip" /\ r.number = task[k].number
        /\ r.socket = task[k].socket /\ r.name = task[k].name
    BY <1>1, ToIs DEF Steps, LoginSteps
  <1>4. task' = [task EXCEPT ![k] = r] /\ UNCHANGED <<net, queue, store, hist>>
    BY <1>1, Replaced DEF Insert, Goto
  <1> HIDE DEF r
  <1>5. Carries(r, db')
    BY <1>1, <1>2, <1>3 DEF Carries
  <1>6. InsertAccount(task[k].socket, task[k].name, task[k].number)
    BY DEF Insert
  <1>7. MapsOK'
    BY <1>1, <1>2, <1>6, InsertMaps
  <1>8. RestOK'
    BY <1>1, <1>4, LessIsNat DEF RestOK, hist, net, store, Insert, FinishQueueSlot
  <1> QED BY <1>0, <1>1, <1>3, <1>4, <1>5, <1>7, <1>8, StepCore DEF store, LoginSteps

LEMMA StripCore == ASSUME Core, NEW k \in Tasks, Strip(k) PROVE Core'
  <1>0. LoggingIn(k) /\ task[k].pc \in Steps /\ ~ At(k, "queued")
    BY DEF Strip, At, LoggingIn, Steps, LoginSteps
  <1>1. /\ TypeOK /\ RestOK /\ MapsOK /\ k = queue[1]
        /\ task[k].socket \in Sockets
    BY <1>0, TaskIs
  <1>2. task' = [task EXCEPT ![k] = Idle] /\ UNCHANGED <<maps, store, hist>> /\ queue' = Tail(queue)
    BY DEF Strip, Ends
  <1>3. Carries(Idle, db')
    BY DEF Carries, Records, Idle
  <1>4. TasksOK' /\ task' \in [Tasks -> Records]
    BY <1>1, <1>2, <1>3, TaskChanges DEF store, Core
  <1>5. ~ LoggingIn(k)' /\ \A l \in Tasks : l # k => task'[l] = task[l]
    BY <1>1, <1>2 DEF LoggingIn, TypeOK, LoginSteps, Idle
  <1>6. QueueOK' /\ queue' \in Seq(Tasks)
    BY <1>0, <1>1, <1>2, <1>5, QueueLeft DEF Core, TypeOK
  <1>7. RestOK' /\ MapsOK'
    BY <1>1, <1>2, MapsSame DEF RestOK, hist, store, Strip
  <1> QED BY <1>4, <1>6, <1>7, CorePartsNext
\* The steps of a creation, which has no place in the queue.
LEMMA CreatorIs ==
    ASSUME Core, NEW k \in Tasks, task[k].pc \in CreateSteps
    PROVE  /\ task[k].pc \in Steps /\ ~ LoggingIn(k)
           /\ TypeOK /\ RestOK /\ MapsOK
           /\ task[k].socket \in Sockets /\ task[k].name \in Names /\ task[k].number \in Nat
  <1>1. task[k].pc \in Steps /\ ~ LoggingIn(k)
    BY DEF Steps, LoggingIn, LoginSteps, CreateSteps
  <1> QED BY <1>1, TaskIs

LEMMA CreationEndsCore ==
    ASSUME Core, NEW k \in Tasks, task[k].pc \in CreateSteps,
           Ends(k), UNCHANGED <<transport, entries, gate, maps, store, hist>>, stripped' \subseteq Sockets
    PROVE  Core'
  <1>1. ~ LoggingIn(k) /\ TypeOK /\ RestOK /\ MapsOK
    BY CreatorIs
  <1>2. Carries(Idle, db')
    BY DEF Carries, Records, Idle
  <1>3. RestOK' /\ MapsOK'
    BY <1>1, MapsSame DEF RestOK, hist, gate, store
  <1>4. Idle \in Records /\ Idle.pc \notin LoginSteps
    BY DEF Idle, Records, LoginSteps
  <1> QED BY <1>1, <1>2, <1>3, <1>4, StepCore DEF Ends, store, gate

LEMMA LookupCore == ASSUME Core, NEW k \in Tasks, Lookup(k) PROVE Core'
  <1>0. task[k].pc \in CreateSteps
    BY DEF Lookup, At, CreateSteps
  <1>1. /\ ~ LoggingIn(k) /\ TypeOK /\ RestOK /\ MapsOK
        /\ task[k].socket \in Sockets /\ task[k].name \in Names
    BY <1>0, CreatorIs
  <1>2. CASE GiveUpCreation(k)
    BY <1>0, <1>1, <1>2, CreationEndsCore DEF GiveUpCreation, net, RestOK
  <1>3. CASE ~ GiveUpCreation(k)
    <2> DEFINE r == Numbered(k, "store", nextNumber)
    <2>1. nextNumber \in Nat \ {0}
      BY <1>1 DEF RestOK
    <2>2. /\ r \in Records /\ r.pc = "store" /\ r.number # 0
          /\ r.socket = task[k].socket /\ r.name = task[k].name
      <3>1. "store" \in Steps /\ nextNumber \in Nat
        BY <2>1 DEF Steps, CreateSteps
      <3> HIDE DEF r
      <3>2. r = Numbered(k, "store", nextNumber)
        BY DEF r
      <3> QED BY <1>1, <2>1, <3>1, <3>2, NumberedIs
    <2>3. /\ task' = [task EXCEPT ![k] = r] /\ UNCHANGED <<net, gate, maps, db, hist>>
          /\ nextNumber' = nextNumber + 1
      <3>1. DOMAIN task = Tasks
        BY <1>1 DEF TypeOK
      <3> QED BY <1>3, <3>1 DEF Lookup, Numbered, Allocate
    <2> HIDE DEF r
    <2>4. Carries(r, db')
      BY <1>1, <2>2 DEF Carries
    <2>5. RestOK' /\ MapsOK'
      BY <1>1, <2>1, <2>3, MapsSame DEF RestOK, hist, net, gate
    <2>6. r.pc \notin LoginSteps
      BY <2>2 DEF LoginSteps
    <2> QED BY <1>1, <2>2, <2>3, <2>4, <2>5, <2>6, StepCore DEF gate
  <1> QED BY <1>2, <1>3

LEMMA StoreCore == ASSUME Core, NEW k \in Tasks, Store(k) PROVE Core'
  <1>0. task[k].pc \in CreateSteps
    BY DEF Store, At, CreateSteps
  <1>1. /\ ~ LoggingIn(k) /\ TypeOK /\ RestOK /\ MapsOK
        /\ task[k].socket \in Sockets /\ task[k].name \in Names /\ task[k].number \in Nat
    BY <1>0, CreatorIs
  <1>2. CASE GiveUpCreation(k)
    BY <1>0, <1>1, <1>2, CreationEndsCore DEF GiveUpCreation, net, RestOK
  <1>3. CASE ~ GiveUpCreation(k)
    <2> DEFINE r == To(k, "enter")
    <2>1. task[k].number # 0
      BY DEF Core, TasksOK, Store, At
    <2>2. /\ r \in Records /\ r.pc = "enter" /\ r.number = task[k].number
          /\ r.socket = task[k].socket /\ r.name = task[k].name
      BY <1>1, ToIs DEF Steps, CreateSteps
    <2>3. /\ task' = [task EXCEPT ![k] = r] /\ UNCHANGED <<net, gate, maps, nextNumber, hist>>
      BY <1>1, <1>3, Replaced DEF Store, Goto
    <2> HIDE DEF r
    <2>4. Carries(r, db')
      BY <1>1, <2>1, <2>2 DEF Carries
    <2> DEFINE rows == Append(db[task[k].name], task[k].number)
    <2>5. db' = [db EXCEPT ![task[k].name] = rows]
      BY <1>3 DEF Store
    <2>6. rows \in Seq(Nat) /\ rows # <<>>
      <3>1. db[task[k].name] \in Seq(Nat)
        BY <1>1 DEF RestOK
      <3>2. rows \in Seq(Nat) /\ Len(rows) = Len(db[task[k].name]) + 1
        BY <1>1, <3>1, AppendProperties
      <3> QED BY <3>1, <3>2
    <2> HIDE DEF rows
    <2>7. db' \in [Names -> Seq(Nat)] /\ \A a \in Names : db[a] # <<>> => db'[a] # <<>>
      BY <1>1, <2>5, <2>6 DEF RestOK
    <2>8. RestOK' /\ MapsOK'
      BY <1>1, <2>3, <2>7, MapsSame DEF RestOK, hist, net, gate
    <2>9. r.pc \notin LoginSteps
      BY <2>2 DEF LoginSteps
    <2> QED BY <1>1, <2>2, <2>3, <2>4, <2>7, <2>8, <2>9, StepCore DEF gate
  <1> QED BY <1>2, <1>3

LEMMA EnterCreatedCore == ASSUME Core, NEW k \in Tasks, EnterCreated(k) PROVE Core'
  <1>0. task[k].pc \in CreateSteps /\ task[k].number # 0
    BY DEF EnterCreated, At, CreateSteps, Core, TasksOK
  <1>1. /\ ~ LoggingIn(k) /\ TypeOK /\ RestOK /\ MapsOK
        /\ task[k].socket \in Sockets /\ task[k].name \in Names /\ task[k].number \in Nat
    BY <1>0, CreatorIs
  <1> DEFINE r == To(k, "open")
  <1>2. /\ r \in Records /\ r.pc = "open" /\ r.number = task[k].number
        /\ r.socket = task[k].socket /\ r.name = task[k].name
    BY <1>1, ToIs DEF Steps, CreateSteps
  <1>3. task' = [task EXCEPT ![k] = r] /\ UNCHANGED <<net, gate, store>>
    BY <1>1, Replaced DEF EnterCreated, Goto
  <1> HIDE DEF r
  <1>4. Carries(r, db')
    BY <1>0, <1>1, <1>2 DEF Carries
  <1>5. InsertAccount(task[k].socket, task[k].name, task[k].number)
    BY DEF EnterCreated
  <1>6. RestOK' /\ MapsOK'
    <2>1. twinned' \subseteq Names /\ created' \subseteq Sockets
      BY <1>1 DEF RestOK, EnterCreated, Twins
    <2>2. RestOK'
      BY <1>1, <1>3, <2>1 DEF RestOK, net, gate, store
    <2> QED BY <1>0, <1>1, <1>5, <2>2, InsertMaps
  <1>7. r.pc \notin LoginSteps
    BY <1>2 DEF LoginSteps
  <1> QED BY <1>1, <1>2, <1>3, <1>4, <1>6, <1>7, StepCore DEF gate, store

LEMMA StripCreatedCore == ASSUME Core, NEW k \in Tasks, StripCreated(k) PROVE Core'
  <1>0. task[k].pc \in CreateSteps
    BY DEF StripCreated, At, CreateSteps
  <1>1. task[k].socket \in Sockets /\ RestOK
    BY <1>0, CreatorIs
  <1> QED BY <1>0, <1>1, CreationEndsCore DEF StripCreated, RestOK

LEMMA InitCore == Init => Core
  <1> SUFFICES ASSUME Init PROVE Core
    OBVIOUS
  <1>1. \A k \in Tasks : task[k] = Idle
    BY DEF Init
  <1>2. TypeOK
    <2>1. task \in [Tasks -> Records]
      BY IdleIs DEF Init
    <2>2. /\ session \in [Sockets -> [name : Names \cup {NoName}, number : Nat]]
          /\ transport \in [Sockets -> {"new", "open", "closed", "gone"}]
      BY DEF Init, NoSession
    <2>3. queue \in Seq(Tasks)
      BY DEF Init
    <2>4. /\ DOMAIN byMember = {} /\ byMember \in [DOMAIN byMember -> Sockets]
          /\ DOMAIN byName = {} /\ byName \in [DOMAIN byName -> Sockets]
      BY DEF Init
    <2> QED BY <2>1, <2>2, <2>3, <2>4, SessionsAssumption DEF Init, TypeOK, Records
  <1>3. TasksOK
    BY <1>1, IdleIs DEF TasksOK
  <1>4. SessionsOK
    BY DEF Init, SessionsOK
  <1>5. QueueOK
    BY <1>1, IdleIs DEF Init, QueueOK, LoggingIn, LoginSteps
  <1> QED BY <1>2, <1>3, <1>4, <1>5 DEF Core

LEMMA NextCore == Core /\ [Next]_vars => Core'
  <1> SUFFICES ASSUME Core, [Next]_vars PROVE Core'
    OBVIOUS
  <1>1. ASSUME NEW s \in Sockets, Socket(s) PROVE Core'
    BY <1>1, SocketCore
  <1>2. ASSUME NEW k \in Tasks, NEW s \in Sockets, NEW name \in Names,
               BeginLogin(k, s, name) \/ BeginCreate(k, s, name)
        PROVE  Core'
    BY <1>2, BeginLoginCore, BeginCreateCore
  <1>3. ASSUME NEW k \in Tasks, LoginStep(k) PROVE Core'
    BY <1>3, WakeCore, FindCore, VerifyCore, KickCore, DropOldCore, AssignCore, InsertCore,
       StripCore DEF LoginStep
  <1>4. ASSUME NEW k \in Tasks, CreateStep(k) PROVE Core'
    BY <1>4, LookupCore, StoreCore, EnterCreatedCore, StripCreatedCore DEF CreateStep
  <1>5. CASE UNCHANGED vars
    <2>1. RestOK /\ MapsOK /\ TypeOK /\ TasksOK /\ QueueOK /\ queue \in Seq(Tasks)
      BY CoreParts DEF Core
    <2>2. TasksOK' /\ task' \in [Tasks -> Records]
      BY <1>5, <2>1, TasksSame DEF vars, store
    <2>3. QueueOK' /\ queue' \in Seq(Tasks)
      BY <1>5, <2>1, QueueSame DEF vars, gate, LoggingIn, At, QueueOK
    <2> QED BY <1>5, <2>1, <2>2, <2>3, RestSame, MapsSame, CorePartsNext DEF vars, gate
  <1> QED BY <1>1, <1>2, <1>3, <1>4, <1>5 DEF Next

\* Every variable holds a value of its type, whatever clients and tasks do.
THEOREM SessionsTyped == Spec => []TypeOK
  <1>1. Spec => []Core
    BY InitCore, NextCore, PTL DEF Spec
  <1>2. Core => TypeOK
    BY DEF Core
  <1> QED BY <1>1, <1>2, PTL
----------------------------------------------------------------------------
\* What a step makes of the record of its task, field by field.

Alone(k) == \A l \in Tasks : l # k => task'[l] = task[l]

Becomes(k, pc, number, old) ==
    /\ Alone(k)
    /\ task'[k].pc = pc
    /\ task'[k].socket = task[k].socket /\ task'[k].name = task[k].name
    /\ task'[k].number = number /\ task'[k].old = old

LEMMA GotoBecomes ==
    ASSUME TypeOK, NEW k \in Tasks, NEW pc, Goto(k, pc)
    PROVE  Becomes(k, pc, task[k].number, task[k].old)
  <1>1. DOMAIN task = Tasks /\ task[k] \in Records
    BY DEF TypeOK, Records
  <1> QED BY <1>1 DEF Goto, Becomes, Alone, Records

LEMMA EndsBecomes ==
    ASSUME TypeOK, NEW k \in Tasks, Ends(k)
    PROVE  Alone(k) /\ task'[k] = Idle
  BY DEF Ends, TypeOK, Alone

LEMMA BeginsBecomes ==
    ASSUME TypeOK, NEW k \in Tasks, NEW s \in Sockets, NEW name \in Names
    PROVE  /\ BeginLogin(k, s, name) =>
                /\ Alone(k) /\ task[k] = Idle /\ task'[k].pc = "queued"
                /\ task'[k].socket = s /\ task'[k].name = name /\ task'[k].number = 0
           /\ BeginCreate(k, s, name) =>
                /\ Alone(k) /\ task[k] = Idle /\ task'[k].pc = "lookup"
                /\ task'[k].socket = s /\ task'[k].name = name /\ task'[k].number = 0
  <1>1. ASSUME NEW pc \in Steps, task' = [task EXCEPT ![k] = Begun(pc, s, name)]
        PROVE  /\ Alone(k) /\ task'[k].pc = pc
               /\ task'[k].socket = s /\ task'[k].name = name /\ task'[k].number = 0
    <2>1. task'[k] = Begun(pc, s, name) /\ Alone(k)
      BY <1>1 DEF TypeOK, Alone
    <2> QED BY <2>1, BegunIs
  <1>2. "queued" \in Steps /\ "lookup" \in Steps
    BY DEF Steps, LoginSteps, CreateSteps
  <1>3. BeginLogin(k, s, name) => task[k] = Idle /\ task' = [task EXCEPT ![k] = Begun("queued", s, name)]
    BY DEF BeginLogin, Begun
  <1>4. BeginCreate(k, s, name) => task[k] = Idle /\ task' = [task EXCEPT ![k] = Begun("lookup", s, name)]
    BY DEF BeginCreate, Begun
  <1> QED BY <1>1, <1>2, <1>3, <1>4

LEMMA FindBecomes ==
    ASSUME Core, NEW k \in Tasks, Find(k), ~ Refuse(k)
    PROVE  /\ Becomes(k, "verify", Head(db[task[k].name]), task[k].old)
           /\ db[task[k].name] # <<>>
           /\ UNCHANGED <<net, gate, maps, store>>
  <1>1. DOMAIN task = Tasks /\ task[k] \in Records
    BY DEF Core, TypeOK, Records
  <1>2. PICK n : n = Head(db[task[k].name])
    OBVIOUS
  <1>3. /\ task' = [task EXCEPT ![k].pc = "verify", ![k].number = n]
        /\ db[task[k].name] # <<>> /\ UNCHANGED <<net, gate, maps, store>>
    BY <1>2 DEF Find
  <1> QED BY <1>1, <1>2, <1>3 DEF Becomes, Alone, Records

LEMMA VerifyBecomes ==
    ASSUME Core, NEW k \in Tasks, Verify(k), ~ Refuse(k)
    PROVE  /\ Becomes(k, IF FindDuplicateLogin(task[k].name) = NoSocket THEN "assign" ELSE "kick",
                      task[k].number, FindDuplicateLogin(task[k].name))
           /\ UNCHANGED <<net, gate, maps, store>>
  <1>1. DOMAIN task = Tasks /\ task[k] \in Records
    BY DEF Core, TypeOK, Records
  <1>2. PICK old : old = FindDuplicateLogin(task[k].name)
    OBVIOUS
  <1>3. PICK pc : pc = IF old = NoSocket THEN "assign" ELSE "kick"
    OBVIOUS
  <1>4. /\ task' = [task EXCEPT ![k].pc = pc, ![k].old = old]
        /\ UNCHANGED <<net, gate, maps, store>>
    BY <1>2, <1>3 DEF Verify
  <1>5. Becomes(k, pc, task[k].number, old)
    BY <1>1, <1>4 DEF Becomes, Alone, Records
  <1> QED BY <1>2, <1>3, <1>4, <1>5

LEMMA DropOldBecomes ==
    ASSUME Core, NEW k \in Tasks, DropOld(k)
    PROVE  /\ Becomes(k, "assign", task[k].number, NoSocket)
           /\ UNCHANGED <<entries, stripped, gate, maps, store>>
  <1>1. DOMAIN task = Tasks /\ task[k] \in Records
    BY DEF Core, TypeOK, Records
  <1> QED BY <1>1 DEF DropOld, Becomes, Alone, Records

LEMMA AssignBecomes ==
    ASSUME Core, NEW k \in Tasks, Assign(k)
    PROVE  /\ \/ /\ task[k].number # 0 /\ Becomes(k, "insert", task[k].number, task[k].old)
                 /\ UNCHANGED store
              \/ /\ task[k].number = 0 /\ Becomes(k, "insert", nextNumber, task[k].old)
                 /\ nextNumber' = nextNumber + 1
                 /\ db' = db \/ db' = [db EXCEPT ![task[k].name][1] = nextNumber]
           /\ UNCHANGED <<net, gate, maps>>
  <1>1. DOMAIN task = Tasks /\ task[k] \in Records
    BY DEF Core, TypeOK, Records
  <1>2. CASE task[k].number # 0
    BY <1>2, GotoBecomes DEF Assign, Core
  <1>3. CASE task[k].number = 0
    <2>1. Becomes(k, "insert", nextNumber, task[k].old)
      BY <1>1, <1>3 DEF Assign, Becomes, Alone, Records
    <2> QED BY <1>3, <2>1 DEF Assign, Allocate
  <1> QED BY <1>2, <1>3

LEMMA LookupBecomes ==
    ASSUME Core, NEW k \in Tasks, Lookup(k), ~ GiveUpCreation(k)
    PROVE  /\ Becomes(k, "store", nextNumber, task[k].old)
           /\ nextNumber' = nextNumber + 1
           /\ UNCHANGED <<net, gate, maps, db>>
  <1>1. DOMAIN task = Tasks /\ task[k] \in Records
    BY DEF Core, TypeOK, Records
  <1> QED BY <1>1 DEF Lookup, Allocate, Becomes, Alone, Records

----------------------------------------------------------------------------
\* The places in the queue that are counted, and those that are pending.

\* Nobody begins or ends waiting; one begins; one ends.
Quiet ==
    /\ \A l \in Tasks : Waiting(l)' <=> Waiting(l)
    /\ \A l \in Tasks : Waiting(l) => task'[l].socket = task[l].socket
    /\ queueLen' = queueLen
    /\ pending' \subseteq pending

Joins(k) ==
    /\ Alone(k) /\ ~ Waiting(k) /\ Waiting(k)'
    /\ queueLen' = queueLen + 1
    /\ pending' = pending \cup {task'[k].socket}

Leaves(k) ==
    /\ Alone(k) /\ Waiting(k) /\ ~ Waiting(k)'
    /\ queueLen' = OneLess(queueLen)
    /\ pending' = pending \ {task[k].socket}

LEMMA QuietIf ==
    ASSUME NEW k \in Tasks, Alone(k), Waiting(k)' <=> Waiting(k),
           Waiting(k) => task'[k].socket = task[k].socket,
           queueLen' = queueLen, pending' \subseteq pending
    PROVE  Quiet
  BY DEF Alone, Quiet, Waiting, LoggingIn, At

LEMMA RefuseLeaves ==
    ASSUME Core, NEW k \in Tasks, Waiting(k), Refuse(k)
    PROVE  Leaves(k)
  <1>1. Alone(k) /\ task'[k] = Idle
    BY EndsBecomes DEF Core, Refuse
  <1>2. ~ Waiting(k)'
    BY <1>1, IdleIs DEF Waiting, LoggingIn, LoginSteps
  <1> QED BY <1>1, <1>2 DEF Leaves, Refuse, FinishQueueSlot

LEMMA WaitingSteps ==
    ASSUME Core, NEW k \in Tasks, LoginStep(k)
    PROVE  Quiet \/ Leaves(k)
  <1>1. CASE Wake(k)
    <2>1. Waiting(k)
      BY <1>1 DEF Wake, Waiting, LoggingIn, At, LoginSteps
    <2>2. CASE Goto(k, "find") /\ UNCHANGED gate
      BY <2>1, <2>2, GotoBecomes, QuietIf DEF Becomes, Waiting, LoggingIn, At, LoginSteps, gate, Core
    <2> QED BY <1>1, <2>1, <2>2, RefuseLeaves DEF Wake, GiveUp
  <1>2. CASE Find(k)
    <2>1. Waiting(k)
      BY <1>2 DEF Find, Waiting, LoggingIn, At, LoginSteps
    <2>2. CASE ~ Refuse(k)
      <3>1. Alone(k) /\ task'[k].pc = "verify" /\ task'[k].socket = task[k].socket /\ UNCHANGED gate
        BY <1>2, <2>2, FindBecomes DEF Becomes
      <3> QED BY <2>1, <3>1, QuietIf DEF Waiting, LoggingIn, At, LoginSteps, gate
    <2> QED BY <2>1, <2>2, RefuseLeaves
  <1>3. CASE Verify(k)
    <2>1. Waiting(k)
      BY <1>3 DEF Verify, Waiting, LoggingIn, At, LoginSteps
    <2>2. CASE ~ Refuse(k)
      <3>1. /\ Alone(k) /\ task'[k].pc \in {"assign", "kick"}
            /\ task'[k].socket = task[k].socket /\ UNCHANGED gate
        BY <1>3, <2>2, VerifyBecomes DEF Becomes
      <3> QED BY <2>1, <3>1, QuietIf DEF Waiting, LoggingIn, At, LoginSteps, gate
    <2> QED BY <2>1, <2>2, RefuseLeaves
  <1>4. CASE Kick(k)
    <2>1. Alone(k) /\ task'[k].pc = "drop" /\ task'[k].socket = task[k].socket
      BY <1>4, GotoBecomes DEF Kick, Becomes, Core
    <2>2. Waiting(k) /\ pending' \subseteq pending /\ queueLen' = queueLen
      BY <1>4 DEF Kick, RemoveAccount, Waiting, LoggingIn, At, LoginSteps
    <2> QED BY <2>1, <2>2, QuietIf DEF Waiting, LoggingIn, At, LoginSteps
  <1>5. CASE DropOld(k)
    <2>1. /\ Alone(k) /\ task'[k].pc = "assign" /\ task'[k].socket = task[k].socket
          /\ UNCHANGED gate
      BY <1>5, DropOldBecomes DEF Becomes
    <2>2. Waiting(k)
      BY <1>5 DEF DropOld, Waiting, LoggingIn, At, LoginSteps
    <2> QED BY <2>1, <2>2, QuietIf DEF Waiting, LoggingIn, At, LoginSteps, gate
  <1>6. CASE Assign(k)
    <2>1. /\ Alone(k) /\ task'[k].pc = "insert" /\ task'[k].socket = task[k].socket
          /\ UNCHANGED gate
      BY <1>6, AssignBecomes DEF Becomes
    <2>2. Waiting(k)
      BY <1>6 DEF Assign, Waiting, LoggingIn, At, LoginSteps
    <2> QED BY <2>1, <2>2, QuietIf DEF Waiting, LoggingIn, At, LoginSteps, gate
  <1>7. CASE Insert(k)
    <2>1. Alone(k) /\ task'[k].pc = "strip"
      BY <1>7, GotoBecomes DEF Insert, Becomes, Core
    <2>2. Waiting(k) /\ ~ Waiting(k)'
      BY <1>7, <2>1 DEF Insert, Waiting, LoggingIn, At, LoginSteps
    <2> QED BY <1>7, <2>1, <2>2 DEF Insert, Leaves, FinishQueueSlot
  <1>8. CASE Strip(k)
    <2>1. Alone(k) /\ task'[k] = Idle
      BY <1>8, EndsBecomes DEF Strip, Core
    <2>2. ~ Waiting(k) /\ ~ Waiting(k)'
      BY <1>8, <2>1, IdleIs DEF Strip, Waiting, LoggingIn, At, LoginSteps
    <2> QED BY <1>8, <2>1, <2>2, QuietIf DEF Strip
  <1> QED BY <1>1, <1>2, <1>3, <1>4, <1>5, <1>6, <1>7, <1>8 DEF LoginStep

LEMMA CreatingSteps ==
    ASSUME Core, NEW k \in Tasks, CreateStep(k)
    PROVE  /\ Alone(k) /\ UNCHANGED gate
           /\ task[k].pc \in CreateSteps
           /\ task'[k].pc \in CreateSteps \cup {"idle"}
  <1>0. task[k].pc \in CreateSteps
    BY DEF CreateStep, Lookup, Store, EnterCreated, StripCreated, At, CreateSteps
  <1>1. CASE Ends(k) /\ UNCHANGED gate
    BY <1>0, <1>1, EndsBecomes, IdleIs DEF Core
  <1>2. CASE Lookup(k) /\ ~ GiveUpCreation(k)
    BY <1>0, <1>2, LookupBecomes DEF Becomes, CreateSteps
  <1>3. CASE Goto(k, "enter") /\ UNCHANGED gate
    BY <1>0, <1>3, GotoBecomes DEF Becomes, CreateSteps, Core
  <1>4. CASE Goto(k, "open") /\ UNCHANGED gate
    BY <1>0, <1>4, GotoBecomes DEF Becomes, CreateSteps, Core
  <1> QED BY <1>1, <1>2, <1>3, <1>4
          DEF CreateStep, Lookup, Store, EnterCreated, StripCreated, GiveUpCreation
LEMMA CreatingQuiet ==
    ASSUME Core, NEW k \in Tasks, CreateStep(k)
    PROVE  Quiet
  <1>1. /\ Alone(k) /\ UNCHANGED gate /\ task[k].pc \in CreateSteps
        /\ task'[k].pc \in CreateSteps \cup {"idle"}
    BY CreatingSteps
  <1>2. ~ Waiting(k) /\ ~ Waiting(k)'
    BY <1>1 DEF Waiting, LoggingIn, LoginSteps, CreateSteps
  <1> QED BY <1>1, <1>2, QuietIf DEF gate

LEMMA BeginningSteps ==
    ASSUME Core, NEW k \in Tasks, NEW s \in Sockets, NEW name \in Names
    PROVE  /\ BeginLogin(k, s, name) => Joins(k)
           /\ BeginCreate(k, s, name) => Quiet
  <1>1. ASSUME BeginLogin(k, s, name)
        PROVE  Joins(k)
    <2>1. Alone(k) /\ task[k] = Idle /\ task'[k].pc = "queued" /\ task'[k].socket = s
      BY <1>1, BeginsBecomes DEF Core
    <2>2. ~ Waiting(k) /\ Waiting(k)'
      BY <2>1, IdleIs DEF Waiting, LoggingIn, At, LoginSteps
    <2> QED BY <1>1, <2>1, <2>2 DEF Joins, BeginLogin
  <1>2. ASSUME BeginCreate(k, s, name)
        PROVE  Quiet
    <2>2. Alone(k) /\ task[k] = Idle /\ task'[k].pc = "lookup"
      BY <1>2, BeginsBecomes DEF Core
    <2>3. ~ Waiting(k) /\ ~ Waiting(k)'
      BY <2>2, IdleIs DEF Waiting, LoggingIn, At, LoginSteps
    <2> QED BY <1>2, <2>2, <2>3, QuietIf DEF BeginCreate, gate
  <1> QED BY <1>1, <1>2

LEMMA SocketQuiet ==
    ASSUME Core, NEW s \in Sockets, Socket(s)
    PROVE  Quiet
  <1>1. UNCHANGED <<task, queueLen>> /\ pending' \subseteq pending
    BY DEF Socket, Connect, RefuseConnection, Close, Cleanup, AccountDisconnect, RemoveAccount, gate
  <1> QED BY <1>1 DEF Quiet, Waiting, LoggingIn, At

\* Every step is of one of the three kinds.
LEMMA GateMoves ==
    ASSUME Core, [Next]_vars
    PROVE  Quiet \/ \E k \in Tasks : Joins(k) \/ Leaves(k)
  <1>1. CASE UNCHANGED vars
    BY <1>1 DEF vars, gate, Quiet, Waiting, LoggingIn, At
  <1> QED BY <1>1, SocketQuiet, BeginningSteps, WaitingSteps, CreatingQuiet DEF Next

LEMMA WaitersStep ==
    ASSUME Core, WaitersOK, [Next]_vars
    PROVE  WaitersOK'
  <1>1. CASE Quiet
    <2>1. WaitingTasks' = WaitingTasks
      BY <1>1 DEF Quiet, WaitingTasks
    <2> QED BY <1>1, <2>1 DEF WaitersOK, Quiet
  <1>2. ASSUME NEW k \in Tasks, Joins(k)
        PROVE  WaitersOK'
    <2>1. \A l \in Tasks : l # k => (Waiting(l)' <=> Waiting(l))
      BY <1>2 DEF Joins, Alone, Waiting, LoggingIn, At
    <2>2. WaitingTasks' = WaitingTasks \cup {k} /\ k \notin WaitingTasks
      BY <1>2, <2>1 DEF Joins, WaitingTasks
    <2>3. /\ IsFiniteSet(WaitingTasks \cup {k})
          /\ Cardinality(WaitingTasks \cup {k}) = Cardinality(WaitingTasks) + 1
      BY <2>2, FS_AddElement DEF WaitersOK
    <2> QED BY <1>2, <2>2, <2>3 DEF WaitersOK, Joins
  <1>3. ASSUME NEW k \in Tasks, Leaves(k)
        PROVE  WaitersOK'
    <2>1. \A l \in Tasks : l # k => (Waiting(l)' <=> Waiting(l))
      BY <1>3 DEF Leaves, Alone, Waiting, LoggingIn, At
    <2>2. WaitingTasks' = WaitingTasks \ {k} /\ k \in WaitingTasks
      BY <1>3, <2>1 DEF Leaves, WaitingTasks
    <2>3. /\ IsFiniteSet(WaitingTasks \ {k})
          /\ Cardinality(WaitingTasks \ {k}) = Cardinality(WaitingTasks) - 1
      BY <2>2, FS_RemoveElement DEF WaitersOK
    <2>4. Cardinality(WaitingTasks) \in Nat /\ Cardinality(WaitingTasks \ {k}) \in Nat
      BY <2>3, FS_CardinalityType DEF WaitersOK
    <2>5. OneLess(queueLen) = queueLen - 1
      BY <2>3, <2>4 DEF WaitersOK, OneLess
    <2> QED BY <1>3, <2>2, <2>3, <2>5 DEF WaitersOK, Leaves
  <1> QED BY <1>1, <1>2, <1>3, GateMoves

LEMMA PendingStep ==
    ASSUME Core, PendingIsRunning, [Next]_vars
    PROVE  PendingIsRunning'
  <1> SUFFICES ASSUME NEW s \in pending'
               PROVE  \E l \in Tasks : Waiting(l)' /\ task'[l].socket = s
    BY DEF PendingIsRunning
  <1>1. CASE Quiet
    <2>1. PICK l \in Tasks : Waiting(l) /\ task[l].socket = s
      BY <1>1 DEF Quiet, PendingIsRunning
    <2> QED BY <1>1, <2>1 DEF Quiet
  <1>2. ASSUME NEW k \in Tasks, Joins(k)
        PROVE  \E l \in Tasks : Waiting(l)' /\ task'[l].socket = s
    <2>1. CASE s = task'[k].socket
      BY <1>2, <2>1 DEF Joins
    <2>2. CASE s # task'[k].socket
      <3>1. PICK l \in Tasks : Waiting(l) /\ task[l].socket = s
        BY <1>2, <2>2 DEF Joins, PendingIsRunning
      <3>2. l # k /\ task'[l] = task[l]
        BY <1>2, <3>1 DEF Joins, Alone
      <3> QED BY <3>1, <3>2 DEF Waiting, LoggingIn, At
    <2> QED BY <2>1, <2>2
  <1>3. ASSUME NEW k \in Tasks, Leaves(k)
        PROVE  \E l \in Tasks : Waiting(l)' /\ task'[l].socket = s
    <2>1. PICK l \in Tasks : Waiting(l) /\ task[l].socket = s
      BY <1>3 DEF Leaves, PendingIsRunning
    <2>2. l # k /\ task'[l] = task[l]
      BY <1>3, <2>1 DEF Leaves, Alone
    <2> QED BY <2>1, <2>2 DEF Waiting, LoggingIn, At
  <1> QED BY <1>1, <1>2, <1>3, GateMoves

\* login_queue_len counts the logins that wait: no path forgets its slot.
THEOREM QueueIsCounted == Spec => []QueueLengthIsExact
  <1>1. Init => Core /\ WaitersOK
    <2> SUFFICES ASSUME Init PROVE WaitersOK
      BY InitCore
    <2>1. WaitingTasks = {}
      BY IdleIs DEF Init, WaitingTasks, Waiting, LoggingIn, LoginSteps
    <2> QED BY <2>1, FS_EmptySet DEF Init, WaitersOK
  <1>2. Core /\ WaitersOK /\ [Next]_vars => Core' /\ WaitersOK'
    BY NextCore, WaitersStep
  <1>3. WaitersOK => QueueLengthIsExact
    BY DEF WaitersOK, QueueLengthIsExact, WaitingTasks
  <1> QED BY <1>1, <1>2, <1>3, PTL DEF Spec

\* A socket is never shut out of logging in by an entry that nobody takes out.
THEOREM PendingIsServed == Spec => []PendingIsRunning
  <1>1. Init => Core /\ PendingIsRunning
    BY InitCore DEF Init, PendingIsRunning
  <1>2. Core /\ PendingIsRunning /\ [Next]_vars => Core' /\ PendingIsRunning'
    BY NextCore, PendingStep
  <1> QED BY <1>1, <1>2, PTL DEF Spec
----------------------------------------------------------------------------
\* The entries of the address.

\* The sockets that count stay, and no entry is added.
SameSockets == OpenSockets' = OpenSockets /\ (entries' = entries \/ entries' = OneLess(entries))

LEMMA TaskSockets ==
    ASSUME Core, NEW k \in Tasks, LoginStep(k) \/ CreateStep(k)
    PROVE  SameSockets
  <1>1. CASE DropOld(k)
    <2>1. transport \in [Sockets -> {"new", "open", "closed", "gone"}] /\ UNCHANGED entries
      BY <1>1 DEF Core, TypeOK, DropOld
    <2>2. \A s \in Sockets : transport'[s] \in {"open", "closed"} <=> transport[s] \in {"open", "closed"}
      BY <1>1, <2>1 DEF DropOld, Connected
    <2> QED BY <2>1, <2>2 DEF SameSockets, OpenSockets
  <1>2. CASE UNCHANGED <<transport, entries>>
    BY <1>2 DEF SameSockets, OpenSockets
  <1> QED BY <1>1, <1>2
          DEF LoginStep, CreateStep, Wake, Find, Verify, Kick, Assign, Insert, Strip, GiveUp, Refuse,
              Lookup, Store, EnterCreated, StripCreated, GiveUpCreation, net

LEMMA EntriesStep ==
    ASSUME Core, EntriesOK, [Next]_vars
    PROVE  EntriesOK'
  <1>0. entries \in Nat /\ Cardinality(OpenSockets) \in Nat
    BY FS_CardinalityType DEF Core, TypeOK, EntriesOK
  <1>1. CASE SameSockets
    BY <1>0, <1>1 DEF SameSockets, EntriesOK, OneLess
  <1>2. ASSUME NEW s \in Sockets, Socket(s)
        PROVE  EntriesOK'
    <2>0. transport \in [Sockets -> {"new", "open", "closed", "gone"}]
      BY DEF Core, TypeOK
    <2>1. CASE Connect(s)
      <3>1. OpenSockets' = OpenSockets \cup {s} /\ s \notin OpenSockets
        BY <2>0, <2>1 DEF OpenSockets, Connect
      <3>2. /\ IsFiniteSet(OpenSockets \cup {s})
            /\ Cardinality(OpenSockets \cup {s}) = Cardinality(OpenSockets) + 1
        BY <3>1, FS_AddElement DEF EntriesOK
      <3> QED BY <1>0, <2>1, <3>1, <3>2 DEF EntriesOK, Connect
    <2>2. CASE Cleanup(s)
      <3>1. OpenSockets' = OpenSockets \ {s} /\ s \in OpenSockets
        BY <2>0, <2>2 DEF OpenSockets, Cleanup
      <3>2. /\ IsFiniteSet(OpenSockets \ {s})
            /\ Cardinality(OpenSockets \ {s}) = Cardinality(OpenSockets) - 1
        BY <3>1, FS_RemoveElement DEF EntriesOK
      <3>3. Cardinality(OpenSockets \ {s}) \in Nat
        BY <3>2, FS_CardinalityType
      <3>4. entries' = OneLess(entries)
        BY <2>2 DEF Cleanup
      <3> QED BY <1>0, <3>1, <3>2, <3>3, <3>4 DEF EntriesOK, OneLess
    <2>3. CASE RefuseConnection(s) \/ Close(s) \/ AccountDisconnect(s)
      <3>1. OpenSockets' = OpenSockets
        BY <2>0, <2>3 DEF OpenSockets, RefuseConnection, Close, AccountDisconnect
      <3> QED BY <1>1, <2>3, <3>1 DEF SameSockets, RefuseConnection, Close, AccountDisconnect
    <2> QED BY <1>2, <2>1, <2>2, <2>3 DEF Socket
  <1>3. CASE UNCHANGED vars
    BY <1>1, <1>3 DEF vars, net, SameSockets, OpenSockets
  <1>4. ASSUME NEW k \in Tasks, NEW s \in Sockets, NEW name \in Names,
               BeginLogin(k, s, name) \/ BeginCreate(k, s, name)
        PROVE  EntriesOK'
    BY <1>1, <1>4 DEF BeginLogin, BeginCreate, net, SameSockets, OpenSockets
  <1>5. ASSUME NEW k \in Tasks, LoginStep(k) \/ CreateStep(k)
        PROVE  EntriesOK'
    BY <1>1, <1>5, TaskSockets
  <1> QED BY <1>2, <1>3, <1>4, <1>5 DEF Next

\* An address is never shut out by connections that are gone.
THEOREM EntriesAreOfConnections == Spec => []EntriesAreConnections
  <1>1. Init => Core /\ EntriesOK
    <2> SUFFICES ASSUME Init PROVE EntriesOK
      BY InitCore
    <2>1. OpenSockets = {}
      BY DEF Init, OpenSockets
    <2> QED BY <2>1, FS_EmptySet DEF Init, EntriesOK
  <1>2. Core /\ EntriesOK /\ [Next]_vars => Core' /\ EntriesOK'
    BY NextCore, EntriesStep
  <1>3. EntriesOK => EntriesAreConnections
    BY DEF EntriesOK, EntriesAreConnections, OpenSockets
  <1> QED BY <1>1, <1>2, <1>3, PTL DEF Spec

----------------------------------------------------------------------------
\* Who uses a member number.

LEMMA OwnersKept ==
    ASSUME Core, OwnersOK, nextNumber' = nextNumber,
           \A n \in Nat \ {0}, a \in Names : Uses(n, a)' => Uses(n, a)
    PROVE  OwnersOK'
  BY DEF OwnersOK

\* A number is allocated for the account a.
LEMMA OwnersGrow ==
    ASSUME Core, OwnersOK, NEW c \in Names, nextNumber' = nextNumber + 1,
           \A n \in Nat \ {0}, a \in Names :
               Uses(n, a)' => Uses(n, a) \/ (n = nextNumber /\ a = c)
    PROVE  OwnersOK'
  <1>1. nextNumber \in Nat \ {0}
    BY DEF Core, TypeOK
  <1>2. \A n \in Nat \ {0}, a \in Names : Uses(n, a) => n < nextNumber
    BY DEF OwnersOK
  <1>3. \A n \in Nat \ {0}, a \in Names : Uses(n, a)' => n < nextNumber'
    BY <1>1, <1>2
  <1>4. \A n \in Nat \ {0}, a, b \in Names : Uses(n, a)' /\ Uses(n, b)' => a = b
    <2> SUFFICES ASSUME NEW n \in Nat \ {0}, NEW a \in Names, NEW b \in Names,
                        Uses(n, a)', Uses(n, b)'
                 PROVE  a = b
      OBVIOUS
    <2>1. CASE n = nextNumber
      <3>1. ~ Uses(n, a) /\ ~ Uses(n, b)
        BY <1>1, <1>2, <2>1
      <3> QED BY <3>1
    <2>2. CASE n # nextNumber
      BY <2>2 DEF OwnersOK
    <2> QED BY <2>1, <2>2
  <1> QED BY <1>3, <1>4 DEF OwnersOK
LEMMA RowsUnchanged ==
    ASSUME UNCHANGED db
    PROVE  \A n, a : RowUses(n, a)' => RowUses(n, a)
  BY DEF RowUses

LEMMA SessionsUnchanged ==
    ASSUME UNCHANGED session
    PROVE  \A n, a : SessionUses(n, a)' => SessionUses(n, a)
  BY DEF SessionUses

LEMMA SessionsFewer ==
    ASSUME Core, NEW s \in Sockets, RemoveAccount(s)
    PROVE  \A n \in Nat \ {0} : \A a : SessionUses(n, a)' => SessionUses(n, a)
  <1>1. CASE UNCHANGED session
    BY <1>1, SessionsUnchanged
  <1>2. CASE session' = [session EXCEPT ![s] = NoSession]
    <2>1. \A t \in Sockets : session'[t] = session[t] \/ session'[t] = NoSession
      BY <1>2 DEF Core, TypeOK
    <2>2. NoSession.number = 0
      BY DEF NoSession
    <2>3. \A t \in Sockets : session'[t].number # 0 => session'[t] = session[t]
      BY <2>1, <2>2
    <2> QED BY <2>3 DEF SessionUses
  <1> QED BY <1>1, <1>2 DEF RemoveAccount, maps

LEMMA SessionsInsert ==
    ASSUME Core, NEW s \in Sockets, NEW name, NEW number, InsertAccount(s, name, number)
    PROVE  \A n, a : SessionUses(n, a)' => SessionUses(n, a) \/ (n = number /\ a = name)
  BY DEF SessionUses, InsertAccount, Core, TypeOK

LEMMA TaskUsesBecome ==
    ASSUME NEW k \in Tasks, NEW pc, NEW number, NEW old, Becomes(k, pc, number, old)
    PROVE  \A n, a : TaskUses(n, a)' => TaskUses(n, a) \/ (n = number /\ a = task[k].name)
  BY DEF TaskUses, Becomes, Alone

LEMMA TaskUsesGone ==
    ASSUME NEW k \in Tasks, Alone(k), task'[k].number = 0
    PROVE  \A n \in Nat \ {0} : \A a : TaskUses(n, a)' => TaskUses(n, a)
  BY DEF TaskUses, Alone

\* The number of a task is used for its name.
LEMMA OwnNumber ==
    ASSUME Core, NEW k \in Tasks
    PROVE  /\ TaskUses(task[k].number, task[k].name)
           /\ task[k].number # 0 => task[k].number \in Nat \ {0} /\ task[k].name \in Names
  <1>1. task[k].number \in Nat
    BY DEF Core, TypeOK
  <1>2. task[k].number # 0 => task[k].name \in Names
    BY IdleIs DEF Core, TasksOK
  <1> QED BY <1>1, <1>2 DEF TaskUses

LEMMA NumberBelow ==
    ASSUME Core, OwnersOK
    PROVE  /\ \A k \in Tasks : task[k].number # nextNumber
           /\ \A a \in Names : \A i \in DOMAIN db[a] : db[a][i] # nextNumber
  <1>1. nextNumber \in Nat \ {0}
    BY DEF Core, TypeOK
  <1>2. ASSUME NEW k \in Tasks, task[k].number = nextNumber PROVE FALSE
    <2>1. Uses(nextNumber, task[k].name) /\ task[k].name \in Names
      BY <1>1, <1>2, OwnNumber DEF Uses
    <2>2. nextNumber < nextNumber
      BY <1>1, <2>1 DEF OwnersOK
    <2> QED BY <1>1, <2>2
  <1>3. ASSUME NEW a \in Names, NEW i \in DOMAIN db[a], db[a][i] = nextNumber PROVE FALSE
    <2>1. Uses(nextNumber, a)
      BY <1>3 DEF Uses, RowUses
    <2>2. nextNumber < nextNumber
      BY <1>1, <2>1 DEF OwnersOK
    <2> QED BY <1>1, <2>2
  <1> QED BY <1>2, <1>3

LEMMA FreshKept ==
    ASSUME Core, FreshOK, UNCHANGED db,
           \A l \in Tasks : At(l, "store")' => At(l, "store") /\ task'[l].number = task[l].number,
           \A l \in Tasks : \/ task'[l].number = task[l].number
                            \/ task'[l].number = 0
                            \/ \E a \in Names : RowUses(task'[l].number, a)
    PROVE  FreshOK'
  <1> SUFFICES ASSUME NEW k \in Tasks, At(k, "store")'
               PROVE  /\ \A a \in Names : \A i \in DOMAIN db'[a] : db'[a][i] # task'[k].number
                      /\ \A l \in Tasks : l # k => task'[l].number # task'[k].number
    BY DEF FreshOK
  <1>1. At(k, "store") /\ task'[k].number = task[k].number
    OBVIOUS
  <1>2. task[k].number # 0
    BY <1>1 DEF Core, TasksOK, At
  <1>3. \A a \in Names : ~ RowUses(task[k].number, a)
    BY <1>1 DEF FreshOK, RowUses
  <1>4. \A l \in Tasks : l # k => task'[l].number # task'[k].number
    BY <1>1, <1>2, <1>3 DEF FreshOK
  <1> QED BY <1>1, <1>4 DEF FreshOK

\* No number is allocated and no row changes.
LEMMA NumbersKept ==
    ASSUME Core, Numbers, UNCHANGED store,
           \A n \in Nat \ {0}, a \in Names : SessionUses(n, a)' => Uses(n, a),
           \A n \in Nat \ {0}, a \in Names : TaskUses(n, a)' => Uses(n, a),
           \A l \in Tasks : At(l, "store")' => At(l, "store") /\ task'[l].number = task[l].number,
           \A l \in Tasks : \/ task'[l].number = task[l].number
                            \/ task'[l].number = 0
                            \/ \E a \in Names : RowUses(task'[l].number, a)
    PROVE  Numbers'
  <1>1. UNCHANGED <<db, nextNumber>>
    BY DEF store
  <1>2. \A n \in Nat \ {0}, a \in Names : Uses(n, a)' => Uses(n, a)
    BY <1>1, RowsUnchanged DEF Uses
  <1>3. OwnersOK'
    BY <1>1, <1>2, OwnersKept DEF Numbers
  <1>4. FreshOK'
    BY <1>1, FreshKept DEF Numbers
  <1>5. RowsOK'
    BY <1>1 DEF Numbers, RowsOK
  <1> QED BY <1>3, <1>4, <1>5 DEF Numbers

\* A task that goes on with its number, and one that has none any more.
LEMMA NumbersGoOn ==
    ASSUME Core, Numbers, UNCHANGED store, NEW k \in Tasks,
           \A n \in Nat \ {0}, a \in Names : SessionUses(n, a)' => Uses(n, a),
           NEW pc, NEW old, Becomes(k, pc, task[k].number, old), pc # "store"
    PROVE  Numbers'
  <1>1. \A n \in Nat \ {0}, a \in Names : TaskUses(n, a)' => Uses(n, a)
    BY TaskUsesBecome, OwnNumber DEF Uses
  <1>2. \A l \in Tasks : At(l, "store")' => At(l, "store") /\ task'[l].number = task[l].number
    BY DEF Becomes, Alone, At
  <1>3. \A l \in Tasks : task'[l].number = task[l].number
    BY DEF Becomes, Alone
  <1> QED BY <1>1, <1>2, <1>3, NumbersKept

LEMMA NumbersDropped ==
    ASSUME Core, Numbers, UNCHANGED store, UNCHANGED session, NEW k \in Tasks,
           Alone(k), task'[k].number = 0, task'[k].pc # "store"
    PROVE  Numbers'
  <1>1. \A n \in Nat \ {0}, a \in Names : TaskUses(n, a)' => Uses(n, a)
    BY TaskUsesGone DEF Uses
  <1>2. \A n \in Nat \ {0}, a \in Names : SessionUses(n, a)' => Uses(n, a)
    BY SessionsUnchanged DEF Uses
  <1>3. \A l \in Tasks : At(l, "store")' => At(l, "store") /\ task'[l].number = task[l].number
    BY DEF Alone, At
  <1>4. \A l \in Tasks : task'[l].number = task[l].number \/ task'[l].number = 0
    BY DEF Alone
  <1> QED BY <1>1, <1>2, <1>3, <1>4, NumbersKept
LEMMA FindNumbers ==
    ASSUME Core, Numbers, NEW k \in Tasks, Find(k), ~ Refuse(k)
    PROVE  Numbers'
  <1>0. task[k].name \in Names /\ TypeOK
    BY TaskIs DEF Find, At, Steps, LoginSteps
  <1> DEFINE n0 == Head(db[task[k].name])
  <1>1. /\ Becomes(k, "verify", n0, task[k].old) /\ db[task[k].name] # <<>>
        /\ UNCHANGED <<net, gate, maps, store>>
    BY FindBecomes
  <1>2. RowUses(n0, task[k].name)
    <2>1. db[task[k].name] \in Seq(Nat)
      BY <1>0 DEF TypeOK
    <2>2. 1 \in DOMAIN db[task[k].name] /\ n0 = db[task[k].name][1]
      BY <1>1, <2>1
    <2> QED BY <2>2 DEF RowUses
  <1> HIDE DEF n0
  <1>3. \A n \in Nat \ {0}, a \in Names : TaskUses(n, a)' => Uses(n, a)
    BY <1>1, <1>2, TaskUsesBecome DEF Uses
  <1>4. \A n \in Nat \ {0}, a \in Names : SessionUses(n, a)' => Uses(n, a)
    BY <1>1, SessionsUnchanged DEF Uses, maps
  <1>5. \A l \in Tasks : At(l, "store")' => At(l, "store") /\ task'[l].number = task[l].number
    BY <1>1 DEF Becomes, Alone, At
  <1>6. \A l \in Tasks : \/ task'[l].number = task[l].number
                         \/ \E a \in Names : RowUses(task'[l].number, a)
    BY <1>0, <1>1, <1>2 DEF Becomes, Alone
  <1> QED BY <1>1, <1>3, <1>4, <1>5, <1>6, NumbersKept

\* A row gets a number that no row, and no creation that is under way, has.
LEMMA RowWritten ==
    ASSUME Core, Numbers, NEW a \in Names, NEW i \in Nat \ {0}, NEW n \in Nat \ {0},
           db' \in [Names -> Seq(Nat)],
           \A b \in Names : b # a => db'[b] = db[b],
           \A j \in DOMAIN db'[a] : j # i => j \in DOMAIN db[a] /\ db'[a][j] = db[a][j],
           i \in DOMAIN db'[a] => db'[a][i] = n,
           \A b \in Names : \A j \in DOMAIN db[b] : db[b][j] # n
    PROVE  /\ RowsOK'
           /\ \A m : \A b \in Names : RowUses(m, b)' => RowUses(m, b) \/ (m = n /\ b = a)
  <1>1. RowsOK'
    <2> SUFFICES ASSUME NEW b \in Names, NEW x \in DOMAIN db'[b], NEW y \in DOMAIN db'[b],
                        db'[b][x] # 0, db'[b][x] = db'[b][y]
                 PROVE  x = y
      BY DEF RowsOK
    <2>1. CASE b # a
      BY <2>1 DEF Numbers, RowsOK
    <2>2. CASE b = a
      BY <2>2 DEF Numbers, RowsOK
    <2> QED BY <2>1, <2>2
  <1>2. ASSUME NEW m, NEW b \in Names, RowUses(m, b)'
        PROVE  RowUses(m, b) \/ (m = n /\ b = a)
    <2>1. PICK j \in DOMAIN db'[b] : db'[b][j] = m
      BY <1>2 DEF RowUses
    <2> QED BY <2>1 DEF RowUses
  <1> QED BY <1>1, <1>2

LEMMA AssignNumbers ==
    ASSUME Core, Numbers, NEW k \in Tasks, Assign(k), Core'
    PROVE  Numbers'
  <1>0. task[k].name \in Names /\ TypeOK
    BY TaskIs DEF Assign, At, Steps, LoginSteps
  <1>1. CASE /\ task[k].number # 0 /\ Becomes(k, "insert", task[k].number, task[k].old)
             /\ UNCHANGED store
    <2>1. \A n \in Nat \ {0}, a \in Names : SessionUses(n, a)' => Uses(n, a)
      BY AssignBecomes, SessionsUnchanged DEF maps, Uses
    <2> QED BY <1>1, <2>1, NumbersGoOn
  <1>2. CASE /\ task[k].number = 0 /\ Becomes(k, "insert", nextNumber, task[k].old)
             /\ nextNumber' = nextNumber + 1
             /\ db' = db \/ db' = [db EXCEPT ![task[k].name][1] = nextNumber]
    <2>0. nextNumber \in Nat \ {0} /\ db \in [Names -> Seq(Nat)] /\ db' \in [Names -> Seq(Nat)]
      BY DEF Core, TypeOK
    <2>1. /\ \A l \in Tasks : task[l].number # nextNumber
          /\ \A b \in Names : \A j \in DOMAIN db[b] : db[b][j] # nextNumber
      BY NumberBelow DEF Numbers
    <2>2. /\ \A b \in Names : b # task[k].name => db'[b] = db[b]
          /\ \A j \in DOMAIN db'[task[k].name] : j # 1 =>
                j \in DOMAIN db[task[k].name] /\ db'[task[k].name][j] = db[task[k].name][j]
      BY <1>0, <1>2, <2>0
    <2>3. /\ RowsOK' \/ db' = db
          /\ \A m : \A b \in Names : RowUses(m, b)' => RowUses(m, b) \/ (m = nextNumber /\ b = task[k].name)
      <3>1. CASE db' = db
        BY <3>1 DEF RowUses
      <3>2. CASE db' = [db EXCEPT ![task[k].name][1] = nextNumber]
        <4>1. PICK a \in Names : a = task[k].name
          BY <1>0
        <4>2. PICK n \in Nat \ {0} : n = nextNumber
          BY <2>0
        <4>3. 1 \in DOMAIN db'[a] => db'[a][1] = n
          BY <2>0, <3>2, <4>1, <4>2
        <4>4. /\ \A b \in Names : b # a => db'[b] = db[b]
              /\ \A j \in DOMAIN db'[a] : j # 1 => j \in DOMAIN db[a] /\ db'[a][j] = db[a][j]
              /\ \A b \in Names : \A j \in DOMAIN db[b] : db[b][j] # n
          BY <2>1, <2>2, <4>1, <4>2
        <4>5. 1 \in Nat \ {0}
          OBVIOUS
        <4>6. /\ RowsOK'
              /\ \A m : \A b \in Names : RowUses(m, b)' => RowUses(m, b) \/ (m = n /\ b = a)
          BY <2>0, <4>3, <4>4, <4>5, RowWritten
        <4> QED BY <4>1, <4>2, <4>6
      <3> QED BY <1>2, <3>1, <3>2
    <2>4. RowsOK'
      BY <2>3 DEF Numbers, RowsOK
    <2>5. \A n \in Nat \ {0}, a \in Names :
               Uses(n, a)' => Uses(n, a) \/ (n = nextNumber /\ a = task[k].name)
      <3>1. \A n, a : SessionUses(n, a)' => SessionUses(n, a)
        BY AssignBecomes, SessionsUnchanged DEF maps
      <3>2. \A n, a : TaskUses(n, a)' => TaskUses(n, a) \/ (n = nextNumber /\ a = task[k].name)
        BY <1>2, TaskUsesBecome
      <3> QED BY <2>3, <3>1, <3>2 DEF Uses
    <2>6. OwnersOK'
      BY <1>0, <1>2, <2>5, OwnersGrow DEF Numbers
    <2>7. FreshOK'
      <3> SUFFICES ASSUME NEW l \in Tasks, At(l, "store")'
                   PROVE  /\ \A b \in Names : \A j \in DOMAIN db'[b] : db'[b][j] # task'[l].number
                          /\ \A m \in Tasks : m # l => task'[m].number # task'[l].number
        BY DEF FreshOK
      <3>1. l # k /\ task'[l] = task[l] /\ At(l, "store")
        BY <1>2 DEF Becomes, Alone, At
      <3>2. \A b \in Names : ~ RowUses(task[l].number, b)
        BY <3>1 DEF Numbers, FreshOK, RowUses
      <3>3. PICK x : x = task[l].number
        OBVIOUS
      <3>4. \A b \in Names : ~ RowUses(x, b)'
        BY <2>1, <2>3, <3>2, <3>3
      <3>4a. \A b \in Names : \A j \in DOMAIN db'[b] : db'[b][j] # task[l].number
        BY <3>3, <3>4 DEF RowUses
      <3>5. \A m \in Tasks : m # l => task'[m].number # task[l].number
        BY <1>2, <2>1, <3>1 DEF Becomes, Alone, Numbers, FreshOK
      <3> QED BY <3>1, <3>4a, <3>5
    <2> QED BY <2>4, <2>6, <2>7 DEF Numbers
  <1> QED BY <1>1, <1>2, AssignBecomes

LEMMA LookupNumbers ==
    ASSUME Core, Numbers, NEW k \in Tasks, Lookup(k), ~ GiveUpCreation(k)
    PROVE  Numbers'
  <1>0. task[k].name \in Names
    BY CreatorIs DEF Lookup, At, CreateSteps
  <1>1. /\ Becomes(k, "store", nextNumber, task[k].old)
        /\ nextNumber' = nextNumber + 1
        /\ UNCHANGED <<net, gate, maps, db>>
    BY LookupBecomes
  <1>2. /\ \A l \in Tasks : task[l].number # nextNumber
        /\ \A b \in Names : \A j \in DOMAIN db[b] : db[b][j] # nextNumber
    BY NumberBelow DEF Numbers
  <1>3. OwnersOK'
    <2>1. \A n, a : TaskUses(n, a)' => TaskUses(n, a) \/ (n = nextNumber /\ a = task[k].name)
      BY <1>1, TaskUsesBecome
    <2>2. /\ \A n, a : SessionUses(n, a)' => SessionUses(n, a)
          /\ \A n, a : RowUses(n, a)' => RowUses(n, a)
      BY <1>1, SessionsUnchanged, RowsUnchanged DEF maps
    <2>3. \A n \in Nat \ {0}, a \in Names :
               Uses(n, a)' => Uses(n, a) \/ (n = nextNumber /\ a = task[k].name)
      BY <2>1, <2>2 DEF Uses
    <2> QED BY <1>0, <1>1, <2>3, OwnersGrow DEF Numbers
  <1>4. RowsOK'
    BY <1>1 DEF Numbers, RowsOK
  <1>5. FreshOK'
    <2> SUFFICES ASSUME NEW l \in Tasks, At(l, "store")'
                 PROVE  /\ \A b \in Names : \A j \in DOMAIN db[b] : db[b][j] # task'[l].number
                        /\ \A m \in Tasks : m # l => task'[m].number # task'[l].number
      BY <1>1 DEF FreshOK
    <2>1. CASE l = k
      BY <1>1, <1>2, <2>1 DEF Becomes, Alone
    <2>2. CASE l # k
      <3>1. task'[l] = task[l] /\ At(l, "store")
        BY <1>1, <2>2 DEF Becomes, Alone, At
      <3> QED BY <1>1, <1>2, <3>1 DEF Becomes, Alone, Numbers, FreshOK
    <2> QED BY <2>1, <2>2
  <1> QED BY <1>3, <1>4, <1>5 DEF Numbers
LEMMA StoreNumbers ==
    ASSUME Core, Numbers, NEW k \in Tasks, Store(k), ~ GiveUpCreation(k), Core'
    PROVE  Numbers'
  <1>0. task[k].name \in Names /\ task[k].number \in Nat \ {0} /\ At(k, "store")
    <2>1. task[k].number # 0
      BY DEF Core, TasksOK, Store, At
    <2> QED BY <2>1, OwnNumber DEF Store
  <1>1. /\ Becomes(k, "enter", task[k].number, task[k].old)
        /\ db' = [db EXCEPT ![task[k].name] = Append(@, task[k].number)]
        /\ UNCHANGED <<net, gate, maps, nextNumber>>
    BY GotoBecomes DEF Store, Core
  <1>2. db \in [Names -> Seq(Nat)] /\ db' \in [Names -> Seq(Nat)]
    BY DEF Core, TypeOK
  <1>3. PICK a \in Names : a = task[k].name
    BY <1>0
  <1>4. PICK n \in Nat \ {0} : n = task[k].number
    BY <1>0
  <1>5. /\ \A b \in Names : \A j \in DOMAIN db[b] : db[b][j] # n
        /\ \A l \in Tasks : l # k => task[l].number # n
    BY <1>0, <1>4 DEF Numbers, FreshOK
  <1>6. PICK i \in Nat \ {0} : i = Len(db[a]) + 1
    BY <1>2
  <1>7. db'[a] = Append(db[a], n) /\ \A b \in Names : b # a => db'[b] = db[b]
    BY <1>1, <1>2, <1>3, <1>4
  <1>8. /\ \A j \in DOMAIN db'[a] : j # i => j \in DOMAIN db[a] /\ db'[a][j] = db[a][j]
        /\ db'[a][i] = n
    <2>1. db[a] \in Seq(Nat)
      BY <1>2
    <2>2. /\ Len(db'[a]) = Len(db[a]) + 1
          /\ \A j \in 1..Len(db[a]) : db'[a][j] = db[a][j]
          /\ db'[a][Len(db[a]) + 1] = n
      BY <1>7, <2>1, AppendProperties
    <2>3. DOMAIN db'[a] = 1..Len(db'[a]) /\ DOMAIN db[a] = 1..Len(db[a])
      BY <1>2
    <2> QED BY <1>6, <2>1, <2>2, <2>3
  <1>9. /\ RowsOK'
        /\ \A m : \A b \in Names : RowUses(m, b)' => RowUses(m, b) \/ (m = n /\ b = a)
    BY <1>2, <1>5, <1>7, <1>8, RowWritten
  <1>10. OwnersOK'
    <2>1. Uses(n, a)
      BY <1>3, <1>4, OwnNumber DEF Uses
    <2>2. /\ \A m, b : TaskUses(m, b)' => TaskUses(m, b) \/ (m = n /\ b = a)
          /\ \A m, b : SessionUses(m, b)' => SessionUses(m, b)
      BY <1>1, <1>3, <1>4, TaskUsesBecome, SessionsUnchanged DEF maps
    <2>3. \A m \in Nat \ {0}, b \in Names : Uses(m, b)' => Uses(m, b)
      BY <1>9, <2>1, <2>2 DEF Uses
    <2> QED BY <1>1, <2>3, OwnersKept DEF Numbers
  <1>11. FreshOK'
    <2> SUFFICES ASSUME NEW l \in Tasks, At(l, "store")'
                 PROVE  /\ \A b \in Names : \A j \in DOMAIN db'[b] : db'[b][j] # task'[l].number
                        /\ \A m \in Tasks : m # l => task'[m].number # task'[l].number
      BY DEF FreshOK
    <2>1. l # k /\ task'[l] = task[l] /\ At(l, "store")
      BY <1>1 DEF Becomes, Alone, At
    <2>2. PICK x : x = task[l].number
      OBVIOUS
    <2>3. \A b \in Names : ~ RowUses(x, b)'
      BY <1>5, <1>9, <2>1, <2>2 DEF Numbers, FreshOK, RowUses
    <2>4. \A b \in Names : \A j \in DOMAIN db'[b] : db'[b][j] # x
      BY <2>3 DEF RowUses
    <2>5. \A m \in Tasks : m # l => task'[m].number # x
      BY <1>1, <2>1, <2>2 DEF Becomes, Alone, Numbers, FreshOK
    <2> QED BY <2>1, <2>2, <2>4, <2>5
  <1> QED BY <1>9, <1>10, <1>11 DEF Numbers

\* A task enters its session and goes on.
LEMMA EnterNumbers ==
    ASSUME Core, Numbers, NEW k \in Tasks, NEW pc, pc # "store",
           InsertAccount(task[k].socket, task[k].name, task[k].number),
           task[k].socket \in Sockets,
           Goto(k, pc), UNCHANGED store
    PROVE  Numbers'
  <1>1. Becomes(k, pc, task[k].number, task[k].old)
    BY GotoBecomes DEF Core
  <1>2. \A n \in Nat \ {0}, a \in Names : SessionUses(n, a)' => Uses(n, a)
    BY SessionsInsert, OwnNumber DEF Uses
  <1> QED BY <1>1, <1>2, NumbersGoOn

LEMMA SameSessionsNumbers ==
    ASSUME Core, Numbers, UNCHANGED store, NEW k \in Tasks, Ends(k), UNCHANGED session
    PROVE  Numbers'
  <1>1. Alone(k) /\ task'[k] = Idle
    BY EndsBecomes DEF Core
  <1>2. task'[k].number = 0 /\ task'[k].pc # "store"
    BY <1>1, IdleIs
  <1> QED BY <1>1, <1>2, NumbersDropped

LEMMA LoginNumbers ==
    ASSUME Core, Numbers, NEW k \in Tasks, LoginStep(k), Core'
    PROVE  Numbers'
  <1>0. UNCHANGED session => \A n \in Nat \ {0}, a \in Names : SessionUses(n, a)' => Uses(n, a)
    BY SessionsUnchanged DEF Uses
  <1>1. CASE Refuse(k)
    BY <1>1, SameSessionsNumbers DEF Refuse, maps
  <1>2. CASE Wake(k) /\ ~ Refuse(k)
    BY <1>0, <1>2, GotoBecomes, NumbersGoOn DEF Wake, GiveUp, maps, Core
  <1>3. CASE Find(k) /\ ~ Refuse(k)
    BY <1>3, FindNumbers
  <1>4. CASE Verify(k) /\ ~ Refuse(k)
    <2> DEFINE old == FindDuplicateLogin(task[k].name)
               pc == IF old = NoSocket THEN "assign" ELSE "kick"
    <2>1. Becomes(k, pc, task[k].number, old) /\ UNCHANGED <<session, store>>
      BY <1>4, VerifyBecomes DEF maps
    <2>2. pc # "store"
      OBVIOUS
    <2> HIDE DEF pc, old
    <2> QED BY <1>0, <2>1, <2>2, NumbersGoOn
  <1>5. CASE Kick(k)
    <2>1. Becomes(k, "drop", task[k].number, task[k].old) /\ UNCHANGED store
      BY <1>5, GotoBecomes DEF Kick, Core
    <2>2. task[k].old \in Sockets /\ RemoveAccount(task[k].old)
      BY <1>5 DEF Kick, Core, TasksOK, At
    <2>3. \A n \in Nat \ {0}, a \in Names : SessionUses(n, a)' => Uses(n, a)
      BY <2>2, SessionsFewer DEF Uses
    <2> QED BY <2>1, <2>3, NumbersGoOn
  <1>6. CASE DropOld(k)
    <2>1. Becomes(k, "assign", task[k].number, NoSocket) /\ UNCHANGED <<session, store>>
      BY <1>6, DropOldBecomes DEF maps
    <2> QED BY <1>0, <2>1, NumbersGoOn
  <1>7. CASE Assign(k)
    BY <1>7, AssignNumbers
  <1>8. CASE Insert(k)
    <2>1. task[k].socket \in Sockets
      BY <1>8, TaskIs DEF Insert, At, Steps, LoginSteps
    <2> QED BY <1>8, <2>1, EnterNumbers DEF Insert
  <1>9. CASE Strip(k)
    BY <1>9, SameSessionsNumbers DEF Strip, maps
  <1> QED BY <1>1, <1>2, <1>3, <1>4, <1>5, <1>6, <1>7, <1>8, <1>9 DEF LoginStep

LEMMA CreateNumbers ==
    ASSUME Core, Numbers, NEW k \in Tasks, CreateStep(k), Core'
    PROVE  Numbers'
  <1>1. CASE GiveUpCreation(k) \/ StripCreated(k)
    BY <1>1, SameSessionsNumbers DEF GiveUpCreation, StripCreated, maps
  <1>2. CASE Lookup(k) /\ ~ GiveUpCreation(k)
    BY <1>2, LookupNumbers
  <1>3. CASE Store(k) /\ ~ GiveUpCreation(k)
    BY <1>3, StoreNumbers
  <1>4. CASE EnterCreated(k)
    <2>1. task[k].socket \in Sockets
      BY <1>4, CreatorIs DEF EnterCreated, At, CreateSteps
    <2> QED BY <1>4, <2>1, EnterNumbers DEF EnterCreated
  <1> QED BY <1>1, <1>2, <1>3, <1>4 DEF CreateStep

LEMMA NumbersStep ==
    ASSUME Core, Numbers, [Next]_vars, Core'
    PROVE  Numbers'
  <1>1. ASSUME UNCHANGED <<task, store>>,
               \A n \in Nat \ {0}, a \in Names : SessionUses(n, a)' => SessionUses(n, a)
        PROVE  Numbers'
    <2>1. \A n, a : TaskUses(n, a)' => TaskUses(n, a)
      BY <1>1 DEF TaskUses
    <2> QED BY <1>1, <2>1, NumbersKept DEF Uses, At
  <1>2. CASE UNCHANGED vars
    BY <1>1, <1>2, SessionsUnchanged DEF vars, maps
  <1>3. ASSUME NEW s \in Sockets, Socket(s) PROVE Numbers'
    <2>1. UNCHANGED <<task, store>> /\ (RemoveAccount(s) \/ UNCHANGED session)
      BY <1>3 DEF Socket, Connect, RefuseConnection, Close, Cleanup, AccountDisconnect, maps
    <2> QED BY <1>1, <2>1, SessionsFewer, SessionsUnchanged
  <1>4. ASSUME NEW k \in Tasks, NEW s \in Sockets, NEW name \in Names,
               BeginLogin(k, s, name) \/ BeginCreate(k, s, name)
        PROVE  Numbers'
    <2>1. Alone(k) /\ task'[k].number = 0 /\ task'[k].pc # "store"
      BY <1>4, BeginsBecomes DEF Core
    <2>2. UNCHANGED store /\ UNCHANGED session
      BY <1>4 DEF BeginLogin, BeginCreate, maps
    <2> QED BY <2>1, <2>2, NumbersDropped
  <1>5. ASSUME NEW k \in Tasks, LoginStep(k) \/ CreateStep(k) PROVE Numbers'
    BY <1>5, LoginNumbers, CreateNumbers
  <1> QED BY <1>2, <1>3, <1>4, <1>5 DEF Next

LEMMA InitNumbers == Init => Numbers
  <1> SUFFICES ASSUME Init PROVE Numbers
    OBVIOUS
  <1>1. \A n \in Nat \ {0}, a \in Names : ~ SessionUses(n, a) /\ ~ TaskUses(n, a)
    BY IdleIs DEF Init, SessionUses, TaskUses, NoSession
  <1>2. OwnersOK
    BY <1>1, SessionsAssumption DEF Init, OwnersOK, Uses, RowUses
  <1>3. RowsOK
    BY SessionsAssumption DEF Init, RowsOK
  <1>4. FreshOK
    BY IdleIs DEF Init, FreshOK, At
  <1> QED BY <1>2, <1>3, <1>4 DEF Numbers

LEMMA NumbersUnique ==
    ASSUME Core, Numbers
    PROVE  NumbersAreUnique
  <1>1. ASSUME NEW a \in Names, NEW b \in Names, NEW i \in DOMAIN db[a], NEW j \in DOMAIN db[b],
               db[a][i] # 0, db[a][i] = db[b][j]
        PROVE  a = b /\ i = j
    <2>1. db[a][i] \in Nat \ {0}
      BY <1>1 DEF Core, TypeOK
    <2>2. Uses(db[a][i], a) /\ Uses(db[a][i], b)
      BY <1>1 DEF Uses, RowUses
    <2>3. a = b
      BY <2>1, <2>2 DEF Numbers, OwnersOK
    <2> QED BY <1>1, <2>3 DEF Numbers, RowsOK
  <1>2. ASSUME NEW s \in Sockets, NEW t \in Sockets, session[s] # NoSession,
               session[s].number = session[t].number
        PROVE  session[s].name = session[t].name
    <2>1. session[s].number \in Nat \ {0} /\ session[s].name \in Names
      BY <1>2 DEF Core, TypeOK, SessionsOK
    <2>2. session[t] # NoSession
      BY <1>2, <2>1 DEF NoSession
    <2>3. session[t].name \in Names
      BY <2>2 DEF Core, SessionsOK
    <2>4. /\ Uses(session[s].number, session[s].name)
          /\ Uses(session[s].number, session[t].name)
      BY <1>2 DEF Uses, SessionUses
    <2> QED BY <2>1, <2>3, <2>4 DEF Numbers, OwnersOK
  <1> QED BY <1>1, <1>2 DEF NumbersAreUnique

\* A member number is given to one account, in the database and among the
\* sessions, also when storing it fails or two tasks allocate at a time.
THEOREM NumbersAreOwned == Spec => []NumbersAreUnique
  <1>1. Init => Core /\ Numbers
    BY InitCore, InitNumbers
  <1>2. Core /\ Numbers /\ [Next]_vars => Core' /\ Numbers'
    BY NextCore, NumbersStep
  <1>3. Core /\ Numbers => NumbersAreUnique
    BY NumbersUnique
  <1> QED BY <1>1, <1>2, <1>3, PTL DEF Spec
----------------------------------------------------------------------------
\* A socket that waits has no second login.

\* A connection never comes back, and a socket never gets its handlers back.
LEMMA NetMoves ==
    ASSUME Core, [Next]_vars
    PROVE  /\ stripped \subseteq stripped'
           /\ \A s \in Sockets : /\ Connected(s)' => Connected(s) \/ transport[s] = "new"
                                 /\ transport'[s] = "new" => transport[s] = "new"
  <1>0. transport \in [Sockets -> {"new", "open", "closed", "gone"}]
    BY DEF Core, TypeOK
  <1>1. CASE UNCHANGED net
    BY <1>1 DEF net, Connected
  <1>2. ASSUME NEW s \in Sockets, Socket(s)
        PROVE  /\ stripped \subseteq stripped'
               /\ \A t \in Sockets : /\ Connected(t)' => Connected(t) \/ transport[t] = "new"
                                     /\ transport'[t] = "new" => transport[t] = "new"
    <2>1. UNCHANGED stripped
      BY <1>2 DEF Socket, Connect, RefuseConnection, Close, Cleanup, AccountDisconnect
    <2>2. \/ UNCHANGED transport
          \/ transport[s] = "new" /\ transport' = [transport EXCEPT ![s] = "open"]
          \/ transport' = [transport EXCEPT ![s] = "closed"]
          \/ transport' = [transport EXCEPT ![s] = "gone"]
      BY <1>2 DEF Socket, Connect, RefuseConnection, Close, Cleanup, AccountDisconnect
    <2> QED BY <1>0, <2>1, <2>2 DEF Connected
  <1>3. ASSUME NEW k \in Tasks, LoginStep(k)
        PROVE  /\ stripped \subseteq stripped'
               /\ \A t \in Sockets : /\ Connected(t)' => Connected(t) \/ transport[t] = "new"
                                     /\ transport'[t] = "new" => transport[t] = "new"
    <2>1. CASE DropOld(k)
      BY <1>0, <2>1 DEF DropOld, Connected
    <2>2. CASE Strip(k)
      BY <2>2 DEF Strip, Connected
    <2> QED BY <1>1, <1>3, <2>1, <2>2
            DEF LoginStep, Wake, Find, Verify, Kick, Assign, Insert, GiveUp, Refuse
  <1>4. ASSUME NEW k \in Tasks, CreateStep(k)
        PROVE  /\ stripped \subseteq stripped'
               /\ \A t \in Sockets : /\ Connected(t)' => Connected(t) \/ transport[t] = "new"
                                     /\ transport'[t] = "new" => transport[t] = "new"
    <2>1. CASE StripCreated(k)
      BY <2>1 DEF StripCreated, Connected
    <2> QED BY <1>1, <1>4, <2>1
            DEF CreateStep, Lookup, Store, EnterCreated, GiveUpCreation
  <1>5. CASE UNCHANGED vars
    BY <1>1, <1>5 DEF vars
  <1>6. ASSUME NEW k \in Tasks, NEW s \in Sockets, NEW name \in Names,
               BeginLogin(k, s, name) \/ BeginCreate(k, s, name)
        PROVE  UNCHANGED net
    BY <1>6 DEF BeginLogin, BeginCreate
  <1> QED BY <1>1, <1>2, <1>3, <1>4, <1>5, <1>6 DEF Next

\* Only logins that end, kicks and disconnections take entries out of pending.
LEMMA PendingKept ==
    ASSUME Core, HoldersOK, [Next]_vars
    PROVE  \/ \E k \in Tasks : Leaves(k)
           \/ \A s \in pending : \/ s \in pending' \/ s \in stripped \cup created
                                 \/ ~ Connected(s)'
  <1>1. CASE pending \subseteq pending'
    BY <1>1
  <1>2. ASSUME NEW s \in Sockets, Socket(s)
        PROVE  \A t \in pending : t \in pending' \/ t \in stripped \/ ~ Connected(t)'
    <2>1. CASE Cleanup(s)
      <3>1. ~ Connected(s)'
        BY <2>1 DEF Cleanup, Connected, Core, TypeOK
      <3> QED BY <2>1, <3>1 DEF Cleanup, RemoveAccount
    <2>2. CASE AccountDisconnect(s)
      BY <2>2 DEF AccountDisconnect, RemoveAccount
    <2> QED BY <1>2, <2>1, <2>2 DEF Socket, Connect, RefuseConnection, Close, gate
  <1>3. ASSUME NEW k \in Tasks, LoginStep(k)
        PROVE  \/ Leaves(k)
               \/ \A s \in pending : \/ s \in pending' \/ s \in stripped \cup created
                                     \/ ~ Connected(s)'
    <2>1. CASE Kick(k)
      <3>1. task[k].old \in stripped \cup created
        BY <2>1 DEF Kick, HoldersOK
      <3> QED BY <2>1, <3>1 DEF Kick, RemoveAccount
    <2>2. CASE UNCHANGED pending
      BY <2>2
    <2>3. CASE Refuse(k) /\ Waiting(k)
      BY <2>3, RefuseLeaves
    <2>4. CASE Insert(k)
      <3>1. Alone(k) /\ task'[k].pc = "strip"
        BY <2>4, GotoBecomes DEF Insert, Becomes, Core
      <3>2. Waiting(k) /\ ~ Waiting(k)'
        BY <2>4, <3>1 DEF Insert, Waiting, LoggingIn, At, LoginSteps
      <3> QED BY <2>4, <3>1, <3>2 DEF Insert, Leaves, FinishQueueSlot
    <2>5. Wake(k) \/ Find(k) \/ Verify(k) => Waiting(k)
      BY DEF Wake, Find, Verify, Waiting, LoggingIn, At, LoginSteps
    <2> QED BY <1>3, <2>1, <2>2, <2>3, <2>4, <2>5
            DEF LoginStep, Wake, Find, Verify, DropOld, Assign, Strip, GiveUp, gate
  <1>4. ASSUME NEW k \in Tasks, CreateStep(k) PROVE pending \subseteq pending'
    BY <1>4, CreatingSteps DEF gate
  <1>5. CASE UNCHANGED vars
    BY <1>1, <1>5 DEF vars, gate
  <1>6. ASSUME NEW k \in Tasks, NEW s \in Sockets, NEW name \in Names,
               BeginLogin(k, s, name) \/ BeginCreate(k, s, name)
        PROVE  pending \subseteq pending'
    BY <1>6 DEF BeginLogin, BeginCreate, gate
  <1> QED BY <1>1, <1>2, <1>3, <1>4, <1>5, <1>6 DEF Next

LEMMA SocketOfWaiting ==
    ASSUME Core, NEW k \in Tasks, Waiting(k)
    PROVE  task[k].socket \in Sockets
  BY DEF Core, TasksOK, Waiting, LoggingIn, LoginSteps

LEMMA CreatedGrows == [Next]_vars => created \subseteq created'
  <1> SUFFICES ASSUME [Next]_vars PROVE created \subseteq created'
    OBVIOUS
  <1>1. ASSUME NEW k \in Tasks, CreateStep(k) PROVE created \subseteq created'
    BY <1>1 DEF CreateStep, Lookup, Store, EnterCreated, StripCreated, GiveUpCreation, hist
  <1>2. ASSUME NEW k \in Tasks, LoginStep(k) PROVE UNCHANGED hist
    BY <1>2 DEF LoginStep, Wake, Find, Verify, Kick, DropOld, Assign, Insert, Strip, GiveUp, Refuse
  <1>3. ASSUME NEW s \in Sockets, Socket(s) PROVE UNCHANGED hist
    BY <1>3 DEF Socket, Connect, RefuseConnection, Close, Cleanup, AccountDisconnect
  <1>4. ASSUME NEW k \in Tasks, NEW s \in Sockets, NEW name \in Names,
               BeginLogin(k, s, name) \/ BeginCreate(k, s, name)
        PROVE  UNCHANGED hist
    BY <1>4 DEF BeginLogin, BeginCreate
  <1> QED BY <1>1, <1>2, <1>3, <1>4 DEF Next, vars, hist

LEMMA HeldBackStep ==
    ASSUME Core, HoldersOK, HeldBackOK, OnePendingLogin, [Next]_vars
    PROVE  HeldBackOK' /\ OnePendingLogin'
  <1>0. /\ stripped \subseteq stripped' /\ created \subseteq created'
        /\ \A s \in Sockets : /\ Connected(s)' => Connected(s) \/ transport[s] = "new"
                              /\ transport'[s] = "new" => transport[s] = "new"
    BY NetMoves, CreatedGrows
  <1>1. ASSUME NEW k \in Tasks, Leaves(k)
        PROVE  HeldBackOK' /\ OnePendingLogin'
    <2>1. \A l \in Tasks : Waiting(l)' => l # k /\ Waiting(l) /\ task'[l] = task[l]
      BY <1>1 DEF Leaves, Alone, Waiting, LoggingIn, At
    <2>2. \A l \in Tasks : Waiting(l)' =>
              task[l].socket # task[k].socket \/ task[l].socket \in created
      BY <1>1, <2>1 DEF Leaves, OnePendingLogin
    <2>3. HeldBackOK'
      BY <1>0, <1>1, <2>1, <2>2, SocketOfWaiting DEF HeldBackOK, Leaves
    <2>4. OnePendingLogin'
      BY <1>0, <2>1 DEF OnePendingLogin
    <2> QED BY <2>3, <2>4
  <1>2. CASE /\ Quiet
             /\ \A s \in pending : s \in pending' \/ s \in stripped \cup created \/ ~ Connected(s)'
    <2>1. \A l \in Tasks : Waiting(l)' => Waiting(l) /\ task'[l].socket = task[l].socket
      BY <1>2 DEF Quiet
    <2>2. HeldBackOK'
      BY <1>0, <1>2, <2>1, SocketOfWaiting DEF HeldBackOK
    <2>3. OnePendingLogin'
      BY <1>0, <2>1 DEF OnePendingLogin
    <2> QED BY <2>2, <2>3
  <1>3. ASSUME NEW k \in Tasks, NEW s \in Sockets, NEW name \in Names, BeginLogin(k, s, name)
        PROVE  HeldBackOK' /\ OnePendingLogin'
    <2>1. Alone(k) /\ task'[k].socket = s /\ UNCHANGED <<net, hist>>
      BY <1>3, BeginsBecomes DEF Core, BeginLogin
    <2>2. \A l \in Tasks : l # k => (Waiting(l)' <=> Waiting(l)) /\ task'[l] = task[l]
      BY <2>1 DEF Alone, Waiting, LoggingIn, At
    <2>3. /\ s \notin pending /\ s \notin stripped /\ Connected(s)
          /\ pending' = pending \cup {s}
      BY <1>3 DEF BeginLogin
    <2>4. \A l \in Tasks : Waiting(l) => task[l].socket # s \/ s \in created
      BY <2>3 DEF HeldBackOK
    <2>5. HeldBackOK'
      BY <2>1, <2>2, <2>3 DEF HeldBackOK, net, hist, Connected
    <2>6. OnePendingLogin'
      BY <1>0, <2>1, <2>2, <2>4 DEF OnePendingLogin
    <2> QED BY <2>5, <2>6
  <1>4. \/ Quiet
        \/ \E k \in Tasks : Leaves(k)
        \/ \E k \in Tasks, s \in Sockets, name \in Names : BeginLogin(k, s, name)
    <2>1. CASE UNCHANGED vars
      BY <2>1 DEF vars, gate, Quiet, Waiting, LoggingIn, At
    <2> QED BY <2>1, SocketQuiet, BeginningSteps, WaitingSteps, CreatingQuiet DEF Next
  <1> QED BY <1>1, <1>2, <1>3, <1>4, PendingKept
----------------------------------------------------------------------------
\* The indices and the sessions.

\* One login at a time has got past waiting for the lock.
LEMMA OneAtATime ==
    ASSUME Core, NEW k \in Tasks, NEW l \in Tasks,
           task[k].pc \in LoginSteps \ {"queued"}, task[l].pc \in LoginSteps \ {"queued"}
    PROVE  k = l
  BY DEF Core, QueueOK, LoggingIn, At

Fewer ==
    /\ \A t \in Sockets : session'[t] = session[t] \/ session'[t] = NoSession
    /\ \A a \in DOMAIN byName' : a \in DOMAIN byName /\ byName'[a] = byName[a]

LEMMA NobodyIsNamed == NoSession.name = NoName /\ NoSession.number = 0
  BY DEF NoSession

\* Sessions with the same number are of one account.
LEMMA OneNumberOneName ==
    ASSUME Core, Numbers, NEW s \in Sockets, NEW t \in Sockets, session[s] # NoSession,
           session[s].number = session[t].number
    PROVE  session[s].name = session[t].name
  BY NumbersUnique DEF NumbersAreUnique

LEMMA RemoveIndexed ==
    ASSUME Core, Numbers, SessionsAreIndexed, NEW s \in Sockets, RemoveAccount(s), UNCHANGED twinned
    PROVE  SessionsAreIndexed' /\ Fewer /\ session'[s] = NoSession
  <1>1. CASE session[s] = NoSession
    BY <1>1 DEF RemoveAccount, maps, Fewer, SessionsAreIndexed
  <1>2. CASE session[s] # NoSession
    <2>1. /\ session' = [session EXCEPT ![s] = NoSession]
          /\ byMember' = Drop(byMember, session[s].number)
          /\ byName' = Drop(byName, session[s].name)
      BY <1>2 DEF RemoveAccount
    <2>2. session'[s] = NoSession /\ \A t \in Sockets : t # s => session'[t] = session[t]
      BY <2>1 DEF Core, TypeOK
    <2>3. Fewer
      BY <2>1, <2>2 DEF Fewer, Drop
    <2>4. ASSUME NEW t \in Sockets, session'[t] # NoSession, session'[t].name \notin twinned
          PROVE  /\ session'[t].name \in DOMAIN byName' /\ byName'[session'[t].name] = t
                 /\ session'[t].number \in DOMAIN byMember' /\ byMember'[session'[t].number] = t
      <3>1. t # s /\ session'[t] = session[t]
        BY <2>2, <2>4
      <3>2. /\ session[t].name \in DOMAIN byName /\ byName[session[t].name] = t
            /\ session[t].number \in DOMAIN byMember /\ byMember[session[t].number] = t
        BY <2>4, <3>1 DEF SessionsAreIndexed
      <3>3. session[t].name # session[s].name
        BY <1>2, <2>4, <3>1, <3>2 DEF SessionsAreIndexed
      <3>4. session[t].number # session[s].number
        BY <1>2, <3>3, OneNumberOneName
      <3> QED BY <2>1, <3>1, <3>2, <3>3, <3>4 DEF Drop
    <2> QED BY <2>2, <2>3, <2>4 DEF SessionsAreIndexed
  <1> QED BY <1>1, <1>2

\* The part of the invariant that a step may disturb through the maps.
Indexed == SessionsAreIndexed /\ HoldersOK /\ EvictedOK

\* Whoever is new in the maps has lost the handlers, and no task comes to a kick
\* or to its handlers without what these promise.
LEMMA HoldersStep ==
    ASSUME Core, HoldersOK, Core',
           \A s \in Sockets : OnStrip(s) => OnStrip(s)',
           stripped \subseteq stripped', created \subseteq created',
           \A s \in Sockets : session'[s] # NoSession => session[s] # NoSession \/ OnStrip(s)',
           \A a \in DOMAIN byName', s \in Sockets : byName'[a] = s =>
               (a \in DOMAIN byName /\ byName[a] = s) \/ OnStrip(s)',
           \A k \in Tasks : task'[k].pc = "open" =>
               task'[k] = task[k] \/ task'[k].socket \in created',
           \A k \in Tasks : task'[k].pc = "kick" =>
               task'[k] = task[k] \/ task'[k].old \in stripped \cup created
    PROVE  HoldersOK'
  <1>1. \A s \in Sockets : session'[s] # NoSession => OnStrip(s)'
    BY DEF HoldersOK
  <1>2. ASSUME NEW a \in DOMAIN byName' PROVE OnStrip(byName[a])'
    <2>1. PICK s \in Sockets : s = byName'[a]
      BY <1>2 DEF Core, TypeOK
    <2>2. OnStrip(s)'
      BY <1>2, <2>1 DEF HoldersOK
    <2> QED BY <2>1, <2>2
  <1>3. \A k \in Tasks : At(k, "open")' => task'[k].socket \in created'
    BY DEF HoldersOK, At
  <1>4. \A k \in Tasks : At(k, "kick")' => task'[k].old \in stripped' \cup created'
    BY DEF HoldersOK, At
  <1> QED BY <1>1, <1>2, <1>3, <1>4 DEF HoldersOK

\* No task comes to a step that promises more than before.
NoMorePromised ==
    \A k \in Tasks : task'[k].pc \in {"kick", "drop", "assign", "insert", "open"} =>
        \/ task'[k] = task[k]
        \/ /\ task'[k].pc \in {"drop", "assign", "insert"}
           /\ task[k].pc \in {"drop", "assign", "insert"}
           /\ task'[k].name = task[k].name

\* Sessions and index entries disappear, no task promises more than before, and
\* nobody gets handlers back.
LEMMA FewerIndexed ==
    ASSUME Core, Indexed, SessionsAreIndexed', Fewer, Core', NoMorePromised, UNCHANGED hist,
           \A s \in Sockets : OnStrip(s) => OnStrip(s)',
           stripped \subseteq stripped'
    PROVE  Indexed'
  <1>1. HoldersOK'
    <2>1. /\ \A s \in Sockets : session'[s] # NoSession => session[s] # NoSession
          /\ \A a \in DOMAIN byName', s \in Sockets : byName'[a] = s =>
                 a \in DOMAIN byName /\ byName[a] = s
      BY DEF Fewer
    <2>2. created \subseteq created'
      BY DEF hist
    <2>3. \A k \in Tasks : task'[k].pc \in {"open", "kick"} => task'[k] = task[k]
      BY DEF NoMorePromised
    <2> QED BY <2>1, <2>2, <2>3, HoldersStep DEF Indexed
  <1>2. EvictedOK'
    <2> SUFFICES ASSUME NEW k \in Tasks, NEW s \in Sockets, session'[s].name = task'[k].name,
                        task'[k].name \notin twinned
                 PROVE  /\ ~ (task'[k].pc \in {"drop", "assign", "insert"})
                        /\ At(k, "kick")' => s = task'[k].old
      BY DEF EvictedOK, hist
    <2>1. CASE task'[k].pc \in {"kick", "drop", "assign", "insert"}
      <3>1. task'[k].name \in Names
        BY <2>1 DEF Core, TasksOK
      <3>2. session'[s] = session[s]
        BY <3>1, NobodyIsNamed, SessionsAssumption DEF Fewer
      <3> QED BY <2>1, <3>2 DEF At, Indexed, EvictedOK, NoMorePromised
    <2> QED BY <2>1 DEF At
  <1> QED BY <1>1, <1>2 DEF Indexed

\* A step that leaves the maps alone.
LEMMA SameIndexed ==
    ASSUME Core, Indexed, UNCHANGED <<maps, hist>>, Core', NoMorePromised,
           \A s \in Sockets : OnStrip(s) => OnStrip(s)',
           stripped \subseteq stripped'
    PROVE  Indexed'
  <1>1. SessionsAreIndexed' /\ Fewer
    BY DEF Indexed, SessionsAreIndexed, Fewer, maps, hist
  <1> QED BY <1>1, FewerIndexed

\* Of the sockets on their way to their handlers only that of task k may change.
LEMMA OnStripStays ==
    ASSUME Core, NEW k \in Tasks, Alone(k), task[k].pc \notin {"strip", "open"},
           stripped \subseteq stripped'
    PROVE  \A s : OnStrip(s) => OnStrip(s)'
  BY DEF OnStrip, Alone

\* A task goes on, and the maps stay.
LEMMA QuietIndexed ==
    ASSUME Core, Indexed, NEW k \in Tasks, Alone(k), UNCHANGED <<stripped, maps, hist>>,
           task[k].pc \notin {"strip", "open"}, task'[k].pc \notin {"kick", "open"},
           task'[k].pc \in {"drop", "assign", "insert"} =>
               /\ task[k].pc \in {"drop", "assign", "insert"}
               /\ task'[k].name = task[k].name,
           Core'
    PROVE  Indexed'
  <1>1. \A t \in Sockets : OnStrip(t) => OnStrip(t)'
    BY OnStripStays
  <1>2. NoMorePromised
    BY DEF NoMorePromised, Alone
  <1> QED BY <1>1, <1>2, SameIndexed

LEMMA SocketIndexed ==
    ASSUME Core, Numbers, Indexed, NEW s \in Sockets, Socket(s), Core'
    PROVE  Indexed'
  <1>1. UNCHANGED <<task, stripped, hist>> /\ (RemoveAccount(s) \/ UNCHANGED maps)
    BY DEF Socket, Connect, RefuseConnection, Close, Cleanup, AccountDisconnect
  <1>2. (\A t \in Sockets : OnStrip(t) => OnStrip(t)') /\ NoMorePromised
    BY <1>1 DEF OnStrip, NoMorePromised
  <1>3. CASE RemoveAccount(s)
    BY <1>1, <1>2, <1>3, RemoveIndexed, FewerIndexed DEF Indexed, hist
  <1>4. CASE UNCHANGED maps
    BY <1>1, <1>2, <1>4, SameIndexed
  <1> QED BY <1>1, <1>3, <1>4

LEMMA RefuseIndexed ==
    ASSUME Core, Indexed, NEW k \in Tasks, Refuse(k), Waiting(k), Core'
    PROVE  Indexed'
  <1>1. Alone(k) /\ task'[k] = Idle /\ UNCHANGED <<stripped, maps, hist>>
    BY EndsBecomes DEF Core, Refuse, net
  <1> QED BY <1>1, IdleIs, QuietIndexed DEF Waiting, LoggingIn, At, LoginSteps

LEMMA VerifyIndexed ==
    ASSUME Core, Indexed, NEW k \in Tasks, Verify(k), ~ Refuse(k), Core'
    PROVE  Indexed'
  <1> DEFINE old == FindDuplicateLogin(task[k].name)
             pc == IF old = NoSocket THEN "assign" ELSE "kick"
  <1>1. Becomes(k, pc, task[k].number, old) /\ UNCHANGED <<net, gate, maps, store>>
    BY VerifyBecomes
  <1>h. UNCHANGED hist
    BY DEF Verify, Refuse
  <1>2. task[k].pc = "verify" /\ task[k].name \in Names
    BY TaskIs DEF Verify, At, Steps, LoginSteps
  <1>3. ASSUME NEW s \in Sockets, session[s].name = task[k].name, task[k].name \notin twinned
        PROVE  pc = "kick" /\ s = old
    <2>1. session[s] # NoSession
      BY <1>2, <1>3, NobodyIsNamed, SessionsAssumption
    <2>2. old = s
      BY <1>3, <2>1 DEF Indexed, SessionsAreIndexed, FindDuplicateLogin
    <2> QED BY <2>2, SessionsAssumption
  <1>4. \A l \in Tasks : task[l].pc # "strip"
    BY <1>2, OneAtATime DEF LoginSteps
  <1>5. pc = "kick" => old \in stripped \cup created
    <2> SUFFICES ASSUME old # NoSocket PROVE old \in stripped \cup created
      OBVIOUS
    <2>1. OnStrip(old)
      BY DEF FindDuplicateLogin, Indexed, HoldersOK
    <2> HIDE DEF old
    <2> QED BY <1>4, <2>1 DEF OnStrip, At, Indexed, HoldersOK
  <1>6. pc \in {"kick", "assign"}
    OBVIOUS
  <1> HIDE DEF pc, old
  <1>7. /\ Alone(k) /\ task'[k].pc = pc /\ task'[k].old = old /\ task'[k].name = task[k].name
        /\ UNCHANGED <<stripped, created, twinned, session, byMember, byName>>
    BY <1>1, <1>h DEF Becomes, net, maps, hist
  <1>8. HoldersOK'
    <2>1. \A s : OnStrip(s) => OnStrip(s)'
      BY <1>2, <1>7, OnStripStays
    <2>2. \A l \in Tasks : task'[l].pc \in {"open", "kick"} =>
              task'[l] = task[l] \/ (task'[l].pc = "kick" /\ task'[l].old \in stripped \cup created)
      BY <1>5, <1>6, <1>7 DEF Alone
    <2> QED BY <1>7, <2>1, <2>2, HoldersStep DEF Indexed
  <1>9. EvictedOK'
    <2> SUFFICES ASSUME NEW l \in Tasks, NEW s \in Sockets, session[s].name = task'[l].name,
                        task'[l].name \notin twinned
                 PROVE  /\ ~ (task'[l].pc \in {"drop", "assign", "insert"})
                        /\ task'[l].pc = "kick" => s = task'[l].old
      BY <1>7 DEF EvictedOK, At
    <2>1. CASE l = k
      <3>1. pc = "kick" /\ s = old
        BY <1>3, <1>7, <2>1
      <3> QED BY <1>7, <2>1, <3>1
    <2>2. CASE l # k
      BY <1>7, <2>2 DEF Alone, Indexed, EvictedOK, At
    <2> QED BY <2>1, <2>2
  <1> QED BY <1>7, <1>8, <1>9 DEF Indexed, SessionsAreIndexed

LEMMA KickIndexed ==
    ASSUME Core, Numbers, Indexed, NEW k \in Tasks, Kick(k), Core'
    PROVE  Indexed'
  <1>1. /\ Becomes(k, "drop", task[k].number, task[k].old) /\ UNCHANGED <<stripped, hist>>
        /\ At(k, "kick") /\ RemoveAccount(task[k].old)
    BY GotoBecomes DEF Kick, Core, net
  <1>2. PICK old \in Sockets : old = task[k].old
    BY <1>1 DEF Core, TasksOK, At
  <1>3. SessionsAreIndexed' /\ Fewer /\ session'[old] = NoSession
    BY <1>1, <1>2, RemoveIndexed DEF Indexed, hist
  <1>4. \A s : OnStrip(s) => OnStrip(s)'
    BY <1>1, OnStripStays DEF Becomes, At
  <1>5. HoldersOK'
    <2>1. /\ \A s \in Sockets : session'[s] # NoSession => session[s] # NoSession
          /\ \A a \in DOMAIN byName', s \in Sockets : byName'[a] = s =>
                 a \in DOMAIN byName /\ byName[a] = s
      BY <1>3 DEF Fewer
    <2>2. \A l \in Tasks : task'[l].pc \in {"open", "kick"} => task'[l] = task[l]
      BY <1>1 DEF Becomes, Alone
    <2> QED BY <1>1, <1>4, <2>1, <2>2, HoldersStep DEF Indexed, hist
  <1>6. EvictedOK'
    <2> SUFFICES ASSUME NEW l \in Tasks, NEW s \in Sockets, session'[s].name = task'[l].name,
                        task'[l].name \notin twinned,
                        task'[l].pc \in {"kick", "drop", "assign", "insert"}
                 PROVE  /\ ~ (task'[l].pc \in {"drop", "assign", "insert"})
                        /\ task'[l].pc = "kick" => s = task'[l].old
      BY <1>1 DEF EvictedOK, At, hist
    <2>1. task'[l].name \in Names
      BY DEF Core, TasksOK
    <2>2. session'[s] = session[s] /\ s # old
      BY <1>3, <2>1, NobodyIsNamed, SessionsAssumption DEF Fewer
    <2>3. CASE l = k
      <3>1. session[s].name = task[k].name /\ task[k].name \notin twinned
        BY <1>1, <2>2, <2>3 DEF Becomes
      <3> QED BY <1>1, <1>2, <2>2, <3>1 DEF Indexed, EvictedOK
    <2>4. CASE l # k
      BY <1>1, <2>2, <2>4 DEF Becomes, Alone, Indexed, EvictedOK, At
    <2> QED BY <2>3, <2>4
  <1> QED BY <1>3, <1>5, <1>6 DEF Indexed

\* What entering a session for task k, of a login or a creation, makes of the
\* indices and of those whose handlers are gone: nobody else may have the account.
LEMMA EnterIndexed ==
    ASSUME Core, Numbers, Indexed, NEW k \in Tasks, Core', Alone(k),
           task[k].pc \in {"insert", "enter"},
           task'[k].pc \in {"strip", "open"}, task'[k].socket = task[k].socket,
           task'[k].pc = "open" => task[k].socket \in created',
           UNCHANGED stripped, created \subseteq created', twinned \subseteq twinned',
           InsertAccount(task[k].socket, task[k].name, task[k].number),
           task[k].name \notin twinned' =>
               \A t \in Sockets : t # task[k].socket => session[t].name # task[k].name
    PROVE  SessionsAreIndexed' /\ HoldersOK'
  <1>2. PICK s \in Sockets : s = task[k].socket
    BY TaskIs DEF Steps, LoginSteps, CreateSteps
  <1>3. PICK a \in Names : a = task[k].name
    BY TaskIs DEF Steps, LoginSteps, CreateSteps
  <1>4. PICK n \in Nat \ {0} : n = task[k].number
    BY OwnNumber DEF Core, TasksOK
  <1>5. /\ session'[s] = [name |-> a, number |-> n]
        /\ \A t \in Sockets : t # s => session'[t] = session[t]
        /\ byMember' = With(byMember, n, s) /\ byName' = With(byName, a, s)
    BY <1>2, <1>3, <1>4 DEF InsertAccount, Core, TypeOK
  <1>7. \A t \in Sockets : session[t] # NoSession /\ session[t].number = n => session[t].name = a
    <2> SUFFICES ASSUME NEW t \in Sockets, session[t] # NoSession, session[t].number = n
                 PROVE  session[t].name = a
      OBVIOUS
    <2>1. Uses(n, session[t].name) /\ session[t].name \in Names
      BY DEF Uses, SessionUses, Core, SessionsOK
    <2>2. Uses(n, a)
      BY <1>3, <1>4, OwnNumber DEF Uses
    <2> QED BY <2>1, <2>2 DEF Numbers, OwnersOK
  <1>8. SessionsAreIndexed'
    <2> SUFFICES ASSUME NEW t \in Sockets, session'[t] # NoSession, session'[t].name \notin twinned'
                 PROVE  /\ session'[t].name \in DOMAIN byName' /\ byName'[session'[t].name] = t
                        /\ session'[t].number \in DOMAIN byMember' /\ byMember'[session'[t].number] = t
      BY DEF SessionsAreIndexed
    <2>1. CASE t = s
      BY <1>5, <2>1 DEF With
    <2>2. CASE t # s
      <3>1. session'[t] = session[t] /\ session[t].name # a
        BY <1>2, <1>3, <1>5, <2>2
      <3>2. session[t].number # n
        BY <1>7, <3>1
      <3> QED BY <1>5, <3>1, <3>2 DEF With, Indexed, SessionsAreIndexed
    <2> QED BY <2>1, <2>2
  <1>9. OnStrip(s)' /\ \A t \in Sockets : OnStrip(t) => OnStrip(t)'
    <2>1. OnStrip(s)'
      BY <1>2 DEF OnStrip
    <2> QED BY <2>1, OnStripStays
  <1>10. HoldersOK'
    <2>1. /\ \A t \in Sockets : session'[t] # NoSession => session[t] # NoSession \/ OnStrip(t)'
          /\ \A b \in DOMAIN byName', t \in Sockets : byName'[b] = t =>
                 (b \in DOMAIN byName /\ byName[b] = t) \/ OnStrip(t)'
      BY <1>5, <1>9 DEF With
    <2>2. \A l \in Tasks : task'[l].pc = "open" => task'[l] = task[l] \/ task'[l].socket \in created'
      BY DEF Alone
    <2>3. \A l \in Tasks : task'[l].pc = "kick" => task'[l] = task[l]
      BY DEF Alone
    <2> QED BY <1>9, <2>1, <2>2, <2>3, HoldersStep DEF Indexed
  <1> QED BY <1>8, <1>10

LEMMA InsertIndexed ==
    ASSUME Core, Numbers, Indexed, NEW k \in Tasks, Insert(k), Core'
    PROVE  Indexed'
  <1>1. /\ Becomes(k, "strip", task[k].number, task[k].old) /\ UNCHANGED <<stripped, hist>>
        /\ task[k].pc = "insert" /\ task[k].name \in Names
        /\ InsertAccount(task[k].socket, task[k].name, task[k].number)
    BY GotoBecomes, TaskIs DEF Insert, Core, net, At, Steps, LoginSteps
  <1>2. task[k].name \notin twinned => \A t \in Sockets : session[t].name # task[k].name
    BY <1>1 DEF Indexed, EvictedOK
  <1>3. SessionsAreIndexed' /\ HoldersOK'
    BY <1>1, <1>2, EnterIndexed DEF Becomes, hist
  <1>4. \A l \in Tasks : ~ (task'[l].pc \in {"kick", "drop", "assign", "insert"})
    <2> SUFFICES ASSUME NEW l \in Tasks, task'[l].pc \in {"kick", "drop", "assign", "insert"}
                 PROVE  FALSE
      OBVIOUS
    <2>1. l # k /\ task'[l] = task[l]
      BY <1>1 DEF Becomes, Alone
    <2> QED BY <1>1, <2>1, OneAtATime DEF LoginSteps
  <1>5. EvictedOK'
    BY <1>4 DEF EvictedOK, At
  <1> QED BY <1>3, <1>5 DEF Indexed

LEMMA StripIndexed ==
    ASSUME Core, Indexed, NEW k \in Tasks, Strip(k) \/ StripCreated(k), Core'
    PROVE  Indexed'
  <1>1. /\ Alone(k) /\ task'[k] = Idle /\ stripped' = stripped \cup {task[k].socket}
        /\ UNCHANGED <<maps, hist>>
    BY EndsBecomes DEF Strip, StripCreated, Core
  <1>2. \A t \in Sockets : OnStrip(t) => OnStrip(t)'
    BY <1>1 DEF OnStrip, Alone
  <1>3. NoMorePromised
    BY <1>1, IdleIs DEF Alone, NoMorePromised
  <1> QED BY <1>1, <1>2, <1>3, SameIndexed

LEMMA LoginIndexed ==
    ASSUME Core, Numbers, Indexed, NEW k \in Tasks, LoginStep(k), Core'
    PROVE  Indexed'
  <1>1. CASE Refuse(k) /\ (Wake(k) \/ Find(k) \/ Verify(k))
    <2>1. Waiting(k)
      BY <1>1 DEF Wake, Find, Verify, Waiting, LoggingIn, At, LoginSteps
    <2> QED BY <1>1, <2>1, RefuseIndexed
  <1>2. CASE Wake(k) /\ ~ Refuse(k)
    <2>1. /\ Becomes(k, "find", task[k].number, task[k].old)
          /\ UNCHANGED <<stripped, maps, hist>> /\ task[k].pc = "queued"
      BY <1>2, GotoBecomes DEF Wake, GiveUp, Core, net, At
    <2> QED BY <2>1, QuietIndexed DEF Becomes
  <1>3. CASE Find(k) /\ ~ Refuse(k)
    <2>1. /\ Alone(k) /\ task'[k].pc = "verify" /\ task[k].pc = "find"
          /\ UNCHANGED <<stripped, maps, hist>>
      BY <1>3, FindBecomes DEF Becomes, net, Find, At
    <2> QED BY <2>1, QuietIndexed
  <1>4. CASE Verify(k) /\ ~ Refuse(k)
    BY <1>4, VerifyIndexed
  <1>5. CASE Kick(k)
    BY <1>5, KickIndexed
  <1>6. CASE DropOld(k)
    <2>1. /\ Becomes(k, "assign", task[k].number, NoSocket) /\ task[k].pc = "drop"
          /\ UNCHANGED <<stripped, maps, hist>>
      BY <1>6, DropOldBecomes DEF DropOld, At
    <2> QED BY <2>1, QuietIndexed DEF Becomes
  <1>7. CASE Assign(k)
    <2>1. PICK number : Becomes(k, "insert", number, task[k].old)
      BY <1>7, AssignBecomes
    <2>2. task[k].pc = "assign" /\ UNCHANGED <<stripped, maps, hist>>
      BY <1>7 DEF Assign, At, net
    <2> QED BY <2>1, <2>2, QuietIndexed DEF Becomes
  <1>8. CASE Insert(k)
    BY <1>8, InsertIndexed
  <1>9. CASE Strip(k)
    BY <1>9, StripIndexed
  <1> QED BY <1>1, <1>2, <1>3, <1>4, <1>5, <1>6, <1>7, <1>8, <1>9 DEF LoginStep

LEMMA BeginIndexed ==
    ASSUME Core, Indexed, NEW k \in Tasks, NEW s \in Sockets, NEW name \in Names,
           BeginLogin(k, s, name) \/ BeginCreate(k, s, name), Core'
    PROVE  Indexed'
  <1>1. /\ Alone(k) /\ task[k] = Idle /\ task'[k].pc \in {"queued", "lookup"}
        /\ UNCHANGED <<stripped, maps, hist>>
    BY BeginsBecomes DEF Core, BeginLogin, BeginCreate, net
  <1> QED BY <1>1, IdleIs, QuietIndexed

\* A creation enters its session: the name is twinned when another socket or a
\* login may have it.
LEMMA EnterCreatedIndexed ==
    ASSUME Core, Numbers, Indexed, NEW k \in Tasks, EnterCreated(k), Core'
    PROVE  Indexed'
  <1>1. /\ Becomes(k, "open", task[k].number, task[k].old) /\ UNCHANGED stripped
        /\ task[k].pc = "enter" /\ task[k].name \in Names /\ task[k].socket \in Sockets
        /\ InsertAccount(task[k].socket, task[k].name, task[k].number)
        /\ twinned' = twinned \cup Twins(k) /\ created' = created \cup {task[k].socket}
    BY GotoBecomes, TaskIs DEF EnterCreated, Core, net, At, Steps, CreateSteps
  <1>2. task[k].name \notin twinned' =>
            /\ \A t \in Sockets : t # task[k].socket => session[t].name # task[k].name
            /\ \A l \in Tasks : task[l].pc \in {"kick", "drop", "assign", "insert"} =>
                   task[l].name # task[k].name
    BY <1>1 DEF Twins
  <1>3. SessionsAreIndexed' /\ HoldersOK'
    BY <1>1, <1>2, EnterIndexed DEF Becomes
  <1>4. EvictedOK'
    <2> SUFFICES ASSUME NEW l \in Tasks, NEW s \in Sockets, session'[s].name = task'[l].name,
                        task'[l].name \notin twinned',
                        task'[l].pc \in {"kick", "drop", "assign", "insert"}
                 PROVE  /\ ~ (task'[l].pc \in {"drop", "assign", "insert"})
                        /\ task'[l].pc = "kick" => s = task'[l].old
      BY DEF EvictedOK, At
    <2>1. task'[l] = task[l]
      BY <1>1 DEF Becomes, Alone
    <2>2. CASE s = task[k].socket
      <3>1. session'[s].name = task[k].name
        BY <1>1, <2>2 DEF InsertAccount, Core, TypeOK
      <3> QED BY <1>2, <2>1, <3>1
    <2>3. CASE s # task[k].socket
      <3>1. session'[s] = session[s]
        BY <1>1, <2>3 DEF InsertAccount, Core, TypeOK
      <3> QED BY <1>1, <2>1, <3>1 DEF Indexed, EvictedOK, At
    <2> QED BY <2>2, <2>3
  <1> QED BY <1>3, <1>4 DEF Indexed

LEMMA CreateIndexed ==
    ASSUME Core, Numbers, Indexed, NEW k \in Tasks, CreateStep(k), Core'
    PROVE  Indexed'
  <1>1. /\ Alone(k) /\ task[k].pc \in CreateSteps /\ task'[k].pc \in CreateSteps \cup {"idle"}
    BY CreatingSteps
  <1>2. CASE Lookup(k)
    <2>1. /\ task[k].pc = "lookup" /\ UNCHANGED <<stripped, maps, hist>>
          /\ task'[k].pc \in {"store", "idle"}
      <3>1. CASE GiveUpCreation(k)
        BY <1>2, <3>1, EndsBecomes, IdleIs DEF Lookup, GiveUpCreation, At, Core, net
      <3>2. CASE ~ GiveUpCreation(k)
        BY <1>2, <3>2, LookupBecomes DEF Lookup, At, net, Becomes
      <3> QED BY <3>1, <3>2
    <2> QED BY <1>1, <2>1, QuietIndexed
  <1>3. CASE Store(k)
    <2>1. /\ task[k].pc = "store" /\ UNCHANGED <<stripped, maps, hist>>
          /\ task'[k].pc \in {"enter", "idle"}
      <3>1. CASE GiveUpCreation(k)
        BY <1>3, <3>1, EndsBecomes, IdleIs DEF Store, GiveUpCreation, At, Core, net
      <3>2. CASE ~ GiveUpCreation(k)
        BY <1>3, <3>2, GotoBecomes DEF Store, At, net, Becomes, Core
      <3> QED BY <3>1, <3>2
    <2> QED BY <1>1, <2>1, QuietIndexed
  <1>4. CASE EnterCreated(k)
    BY <1>4, EnterCreatedIndexed
  <1>5. CASE StripCreated(k)
    BY <1>5, StripIndexed
  <1> QED BY <1>2, <1>3, <1>4, <1>5 DEF CreateStep

----------------------------------------------------------------------------
\* The invariant, with logins and creations.

IInv == Core /\ Numbers /\ Indexed /\ HeldBackOK /\ OnePendingLogin

LEMMA IInvStep == IInv /\ [Next]_vars => IInv'
  <1> SUFFICES ASSUME IInv, [Next]_vars PROVE IInv'
    OBVIOUS
  <1>1. Core' /\ Numbers'
    BY NextCore, NumbersStep DEF IInv
  <1>2. HeldBackOK' /\ OnePendingLogin'
    BY HeldBackStep DEF IInv, Indexed
  <1>3. Indexed'
    <2>1. CASE UNCHANGED vars
      <3>1. UNCHANGED <<task, stripped, maps, hist>>
        BY <2>1 DEF vars, net
      <3>2. (\A s \in Sockets : OnStrip(s) => OnStrip(s)') /\ NoMorePromised
        BY <3>1 DEF OnStrip, NoMorePromised
      <3> QED BY <1>1, <3>1, <3>2, SameIndexed DEF IInv
    <2> QED BY <1>1, <2>1, SocketIndexed, BeginIndexed, LoginIndexed, CreateIndexed DEF IInv, Next
  <1> QED BY <1>1, <1>2, <1>3 DEF IInv

LEMMA IInvInit == Init => IInv
  <1> SUFFICES ASSUME Init PROVE IInv
    OBVIOUS
  <1>1. Core /\ Numbers
    BY InitCore, InitNumbers
  <1>2. \A k \in Tasks : task[k] = Idle /\ task[k].pc = "idle"
    BY IdleIs DEF Init
  <1>4. Indexed
    BY <1>2 DEF Init, Indexed, SessionsAreIndexed, HoldersOK, EvictedOK, At
  <1>5. \A k \in Tasks : ~ Waiting(k)
    BY <1>2 DEF Waiting, LoggingIn, LoginSteps
  <1>6. HeldBackOK /\ OnePendingLogin
    BY <1>5 DEF HeldBackOK, OnePendingLogin
  <1> QED BY <1>1, <1>4, <1>6 DEF IInv

\* The inductive invariant: types, numbers, indices, who may still have the
\* account of a login that has looked for a duplicate, and what keeps a socket
\* that waits from a second login.
THEOREM Invariance == Spec => []IInv
  BY IInvInit, IInvStep, PTL DEF Spec

\* "Prevent duplicate pending logins for same socket" (auth/login.rs:30), on
\* every socket on which no creation has entered a session.
THEOREM OneLoginASocket == Spec => []OnePendingLogin
  <1>1. IInv => OnePendingLogin
    BY DEF IInv
  <1> QED BY <1>1, Invariance, PTL

\* An account that is logged in is found by its name and by its number: the
\* next login finds it to kick it. Accounts that a creation has entered next to
\* another session or login of them are the exception.
THEOREM SessionsAreFound == Spec => []SessionsAreIndexed
  <1>1. IInv => SessionsAreIndexed
    BY DEF IInv, Indexed
  <1> QED BY <1>1, Invariance, PTL
----------------------------------------------------------------------------
\* The sessions implement Registry.

Holders == [a \in Names |-> HolderOf(a)]

HolderFacts ==
    \A a \in Names :
        /\ a \notin twinned => \A s \in Sockets : session[s].name = a => HolderOf(a) = s
        /\ (\A s \in Sockets : session[s].name # a) => HolderOf(a) = NoSocket
        /\ a \in twinned => HolderOf(a) = NoSocket

LEMMA HolderIs == SessionsAreIndexed => HolderFacts
  <1> SUFFICES ASSUME SessionsAreIndexed, NEW a \in Names
               PROVE  /\ a \notin twinned =>
                            \A s \in Sockets : session[s].name = a => HolderOf(a) = s
                      /\ (\A s \in Sockets : session[s].name # a) => HolderOf(a) = NoSocket
                      /\ a \in twinned => HolderOf(a) = NoSocket
    BY DEF HolderFacts
  <1>1. ASSUME NEW s \in Sockets, session[s].name = a, a \notin twinned
        PROVE  HolderOf(a) = s
    <2>1. \A t \in Sockets : session[t].name = a => t = s
      BY <1>1, NobodyIsNamed, SessionsAssumption DEF SessionsAreIndexed
    <2> QED BY <1>1, <2>1 DEF HolderOf
  <1>2. (\A s \in Sockets : session[s].name # a) => HolderOf(a) = NoSocket
    BY DEF HolderOf
  <1>3. a \in twinned => HolderOf(a) = NoSocket
    BY DEF HolderOf
  <1> QED BY <1>1, <1>2, <1>3

LEMMA HolderIsNext == SessionsAreIndexed' => HolderFacts'
  BY HolderIs, PTL

LEMMA SessionSame ==
    ASSUME UNCHANGED <<session, hist>>
    PROVE  [Held!Next]_Holders
  BY DEF HolderOf, Holders, hist

\* An account whose sessions a step neither makes nor ends keeps its holder.
LEMMA HolderStays ==
    ASSUME SessionsAreIndexed, SessionsAreIndexed', NEW a \in Names,
           a \in twinned' <=> a \in twinned,
           \A t \in Sockets : session'[t].name = a <=> session[t].name = a
    PROVE  HolderOf(a)' = HolderOf(a)
  <1>1. HolderFacts /\ HolderFacts'
    BY HolderIs, HolderIsNext
  <1>2. CASE a \in twinned
    BY <1>1, <1>2 DEF HolderFacts
  <1>3. CASE a \notin twinned /\ \E t \in Sockets : session[t].name = a
    BY <1>1, <1>3 DEF HolderFacts
  <1>4. CASE \A t \in Sockets : session[t].name # a
    BY <1>1, <1>4 DEF HolderFacts
  <1> QED BY <1>2, <1>3, <1>4

\* Whoever loses a session releases the account.
LEMMA RemoveReleases ==
    ASSUME IInv, SessionsAreIndexed', NEW s \in Sockets, RemoveAccount(s), UNCHANGED hist
    PROVE  [Held!Next]_Holders
  <1>1. CASE session[s] = NoSession
    BY <1>1, SessionSame DEF RemoveAccount, maps
  <1>2. CASE session[s] # NoSession
    <2>1. PICK c \in Names : c = session[s].name
      BY <1>2 DEF IInv, Core, SessionsOK
    <2>2. session'[s] = NoSession /\ \A t \in Sockets : t # s => session'[t] = session[t]
      BY <1>2 DEF RemoveAccount, IInv, Core, TypeOK
    <2>3. HolderOf(c)' = NoSocket
      <3>1. CASE c \in twinned
        BY <3>1, HolderIsNext DEF HolderFacts, hist
      <3>2. CASE c \notin twinned
        <4>1. \A t \in Sockets : t # s => session[t].name # c
          BY <1>2, <2>1, <3>2, NobodyIsNamed, SessionsAssumption DEF IInv, Indexed, SessionsAreIndexed
        <4>2. \A t \in Sockets : session'[t].name # c
          BY <2>2, <4>1, NobodyIsNamed, SessionsAssumption
        <4> QED BY <4>2, HolderIsNext DEF HolderFacts
      <3> QED BY <3>1, <3>2
    <2>4. \A a \in Names : a # c => HolderOf(a)' = HolderOf(a)
      <3> SUFFICES ASSUME NEW a \in Names, a # c PROVE HolderOf(a)' = HolderOf(a)
        OBVIOUS
      <3>1. \A t \in Sockets : session'[t].name = a <=> session[t].name = a
        BY <2>1, <2>2, NobodyIsNamed, SessionsAssumption
      <3> QED BY <3>1, HolderStays DEF IInv, Indexed, hist
    <2>5. Held!Release({c})
      BY <2>3, <2>4 DEF Held!Release, Holders
    <2> QED BY <2>5 DEF Held!Next
  <1> QED BY <1>1, <1>2

\* The account a session on socket s had goes with it when another is entered.
LEMMA EnterReplaces ==
    ASSUME IInv, SessionsAreIndexed', NEW s \in Sockets, NEW c \in Names, NEW b \in Names, b # c,
           session'[s].name = c, \A t \in Sockets : t # s => session'[t] = session[t],
           b \in twinned' <=> b \in twinned
    PROVE  HolderOf(b)' = IF HolderOf(b) = s THEN NoSocket ELSE HolderOf(b)
  <1>0. HolderFacts /\ HolderFacts'
    BY HolderIs, HolderIsNext DEF IInv, Indexed
  <1>1. CASE b \in twinned
    BY <1>0, <1>1 DEF HolderFacts
  <1>2. CASE b \notin twinned /\ session[s].name = b
    <2>1. HolderOf(b) = s /\ \A t \in Sockets : session[t].name = b => t = s
      BY <1>0, <1>2 DEF HolderFacts
    <2>2. \A t \in Sockets : session'[t].name # b
      BY <2>1
    <2> QED BY <1>0, <2>1, <2>2 DEF HolderFacts
  <1>3. CASE b \notin twinned /\ session[s].name # b
    <2>1. \A t \in Sockets : session'[t].name = b <=> session[t].name = b
      BY <1>3
    <2>2. HolderOf(b)' = HolderOf(b)
      BY <2>1, HolderStays DEF IInv, Indexed
    <2>3. HolderOf(b) # s
      BY <1>0, <1>3, SessionsAssumption DEF HolderFacts
    <2> QED BY <2>2, <2>3
  <1> QED BY <1>1, <1>2, <1>3

\* A login or a creation enters the session of an account that nobody else has:
\* it takes the account. When another may have it, it is nobody's from then on.
LEMMA EnterTakes ==
    ASSUME IInv, SessionsAreIndexed', NEW k \in Tasks,
           task[k].pc \in {"insert", "enter"},
           InsertAccount(task[k].socket, task[k].name, task[k].number),
           twinned' \ twinned \subseteq {task[k].name}, twinned \subseteq twinned',
           task[k].name \notin twinned' =>
               \A t \in Sockets : t # task[k].socket => session[t].name # task[k].name
    PROVE  [Held!Next]_Holders
  <1>1. PICK s \in Sockets : s = task[k].socket
    BY TaskIs DEF Steps, LoginSteps, CreateSteps, IInv
  <1>2. PICK c \in Names : c = task[k].name
    BY TaskIs DEF Steps, LoginSteps, CreateSteps, IInv
  <1>3. session'[s].name = c /\ \A t \in Sockets : t # s => session'[t] = session[t]
    BY <1>1, <1>2 DEF InsertAccount, IInv, Core, TypeOK
  <1>4. HolderFacts /\ HolderFacts'
    BY HolderIs, HolderIsNext DEF IInv, Indexed
  <1>5. \A b \in Names : b # c =>
            HolderOf(b)' = IF HolderOf(b) = s THEN NoSocket ELSE HolderOf(b)
    BY <1>2, <1>3, EnterReplaces
  <1>6. CASE c \in twinned'
    <2> DEFINE A == {c} \cup {b \in Names : HolderOf(b) = s}
    <2>1. HolderOf(c)' = NoSocket
      BY <1>4, <1>6 DEF HolderFacts
    <2>2. \A b \in Names : HolderOf(b)' = IF b \in A THEN NoSocket ELSE HolderOf(b)
      BY <1>5, <2>1
    <2>3. A \in SUBSET Names
      OBVIOUS
    <2> HIDE DEF A
    <2>4. Held!Release(A)
      BY <2>2 DEF Held!Release, Holders
    <2> QED BY <2>3, <2>4 DEF Held!Next
  <1>7. CASE c \notin twinned' /\ session[s].name = c
    <2>1. \A b \in Names : HolderOf(b)' = HolderOf(b)
      <3> SUFFICES ASSUME NEW b \in Names PROVE HolderOf(b)' = HolderOf(b)
        OBVIOUS
      <3>1. \A t \in Sockets : session'[t].name = b <=> session[t].name = b
        BY <1>3, <1>7
      <3>2. b \in twinned' <=> b \in twinned
        BY <1>2, <1>7
      <3> QED BY <3>1, <3>2, HolderStays DEF IInv, Indexed
    <2> QED BY <2>1 DEF Holders
  <1>8. CASE c \notin twinned' /\ session[s].name # c
    <2>1. \A t \in Sockets : session[t].name # c
      BY <1>1, <1>2, <1>8
    <2>2. HolderOf(c) = NoSocket /\ HolderOf(c)' = s
      BY <1>3, <1>4, <1>8, <2>1 DEF HolderFacts
    <2>3. Held!Take(c, s)
      BY <1>5, <2>2 DEF Held!Take, Holders
    <2> QED BY <2>3 DEF Held!Next
  <1> QED BY <1>6, <1>7, <1>8

LEMMA StepHolds ==
    ASSUME IInv, IInv', [Next]_vars
    PROVE  [Held!Next]_Holders
  <1>0. SessionsAreIndexed'
    BY DEF IInv, Indexed
  <1>1. CASE UNCHANGED <<session, hist>>
    BY <1>1, SessionSame
  <1>2. ASSUME NEW s \in Sockets, Socket(s)
        PROVE  UNCHANGED hist /\ (RemoveAccount(s) \/ UNCHANGED session)
    BY <1>2 DEF Socket, Connect, RefuseConnection, Close, Cleanup, AccountDisconnect, maps
  <1>3. ASSUME NEW k \in Tasks, LoginStep(k)
        PROVE  UNCHANGED hist /\ (Insert(k) \/ Kick(k) \/ UNCHANGED session)
    BY <1>3 DEF LoginStep, Wake, Find, Verify, Kick, DropOld, Assign, Insert, Strip, GiveUp, Refuse, maps
  <1>4. ASSUME NEW k \in Tasks, Kick(k), UNCHANGED hist PROVE [Held!Next]_Holders
    <2>1. task[k].old \in Sockets /\ RemoveAccount(task[k].old)
      BY <1>4 DEF Kick, IInv, Core, TasksOK, At
    <2> QED BY <1>0, <1>4, <2>1, RemoveReleases
  <1>5. ASSUME NEW k \in Tasks, Insert(k), UNCHANGED hist PROVE [Held!Next]_Holders
    <2>1. task[k].pc = "insert" /\ InsertAccount(task[k].socket, task[k].name, task[k].number)
      BY <1>5 DEF Insert, At
    <2>2. task[k].name \notin twinned => \A t \in Sockets : session[t].name # task[k].name
      BY <2>1 DEF IInv, Indexed, EvictedOK
    <2> QED BY <1>0, <1>5, <2>1, <2>2, EnterTakes DEF hist
  <1>6. ASSUME NEW k \in Tasks, CreateStep(k)
        PROVE  EnterCreated(k) \/ UNCHANGED <<session, hist>>
    BY <1>6 DEF CreateStep, Lookup, Store, StripCreated, GiveUpCreation, maps
  <1>7. ASSUME NEW k \in Tasks, EnterCreated(k) PROVE [Held!Next]_Holders
    <2>1. /\ task[k].pc = "enter" /\ twinned' = twinned \cup Twins(k)
          /\ InsertAccount(task[k].socket, task[k].name, task[k].number)
      BY <1>7 DEF EnterCreated, At
    <2>2. task[k].name \notin twinned' =>
              \A t \in Sockets : t # task[k].socket => session[t].name # task[k].name
      BY <2>1 DEF Twins
    <2>3. Twins(k) \subseteq {task[k].name}
      BY DEF Twins
    <2> QED BY <1>0, <2>1, <2>2, <2>3, EnterTakes
  <1>8. ASSUME NEW k \in Tasks, NEW s \in Sockets, NEW name \in Names,
               BeginLogin(k, s, name) \/ BeginCreate(k, s, name)
        PROVE  UNCHANGED <<session, hist>>
    BY <1>8 DEF BeginLogin, BeginCreate, maps
  <1>9. UNCHANGED vars => UNCHANGED <<session, hist>>
    BY DEF vars, maps
  <1> QED BY <1>0, <1>1, <1>2, <1>3, <1>4, <1>5, <1>6, <1>7, <1>8, <1>9, RemoveReleases DEF Next

\* An account changes hands only by a release and then a take, never directly:
\* the login that kicks a session ends it before it enters its own, and so does
\* every entry of a session, until a creation enters the account next to another.
THEOREM HoldersImplemented == Spec => HoldersTakeTurns
  <1>1. Init => Held!Init
    <2> SUFFICES ASSUME Init PROVE Held!Init
      OBVIOUS
    <2>1. \A a \in Names : HolderOf(a) = NoSocket
      BY NobodyIsNamed, SessionsAssumption DEF Init, HolderOf
    <2> QED BY <2>1 DEF Held!Init
  <1>2. IInv /\ IInv' /\ [Next]_vars => [Held!Next]_Holders
    BY StepHolds
  <1> QED BY <1>1, <1>2, Invariance, PTL DEF Spec, HoldersTakeTurns, Held!Spec, Holders
=============================================================================
