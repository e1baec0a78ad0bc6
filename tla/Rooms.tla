------------------------------- MODULE Rooms -------------------------------
(***************************************************************************)
(* Chat rooms: who is in which room, the name index of the rooms, their    *)
(* admission rules and moderation, and the Socket.IO channel on which a    *)
(* room's messages are broadcast (room/mod.rs, room/admin.rs, the room     *)
(* part of state/world.rs and state/chatroom.rs).                          *)
(*                                                                         *)
(* Every handler takes the write lock of World once and is one action. The *)
(* two handlers that put a socket in a room call socket.join AFTER they    *)
(* have released the lock, so that call is an action of its own            *)
(* (FinishJoin), and other handlers run between the two.                   *)
(*                                                                         *)
(* Room names stand for their upper-case form, which is all that the code  *)
(* compares. The admin, ban and whitelist vectors are only searched,       *)
(* pushed to when the number is absent and filtered: they are sets here.   *)
(*                                                                         *)
(* Nothing here takes it for granted that a socket has one session and an  *)
(* account one socket: a login or a creation that ends on a socket puts    *)
(* its session over the one the socket has. What World's two maps say of   *)
(* such accounts, and what becomes of their numbers in the rooms, is       *)
(* modelled as it is; the variable shared remembers who they are.          *)
(***************************************************************************)
EXTENDS Integers, FiniteSets, SequencesExt, Lists

CONSTANTS
    Sockets,      \* connections (socket ids)
    Members,      \* member numbers of accounts
    RoomIds,      \* values generate_room_id can return
    Names,        \* upper-cased room names
    Envs,         \* environments (PROD, DEV, ...)
    EnvOf,        \* the environment of a socket, fixed by its origin header
    Forms,        \* room settings that clients submit on create and update
    CreateSent,   \* the sets of optional fields that create requests carry
    UpdateSent,   \* the sets of optional fields that update requests carry
    AdminActions, \* the Action strings that clients send
    Targets,      \* the member numbers that they are sent with
    MaxJoining,   \* bound: unfinished joins of one socket to one room
    MaxShared,    \* bound: after so many accounts no other session meets one
    NoMember, NoRoom, NoSocket

Roles == {"All", "Admin", "Whitelist"}

Setting == [limit : Int, admin : SUBSET Members, ban : SUBSET Members,
            whitelist : SUBSET Members, access : SUBSET Roles,
            visibility : SUBSET Roles]

\* The optional fields of the two requests; the others are mandatory.
CreateOptional == {"Admin", "Ban", "Whitelist", "Access", "Limit"}
UpdateOptional == {"Whitelist", "Access", "Visibility", "Limit"}

ASSUME RoomsAssumption ==
    /\ EnvOf \in [Sockets -> Envs]
    /\ Forms \subseteq Setting
    /\ CreateSent \subseteq SUBSET CreateOptional
    /\ UpdateSent \subseteq SUBSET UpdateOptional
    /\ Targets \subseteq Members
    /\ MaxJoining \in Nat \ {0}
    /\ MaxShared \in Nat
    /\ NoMember \notin Members
    /\ NoRoom \notin RoomIds
    /\ NoSocket \notin Sockets

VARIABLES
    status,    \* of a socket: "idle" before login, "live", "closed"
    account,   \* accounts_by_socket: the member logged in on a socket
    found,     \* socket_by_member: the socket under which a member is found
    chatRoom,  \* OnlineAccount.chat_room_id of the account on a socket
    rooms,     \* World.chat_rooms, a function on the ids in use
    index,     \* World.room_by_name_env, from <<env, name>> to an id
    joining,   \* socket.join calls that have not run yet
    channel,   \* the Socket.IO channels a socket has joined
    shared     \* history: the members whose session met another one, on its
               \* socket or of its account on another socket

vars == <<status, account, found, chatRoom, rooms, index, joining, channel, shared>>

----------------------------------------------------------------------------
\* Partial functions. A definition with an underscore in its name (X_Bug) is the
\* definition X with a slip in it: X replaced by it breaks a property.

With(f, k, v) == [x \in DOMAIN f \cup {k} |-> IF x = k THEN v ELSE f[x]]

Drop(f, k) == [x \in DOMAIN f \ {k} |-> f[x]]

\* room.members.iter().position(|&m| m == who): the first of them.
Position(seq, m) == Min({i \in DOMAIN seq : seq[i] = m})

\* retain(|&m| m != who)
Without(seq, m) == Selected(seq, Members \ {m})

\* Vec::swap
Swapped(seq, i, j) == [seq EXCEPT ![i] = seq[j], ![j] = seq[i]]

\* SliceRandom::shuffle may return any reordering.
Shuffles(seq) ==
    {[i \in DOMAIN seq |-> seq[p[i]]] : p \in Bijection(DOMAIN seq, DOMAIN seq)}

----------------------------------------------------------------------------
\* A room.

Key(room) == <<room.env, room.name>>

ROOM_LIMIT_MINIMUM == 2
ROOM_LIMIT_DEFAULT == 10
ROOM_LIMIT_MAXIMUM == 20

\* n is the number after its cast to i32 (Forms holds such numbers).
ValidLimit_Raw(n) == n

ValidLimit(n) ==
    IF n \in ROOM_LIMIT_MINIMUM..ROOM_LIMIT_MAXIMUM THEN n ELSE ROOM_LIMIT_DEFAULT

IsFull(room) == Len(room.members) >= room.limit

HasAnyRole(m, room, roles) ==
    \/ "All" \in roles
    \/ "Admin" \in roles /\ m \in room.admin
    \/ "Whitelist" \in roles /\ m \in room.whitelist

RoomNameExistsAny_OneEnv(name) == <<CHOOSE e \in Envs : TRUE, name>> \in DOMAIN index

RoomNameExistsAny(name) == \E r \in DOMAIN rooms : rooms[r].name = name

\* ChatRoom::new, then the fields the request carries. Visibility (or its
\* older form Private) is mandatory on creation.
NewRoom(m, env, name, form, sent) ==
    [name       |-> name,
     env        |-> env,
     members    |-> <<m>>,
     limit      |-> IF "Limit" \in sent THEN ValidLimit(form.limit)
                                        ELSE ROOM_LIMIT_DEFAULT,
     admin      |-> IF "Admin" \in sent THEN form.admin ELSE {m},
     ban        |-> IF "Ban" \in sent THEN form.ban ELSE {},
     whitelist  |-> IF "Whitelist" \in sent THEN form.whitelist ELSE {},
     access     |-> IF "Access" \in sent THEN form.access ELSE {"All"},
     visibility |-> form.visibility]

\* apply_update: an absent whitelist, access or visibility list is kept, an
\* absent limit is reset to the default.
UpdatedRoom(room, name, form, sent) ==
    [room EXCEPT
        !.name       = name,
        !.admin      = form.admin,
        !.ban        = form.ban,
        !.limit      = IF "Limit" \in sent THEN ValidLimit(form.limit)
                                           ELSE ROOM_LIMIT_DEFAULT,
        !.whitelist  = IF "Whitelist" \in sent THEN form.whitelist ELSE @,
        !.access     = IF "Access" \in sent THEN form.access ELSE @,
        !.visibility = IF "Visibility" \in sent THEN form.visibility ELSE @]

----------------------------------------------------------------------------
\* World's maps of accounts.

SessionsOf(m) == {s \in Sockets : account[s] = m}

Online(m) == SessionsOf(m) # {}

\* get_by_member finds an account: there is a session, be it of this account or
\* of another one, on the socket under which the member is filed.
Known(m) == found[m] # NoSocket /\ account[found[m]] # NoMember

----------------------------------------------------------------------------
\* leave_room_inner_reason(r, m): the number m is taken out of the room r, and
\* a room that is left empty is removed with its key; the chat_room_id of the
\* first session with the number is cleared, which is any of them if it has
\* several; the socket under which m is found leaves the channel. Without a
\* chat_room_id (r is NoRoom) it is not called.

Empties(r, m) == r \in DOMAIN rooms /\ Without(rooms[r].members, m) = <<>>

\* The rooms without m in r, whose other fields are then those of room.
LeftAs_KeepsEmpty(r, room, m) ==
    [rooms EXCEPT ![r] = [room EXCEPT !.members = Without(@, m)]]

LeftAs(r, room, m) ==
    IF Without(room.members, m) = <<>> THEN Drop(rooms, r)
    ELSE [rooms EXCEPT ![r] = [room EXCEPT !.members = Without(@, m)]]

RoomsLeft(r, m) == IF r \in DOMAIN rooms THEN LeftAs(r, rooms[r], m) ELSE rooms

IndexLeft_Kept(r, m) == index

IndexLeft(r, m) == IF Empties(r, m) THEN Drop(index, Key(rooms[r])) ELSE index

ChatRoomsLeft(r, m) ==
    IF r = NoRoom \/ ~ Online(m) THEN {chatRoom}
    ELSE {[chatRoom EXCEPT ![t] = NoRoom] : t \in SessionsOf(m)}

ChannelLeft(r, m) ==
    IF r \in DOMAIN rooms /\ Known(m)
    THEN [channel EXCEPT ![found[m]] = @ \ {r}] ELSE channel

\* The member on socket s leaves its room.
Leave(s) ==
    /\ rooms' = RoomsLeft(chatRoom[s], account[s])
    /\ index' = IndexLeft(chatRoom[s], account[s])
    /\ chatRoom' \in ChatRoomsLeft(chatRoom[s], account[s])
    /\ channel' = ChannelLeft(chatRoom[s], account[s])

----------------------------------------------------------------------------
\* Sessions, as far as the rooms see them.

\* The accounts that a new session of m on s meets: the one it is put over,
\* those still filed under s, and its own if it has a session already.
Met(s, m) ==
    LET others == ({account[s]} \cup {x \in Members : found[x] = s}) \ {m, NoMember}
    IN  others \cup IF others # {} \/ Online(m) THEN {m} ELSE {}

\* World.insert_account, which does not look what the socket had.
InsertAccount(s, m) ==
    /\ status' = [status EXCEPT ![s] = IF @ = "idle" THEN "live" ELSE @]
    /\ account' = [account EXCEPT ![s] = m]
    /\ found' = [found EXCEPT ![m] = s]
    /\ shared' = shared \cup Met(s, m)
    /\ Met(s, m) # {} => Cardinality(shared) < MaxShared
    /\ UNCHANGED <<joining, channel>>

\* remove_member_from_all_rooms, which scans every room for a number that an
\* earlier session has left behind, and clears the chat_room_id of the account
\* that is found under it.
EmptiesAny(m) == {r \in DOMAIN rooms : Without(rooms[r].members, m) = <<>>}

RoomsLeftAll(m) ==
    [r \in DOMAIN rooms \ EmptiesAny(m) |->
        [rooms[r] EXCEPT !.members = Without(@, m)]]

IndexLeftAll(m) ==
    [k \in DOMAIN index \ {Key(rooms[r]) : r \in EmptiesAny(m)} |-> index[k]]

\* The last step of handle_account_login. An older session of the account was
\* removed before (SignOut), if there was one by then. A login that outlives its
\* socket leaves a session that makes no request (Sessions); here it is like a
\* socket that stays silent.
Login(s, m) ==
    /\ InsertAccount(s, m)
    /\ rooms' = RoomsLeftAll(m)
    /\ index' = IndexLeftAll(m)
    /\ chatRoom' = [t \in Sockets |-> IF t \in {s, found[m]} THEN NoRoom
                                     ELSE chatRoom[t]]

\* The last step of handle_account_create, which scans nothing. Its number is
\* new, unless somebody has logged in to the new row by then: any number will do.
CreateAccount(s, m) ==
    /\ InsertAccount(s, m)
    /\ chatRoom' = [chatRoom EXCEPT ![s] = NoRoom]
    /\ UNCHANGED <<rooms, index>>

RemoveAccount_KeepsEntry(s) ==
    /\ account' = [account EXCEPT ![s] = NoMember]
    /\ UNCHANGED found

\* World.remove_account, which drops the member's entry wherever it points. Of
\* chatRoom it is left to the callers to choose how the leaving has cleared it.
RemoveAccount(s) ==
    /\ account' = [account EXCEPT ![s] = NoMember]
    /\ found' = [m \in Members |-> IF m = account[s] THEN NoSocket ELSE found[m]]

SignOut_StaysInRoom(s) ==
    /\ account[s] # NoMember
    /\ RemoveAccount(s)
    /\ chatRoom' = [chatRoom EXCEPT ![s] = NoRoom]
    /\ UNCHANGED <<status, rooms, index, joining, channel, shared>>

\* The member on s leaves its room, and the session of s ends.
EndSession(s) ==
    /\ RemoveAccount(s)
    /\ rooms' = RoomsLeft(chatRoom[s], account[s])
    /\ index' = IndexLeft(chatRoom[s], account[s])
    /\ \E cr \in ChatRoomsLeft(chatRoom[s], account[s]) :
          chatRoom' = [cr EXCEPT ![s] = NoRoom]

\* The session of s ends and its socket stays open: the client sent
\* AccountDisconnect, or the account has logged in from another socket. A kicked
\* socket is disconnected by a later step (Close).
SignOut(s) ==
    /\ account[s] # NoMember
    /\ EndSession(s)
    /\ channel' = ChannelLeft(chatRoom[s], account[s])
    /\ UNCHANGED <<status, joining, shared>>

\* The transport of s goes away; socketioxide takes it out of its channels and
\* starts on_disconnect_cleanup.
Close(s) ==
    /\ status[s] = "live"
    /\ status' = [status EXCEPT ![s] = "closed"]
    /\ channel' = [channel EXCEPT ![s] = {}]
    /\ UNCHANGED <<account, found, chatRoom, rooms, index, joining, shared>>

Cleanup_StaysInRoom(s) ==
    /\ status[s] = "closed"
    /\ status' = [status EXCEPT ![s] = "idle"]
    /\ RemoveAccount(s)
    /\ joining' = [joining EXCEPT ![s] = [r \in RoomIds |-> 0]]
    /\ chatRoom' = [chatRoom EXCEPT ![s] = NoRoom]
    /\ UNCHANGED <<rooms, index, channel, shared>>

\* The second locked section of on_disconnect_cleanup, after its database write.
\* A join task that is still to run finds no socket, and is forgotten.
Cleanup(s) ==
    /\ status[s] = "closed"
    /\ status' = [status EXCEPT ![s] = "idle"]
    /\ EndSession(s)
    /\ joining' = [joining EXCEPT ![s] = [r \in RoomIds |-> 0]]
    /\ channel' = ChannelLeft(chatRoom[s], account[s])
    /\ UNCHANGED shared

----------------------------------------------------------------------------
\* Creating, joining and leaving a room.

\* generate_room_id draws 16 random bytes: an id nothing refers to any more.
Fresh(r) ==
    /\ r \notin DOMAIN rooms
    /\ \A s \in Sockets : chatRoom[s] # r /\ r \notin channel[s] /\ joining[s][r] = 0

\* Socket s enters r, after it has left the room it was in.
Enter(s, r) ==
    /\ \E cr \in ChatRoomsLeft(chatRoom[s], account[s]) :
          chatRoom' = [cr EXCEPT ![s] = r]
    /\ channel' = ChannelLeft(chatRoom[s], account[s])
    /\ joining[s][r] < MaxJoining
    /\ joining' = [joining EXCEPT ![s][r] = @ + 1]

CreateRoom(s, r, name, form, sent) ==
    /\ account[s] # NoMember
    /\ Fresh(r)
    /\ ~ RoomNameExistsAny(name)
    /\ LET room == NewRoom(account[s], EnvOf[s], name, form, sent)
       IN  /\ rooms' = With(RoomsLeft(chatRoom[s], account[s]), r, room)
           /\ index' = With(IndexLeft(chatRoom[s], account[s]), Key(room), r)
    /\ Enter(s, r)
    /\ UNCHANGED <<status, account, found, shared>>

JoinAnswer_IgnoresBan(s, name) ==
    LET key == <<EnvOf[s], name>>
        r   == index[key]
        m   == account[s]
    IN  CASE m = NoMember -> "AccountError"
          [] m # NoMember /\ key \notin DOMAIN index -> "CannotFindRoom"
          [] OTHER ->
             IF IsFull(rooms[r]) THEN "RoomFull"
             ELSE IF ~ HasAnyRole(m, rooms[r], rooms[r].access) THEN "RoomLocked"
             ELSE IF chatRoom[s] = r THEN "AlreadyInRoom"
             ELSE IF ~ Known(m) THEN "NotOnline"
             ELSE "JoinedRoom"

\* What handle_chat_room_join answers to socket s. NotOnline stands for the
\* AccountError after the leaving, when get_by_member does not find the account.
JoinAnswer(s, name) ==
    LET key == <<EnvOf[s], name>>
        r   == index[key]
        m   == account[s]
    IN  CASE m = NoMember -> "AccountError"
          [] m # NoMember /\ key \notin DOMAIN index -> "CannotFindRoom"
          [] OTHER ->
             IF IsFull(rooms[r]) THEN "RoomFull"
             ELSE IF m \in rooms[r].ban THEN "RoomBanned"
             ELSE IF ~ HasAnyRole(m, rooms[r], rooms[r].access) THEN "RoomLocked"
             ELSE IF chatRoom[s] = r THEN "AlreadyInRoom"
             ELSE IF ~ Known(m) THEN "NotOnline"
             ELSE "JoinedRoom"

JoinRoom(s, name) ==
    /\ JoinAnswer(s, name) = "JoinedRoom"
    /\ LET r    == index[<<EnvOf[s], name>>]
           left == RoomsLeft(chatRoom[s], account[s])
       IN  /\ rooms' = [left EXCEPT ![r].members = Append(@, account[s])]
           /\ index' = IndexLeft(chatRoom[s], account[s])
           /\ Enter(s, r)
    /\ UNCHANGED <<status, account, found, shared>>

\* By then the member has left the room it was in.
FailJoin(s, name) ==
    /\ JoinAnswer(s, name) = "NotOnline"
    /\ Leave(s)
    /\ UNCHANGED <<status, account, found, joining, shared>>

FinishJoin_OnlyChannel(s, r) ==
    /\ joining[s][r] > 0
    /\ joining' = [joining EXCEPT ![s][r] = @ - 1]
    /\ channel' = IF status[s] = "live"
                  THEN [channel EXCEPT ![s] = {r}] ELSE channel
    /\ UNCHANGED <<status, account, found, chatRoom, rooms, index, shared>>

\* socket.join, which runs after the world lock is released. A socket whose
\* transport is gone receives nothing.
FinishJoin(s, r) ==
    /\ joining[s][r] > 0
    /\ joining' = [joining EXCEPT ![s][r] = @ - 1]
    /\ channel' = IF status[s] = "live"
                  THEN [channel EXCEPT ![s] = @ \cup {r}] ELSE channel
    /\ UNCHANGED <<status, account, found, chatRoom, rooms, index, shared>>

LeaveRoom(s) ==
    /\ account[s] # NoMember
    /\ chatRoom[s] # NoRoom
    /\ Leave(s)
    /\ UNCHANGED <<status, account, found, joining, shared>>

----------------------------------------------------------------------------
\* handle_chat_room_admin. The requester's chat_room_id names the room and it is
\* one of its admins; on itself it may only change positions.

SelfActions == {"Swap", "MoveLeft", "MoveRight"}

MayAdmin_Anybody(s, action, target) ==
    /\ action \in AdminActions
    /\ account[s] # NoMember
    /\ chatRoom[s] \in DOMAIN rooms
    /\ target = account[s] => action \in SelfActions

MayAdmin(s, action, target) ==
    /\ action \in AdminActions
    /\ account[s] # NoMember
    /\ chatRoom[s] \in DOMAIN rooms
    /\ account[s] \in rooms[chatRoom[s]].admin
    /\ target = account[s] => action \in SelfActions

InRoom(m, r) == m \in ToSet(rooms[r].members)

SetRoom(r, room) ==
    /\ rooms' = [rooms EXCEPT ![r] = room]
    /\ UNCHANGED <<status, account, found, chatRoom, index, joining, channel, shared>>

UpdateRoom(s, name, form, sent) ==
    LET r    == chatRoom[s]
        room == UpdatedRoom(rooms[r], name, form, sent)
    IN  /\ \E target \in Members : MayAdmin(s, "Update", target)
        /\ name = rooms[r].name \/ ~ RoomNameExistsAny(name)
        /\ rooms' = [rooms EXCEPT ![r] = room]
        /\ index' = IF Key(rooms[r]) = Key(room) THEN index
                    ELSE With(Drop(index, Key(rooms[r])), Key(room), r)
        /\ UNCHANGED <<status, account, found, chatRoom, joining, channel, shared>>

\* The member that the request names is irrelevant to a swap.
Swap(s, t, d) ==
    LET r   == chatRoom[s]
        seq == rooms[r].members
    IN  /\ \E target \in Members : MayAdmin(s, "Swap", target)
        /\ t # d
        /\ InRoom(t, r)
        /\ InRoom(d, r)
        /\ SetRoom(r, [rooms[r] EXCEPT
                          !.members = Swapped(seq, Position(seq, t), Position(seq, d))])

MoveLeft(s, m) ==
    LET r   == chatRoom[s]
        seq == rooms[r].members
        i   == Position(seq, m)
    IN  /\ MayAdmin(s, "MoveLeft", m)
        /\ InRoom(m, r)
        /\ i > 1
        /\ SetRoom(r, [rooms[r] EXCEPT !.members = Swapped(seq, i, i - 1)])

MoveRight(s, m) ==
    LET r   == chatRoom[s]
        seq == rooms[r].members
        i   == Position(seq, m)
    IN  /\ MayAdmin(s, "MoveRight", m)
        /\ InRoom(m, r)
        /\ i < Len(seq)
        /\ SetRoom(r, [rooms[r] EXCEPT !.members = Swapped(seq, i, i + 1)])

Shuffle(s, m) ==
    LET r == chatRoom[s]
    IN  /\ MayAdmin(s, "Shuffle", m)
        /\ InRoom(m, r)
        /\ \E seq \in Shuffles(rooms[r].members) :
              SetRoom(r, [rooms[r] EXCEPT !.members = seq])

Evict_RequesterLeaves(s, m, room) ==
    LET r == chatRoom[s]
    IN  /\ InRoom(m, r)
        /\ rooms' = LeftAs(r, room, m)
        /\ index' = IndexLeft(r, m)
        /\ chatRoom' \in ChatRoomsLeft(r, m)
        /\ channel' = [channel EXCEPT ![s] = @ \ {r}]
        /\ UNCHANGED <<status, account, found, joining, shared>>

\* The number m, which is in the room, is put out of it.
Evict(s, m, room) ==
    LET r == chatRoom[s]
    IN  /\ InRoom(m, r)
        /\ rooms' = LeftAs(r, room, m)
        /\ index' = IndexLeft(r, m)
        /\ chatRoom' \in ChatRoomsLeft(r, m)
        /\ channel' = ChannelLeft(r, m)
        /\ UNCHANGED <<status, account, found, joining, shared>>

Kick(s, m) ==
    /\ MayAdmin(s, "Kick", m)
    /\ Evict(s, m, rooms[chatRoom[s]])

BanPresent(s, m) ==
    /\ MayAdmin(s, "Ban", m)
    /\ Evict(s, m, [rooms[chatRoom[s]] EXCEPT !.ban = @ \cup {m}])

\* Ban and Unban of a member who is not in the room; Whitelist and Unwhitelist
\* of anybody; Promote and Demote of a member who is. Each is ignored when the
\* list would not change.
EditList(s, m) ==
    LET r    == chatRoom[s]
        room == rooms[r]
        edit(action, new) == MayAdmin(s, action, m) /\ new # room /\ SetRoom(r, new)
    IN  /\ r \in DOMAIN rooms
        /\ \/ ~ InRoom(m, r) /\ edit("Ban", [room EXCEPT !.ban = @ \cup {m}])
           \/ ~ InRoom(m, r) /\ edit("Unban", [room EXCEPT !.ban = @ \ {m}])
           \/ edit("Whitelist", [room EXCEPT !.whitelist = @ \cup {m}])
           \/ edit("Unwhitelist", [room EXCEPT !.whitelist = @ \ {m}])
           \/ InRoom(m, r) /\ edit("Promote", [room EXCEPT !.admin = @ \cup {m}])
           \/ InRoom(m, r) /\ edit("Demote", [room EXCEPT !.admin = @ \ {m}])

----------------------------------------------------------------------------
\* handle_chat_room_search, which changes nothing. The filters on space,
\* language, game, map type and ignored names drop rooms whatever their state
\* is, and are left out. A search that spells the whole name (exact) finds a
\* room that its visibility list hides.

Listed_ShowsBanned(s, r, exact, fullRooms, showLocked) ==
    LET room == rooms[r]
        m    == account[s]
    IN  /\ room.env = EnvOf[s]
        /\ IsFull(room) => fullRooms
        /\ exact \/ HasAnyRole(m, room, room.visibility)
        /\ showLocked \/ HasAnyRole(m, room, room.access)

Listed(s, r, exact, fullRooms, showLocked) ==
    LET room == rooms[r]
        m    == account[s]
    IN  /\ room.env = EnvOf[s]
        /\ IsFull(room) => fullRooms
        /\ m \notin room.ban
        /\ exact \/ HasAnyRole(m, room, room.visibility)
        /\ showLocked \/ HasAnyRole(m, room, room.access)

\* The CanJoin flag of a search result.
CanJoin(s, r) == HasAnyRole(account[s], rooms[r], rooms[r].access)

----------------------------------------------------------------------------

Init ==
    /\ status = [s \in Sockets |-> "idle"]
    /\ account = [s \in Sockets |-> NoMember]
    /\ found = [m \in Members |-> NoSocket]
    /\ chatRoom = [s \in Sockets |-> NoRoom]
    /\ rooms = [r \in {} |-> {}]
    /\ index = [k \in {} |-> {}]
    /\ joining = [s \in Sockets |-> [r \in RoomIds |-> 0]]
    /\ channel = [s \in Sockets |-> {}]
    /\ shared = {}

Admin(s) ==
    \/ \E name \in Names, form \in Forms, sent \in UpdateSent :
          UpdateRoom(s, name, form, sent)
    \/ \E t, d \in Members : Swap(s, t, d)
    \/ \E m \in Targets : MoveLeft(s, m)
    \/ \E m \in Targets : MoveRight(s, m)
    \/ \E m \in Targets : Shuffle(s, m)
    \/ \E m \in Targets : Kick(s, m)
    \/ \E m \in Targets : BanPresent(s, m)
    \/ \E m \in Targets : EditList(s, m)

Step(s) ==
    \/ \E m \in Members : Login(s, m)
    \/ \E m \in Members : CreateAccount(s, m)
    \/ SignOut(s)
    \/ Close(s)
    \/ Cleanup(s)
    \/ \E r \in RoomIds, name \in Names, form \in Forms,
          sent \in CreateSent : CreateRoom(s, r, name, form, sent)
    \/ \E name \in Names : JoinRoom(s, name)
    \/ \E name \in Names : FailJoin(s, name)
    \/ \E r \in RoomIds : FinishJoin(s, r)
    \/ LeaveRoom(s)
    \/ Admin(s)

Next == \E s \in Sockets : Step(s)

Spec == Init /\ [][Next]_vars

\* A task of the runtime runs to its end: a join that is under way calls
\* socket.join, and the cleanup of a closed socket reaches its last section.
Fairness ==
    \A s \in Sockets :
        /\ WF_vars(Cleanup(s))
        /\ \A r \in RoomIds : WF_vars(FinishJoin(s, r))

FairSpec == Spec /\ Fairness

----------------------------------------------------------------------------
\* Properties.

Room == [name : Names, env : Envs, limit : ROOM_LIMIT_MINIMUM..ROOM_LIMIT_MAXIMUM,
         admin : SUBSET Members, ban : SUBSET Members,
         whitelist : SUBSET Members, access : SUBSET Roles,
         visibility : SUBSET Roles, members : Seq(Members)]

\* Every variable holds a value of its type; rooms and index are functions on
\* the ids and the keys in use, and the limit of a room is always in range.
TypeOK ==
    /\ status \in [Sockets -> {"idle", "live", "closed"}]
    /\ account \in [Sockets -> Members \cup {NoMember}]
    /\ found \in [Members -> Sockets \cup {NoSocket}]
    /\ chatRoom \in [Sockets -> RoomIds \cup {NoRoom}]
    /\ DOMAIN rooms \subseteq RoomIds
    /\ rooms \in [DOMAIN rooms -> Room]
    /\ DOMAIN index \subseteq Envs \X Names
    /\ index \in [DOMAIN index -> RoomIds]
    /\ joining \in [Sockets -> [RoomIds -> 0..MaxJoining]]
    /\ channel \in [Sockets -> SUBSET RoomIds]
    /\ shared \subseteq Members

\* The maps of accounts agree about an account that has met no other: it has one
\* session, found under its number, and nobody else is found there.
SessionFound ==
    \A m \in Members \ shared :
        /\ \A s \in Sockets : account[s] = m <=> found[m] = s
        /\ \A x \in Members : found[x] = found[m] /\ found[m] # NoSocket => x = m

\* The two records of where a member is agree: the chat_room_id of an account
\* names a room that holds its member number, and a number that a room holds is
\* that of an account whose chat_room_id is this room. What two accounts who have
\* met on a socket do to each other's records does not reach anybody else's.
MembershipAgrees ==
    /\ \A s \in Sockets : chatRoom[s] # NoRoom =>
          /\ account[s] # NoMember
          /\ account[s] \notin shared =>
                chatRoom[s] \in DOMAIN rooms /\ InRoom(account[s], chatRoom[s])
    /\ \A r \in DOMAIN rooms : \A m \in ToSet(rooms[r].members) \ shared :
          \E s \in Sockets : account[s] = m /\ chatRoom[s] = r

\* A room holds a number once, unless its account has met another, and a room
\* that nobody is in does not exist.
OccupiedOnce ==
    \A r \in DOMAIN rooms :
        LET seq == rooms[r].members
        IN  /\ \A i, j \in DOMAIN seq : seq[i] = seq[j] /\ seq[i] \notin shared => i = j
            /\ seq # <<>>

\* The name index and the rooms are each other's inverse, through creation,
\* renaming and removal.
IndexExact ==
    /\ \A r \in DOMAIN rooms :
          Key(rooms[r]) \in DOMAIN index /\ index[Key(rooms[r])] = r
    /\ \A k \in DOMAIN index :
          index[k] \in DOMAIN rooms /\ Key(rooms[index[k]]) = k

\* Two rooms never share a name, not even in different environments ("name
\* unique globally", room/mod.rs:373).
NamesUnique ==
    \A q, r \in DOMAIN rooms : rooms[q].name = rooms[r].name => q = r

\* A connected member of a room hears the room, or is about to: no sequence of
\* joins, moves and leaves takes the channel away from somebody who stays.
NoDeafMember ==
    \A s \in Sockets :
        status[s] = "live" /\ chatRoom[s] # NoRoom /\ account[s] \notin shared =>
            chatRoom[s] \in channel[s] \/ joining[s][chatRoom[s]] > 0

\* What a search promises, a join keeps: a room that a search without FullRooms
\* returns with CanJoin admits the searcher under its displayed name.
SearchIsHonest ==
    \A s \in Sockets, r \in DOMAIN rooms, exact, locked \in BOOLEAN :
        /\ account[s] \notin shared \cup {NoMember}
        /\ chatRoom[s] # r
        /\ Listed(s, r, exact, FALSE, locked)
        /\ CanJoin(s, r)
        => /\ JoinAnswer(s, rooms[r].name) = "JoinedRoom"
           /\ index[<<EnvOf[s], rooms[r].name>>] = r

\* Nobody gets into a room that exists but through its rules: not banned, with
\* a role that its access list asks for, and with a place left. No reordering,
\* no login and no other member's move can put a number into a room.
EntryIsAdmitted ==
    [][\A r \in DOMAIN rooms \cap DOMAIN rooms' :
          \A m \in ToSet(rooms'[r].members) \ ToSet(rooms[r].members) :
              /\ m \notin rooms[r].ban
              /\ HasAnyRole(m, rooms[r], rooms[r].access)
              /\ Len(rooms'[r].members) <= rooms[r].limit]_vars

\* The rules of a room change only by one of its admins who is in it, and who
\* is still in it afterwards. (An account that has met another may be out of the
\* list while its chat_room_id names the room.)
RulesByAdmin ==
    [][\A r \in DOMAIN rooms \cap DOMAIN rooms' :
          [rooms'[r] EXCEPT !.members = <<>>] # [rooms[r] EXCEPT !.members = <<>>]
          => \E m \in rooms[r].admin :
                \/ InRoom(m, r) /\ m \in ToSet(rooms'[r].members)
                \/ m \in shared /\ Online(m)]_vars

\* The comment in leave_room_inner_reason, "Target leaves the Socket.IO room if
\* still connected" (room/mod.rs:693): with no join under way, a connected
\* socket is in the channel of a room only if its account is in the room.
ChannelIsMembership ==
    \A s \in Sockets, r \in RoomIds :
        status[s] = "live" /\ r \in channel[s] /\ joining[s][r] = 0 => chatRoom[s] = r

\* Every member of a room who stays connected hears it in the end.
EventuallyHeard ==
    \A s \in Sockets, r \in RoomIds :
        chatRoom[s] = r ~>
            r \in channel[s] \/ chatRoom[s] # r \/ status[s] # "live"
            \/ account[s] \in shared

\* A number whose owner is disconnected does not stay in a room: it is taken out
\* unless the account comes back. Only the number of an account whose session
\* was overwritten on its socket, or that had two, may stay.
GhostsLeave ==
    \A r \in RoomIds, m \in Members :
        LET here == r \in DOMAIN rooms /\ InRoom(m, r)
            live == \E s \in Sockets : account[s] = m /\ status[s] = "live"
        IN  here /\ ~ live ~> ~ here \/ live \/ m \in shared

\* The rooms implement Placement: a member is in one place unless its session met
\* another, each step moves one member at most and into one room at most, and the
\* rooms that exist are those somebody is in.
Where == [m \in Members |-> {r \in DOMAIN rooms : InRoom(m, r)}]

Placed == INSTANCE Placement WITH place <- Where, open <- DOMAIN rooms, loose <- shared

PlacementHolds == Placed!Spec
=============================================================================
