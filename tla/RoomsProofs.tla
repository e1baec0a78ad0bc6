---------------------------- MODULE RoomsProofs ----------------------------
(***************************************************************************)
(* Proofs about Rooms, for every choice of its constants.                  *)
(***************************************************************************)
EXTENDS Rooms, ListsProofs

----------------------------------------------------------------------------
\* Lists of members. A list may hold a number several times if the number is in
\* sh: those of the accounts that have met another one.

OnceIn(seq, sh) ==
    \A i, j \in DOMAIN seq : seq[i] = seq[j] /\ seq[i] \notin sh => i = j

LEMMA PositionFound ==
    ASSUME NEW S, NEW seq \in Seq(S), NEW m \in ToSet(seq)
    PROVE  Position(seq, m) \in 1..Len(seq) /\ seq[Position(seq, m)] = m
<1> DEFINE at == {i \in DOMAIN seq : seq[i] = m}
<1>1. at \in SUBSET Nat /\ at # {} /\ at \subseteq 1..Len(seq)
  BY DEF ToSet
<1>2. Min(at) \in at
  <2> HIDE DEF at
  <2> QED BY <1>1, MinFacts
<1>3. QED BY <1>1, <1>2 DEF Position

LEMMA WithoutFacts ==
    ASSUME NEW seq \in Seq(Members), NEW sh, OnceIn(seq, sh), NEW m
    PROVE  /\ Without(seq, m) \in Seq(Members)
           /\ OnceIn(Without(seq, m), sh)
           /\ ToSet(Without(seq, m)) = ToSet(seq) \ {m}
<1> DEFINE w == Without(seq, m)
           S == Members \ {m}
<1>1. /\ w \in Seq(Members)
      /\ \A i \in DOMAIN w : w[i] \in S /\ \E j \in DOMAIN seq : w[i] = seq[j]
      /\ \A j \in DOMAIN seq : seq[j] \in S => \E i \in DOMAIN w : w[i] = seq[j]
      /\ \A a, b \in DOMAIN w : a < b =>
            \E i, j \in DOMAIN seq : i < j /\ w[a] = seq[i] /\ w[b] = seq[j]
  <2>1. w = Selected(seq, S)
    BY DEF Without
  <2> HIDE DEF w, S
  <2>2. QED BY <2>1, SelectedFacts
<1> HIDE DEF w
<1>2. ASSUME NEW a \in DOMAIN w, NEW b \in DOMAIN w, a < b, w[a] = w[b]
      PROVE  w[a] \in sh
  <2>1. PICK i, j \in DOMAIN seq : i < j /\ w[a] = seq[i] /\ w[b] = seq[j]
    BY <1>1, <1>2
  <2>2. i \in Nat /\ j \in Nat /\ i # j
    BY <2>1
  <2>3. QED BY <1>2, <2>1, <2>2 DEF OnceIn
<1>3. OnceIn(w, sh)
  <2>1. DOMAIN w \subseteq Nat
    BY <1>1
  <2>2. SUFFICES ASSUME NEW a \in DOMAIN w, NEW b \in DOMAIN w,
                        w[a] = w[b], w[a] \notin sh
                 PROVE  a = b
    BY DEF OnceIn
  <2>3. ~ (a < b) /\ ~ (b < a)
    BY <1>2, <2>2
  <2>4. QED BY <2>1, <2>3
<1>4. ToSet(w) = ToSet(seq) \ {m}
  <2>1. ToSet(w) \subseteq ToSet(seq) \ {m}
    BY <1>1 DEF ToSet
  <2>2. ASSUME NEW x \in ToSet(seq) \ {m} PROVE x \in ToSet(w)
    <3>1. PICK j \in DOMAIN seq : seq[j] = x
      BY DEF ToSet
    <3>2. seq[j] \in S
      BY <2>2, <3>1
    <3>3. QED BY <1>1, <3>1, <3>2 DEF ToSet
  <2>3. QED BY <2>1, <2>2
<1>5. QED BY <1>1, <1>3, <1>4 DEF w

LEMMA SwappedFacts ==
    ASSUME NEW S, NEW seq \in Seq(S), NEW sh, OnceIn(seq, sh),
           NEW i \in 1..Len(seq), NEW j \in 1..Len(seq)
    PROVE  /\ Swapped(seq, i, j) \in Seq(S)
           /\ OnceIn(Swapped(seq, i, j), sh)
           /\ ToSet(Swapped(seq, i, j)) = ToSet(seq)
<1> DEFINE w == Swapped(seq, i, j)
<1>1. /\ w \in Seq(S)
      /\ Len(w) = Len(seq)
      /\ \A k \in 1..Len(seq) :
            w[k] = IF k = j THEN seq[i] ELSE IF k = i THEN seq[j] ELSE seq[k]
  BY DEF Swapped
<1> HIDE DEF w
<1>2. OnceIn(w, sh)
  BY <1>1 DEF OnceIn
<1>3. ToSet(w) = ToSet(seq)
  BY <1>1 DEF ToSet
<1>4. QED BY <1>1, <1>2, <1>3 DEF w

LEMMA ShufflesFacts ==
    ASSUME NEW S, NEW seq \in Seq(S), NEW sh, OnceIn(seq, sh), NEW w \in Shuffles(seq)
    PROVE  w \in Seq(S) /\ OnceIn(w, sh) /\ ToSet(w) = ToSet(seq)
<1> DEFINE n == Len(seq)
<1>1. n \in Nat /\ DOMAIN seq = 1..n /\ \A i \in 1..n : seq[i] \in S
  OBVIOUS
<1>2. PICK p \in Bijection(1..n, 1..n) : w = [i \in 1..n |-> seq[p[i]]]
  BY <1>1 DEF Shuffles
<1> HIDE DEF n
<1>3. /\ p \in [1..n -> 1..n]
      /\ \A i, j \in 1..n : p[i] = p[j] => i = j
      /\ \A k \in 1..n : \E i \in 1..n : p[i] = k
  BY <1>2 DEF Bijection, Injection, Surjection, IsInjective
<1>4. w \in Seq(S) /\ DOMAIN w = 1..n /\ \A i \in 1..n : w[i] = seq[p[i]]
  BY <1>1, <1>2, <1>3
<1>5. OnceIn(w, sh)
  <2>1. SUFFICES ASSUME NEW i \in 1..n, NEW j \in 1..n, w[i] = w[j], w[i] \notin sh
                 PROVE  i = j
    BY <1>4 DEF OnceIn
  <2>2. seq[p[i]] = seq[p[j]] /\ seq[p[i]] \notin sh /\ p[i] \in 1..n /\ p[j] \in 1..n
    BY <1>3, <1>4, <2>1
  <2>3. p[i] = p[j]
    BY <1>1, <2>2 DEF OnceIn
  <2>4. QED BY <1>3, <2>3
<1>6. ToSet(w) = ToSet(seq)
  <2>1. ASSUME NEW x \in ToSet(w) PROVE x \in ToSet(seq)
    <3>1. PICK i \in 1..n : x = w[i]
      BY <1>4 DEF ToSet
    <3>2. x = seq[p[i]] /\ p[i] \in 1..n
      BY <1>3, <1>4, <3>1
    <3>3. QED BY <1>1, <3>2 DEF ToSet
  <2>2. ASSUME NEW x \in ToSet(seq) PROVE x \in ToSet(w)
    <3>1. PICK k \in 1..n : x = seq[k]
      BY <1>1 DEF ToSet
    <3>2. PICK i \in 1..n : p[i] = k
      BY <1>3
    <3>3. x = w[i]
      BY <1>4, <3>1, <3>2
    <3>4. QED BY <1>4, <3>3 DEF ToSet
  <2>3. QED BY <2>1, <2>2
<1>7. QED BY <1>4, <1>5, <1>6

LEMMA AppendFacts ==
    ASSUME NEW S, NEW seq \in Seq(S), NEW sh, OnceIn(seq, sh), NEW m \in S,
           m \in sh \/ m \notin ToSet(seq)
    PROVE  /\ Append(seq, m) \in Seq(S)
           /\ OnceIn(Append(seq, m), sh)
           /\ ToSet(Append(seq, m)) = ToSet(seq) \cup {m}
           /\ Append(seq, m) # <<>>
<1> DEFINE w == Append(seq, m)
           n == Len(seq)
<1>1. /\ n \in Nat /\ DOMAIN seq = 1..n
      /\ w \in Seq(S) /\ DOMAIN w = 1..(n + 1) /\ w # <<>>
      /\ w[n + 1] = m /\ \A i \in 1..n : w[i] = seq[i]
  OBVIOUS
<1> HIDE DEF w, n
<1>2. \A i \in 1..(n + 1) : i \in 1..n \/ i = n + 1
  BY <1>1
<1>3. OnceIn(w, sh)
  BY <1>1, <1>2 DEF OnceIn, ToSet
<1>4. ToSet(w) = ToSet(seq) \cup {m}
  BY <1>1, <1>2 DEF ToSet
<1>5. QED BY <1>1, <1>3, <1>4 DEF w

LEMMA EmptyList ==
    ASSUME NEW S, NEW seq \in Seq(S)
    PROVE  seq = <<>> <=> ToSet(seq) = {}
<1>1. CASE Len(seq) = 0
  BY <1>1 DEF ToSet
<1>2. CASE Len(seq) > 0
  BY <1>2 DEF ToSet
<1>3. QED BY <1>1, <1>2

----------------------------------------------------------------------------
\* The invariant. Its parts take the maps as parameters, because a handler goes
\* through intermediate maps (it leaves, then enters).

Inside(rs, x, q) == q \in DOMAIN rs /\ x \in ToSet(rs[q].members)

\* The two maps of rooms, on their own.
WorldOK(rs, ix) ==
    /\ DOMAIN rs \subseteq RoomIds
    /\ rs \in [DOMAIN rs -> Room]
    /\ DOMAIN ix \subseteq Envs \X Names
    /\ ix \in [DOMAIN ix -> RoomIds]
    /\ \A r \in DOMAIN rs : rs[r].members # <<>>
    /\ \A r \in DOMAIN rs : Key(rs[r]) \in DOMAIN ix /\ ix[Key(rs[r])] = r
    /\ \A k \in DOMAIN ix : ix[k] \in DOMAIN rs /\ Key(rs[ix[k]]) = k
    /\ \A q, r \in DOMAIN rs : rs[q].name = rs[r].name => q = r

Once(rs, sh) == \A q \in DOMAIN rs : OnceIn(rs[q].members, sh)

\* The rooms and the accounts, but for the accounts of sh.
Agree(rs, cr, acc, sh) ==
    /\ \A s \in Sockets : cr[s] # NoRoom =>
          acc[s] # NoMember /\ (acc[s] \notin sh => Inside(rs, acc[s], cr[s]))
    /\ \A x, q : Inside(rs, x, q) /\ x \notin sh =>
          \E s \in Sockets : acc[s] = x /\ cr[s] = q

SocketsOK ==
    /\ status \in [Sockets -> {"idle", "live", "closed"}]
    /\ account \in [Sockets -> Members \cup {NoMember}]
    /\ found \in [Members -> Sockets \cup {NoSocket}]
    /\ chatRoom \in [Sockets -> RoomIds \cup {NoRoom}]
    /\ joining \in [Sockets -> [RoomIds -> 0..MaxJoining]]
    /\ channel \in [Sockets -> SUBSET RoomIds]
    /\ shared \subseteq Members

IInv ==
    /\ SocketsOK
    /\ WorldOK(rooms, index)
    /\ Once(rooms, shared)
    /\ SessionFound
    /\ Agree(rooms, chatRoom, account, shared)
    /\ NoDeafMember

\* The properties that the runs check are these parts under other names.
LEMMA IInvSplit ==
    IInv => /\ TypeOK /\ SessionFound /\ MembershipAgrees /\ OccupiedOnce
            /\ IndexExact /\ NamesUnique /\ NoDeafMember
<1> SUFFICES ASSUME IInv
             PROVE  /\ TypeOK /\ SessionFound /\ MembershipAgrees /\ OccupiedOnce
                    /\ IndexExact /\ NamesUnique /\ NoDeafMember
  OBVIOUS
<1>1. TypeOK /\ SessionFound /\ IndexExact /\ NamesUnique /\ NoDeafMember
  BY DEF IInv, SocketsOK, WorldOK, TypeOK, IndexExact, NamesUnique
<1>2. MembershipAgrees
  <2>1. Agree(rooms, chatRoom, account, shared)
    BY DEF IInv
  <2>2. \A r \in DOMAIN rooms : \A m \in ToSet(rooms[r].members) \ shared :
           \E s \in Sockets : account[s] = m /\ chatRoom[s] = r
    BY <2>1 DEF Agree, Inside
  <2>3. QED BY <2>1, <2>2 DEF Agree, Inside, MembershipAgrees, InRoom
<1>3. OccupiedOnce
  BY DEF IInv, WorldOK, Once, OnceIn, OccupiedOnce
<1>4. QED BY <1>1, <1>2, <1>3

LEMMA KeyType == \A room \in Room : Key(room) \in Envs \X Names
  BY DEF Key, Room

\* Who is in a room has a number.
LEMMA InsideMembers ==
    ASSUME NEW rs, NEW ix, WorldOK(rs, ix), NEW x, NEW q, Inside(rs, x, q)
    PROVE  x \in Members
<1>1. rs[q].members \in Seq(Members) /\ x \in ToSet(rs[q].members)
  BY DEF WorldOK, Room, Inside
<1>2. QED BY <1>1 DEF ToSet

\* Another session's account is not one that has met nobody.
LEMMA OneSessionEach ==
    ASSUME IInv, NEW s \in Sockets, NEW t \in Sockets,
           account[s] = account[t], account[s] \in Members \ shared
    PROVE  s = t
  BY DEF IInv, SessionFound

----------------------------------------------------------------------------
\* Edits of the two maps.

\* A room changes in place: only the rooms map at r, under the same key.
LEMMA EditWorld ==
    ASSUME NEW rs, NEW ix, WorldOK(rs, ix), NEW r \in DOMAIN rs,
           NEW room \in Room, Key(room) = Key(rs[r]),
           room.members # <<>>
    PROVE  WorldOK([rs EXCEPT ![r] = room], ix)
<1> DEFINE new == [rs EXCEPT ![r] = room]
<1>1. /\ DOMAIN new = DOMAIN rs
      /\ \A q \in DOMAIN rs : new[q] = IF q = r THEN room ELSE rs[q]
  BY DEF WorldOK
<1>2. new \in [DOMAIN new -> Room]
  BY DEF WorldOK
<1>3. \A q \in DOMAIN rs : Key(new[q]) = Key(rs[q]) /\ new[q].name = rs[q].name
  BY <1>1 DEF Key
<1> HIDE DEF new
<1>4. WorldOK(new, ix)
  BY <1>1, <1>2, <1>3 DEF WorldOK
<1>5. QED BY <1>4 DEF new

\* A room is added with a new id and a new name.
LEMMA AddWorld ==
    ASSUME NEW rs, NEW ix, WorldOK(rs, ix), NEW r \in RoomIds \ DOMAIN rs,
           NEW room \in Room, \A q \in DOMAIN rs : rs[q].name # room.name,
           room.members # <<>>
    PROVE  WorldOK(With(rs, r, room), With(ix, Key(room), r))
<1> DEFINE new == With(rs, r, room)
           nix == With(ix, Key(room), r)
<1>1. /\ DOMAIN new = DOMAIN rs \cup {r}
      /\ \A q \in DOMAIN new : new[q] = IF q = r THEN room ELSE rs[q]
      /\ new \in [DOMAIN new -> Room]
  BY DEF WorldOK, With
<1>2. /\ DOMAIN nix = DOMAIN ix \cup {Key(room)}
      /\ \A k \in DOMAIN nix : nix[k] = IF k = Key(room) THEN r ELSE ix[k]
      /\ nix \in [DOMAIN nix -> RoomIds]
  BY DEF WorldOK, With
<1>3. \A q \in DOMAIN rs : Key(rs[q]) # Key(room)
  BY DEF Key
<1>4. Key(room) \in Envs \X Names
  BY KeyType
<1> HIDE DEF new, nix
<1>5. WorldOK(new, nix)
  BY <1>1, <1>2, <1>3, <1>4 DEF WorldOK
<1>6. QED BY <1>5 DEF new, nix

\* A room is removed with its key.
LEMMA DropWorld ==
    ASSUME NEW rs, NEW ix, WorldOK(rs, ix), NEW r \in DOMAIN rs
    PROVE  WorldOK(Drop(rs, r), Drop(ix, Key(rs[r])))
<1> DEFINE new == Drop(rs, r)
           nix == Drop(ix, Key(rs[r]))
<1>1. /\ DOMAIN new = DOMAIN rs \ {r}
      /\ \A q \in DOMAIN new : new[q] = rs[q]
      /\ new \in [DOMAIN new -> Room]
  BY DEF WorldOK, Drop
<1>2. /\ DOMAIN nix = DOMAIN ix \ {Key(rs[r])}
      /\ \A k \in DOMAIN nix : nix[k] = ix[k]
      /\ nix \in [DOMAIN nix -> RoomIds]
  BY DEF WorldOK, Drop
<1> HIDE DEF new, nix
<1>3. WorldOK(new, nix)
  BY <1>1, <1>2 DEF WorldOK
<1>4. QED BY <1>3 DEF new, nix

\* A room takes another name, which no room has, and is indexed anew.
LEMMA RenameWorld ==
    ASSUME NEW rs, NEW ix, WorldOK(rs, ix), NEW r \in DOMAIN rs,
           NEW room \in Room, room.env = rs[r].env,
           \A q \in DOMAIN rs : rs[q].name # room.name,
           room.members # <<>>
    PROVE  WorldOK([rs EXCEPT ![r] = room],
                   With(Drop(ix, Key(rs[r])), Key(room), r))
<1> DEFINE rs1 == Drop(rs, r)
           ix1 == Drop(ix, Key(rs[r]))
<1>1. WorldOK(rs1, ix1)
  BY DropWorld
<1>2. r \in RoomIds \ DOMAIN rs1
  BY DEF Drop, WorldOK
<1>3. \A q \in DOMAIN rs1 : rs1[q].name # room.name
  BY DEF Drop
<1>4. WorldOK(With(rs1, r, room), With(ix1, Key(room), r))
  <2> HIDE DEF rs1, ix1
  <2> QED BY <1>1, <1>2, <1>3, AddWorld
<1>5. With(rs1, r, room) = [rs EXCEPT ![r] = room]
  <2>1. DOMAIN rs1 \cup {r} = DOMAIN rs
    BY DEF Drop
  <2>2. With(rs1, r, room) = [q \in DOMAIN rs |-> IF q = r THEN room ELSE rs[q]]
    BY <2>1 DEF With, Drop
  <2>3. rs = [q \in DOMAIN rs |-> rs[q]]
    BY DEF WorldOK
  <2> HIDE DEF rs1
  <2>4. QED BY <2>2, <2>3
<1>6. QED BY <1>4, <1>5
----------------------------------------------------------------------------
\* Leaving.

SameRules(old, new) == [new EXCEPT !.members = <<>>] = [old EXCEPT !.members = <<>>]

LEMMA MembersOnly ==
    ASSUME NEW room \in Room, NEW seq
    PROVE  /\ SameRules(room, [room EXCEPT !.members = seq])
           /\ [room EXCEPT !.members = seq].members = seq
           /\ Key([room EXCEPT !.members = seq]) = Key(room)
<1>1. room = [name |-> room.name, env |-> room.env, limit |-> room.limit,
              admin |-> room.admin, ban |-> room.ban, whitelist |-> room.whitelist,
              access |-> room.access, visibility |-> room.visibility,
              members |-> room.members]
  BY DEF Room
<1>2. QED BY <1>1 DEF SameRules, Key

\* The maps rs and ix are those of now without the number m in the room r: nobody
\* else goes, and only a room that nobody else was in.
Left(rs, ix, r, m) ==
    /\ WorldOK(rs, ix)
    /\ Once(rs, shared)
    /\ DOMAIN rs \subseteq DOMAIN rooms
    /\ \A q \in DOMAIN rooms \ {r} : q \in DOMAIN rs /\ rs[q] = rooms[q]
    /\ \A x, q : Inside(rs, x, q) <=> Inside(rooms, x, q) /\ ~ (x = m /\ q = r)

LEMMA LeftAsFacts ==
    ASSUME IInv, NEW r \in DOMAIN rooms, NEW room \in Room,
           Key(room) = Key(rooms[r]), room.members = rooms[r].members, NEW m
    PROVE  /\ Left(LeftAs(r, room, m), IndexLeft(r, m), r, m)
           /\ r \in DOMAIN LeftAs(r, room, m) => SameRules(room, LeftAs(r, room, m)[r])
<1> DEFINE seq == rooms[r].members
           w == Without(seq, m)
           rs == LeftAs(r, room, m)
           ix == IndexLeft(r, m)
<1>1. WorldOK(rooms, index) /\ Once(rooms, shared)
  BY DEF IInv
<1>2. seq \in Seq(Members) /\ OnceIn(seq, shared)
  BY <1>1 DEF WorldOK, Room, Once
<1> HIDE DEF seq
<1>3. w \in Seq(Members) /\ OnceIn(w, shared) /\ ToSet(w) = ToSet(seq) \ {m}
  BY <1>2, WithoutFacts
<1>4. CASE w = <<>>
  <2>1. rs = Drop(rooms, r) /\ ix = Drop(index, Key(rooms[r]))
    BY <1>4 DEF LeftAs, IndexLeft, Empties, seq
  <2> HIDE DEF rs, ix
  <2>2. WorldOK(rs, ix)
    BY <1>1, <2>1, DropWorld
  <2>3. /\ DOMAIN rs = DOMAIN rooms \ {r}
        /\ \A q \in DOMAIN rs : rs[q] = rooms[q]
    BY <2>1 DEF Drop
  <2>4. ToSet(seq) \subseteq {m}
    BY <1>3, <1>4, EmptyList
  <2>5. \A x, q : Inside(rs, x, q) <=> Inside(rooms, x, q) /\ ~ (x = m /\ q = r)
    BY <2>3, <2>4 DEF Inside, seq
  <2>6. Once(rs, shared)
    BY <1>1, <2>3 DEF Once
  <2>7. Left(rs, ix, r, m) /\ r \notin DOMAIN rs
    BY <2>2, <2>3, <2>5, <2>6 DEF Left
  <2>8. QED BY <2>7 DEF rs, ix
<1>5. CASE w # <<>>
  <2> DEFINE new == [room EXCEPT !.members = w]
  <2>1. rs = [rooms EXCEPT ![r] = new] /\ ix = index
    BY <1>5 DEF LeftAs, IndexLeft, Empties, seq
  <2>2. /\ new \in Room /\ new.members = w /\ Key(new) = Key(rooms[r])
        /\ SameRules(room, new)
    BY <1>3, MembersOnly DEF Room
  <2> HIDE DEF new, w, rs, ix
  <2>3. WorldOK(rs, ix)
    BY <1>1, <1>5, <2>1, <2>2, EditWorld
  <2>4. /\ DOMAIN rs = DOMAIN rooms
        /\ \A q \in DOMAIN rs : rs[q] = IF q = r THEN new ELSE rooms[q]
    BY <1>1, <2>1 DEF WorldOK
  <2>5. \A x, q : Inside(rs, x, q) <=> Inside(rooms, x, q) /\ ~ (x = m /\ q = r)
    BY <1>3, <2>2, <2>4 DEF Inside, seq
  <2>6. Once(rs, shared)
    BY <1>1, <1>3, <2>2, <2>4 DEF Once
  <2>7. Left(rs, ix, r, m) /\ SameRules(room, rs[r])
    BY <2>2, <2>3, <2>4, <2>5, <2>6 DEF Left
  <2>8. QED BY <2>7 DEF rs, ix
<1>6. QED BY <1>4, <1>5

LEMMA RoomsLeftFacts ==
    ASSUME IInv, NEW r, NEW m
    PROVE  /\ Left(RoomsLeft(r, m), IndexLeft(r, m), r, m)
           /\ \A q \in DOMAIN RoomsLeft(r, m) : SameRules(rooms[q], RoomsLeft(r, m)[q])
<1>1. CASE r \in DOMAIN rooms
  <2>1. rooms[r] \in Room
    BY <1>1 DEF IInv, WorldOK
  <2>2. RoomsLeft(r, m) = LeftAs(r, rooms[r], m)
    BY <1>1 DEF RoomsLeft
  <2>3. /\ Left(RoomsLeft(r, m), IndexLeft(r, m), r, m)
        /\ r \in DOMAIN RoomsLeft(r, m) => SameRules(rooms[r], RoomsLeft(r, m)[r])
    BY <1>1, <2>1, <2>2, LeftAsFacts
  <2>4. QED BY <2>3 DEF Left, SameRules
<1>2. CASE r \notin DOMAIN rooms
  <2>1. RoomsLeft(r, m) = rooms /\ IndexLeft(r, m) = index
    BY <1>2 DEF RoomsLeft, IndexLeft, Empties
  <2>2. Left(rooms, index, r, m)
    BY <1>2 DEF IInv, Left, Inside
  <2>3. QED BY <2>1, <2>2 DEF SameRules
<1>3. QED BY <1>1, <1>2

\* A number that has met no other is in no room and its session has no
\* chat_room_id.
Gone(rs, cr, m) ==
    m \notin shared =>
        /\ \A q : ~ Inside(rs, m, q)
        /\ \A t \in Sockets : account[t] = m => cr[t] = NoRoom

\* The number m has left: the records are in order, only that of a session of m
\* is cleared, and everybody else hears its room as before.
Departed(rs, ix, cr, ch, m) ==
    /\ WorldOK(rs, ix)
    /\ Once(rs, shared)
    /\ cr \in [Sockets -> RoomIds \cup {NoRoom}]
    /\ ch \in [Sockets -> SUBSET RoomIds]
    /\ Agree(rs, cr, account, shared)
    /\ Gone(rs, cr, m)
    /\ \A t \in Sockets :
          status[t] = "live" /\ cr[t] # NoRoom /\ account[t] \notin shared =>
              cr[t] \in ch[t] \/ joining[t][cr[t]] > 0

LEMMA ChatRoomsFacts ==
    ASSUME IInv, NEW r, NEW m, NEW cr \in ChatRoomsLeft(r, m)
    PROVE  /\ cr \in [Sockets -> RoomIds \cup {NoRoom}]
           /\ \A t \in Sockets : cr[t] = NoRoom \/ cr[t] = chatRoom[t]
           /\ \A t \in Sockets : account[t] # m => cr[t] = chatRoom[t]
           /\ r # NoRoom /\ Online(m) =>
                 \E t \in Sockets : account[t] = m /\ cr[t] = NoRoom
<1>1. chatRoom \in [Sockets -> RoomIds \cup {NoRoom}]
  BY DEF IInv, SocketsOK
<1>2. CASE r = NoRoom \/ ~ Online(m)
  BY <1>1, <1>2 DEF ChatRoomsLeft
<1>3. CASE ~ (r = NoRoom \/ ~ Online(m))
  <2>1. PICK t \in Sockets : account[t] = m /\ cr = [chatRoom EXCEPT ![t] = NoRoom]
    BY <1>3 DEF ChatRoomsLeft, SessionsOf
  <2>2. QED BY <1>1, <2>1
<1>4. QED BY <1>2, <1>3

\* Unless m has met another, r is the room of its session.
LEMMA LeaverGone ==
    ASSUME IInv, NEW r, NEW m, NEW rs, NEW ix, Left(rs, ix, r, m),
           NEW cr \in ChatRoomsLeft(r, m),
           m \notin shared => \E s \in Sockets : account[s] = m /\ chatRoom[s] = r
    PROVE  Gone(rs, cr, m)
<1> SUFFICES ASSUME m \notin shared
             PROVE  /\ \A q : ~ Inside(rs, m, q)
                    /\ \A t \in Sockets : account[t] = m => cr[t] = NoRoom
  BY DEF Gone
<1>1. PICK s \in Sockets : account[s] = m /\ chatRoom[s] = r
  OBVIOUS
<1>2. Agree(rooms, chatRoom, account, shared)
  BY DEF IInv
<1>3. CASE m = NoMember
  <2>1. \A t \in Sockets : account[t] = m => chatRoom[t] = NoRoom
    BY <1>2, <1>3 DEF Agree
  <2>2. \A q : ~ Inside(rs, m, q)
    BY <1>3, InsideMembers, RoomsAssumption DEF Left
  <2>3. QED BY <2>1, <2>2, ChatRoomsFacts
<1>4. CASE m # NoMember
  <2>1. m \in Members \ shared
    BY <1>1, <1>4 DEF IInv, SocketsOK
  <2>2. \A t \in Sockets : account[t] = m => t = s
    BY <1>1, <2>1, OneSessionEach
  <2>3. cr[s] = NoRoom
    <3>1. CASE r = NoRoom
      BY <1>1, <3>1, ChatRoomsFacts
    <3>2. CASE r # NoRoom
      <4>1. Online(m)
        BY <1>1 DEF Online, SessionsOf
      <4>2. PICK t \in Sockets : account[t] = m /\ cr[t] = NoRoom
        BY <3>2, <4>1, ChatRoomsFacts
      <4>3. QED BY <2>2, <4>2
    <3>3. QED BY <3>1, <3>2
  <2>4. ASSUME NEW q, Inside(rs, m, q) PROVE FALSE
    <3>1. Inside(rooms, m, q) /\ q # r
      BY <2>4 DEF Left
    <3>2. PICK t \in Sockets : account[t] = m /\ chatRoom[t] = q
      BY <1>2, <3>1 DEF Agree
    <3>3. QED BY <1>1, <2>2, <3>1, <3>2
  <2>5. QED BY <2>2, <2>3, <2>4
<1>5. QED BY <1>3, <1>4

LEMMA LeaveAgree ==
    ASSUME IInv, NEW r, NEW m, NEW rs, NEW ix, Left(rs, ix, r, m),
           NEW cr \in ChatRoomsLeft(r, m), Gone(rs, cr, m)
    PROVE  Agree(rs, cr, account, shared)
<1>1. Agree(rooms, chatRoom, account, shared)
  BY DEF IInv
<1>2. ASSUME NEW t \in Sockets, cr[t] # NoRoom
      PROVE  account[t] # NoMember /\ (account[t] \notin shared => Inside(rs, account[t], cr[t]))
  <2>1. cr[t] = chatRoom[t]
    BY <1>2, ChatRoomsFacts
  <2>2. account[t] # NoMember
    BY <1>1, <1>2, <2>1 DEF Agree
  <2>3. ASSUME account[t] \notin shared PROVE Inside(rs, account[t], cr[t])
    <3>1. Inside(rooms, account[t], cr[t])
      BY <1>1, <1>2, <2>1, <2>3 DEF Agree
    <3>2. account[t] # m
      BY <1>2, <2>3 DEF Gone
    <3>3. QED BY <3>1, <3>2 DEF Left
  <2>4. QED BY <2>2, <2>3
<1>3. ASSUME NEW x, NEW q, Inside(rs, x, q), x \notin shared
      PROVE  \E t \in Sockets : account[t] = x /\ cr[t] = q
  <2>1. x # m
    BY <1>3 DEF Gone
  <2>2. Inside(rooms, x, q)
    BY <1>3 DEF Left
  <2>3. PICK t \in Sockets : account[t] = x /\ chatRoom[t] = q
    BY <1>1, <1>3, <2>2 DEF Agree
  <2>4. QED BY <2>1, <2>3, ChatRoomsFacts
<1>4. QED BY <1>2, <1>3 DEF Agree

\* The channel that is left is that of no account who has met nobody, but m's.
LEMMA ChannelFacts ==
    ASSUME IInv, NEW r, NEW m, m \in Members \/ r \notin DOMAIN rooms
    PROVE  /\ ChannelLeft(r, m) \in [Sockets -> SUBSET RoomIds]
           /\ \A t \in Sockets : account[t] \in Members \ (shared \cup {m}) =>
                 ChannelLeft(r, m)[t] = channel[t]
<1>1. channel \in [Sockets -> SUBSET RoomIds]
  BY DEF IInv, SocketsOK
<1>2. CASE ~ (r \in DOMAIN rooms /\ Known(m))
  BY <1>1, <1>2 DEF ChannelLeft
<1>3. CASE r \in DOMAIN rooms /\ Known(m)
  <2>1. /\ m \in Members /\ found[m] \in Sockets /\ found[m] # NoSocket
        /\ ChannelLeft(r, m) = [channel EXCEPT ![found[m]] = @ \ {r}]
    BY <1>3 DEF ChannelLeft, Known, IInv, SocketsOK
  <2>2. ASSUME NEW t \in Sockets, account[t] \in Members \ (shared \cup {m})
        PROVE  t # found[m]
    <3>1. found[account[t]] = t
      BY <2>2 DEF IInv, SessionFound
    <3>2. QED BY <2>1, <2>2, <3>1 DEF IInv, SessionFound
  <2>3. QED BY <1>1, <2>1, <2>2
<1>4. QED BY <1>2, <1>3

LEMMA Departs ==
    ASSUME IInv, NEW r, NEW m, NEW rs, NEW ix, Left(rs, ix, r, m),
           NEW cr \in ChatRoomsLeft(r, m),
           m \in Members \/ r \notin DOMAIN rooms,
           m \notin shared => \E s \in Sockets : account[s] = m /\ chatRoom[s] = r
    PROVE  Departed(rs, ix, cr, ChannelLeft(r, m), m)
<1> DEFINE ch == ChannelLeft(r, m)
<1>1. Gone(rs, cr, m)
  BY LeaverGone
<1>2. Agree(rs, cr, account, shared)
  BY <1>1, LeaveAgree
<1>3. ASSUME NEW t \in Sockets,
             status[t] = "live", cr[t] # NoRoom, account[t] \notin shared
      PROVE  cr[t] \in ch[t] \/ joining[t][cr[t]] > 0
  <2>1. cr[t] = chatRoom[t]
    BY <1>3, ChatRoomsFacts
  <2>2. account[t] \in Members \ (shared \cup {m})
    BY <1>1, <1>2, <1>3 DEF Gone, Agree, IInv, SocketsOK
  <2>3. ch[t] = channel[t]
    BY <2>2, ChannelFacts
  <2> HIDE DEF ch
  <2>4. QED BY <1>3, <2>1, <2>3 DEF IInv, NoDeafMember
<1>4. ch \in [Sockets -> SUBSET RoomIds]
  BY ChannelFacts
<1>5. cr \in [Sockets -> RoomIds \cup {NoRoom}]
  BY ChatRoomsFacts
<1>6. QED BY <1>1, <1>2, <1>3, <1>4, <1>5 DEF Departed, Left

\* The member on s leaves its room, whatever becomes of its session.
LEMMA SocketDeparts ==
    ASSUME IInv, NEW s \in Sockets, NEW cr \in ChatRoomsLeft(chatRoom[s], account[s])
    PROVE  Departed(RoomsLeft(chatRoom[s], account[s]), IndexLeft(chatRoom[s], account[s]),
                    cr, ChannelLeft(chatRoom[s], account[s]), account[s])
<1> DEFINE r == chatRoom[s]
           m == account[s]
<1>1. Left(RoomsLeft(r, m), IndexLeft(r, m), r, m)
  BY RoomsLeftFacts
<1>2. m \in Members \/ r \notin DOMAIN rooms
  <2>1. m \in Members \/ r = NoRoom
    BY DEF IInv, SocketsOK, Agree
  <2>2. NoRoom \notin DOMAIN rooms
    BY RoomsAssumption DEF IInv, WorldOK
  <2>3. QED BY <2>1, <2>2
<1>3. QED BY <1>1, <1>2, Departs
----------------------------------------------------------------------------
\* The invariant holds at first, and every action keeps it. First the sessions.

LEMMA InitIInv == Init => IInv
<1> SUFFICES ASSUME Init PROVE IInv
  OBVIOUS
<1>1. SocketsOK
  BY RoomsAssumption DEF Init, SocketsOK
<1>2. DOMAIN rooms = {} /\ DOMAIN index = {} /\ rooms \in [{} -> Room] /\ index \in [{} -> RoomIds]
  BY DEF Init
<1>3. WorldOK(rooms, index) /\ Once(rooms, shared)
  BY <1>2 DEF WorldOK, Once
<1>4. SessionFound /\ NoDeafMember
  BY RoomsAssumption DEF Init, SessionFound, NoDeafMember
<1>5. Agree(rooms, chatRoom, account, shared)
  BY <1>2 DEF Init, Agree, Inside
<1>6. QED BY <1>1, <1>3, <1>4, <1>5 DEF IInv

\* A new session of m on s: an account that has still met no other afterwards is
\* not the one that s had, and if it is m, then it had no session at all.
LEMMA InsertMeets ==
    ASSUME IInv, NEW s \in Sockets, NEW m \in Members, InsertAccount(s, m)
    PROVE  /\ shared \subseteq shared' /\ shared' \subseteq Members
           /\ \A x \in Members \ shared' : x # m => account[s] # x /\ found[x] # s
           /\ m \notin shared' =>
                 /\ \A t \in Sockets : account[t] # m
                 /\ \A x \in Members : x # m => found[x] # s
<1> DEFINE others == ({account[s]} \cup {x \in Members : found[x] = s}) \ {m, NoMember}
<1>1. /\ Met(s, m) = others \cup IF others # {} \/ Online(m) THEN {m} ELSE {}
      /\ shared' = shared \cup Met(s, m)
  BY DEF Met, InsertAccount
<1>2. others \subseteq Members /\ shared \subseteq Members
  BY DEF IInv, SocketsOK
<1>3. \A x \in Members \ others : x # m => account[s] # x /\ found[x] # s
  BY RoomsAssumption
<1> HIDE DEF others
<1>4. m \notin shared' => others = {} /\ ~ Online(m)
  BY <1>1
<1>5. ~ Online(m) => \A t \in Sockets : account[t] # m
  BY DEF Online, SessionsOf
<1>6. QED BY <1>1, <1>2, <1>3, <1>4, <1>5

LEMMA InsertFound ==
    ASSUME IInv, NEW s \in Sockets, NEW m \in Members, InsertAccount(s, m)
    PROVE  SessionFound'
<1>1. /\ \A t \in Sockets : account'[t] = IF t = s THEN m ELSE account[t]
      /\ \A x \in Members : found'[x] = IF x = m THEN s ELSE found[x]
  BY DEF InsertAccount, IInv, SocketsOK
<1>2. SessionFound
  BY DEF IInv
<1>3. NoSocket \notin Sockets /\ NoMember \notin Members
  BY RoomsAssumption
<1>4. SUFFICES ASSUME NEW x \in Members \ shared'
               PROVE  /\ \A t \in Sockets : account'[t] = x <=> found'[x] = t
                      /\ \A y \in Members : found'[y] = found'[x] /\ found'[x] # NoSocket => y = x
  BY DEF SessionFound
<1>5. x \notin shared
  BY InsertMeets
<1>6. CASE x = m
  <2>1. \A t \in Sockets : account[t] # m
    BY <1>6, InsertMeets
  <2>2. \A y \in Members : y # m => found[y] # s
    BY <1>6, InsertMeets
  <2>3. QED BY <1>1, <1>6, <2>1, <2>2
<1>7. CASE x # m
  <2>1. account[s] # x /\ found[x] # s
    BY <1>7, InsertMeets
  <2>2. \A t \in Sockets : account[t] = x <=> found[x] = t
    BY <1>2, <1>5 DEF SessionFound
  <2>3. \A y \in Members : found[y] = found[x] /\ found[x] # NoSocket => y = x
    BY <1>2, <1>5 DEF SessionFound
  <2>4. QED BY <1>1, <1>7, <2>1, <2>2, <2>3
<1>8. QED BY <1>6, <1>7

\* The new session is in no room, and no other session that counts changes: the
\* records are in order if the rooms are those of now, perhaps without m.
LEMMA InsertIInv ==
    ASSUME IInv, NEW s \in Sockets, NEW m \in Members, InsertAccount(s, m),
           WorldOK(rooms', index'), Once(rooms', shared'),
           chatRoom' \in [Sockets -> RoomIds \cup {NoRoom}], chatRoom'[s] = NoRoom,
           \A t \in Sockets : chatRoom'[t] = NoRoom \/ chatRoom'[t] = chatRoom[t],
           \A t \in Sockets \ {s} :
              account[t] \in Members \ (shared \cup {m}) => chatRoom'[t] = chatRoom[t],
           \A x, q : Inside(rooms', x, q) => Inside(rooms, x, q),
           \A x, q : x # m /\ Inside(rooms, x, q) => Inside(rooms', x, q)
    PROVE  IInv'
<1>1. /\ \A t \in Sockets : account'[t] = IF t = s THEN m ELSE account[t]
      /\ UNCHANGED <<joining, channel>>
      /\ \A t \in Sockets \ {s} : status'[t] = status[t]
  BY DEF InsertAccount, IInv, SocketsOK
<1>2. SocketsOK'
  BY InsertMeets DEF InsertAccount, IInv, SocketsOK
<1>3. Agree(rooms, chatRoom, account, shared) /\ WorldOK(rooms, index) /\ shared \subseteq shared'
  BY InsertMeets DEF IInv
<1>4. ASSUME NEW t \in Sockets, chatRoom'[t] # NoRoom
      PROVE  /\ account'[t] # NoMember
             /\ account'[t] \notin shared' => Inside(rooms', account'[t], chatRoom'[t])
  <2>1. t # s /\ chatRoom'[t] = chatRoom[t] /\ account'[t] = account[t]
    BY <1>1, <1>4
  <2>2. account[t] # NoMember /\ (account[t] \notin shared => Inside(rooms, account[t], chatRoom[t]))
    BY <1>3, <1>4, <2>1 DEF Agree
  <2>3. account[t] \notin shared' => account[t] # m
    BY InsertMeets
  <2>4. QED BY <1>3, <2>1, <2>2, <2>3
<1>5. ASSUME NEW x, NEW q, Inside(rooms', x, q), x \notin shared'
      PROVE  \E t \in Sockets : account'[t] = x /\ chatRoom'[t] = q
  <2>1. Inside(rooms, x, q) /\ x \in Members
    BY <1>3, <1>5, InsideMembers
  <2>2. PICK t \in Sockets : account[t] = x /\ chatRoom[t] = q
    BY <1>3, <1>5, <2>1 DEF Agree
  <2>3. x # m
    BY <1>5, <2>2, InsertMeets
  <2>4. t # s
    BY <1>5, <2>1, <2>2, <2>3, InsertMeets
  <2>5. QED BY <1>1, <1>3, <1>5, <2>1, <2>2, <2>3, <2>4
<1>6. Agree(rooms', chatRoom', account', shared')
  BY <1>4, <1>5 DEF Agree
<1>7. NoDeafMember'
  <2>1. SUFFICES ASSUME NEW t \in Sockets, status'[t] = "live", chatRoom'[t] # NoRoom,
                        account'[t] \notin shared'
                 PROVE  chatRoom'[t] \in channel[t] \/ joining[t][chatRoom'[t]] > 0
    BY <1>1 DEF NoDeafMember
  <2>2. t # s /\ chatRoom'[t] = chatRoom[t] /\ account'[t] = account[t] /\ status'[t] = status[t]
    BY <1>1, <2>1
  <2>3. QED BY <1>3, <2>1, <2>2 DEF IInv, NoDeafMember
<1>8. QED BY <1>2, <1>6, <1>7, InsertFound DEF IInv

\* The scan of all rooms for the number of an account that logs in.
LEMMA LeftAllFacts ==
    ASSUME IInv, NEW m \in Members
    PROVE  LET rs == RoomsLeftAll(m)
               ix == IndexLeftAll(m)
           IN  /\ WorldOK(rs, ix)
               /\ Once(rs, shared)
               /\ DOMAIN rs \subseteq DOMAIN rooms
               /\ \A x, q : Inside(rs, x, q) <=> Inside(rooms, x, q) /\ x # m
               /\ \A q \in DOMAIN rs : SameRules(rooms[q], rs[q])
<1> DEFINE rs == RoomsLeftAll(m)
           ix == IndexLeftAll(m)
           gone == EmptiesAny(m)
<1>1. WorldOK(rooms, index) /\ Once(rooms, shared)
  BY DEF IInv
<1>2. ASSUME NEW q \in DOMAIN rooms
      PROVE  LET w == Without(rooms[q].members, m)
             IN  /\ w \in Seq(Members) /\ OnceIn(w, shared)
                 /\ ToSet(w) = ToSet(rooms[q].members) \ {m}
  <2>1. rooms[q].members \in Seq(Members) /\ OnceIn(rooms[q].members, shared)
    BY <1>1 DEF WorldOK, Room, Once
  <2>2. QED BY <2>1, WithoutFacts
<1>3. /\ DOMAIN rs = DOMAIN rooms \ gone
      /\ \A q \in DOMAIN rs : rs[q] = [rooms[q] EXCEPT !.members = Without(@, m)]
  BY DEF RoomsLeftAll
<1>4. gone \subseteq DOMAIN rooms /\ \A q \in DOMAIN rooms : q \in gone <=> Without(rooms[q].members, m) = <<>>
  BY DEF EmptiesAny
<1>5. ASSUME NEW q \in DOMAIN rs
      PROVE  /\ rs[q] \in Room /\ rs[q].name = rooms[q].name /\ Key(rs[q]) = Key(rooms[q])
             /\ rs[q].members = Without(rooms[q].members, m)
             /\ SameRules(rooms[q], rs[q])
  <2>1. rooms[q] \in Room /\ Without(rooms[q].members, m) \in Seq(Members)
    BY <1>1, <1>2, <1>3 DEF WorldOK
  <2>2. PICK w : w = Without(rooms[q].members, m) /\ rs[q] = [rooms[q] EXCEPT !.members = w]
    BY <1>3
  <2> HIDE DEF rs
  <2>3. SameRules(rooms[q], rs[q]) /\ rs[q].members = w /\ Key(rs[q]) = Key(rooms[q])
    BY <2>1, <2>2, MembersOnly
  <2>4. rs[q] \in Room /\ rs[q].name = rooms[q].name
    BY <2>1, <2>2 DEF Room
  <2>5. QED BY <2>2, <2>3, <2>4
<1>6. /\ DOMAIN ix = DOMAIN index \ {Key(rooms[q]) : q \in gone}
      /\ \A k \in DOMAIN ix : ix[k] = index[k]
  BY DEF IndexLeftAll
<1>7. rs = [q \in DOMAIN rs |-> rs[q]] /\ ix = [k \in DOMAIN ix |-> ix[k]]
  BY DEF RoomsLeftAll, IndexLeftAll
<1> HIDE DEF rs, ix, gone
<1>8. rs \in [DOMAIN rs -> Room] /\ ix \in [DOMAIN ix -> RoomIds]
  BY <1>1, <1>5, <1>6, <1>7 DEF WorldOK
<1>9. \A q \in DOMAIN rs : rs[q].members # <<>>
  BY <1>3, <1>4, <1>5
<1>10. ASSUME NEW q \in DOMAIN rs
       PROVE  Key(rs[q]) \in DOMAIN ix /\ ix[Key(rs[q])] = q
  <2>1. Key(rooms[q]) \in DOMAIN index /\ index[Key(rooms[q])] = q
    BY <1>1, <1>3 DEF WorldOK
  <2>2. \A p \in gone : Key(rooms[p]) # Key(rooms[q])
    BY <1>1, <1>3, <1>4, <2>1 DEF WorldOK
  <2>3. QED BY <1>5, <1>6, <2>1, <2>2
<1>11. ASSUME NEW k \in DOMAIN ix
       PROVE  ix[k] \in DOMAIN rs /\ Key(rs[ix[k]]) = k
  <2>1. index[k] \in DOMAIN rooms /\ Key(rooms[index[k]]) = k
    BY <1>1, <1>6 DEF WorldOK
  <2>2. index[k] \notin gone
    BY <1>6, <2>1
  <2>3. QED BY <1>3, <1>5, <1>6, <2>1, <2>2
<1>12. WorldOK(rs, ix)
  BY <1>1, <1>3, <1>5, <1>6, <1>8, <1>9, <1>10, <1>11 DEF WorldOK
<1>13. Once(rs, shared)
  BY <1>2, <1>3, <1>5 DEF Once
<1>14. \A x, q : Inside(rs, x, q) <=> Inside(rooms, x, q) /\ x # m
  <2> SUFFICES ASSUME NEW x, NEW q
               PROVE  Inside(rs, x, q) <=> Inside(rooms, x, q) /\ x # m
    OBVIOUS
  <2>1. CASE q \in DOMAIN rs
    BY <1>2, <1>3, <1>5, <2>1 DEF Inside
  <2>2. CASE q \in gone
    <3>1. q \in DOMAIN rooms /\ Without(rooms[q].members, m) = <<>>
      BY <1>4, <2>2
    <3>2. ToSet(rooms[q].members) \subseteq {m}
      BY <1>2, <3>1, EmptyList
    <3>3. QED BY <1>3, <2>2, <3>2 DEF Inside
  <2>3. QED BY <1>3, <2>1, <2>2 DEF Inside
<1>15. QED BY <1>3, <1>5, <1>12, <1>13, <1>14 DEF rs, ix

LEMMA LoginIInv ==
    ASSUME IInv, NEW s \in Sockets, NEW m \in Members, Login(s, m)
    PROVE  IInv'
<1>1. /\ InsertAccount(s, m) /\ rooms' = RoomsLeftAll(m) /\ index' = IndexLeftAll(m)
      /\ chatRoom' = [t \in Sockets |-> IF t \in {s, found[m]} THEN NoRoom ELSE chatRoom[t]]
  BY DEF Login
<1>2. /\ WorldOK(rooms', index') /\ Once(rooms', shared)
      /\ \A x, q : Inside(rooms', x, q) <=> Inside(rooms, x, q) /\ x # m
  BY <1>1, LeftAllFacts
<1>3. Once(rooms', shared')
  BY <1>1, <1>2, InsertMeets DEF Once, OnceIn
<1>4. /\ chatRoom' \in [Sockets -> RoomIds \cup {NoRoom}] /\ chatRoom'[s] = NoRoom
      /\ \A t \in Sockets : chatRoom'[t] = NoRoom \/ chatRoom'[t] = chatRoom[t]
  BY <1>1 DEF IInv, SocketsOK
<1>5. ASSUME NEW t \in Sockets \ {s}, account[t] \in Members \ (shared \cup {m})
      PROVE  chatRoom'[t] = chatRoom[t]
  <2>1. found[account[t]] = t
    BY <1>5 DEF IInv, SessionFound
  <2>2. found[m] # t
    BY <1>5, <2>1, RoomsAssumption DEF IInv, SessionFound
  <2>3. QED BY <1>1, <1>5, <2>2
<1>6. QED BY <1>1, <1>2, <1>3, <1>4, <1>5, InsertIInv

LEMMA CreateAccountIInv ==
    ASSUME IInv, NEW s \in Sockets, NEW m \in Members, CreateAccount(s, m)
    PROVE  IInv'
<1>1. /\ InsertAccount(s, m) /\ UNCHANGED <<rooms, index>>
      /\ chatRoom' = [chatRoom EXCEPT ![s] = NoRoom]
  BY DEF CreateAccount
<1>2. WorldOK(rooms', index') /\ Once(rooms', shared')
  BY <1>1, InsertMeets DEF IInv, Once, OnceIn
<1>3. /\ chatRoom' \in [Sockets -> RoomIds \cup {NoRoom}]
      /\ \A t \in Sockets : chatRoom'[t] = IF t = s THEN NoRoom ELSE chatRoom[t]
  BY <1>1 DEF IInv, SocketsOK
<1>4. QED BY <1>1, <1>2, <1>3, InsertIInv
----------------------------------------------------------------------------
\* Signing out, leaving and being put out.

LEMMA RemovedFound ==
    ASSUME IInv, NEW s \in Sockets, RemoveAccount(s), UNCHANGED shared
    PROVE  /\ \A t \in Sockets : account'[t] = IF t = s THEN NoMember ELSE account[t]
           /\ account' \in [Sockets -> Members \cup {NoMember}]
           /\ found' \in [Members -> Sockets \cup {NoSocket}]
           /\ SessionFound'
<1>1. /\ \A t \in Sockets : account'[t] = IF t = s THEN NoMember ELSE account[t]
      /\ \A x \in Members : found'[x] = IF x = account[s] THEN NoSocket ELSE found[x]
      /\ account' \in [Sockets -> Members \cup {NoMember}]
      /\ found' \in [Members -> Sockets \cup {NoSocket}]
  BY DEF RemoveAccount, IInv, SocketsOK
<1>2. SessionFound
  BY DEF IInv
<1>3. SUFFICES ASSUME NEW x \in Members \ shared
               PROVE  /\ \A t \in Sockets : account'[t] = x <=> found'[x] = t
                      /\ \A y \in Members : found'[y] = found'[x] /\ found'[x] # NoSocket => y = x
  BY <1>1 DEF SessionFound
<1>4. /\ \A t \in Sockets : account[t] = x <=> found[x] = t
      /\ \A y \in Members : found[y] = found[x] /\ found[x] # NoSocket => y = x
  BY <1>2 DEF SessionFound
<1>5. QED BY <1>1, <1>4, RoomsAssumption

\* The session of s ends, after m has left.
LEMMA EndIInv ==
    ASSUME IInv, NEW s \in Sockets, NEW cr,
           Departed(rooms', index', cr, channel', account[s]),
           chatRoom' = [cr EXCEPT ![s] = NoRoom],
           RemoveAccount(s), UNCHANGED shared,
           status' \in [Sockets -> {"idle", "live", "closed"}],
           joining' \in [Sockets -> [RoomIds -> 0..MaxJoining]],
           \A t \in Sockets \ {s} : status'[t] = status[t] /\ joining'[t] = joining[t]
    PROVE  IInv'
<1>1. /\ \A t \in Sockets : account'[t] = IF t = s THEN NoMember ELSE account[t]
      /\ account' \in [Sockets -> Members \cup {NoMember}]
      /\ found' \in [Members -> Sockets \cup {NoSocket}]
      /\ SessionFound'
  BY RemovedFound
<1>2. /\ chatRoom' \in [Sockets -> RoomIds \cup {NoRoom}]
      /\ \A t \in Sockets : chatRoom'[t] = IF t = s THEN NoRoom ELSE cr[t]
  BY DEF Departed
<1>3. SocketsOK'
  BY <1>1, <1>2 DEF Departed, IInv, SocketsOK
<1>4. Agree(rooms', cr, account, shared) /\ Gone(rooms', cr, account[s])
  BY DEF Departed
<1>5. ASSUME NEW t \in Sockets, chatRoom'[t] # NoRoom
      PROVE  /\ account'[t] # NoMember
             /\ account'[t] \notin shared => Inside(rooms', account'[t], chatRoom'[t])
  BY <1>1, <1>2, <1>4, <1>5 DEF Agree
<1>6. ASSUME NEW x, NEW q, Inside(rooms', x, q), x \notin shared
      PROVE  \E t \in Sockets : account'[t] = x /\ chatRoom'[t] = q
  <2>1. PICK t \in Sockets : account[t] = x /\ cr[t] = q
    BY <1>4, <1>6 DEF Agree
  <2>2. t # s
    BY <1>4, <1>6, <2>1 DEF Gone
  <2>3. QED BY <1>1, <1>2, <2>1, <2>2
<1>7. Agree(rooms', chatRoom', account', shared)
  BY <1>5, <1>6 DEF Agree
<1>8. NoDeafMember'
  BY <1>1, <1>2 DEF NoDeafMember, Departed
<1>9. WorldOK(rooms', index') /\ Once(rooms', shared)
  BY DEF Departed
<1>10. QED BY <1>1, <1>3, <1>7, <1>8, <1>9 DEF IInv

LEMMA SignOutIInv ==
    ASSUME IInv, NEW s \in Sockets, SignOut(s) PROVE IInv'
<1>1. PICK cr \in ChatRoomsLeft(chatRoom[s], account[s]) : chatRoom' = [cr EXCEPT ![s] = NoRoom]
  BY DEF SignOut, EndSession
<1>2. Departed(rooms', index', cr, channel', account[s])
  BY <1>1, SocketDeparts DEF SignOut, EndSession
<1>3. RemoveAccount(s) /\ UNCHANGED <<status, joining, shared>>
  BY DEF SignOut, EndSession
<1>4. QED BY <1>1, <1>2, <1>3, EndIInv DEF IInv, SocketsOK

LEMMA CleanupIInv ==
    ASSUME IInv, NEW s \in Sockets, Cleanup(s) PROVE IInv'
<1>1. PICK cr \in ChatRoomsLeft(chatRoom[s], account[s]) : chatRoom' = [cr EXCEPT ![s] = NoRoom]
  BY DEF Cleanup, EndSession
<1>2. Departed(rooms', index', cr, channel', account[s])
  BY <1>1, SocketDeparts DEF Cleanup, EndSession
<1>3. /\ RemoveAccount(s) /\ UNCHANGED shared
      /\ status' = [status EXCEPT ![s] = "idle"]
      /\ joining' = [joining EXCEPT ![s] = [r \in RoomIds |-> 0]]
  BY DEF Cleanup, EndSession
<1>4. /\ status' \in [Sockets -> {"idle", "live", "closed"}]
      /\ joining' \in [Sockets -> [RoomIds -> 0..MaxJoining]]
      /\ \A t \in Sockets \ {s} : status'[t] = status[t] /\ joining'[t] = joining[t]
  <2>1. 0 \in 0..MaxJoining
    BY RoomsAssumption
  <2>2. [r \in RoomIds |-> 0] \in [RoomIds -> 0..MaxJoining]
    BY <2>1
  <2>3. QED BY <1>3, <2>2 DEF IInv, SocketsOK
<1>5. QED BY <1>1, <1>2, <1>3, <1>4, EndIInv

\* A member leaves and its session stays.
LEMMA DepartIInv ==
    ASSUME IInv, NEW m, Departed(rooms', index', chatRoom', channel', m),
           UNCHANGED <<status, account, found, joining, shared>>
    PROVE  IInv'
<1>1. SocketsOK' /\ SessionFound'
  BY DEF Departed, IInv, SocketsOK, SessionFound
<1>2. NoDeafMember'
  BY DEF Departed, NoDeafMember
<1>3. QED BY <1>1, <1>2 DEF Departed, IInv

LEMMA LeaveIInv ==
    ASSUME IInv, NEW s \in Sockets, Leave(s),
           UNCHANGED <<status, account, found, joining, shared>>
    PROVE  IInv'
  BY SocketDeparts, DepartIInv DEF Leave

LEMMA CloseIInv ==
    ASSUME IInv, NEW s \in Sockets, Close(s) PROVE IInv'
<1>1. UNCHANGED <<account, found, chatRoom, rooms, index, joining, shared>>
  BY DEF Close
<1>2. SocketsOK' /\ NoDeafMember'
  BY DEF IInv, Close, SocketsOK, NoDeafMember
<1>3. QED BY <1>1, <1>2 DEF IInv, SessionFound

LEMMA FinishJoinIInv ==
    ASSUME IInv, NEW s \in Sockets, NEW r \in RoomIds, FinishJoin(s, r) PROVE IInv'
<1>1. UNCHANGED <<status, account, found, chatRoom, rooms, index, shared>>
  BY DEF FinishJoin
<1>2. SocketsOK'
  BY RoomsAssumption DEF IInv, FinishJoin, SocketsOK
<1>3. NoDeafMember'
  BY DEF IInv, FinishJoin, SocketsOK, NoDeafMember
<1>4. QED BY <1>1, <1>2, <1>3 DEF IInv, SessionFound

----------------------------------------------------------------------------
\* Creating and joining.

\* The member on s, which has left, is put in the room r.
LEMMA EnterIInv ==
    ASSUME IInv, NEW s \in Sockets, NEW r \in RoomIds, account[s] \in Members,
           NEW rs, NEW ix, NEW cr,
           Departed(rs, ix, cr, channel', account[s]),
           chatRoom' = [cr EXCEPT ![s] = r],
           joining[s][r] < MaxJoining,
           joining' = [joining EXCEPT ![s][r] = @ + 1],
           WorldOK(rooms', index'), Once(rooms', shared),
           \A x, q : Inside(rooms', x, q) <=> Inside(rs, x, q) \/ (x = account[s] /\ q = r),
           UNCHANGED <<status, account, found, shared>>
    PROVE  IInv'
<1>1. /\ chatRoom' \in [Sockets -> RoomIds \cup {NoRoom}]
      /\ \A t \in Sockets : chatRoom'[t] = IF t = s THEN r ELSE cr[t]
  BY DEF Departed
<1>2. Agree(rs, cr, account, shared) /\ Gone(rs, cr, account[s])
  BY DEF Departed
<1>3. /\ joining' \in [Sockets -> [RoomIds -> 0..MaxJoining]]
      /\ joining'[s][r] > 0
      /\ \A t \in Sockets \ {s} : joining'[t] = joining[t]
  <2>1. joining[s][r] \in Nat /\ joining[s][r] + 1 \in 0..MaxJoining
    BY RoomsAssumption DEF IInv, SocketsOK
  <2>2. QED BY <2>1 DEF IInv, SocketsOK
<1>4. SocketsOK'
  BY <1>1, <1>3 DEF Departed, IInv, SocketsOK
<1>5. ASSUME NEW t \in Sockets, chatRoom'[t] # NoRoom
      PROVE  /\ account[t] # NoMember
             /\ account[t] \notin shared => Inside(rooms', account[t], chatRoom'[t])
  <2>1. CASE t = s
    BY <1>1, <2>1, RoomsAssumption
  <2>2. CASE t # s
    BY <1>1, <1>2, <1>5, <2>2 DEF Agree
  <2>3. QED BY <2>1, <2>2
<1>6. ASSUME NEW x, NEW q, Inside(rooms', x, q), x \notin shared
      PROVE  \E t \in Sockets : account[t] = x /\ chatRoom'[t] = q
  <2>1. CASE x = account[s] /\ q = r
    BY <1>1, <2>1
  <2>2. CASE Inside(rs, x, q)
    <3>1. PICK t \in Sockets : account[t] = x /\ cr[t] = q
      BY <1>2, <1>6, <2>2 DEF Agree
    <3>2. t # s
      BY <1>2, <1>6, <2>2, <3>1 DEF Gone
    <3>3. QED BY <1>1, <3>1, <3>2
  <2>3. QED BY <1>6, <2>1, <2>2
<1>7. Agree(rooms', chatRoom', account, shared)
  BY <1>5, <1>6 DEF Agree
<1>8. NoDeafMember'
  BY <1>1, <1>3 DEF NoDeafMember, Departed
<1>9. QED BY <1>4, <1>7, <1>8 DEF IInv, SessionFound

LEMMA NewRoomFacts ==
    ASSUME NEW m \in Members, NEW env \in Envs, NEW name \in Names,
           NEW form \in Forms, NEW sent
    PROVE  LET room == NewRoom(m, env, name, form, sent)
           IN  /\ room \in Room
               /\ room.name = name /\ room.env = env
               /\ room.members = <<m>> /\ ToSet(room.members) = {m}
               /\ room.members # <<>> /\ \A sh : OnceIn(room.members, sh)
<1>1. form \in Setting
  BY RoomsAssumption
<1>2. \A n \in Int : ValidLimit(n) \in ROOM_LIMIT_MINIMUM..ROOM_LIMIT_MAXIMUM
  BY DEF ValidLimit, ROOM_LIMIT_MINIMUM, ROOM_LIMIT_MAXIMUM, ROOM_LIMIT_DEFAULT
<1>3. ROOM_LIMIT_DEFAULT \in ROOM_LIMIT_MINIMUM..ROOM_LIMIT_MAXIMUM
  BY DEF ROOM_LIMIT_MINIMUM, ROOM_LIMIT_MAXIMUM, ROOM_LIMIT_DEFAULT
<1>4. <<m>> \in Seq(Members)
  OBVIOUS
<1>5. {"All"} \subseteq Roles
  BY DEF Roles
<1> DEFINE room == NewRoom(m, env, name, form, sent)
<1>6. /\ room \in Room /\ room.name = name /\ room.env = env
      /\ room.members = <<m>>
  BY <1>1, <1>2, <1>3, <1>4, <1>5 DEF NewRoom, Room, Setting
<1>7. ToSet(<<m>>) = {m} /\ <<m>> # <<>> /\ \A sh : OnceIn(<<m>>, sh)
  BY DEF ToSet, OnceIn
<1> HIDE DEF room
<1>8. QED BY <1>6, <1>7 DEF room

LEMMA CreateRoomIInv ==
    ASSUME IInv, NEW s \in Sockets, NEW r \in RoomIds, NEW name \in Names,
           NEW form \in Forms, NEW sent, CreateRoom(s, r, name, form, sent)
    PROVE  IInv'
<1> DEFINE m == account[s]
           room == NewRoom(m, EnvOf[s], name, form, sent)
           rs == RoomsLeft(chatRoom[s], m)
           ix == IndexLeft(chatRoom[s], m)
<1>1. /\ m \in Members
      /\ r \notin DOMAIN rooms
      /\ \A q \in DOMAIN rooms : rooms[q].name # name
      /\ rooms' = With(rs, r, room)
      /\ index' = With(ix, Key(room), r)
      /\ Enter(s, r) /\ UNCHANGED <<status, account, found, shared>>
  BY DEF CreateRoom, Fresh, RoomNameExistsAny, IInv, SocketsOK
<1>2. PICK cr \in ChatRoomsLeft(chatRoom[s], m) : chatRoom' = [cr EXCEPT ![s] = r]
  BY <1>1 DEF Enter
<1>3. Departed(rs, ix, cr, channel', m)
  BY <1>1, <1>2, SocketDeparts DEF Enter
<1>4. /\ room \in Room /\ room.name = name
      /\ room.members # <<>> /\ OnceIn(room.members, shared)
      /\ ToSet(room.members) = {m}
  <2> HIDE DEF m
  <2> QED BY <1>1, NewRoomFacts, RoomsAssumption
<1>5. /\ DOMAIN rs \subseteq DOMAIN rooms
      /\ \A q \in DOMAIN rs : rs[q].name = rooms[q].name
  <2>1. Left(rs, ix, chatRoom[s], m) /\ \A q \in DOMAIN rs : SameRules(rooms[q], rs[q])
    BY RoomsLeftFacts
  <2>2. ASSUME NEW q \in DOMAIN rs PROVE rs[q].name = rooms[q].name
    <3>1. rs[q] \in Room /\ rooms[q] \in Room /\ SameRules(rooms[q], rs[q])
      BY <2>1 DEF Left, WorldOK, IInv
    <3>2. /\ [rs[q] EXCEPT !.members = <<>>].name = rs[q].name
          /\ [rooms[q] EXCEPT !.members = <<>>].name = rooms[q].name
      BY <3>1 DEF Room
    <3>3. QED BY <3>1, <3>2 DEF SameRules
  <2>3. QED BY <2>1, <2>2 DEF Left
<1> HIDE DEF room, rs, ix
<1>6. WorldOK(rooms', index')
  <2>1. r \in RoomIds \ DOMAIN rs /\ \A q \in DOMAIN rs : rs[q].name # room.name
    BY <1>1, <1>4, <1>5
  <2>2. WorldOK(With(rs, r, room), With(ix, Key(room), r))
    BY <1>3, <1>4, <2>1, AddWorld DEF Departed
  <2>3. QED BY <1>1, <2>2
<1>7. /\ DOMAIN rooms' = DOMAIN rs \cup {r}
      /\ \A q \in DOMAIN rooms' : rooms'[q] = IF q = r THEN room ELSE rs[q]
  BY <1>1 DEF With
<1>8. Once(rooms', shared)
  BY <1>3, <1>4, <1>7 DEF Departed, Once
<1>9. \A x, q : Inside(rooms', x, q) <=> Inside(rs, x, q) \/ (x = m /\ q = r)
  BY <1>1, <1>4, <1>5, <1>7 DEF Inside
<1>10. QED BY <1>1, <1>2, <1>3, <1>6, <1>8, <1>9, EnterIInv DEF Enter

\* The room that a join by name enters, as it finds it and as it leaves it.
LEMMA JoinFacts ==
    ASSUME IInv, NEW s \in Sockets, NEW name, JoinRoom(s, name)
    PROVE  LET r  == index[<<EnvOf[s], name>>]
               m  == account[s]
               rs == RoomsLeft(chatRoom[s], m)
           IN  /\ m \in Members /\ r \in DOMAIN rooms /\ r # chatRoom[s]
               /\ r \in DOMAIN rs /\ rs[r] = rooms[r]
               /\ rooms' = [rs EXCEPT ![r] = [rooms[r] EXCEPT !.members = Append(@, m)]]
               /\ index' = IndexLeft(chatRoom[s], m)
               /\ Enter(s, r) /\ UNCHANGED <<status, account, found, shared>>
<1> DEFINE r == index[<<EnvOf[s], name>>]
           m == account[s]
           rs == RoomsLeft(chatRoom[s], m)
<1>1. /\ m # NoMember
      /\ <<EnvOf[s], name>> \in DOMAIN index
      /\ chatRoom[s] # r
      /\ rooms' = [rs EXCEPT ![r] = [rs[r] EXCEPT !.members = Append(@, m)]]
      /\ index' = IndexLeft(chatRoom[s], m)
      /\ Enter(s, r) /\ UNCHANGED <<status, account, found, shared>>
  BY DEF JoinRoom, JoinAnswer
<1>2. r \in DOMAIN rooms /\ m \in Members
  BY <1>1 DEF IInv, WorldOK, SocketsOK
<1>3. r \in DOMAIN rs /\ rs[r] = rooms[r]
  <2>1. Left(rs, IndexLeft(chatRoom[s], m), chatRoom[s], m)
    BY RoomsLeftFacts
  <2> HIDE DEF r, rs
  <2>2. QED BY <1>1, <1>2, <2>1 DEF Left
<1> HIDE DEF r, m, rs
<1>4. /\ m \in Members /\ r \in DOMAIN rooms /\ r # chatRoom[s]
      /\ r \in DOMAIN rs /\ rs[r] = rooms[r]
      /\ rooms' = [rs EXCEPT ![r] = [rooms[r] EXCEPT !.members = Append(@, m)]]
      /\ index' = IndexLeft(chatRoom[s], m)
      /\ Enter(s, r) /\ UNCHANGED <<status, account, found, shared>>
  BY <1>1, <1>2, <1>3
<1>5. QED BY <1>4 DEF r, m, rs

LEMMA JoinRoomIInv ==
    ASSUME IInv, NEW s \in Sockets, NEW name \in Names, JoinRoom(s, name)
    PROVE  IInv'
<1>1. PICK r, m, rs, ix :
        /\ r = index[<<EnvOf[s], name>>] /\ m = account[s]
        /\ rs = RoomsLeft(chatRoom[s], m) /\ ix = IndexLeft(chatRoom[s], m)
  OBVIOUS
<1>2. /\ m \in Members /\ r \in DOMAIN rs /\ rs[r] = rooms[r]
      /\ rooms' = [rs EXCEPT ![r] = [rooms[r] EXCEPT !.members = Append(@, m)]]
      /\ index' = ix
      /\ Enter(s, r) /\ UNCHANGED <<status, account, found, shared>>
  BY <1>1, JoinFacts
<1>3. PICK cr \in ChatRoomsLeft(chatRoom[s], m) : chatRoom' = [cr EXCEPT ![s] = r]
  BY <1>1, <1>2 DEF Enter
<1>4. Departed(rs, ix, cr, channel', m)
  BY <1>1, <1>2, <1>3, SocketDeparts DEF Enter
<1> DEFINE seq == rs[r].members
           room == [rooms[r] EXCEPT !.members = Append(@, m)]
<1>5. rs[r] \in Room /\ seq \in Seq(Members) /\ OnceIn(seq, shared)
  BY <1>2, <1>4 DEF Departed, WorldOK, Room, Once
<1>6. m \in shared \/ m \notin ToSet(seq)
  BY <1>2, <1>4 DEF Departed, Gone, Inside
<1> HIDE DEF seq
<1>7. /\ Append(seq, m) \in Seq(Members) /\ OnceIn(Append(seq, m), shared)
      /\ ToSet(Append(seq, m)) = ToSet(seq) \cup {m} /\ Append(seq, m) # <<>>
  BY <1>2, <1>5, <1>6, AppendFacts
<1>8. room \in Room /\ Key(room) = Key(rs[r]) /\ room.members = Append(seq, m)
  BY <1>2, <1>5, <1>7 DEF Room, Key, seq
<1> HIDE DEF room
<1>9. rooms' = [rs EXCEPT ![r] = room]
  BY <1>2 DEF room
<1>10. WorldOK(rs, ix) /\ Once(rs, shared)
  BY <1>4 DEF Departed
<1>11. WorldOK(rooms', index')
  <2>1. r \in DOMAIN rs /\ room \in Room /\ Key(room) = Key(rs[r]) /\ room.members # <<>>
    BY <1>2, <1>7, <1>8
  <2>2. WorldOK([rs EXCEPT ![r] = room], ix)
    BY <1>10, <2>1, EditWorld
  <2>3. QED BY <1>2, <1>9, <2>2
<1>12. /\ DOMAIN rooms' = DOMAIN rs
       /\ \A q \in DOMAIN rs : rooms'[q] = IF q = r THEN room ELSE rs[q]
  BY <1>9, <1>10 DEF WorldOK
<1>13. Once(rooms', shared)
  BY <1>7, <1>8, <1>10, <1>12 DEF Once
<1>14. \A x, q : Inside(rooms', x, q) <=> Inside(rs, x, q) \/ (x = m /\ q = r)
  BY <1>2, <1>7, <1>8, <1>12 DEF Inside, seq
<1>15. r \in RoomIds
  BY <1>2, <1>10 DEF WorldOK
<1>16. QED BY <1>1, <1>2, <1>3, <1>4, <1>11, <1>13, <1>14, <1>15, EnterIInv DEF Enter
----------------------------------------------------------------------------
\* Moderation.

\* An admin acts in a room that exists. It is in it, or it has met another.
LEMMA MayAdminFacts ==
    ASSUME IInv, NEW s \in Sockets, NEW action, NEW target,
           MayAdmin(s, action, target)
    PROVE  LET r == chatRoom[s]
           IN  /\ r \in DOMAIN rooms /\ r # NoRoom
               /\ account[s] \in Members
               /\ account[s] \in rooms[r].admin
               /\ account[s] \in shared \/ account[s] \in ToSet(rooms[r].members)
               /\ rooms[r] \in Room
               /\ rooms[r].members \in Seq(Members)
               /\ OnceIn(rooms[r].members, shared)
               /\ rooms[r].members # <<>>
<1>1. /\ chatRoom[s] \in DOMAIN rooms
      /\ account[s] \in Members
      /\ account[s] \in rooms[chatRoom[s]].admin
  BY DEF IInv, SocketsOK, MayAdmin
<1>2. chatRoom[s] # NoRoom
  BY <1>1, RoomsAssumption DEF IInv, WorldOK
<1>3. account[s] \in shared \/ account[s] \in ToSet(rooms[chatRoom[s]].members)
  BY <1>2 DEF IInv, Agree, Inside
<1>4. QED BY <1>1, <1>2, <1>3 DEF IInv, WorldOK, Once, Room

\* A room gets other contents, with the same people in it.
LEMMA SameFolk ==
    ASSUME IInv, NEW r \in DOMAIN rooms, NEW room \in Room,
           ToSet(room.members) = ToSet(rooms[r].members),
           OnceIn(room.members, shared),
           rooms' = [rooms EXCEPT ![r] = room],
           WorldOK(rooms', index'),
           UNCHANGED <<status, account, found, chatRoom, joining, channel, shared>>
    PROVE  IInv'
<1>1. /\ DOMAIN rooms' = DOMAIN rooms
      /\ \A q \in DOMAIN rooms : rooms'[q] = IF q = r THEN room ELSE rooms[q]
  BY DEF IInv, WorldOK
<1>2. \A x, q : Inside(rooms', x, q) <=> Inside(rooms, x, q)
  BY <1>1 DEF Inside
<1>3. Agree(rooms', chatRoom, account, shared)
  <2>1. Agree(rooms, chatRoom, account, shared)
    BY DEF IInv
  <2>2. QED BY <1>2, <2>1 DEF Agree
<1>4. Once(rooms', shared)
  BY <1>1 DEF IInv, Once
<1>5. SocketsOK' /\ SessionFound' /\ NoDeafMember'
  BY DEF IInv, SocketsOK, SessionFound, NoDeafMember
<1>6. QED BY <1>3, <1>4, <1>5 DEF IInv

LEMMA SetRoomIInv ==
    ASSUME IInv, NEW r \in DOMAIN rooms, NEW room \in Room,
           Key(room) = Key(rooms[r]),
           ToSet(room.members) = ToSet(rooms[r].members),
           OnceIn(room.members, shared),
           SetRoom(r, room)
    PROVE  IInv'
<1>1. rooms[r].members \in Seq(Members) /\ rooms[r].members # <<>>
  BY DEF IInv, WorldOK, Room
<1>2. room.members # <<>>
  BY <1>1, EmptyList DEF Room
<1>3. WorldOK([rooms EXCEPT ![r] = room], index)
  BY <1>2, EditWorld DEF IInv
<1>4. /\ rooms' = [rooms EXCEPT ![r] = room] /\ index' = index
      /\ UNCHANGED <<status, account, found, chatRoom, joining, channel, shared>>
  BY DEF SetRoom
<1>5. QED BY <1>3, <1>4, SameFolk

\* The list of members is put in another order.
LEMMA ReorderIInv ==
    ASSUME IInv, NEW r \in DOMAIN rooms, NEW seq \in Seq(Members),
           OnceIn(seq, shared), ToSet(seq) = ToSet(rooms[r].members),
           SetRoom(r, [rooms[r] EXCEPT !.members = seq])
    PROVE  IInv'
<1> DEFINE room == [rooms[r] EXCEPT !.members = seq]
<1>1. rooms[r] \in Room
  BY DEF IInv, WorldOK
<1>2. room \in Room /\ Key(room) = Key(rooms[r]) /\ room.members = seq
  BY <1>1 DEF Room, Key
<1> HIDE DEF room
<1>3. SetRoom(r, room)
  BY DEF room
<1>4. QED BY <1>2, <1>3, SetRoomIInv

LEMMA SwapIInv ==
    ASSUME IInv, NEW s \in Sockets, NEW t \in Members, NEW d \in Members,
           Swap(s, t, d)
    PROVE  IInv'
<1> DEFINE r == chatRoom[s]
           seq == rooms[r].members
           i == Position(seq, t)
           j == Position(seq, d)
<1>1. PICK target \in Members : MayAdmin(s, "Swap", target)
  BY DEF Swap
<1>2. /\ r \in DOMAIN rooms /\ seq \in Seq(Members) /\ OnceIn(seq, shared)
  BY <1>1, MayAdminFacts
<1>3. /\ t \in ToSet(seq) /\ d \in ToSet(seq)
      /\ SetRoom(r, [rooms[r] EXCEPT !.members = Swapped(seq, i, j)])
  BY DEF Swap, InRoom
<1>4. ToSet(rooms[r].members) = ToSet(seq)
  OBVIOUS
<1> HIDE DEF r, seq
<1>5. i \in 1..Len(seq) /\ j \in 1..Len(seq)
  BY <1>2, <1>3, PositionFound
<1> HIDE DEF i, j
<1>6. QED BY <1>2, <1>3, <1>4, <1>5, SwappedFacts, ReorderIInv

LEMMA MoveLeftIInv ==
    ASSUME IInv, NEW s \in Sockets, NEW m \in Members, MoveLeft(s, m)
    PROVE  IInv'
<1> DEFINE r == chatRoom[s]
           seq == rooms[r].members
           i == Position(seq, m)
<1>1. /\ r \in DOMAIN rooms /\ seq \in Seq(Members) /\ OnceIn(seq, shared)
  BY MayAdminFacts DEF MoveLeft
<1>2. /\ m \in ToSet(seq) /\ i > 1
      /\ SetRoom(r, [rooms[r] EXCEPT !.members = Swapped(seq, i, i - 1)])
  BY DEF MoveLeft, InRoom
<1>3. ToSet(rooms[r].members) = ToSet(seq)
  OBVIOUS
<1> HIDE DEF r, seq
<1>4. i \in 1..Len(seq)
  BY <1>1, <1>2, PositionFound
<1> HIDE DEF i
<1>5. i - 1 \in 1..Len(seq)
  BY <1>1, <1>2, <1>4
<1>6. QED BY <1>1, <1>2, <1>3, <1>4, <1>5, SwappedFacts, ReorderIInv

LEMMA MoveRightIInv ==
    ASSUME IInv, NEW s \in Sockets, NEW m \in Members, MoveRight(s, m)
    PROVE  IInv'
<1> DEFINE r == chatRoom[s]
           seq == rooms[r].members
           i == Position(seq, m)
<1>1. /\ r \in DOMAIN rooms /\ seq \in Seq(Members) /\ OnceIn(seq, shared)
  BY MayAdminFacts DEF MoveRight
<1>2. /\ m \in ToSet(seq) /\ i < Len(seq)
      /\ SetRoom(r, [rooms[r] EXCEPT !.members = Swapped(seq, i, i + 1)])
  BY DEF MoveRight, InRoom
<1>3. ToSet(rooms[r].members) = ToSet(seq)
  OBVIOUS
<1> HIDE DEF r, seq
<1>4. i \in 1..Len(seq)
  BY <1>1, <1>2, PositionFound
<1> HIDE DEF i
<1>5. i + 1 \in 1..Len(seq)
  BY <1>1, <1>2, <1>4
<1>6. QED BY <1>1, <1>2, <1>3, <1>4, <1>5, SwappedFacts, ReorderIInv

LEMMA ShuffleIInv ==
    ASSUME IInv, NEW s \in Sockets, NEW m \in Members, Shuffle(s, m)
    PROVE  IInv'
<1> DEFINE r == chatRoom[s]
           seq == rooms[r].members
<1>1. /\ r \in DOMAIN rooms /\ seq \in Seq(Members) /\ OnceIn(seq, shared)
  BY MayAdminFacts DEF Shuffle
<1>2. PICK w \in Shuffles(seq) : SetRoom(r, [rooms[r] EXCEPT !.members = w])
  BY DEF Shuffle
<1>3. ToSet(rooms[r].members) = ToSet(seq)
  OBVIOUS
<1> HIDE DEF r, seq
<1>4. QED BY <1>1, <1>2, <1>3, ShufflesFacts, ReorderIInv

LEMMA EditListIInv ==
    ASSUME IInv, NEW s \in Sockets, NEW m \in Members, EditList(s, m)
    PROVE  IInv'
<1> DEFINE r == chatRoom[s]
           room == rooms[r]
<1>1. PICK action, new :
        /\ MayAdmin(s, action, m)
        /\ SetRoom(r, new)
        /\ new \in {[room EXCEPT !.ban = @ \cup {m}], [room EXCEPT !.ban = @ \ {m}],
                    [room EXCEPT !.whitelist = @ \cup {m}],
                    [room EXCEPT !.whitelist = @ \ {m}],
                    [room EXCEPT !.admin = @ \cup {m}],
                    [room EXCEPT !.admin = @ \ {m}]}
  BY DEF EditList
<1>2. /\ r \in DOMAIN rooms /\ room \in Room /\ OnceIn(room.members, shared)
  BY <1>1, MayAdminFacts
<1>3. new \in Room /\ Key(new) = Key(room) /\ new.members = room.members
  BY <1>1, <1>2 DEF Room, Key
<1> HIDE DEF r
<1>4. ToSet(new.members) = ToSet(rooms[r].members) /\ OnceIn(new.members, shared)
  BY <1>2, <1>3
<1>5. QED BY <1>1, <1>2, <1>3, <1>4, SetRoomIInv

LEMMA UpdatedRoomFacts ==
    ASSUME NEW room \in Room, NEW name \in Names, NEW form \in Forms, NEW sent
    PROVE  LET new == UpdatedRoom(room, name, form, sent)
           IN  /\ new \in Room
               /\ new.name = name /\ new.env = room.env
               /\ new.members = room.members
<1>1. form \in Setting
  BY RoomsAssumption
<1>2. \A n \in Int : ValidLimit(n) \in ROOM_LIMIT_MINIMUM..ROOM_LIMIT_MAXIMUM
  BY DEF ValidLimit, ROOM_LIMIT_MINIMUM, ROOM_LIMIT_MAXIMUM, ROOM_LIMIT_DEFAULT
<1>3. ROOM_LIMIT_DEFAULT \in ROOM_LIMIT_MINIMUM..ROOM_LIMIT_MAXIMUM
  BY DEF ROOM_LIMIT_MINIMUM, ROOM_LIMIT_MAXIMUM, ROOM_LIMIT_DEFAULT
<1> DEFINE limit == IF "Limit" \in sent THEN ValidLimit(form.limit)
                                        ELSE ROOM_LIMIT_DEFAULT
           whitelist == IF "Whitelist" \in sent THEN form.whitelist ELSE room.whitelist
           access == IF "Access" \in sent THEN form.access ELSE room.access
           visibility == IF "Visibility" \in sent THEN form.visibility
                                                  ELSE room.visibility
<1>4. /\ limit \in ROOM_LIMIT_MINIMUM..ROOM_LIMIT_MAXIMUM
      /\ whitelist \in SUBSET Members
      /\ access \in SUBSET Roles /\ visibility \in SUBSET Roles
      /\ form.admin \in SUBSET Members /\ form.ban \in SUBSET Members
  BY <1>1, <1>2, <1>3 DEF Setting, Room
<1>5. UpdatedRoom(room, name, form, sent) =
        [room EXCEPT !.name = name, !.admin = form.admin, !.ban = form.ban,
                     !.limit = limit, !.whitelist = whitelist, !.access = access,
                     !.visibility = visibility]
  BY DEF UpdatedRoom, Room
<1> HIDE DEF limit, whitelist, access, visibility
<1>6. QED BY <1>4, <1>5 DEF Room

LEMMA UpdateRoomIInv ==
    ASSUME IInv, NEW s \in Sockets, NEW name \in Names, NEW form \in Forms, NEW sent,
           UpdateRoom(s, name, form, sent)
    PROVE  IInv'
<1> DEFINE r == chatRoom[s]
           room == UpdatedRoom(rooms[r], name, form, sent)
<1>1. PICK target \in Members : MayAdmin(s, "Update", target)
  BY DEF UpdateRoom
<1>2. /\ r \in DOMAIN rooms /\ rooms[r] \in Room
      /\ OnceIn(rooms[r].members, shared) /\ rooms[r].members # <<>>
  BY <1>1, MayAdminFacts
<1>3. /\ room \in Room /\ room.name = name /\ room.env = rooms[r].env
      /\ room.members = rooms[r].members
  BY <1>2, UpdatedRoomFacts
<1>4. /\ name = rooms[r].name \/ \A q \in DOMAIN rooms : rooms[q].name # name
      /\ rooms' = [rooms EXCEPT ![r] = room]
      /\ index' = IF Key(rooms[r]) = Key(room) THEN index
                  ELSE With(Drop(index, Key(rooms[r])), Key(room), r)
      /\ UNCHANGED <<status, account, found, chatRoom, joining, channel, shared>>
  BY DEF UpdateRoom, RoomNameExistsAny
<1> HIDE DEF room, r
<1>5. WorldOK(rooms, index)
  BY DEF IInv
<1>6. WorldOK(rooms', index')
  <2>1. CASE Key(rooms[r]) = Key(room)
    BY <1>2, <1>3, <1>4, <1>5, <2>1, EditWorld
  <2>2. CASE Key(rooms[r]) # Key(room)
    <3>1. room.name # rooms[r].name
      BY <1>3, <2>2 DEF Key
    <3>2. \A q \in DOMAIN rooms : rooms[q].name # room.name
      BY <1>3, <1>4, <3>1
    <3>3. WorldOK([rooms EXCEPT ![r] = room],
                  With(Drop(index, Key(rooms[r])), Key(room), r))
      BY <1>2, <1>3, <1>5, <3>2, RenameWorld
    <3>4. QED BY <1>4, <2>2, <3>3
  <2>3. QED BY <2>1, <2>2
<1>7. ToSet(room.members) = ToSet(rooms[r].members) /\ OnceIn(room.members, shared)
  BY <1>2, <1>3
<1>8. QED BY <1>2, <1>3, <1>4, <1>6, <1>7, SameFolk
\* A number is put out by an admin.
LEMMA EvictDeparts ==
    ASSUME IInv, NEW s \in Sockets, NEW m \in Members, NEW action,
           MayAdmin(s, action, m), NEW room \in Room,
           Key(room) = Key(rooms[chatRoom[s]]),
           room.members = rooms[chatRoom[s]].members,
           Evict(s, m, room)
    PROVE  Departed(rooms', index', chatRoom', channel', m)
<1> DEFINE r == chatRoom[s]
<1>1. r \in DOMAIN rooms /\ Inside(rooms, m, r)
  BY MayAdminFacts DEF Evict, InRoom, Inside
<1>2. /\ rooms' = LeftAs(r, room, m) /\ index' = IndexLeft(r, m)
      /\ chatRoom' \in ChatRoomsLeft(r, m) /\ channel' = ChannelLeft(r, m)
  BY DEF Evict
<1>3. Left(rooms', index', r, m)
  BY <1>1, <1>2, LeftAsFacts
<1>4. m \notin shared => \E t \in Sockets : account[t] = m /\ chatRoom[t] = r
  BY <1>1 DEF IInv, Agree
<1>5. QED BY <1>2, <1>3, <1>4, Departs

LEMMA KickIInv ==
    ASSUME IInv, NEW s \in Sockets, NEW m \in Members, Kick(s, m)
    PROVE  IInv'
<1>1. MayAdmin(s, "Kick", m) /\ Evict(s, m, rooms[chatRoom[s]])
  BY DEF Kick
<1>2. rooms[chatRoom[s]] \in Room
  BY <1>1, MayAdminFacts
<1>3. Departed(rooms', index', chatRoom', channel', m)
  BY <1>1, <1>2, EvictDeparts
<1>4. QED BY <1>1, <1>3, DepartIInv DEF Evict

LEMMA BannedRoom ==
    ASSUME NEW room \in Room, NEW m \in Members
    PROVE  LET new == [room EXCEPT !.ban = @ \cup {m}]
           IN  new \in Room /\ Key(new) = Key(room) /\ new.members = room.members
  BY DEF Room, Key

LEMMA BanPresentIInv ==
    ASSUME IInv, NEW s \in Sockets, NEW m \in Members, BanPresent(s, m)
    PROVE  IInv'
<1>1. PICK room : /\ room = [rooms[chatRoom[s]] EXCEPT !.ban = @ \cup {m}]
                  /\ MayAdmin(s, "Ban", m) /\ Evict(s, m, room)
  BY DEF BanPresent
<1>2. rooms[chatRoom[s]] \in Room
  BY <1>1, MayAdminFacts
<1>3. /\ room \in Room /\ Key(room) = Key(rooms[chatRoom[s]])
      /\ room.members = rooms[chatRoom[s]].members
  BY <1>1, <1>2, BannedRoom
<1>4. Departed(rooms', index', chatRoom', channel', m)
  BY <1>1, <1>3, EvictDeparts
<1>5. QED BY <1>1, <1>4, DepartIInv DEF Evict

----------------------------------------------------------------------------
\* The invariant, for every step and so for every reachable state.

LEMMA StepIInv ==
    ASSUME IInv, NEW s \in Sockets, Step(s)
    PROVE  IInv'
<1>1. CASE \E m \in Members : Login(s, m)
  BY <1>1, LoginIInv
<1>2. CASE \E m \in Members : CreateAccount(s, m)
  BY <1>2, CreateAccountIInv
<1>3. CASE SignOut(s)
  BY <1>3, SignOutIInv
<1>4. CASE Close(s)
  BY <1>4, CloseIInv
<1>5. CASE Cleanup(s)
  BY <1>5, CleanupIInv
<1>6. CASE \E r \in RoomIds, name \in Names, form \in Forms, sent \in CreateSent :
              CreateRoom(s, r, name, form, sent)
  BY <1>6, CreateRoomIInv
<1>7. CASE \E name \in Names : JoinRoom(s, name)
  BY <1>7, JoinRoomIInv
<1>8. CASE LeaveRoom(s) \/ \E name \in Names : FailJoin(s, name)
  BY <1>8, LeaveIInv DEF LeaveRoom, FailJoin
<1>9. CASE \E r \in RoomIds : FinishJoin(s, r)
  BY <1>9, FinishJoinIInv
<1>10. CASE Admin(s)
  <2> USE RoomsAssumption
  <2>1. CASE \E name \in Names, form \in Forms, sent \in UpdateSent :
                UpdateRoom(s, name, form, sent)
    BY <2>1, UpdateRoomIInv
  <2>2. CASE \E t, d \in Members : Swap(s, t, d)
    BY <2>2, SwapIInv
  <2>3. CASE \E m \in Targets : MoveLeft(s, m)
    BY <2>3, MoveLeftIInv
  <2>4. CASE \E m \in Targets : MoveRight(s, m)
    BY <2>4, MoveRightIInv
  <2>5. CASE \E m \in Targets : Shuffle(s, m)
    BY <2>5, ShuffleIInv
  <2>6. CASE \E m \in Targets : Kick(s, m)
    BY <2>6, KickIInv
  <2>7. CASE \E m \in Targets : BanPresent(s, m)
    BY <2>7, BanPresentIInv
  <2>8. CASE \E m \in Targets : EditList(s, m)
    BY <2>8, EditListIInv
  <2>9. QED
    BY <1>10, <2>1, <2>2, <2>3, <2>4, <2>5, <2>6, <2>7, <2>8 DEF Admin
<1>11. QED
  BY <1>1, <1>2, <1>3, <1>4, <1>5, <1>6, <1>7, <1>8, <1>9, <1>10 DEF Step

LEMMA StutterIInv == IInv /\ UNCHANGED vars => IInv'
<1> SUFFICES ASSUME IInv, UNCHANGED vars PROVE IInv'
  OBVIOUS
<1>1. UNCHANGED <<status, account, found, chatRoom, rooms, index, joining, channel, shared>>
  BY DEF vars
<1>2. SocketsOK' /\ SessionFound' /\ NoDeafMember'
  BY <1>1 DEF IInv, SocketsOK, SessionFound, NoDeafMember
<1>3. QED BY <1>1, <1>2 DEF IInv

\* IInv is an inductive invariant of the rooms: whichever sessions are put over
\* others on their sockets, the records of all other accounts are in order.
THEOREM Invariance == Spec => []IInv
<1>1. IInv /\ [Next]_vars => IInv'
  BY StepIInv, StutterIInv DEF Next
<1>2. QED BY InitIInv, <1>1, PTL DEF Spec

\* Type correctness of all maps of World and of the sockets' state.
THEOREM TypeCorrect == Spec => []TypeOK
<1>1. IInv => TypeOK
  BY IInvSplit
<1>2. QED BY Invariance, <1>1, PTL

\* Of an account that has met no other, World's two maps of accounts agree, and so
\* do its chat_room_id and the members of the rooms.
THEOREM MembershipIsConsistent == Spec => [](SessionFound /\ MembershipAgrees)
<1>1. IInv => SessionFound /\ MembershipAgrees
  BY IInvSplit
<1>2. QED BY Invariance, <1>1, PTL

\* No handler leaves an empty room behind, or puts a number in a room twice unless
\* its account has met another.
THEOREM RoomsAreOccupied == Spec => []OccupiedOnce
<1>1. IInv => OccupiedOnce
  BY IInvSplit
<1>2. QED BY Invariance, <1>1, PTL

\* The index finds each room under its present name, and nothing else; and a
\* name is used once in all environments.
THEOREM IndexIsExact == Spec => [](IndexExact /\ NamesUnique)
<1>1. IInv => IndexExact /\ NamesUnique
  BY IInvSplit
<1>2. QED BY Invariance, <1>1, PTL

\* A connected member is in the channel of its room or has a join under way.
THEOREM MembersHear == Spec => []NoDeafMember
<1>1. IInv => NoDeafMember
  BY IInvSplit
<1>2. QED BY Invariance, <1>1, PTL

\* Two rooms never have the same name, whatever their environments (the two tests
\* of a name, on creation and on renaming, and the removal of names).
THEOREM NamesAreUnique == Spec => []NamesUnique
<1>1. IInv => NamesUnique
  BY IInvSplit
<1>2. QED BY Invariance, <1>1, PTL

LEMMA SearchStep == IInv => SearchIsHonest
<1> SUFFICES ASSUME IInv, NEW s \in Sockets, NEW r \in DOMAIN rooms,
                    NEW exact \in BOOLEAN, NEW locked \in BOOLEAN,
                    account[s] \notin shared \cup {NoMember}, chatRoom[s] # r,
                    Listed(s, r, exact, FALSE, locked), CanJoin(s, r)
             PROVE  /\ JoinAnswer(s, rooms[r].name) = "JoinedRoom"
                    /\ index[<<EnvOf[s], rooms[r].name>>] = r
  BY DEF SearchIsHonest
<1> DEFINE key == <<EnvOf[s], rooms[r].name>>
<1>1. key = Key(rooms[r])
  BY DEF Listed, Key
<1>2. key \in DOMAIN index /\ index[key] = r
  BY <1>1, IInvSplit DEF IndexExact
<1>3. /\ ~ IsFull(rooms[r]) /\ account[s] \notin rooms[r].ban
      /\ HasAnyRole(account[s], rooms[r], rooms[r].access)
  BY DEF Listed, CanJoin
<1>4. Known(account[s])
  <2>1. account[s] \in Members \ shared
    BY DEF IInv, SocketsOK
  <2>2. found[account[s]] = s
    BY <2>1 DEF IInv, SessionFound
  <2>3. QED BY <2>1, <2>2, RoomsAssumption DEF Known
<1>5. QED BY <1>2, <1>3, <1>4 DEF JoinAnswer

\* A room that a search returns with CanJoin, to a member that did not ask for full
\* rooms, is the one a join by its name enters: the two handlers test the rules
\* apart from each other, and the second finds the room by the index.
THEOREM SearchesAreHonest == Spec => []SearchIsHonest
<1>1. QED BY Invariance, SearchStep, PTL
----------------------------------------------------------------------------
\* What a step may do to the members and to the rules of a room, and to the places
\* of the members.

EntryOK(r) ==
    \A m \in ToSet(rooms'[r].members) \ ToSet(rooms[r].members) :
        /\ m \notin rooms[r].ban
        /\ HasAnyRole(m, rooms[r], rooms[r].access)
        /\ Len(rooms'[r].members) <= rooms[r].limit

RulesOK(r) ==
    SameRules(rooms[r], rooms'[r]) \/
        \E m \in rooms[r].admin :
            \/ InRoom(m, r) /\ m \in ToSet(rooms'[r].members)
            \/ m \in shared /\ Online(m)

\* Only m moves, and into one room at most.
Moves(m) ==
    /\ \A x, q : x # m => (Inside(rooms', x, q) <=> Inside(rooms, x, q))
    /\ \A p, q : /\ Inside(rooms', m, p) /\ ~ Inside(rooms, m, p)
                 /\ Inside(rooms', m, q) /\ ~ Inside(rooms, m, q)
                 => p = q

Allowed ==
    /\ \A r \in DOMAIN rooms \cap DOMAIN rooms' : EntryOK(r) /\ RulesOK(r)
    /\ \E m : Moves(m)

LEMMA NobodyEnters ==
    ASSUME \A x, q : Inside(rooms', x, q) => Inside(rooms, x, q)
    PROVE  \A r \in DOMAIN rooms \cap DOMAIN rooms' : EntryOK(r)
  BY DEF Inside, EntryOK

\* The rules stay as they are, and at most m goes.
LEMMA QuietStep ==
    ASSUME NEW m,
           \A q \in DOMAIN rooms \cap DOMAIN rooms' : SameRules(rooms[q], rooms'[q]),
           \A x, q : Inside(rooms', x, q) => Inside(rooms, x, q),
           \A x, q : x # m /\ Inside(rooms, x, q) => Inside(rooms', x, q)
    PROVE  Allowed
<1>1. Moves(m)
  BY DEF Moves
<1>2. QED BY <1>1, NobodyEnters DEF Allowed, RulesOK

LEMMA StayStep == ASSUME UNCHANGED rooms PROVE Allowed
  BY QuietStep DEF SameRules, Inside

LEMMA LoginStep == ASSUME IInv, NEW s, NEW m \in Members, Login(s, m) PROVE Allowed
<1>1. /\ \A x, q : Inside(rooms', x, q) <=> Inside(rooms, x, q) /\ x # m
      /\ \A q \in DOMAIN rooms' : SameRules(rooms[q], rooms'[q])
  BY LeftAllFacts DEF Login
<1>2. QED BY <1>1, QuietStep

LEMMA LeaveStep ==
    ASSUME IInv, NEW r, NEW m, rooms' = RoomsLeft(r, m)
    PROVE  Allowed
<1>1. /\ Left(rooms', IndexLeft(r, m), r, m)
      /\ \A q \in DOMAIN rooms' : SameRules(rooms[q], rooms'[q])
  BY RoomsLeftFacts
<1>2. QED BY <1>1, QuietStep DEF Left

LEMMA CreateStep ==
    ASSUME IInv, NEW s \in Sockets, NEW r, NEW name, NEW form, NEW sent,
           CreateRoom(s, r, name, form, sent)
    PROVE  Allowed
<1>1. PICK m, rs, ix, room :
        /\ m = account[s] /\ rs = RoomsLeft(chatRoom[s], m) /\ ix = IndexLeft(chatRoom[s], m)
        /\ room = NewRoom(m, EnvOf[s], name, form, sent)
  OBVIOUS
<1>2. r \notin DOMAIN rooms /\ rooms' = With(rs, r, room) /\ room.members = <<m>>
  BY <1>1 DEF CreateRoom, Fresh, NewRoom
<1>3. /\ Left(rs, ix, chatRoom[s], m)
      /\ \A q \in DOMAIN rs : SameRules(rooms[q], rs[q])
  BY <1>1, RoomsLeftFacts
<1>4. /\ DOMAIN rooms' = DOMAIN rs \cup {r} /\ r \notin DOMAIN rs
      /\ \A q \in DOMAIN rooms' : rooms'[q] = IF q = r THEN room ELSE rs[q]
  BY <1>2, <1>3 DEF With, Left
<1>5. ToSet(<<m>>) = {m}
  BY DEF ToSet
<1>6. \A x, q : Inside(rooms', x, q) <=> Inside(rs, x, q) \/ (x = m /\ q = r)
  BY <1>2, <1>4, <1>5 DEF Inside
<1>7. Moves(m)
  BY <1>3, <1>6 DEF Moves, Left
<1>8. ASSUME NEW q \in DOMAIN rooms \cap DOMAIN rooms'
      PROVE  EntryOK(q) /\ RulesOK(q)
  <2>1. q \in DOMAIN rs /\ rooms'[q] = rs[q]
    BY <1>2, <1>4
  <2>2. ToSet(rs[q].members) \subseteq ToSet(rooms[q].members)
    BY <1>3, <2>1 DEF Left, Inside
  <2>3. QED BY <1>3, <2>1, <2>2 DEF EntryOK, RulesOK
<1>9. QED BY <1>7, <1>8 DEF Allowed

LEMMA JoinStep ==
    ASSUME IInv, NEW s \in Sockets, NEW name, JoinRoom(s, name)
    PROVE  Allowed
<1>1. PICK r, m, rs, ix :
        /\ r = index[<<EnvOf[s], name>>] /\ m = account[s]
        /\ rs = RoomsLeft(chatRoom[s], m) /\ ix = IndexLeft(chatRoom[s], m)
  OBVIOUS
<1>2. PICK room : room = [rooms[r] EXCEPT !.members = Append(@, m)]
  OBVIOUS
<1>3. /\ m \in Members /\ r \in DOMAIN rooms
      /\ r \in DOMAIN rs /\ rs[r] = rooms[r]
      /\ rooms' = [rs EXCEPT ![r] = room]
  BY <1>1, <1>2, JoinFacts
<1>4. /\ ~ IsFull(rooms[r]) /\ m \notin rooms[r].ban
      /\ HasAnyRole(m, rooms[r], rooms[r].access)
  BY <1>1 DEF JoinRoom, JoinAnswer
<1>5. /\ Left(rs, ix, chatRoom[s], m)
      /\ \A q \in DOMAIN rs : SameRules(rooms[q], rs[q])
  BY <1>1, RoomsLeftFacts
<1>6. /\ DOMAIN rooms' = DOMAIN rs
      /\ \A q \in DOMAIN rs : rooms'[q] = IF q = r THEN room ELSE rs[q]
  BY <1>3, <1>5 DEF Left, WorldOK
<1>7. /\ rooms[r] \in Room /\ rooms[r].members \in Seq(Members)
      /\ room.members = Append(rooms[r].members, m) /\ SameRules(rooms[r], room)
  <2>1. rooms[r] \in Room /\ rooms[r].members \in Seq(Members)
    BY <1>3 DEF IInv, WorldOK, Room
  <2>2. PICK seq : seq = Append(rooms[r].members, m) /\ room = [rooms[r] EXCEPT !.members = seq]
    BY <1>2, <2>1
  <2>3. QED BY <2>1, <2>2, MembersOnly
<1>8. /\ ToSet(room.members) = ToSet(rooms[r].members) \cup {m}
      /\ Len(room.members) <= rooms[r].limit
  <2>1. Len(room.members) = Len(rooms[r].members) + 1 /\ rooms[r].limit \in Int
    BY <1>3, <1>7 DEF Room, ROOM_LIMIT_MINIMUM, ROOM_LIMIT_MAXIMUM
  <2>2. Len(room.members) <= rooms[r].limit
    BY <1>4, <1>7, <2>1 DEF IsFull
  <2>3. OnceIn(rooms[r].members, Members)
    BY <1>7 DEF OnceIn
  <2>4. QED BY <1>3, <1>7, <2>2, <2>3, AppendFacts
<1>9. \A x, q : Inside(rooms', x, q) <=> Inside(rs, x, q) \/ (x = m /\ q = r)
  BY <1>3, <1>6, <1>8 DEF Inside
<1>10. Moves(m)
  BY <1>5, <1>9 DEF Moves, Left
<1>11. ASSUME NEW q \in DOMAIN rooms \cap DOMAIN rooms'
       PROVE  EntryOK(q) /\ RulesOK(q)
  <2>1. CASE q = r
    BY <1>3, <1>4, <1>6, <1>7, <1>8, <2>1 DEF EntryOK, RulesOK
  <2>2. CASE q # r
    <3>1. q \in DOMAIN rs /\ rooms'[q] = rs[q]
      BY <1>6, <2>2
    <3>2. ToSet(rs[q].members) \subseteq ToSet(rooms[q].members)
      BY <1>5, <3>1 DEF Left, Inside
    <3>3. QED BY <1>5, <3>1, <3>2 DEF EntryOK, RulesOK
  <2>3. QED BY <2>1, <2>2
<1>12. QED BY <1>10, <1>11 DEF Allowed

\* An admin changes its room, and may put the number m, not its own, out of it.
LEMMA AdminStep ==
    ASSUME IInv, NEW s \in Sockets, NEW action, NEW target,
           MayAdmin(s, action, target), NEW m, m # account[s],
           \A q \in DOMAIN rooms \cap DOMAIN rooms' :
              q # chatRoom[s] => rooms'[q] = rooms[q],
           \A x, q : Inside(rooms', x, q) => Inside(rooms, x, q),
           \A x, q : x # m /\ Inside(rooms, x, q) => Inside(rooms', x, q)
    PROVE  Allowed
<1>1. Moves(m)
  BY DEF Moves
<1>2. ASSUME NEW q \in DOMAIN rooms \cap DOMAIN rooms' PROVE RulesOK(q)
  <2>1. CASE q # chatRoom[s]
    BY <2>1 DEF RulesOK, SameRules
  <2>2. CASE q = chatRoom[s]
    <3>1. /\ account[s] \in rooms[q].admin
          /\ account[s] \in shared \/ account[s] \in ToSet(rooms[q].members)
      BY <2>2, MayAdminFacts
    <3>2. CASE account[s] \in shared
      BY <3>1, <3>2 DEF RulesOK, Online, SessionsOf
    <3>3. CASE account[s] \in ToSet(rooms[q].members)
      <4>1. Inside(rooms, account[s], q)
        BY <3>3 DEF Inside
      <4>2. Inside(rooms', account[s], q)
        BY <4>1
      <4>3. QED BY <3>1, <3>3, <4>2 DEF RulesOK, InRoom, Inside
    <3>4. QED BY <3>1, <3>2, <3>3
  <2>3. QED BY <2>1, <2>2
<1>3. QED BY <1>1, <1>2, NobodyEnters DEF Allowed

LEMMA EvictStep ==
    ASSUME IInv, NEW s \in Sockets, NEW m \in Members, Kick(s, m) \/ BanPresent(s, m)
    PROVE  Allowed
<1>1. PICK action, room :
        /\ MayAdmin(s, action, m) /\ m # account[s] /\ Evict(s, m, room)
        /\ room = rooms[chatRoom[s]] \/ room = [rooms[chatRoom[s]] EXCEPT !.ban = @ \cup {m}]
  BY DEF Kick, BanPresent, MayAdmin, SelfActions
<1>2. chatRoom[s] \in DOMAIN rooms /\ rooms[chatRoom[s]] \in Room
  BY <1>1, MayAdminFacts
<1>3. /\ room \in Room /\ Key(room) = Key(rooms[chatRoom[s]])
      /\ room.members = rooms[chatRoom[s]].members
  BY <1>1, <1>2, BannedRoom
<1>4. Left(rooms', index', chatRoom[s], m)
  BY <1>1, <1>2, <1>3, LeftAsFacts DEF Evict
<1>5. QED BY <1>1, <1>4, AdminStep DEF Left

\* The rules of the room of s change, and nobody moves.
LEMMA EditStep ==
    ASSUME IInv, NEW s \in Sockets, NEW action, NEW target,
           MayAdmin(s, action, target), NEW room,
           room.members = rooms[chatRoom[s]].members,
           rooms' = [rooms EXCEPT ![chatRoom[s]] = room]
    PROVE  Allowed
<1>1. chatRoom[s] \in DOMAIN rooms /\ account[s] \in Members
  BY MayAdminFacts
<1>2. /\ DOMAIN rooms' = DOMAIN rooms
      /\ \A q \in DOMAIN rooms : rooms'[q] = IF q = chatRoom[s] THEN room ELSE rooms[q]
  BY DEF IInv, WorldOK
<1>3. \A x, q : Inside(rooms', x, q) <=> Inside(rooms, x, q)
  BY <1>2 DEF Inside
<1>4. NoMember # account[s]
  BY <1>1, RoomsAssumption
<1>5. QED BY <1>2, <1>3, <1>4, AdminStep

LEMMA UpdateStep ==
    ASSUME IInv, NEW s \in Sockets, NEW name, NEW form, NEW sent,
           UpdateRoom(s, name, form, sent)
    PROVE  Allowed
<1>1. PICK target : MayAdmin(s, "Update", target)
  BY DEF UpdateRoom
<1>2. PICK room : /\ room = UpdatedRoom(rooms[chatRoom[s]], name, form, sent)
                  /\ rooms' = [rooms EXCEPT ![chatRoom[s]] = room]
  BY DEF UpdateRoom
<1>3. rooms[chatRoom[s]] \in Room
  BY <1>1, MayAdminFacts
<1>4. room.members = rooms[chatRoom[s]].members
  BY <1>2, <1>3 DEF UpdatedRoom, Room
<1>5. QED BY <1>1, <1>2, <1>4, EditStep

LEMMA EditListStep ==
    ASSUME IInv, NEW s \in Sockets, NEW m, EditList(s, m)
    PROVE  Allowed
<1>1. PICK action, room :
          /\ MayAdmin(s, action, m) /\ SetRoom(chatRoom[s], room)
          /\ \/ \E l : room = [rooms[chatRoom[s]] EXCEPT !.ban = l]
             \/ \E l : room = [rooms[chatRoom[s]] EXCEPT !.whitelist = l]
             \/ \E l : room = [rooms[chatRoom[s]] EXCEPT !.admin = l]
  BY DEF EditList
<1>2. rooms[chatRoom[s]] \in Room
  BY <1>1, MayAdminFacts
<1>3. room.members = rooms[chatRoom[s]].members
  BY <1>1, <1>2 DEF Room
<1>4. QED BY <1>1, <1>3, EditStep DEF SetRoom

LEMMA ReorderStep ==
    ASSUME IInv, NEW s \in Sockets,
           \/ \E t, d \in Members : Swap(s, t, d)
           \/ \E m \in Members : MoveLeft(s, m) \/ MoveRight(s, m) \/ Shuffle(s, m)
    PROVE  Allowed
<1> DEFINE r == chatRoom[s]
           seq == rooms[r].members
<1>1. PICK action, target : MayAdmin(s, action, target)
  BY DEF Swap, MoveLeft, MoveRight, Shuffle
<1>2. /\ r \in DOMAIN rooms /\ rooms[r] \in Room
      /\ seq \in Seq(Members) /\ OnceIn(seq, shared)
  BY <1>1, MayAdminFacts
<1>3. PICK w : /\ SetRoom(r, [rooms[r] EXCEPT !.members = w])
               /\ \/ \E i, j \in 1..Len(seq) : w = Swapped(seq, i, j)
                  \/ w \in Shuffles(seq)
  <2>1. ASSUME NEW t \in Members, NEW d \in Members, Swap(s, t, d)
        PROVE  \E i, j \in 1..Len(seq) :
                   SetRoom(r, [rooms[r] EXCEPT !.members = Swapped(seq, i, j)])
    BY <1>2, <2>1, PositionFound DEF Swap, InRoom
  <2>2. ASSUME NEW m \in Members, MoveLeft(s, m)
        PROVE  \E i, j \in 1..Len(seq) :
                   SetRoom(r, [rooms[r] EXCEPT !.members = Swapped(seq, i, j)])
    <3>1. PICK i : i = Position(seq, m)
      OBVIOUS
    <3>2. i \in 1..Len(seq) /\ i > 1
          /\ SetRoom(r, [rooms[r] EXCEPT !.members = Swapped(seq, i, i - 1)])
      BY <1>2, <2>2, <3>1, PositionFound DEF MoveLeft, InRoom
    <3>3. i - 1 \in 1..Len(seq)
      BY <3>2
    <3>4. QED BY <3>2, <3>3
  <2>3. ASSUME NEW m \in Members, MoveRight(s, m)
        PROVE  \E i, j \in 1..Len(seq) :
                   SetRoom(r, [rooms[r] EXCEPT !.members = Swapped(seq, i, j)])
    <3>1. PICK i : i = Position(seq, m)
      OBVIOUS
    <3>2. i \in 1..Len(seq) /\ i < Len(seq)
          /\ SetRoom(r, [rooms[r] EXCEPT !.members = Swapped(seq, i, i + 1)])
      BY <1>2, <2>3, <3>1, PositionFound DEF MoveRight, InRoom
    <3>3. i + 1 \in 1..Len(seq)
      BY <1>2, <3>2
    <3>4. QED BY <3>2, <3>3
  <2>4. CASE \E m \in Members : Shuffle(s, m)
    BY <2>4 DEF Shuffle
  <2>5. QED BY <2>1, <2>2, <2>3, <2>4
<1>4. ToSet(w) = ToSet(seq)
  <2> HIDE DEF r, seq
  <2> QED BY <1>2, <1>3, SwappedFacts, ShufflesFacts
<1>5. PICK room : room = [rooms[r] EXCEPT !.members = w]
  OBVIOUS
<1>6. room.members = w /\ SameRules(rooms[r], room)
  BY <1>2, <1>5, MembersOnly
<1>7. /\ DOMAIN rooms' = DOMAIN rooms
      /\ \A q \in DOMAIN rooms : rooms'[q] = IF q = r THEN room ELSE rooms[q]
  BY <1>3, <1>5 DEF SetRoom, IInv, WorldOK
<1>8. \A q \in DOMAIN rooms : SameRules(rooms[q], rooms'[q])
  BY <1>6, <1>7 DEF SameRules
<1>9. \A x, q : Inside(rooms', x, q) <=> Inside(rooms, x, q)
  BY <1>4, <1>6, <1>7 DEF Inside
<1>10. QED BY <1>8, <1>9, QuietStep

LEMMA AllowedStep == IInv /\ [Next]_vars => Allowed
<1> SUFFICES ASSUME IInv, [Next]_vars PROVE Allowed
  OBVIOUS
<1>1. CASE UNCHANGED vars
  BY <1>1, StayStep DEF vars
<1>2. ASSUME NEW s \in Sockets, Step(s) PROVE Allowed
  <2>1. CASE \E m \in Members : Login(s, m)
    BY <2>1, LoginStep
  <2>2. CASE SignOut(s) \/ Cleanup(s) \/ LeaveRoom(s) \/ \E name \in Names : FailJoin(s, name)
    BY <2>2, LeaveStep DEF SignOut, Cleanup, EndSession, LeaveRoom, FailJoin, Leave
  <2>3. CASE \/ Close(s) \/ \E r \in RoomIds : FinishJoin(s, r)
             \/ \E m \in Members : CreateAccount(s, m)
    BY <2>3, StayStep DEF Close, FinishJoin, CreateAccount
  <2>4. CASE \E r \in RoomIds, name \in Names, form \in Forms, sent \in CreateSent :
                CreateRoom(s, r, name, form, sent)
    BY <2>4, CreateStep
  <2>5. CASE \E name \in Names : JoinRoom(s, name)
    BY <2>5, JoinStep
  <2>6. CASE Admin(s)
    <3> USE RoomsAssumption
    <3>1. CASE \E name \in Names, form \in Forms, sent \in UpdateSent :
                  UpdateRoom(s, name, form, sent)
      BY <3>1, UpdateStep
    <3>2. CASE \/ \E t, d \in Members : Swap(s, t, d)
               \/ \E m \in Targets : MoveLeft(s, m) \/ MoveRight(s, m) \/ Shuffle(s, m)
      BY <3>2, ReorderStep
    <3>3. CASE \E m \in Targets : Kick(s, m) \/ BanPresent(s, m)
      BY <3>3, EvictStep
    <3>4. CASE \E m \in Targets : EditList(s, m)
      BY <3>4, EditListStep
    <3>5. QED BY <2>6, <3>1, <3>2, <3>3, <3>4 DEF Admin
  <2>7. QED BY <1>2, <2>1, <2>2, <2>3, <2>4, <2>5, <2>6 DEF Step
<1>3. QED BY <1>1, <1>2 DEF Next

\* Nobody gets into a room but through its rules: no reordering, eviction, login or
\* departure puts a number into a list, and a join tests ban, access and limit on
\* the very room it enters, although it leaves another one in between.
THEOREM EntriesAreAdmitted == Spec => EntryIsAdmitted
<1>1. Allowed => \A r \in DOMAIN rooms \cap DOMAIN rooms' :
                    \A m \in ToSet(rooms'[r].members) \ ToSet(rooms[r].members) :
                        /\ m \notin rooms[r].ban
                        /\ HasAnyRole(m, rooms[r], rooms[r].access)
                        /\ Len(rooms'[r].members) <= rooms[r].limit
  BY DEF Allowed, EntryOK
<1>2. QED BY <1>1, Invariance, AllowedStep, PTL DEF Spec, EntryIsAdmitted

\* The rules of a room change only by one of its admins, who is in the room and
\* still is afterwards, or whose account has met another.
THEOREM RulesAreByAdmins == Spec => RulesByAdmin
<1>1. Allowed => \A r \in DOMAIN rooms \cap DOMAIN rooms' :
          [rooms'[r] EXCEPT !.members = <<>>] # [rooms[r] EXCEPT !.members = <<>>]
          => \E m \in rooms[r].admin :
                \/ InRoom(m, r) /\ m \in ToSet(rooms'[r].members)
                \/ m \in shared /\ Online(m)
  BY DEF Allowed, RulesOK, SameRules
<1>2. QED BY <1>1, Invariance, AllowedStep, PTL DEF Spec, RulesByAdmin

----------------------------------------------------------------------------
\* The rooms implement Placement.

\* A member that has met no other is in one room at most.
LEMMA OnePlace ==
    ASSUME IInv, NEW m \in Members \ shared
    PROVE  Placed!AtMostOne(Where[m])
<1>1. ASSUME NEW q, NEW r, Inside(rooms, m, q), Inside(rooms, m, r)
      PROVE  q = r
  <2>1. PICK s \in Sockets : account[s] = m /\ chatRoom[s] = q
    BY <1>1 DEF IInv, Agree
  <2>2. PICK t \in Sockets : account[t] = m /\ chatRoom[t] = r
    BY <1>1 DEF IInv, Agree
  <2>3. QED BY <2>1, <2>2, OneSessionEach
<1>2. Where[m] = {r \in DOMAIN rooms : Inside(rooms, m, r)}
  BY DEF Where, Inside, InRoom
<1>3. QED BY <1>1, <1>2 DEF Placed!AtMostOne

PlacesOK == \A m \in Members \ shared : Placed!AtMostOne(Where[m])

LEMMA PlacesOKNext == IInv' => PlacesOK'
<1>1. IInv => PlacesOK
  BY OnePlace DEF PlacesOK
<1>2. QED BY <1>1, PTL

\* The rooms that exist are the places somebody is in.
OpenOK == DOMAIN rooms = UNION {Where[m] : m \in Members}

LEMMA OpenIs == IInv => OpenOK
<1> SUFFICES ASSUME IInv PROVE OpenOK
  OBVIOUS
<1>1. ASSUME NEW r \in DOMAIN rooms
      PROVE  \E m \in Members : r \in Where[m]
  <2>1. PICK seq : seq = rooms[r].members
    OBVIOUS
  <2>2. seq \in Seq(Members) /\ seq # <<>>
    BY <2>1 DEF IInv, WorldOK, Room
  <2>3. PICK m : m \in ToSet(seq)
    BY <2>2, EmptyList
  <2>4. m \in Members
    BY <2>2, <2>3 DEF ToSet
  <2>5. QED BY <2>1, <2>3, <2>4 DEF Where, InRoom
<1>2. QED BY <1>1 DEF Where, OpenOK

LEMMA OpenIsNext == IInv' => OpenOK'
  BY OpenIs, PTL

LEMMA SharedGrows == IInv /\ [Next]_vars => shared \subseteq shared'
<1> SUFFICES ASSUME IInv, [Next]_vars PROVE shared \subseteq shared'
  OBVIOUS
<1>1. CASE UNCHANGED vars
  BY <1>1 DEF vars
<1>2. ASSUME NEW s \in Sockets, Step(s) PROVE shared \subseteq shared'
  <2>1. CASE \E m \in Members : Login(s, m) \/ CreateAccount(s, m)
    BY <2>1 DEF Login, CreateAccount, InsertAccount
  <2>2. CASE \/ SignOut(s) \/ Close(s) \/ Cleanup(s) \/ LeaveRoom(s)
             \/ \E name \in Names : JoinRoom(s, name) \/ FailJoin(s, name)
             \/ \E r \in RoomIds : FinishJoin(s, r)
             \/ \E r \in RoomIds, name \in Names, form \in Forms, sent \in CreateSent :
                   CreateRoom(s, r, name, form, sent)
    BY <2>2 DEF SignOut, Close, Cleanup, LeaveRoom, JoinRoom, FailJoin, FinishJoin, CreateRoom
  <2>3. CASE Admin(s)
    BY <2>3 DEF Admin, UpdateRoom, Swap, MoveLeft, MoveRight, Shuffle, Kick, BanPresent,
                EditList, Evict, SetRoom
  <2>4. QED BY <1>2, <2>1, <2>2, <2>3 DEF Step
<1>3. QED BY <1>1, <1>2 DEF Next

\* A step in which one member moves is a step of Placement, or none.
LEMMA StepPlaces ==
    ASSUME IInv, IInv', Allowed, shared \subseteq shared'
    PROVE  [Placed!Next]_(Placed!vars)
<1>1. PICK m : Moves(m)
  BY DEF Allowed
<1>2. /\ Where = [n \in Members |-> {r \in DOMAIN rooms : Inside(rooms, n, r)}]
      /\ Where' = [n \in Members |-> {r \in DOMAIN rooms' : Inside(rooms', n, r)}]
  BY DEF Where, Inside, InRoom
<1>3. ASSUME NEW n \in Members, n # m PROVE Where'[n] = Where[n]
  <2>1. \A r : Inside(rooms', n, r) <=> Inside(rooms, n, r)
    BY <1>1, <1>3 DEF Moves
  <2>2. QED BY <1>2, <2>1 DEF Inside
<1>4. Where = [n \in Members |-> Where[n]] /\ Where' = [n \in Members |-> Where'[n]]
  BY DEF Where
<1>5. PlacesOK' /\ OpenOK' /\ OpenOK
  BY PlacesOKNext, OpenIsNext, OpenIs
<1>6. DOMAIN rooms' = Placed!Occupied(Where')
  BY <1>5 DEF OpenOK, Placed!Occupied
<1>7. shared' \subseteq Members /\ \A x \in Members \ shared' : Placed!AtMostOne(Where'[x])
  BY <1>5 DEF PlacesOK, Placed!AtMostOne, IInv, SocketsOK
<1>8. CASE m \in Members
  <2>1. Where'[m] \in SUBSET RoomIds
    BY <1>2, <1>8 DEF IInv, WorldOK
  <2>2. Where' = [Where EXCEPT ![m] = Where'[m]]
    BY <1>3, <1>4, <1>8
  <2>3. Placed!AtMostOne(Where'[m] \ Where[m])
    BY <1>1, <1>2, <1>8 DEF Moves, Inside, Placed!AtMostOne
  <2>4. Placed!Move(m, Where'[m])
    BY <1>6, <1>7, <2>2, <2>3 DEF Placed!Move
  <2>5. QED BY <1>8, <2>1, <2>4 DEF Placed!Next
<1>9. CASE m \notin Members /\ Members # {}
  <2>1. PICK n \in Members : TRUE
    BY <1>9
  <2>2. Where' = Where
    BY <1>3, <1>4, <1>9
  <2>3. Placed!AtMostOne(Where'[n] \ Where[n])
    BY <2>2 DEF Placed!AtMostOne
  <2>4. Where' = [Where EXCEPT ![n] = Where'[n]]
    BY <1>4, <2>2
  <2>5. Where'[n] \in SUBSET RoomIds
    BY <1>2 DEF IInv, WorldOK
  <2>6. Placed!Move(n, Where'[n])
    BY <1>6, <1>7, <2>3, <2>4 DEF Placed!Move
  <2>7. QED BY <2>5, <2>6 DEF Placed!Next
<1>10. CASE Members = {}
  <2>1. Where' = Where /\ shared' = shared
    BY <1>4, <1>7, <1>10
  <2>2. DOMAIN rooms' = DOMAIN rooms
    BY <1>5, <2>1 DEF OpenOK
  <2>3. QED BY <2>1, <2>2 DEF Placed!vars
<1>11. QED BY <1>8, <1>9, <1>10

\* Whatever handlers, logins, creations, sign-outs and moderation do, a step moves
\* one member between the rooms, who is in one room at most unless its session met
\* another, and a room exists exactly as long as somebody is in it.
THEOREM RoomsImplementPlacement == Spec => PlacementHolds
<1>1. Init => Placed!Init
  <2> SUFFICES ASSUME Init PROVE Placed!Init
    OBVIOUS
  <2>1. DOMAIN rooms = {} /\ shared = {}
    BY DEF Init
  <2>2. QED BY <2>1 DEF Placed!Init, Where
<1>2. IInv /\ IInv' /\ [Next]_vars => [Placed!Next]_(Placed!vars)
  BY AllowedStep, SharedGrows, StepPlaces
<1>3. QED BY <1>1, <1>2, Invariance, PTL DEF Spec, PlacementHolds, Placed!Spec
=============================================================================
