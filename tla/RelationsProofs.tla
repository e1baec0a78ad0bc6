---------------------------- MODULE RelationsProofs ----------------------------
(***************************************************************************)
(* Proofs about ownership, while the handlers of ownership and lovership   *)
(* run side by side: nobody is owned without consent, and the owner that   *)
(* is shown is the one who holds the collar or one the member has named.   *)
(***************************************************************************)
EXTENDS Relations, TLAPS

----------------------------------------------------------------------------
\* The inductive invariant. The lists of lovers take no part in it: the handlers
\* of lovership leave the two fields of ownership alone.

Anyone == Members \cup {NoMember}

\* A record with the three fields of an account.
Whole(r) == r = [bond |-> r.bond, owner |-> r.owner, loves |-> r.loves]

\* Whatever a bond of m says has been said: an offer was made, a trial or a collar
\* has its consent. (Both are by a member.)
Said(m, bond) ==
    /\ bond.stage = "offer" => <<"offerTrial", bond.by, m>> \in word
    /\ bond.ending # NoMember => <<"offerEnd", bond.ending, m>> \in word
    /\ bond.stage \in {"trial", "collar"} => bond.by \in Members
    /\ Consent(m, bond)

\* The owner that a copy shows holds the collar, or is a name that m has set.
Shown(m, r) ==
    r.owner # NoMember =>
        \/ r.bond.stage = "collar" /\ r.bond.by = r.owner
        \/ <<"name", m, r.owner>> \in word

\* A copy of the two fields of m.
Honest(m, r) ==
    /\ r.bond \in Bonds /\ r.owner \in Owners
    /\ Said(m, r.bond)
    /\ Shown(m, r)

Sessions ==
    /\ live = [m \in Members |-> live[m]]
    /\ \A m \in Members : Whole(live[m]) /\ Honest(m, live[m])

Stored ==
    /\ row = [m \in Members |-> row[m]]
    /\ \A m \in Members : Whole(row[m]) /\ Honest(m, row[m])

\* What a task knows, by its step.
TaskOK(k) ==
    LET t == task[k]
    IN  /\ t = [pc |-> t.pc, who |-> t.who, about |-> t.about, copy |-> t.copy,
                seen |-> t.seen]
        /\ t.pc # "idle" => {t.who, t.about} \subseteq Members
        /\ t.pc = "idle" => t = NoTask
        /\ t.seen \subseteq online
        /\ t.pc = "enter" => t.about \notin online /\ Whole(t.copy)
        /\ t.pc \in {"enter", "save", "notes"} => Honest(t.about, t.copy)
        /\ t.pc = "name" => t.copy \in Owners /\ <<"name", t.about, t.copy>> \in word
        /\ t.pc = "notes" => t.copy.bond.stage = "collar" /\ t.copy.bond.by = t.who
        /\ t.pc \in {"trial", "collar"} => <<"offerTrial", t.who, t.about>> \in word
        /\ t.pc = "collar" =>
              {<<"acceptTrial", t.about, t.who>>, <<"offerEnd", t.who, t.about>>}
                  \subseteq word

Handlers ==
    /\ task = [k \in Tasks |-> task[k]]
    /\ \A k \in Tasks : TaskOK(k)
    /\ \A k, l \in Tasks : At(k, "enter") /\ At(l, "enter") => k = l

\* y is about to collar x, or has collared it: by the bond in the session of x, or
\* by a task that will write that session.
Binds(bond, y) ==
    /\ bond.by = y
    /\ \/ bond.stage = "collar"
       \/ bond.stage = "trial" /\ (bond.start < now \/ bond.ending = y)

ClaimsLive(x, y) == Binds(live[x].bond, y)

ClaimsTask(k, x, y) ==
    /\ task[k].pc \in {"offerEnd", "collar", "notes"}
    /\ task[k].about = x /\ task[k].who = y
    /\ x \in task[k].seen

Claims(x, y) == ClaimsLive(x, y) \/ \E k \in Tasks : ClaimsTask(k, x, y)

\* Nobody has two claimants: a trial that is fresh claims nothing yet, and while it
\* ripens no task is left over from before.
OneClaimant == \A x \in Members, y, z \in Anyone : Claims(x, y) /\ Claims(x, z) => y = z

IInv ==
    /\ now \in Nat /\ online \subseteq Members
    /\ Sessions /\ Stored /\ Handlers
    /\ OneClaimant

----------------------------------------------------------------------------
\* Copies.

LEMMA BlankIsHonest == \A m : Whole(Blank) /\ Honest(m, Blank)
  BY PresenceAssumption DEF Whole, Honest, Shown, Said, Consent, Blank, Free, Bonds, Owners

LEMMA OfferIsHonest ==
    ASSUME NEW m, NEW x \in Members, <<"offerTrial", x, m>> \in word
    PROVE  Honest(m, [bond |-> Offered(x), owner |-> NoMember])
  BY PresenceAssumption DEF Honest, Shown, Said, Consent, Offered, Free, Bonds, Owners

LEMMA BondIsHonest ==
    ASSUME NEW m, NEW x \in Members, now \in Nat,
           {<<"offerTrial", x, m>>, <<"acceptTrial", m, x>>} \subseteq word
    PROVE  /\ Honest(m, [bond |-> Bond("trial", x), owner |-> NoMember])
           /\ {<<"offerEnd", x, m>>, <<"acceptEnd", m, x>>} \subseteq word =>
                  Honest(m, [bond |-> Bond("collar", x), owner |-> x])
  BY PresenceAssumption DEF Honest, Shown, Said, Consent, Bond, Free, Bonds, Owners

\* What was honest stays so: nobody takes a word back.
LEMMA HonestyLasts ==
    ASSUME word \subseteq word', NEW m, NEW r, Honest(m, r)
    PROVE  Honest(m, r)'
  BY DEF Honest, Shown, Said, Consent

LEMMA SessionsStay ==
    ASSUME Sessions, UNCHANGED live, word \subseteq word'
    PROVE  Sessions'
<1>1. \A m \in Members : Honest(m, live[m])'
  BY DEF Sessions, Honest, Shown, Said, Consent
<1>2. QED BY <1>1 DEF Sessions, Whole

LEMMA StoredStays ==
    ASSUME Stored, UNCHANGED row, word \subseteq word'
    PROVE  Stored'
<1>1. \A m \in Members : Honest(m, row[m])'
  BY DEF Stored, Honest, Shown, Said, Consent
<1>2. QED BY <1>1 DEF Stored, Whole

\* What Owned changes, and what it leaves.
LEMMA OwnedFacts ==
    ASSUME NEW f, f = [x \in Members |-> f[x]], \A x \in Members : Whole(f[x]),
           NEW m \in Members, NEW r
    PROVE  LET g == Owned(f, m, r)
           IN  /\ g = [x \in Members |-> g[x]] /\ \A x \in Members : Whole(g[x])
               /\ g[m].bond = r.bond /\ g[m].owner = r.owner
               /\ \A x \in Members : x # m => g[x] = f[x]
<1> DEFINE g == Owned(f, m, r)
           new == [bond |-> r.bond, owner |-> r.owner, loves |-> f[m].loves]
<1>1. f[m] = [bond |-> f[m].bond, owner |-> f[m].owner, loves |-> f[m].loves]
  BY DEF Whole
<1>2. g[m] = new /\ g = [x \in Members |-> g[x]] /\ \A x \in Members : x # m => g[x] = f[x]
  BY <1>1 DEF Owned
<1>3. Whole(new) /\ new.bond = r.bond /\ new.owner = r.owner
  BY DEF Whole
<1> HIDE DEF g, new
<1>4. \A x \in Members : Whole(g[x])
  BY <1>2, <1>3
<1>5. QED BY <1>2, <1>3, <1>4 DEF g

\* A session or a row takes the two fields of an honest copy.
LEMMA SessionTakes ==
    ASSUME Sessions, word \subseteq word', NEW m \in Members, NEW r, Honest(m, r)',
           \/ live' = Owned(live, m, r)
           \/ live' = live
    PROVE  Sessions'
<1>1. CASE live' = live
  BY <1>1, SessionsStay
<1>2. CASE live' = Owned(live, m, r)
  <2>1. /\ live' = [x \in Members |-> live'[x]] /\ \A x \in Members : Whole(live'[x])
        /\ live'[m].bond = r.bond /\ live'[m].owner = r.owner
        /\ \A x \in Members : x # m => live'[x] = live[x]
    BY <1>2, OwnedFacts DEF Sessions
  <2>4. ASSUME NEW x \in Members PROVE Honest(x, live[x])'
    <3>1. CASE x = m
      BY <3>1, <2>1 DEF Honest, Shown, Said, Consent
    <3>2. CASE x # m
      BY <3>2, <2>1 DEF Sessions, Honest, Shown, Said, Consent
    <3>3. QED BY <3>1, <3>2
  <2>5. QED BY <2>1, <2>4 DEF Sessions, Whole
<1>3. QED BY <1>1, <1>2

LEMMA RowTakes ==
    ASSUME Stored, UNCHANGED word, NEW m \in Members, NEW r, Honest(m, r),
           Write(Owned(row, m, r))
    PROVE  Stored'
<1>1. CASE row' = row
  BY <1>1, StoredStays
<1>2. CASE row' = Owned(row, m, r)
  <2>1. /\ row' = [x \in Members |-> row'[x]] /\ \A x \in Members : Whole(row'[x])
        /\ row'[m].bond = r.bond /\ row'[m].owner = r.owner
        /\ \A x \in Members : x # m => row'[x] = row[x]
    BY <1>2, OwnedFacts DEF Stored
  <2>4. ASSUME NEW x \in Members PROVE Honest(x, row[x])'
    <3>1. CASE x = m
      BY <3>1, <2>1 DEF Honest, Shown, Said, Consent
    <3>2. CASE x # m
      <4>1. row'[x] = row[x] /\ Honest(x, row[x])
        BY <3>2, <2>1 DEF Stored
      <4>2. QED BY <4>1 DEF Honest, Shown, Said, Consent
    <3>3. QED BY <3>1, <3>2
  <2>5. QED BY <2>1, <2>4 DEF Stored, Whole
<1>3. QED BY <1>1, <1>2 DEF Write

----------------------------------------------------------------------------
\* Tasks.

\* A task that does nothing.
LEMMA TaskStays ==
    ASSUME Handlers, NEW l \in Tasks, task'[l] = task[l], word \subseteq word',
           task[l].seen \subseteq online',
           task[l].pc = "enter" => task[l].about \notin online'
    PROVE  TaskOK(l)'
<1>1. TaskOK(l)
  BY DEF Handlers
<1>2. task[l].pc \in {"enter", "save", "notes"} => Honest(task[l].about, task[l].copy)'
  BY <1>1 DEF TaskOK, Honest, Shown, Said, Consent
<1>3. QED BY <1>1, <1>2 DEF TaskOK, Whole, Honest, Shown, Said, Consent

\* One task goes on.
LEMMA HandlersGoOn ==
    ASSUME Handlers, NEW k \in Tasks, UNCHANGED online, word \subseteq word',
           task' = [task EXCEPT ![k] = task'[k]],
           TaskOK(k)', task'[k].pc # "enter"
    PROVE  Handlers'
<1>1. /\ task' = [l \in Tasks |-> task'[l]]
      /\ \A l \in Tasks : l # k => task'[l] = task[l]
  BY DEF Handlers
<1>2. ASSUME NEW l \in Tasks PROVE TaskOK(l)'
  <2>1. CASE l = k
    BY <2>1
  <2>2. CASE l # k
    <3>1. task'[l] = task[l] /\ TaskOK(l)
      BY <1>1, <2>2 DEF Handlers
    <3>2. task[l].seen \subseteq online' /\ (task[l].pc = "enter" => task[l].about \notin online')
      BY <3>1 DEF TaskOK
    <3>3. QED BY <3>1, <3>2, TaskStays
  <2>3. QED BY <2>1, <2>2
<1>3. \A l, h \in Tasks : At(l, "enter")' /\ At(h, "enter")' => l = h
  BY <1>1 DEF Handlers, At
<1>4. QED BY <1>1, <1>2, <1>3 DEF Handlers

\* One task goes on, and nobody gets a claim by it.
LEMMA TaskIInv ==
    ASSUME IInv, NEW k \in Tasks, UNCHANGED <<now, online>>, word \subseteq word',
           task' = [task EXCEPT ![k] = task'[k]],
           TaskOK(k)', task'[k].pc # "enter",
           Sessions', Stored',
           \A x \in Members, y \in Anyone : ClaimsLive(x, y)' => Claims(x, y),
           \A x \in Members, y \in Anyone : ClaimsTask(k, x, y)' => Claims(x, y)
    PROVE  IInv'
<1>1. Handlers'
  BY HandlersGoOn DEF IInv
<1>2. ASSUME NEW x \in Members, NEW y \in Anyone, Claims(x, y)' PROVE Claims(x, y)
  <2>1. ASSUME NEW l \in Tasks, l # k, ClaimsTask(l, x, y)' PROVE Claims(x, y)
    <3>1. task'[l] = task[l]
      BY <2>1 DEF IInv, Handlers
    <3>2. QED BY <2>1, <3>1 DEF ClaimsTask, Claims
  <2>2. QED BY <1>2, <2>1 DEF Claims
<1>3. OneClaimant'
  BY <1>2 DEF IInv, OneClaimant, Anyone
<1>4. QED BY <1>1, <1>3 DEF IInv

LEMMA ClaimsLiveStay ==
    ASSUME UNCHANGED <<now, live>>
    PROVE  \A x \in Members, y \in Anyone : ClaimsLive(x, y)' => Claims(x, y)
  BY DEF ClaimsLive, Binds, Claims

\* The steps at which a task knows something of ownership.
Telling == {"enter", "save", "name", "notes", "trial", "collar", "offerEnd"}

QuietTask(k) ==
    LET t == task'[k]
    IN  \/ t = NoTask
        \/ /\ t = [pc |-> t.pc, who |-> t.who, about |-> t.about, copy |-> t.copy,
                   seen |-> t.seen]
           /\ t.pc \notin Telling \cup {"idle"}
           /\ {t.who, t.about} \subseteq Members /\ t.seen \subseteq online'

LEMMA OtherTaskIsOK ==
    ASSUME NEW k, QuietTask(k)
    PROVE  /\ TaskOK(k)' /\ task'[k].pc # "enter"
           /\ \A x \in Members, y \in Anyone : ~ ClaimsTask(k, x, y)'
<1>1. CASE task'[k] = NoTask
  BY <1>1 DEF TaskOK, NoTask, Telling, ClaimsTask
<1>2. CASE task'[k] # NoTask
  BY <1>2 DEF QuietTask, TaskOK, Telling, ClaimsTask
<1>3. QED BY <1>1, <1>2

LEMMA TaskType ==
    ASSUME IInv, NEW k \in Tasks, task[k] # NoTask
    PROVE  {task[k].who, task[k].about} \subseteq Members
  BY DEF IInv, Handlers, TaskOK

LEMMA BeginFacts ==
    ASSUME Handlers, NEW k \in Tasks, NEW pc, NEW m, NEW x, NEW c, Begin(k, pc, m, x, c)
    PROVE  /\ task' = [task EXCEPT ![k] = task'[k]]
           /\ task'[k] = [pc |-> pc, who |-> m, about |-> x, copy |-> c,
                          seen |-> {m, x} \cap online]
  BY DEF Begin, Handlers

LEMMA GotoFacts ==
    ASSUME Handlers, NEW k \in Tasks, NEW pc, NEW c, Goto(k, pc, c)
    PROVE  /\ task' = [task EXCEPT ![k] = task'[k]]
           /\ task'[k] = [pc |-> pc, who |-> task[k].who, about |-> task[k].about,
                          copy |-> c, seen |-> {}]
<1>1. task[k] = [pc |-> task[k].pc, who |-> task[k].who, about |-> task[k].about,
                 copy |-> task[k].copy, seen |-> task[k].seen]
  BY DEF Handlers, TaskOK
<1>2. QED BY <1>1 DEF Goto, Handlers

LEMMA EndsFacts ==
    ASSUME Handlers, NEW k \in Tasks, Ends(k)
    PROVE  task' = [task EXCEPT ![k] = task'[k]] /\ task'[k] = NoTask
  BY DEF Ends, Handlers

LEMMA BeginQuiet ==
    ASSUME IInv, NEW k \in Tasks, UNCHANGED online,
           NEW m \in Members, NEW x \in Members, NEW pc, NEW c, Begin(k, pc, m, x, c),
           pc \notin Telling \cup {"idle"}
    PROVE  task' = [task EXCEPT ![k] = task'[k]] /\ QuietTask(k)
<1> DEFINE seen == {m, x} \cap online
<1>1. /\ task' = [task EXCEPT ![k] = task'[k]]
      /\ task'[k] = [pc |-> pc, who |-> m, about |-> x, copy |-> c, seen |-> seen]
  BY BeginFacts DEF IInv
<1>2. seen \subseteq online'
  OBVIOUS
<1> HIDE DEF seen
<1>3. QED BY <1>1, <1>2 DEF QuietTask

LEMMA GotoQuiet ==
    ASSUME IInv, NEW k \in Tasks, UNCHANGED online, task[k] # NoTask,
           NEW pc, NEW c, Goto(k, pc, c), pc \notin Telling \cup {"idle"}
    PROVE  task' = [task EXCEPT ![k] = task'[k]] /\ QuietTask(k)
<1>1. /\ task' = [task EXCEPT ![k] = task'[k]]
      /\ task'[k] = [pc |-> pc, who |-> task[k].who, about |-> task[k].about,
                     copy |-> c, seen |-> {}]
  BY GotoFacts DEF IInv
<1>2. {task[k].who, task[k].about} \subseteq Members /\ {} \subseteq online'
  BY TaskType
<1>3. QED BY <1>1, <1>2 DEF QuietTask

LEMMA EndsQuiet ==
    ASSUME IInv, NEW k \in Tasks, Ends(k)
    PROVE  task' = [task EXCEPT ![k] = task'[k]] /\ QuietTask(k)
  BY EndsFacts DEF IInv, QuietTask

\* g is f with nothing of ownership changed.
SameOwnership(f, g) ==
    /\ g = [m \in Members |-> g[m]]
    /\ \A m \in Members : Whole(g[m]) /\ g[m].bond = f[m].bond /\ g[m].owner = f[m].owner

LEMMA LovesFacts ==
    ASSUME NEW f, f = [x \in Members |-> f[x]], \A x \in Members : Whole(f[x]),
           NEW m \in Members, NEW l
    PROVE  SameOwnership(f, [f EXCEPT ![m].loves = l])
<1> DEFINE g == [f EXCEPT ![m].loves = l]
           new == [bond |-> f[m].bond, owner |-> f[m].owner, loves |-> l]
<1>1. f[m] = [bond |-> f[m].bond, owner |-> f[m].owner, loves |-> f[m].loves]
  BY DEF Whole
<1>2. g[m] = new /\ g = [x \in Members |-> g[x]] /\ \A x \in Members : x # m => g[x] = f[x]
  BY <1>1
<1>3. Whole(new) /\ new.bond = f[m].bond /\ new.owner = f[m].owner
  BY DEF Whole
<1> HIDE DEF g, new
<1>4. \A x \in Members : Whole(g[x]) /\ g[x].bond = f[x].bond /\ g[x].owner = f[x].owner
  BY <1>2, <1>3
<1>5. SameOwnership(f, g)
  BY <1>2, <1>4 DEF SameOwnership
<1>6. QED BY <1>5 DEF g

\* A step that leaves ownership alone, by a task that knows nothing of it.
LEMMA ApartIInv ==
    ASSUME IInv, NEW k \in Tasks, UNCHANGED <<now, online>>, word \subseteq word',
           task' = [task EXCEPT ![k] = task'[k]], QuietTask(k),
           live' = live \/ SameOwnership(live, live'),
           row' = row \/ SameOwnership(row, row')
    PROVE  IInv'
<1>1. Sessions'
  <2>1. CASE SameOwnership(live, live')
    BY <2>1 DEF SameOwnership, IInv, Sessions, Honest, Shown, Said, Consent
  <2>2. CASE live' = live
    BY <2>2, SessionsStay DEF IInv
  <2>3. QED BY <2>1, <2>2
<1>2. Stored'
  <2>1. CASE SameOwnership(row, row')
    BY <2>1 DEF SameOwnership, IInv, Stored, Honest, Shown, Said, Consent
  <2>2. CASE row' = row
    BY <2>2, StoredStays DEF IInv
  <2>3. QED BY <2>1, <2>2
<1>3. \A x \in Members, y \in Anyone : ClaimsLive(x, y)' => Claims(x, y)
  BY DEF SameOwnership, ClaimsLive, Binds, Claims
<1>4. /\ TaskOK(k)' /\ task'[k].pc # "enter"
      /\ \A x \in Members, y \in Anyone : ClaimsTask(k, x, y)' => Claims(x, y)
  BY OtherTaskIsOK
<1>5. QED BY <1>1, <1>2, <1>3, <1>4, TaskIInv

----------------------------------------------------------------------------
\* Lovership.

LEMMA LiveLoves ==
    ASSUME Sessions, NEW m \in Members, NEW l, live' = [live EXCEPT ![m].loves = l]
    PROVE  SameOwnership(live, live')
  BY LovesFacts DEF Sessions

LEMMA RowLoves ==
    ASSUME Stored, NEW m \in Members, NEW l, Write([row EXCEPT ![m].loves = l])
    PROVE  row' = row \/ SameOwnership(row, row')
<1>1. CASE row' = row
  BY <1>1
<1>2. CASE row' = [row EXCEPT ![m].loves = l]
  BY <1>2, LovesFacts DEF Stored
<1>3. QED BY <1>1, <1>2 DEF Write

LEMMA LovershipRequestIInv ==
    ASSUME IInv, NEW k \in Tasks, NEW m \in Members, NEW x \in Members,
           LovershipRequest(k, m, x)
    PROVE  IInv'
<1>1. PICK pc, c : /\ Begin(k, pc, m, x, c) /\ pc \notin Telling \cup {"idle"}
                   /\ UNCHANGED <<now, online, live, row, word>>
  <2>1. CASE BeginOfferDating(k, m, x)
    BY <2>1 DEF BeginOfferDating, Telling, setting, where
  <2>2. CASE BeginOfferMore(k, m, x)
    BY <2>2 DEF BeginOfferMore, Telling, setting, where
  <2>3. CASE BeginAcceptLover(k, m, x)
    BY <2>3 DEF BeginAcceptLover, Telling, setting, where
  <2>4. CASE BeginBreakUp(k, m, x)
    BY <2>4 DEF BeginBreakUp, Telling, setting, where
  <2>5. QED BY <2>1, <2>2, <2>3, <2>4 DEF LovershipRequest
<1>2. task' = [task EXCEPT ![k] = task'[k]] /\ QuietTask(k)
  BY <1>1, BeginQuiet
<1>3. QED BY <1>1, <1>2, ApartIInv

LEMMA NpcRequestIInv ==
    ASSUME IInv, NEW k \in Tasks, NEW m \in Members, NEW n, NpcRequest(k, m, n)
    PROVE  IInv'
<1>1. PICK new : /\ live' = [live EXCEPT ![m].loves = new]
                 /\ \/ Begin(k, "saveList", m, m, new)
                    \/ task[k] = NoTask /\ UNCHANGED task
                 /\ UNCHANGED <<now, online, row, word>>
  <2>1. CASE BreakUpNpc(k, m, n)
    BY <2>1 DEF BreakUpNpc, setting, where
  <2>2. CASE TakeNpc(k, m, n)
    BY <2>2 DEF TakeNpc, setting, where
  <2>3. QED BY <2>1, <2>2 DEF NpcRequest
<1>2. task' = [task EXCEPT ![k] = task'[k]] /\ QuietTask(k)
  <2>1. CASE Begin(k, "saveList", m, m, new)
    BY <1>1, <2>1, BeginQuiet DEF Telling
  <2>2. CASE task[k] = NoTask /\ UNCHANGED task
    BY <2>2 DEF QuietTask, IInv, Handlers
  <2>3. QED BY <1>1, <2>1, <2>2
<1>3. SameOwnership(live, live')
  BY <1>1, LiveLoves DEF IInv
<1>4. QED BY <1>1, <1>2, <1>3, ApartIInv

LEMMA OfferDatingIInv ==
    ASSUME IInv, NEW k \in Tasks, OfferDating(k) \/ OfferMore(k)
    PROVE  IInv'
<1> DEFINE x == task[k].about
<1>1. task[k] # NoTask /\ x \in Members
  <2>1. task[k] # NoTask
    <3>1. task[k].pc \in {"date", "engage", "wed"}
      BY DEF OfferDating, OfferMore, At
    <3>2. QED BY <3>1 DEF NoTask
  <2>2. QED BY <2>1, TaskType
<1>2. live' = live \/ \E l : live' = [live EXCEPT ![x].loves = l]
  <2>1. CASE OfferDating(k)
    BY <2>1 DEF OfferDating
  <2>2. CASE OfferMore(k)
    <3> DEFINE i == task[k].copy
    <3>1. CASE live' = [live EXCEPT ![x].loves[i].engage = task[k].who]
      <4>1. live' = [live EXCEPT ![x].loves = [@ EXCEPT ![i].engage = task[k].who]]
        BY <3>1
      <4>2. QED BY <4>1
    <3>2. CASE live' = [live EXCEPT ![x].loves[i].wed = task[k].who]
      <4>1. live' = [live EXCEPT ![x].loves = [@ EXCEPT ![i].wed = task[k].who]]
        BY <3>2
      <4>2. QED BY <4>1
    <3>3. QED BY <2>2, <3>1, <3>2 DEF OfferMore
  <2>3. QED BY <2>1, <2>2
<1>3. live' = live \/ SameOwnership(live, live')
  BY <1>1, <1>2, LiveLoves DEF IInv
<1>4. task' = [task EXCEPT ![k] = task'[k]] /\ QuietTask(k)
  BY EndsQuiet DEF OfferDating, OfferMore
<1>5. UNCHANGED <<now, online, row>> /\ word \subseteq word'
  BY DEF OfferDating, OfferMore, Says, setting, where
<1>6. QED BY <1>3, <1>4, <1>5, ApartIInv

\* Two sessions at once.
LEMMA BothLoves ==
    ASSUME Sessions, NEW k,
           \/ TieLovers(k)
           \/ BreakUp(k)
    PROVE  SameOwnership(live, live')
<1>1. /\ live' = [y \in Members |-> live'[y]]
      /\ \A y \in Members : live'[y] = live[y] \/ \E l : live'[y] = [live[y] EXCEPT !.loves = l]
  <2>1. CASE TieLovers(k)
    BY <2>1 DEF TieLovers
  <2>2. CASE BreakUp(k)
    <3>1. live' = [y \in Members |->
             CASE y = task[k].who /\ task[k].who \in task[k].seen ->
                       [live[y] EXCEPT !.loves = task[k].copy]
               [] y = task[k].about /\ task[k].about \in online ->
                       [live[y] EXCEPT !.loves = Parted(live[y].loves, task[k].who)]
               [] OTHER -> live[y]]
      BY <2>2 DEF BreakUp
    <3>2. ASSUME NEW y \in Members
          PROVE  \/ live'[y] = live[y]
                 \/ live'[y] = [live[y] EXCEPT !.loves = task[k].copy]
                 \/ live'[y] = [live[y] EXCEPT !.loves = Parted(live[y].loves, task[k].who)]
      BY <3>1
    <3>3. live' = [y \in Members |-> live'[y]]
      BY <3>1
    <3>4. \A y \in Members : live'[y] = live[y] \/ \E l : live'[y] = [live[y] EXCEPT !.loves = l]
      <4> SUFFICES ASSUME NEW y \in Members
                   PROVE  live'[y] = live[y] \/ \E l : live'[y] = [live[y] EXCEPT !.loves = l]
        OBVIOUS
      <4>1. CASE live'[y] = [live[y] EXCEPT !.loves = task[k].copy]
        BY <4>1
      <4>2. CASE live'[y] = [live[y] EXCEPT !.loves = Parted(live[y].loves, task[k].who)]
        BY <4>2
      <4>3. QED BY <3>2, <4>1, <4>2
    <3>5. QED BY <3>3, <3>4
  <2>3. QED BY <2>1, <2>2
<1>2. ASSUME NEW y \in Members, NEW l, live'[y] = [live[y] EXCEPT !.loves = l]
      PROVE  /\ Whole(live'[y])
             /\ live'[y].bond = live[y].bond /\ live'[y].owner = live[y].owner
  <2>1. live[y] = [bond |-> live[y].bond, owner |-> live[y].owner, loves |-> live[y].loves]
    BY DEF Sessions, Whole
  <2>2. live'[y] = [bond |-> live[y].bond, owner |-> live[y].owner, loves |-> l]
    BY <1>2, <2>1
  <2>3. QED BY <2>2 DEF Whole
<1>3. \A y \in Members : Whole(live[y])
  BY DEF Sessions
<1>4. \A y \in Members : live'[y] = live[y] =>
          /\ Whole(live'[y])
          /\ live'[y].bond = live[y].bond /\ live'[y].owner = live[y].owner
  BY <1>3 DEF Whole
<1>5. QED BY <1>1, <1>2, <1>4 DEF SameOwnership

LEMMA TieLoversIInv ==
    ASSUME IInv, NEW k \in Tasks, TieLovers(k) \/ BreakUp(k)
    PROVE  IInv'
<1>1. task[k] # NoTask
  BY DEF TieLovers, BreakUp, At, NoTask
<1>2. task' = [task EXCEPT ![k] = task'[k]] /\ QuietTask(k)
  <2>1. CASE TieLovers(k)
    <3>1. task[k] = [pc |-> task[k].pc, who |-> task[k].who, about |-> task[k].about,
                     copy |-> task[k].copy, seen |-> task[k].seen]
      BY DEF IInv, Handlers, TaskOK
    <3>2. /\ task' = [task EXCEPT ![k] = task'[k]]
          /\ task'[k] = [pc |-> "look", who |-> task[k].who, about |-> task[k].about,
                         copy |-> Blank, seen |-> task[k].seen]
      BY <2>1, <3>1 DEF TieLovers, IInv, Handlers
    <3>3. {task[k].who, task[k].about} \subseteq Members /\ task[k].seen \subseteq online'
      BY <1>1, <2>1, TaskType DEF TieLovers, IInv, Handlers, TaskOK, where
    <3>4. QED BY <3>2, <3>3 DEF QuietTask, Telling
  <2>2. CASE BreakUp(k)
    BY <2>2, <1>1, GotoQuiet DEF BreakUp, Telling, where
  <2>3. QED BY <2>1, <2>2
<1>3. UNCHANGED <<now, online, row>> /\ word \subseteq word'
  BY DEF TieLovers, BreakUp, Says, setting, where
<1>4. SameOwnership(live, live')
  BY BothLoves DEF IInv
<1>5. QED BY <1>2, <1>3, <1>4, ApartIInv

LEMMA SaveLovesIInv ==
    ASSUME IInv, NEW k \in Tasks,
           SaveBoth(k) \/ SaveList(k) \/ SaveOwn(k) \/ Pull(k)
    PROVE  IInv'
<1>1. task[k] # NoTask /\ task[k].who \in Members /\ task[k].about \in Members
  BY TaskType DEF SaveBoth, SaveList, SaveOwn, Pull, At, NoTask
<1>2. row' = row \/ SameOwnership(row, row')
  <2>1. PICK m \in Members : \E l : Write([row EXCEPT ![m].loves = l])
    BY <1>1 DEF SaveBoth, SaveList, SaveOwn, Pull, Persist
  <2>2. QED BY <2>1, RowLoves DEF IInv
<1>3. UNCHANGED <<now, online, live, word>>
  BY DEF SaveBoth, SaveList, SaveOwn, Pull, setting, where
<1>4. task' = [task EXCEPT ![k] = task'[k]] /\ QuietTask(k)
  <2>1. CASE SaveBoth(k)
    BY <1>1, <1>3, <2>1, GotoQuiet DEF SaveBoth, Telling
  <2>2. CASE SaveList(k)
    BY <2>2, EndsQuiet DEF SaveList
  <2>3. CASE SaveOwn(k)
    BY <1>1, <1>3, <2>3, GotoQuiet DEF SaveOwn, Telling
  <2>4. CASE Pull(k)
    BY <2>4, EndsQuiet DEF Pull
  <2>5. QED BY <2>1, <2>2, <2>3, <2>4
<1>5. QED BY <1>2, <1>3, <1>4, ApartIInv

LEMMA LookIInv ==
    ASSUME IInv, NEW k \in Tasks, LookAtBoth(k) \/ LookUp(k)
    PROVE  IInv'
<1>1. UNCHANGED <<now, online, live, row, word>> /\ task[k] # NoTask
  BY DEF LookAtBoth, LookUp, At, NoTask, setting, where
<1>2. task' = [task EXCEPT ![k] = task'[k]] /\ QuietTask(k)
  BY <1>1, GotoQuiet DEF LookAtBoth, LookUp, Telling
<1>3. QED BY <1>1, <1>2, ApartIInv

----------------------------------------------------------------------------
\* Ownership: what is written to a session or a row.

LEMMA SaveTaskIsOK ==
    ASSUME NEW k, NEW m \in Members, NEW x \in Members, NEW r, Honest(m, r)',
           task'[k] = [pc |-> "save", who |-> x, about |-> m, copy |-> r, seen |-> {}]
    PROVE  /\ TaskOK(k)' /\ task'[k].pc # "enter"
           /\ \A y \in Members, z \in Anyone : ~ ClaimsTask(k, y, z)'
  BY DEF TaskOK, Honest, Shown, Said, Consent, ClaimsTask

\* A task writes an honest copy to a session, with a bond that binds only who has
\* a claim already.
LEMMA TakeIInv ==
    ASSUME IInv, NEW k \in Tasks, UNCHANGED <<now, online, row>>, word \subseteq word',
           task' = [task EXCEPT ![k] = task'[k]], TaskOK(k)', task'[k].pc # "enter",
           \A y \in Members, z \in Anyone : ~ ClaimsTask(k, y, z)',
           NEW m \in Members, NEW r, Honest(m, r)',
           \/ live' = live
           \/ live' = Owned(live, m, r) /\ \A z \in Anyone : Binds(r.bond, z) => Claims(m, z)
    PROVE  IInv'
<1>1. Sessions'
  BY SessionTakes DEF IInv
<1>2. Stored'
  BY StoredStays DEF IInv
<1>3. ASSUME NEW y \in Members, NEW z \in Anyone, ClaimsLive(y, z)' PROVE Claims(y, z)
  <2>1. CASE live' = live
    BY <1>3, <2>1, ClaimsLiveStay
  <2>2. CASE live' = Owned(live, m, r) /\ live' # live
    <3>1. /\ live'[m].bond = r.bond
          /\ \A v \in Members : v # m => live'[v] = live[v]
      BY <2>2, OwnedFacts DEF IInv, Sessions
    <3>2. CASE y = m
      BY <1>3, <2>2, <3>1, <3>2 DEF ClaimsLive, Binds
    <3>3. CASE y # m
      BY <1>3, <3>1, <3>3 DEF ClaimsLive, Binds, Claims
    <3>4. QED BY <3>2, <3>3
  <2>3. QED BY <2>1, <2>2
<1>4. QED BY <1>1, <1>2, <1>3, TaskIInv

LEMMA FreeBindsNobody == \A z \in Anyone : ~ Binds(Blank.bond, z)
  BY DEF Binds, Blank, Free

LEMMA BlankIInv ==
    ASSUME IInv, NEW k \in Tasks, UNCHANGED <<now, online, row>>, word \subseteq word',
           task' = [task EXCEPT ![k] = task'[k]], QuietTask(k),
           NEW m \in Members, live' = live \/ live' = Owned(live, m, Blank)
    PROVE  IInv'
<1>1. PICK r : r = Blank
  OBVIOUS
<1>2. Honest(m, r)'
  BY <1>1, BlankIsHonest, HonestyLasts
<1>3. \A z \in Anyone : Binds(r.bond, z) => Claims(m, z)
  BY <1>1, FreeBindsNobody
<1>4. live' = live \/ live' = Owned(live, m, r)
  BY <1>1
<1>5. QED BY <1>2, <1>3, <1>4, OtherTaskIsOK, TakeIInv

LEMMA RowIInv ==
    ASSUME IInv, NEW k \in Tasks, UNCHANGED <<now, online, live, word>>,
           task' = [task EXCEPT ![k] = task'[k]], QuietTask(k),
           NEW m \in Members, NEW r, Honest(m, r), Write(Owned(row, m, r))
    PROVE  IInv'
<1>1. Stored'
  BY RowTakes DEF IInv
<1>2. Sessions'
  BY SessionsStay DEF IInv
<1>3. QED BY <1>1, <1>2, ClaimsLiveStay, OtherTaskIsOK, TaskIInv

----------------------------------------------------------------------------
\* Ownership: the requests.

LEMMA BreakIInv ==
    ASSUME IInv, NEW k \in Tasks, NEW m \in Members, Break(k, m)
    PROVE  IInv'
<1>1. /\ live' = Owned(live, m, Blank) /\ Begin(k, "clear", m, m, Blank)
      /\ UNCHANGED <<now, online, row, word>>
  BY DEF Break, setting, where
<1>2. task' = [task EXCEPT ![k] = task'[k]] /\ QuietTask(k)
  BY <1>1, BeginQuiet DEF Telling
<1>3. QED BY <1>1, <1>2, BlankIInv

\* A task that begins with a claim to x has one already, by the bond of x.
LEMMA BeginIInv ==
    ASSUME IInv, NEW k \in Tasks, UNCHANGED <<now, online, live, row, word>>,
           NEW pc, NEW m \in Members, NEW x \in Members, NEW c, Begin(k, pc, m, x, c),
           pc \in {"offerEnd", "trial", "collar", "notes"},
           pc \in {"offerEnd", "collar", "notes"} => ClaimsLive(x, m),
           pc \in {"trial", "collar"} => <<"offerTrial", m, x>> \in word,
           pc = "collar" =>
               {<<"acceptTrial", x, m>>, <<"offerEnd", m, x>>} \subseteq word,
           pc = "notes" => /\ Honest(x, c)
                           /\ c.bond.stage = "collar" /\ c.bond.by = m
    PROVE  IInv'
<1>1. /\ task' = [task EXCEPT ![k] = task'[k]]
      /\ task'[k] = [pc |-> pc, who |-> m, about |-> x, copy |-> c,
                     seen |-> {m, x} \cap online]
  BY BeginFacts DEF IInv
<1>2. TaskOK(k)' /\ task'[k].pc # "enter"
  BY <1>1 DEF TaskOK, Honest, Shown, Said, Consent
<1>3. Sessions' /\ Stored'
  BY SessionsStay, StoredStays DEF IInv
<1>4. ASSUME NEW y \in Members, NEW z \in Anyone, ClaimsTask(k, y, z)'
      PROVE  Claims(y, z)
  BY <1>1, <1>4 DEF ClaimsTask, Claims
<1>5. QED BY <1>1, <1>2, <1>3, <1>4, ClaimsLiveStay, TaskIInv

LEMMA BeginProposeIInv ==
    ASSUME IInv, NEW k \in Tasks, NEW m \in Members, NEW x \in Members,
           BeginPropose(k, m, x)
    PROVE  IInv'
<1>1. UNCHANGED <<now, online, live, row, word>>
  BY DEF BeginPropose, setting, where
<1>2. CASE Begin(k, "offer", m, x, Blank)
  <2>1. task' = [task EXCEPT ![k] = task'[k]] /\ QuietTask(k)
    BY <1>1, <1>2, BeginQuiet DEF Telling
  <2>2. QED BY <1>1, <2>1, ApartIInv
<1>3. CASE MayOfferEnd(m, x) /\ Begin(k, "offerEnd", m, x, Blank)
  <2>1. /\ live[x].bond.stage = "trial" /\ live[x].bond.by = m
        /\ live[x].bond.start + OwnershipDelay <= now
    BY <1>3, PresenceAssumption DEF MayOfferEnd, MemberOf, Ripe
  <2>2. live[x].bond.start < now
    BY <2>1, OwnershipAssumption DEF IInv, Sessions, Honest, Bonds
  <2>3. ClaimsLive(x, m)
    BY <2>1, <2>2 DEF ClaimsLive, Binds
  <2>4. QED BY <1>1, <1>3, <2>3, BeginIInv
<1>4. QED BY <1>2, <1>3 DEF BeginPropose

LEMMA BeginAcceptIInv ==
    ASSUME IInv, NEW k \in Tasks, NEW m \in Members, NEW x \in Members,
           BeginAccept(k, m, x)
    PROVE  IInv'
<1>1. UNCHANGED <<now, online, live, row, word>>
  BY DEF BeginAccept, setting, where
<1>2. Said(m, live[m].bond)
  BY DEF IInv, Sessions, Honest
<1>3. CASE MayStart(m, x) /\ Begin(k, "trial", x, m, Blank)
  <2>1. <<"offerTrial", x, m>> \in word
    BY <1>2, <1>3 DEF MayStart, Said
  <2>2. QED BY <1>1, <1>3, <2>1, BeginIInv
<1>4. CASE MayCollar(m, x) /\ Begin(k, "collar", x, m, Blank)
  <2>1. live[m].bond.stage = "trial" /\ live[m].bond.ending = x
    BY <1>4 DEF MayCollar
  <2>2. live[m].bond.by = x
    BY <2>1, <1>2, PresenceAssumption DEF BeginAccept, MemberOf, Said
  <2>3. {<<"offerTrial", x, m>>, <<"acceptTrial", m, x>>, <<"offerEnd", x, m>>}
            \subseteq word
    BY <1>2, <2>1, <2>2, PresenceAssumption DEF Said, Consent
  <2>4. ClaimsLive(m, x)
    BY <2>1, <2>2 DEF ClaimsLive, Binds
  <2>5. QED BY <1>1, <1>4, <2>3, <2>4, BeginIInv
<1>5. QED BY <1>3, <1>4 DEF BeginAccept

LEMMA BeginNotesIInv ==
    ASSUME IInv, NEW k \in Tasks, NEW m \in Members, NEW x \in Members,
           BeginNotes(k, m, x)
    PROVE  IInv'
<1>1. PICK c : c = [bond |-> live[x].bond, owner |-> live[x].owner]
  OBVIOUS
<1>2. /\ UNCHANGED <<now, online, live, row, word>>
      /\ Begin(k, "notes", m, x, c)
      /\ live[x].bond.stage = "collar" /\ live[x].bond.by = m
  BY <1>1 DEF BeginNotes, setting, where
<1>3. Honest(x, c)
  BY <1>1 DEF IInv, Sessions, Honest, Shown
<1>4. ClaimsLive(x, m)
  BY <1>2 DEF ClaimsLive, Binds
<1>5. c.bond.stage = "collar" /\ c.bond.by = m
  BY <1>1, <1>2
<1>6. QED BY <1>2, <1>3, <1>4, <1>5, BeginIInv

LEMMA BeginReleaseIInv ==
    ASSUME IInv, NEW k \in Tasks, NEW m \in Members, NEW x \in Members,
           BeginRelease(k, m, x) \/ BeginReleaseAway(k, m, x)
    PROVE  IInv'
<1>1. PICK pc \in {"release", "find"} :
          Begin(k, pc, m, x, Blank) /\ UNCHANGED <<now, online, live, row, word>>
  BY DEF BeginRelease, BeginReleaseAway, setting, where
<1>2. task' = [task EXCEPT ![k] = task'[k]] /\ QuietTask(k)
  BY <1>1, BeginQuiet DEF Telling
<1>3. QED BY <1>1, <1>2, ApartIInv

LEMMA BeginNameOwnerIInv ==
    ASSUME IInv, NEW k \in Tasks, NEW m \in Members, NEW x \in Owners,
           BeginNameOwner(k, m, x)
    PROVE  IInv'
<1>1. /\ UNCHANGED <<now, online, live, row>> /\ word' = word \cup {<<"name", m, x>>}
      /\ Begin(k, "name", m, m, x)
  BY DEF BeginNameOwner, Says, setting, where
<1>2. /\ task' = [task EXCEPT ![k] = task'[k]]
      /\ task'[k] = [pc |-> "name", who |-> m, about |-> m, copy |-> x,
                     seen |-> {m} \cap online]
  <2>1. {m, m} \cap online = {m} \cap online
    OBVIOUS
  <2>2. QED BY <1>1, <2>1, BeginFacts DEF IInv
<1>3. TaskOK(k)' /\ task'[k].pc # "enter"
  BY <1>1, <1>2 DEF TaskOK
<1>4. Sessions' /\ Stored'
  BY <1>1, SessionsStay, StoredStays DEF IInv
<1>5. \A y \in Members, z \in Anyone : ~ ClaimsTask(k, y, z)'
  BY <1>2 DEF ClaimsTask
<1>6. QED BY <1>1, <1>2, <1>3, <1>4, <1>5, ClaimsLiveStay, TaskIInv

----------------------------------------------------------------------------
\* Ownership: the steps of a task.

LEMMA StepType ==
    ASSUME IInv, NEW k \in Tasks, task[k].pc # "idle"
    PROVE  /\ task[k] # NoTask /\ task[k].who \in Members /\ task[k].about \in Members
           /\ TaskOK(k)
  BY DEF IInv, Handlers, TaskOK, NoTask

LEMMA OfferTrialIInv ==
    ASSUME IInv, NEW k \in Tasks, OfferTrial(k)
    PROVE  IInv'
<1>1. task[k].who \in Members /\ task[k].about \in Members
  BY StepType DEF OfferTrial, At
<1>2. PICK m \in Members, x \in Members : m = task[k].about /\ x = task[k].who
  BY <1>1
<1>3. PICK r : r = [bond |-> Offered(x), owner |-> NoMember]
  OBVIOUS
<1>4. /\ UNCHANGED <<now, online, row>> /\ word' = word \cup {<<"offerTrial", x, m>>}
      /\ live' = live \/ live' = Owned(live, m, r)
  BY <1>2, <1>3 DEF OfferTrial, WriteOwned, Says, setting, where
<1>5. Honest(m, r)'
  BY <1>3, <1>4, PresenceAssumption DEF Honest, Shown, Said, Consent, Offered, Free, Bonds, Owners
<1>6. \A z \in Anyone : ~ Binds(r.bond, z)
  BY <1>3 DEF Binds, Offered, Free
<1>7. task' = [task EXCEPT ![k] = task'[k]] /\ QuietTask(k)
  BY EndsQuiet DEF OfferTrial
<1>8. QED BY <1>4, <1>5, <1>6, <1>7, OtherTaskIsOK, TakeIInv

LEMMA OfferEndIInv ==
    ASSUME IInv, NEW k \in Tasks, OfferEnd(k)
    PROVE  IInv'
<1>1. task[k].who \in Members /\ task[k].about \in Members
  BY StepType DEF OfferEnd, At
<1>2. PICK m \in Members, x \in Members : m = task[k].about /\ x = task[k].who
  BY <1>1
<1>3. PICK b, o : b = live[m].bond /\ o = live[m].owner
  OBVIOUS
<1>4. PICK r : r = [bond |-> [b EXCEPT !.ending = x], owner |-> o]
  OBVIOUS
<1>5. /\ UNCHANGED <<now, online, row>> /\ word' = word \cup {<<"offerEnd", x, m>>}
      /\ live' = live \/ (m \in task[k].seen /\ live' = Owned(live, m, r))
  BY <1>2, <1>3, <1>4 DEF OfferEnd, WriteOwned, Says, setting, where
<1>6. b \in Bonds /\ o \in Owners /\ Said(m, b)
      /\ (o # NoMember => (b.stage = "collar" /\ b.by = o) \/ <<"name", m, o>> \in word)
  BY <1>3 DEF IInv, Sessions, Honest, Shown
<1>7. /\ r.bond \in Bonds /\ r.owner = o /\ r.bond.stage = b.stage /\ r.bond.by = b.by
      /\ r.bond.start = b.start /\ r.bond.ending = x
  BY <1>4, <1>6 DEF Bonds
<1>8. Honest(m, r)'
  BY <1>5, <1>6, <1>7 DEF Honest, Shown, Said, Consent
<1>9. ASSUME NEW z \in Anyone, Binds(r.bond, z), m \in task[k].seen PROVE Claims(m, z)
  <2>1. CASE Binds(b, z)
    BY <1>3, <2>1 DEF Claims, ClaimsLive
  <2>2. CASE z = x
    BY <1>2, <1>9, <2>2 DEF OfferEnd, At, Claims, ClaimsTask
  <2>3. QED BY <1>7, <1>9, <2>1, <2>2 DEF Binds
<1>10. task' = [task EXCEPT ![k] = task'[k]] /\ QuietTask(k)
  BY EndsQuiet DEF OfferEnd
<1>11. QED BY <1>5, <1>8, <1>9, <1>10, OtherTaskIsOK, TakeIInv

LEMMA TieIInv ==
    ASSUME IInv, NEW k \in Tasks, Tie(k)
    PROVE  IInv'
<1>1. task[k].who \in Members /\ task[k].about \in Members /\ TaskOK(k)
  BY StepType DEF Tie
<1>2. PICK m \in Members, x \in Members, pc \in {"trial", "collar"} :
          m = task[k].about /\ x = task[k].who /\ pc = task[k].pc
  BY <1>1 DEF Tie
<1>3. PICK r : r = [bond |-> Bond(pc, x), owner |-> IF pc = "collar" THEN x ELSE NoMember]
  OBVIOUS
<1>4. /\ UNCHANGED <<now, online, row>>
      /\ word' = word \cup {<<IF pc = "trial" THEN "acceptTrial" ELSE "acceptEnd", m, x>>}
      /\ live' = live \/ (m \in task[k].seen /\ live' = Owned(live, m, r))
      /\ Goto(k, "save", r)
  BY <1>2, <1>3 DEF Tie, WriteOwned, Says, setting, where
<1>5. /\ <<"offerTrial", x, m>> \in word
      /\ pc = "collar" => {<<"acceptTrial", m, x>>, <<"offerEnd", x, m>>} \subseteq word
  BY <1>1, <1>2 DEF TaskOK
<1>6. /\ r.bond \in Bonds /\ r.bond.stage = pc /\ r.bond.by = x
      /\ r.bond.ending = NoMember /\ r.bond.start = now
      /\ r.owner = IF pc = "collar" THEN x ELSE NoMember
  BY <1>3, PresenceAssumption DEF Bond, Free, Bonds, IInv
<1>7. Honest(m, r)'
  <2>1. <<"offerTrial", x, m>> \in word' /\ <<"acceptTrial", m, x>> \in word'
    BY <1>4, <1>5
  <2>2. pc = "collar" => <<"offerEnd", x, m>> \in word' /\ <<"acceptEnd", m, x>> \in word'
    BY <1>4, <1>5
  <2>3. QED BY <1>6, <2>1, <2>2 DEF Honest, Shown, Said, Consent, Owners
<1>8. ASSUME NEW z \in Anyone, Binds(r.bond, z), m \in task[k].seen PROVE Claims(m, z)
  <2>1. pc = "collar" /\ z = x
    <3>1. ~ (now < now)
      BY DEF IInv
    <3>2. QED BY <1>6, <1>8, <3>1, PresenceAssumption DEF Binds
  <2>2. QED BY <1>2, <1>8, <2>1 DEF Claims, ClaimsTask
<1>9. /\ task' = [task EXCEPT ![k] = task'[k]]
      /\ task'[k] = [pc |-> "save", who |-> x, about |-> m, copy |-> r, seen |-> {}]
  BY <1>2, <1>4, GotoFacts DEF IInv
<1>10. QED BY <1>4, <1>7, <1>8, <1>9, SaveTaskIsOK, TakeIInv

LEMMA WriteNotesIInv ==
    ASSUME IInv, NEW k \in Tasks, WriteNotes(k)
    PROVE  IInv'
<1>1. task[k].who \in Members /\ task[k].about \in Members /\ TaskOK(k)
  BY StepType DEF WriteNotes, At
<1>2. PICK m \in Members : m = task[k].about
  BY <1>1
<1>2a. PICK x \in Members : x = task[k].who
  BY <1>1
<1>2b. PICK c : c = task[k].copy
  OBVIOUS
<1>3. PICK o : o = live[m].owner
  OBVIOUS
<1>4. PICK r : r = [bond |-> c.bond, owner |-> o]
  OBVIOUS
<1>5. /\ UNCHANGED <<now, online, row, word>>
      /\ live' = live \/ (m \in task[k].seen /\ live' = Owned(live, m, r))
      /\ Goto(k, "save", c)
  BY <1>2, <1>2a, <1>2b, <1>3, <1>4 DEF WriteNotes, WriteOwned, setting, where
<1>6. Honest(m, c) /\ c.bond.stage = "collar" /\ c.bond.by = x
  BY <1>1, <1>2, <1>2a, <1>2b DEF WriteNotes, At, TaskOK
<1>7. m \in task[k].seen => Claims(m, x)
  BY <1>2, <1>2a, <1>2b DEF WriteNotes, At, Claims, ClaimsTask
<1>8. m \in task[k].seen => o \in {NoMember, x} \/ <<"name", m, o>> \in word
  <2> SUFFICES ASSUME m \in task[k].seen, o # NoMember, <<"name", m, o>> \notin word
               PROVE  o = x
    OBVIOUS
  <2>1. live[m].bond \in Bonds /\ live[m].bond.stage = "collar" /\ live[m].bond.by = o
    BY <1>3 DEF IInv, Sessions, Honest, Shown
  <2>2. Claims(m, o) /\ o \in Anyone
    BY <2>1 DEF Claims, ClaimsLive, Binds, Bonds, Anyone
  <2>3. QED BY <1>7, <2>2 DEF IInv, OneClaimant, Anyone
<1>9. /\ r.bond = c.bond /\ r.owner = o
  BY <1>4
<1>10. Honest(m, c)'
  BY <1>5, <1>6, HonestyLasts
<1>11. /\ task' = [task EXCEPT ![k] = task'[k]]
       /\ task'[k] = [pc |-> "save", who |-> x, about |-> m, copy |-> c, seen |-> {}]
  BY <1>2, <1>2a, <1>2b, <1>5, GotoFacts DEF IInv
<1>12. /\ TaskOK(k)' /\ task'[k].pc # "enter"
       /\ \A y \in Members, z \in Anyone : ~ ClaimsTask(k, y, z)'
  BY <1>10, <1>11, SaveTaskIsOK
<1>13. CASE m \in task[k].seen
  <2>1. Honest(m, r)
    <3>1. o \in Owners
      BY <1>3 DEF IInv, Sessions, Honest
    <3>2. QED BY <1>6, <1>8, <1>9, <1>13, <3>1 DEF Honest, Shown
  <2>2. Honest(m, r)'
    BY <2>1, <1>5, HonestyLasts
  <2>3. \A z \in Anyone : Binds(r.bond, z) => Claims(m, z)
    BY <1>6, <1>7, <1>9, <1>13 DEF Binds
  <2>4. QED BY <1>5, <1>11, <1>12, <2>2, <2>3, TakeIInv
<1>14. CASE m \notin task[k].seen
  <2>1. live' = live
    BY <1>5, <1>14
  <2>2. QED BY <1>5, <1>10, <1>11, <1>12, <2>1, TakeIInv
<1>15. QED BY <1>13, <1>14

LEMMA SaveIInv ==
    ASSUME IInv, NEW k \in Tasks, Save(k) \/ Clear(k) \/ ClearAway(k)
    PROVE  IInv'
<1>1. task[k].pc \in {"save", "clear", "clearAway"}
  BY DEF Save, Clear, ClearAway, At
<1>2. task[k] # NoTask /\ task[k].about \in Members /\ TaskOK(k)
  BY <1>1, StepType
<1>3. UNCHANGED <<now, online, live, word>>
  BY DEF Save, Clear, ClearAway, setting, where
<1>4. task' = [task EXCEPT ![k] = task'[k]] /\ QuietTask(k)
  <2>1. CASE Ends(k)
    BY <2>1, EndsQuiet
  <2>2. CASE Goto(k, "unseat", Blank)
    BY <1>2, <1>3, <2>2, GotoQuiet DEF Telling
  <2>3. QED BY <2>1, <2>2 DEF Save, Clear, ClearAway
<1>5. CASE Save(k)
  <2>1. Honest(task[k].about, task[k].copy) /\ Write(Owned(row, task[k].about, task[k].copy))
    BY <1>2, <1>5 DEF Save, At, TaskOK
  <2>2. QED BY <1>2, <1>3, <1>4, <2>1, RowIInv
<1>6. CASE Clear(k) \/ ClearAway(k)
  <2>1. Honest(task[k].about, Blank) /\ Write(Owned(row, task[k].about, Blank))
    BY <1>6, BlankIsHonest DEF Clear, ClearAway
  <2>2. QED BY <1>2, <1>3, <1>4, <2>1, RowIInv
<1>7. QED BY <1>5, <1>6

LEMMA NameOwnerIInv ==
    ASSUME IInv, NEW k \in Tasks, NameOwner(k)
    PROVE  IInv'
<1>1. task[k] # NoTask /\ task[k].about \in Members /\ TaskOK(k)
  BY StepType DEF NameOwner, At
<1>2. PICK m \in Members, o \in Owners : m = task[k].about /\ o = task[k].copy
  BY <1>1 DEF NameOwner, At, TaskOK
<1>3. PICK b : b = row[m].bond
  OBVIOUS
<1>4. PICK r : r = [bond |-> b, owner |-> o]
  OBVIOUS
<1>5. r.bond = b /\ r.owner = o
  BY <1>4
<1>6. Honest(m, r)
  <2>1. <<"name", m, o>> \in word
    BY <1>1, <1>2 DEF NameOwner, At, TaskOK
  <2>2. b \in Bonds /\ Said(m, b)
    BY <1>3 DEF IInv, Stored, Honest
  <2>3. QED BY <1>5, <2>1, <2>2 DEF Honest, Shown
<1>7. UNCHANGED <<now, online, live, word>> /\ Write([row EXCEPT ![m].owner = o])
  BY <1>2 DEF NameOwner, setting, where
<1>8. [row EXCEPT ![m].owner = o] = Owned(row, m, r)
  <2>1. row[m] = [bond |-> b, owner |-> row[m].owner, loves |-> row[m].loves]
    BY <1>3 DEF IInv, Stored, Whole
  <2>2. QED BY <1>5, <2>1 DEF Owned, IInv, Stored
<1>9. task' = [task EXCEPT ![k] = task'[k]] /\ QuietTask(k)
  BY EndsQuiet DEF NameOwner
<1>10. Write(Owned(row, m, r))
  BY <1>7, <1>8
<1>11. QED BY <1>6, <1>7, <1>9, <1>10, RowIInv

LEMMA ReleaseIInv ==
    ASSUME IInv, NEW k \in Tasks, Release(k) \/ Unseat(k)
    PROVE  IInv'
<1>1. task[k].pc \in {"release", "unseat"}
  BY DEF Release, Unseat, At
<1>2. task[k] # NoTask /\ task[k].about \in Members
  BY <1>1, StepType
<1>3. /\ UNCHANGED <<now, online, row, word>>
      /\ live' = live \/ live' = Owned(live, task[k].about, Blank)
  BY DEF Release, Unseat, WriteOwned, setting, where
<1>4. task' = [task EXCEPT ![k] = task'[k]] /\ QuietTask(k)
  <2>1. CASE Unseat(k)
    BY <2>1, EndsQuiet DEF Unseat
  <2>2. CASE Release(k)
    BY <1>2, <1>3, <2>2, GotoQuiet DEF Release, Telling
  <2>3. QED BY <2>1, <2>2
<1>5. QED BY <1>2, <1>3, <1>4, BlankIInv

LEMMA FindOwnedIInv ==
    ASSUME IInv, NEW k \in Tasks, FindOwned(k)
    PROVE  IInv'
<1>1. UNCHANGED <<now, online, live, row, word>> /\ task[k] # NoTask
  BY DEF FindOwned, At, NoTask, setting, where
<1>2. task' = [task EXCEPT ![k] = task'[k]] /\ QuietTask(k)
  <2>1. CASE Ends(k)
    BY <2>1, EndsQuiet
  <2>2. CASE Goto(k, "clearAway", Blank)
    BY <1>1, <2>2, GotoQuiet DEF Telling
  <2>3. QED BY <2>1, <2>2 DEF FindOwned
<1>3. QED BY <1>1, <1>2, ApartIInv

----------------------------------------------------------------------------
\* Sessions and the room.

\* Nothing but claims can go.
LEMMA FewerClaims ==
    ASSUME OneClaimant, \A x \in Members, y \in Anyone : Claims(x, y)' => Claims(x, y)
    PROVE  OneClaimant'
  BY DEF OneClaimant, Anyone

LEMMA BeginLoginIInv ==
    ASSUME IInv, NEW k \in Tasks, NEW m \in Members, BeginLogin(k, m)
    PROVE  IInv'
<1>1. PICK c : c = row[m]
  OBVIOUS
<1>2. UNCHANGED <<now, online, live, row, word>> /\ Begin(k, "enter", m, m, c)
  BY <1>1 DEF BeginLogin, setting, where
<1>3. /\ task' = [task EXCEPT ![k] = task'[k]]
      /\ task'[k] = [pc |-> "enter", who |-> m, about |-> m, copy |-> c,
                     seen |-> {m, m} \cap online]
  BY <1>2, BeginFacts DEF IInv
<1>4. /\ task' = [l \in Tasks |-> task'[l]]
      /\ \A l \in Tasks : l # k => task'[l] = task[l]
  BY <1>3 DEF IInv, Handlers
<1>5. Whole(c) /\ Honest(m, c)'
  <2>1. Whole(c) /\ Honest(m, c)
    BY <1>1 DEF IInv, Stored
  <2>2. QED BY <1>2, <2>1, HonestyLasts
<1>6. TaskOK(k)'
  BY <1>2, <1>3, <1>5 DEF BeginLogin, TaskOK, Honest, Shown, Said, Consent, Whole
<1>7. ASSUME NEW l \in Tasks, l # k PROVE TaskOK(l)'
  <2>1. task[l].seen \subseteq online' /\ task[l].pc # "enter"
    BY <1>2 DEF BeginLogin, At, IInv, Handlers, TaskOK
  <2>2. QED BY <1>2, <1>4, <1>7, <2>1, TaskStays DEF IInv
<1>8. \A l, h \in Tasks : At(l, "enter")' /\ At(h, "enter")' => l = h
  BY <1>4 DEF BeginLogin, At
<1>9. Handlers'
  BY <1>4, <1>6, <1>7, <1>8 DEF Handlers
<1>10. OneClaimant'
  <2>1. ASSUME NEW x \in Members, NEW y \in Anyone, NEW l \in Tasks, ClaimsTask(l, x, y)'
        PROVE  ClaimsTask(l, x, y)
    BY <1>3, <1>4, <2>1 DEF ClaimsTask
  <2>2. \A x \in Members, y \in Anyone : Claims(x, y)' => Claims(x, y)
    BY <1>2, <2>1 DEF Claims, ClaimsLive, Binds
  <2>3. QED BY <2>2, FewerClaims DEF IInv
<1>11. QED BY <1>2, <1>9, <1>10, SessionsStay, StoredStays DEF IInv

\* The session takes the copy of the row of before. Nobody has had a claim to a
\* member without a session, and the copy gives it to one member at most.
LEMMA EnterLoginIInv ==
    ASSUME IInv, NEW k \in Tasks, EnterLogin(k)
    PROVE  IInv'
<1>1. task[k].about \in Members /\ TaskOK(k)
  BY StepType DEF EnterLogin, At
<1>2. PICK m \in Members : m = task[k].about
  BY <1>1
<1>2a. PICK c : c = task[k].copy
  OBVIOUS
<1>3. /\ m \notin online /\ online' = online \cup {m}
      /\ live' = [live EXCEPT ![m] = c] /\ Ends(k)
      /\ UNCHANGED <<now, row, word>>
  BY <1>1, <1>2, <1>2a DEF EnterLogin, At, TaskOK, setting
<1>4. Whole(c) /\ Honest(m, c)
  BY <1>1, <1>2, <1>2a DEF EnterLogin, At, TaskOK
<1>5. /\ task' = [l \in Tasks |-> task'[l]] /\ task'[k] = NoTask
      /\ \A l \in Tasks : l # k => task'[l] = task[l] /\ ~ At(l, "enter")
  BY <1>3, EndsFacts DEF EnterLogin, IInv, Handlers
<1>6. /\ live' = [x \in Members |-> live'[x]] /\ live'[m] = c
      /\ \A x \in Members : x # m => live'[x] = live[x]
  BY <1>3 DEF IInv, Sessions
<1>7. Sessions'
  <2>1. ASSUME NEW x \in Members PROVE Whole(live'[x]) /\ Honest(x, live[x])'
    <3>1. CASE x = m
      BY <1>3, <1>4, <1>6, <3>1 DEF Honest, Shown, Said, Consent
    <3>2. CASE x # m
      BY <1>3, <1>6, <3>2 DEF IInv, Sessions, Honest, Shown, Said, Consent
    <3>3. QED BY <3>1, <3>2
  <2>2. QED BY <1>6, <2>1 DEF Sessions, Whole
<1>8. Handlers'
  <2>1. TaskOK(k)'
    BY <1>5 DEF TaskOK, NoTask
  <2>2. ASSUME NEW l \in Tasks, l # k PROVE TaskOK(l)'
    <3>1. task[l].seen \subseteq online' /\ task[l].pc # "enter"
      BY <1>3, <1>5, <2>2 DEF At, IInv, Handlers, TaskOK
    <3>2. QED BY <1>3, <1>5, <2>2, <3>1, TaskStays DEF IInv
  <2>3. \A l, h \in Tasks : At(l, "enter")' /\ At(h, "enter")' => l = h
    BY <1>5 DEF At, NoTask
  <2>4. QED BY <1>5, <2>1, <2>2, <2>3 DEF Handlers
<1>9. ASSUME NEW x \in Members, NEW y \in Anyone, NEW l \in Tasks, ClaimsTask(l, x, y)'
      PROVE  x # m /\ ClaimsTask(l, x, y)
  <2>1. l # k /\ task'[l] = task[l] /\ task[l].seen \subseteq online
    <3>1. task'[k].pc = "idle" /\ task'[l].pc # "idle"
      BY <1>5, <1>9 DEF ClaimsTask, NoTask
    <3>2. QED BY <1>5, <3>1 DEF IInv, Handlers, TaskOK
  <2>2. QED BY <1>3, <1>9, <2>1 DEF ClaimsTask
<1>10. OneClaimant'
  <2> SUFFICES ASSUME NEW x \in Members, NEW y \in Anyone, NEW z \in Anyone,
                      Claims(x, y)', Claims(x, z)'
               PROVE  y = z
    BY DEF OneClaimant, Anyone
  <2>1. CASE x = m
    <3>1. ClaimsLive(x, y)' /\ ClaimsLive(x, z)'
      BY <1>9, <2>1 DEF Claims
    <3>2. QED BY <3>1 DEF ClaimsLive, Binds
  <2>2. CASE x # m
    <3>1. live'[x] = live[x] /\ UNCHANGED now
      BY <1>3, <1>6, <2>2
    <3>2. Claims(x, y) /\ Claims(x, z)
      BY <1>9, <3>1 DEF Claims, ClaimsLive, Binds
    <3>3. QED BY <3>2 DEF IInv, OneClaimant
  <2>3. QED BY <2>1, <2>2
<1>11. online' \subseteq Members
  BY <1>3 DEF IInv
<1>12. QED BY <1>3, <1>7, <1>8, <1>10, <1>11, StoredStays DEF IInv

LEMMA SignOutIInv ==
    ASSUME IInv, NEW m \in Members, SignOut(m)
    PROVE  IInv'
<1>1. /\ online' = online \ {m} /\ UNCHANGED <<now, row, word>>
      /\ live' = [live EXCEPT ![m] = Blank]
      /\ task' = [k \in Tasks |-> [task[k] EXCEPT !.seen = @ \ {m}]]
  BY DEF SignOut, setting
<1>2. /\ live' = [x \in Members |-> live'[x]] /\ live'[m] = Blank
      /\ \A x \in Members : x # m => live'[x] = live[x]
  BY <1>1 DEF IInv, Sessions
<1>3. Sessions'
  <2>1. ASSUME NEW x \in Members PROVE Whole(live'[x]) /\ Honest(x, live[x])'
    <3>1. CASE x = m
      <4>1. Whole(Blank) /\ Honest(x, Blank)
        BY BlankIsHonest
      <4>2. QED BY <1>1, <1>2, <3>1, <4>1 DEF Honest, Shown, Said, Consent
    <3>2. CASE x # m
      BY <1>1, <1>2, <3>2 DEF IInv, Sessions, Honest, Shown, Said, Consent
    <3>3. QED BY <3>1, <3>2
  <2>2. QED BY <1>2, <2>1 DEF Sessions, Whole
<1>4. ASSUME NEW k \in Tasks
      PROVE  /\ task'[k] = [pc |-> task[k].pc, who |-> task[k].who,
                            about |-> task[k].about, copy |-> task[k].copy,
                            seen |-> task[k].seen \ {m}]
             /\ task'[k].pc = task[k].pc /\ task'[k].about = task[k].about
             /\ task'[k].who = task[k].who /\ task'[k].seen \subseteq task[k].seen
  <2>1. task[k] = [pc |-> task[k].pc, who |-> task[k].who, about |-> task[k].about,
                   copy |-> task[k].copy, seen |-> task[k].seen]
    BY DEF IInv, Handlers, TaskOK
  <2>2. task'[k] = [task[k] EXCEPT !.seen = task[k].seen \ {m}]
    BY <1>1
  <2>3. task'[k] = [pc |-> task[k].pc, who |-> task[k].who, about |-> task[k].about,
                    copy |-> task[k].copy, seen |-> task[k].seen \ {m}]
    BY <2>1, <2>2
  <2>4. QED BY <2>3
<1>5. Handlers'
  <2>1. ASSUME NEW k \in Tasks PROVE TaskOK(k)'
    <3>1. TaskOK(k)
      BY DEF IInv, Handlers
    <3>2. task[k].pc \in {"enter", "save", "notes"} =>
              Honest(task[k].about, task[k].copy)'
      BY <1>1, <1>4, <3>1 DEF TaskOK, Honest, Shown, Said, Consent
    <3>3. CASE task[k].pc = "idle"
      <4>1. task'[k] = NoTask
        BY <1>4, <3>1, <3>3 DEF TaskOK, NoTask
      <4>2. QED BY <4>1 DEF TaskOK, NoTask
    <3>4. CASE task[k].pc # "idle"
      BY <1>1, <1>4, <3>1, <3>2, <3>4 DEF TaskOK, Whole, Honest, Shown, Said, Consent
    <3>5. QED BY <3>3, <3>4
  <2>2. task' = [k \in Tasks |-> task'[k]]
    BY <1>1
  <2>3. \A k \in Tasks : task'[k].pc = task[k].pc
    BY <1>4
  <2>4. \A k, l \in Tasks : At(k, "enter")' /\ At(l, "enter")' => k = l
    BY <2>3 DEF IInv, Handlers, At
  <2>5. QED BY <2>1, <2>2, <2>4 DEF Handlers
<1>6. OneClaimant'
  <2>1. ASSUME NEW x \in Members, NEW y \in Anyone, ClaimsLive(x, y)' PROVE Claims(x, y)
    <3>1. CASE x = m
      BY <1>2, <2>1, <3>1 DEF ClaimsLive, Binds, Blank, Free
    <3>2. CASE x # m
      BY <1>1, <1>2, <2>1, <3>2 DEF ClaimsLive, Binds, Claims
    <3>3. QED BY <3>1, <3>2
  <2>2. ASSUME NEW x \in Members, NEW y \in Anyone, NEW k \in Tasks, ClaimsTask(k, x, y)'
        PROVE  Claims(x, y)
    <3>1. /\ task'[k].pc = task[k].pc /\ task'[k].about = task[k].about
          /\ task'[k].who = task[k].who /\ task'[k].seen \subseteq task[k].seen
      BY <1>4
    <3>2. QED BY <2>2, <3>1 DEF ClaimsTask, Claims
  <2>3. \A x \in Members, y \in Anyone : Claims(x, y)' => Claims(x, y)
    BY <2>1, <2>2 DEF Claims
  <2>4. QED BY <2>3, FewerClaims DEF IInv
<1>7. QED BY <1>1, <1>3, <1>5, <1>6, StoredStays DEF IInv

LEMMA QuietIInv ==
    ASSUME IInv, UNCHANGED <<now, online, live, row, task, word>>
    PROVE  IInv'
<1>1. Handlers'
  <2>1. ASSUME NEW k \in Tasks PROVE TaskOK(k)'
    BY TaskStays DEF IInv, Handlers, TaskOK
  <2>2. QED BY <2>1 DEF IInv, Handlers, At
<1>2. OneClaimant'
  BY FewerClaims DEF IInv, Claims, ClaimsLive, ClaimsTask, Binds
<1>3. QED BY <1>1, <1>2, SessionsStay, StoredStays DEF IInv

\* The handlers are gone and with them their claims; the rows say who is whose.
LEMMA CrashIInv == ASSUME IInv, Crash PROVE IInv'
<1>1. /\ online' = Settled /\ UNCHANGED <<now, row, word>>
      /\ live' = [m \in Members |-> IF m \in Settled THEN row[m] ELSE Blank]
      /\ task' = [k \in Tasks |-> NoTask]
  BY DEF Crash, setting
<1>2. Sessions'
  <2>1. ASSUME NEW x \in Members PROVE Whole(live'[x]) /\ Honest(x, live[x])'
    <3>1. CASE x \in Settled
      BY <1>1, <3>1 DEF IInv, Stored, Honest, Shown, Said, Consent
    <3>2. CASE x \notin Settled
      <4>1. Whole(Blank) /\ Honest(x, Blank) /\ live'[x] = Blank
        BY <1>1, <3>2, BlankIsHonest
      <4>2. QED BY <1>1, <4>1 DEF Honest, Shown, Said, Consent
    <3>3. QED BY <3>1, <3>2
  <2>2. live' = [x \in Members |-> live'[x]]
    BY <1>1
  <2>3. QED BY <2>1, <2>2 DEF Sessions, Whole
<1>3. Handlers'
  BY <1>1 DEF Handlers, TaskOK, NoTask, At
<1>4. OneClaimant'
  <2>1. \A k \in Tasks, x \in Members, y \in Anyone : ~ ClaimsTask(k, x, y)'
    BY <1>1 DEF ClaimsTask, NoTask
  <2>2. QED BY <2>1 DEF OneClaimant, Claims, ClaimsLive, Binds
<1>5. online' \subseteq Members
  BY <1>1, PresenceAssumption
<1>6. QED BY <1>1, <1>2, <1>3, <1>4, <1>5, StoredStays DEF IInv

\* A trial that has ripened claims, but there is no task then that claims as well.
LEMMA TickIInv == ASSUME IInv, Tick PROVE IInv'
<1>1. /\ now' = now + 1 /\ UNCHANGED <<online, live, row, task, word>>
      /\ \A k \in Tasks : task[k] = NoTask
  BY DEF Tick, where
<1>2. Handlers'
  <2>1. ASSUME NEW k \in Tasks PROVE TaskOK(k)'
    BY <1>1, TaskStays DEF IInv, Handlers, TaskOK
  <2>2. QED BY <1>1, <2>1 DEF IInv, Handlers, At
<1>3. OneClaimant'
  <2>1. \A k \in Tasks, x \in Members, y \in Anyone : ~ ClaimsTask(k, x, y)'
    BY <1>1 DEF ClaimsTask, NoTask
  <2>2. QED BY <2>1 DEF OneClaimant, Claims, ClaimsLive, Binds
<1>4. now' \in Nat
  BY <1>1 DEF IInv
<1>5. QED BY <1>1, <1>2, <1>3, <1>4, SessionsStay, StoredStays DEF IInv

LEMMA InitIInv == Init => IInv
<1> SUFFICES ASSUME Init PROVE IInv
  OBVIOUS
<1>1. /\ now = 0 /\ online = Settled /\ live = [m \in Members |-> Blank]
      /\ row = [m \in Members |-> Blank] /\ task = [k \in Tasks |-> NoTask]
  BY DEF Init, PresenceInit
<1>2. Sessions /\ Stored
  BY <1>1, BlankIsHonest DEF Sessions, Stored
<1>3. Handlers
  BY <1>1 DEF Handlers, TaskOK, NoTask, At
<1>4. OneClaimant
  BY <1>1 DEF OneClaimant, Claims, ClaimsLive, ClaimsTask, Binds, NoTask
<1>5. QED BY <1>1, <1>2, <1>3, <1>4, PresenceAssumption DEF IInv

LEMMA StepIInv == IInv /\ [Next]_vars => IInv'
<1> SUFFICES ASSUME IInv, [Next]_vars PROVE IInv'
  OBVIOUS
<1>1. CASE Tick
  BY <1>1, TickIInv
<1>2. CASE Crash
  BY <1>2, CrashIInv
<1>3. ASSUME NEW m \in Members, MemberMove(m) PROVE IInv'
  <2>1. CASE SignOut(m)
    BY <2>1, SignOutIInv
  <2>2. CASE EnterRoom(m) \/ LeaveRoom(m)
    BY <2>2, QuietIInv DEF EnterRoom, LeaveRoom, setting
  <2>3. QED BY <1>3, <2>1, <2>2 DEF MemberMove
<1>4. ASSUME NEW k \in Tasks, NEW m \in Members, NEW x \in Members,
             OwnershipRequest(k, m, x)
      PROVE  IInv'
  BY <1>4, BreakIInv, BeginProposeIInv, BeginAcceptIInv, BeginNotesIInv, BeginReleaseIInv
     DEF OwnershipRequest
<1>5. ASSUME NEW k \in Tasks, Request(k) PROVE IInv'
  BY <1>4, <1>5, BeginLoginIInv, LovershipRequestIInv, NpcRequestIInv, BeginNameOwnerIInv
     DEF Request
<1>6. ASSUME NEW k \in Tasks, OwnershipStep(k) PROVE IInv'
  BY <1>6, OfferTrialIInv, OfferEndIInv, TieIInv, SaveIInv, WriteNotesIInv, ReleaseIInv,
     FindOwnedIInv, NameOwnerIInv DEF OwnershipStep
<1>7. ASSUME NEW k \in Tasks, LovershipStep(k) PROVE IInv'
  BY <1>7, OfferDatingIInv, TieLoversIInv, SaveLovesIInv, LookIInv DEF LovershipStep
<1>8. ASSUME NEW k \in Tasks, TaskStep(k) PROVE IInv'
  BY <1>6, <1>7, <1>8, EnterLoginIInv DEF TaskStep
<1>9. CASE UNCHANGED vars
  BY <1>9, QuietIInv DEF vars, setting, where
<1>10. QED BY <1>1, <1>2, <1>3, <1>5, <1>8, <1>9 DEF Next

----------------------------------------------------------------------------
\* Theorems.

\* The inductive invariant holds in every reachable state.
THEOREM Invariance == Spec => []IInv
<1>1. QED BY InitIInv, StepIInv, PTL DEF Spec

LEMMA CopiesAreHonest == IInv => \A m \in Members : \A copy \in CopiesOf(m) : Honest(m, copy)
<1> SUFFICES ASSUME IInv, NEW m \in Members, NEW copy \in CopiesOf(m) PROVE Honest(m, copy)
  OBVIOUS
<1>1. CASE copy \in {live[m], row[m]}
  BY <1>1 DEF IInv, Sessions, Stored
<1>2. ASSUME NEW k \in Tasks, task[k].about = m, task[k].pc \in {"enter", "save", "notes"},
             copy = task[k].copy
      PROVE  Honest(m, copy)
  BY <1>2 DEF IInv, Handlers, TaskOK
<1>3. QED BY <1>1, <1>2 DEF CopiesOf

\* Nobody is on trial with, or collared by, a member that has not offered it, and
\* nobody without having accepted, in the sessions, the rows and the copies between
\* them (relations/mod.rs), for any number of members and handlers.
THEOREM OwnershipIsConsented == Spec => []ConsentOfBoth
<1>1. IInv => ConsentOfBoth
  BY CopiesAreHonest DEF ConsentOfBoth, Honest, Shown, Said
<1>2. QED BY <1>1, Invariance, PTL

\* The owner that is shown is who holds the collar, or a name that the member has
\* set by an AccountUpdate, in every copy, although the handler of the notes writes
\* the two fields from copies of different moments.
THEOREM OwnersHoldCollars == Spec => []OwnerHoldsCollar
<1>1. IInv => OwnerHoldsCollar
  BY CopiesAreHonest DEF OwnerHoldsCollar, Honest, Shown
<1>2. QED BY <1>1, Invariance, PTL

\* Nobody has two claimants: by the bond in a session and by the tasks that have
\* looked at that session and will write it, a member comes under one other member
\* at most, however many compete.
THEOREM ClaimsAreExclusive == Spec => []OneClaimant
<1>1. IInv => OneClaimant
  BY DEF IInv
<1>2. QED BY <1>1, Invariance, PTL
=============================================================================
