---------------------------- MODULE LovershipProofs ----------------------------
(***************************************************************************)
(* Proofs about lovership, while the handlers of ownership and lovership   *)
(* run side by side: nobody is a lover, engaged or married without having  *)
(* agreed to each step, offers do not outlive the session they were made   *)
(* in, and every copy of an account keeps its type.                        *)
(***************************************************************************)
EXTENDS RelationsProofs, ListsProofs

----------------------------------------------------------------------------
\* What a list may say, when w has been said. (w is word, or word': a parameter,
\* so that these operators are about lists only.)

AgreedIn(w, m, x, stage) ==
    \/ {<<OfferFor[stage], m, x>>, <<stage, x, m>>} \subseteq w
    \/ {<<OfferFor[stage], x, m>>, <<stage, m, x>>} \subseteq w

\* An entry of m: an offer was made, whoever it is kept under; a tie was agreed to,
\* stage by stage.
Sound(w, m, e) ==
    /\ e.stage = "offered" => <<"date", e.with, m>> \in w
    /\ e.engage # NoMember => <<"engage", e.engage, m>> \in w
    /\ e.wed # NoMember => <<"wed", e.wed, m>> \in w
    /\ IsTie(e) => \A s \in Through(e.stage) : AgreedIn(w, m, e.with, s)

Loving(w, m, list) ==
    /\ list \in Seq(Entries)
    /\ \A i \in DOMAIN list : Sound(w, m, list[i])

NoOffer(e) == e.stage # "offered" /\ e.engage = NoMember /\ e.wed = NoMember

Offerless(list) == \A i \in DOMAIN list : NoOffer(list[i])

\* m may accept a tie with x: x has offered it, and both have agreed to what
\* comes before it.
MayTie(w, m, x, stage) ==
    /\ <<OfferFor[stage], x, m>> \in w
    /\ \A s \in Through(stage) \ {stage} : AgreedIn(w, m, x, s)

\* What a task knows of lovership, by its step.
Knows(w, pc, m, x, c) ==
    /\ pc = "enter" => Loving(w, x, c.loves)
    /\ pc \in {"save", "notes"} => c = [bond |-> c.bond, owner |-> c.owner]
    /\ pc \in {"engage", "wed"} => c \in Nat \ {0}
    /\ pc = "tie" => c \in [stage : TieStages, i : Nat, j : Nat] /\ MayTie(w, m, x, c.stage)
    /\ pc = "saveBoth" => /\ c = [own |-> c.own, other |-> c.other]
                          /\ Loving(w, m, c.own) /\ Loving(w, x, c.other)
    /\ pc = "part" => Loving(w, m, c)
    /\ pc = "saveOwn" => /\ c = [list |-> c.list, met |-> c.met] /\ c.met \in BOOLEAN
                         /\ Loving(w, m, c.list)
    /\ pc = "saveList" => Loving(w, x, c)

\* The steps at which a task carries nothing.
Bare == {"offer", "offerEnd", "trial", "collar", "release", "clear", "find", "clearAway",
         "unseat", "date", "look", "lookUp", "pull"}

Holding(k) ==
    LET t == task[k]
    IN  /\ t.pc \in Steps \cup {"idle"}
        /\ t.pc \in Bare => t.copy = Blank
        /\ t.seen \subseteq {t.who, t.about}
        /\ Knows(word, t.pc, t.who, t.about, t.copy)

LInv ==
    /\ here \subseteq online
    /\ \A m \in Members : Loving(word, m, live[m].loves)
    /\ \A m \in Members : Loving(word, m, row[m].loves) /\ Offerless(row[m].loves)
    /\ \A k \in Tasks : Holding(k)

----------------------------------------------------------------------------
\* Entries and lists.

\* Nobody takes a word back.
LEMMA LovingLasts ==
    ASSUME NEW w, NEW v, w \subseteq v, NEW m, NEW list, Loving(w, m, list)
    PROVE  Loving(v, m, list)
<1>1. ASSUME NEW e, Sound(w, m, e) PROVE Sound(v, m, e)
  BY <1>1 DEF Sound, AgreedIn
<1>2. QED BY <1>1 DEF Loving

LEMMA KnowledgeLasts ==
    ASSUME NEW w, NEW v, w \subseteq v, NEW pc, NEW m, NEW x, NEW c, Knows(w, pc, m, x, c)
    PROVE  Knows(v, pc, m, x, c)
<1>1. \A y, list : Loving(w, y, list) => Loving(v, y, list)
  BY LovingLasts
<1>2. \A stage : MayTie(w, m, x, stage) => MayTie(v, m, x, stage)
  BY DEF MayTie, AgreedIn
<1>3. QED BY <1>1, <1>2 DEF Knows

LEMMA NobodyIsLoved ==
    ASSUME NEW w, NEW m
    PROVE  Loving(w, m, <<>>) /\ Offerless(<<>>)
  BY DEF Loving, Offerless

\* A list made of entries of another one.
LEMMA LovingPart ==
    ASSUME NEW w, NEW m, NEW list, Loving(w, m, list), NEW new \in Seq(Entries),
           \A i \in DOMAIN new : \E j \in DOMAIN list : new[i] = list[j]
    PROVE  Loving(w, m, new) /\ (Offerless(list) => Offerless(new))
  BY DEF Loving, Offerless

LEMMA LovingAppend ==
    ASSUME NEW w, NEW m, NEW list, Loving(w, m, list), NEW e \in Entries, Sound(w, m, e)
    PROVE  Loving(w, m, Append(list, e))
<1> DEFINE new == Append(list, e)
<1>1. list \in Seq(Entries)
  BY DEF Loving
<1>2. /\ new \in Seq(Entries) /\ Len(new) = Len(list) + 1
      /\ \A i \in 1 .. Len(list) : new[i] = list[i]
      /\ new[Len(list) + 1] = e
  BY <1>1, AppendProperties
<1>3. DOMAIN new = 1 .. Len(list) + 1 /\ DOMAIN list = 1 .. Len(list) /\ Len(list) \in Nat
  BY <1>1, <1>2
<1> HIDE DEF new
<1>4. ASSUME NEW i \in DOMAIN new PROVE Sound(w, m, new[i])
  <2>1. CASE i = Len(list) + 1
    BY <1>2, <2>1
  <2>2. CASE i # Len(list) + 1
    <3>1. i \in DOMAIN list /\ new[i] = list[i]
      BY <1>2, <1>3, <2>2
    <3>2. QED BY <3>1 DEF Loving
  <2>3. QED BY <2>1, <2>2
<1>5. QED BY <1>2, <1>4 DEF Loving, new

LEMMA LovingExcept ==
    ASSUME NEW w, NEW m, NEW list, Loving(w, m, list), NEW e \in Entries, Sound(w, m, e),
           NEW i \in DOMAIN list
    PROVE  Loving(w, m, [list EXCEPT ![i] = e])
<1> DEFINE new == [list EXCEPT ![i] = e]
<1>1. list \in Seq(Entries)
  BY DEF Loving
<1>2. new \in Seq(Entries)
  BY <1>1, ExceptSeq
<1>3. DOMAIN new = DOMAIN list /\ \A j \in DOMAIN list : new[j] = IF j = i THEN e ELSE list[j]
  OBVIOUS
<1> HIDE DEF new
<1>4. QED BY <1>2, <1>3 DEF Loving, new

LEMMA LovingReplaced ==
    ASSUME NEW w, NEW m, NEW list, Loving(w, m, list), NEW e \in Entries, Sound(w, m, e),
           NEW i
    PROVE  Loving(w, m, Replaced(list, i, e))
  BY LovingAppend, LovingExcept DEF Replaced

LEMMA LovingWithout ==
    ASSUME NEW w, NEW m, NEW list, Loving(w, m, list), NEW i \in DOMAIN list
    PROVE  Loving(w, m, RemoveAt(list, i))
<1>1. list \in Seq(Entries)
  BY DEF Loving
<1>2. QED BY <1>1, RemoveAtFacts, LovingPart

LEMMA LovingParted ==
    ASSUME NEW w, NEW m, NEW list, Loving(w, m, list), NEW x
    PROVE  /\ Loving(w, m, Parted(list, x))
           /\ Offerless(list) => Offerless(Parted(list, x))
<1> DEFINE S == {e \in ToSet(list) : ~ (IsTie(e) /\ e.with = x)}
<1>1. list \in Seq(Entries) /\ Parted(list, x) = Selected(list, S)
  BY DEF Loving, Parted
<1> HIDE DEF S
<1>2. /\ Selected(list, S) \in Seq(Entries)
      /\ \A i \in DOMAIN Selected(list, S) : \E j \in DOMAIN list : Selected(list, S)[i] = list[j]
  BY <1>1, SelectedFacts
<1>3. QED BY <1>1, <1>2, LovingPart

\* What goes to the database holds no offer.
LEMMA LovingClean ==
    ASSUME NEW w, NEW m, NEW list, Loving(w, m, list)
    PROVE  Loving(w, m, Clean(list)) /\ Offerless(Clean(list))
<1> DEFINE S == {e \in ToSet(list) : e.stage # "offered"}
           kept == Selected(list, S)
           Bared(e) == [e EXCEPT !.engage = NoMember, !.wed = NoMember]
           new == Clean(list)
<1>1. list \in Seq(Entries) /\ new = [i \in DOMAIN kept |-> Bared(kept[i])]
  BY DEF Loving, Clean
<1>2. \A e \in S : e.stage # "offered"
  OBVIOUS
<1> HIDE DEF S
<1>3. /\ kept \in Seq(Entries)
      /\ \A i \in DOMAIN kept : kept[i] \in S /\ \E j \in DOMAIN list : kept[i] = list[j]
  <2>1. list \in Seq(Entries)
    BY <1>1
  <2> HIDE DEF new
  <2>2. QED BY <2>1, SelectedFacts
<1> HIDE DEF kept
<1>4. ASSUME NEW e \in Entries, Sound(w, m, e), e.stage # "offered"
      PROVE  Bared(e) \in Entries /\ Sound(w, m, Bared(e)) /\ NoOffer(Bared(e))
  <2>1. /\ Bared(e).with = e.with /\ Bared(e).stage = e.stage
        /\ Bared(e).engage = NoMember /\ Bared(e).wed = NoMember
    BY DEF Entries
  <2>2. Bared(e) \in Entries
    BY DEF Entries
  <2> HIDE DEF Bared
  <2>3. QED BY <1>4, <2>1, <2>2 DEF Sound, NoOffer, IsTie
<1>5. ASSUME NEW i \in DOMAIN kept
      PROVE  new[i] \in Entries /\ Sound(w, m, new[i]) /\ NoOffer(new[i])
  <2>1. kept[i] \in Entries /\ Sound(w, m, kept[i]) /\ kept[i].stage # "offered"
    <3>1. PICK j \in DOMAIN list : kept[i] = list[j]
      BY <1>3
    <3>2. list[j] \in Entries /\ Sound(w, m, list[j])
      <4>1. list \in Seq(Entries)
        BY DEF Loving
      <4>2. list[j] \in Entries
        BY <4>1
      <4>3. QED BY <4>2 DEF Loving
    <3>3. kept[i].stage # "offered"
      BY <1>2, <1>3
    <3>4. QED BY <3>1, <3>2, <3>3
  <2>2. new[i] = Bared(kept[i])
    BY <1>1
  <2> HIDE DEF Bared, new
  <2>3. QED BY <1>4, <2>1, <2>2
<1>6. DOMAIN new = DOMAIN kept /\ new = [i \in DOMAIN new |-> new[i]]
  BY <1>1
<1> HIDE DEF new
<1>7. new \in Seq(Entries)
  <2>1. PICK n \in Nat : DOMAIN kept = 1 .. n
    BY <1>3
  <2>2. new \in [1 .. n -> Entries]
    BY <1>5, <1>6, <2>1
  <2>3. QED BY <2>2
<1>8. QED BY <1>5, <1>6, <1>7 DEF Loving, Offerless, new

\* lover_index finds an entry about the member, or nothing.
LEMMA LoverIndexFacts ==
    ASSUME NEW list \in Seq(Entries), NEW x
    PROVE  /\ LoverIndex(list, x) \in Nat
           /\ LoverIndex(list, x) # 0 =>
                 LoverIndex(list, x) \in DOMAIN list /\ list[LoverIndex(list, x)].with = x
<1> DEFINE I == {i \in 1 .. Len(list) : list[i].with = x /\ list[i].stage # "npc"}
<1>1. LoverIndex(list, x) = IF I # {} THEN Min(I) ELSE 0
  BY DEF LoverIndex, SelectInSeq
<1>2. I \in SUBSET Nat /\ I \subseteq DOMAIN list /\ \A i \in I : list[i].with = x
  OBVIOUS
<1> HIDE DEF I
<1>3. CASE I # {}
  <2>1. Min(I) \in I
    BY <1>2, <1>3, MinFacts
  <2>2. QED BY <1>1, <1>2, <1>3, <2>1
<1>4. CASE I = {}
  BY <1>1, <1>4
<1>5. QED BY <1>3, <1>4
----------------------------------------------------------------------------
\* Accounts.

\* The lists in g are those in f, except that of m, which is l.
ListGoes(f, g, m, l) ==
    /\ g[m].loves = l
    /\ \A x \in Members : x # m => g[x].loves = f[x].loves

LEMMA ListGoesIn ==
    ASSUME NEW f, f = [x \in Members |-> f[x]], \A x \in Members : Whole(f[x]),
           NEW m \in Members, NEW l
    PROVE  ListGoes(f, [f EXCEPT ![m].loves = l], m, l)
<1>1. f[m] = [bond |-> f[m].bond, owner |-> f[m].owner, loves |-> f[m].loves]
  BY DEF Whole
<1>2. QED BY <1>1 DEF ListGoes

LEMMA OwnedKeepsLists ==
    ASSUME NEW f, f = [x \in Members |-> f[x]], NEW m, NEW r, NEW x \in Members,
           \A y \in Members : Whole(f[y])
    PROVE  Owned(f, m, r)[x].loves = f[x].loves
<1> DEFINE g == Owned(f, m, r)
<1>1. f[x] = [bond |-> f[x].bond, owner |-> f[x].owner, loves |-> f[x].loves]
  BY DEF Whole
<1>2. CASE x = m
  <2>1. g[x] = [bond |-> r.bond, owner |-> r.owner, loves |-> f[x].loves]
    BY <1>1, <1>2 DEF Owned
  <2> HIDE DEF g
  <2>2. g[x].loves = f[x].loves
    BY <2>1
  <2>3. QED BY <2>2 DEF g
<1>3. CASE x # m
  BY <1>3 DEF Owned
<1>4. QED BY <1>2, <1>3

----------------------------------------------------------------------------
\* Tasks.

\* What a task k knows next.
HoldsNext(k) ==
    /\ task' = [task EXCEPT ![k] = task'[k]]
    /\ task'[k].pc \in Steps \cup {"idle"}
    /\ task'[k].pc \in Bare => task'[k].copy = Blank
    /\ task'[k].seen \subseteq {task'[k].who, task'[k].about}
    /\ Knows(word', task'[k].pc, task'[k].who, task'[k].about, task'[k].copy)

LEMMA IdleKnows == \A w, m, x, c : Knows(w, "idle", m, x, c)
  BY DEF Knows

LEMMA BareKnows ==
    ASSUME NEW pc \in Bare, NEW w, NEW m, NEW x, NEW c
    PROVE  Knows(w, pc, m, x, c)
  BY DEF Knows, Bare

LEMMA BeginHolds ==
    ASSUME IInv, NEW k \in Tasks, NEW pc \in Steps, NEW m, NEW x, NEW c,
           Begin(k, pc, m, x, c), pc \in Bare => c = Blank, Knows(word', pc, m, x, c)
    PROVE  HoldsNext(k)
<1> DEFINE seen == {m, x} \cap online
<1>1. /\ task' = [task EXCEPT ![k] = task'[k]]
      /\ task'[k] = [pc |-> pc, who |-> m, about |-> x, copy |-> c, seen |-> seen]
  BY BeginFacts DEF IInv
<1>2. seen \subseteq {m, x}
  OBVIOUS
<1> HIDE DEF seen
<1>3. QED BY <1>1, <1>2 DEF HoldsNext

LEMMA GotoHolds ==
    ASSUME IInv, NEW k \in Tasks, NEW pc \in Steps, NEW c, Goto(k, pc, c),
           pc \in Bare => c = Blank, Knows(word', pc, task[k].who, task[k].about, c)
    PROVE  HoldsNext(k)
<1>1. /\ task' = [task EXCEPT ![k] = task'[k]]
      /\ task'[k] = [pc |-> pc, who |-> task[k].who, about |-> task[k].about,
                     copy |-> c, seen |-> {}]
  BY GotoFacts DEF IInv
<1>2. QED BY <1>1 DEF HoldsNext

LEMMA EndsHolds ==
    ASSUME IInv, NEW k \in Tasks, Ends(k)
    PROVE  HoldsNext(k)
<1>1. task' = [task EXCEPT ![k] = task'[k]] /\ task'[k] = NoTask
  BY EndsFacts DEF IInv
<1>2. /\ NoTask.pc = "idle" /\ NoTask.pc \notin Bare
      /\ NoTask.seen = {}
  BY DEF NoTask, Bare
<1>3. QED BY <1>1, <1>2, IdleKnows DEF HoldsNext

\* One task goes on; every list stays, or says no more than has been said.
LEMMA LInvGoesOn ==
    ASSUME IInv, LInv, NEW k \in Tasks, HoldsNext(k), word \subseteq word',
           here' \subseteq online',
           \A m \in Members : \/ live'[m].loves = live[m].loves
                              \/ Loving(word', m, live'[m].loves),
           \A m \in Members : \/ row'[m].loves = row[m].loves
                              \/ Loving(word', m, row'[m].loves) /\ Offerless(row'[m].loves)
    PROVE  LInv'
<1>1. \A m \in Members : Loving(word', m, live'[m].loves)
  <2>1. \A m \in Members : Loving(word', m, live[m].loves)
    BY LovingLasts DEF LInv
  <2>2. QED BY <2>1
<1>2. \A m \in Members : Loving(word', m, row'[m].loves) /\ Offerless(row'[m].loves)
  <2>1. \A m \in Members : Loving(word', m, row[m].loves) /\ Offerless(row[m].loves)
    BY LovingLasts DEF LInv
  <2>2. QED BY <2>1
<1>3. ASSUME NEW l \in Tasks PROVE Holding(l)'
  <2>1. CASE l = k
    BY <2>1 DEF HoldsNext, Holding
  <2>2. CASE l # k
    <3>1. task'[l] = task[l] /\ Holding(l)
      BY <2>2 DEF IInv, Handlers, HoldsNext, LInv
    <3>2. Knows(word', task[l].pc, task[l].who, task[l].about, task[l].copy)
      BY <3>1, KnowledgeLasts DEF Holding
    <3>3. QED BY <3>1, <3>2 DEF Holding
  <2>3. QED BY <2>1, <2>2
<1>4. QED BY <1>1, <1>2, <1>3 DEF LInv

----------------------------------------------------------------------------
\* Ownership leaves the lists alone.

SameLists(f, g) == \A m \in Members : g[m].loves = f[m].loves

LEMMA OwnedSessions ==
    ASSUME IInv, NEW m, NEW r,
           \/ live' = live
           \/ live' = Owned(live, m, r)
    PROVE  SameLists(live, live')
  BY OwnedKeepsLists DEF IInv, Sessions, SameLists

LEMMA OwnedRows ==
    ASSUME IInv, NEW m, NEW r, Write(Owned(row, m, r))
    PROVE  SameLists(row, row')
  BY OwnedKeepsLists DEF IInv, Stored, SameLists, Write

LEMMA NamedRows ==
    ASSUME IInv, NEW m, NEW x, Write([row EXCEPT ![m].owner = x])
    PROVE  SameLists(row, row')
<1>1. row = [y \in Members |-> row[y]] /\ \A y \in Members : Whole(row[y])
  BY DEF IInv, Stored
<1>2. CASE row' = row
  BY <1>2 DEF SameLists
<1>3. CASE row' = [row EXCEPT ![m].owner = x]
  <2>1. ASSUME NEW y \in Members PROVE row'[y].loves = row[y].loves
    <3>1. CASE y # m
      BY <1>1, <1>3, <3>1
    <3>2. CASE y = m
      <4>1. row[y] = [bond |-> row[y].bond, owner |-> row[y].owner, loves |-> row[y].loves]
        BY <1>1 DEF Whole
      <4>2. row'[y] = [row[y] EXCEPT !.owner = x]
        BY <1>1, <1>3, <3>2
      <4>3. QED BY <4>1, <4>2
    <3>3. QED BY <3>1, <3>2
  <2>2. QED BY <2>1 DEF SameLists
<1>4. QED BY <1>2, <1>3 DEF Write

LEMMA QuietLInv ==
    ASSUME IInv, LInv, NEW k \in Tasks, HoldsNext(k), word \subseteq word', UNCHANGED where,
           live' = live \/ SameLists(live, live'), row' = row \/ SameLists(row, row')
    PROVE  LInv'
<1>1. here' \subseteq online'
  BY DEF LInv, where
<1>2. \A m \in Members : live'[m].loves = live[m].loves
  BY DEF SameLists
<1>3. \A m \in Members : row'[m].loves = row[m].loves
  BY DEF SameLists
<1>4. QED BY <1>1, <1>2, <1>3, LInvGoesOn

LEMMA OwnershipRequestLInv ==
    ASSUME IInv, LInv, NEW k \in Tasks, NEW m \in Members, NEW x \in Members,
           OwnershipRequest(k, m, x)
    PROVE  LInv'
<1> USE DEF Bare, Steps
<1>1. word' = word /\ row' = row /\ UNCHANGED where
  BY DEF OwnershipRequest, Break, BeginPropose, BeginAccept, BeginNotes, BeginRelease,
         BeginReleaseAway
<1>2. CASE Break(k, m)
  <2>1. HoldsNext(k)
    BY <1>2, BeginHolds, BareKnows DEF Break
  <2>2. SameLists(live, live')
    BY <1>2, OwnedSessions DEF Break
  <2>3. QED BY <1>1, <2>1, <2>2, QuietLInv
<1>3. CASE BeginPropose(k, m, x)
  <2>1. HoldsNext(k)
    BY <1>3, BeginHolds, BareKnows DEF BeginPropose
  <2>2. live' = live
    BY <1>3 DEF BeginPropose
  <2>3. QED BY <1>1, <2>1, <2>2, QuietLInv
<1>4. CASE BeginAccept(k, m, x)
  <2>1. HoldsNext(k)
    BY <1>4, BeginHolds, BareKnows DEF BeginAccept
  <2>2. live' = live
    BY <1>4 DEF BeginAccept
  <2>3. QED BY <1>1, <2>1, <2>2, QuietLInv
<1>5. CASE BeginNotes(k, m, x)
  <2> DEFINE c == [bond |-> live[x].bond, owner |-> live[x].owner]
  <2>1. c = [bond |-> c.bond, owner |-> c.owner]
    OBVIOUS
  <2>2. Begin(k, "notes", m, x, c) /\ live' = live
    BY <1>5 DEF BeginNotes
  <2> HIDE DEF c
  <2>3. Knows(word', "notes", m, x, c)
    BY <2>1 DEF Knows
  <2>4. HoldsNext(k)
    BY <2>2, <2>3, BeginHolds
  <2>5. QED BY <1>1, <2>2, <2>4, QuietLInv
<1>6. CASE BeginRelease(k, m, x) \/ BeginReleaseAway(k, m, x)
  <2>1. HoldsNext(k)
    BY <1>6, BeginHolds, BareKnows DEF BeginRelease, BeginReleaseAway
  <2>2. live' = live
    BY <1>6 DEF BeginRelease, BeginReleaseAway
  <2>3. QED BY <1>1, <2>1, <2>2, QuietLInv
<1>7. QED BY <1>2, <1>3, <1>4, <1>5, <1>6 DEF OwnershipRequest

LEMMA BeginNameOwnerLInv ==
    ASSUME IInv, LInv, NEW k \in Tasks, NEW m \in Members, NEW x, BeginNameOwner(k, m, x)
    PROVE  LInv'
<1>1. /\ word \subseteq word' /\ live' = live /\ row' = row /\ UNCHANGED where
      /\ Begin(k, "name", m, m, x)
  BY DEF BeginNameOwner, Says
<1>2. HoldsNext(k)
  BY <1>1, BeginHolds DEF Steps, Bare, Knows
<1>3. QED BY <1>1, <1>2, QuietLInv

LEMMA OwnershipStepLInv ==
    ASSUME IInv, LInv, NEW k \in Tasks, OwnershipStep(k)
    PROVE  LInv'
<1> USE DEF Bare, Steps
<1> DEFINE m == task[k].about
           c == task[k].copy
<1>1. word \subseteq word' /\ UNCHANGED where
  BY DEF OwnershipStep, OfferTrial, OfferEnd, Tie, Save, WriteNotes, Release, Clear,
         FindOwned, ClearAway, Unseat, NameOwner, Says
<1>2. CASE OfferTrial(k) \/ OfferEnd(k)
  <2>1. HoldsNext(k)
    BY <1>2, EndsHolds DEF OfferTrial, OfferEnd
  <2>2. SameLists(live, live')
    BY <1>2, OwnedSessions DEF OfferTrial, OfferEnd, WriteOwned
  <2>3. row' = row
    BY <1>2 DEF OfferTrial, OfferEnd
  <2>4. QED BY <1>1, <2>1, <2>2, <2>3, QuietLInv
<1>3. CASE Tie(k)
  <2>1. PICK bond, owner : /\ Goto(k, "save", [bond |-> bond, owner |-> owner])
                           /\ WriteOwned(k, m, [bond |-> bond, owner |-> owner])
    BY <1>3 DEF Tie
  <2>2. Knows(word', "save", task[k].who, m, [bond |-> bond, owner |-> owner])
    BY DEF Knows
  <2>3. HoldsNext(k)
    BY <2>1, <2>2, GotoHolds
  <2>4. SameLists(live, live')
    BY <2>1, OwnedSessions DEF WriteOwned
  <2>5. row' = row
    BY <1>3 DEF Tie
  <2>6. QED BY <1>1, <2>3, <2>4, <2>5, QuietLInv
<1>4. CASE Save(k) \/ Clear(k)
  <2>1. HoldsNext(k)
    BY <1>4, EndsHolds DEF Save, Clear
  <2>2. SameLists(row, row')
    BY <1>4, OwnedRows DEF Save, Clear
  <2>3. live' = live
    BY <1>4 DEF Save, Clear
  <2>4. QED BY <1>1, <2>1, <2>2, <2>3, QuietLInv
<1>5. CASE WriteNotes(k)
  <2>1. c = [bond |-> c.bond, owner |-> c.owner]
    BY <1>5 DEF WriteNotes, At, LInv, Holding, Knows
  <2>2. Goto(k, "save", c)
    BY <1>5 DEF WriteNotes
  <2>3. Knows(word', "save", task[k].who, m, c)
    BY <2>1 DEF Knows
  <2>4. HoldsNext(k)
    BY <2>2, <2>3, GotoHolds
  <2>5. SameLists(live, live')
    BY <1>5, OwnedSessions DEF WriteNotes, WriteOwned
  <2>6. row' = row
    BY <1>5 DEF WriteNotes
  <2>7. QED BY <1>1, <2>4, <2>5, <2>6, QuietLInv
<1>6. CASE Release(k)
  <2>1. HoldsNext(k)
    BY <1>6, GotoHolds, BareKnows DEF Release
  <2>2. SameLists(live, live')
    BY <1>6, OwnedSessions DEF Release, WriteOwned
  <2>3. row' = row
    BY <1>6 DEF Release
  <2>4. QED BY <1>1, <2>1, <2>2, <2>3, QuietLInv
<1>7. CASE FindOwned(k)
  <2>1. HoldsNext(k)
    BY <1>7, GotoHolds, EndsHolds, BareKnows DEF FindOwned
  <2>2. live' = live /\ row' = row
    BY <1>7 DEF FindOwned
  <2>3. QED BY <1>1, <2>1, <2>2, QuietLInv
<1>8. CASE ClearAway(k)
  <2>1. HoldsNext(k)
    BY <1>8, GotoHolds, BareKnows DEF ClearAway
  <2>2. SameLists(row, row')
    BY <1>8, OwnedRows DEF ClearAway
  <2>3. live' = live
    BY <1>8 DEF ClearAway
  <2>4. QED BY <1>1, <2>1, <2>2, <2>3, QuietLInv
<1>9. CASE Unseat(k)
  <2>1. HoldsNext(k)
    BY <1>9, EndsHolds DEF Unseat
  <2>2. SameLists(live, live')
    BY <1>9, OwnedSessions DEF Unseat
  <2>3. row' = row
    BY <1>9 DEF Unseat
  <2>4. QED BY <1>1, <2>1, <2>2, <2>3, QuietLInv
<1>10. CASE NameOwner(k)
  <2>1. HoldsNext(k)
    BY <1>10, EndsHolds DEF NameOwner
  <2>2. SameLists(row, row')
    BY <1>10, NamedRows DEF NameOwner
  <2>3. live' = live
    BY <1>10 DEF NameOwner
  <2>4. QED BY <1>1, <2>1, <2>2, <2>3, QuietLInv
<1>11. QED BY <1>2, <1>3, <1>4, <1>5, <1>6, <1>7, <1>8, <1>9, <1>10 DEF OwnershipStep

----------------------------------------------------------------------------
\* Requests about lovers.

LEMMA AgreedIsAgreed == \A m, x, s : AgreedIn(word, m, x, s) <=> Agreed(m, x, s)
  BY DEF AgreedIn, Agreed

LEMMA AgreedBoth == \A w, m, x, s : AgreedIn(w, m, x, s) => AgreedIn(w, x, m, s)
  BY DEF AgreedIn

\* What m accepts has been offered by x, on top of what both had agreed to.
LEMMA AcceptsMayTie ==
    ASSUME NEW w, NEW m, NEW x \in Members, NEW e, Sound(w, m, e), e.with = x,
           NEW stage, stage = NextStage(e, x), stage # "none"
    PROVE  stage \in TieStages /\ MayTie(w, m, x, stage)
<1>1. x # NoMember
  BY PresenceAssumption
<1>2. CASE e.stage = "offered"
  <2>1. stage = "dating" /\ <<"date", x, m>> \in w
    BY <1>2 DEF NextStage, Sound
  <2>2. OfferFor["dating"] = "date" /\ Through("dating") \ {"dating"} = {}
    BY DEF OfferFor, Through
  <2>3. QED BY <2>1, <2>2 DEF MayTie, TieStages
<1>3. CASE e.stage = "dating"
  <2>1. stage = "engaged" /\ <<"engage", x, m>> \in w
    BY <1>1, <1>3 DEF NextStage, Sound
  <2>2. \A s \in {"dating"} : AgreedIn(w, m, x, s)
    BY <1>3 DEF Sound, IsTie, TieStages, Through
  <2>3. OfferFor["engaged"] = "engage" /\ Through("engaged") \ {"engaged"} = {"dating"}
    BY DEF OfferFor, Through
  <2>4. QED BY <2>1, <2>2, <2>3 DEF MayTie, TieStages
<1>4. CASE e.stage = "engaged"
  <2>1. stage = "married" /\ <<"wed", x, m>> \in w
    BY <1>1, <1>4 DEF NextStage, Sound
  <2>2. \A s \in {"dating", "engaged"} : AgreedIn(w, m, x, s)
    BY <1>4 DEF Sound, IsTie, TieStages, Through
  <2>3. OfferFor["married"] = "wed" /\ Through("married") \ {"married"} = {"dating", "engaged"}
    BY DEF OfferFor, Through, TieStages
  <2>4. QED BY <2>1, <2>2, <2>3 DEF MayTie, TieStages
<1>5. CASE e.stage \notin {"offered", "dating", "engaged"}
  BY <1>5 DEF NextStage
<1>6. QED BY <1>2, <1>3, <1>4, <1>5

LEMMA ListIsSeq ==
    ASSUME LInv, NEW m \in Members
    PROVE  live[m].loves \in Seq(Entries) /\ row[m].loves \in Seq(Entries)
  BY DEF LInv, Loving

LEMMA LovershipRequestLInv ==
    ASSUME IInv, LInv, NEW k \in Tasks, NEW m \in Members, NEW x \in Members,
           LovershipRequest(k, m, x)
    PROVE  LInv'
<1>1. word' = word /\ live' = live /\ row' = row /\ UNCHANGED where
  BY DEF LovershipRequest, BeginOfferDating, BeginOfferMore, BeginAcceptLover, BeginBreakUp
<1> DEFINE own == live[m].loves
           i == LoverIndex(own, x)
           j == LoverIndex(live[x].loves, m)
<1>2. own \in Seq(Entries) /\ Loving(word, m, own)
  BY ListIsSeq DEF LInv
<1>3. /\ i \in Nat /\ j \in Nat
      /\ i # 0 => i \in DOMAIN own /\ own[i].with = x
  BY <1>2, ListIsSeq, LoverIndexFacts
<1>4. CASE BeginOfferDating(k, m, x)
  <2>1. HoldsNext(k)
    BY <1>4, BeginHolds, BareKnows DEF BeginOfferDating, Bare, Steps
  <2>2. QED BY <1>1, <2>1, QuietLInv
<1>5. CASE BeginOfferMore(k, m, x)
  <2>1. PICK pc \in {"engage", "wed"} : j # 0 /\ Begin(k, pc, m, x, j)
    BY <1>5 DEF BeginOfferMore
  <2> HIDE DEF j
  <2>2. Knows(word', pc, m, x, j) /\ pc \in Steps /\ pc \notin Bare
    BY <1>3, <2>1 DEF Knows, Steps, Bare
  <2>3. HoldsNext(k)
    BY <2>1, <2>2, BeginHolds
  <2>4. QED BY <1>1, <2>3, QuietLInv
<1>6. CASE BeginAcceptLover(k, m, x)
  <2> DEFINE stage == NextStage(own[i], x)
             c == [stage |-> stage, i |-> i, j |-> j]
  <2>1. i # 0 /\ stage # "none" /\ Begin(k, "tie", m, x, c)
    BY <1>6 DEF BeginAcceptLover
  <2> HIDE DEF own, i, j
  <2>2. Sound(word, m, own[i])
    BY <1>2, <1>3, <2>1 DEF Loving
  <2>3. stage \in TieStages /\ MayTie(word, m, x, stage)
    BY <1>3, <2>1, <2>2, AcceptsMayTie
  <2> HIDE DEF stage
  <2>4. c \in [stage : TieStages, i : Nat, j : Nat] /\ c.stage = stage
    BY <1>3, <2>3
  <2> HIDE DEF c
  <2>5. Knows(word', "tie", m, x, c)
    BY <1>1, <2>3, <2>4 DEF Knows
  <2>6. HoldsNext(k)
    BY <2>1, <2>5, BeginHolds DEF Steps, Bare
  <2>7. QED BY <1>1, <2>6, QuietLInv
<1>7. CASE BeginBreakUp(k, m, x)
  <2> DEFINE c == RemoveAt(own, i)
  <2>1. i # 0 /\ Begin(k, "part", m, x, c)
    BY <1>7 DEF BeginBreakUp
  <2> HIDE DEF own, i, j
  <2>2. Loving(word, m, c)
    BY <1>2, <1>3, <2>1, LovingWithout
  <2> HIDE DEF c
  <2>3. Knows(word', "part", m, x, c)
    BY <1>1, <2>2 DEF Knows
  <2>4. HoldsNext(k)
    BY <2>1, <2>3, BeginHolds DEF Steps, Bare
  <2>5. QED BY <1>1, <2>4, QuietLInv
<1>8. QED BY <1>4, <1>5, <1>6, <1>7 DEF LovershipRequest

\* Lovers that are no members need not agree.
LEMMA NpcIsSound ==
    ASSUME NEW n \in Npcs, NEW w, NEW m
    PROVE  Untimed(n, "npc") \in Entries /\ Sound(w, m, Untimed(n, "npc"))
<1> DEFINE e == Untimed(n, "npc")
<1>1. e = [with |-> n, stage |-> "npc", start |-> 0, engage |-> NoMember, wed |-> NoMember]
  BY DEF Untimed, Entry
<1> HIDE DEF e
<1>2. e \in Entries
  BY <1>1 DEF Entries
<1>3. Sound(w, m, e)
  BY <1>1 DEF Sound, IsTie, TieStages
<1>4. QED BY <1>2, <1>3 DEF e

LEMMA NpcRequestLInv ==
    ASSUME IInv, LInv, NEW k \in Tasks, NEW m \in Members, NEW n \in Npcs,
           NpcRequest(k, m, n)
    PROVE  LInv'
<1>1. word' = word /\ row' = row /\ UNCHANGED where
  BY DEF NpcRequest, BreakUpNpc, TakeNpc
<1> DEFINE list == live[m].loves
<1>2. list \in Seq(Entries) /\ Loving(word, m, list)
  BY ListIsSeq DEF LInv
<1>3. PICK new : /\ Loving(word, m, new)
                 /\ live' = [live EXCEPT ![m].loves = new]
                 /\ \/ Begin(k, "saveList", m, m, new)
                    \/ task[k] = NoTask /\ UNCHANGED task
  <2>1. CASE TakeNpc(k, m, n)
    <3> DEFINE new == Clean(Append(list, Untimed(n, "npc")))
    <3>1. /\ live' = [live EXCEPT ![m].loves = new]
          /\ \/ Begin(k, "saveList", m, m, new)
             \/ task[k] = NoTask /\ UNCHANGED task
      BY <2>1 DEF TakeNpc
    <3>2. Loving(word, m, new)
      <4> HIDE DEF list
      <4>1. QED BY <1>2, NpcIsSound, LovingAppend, LovingClean
    <3>3. QED BY <3>1, <3>2
  <2>2. CASE BreakUpNpc(k, m, n)
    <3> DEFINE I == {i \in 1 .. Len(list) : list[i].with = n /\ list[i].stage # "offered"}
               i == IF I # {} THEN Min(I) ELSE 0
               new == IF i # 0 THEN RemoveAt(list, i)
                      ELSE IF list = <<>> THEN list ELSE Front(list)
    <3>1. live' = [live EXCEPT ![m].loves = new] /\ Begin(k, "saveList", m, m, new)
      BY <2>2 DEF BreakUpNpc, SelectInSeq
    <3> HIDE DEF list
    <3>2. I \in SUBSET Nat /\ I \subseteq DOMAIN list
      BY <1>2
    <3> HIDE DEF I
    <3>3. i # 0 => i \in DOMAIN list
      BY <3>2, MinFacts
    <3> HIDE DEF i
    <3>4. CASE i # 0
      BY <1>2, <3>1, <3>3, <3>4, LovingWithout
    <3>5. CASE i = 0 /\ list = <<>>
      BY <1>2, <3>1, <3>5
    <3>6. CASE i = 0 /\ list # <<>>
      <4>1. Loving(word, m, Front(list))
        BY <1>2, <3>6, FrontFacts, LovingPart
      <4>2. QED BY <3>1, <3>6, <4>1
    <3>7. QED BY <3>4, <3>5, <3>6
  <2>3. QED BY <2>1, <2>2 DEF NpcRequest
<1>4. Knows(word', "saveList", m, m, new)
  BY <1>1, <1>3 DEF Knows
<1>5. HoldsNext(k)
  <2>1. CASE Begin(k, "saveList", m, m, new)
    BY <1>4, <2>1, BeginHolds DEF Steps, Bare
  <2>2. CASE task[k] = NoTask /\ UNCHANGED task
    <3>1. task' = [task EXCEPT ![k] = task'[k]]
      BY <2>2 DEF IInv, Handlers
    <3>2. task'[k].pc = "idle" /\ task'[k].seen = {}
      BY <2>2 DEF NoTask
    <3>3. QED BY <3>1, <3>2, IdleKnows DEF HoldsNext, Bare
  <2>3. QED BY <1>3, <2>1, <2>2
<1>6. ListGoes(live, live', m, new)
  BY <1>3, ListGoesIn DEF IInv, Sessions
<1>7. \A y \in Members : live'[y].loves = live[y].loves \/ Loving(word', y, live'[y].loves)
  BY <1>1, <1>3, <1>6 DEF ListGoes
<1>8. QED BY <1>1, <1>5, <1>7, LInvGoesOn DEF LInv, where

----------------------------------------------------------------------------
\* Steps about lovers.

LEMMA LoverType ==
    ASSUME IInv, NEW k \in Tasks, LovershipStep(k)
    PROVE  task[k].who \in Members /\ task[k].about \in Members
<1>1. task[k].pc # "idle"
  BY DEF LovershipStep, OfferDating, OfferMore, TieLovers, LookAtBoth, SaveBoth, SaveList,
         BreakUp, SaveOwn, LookUp, Pull, At
<1>2. QED BY <1>1, TaskType DEF NoTask

LEMMA OfferDatingLInv ==
    ASSUME IInv, LInv, NEW k \in Tasks, OfferDating(k)
    PROVE  LInv'
<1> DEFINE m == task[k].who
           x == task[k].about
           e == Untimed(m, "offered")
           new == Append(live[x].loves, e)
<1>1. m \in Members /\ x \in Members
  BY LoverType DEF LovershipStep
<1>2. /\ word' = word \cup {<<"date", m, x>>} /\ row' = row /\ UNCHANGED where /\ Ends(k)
      /\ live' = live \/ live' = [live EXCEPT ![x].loves = new]
  BY DEF OfferDating, Says
<1>3. HoldsNext(k)
  BY <1>2, EndsHolds
<1>4. e \in Entries /\ Sound(word', x, e)
  <2>1. e = [with |-> m, stage |-> "offered", start |-> 0, engage |-> NoMember, wed |-> NoMember]
    BY DEF Untimed, Entry
  <2> HIDE DEF e
  <2>2. e \in Entries
    BY <1>1, <2>1 DEF Entries
  <2>3. <<"date", m, x>> \in word'
    BY <1>2
  <2> HIDE DEF m, x
  <2>4. Sound(word', x, e)
    BY <2>1, <2>3 DEF Sound, IsTie, TieStages
  <2>5. QED BY <2>2, <2>4
<1>5. word \subseteq word' /\ here' \subseteq online'
  BY <1>2 DEF LInv, where
<1>6. Loving(word', x, new)
  <2> HIDE DEF e, x
  <2>1. Loving(word, x, live[x].loves)
    BY <1>1 DEF LInv
  <2>2. Loving(word', x, live[x].loves)
    BY <1>5, <2>1, LovingLasts
  <2>3. QED BY <1>4, <2>2, LovingAppend
<1> HIDE DEF m, x, e, new
<1>7. \A y \in Members : live'[y].loves = live[y].loves \/ Loving(word', y, live'[y].loves)
  <2>1. CASE live' = live
    BY <2>1
  <2>2. CASE live' = [live EXCEPT ![x].loves = new]
    <3>1. ListGoes(live, live', x, new)
      BY <1>1, <2>2, ListGoesIn DEF IInv, Sessions
    <3>2. QED BY <1>6, <3>1 DEF ListGoes
  <2>3. QED BY <1>2, <2>1, <2>2
<1>8. QED BY <1>2, <1>3, <1>5, <1>7, LInvGoesOn

\* An offer of more is sound wherever it is put.
LEMMA OfferMoreLInv ==
    ASSUME IInv, LInv, NEW k \in Tasks, OfferMore(k)
    PROVE  LInv'
<1> DEFINE m == task[k].who
           x == task[k].about
           i == task[k].copy
           list == live[x].loves
           engaged == [list[i] EXCEPT !.engage = m]
           wed == [list[i] EXCEPT !.wed = m]
<1>1. m \in Members /\ x \in Members
  BY LoverType DEF LovershipStep
<1>2. /\ task[k].pc \in {"engage", "wed"} /\ word' = word \cup {<<task[k].pc, m, x>>}
      /\ row' = row /\ UNCHANGED where /\ Ends(k)
  BY DEF OfferMore, Says
<1>3. HoldsNext(k)
  BY <1>2, EndsHolds
<1>4. word \subseteq word' /\ here' \subseteq online'
  BY <1>2 DEF LInv, where
<1>5. list \in Seq(Entries) /\ Loving(word', x, list)
  <2>1. Loving(word, x, live[x].loves)
    BY <1>1 DEF LInv
  <2>2. QED BY <1>1, <1>4, <2>1, ListIsSeq, LovingLasts
<1>6. \/ live' = live
      \/ /\ i \in DOMAIN list /\ task[k].pc = "engage"
         /\ live' = [live EXCEPT ![x].loves = [list EXCEPT ![i] = engaged]]
      \/ /\ i \in DOMAIN list /\ task[k].pc = "wed"
         /\ live' = [live EXCEPT ![x].loves = [list EXCEPT ![i] = wed]]
  <2>1. CASE ~ (x \in task[k].seen /\ i \in DOMAIN live[x].loves)
    BY <2>1 DEF OfferMore
  <2>2. CASE x \in task[k].seen /\ i \in DOMAIN live[x].loves /\ task[k].pc = "engage"
    <3>1. live' = [live EXCEPT ![x].loves[i].engage = task[k].who]
      BY <2>2 DEF OfferMore, At
    <3>2. live' = [live EXCEPT ![x].loves = [list EXCEPT ![i] = engaged]]
      BY <3>1
    <3>3. QED BY <2>2, <3>2
  <2>3. CASE x \in task[k].seen /\ i \in DOMAIN live[x].loves /\ task[k].pc = "wed"
    <3>1. live' = [live EXCEPT ![x].loves[i].wed = task[k].who]
      BY <2>3 DEF OfferMore, At
    <3>2. live' = [live EXCEPT ![x].loves = [list EXCEPT ![i] = wed]]
      BY <3>1
    <3>3. QED BY <2>3, <3>2
  <2>4. QED BY <1>2, <2>1, <2>2, <2>3
<1>7. ASSUME i \in DOMAIN list
      PROVE  /\ engaged \in Entries /\ (task[k].pc = "engage" => Sound(word', x, engaged))
             /\ wed \in Entries /\ (task[k].pc = "wed" => Sound(word', x, wed))
  <2>1. list[i] \in Entries
    <3> HIDE DEF list
    <3>1. QED BY <1>5, <1>7
  <2>2. Sound(word', x, list[i])
    BY <1>5, <1>7 DEF Loving
  <2>3. /\ engaged.with = list[i].with /\ engaged.stage = list[i].stage
        /\ engaged.engage = m /\ engaged.wed = list[i].wed
        /\ wed.with = list[i].with /\ wed.stage = list[i].stage
        /\ wed.engage = list[i].engage /\ wed.wed = m
    <3> HIDE DEF list, m
    <3>1. QED BY <2>1 DEF Entries
  <2>4. engaged \in Entries /\ wed \in Entries
    <3> HIDE DEF list, m
    <3>1. QED BY <1>1, <2>1 DEF Entries
  <2>5. <<task[k].pc, m, x>> \in word'
    BY <1>2
  <2> HIDE DEF m, x, i, list, engaged, wed
  <2>6. QED BY <2>2, <2>3, <2>4, <2>5 DEF Sound, IsTie
<1> HIDE DEF m, x, i, list, engaged, wed
<1>8. ASSUME NEW e, e \in Entries, Sound(word', x, e), i \in DOMAIN list,
             live' = [live EXCEPT ![x].loves = [list EXCEPT ![i] = e]]
      PROVE  \A y \in Members : live'[y].loves = live[y].loves \/ Loving(word', y, live'[y].loves)
  <2>1. ListGoes(live, live', x, [list EXCEPT ![i] = e])
    BY <1>1, <1>8, ListGoesIn DEF IInv, Sessions
  <2>2. Loving(word', x, [list EXCEPT ![i] = e])
    BY <1>5, <1>8, LovingExcept
  <2>3. QED BY <2>1, <2>2 DEF ListGoes
<1>9. \A y \in Members : live'[y].loves = live[y].loves \/ Loving(word', y, live'[y].loves)
  <2>1. CASE live' = live
    BY <2>1
  <2>2. CASE live' # live
    <3>1. PICK e : /\ i \in DOMAIN list /\ e \in Entries /\ Sound(word', x, e)
                   /\ live' = [live EXCEPT ![x].loves = [list EXCEPT ![i] = e]]
      BY <1>6, <1>7, <2>2
    <3>2. QED BY <1>8, <3>1
  <2>3. QED BY <2>1, <2>2
<1>10. QED BY <1>2, <1>3, <1>4, <1>9, LInvGoesOn

\* Both get the tie that both have agreed to, stage by stage.
LEMMA TieIsSound ==
    ASSUME now \in Nat, NEW w, NEW m \in Members, NEW x \in Members, NEW stage \in TieStages,
           MayTie(w, m, x, stage)
    PROVE  LET v == w \cup {<<stage, m, x>>}
           IN  /\ Entry(x, stage) \in Entries /\ Sound(v, m, Entry(x, stage))
               /\ Entry(m, stage) \in Entries /\ Sound(v, x, Entry(m, stage))
<1> DEFINE v == w \cup {<<stage, m, x>>}
<1>1. \A y : Entry(y, stage) = [with |-> y, stage |-> stage, start |-> now,
                                engage |-> NoMember, wed |-> NoMember]
  BY DEF Entry
<1>2. \A y \in Members : Entry(y, stage) \in Entries
  BY <1>1 DEF Entries
<1>3. AgreedIn(v, m, x, stage)
  BY DEF MayTie, AgreedIn
<1>4. \A s \in Through(stage) \ {stage} : AgreedIn(v, m, x, s)
  BY DEF MayTie, AgreedIn
<1> HIDE DEF v
<1>5. \A s \in Through(stage) : AgreedIn(v, m, x, s) /\ AgreedIn(v, x, m, s)
  BY <1>3, <1>4, AgreedBoth
<1>6. ASSUME NEW y, NEW z, \A s \in Through(stage) : AgreedIn(v, y, z, s)
      PROVE  Sound(v, y, Entry(z, stage))
  <2> DEFINE e == Entry(z, stage)
  <2>1. /\ e.with = z /\ e.stage = stage /\ e.engage = NoMember /\ e.wed = NoMember
        /\ e.stage # "offered"
    BY <1>1 DEF TieStages
  <2> HIDE DEF e
  <2>2. Sound(v, y, e)
    BY <1>6, <2>1 DEF Sound
  <2>3. QED BY <2>2 DEF e
<1>7. QED BY <1>2, <1>5, <1>6 DEF v

LEMMA TieLoversLInv ==
    ASSUME IInv, LInv, NEW k \in Tasks, TieLovers(k)
    PROVE  LInv'
<1> DEFINE m == task[k].who
           x == task[k].about
           c == task[k].copy
<1>1. m \in Members /\ x \in Members /\ now \in Nat
  BY LoverType DEF LovershipStep, IInv
<1>2. /\ c \in [stage : TieStages, i : Nat, j : Nat] /\ MayTie(word, m, x, c.stage)
      /\ task[k].seen \subseteq {m, x}
  BY DEF TieLovers, At, LInv, Holding, Knows
<1>3. word' = word \cup {<<c.stage, m, x>>} /\ row' = row /\ UNCHANGED where
  BY DEF TieLovers, Says
<1>4. word \subseteq word' /\ here' \subseteq online'
  BY <1>3 DEF LInv, where
<1>5. HoldsNext(k)
  <2>1. task[k] = [pc |-> task[k].pc, who |-> m, about |-> x, copy |-> c, seen |-> task[k].seen]
    BY DEF IInv, Handlers, TaskOK
  <2>2. task' = [task EXCEPT ![k].pc = "look", ![k].copy = Blank]
    BY DEF TieLovers
  <2> HIDE DEF m, x, c
  <2>3. /\ task' = [task EXCEPT ![k] = task'[k]]
        /\ task'[k] = [pc |-> "look", who |-> m, about |-> x, copy |-> Blank,
                       seen |-> task[k].seen]
    BY <2>1, <2>2 DEF IInv, Handlers, m, x
  <2>4. QED BY <1>2, <2>3, BareKnows DEF HoldsNext, Steps, Bare
<1>6. /\ Entry(x, c.stage) \in Entries /\ Sound(word', m, Entry(x, c.stage))
      /\ Entry(m, c.stage) \in Entries /\ Sound(word', x, Entry(m, c.stage))
  <2> HIDE DEF m, x, c
  <2>1. c.stage \in TieStages
    BY <1>2
  <2>2. QED BY <1>1, <1>2, <1>3, <2>1, TieIsSound
<1>7. ASSUME NEW y \in Members
      PROVE  live'[y].loves = live[y].loves \/ Loving(word', y, live'[y].loves)
  <2> DEFINE new == IF y = m THEN Replaced(live[y].loves, c.i, Entry(x, c.stage))
                    ELSE Replaced(live[y].loves, c.j, Entry(m, c.stage))
  <2>1. live'[y] = IF y \in task[k].seen THEN [live[y] EXCEPT !.loves = new] ELSE live[y]
    BY DEF TieLovers
  <2>2. live[y] = [bond |-> live[y].bond, owner |-> live[y].owner, loves |-> live[y].loves]
    BY DEF IInv, Sessions, Whole
  <2>3. Loving(word', y, live[y].loves)
    BY <1>4, LovingLasts DEF LInv
  <2>4. y \in task[k].seen => y = m \/ y = x
    BY <1>2
  <2> HIDE DEF m, x, c
  <2>5. y \in task[k].seen => Loving(word', y, new)
    BY <1>6, <2>3, <2>4, LovingReplaced
  <2> HIDE DEF new
  <2>6. y \in task[k].seen => live'[y].loves = new
    BY <2>1, <2>2
  <2>7. QED BY <2>1, <2>5, <2>6
<1>8. QED BY <1>3, <1>4, <1>5, <1>7, LInvGoesOn

LEMMA LookLInv ==
    ASSUME IInv, LInv, NEW k \in Tasks, LookAtBoth(k) \/ LookUp(k)
    PROVE  LInv'
<1> DEFINE m == task[k].who
           x == task[k].about
<1>1. m \in Members /\ x \in Members
  BY LoverType DEF LovershipStep
<1>2. word' = word /\ live' = live /\ row' = row /\ UNCHANGED where
  BY DEF LookAtBoth, LookUp
<1>3. CASE LookAtBoth(k)
  <2> DEFINE c == [own |-> Seen(k, m), other |-> Seen(k, x)]
  <2>1. Goto(k, "saveBoth", c)
    BY <1>3 DEF LookAtBoth
  <2>2. \A y \in Members : Loving(word, y, Seen(k, y))
    BY NobodyIsLoved DEF Seen, LInv
  <2>3. c = [own |-> c.own, other |-> c.other] /\ Loving(word, m, c.own) /\ Loving(word, x, c.other)
    BY <1>1, <2>2
  <2> HIDE DEF c
  <2>4. Knows(word', "saveBoth", m, x, c)
    BY <1>2, <2>3 DEF Knows
  <2>5. HoldsNext(k)
    BY <2>1, <2>4, GotoHolds DEF Steps, Bare
  <2>6. QED BY <1>2, <2>5, QuietLInv
<1>4. CASE LookUp(k)
  <2> DEFINE c == IF x \in online THEN live[x].loves ELSE <<>>
  <2>1. Goto(k, "saveList", c)
    BY <1>4 DEF LookUp
  <2>2. Loving(word, x, c)
    BY <1>1, NobodyIsLoved DEF LInv
  <2> HIDE DEF c
  <2>3. Knows(word', "saveList", m, x, c)
    BY <1>2, <2>2 DEF Knows
  <2>4. HoldsNext(k)
    BY <2>1, <2>3, GotoHolds DEF Steps, Bare
  <2>5. QED BY <1>2, <2>4, QuietLInv
<1>5. QED BY <1>3, <1>4

\* A row takes a list without an offer in it.
LEMMA RowTakesList ==
    ASSUME IInv, LInv, NEW k \in Tasks, HoldsNext(k), UNCHANGED <<where, live, word>>,
           NEW m \in Members, NEW list, Loving(word, m, list), Offerless(list),
           Write([row EXCEPT ![m].loves = list])
    PROVE  LInv'
<1>1. \A y \in Members : \/ row'[y].loves = row[y].loves
                         \/ Loving(word', y, row'[y].loves) /\ Offerless(row'[y].loves)
  <2>1. CASE row' = row
    BY <2>1
  <2>2. CASE row' = [row EXCEPT ![m].loves = list]
    <3>1. ListGoes(row, row', m, list)
      BY <2>2, ListGoesIn DEF IInv, Stored
    <3>2. QED BY <3>1 DEF ListGoes
  <2>3. QED BY <2>1, <2>2 DEF Write
<1>2. QED BY <1>1, LInvGoesOn DEF LInv, where

LEMMA PersistLInv ==
    ASSUME IInv, LInv, NEW k \in Tasks, HoldsNext(k), UNCHANGED <<where, live, word>>,
           NEW m \in Members, NEW list, Loving(word, m, list), Persist(m, list)
    PROVE  LInv'
<1>1. Loving(word, m, Clean(list)) /\ Offerless(Clean(list))
  BY LovingClean
<1>2. PICK new : new = Clean(list)
  OBVIOUS
<1>3. Write([row EXCEPT ![m].loves = new])
  BY <1>2 DEF Persist
<1>4. QED BY <1>1, <1>2, <1>3, RowTakesList

LEMMA SaveLovesLInv ==
    ASSUME IInv, LInv, NEW k \in Tasks,
           SaveBoth(k) \/ SaveList(k) \/ SaveOwn(k) \/ Pull(k)
    PROVE  LInv'
<1> DEFINE m == task[k].who
           x == task[k].about
           c == task[k].copy
<1>1. m \in Members /\ x \in Members
  BY LoverType DEF LovershipStep
<1>2. UNCHANGED <<where, live, word>>
  BY DEF SaveBoth, SaveList, SaveOwn, Pull
<1>3. Knows(word, task[k].pc, m, x, c)
  BY DEF LInv, Holding
<1>4. CASE SaveBoth(k)
  <2>1. Loving(word, m, c.own) /\ Loving(word, x, c.other)
    BY <1>3, <1>4 DEF SaveBoth, At, Knows
  <2>2. Goto(k, "saveList", c.other) /\ Persist(m, c.own)
    BY <1>4 DEF SaveBoth
  <2>3. Knows(word', "saveList", m, x, c.other)
    BY <1>2, <2>1 DEF Knows
  <2>4. HoldsNext(k)
    BY <2>2, <2>3, GotoHolds DEF Steps, Bare
  <2>5. QED BY <1>1, <1>2, <2>1, <2>2, <2>4, PersistLInv
<1>5. CASE SaveList(k)
  <2>1. Loving(word, x, c)
    BY <1>3, <1>5 DEF SaveList, At, Knows
  <2>2. Ends(k) /\ Persist(x, c)
    BY <1>5 DEF SaveList
  <2>3. HoldsNext(k)
    BY <2>2, EndsHolds
  <2>4. QED BY <1>1, <1>2, <2>1, <2>2, <2>3, PersistLInv
<1>6. CASE SaveOwn(k)
  <2>1. Loving(word, m, c.list)
    BY <1>3, <1>6 DEF SaveOwn, At, Knows
  <2>2. (Goto(k, "lookUp", Blank) \/ Goto(k, "pull", Blank)) /\ Persist(m, c.list)
    BY <1>6 DEF SaveOwn
  <2>3. HoldsNext(k)
    BY <2>2, GotoHolds, BareKnows DEF Steps, Bare
  <2>4. QED BY <1>1, <1>2, <2>1, <2>2, <2>3, PersistLInv
<1>7. CASE Pull(k)
  <2> DEFINE list == Parted(row[x].loves, m)
  <2>1. Ends(k) /\ Write([row EXCEPT ![x].loves = list])
    BY <1>7 DEF Pull
  <2>2. Loving(word, x, list) /\ Offerless(list)
    BY <1>1, LovingParted DEF LInv
  <2> HIDE DEF list
  <2>3. HoldsNext(k)
    BY <2>1, EndsHolds
  <2>4. QED BY <1>1, <1>2, <2>1, <2>2, <2>3, RowTakesList
<1>8. QED BY <1>4, <1>5, <1>6, <1>7

LEMMA BreakUpLInv ==
    ASSUME IInv, LInv, NEW k \in Tasks, BreakUp(k)
    PROVE  LInv'
<1> DEFINE m == task[k].who
           x == task[k].about
           c == task[k].copy
           met == x \in online
           next == [list |-> c, met |-> met]
<1>1. m \in Members /\ x \in Members
  BY LoverType DEF LovershipStep
<1>2. Loving(word, m, c)
  BY DEF BreakUp, At, LInv, Holding, Knows
<1>3. word' = word /\ row' = row /\ UNCHANGED where
  BY DEF BreakUp
<1>4. HoldsNext(k)
  <2>1. Goto(k, "saveOwn", next)
    BY DEF BreakUp
  <2>2. met \in BOOLEAN
    OBVIOUS
  <2> HIDE DEF met
  <2>3. next = [list |-> next.list, met |-> next.met] /\ next.met \in BOOLEAN /\ next.list = c
    BY <2>2
  <2> HIDE DEF next
  <2>4. Knows(word', "saveOwn", m, x, next)
    BY <1>2, <1>3, <2>3 DEF Knows
  <2>5. QED BY <2>1, <2>4, GotoHolds DEF Steps, Bare
<1>5. ASSUME NEW y \in Members
      PROVE  live'[y].loves = live[y].loves \/ Loving(word', y, live'[y].loves)
  <2> DEFINE parted == Parted(live[y].loves, m)
  <2>1. \/ live'[y] = live[y]
        \/ y = m /\ live'[y] = [live[y] EXCEPT !.loves = c]
        \/ live'[y] = [live[y] EXCEPT !.loves = parted]
    <3>1. live' = [z \in Members |->
             CASE z = m /\ m \in task[k].seen -> [live[z] EXCEPT !.loves = c]
               [] z = x /\ x \in online ->
                       [live[z] EXCEPT !.loves = Parted(live[z].loves, m)]
               [] OTHER -> live[z]]
      BY DEF BreakUp
    <3> HIDE DEF m, x, c, met
    <3>2. QED BY <3>1
  <2>2. live[y] = [bond |-> live[y].bond, owner |-> live[y].owner, loves |-> live[y].loves]
    BY DEF IInv, Sessions, Whole
  <2>3. Loving(word, y, parted)
    BY LovingParted DEF LInv
  <2> HIDE DEF m, x, c, met, parted
  <2>4. \/ live'[y] = live[y]
        \/ y = m /\ live'[y].loves = c
        \/ live'[y].loves = parted
    BY <2>1, <2>2
  <2>5. QED BY <1>2, <1>3, <2>3, <2>4
<1>6. QED BY <1>3, <1>4, <1>5, LInvGoesOn DEF LInv, where

LEMMA LovershipStepLInv ==
    ASSUME IInv, LInv, NEW k \in Tasks, LovershipStep(k)
    PROVE  LInv'
  BY OfferDatingLInv, OfferMoreLInv, TieLoversLInv, LookLInv, SaveLovesLInv, BreakUpLInv
     DEF LovershipStep

----------------------------------------------------------------------------
\* Sessions come and go.

LEMMA BeginLoginLInv ==
    ASSUME IInv, LInv, NEW k \in Tasks, NEW m \in Members, BeginLogin(k, m)
    PROVE  LInv'
<1>1. word' = word /\ live' = live /\ row' = row /\ UNCHANGED where
  BY DEF BeginLogin
<1>2. Begin(k, "enter", m, m, row[m])
  BY DEF BeginLogin
<1>3. Knows(word', "enter", m, m, row[m])
  BY <1>1 DEF LInv, Knows
<1>4. HoldsNext(k)
  BY <1>2, <1>3, BeginHolds DEF Steps, Bare
<1>5. QED BY <1>1, <1>4, QuietLInv

LEMMA EnterLoginLInv ==
    ASSUME IInv, LInv, NEW k \in Tasks, EnterLogin(k)
    PROVE  LInv'
<1> DEFINE m == task[k].about
           c == task[k].copy
<1>1. /\ word' = word /\ row' = row /\ Ends(k) /\ online' = online \cup {m} /\ here' = here
      /\ live' = [live EXCEPT ![m] = c]
  BY DEF EnterLogin
<1>2. Loving(word, m, c.loves)
  BY DEF EnterLogin, At, LInv, Holding, Knows
<1>3. HoldsNext(k)
  BY <1>1, EndsHolds
<1>4. here' \subseteq online'
  BY <1>1 DEF LInv
<1> HIDE DEF m, c
<1>5. \A y \in Members : live'[y] = live[y] \/ (y = m /\ live'[y] = c)
  BY <1>1 DEF IInv, Sessions
<1>6. \A y \in Members : live'[y].loves = live[y].loves \/ Loving(word', y, live'[y].loves)
  BY <1>1, <1>2, <1>5
<1>7. QED BY <1>1, <1>3, <1>4, <1>6, LInvGoesOn

\* Who knows what does not depend on which sessions a task has seen.
LEMMA SignOutLInv ==
    ASSUME IInv, LInv, NEW m, SignOut(m)
    PROVE  LInv'
<1>1. /\ word' = word /\ row' = row /\ online' = online \ {m} /\ here' = here \ {m}
      /\ live' = [live EXCEPT ![m] = Blank]
      /\ task' = [k \in Tasks |-> [task[k] EXCEPT !.seen = @ \ {m}]]
  BY DEF SignOut
<1>2. here' \subseteq online'
  BY <1>1 DEF LInv
<1>3. \A y \in Members : Loving(word', y, live'[y].loves)
  <2>1. \A y \in Members : live'[y] = live[y] \/ live'[y] = Blank
    BY <1>1 DEF IInv, Sessions
  <2>2. Blank.loves = <<>>
    BY DEF Blank
  <2>3. QED BY <1>1, <2>1, <2>2, NobodyIsLoved DEF LInv
<1>4. ASSUME NEW k \in Tasks PROVE Holding(k)'
  <2>1. task[k] = [pc |-> task[k].pc, who |-> task[k].who, about |-> task[k].about,
                   copy |-> task[k].copy, seen |-> task[k].seen]
    BY DEF IInv, Handlers, TaskOK
  <2>2. task'[k] = [pc |-> task[k].pc, who |-> task[k].who, about |-> task[k].about,
                    copy |-> task[k].copy, seen |-> task[k].seen \ {m}]
    BY <1>1, <2>1
  <2>3. Holding(k)
    BY DEF LInv
  <2>4. QED BY <1>1, <2>2, <2>3 DEF Holding
<1>5. \A y \in Members : Loving(word', y, row'[y].loves) /\ Offerless(row'[y].loves)
  BY <1>1 DEF LInv
<1>6. QED BY <1>2, <1>3, <1>4, <1>5 DEF LInv

LEMMA CrashLInv ==
    ASSUME LInv, Crash
    PROVE  LInv'
<1>1. /\ word' = word /\ row' = row /\ online' = Settled /\ here' = Settled
      /\ live' = [m \in Members |-> IF m \in Settled THEN row[m] ELSE Blank]
      /\ task' = [k \in Tasks |-> NoTask]
  BY DEF Crash
<1>2. \A y \in Members : Loving(word', y, live'[y].loves)
  <2>1. \A y \in Members : live'[y] = row[y] \/ live'[y] = Blank
    BY <1>1
  <2>2. Blank.loves = <<>>
    BY DEF Blank
  <2>3. QED BY <1>1, <2>1, <2>2, NobodyIsLoved DEF LInv
<1>3. \A k \in Tasks : Holding(k)'
  BY <1>1, IdleKnows DEF Holding, NoTask, Bare
<1>4. \A y \in Members : Loving(word', y, row'[y].loves) /\ Offerless(row'[y].loves)
  BY <1>1 DEF LInv
<1>5. QED BY <1>1, <1>2, <1>3, <1>4 DEF LInv

\* Steps that touch neither an account nor a task.
LEMMA RestLInv ==
    ASSUME LInv, UNCHANGED <<live, row, task, word>>, here' \subseteq online'
    PROVE  LInv'
  BY DEF LInv, Holding

LEMMA InitLInv == Init => LInv
<1> SUFFICES ASSUME Init PROVE LInv
  OBVIOUS
<1>1. /\ online = Settled /\ here = Settled /\ live = [m \in Members |-> Blank]
      /\ row = [m \in Members |-> Blank] /\ task = [k \in Tasks |-> NoTask]
  BY DEF Init, PresenceInit
<1>2. Blank.loves = <<>>
  BY DEF Blank
<1>3. \A m \in Members : Loving(word, m, <<>>) /\ Offerless(<<>>)
  BY NobodyIsLoved
<1>4. \A k \in Tasks : Holding(k)
  BY <1>1, IdleKnows DEF Holding, NoTask, Bare
<1>5. QED BY <1>1, <1>2, <1>3, <1>4 DEF LInv

LEMMA StepLInv == IInv /\ LInv /\ [Next]_vars => LInv'
<1> SUFFICES ASSUME IInv, LInv, [Next]_vars PROVE LInv'
  OBVIOUS
<1>1. CASE Tick
  BY <1>1, RestLInv DEF Tick, where, LInv
<1>2. CASE Crash
  BY <1>2, CrashLInv
<1>3. ASSUME NEW m \in Members, MemberMove(m) PROVE LInv'
  <2>1. CASE SignOut(m)
    BY <2>1, SignOutLInv
  <2>2. CASE EnterRoom(m) \/ LeaveRoom(m)
    BY <2>2, RestLInv DEF EnterRoom, LeaveRoom, LInv
  <2>3. QED BY <1>3, <2>1, <2>2 DEF MemberMove
<1>4. ASSUME NEW k \in Tasks, Request(k) PROVE LInv'
  BY <1>4, BeginLoginLInv, OwnershipRequestLInv, LovershipRequestLInv, NpcRequestLInv,
     BeginNameOwnerLInv DEF Request
<1>5. ASSUME NEW k \in Tasks, TaskStep(k) PROVE LInv'
  BY <1>5, EnterLoginLInv, OwnershipStepLInv, LovershipStepLInv DEF TaskStep
<1>6. CASE UNCHANGED vars
  BY <1>6, RestLInv DEF vars, where, LInv
<1>7. QED BY <1>1, <1>2, <1>3, <1>4, <1>5, <1>6 DEF Next

----------------------------------------------------------------------------
\* Theorems.

\* The inductive invariant of lovership, on top of that of ownership.
THEOREM LoversInvariance == Spec => []LInv
<1>1. QED BY InitLInv, StepLInv, Invariance, PTL DEF Spec

\* Nobody is the lover, the fiance or the spouse of a member that has not agreed to
\* each stage, in any session and any row: lists that are written back stale and
\* ties put at stale indices (apply_mutual_lover in relations/mod.rs) put an entry
\* in the wrong place at worst.
THEOREM LoversConsent == Spec => []ConsentOfLovers
<1>1. LInv => ConsentOfLovers
  <2> SUFFICES ASSUME LInv, NEW m \in Members, NEW list \in ListsOf(m),
                      NEW i \in DOMAIN list, IsTie(list[i]),
                      NEW s \in Through(list[i].stage)
               PROVE  Agreed(m, list[i].with, s)
    BY DEF ConsentOfLovers
  <2>1. Loving(word, m, list)
    BY DEF LInv, ListsOf
  <2>2. QED BY <2>1, AgreedIsAgreed DEF Loving, Sound
<1>2. QED BY <1>1, LoversInvariance, PTL

\* No row ever holds an offer: every write of a list cleans it (clean_lovership), or
\* takes entries out of the row that is there (pull_lovership_member).
THEOREM OffersExpire == Spec => []OffersLapse
<1>1. LInv => OffersLapse
  BY DEF LInv, Offerless, NoOffer, OffersLapse
<1>2. QED BY <1>1, LoversInvariance, PTL

\* Every session, row and copy on its way between them is an account, and what a
\* handler carries is what its step needs.
THEOREM RelationsTyped == Spec => []TypeOK
<1>1. ASSUME IInv, LInv PROVE TypeOK
  <2>1. \A m \in Members : live[m] \in Accounts /\ row[m] \in Accounts
    <3>1. ASSUME NEW r, NEW m, Whole(r), Honest(m, r), Loving(word, m, r.loves)
          PROVE  r \in Accounts
      BY <3>1 DEF Whole, Honest, Loving, Accounts
    <3>2. QED BY <1>1, <3>1 DEF IInv, Sessions, Stored, LInv
  <2>2. live \in [Members -> Accounts] /\ row \in [Members -> Accounts]
    BY <1>1, <2>1 DEF IInv, Sessions, Stored
  <2>3. ASSUME NEW k \in Tasks, task[k] # NoTask
        PROVE  /\ task[k].pc \in Steps
               /\ {task[k].who, task[k].about} \subseteq Members
               /\ task[k].seen \subseteq online
               /\ task[k].copy \in Carried(task[k].pc)
    <3> DEFINE pc == task[k].pc
               c == task[k].copy
    <3>1. TaskOK(k) /\ Holding(k)
      BY <1>1 DEF IInv, Handlers, LInv
    <3>2. pc \in Steps /\ task[k].seen \subseteq online /\ {task[k].who, task[k].about} \subseteq Members
      BY <2>3, <3>1 DEF TaskOK, Holding, Steps
    <3>3. Knows(word, pc, task[k].who, task[k].about, c)
      BY <3>1 DEF Holding
    <3>4. CASE pc = "enter"
      <4>1. Whole(c) /\ Honest(task[k].about, c) /\ Loving(word, task[k].about, c.loves)
        BY <3>1, <3>3, <3>4 DEF TaskOK, Knows
      <4> HIDE DEF c
      <4>2. c \in Accounts
        BY <4>1 DEF Whole, Honest, Loving, Accounts
      <4>3. QED BY <3>2, <3>4, <4>2 DEF Carried, c
    <3>5. CASE pc \in {"save", "notes"}
      <4>1. Honest(task[k].about, c) /\ c = [bond |-> c.bond, owner |-> c.owner]
        BY <3>1, <3>3, <3>5 DEF TaskOK, Knows
      <4> HIDE DEF c
      <4>2. c \in [bond : Bonds, owner : Owners]
        BY <4>1 DEF Honest
      <4>3. QED BY <3>2, <3>5, <4>2 DEF Carried, c
    <3>6. CASE pc \in {"engage", "wed", "tie"}
      BY <3>2, <3>3, <3>6 DEF Carried, Knows
    <3>7. CASE pc = "saveBoth"
      <4>1. c = [own |-> c.own, other |-> c.other] /\ c.own \in Seq(Entries) /\ c.other \in Seq(Entries)
        BY <3>3, <3>7 DEF Knows, Loving
      <4> HIDE DEF c
      <4>2. c \in [own : Seq(Entries), other : Seq(Entries)]
        BY <4>1
      <4>3. QED BY <3>2, <3>7, <4>2 DEF Carried, c
    <3>8. CASE pc \in {"part", "saveList"}
      BY <3>2, <3>3, <3>8 DEF Carried, Knows, Loving
    <3>9. CASE pc = "saveOwn"
      <4>1. c = [list |-> c.list, met |-> c.met] /\ c.list \in Seq(Entries) /\ c.met \in BOOLEAN
        BY <3>3, <3>9 DEF Knows, Loving
      <4> HIDE DEF c
      <4>2. c \in [list : Seq(Entries), met : BOOLEAN]
        BY <4>1
      <4>3. QED BY <3>2, <3>9, <4>2 DEF Carried, c
    <3>10. CASE pc \in Bare
      <4>1. c = Blank
        BY <3>1, <3>10 DEF Holding
      <4>2. QED BY <3>2, <3>10, <4>1 DEF Carried, Bare
    <3>11. CASE pc = "name"
      BY <3>1, <3>2, <3>11 DEF TaskOK, Carried
    <3>12. QED BY <3>2, <3>4, <3>5, <3>6, <3>7, <3>8, <3>9, <3>10, <3>11 DEF Steps, Bare
  <2>4. QED BY <1>1, <2>2, <2>3 DEF IInv, LInv, TypeOK
<1>2. QED BY <1>1, LoversInvariance, Invariance, PTL
=============================================================================
