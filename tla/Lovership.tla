------------------------------ MODULE Lovership ------------------------------
(***************************************************************************)
(* Lovership between members: dating, engagement and wedding are offered   *)
(* and accepted, each after a delay, and either party may break it up      *)
(* (handle_account_lovership in relations/mod.rs); a member may also take  *)
(* a lover that is no member (handle_account_update in account/mod.rs).    *)
(***************************************************************************)
EXTENDS Presence, Lists, SequencesExt

CONSTANTS
    Npcs,             \* names of lovers that are no members
    MostLovers,       \* 5
    LovershipDelay    \* LOVERSHIP_DELAY_MS, in ticks

ASSUME LovershipAssumption ==
    /\ Npcs \cap Members = {}
    /\ MostLovers \in Nat \ {0}
    /\ LovershipDelay \in Nat \ {0}

----------------------------------------------------------------------------
\* An entry of the list: an offer to date (BeginDatingOfferedByMemberNumber only),
\* a tie of stage 0 to 2 to a member, or the name of an NPC. engage and wed are
\* BeginEngagementOfferedByMemberNumber and BeginWeddingOfferedByMemberNumber.
Entry(x, stage) == [with |-> x, stage |-> stage, start |-> now,
                    engage |-> NoMember, wed |-> NoMember]

Untimed(x, stage) == [Entry(x, stage) EXCEPT !.start = 0]

TieStages == {"dating", "engaged", "married"}

IsTie(entry) == entry.stage \in TieStages

Due(entry) == entry.start + LovershipDelay <= now

\* lover_index: like position(), the first entry that passes the test, or 0.
LoverIndex(list, x) == SelectInSeq(list, LAMBDA e : e.with = x /\ e.stage # "npc")

Replaced(list, i, entry) ==
    IF i \in DOMAIN list THEN [list EXCEPT ![i] = entry] ELSE Append(list, entry)

Parted(list, x) == Selected(list, {e \in ToSet(list) : ~ (IsTie(e) /\ e.with = x)})

Clean_KeepsOffers(list) == list

\* clean_lovership: what goes to the database holds no offer.
Clean(list) ==
    LET kept == Selected(list, {e \in ToSet(list) : e.stage # "offered"})
    IN  [i \in DOMAIN kept |-> [kept[i] EXCEPT !.engage = NoMember, !.wed = NoMember]]

\* persist_lovership_clean
Persist(m, list) == Write([row EXCEPT ![m].loves = Clean(list)])

----------------------------------------------------------------------------
\* Propose: m offers x to date, to be engaged or to marry.

MayCourt(m, x) ==
    /\ Together(m, x) /\ m # x
    /\ m \notin BlackList[x]
    /\ Len(live[m].loves) < MostLovers \/ LoverIndex(live[m].loves, x) # 0

BeginOfferDating(k, m, x) ==
    /\ Asked("LoverPropose", m, x)
    /\ MayCourt(m, x)
    /\ Len(live[x].loves) < MostLovers
    /\ LoverIndex(live[x].loves, m) = 0
    /\ Begin(k, "date", m, x, Blank)
    /\ UNCHANGED <<setting, where, live, row, word>>

\* The offer is pushed to whatever list the session holds by now.
OfferDating(k) ==
    LET x == task[k].about
    IN  /\ At(k, "date")
        /\ live' = IF x \in task[k].seen
                   THEN [live EXCEPT ![x].loves = Append(@, Untimed(task[k].who, "offered"))]
                   ELSE live
        /\ Says("date", task[k].who, x)
        /\ Ends(k)
        /\ UNCHANGED <<setting, where, row>>

BeginOfferMore(k, m, x) ==
    /\ Asked("LoverPropose", m, x)
    /\ MayCourt(m, x)
    /\ LET i == LoverIndex(live[x].loves, m)
           entry == live[x].loves[i]
       IN  /\ i # 0
           /\ Due(entry)
           /\ \/ entry.stage = "dating" /\ entry.engage = NoMember
                 /\ Begin(k, "engage", m, x, i)
              \/ entry.stage = "engaged" /\ entry.wed = NoMember
                 /\ Begin(k, "wed", m, x, i)
    /\ UNCHANGED <<setting, where, live, row, word>>

\* The offer is written to the entry that is at the index by now, if there is one.
OfferMore(k) ==
    LET x == task[k].about
        i == task[k].copy
    IN  /\ task[k].pc \in {"engage", "wed"}
        /\ live' = IF x \in task[k].seen /\ i \in DOMAIN live[x].loves
                   THEN IF At(k, "engage")
                        THEN [live EXCEPT ![x].loves[i].engage = task[k].who]
                        ELSE [live EXCEPT ![x].loves[i].wed = task[k].who]
                   ELSE live
        /\ Says(task[k].pc, task[k].who, x)
        /\ Ends(k)
        /\ UNCHANGED <<setting, where, row>>

----------------------------------------------------------------------------
\* Accept: m takes what x has offered, and the list of each gets the same tie.

\* The stage that m and x reach when m accepts what is in its entry about x.
NextStage_Unasked(entry, x) ==
    CASE entry.stage = "offered" -> "dating"
      [] entry.stage = "dating" -> "engaged"
      [] entry.stage = "engaged" -> "married"
      [] OTHER -> "none"

NextStage(entry, x) ==
    CASE entry.stage = "offered" -> "dating"
      [] entry.stage = "dating" /\ entry.engage = x -> "engaged"
      [] entry.stage = "engaged" /\ entry.wed = x -> "married"
      [] OTHER -> "none"

BeginAcceptLover(k, m, x) ==
    /\ Asked("LoverAccept", m, x)
    /\ Together(m, x) /\ m # x
    /\ m \notin BlackList[x]
    /\ Len(live[m].loves) <= MostLovers
    /\ LET i     == LoverIndex(live[m].loves, x)
           j     == LoverIndex(live[x].loves, m)
           stage == NextStage(live[m].loves[i], x)
       IN  /\ i # 0
           /\ stage # "none"
           /\ stage = "dating" => Len(live[x].loves) < MostLovers \/ j # 0
           /\ Begin(k, "tie", m, x, [stage |-> stage, i |-> i, j |-> j])
    /\ UNCHANGED <<setting, where, live, row, word>>

\* apply_mutual_lover, the locked part: both lists, at the indices of before.
TieLovers(k) ==
    LET m == task[k].who
        x == task[k].about
        c == task[k].copy
        Tied(y, list) ==
            IF y = m THEN Replaced(list, c.i, Entry(x, c.stage))
                     ELSE Replaced(list, c.j, Entry(m, c.stage))
    IN  /\ At(k, "tie")
        /\ live' = [y \in Members |->
                       IF y \in task[k].seen
                       THEN [live[y] EXCEPT !.loves = Tied(y, @)] ELSE live[y]]
        /\ Says(c.stage, m, x)
        /\ task' = [task EXCEPT ![k].pc = "look", ![k].copy = Blank]
        /\ UNCHANGED <<setting, where, row>>

\* unwrap_or_default: a session that has gone since counts as an empty list.
Seen(k, y) == IF y \in task[k].seen THEN live[y].loves ELSE <<>>

LookAtBoth(k) ==
    /\ At(k, "look")
    /\ Goto(k, "saveBoth", [own |-> Seen(k, task[k].who), other |-> Seen(k, task[k].about)])
    /\ UNCHANGED <<setting, where, live, row, word>>

SaveBoth(k) ==
    /\ At(k, "saveBoth")
    /\ Persist(task[k].who, task[k].copy.own)
    /\ Goto(k, "saveList", task[k].copy.other)
    /\ UNCHANGED <<setting, where, live, word>>

SaveList(k) ==
    /\ At(k, "saveList")
    /\ Persist(task[k].about, task[k].copy)
    /\ Ends(k)
    /\ UNCHANGED <<setting, where, live, word>>

----------------------------------------------------------------------------
\* handle_lover_break: m breaks up with x.

BeginBreakUp(k, m, x) ==
    /\ Asked("LoverBreak", m, x)
    /\ m \in online
    /\ LET i     == LoverIndex(live[m].loves, x)
           entry == live[m].loves[i]
       IN  /\ i # 0
           /\ IsTie(entry)
           /\ entry.stage = "married" => Due(entry)
           /\ Begin(k, "part", m, x, RemoveAt(live[m].loves, i))
    /\ UNCHANGED <<setting, where, live, row, word>>

\* The list of m is replaced by the copy of before; that of x loses its tie.
BreakUp(k) ==
    LET m == task[k].who
        x == task[k].about
    IN  /\ At(k, "part")
        /\ live' = [y \in Members |->
                       CASE y = m /\ m \in task[k].seen ->
                                 [live[y] EXCEPT !.loves = task[k].copy]
                         [] y = x /\ x \in online ->
                                 [live[y] EXCEPT !.loves = Parted(@, m)]
                         [] OTHER -> live[y]]
        /\ Goto(k, "saveOwn", [list |-> task[k].copy, met |-> x \in online])
        /\ UNCHANGED <<setting, where, row, word>>

SaveOwn(k) ==
    /\ At(k, "saveOwn")
    /\ Persist(task[k].who, task[k].copy.list)
    /\ Goto(k, IF task[k].copy.met THEN "lookUp" ELSE "pull", Blank)
    /\ UNCHANGED <<setting, where, live, word>>

\* An x that was online when they parted and is no more counts as an empty list.
LookUp(k) ==
    LET x == task[k].about
    IN  /\ At(k, "lookUp")
        /\ Goto(k, "saveList", IF x \in online THEN live[x].loves ELSE <<>>)
        /\ UNCHANGED <<setting, where, live, row, word>>

\* pull_lovership_member: x was offline, its row loses its tie.
Pull(k) ==
    LET x == task[k].about
    IN  /\ At(k, "pull")
        /\ Write([row EXCEPT ![x].loves = Parted(@, task[k].who)])
        /\ Ends(k)
        /\ UNCHANGED <<setting, where, live, word>>

\* Node's splice(findIndex(...), 1): a name that is not there removes the last.
BreakUpNpc(k, m, n) ==
    LET list == live[m].loves
        i    == SelectInSeq(list, LAMBDA e : e.with = n /\ e.stage # "offered")
        new  == IF i # 0 THEN RemoveAt(list, i) ELSE IF list = <<>> THEN list ELSE Front(list)
    IN  /\ Asked("NpcBreak", m, n)
        /\ m \in online
        /\ live' = [live EXCEPT ![m].loves = new]
        /\ Begin(k, "saveList", m, m, new)
        /\ UNCHANGED <<setting, where, row, word>>

\* The Lover of an AccountUpdate: the session's own list is cleaned here, and saved
\* unless the rest of the update is a single field whose write is delayed.
TakeNpc(k, m, n) ==
    LET list == live[m].loves
        new  == Clean(Append(list, Untimed(n, "npc")))
    IN  /\ Asked("NpcTake", m, n)
        /\ m \in online
        /\ Len(list) < MostLovers
        /\ SelectInSeq(list, LAMBDA e : e.with = n /\ e.stage # "offered") = 0
        /\ live' = [live EXCEPT ![m].loves = new]
        /\ \/ Begin(k, "saveList", m, m, new)
           \/ task[k] = NoTask /\ UNCHANGED task
        /\ UNCHANGED <<setting, where, row, word>>

----------------------------------------------------------------------------

LovershipRequest(k, m, x) ==
    \/ BeginOfferDating(k, m, x) \/ BeginOfferMore(k, m, x)
    \/ BeginAcceptLover(k, m, x)
    \/ BeginBreakUp(k, m, x)

NpcRequest(k, m, n) == BreakUpNpc(k, m, n) \/ TakeNpc(k, m, n)

LovershipStep(k) ==
    \/ OfferDating(k) \/ OfferMore(k)
    \/ TieLovers(k) \/ LookAtBoth(k) \/ SaveBoth(k) \/ SaveList(k)
    \/ BreakUp(k) \/ SaveOwn(k) \/ LookUp(k) \/ Pull(k)

----------------------------------------------------------------------------
\* Properties.

ListsOf(m) == {live[m].loves, row[m].loves}

\* The word that leads to a stage, and the stages that a tie has gone through.
OfferFor == [dating |-> "date", engaged |-> "engage", married |-> "wed"]

Through(stage) ==
    CASE stage = "dating" -> {"dating"}
      [] stage = "engaged" -> {"dating", "engaged"}
      [] stage = "married" -> TieStages

\* Each step of every tie that a session or a row holds was offered by one of the
\* two and accepted by the other: stale lists and stale indices make nobody the
\* lover, the fiance or the spouse of a member that has not agreed.
Agreed(m, x, stage) ==
    \/ {<<OfferFor[stage], m, x>>, <<stage, x, m>>} \subseteq word
    \/ {<<OfferFor[stage], x, m>>, <<stage, m, x>>} \subseteq word

ConsentOfLovers ==
    \A m \in Members : \A list \in ListsOf(m) : \A i \in DOMAIN list :
        IsTie(list[i]) => \A s \in Through(list[i].stage) : Agreed(m, list[i].with, s)

\* An offer lives in a session only: a row never holds one, so none outlives the
\* session of the member it was made to or a restart of the server.
OffersLapse ==
    \A m \in Members : \A i \in DOMAIN row[m].loves :
        LET entry == row[m].loves[i]
        IN  entry.stage # "offered" /\ entry.engage = NoMember /\ entry.wed = NoMember

\* "offline: pull from DB below" (relations/mod.rs:1007): the row of a partner
\* that is left loses its tie to the one who leaves it, and no other.
TiesOf(list) == {list[i].with : i \in {j \in DOMAIN list : IsTie(list[j])}}

PartnerKeepsOthers ==
    [][\A k \in Tasks : At(k, "saveList") \/ At(k, "pull") =>
          LET x == task[k].about
          IN  TiesOf(row[x].loves) \ {task[k].who} \subseteq TiesOf(row'[x].loves)]_vars
=============================================================================
