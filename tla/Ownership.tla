------------------------------ MODULE Ownership ------------------------------
(***************************************************************************)
(* Ownership between members: a trial is offered and accepted, after a     *)
(* delay its end is offered and accepted, which makes it a collar, and     *)
(* either party may end it (handle_account_ownership in relations/mod.rs). *)
(* A member may also have any name shown as its owner's, until the next    *)
(* step of ownership (handle_account_update in account/mod.rs).            *)
(***************************************************************************)
EXTENDS Presence

CONSTANTS
    Extreme,         \* members at difficulty level 3
    OwnershipDelay   \* OWNERSHIP_DELAY_MS, in ticks

ASSUME OwnershipAssumption ==
    /\ Extreme \subseteq Members
    /\ OwnershipDelay \in Nat \ {0}

----------------------------------------------------------------------------

Offered(x) == [Free EXCEPT !.stage = "offer", !.by = x]

Bond(stage, x) == [Free EXCEPT !.stage = stage, !.by = x, !.start = now]

\* The MemberNumber of an Ownership object, if it has one.
MemberOf(bond) == IF bond.stage \in {"trial", "collar"} THEN bond.by ELSE NoMember

Ripe(bond) == bond.start + OwnershipDelay <= now

\* The two fields of ownership in f[m] become those of copy.
Owned(f, m, copy) == [f EXCEPT ![m].bond = copy.bond, ![m].owner = copy.owner]

\* get_by_socket_mut finds the session of x the task has seen, or nothing is
\* written.
WriteOwned(k, x, copy) ==
    live' = IF x \in task[k].seen THEN Owned(live, x, copy) ELSE live

----------------------------------------------------------------------------
\* Break: the submissive member goes. It is decided and written under one lock.

MayBreak(m) ==
    LET bond == live[m].bond
    IN  /\ bond.stage \in {"trial", "collar"}
        /\ bond.stage = "trial" \/ (Ripe(bond) /\ m \notin Extreme)

Break_KeepsOwner(k, m) ==
    /\ Asked("Break", m, m)
    /\ m \in online
    /\ MayBreak(m)
    /\ live' = [live EXCEPT ![m].bond = Free]
    /\ Begin(k, "clear", m, m, Blank)
    /\ UNCHANGED <<setting, where, row, word>>

Break(k, m) ==
    /\ Asked("Break", m, m)
    /\ m \in online
    /\ MayBreak(m)
    /\ live' = Owned(live, m, Blank)
    /\ Begin(k, "clear", m, m, Blank)
    /\ UNCHANGED <<setting, where, row, word>>

----------------------------------------------------------------------------
\* Propose: the dominant member m offers x a trial or the end of its trial.

MayOfferTrial(m, x) == MemberOf(live[x].bond) = NoMember /\ m # x

MayOfferEnd(m, x) ==
    LET bond == live[x].bond
    IN  MemberOf(bond) = m /\ bond.ending = NoMember /\ bond.stage = "trial" /\ Ripe(bond)

BeginPropose(k, m, x) ==
    /\ Asked("Propose", m, x)
    /\ Together(m, x)
    /\ MemberOf(live[m].bond) # x
    /\ m \notin BlackList[x]
    /\ live[x].owner = NoMember
    /\ \/ MayOfferTrial(m, x) /\ Begin(k, "offer", m, x, Blank)
       \/ MayOfferEnd(m, x) /\ Begin(k, "offerEnd", m, x, Blank)
    /\ UNCHANGED <<setting, where, live, row, word>>

\* Whatever the session holds by now is replaced by the offer.
OfferTrial(k) ==
    /\ At(k, "offer")
    /\ WriteOwned(k, task[k].about, [bond |-> Offered(task[k].who), owner |-> NoMember])
    /\ Says("offerTrial", task[k].who, task[k].about)
    /\ Ends(k)
    /\ UNCHANGED <<setting, where, row>>

\* The offer is added to whatever object the session holds by now.
OfferEnd(k) ==
    LET x == task[k].about
    IN  /\ At(k, "offerEnd")
        /\ IF live[x].bond = Free THEN UNCHANGED live
           ELSE WriteOwned(k, x, [bond  |-> [live[x].bond EXCEPT !.ending = task[k].who],
                                  owner |-> live[x].owner])
        /\ Says("offerEnd", task[k].who, x)
        /\ Ends(k)
        /\ UNCHANGED <<setting, where, row>>

----------------------------------------------------------------------------
\* Accept: the submissive member m takes what x has offered.

MayStart_AnyOffer(m, x) == live[m].bond.stage = "offer"

MayStart(m, x) == live[m].bond.stage = "offer" /\ live[m].bond.by = x

MayCollar(m, x) == live[m].bond.stage = "trial" /\ live[m].bond.ending = x

BeginAccept(k, m, x) ==
    /\ Asked("Accept", m, x)
    /\ Together(m, x)
    /\ MemberOf(live[m].bond) \in {NoMember, x}
    /\ m \notin BlackList[x]
    /\ \/ MayStart(m, x) /\ Begin(k, "trial", x, m, Blank)
       \/ MayCollar(m, x) /\ Begin(k, "collar", x, m, Blank)
    /\ UNCHANGED <<setting, where, live, row, word>>

\* The new bond replaces what the session holds; the row follows.
Tie(k) ==
    LET x   == task[k].who
        m   == task[k].about
        pc  == task[k].pc
        new == [bond |-> Bond(pc, x), owner |-> IF pc = "collar" THEN x ELSE NoMember]
    IN  /\ pc \in {"trial", "collar"}
        /\ WriteOwned(k, m, new)
        /\ Says(IF pc = "trial" THEN "acceptTrial" ELSE "acceptEnd", m, x)
        /\ Goto(k, "save", new)
        /\ UNCHANGED <<setting, where, row>>

\* Db::update_fields
Save(k) ==
    /\ At(k, "save")
    /\ Write(Owned(row, task[k].about, task[k].copy))
    /\ Ends(k)
    /\ UNCHANGED <<setting, where, live, word>>

----------------------------------------------------------------------------
\* UpdateNotes: the dominant member m writes notes into the collar of x; its copy
\* of the bond goes to the session, and with its copy of the owner to the row.

BeginNotes(k, m, x) ==
    /\ Asked("UpdateNotes", m, x)
    /\ Together(m, x)
    /\ live[x].bond.stage = "collar" /\ live[x].bond.by = m
    /\ Begin(k, "notes", m, x, [bond |-> live[x].bond, owner |-> live[x].owner])
    /\ UNCHANGED <<setting, where, live, row, word>>

WriteNotes(k) ==
    LET x == task[k].about
    IN  /\ At(k, "notes")
        /\ WriteOwned(k, x, [bond |-> task[k].copy.bond, owner |-> live[x].owner])
        /\ Goto(k, "save", task[k].copy)
        /\ UNCHANGED <<setting, where, row, word>>

----------------------------------------------------------------------------
\* Release: the dominant member m lets x go.

BeginRelease(k, m, x) ==
    /\ Asked("Release", m, x)
    /\ Together(m, x)
    /\ MemberOf(live[x].bond) = m
    /\ Begin(k, "release", m, x, Blank)
    /\ UNCHANGED <<setting, where, live, row, word>>

Release(k) ==
    /\ At(k, "release")
    /\ WriteOwned(k, task[k].about, Blank)
    /\ Goto(k, "clear", Blank)
    /\ UNCHANGED <<setting, where, row, word>>

\* clear_ownership_db
Clear(k) ==
    /\ At(k, "clear")
    /\ Write(Owned(row, task[k].about, Blank))
    /\ Ends(k)
    /\ UNCHANGED <<setting, where, live, word>>

\* release_offline: x is not in the room, so its row decides.
BeginReleaseAway(k, m, x) ==
    /\ Asked("Release", m, x)
    /\ m \in here /\ x \notin here
    /\ Begin(k, "find", m, x, Blank)
    /\ UNCHANGED <<setting, where, live, row, word>>

FindOwned(k) ==
    /\ At(k, "find")
    /\ \/ MemberOf(row[task[k].about].bond) = task[k].who /\ Goto(k, "clearAway", Blank)
       \/ Ends(k)
    /\ UNCHANGED <<setting, where, live, row, word>>

ClearAway(k) ==
    /\ At(k, "clearAway")
    /\ Write(Owned(row, task[k].about, Blank))
    /\ Goto(k, "unseat", Blank)
    /\ UNCHANGED <<setting, where, live, word>>

\* Whatever session x has by now, and whatever bond is in it.
Unseat(k) ==
    /\ At(k, "unseat")
    /\ live' = Owned(live, task[k].about, Blank)
    /\ Ends(k)
    /\ UNCHANGED <<setting, where, row, word>>

----------------------------------------------------------------------------
\* The Owner of an AccountUpdate, which is not among IMMUTABLE_KEYS: it goes to
\* the row as it is, and to the session at the next login.

BeginNameOwner(k, m, x) ==
    /\ Asked("NameOwner", m, x)
    /\ m \in online
    /\ Says("name", m, x)
    /\ Begin(k, "name", m, m, x)
    /\ UNCHANGED <<setting, where, live, row>>

NameOwner(k) ==
    /\ At(k, "name")
    /\ Write([row EXCEPT ![task[k].about].owner = task[k].copy])
    /\ Ends(k)
    /\ UNCHANGED <<setting, where, live, word>>

----------------------------------------------------------------------------

OwnershipRequest(k, m, x) ==
    \/ m = x /\ Break(k, m)
    \/ BeginPropose(k, m, x)
    \/ BeginAccept(k, m, x)
    \/ BeginNotes(k, m, x)
    \/ BeginRelease(k, m, x) \/ BeginReleaseAway(k, m, x)

OwnershipStep(k) ==
    \/ OfferTrial(k) \/ OfferEnd(k)
    \/ Tie(k) \/ Save(k)
    \/ WriteNotes(k)
    \/ Release(k) \/ Clear(k)
    \/ FindOwned(k) \/ ClearAway(k) \/ Unseat(k)
    \/ NameOwner(k)

----------------------------------------------------------------------------
\* Properties.

\* The copies of the bond of m that are in the session, in the row and in tasks.
CopiesOf(m) ==
    {live[m], row[m]} \cup
    {task[k].copy : k \in {l \in Tasks : task[l].about = m
                                         /\ task[l].pc \in {"enter", "save", "notes"}}}

\* Both have agreed to every bond there is: nobody is on trial with, or collared
\* by, a member that has not offered it, and nobody without having accepted,
\* however the copies overtake and overwrite each other.
Consent(m, bond) ==
    LET x == bond.by
    IN  /\ bond.stage \in {"trial", "collar"} =>
              {<<"offerTrial", x, m>>, <<"acceptTrial", m, x>>} \subseteq word
        /\ bond.stage = "collar" =>
              {<<"offerEnd", x, m>>, <<"acceptEnd", m, x>>} \subseteq word

ConsentOfBoth == \A m \in Members : \A copy \in CopiesOf(m) : Consent(m, copy.bond)

\* The owner that is shown is the one who holds the collar, although the two
\* fields are written from different copies, or a name that the member itself has
\* set by an AccountUpdate: no handler of ownership leaves a name behind.
OwnerHoldsCollar ==
    \A m \in Members : \A copy \in CopiesOf(m) :
        copy.owner # NoMember =>
            \/ copy.bond.stage = "collar" /\ copy.bond.by = copy.owner
            \/ <<"name", m, copy.owner>> \in word
=============================================================================
