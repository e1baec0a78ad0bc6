---------------------------- MODULE MCRelations ----------------------------
(***************************************************************************)
(* Instances of Relations for TLC: two members court a third one, who      *)
(* comes and goes. Everything at once is out of reach, so each behaviour   *)
(* plays one of several parts, chosen at its start: ownership and          *)
(* lovership, which write different fields, are never mixed.               *)
(***************************************************************************)
EXTENDS Relations

CONSTANTS d1, d2, s1, n1

Doms == {d1, d2}

Play(requests, faults, until) ==
    [requests |-> requests \cup {<<"Login", s1, s1>>}, faults |-> faults, until |-> until]

Goes == {<<"SignOut", s1, s1>>}

Owning(doms) ==
    Goes \cup {<<"LeaveRoom", s1, s1>>, <<"Break", s1, s1>>}
    \cup ({"Propose", "Release", "UpdateNotes"} \X doms \X {s1})
    \cup ({"Accept"} \X {s1} \X doms)

Courting(doms) ==
    ({"LoverPropose"} \X doms \X {s1}) \cup ({"LoverAccept"} \X {s1} \X doms)

Leaving(m, x) == {<<"LoverBreak", m, x>>}

Npc(actions) == actions \X {s1} \X {n1}

Naming == {"NameOwner"} \X {s1} \X {d2, n1, NoMember}

\* Two who own in turn, or are rivals up to the engagement; one who owns, with every
\* fault; one who courts while the lists grow and shrink, who breaks up as well,
\* while the partner comes and goes or the server stops; one who is left and
\* one who weds, while writes fail.
Parts == {
    Play(Owning(Doms) \ Goes, {}, 1),
    Play(Courting(Doms), {}, 1),
    Play(Owning({d1}), {"crash", "write"}, 2),
    Play((Owning({d1}) \ Goes) \cup Naming, {"crash"}, 1),
    Play(Courting({d1}) \cup Npc({"NpcTake", "NpcBreak"}), {}, 1),
    Play(Courting({d1}) \cup Npc({"NpcTake"}) \cup Leaving(d1, s1), {}, 1),
    Play(Courting({d1}) \cup Leaving(d1, s1) \cup Goes, {"crash"}, 1),
    Play(Courting({d1}) \cup Leaving(s1, d1), {"write"}, 1),
    Play(Courting({d1}), {"write"}, 2)}

\* s1 loves both, and one of them leaves it.
Left == {Play(Courting(Doms) \cup Leaving(d1, s1) \cup Goes, {}, 0)}

NoBlackList == [m \in Members |-> {}]

DomTaskSymmetry == Permutations(Doms) \cup Permutations(Tasks)
=============================================================================
