----------------------------- MODULE MCAccounts -----------------------------
(***************************************************************************)
(* Instances of Accounts for TLC. Each behaviour plays one of several      *)
(* parts, chosen at its start.                                             *)
(***************************************************************************)
EXTENDS Accounts

CONSTANTS a1, a2, s1, s2, h1, h2

Play(base, logins, handlers, sent, versions, codes, faults) ==
    [backend |-> base, logins |-> logins, handlers |-> handlers, updates |-> sent,
     versions |-> versions, codes |-> codes, faults |-> faults]

Alone == {{"Appearance"}, {"Game"}}

Mixed == {{"Appearance", "Title"}, {"Appearance", "Password"}}

\* One whose updates, flushes and sign-offs cross; two whose flushes do, while
\* writes fail and the server is shut down; one whose writes cross while it crashes;
\* one whose password is reset twice by two tasks while it goes on.
Parts == {
    Play("sqlite", {s1, s2} \X {a1}, {h1}, Alone \cup Mixed, 3, 0, {}),
    Play("mongo", {<<s1, a1>>, <<s2, a2>>}, {h1}, Alone \cup Mixed, 2, 0,
         {"shutdown", "write"}),
    Play("sqlite", {<<s1, a1>>}, {h1, h2},
         {{"Title", "MapData"}, {"MapData"}}, 2, 0, {"write", "crash"}),
    Play("sqlite", {<<s1, a1>>}, {h1, h2}, {{"Title", "Password"}}, 2, 2, {})}

Boxes == {{a1}, {a1, a2}}
=============================================================================
