------------------------------- MODULE Updates -------------------------------
(***************************************************************************)
(* Account updates and delayed writes (account/mod.rs, chat/mod.rs, the    *)
(* disconnect cleanup of handlers.rs, the flush tasks of main.rs).         *)
(*                                                                         *)
(* An update of many fields is written at once; Appearance, Skill or Game  *)
(* alone waits in the session for the flush that runs every five minutes,  *)
(* for the end of the session or for the shutdown. What is written is      *)
(* taken under the lock of the world and written after it.                 *)
(*                                                                         *)
(* Only what reaches the database is kept: the copies of the fields in the *)
(* session, the checks of the room before ChatRoomCharacterUpdate and the  *)
(* lovers without an account that AccountUpdate can add are left out.      *)
(***************************************************************************)
EXTENDS Store

CONSTANTS
    Sockets,
    Plays,        \* what may happen in a behaviour (bound)
    Delayable,    \* Appearance, Skill and Game
    Immutable,    \* fields AccountUpdate never takes from a client
    Periodic, Shutdown,   \* the two tasks that flush
    NoSocket

ASSUME UpdatesAssumption ==
    /\ Delayable \subseteq Fields /\ Immutable \subseteq Fields
    /\ "Appearance" \in Delayable \ Immutable
    /\ {Periodic, Shutdown} \subseteq Writers
    /\ Periodic # Shutdown
    /\ NoSocket \notin Sockets
    /\ "MapData" \notin Fields
    /\ \A p \in Plays : \A sent \in p.updates : sent \subseteq Fields \cup {"MapData"}

VARIABLES
    play,       \* what may happen in this behaviour (bound)
    version,    \* number of the newest value accepted from a client
    session,    \* the account of a socket's session
    delayed,    \* delayed_appearance, delayed_skill and delayed_game
    batch,      \* what a flush has taken and not written yet
    stopping,   \* the shutdown has begun
    task,       \* what a task does once its write has ended
    newest      \* history: the newest value of each field

sessions == <<session, delayed>>
flushes == <<batch, stopping>>
updates == <<play, version, sessions, flushes, task, newest>>

----------------------------------------------------------------------------

NoTask == [pc |-> "none", socket |-> NoSocket, account |-> NoAccount, code |-> 0]

Handlers == Writers \ {Periodic, Shutdown}

Quiet(w) == w \in play.handlers /\ task[w] = NoTask /\ At(w, "idle")

Empty(doc) == DOMAIN doc = {}

Holders(a) == {s \in Sockets : session[s] = a}

\* Values of the fields K of account a come from a client.
Accepted(a, K) ==
    /\ version < play.versions /\ version + 1 \in Values
    /\ version' = version + 1
    /\ newest' = [newest EXCEPT ![a] =
           [f \in Fields |-> IF f \in K THEN version + 1 ELSE @[f]]]

\* The sessions of these sockets are removed from the maps.
Dropped(gone) ==
    settled' = [a \in Accounts |-> [f \in Fields |->
        IF \E s \in gone \cap Holders(a) : f \in DOMAIN delayed[s]
        THEN newest[a][f] ELSE settled[a][f]]]

----------------------------------------------------------------------------
\* Updates.

\* AccountUpdate of one delayable field.
DelayUpdate(s, sent) ==
    LET keys == sent \ Immutable
    IN  /\ session[s] # NoAccount
        /\ \E f \in Delayable : keys = {f}
        /\ Accepted(session[s], keys)
        /\ delayed' = [delayed EXCEPT ![s] =
               [f \in DOMAIN @ \cup keys |-> IF f \in keys THEN version + 1 ELSE @[f]]]
        /\ UNCHANGED <<db, play, session, flushes, task>>

\* AccountUpdate of anything else: what was delayed of these fields is obsolete.
\* MapData is never written.
SaveUpdate_KeepsDelayed(w, s, sent) ==
    LET keys == sent \ Immutable
    IN  /\ session[s] # NoAccount
        /\ Quiet(w)
        /\ ~ \E f \in Delayable : keys = {f}
        /\ keys # {}
        /\ Accepted(session[s], keys)
        /\ Submit(w, session[s], [f \in keys \ {"MapData"} |-> version + 1])
        /\ UNCHANGED <<backend, row, lock, settled, play, sessions, flushes, task>>

SaveUpdate_ForgetsOthers(w, s, sent) ==
    LET keys == sent \ Immutable
    IN  /\ session[s] # NoAccount
        /\ Quiet(w)
        /\ ~ \E f \in Delayable : keys = {f}
        /\ keys # {}
        /\ Accepted(session[s], keys)
        /\ delayed' = [delayed EXCEPT ![s] = NoDocument]
        /\ Submit(w, session[s], [f \in keys \ {"MapData"} |-> version + 1])
        /\ UNCHANGED <<backend, row, lock, settled, play, session, flushes, task>>

SaveUpdate(w, s, sent) ==
    LET keys == sent \ Immutable
    IN  /\ session[s] # NoAccount
        /\ Quiet(w)
        /\ ~ \E f \in Delayable : keys = {f}
        /\ keys # {}
        /\ Accepted(session[s], keys)
        /\ delayed' = [delayed EXCEPT ![s] = [f \in DOMAIN @ \ keys |-> @[f]]]
        /\ Submit(w, session[s], [f \in keys \ {"MapData"} |-> version + 1])
        /\ UNCHANGED <<backend, row, lock, settled, play, session, flushes, task>>

\* ChatRoomCharacterUpdate: someone in the room dresses the member of socket s.
CharacterUpdate(s) ==
    /\ session[s] # NoAccount
    /\ Accepted(session[s], {"Appearance"})
    /\ delayed' = [delayed EXCEPT ![s] =
           [f \in DOMAIN @ \cup {"Appearance"} |->
                IF f = "Appearance" THEN version + 1 ELSE @[f]]]
    /\ UNCHANGED <<db, play, session, flushes, task>>

----------------------------------------------------------------------------
\* Sessions come and go.

\* The session that the account or the socket has already is removed, and what it
\* delayed is lost.
Login(s, a) ==
    LET gone == Holders(a) \cup {s}
    IN  /\ <<s, a>> \in play.logins
        /\ session' = [t \in Sockets |-> IF t = s THEN a
                                         ELSE IF t \in gone THEN NoAccount
                                         ELSE session[t]]
        /\ delayed' = [t \in Sockets |-> IF t \in gone THEN NoDocument ELSE delayed[t]]
        /\ Dropped(gone)
        /\ UNCHANGED <<backend, row, writer, lock, play, version, flushes, task, newest>>

\* on_disconnect_cleanup: the delayed fields are taken and written, ...
Cleanup(w, s) ==
    /\ session[s] # NoAccount
    /\ Quiet(w)
    /\ delayed' = [delayed EXCEPT ![s] = NoDocument]
    /\ Submit(w, session[s], delayed[s])
    /\ task' = [task EXCEPT ![w].pc = "closing", ![w].socket = s]
    /\ UNCHANGED <<backend, row, lock, settled, play, version, session, flushes, newest>>

\* ... then the session is removed, with what was delayed meanwhile.
Remove(w) ==
    LET s == task[w].socket
    IN  /\ task[w].pc = "closing"
        /\ At(w, "idle")
        /\ session' = [session EXCEPT ![s] = NoAccount]
        /\ delayed' = [delayed EXCEPT ![s] = NoDocument]
        /\ Dropped({s})
        /\ task' = [task EXCEPT ![w] = NoTask]
        /\ UNCHANGED <<backend, row, writer, lock, play, version, flushes, newest>>

----------------------------------------------------------------------------
\* Flushes.

Pending_AppearanceOnly(s) == "Appearance" \in DOMAIN delayed[s]

Pending(s) == ~ Empty(delayed[s])

Taken(a) ==
    LET found == {s \in Holders(a) : Pending(s)}
    IN  IF found = {} THEN NoDocument ELSE delayed[CHOOSE s \in found : TRUE]

Written(k) == At(k, "idle") /\ \A a \in Accounts : Empty(batch[k][a])

\* flush_delayed_updates takes the delayed fields of every session, ...
FlushTake(k) ==
    /\ Written(k)
    /\ batch' = [batch EXCEPT ![k] = [a \in Accounts |-> Taken(a)]]
    /\ delayed' = [s \in Sockets |-> IF Pending(s) THEN NoDocument ELSE delayed[s]]
    /\ UNCHANGED <<db, play, version, session, task, newest>>

PeriodicFlush ==
    /\ \E s \in Sockets : Pending(s)
    /\ FlushTake(Periodic)
    /\ UNCHANGED stopping

\* A signal: one more flush, which does not wait for the periodic one.
ShutdownFlush ==
    /\ "shutdown" \in play.faults
    /\ ~ stopping
    /\ stopping' = TRUE
    /\ FlushTake(Shutdown)

\* ... and writes them one account after the other.
FlushNext(k) ==
    \E a \in Accounts :
        /\ At(k, "idle")
        /\ ~ Empty(batch[k][a])
        /\ Submit(k, a, batch[k][a])
        /\ batch' = [batch EXCEPT ![k][a] = NoDocument]
        /\ UNCHANGED <<backend, row, lock, settled, play, version, sessions, stopping,
                       task, newest>>

----------------------------------------------------------------------------
\* The process ends: with a signal once the flush is through, or at any time.

UpdatesStop ==
    /\ session' = [s \in Sockets |-> NoAccount]
    /\ delayed' = [s \in Sockets |-> NoDocument]
    /\ batch' = [k \in {Periodic, Shutdown} |-> [a \in Accounts |-> NoDocument]]
    /\ stopping' = FALSE
    /\ task' = [w \in Writers |-> NoTask]
    /\ settled' = newest
    /\ UNCHANGED <<play, version, newest>>

MayStop ==
    \/ "crash" \in play.faults
    \/ stopping /\ Written(Shutdown)

UpdatesInit ==
    /\ play \in Plays /\ backend = play.backend
    /\ version = 0
    /\ session = [s \in Sockets |-> NoAccount]
    /\ delayed = [s \in Sockets |-> NoDocument]
    /\ batch = [k \in {Periodic, Shutdown} |-> [a \in Accounts |-> NoDocument]]
    /\ stopping = FALSE
    /\ task = [w \in Writers |-> NoTask]
    /\ newest = [a \in Accounts |-> [f \in Fields |-> 0]]
=============================================================================
