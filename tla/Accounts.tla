------------------------------- MODULE Accounts -------------------------------
(***************************************************************************)
(* Account updates and password resets over the same store, and what they  *)
(* promise together.                                                       *)
(***************************************************************************)
EXTENDS PasswordReset

vars == <<db, updates, resetting>>

----------------------------------------------------------------------------

Init == StoreInit /\ UpdatesInit /\ PasswordResetInit

\* What happens to updates leaves resets alone, and a write leaves both.
UpdateStep ==
    \/ \E s \in Sockets, sent \in play.updates :
          DelayUpdate(s, sent) /\ UNCHANGED resetting
    \/ \E w \in Handlers, s \in Sockets, sent \in play.updates :
          SaveUpdate(w, s, sent) /\ UNCHANGED resetting
    \/ \E s \in Sockets : CharacterUpdate(s) /\ UNCHANGED resetting
    \/ \E s \in Sockets, a \in Accounts : Login(s, a) /\ UNCHANGED resetting
    \/ \E w \in Handlers, s \in Sockets : Cleanup(w, s) /\ UNCHANGED resetting
    \/ \E w \in Handlers : Remove(w) /\ UNCHANGED resetting
    \/ PeriodicFlush /\ UNCHANGED resetting
    \/ ShutdownFlush /\ UNCHANGED resetting
    \/ \E k \in {Periodic, Shutdown} : FlushNext(k) /\ UNCHANGED resetting

WriteStep(w) ==
    \/ Update(w) /\ UNCHANGED <<updates, resetting>>
    \/ Acquire(w) /\ UNCHANGED <<updates, resetting>>
    \/ Read(w) /\ UNCHANGED <<updates, resetting>>
    \/ Commit(w) /\ UNCHANGED <<updates, resetting>>
    \/ "write" \in play.faults /\ Busy(w) /\ UNCHANGED <<updates, resetting>>
    \/ "write" \in play.faults /\ Fail(w) /\ UNCHANGED <<updates, resetting>>

ResetStep(w) ==
    \/ AskReset(w)
    \/ NoteReset(w)
    \/ IssueNumbers(w)
    \/ \E a \in Accounts, n \in 1..code : Redeem(w, a, n)
    \/ ForgetNumbers(w)

\* The process stops, and starts again with nothing but the database.
Restart == MayStop /\ StoreStops /\ UpdatesStop /\ ResetsStop

Next ==
    \/ UpdateStep
    \/ \E w \in Writers : WriteStep(w)
    \/ \E w \in Handlers : ResetStep(w)
    \/ FiveSecondsPass
    \/ Restart

Spec == Init /\ [][Next]_vars

\* The flush comes round again and again and goes through its batch, and a task
\* goes on once its write has ended.
FairSpec ==
    /\ Spec
    /\ StoreFairness
    /\ WF_vars(PeriodicFlush /\ UNCHANGED resetting)
    /\ \A k \in {Periodic, Shutdown} : WF_vars(FlushNext(k) /\ UNCHANGED resetting)
    /\ \A w \in Handlers : WF_vars(Remove(w) /\ UNCHANGED resetting)

----------------------------------------------------------------------------
\* Types.

Tasks == [pc : {"none", "closing", "asking", "searching", "resetting"},
          socket : Sockets \cup {NoSocket}, account : Accounts \cup {NoAccount},
          code : Nat]

Rows == [Accounts -> [Fields -> Values]]

Writes == [pc : {"idle", "waiting", "locked", "read"},
           account : Accounts \cup {NoAccount}, doc : Documents,
           copy : Documents, tries : Nat, failed : BOOLEAN]

\* Every variable holds a value of its type, and the lock is held by the one task
\* that is between its read and its commit.
TypeOK ==
    /\ backend \in Backends
    /\ row \in Rows /\ settled \in Rows /\ newest \in Rows
    /\ writer \in [Writers -> Writes]
    /\ \A w \in Writers : lock = w <=> (At(w, "locked") \/ At(w, "read"))
    /\ version \in Values
    /\ session \in [Sockets -> Accounts \cup {NoAccount}]
    /\ delayed \in [Sockets -> Documents]
    /\ batch \in [{Periodic, Shutdown} -> [Accounts -> Documents]]
    /\ stopping \in BOOLEAN
    /\ task \in [Writers -> Tasks]
    /\ resets \subseteq Accounts \X Nat
    /\ closed \in BOOLEAN /\ code \in Nat
    /\ issued \in [Accounts -> Nat]
    /\ granted \subseteq Accounts \X Nat

----------------------------------------------------------------------------
\* Safety.

\* The versions of a field that a flush or a writer has taken and that may still
\* reach the row.
InFlight(a, f) ==
    {batch[k][a][f] : k \in {x \in {Periodic, Shutdown} : f \in DOMAIN batch[x][a]}}
    \cup {writer[w].doc[f] :
            w \in {x \in Writers : writer[x].account = a /\ f \in DOMAIN writer[x].doc}}

\* A value that waits in a session is the newest of its field, and nobody else has
\* it: no flush or cleanup to come writes an obsolete value over a newer one. An
\* update of many fields must take back what waits (account/mod.rs:224-232), and
\* who writes must take and not copy.
DelayedIsNewest ==
    \A s \in Sockets : \A f \in DOMAIN delayed[s] :
        LET a == session[s]
        IN  /\ a # NoAccount
            /\ delayed[s][f] = newest[a][f]
            /\ newest[a][f] \notin InFlight(a, f) \cup {row[a][f]}

\* The newest value of a field waits in a session, is on its way to the database,
\* has met its end there, or went with a session that was removed or a process that
\* stopped: no update is lost between the hands it passes through.
NoUpdateForgotten ==
    \A a \in Accounts, f \in Fields :
        \/ newest[a][f] \in {settled[a][f]} \cup InFlight(a, f)
        \/ \E s \in Holders(a) : f \in DOMAIN delayed[s] /\ delayed[s][f] = newest[a][f]

\* A password in the database was sent with the number that was then the newest of
\* that account, and no account update can write one (auth/reset.rs:116-134,
\* account/mod.rs:74-78).
PasswordsAreGranted ==
    \A a \in Accounts :
        row[a]["Password"] # 0 => <<a, row[a]["Password"]>> \in granted

----------------------------------------------------------------------------
\* The store is a table whose writes happen at once: with writes of the same row
\* under way, none undoes another one's fields, and a write that fails, or that the
\* end of the process cuts off, has written nothing.

NoRequest == [account |-> NoAccount, doc |-> NoDocument]

Wanted(w) == IF At(w, "idle") THEN NoRequest
             ELSE [account |-> writer[w].account, doc |-> writer[w].doc]

Records == INSTANCE Table WITH
    Initial <- [a \in Accounts |-> [f \in Fields |-> 0]],
    asked <- [w \in Writers |-> Wanted(w)]

\* Every step of the code is a step of the table, or none (db/sqlite.rs:277-340).
WritesAreAtomic == Records!Spec

----------------------------------------------------------------------------
\* Liveness.

\* What waits in a session does not wait for ever, whatever is sent meanwhile
\* (main.rs:107-116, account/mod.rs:2016-2035).
DelayedGoesOut ==
    \A s \in Sockets, f \in Delayable : []<>(f \notin DOMAIN delayed[s])

\* Every write ends, however often it finds the database busy
\* (db/sqlite.rs:282-293).
WritesEnd == \A w \in Writers : []<>At(w, "idle")
=============================================================================
