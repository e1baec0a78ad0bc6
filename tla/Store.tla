-------------------------------- MODULE Store --------------------------------
(***************************************************************************)
(* How fields of an account are written (db/sqlite.rs, db/mongo.rs).       *)
(*                                                                         *)
(* MongoDB has an operator for it. SQLite keeps an account as one text, so *)
(* a write reads the row, merges the fields into it and writes the row     *)
(* back, under write_lock and in a transaction; while the database is busy *)
(* it is tried again.                                                      *)
(***************************************************************************)
EXTENDS Integers

CONSTANTS
    Accounts,
    Fields,       \* top-level fields of an account
    Values,       \* what a field can hold: 0 at start, and a value that a client
                  \* sends later is a greater number (bound)
    Writers,      \* the tasks that write, one write at a time each
    Backends,     \* "sqlite" and "mongo": what the configuration may name
    Attempts,     \* how often a write is tried while the database is busy
    NoWriter, NoAccount

ASSUME StoreAssumption ==
    /\ Backends \subseteq {"sqlite", "mongo"}
    /\ Attempts \in Nat \ {0}
    /\ Values \subseteq Nat /\ 0 \in Values
    /\ NoWriter \notin Writers
    /\ NoAccount \notin Accounts

VARIABLES
    backend,    \* which one is configured
    row,        \* what the database holds
    writer,     \* the write each task waits for
    lock,       \* write_lock
    settled     \* history: the newest value of a field whose write has ended, well or
                \* badly, or that has been dropped

db == <<backend, row, writer, lock, settled>>

----------------------------------------------------------------------------
\* A definition with an underscore in its name (X_Bug) is the definition X with
\* a slip in it: X replaced by it breaks a property.

\* Some fields of an account, as one write carries them.
Documents == UNION {[K -> Values] : K \in SUBSET Fields}

NoDocument == [f \in {} |-> 0]

\* copy: the row as it was read; tries: attempts that met a busy database;
\* failed: how the last write settled.
Idle(failed) == [pc |-> "idle", account |-> NoAccount, doc |-> NoDocument,
                 copy |-> NoDocument, tries |-> 0, failed |-> failed]

At(w, pc) == writer[w].pc = pc

\* merge_set_into_object
Merge(old, doc) == [f \in DOMAIN old |-> IF f \in DOMAIN doc THEN doc[f] ELSE old[f]]

\* Task w calls update_fields; an empty document returns at once.
Submitted(w, a, doc) ==
    IF DOMAIN doc = {} THEN Idle(FALSE)
    ELSE [Idle(FALSE) EXCEPT !.pc = "waiting", !.account = a, !.doc = doc]

Submit(w, a, doc) == writer' = [writer EXCEPT ![w] = Submitted(w, a, doc)]

Later(new, old) == IF new > old THEN new ELSE old

Ends(w, failed) ==
    LET doc == writer[w].doc
    IN  /\ writer' = [writer EXCEPT ![w] = Idle(failed)]
        /\ settled' = [settled EXCEPT ![writer[w].account] =
               [f \in Fields |-> IF f \in DOMAIN doc THEN Later(doc[f], @[f]) ELSE @[f]]]

----------------------------------------------------------------------------

\* MongoDB merges in one operation.
Update(w) ==
    /\ backend = "mongo"
    /\ At(w, "waiting")
    /\ row' = [row EXCEPT ![writer[w].account] = Merge(@, writer[w].doc)]
    /\ Ends(w, FALSE)
    /\ UNCHANGED <<backend, lock>>

Acquire_Shared(w) ==
    /\ backend = "sqlite"
    /\ At(w, "waiting")
    /\ lock' = w
    /\ writer' = [writer EXCEPT ![w].pc = "locked"]
    /\ UNCHANGED <<backend, row, settled>>

Acquire(w) ==
    /\ backend = "sqlite"
    /\ At(w, "waiting")
    /\ lock = NoWriter
    /\ lock' = w
    /\ writer' = [writer EXCEPT ![w].pc = "locked"]
    /\ UNCHANGED <<backend, row, settled>>

Read(w) ==
    /\ At(w, "locked")
    /\ writer' = [writer EXCEPT ![w].pc = "read", ![w].copy = row[writer[w].account]]
    /\ UNCHANGED <<backend, row, lock, settled>>

Commit(w) ==
    /\ At(w, "read")
    /\ row' = [row EXCEPT ![writer[w].account] = Merge(writer[w].copy, writer[w].doc)]
    /\ lock' = NoWriter
    /\ Ends(w, FALSE)
    /\ UNCHANGED backend

Waits(w) ==
    /\ writer[w].tries + 1 < Attempts
    /\ writer' = [writer EXCEPT ![w].pc = "waiting", ![w].copy = NoDocument,
                                ![w].tries = @ + 1]
    /\ UNCHANGED settled

GivesUp(w) == writer[w].tries + 1 >= Attempts /\ Ends(w, TRUE)

Busy_KeepsLock(w) ==
    /\ At(w, "locked") \/ At(w, "read")
    /\ Waits(w) \/ GivesUp(w)
    /\ UNCHANGED <<backend, row, lock>>

\* The transaction meets another one and is given up; so is the write, after the
\* last attempt.
Busy(w) ==
    /\ At(w, "locked") \/ At(w, "read")
    /\ lock' = NoWriter
    /\ Waits(w) \/ GivesUp(w)
    /\ UNCHANGED <<backend, row>>

\* Another error ends the write.
Fail(w) ==
    /\ At(w, "locked") \/ At(w, "read") \/ (backend = "mongo" /\ At(w, "waiting"))
    /\ lock' = IF lock = w THEN NoWriter ELSE lock
    /\ Ends(w, TRUE)
    /\ UNCHANGED <<backend, row>>

\* The process stops: a transaction that has not committed leaves no trace.
StoreStops ==
    /\ writer' = [w \in Writers |-> Idle(FALSE)]
    /\ lock' = NoWriter
    /\ UNCHANGED <<backend, row>>

StoreInit ==
    /\ backend \in Backends
    /\ row = [a \in Accounts |-> [f \in Fields |-> 0]]
    /\ writer = [w \in Writers |-> Idle(FALSE)]
    /\ lock = NoWriter
    /\ settled = [a \in Accounts |-> [f \in Fields |-> 0]]

\* A call of the database ends, and write_lock, which is fair, comes to whoever
\* waits for it.
StoreFairness ==
    \A w \in Writers :
        SF_db(Update(w) \/ Acquire(w) \/ Read(w) \/ Commit(w) \/ Busy(w) \/ Fail(w))
=============================================================================
