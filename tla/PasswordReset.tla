---------------------------- MODULE PasswordReset ----------------------------
(***************************************************************************)
(* Password reset (auth/reset.rs): a number is sent to the address of an   *)
(* account, and whoever sends it back with a new password sets it.         *)
(*                                                                         *)
(* Random numbers are taken never to repeat. Hashing and mail are left     *)
(* out: the number is known to the client or not, whatever became of the   *)
(* mail.                                                                   *)
(***************************************************************************)
EXTENDS Updates, FiniteSets

CONSTANT
    Mailboxes    \* for each address, the accounts that have it

ASSUME PasswordResetAssumption ==
    /\ IsFiniteSet(Accounts)
    /\ Mailboxes \subseteq SUBSET Accounts
    /\ "Password" \in Fields \cap Immutable

VARIABLES
    resets,     \* password_resets: pairs <<account, number>>
    closed,     \* the time is before next_password_reset_at
    code,       \* the number drawn last
    issued,     \* history: the newest number of each account
    granted     \* history: pairs <<account, password>>: the passwords that came with
                \* the newest number of the account

resetting == <<resets, closed, code, issued, granted>>

----------------------------------------------------------------------------

\* handle_password_reset: not while one is less than five seconds old ...
AskReset(w) ==
    /\ Quiet(w)
    /\ code < play.codes
    /\ ~ closed
    /\ task' = [task EXCEPT ![w].pc = "asking"]
    /\ UNCHANGED <<db, play, version, sessions, flushes, newest, resetting>>

\* ... which is looked at under one lock and noted under another, ...
NoteReset(w) ==
    /\ task[w].pc = "asking"
    /\ closed' = TRUE
    /\ task' = [task EXCEPT ![w].pc = "searching"]
    /\ UNCHANGED <<db, play, version, sessions, flushes, newest, resets, code, issued, granted>>

\* ... and after the search each account that has the address has a new number,
\* the only one that counts. There may be no such account, or no answer.
IssueNumbers_KeepsOld(w) ==
    /\ task[w].pc = "searching"
    /\ \E named \in Mailboxes \cup {{}} :
          LET last == code + Cardinality(named)
          IN  /\ last <= play.codes
              /\ \E drawn \in [named -> (code + 1)..last] :
                    /\ \A n \in (code + 1)..last : \E a \in named : drawn[a] = n
                    /\ resets' = resets \cup {<<a, drawn[a]>> : a \in named}
                    /\ issued' = [a \in Accounts |-> IF a \in named THEN drawn[a]
                                                     ELSE issued[a]]
              /\ code' = last
    /\ task' = [task EXCEPT ![w] = NoTask]
    /\ UNCHANGED <<db, play, version, sessions, flushes, newest, closed, granted>>

IssueNumbers(w) ==
    /\ task[w].pc = "searching"
    /\ \E named \in Mailboxes \cup {{}} :
          LET last == code + Cardinality(named)
          IN  /\ last <= play.codes
              /\ \E drawn \in [named -> (code + 1)..last] :
                    /\ \A n \in (code + 1)..last : \E a \in named : drawn[a] = n
                    /\ resets' = {r \in resets : r[1] \notin named}
                                    \cup {<<a, drawn[a]>> : a \in named}
                    /\ issued' = [a \in Accounts |-> IF a \in named THEN drawn[a]
                                                     ELSE issued[a]]
              /\ code' = last
    /\ task' = [task EXCEPT ![w] = NoTask]
    /\ UNCHANGED <<db, play, version, sessions, flushes, newest, closed, granted>>

FiveSecondsPass ==
    /\ closed
    /\ closed' = FALSE
    /\ UNCHANGED <<db, play, version, sessions, flushes, task, newest,
                   resets, code, issued, granted>>

\* handle_password_reset_process with the name a and the number n: looked at under
\* the lock, then the password is hashed and written, ...
Redeem(w, a, n) ==
    /\ Quiet(w)
    /\ <<a, n>> \in resets
    /\ Accepted(a, {"Password"})
    /\ granted' = IF n = issued[a] THEN granted \cup {<<a, version + 1>>} ELSE granted
    /\ Submit(w, a, [f \in {"Password"} |-> version + 1])
    /\ task' = [task EXCEPT ![w].pc = "resetting", ![w].account = a]
    /\ UNCHANGED <<backend, row, lock, settled, play, sessions, flushes,
                   resets, closed, code, issued>>

\* ... and then every number of the account is forgotten, unless the write failed.
ForgetNumbers(w) ==
    /\ task[w].pc = "resetting"
    /\ At(w, "idle")
    /\ resets' = IF writer[w].failed THEN resets
                 ELSE {r \in resets : r[1] # task[w].account}
    /\ task' = [task EXCEPT ![w] = NoTask]
    /\ UNCHANGED <<db, play, version, sessions, flushes, newest,
                   closed, code, issued, granted>>

ResetsStop == resets' = {} /\ closed' = FALSE /\ UNCHANGED <<code, issued, granted>>

PasswordResetInit ==
    /\ resets = {} /\ closed = FALSE /\ code = 0
    /\ issued = [a \in Accounts |-> 0]
    /\ granted = {}
=============================================================================
