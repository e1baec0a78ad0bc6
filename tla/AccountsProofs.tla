--------------------------- MODULE AccountsProofs ---------------------------
(***************************************************************************)
(* Proofs about Accounts, for every choice of its constants: any number of *)
(* accounts, fields, sockets and tasks, and any set of plays.              *)
(***************************************************************************)
EXTENDS Accounts, FiniteSetTheorems, TLAPS

----------------------------------------------------------------------------
\* Documents and rows.

LEMMA DocumentElim ==
    ASSUME NEW d \in Documents
    PROVE  DOMAIN d \subseteq Fields /\ d \in [DOMAIN d -> Values]
  BY DEF Documents

LEMMA DocumentIntro ==
    ASSUME NEW K \in SUBSET Fields, NEW d \in [K -> Values]
    PROVE  d \in Documents
  BY DEF Documents

LEMMA NoDocumentIsOne == NoDocument \in Documents /\ DOMAIN NoDocument = {}
<1>1. NoDocument \in [{} -> Values] /\ DOMAIN NoDocument = {}
  BY DEF NoDocument
<1>2. QED BY <1>1, DocumentIntro

LEMMA RowIsDocument ==
    ASSUME NEW a \in Accounts, NEW rows \in Rows
    PROVE  rows[a] \in [Fields -> Values] /\ rows[a] \in Documents
<1>1. rows[a] \in [Fields -> Values]
  BY DEF Rows
<1>2. QED BY <1>1, DocumentIntro

LEMMA MergeIsRow ==
    ASSUME NEW old \in [Fields -> Values], NEW d \in Documents
    PROVE  /\ Merge(old, d) \in [Fields -> Values]
           /\ \A f \in Fields : Merge(old, d)[f] = IF f \in DOMAIN d THEN d[f] ELSE old[f]
<1>1. d \in [DOMAIN d -> Values]
  BY DocumentElim
<1>2. QED BY <1>1 DEF Merge

LEMMA ValuesAreNumbers == \A x \in Values : x \in Nat /\ x <= x
  BY StoreAssumption

LEMMA LaterFacts ==
    ASSUME NEW x \in Values, NEW y \in Values
    PROVE  /\ Later(x, y) \in Values /\ Later(x, y) \in {x, y}
           /\ x <= Later(x, y) /\ y <= Later(x, y)
  BY StoreAssumption DEF Later

----------------------------------------------------------------------------
\* The store. Between its read and its commit a writer holds the lock, so its copy
\* of the row is what the row is.

StoreTypes ==
    /\ backend \in Backends
    /\ row \in Rows
    /\ writer \in [Writers -> Writes]
    /\ lock \in Writers \cup {NoWriter}

LockIsHeld == \A w \in Writers : lock = w <=> (At(w, "locked") \/ At(w, "read"))

\* What a writer carries at each step.
CarriedByWriters ==
    \A w \in Writers :
        /\ At(w, "idle") => writer[w].account = NoAccount /\ writer[w].doc = NoDocument
        /\ ~ At(w, "idle") => writer[w].account \in Accounts
        /\ At(w, "locked") \/ At(w, "read") => backend = "sqlite"
        /\ At(w, "read") => writer[w].copy = row[writer[w].account]

StoreOK == StoreTypes /\ LockIsHeld /\ CarriedByWriters

LEMMA IdleIsWrite ==
    ASSUME NEW b \in BOOLEAN
    PROVE  /\ Idle(b) \in Writes
           /\ Idle(b).pc = "idle" /\ Idle(b).account = NoAccount /\ Idle(b).doc = NoDocument
  BY NoDocumentIsOne DEF Idle, Writes

LEMMA SubmittedIsWrite ==
    ASSUME NEW w \in Writers, NEW a \in Accounts, NEW doc \in Documents
    PROVE  /\ Submitted(w, a, doc) \in Writes
           /\ \/ Submitted(w, a, doc).pc = "waiting" /\ Submitted(w, a, doc).account = a
                 /\ Submitted(w, a, doc).doc = doc /\ DOMAIN doc # {}
              \/ Submitted(w, a, doc).pc = "idle" /\ Submitted(w, a, doc).account = NoAccount
                 /\ Submitted(w, a, doc).doc = NoDocument /\ DOMAIN doc = {}
  BY NoDocumentIsOne, IdleIsWrite DEF Submitted, Idle, Writes

LEMMA SubmitStore ==
    ASSUME StoreOK, NEW w \in Writers, NEW a \in Accounts, NEW doc \in Documents,
           At(w, "idle"), Submit(w, a, doc), UNCHANGED <<backend, row, lock>>
    PROVE  StoreOK'
<1> DEFINE new == Submitted(w, a, doc)
<1>1. /\ new \in Writes
      /\ \/ new.pc = "waiting" /\ new.account = a
         \/ new.pc = "idle" /\ new.account = NoAccount /\ new.doc = NoDocument
  BY SubmittedIsWrite
<1>2. writer' = [writer EXCEPT ![w] = new]
  BY DEF Submit
<1> HIDE DEF new
<1>3. StoreTypes'
  BY <1>1, <1>2 DEF StoreOK, StoreTypes
<1>4. LockIsHeld'
  BY <1>1, <1>2 DEF StoreOK, StoreTypes, LockIsHeld, At
<1>5. CarriedByWriters'
  BY <1>1, <1>2 DEF StoreOK, StoreTypes, CarriedByWriters, At
<1>6. QED BY <1>3, <1>4, <1>5 DEF StoreOK

\* The writer after its write has ended, well or badly.
LEMMA EndsStore ==
    ASSUME StoreOK, NEW w \in Writers, NEW b \in BOOLEAN, Ends(w, b)
    PROVE  writer' = [writer EXCEPT ![w] = Idle(b)] /\ writer' \in [Writers -> Writes]
  BY IdleIsWrite DEF StoreOK, StoreTypes, Ends

LEMMA UpdateStore ==
    ASSUME StoreOK, NEW w \in Writers, Update(w)
    PROVE  StoreOK'
<1>1. writer[w] \in Writes /\ writer[w].account \in Accounts /\ writer[w].doc \in Documents
  BY DEF StoreOK, StoreTypes, CarriedByWriters, Update, At, Writes
<1>2. Merge(row[writer[w].account], writer[w].doc) \in [Fields -> Values]
  BY <1>1, MergeIsRow, RowIsDocument DEF StoreOK, StoreTypes
<1>3. /\ row' \in Rows
      /\ writer' = [writer EXCEPT ![w] = Idle(FALSE)] /\ writer' \in [Writers -> Writes]
      /\ UNCHANGED <<backend, lock>>
  BY <1>1, <1>2, EndsStore DEF Update, StoreOK, StoreTypes, Rows
<1>4. ~ \E v \in Writers : At(v, "locked") \/ At(v, "read")
  BY DEF StoreOK, CarriedByWriters, Update
<1>5. LockIsHeld'
  BY <1>3, <1>4, IdleIsWrite DEF StoreOK, LockIsHeld, StoreTypes, At
<1>6. CarriedByWriters'
  BY <1>3, <1>4, IdleIsWrite DEF StoreOK, CarriedByWriters, StoreTypes, At
<1>7. QED BY <1>3, <1>5, <1>6 DEF StoreOK, StoreTypes

LEMMA AcquireStore ==
    ASSUME StoreOK, NEW w \in Writers, Acquire(w)
    PROVE  StoreOK'
<1>1. StoreTypes'
  BY DEF Acquire, StoreOK, StoreTypes, Writes
<1>2. LockIsHeld'
  BY StoreAssumption DEF Acquire, StoreOK, StoreTypes, LockIsHeld, At
<1>3. CarriedByWriters'
  BY DEF Acquire, StoreOK, StoreTypes, CarriedByWriters, At
<1>4. QED BY <1>1, <1>2, <1>3 DEF StoreOK

LEMMA ReadStore ==
    ASSUME StoreOK, NEW w \in Writers, Read(w)
    PROVE  StoreOK'
<1>1. row[writer[w].account] \in Documents
  BY RowIsDocument DEF StoreOK, StoreTypes, CarriedByWriters, Read, At
<1>2. StoreTypes'
  BY <1>1 DEF Read, StoreOK, StoreTypes, Writes
<1>3. LockIsHeld'
  BY DEF Read, StoreOK, StoreTypes, LockIsHeld, At
<1>4. CarriedByWriters'
  BY DEF Read, StoreOK, StoreTypes, CarriedByWriters, At
<1>5. QED BY <1>2, <1>3, <1>4 DEF StoreOK

\* Only the writer that has the lock is between its read and its commit.
LEMMA OneWriterInside ==
    ASSUME StoreOK, NEW w \in Writers, At(w, "locked") \/ At(w, "read"),
           NEW v \in Writers, At(v, "locked") \/ At(v, "read")
    PROVE  v = w
  BY DEF StoreOK, LockIsHeld

LEMMA CommitStore ==
    ASSUME StoreOK, NEW w \in Writers, Commit(w)
    PROVE  StoreOK'
<1>1. /\ writer[w] \in Writes /\ writer[w].account \in Accounts
      /\ writer[w].doc \in Documents /\ writer[w].copy = row[writer[w].account]
  BY DEF StoreOK, StoreTypes, CarriedByWriters, Commit, At, Writes
<1>2. Merge(writer[w].copy, writer[w].doc) \in [Fields -> Values]
  BY <1>1, MergeIsRow, RowIsDocument DEF StoreOK, StoreTypes
<1>3. /\ row' \in Rows
      /\ writer' = [writer EXCEPT ![w] = Idle(FALSE)] /\ writer' \in [Writers -> Writes]
      /\ backend' = backend /\ lock' = NoWriter
  BY <1>1, <1>2, EndsStore DEF Commit, StoreOK, StoreTypes, Rows
<1>4. \A v \in Writers : At(v, "locked") \/ At(v, "read") => v = w
  BY OneWriterInside DEF Commit
<1>5. LockIsHeld'
  BY <1>3, <1>4, IdleIsWrite, StoreAssumption DEF StoreOK, StoreTypes, At, LockIsHeld
<1>6. CarriedByWriters'
  BY <1>3, <1>4, IdleIsWrite DEF StoreOK, CarriedByWriters, StoreTypes, At
<1>7. QED BY <1>3, <1>5, <1>6 DEF StoreOK, StoreTypes

\* A writer that leaves the lock, if it has it, and has nothing or waits again.
LEMMA BusyStore ==
    ASSUME StoreOK, NEW w \in Writers, Busy(w)
    PROVE  StoreOK'
<1>1. \A v \in Writers : At(v, "locked") \/ At(v, "read") => v = w
  BY OneWriterInside DEF Busy
<1>2. CASE Waits(w)
  <2>1. /\ writer' = [writer EXCEPT ![w].pc = "waiting", ![w].copy = NoDocument,
                                    ![w].tries = @ + 1]
        /\ UNCHANGED <<backend, row>> /\ lock' = NoWriter
    BY <1>2 DEF Busy, Waits
  <2>2. StoreTypes'
    BY <2>1, NoDocumentIsOne DEF StoreOK, StoreTypes, Writes
  <2>3. LockIsHeld'
    BY <1>1, <2>1, StoreAssumption DEF StoreOK, StoreTypes, LockIsHeld, At
  <2>4. CarriedByWriters'
    BY <2>1 DEF StoreOK, StoreTypes, CarriedByWriters, At, Busy
  <2>5. QED BY <2>2, <2>3, <2>4 DEF StoreOK
<1>3. CASE GivesUp(w)
  <2>1. /\ writer' = [writer EXCEPT ![w] = Idle(TRUE)] /\ writer' \in [Writers -> Writes]
        /\ UNCHANGED <<backend, row>> /\ lock' = NoWriter
    BY <1>3, EndsStore DEF Busy, GivesUp
  <2>2. LockIsHeld'
    BY <1>1, <2>1, IdleIsWrite, StoreAssumption DEF StoreOK, StoreTypes, LockIsHeld, At
  <2>3. CarriedByWriters'
    BY <2>1, IdleIsWrite DEF StoreOK, StoreTypes, CarriedByWriters, At
  <2>4. QED BY <2>1, <2>2, <2>3 DEF StoreOK, StoreTypes
<1>4. QED BY <1>2, <1>3 DEF Busy

LEMMA FailStore ==
    ASSUME StoreOK, NEW w \in Writers, Fail(w)
    PROVE  StoreOK'
<1>1. /\ writer' = [writer EXCEPT ![w] = Idle(TRUE)] /\ writer' \in [Writers -> Writes]
      /\ UNCHANGED <<backend, row>>
      /\ lock' = IF lock = w THEN NoWriter ELSE lock
  BY EndsStore DEF Fail
<1>2. LockIsHeld'
  BY <1>1, IdleIsWrite, StoreAssumption DEF StoreOK, StoreTypes, LockIsHeld, At
<1>3. CarriedByWriters'
  BY <1>1, IdleIsWrite DEF StoreOK, StoreTypes, CarriedByWriters, At
<1>4. QED BY <1>1, <1>2, <1>3 DEF StoreOK, StoreTypes

LEMMA StopStore ==
    ASSUME StoreOK, StoreStops
    PROVE  StoreOK'
<1>1. /\ writer' = [w \in Writers |-> Idle(FALSE)]
      /\ lock' = NoWriter /\ UNCHANGED <<backend, row>>
  BY DEF StoreStops
<1>2. \A w \in Writers : writer'[w] = Idle(FALSE) /\ writer'[w] \in Writes
  BY <1>1, IdleIsWrite
<1>3. StoreTypes'
  BY <1>1, <1>2 DEF StoreOK, StoreTypes
<1>4. LockIsHeld'
  BY <1>1, <1>2, IdleIsWrite, StoreAssumption DEF LockIsHeld, At
<1>5. CarriedByWriters'
  BY <1>2, IdleIsWrite DEF CarriedByWriters, At
<1>6. QED BY <1>3, <1>4, <1>5 DEF StoreOK
----------------------------------------------------------------------------
\* Where values are: those that fly, those that wait, those whose fate is settled.

Flushers == {Periodic, Shutdown}

Flying(a, f, x) ==
    \/ \E k \in Flushers : f \in DOMAIN batch[k][a] /\ batch[k][a][f] = x
    \/ \E w \in Writers : /\ writer[w].account = a
                          /\ f \in DOMAIN writer[w].doc /\ writer[w].doc[f] = x

LEMMA FlyingIsInFlight ==
    \A a \in Accounts, f \in Fields : \A x : x \in InFlight(a, f) <=> Flying(a, f, x)
  BY DEF InFlight, Flying, Flushers

FlowTypes ==
    /\ play \in Plays
    /\ version \in Values
    /\ settled \in Rows /\ newest \in Rows
    /\ session \in [Sockets -> Accounts \cup {NoAccount}]
    /\ delayed \in [Sockets -> Documents]
    /\ batch \in [Flushers -> [Accounts -> Documents]]
    /\ stopping \in BOOLEAN
    /\ task \in [Writers -> Tasks]

OneSession ==
    \A s, t \in Sockets : session[s] = session[t] /\ session[s] # NoAccount => s = t

WaitsInSessions ==
    \A s \in Sockets : \A f \in DOMAIN delayed[s] : session[s] # NoAccount /\ f \notin Immutable

NewestBounds ==
    \A a \in Accounts, f \in Fields :
        /\ newest[a][f] <= version
        /\ settled[a][f] <= newest[a][f]
        /\ row[a][f] <= newest[a][f]
        /\ \A x \in Values : Flying(a, f, x) => x <= newest[a][f]

WaitingIsNewest ==
    \A s \in Sockets, a \in Accounts, f \in Fields :
        session[s] = a /\ f \in DOMAIN delayed[s] =>
            /\ delayed[s][f] = newest[a][f]
            /\ row[a][f] # newest[a][f]
            /\ \A x \in Values : Flying(a, f, x) => x # newest[a][f]

Remembered ==
    \A a \in Accounts, f \in Fields :
        \/ newest[a][f] = settled[a][f]
        \/ \E x \in Values : x = newest[a][f] /\ Flying(a, f, x)
        \/ \E s \in Sockets : session[s] = a /\ f \in DOMAIN delayed[s]

FlowOK ==
    /\ FlowTypes /\ OneSession /\ WaitsInSessions
    /\ NewestBounds /\ WaitingIsNewest /\ Remembered

\* A step after which no row and no hand has a value of an immutable field that was
\* nowhere before.
NoneInvented ==
    \A a \in Accounts, f \in Immutable : \A x \in Values :
        Flying(a, f, x)' \/ row'[a][f] = x => Flying(a, f, x) \/ row[a][f] = x

LEMMA WaitingFacts ==
    ASSUME FlowOK, NEW s \in Sockets, NEW f \in DOMAIN delayed[s]
    PROVE  f \in Fields /\ session[s] \in Accounts
  BY DocumentElim DEF FlowOK, FlowTypes, WaitsInSessions

LEMMA FlyingTyped ==
    ASSUME StoreOK, FlowTypes, NEW a \in Accounts, NEW f, NEW x, Flying(a, f, x)
    PROVE  x \in Values /\ f \in Fields
<1>1. ASSUME NEW k \in Flushers, f \in DOMAIN batch[k][a], batch[k][a][f] = x
      PROVE  x \in Values /\ f \in Fields
  <2>1. batch[k][a] \in Documents
    BY DEF FlowTypes
  <2>2. QED BY <1>1, <2>1, DocumentElim
<1>2. ASSUME NEW w \in Writers, f \in DOMAIN writer[w].doc, writer[w].doc[f] = x
      PROVE  x \in Values /\ f \in Fields
  <2>1. writer[w].doc \in Documents
    BY DEF StoreOK, StoreTypes, Writes
  <2>2. QED BY <1>2, <2>1, DocumentElim
<1>3. QED BY <1>1, <1>2 DEF Flying

\* What a submission adds to what flies.
LEMMA FlyingSubmit ==
    ASSUME StoreOK, NEW w \in Writers, NEW a \in Accounts, NEW doc \in Documents,
           At(w, "idle"), Submit(w, a, doc), UNCHANGED batch,
           NEW b \in Accounts, NEW f, NEW x
    PROVE  Flying(b, f, x)' <=> \/ Flying(b, f, x)
                                \/ b = a /\ f \in DOMAIN doc /\ x = doc[f]
<1> DEFINE new == Submitted(w, a, doc)
<1>1. \/ new.account = a /\ new.doc = doc
      \/ new.account = NoAccount /\ DOMAIN doc = {}
  BY SubmittedIsWrite
<1>2. writer' = [writer EXCEPT ![w] = new]
  BY DEF Submit
<1>3. DOMAIN writer[w].doc = {}
  BY NoDocumentIsOne DEF StoreOK, CarriedByWriters
<1> HIDE DEF new
<1>4. \A v \in Writers : writer'[v] = IF v = w THEN new ELSE writer[v]
  BY <1>2 DEF StoreOK, StoreTypes
<1>5. NoAccount # b
  BY StoreAssumption
<1>6. QED BY <1>1, <1>3, <1>4, <1>5 DEF Flying

\* What the end of a write takes from what flies.
LEMMA FlyingEnds ==
    ASSUME StoreOK, NEW w \in Writers, NEW e \in BOOLEAN, Ends(w, e), UNCHANGED batch,
           NEW b \in Accounts, NEW f, NEW x
    PROVE  /\ Flying(b, f, x)' => Flying(b, f, x)
           /\ Flying(b, f, x) => \/ Flying(b, f, x)'
                                 \/ /\ b = writer[w].account
                                    /\ f \in DOMAIN writer[w].doc /\ x = writer[w].doc[f]
<1>1. \A v \in Writers : writer'[v] = IF v = w THEN Idle(e) ELSE writer[v]
  BY DEF StoreOK, StoreTypes, Ends
<1>2. DOMAIN Idle(e).doc = {}
  BY IdleIsWrite, NoDocumentIsOne
<1>3. QED BY <1>1, <1>2 DEF Flying

LEMMA EndsSettled ==
    ASSUME StoreOK, FlowTypes, NEW w \in Writers, NEW e \in BOOLEAN, ~ At(w, "idle"), Ends(w, e)
    PROVE  /\ settled' \in Rows
           /\ \A a \in Accounts, f \in Fields :
                 IF a = writer[w].account /\ f \in DOMAIN writer[w].doc
                 THEN settled'[a][f] = Later(writer[w].doc[f], settled[a][f])
                 ELSE settled'[a][f] = settled[a][f]
<1> DEFINE c == writer[w].account
           doc == writer[w].doc
           fields == [f \in Fields |-> IF f \in DOMAIN doc THEN Later(doc[f], settled[c][f])
                                       ELSE settled[c][f]]
<1>1. c \in Accounts /\ doc \in Documents /\ settled[c] \in [Fields -> Values]
  BY RowIsDocument DEF StoreOK, StoreTypes, CarriedByWriters, Writes, FlowTypes
<1>2. \A f \in DOMAIN doc : doc[f] \in Values
  BY <1>1, DocumentElim
<1>3. settled' = [settled EXCEPT ![c] = fields]
  BY DEF Ends
<1>4. fields \in [Fields -> Values]
  BY <1>1, <1>2, LaterFacts
<1>5. settled' \in Rows
  BY <1>1, <1>3, <1>4 DEF FlowTypes, Rows
<1>6. QED BY <1>1, <1>3, <1>5 DEF FlowTypes, Rows
----------------------------------------------------------------------------
\* The steps of the store: values come down, none goes up.

LEMMA SinkFlow ==
    ASSUME StoreOK, FlowOK, StoreOK', settled' \in Rows,
           UNCHANGED <<play, version, sessions, flushes, task, newest>>,
           \A a \in Accounts, f \in Fields : \A x \in Values :
               /\ Flying(a, f, x)' => Flying(a, f, x)
               /\ Flying(a, f, x) => Flying(a, f, x)' \/ x <= settled'[a][f],
           \A a \in Accounts, f \in Fields :
               /\ row'[a][f] = row[a][f] \/ Flying(a, f, row'[a][f])
               /\ settled[a][f] <= settled'[a][f]
               /\ settled'[a][f] = settled[a][f] \/ Flying(a, f, settled'[a][f])
    PROVE  FlowOK'
<1>1. /\ FlowTypes' /\ OneSession' /\ WaitsInSessions'
      /\ UNCHANGED <<version, session, delayed, newest>>
  BY DEF FlowOK, FlowTypes, OneSession, WaitsInSessions, sessions, flushes
<1>2. ASSUME NEW a \in Accounts, NEW f \in Fields
      PROVE  /\ row[a][f] \in Values /\ row'[a][f] \in Values
             /\ settled[a][f] \in Values /\ settled'[a][f] \in Values
             /\ newest[a][f] \in Values
  BY RowIsDocument DEF FlowOK, FlowTypes, StoreOK, StoreTypes, Rows
<1>3. ASSUME NEW x \in Values
      PROVE  x \in Int
  BY StoreAssumption
<1>4. NewestBounds'
  BY <1>1, <1>2, <1>3 DEF FlowOK, NewestBounds
<1>5. WaitingIsNewest'
  <2> SUFFICES ASSUME NEW s \in Sockets, NEW a \in Accounts, NEW f \in Fields,
                      session[s] = a, f \in DOMAIN delayed[s]
               PROVE  /\ delayed[s][f] = newest[a][f]
                      /\ row'[a][f] # newest[a][f]
                      /\ \A x \in Values : Flying(a, f, x)' => x # newest[a][f]
    BY <1>1 DEF WaitingIsNewest
  <2>1. /\ delayed[s][f] = newest[a][f]
        /\ row[a][f] # newest[a][f]
        /\ \A x \in Values : Flying(a, f, x) => x # newest[a][f]
    BY DEF FlowOK, WaitingIsNewest
  <2>2. QED BY <1>2, <2>1
<1>6. Remembered'
  <2> SUFFICES ASSUME NEW a \in Accounts, NEW f \in Fields
               PROVE  \/ newest[a][f] = settled'[a][f]
                      \/ \E x \in Values : x = newest[a][f] /\ Flying(a, f, x)'
                      \/ \E s \in Sockets : session[s] = a /\ f \in DOMAIN delayed[s]
    BY <1>1 DEF Remembered
  <2>1. settled'[a][f] <= newest[a][f]
    BY <1>2 DEF FlowOK, NewestBounds
  <2>2. QED BY <1>2, <1>3, <2>1 DEF FlowOK, Remembered
<1>7. QED BY <1>1, <1>4, <1>5, <1>6 DEF FlowOK

LEMMA EndsFlow ==
    ASSUME StoreOK, FlowOK, StoreOK', UNCHANGED updates,
           NEW w \in Writers, NEW e \in BOOLEAN, ~ At(w, "idle"), Ends(w, e),
           \/ row' = row
           \/ row' = [row EXCEPT ![writer[w].account] = Merge(@, writer[w].doc)]
    PROVE  FlowOK' /\ NoneInvented
<1> DEFINE c == writer[w].account
           doc == writer[w].doc
<1>1. c \in Accounts /\ doc \in Documents
  BY DEF StoreOK, StoreTypes, CarriedByWriters, Writes
<1>2. /\ settled' \in Rows
      /\ \A a \in Accounts, f \in Fields :
            IF a = c /\ f \in DOMAIN doc THEN settled'[a][f] = Later(doc[f], settled[a][f])
            ELSE settled'[a][f] = settled[a][f]
  BY EndsSettled DEF FlowOK
<1>3. \A f \in DOMAIN doc : doc[f] \in Values /\ Flying(c, f, doc[f])
  BY <1>1, DocumentElim DEF Flying
<1>4. ASSUME NEW a \in Accounts, NEW f \in Fields
      PROVE  settled[a][f] \in Values /\ settled[a][f] <= settled[a][f]
  <2>1. settled[a][f] \in Values
    BY DEF FlowOK, FlowTypes, Rows
  <2>2. QED BY <2>1, ValuesAreNumbers
<1>5. ASSUME NEW a \in Accounts, NEW f \in Fields
      PROVE  /\ settled[a][f] <= settled'[a][f]
             /\ settled'[a][f] = settled[a][f] \/ Flying(a, f, settled'[a][f])
             /\ a = c /\ f \in DOMAIN doc => doc[f] <= settled'[a][f]
  BY <1>2, <1>3, <1>4, LaterFacts
<1>6. ASSUME NEW a \in Accounts, NEW f \in Fields
      PROVE  row'[a][f] = row[a][f] \/ Flying(a, f, row'[a][f])
  <2>1. row[c] \in [Fields -> Values]
    BY <1>1, RowIsDocument DEF StoreOK, StoreTypes
  <2>2. \A g \in Fields : Merge(row[c], doc)[g] = IF g \in DOMAIN doc THEN doc[g] ELSE row[c][g]
    BY <1>1, <2>1, MergeIsRow
  <2>3. row \in [Accounts -> [Fields -> Values]]
    BY DEF StoreOK, StoreTypes, Rows
  <2>4. QED BY <1>1, <1>3, <2>2, <2>3
<1>7. ASSUME NEW a \in Accounts, NEW f \in Fields, NEW x \in Values
      PROVE  /\ Flying(a, f, x)' => Flying(a, f, x)
             /\ Flying(a, f, x) => Flying(a, f, x)' \/ x <= settled'[a][f]
  BY <1>5, FlyingEnds DEF updates, flushes
<1>8. NoneInvented
  BY <1>6, <1>7, UpdatesAssumption DEF NoneInvented
<1>9. QED BY <1>2, <1>5, <1>6, <1>7, <1>8, SinkFlow DEF updates

\* A step of a write that does not end it.
LEMMA GoesOnFlow ==
    ASSUME StoreOK, FlowOK, StoreOK', UNCHANGED <<row, settled, updates>>,
           \A w \in Writers : writer'[w].account = writer[w].account
                              /\ writer'[w].doc = writer[w].doc
    PROVE  FlowOK' /\ NoneInvented
<1>1. \A a \in Accounts, f \in Fields : \A x \in Values :
         Flying(a, f, x)' <=> Flying(a, f, x)
  BY DEF Flying, updates, flushes
<1>2. ASSUME NEW a \in Accounts, NEW f \in Fields
      PROVE  settled[a][f] <= settled[a][f]
  <2>1. settled[a][f] \in Values
    BY DEF FlowOK, FlowTypes, Rows
  <2>2. QED BY <2>1, ValuesAreNumbers
<1>3. settled' \in Rows
  BY DEF FlowOK, FlowTypes
<1>4. NoneInvented
  BY <1>1, UpdatesAssumption DEF NoneInvented
<1>5. QED BY <1>1, <1>4, <1>2, <1>3, SinkFlow DEF updates

LEMMA WriteStepKeeps ==
    ASSUME StoreOK, FlowOK, NEW w \in Writers, WriteStep(w)
    PROVE  StoreOK' /\ FlowOK' /\ NoneInvented /\ UNCHANGED <<updates, resetting>>
<1>1. CASE Update(w) /\ UNCHANGED <<updates, resetting>>
  <2>1. StoreOK'
    BY <1>1, UpdateStore
  <2>2. FlowOK' /\ NoneInvented
    BY <1>1, <2>1, EndsFlow DEF Update, At
  <2>3. QED BY <1>1, <2>1, <2>2
<1>2. CASE Acquire(w) /\ UNCHANGED <<updates, resetting>>
  <2>1. StoreOK'
    BY <1>2, AcquireStore
  <2>2. FlowOK' /\ NoneInvented
    BY <1>2, <2>1, GoesOnFlow DEF Acquire, StoreOK, StoreTypes, Writes
  <2>3. QED BY <1>2, <2>1, <2>2
<1>3. CASE Read(w) /\ UNCHANGED <<updates, resetting>>
  <2>1. StoreOK'
    BY <1>3, ReadStore
  <2>2. FlowOK' /\ NoneInvented
    BY <1>3, <2>1, GoesOnFlow DEF Read, StoreOK, StoreTypes, Writes
  <2>3. QED BY <1>3, <2>1, <2>2
<1>4. CASE Commit(w) /\ UNCHANGED <<updates, resetting>>
  <2>1. StoreOK'
    BY <1>4, CommitStore
  <2>2. writer[w].copy = row[writer[w].account] /\ ~ At(w, "idle")
    BY <1>4 DEF Commit, StoreOK, CarriedByWriters, At
  <2>3. FlowOK' /\ NoneInvented
    BY <1>4, <2>1, <2>2, EndsFlow DEF Commit
  <2>4. QED BY <1>4, <2>1, <2>3
<1>5. CASE Busy(w) /\ UNCHANGED <<updates, resetting>>
  <2>1. StoreOK'
    BY <1>5, BusyStore
  <2>2. CASE Waits(w)
    BY <1>5, <2>1, <2>2, GoesOnFlow DEF Busy, Waits, StoreOK, StoreTypes, Writes
  <2>3. CASE GivesUp(w)
    BY <1>5, <2>1, <2>3, EndsFlow DEF Busy, GivesUp, At
  <2>4. QED BY <1>5, <2>1, <2>2, <2>3 DEF Busy
<1>6. CASE Fail(w) /\ UNCHANGED <<updates, resetting>>
  <2>1. StoreOK'
    BY <1>6, FailStore
  <2>2. FlowOK' /\ NoneInvented
    BY <1>6, <2>1, EndsFlow DEF Fail, At
  <2>3. QED BY <1>6, <2>1, <2>2
<1>7. QED BY <1>1, <1>2, <1>3, <1>4, <1>5, <1>6 DEF WriteStep
----------------------------------------------------------------------------
\* Updates: what a client sends is the newest value, and goes to a session or flies.

LEMMA ValueFacts ==
    ASSUME StoreOK, FlowTypes, NEW a \in Accounts, NEW f \in Fields
    PROVE  /\ newest[a][f] \in Values /\ settled[a][f] \in Values /\ row[a][f] \in Values
           /\ newest[a][f] \in Nat /\ settled[a][f] \in Nat /\ row[a][f] \in Nat
           /\ version \in Nat
  BY ValuesAreNumbers DEF StoreOK, StoreTypes, FlowTypes, Rows

LEMMA DbStays ==
    ASSUME StoreOK, UNCHANGED <<backend, row, writer, lock>>
    PROVE  StoreOK'
  BY DEF StoreOK, StoreTypes, LockIsHeld, CarriedByWriters, At

LEMMA FlyingStays ==
    ASSUME UNCHANGED <<writer, batch>>, NEW a, NEW f, NEW x
    PROVE  Flying(a, f, x)' <=> Flying(a, f, x)
  BY DEF Flying

LEMMA AcceptedFacts ==
    ASSUME FlowTypes, NEW a \in Accounts, NEW K, Accepted(a, K)
    PROVE  /\ version' = version + 1 /\ version' \in Values
           /\ newest' \in Rows
           /\ \A b \in Accounts, f \in Fields :
                 newest'[b][f] = IF b = a /\ f \in K THEN version' ELSE newest[b][f]
<1>1. version' = version + 1 /\ version' \in Values
  BY DEF Accepted
<1> DEFINE fields == [f \in Fields |-> IF f \in K THEN version + 1 ELSE newest[a][f]]
<1>2. newest' = [newest EXCEPT ![a] = fields]
  BY DEF Accepted
<1>3. fields \in [Fields -> Values] /\ newest \in [Accounts -> [Fields -> Values]]
  BY <1>1 DEF FlowTypes, Rows
<1>4. QED BY <1>1, <1>2, <1>3 DEF Rows

\* The newest value is above all others of its account and field.
LEMMA AcceptedIsNewest ==
    ASSUME StoreOK, FlowOK, NEW a \in Accounts, NEW f \in Fields
    PROVE  /\ newest[a][f] < version + 1
           /\ settled[a][f] < version + 1
           /\ row[a][f] < version + 1
           /\ \A x \in Values : Flying(a, f, x) => x < version + 1
<1>1. /\ newest[a][f] <= version /\ settled[a][f] <= newest[a][f] /\ row[a][f] <= newest[a][f]
      /\ \A x \in Values : Flying(a, f, x) => x <= newest[a][f]
  BY DEF FlowOK, NewestBounds
<1>2. /\ newest[a][f] \in Nat /\ settled[a][f] \in Nat /\ row[a][f] \in Nat
      /\ version \in Nat
  BY ValueFacts DEF FlowOK
<1>3. QED BY <1>1, <1>2, ValuesAreNumbers

\* An update of one field goes to the session.
LEMMA DelayFlow ==
    ASSUME StoreOK, FlowOK, NEW s \in Sockets, NEW g \in Fields \ Immutable,
           session[s] # NoAccount, Accepted(session[s], {g}),
           delayed' = [delayed EXCEPT ![s] =
               [f \in DOMAIN @ \cup {g} |-> IF f = g THEN version + 1 ELSE @[f]]],
           UNCHANGED <<db, play, session, flushes, task>>
    PROVE  StoreOK' /\ FlowOK' /\ NoneInvented
<1> DEFINE c == session[s]
           new == [f \in DOMAIN delayed[s] \cup {g} |->
                      IF f = g THEN version + 1 ELSE delayed[s][f]]
<1>1. c \in Accounts /\ delayed[s] \in Documents
  BY DEF FlowOK, FlowTypes
<1>2. /\ version' = version + 1 /\ version' \in Values
      /\ newest' \in Rows
      /\ \A b \in Accounts, f \in Fields :
            newest'[b][f] = IF b = c /\ f \in {g} THEN version' ELSE newest[b][f]
  BY <1>1, AcceptedFacts DEF FlowOK
<1>3. new \in Documents /\ DOMAIN new = DOMAIN delayed[s] \cup {g}
  <2>1. DOMAIN delayed[s] \subseteq Fields /\ \A f \in DOMAIN delayed[s] : delayed[s][f] \in Values
    BY <1>1, DocumentElim
  <2>2. new \in [DOMAIN delayed[s] \cup {g} -> Values]
    BY <1>2, <2>1
  <2>3. QED BY <2>1, <2>2, DocumentIntro
<1>4. /\ \A f \in DOMAIN new : new[f] = IF f = g THEN version' ELSE delayed[s][f]
      /\ \A t \in Sockets : delayed'[t] = IF t = s THEN new ELSE delayed[t]
      /\ delayed' \in [Sockets -> Documents]
  BY <1>2, <1>3 DEF FlowOK, FlowTypes
<1> HIDE DEF new
<1>5. StoreOK'
  BY DbStays DEF db
<1>6. FlowTypes' /\ OneSession'
  BY <1>2, <1>4 DEF FlowOK, FlowTypes, OneSession, db, flushes
<1>7. WaitsInSessions'
  BY <1>3, <1>4 DEF FlowOK, WaitsInSessions
<1>8. ASSUME NEW a \in Accounts, NEW f \in Fields, NEW x
      PROVE  Flying(a, f, x)' <=> Flying(a, f, x)
  BY FlyingStays DEF db, flushes
<1>9. ASSUME NEW a \in Accounts, NEW f \in Fields
      PROVE  /\ newest[a][f] < version' /\ settled[a][f] < version' /\ row[a][f] < version'
             /\ \A x \in Values : Flying(a, f, x) => x < version'
             /\ newest[a][f] \in Nat /\ settled[a][f] \in Nat /\ row[a][f] \in Nat
             /\ version' \in Nat
  BY <1>2, AcceptedIsNewest, ValueFacts, ValuesAreNumbers DEF FlowOK
<1>10. NewestBounds'
  <2> SUFFICES ASSUME NEW a \in Accounts, NEW f \in Fields
               PROVE  /\ newest'[a][f] <= version'
                      /\ settled[a][f] <= newest'[a][f]
                      /\ row[a][f] <= newest'[a][f]
                      /\ \A x \in Values : Flying(a, f, x)' => x <= newest'[a][f]
    BY DEF NewestBounds, db
  <2>1. CASE a = c /\ f = g
    BY <1>2, <1>8, <1>9, <2>1, ValuesAreNumbers
  <2>2. CASE ~ (a = c /\ f = g)
    BY <1>2, <1>8, <1>9, <2>2, ValuesAreNumbers DEF FlowOK, NewestBounds
  <2>3. QED BY <2>1, <2>2
<1>11. WaitingIsNewest'
  <2> SUFFICES ASSUME NEW t \in Sockets, NEW a \in Accounts, NEW f \in Fields,
                      session[t] = a, f \in DOMAIN delayed'[t]
               PROVE  /\ delayed'[t][f] = newest'[a][f]
                      /\ row[a][f] # newest'[a][f]
                      /\ \A x \in Values : Flying(a, f, x)' => x # newest'[a][f]
    <3>1. row' = row /\ session' = session
      BY DEF db
    <3>2. QED BY <3>1 DEF WaitingIsNewest
  <2>1. CASE t = s /\ f = g
    BY <1>2, <1>3, <1>4, <1>8, <1>9, <2>1, ValuesAreNumbers
  <2>2. CASE ~ (t = s /\ f = g)
    <3>1. f \in DOMAIN delayed[t] /\ delayed'[t][f] = delayed[t][f]
      BY <1>3, <1>4, <2>2
    <3>2. ~ (a = c /\ f = g)
      BY <2>2 DEF FlowOK, OneSession
    <3>3. newest'[a][f] = newest[a][f]
      BY <1>2, <3>2
    <3>4. QED BY <1>8, <3>1, <3>3 DEF FlowOK, WaitingIsNewest
  <2>3. QED BY <2>1, <2>2
<1>12. Remembered'
  <2> SUFFICES ASSUME NEW a \in Accounts, NEW f \in Fields
               PROVE  \/ newest'[a][f] = settled[a][f]
                      \/ \E x \in Values : x = newest'[a][f] /\ Flying(a, f, x)'
                      \/ \E t \in Sockets : session[t] = a /\ f \in DOMAIN delayed'[t]
    BY DEF Remembered, db
  <2>1. CASE a = c /\ f = g
    BY <1>3, <1>4, <2>1
  <2>2. CASE ~ (a = c /\ f = g)
    <3>1. newest'[a][f] = newest[a][f]
      BY <1>2, <2>2
    <3>2. \A t \in Sockets : DOMAIN delayed[t] \subseteq DOMAIN delayed'[t]
      BY <1>3, <1>4
    <3>3. QED BY <1>8, <3>1, <3>2 DEF FlowOK, Remembered
  <2>3. QED BY <2>1, <2>2
<1>13. NoneInvented
  BY <1>8, UpdatesAssumption DEF NoneInvented, db
<1>14. QED BY <1>5, <1>6, <1>7, <1>10, <1>11, <1>12, <1>13 DEF FlowOK

LEMMA DelayUpdateKeeps ==
    ASSUME StoreOK, FlowOK, NEW s \in Sockets, NEW sent, DelayUpdate(s, sent)
    PROVE  StoreOK' /\ FlowOK' /\ NoneInvented
<1> DEFINE keys == sent \ Immutable
<1>1. PICK g \in Delayable : keys = {g}
  BY DEF DelayUpdate
<1>2. g \in Fields \ Immutable
  BY <1>1, UpdatesAssumption
<1>3. delayed' = [delayed EXCEPT ![s] =
          [f \in DOMAIN @ \cup {g} |-> IF f = g THEN version + 1 ELSE @[f]]]
  BY <1>1 DEF DelayUpdate
<1>4. QED BY <1>1, <1>2, <1>3, DelayFlow DEF DelayUpdate

LEMMA CharacterUpdateKeeps ==
    ASSUME StoreOK, FlowOK, NEW s \in Sockets, CharacterUpdate(s)
    PROVE  StoreOK' /\ FlowOK' /\ NoneInvented
<1>1. "Appearance" \in Fields \ Immutable
  BY UpdatesAssumption
<1>2. QED BY <1>1, DelayFlow DEF CharacterUpdate
\* A value that is sent and flies at once; what waited of these fields is gone.
LEMMA SaveFlow ==
    ASSUME StoreOK, FlowOK, NEW w \in Writers, At(w, "idle"),
           NEW c \in Accounts, NEW K, NEW doc \in Documents,
           DOMAIN doc = K \cap Fields, \A f \in DOMAIN doc : doc[f] = version + 1,
           Accepted(c, K), Submit(w, c, doc),
           delayed' \in [Sockets -> Documents],
           \A t \in Sockets :
               /\ DOMAIN delayed'[t] = IF session[t] = c THEN DOMAIN delayed[t] \ K
                                       ELSE DOMAIN delayed[t]
               /\ \A f \in DOMAIN delayed'[t] : delayed'[t][f] = delayed[t][f],
           task' \in [Writers -> Tasks],
           UNCHANGED <<backend, row, lock, settled, play, session, flushes>>
    PROVE  StoreOK' /\ FlowOK'
<1>1. /\ version' = version + 1 /\ version' \in Values
      /\ newest' \in Rows
      /\ \A b \in Accounts, f \in Fields :
            newest'[b][f] = IF b = c /\ f \in K THEN version' ELSE newest[b][f]
  BY AcceptedFacts DEF FlowOK
<1>2. StoreOK'
  BY SubmitStore
<1>3. /\ UNCHANGED <<play, session, batch, stopping, row, settled>>
      /\ FlowTypes' /\ OneSession' /\ WaitsInSessions'
  BY <1>1 DEF FlowOK, FlowTypes, OneSession, WaitsInSessions, flushes
<1>4. ASSUME NEW a \in Accounts, NEW f \in Fields, NEW x
      PROVE  Flying(a, f, x)' <=> Flying(a, f, x) \/ (a = c /\ f \in K /\ x = version')
  BY <1>1, <1>3, FlyingSubmit
<1>5. ASSUME NEW a \in Accounts, NEW f \in Fields
      PROVE  /\ newest[a][f] < version' /\ settled[a][f] < version' /\ row[a][f] < version'
             /\ \A x \in Values : Flying(a, f, x) => x < version'
             /\ newest[a][f] \in Nat /\ settled[a][f] \in Nat /\ row[a][f] \in Nat
             /\ version' \in Nat
  BY <1>1, AcceptedIsNewest, ValueFacts, ValuesAreNumbers DEF FlowOK
<1>6. NewestBounds'
  <2> SUFFICES ASSUME NEW a \in Accounts, NEW f \in Fields
               PROVE  /\ newest'[a][f] <= version'
                      /\ settled[a][f] <= newest'[a][f]
                      /\ row[a][f] <= newest'[a][f]
                      /\ \A x \in Values : Flying(a, f, x)' => x <= newest'[a][f]
    BY <1>3 DEF NewestBounds
  <2>1. CASE a = c /\ f \in K
    BY <1>1, <1>4, <1>5, <2>1, ValuesAreNumbers
  <2>2. CASE ~ (a = c /\ f \in K)
    BY <1>1, <1>4, <1>5, <2>2, ValuesAreNumbers DEF FlowOK, NewestBounds
  <2>3. QED BY <2>1, <2>2
<1>7. WaitingIsNewest'
  <2> SUFFICES ASSUME NEW t \in Sockets, NEW a \in Accounts, NEW f \in Fields,
                      session[t] = a, f \in DOMAIN delayed'[t]
               PROVE  /\ delayed'[t][f] = newest'[a][f]
                      /\ row[a][f] # newest'[a][f]
                      /\ \A x \in Values : Flying(a, f, x)' => x # newest'[a][f]
    BY <1>3 DEF WaitingIsNewest
  <2>1. f \in DOMAIN delayed[t] /\ delayed'[t][f] = delayed[t][f] /\ ~ (a = c /\ f \in K)
    OBVIOUS
  <2>2. newest'[a][f] = newest[a][f]
    BY <1>1, <2>1
  <2>3. QED BY <1>4, <2>1, <2>2 DEF FlowOK, WaitingIsNewest
<1>8. Remembered'
  <2> SUFFICES ASSUME NEW a \in Accounts, NEW f \in Fields
               PROVE  \/ newest'[a][f] = settled[a][f]
                      \/ \E x \in Values : x = newest'[a][f] /\ Flying(a, f, x)'
                      \/ \E t \in Sockets : session[t] = a /\ f \in DOMAIN delayed'[t]
    BY <1>3 DEF Remembered
  <2>1. CASE a = c /\ f \in K
    BY <1>1, <1>4, <2>1
  <2>2. CASE ~ (a = c /\ f \in K)
    <3>1. newest'[a][f] = newest[a][f]
      BY <1>1, <2>2
    <3>2. \A t \in Sockets : session[t] = a /\ f \in DOMAIN delayed[t] => f \in DOMAIN delayed'[t]
      BY <2>2
    <3>3. QED BY <1>4, <3>1, <3>2 DEF FlowOK, Remembered
  <2>3. QED BY <2>1, <2>2
<1>9. QED BY <1>2, <1>3, <1>6, <1>7, <1>8 DEF FlowOK

LEMMA HandlersWrite == Handlers \subseteq Writers
  BY DEF Handlers

LEMMA SaveUpdateKeeps ==
    ASSUME StoreOK, FlowOK, NEW w \in Handlers, NEW s \in Sockets,
           NEW sent \in play.updates, SaveUpdate(w, s, sent)
    PROVE  StoreOK' /\ FlowOK' /\ NoneInvented
<1> DEFINE keys == sent \ Immutable
           c == session[s]
           doc == [f \in keys \ {"MapData"} |-> version + 1]
           rest == [f \in DOMAIN delayed[s] \ keys |-> delayed[s][f]]
<1>1. w \in Writers /\ At(w, "idle") /\ c \in Accounts
  BY HandlersWrite DEF SaveUpdate, Quiet, FlowOK, FlowTypes
<1>2. sent \subseteq Fields \cup {"MapData"} /\ "MapData" \notin Fields
  BY UpdatesAssumption DEF FlowOK, FlowTypes
<1>3. Accepted(c, keys) /\ version + 1 \in Values
  BY DEF SaveUpdate, Accepted
<1>4. doc \in Documents /\ DOMAIN doc = keys \cap Fields
  <2>1. doc \in [keys \cap Fields -> Values]
    BY <1>2, <1>3
  <2>2. QED BY <2>1, DocumentIntro
<1>5. rest \in Documents
  <2>1. delayed[s] \in Documents
    BY DEF FlowOK, FlowTypes
  <2>2. rest \in [DOMAIN delayed[s] \ keys -> Values] /\ DOMAIN delayed[s] \subseteq Fields
    BY <2>1, DocumentElim
  <2>3. QED BY <2>2, DocumentIntro
<1>6. /\ delayed' = [delayed EXCEPT ![s] = rest]
      /\ Submit(w, c, doc)
      /\ UNCHANGED <<backend, row, lock, settled, play, session, flushes, task>>
  BY DEF SaveUpdate
<1>7. /\ delayed' \in [Sockets -> Documents]
      /\ \A t \in Sockets : delayed'[t] = IF t = s THEN rest ELSE delayed[t]
  BY <1>5, <1>6 DEF FlowOK, FlowTypes
<1>8. \A t \in Sockets : session[t] = c => t = s
  BY DEF SaveUpdate, FlowOK, OneSession
<1>9. ASSUME NEW t \in Sockets
      PROVE  /\ DOMAIN delayed'[t] = IF session[t] = c THEN DOMAIN delayed[t] \ keys
                                     ELSE DOMAIN delayed[t]
             /\ \A f \in DOMAIN delayed'[t] : delayed'[t][f] = delayed[t][f]
  BY <1>7, <1>8
<1>10. task' \in [Writers -> Tasks]
  BY <1>6 DEF FlowOK, FlowTypes
<1>11. \A f \in DOMAIN doc : doc[f] = version + 1
  OBVIOUS
<1>12. UNCHANGED <<backend, row, lock, settled, play, session, flushes>>
  BY <1>6
<1>13. Submit(w, c, doc)
  BY <1>6
<1>14. NoneInvented
  <2>1. \A a \in Accounts, f \in Immutable : \A x \in Values :
            Flying(a, f, x)' <=> Flying(a, f, x) \/ (a = c /\ f \in DOMAIN doc /\ x = doc[f])
    BY <1>1, <1>4, <1>12, <1>13, FlyingSubmit DEF flushes
  <2>2. QED BY <1>12, <2>1 DEF NoneInvented
<1> HIDE DEF doc, rest, keys, c
<1>15. StoreOK' /\ FlowOK'
  BY <1>1, <1>3, <1>4, <1>7, <1>9, <1>10, <1>11, <1>12, <1>13, SaveFlow
<1>16. QED BY <1>14, <1>15

LEMMA RedeemKeeps ==
    ASSUME StoreOK, FlowOK, NEW w \in Handlers, NEW c \in Accounts, NEW n,
           Redeem(w, c, n)
    PROVE  StoreOK' /\ FlowOK'
<1> DEFINE K == {"Password"}
           doc == [f \in K |-> version + 1]
<1>1. w \in Writers /\ At(w, "idle")
  BY HandlersWrite DEF Redeem, Quiet
<1>2. Accepted(c, K) /\ version + 1 \in Values
  BY DEF Redeem, Accepted
<1>3. K \subseteq Fields /\ K \subseteq Immutable
  BY PasswordResetAssumption
<1>4. doc \in Documents /\ DOMAIN doc = K \cap Fields /\ \A f \in DOMAIN doc : doc[f] = version + 1
  <2>1. doc \in [K -> Values]
    BY <1>2
  <2>2. QED BY <1>3, <2>1, DocumentIntro
<1>5. /\ Submit(w, c, doc)
      /\ UNCHANGED <<backend, row, lock, settled, play, session, delayed, flushes>>
  BY DEF Redeem, sessions
<1>6. task' \in [Writers -> Tasks]
  BY <1>1 DEF Redeem, FlowOK, FlowTypes, Tasks
<1>7. delayed' \in [Sockets -> Documents]
  BY <1>5 DEF FlowOK, FlowTypes
<1>8. ASSUME NEW t \in Sockets
      PROVE  /\ DOMAIN delayed'[t] = IF session[t] = c THEN DOMAIN delayed[t] \ K
                                     ELSE DOMAIN delayed[t]
             /\ \A f \in DOMAIN delayed'[t] : delayed'[t][f] = delayed[t][f]
  BY <1>3, <1>5 DEF FlowOK, WaitsInSessions
<1> HIDE DEF doc, K
<1>9. QED BY <1>1, <1>2, <1>4, <1>5, <1>6, <1>7, <1>8, SaveFlow
\* Values that leave the hands they were in for a writer, unchanged.
LEMMA HandOverFlow ==
    ASSUME StoreOK, FlowOK, StoreOK', FlowTypes',
           UNCHANGED <<row, settled, version, session, newest>>,
           \A a \in Accounts, f \in Fields : \A x \in Values :
               /\ Flying(a, f, x) => Flying(a, f, x)'
               /\ Flying(a, f, x)' => \/ Flying(a, f, x)
                                      \/ /\ x = newest[a][f]
                                         /\ \A t \in Sockets : session[t] = a =>
                                               f \notin DOMAIN delayed'[t],
           \A t \in Sockets, a \in Accounts, f \in Fields :
               session[t] = a /\ f \in DOMAIN delayed[t] =>
                   \/ f \in DOMAIN delayed'[t]
                   \/ \E x \in Values : x = newest[a][f] /\ Flying(a, f, x)',
           \A t \in Sockets : \A f \in DOMAIN delayed'[t] :
               f \in DOMAIN delayed[t] /\ delayed'[t][f] = delayed[t][f]
    PROVE  FlowOK'
<1>1. OneSession' /\ WaitsInSessions'
  BY DEF FlowOK, OneSession, WaitsInSessions
<1>2. NewestBounds'
  <2> SUFFICES ASSUME NEW a \in Accounts, NEW f \in Fields
               PROVE  /\ newest[a][f] <= version
                      /\ settled[a][f] <= newest[a][f]
                      /\ row[a][f] <= newest[a][f]
                      /\ \A x \in Values : Flying(a, f, x)' => x <= newest[a][f]
    BY DEF NewestBounds
  <2>1. newest[a][f] \in Values
    BY ValueFacts DEF FlowOK
  <2>2. QED BY <2>1, ValuesAreNumbers DEF FlowOK, NewestBounds
<1>3. WaitingIsNewest'
  <2> SUFFICES ASSUME NEW t \in Sockets, NEW a \in Accounts, NEW f \in Fields,
                      session[t] = a, f \in DOMAIN delayed'[t]
               PROVE  /\ delayed'[t][f] = newest[a][f]
                      /\ row[a][f] # newest[a][f]
                      /\ \A x \in Values : Flying(a, f, x)' => x # newest[a][f]
    BY DEF WaitingIsNewest
  <2>1. QED BY DEF FlowOK, WaitingIsNewest
<1>4. Remembered'
  <2> SUFFICES ASSUME NEW a \in Accounts, NEW f \in Fields
               PROVE  \/ newest[a][f] = settled[a][f]
                      \/ \E x \in Values : x = newest[a][f] /\ Flying(a, f, x)'
                      \/ \E t \in Sockets : session[t] = a /\ f \in DOMAIN delayed'[t]
    BY DEF Remembered
  <2>1. QED BY DEF FlowOK, Remembered
<1>5. QED BY <1>1, <1>2, <1>3, <1>4 DEF FlowOK

LEMMA CleanupKeeps ==
    ASSUME StoreOK, FlowOK, NEW w \in Handlers, NEW s \in Sockets, Cleanup(w, s)
    PROVE  StoreOK' /\ FlowOK' /\ NoneInvented
<1> DEFINE c == session[s]
           doc == delayed[s]
<1>1. /\ w \in Writers /\ At(w, "idle") /\ c \in Accounts /\ doc \in Documents
      /\ Submit(w, c, doc)
      /\ UNCHANGED <<backend, row, lock>> /\ UNCHANGED batch
      /\ UNCHANGED <<row, settled, version, session, newest>>
  BY HandlersWrite DEF Cleanup, Quiet, FlowOK, FlowTypes, flushes
<1>2. \A t \in Sockets : delayed'[t] = IF t = s THEN NoDocument ELSE delayed[t]
  BY DEF Cleanup, FlowOK, FlowTypes
<1>3. StoreOK'
  BY <1>1, SubmitStore
<1>4. FlowTypes'
  BY <1>1, NoDocumentIsOne DEF Cleanup, FlowOK, FlowTypes, flushes, Tasks
<1>5. ASSUME NEW a \in Accounts, NEW f \in Fields, NEW x \in Values
      PROVE  Flying(a, f, x)' <=> Flying(a, f, x) \/ (a = c /\ f \in DOMAIN doc /\ x = doc[f])
  BY <1>1, FlyingSubmit
<1>6. \A f \in DOMAIN doc : f \in Fields /\ doc[f] \in Values /\ doc[f] = newest[c][f]
  BY <1>1, DocumentElim DEF FlowOK, WaitingIsNewest
<1>7. \A t \in Sockets : session[t] = c => t = s
  BY <1>1, StoreAssumption DEF FlowOK, OneSession
<1>8. ASSUME NEW a \in Accounts, NEW f \in Fields, NEW x \in Values
      PROVE  /\ Flying(a, f, x) => Flying(a, f, x)'
             /\ Flying(a, f, x)' => \/ Flying(a, f, x)
                                    \/ /\ x = newest[a][f]
                                       /\ \A t \in Sockets : session[t] = a =>
                                             f \notin DOMAIN delayed'[t]
  BY <1>2, <1>5, <1>6, <1>7, NoDocumentIsOne
<1>9. ASSUME NEW t \in Sockets, NEW a \in Accounts, NEW f \in Fields,
             session[t] = a, f \in DOMAIN delayed[t]
      PROVE  \/ f \in DOMAIN delayed'[t]
             \/ \E x \in Values : x = newest[a][f] /\ Flying(a, f, x)'
  BY <1>2, <1>5, <1>6, <1>9
<1>10. \A t \in Sockets : \A f \in DOMAIN delayed'[t] :
          f \in DOMAIN delayed[t] /\ delayed'[t][f] = delayed[t][f]
  BY <1>2, NoDocumentIsOne
<1>11. NoneInvented
  <2>1. \A f \in DOMAIN doc : f \notin Immutable
    BY DEF FlowOK, WaitsInSessions
  <2>2. QED BY <1>1, <1>5, <2>1, UpdatesAssumption DEF NoneInvented
<1> HIDE DEF c, doc
<1>12. QED BY <1>1, <1>11, <1>3, <1>4, <1>8, <1>9, <1>10, HandOverFlow

LEMMA FlushNextKeeps ==
    ASSUME StoreOK, FlowOK, NEW k \in Flushers, FlushNext(k)
    PROVE  StoreOK' /\ FlowOK' /\ NoneInvented
<1>1. PICK c \in Accounts :
        /\ At(k, "idle") /\ ~ Empty(batch[k][c])
        /\ Submit(k, c, batch[k][c])
        /\ batch' = [batch EXCEPT ![k][c] = NoDocument]
        /\ UNCHANGED <<backend, row, lock, settled, play, version, sessions, stopping,
                       task, newest>>
  BY DEF FlushNext
<1> DEFINE doc == batch[k][c]
           new == Submitted(k, c, doc)
<1>2. k \in Writers /\ doc \in Documents /\ DOMAIN doc # {}
  BY <1>1, UpdatesAssumption DEF Flushers, FlowOK, FlowTypes, Empty
<1>3. new.account = c /\ new.doc = doc
  BY <1>2, SubmittedIsWrite
<1>4. StoreOK'
  BY <1>1, <1>2, SubmitStore
<1>5. /\ \A j \in Flushers, a \in Accounts :
            batch'[j][a] = IF j = k /\ a = c THEN NoDocument ELSE batch[j][a]
      /\ batch' \in [Flushers -> [Accounts -> Documents]]
  BY <1>1, NoDocumentIsOne DEF FlowOK, FlowTypes
<1>6. FlowTypes'
  BY <1>1, <1>5 DEF FlowOK, FlowTypes, sessions
<1>7. /\ \A v \in Writers : writer'[v] = IF v = k THEN new ELSE writer[v]
      /\ DOMAIN writer[k].doc = {}
  BY <1>1, <1>2, NoDocumentIsOne DEF Submit, StoreOK, StoreTypes, CarriedByWriters
<1> HIDE DEF doc, new
<1>8. ASSUME NEW a \in Accounts, NEW f \in Fields, NEW x \in Values
      PROVE  Flying(a, f, x)' <=> Flying(a, f, x)
  <2>1. ASSUME Flying(a, f, x)
        PROVE  Flying(a, f, x)'
    <3>1. CASE \E j \in Flushers : f \in DOMAIN batch[j][a] /\ batch[j][a][f] = x
      <4>1. PICK j \in Flushers : f \in DOMAIN batch[j][a] /\ batch[j][a][f] = x
        BY <3>1
      <4>2. CASE j = k /\ a = c
        BY <1>2, <1>3, <1>7, <4>1, <4>2 DEF Flying, doc
      <4>3. CASE ~ (j = k /\ a = c)
        BY <1>5, <4>1, <4>3 DEF Flying
      <4>4. QED BY <4>2, <4>3
    <3>2. CASE \E v \in Writers : /\ writer[v].account = a
                                  /\ f \in DOMAIN writer[v].doc /\ writer[v].doc[f] = x
      BY <1>7, <3>2 DEF Flying
    <3>3. QED BY <2>1, <3>1, <3>2 DEF Flying
  <2>2. ASSUME Flying(a, f, x)'
        PROVE  Flying(a, f, x)
    <3>1. CASE \E j \in Flushers : f \in DOMAIN batch'[j][a] /\ batch'[j][a][f] = x
      BY <1>5, <3>1, NoDocumentIsOne DEF Flying
    <3>2. CASE \E v \in Writers : /\ writer'[v].account = a
                                  /\ f \in DOMAIN writer'[v].doc /\ writer'[v].doc[f] = x
      BY <1>3, <1>7, <3>2 DEF Flying, doc
    <3>3. QED BY <2>2, <3>1, <3>2 DEF Flying
  <2>3. QED BY <2>1, <2>2
<1>9. UNCHANGED <<row, settled, version, session, newest>> /\ delayed' = delayed
  BY <1>1 DEF sessions
<1>10. NoneInvented
  BY <1>8, <1>9, UpdatesAssumption DEF NoneInvented
<1>11. QED BY <1>10, <1>4, <1>6, <1>8, <1>9, HandOverFlow
LEMMA TakenFacts ==
    ASSUME FlowOK, NEW a \in Accounts
    PROVE  /\ Taken(a) \in Documents
           /\ \A f \in DOMAIN Taken(a) : \E s \in Sockets :
                 session[s] = a /\ f \in DOMAIN delayed[s] /\ Taken(a)[f] = delayed[s][f]
           /\ \A s \in Sockets : session[s] = a => DOMAIN delayed[s] = DOMAIN Taken(a)
<1> DEFINE found == {s \in Holders(a) : Pending(s)}
<1>1. CASE found = {}
  <2>1. Taken(a) = NoDocument
    BY <1>1 DEF Taken
  <2>2. \A s \in Sockets : session[s] = a => DOMAIN delayed[s] = {}
    BY <1>1 DEF Holders, Pending, Empty
  <2>3. QED BY <2>1, <2>2, NoDocumentIsOne
<1>2. CASE found # {}
  <2>1. PICK s \in Sockets : session[s] = a /\ s \in found
    BY <1>2 DEF Holders
  <2>2. \A t \in Sockets : session[t] = a => t = s
    BY <2>1, StoreAssumption DEF FlowOK, OneSession
  <2>3. (CHOOSE t \in found : TRUE) = s
    BY <2>1, <2>2 DEF Holders
  <2>4. Taken(a) = delayed[s]
    BY <1>2, <2>3 DEF Taken
  <2>5. delayed[s] \in Documents
    BY DEF FlowOK, FlowTypes
  <2>6. QED BY <2>1, <2>2, <2>4, <2>5
<1>3. QED BY <1>1, <1>2

LEMMA FlushTakeFlow ==
    ASSUME StoreOK, FlowOK, NEW k \in Flushers, FlushTake(k), stopping' \in BOOLEAN
    PROVE  StoreOK' /\ FlowOK' /\ NoneInvented
<1>1. \A s \in Sockets : DOMAIN delayed'[s] = {} /\ delayed'[s] \in Documents
  BY NoDocumentIsOne DEF FlushTake, Pending, Empty, FlowOK, FlowTypes
<1>2. \A j \in Flushers, a \in Accounts :
         batch'[j][a] = IF j = k THEN Taken(a) ELSE batch[j][a]
  BY DEF FlushTake, FlowOK, FlowTypes
<1>3. \A a \in Accounts : DOMAIN batch[k][a] = {}
  BY DEF FlushTake, Written, Empty
<1>4. /\ UNCHANGED <<row, settled, version, session, newest>> /\ writer' = writer
      /\ UNCHANGED <<backend, row, writer, lock>>
  BY DEF FlushTake, db
<1>5. StoreOK'
  BY <1>4, DbStays
<1>6. FlowTypes'
  <2>1. batch' = [batch EXCEPT ![k] = [a \in Accounts |-> Taken(a)]]
    BY DEF FlushTake
  <2>2. batch' \in [Flushers -> [Accounts -> Documents]]
    BY <2>1, TakenFacts DEF FlowOK, FlowTypes
  <2>3. delayed' \in [Sockets -> Documents]
    BY <1>1 DEF FlushTake
  <2>4. QED BY <1>4, <2>2, <2>3 DEF FlushTake, FlowOK, FlowTypes
<1>7. ASSUME NEW a \in Accounts, NEW f \in Fields, NEW x \in Values
      PROVE  Flying(a, f, x)' <=> Flying(a, f, x) \/ (f \in DOMAIN Taken(a) /\ Taken(a)[f] = x)
  BY <1>2, <1>3, <1>4 DEF Flying
<1>8. ASSUME NEW a \in Accounts, NEW f \in Fields, f \in DOMAIN Taken(a)
      PROVE  Taken(a)[f] = newest[a][f] /\ Taken(a)[f] \in Values
  <2>1. Taken(a)[f] = newest[a][f]
    BY <1>8, TakenFacts DEF FlowOK, WaitingIsNewest
  <2>2. QED BY <2>1, ValueFacts DEF FlowOK
<1>9. ASSUME NEW t \in Sockets, NEW a \in Accounts, NEW f \in Fields,
             session[t] = a, f \in DOMAIN delayed[t]
      PROVE  \E x \in Values : x = newest[a][f] /\ Flying(a, f, x)'
  <2>1. f \in DOMAIN Taken(a)
    BY <1>9, TakenFacts
  <2>2. QED BY <1>7, <1>8, <2>1
<1>10. NoneInvented
  <2>1. \A a \in Accounts : \A f \in DOMAIN Taken(a) : f \notin Immutable
    BY TakenFacts DEF FlowOK, WaitsInSessions
  <2>2. QED BY <1>4, <1>7, <2>1, UpdatesAssumption DEF NoneInvented
<1>11. QED BY <1>10, <1>1, <1>4, <1>5, <1>6, <1>7, <1>8, <1>9, HandOverFlow

\* Sessions that are removed settle what waited in them.
LEMMA DropFlow ==
    ASSUME StoreOK, FlowOK, NEW gone, Dropped(gone),
           settled' \in Rows => FlowTypes', OneSession',
           \A t \in Sockets :
               IF t \in gone THEN DOMAIN delayed'[t] = {}
               ELSE delayed'[t] = delayed[t] /\ session'[t] = session[t],
           UNCHANGED <<backend, row, writer, lock, version, batch, newest>>
    PROVE  StoreOK' /\ FlowOK' /\ NoneInvented
<1>1. StoreOK'
  BY DbStays
<1>2. \A a \in Accounts, f \in Fields :
         settled'[a][f] = IF \E s \in gone \cap Holders(a) : f \in DOMAIN delayed[s]
                          THEN newest[a][f] ELSE settled[a][f]
  BY DEF Dropped
<1>3. settled' \in Rows
  <2>1. settled' = [a \in Accounts |-> [f \in Fields |->
            IF \E s \in gone \cap Holders(a) : f \in DOMAIN delayed[s]
            THEN newest[a][f] ELSE settled[a][f]]]
    BY DEF Dropped
  <2>2. \A a \in Accounts, f \in Fields : newest[a][f] \in Values /\ settled[a][f] \in Values
    BY ValueFacts DEF FlowOK
  <2>3. QED BY <2>1, <2>2 DEF Rows
<1>4. FlowTypes' /\ OneSession'
  BY <1>3
<1>5. WaitsInSessions'
  BY DEF FlowOK, WaitsInSessions
<1>6. ASSUME NEW a \in Accounts, NEW f \in Fields, NEW x
      PROVE  Flying(a, f, x)' <=> Flying(a, f, x)
  BY FlyingStays
<1>7. NewestBounds'
  <2> SUFFICES ASSUME NEW a \in Accounts, NEW f \in Fields
               PROVE  /\ newest[a][f] <= version
                      /\ settled'[a][f] <= newest[a][f]
                      /\ row[a][f] <= newest[a][f]
                      /\ \A x \in Values : Flying(a, f, x)' => x <= newest[a][f]
    BY DEF NewestBounds
  <2>1. newest[a][f] \in Values
    BY ValueFacts DEF FlowOK
  <2>2. QED BY <1>2, <1>6, <2>1, ValuesAreNumbers DEF FlowOK, NewestBounds
<1>8. WaitingIsNewest'
  <2> SUFFICES ASSUME NEW t \in Sockets, NEW a \in Accounts, NEW f \in Fields,
                      session'[t] = a, f \in DOMAIN delayed'[t]
               PROVE  /\ delayed'[t][f] = newest[a][f]
                      /\ row[a][f] # newest[a][f]
                      /\ \A x \in Values : Flying(a, f, x)' => x # newest[a][f]
    BY DEF WaitingIsNewest
  <2>1. session[t] = a /\ delayed'[t] = delayed[t]
    OBVIOUS
  <2>2. QED BY <1>6, <2>1 DEF FlowOK, WaitingIsNewest
<1>9. Remembered'
  <2> SUFFICES ASSUME NEW a \in Accounts, NEW f \in Fields
               PROVE  \/ newest[a][f] = settled'[a][f]
                      \/ \E x \in Values : x = newest[a][f] /\ Flying(a, f, x)'
                      \/ \E t \in Sockets : session'[t] = a /\ f \in DOMAIN delayed'[t]
    BY DEF Remembered
  <2>1. CASE \E t \in Sockets : session[t] = a /\ f \in DOMAIN delayed[t]
    BY <1>2, <2>1 DEF Holders
  <2>2. CASE ~ \E t \in Sockets : session[t] = a /\ f \in DOMAIN delayed[t]
    BY <1>2, <1>6, <2>2 DEF FlowOK, Remembered, Holders
  <2>3. QED BY <2>1, <2>2
<1>10. NoneInvented
  BY <1>6, UpdatesAssumption DEF NoneInvented
<1>11. QED BY <1>10, <1>1, <1>4, <1>5, <1>7, <1>8, <1>9 DEF FlowOK
LEMMA LoginKeeps ==
    ASSUME StoreOK, FlowOK, NEW s \in Sockets, NEW a \in Accounts, Login(s, a)
    PROVE  StoreOK' /\ FlowOK' /\ NoneInvented
<1> DEFINE gone == Holders(a) \cup {s}
<1>1. \A t \in Sockets : session'[t] = IF t = s THEN a ELSE IF t \in gone THEN NoAccount
                                       ELSE session[t]
  BY DEF Login
<1>2. OneSession'
  <2>1. \A t \in Sockets : t \notin gone => session[t] # a
    BY DEF Holders
  <2>2. QED BY <1>1, <2>1 DEF FlowOK, OneSession
<1>3. /\ session' \in [Sockets -> Accounts \cup {NoAccount}]
      /\ delayed' \in [Sockets -> Documents]
  BY NoDocumentIsOne DEF Login, FlowOK, FlowTypes
<1>4. settled' \in Rows => FlowTypes'
  BY <1>3 DEF Login, FlowOK, FlowTypes, flushes
<1>5. \A t \in Sockets :
         IF t \in gone THEN DOMAIN delayed'[t] = {}
         ELSE delayed'[t] = delayed[t] /\ session'[t] = session[t]
  BY <1>1, NoDocumentIsOne DEF Login
<1>6. /\ UNCHANGED <<backend, row, writer, lock, version, batch, newest>>
      /\ Dropped(gone)
  BY DEF Login, flushes
<1> HIDE DEF gone
<1>7. QED BY <1>2, <1>4, <1>5, <1>6, DropFlow

LEMMA RemoveKeeps ==
    ASSUME StoreOK, FlowOK, NEW w \in Handlers, Remove(w)
    PROVE  StoreOK' /\ FlowOK' /\ NoneInvented
<1> DEFINE gone == {task[w].socket}
<1>1. \A t \in Sockets :
         /\ session'[t] = IF t \in gone THEN NoAccount ELSE session[t]
         /\ delayed'[t] = IF t \in gone THEN NoDocument ELSE delayed[t]
  BY DEF Remove, FlowOK, FlowTypes
<1>2. OneSession'
  BY <1>1 DEF FlowOK, OneSession
<1>3. /\ session' \in [Sockets -> Accounts \cup {NoAccount}]
      /\ delayed' \in [Sockets -> Documents]
      /\ task' \in [Writers -> Tasks]
  BY NoDocumentIsOne DEF Remove, FlowOK, FlowTypes, Tasks, NoTask
<1>4. settled' \in Rows => FlowTypes'
  BY <1>3 DEF Remove, FlowOK, FlowTypes, flushes
<1>5. /\ UNCHANGED <<backend, row, writer, lock, version, batch, newest>>
      /\ Dropped(gone)
  BY DEF Remove, flushes
<1> HIDE DEF gone
<1>6. QED BY <1>1, <1>2, <1>4, <1>5, NoDocumentIsOne, DropFlow

\* Steps that move no value.
LEMMA QuietFlow ==
    ASSUME StoreOK, FlowOK, UNCHANGED <<db, play, version, sessions, flushes, newest>>,
           task' \in [Writers -> Tasks]
    PROVE  StoreOK' /\ FlowOK' /\ NoneInvented
<1>1. StoreOK'
  BY DbStays DEF db
<1>2. UNCHANGED <<row, settled, version, session, delayed, newest, writer, batch>>
  BY DEF db, sessions, flushes
<1>3. FlowTypes'
  BY <1>2 DEF FlowOK, FlowTypes, flushes
<1>4. \A a \in Accounts, f \in Fields : \A x \in Values : Flying(a, f, x)' <=> Flying(a, f, x)
  BY <1>2, FlyingStays
<1>5. NoneInvented
  BY <1>2, <1>4, UpdatesAssumption DEF NoneInvented
<1>6. QED BY <1>5, <1>1, <1>2, <1>3, <1>4, HandOverFlow

LEMMA RestartKeeps ==
    ASSUME StoreOK, FlowOK, StoreStops, UpdatesStop
    PROVE  StoreOK' /\ FlowOK' /\ NoneInvented
<1>1. StoreOK'
  BY StopStore
<1>2. /\ \A s \in Sockets : session'[s] = NoAccount /\ delayed'[s] = NoDocument
      /\ UNCHANGED <<version, newest, row>> /\ settled' = newest
  BY DEF UpdatesStop, StoreStops
<1>3. FlowTypes'
  BY NoDocumentIsOne DEF UpdatesStop, FlowOK, FlowTypes, Tasks, NoTask, Flushers
<1>4. ASSUME NEW a \in Accounts, NEW f, NEW x
      PROVE  ~ Flying(a, f, x)'
  <2>1. \A k \in Flushers : batch'[k][a] = NoDocument
    BY DEF UpdatesStop, Flushers
  <2>2. \A w \in Writers : writer'[w].doc = NoDocument
    BY IdleIsWrite DEF StoreStops
  <2>3. QED BY <2>1, <2>2, NoDocumentIsOne DEF Flying
<1>5. OneSession' /\ WaitsInSessions' /\ WaitingIsNewest'
  BY <1>2, NoDocumentIsOne DEF OneSession, WaitsInSessions, WaitingIsNewest
<1>6. NewestBounds'
  <2> SUFFICES ASSUME NEW a \in Accounts, NEW f \in Fields
               PROVE  /\ newest[a][f] <= version
                      /\ newest[a][f] <= newest[a][f]
                      /\ row[a][f] <= newest[a][f]
    BY <1>2, <1>4 DEF NewestBounds
  <2>1. newest[a][f] <= newest[a][f]
    BY ValueFacts, ValuesAreNumbers DEF FlowOK
  <2>2. QED BY <2>1 DEF FlowOK, NewestBounds
<1>7. Remembered'
  BY <1>2 DEF Remembered
<1>8. NoneInvented
  BY <1>2, <1>4, UpdatesAssumption DEF NoneInvented
<1>9. QED BY <1>8, <1>1, <1>3, <1>5, <1>6, <1>7 DEF FlowOK

LEMMA InitFlow ==
    ASSUME Init
    PROVE  StoreOK /\ FlowOK
<1>1. 0 \in Values
  BY StoreAssumption
<1>2. /\ row \in Rows /\ settled \in Rows /\ newest \in Rows
      /\ \A a \in Accounts, f \in Fields : row[a][f] = 0 /\ settled[a][f] = 0 /\ newest[a][f] = 0
  BY <1>1 DEF Init, StoreInit, UpdatesInit, Rows
<1>3. \A w \in Writers : writer[w] = Idle(FALSE)
  BY DEF Init, StoreInit
<1>4. StoreTypes
  BY <1>2, IdleIsWrite DEF Init, StoreInit, StoreTypes
<1>5. LockIsHeld
  BY <1>3, IdleIsWrite, StoreAssumption DEF Init, StoreInit, LockIsHeld, At
<1>6. CarriedByWriters
  BY <1>3, IdleIsWrite DEF CarriedByWriters, At
<1>7. FlowTypes
  BY <1>1, <1>2, NoDocumentIsOne DEF Init, UpdatesInit, FlowTypes, Flushers, Tasks, NoTask
<1>8. \A s \in Sockets : session[s] = NoAccount /\ delayed[s] = NoDocument
  BY DEF Init, UpdatesInit
<1>9. ASSUME NEW a \in Accounts, NEW f, NEW x
      PROVE  ~ Flying(a, f, x)
  <2>1. \A k \in Flushers : batch[k][a] = NoDocument
    BY DEF Init, UpdatesInit, Flushers
  <2>2. \A w \in Writers : writer[w].doc = NoDocument
    BY <1>3, IdleIsWrite
  <2>3. QED BY <2>1, <2>2, NoDocumentIsOne DEF Flying
<1>10. OneSession /\ WaitsInSessions /\ WaitingIsNewest
  BY <1>8, NoDocumentIsOne DEF OneSession, WaitsInSessions, WaitingIsNewest
<1>11. NewestBounds
  BY <1>2, <1>9 DEF NewestBounds, Init, UpdatesInit
<1>12. Remembered
  BY <1>2 DEF Remembered
<1>13. QED BY <1>4, <1>5, <1>6, <1>7, <1>10, <1>11, <1>12 DEF StoreOK, FlowOK
----------------------------------------------------------------------------
\* Resets: a number that is known is the newest of its account, and a password that
\* is anywhere was sent with such a number.

ResetTypes ==
    /\ resets \subseteq Accounts \X Nat
    /\ closed \in BOOLEAN /\ code \in Nat
    /\ issued \in [Accounts -> Nat]
    /\ granted \subseteq Accounts \X Nat

NumbersAreNewest == \A a \in Accounts : \A n \in Nat : <<a, n>> \in resets => n = issued[a]

PasswordsGranted ==
    \A a \in Accounts : \A x \in Values :
        (Flying(a, "Password", x) \/ row[a]["Password"] = x) /\ x # 0 => <<a, x>> \in granted

ResetsOK == ResetTypes /\ NumbersAreNewest /\ PasswordsGranted

IInv == StoreOK /\ FlowOK /\ ResetsOK

LEMMA SecretsStay ==
    ASSUME PasswordsGranted, NoneInvented, granted \subseteq granted'
    PROVE  PasswordsGranted'
<1>1. "Password" \in Immutable
  BY PasswordResetAssumption
<1>2. \A a \in Accounts : \A x \in Values :
         Flying(a, "Password", x)' \/ row'[a]["Password"] = x
         => Flying(a, "Password", x) \/ row[a]["Password"] = x
  BY <1>1 DEF NoneInvented
<1>3. QED BY <1>2 DEF PasswordsGranted

LEMMA ResetsStay ==
    ASSUME ResetsOK, NoneInvented, UNCHANGED resetting
    PROVE  ResetsOK'
<1>1. ResetTypes' /\ NumbersAreNewest' /\ granted' = granted
  BY DEF ResetsOK, ResetTypes, NumbersAreNewest, resetting
<1>2. PasswordsGranted'
  BY <1>1, SecretsStay DEF ResetsOK
<1>3. QED BY <1>1, <1>2 DEF ResetsOK

\* A step of a reset that only changes its task.
LEMMA ResetTask ==
    ASSUME IInv, NEW w \in Handlers, NEW t \in Tasks,
           task' = [task EXCEPT ![w] = t],
           UNCHANGED <<db, play, version, sessions, flushes, newest>>
    PROVE  StoreOK' /\ FlowOK' /\ NoneInvented
<1>1. task' \in [Writers -> Tasks]
  BY HandlersWrite DEF IInv, FlowOK, FlowTypes
<1>2. QED BY <1>1, QuietFlow DEF IInv

LEMMA AskResetKeeps == ASSUME IInv, NEW w \in Handlers, AskReset(w) PROVE IInv'
<1>1. task' = [task EXCEPT ![w] = [task[w] EXCEPT !.pc = "asking"]]
      /\ [task[w] EXCEPT !.pc = "asking"] \in Tasks
  BY HandlersWrite DEF AskReset, IInv, FlowOK, FlowTypes, Tasks
<1>2. StoreOK' /\ FlowOK' /\ NoneInvented
  BY <1>1, ResetTask DEF AskReset
<1>3. QED BY <1>2, ResetsStay DEF IInv, AskReset

LEMMA NoteResetKeeps == ASSUME IInv, NEW w \in Handlers, NoteReset(w) PROVE IInv'
<1>1. task' = [task EXCEPT ![w] = [task[w] EXCEPT !.pc = "searching"]]
      /\ [task[w] EXCEPT !.pc = "searching"] \in Tasks
  BY HandlersWrite DEF NoteReset, IInv, FlowOK, FlowTypes, Tasks
<1>2. StoreOK' /\ FlowOK' /\ NoneInvented
  BY <1>1, ResetTask DEF NoteReset
<1>3. ResetTypes' /\ NumbersAreNewest' /\ granted' = granted
  BY DEF NoteReset, IInv, ResetsOK, ResetTypes, NumbersAreNewest
<1>4. QED BY <1>2, <1>3, SecretsStay DEF IInv, ResetsOK

LEMMA NoTaskIsTask == NoTask \in Tasks
  BY DEF NoTask, Tasks

LEMMA IssueNumbersKeeps == ASSUME IInv, NEW w \in Handlers, IssueNumbers(w) PROVE IInv'
<1>1. PICK named \in Mailboxes \cup {{}} :
        LET last == code + Cardinality(named)
        IN  /\ last <= play.codes
            /\ \E drawn \in [named -> (code + 1)..last] :
                  /\ \A n \in (code + 1)..last : \E a \in named : drawn[a] = n
                  /\ resets' = {r \in resets : r[1] \notin named}
                                  \cup {<<a, drawn[a]>> : a \in named}
                  /\ issued' = [a \in Accounts |-> IF a \in named THEN drawn[a]
                                                   ELSE issued[a]]
            /\ code' = last
  BY DEF IssueNumbers
<1> DEFINE last == code + Cardinality(named)
<1>2. PICK drawn \in [named -> (code + 1)..last] :
        /\ resets' = {r \in resets : r[1] \notin named} \cup {<<a, drawn[a]>> : a \in named}
        /\ issued' = [a \in Accounts |-> IF a \in named THEN drawn[a] ELSE issued[a]]
  BY <1>1
<1>3. named \subseteq Accounts /\ IsFiniteSet(named)
  BY PasswordResetAssumption, FS_Subset, FS_EmptySet
<1>4. code \in Nat /\ last \in Nat /\ code' = last
  BY <1>1, <1>3, FS_CardinalityType DEF IInv, ResetsOK, ResetTypes
<1> HIDE DEF last
<1>5. \A a \in named : drawn[a] \in Nat
  BY <1>4
<1>6. ResetTypes'
  BY <1>2, <1>3, <1>4, <1>5 DEF IssueNumbers, IInv, ResetsOK, ResetTypes
<1>7. NumbersAreNewest'
  <2> SUFFICES ASSUME NEW a \in Accounts, NEW n \in Nat, <<a, n>> \in resets'
               PROVE  n = issued'[a]
    BY DEF NumbersAreNewest
  <2>1. CASE a \in named
    BY <1>2, <2>1
  <2>2. CASE a \notin named
    BY <1>2, <2>2 DEF IInv, ResetsOK, NumbersAreNewest
  <2>3. QED BY <2>1, <2>2
<1>8. StoreOK' /\ FlowOK' /\ NoneInvented
  BY NoTaskIsTask, ResetTask DEF IssueNumbers
<1>9. granted' = granted
  BY DEF IssueNumbers
<1>10. QED BY <1>6, <1>7, <1>8, <1>9, SecretsStay DEF IInv, ResetsOK

LEMMA ForgetNumbersKeeps == ASSUME IInv, NEW w \in Handlers, ForgetNumbers(w) PROVE IInv'
<1>1. StoreOK' /\ FlowOK' /\ NoneInvented
  BY NoTaskIsTask, ResetTask DEF ForgetNumbers
<1>2. resets' \subseteq resets /\ UNCHANGED <<closed, code, issued, granted>>
  BY DEF ForgetNumbers
<1>3. ResetTypes' /\ NumbersAreNewest'
  BY <1>2 DEF IInv, ResetsOK, ResetTypes, NumbersAreNewest
<1>4. QED BY <1>1, <1>2, <1>3, SecretsStay DEF IInv, ResetsOK

LEMMA FiveSecondsKeeps == ASSUME IInv, FiveSecondsPass PROVE IInv'
<1>1. task' \in [Writers -> Tasks]
  BY DEF FiveSecondsPass, IInv, FlowOK, FlowTypes
<1>2. StoreOK' /\ FlowOK' /\ NoneInvented
  BY <1>1, QuietFlow DEF FiveSecondsPass, IInv
<1>3. ResetTypes' /\ NumbersAreNewest' /\ granted' = granted
  BY DEF FiveSecondsPass, IInv, ResetsOK, ResetTypes, NumbersAreNewest
<1>4. QED BY <1>2, <1>3, SecretsStay DEF IInv, ResetsOK

\* The password that is sent with a number is granted, for the number is the newest.
LEMMA RedeemResets ==
    ASSUME IInv, NEW w \in Handlers, NEW c \in Accounts, NEW n \in Nat, Redeem(w, c, n)
    PROVE  IInv'
<1> DEFINE doc == [f \in {"Password"} |-> version + 1]
<1>1. StoreOK' /\ FlowOK'
  BY RedeemKeeps DEF IInv
<1>2. <<c, n>> \in resets /\ UNCHANGED <<resets, closed, code, issued>>
  BY DEF Redeem
<1>3. granted' = granted \cup {<<c, version + 1>>}
  BY <1>2 DEF Redeem, IInv, ResetsOK, NumbersAreNewest
<1>4. version + 1 \in Nat /\ version + 1 \in Values
  BY ValuesAreNumbers DEF Redeem, Accepted
<1>5. ResetTypes' /\ NumbersAreNewest'
  BY <1>2, <1>3, <1>4 DEF IInv, ResetsOK, ResetTypes, NumbersAreNewest
<1>6. PasswordsGranted'
  <2>1. doc \in Documents
    <3>1. doc \in [{"Password"} -> Values]
      BY <1>4
    <3>2. QED BY <3>1, DocumentIntro, PasswordResetAssumption
  <2>2. /\ w \in Writers /\ At(w, "idle") /\ Submit(w, c, doc) /\ UNCHANGED batch
        /\ row' = row
    BY HandlersWrite DEF Redeem, Quiet, flushes
  <2>3. ASSUME NEW a \in Accounts, NEW x \in Values
        PROVE  Flying(a, "Password", x)' => Flying(a, "Password", x) \/ (a = c /\ x = version + 1)
    BY <2>1, <2>2, FlyingSubmit DEF IInv
  <2>4. QED BY <1>3, <2>2, <2>3 DEF IInv, ResetsOK, PasswordsGranted
<1>7. QED BY <1>1, <1>5, <1>6 DEF IInv, ResetsOK
----------------------------------------------------------------------------
\* The invariant is inductive.

LEMMA UpdateStepKeeps == ASSUME IInv, UpdateStep PROVE IInv'
<1>1. StoreOK /\ FlowOK /\ ResetsOK
  BY DEF IInv
<1>2. ASSUME NEW s \in Sockets, NEW sent \in play.updates, DelayUpdate(s, sent),
             UNCHANGED resetting
      PROVE  IInv'
  BY <1>1, <1>2, DelayUpdateKeeps, ResetsStay DEF IInv
<1>3. ASSUME NEW w \in Handlers, NEW s \in Sockets, NEW sent \in play.updates,
             SaveUpdate(w, s, sent), UNCHANGED resetting
      PROVE  IInv'
  BY <1>1, <1>3, SaveUpdateKeeps, ResetsStay DEF IInv
<1>4. ASSUME NEW s \in Sockets, CharacterUpdate(s), UNCHANGED resetting
      PROVE  IInv'
  BY <1>1, <1>4, CharacterUpdateKeeps, ResetsStay DEF IInv
<1>5. ASSUME NEW s \in Sockets, NEW a \in Accounts, Login(s, a), UNCHANGED resetting
      PROVE  IInv'
  BY <1>1, <1>5, LoginKeeps, ResetsStay DEF IInv
<1>6. ASSUME NEW w \in Handlers, NEW s \in Sockets, Cleanup(w, s), UNCHANGED resetting
      PROVE  IInv'
  BY <1>1, <1>6, CleanupKeeps, ResetsStay DEF IInv
<1>7. ASSUME NEW w \in Handlers, Remove(w), UNCHANGED resetting
      PROVE  IInv'
  BY <1>1, <1>7, RemoveKeeps, ResetsStay DEF IInv
<1>8. ASSUME PeriodicFlush, UNCHANGED resetting
      PROVE  IInv'
  <2>1. Periodic \in Flushers /\ FlushTake(Periodic) /\ stopping' \in BOOLEAN
    BY <1>8 DEF PeriodicFlush, Flushers, IInv, FlowOK, FlowTypes
  <2>2. QED BY <1>1, <1>8, <2>1, FlushTakeFlow, ResetsStay DEF IInv
<1>9. ASSUME ShutdownFlush, UNCHANGED resetting
      PROVE  IInv'
  <2>1. Shutdown \in Flushers /\ FlushTake(Shutdown) /\ stopping' \in BOOLEAN
    BY <1>9 DEF ShutdownFlush, Flushers
  <2>2. QED BY <1>1, <1>9, <2>1, FlushTakeFlow, ResetsStay DEF IInv
<1>10. ASSUME NEW k \in Flushers, FlushNext(k), UNCHANGED resetting
       PROVE  IInv'
  BY <1>1, <1>10, FlushNextKeeps, ResetsStay DEF IInv
<1>11. QED BY <1>2, <1>3, <1>4, <1>5, <1>6, <1>7, <1>8, <1>9, <1>10 DEF UpdateStep, Flushers

LEMMA ResetStepKeeps == ASSUME IInv, NEW w \in Handlers, ResetStep(w) PROVE IInv'
<1>1. ASSUME NEW a \in Accounts, NEW n \in 1..code, Redeem(w, a, n)
      PROVE  IInv'
  <2>1. n \in Nat
    BY DEF IInv, ResetsOK, ResetTypes
  <2>2. QED BY <1>1, <2>1, RedeemResets
<1>2. QED BY <1>1, AskResetKeeps, NoteResetKeeps, IssueNumbersKeeps, ForgetNumbersKeeps
      DEF ResetStep

LEMMA RestartResets == ASSUME IInv, Restart PROVE IInv'
<1>1. StoreOK' /\ FlowOK' /\ NoneInvented
  BY RestartKeeps DEF IInv, Restart
<1>2. ResetTypes' /\ NumbersAreNewest' /\ granted' = granted
  BY DEF Restart, ResetsStop, IInv, ResetsOK, ResetTypes, NumbersAreNewest
<1>3. QED BY <1>1, <1>2, SecretsStay DEF IInv, ResetsOK

LEMMA StepIInv == IInv /\ Next => IInv'
<1> SUFFICES ASSUME IInv, Next PROVE IInv'
  OBVIOUS
<1>1. ASSUME NEW w \in Writers, WriteStep(w)
      PROVE  IInv'
  BY <1>1, WriteStepKeeps, ResetsStay DEF IInv
<1>2. QED BY <1>1, UpdateStepKeeps, ResetStepKeeps, FiveSecondsKeeps, RestartResets DEF Next

LEMMA StutterIInv == IInv /\ UNCHANGED vars => IInv'
<1> SUFFICES ASSUME IInv, UNCHANGED vars PROVE IInv'
  OBVIOUS
<1>1. UNCHANGED <<db, play, version, sessions, flushes, newest>> /\ UNCHANGED resetting
  BY DEF vars, updates
<1>2. task' \in [Writers -> Tasks]
  BY DEF vars, updates, IInv, FlowOK, FlowTypes
<1>3. StoreOK' /\ FlowOK' /\ NoneInvented
  BY <1>1, <1>2, QuietFlow DEF IInv
<1>4. QED BY <1>1, <1>3, ResetsStay DEF IInv

LEMMA InitIInv == Init => IInv
<1> SUFFICES ASSUME Init PROVE IInv
  OBVIOUS
<1>1. StoreOK /\ FlowOK
  BY InitFlow
<1>2. ResetTypes /\ NumbersAreNewest
  BY DEF Init, PasswordResetInit, ResetTypes, NumbersAreNewest
<1>3. PasswordsGranted
  <2>1. \A a \in Accounts : row[a]["Password"] = 0
    BY PasswordResetAssumption DEF Init, StoreInit
  <2>2. \A a \in Accounts : \A x \in Values : ~ Flying(a, "Password", x)
    <3>1. \A k \in Flushers, a \in Accounts : batch[k][a] = NoDocument
      BY DEF Init, UpdatesInit, Flushers
    <3>2. \A w \in Writers : writer[w].doc = NoDocument
      BY IdleIsWrite DEF Init, StoreInit
    <3>3. QED BY <3>1, <3>2, NoDocumentIsOne DEF Flying
  <2>3. QED BY <2>1, <2>2 DEF PasswordsGranted
<1>4. QED BY <1>1, <1>2, <1>3 DEF IInv, ResetsOK

\* IInv is an inductive invariant of the accounts.
THEOREM Invariance == Spec => []IInv
<1>1. IInv /\ [Next]_vars => IInv'
  BY StepIInv, StutterIInv
<1>2. QED BY InitIInv, <1>1, PTL DEF Spec

\* Every variable keeps its type, and the lock is held by the one writer that is
\* between its read and its commit.
THEOREM TypeCorrect == Spec => []TypeOK
<1>1. IInv => TypeOK
  BY DEF IInv, StoreOK, StoreTypes, LockIsHeld, FlowOK, FlowTypes, ResetsOK, ResetTypes,
         TypeOK, Flushers
<1>2. QED BY Invariance, <1>1, PTL

\* What waits in a session is the newest value of its field and is nowhere else.
THEOREM WaitingValuesAreNewest == Spec => []DelayedIsNewest
<1>1. IInv => DelayedIsNewest
  <2> SUFFICES ASSUME IInv, NEW s \in Sockets, NEW f \in DOMAIN delayed[s]
               PROVE  LET a == session[s]
                      IN  /\ a # NoAccount
                          /\ delayed[s][f] = newest[a][f]
                          /\ newest[a][f] \notin InFlight(a, f) \cup {row[a][f]}
    BY DEF DelayedIsNewest
  <2> DEFINE a == session[s]
             x == newest[a][f]
  <2>1. a \in Accounts /\ f \in Fields
    BY WaitingFacts DEF IInv
  <2>2. a # NoAccount
    BY <2>1, StoreAssumption
  <2>3. delayed[s][f] = x /\ row[a][f] # x /\ \A y \in Values : Flying(a, f, y) => y # x
    BY <2>1 DEF IInv, FlowOK, WaitingIsNewest
  <2>4. x \in Values
    BY <2>1, ValueFacts DEF IInv, FlowOK
  <2> HIDE DEF a, x
  <2>5. x \notin InFlight(a, f)
    BY <2>1, <2>3, <2>4, FlyingIsInFlight
  <2>6. QED BY <2>2, <2>3, <2>5 DEF a, x
<1>2. QED BY Invariance, <1>1, PTL

\* The newest value of a field waits, flies, or is settled.
THEOREM UpdatesAreRemembered == Spec => []NoUpdateForgotten
<1>1. IInv => NoUpdateForgotten
  <2> SUFFICES ASSUME IInv, NEW a \in Accounts, NEW f \in Fields
               PROVE  \/ newest[a][f] \in {settled[a][f]} \cup InFlight(a, f)
                      \/ \E s \in Holders(a) : f \in DOMAIN delayed[s]
                                               /\ delayed[s][f] = newest[a][f]
    BY DEF NoUpdateForgotten
  <2>1. CASE newest[a][f] = settled[a][f]
    BY <2>1
  <2>2. CASE \E x \in Values : x = newest[a][f] /\ Flying(a, f, x)
    BY <2>2, FlyingIsInFlight
  <2>3. CASE \E s \in Sockets : session[s] = a /\ f \in DOMAIN delayed[s]
    BY <2>3 DEF IInv, FlowOK, WaitingIsNewest, Holders
  <2>4. QED BY <2>1, <2>2, <2>3 DEF IInv, FlowOK, Remembered
<1>2. QED BY Invariance, <1>1, PTL

\* No password reaches a row but with the newest number of its account.
THEOREM OnlyGrantedPasswords == Spec => []PasswordsAreGranted
<1>1. IInv => PasswordsAreGranted
  <2> SUFFICES ASSUME IInv, NEW a \in Accounts, row[a]["Password"] # 0
               PROVE  <<a, row[a]["Password"]>> \in granted
    BY DEF PasswordsAreGranted
  <2>1. row[a]["Password"] \in Values
    BY ValueFacts, PasswordResetAssumption DEF IInv, FlowOK
  <2>2. QED BY <2>1 DEF IInv, ResetsOK, PasswordsGranted
<1>2. QED BY Invariance, <1>1, PTL
----------------------------------------------------------------------------
\* The store implements the table. A write is asked for when it is submitted, and
\* applied by the one step that changes the row: this is where the copy that the
\* writer has read must still be the row.

asked == [w \in Writers |-> Wanted(w)]

TableStep == [Records!Next]_<<row, asked>>

LEMMA WantedFacts ==
    ASSUME StoreOK, NEW w \in Writers
    PROVE  /\ At(w, "idle") => asked[w] = NoRequest
           /\ ~ At(w, "idle") => /\ asked[w] # NoRequest
                                 /\ asked[w].account = writer[w].account
                                 /\ asked[w].doc = writer[w].doc
  BY StoreAssumption DEF asked, Wanted, NoRequest, StoreOK, CarriedByWriters

LEMMA SetIsMerge == \A old, doc : Records!Set(old, doc) = Merge(old, doc)
  BY DEF Records!Set, Merge

\* Only the request of w changes.
LEMMA AskedChange ==
    ASSUME NEW w \in Writers, \A v \in Writers : v # w => writer'[v] = writer[v]
    PROVE  asked' = [asked EXCEPT ![w] = Wanted(w)']
<1>1. \A v \in Writers : v # w => Wanted(v)' = Wanted(v)
  BY DEF Wanted, At
<1>2. QED BY <1>1 DEF asked

LEMMA AskedStays ==
    ASSUME UNCHANGED writer
    PROVE  asked' = asked
  BY DEF asked, Wanted, At

LEMMA SubmitTable ==
    ASSUME StoreOK, NEW w \in Writers, NEW a \in Accounts, NEW doc \in Documents,
           At(w, "idle"), Submit(w, a, doc), UNCHANGED row
    PROVE  TableStep
<1> DEFINE new == Submitted(w, a, doc)
<1>1. writer' = [writer EXCEPT ![w] = new] /\ writer'[w] = new
      /\ \A v \in Writers : v # w => writer'[v] = writer[v]
  BY DEF Submit, StoreOK, StoreTypes
<1>2. asked' = [asked EXCEPT ![w] = Wanted(w)'] /\ asked[w] = NoRequest
  BY <1>1, AskedChange, WantedFacts
<1>3. \/ new.pc = "waiting" /\ new.account = a /\ new.doc = doc
      \/ new.pc = "idle"
  BY SubmittedIsWrite
<1>4. CASE new.pc = "idle"
  <2>1. Wanted(w)' = NoRequest
    BY <1>1, <1>4 DEF Wanted, At
  <2>2. asked' = asked
    BY <1>2, <2>1 DEF asked
  <2>3. QED BY <2>2 DEF TableStep
<1>5. CASE new.pc = "waiting" /\ new.account = a /\ new.doc = doc
  <2>1. Wanted(w)' = [account |-> a, doc |-> doc]
    BY <1>1, <1>5 DEF Wanted, At
  <2>2. asked'[w] = [account |-> a, doc |-> doc]
    BY <1>2, <2>1 DEF asked
  <2>3. /\ asked[w] = NoRequest
        /\ asked'[w] \in [account : Accounts, doc : Documents]
        /\ asked' = [asked EXCEPT ![w] = asked'[w]]
        /\ UNCHANGED row
    <3>1. asked' = [asked EXCEPT ![w] = asked'[w]]
      BY <1>2, <2>1, <2>2
    <3>2. asked'[w] \in [account : Accounts, doc : Documents]
      BY <2>2
    <3>3. QED BY <1>2, <3>1, <3>2
  <2>4. Records!Ask(w)
    BY <2>3 DEF Records!Ask, Records!Requests, asked
  <2>5. QED BY <2>4 DEF TableStep, Records!Next
<1>6. QED BY <1>3, <1>4, <1>5

LEMMA EndsTable ==
    ASSUME StoreOK, NEW w \in Writers, NEW e \in BOOLEAN, ~ At(w, "idle"), Ends(w, e),
           \/ row' = row
           \/ row' = [row EXCEPT ![writer[w].account] = Merge(@, writer[w].doc)]
    PROVE  TableStep
<1>1. /\ writer'[w] = Idle(e)
      /\ \A v \in Writers : v # w => writer'[v] = writer[v]
  BY DEF Ends, StoreOK, StoreTypes
<1>2. Wanted(w)' = NoRequest
  BY <1>1, IdleIsWrite DEF Wanted, At
<1>3. asked' = [asked EXCEPT ![w] = NoRequest]
  BY <1>1, <1>2, AskedChange
<1>4. /\ asked[w] # NoRequest
      /\ asked[w].account = writer[w].account /\ asked[w].doc = writer[w].doc
  BY WantedFacts
<1>5. CASE row' = row
  <2>1. asked[w] # NoRequest /\ asked' = [asked EXCEPT ![w] = NoRequest] /\ UNCHANGED row
    BY <1>3, <1>4, <1>5
  <2>2. Records!Reject(w)
    BY <2>1 DEF Records!Reject, asked
  <2>3. QED BY <2>2 DEF TableStep, Records!Next
<1>6. CASE row' = [row EXCEPT ![writer[w].account] = Merge(@, writer[w].doc)]
  <2>1. /\ asked[w] # NoRequest
        /\ row' = [row EXCEPT ![asked[w].account] = Records!Set(@, asked[w].doc)]
        /\ asked' = [asked EXCEPT ![w] = NoRequest]
    BY <1>3, <1>4, <1>6, SetIsMerge
  <2>2. Records!Apply(w)
    BY <2>1 DEF Records!Apply, asked
  <2>3. QED BY <2>2 DEF TableStep, Records!Next
<1>7. QED BY <1>5, <1>6

LEMMA GoesOnTable ==
    ASSUME StoreOK, NEW w \in Writers, ~ At(w, "idle"), ~ At(w, "idle")', UNCHANGED row,
           writer'[w].account = writer[w].account, writer'[w].doc = writer[w].doc,
           \A v \in Writers : v # w => writer'[v] = writer[v]
    PROVE  TableStep
<1>1. Wanted(w)' = Wanted(w)
  BY DEF Wanted
<1>2. asked' = asked
  BY <1>1, AskedChange DEF asked
<1>3. QED BY <1>2 DEF TableStep

LEMMA QuietTable ==
    ASSUME UNCHANGED <<row, writer>>
    PROVE  TableStep
  BY AskedStays DEF TableStep

LEMMA WriteStepTable ==
    ASSUME StoreOK, NEW w \in Writers, WriteStep(w)
    PROVE  TableStep
<1>1. CASE Update(w)
  BY <1>1, EndsTable DEF Update, At
<1>2. CASE Acquire(w)
  BY <1>2, GoesOnTable DEF Acquire, At, StoreOK, StoreTypes, Writes
<1>3. CASE Read(w)
  BY <1>3, GoesOnTable DEF Read, At, StoreOK, StoreTypes, Writes
<1>4. CASE Commit(w)
  <2>1. writer[w].copy = row[writer[w].account] /\ ~ At(w, "idle")
    BY <1>4 DEF Commit, StoreOK, CarriedByWriters, At
  <2>2. QED BY <1>4, <2>1, EndsTable DEF Commit
<1>5. CASE Busy(w)
  <2>1. CASE Waits(w)
    BY <1>5, <2>1, GoesOnTable DEF Busy, Waits, At, StoreOK, StoreTypes, Writes
  <2>2. CASE GivesUp(w)
    BY <1>5, <2>2, EndsTable DEF Busy, GivesUp, At
  <2>3. QED BY <1>5, <2>1, <2>2 DEF Busy
<1>6. CASE Fail(w)
  BY <1>6, EndsTable DEF Fail, At
<1>7. QED BY <1>1, <1>2, <1>3, <1>4, <1>5, <1>6 DEF WriteStep

LEMMA SaveUpdateTable ==
    ASSUME IInv, NEW w \in Handlers, NEW s \in Sockets, NEW sent \in play.updates,
           SaveUpdate(w, s, sent)
    PROVE  TableStep
<1> DEFINE keys == (sent \ Immutable) \ {"MapData"}
           doc == [f \in keys |-> version + 1]
<1>1. keys \subseteq Fields /\ version + 1 \in Values
  BY UpdatesAssumption DEF SaveUpdate, Accepted, IInv, FlowOK, FlowTypes
<1>2. doc \in Documents
  <2>1. doc \in [keys -> Values]
    BY <1>1
  <2>2. QED BY <1>1, <2>1, DocumentIntro
<1>3. /\ w \in Writers /\ At(w, "idle") /\ session[s] \in Accounts
      /\ Submit(w, session[s], doc) /\ UNCHANGED row
  BY HandlersWrite DEF SaveUpdate, Quiet, IInv, FlowOK, FlowTypes
<1> HIDE DEF doc
<1>4. QED BY <1>2, <1>3, SubmitTable DEF IInv

LEMMA UpdateStepTable == ASSUME IInv, UpdateStep PROVE TableStep
<1>1. ASSUME NEW w \in Handlers, NEW s \in Sockets, Cleanup(w, s)
      PROVE  TableStep
  <2>1. /\ w \in Writers /\ At(w, "idle") /\ session[s] \in Accounts
        /\ delayed[s] \in Documents
        /\ Submit(w, session[s], delayed[s]) /\ UNCHANGED row
    BY <1>1, HandlersWrite DEF Cleanup, Quiet, IInv, FlowOK, FlowTypes
  <2>2. QED BY <2>1, SubmitTable DEF IInv
<1>2. ASSUME NEW k \in Flushers, FlushNext(k)
      PROVE  TableStep
  <2>1. PICK a \in Accounts : At(k, "idle") /\ Submit(k, a, batch[k][a]) /\ UNCHANGED row
    BY <1>2 DEF FlushNext
  <2>2. k \in Writers /\ batch[k][a] \in Documents
    BY UpdatesAssumption DEF Flushers, IInv, FlowOK, FlowTypes
  <2>3. QED BY <2>1, <2>2, SubmitTable DEF IInv
<1>3. ASSUME NEW s \in Sockets, NEW sent \in play.updates, DelayUpdate(s, sent)
      PROVE  TableStep
  BY <1>3, QuietTable DEF DelayUpdate, db
<1>4. ASSUME NEW s \in Sockets, CharacterUpdate(s)
      PROVE  TableStep
  BY <1>4, QuietTable DEF CharacterUpdate, db
<1>5. ASSUME NEW s \in Sockets, NEW a \in Accounts, Login(s, a)
      PROVE  TableStep
  BY <1>5, QuietTable DEF Login
<1>6. ASSUME NEW w \in Handlers, Remove(w)
      PROVE  TableStep
  BY <1>6, QuietTable DEF Remove
<1>7. CASE PeriodicFlush \/ ShutdownFlush
  BY <1>7, QuietTable DEF PeriodicFlush, ShutdownFlush, FlushTake, db
<1>8. QED
  BY <1>1, <1>2, <1>3, <1>4, <1>5, <1>6, <1>7, SaveUpdateTable DEF UpdateStep, Flushers

LEMMA ResetStepTable == ASSUME IInv, NEW w \in Handlers, ResetStep(w) PROVE TableStep
<1>1. ASSUME NEW a \in Accounts, NEW n, Redeem(w, a, n)
      PROVE  TableStep
  <2> DEFINE doc == [f \in {"Password"} |-> version + 1]
  <2>1. doc \in Documents
    <3>1. doc \in [{"Password"} -> Values]
      BY <1>1 DEF Redeem, Accepted
    <3>2. QED BY <3>1, DocumentIntro, PasswordResetAssumption
  <2>2. w \in Writers /\ At(w, "idle") /\ Submit(w, a, doc) /\ UNCHANGED row
    BY <1>1, HandlersWrite DEF Redeem, Quiet
  <2> HIDE DEF doc
  <2>3. QED BY <2>1, <2>2, SubmitTable DEF IInv
<1>2. CASE AskReset(w) \/ NoteReset(w) \/ IssueNumbers(w) \/ ForgetNumbers(w)
  BY <1>2, QuietTable DEF AskReset, NoteReset, IssueNumbers, ForgetNumbers, db
<1>3. QED BY <1>1, <1>2 DEF ResetStep

LEMMA RestartTable == ASSUME Restart PROVE TableStep
<1>1. row' = row /\ writer' = [w \in Writers |-> Idle(FALSE)]
  BY DEF Restart, StoreStops
<1>2. \A w \in Writers : Wanted(w)' = NoRequest
  BY <1>1, IdleIsWrite DEF Wanted, At
<1>3. asked' = [w \in Writers |-> NoRequest]
  BY <1>2 DEF asked
<1>4. Records!Stop
  BY <1>1, <1>3 DEF Records!Stop, asked
<1>5. QED BY <1>4 DEF TableStep, Records!Next

\* Every step of the accounts is a step of the table, or none: no write undoes what
\* another one has written, and one that fails or is cut off has written nothing.
THEOREM StoreImplementsTable == Spec => WritesAreAtomic
<1>1. Init => Records!Init
  <2> SUFFICES ASSUME Init PROVE Records!Init
    OBVIOUS
  <2>1. \A w \in Writers : writer[w].pc = "idle"
    BY IdleIsWrite DEF Init, StoreInit
  <2>2. asked = [w \in Writers |-> NoRequest]
    BY <2>1 DEF asked, Wanted, At
  <2>3. row = [a \in Accounts |-> [f \in Fields |-> 0]]
    BY DEF Init, StoreInit
  <2>4. QED BY <2>2, <2>3 DEF Records!Init, asked
<1>2. IInv /\ [Next]_vars => TableStep
  <2> SUFFICES ASSUME IInv, [Next]_vars PROVE TableStep
    OBVIOUS
  <2>1. CASE UNCHANGED vars
    BY <2>1, QuietTable DEF vars, db
  <2>2. CASE FiveSecondsPass
    BY <2>2, QuietTable DEF FiveSecondsPass, db
  <2>3. ASSUME NEW w \in Writers, WriteStep(w)
        PROVE  TableStep
    BY <2>3, WriteStepTable DEF IInv
  <2>4. QED BY <2>1, <2>2, <2>3, UpdateStepTable, ResetStepTable, RestartTable DEF Next
<1>3. QED BY Invariance, <1>1, <1>2, PTL DEF Spec, WritesAreAtomic, Records!Spec, TableStep, asked
=============================================================================
