--------------------------- MODULE PrisonProofs ---------------------------
(***************************************************************************)
(* Proofs about the live views of the sectors (module Prison): a member is *)
(* in one view at most, and the views implement Placement, for any number  *)
(* of members, hosts, sectors and handlers, any capacity and any clock.    *)
(***************************************************************************)
EXTENDS Prison, ListsProofs

\* m is in the view of x.
Inside(m, x) == x \in DOMAIN views /\ m \in views[x]

ViewsOK ==
    /\ DOMAIN views \subseteq Hosts \X Sectors
    /\ \A x \in DOMAIN views : views[x] \subseteq Members /\ views[x] # {}
    /\ InOneSector

Fields == DOMAIN NoTask

\* A handler that is about to enter a view knows a member and a sector.
TaskOK ==
    /\ DOMAIN task = Tasks
    /\ \A k \in Tasks :
          /\ DOMAIN task[k] = Fields
          /\ task[k].pc \in {"knock", "join"} =>
                task[k].who \in Members /\ task[k].sector \in Hosts \X Sectors

IInv == ViewsOK /\ TaskOK

----------------------------------------------------------------------------
\* Operators on views.

\* Dropping the empty views keeps who is inside where.
LEMMA RetainedFacts ==
    ASSUME NEW v
    PROVE  /\ DOMAIN Retained(v) = {y \in DOMAIN v : v[y] # {}}
           /\ \A y \in DOMAIN Retained(v) : Retained(v)[y] = v[y]
  BY DEF Retained

\* A member that leaves one view, or every view, is the only one that moves.
LEMMA LeavingOne ==
    ASSUME ViewsOK, NEW x, NEW m, LeaveSector(x, m)
    PROVE  /\ ViewsOK'
           /\ \A n, y : n # m => (Inside(n, y)' <=> Inside(n, y))
  <1> DEFINE v == [y \in DOMAIN views |-> IF y = x THEN views[y] \ {m} ELSE views[y]]
  <1>1. views' = Retained(v)
    BY DEF LeaveSector
  <1>2. /\ DOMAIN views' = {y \in DOMAIN views : v[y] # {}}
        /\ \A y \in DOMAIN views' : views'[y] = v[y]
    BY <1>1, RetainedFacts DEF v
  <1>3. \A y \in DOMAIN views : v[y] \subseteq views[y] /\ \A n : n # m => (n \in v[y] <=> n \in views[y])
    BY DEF v
  <1> HIDE DEF v
  <1>4. ViewsOK'
    BY <1>2, <1>3 DEF ViewsOK, InOneSector
  <1>5. \A n, y : n # m => (Inside(n, y)' <=> Inside(n, y))
    BY <1>2, <1>3 DEF Inside
  <1> QED BY <1>4, <1>5

LEMMA LeavingAll ==
    ASSUME ViewsOK, NEW m, views' = Retained(WithoutAnywhere(m))
    PROVE  /\ ViewsOK'
           /\ \A n, y : n # m => (Inside(n, y)' <=> Inside(n, y))
  <1> DEFINE v == WithoutAnywhere(m)
  <1>1. /\ DOMAIN views' = {y \in DOMAIN views : v[y] # {}}
        /\ \A y \in DOMAIN views' : views'[y] = v[y]
    BY RetainedFacts DEF WithoutAnywhere
  <1>2. \A y \in DOMAIN views : v[y] = views[y] \ {m}
    BY DEF WithoutAnywhere
  <1> HIDE DEF v
  <1>3. ViewsOK'
    BY <1>1, <1>2 DEF ViewsOK, InOneSector
  <1>4. \A n, y : n # m => (Inside(n, y)' <=> Inside(n, y))
    BY <1>1, <1>2 DEF Inside
  <1> QED BY <1>3, <1>4

\* A join takes the member out of every view before it enters one.
LEMMA Joining ==
    ASSUME ViewsOK, TaskOK, NEW k \in Tasks, Join(k)
    PROVE  /\ ViewsOK'
           /\ task[k].who \in Members
           /\ \A n, y : n # task[k].who => (Inside(n, y)' <=> Inside(n, y))
  <1> DEFINE m == task[k].who
             s == task[k].sector
             left == WithoutAnywhere(m)
             kept == Retained(left)
  <1>1. m \in Members /\ s \in Hosts \X Sectors
    BY DEF TaskOK, Join, At
  <1>2. /\ DOMAIN kept = {y \in DOMAIN views : views[y] \ {m} # {}}
        /\ \A y \in DOMAIN kept : kept[y] = views[y] \ {m}
    <2>1. /\ DOMAIN left = DOMAIN views
          /\ \A y \in DOMAIN views : left[y] = views[y] \ {m}
      BY DEF WithoutAnywhere
    <2> HIDE DEF left
    <2> QED BY <2>1 DEF Retained
  <1>3. views' = [x \in DOMAIN kept \cup {s} |->
                     IF x = s THEN {m} \cup (IF x \in DOMAIN kept THEN kept[x] ELSE {})
                     ELSE kept[x]]
    BY DEF Join
  <1> HIDE DEF m, s, left, kept
  <1>4. /\ DOMAIN views' = DOMAIN kept \cup {s}
        /\ \A x \in DOMAIN kept : x # s => views'[x] = kept[x]
        /\ s \in DOMAIN kept => views'[s] = {m} \cup kept[s]
        /\ s \notin DOMAIN kept => views'[s] = {m}
    BY <1>3
  <1>5. \A x \in DOMAIN views' : m \in views'[x] => x = s
    BY <1>2, <1>4
  <1>6. \A n, y : n # m => (Inside(n, y)' <=> Inside(n, y))
    <2> SUFFICES ASSUME NEW n, NEW y, n # m
                 PROVE  (y \in DOMAIN views' /\ n \in views'[y]) <=> (y \in DOMAIN views /\ n \in views[y])
      BY DEF Inside
    <2>1. CASE y = s
      BY <2>1, <1>2, <1>4
    <2>2. CASE y # s
      BY <2>2, <1>2, <1>4
    <2> QED BY <2>1, <2>2
  <1>7. InOneSector'
    <2> SUFFICES ASSUME NEW x \in DOMAIN views', NEW y \in DOMAIN views',
                        NEW n, n \in views'[x], n \in views'[y]
                 PROVE  x = y
      BY DEF InOneSector
    <2>1. CASE n = m
      BY <2>1, <1>5
    <2>2. CASE n # m
      BY <2>2, <1>6 DEF Inside, ViewsOK, InOneSector
    <2> QED BY <2>1, <2>2
  <1>8. ViewsOK'
    BY <1>1, <1>2, <1>4, <1>7 DEF ViewsOK
  <1> QED BY <1>1, <1>6, <1>8 DEF m

----------------------------------------------------------------------------
\* What each handler does to its task.

\* A task may be replaced by one that is not about to enter a view, or that
\* knows a member and a sector.
LEMMA TaskReplaced ==
    ASSUME TaskOK, NEW k \in Tasks, NEW t,
           task' = [task EXCEPT ![k] = t],
           DOMAIN t = Fields,
           t.pc \in {"knock", "join"} => t.who \in Members /\ t.sector \in Hosts \X Sectors
    PROVE  TaskOK'
  BY DEF TaskOK, Fields, NoTask

LEMMA TaskEnded ==
    ASSUME TaskOK, NEW k \in Tasks, Ends(k)
    PROVE  TaskOK'
  <1>1. DOMAIN NoTask = Fields /\ NoTask.pc = "idle"
    BY DEF Fields, NoTask
  <1>2. NoTask.pc \notin {"knock", "join"}
    BY <1>1
  <1>3. task' = [task EXCEPT ![k] = NoTask]
    BY DEF Ends
  <1> QED BY <1>1, <1>2, <1>3, TaskReplaced

LEMMA TaskGoes ==
    ASSUME TaskOK, NEW k \in Tasks, NEW pc, Goto(k, pc),
           pc \in {"knock", "join"} => task[k].pc \in {"knock", "join"}
    PROVE  TaskOK'
  <1> DEFINE t == [task[k] EXCEPT !.pc = pc]
  <1>1. task' = [task EXCEPT ![k] = t]
    BY DEF Goto
  <1>2. DOMAIN task[k] = Fields
    BY DEF TaskOK
  <1>3. DOMAIN t = Fields /\ t.pc = pc /\ t.who = task[k].who /\ t.sector = task[k].sector
    BY <1>2 DEF Fields, NoTask
  <1>4. pc \in {"knock", "join"} => task[k].who \in Members /\ task[k].sector \in Hosts \X Sectors
    BY DEF TaskOK
  <1> HIDE DEF t
  <1> QED BY <1>1, <1>3, <1>4, TaskReplaced

\* A request that is decided upon goes to "persist".
LEMMA TaskDecides ==
    ASSUME TaskOK, NEW k \in Tasks, NEW pays, NEW prison,
           task' = [task EXCEPT ![k].pc = "persist", ![k].pays = pays, ![k].prison = prison]
    PROVE  TaskOK'
  <1> DEFINE t == [task[k] EXCEPT !.pc = "persist", !.pays = pays, !.prison = prison]
  <1>1. DOMAIN task = Tasks /\ DOMAIN task[k] = Fields
    BY DEF TaskOK
  <1>2. task' = [task EXCEPT ![k] = t]
    BY <1>1
  <1>3. DOMAIN t = Fields /\ t.pc = "persist"
    BY <1>1 DEF Fields, NoTask
  <1> HIDE DEF t
  <1>4. t.pc \notin {"knock", "join"}
    BY <1>3
  <1> QED BY <1>2, <1>3, <1>4, TaskReplaced

\* A new request names what it needs.
LEMMA TaskBegins ==
    ASSUME TaskOK, NEW k \in Tasks, NEW t, Begin(k, t), DOMAIN t = Fields,
           t.pc \in {"knock", "join"} => t.who \in Members /\ t.sector \in Hosts \X Sectors
    PROVE  TaskOK'
  BY TaskReplaced DEF Begin

----------------------------------------------------------------------------
\* The invariant, and what a step does to the views.

\* At most one member enters or leaves a view.
OneMoves == \E m : \A n, y : n # m => (Inside(n, y)' <=> Inside(n, y))

LEMMA InitOK ==
    ASSUME Init
    PROVE  IInv
  <1>1. ViewsOK
    BY DEF Init, ViewsOK, InOneSector
  <1>2. TaskOK
    <2>1. DOMAIN NoTask = Fields /\ NoTask.pc \notin {"knock", "join"}
      BY DEF Fields, NoTask
    <2> QED BY <2>1 DEF Init, TaskOK
  <1> QED BY <1>1, <1>2 DEF IInv

\* Views that stay, and tasks that stay.
LEMMA ViewsStay ==
    ASSUME ViewsOK, UNCHANGED views
    PROVE  ViewsOK' /\ OneMoves
  BY DEF ViewsOK, InOneSector, OneMoves, Inside

LEMMA TasksStay ==
    ASSUME TaskOK, UNCHANGED task
    PROVE  TaskOK'
  BY DEF TaskOK

\* Clients' requests.
LEMMA RequestStep ==
    ASSUME IInv, NEW k \in Tasks, Request(k)
    PROVE  IInv' /\ OneMoves
  <1>1. UNCHANGED views
    BY DEF Request, BeginLogin, BeginRent, BeginRelease, BeginJoin, BeginUpload
  <1>2. ASSUME NEW m \in Members,
               BeginLogin(k, m)
        PROVE  TaskOK'
    <2> DEFINE t == [NoTask EXCEPT !.pc = "enter", !.who = m,
                          !.prison = IF m \in Hosts THEN row[m] ELSE EmptyPrison]
    <2>1. Begin(k, t)
      BY <1>2 DEF BeginLogin
    <2>2. DOMAIN t = Fields /\ t.pc \notin {"knock", "join"}
      BY DEF Fields, NoTask
    <2> HIDE DEF t
    <2> QED BY <2>1, <2>2, TaskBegins DEF IInv
  <1>3. ASSUME NEW m \in Members, NEW x \in Hosts \X Sectors, NEW role \in SentRoles,
               BeginRent(k, m, x, role)
        PROVE  TaskOK'
    <2> DEFINE t == [NoTask EXCEPT !.pc = "rent", !.who = m, !.host = x[1], !.sector = x,
                          !.target = m, !.role = role, !.action = "Rent"]
    <2>1. Begin(k, t)
      BY <1>3 DEF BeginRent
    <2>2. DOMAIN t = Fields /\ t.pc \notin {"knock", "join"}
      BY DEF Fields, NoTask
    <2> HIDE DEF t
    <2> QED BY <2>1, <2>2, TaskBegins DEF IInv
  <1>4. ASSUME NEW m \in Members, NEW x \in Hosts \X Sectors, NEW target \in Members, NEW role \in SentRoles,
               NEW action \in {"OwnerDismiss", "SelfRansom"},
               BeginRelease(k, m, x, target, role, action)
        PROVE  TaskOK'
    <2> DEFINE t == [NoTask EXCEPT !.pc = "release", !.who = m, !.host = x[1], !.sector = x,
                          !.target = target, !.role = role, !.action = action]
    <2>1. Begin(k, t)
      BY <1>4 DEF BeginRelease
    <2>2. DOMAIN t = Fields /\ t.pc \notin {"knock", "join"}
      BY DEF Fields, NoTask
    <2> HIDE DEF t
    <2> QED BY <2>1, <2>2, TaskBegins DEF IInv
  <1>5. ASSUME NEW m \in Members, NEW x \in Hosts \X Sectors,
               BeginJoin(k, m, x)
        PROVE  TaskOK'
    <2> DEFINE t == [NoTask EXCEPT !.pc = "knock", !.who = m, !.host = x[1], !.sector = x]
    <2>1. Begin(k, t)
      BY <1>5 DEF BeginJoin
    <2>2. DOMAIN t = Fields /\ t.who = m /\ t.sector = x
      BY DEF Fields, NoTask
    <2> HIDE DEF t
    <2> QED BY <2>1, <2>2, TaskBegins DEF IInv
  <1>6. ASSUME NEW h \in Hosts, NEW prison \in Uploads,
               BeginUpload(k, h, prison)
        PROVE  TaskOK'
    <2> DEFINE t == [NoTask EXCEPT !.pc = "save", !.host = h, !.prison = prison]
    <2>1. Begin(k, t)
      BY <1>6 DEF BeginUpload
    <2>2. DOMAIN t = Fields /\ t.pc \notin {"knock", "join"}
      BY DEF Fields, NoTask
    <2> HIDE DEF t
    <2> QED BY <2>1, <2>2, TaskBegins DEF IInv
  <1>7. TaskOK'
    BY <1>2, <1>3, <1>4, <1>5, <1>6 DEF Request
  <1> QED BY <1>1, <1>7, ViewsStay DEF IInv

\* Handlers under way.
LEMMA TaskStepOK ==
    ASSUME IInv, NEW k \in Tasks, TaskStep(k)
    PROVE  IInv' /\ OneMoves
  <1> USE DEF IInv
  <1>1. CASE EnterLogin(k)
    BY <1>1, TaskEnded, ViewsStay DEF EnterLogin
  <1>2. CASE LoadForRent(k)
    <2>1. TaskOK'
      BY <1>2, TaskEnded, TaskDecides DEF LoadForRent
    <2> QED BY <1>2, <2>1, ViewsStay DEF LoadForRent
  <1>3. CASE LoadForRelease(k)
    <2>1. TaskOK'
      BY <1>3, TaskEnded, TaskDecides DEF LoadForRelease
    <2> QED BY <1>3, <2>1, ViewsStay DEF LoadForRelease
  <1>4. CASE LoadForJoin(k)
    <2>1. task[k].pc \in {"knock", "join"}
      BY <1>4 DEF LoadForJoin, At
    <2>2. TaskOK'
      BY <1>4, <2>1, TaskEnded, TaskGoes DEF LoadForJoin
    <2> QED BY <1>4, <2>2, ViewsStay DEF LoadForJoin
  <1>5. CASE Persist(k)
    <2>1. (IF task[k].pays THEN "pay" ELSE "apply") \notin {"knock", "join"}
      OBVIOUS
    <2>2. TaskOK'
      BY <1>5, <2>1, TaskEnded, TaskGoes DEF Persist
    <2> QED BY <1>5, <2>2, ViewsStay DEF Persist
  <1>6. CASE Pay(k)
    <2>1. TaskOK'
      BY <1>6, TaskEnded, TaskGoes DEF Pay
    <2> QED BY <1>6, <2>1, ViewsStay DEF Pay
  <1>7. CASE Apply(k)
    <2>1. TaskOK'
      BY <1>7, TaskEnded, TaskGoes DEF Apply
    <2> QED BY <1>7, <2>1, ViewsStay DEF Apply
  <1>8. CASE Expel(k)
    BY <1>8, TaskEnded, LeavingOne DEF Expel, OneMoves
  <1>9. CASE Join(k)
    <2>1. TaskOK'
      BY <1>9, TaskEnded DEF Join
    <2> QED BY <1>9, <2>1, Joining DEF OneMoves
  <1>10. CASE Save(k)
    BY <1>10, TaskEnded, ViewsStay DEF Save
  <1> QED
    BY <1>1, <1>2, <1>3, <1>4, <1>5, <1>6, <1>7, <1>8, <1>9, <1>10 DEF TaskStep

\* The expiry job.
LEMMA SweepStep ==
    ASSUME IInv, Sweep
    PROVE  IInv' /\ OneMoves
  <1> USE DEF IInv
  <1>1. UNCHANGED task
    BY DEF Sweep, StartSweep, SweepLoad, SweepPersist, SweepApply, SweepRemove
  <1>2. CASE SweepRemove
    <2>1. CASE UNCHANGED views
      BY <1>1, <2>1, ViewsStay, TasksStay
    <2>2. CASE LeaveSector(sweep.sector, Head(sweep.expired).renter)
      BY <1>1, <2>2, LeavingOne, TasksStay DEF OneMoves
    <2> QED BY <1>2, <2>1, <2>2 DEF SweepRemove
  <1>3. CASE ~ SweepRemove
    <2>1. UNCHANGED views
      BY <1>3 DEF Sweep, StartSweep, SweepLoad, SweepPersist, SweepApply
    <2> QED BY <1>1, <2>1, ViewsStay, TasksStay
  <1> QED BY <1>2, <1>3

LEMMA StepOK ==
    ASSUME IInv, [Next]_vars
    PROVE  IInv' /\ OneMoves
  <1> USE DEF IInv
  <1>1. CASE Tick
    BY <1>1, ViewsStay, TasksStay DEF Tick
  <1>2. ASSUME NEW m \in Members, SignOut(m)
        PROVE  IInv' /\ OneMoves
    BY <1>2, LeavingAll, TasksStay DEF SignOut, OneMoves
  <1>3. ASSUME NEW m \in Members, NEW x \in Hosts \X Sectors, Leave(m, x)
        PROVE  IInv' /\ OneMoves
    BY <1>3, LeavingOne, TasksStay DEF Leave, OneMoves
  <1>4. ASSUME NEW k \in Tasks, Request(k) \/ TaskStep(k)
        PROVE  IInv' /\ OneMoves
    BY <1>4, RequestStep, TaskStepOK
  <1>5. CASE Sweep
    BY <1>5, SweepStep
  <1>6. CASE UNCHANGED vars
    BY <1>6, ViewsStay, TasksStay DEF vars
  <1> QED BY <1>1, <1>2, <1>3, <1>4, <1>5, <1>6 DEF Next

\* The inductive invariant.
THEOREM Invariance == Spec => []IInv
  <1>1. Init => IInv
    BY InitOK
  <1>2. IInv /\ [Next]_vars => IInv'
    BY StepOK
  <1> QED BY <1>1, <1>2, PTL DEF Spec

\* "One online player can only render one prison work sector at a time"
\* (account/mod.rs:1203), for every number of handlers and sectors.
THEOREM OneSectorAtATime == Spec => []InOneSector
  <1>1. IInv => InOneSector
    BY DEF IInv, ViewsOK
  <1> QED BY <1>1, Invariance, PTL

----------------------------------------------------------------------------
\* The views implement Placement.

\* The views in use are the sectors that somebody is in.
LEMMA OpenIs ==
    ASSUME ViewsOK
    PROVE  DOMAIN views = UNION {SectorsOf(m) : m \in Members}
  <1>1. ASSUME NEW x \in DOMAIN views
        PROVE  \E m \in Members : x \in SectorsOf(m)
    BY DEF ViewsOK, SectorsOf
  <1> QED BY <1>1 DEF SectorsOf

LEMMA OpenIsNext ==
    ViewsOK' => (DOMAIN views)' = UNION {SectorsOf(m)' : m \in Members}
  <1>1. ViewsOK => DOMAIN views = UNION {SectorsOf(m) : m \in Members}
    BY OpenIs
  <1>2. ViewsOK' => (DOMAIN views = UNION {SectorsOf(m) : m \in Members})'
    BY <1>1, PTL
  <1> QED BY <1>2

\* A step in which one member moves is a step of Placement, or none.
LEMMA StepPlaces ==
    ASSUME ViewsOK, ViewsOK', OneMoves
    PROVE  [Seats!Next]_(Seats!vars)
  <1> DEFINE place == [n \in Members |-> SectorsOf(n)]
  <1>1. PICK m : \A n, y : n # m => (Inside(n, y)' <=> Inside(n, y))
    BY DEF OneMoves
  <1>2. ASSUME NEW n, n # m
        PROVE  SectorsOf(n)' = SectorsOf(n)
    BY <1>1, <1>2 DEF Inside, SectorsOf
  <1>3. \A n : Seats!AtMostOne(SectorsOf(n)')
    BY DEF ViewsOK, InOneSector, SectorsOf, Seats!AtMostOne
  <1>4. (DOMAIN views)' = UNION {SectorsOf(n)' : n \in Members}
    BY OpenIsNext
  <1>5. CASE m \in Members
    <2>1. SectorsOf(m)' \in SUBSET (Hosts \X Sectors)
      BY DEF ViewsOK, SectorsOf
    <2>2. place' = [place EXCEPT ![m] = SectorsOf(m)']
      BY <1>2, <1>5
    <2>3. Seats!AtMostOne(SectorsOf(m)' \ place[m])
      BY <1>3 DEF Seats!AtMostOne
    <2>4. (DOMAIN views)' = Seats!Occupied(place')
      BY <1>4 DEF Seats!Occupied
    <2>5. \A x \in Members : Seats!AtMostOne(place'[x])
      BY <1>3
    <2>6. Seats!Move(m, SectorsOf(m)')
      BY <2>2, <2>3, <2>4, <2>5 DEF Seats!Move
    <2> QED BY <1>5, <2>1, <2>6 DEF Seats!Next
  <1>6. CASE m \notin Members
    <2>1. place' = place
      BY <1>2, <1>6
    <2>2. (DOMAIN views)' = DOMAIN views
      BY <1>2, <1>4, <1>6, OpenIs
    <2> QED BY <2>1, <2>2 DEF Seats!vars
  <1> QED BY <1>5, <1>6

\* Whatever handlers, sign-outs and the job do, a step moves one member between
\* the views, and a view is there exactly as long as somebody is in it.
THEOREM SeatsImplemented == Spec => SeatsHold
  <1>1. Init => Seats!Init
    <2> SUFFICES ASSUME Init PROVE Seats!Init
      OBVIOUS
    <2>1. DOMAIN views = {}
      BY DEF Init
    <2>2. \A m : SectorsOf(m) = {}
      BY <2>1 DEF SectorsOf
    <2> QED BY <2>1, <2>2 DEF Seats!Init
  <1>2. IInv /\ IInv' /\ [Next]_vars => [Seats!Next]_(Seats!vars)
    BY StepOK, StepPlaces DEF IInv
  <1> QED BY <1>1, <1>2, Invariance, PTL DEF Spec, SeatsHold, Seats!Spec

----------------------------------------------------------------------------
\* Types, and the capacity of a sector.

Anyone == Members \cup {NoMember}

\* What a handler carries: a prison in any case, and what its step works on.
Carries(t) ==
    /\ t.who \in Anyone /\ t.role \in Roles
    /\ IsPrison(t.prison)
    /\ t.pc = "enter" => t.who \in Members
    /\ t.pc \in {"rent", "release", "knock"} =>
          t.host \in Hosts /\ t.sector \in Hosts \X Sectors

\* The two stores of prisons, and the copies on their way to them.
Stores ==
    /\ now \in Nat /\ online \subseteq Members
    /\ DOMAIN row = Hosts /\ \A h \in Hosts : IsPrison(row[h])
    /\ DOMAIN live = Hosts /\ \A h \in Hosts : IsPrison(live[h])

Copies ==
    /\ \A k \in Tasks : Carries(task[k])
    /\ DOMAIN sweep = DOMAIN NoSweep
    /\ IsPrison(sweep.prison)

Typed == Stores /\ Copies

\* Clients save no more rentals than fit. The server does not look.
UploadsFit == \A prison \in Uploads : IsPrison(prison)

LEMMA EmptyIsPrison == IsPrison(EmptyPrison)
  BY PrisonAssumption DEF IsPrison, EmptyPrison

LEMMA NothingCarried == Carries(NoTask)
  <1>1. IsPrison(EmptyPrison)
    BY EmptyIsPrison
  <1> QED BY <1>1 DEF Carries, NoTask, Anyone, Roles

LEMMA NothingSwept == IsPrison(NoSweep.prison)
  BY EmptyIsPrison DEF NoSweep

LEMMA PrisonTakes ==
    ASSUME NEW prison, IsPrison(prison), NEW i,
           NEW rentals \in Seq(Rental), Len(rentals) <= Capacity
    PROVE  IsPrison([prison EXCEPT ![i] = rentals])
  BY DEF IsPrison

\* A prison put in one place of a store.
LEMMA StoreTakes ==
    ASSUME NEW f, DOMAIN f = Hosts, \A h \in Hosts : IsPrison(f[h]),
           NEW x, NEW prison, IsPrison(prison)
    PROVE  LET g == [f EXCEPT ![x] = prison]
           IN  DOMAIN g = Hosts /\ \A h \in Hosts : IsPrison(g[h])
  <1> DEFINE g == [f EXCEPT ![x] = prison]
  <1>1. DOMAIN g = Hosts /\ \A h \in Hosts : g[h] = f[h] \/ g[h] = prison
    OBVIOUS
  <1> HIDE DEF g
  <1>2. \A h \in Hosts : IsPrison(g[h])
    BY <1>1
  <1> QED BY <1>1, <1>2 DEF g

\* What is loaded is a prison.
LEMMA LoadedIsPrison ==
    ASSUME Stores, NEW h \in Hosts
    PROVE  IsPrison(Loaded(h))
  BY DEF Stores, Loaded

LEMMA ActivesFit ==
    ASSUME NEW rentals \in Seq(Rental), NEW time
    PROVE  Actives(rentals, time) \in Seq(Rental) /\ Len(Actives(rentals, time)) <= Len(rentals)
  <1> DEFINE S == {rental \in ToSet(rentals) : IsActive(rental, time)}
  <1>1. Actives(rentals, time) = Selected(rentals, S)
    BY DEF Actives
  <1> HIDE DEF S
  <1> QED BY <1>1, SelectedFacts

LEMMA PlacedFits ==
    ASSUME now \in Nat, NEW t, t.who \in Anyone, t.role \in Roles,
           NEW rentals \in Seq(Rental), HasRoom(rentals)
    PROVE  Placed(t, rentals) \in Seq(Rental) /\ Len(Placed(t, rentals)) <= Capacity
  <1> DEFINE new == [renter |-> t.who, role |-> t.role, until |-> now + Term]
  <1>1. new \in Rental
    BY PrisonAssumption DEF Rental, Anyone
  <1>2. Placed(t, rentals) = Append(rentals, new)
    BY DEF Placed
  <1> HIDE DEF new
  <1>3. Placed(t, rentals) \in Seq(Rental) /\ Len(Placed(t, rentals)) = Len(rentals) + 1
    BY <1>1, <1>2, AppendProperties
  <1>4. Len(rentals) \in Nat /\ Len(rentals) < Capacity /\ Capacity \in Nat
    BY PrisonAssumption DEF HasRoom
  <1> QED BY <1>3, <1>4

\* Copies that stay.
LEMMA CopiesGoOn ==
    ASSUME Copies, TaskOK, UNCHANGED sweep, NEW k \in Tasks, NEW t, Carries(t),
           task' = [task EXCEPT ![k] = t]
    PROVE  Copies'
  <1>1. \A l \in Tasks : task'[l] = task[l] \/ task'[l] = t
    BY DEF TaskOK
  <1>2. \A l \in Tasks : Carries(task'[l])
    BY <1>1 DEF Copies
  <1> QED BY <1>2 DEF Copies, Carries, IsPrison

LEMMA CopiesEnd ==
    ASSUME Copies, TaskOK, UNCHANGED sweep, NEW k \in Tasks, Ends(k)
    PROVE  Copies'
  BY NothingCarried, CopiesGoOn DEF Ends

LEMMA CopiesMove ==
    ASSUME Copies, TaskOK, UNCHANGED sweep, NEW k \in Tasks, NEW pc, Goto(k, pc),
           pc \notin {"enter", "rent", "release", "knock"}
    PROVE  Copies'
  <1> DEFINE t == [task[k] EXCEPT !.pc = pc]
  <1>1. task' = [task EXCEPT ![k] = t]
    BY DEF Goto
  <1>2. /\ t.pc = pc /\ t.who = task[k].who /\ t.role = task[k].role
        /\ t.prison = task[k].prison
    BY DEF TaskOK, Fields, NoTask
  <1> HIDE DEF t
  <1>3. Carries(t)
    BY <1>2 DEF Copies, Carries
  <1> QED BY <1>1, <1>3, CopiesGoOn

LEMMA CopiesDecide ==
    ASSUME Copies, TaskOK, UNCHANGED sweep, NEW k \in Tasks, NEW pays, NEW prison,
           IsPrison(prison),
           task' = [task EXCEPT ![k].pc = "persist", ![k].pays = pays, ![k].prison = prison]
    PROVE  Copies'
  <1> DEFINE t == [task[k] EXCEPT !.pc = "persist", !.pays = pays, !.prison = prison]
  <1>1. DOMAIN task = Tasks /\ DOMAIN task[k] = Fields
    BY DEF TaskOK
  <1>2. task' = [task EXCEPT ![k] = t]
    BY <1>1
  <1>3. /\ t.pc = "persist" /\ t.who = task[k].who /\ t.role = task[k].role
        /\ t.prison = prison
    BY <1>1 DEF Fields, NoTask
  <1> HIDE DEF t
  <1>4. Carries(t)
    BY <1>3 DEF Copies, Carries
  <1> QED BY <1>2, <1>4, CopiesGoOn

LEMMA StoresStay ==
    ASSUME Stores, UNCHANGED <<now, online, data>>
    PROVE  Stores'
  BY DEF Stores, data

LEMMA CopiesStay ==
    ASSUME Copies, UNCHANGED <<task, sweep>>
    PROVE  Copies'
  BY DEF Copies, Carries, IsPrison

\* A request begins with an empty prison, the row of the member or an upload.
LEMMA RequestTyped ==
    ASSUME UploadsFit, Typed, TaskOK, NEW k \in Tasks, Request(k)
    PROVE  Typed'
  <1> USE DEF Typed
  <1>1. ASSUME NEW m \in Members, BeginLogin(k, m)
        PROVE  Typed'
    <2> DEFINE prison == IF m \in Hosts THEN row[m] ELSE EmptyPrison
               t == [NoTask EXCEPT !.pc = "enter", !.who = m, !.prison = prison]
    <2>1. task' = [task EXCEPT ![k] = t] /\ UNCHANGED <<now, online, data, sweep>>
      BY <1>1 DEF BeginLogin, Begin
    <2>2. IsPrison(prison)
      BY EmptyIsPrison DEF Stores
    <2> HIDE DEF prison
    <2>3. t.pc = "enter" /\ t.who = m /\ t.role = "Owner" /\ t.prison = prison
      BY DEF NoTask
    <2> HIDE DEF t
    <2>4. Carries(t)
      BY <2>2, <2>3 DEF Carries, Anyone, Roles
    <2> QED BY <2>1, <2>4, CopiesGoOn, StoresStay
  <1>2. ASSUME NEW m \in Members, NEW x \in Hosts \X Sectors, NEW role \in SentRoles,
               BeginRent(k, m, x, role)
        PROVE  Typed'
    <2> DEFINE t == [NoTask EXCEPT !.pc = "rent", !.who = m, !.host = x[1], !.sector = x,
                          !.target = m, !.role = role, !.action = "Rent"]
    <2>1. task' = [task EXCEPT ![k] = t] /\ UNCHANGED <<now, online, data, sweep>>
      BY <1>2 DEF BeginRent, Begin
    <2>2. /\ t.pc = "rent" /\ t.who = m /\ t.role = role /\ t.prison = EmptyPrison
          /\ t.host = x[1] /\ t.sector = x
      BY DEF NoTask
    <2> HIDE DEF t
    <2>3. Carries(t)
      BY <2>2, EmptyIsPrison, PrisonAssumption DEF Carries, Anyone, Roles
    <2> QED BY <2>1, <2>3, CopiesGoOn, StoresStay
  <1>3. ASSUME NEW m \in Members, NEW x \in Hosts \X Sectors, NEW target \in Members,
               NEW role \in SentRoles, NEW action \in {"OwnerDismiss", "SelfRansom"},
               BeginRelease(k, m, x, target, role, action)
        PROVE  Typed'
    <2> DEFINE t == [NoTask EXCEPT !.pc = "release", !.who = m, !.host = x[1], !.sector = x,
                          !.target = target, !.role = role, !.action = action]
    <2>1. task' = [task EXCEPT ![k] = t] /\ UNCHANGED <<now, online, data, sweep>>
      BY <1>3 DEF BeginRelease, Begin
    <2>2. /\ t.pc = "release" /\ t.who = m /\ t.role = role /\ t.prison = EmptyPrison
          /\ t.host = x[1] /\ t.sector = x
      BY DEF NoTask
    <2> HIDE DEF t
    <2>3. Carries(t)
      BY <2>2, EmptyIsPrison, PrisonAssumption DEF Carries, Anyone, Roles
    <2> QED BY <2>1, <2>3, CopiesGoOn, StoresStay
  <1>4. ASSUME NEW m \in Members, NEW x \in Hosts \X Sectors, BeginJoin(k, m, x)
        PROVE  Typed'
    <2> DEFINE t == [NoTask EXCEPT !.pc = "knock", !.who = m, !.host = x[1], !.sector = x]
    <2>1. task' = [task EXCEPT ![k] = t] /\ UNCHANGED <<now, online, data, sweep>>
      BY <1>4 DEF BeginJoin, Begin
    <2>2. /\ t.pc = "knock" /\ t.who = m /\ t.role = "Owner" /\ t.prison = EmptyPrison
          /\ t.host = x[1] /\ t.sector = x
      BY DEF NoTask
    <2> HIDE DEF t
    <2>3. Carries(t)
      BY <2>2, EmptyIsPrison DEF Carries, Anyone, Roles
    <2> QED BY <2>1, <2>3, CopiesGoOn, StoresStay
  <1>5. ASSUME NEW h \in Hosts, NEW prison \in Uploads, BeginUpload(k, h, prison)
        PROVE  Typed'
    <2> DEFINE t == [NoTask EXCEPT !.pc = "save", !.host = h, !.prison = prison]
    <2>1. task' = [task EXCEPT ![k] = t] /\ UNCHANGED <<now, online, row, sweep>>
      BY <1>5 DEF BeginUpload, Begin
    <2>2. IsPrison(prison)
      BY DEF UploadsFit
    <2>3. t.pc = "save" /\ t.who = NoMember /\ t.role = "Owner" /\ t.prison = prison
      BY DEF NoTask
    <2> HIDE DEF t
    <2>4. Carries(t)
      BY <2>2, <2>3 DEF Carries, Anyone, Roles
    <2>5. DOMAIN live' = Hosts /\ \A g \in Hosts : IsPrison(live'[g])
      BY <1>5, <2>2, StoreTakes DEF BeginUpload, Stores
    <2>6. Stores'
      BY <2>1, <2>5 DEF Stores
    <2> QED BY <2>1, <2>4, <2>6, CopiesGoOn
  <1> QED BY <1>1, <1>2, <1>3, <1>4, <1>5 DEF Request

\* What a rental or a release is decided on is the loaded prison of the moment.
LEMMA LoadsTyped ==
    ASSUME Typed, TaskOK, NEW k \in Tasks, LoadForRent(k) \/ LoadForRelease(k)
    PROVE  Typed'
  <1> USE DEF Typed
  <1> DEFINE t == task[k]
             prison == Loaded(t.host)
             i == t.sector[2]
  <1>1. UNCHANGED <<now, online, data, sweep>>
    BY DEF LoadForRent, LoadForRelease
  <1>2. t.host \in Hosts /\ i \in Sectors /\ t.who \in Anyone /\ t.role \in Roles
    BY DEF LoadForRent, LoadForRelease, At, Copies, Carries
  <1>3. IsPrison(prison) /\ prison[i] \in Seq(Rental) /\ Len(prison[i]) <= Capacity
    BY <1>2, LoadedIsPrison DEF IsPrison
  <1>4. CASE Ends(k)
    BY <1>1, <1>4, CopiesEnd, StoresStay
  <1>5. CASE LoadForRent(k) /\ ~ Ends(k)
    <2> DEFINE rentals == Actives(prison[i], now)
               new == Placed(t, rentals)
    <2>1. /\ HasRoom(rentals)
          /\ task' = [task EXCEPT ![k].pc = "persist", ![k].pays = TRUE,
                         ![k].prison = [prison EXCEPT ![i] = new]]
      BY <1>5 DEF LoadForRent
    <2> HIDE DEF t, prison, i
    <2>2. rentals \in Seq(Rental)
      BY <1>3, ActivesFit
    <2> HIDE DEF rentals
    <2>3. new \in Seq(Rental) /\ Len(new) <= Capacity
      BY <1>2, <2>1, <2>2, PlacedFits DEF Stores
    <2> HIDE DEF new
    <2>4. IsPrison([prison EXCEPT ![i] = new])
      BY <1>3, <2>3, PrisonTakes
    <2> QED BY <1>1, <2>1, <2>4, CopiesDecide, StoresStay
  <1>6. CASE LoadForRelease(k) /\ ~ Ends(k)
    <2> DEFINE found == Matching(prison[i], t)
               first == CHOOSE j \in found : \A l \in found : j <= l
               new == RemoveAt(prison[i], first)
    <2>1. PICK pays : /\ found # {}
                      /\ task' = [task EXCEPT ![k].pc = "persist", ![k].pays = pays,
                                     ![k].prison = [prison EXCEPT ![i] = new]]
      BY <1>6 DEF LoadForRelease
    <2> HIDE DEF t, prison, i
    <2>2. found \in SUBSET Nat /\ found \subseteq DOMAIN prison[i]
      BY <1>3 DEF Matching
    <2> HIDE DEF found
    <2>3. first \in DOMAIN prison[i]
      BY <2>1, <2>2, LeastNatural
    <2> HIDE DEF first
    <2>4. new \in Seq(Rental) /\ Len(new) = Len(prison[i]) - 1
      BY <1>3, <2>3, RemoveAtFacts
    <2> HIDE DEF new
    <2>5. Len(new) <= Capacity
      BY <1>3, <2>4, PrisonAssumption
    <2>6. IsPrison([prison EXCEPT ![i] = new])
      BY <1>3, <2>4, <2>5, PrisonTakes
    <2> QED BY <1>1, <2>1, <2>6, CopiesDecide, StoresStay
  <1> QED BY <1>4, <1>5, <1>6

LEMMA TaskStepTyped ==
    ASSUME Typed, TaskOK, NEW k \in Tasks, TaskStep(k)
    PROVE  Typed'
  <1> USE DEF Typed
  <1> DEFINE t == task[k]
  <1>1. IsPrison(t.prison)
    BY DEF Copies, Carries
  <1>2. CASE EnterLogin(k)
    <2>1. Copies'
      BY <1>2, CopiesEnd DEF EnterLogin
    <2>2. t.who \in Members
      BY <1>2 DEF EnterLogin, At, Copies, Carries
    <2>3. Stores'
      BY <1>1, <1>2, <2>2 DEF EnterLogin, Stores
    <2> QED BY <2>1, <2>3
  <1>3. CASE LoadForRent(k) \/ LoadForRelease(k)
    BY <1>3, LoadsTyped
  <1>4. CASE LoadForJoin(k)
    BY <1>4, CopiesEnd, CopiesMove, StoresStay DEF LoadForJoin
  <1>5. CASE Persist(k)
    <2>1. (IF t.pays THEN "pay" ELSE "apply") \notin {"enter", "rent", "release", "knock"}
      OBVIOUS
    <2>2. Copies'
      BY <1>5, <2>1, CopiesEnd, CopiesMove DEF Persist
    <2>3. row' = row \/ row' = [row EXCEPT ![t.host] = t.prison]
      BY <1>5 DEF Persist
    <2>4. UNCHANGED <<now, online, live>>
      BY <1>5 DEF Persist
    <2> HIDE DEF t
    <2>5. DOMAIN row' = Hosts /\ \A h \in Hosts : IsPrison(row'[h])
      BY <1>1, <2>3, StoreTakes DEF Stores
    <2> QED BY <2>2, <2>4, <2>5 DEF Stores
  <1>6. CASE Pay(k)
    BY <1>6, CopiesEnd, CopiesMove, StoresStay DEF Pay
  <1>7. CASE Apply(k)
    <2>1. Copies'
      BY <1>7, CopiesEnd, CopiesMove DEF Apply
    <2>2. live' = live \/ live' = [live EXCEPT ![t.host] = t.prison]
      BY <1>7 DEF Apply
    <2>3. UNCHANGED <<now, online, row>>
      BY <1>7 DEF Apply
    <2> HIDE DEF t
    <2>4. DOMAIN live' = Hosts /\ \A h \in Hosts : IsPrison(live'[h])
      BY <1>1, <2>2, StoreTakes DEF Stores
    <2> QED BY <2>1, <2>3, <2>4 DEF Stores
  <1>8. CASE Expel(k) \/ Join(k)
    BY <1>8, CopiesEnd, StoresStay DEF Expel, Join
  <1>9. CASE Save(k)
    <2>1. Copies'
      BY <1>9, CopiesEnd DEF Save
    <2>2. row' = row \/ row' = [row EXCEPT ![t.host] = t.prison]
      BY <1>9 DEF Save
    <2>3. UNCHANGED <<now, online, live>>
      BY <1>9 DEF Save
    <2> HIDE DEF t
    <2>4. DOMAIN row' = Hosts /\ \A h \in Hosts : IsPrison(row'[h])
      BY <1>1, <2>2, StoreTakes DEF Stores
    <2> QED BY <2>1, <2>3, <2>4 DEF Stores
  <1> QED BY <1>2, <1>3, <1>4, <1>5, <1>6, <1>7, <1>8, <1>9 DEF TaskStep

\* The job works on copies of its own, which are prisons as well.
LEMMA SweepTyped ==
    ASSUME Typed, Sweep
    PROVE  Typed'
  <1> USE DEF Typed
  <1>1. UNCHANGED <<now, online, task>>
    BY DEF Sweep, StartSweep, SweepLoad, SweepPersist, SweepApply, SweepRemove
  <1>2. DOMAIN sweep = DOMAIN NoSweep /\ IsPrison(sweep.prison) /\ \A k \in Tasks : Carries(task[k])
    BY DEF Copies
  <1>3. DOMAIN NextSector = DOMAIN NoSweep /\ IsPrison(NextSector.prison)
    <2>1. [NoSweep EXCEPT !.pc = "load", !.time = sweep.time, !.todo = sweep.todo].prison
            = NoSweep.prison
      BY DEF NoSweep
    <2> QED BY <2>1, NothingSwept DEF NextSector, NoSweep
  <1>4. ASSUME DOMAIN sweep' = DOMAIN NoSweep, IsPrison(sweep'.prison)
        PROVE  Copies'
    BY <1>1, <1>2, <1>4 DEF Copies, Carries, IsPrison
  <1>5. CASE StartSweep
    <2>1. DOMAIN sweep' = DOMAIN NoSweep /\ sweep'.prison = NoSweep.prison
      BY <1>5 DEF StartSweep, NoSweep
    <2> QED BY <1>1, <1>4, <1>5, <2>1, NothingSwept, StoresStay DEF StartSweep
  <1>6. ASSUME NEW x \in Hosts \X Sectors, SweepLoad(x)
        PROVE  Typed'
    <2> DEFINE prison == Loaded(x[1])
               i == x[2]
               expired == Expired(prison[i], sweep.time)
               new == Actives(prison[i], sweep.time)
               rest == sweep.todo \ {x}
    <2>1. UNCHANGED data
      BY <1>6 DEF SweepLoad
    <2>2. IsPrison(prison) /\ prison[i] \in Seq(Rental) /\ Len(prison[i]) <= Capacity
      BY LoadedIsPrison DEF IsPrison
    <2>3. \/ sweep' = [sweep EXCEPT !.pc = "persist", !.todo = rest, !.sector = x,
                          !.prison = [prison EXCEPT ![i] = new], !.expired = expired]
          \/ sweep' = NoSweep
          \/ sweep' = [sweep EXCEPT !.todo = rest]
      BY <1>6 DEF SweepLoad
    <2> HIDE DEF prison, i, expired, rest
    <2>4. new \in Seq(Rental) /\ Len(new) <= Len(prison[i])
      BY <2>2, ActivesFit
    <2> HIDE DEF new
    <2>5. Len(new) <= Capacity
      BY <2>2, <2>4, PrisonAssumption
    <2>6. IsPrison([prison EXCEPT ![i] = new])
      BY <2>2, <2>4, <2>5, PrisonTakes
    <2>7. DOMAIN sweep' = DOMAIN NoSweep /\ IsPrison(sweep'.prison)
      BY <1>2, <2>3, <2>6, NothingSwept DEF NoSweep
    <2> QED BY <1>1, <1>4, <2>1, <2>7, StoresStay
  <1>7. CASE SweepPersist
    <2>1. DOMAIN sweep' = DOMAIN NoSweep /\ IsPrison(sweep'.prison)
      BY <1>2, <1>3, <1>7 DEF SweepPersist, NoSweep
    <2>2. row' = row \/ row' = [row EXCEPT ![sweep.sector[1]] = sweep.prison]
      BY <1>7 DEF SweepPersist
    <2>3. DOMAIN row' = Hosts /\ \A h \in Hosts : IsPrison(row'[h])
      BY <1>2, <2>2, StoreTakes DEF Stores
    <2>4. UNCHANGED live
      BY <1>7 DEF SweepPersist
    <2> QED BY <1>1, <1>4, <2>1, <2>3, <2>4 DEF Stores
  <1>8. CASE SweepApply
    <2>1. DOMAIN sweep' = DOMAIN NoSweep /\ IsPrison(sweep'.prison)
      BY <1>2, <1>8 DEF SweepApply, NoSweep
    <2>2. live' = live \/ live' = [live EXCEPT ![sweep.sector[1]] = sweep.prison]
      BY <1>8 DEF SweepApply
    <2>3. DOMAIN live' = Hosts /\ \A h \in Hosts : IsPrison(live'[h])
      BY <1>2, <2>2, StoreTakes DEF Stores
    <2>4. UNCHANGED row
      BY <1>8 DEF SweepApply
    <2> QED BY <1>1, <1>4, <2>1, <2>3, <2>4 DEF Stores
  <1>9. CASE SweepRemove
    <2>1. DOMAIN sweep' = DOMAIN NoSweep /\ IsPrison(sweep'.prison)
      BY <1>2, <1>3, <1>9 DEF SweepRemove, NoSweep
    <2> QED BY <1>1, <1>4, <1>9, <2>1, StoresStay DEF SweepRemove
  <1> QED BY <1>5, <1>6, <1>7, <1>8, <1>9 DEF Sweep

LEMMA StepTyped ==
    ASSUME UploadsFit, IInv, Typed, [Next]_vars
    PROVE  Typed'
  <1> USE DEF IInv
  <1>1. CASE Tick
    BY <1>1, CopiesStay DEF Tick, Typed, Stores, data
  <1>2. ASSUME NEW m \in Members, SignOut(m)
        PROVE  Typed'
    <2>1. Stores'
      BY <1>2, EmptyIsPrison DEF SignOut, Typed, Stores
    <2> QED BY <1>2, <2>1, CopiesStay DEF SignOut, Typed
  <1>3. ASSUME NEW m \in Members, NEW x \in Hosts \X Sectors, Leave(m, x)
        PROVE  Typed'
    BY <1>3, CopiesStay, StoresStay DEF Leave, Typed
  <1>4. ASSUME NEW k \in Tasks, Request(k) \/ TaskStep(k)
        PROVE  Typed'
    BY <1>4, RequestTyped, TaskStepTyped
  <1>5. CASE Sweep
    BY <1>5, SweepTyped
  <1>6. CASE UNCHANGED vars
    BY <1>6, CopiesStay, StoresStay DEF vars, Typed
  <1> QED BY <1>1, <1>2, <1>3, <1>4, <1>5, <1>6 DEF Next

LEMMA InitTyped ==
    ASSUME Init
    PROVE  Typed
  <1>1. Stores
    BY EmptyIsPrison DEF Init, Stores
  <1>2. Copies
    BY NothingCarried, NothingSwept DEF Init, Copies
  <1> QED BY <1>1, <1>2 DEF Typed

\* As long as the prisons that clients save keep to the capacity of a sector, so
\* does every prison in the rows, in the sessions and in the hands of a handler or
\* of the expiry job: no rental is placed in a full sector, whatever copies
\* overtake each other (handle_prison_rent in account/mod.rs).
THEOREM PrisonsFit == UploadsFit => (Spec => []TypeOK)
  <1> SUFFICES ASSUME UploadsFit PROVE Spec => []TypeOK
    OBVIOUS
  <1>1. Init => Typed
    BY InitTyped
  <1>2. IInv /\ Typed /\ [Next]_vars => Typed'
    BY StepTyped
  <1>3. IInv /\ Typed => TypeOK
    BY DEF IInv, ViewsOK, Typed, Stores, Copies, Carries, TypeOK
  <1> QED BY <1>1, <1>2, <1>3, Invariance, PTL DEF Spec
=============================================================================
