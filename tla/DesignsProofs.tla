---------------------------- MODULE DesignsProofs ----------------------------
(* Safety theorems of Designs, for any number of designs and goroutines: the  *)
(* lock and what a cleared design leaves, the catalogue, the types, values in *)
(* order, and that what was asked for is shown.                               *)
EXTENDS Designs, TLAPS

\* The lock, and the locals of the two kinds of goroutine whose records are
\* changed field by field.
TaskInv ==
  /\ task = [t \in Task |-> task[t]]
  /\ \A t \in Task : Holding(t) => lock = t
  /\ \A t \in Task : At(t, "configure") =>
       task[t] = [at |-> "configure", owner |-> task[t].owner, setting |-> task[t].setting]
  /\ \A t \in Task : At(t, "reload") => task[t] \in [at : {"reload"}, left : SUBSET Files]

\* Once a design is cleared, at most the goroutine that holds the lock has a
\* frame to queue, and it queues one.
Drawing(t) == task[t].at \in {"load", "expire", "queue"}
LateInv ==
  late # None => /\ active = None
                 /\ late \in {0, 1}
                 /\ late = 1 => \A t \in Task : ~Drawing(t)

\* A file that is not in the catalogue is still to be inserted by some reload.
ReloadInv ==
  torn \/ \A f \in Files : f \in catalog \/ \E t \in Task : At(t, "reload") /\ f \in task[t].left

Inv == TaskInv /\ LateInv /\ ReloadInv

\* A new tablet has no design, nobody renders and the directory is loaded.
LEMMA InitInv == Init => Inv
BY DEF Init, Inv, TaskInv, LateInv, ReloadInv, At, Holding, Drawing, Idle

\* A goroutine goes to a place outside reloads and configurations, and touches the
\* lock only if it is free or its own.
LEMMA TaskMoves ==
  ASSUME TaskInv, NEW t \in Task, NEW place, Go(t, place),
         place.at \notin {"configure", "reload"},
         place.at \in {"load", "expire", "queue", "stamp"} => lock' = t,
         lock' = lock \/ lock \in {None, t}
  PROVE  /\ TaskInv'
         /\ \A u \in Task : task'[u] = IF u = t THEN place ELSE task[u]
<1>1. /\ task' = [u \in Task |-> task'[u]]
      /\ \A u \in Task : task'[u] = IF u = t THEN place ELSE task[u]
  BY DEF TaskInv, Go
<1>2. ASSUME NEW u \in Task, Holding(u)'
      PROVE  lock' = u
  <2>1. CASE u = t
    BY <1>1, <1>2, <2>1 DEF Holding
  <2>2. CASE u # t
    <3>1. Holding(u)
      BY <1>1, <1>2, <2>2 DEF Holding
    <3>2. lock = u
      BY <3>1 DEF TaskInv
    <3> QED
      BY <2>2, <3>2, DesignsAssumption
  <2> QED
    BY <2>1, <2>2
<1>3. ASSUME NEW u \in Task, At(u, "configure")'
      PROVE  task'[u] = [at |-> "configure", owner |-> task'[u].owner, setting |-> task'[u].setting]
  BY <1>1, <1>3 DEF At, TaskInv
<1>4. ASSUME NEW u \in Task, At(u, "reload")'
      PROVE  task'[u] \in [at : {"reload"}, left : SUBSET Files]
  BY <1>1, <1>4 DEF At, TaskInv
<1> QED
  BY <1>1, <1>2, <1>3, <1>4 DEF TaskInv

\* The same step keeps the rest of the invariant if it starts no drawing without an
\* active design and leaves reloads alone.
LEMMA Moves ==
  ASSUME Inv, NEW t \in Task, NEW place, Go(t, place),
         place.at \notin {"configure", "reload"}, ~At(t, "reload"),
         place.at \in {"load", "expire", "queue", "stamp"} => lock' = t,
         lock' = lock \/ lock \in {None, t},
         place.at \in {"load", "expire", "queue"} => Drawing(t) \/ active # None,
         late' = late, active = None => active' = None,
         torn' = torn, catalog' = catalog
  PROVE  Inv'
<1>1. /\ TaskInv'
      /\ \A u \in Task : task'[u] = IF u = t THEN place ELSE task[u]
  BY TaskMoves DEF Inv
<1>2. LateInv'
  <2>1. CASE late' # None /\ late' = 1
    <3>1. active = None /\ \A u \in Task : ~Drawing(u)
      BY <2>1 DEF Inv, LateInv
    <3>2. \A u \in Task : ~Drawing(u)'
      BY <1>1, <3>1 DEF Drawing
    <3> QED
      BY <2>1, <3>1, <3>2 DEF LateInv
  <2>2. CASE ~(late' # None /\ late' = 1)
    BY <2>2 DEF Inv, LateInv
  <2> QED
    BY <2>1, <2>2
<1>3. ReloadInv'
  BY <1>1 DEF Inv, ReloadInv, At
<1> QED
  BY <1>1, <1>2, <1>3 DEF Inv

-----------------------------------------------------------------------------
(* Render *)

\* Whoever starts to draw has the lock, and there is an active design.
LEMMA AcquireStep ==
  ASSUME Inv, NEW t \in Task, Acquire(t)
  PROVE  Inv'
<1>1. /\ ~At(t, "reload") /\ lock = None
      /\ late' = late /\ active' = active /\ torn' = torn /\ catalog' = catalog
  BY DEF Acquire, At, tables, history
<1>2. CASE active = None
  <2>1. Go(t, Idle) /\ lock' = lock
    BY <1>2 DEF Acquire
  <2> QED
    BY <1>1, <2>1, Moves DEF Idle
<1>3. CASE active # None
  <2> DEFINE place == [at |-> "load", force |-> task[t].force, row |-> active]
  <2>1. Go(t, place) /\ lock' = t
    BY <1>3 DEF Acquire
  <2>2. place.at = "load"
    OBVIOUS
  <2> HIDE DEF place
  <2> QED
    BY <1>1, <1>3, <2>1, <2>2, Moves
<1> QED
  BY <1>2, <1>3

\* Whether the frame is suppressed or not, the goroutine goes on or lets go.
LEMMA DecideStep ==
  ASSUME Inv, NEW t \in Task, NEW force, NEW row, NEW view, Decide(t, force, row, view),
         task[t].at \in {"load", "expire"},
         late' = late, active' = active, torn' = torn, catalog' = catalog
  PROVE  Inv'
<1>1. lock = t /\ ~At(t, "reload") /\ Drawing(t)
  BY DEF Inv, TaskInv, Holding, At, Drawing
<1>2. CASE Suppressed(force, row, view)
  <2>1. Go(t, Idle) /\ lock' = None
    BY <1>2 DEF Decide
  <2> QED
    BY <1>1, <2>1, Moves DEF Idle
<1>3. CASE ~Suppressed(force, row, view)
  <2> DEFINE place == [at |-> "queue", row |-> row, view |-> view]
  <2>1. Go(t, place) /\ lock' = lock /\ place.at = "queue"
    BY <1>3 DEF Decide
  <2> HIDE DEF place
  <2> QED
    BY <1>1, <2>1, Moves
<1> QED
  BY <1>2, <1>3

\* What Render reads changes neither the lock nor the rows.
LEMMA LoadStep ==
  ASSUME Inv, NEW t \in Task, Load(t)
  PROVE  Inv'
<1> DEFINE row == task[t].row
           view == View(row.design)
<1>1. /\ task[t].at = "load"
      /\ late' = late /\ active' = active /\ torn' = torn /\ catalog' = catalog
  BY DEF Load, At, tables, history
<1>2. CASE Expired(Key(row.design))
  <2> DEFINE place == [at |-> "expire", force |-> task[t].force, row |-> row, view |-> view]
  <2>1. Go(t, place) /\ lock' = lock /\ place.at = "expire"
    BY <1>2 DEF Load
  <2>2. lock = t /\ ~At(t, "reload") /\ Drawing(t)
    BY <1>1 DEF Inv, TaskInv, Holding, At, Drawing
  <2> HIDE DEF place
  <2> QED
    BY <1>1, <2>1, <2>2, Moves
<1>3. CASE ~Expired(Key(row.design))
  <2>1. Decide(t, task[t].force, row, view)
    BY <1>3 DEF Load
  <2> QED
    BY <1>1, <2>1, DecideStep
<1> QED
  BY <1>2, <1>3

\* A render that fails lets go of the lock and queues nothing.
LEMMA FailStep ==
  ASSUME Inv, NEW t \in Task, Fail(t)
  PROVE  Inv'
<1>1. /\ task[t].at = "queue" /\ Go(t, Idle) /\ lock' = None
      /\ late' = late /\ active' = active /\ torn' = torn /\ catalog' = catalog
  BY DEF Fail, At, tables
<1>2. lock = t /\ ~At(t, "reload")
  BY <1>1 DEF Inv, TaskInv, Holding, At
<1> QED
  BY <1>1, <1>2, Moves DEF Idle

\* The one frame that may follow: whoever queues it was the only one drawing.
LEMMA QueueStep ==
  ASSUME Inv, NEW t \in Task, QueueDesignFrame(t)
  PROVE  Inv'
<1> DEFINE place == [at |-> "stamp", row |-> task[t].row, view |-> task[t].view]
<1>1. /\ task[t].at = "queue" /\ Go(t, place) /\ lock' = lock /\ place.at = "stamp"
      /\ late' = IF late = None THEN None ELSE late + 1
      /\ active' = active /\ torn' = torn /\ catalog' = catalog
  BY DEF QueueDesignFrame, At
<1> HIDE DEF place
<1>2. lock = t /\ ~At(t, "reload") /\ Drawing(t)
  BY <1>1 DEF Inv, TaskInv, Holding, At, Drawing
<1>3. /\ TaskInv'
      /\ \A u \in Task : task'[u] = IF u = t THEN place ELSE task[u]
  BY <1>1, <1>2, TaskMoves DEF Inv
<1>4. LateInv'
  <2>1. \A u \in Task : ~Drawing(u)'
    <3> TAKE u \in Task
    <3>1. CASE u = t
      BY <1>1, <1>3, <3>1 DEF Drawing
    <3>2. CASE u # t
      <4>1. ~Holding(u)
        BY <1>2, <3>2 DEF Inv, TaskInv
      <4> QED
        BY <1>3, <3>2, <4>1 DEF Drawing, Holding
    <3> QED
      BY <3>1, <3>2
  <2>2. CASE late = None
    BY <1>1, <2>2 DEF LateInv
  <2>3. CASE late # None
    <3>1. late = 0 /\ active = None
      BY <1>2, <2>3 DEF Inv, LateInv
    <3> QED
      BY <1>1, <2>1, <2>3, <3>1 DEF LateInv
  <2> QED
    BY <2>2, <2>3
<1>5. ReloadInv'
  BY <1>1, <1>2, <1>3 DEF Inv, ReloadInv, At
<1> QED
  BY <1>3, <1>4, <1>5 DEF Inv

\* The row is marked only if there is one.
LEMMA UpdateStep ==
  ASSUME Inv, NEW t \in Task, UpdateActiveDesignRender(t)
  PROVE  Inv'
<1>1. /\ task[t].at = "stamp" /\ Go(t, Idle) /\ lock' = None
      /\ late' = late /\ torn' = torn /\ catalog' = catalog
      /\ active = None => active' = None
  BY DEF UpdateActiveDesignRender, At
<1>2. lock = t /\ ~At(t, "reload")
  BY <1>1 DEF Inv, TaskInv, Holding, At
<1> QED
  BY <1>1, <1>2, Moves DEF Idle

-----------------------------------------------------------------------------
(* The goroutines outside Render. *)

\* A step of a goroutine that is not rendering and renders at most later.
LEMMA PlainStep ==
  ASSUME Inv, NEW t \in Task, NEW place, Go(t, place),
         place.at \notin {"configure", "reload", "load", "expire", "queue", "stamp"},
         ~At(t, "reload"), UNCHANGED <<catalog, active, lock, torn, late>>
  PROVE  Inv'
BY Moves

\* A new active design forgets that the one before was cleared.
LEMMA SetStep ==
  ASSUME Inv, NEW t \in Task, SetActiveDesign(t)
  PROVE  Inv'
<1> DEFINE place == Rendering(TRUE)
<1>1. /\ Go(t, place) /\ place.at = "render" /\ ~At(t, "reload")
      /\ late' = None /\ UNCHANGED <<catalog, lock, torn>>
  BY DEF SetActiveDesign, Rendering, At
<1> HIDE DEF place
<1>2. /\ TaskInv'
      /\ \A u \in Task : task'[u] = IF u = t THEN place ELSE task[u]
  BY <1>1, TaskMoves DEF Inv
<1>3. LateInv'
  BY <1>1 DEF LateInv
<1>4. ReloadInv'
  BY <1>1, <1>2 DEF Inv, ReloadInv, At
<1> QED
  BY <1>2, <1>3, <1>4 DEF Inv

\* A configuration is stored only for a widget the tablet has.
LEMMA ActiveWidgetsStep ==
  ASSUME Inv, NEW t \in Task, ActiveWidgets(t)
  PROVE  Inv'
<1>1. /\ task[t].at = "configure" /\ ~At(t, "reload")
      /\ UNCHANGED <<catalog, active, lock, torn, late>>
  BY DEF ActiveWidgets, At, tables, history
<1>2. CASE active # None /\ active.design \in Configurable
  <2> DEFINE place == [task[t] EXCEPT !.at = "store"]
  <2>1. Go(t, place)
    BY <1>2 DEF ActiveWidgets
  <2>2. place.at = "store"
    BY <1>1 DEF Inv, TaskInv, At
  <2> HIDE DEF place
  <2> QED
    BY <1>1, <2>1, <2>2, PlainStep
<1>3. CASE ~(active # None /\ active.design \in Configurable)
  <2>1. Go(t, Idle)
    BY <1>3 DEF ActiveWidgets
  <2> QED
    BY <1>1, <2>1, PlainStep DEF Idle
<1> QED
  BY <1>2, <1>3

\* Each file that is inserted leaves the list of its reload.
LEMMA ReloadFileStep ==
  ASSUME Inv, NEW t \in Task, ReloadFile(t)
  PROVE  Inv'
<1>1. PICK f \in task[t].left :
        /\ catalog' = catalog \cup {f}
        /\ Go(t, IF task[t].left = {f} THEN Idle
                 ELSE [task[t] EXCEPT !.left = task[t].left \ {f}])
  BY DEF ReloadFile
<1>2. /\ task[t].at = "reload" /\ task[t] \in [at : {"reload"}, left : SUBSET Files]
      /\ UNCHANGED <<active, lock, torn, late>>
  BY DEF ReloadFile, At, history, Inv, TaskInv
<1> DEFINE left == task[t].left \ {f}
<1>3. /\ task' = [u \in Task |-> task'[u]]
      /\ \A u \in Task : u # t => task'[u] = task[u]
  BY <1>1 DEF Go, Inv, TaskInv
<1>4. \/ left = {} /\ task'[t].at = "idle"
      \/ /\ task'[t] \in [at : {"reload"}, left : SUBSET Files]
         /\ task'[t].left = left
  <2>1. CASE task[t].left = {f}
    BY <1>1, <2>1 DEF Go, Inv, TaskInv, Idle
  <2>2. CASE task[t].left # {f}
    <3>1. task'[t] = [task[t] EXCEPT !.left = left]
      BY <1>1, <2>2 DEF Go, Inv, TaskInv
    <3> QED
      BY <1>2, <3>1
  <2> QED
    BY <2>1, <2>2
<1>5. task'[t].at \in {"idle", "reload"}
  BY <1>4
<1>6. TaskInv'
  <2>1. \A u \in Task : Holding(u)' => lock' = u
    BY <1>2, <1>3, <1>5 DEF Holding, Inv, TaskInv
  <2>2. \A u \in Task : At(u, "configure")' =>
          task'[u] = [at |-> "configure", owner |-> task'[u].owner, setting |-> task'[u].setting]
    BY <1>3, <1>5 DEF At, Inv, TaskInv
  <2>3. \A u \in Task : At(u, "reload")' => task'[u] \in [at : {"reload"}, left : SUBSET Files]
    BY <1>3, <1>4 DEF At, Inv, TaskInv
  <2> QED
    BY <1>3, <2>1, <2>2, <2>3 DEF TaskInv
<1>7. LateInv'
  BY <1>2, <1>3, <1>5 DEF Inv, LateInv, Drawing
<1>8. ReloadInv'
  <2>1. ASSUME ~torn, NEW g \in Files
        PROVE  g \in catalog' \/ \E u \in Task : At(u, "reload")' /\ g \in task'[u].left
    <3>1. CASE g \in catalog \cup {f}
      BY <1>1, <3>1
    <3>2. CASE g \notin catalog \cup {f}
      <4>1. PICK u \in Task : At(u, "reload") /\ g \in task[u].left
        BY <2>1, <3>2 DEF Inv, ReloadInv
      <4>2. CASE u = t
        BY <1>4, <3>2, <4>1, <4>2 DEF At
      <4>3. CASE u # t
        BY <1>3, <4>1, <4>3 DEF At
      <4> QED
        BY <4>2, <4>3
    <3> QED
      BY <3>1, <3>2
  <2> QED
    BY <1>2, <2>1 DEF ReloadInv
<1> QED
  BY <1>6, <1>7, <1>8 DEF Inv

\* A PUT or DELETE changes the designs of the database only.
LEMMA CatalogStep ==
  ASSUME Inv, Files \cap catalog \subseteq catalog',
         UNCHANGED <<active, task, lock, torn, late>>
  PROVE  Inv'
<1>1. TaskInv' /\ LateInv'
  BY DEF Inv, TaskInv, LateInv, Holding, At, Drawing
<1>2. ReloadInv'
  BY DEF Inv, ReloadInv, At
<1> QED
  BY <1>1, <1>2 DEF Inv

\* A request that goes to a place where it neither draws nor holds the lock.
LEMMA ArriveAt ==
  ASSUME Inv, NEW t \in Task, NEW place, Go(t, place), task[t].at = "idle",
         place.at \in {"idle", "configure", "reload"},
         place.at = "configure" =>
           place = [at |-> "configure", owner |-> place.owner, setting |-> place.setting],
         place.at = "reload" => place \in [at : {"reload"}, left : SUBSET Files],
         UNCHANGED <<active, lock, torn, late>>
  PROVE  TaskInv' /\ LateInv'
<1>1. /\ task' = [u \in Task |-> task'[u]]
      /\ \A u \in Task : task'[u] = IF u = t THEN place ELSE task[u]
  BY DEF Go, Inv, TaskInv
<1>2. \A u \in Task : Holding(u)' => lock' = u
  BY <1>1 DEF Holding, Inv, TaskInv
<1>3. \A u \in Task : At(u, "configure")' =>
        task'[u] = [at |-> "configure", owner |-> task'[u].owner, setting |-> task'[u].setting]
  BY <1>1 DEF At, Inv, TaskInv
<1>4. \A u \in Task : At(u, "reload")' => task'[u] \in [at : {"reload"}, left : SUBSET Files]
  BY <1>1 DEF At, Inv, TaskInv
<1>5. LateInv'
  BY <1>1 DEF Inv, LateInv, Drawing
<1> QED
  BY <1>1, <1>2, <1>3, <1>4, <1>5 DEF TaskInv

\* What a request reads of the active design is kept until it is stored.
LEMMA ConfigureStep ==
  ASSUME Inv, NEW t \in Task, NEW s, ConfigureWidget(t, s)
  PROVE  Inv'
<1> DEFINE place == [at |-> "configure", owner |-> Key(active.design), setting |-> s]
<1>1. /\ Go(t, place) /\ task[t].at = "idle"
      /\ UNCHANGED <<catalog, active, lock, torn, late>>
  BY DEF ConfigureWidget, Request, At, tables
<1>2. /\ place.at = "configure"
      /\ place = [at |-> "configure", owner |-> place.owner, setting |-> place.setting]
  OBVIOUS
<1> HIDE DEF place
<1>3. TaskInv' /\ LateInv'
  BY <1>1, <1>2, ArriveAt
<1>4. ReloadInv'
  BY <1>1 DEF Inv, TaskInv, ReloadInv, At, Go
<1> QED
  BY <1>3, <1>4 DEF Inv

\* A reload starts with every file to be inserted.
LEMMA ReloadStep ==
  ASSUME Inv, NEW t \in Task, Reload(t)
  PROVE  Inv'
<1> DEFINE place == IF Files = {} THEN Idle ELSE [at |-> "reload", left |-> Files]
<1>1. /\ Go(t, place) /\ task[t].at = "idle"
      /\ UNCHANGED <<active, lock, torn, late>>
  BY DEF Reload, Request, At
<1>2. \/ Files = {} /\ place.at = "idle"
      \/ /\ place.at = "reload" /\ place.left = Files
         /\ place \in [at : {"reload"}, left : SUBSET Files]
  BY DEF Idle
<1> HIDE DEF place
<1>3. TaskInv' /\ LateInv'
  BY <1>1, <1>2, ArriveAt
<1>4. ReloadInv'
  BY <1>1, <1>2 DEF Inv, TaskInv, ReloadInv, At, Go
<1> QED
  BY <1>3, <1>4 DEF Inv

\* Clearing starts the count of late frames, if the design was not cleared before.
LEMMA ClearLate ==
  ASSUME Inv, ClearActiveDesign, \A u \in Task : Drawing(u)' => Drawing(u)
  PROVE  LateInv'
<1>1. active' = None /\ late' = IF late = None THEN 0 ELSE late
  BY DEF ClearActiveDesign
<1>2. CASE late = None
  BY <1>1, <1>2, DesignsAssumption DEF LateInv
<1>3. CASE late # None
  BY <1>1, <1>3 DEF Inv, LateInv
<1> QED
  BY <1>2, <1>3

\* A hung-up request stops drawing, lets go of the lock, and may tear its reload.
LEMMA CancelStep ==
  ASSUME Inv, NEW t \in Task, Cancel(t)
  PROVE  Inv'
<1>1. /\ Go(t, Idle) /\ lock' = (IF lock = t THEN None ELSE lock)
      /\ torn' = (torn \/ At(t, "reload"))
      /\ UNCHANGED <<catalog, active, late>>
  BY DEF Cancel, tables
<1>2. /\ TaskInv'
      /\ \A u \in Task : task'[u] = IF u = t THEN Idle ELSE task[u]
  <2>1. Idle.at = "idle"
    BY DEF Idle
  <2> QED
    BY <1>1, <2>1, TaskMoves DEF Inv
<1>3. LateInv'
  BY <1>1, <1>2 DEF Inv, LateInv, Drawing, Idle
<1>4. ReloadInv'
  BY <1>1, <1>2 DEF Inv, ReloadInv, At, Idle
<1> QED
  BY <1>2, <1>3, <1>4 DEF Inv

\* Start-up inserts the whole directory before anything else runs.
LEMMA CrashStep ==
  ASSUME Inv, Crash
  PROVE  Inv'
<1>1. /\ task' = [t \in Task |-> Idle] /\ Files \subseteq catalog'
      /\ UNCHANGED <<active, late>>
  BY DEF Crash
<1>2. TaskInv'
  BY <1>1 DEF TaskInv, Idle, Holding, At
<1>3. LateInv'
  BY <1>1 DEF Inv, LateInv, Drawing, Idle
<1>4. ReloadInv'
  BY <1>1 DEF ReloadInv
<1> QED
  BY <1>2, <1>3, <1>4 DEF Inv

-----------------------------------------------------------------------------
(* Every step. *)

\* What a goroutine does next without anybody asking keeps the invariant.
LEMMA ContinueStep ==
  ASSUME Inv, NEW t \in Task, Continue(t)
  PROVE  Inv'
<1>1. CASE QueuePicture(t)
  <2>1. /\ Go(t, Idle) /\ Idle.at = "idle" /\ ~At(t, "reload")
        /\ UNCHANGED <<catalog, active, lock, torn, late>>
    BY <1>1 DEF QueuePicture, Idle, At, history
  <2> QED
    BY <2>1, PlainStep
<1>2. CASE StoreConfig(t)
  <2>1. /\ Go(t, Rendering(TRUE)) /\ Rendering(TRUE).at = "render" /\ ~At(t, "reload")
        /\ UNCHANGED <<catalog, active, lock, torn, late>>
    BY <1>2 DEF StoreConfig, Rendering, At, history
  <2> QED
    BY <2>1, PlainStep
<1> QED
  BY <1>1, <1>2, LoadStep, FailStep, QueueStep, UpdateStep, SetStep,
     ActiveWidgetsStep, ReloadFileStep DEF Continue, RenderStep

\* Whatever a request starts with keeps the invariant.
LEMMA ArriveStep ==
  ASSUME Inv, NEW t \in Handlers, Arrive(t)
  PROVE  Inv'
<1>0. t \in Task
  BY DEF Task
<1>1. ASSUME NEW d \in Design, Assign(t, d) \/ AssignInline(t, d)
      PROVE  Inv'
  <2> DEFINE place == [at |-> "set", design |-> d]
  <2>1. /\ Go(t, place) /\ place.at = "set" /\ ~At(t, "reload")
        /\ UNCHANGED <<catalog, active, lock, torn, late>>
    BY <1>1 DEF Assign, AssignInline, Request, At, tables
  <2> HIDE DEF place
  <2> QED
    BY <1>0, <2>1, PlainStep
<1>2. ASSUME NEW d \in Design, PutDatabaseDesign(t, d) \/ DeleteDatabaseDesign(t, d)
      PROVE  Inv'
  <2>1. /\ Files \cap catalog \subseteq catalog'
        /\ UNCHANGED <<active, task, lock, torn, late>>
    BY <1>2, DesignsAssumption DEF PutDatabaseDesign, DeleteDatabaseDesign
  <2> QED
    BY <2>1, CatalogStep
<1>3. ASSUME NEW s, ConfigureWidget(t, s)
      PROVE  Inv'
  BY <1>0, <1>3, ConfigureStep
<1>4. CASE Clear(t)
  <2>1. ClearActiveDesign /\ UNCHANGED <<catalog, task, lock, torn>>
    BY <1>4 DEF Clear, ClearActiveDesign
  <2>2. TaskInv' /\ ReloadInv'
    BY <2>1 DEF Inv, TaskInv, ReloadInv, Holding, At
  <2>3. LateInv'
    BY <2>1, ClearLate DEF Drawing
  <2> QED
    BY <2>2, <2>3 DEF Inv
<1>5. CASE Upload(t)
  <2> DEFINE place == [at |-> "picture"]
  <2>1. /\ ClearActiveDesign /\ Go(t, place) /\ place.at = "picture" /\ ~At(t, "reload")
        /\ UNCHANGED <<catalog, lock, torn>>
    BY <1>5 DEF Upload, ClearActiveDesign, Request, At
  <2> HIDE DEF place
  <2>2. TaskInv' /\ \A u \in Task : task'[u] = IF u = t THEN place ELSE task[u]
    BY <1>0, <2>1, TaskMoves DEF Inv
  <2>3. LateInv'
    BY <2>1, <2>2, ClearLate DEF Drawing
  <2>4. ReloadInv'
    BY <2>1, <2>2 DEF Inv, ReloadInv, At
  <2> QED
    BY <2>2, <2>3, <2>4 DEF Inv
<1>6. CASE PatchDevice(t)
  <2>1. /\ Go(t, Rendering(TRUE)) /\ Rendering(TRUE).at = "render" /\ ~At(t, "reload")
        /\ UNCHANGED <<catalog, active, lock, torn, late>>
    BY <1>6 DEF PatchDevice, Rendering, Request, At, tables
  <2> QED
    BY <1>0, <2>1, PlainStep
<1>7. CASE Reload(t)
  BY <1>0, <1>7, ReloadStep
<1> QED
  BY <1>1, <1>2, <1>3, <1>4, <1>5, <1>6, <1>7 DEF Arrive

\* Enrolment, a status and the scheduler's minute only begin something.
LEMMA BeginStep ==
  ASSUME Inv, NEW t \in Task, DeviceEnrolled(t) \/ StatusChanged(t) \/ (t = Scheduler /\ Tick)
  PROVE  Inv'
<1>1. CASE DeviceEnrolled(t)
  <2> DEFINE place == IF DefaultDesign \in catalog
                      THEN [at |-> "set", design |-> DefaultDesign] ELSE Idle
  <2>1. /\ Go(t, place) /\ place.at \in {"set", "idle"} /\ ~At(t, "reload")
        /\ UNCHANGED <<catalog, active, lock, torn, late>>
    BY <1>1 DEF DeviceEnrolled, Idle, At, tables, history
  <2> HIDE DEF place
  <2> QED
    BY <2>1, PlainStep
<1>2. CASE StatusChanged(t) \/ (t = Scheduler /\ Tick)
  <2>1. /\ Go(t, Rendering(FALSE)) /\ Rendering(FALSE).at = "render" /\ ~At(t, "reload")
        /\ UNCHANGED <<catalog, active, lock, torn, late>>
    BY <1>2 DEF StatusChanged, Tick, Rendering, At, tables, history
  <2> QED
    BY <2>1, PlainStep
<1> QED
  BY <1>1, <1>2

\* Every step of the design service keeps the invariant.
LEMMA NextInv == Inv /\ [Next]_vars => Inv'
<1> SUFFICES ASSUME Inv, [Next]_vars PROVE Inv'
  OBVIOUS
<1>1. ASSUME NEW t \in Task, Acquire(t) \/ Continue(t) PROVE Inv'
  BY <1>1, AcquireStep, ContinueStep
<1>2. ASSUME NEW t \in Handlers, Arrive(t) \/ Cancel(t) PROVE Inv'
  BY <1>2, ArriveStep, CancelStep DEF Task
<1>3. ASSUME NEW t \in Sessions, DeviceEnrolled(t) \/ StatusChanged(t) PROVE Inv'
  BY <1>3, BeginStep DEF Task
<1>4. CASE Tick
  BY <1>4, BeginStep DEF Task
<1>5. CASE Advance \/ UNCHANGED vars
  <2>1. UNCHANGED <<catalog, active, task, lock, torn, late>>
    BY <1>5 DEF Advance, vars, tables
  <2> QED
    BY <2>1, CatalogStep
<1>6. CASE Crash
  BY <1>6, CrashStep
<1> QED
  BY <1>1, <1>2, <1>3, <1>4, <1>5, <1>6 DEF Next

\* The invariant holds in every state the service can reach.
LEMMA Invariant == Spec => []Inv
BY InitInv, NextInv, PTL DEF Spec

\* After the active design is cleared, or a bitmap is uploaded over it, at most one
\* frame of a design is still queued, however many goroutines wait to render it.
THEOREM StopsAfterClearAlways == Spec => []StopsAfterClear
<1>1. Inv => StopsAfterClear
  BY DEF Inv, LateInv, StopsAfterClear
<1> QED
  BY <1>1, Invariant, PTL

\* When no reload is under way and none was cut off, the catalogue holds every design
\* of the directory, however many reloads overlapped.
THEOREM ReloadRestoresAlways == Spec => []ReloadRestores
<1>1. Inv => ReloadRestores
  BY DEF Inv, ReloadInv, ReloadRestores
<1> QED
  BY <1>1, Invariant, PTL

-----------------------------------------------------------------------------
(* Types *)

\* The frames of designs, and the sequence of all frames.
DesignFrames == [svg : Design, value : 0..MaxValue, offset : -Months..Months \cup {None},
                 config : Settings \cup {None}]
AnyFrame == DesignFrames \cup [svg : {Picture}]

RowsTyped ==
  /\ catalog \subseteq Design /\ Builtins \subseteq catalog
  /\ active \in Row \cup {None}
  /\ calendar \in [Owner -> Month \cup {None}]
  /\ config \in [Owner -> Settings \cup {None}]
  /\ frames \in Seq(AnyFrame)
  /\ value \in 0..MaxValue /\ requests \in 0..MaxRequests /\ late \in Nat \cup {None}
  /\ failed \in BOOLEAN /\ torn \in BOOLEAN
Locked == \A t \in Task : Holding(t) <=> lock = t

TypeInv == RowsTyped /\ task \in [Task -> Place] /\ Locked

\* A key of a design owns its widget states.
LEMMA KeyOwner == ASSUME NEW d \in Design PROVE Key(d) \in Owner
BY DEF Owner

\* What a goroutine keeps at each place.
LEMMA PlaceFields ==
  ASSUME NEW p \in Place
  PROVE  /\ p.at = "set" => p.design \in Design
         /\ p.at \in {"render", "load", "expire"} => p.force \in BOOLEAN
         /\ p.at \in {"load", "expire", "queue", "stamp"} => p.row \in Row
         /\ p.at \in {"expire", "queue", "stamp"} => p.view \in Views
         /\ p.at \in {"configure", "store"} => p.owner \in Owner /\ p.setting \in Settings \cup {None}
         /\ p.at = "reload" => p.left \in SUBSET Files
         /\ p.at \in {"claim", "state"} => p.owner \in Owner /\ p.button \in Buttons
         /\ p.at = "put" => p.owner \in Owner /\ p.month \in Month
BY DEF Place

\* The places a goroutine can be at, with what it keeps there.
LEMMA PlaceRecords ==
  /\ Idle \in Place /\ [at |-> "picture"] \in Place
  /\ \A d \in Design : [at |-> "set", design |-> d] \in Place
  /\ \A force \in BOOLEAN : Rendering(force) \in Place
  /\ \A force \in BOOLEAN, row \in Row :
       [at |-> "load", force |-> force, row |-> row] \in Place
  /\ \A force \in BOOLEAN, row \in Row, view \in Views :
       [at |-> "expire", force |-> force, row |-> row, view |-> view] \in Place
  /\ \A row \in Row, view \in Views :
       /\ [at |-> "queue", row |-> row, view |-> view] \in Place
       /\ [at |-> "stamp", row |-> row, view |-> view] \in Place
  /\ \A owner \in Owner, s \in Settings \cup {None} :
       /\ [at |-> "configure", owner |-> owner, setting |-> s] \in Place
       /\ [at |-> "store", owner |-> owner, setting |-> s] \in Place
  /\ \A left \in SUBSET Files : [at |-> "reload", left |-> left] \in Place
  /\ \A frame \in Nat, owner \in Owner, button \in Buttons :
       [at |-> "claim", frame |-> frame, owner |-> owner, button |-> button] \in Place
  /\ \A owner \in Owner, button \in Buttons :
       [at |-> "state", owner |-> owner, button |-> button] \in Place
  /\ \A owner \in Owner, month \in Month :
       [at |-> "put", owner |-> owner, month |-> month] \in Place
BY DEF Place, Idle, Rendering

\* What a render reads.
LEMMA ViewFacts ==
  ASSUME RowsTyped, NEW d \in Design
  PROVE  /\ View(d) \in Views
         /\ View(d).value = value /\ View(d).config = config[Key(d)]
<1>1. Key(d) \in Owner
  BY KeyOwner
<1>2. PICK month \in Month \cup {None} : month = calendar[Key(d)]
  BY <1>1 DEF RowsTyped
<1>3. PICK offset \in -Months..Months \cup {None} :
        offset = IF State(Key(d)) = None \/ Expired(Key(d)) THEN None ELSE State(Key(d)).offset
  BY <1>2 DEF State, Month
<1>4. View(d) = [value |-> value, offset |-> offset, config |-> config[Key(d)]]
  BY <1>3 DEF View
<1>5. value \in 0..MaxValue /\ config[Key(d)] \in Settings \cup {None}
  BY <1>1 DEF RowsTyped
<1> QED
  BY <1>4, <1>5 DEF Views

\* The frame a render queues shows the design and what was read.
LEMMA FrameFacts ==
  ASSUME NEW d \in Design, NEW view \in Views, NEW frame,
         frame = [svg |-> d, value |-> view.value, offset |-> view.offset, config |-> view.config]
  PROVE  /\ frame \in DesignFrames /\ frame.svg = d
         /\ frame.value = view.value /\ frame.offset = view.offset /\ frame.config = view.config
BY DEF DesignFrames, Views

\* Marking a row keeps its design.
LEMMA StampedFacts ==
  ASSUME NEW row \in Row, NEW svg \in Design, NEW view, view \in Views
  PROVE  /\ Stamped(row, svg, view) \in Row
         /\ Stamped(row, svg, view).design = row.design
         /\ Stamped(row, svg, view).deps = Dependencies(svg)
         /\ Stamped(row, svg, view).hash = ValuesHash(view, Dependencies(svg))
         /\ Stamped(row, svg, view).refresh = (svg \in Periodic)
<1> DEFINE V == 0..MaxValue \cup -Months..Months \cup {None}
<1>1. PICK deps \in SUBSET Keys : deps = Dependencies(svg)
  BY DEF Dependencies
<1>2. PICK hash : hash = ValuesHash(view, deps)
  OBVIOUS
<1>3. \A k \in Keys : view[k] \in V
  BY DEF Keys, Views
<1>4. hash \in [deps -> V]
  BY <1>1, <1>2, <1>3 DEF ValuesHash
<1>5. hash \in UNION {[s -> V] : s \in SUBSET Keys}
  BY <1>1, <1>4
<1>6. PICK refresh \in BOOLEAN : refresh = (svg \in Periodic)
  <2>1. CASE svg \in Periodic
    <3>1. TRUE \in BOOLEAN /\ TRUE = (svg \in Periodic)
      BY <2>1, Zenon
    <3> QED
      BY <3>1, Zenon
  <2>2. CASE svg \notin Periodic
    <3>1. FALSE = (svg \in Periodic)
      BY <2>2, SMT
    <3>2. FALSE \in BOOLEAN
      OBVIOUS
    <3> QED
      BY <3>1, <3>2, Zenon
  <2> QED
    BY <2>1, <2>2
<1>7. Stamped(row, svg, view) = [row EXCEPT !.deps = deps, !.hash = hash, !.refresh = refresh]
  BY <1>1, <1>2, <1>6 DEF Stamped
<1> QED
  BY <1>1, <1>2, <1>5, <1>6, <1>7 DEF Row

\* A new tablet has a typed row, nobody renders and the lock is free.
LEMMA InitTypes == Init => TypeInv
<1> SUFFICES ASSUME Init PROVE TypeInv
  OBVIOUS
<1>1. RowsTyped
  <2>1. MaxValue \in Nat /\ MaxRequests \in Nat
    BY DesignsAssumption
  <2>2. catalog \subseteq Design /\ Builtins \subseteq catalog
    BY DEF Init, Design
  <2>3. calendar \in [Owner -> Month \cup {None}] /\ config \in [Owner -> Settings \cup {None}]
    BY DEF Init
  <2>4. frames \in Seq(AnyFrame) /\ active \in Row \cup {None}
    BY DEF Init
  <2>5. failed \in BOOLEAN /\ torn \in BOOLEAN
    BY DEF Init
  <2>6. value \in 0..MaxValue /\ requests \in 0..MaxRequests /\ late \in Nat \cup {None}
    BY <2>1 DEF Init
  <2> QED
    BY <2>2, <2>3, <2>4, <2>5, <2>6 DEF RowsTyped
<1>2. PICK s \in Sessions : task = [t \in Task |-> IF t = s THEN [at |-> "enrolled"] ELSE Idle]
  BY DEF Init
<1>3. [at |-> "enrolled"] \in Place /\ Idle \in Place
  BY PlaceRecords DEF Place
<1>4. task \in [Task -> Place] /\ \A t \in Task : task[t].at \in {"enrolled", "idle"}
  BY <1>2, <1>3 DEF Idle
<1>5. Locked
  BY <1>4, DesignsAssumption DEF Init, Locked, Holding
<1> QED
  BY <1>1, <1>4, <1>5 DEF TypeInv

\* A goroutine goes to a well-formed place, with the lock exactly inside Render.
LEMMA TypedMove ==
  ASSUME TypeInv, RowsTyped', NEW t \in Task, NEW place \in Place, Go(t, place),
         \/ /\ place.at \in {"load", "expire", "queue", "stamp"}
            /\ lock' = t /\ lock \in {t, None}
         \/ /\ place.at \notin {"load", "expire", "queue", "stamp"}
            /\ \/ lock = t /\ lock' = None
               \/ lock # t /\ lock' = lock
  PROVE  TypeInv'
<1>1. /\ task' \in [Task -> Place]
      /\ task'[t] = place /\ \A u \in Task : u # t => task'[u] = task[u]
  BY DEF TypeInv, Go
<1>2. ASSUME NEW u \in Task PROVE Holding(u)' <=> lock' = u
  <2>1. CASE u = t
    BY <1>1, <2>1, DesignsAssumption DEF Holding
  <2>2. CASE u # t
    <3>1. Holding(u)' <=> Holding(u)
      BY <1>1, <2>2 DEF Holding
    <3>2. Holding(u) <=> lock = u
      BY DEF TypeInv, Locked
    <3> QED
      BY <2>2, <3>1, <3>2, DesignsAssumption
  <2> QED
    BY <2>1, <2>2
<1> QED
  BY <1>1, <1>2 DEF TypeInv, Locked

\* A goroutine outside Render does not have the lock and does not touch it.
LEMMA TypedPlain ==
  ASSUME TypeInv, RowsTyped', NEW t \in Task, NEW place \in Place, Go(t, place), lock' = lock,
         place.at \notin {"load", "expire", "queue", "stamp"},
         task[t].at \notin {"load", "expire", "queue", "stamp"}
  PROVE  TypeInv'
<1>1. lock # t
  BY DEF TypeInv, Locked, Holding
<1> QED
  BY <1>1, TypedMove

\* The rows keep their types when only counters and flags change.
LEMMA RowsKept ==
  ASSUME RowsTyped, UNCHANGED <<catalog, active, calendar, config, frames, value>>,
         requests' \in 0..MaxRequests, late' \in Nat \cup {None},
         failed' \in BOOLEAN, torn' \in BOOLEAN
  PROVE  RowsTyped'
BY DEF RowsTyped

\* The bound on requests.
LEMMA OccursFacts ==
  ASSUME RowsTyped, NEW kind, Occurs(kind)
  PROVE  requests' \in 0..MaxRequests
BY DesignsAssumption DEF RowsTyped, Occurs

\* Taking the lock.
LEMMA AcquireTypes ==
  ASSUME TypeInv, NEW t \in Task, Acquire(t)
  PROVE  TypeInv'
<1>1. /\ task[t].at = "render" /\ lock = None
      /\ UNCHANGED <<catalog, active, calendar, config, frames, value, requests, failed, torn, late>>
  BY DEF Acquire, At, tables, history
<1>2. RowsTyped'
  BY <1>1, RowsKept DEF TypeInv, RowsTyped
<1>3. CASE active = None
  <2>1. Go(t, Idle) /\ lock' = lock /\ Idle.at = "idle" /\ Idle \in Place
    BY <1>3, PlaceRecords DEF Acquire, Idle
  <2> QED
    BY <1>1, <1>2, <2>1, TypedPlain
<1>4. CASE active # None
  <2>1. task[t].force \in BOOLEAN /\ active \in Row
    BY <1>1, <1>4, PlaceFields DEF TypeInv, RowsTyped
  <2>2. PICK place \in Place :
          place = [at |-> "load", force |-> task[t].force, row |-> active]
    BY <2>1, PlaceRecords
  <2>3. place.at = "load" /\ Go(t, place) /\ lock' = t
    BY <1>4, <2>2 DEF Acquire
  <2> QED
    BY <1>1, <1>2, <2>3, TypedMove
<1> QED
  BY <1>3, <1>4

\* Deciding whether to draw.
LEMMA DecideTypes ==
  ASSUME TypeInv, NEW t \in Task, NEW force, NEW row \in Row, NEW view \in Views,
         Decide(t, force, row, view), task[t].at \in {"load", "expire"}, RowsTyped'
  PROVE  TypeInv'
<1>1. lock = t
  BY DEF TypeInv, Locked, Holding
<1>2. CASE Suppressed(force, row, view)
  <2>1. Go(t, Idle) /\ lock' = None /\ Idle.at = "idle" /\ Idle \in Place
    BY <1>2, PlaceRecords DEF Decide, Idle
  <2> QED
    BY <1>1, <2>1, TypedMove
<1>3. CASE ~Suppressed(force, row, view)
  <2>1. PICK place \in Place : place = [at |-> "queue", row |-> row, view |-> view]
    BY PlaceRecords
  <2>2. place.at = "queue" /\ Go(t, place) /\ lock' = lock
    BY <1>3, <2>1 DEF Decide
  <2> QED
    BY <1>1, <2>2, TypedMove
<1> QED
  BY <1>2, <1>3

\* Reading the values and the widget states.
LEMMA LoadTypes ==
  ASSUME TypeInv, NEW t \in Task, Load(t)
  PROVE  TypeInv'
<1>1. /\ task[t].at = "load"
      /\ UNCHANGED <<catalog, active, calendar, config, frames, value, requests, failed, torn, late>>
  BY DEF Load, At, tables, history
<1>2. RowsTyped'
  BY <1>1, RowsKept DEF TypeInv, RowsTyped
<1>3. PICK force \in BOOLEAN, row \in Row : force = task[t].force /\ row = task[t].row
  BY <1>1, PlaceFields DEF TypeInv
<1>4. PICK view \in Views : view = View(row.design)
  BY ViewFacts DEF Row, TypeInv
<1>5. CASE Expired(Key(row.design))
  <2>1. PICK place \in Place :
          place = [at |-> "expire", force |-> force, row |-> row, view |-> view]
    BY PlaceRecords
  <2>2. place.at = "expire" /\ Go(t, place) /\ lock' = lock
    BY <1>3, <1>4, <1>5, <2>1 DEF Load
  <2>3. lock = t
    BY <1>1 DEF TypeInv, Locked, Holding
  <2> QED
    BY <1>2, <2>2, <2>3, TypedMove
<1>6. CASE ~Expired(Key(row.design))
  <2>1. Decide(t, force, row, view)
    BY <1>3, <1>4, <1>6 DEF Load
  <2> QED
    BY <1>1, <1>2, <2>1, DecideTypes
<1> QED
  BY <1>5, <1>6

\* Queueing and marking, or failing to.
LEMMA RenderTypes ==
  ASSUME TypeInv, NEW t \in Task,
         Fail(t) \/ QueueDesignFrame(t) \/ UpdateActiveDesignRender(t)
  PROVE  TypeInv'
<1>1. task[t].at \in {"queue", "stamp"} /\ lock = t
  BY DEF Fail, QueueDesignFrame, UpdateActiveDesignRender, At, TypeInv, Locked, Holding
<1>2. PICK row \in Row, view \in Views : row = task[t].row /\ view = task[t].view
  BY <1>1, PlaceFields DEF TypeInv
<1>3. row.design \in Design
  BY DEF Row
<1>4. Idle \in Place /\ Idle.at = "idle"
  BY PlaceRecords DEF Idle
<1>5. CASE Fail(t)
  <2>1. /\ UNCHANGED <<catalog, active, calendar, config, frames, value, requests, torn, late>>
        /\ failed' = TRUE /\ Go(t, Idle) /\ lock' = None
    BY <1>5 DEF Fail, tables
  <2>2. RowsTyped'
    BY <2>1, RowsKept DEF TypeInv, RowsTyped
  <2> QED
    BY <1>1, <1>4, <2>1, <2>2, TypedMove
<1>6. CASE QueueDesignFrame(t)
  <2>1. PICK frame : frame = [svg |-> row.design, value |-> view.value,
                              offset |-> view.offset, config |-> view.config]
    OBVIOUS
  <2>2. frame \in AnyFrame
    BY <1>3, <2>1, FrameFacts DEF AnyFrame
  <2>3. /\ frames' = Append(frames, frame)
        /\ Go(t, [at |-> "stamp", row |-> row, view |-> view])
        /\ late' = IF late = None THEN None ELSE late + 1
        /\ UNCHANGED <<catalog, active, calendar, config, value, lock, requests, failed, torn>>
    BY <1>2, <1>6, <2>1 DEF QueueDesignFrame
  <2>4. frames' \in Seq(AnyFrame)
    BY <2>2, <2>3 DEF TypeInv, RowsTyped
  <2>5. late' \in Nat \cup {None}
    BY <2>3 DEF TypeInv, RowsTyped
  <2>6. RowsTyped'
    BY <2>3, <2>4, <2>5 DEF TypeInv, RowsTyped
  <2>7. PICK place \in Place : place = [at |-> "stamp", row |-> row, view |-> view]
    BY PlaceRecords
  <2>8. place.at = "stamp" /\ Go(t, place)
    BY <2>3, <2>7
  <2> QED
    BY <1>1, <2>3, <2>6, <2>8, TypedMove
<1>7. CASE UpdateActiveDesignRender(t)
  <2>1. /\ active' = IF active = None THEN None ELSE Stamped(active, row.design, view)
        /\ failed' \in BOOLEAN /\ Go(t, Idle) /\ lock' = None
        /\ UNCHANGED <<catalog, calendar, config, frames, value, requests, torn, late>>
    BY <1>2, <1>7 DEF UpdateActiveDesignRender, TypeInv, RowsTyped
  <2>2. active' \in Row \cup {None}
    BY <1>3, <2>1, StampedFacts DEF TypeInv, RowsTyped
  <2>3. RowsTyped'
    BY <2>1, <2>2 DEF TypeInv, RowsTyped
  <2> QED
    BY <1>1, <1>4, <2>1, <2>3, TypedMove
<1> QED
  BY <1>5, <1>6, <1>7

\* What a goroutine does next without anybody asking.
LEMMA ContinueTypes ==
  ASSUME TypeInv, NEW t \in Task, Continue(t)
  PROVE  TypeInv'
<1>1. Rendering(TRUE) \in Place /\ Rendering(TRUE).at = "render" /\ Idle \in Place /\ Idle.at = "idle"
  BY PlaceRecords DEF Rendering, Idle
<1>2. CASE SetActiveDesign(t)
  <2>1. /\ task[t].at = "set" /\ Go(t, Rendering(TRUE)) /\ late' = None
        /\ active' = [design |-> task[t].design, deps |-> {}, hash |-> None,
                      refresh |-> active # None /\ active.refresh]
        /\ UNCHANGED <<catalog, calendar, config, frames, value, lock, requests, failed, torn>>
    BY <1>2 DEF SetActiveDesign, At
  <2>2. PICK design \in Design : design = task[t].design
    BY <2>1, PlaceFields DEF TypeInv
  <2>3. PICK refresh \in BOOLEAN : refresh = (active # None /\ active.refresh)
    BY DEF TypeInv, RowsTyped, Row
  <2>4. active' = [design |-> design, deps |-> {}, hash |-> None, refresh |-> refresh]
    BY <2>1, <2>2, <2>3
  <2>5. active' \in Row
    BY <2>4 DEF Row
  <2>6. RowsTyped'
    BY <2>1, <2>5 DEF TypeInv, RowsTyped
  <2> QED
    BY <1>1, <2>1, <2>6, TypedPlain
<1>3. CASE QueuePicture(t)
  <2>1. /\ task[t].at = "picture" /\ Go(t, Idle) /\ frames' = Append(frames, [svg |-> Picture])
        /\ UNCHANGED <<catalog, active, calendar, config, value, lock, requests, failed, torn, late>>
    BY <1>3 DEF QueuePicture, At, history
  <2>2. [svg |-> Picture] \in AnyFrame
    BY DEF AnyFrame
  <2>3. frames' \in Seq(AnyFrame)
    BY <2>1, <2>2 DEF TypeInv, RowsTyped
  <2>4. RowsTyped'
    BY <2>1, <2>3 DEF TypeInv, RowsTyped
  <2> QED
    BY <1>1, <2>1, <2>4, TypedPlain
<1>4. CASE ActiveWidgets(t)
  <2>1. /\ task[t].at = "configure"
        /\ Go(t, IF active # None /\ active.design \in Configurable
                 THEN [task[t] EXCEPT !.at = "store"] ELSE Idle)
        /\ UNCHANGED <<catalog, active, calendar, config, frames, value, lock, requests, failed, torn, late>>
    BY <1>4 DEF ActiveWidgets, At, tables, history
  <2>2. RowsTyped'
    BY <2>1, RowsKept DEF TypeInv, RowsTyped
  <2>3. task[t] \in [at : {"configure", "store"}, owner : Owner, setting : Settings \cup {None}]
    BY <2>1 DEF TypeInv, Place
  <2>4. PICK place : place = [task[t] EXCEPT !.at = "store"]
    OBVIOUS
  <2>5. place \in [at : {"configure", "store"}, owner : Owner, setting : Settings \cup {None}]
        /\ place.at = "store"
    BY <2>3, <2>4
  <2>6. place \in Place
    BY <2>5 DEF Place
  <2>7. PICK next \in Place : Go(t, next) /\ next.at \in {"store", "idle"}
    BY <1>1, <2>1, <2>4, <2>5, <2>6
  <2> QED
    BY <2>1, <2>2, <2>7, TypedPlain
<1>5. CASE StoreConfig(t)
  <2>1. /\ task[t].at = "store" /\ Go(t, Rendering(TRUE))
        /\ config' = [config EXCEPT ![task[t].owner] = task[t].setting]
        /\ UNCHANGED <<catalog, active, calendar, frames, value, lock, requests, failed, torn, late>>
    BY <1>5 DEF StoreConfig, At, history
  <2>2. task[t].owner \in Owner /\ task[t].setting \in Settings \cup {None}
    BY <2>1, PlaceFields DEF TypeInv
  <2>3. config' \in [Owner -> Settings \cup {None}]
    BY <2>1, <2>2 DEF TypeInv, RowsTyped
  <2>4. RowsTyped'
    BY <2>1, <2>3 DEF TypeInv, RowsTyped
  <2> QED
    BY <1>1, <2>1, <2>4, TypedPlain
<1>6. CASE ReloadFile(t)
  <2>1. PICK f \in task[t].left :
          /\ catalog' = catalog \cup {f}
          /\ Go(t, IF task[t].left = {f} THEN Idle
                   ELSE [task[t] EXCEPT !.left = task[t].left \ {f}])
    BY <1>6 DEF ReloadFile
  <2>2. /\ task[t].at = "reload"
        /\ UNCHANGED <<active, calendar, config, frames, value, lock, requests, failed, torn, late>>
    BY <1>6 DEF ReloadFile, At, history
  <2>3. task[t] \in [at : {"reload"}, left : SUBSET Files]
    BY <2>2 DEF TypeInv, Place
  <2>4. f \in Design
    BY <2>1, <2>3 DEF Design
  <2>5. RowsTyped'
    BY <2>1, <2>2, <2>4 DEF TypeInv, RowsTyped
  <2>6. PICK left \in SUBSET Files : left = task[t].left \ {f}
    BY <2>3
  <2>7. PICK place : place = [task[t] EXCEPT !.left = left]
    OBVIOUS
  <2>8. place \in [at : {"reload"}, left : SUBSET Files]
    BY <2>3, <2>6, <2>7
  <2>9. place \in Place /\ place.at = "reload"
    BY <2>8 DEF Place
  <2>10. PICK next \in Place : Go(t, next) /\ next.at \in {"reload", "idle"}
    BY <1>1, <2>1, <2>6, <2>7, <2>9
  <2> QED
    BY <2>2, <2>5, <2>10, TypedPlain
<1> QED
  BY <1>2, <1>3, <1>4, <1>5, <1>6, LoadTypes, RenderTypes DEF Continue, RenderStep

\* Whatever a request starts with.
LEMMA ArriveTypes ==
  ASSUME TypeInv, NEW t \in Handlers, Arrive(t)
  PROVE  TypeInv'
<1>1. t \in Task
  BY DEF Task
<1>2. ASSUME NEW kind, Request(t, kind)
      PROVE  requests' \in 0..MaxRequests /\ task[t].at = "idle"
  BY <1>2, OccursFacts DEF Request, At, TypeInv
<1>3. ASSUME NEW d \in Design, Assign(t, d) \/ AssignInline(t, d)
      PROVE  TypeInv'
  <2>1. /\ requests' \in 0..MaxRequests /\ task[t].at = "idle"
        /\ Go(t, [at |-> "set", design |-> d])
        /\ UNCHANGED <<catalog, active, calendar, config, frames, value, lock, failed, torn, late>>
    BY <1>2, <1>3 DEF Assign, AssignInline, tables
  <2>2. PICK place \in Place : place = [at |-> "set", design |-> d]
    BY PlaceRecords
  <2>3. place.at = "set" /\ Go(t, place)
    BY <2>1, <2>2
  <2>4. RowsTyped'
    BY <2>1, RowsKept DEF TypeInv, RowsTyped
  <2> QED
    BY <1>1, <2>1, <2>3, <2>4, TypedPlain
<1>4. ASSUME NEW d \in Design, PutDatabaseDesign(t, d) \/ DeleteDatabaseDesign(t, d)
      PROVE  TypeInv'
  <2>1. /\ requests' \in 0..MaxRequests
        /\ catalog' \subseteq Design /\ Builtins \subseteq catalog'
        /\ UNCHANGED <<active, calendar, config, frames, value, lock, task, failed, torn, late>>
    BY <1>2, <1>4, DesignsAssumption
       DEF PutDatabaseDesign, DeleteDatabaseDesign, TypeInv, RowsTyped
  <2>2. RowsTyped'
    BY <2>1 DEF TypeInv, RowsTyped
  <2> QED
    BY <2>1, <2>2 DEF TypeInv, Locked, Holding
<1>5. ASSUME NEW s \in Settings \cup {None}, ConfigureWidget(t, s)
      PROVE  TypeInv'
  <2>1. /\ requests' \in 0..MaxRequests /\ task[t].at = "idle" /\ active # None
        /\ Go(t, [at |-> "configure", owner |-> Key(active.design), setting |-> s])
        /\ UNCHANGED <<catalog, active, calendar, config, frames, value, lock, failed, torn, late>>
    BY <1>2, <1>5 DEF ConfigureWidget, tables
  <2>2. active.design \in Design
    BY <2>1 DEF TypeInv, RowsTyped, Row
  <2>3. Key(active.design) \in Owner
    BY <2>2, KeyOwner
  <2>4. PICK place \in Place :
          place = [at |-> "configure", owner |-> Key(active.design), setting |-> s]
    BY <2>3, PlaceRecords
  <2>5. place.at = "configure" /\ Go(t, place)
    BY <2>1, <2>4
  <2>6. RowsTyped'
    BY <2>1, RowsKept DEF TypeInv, RowsTyped
  <2> QED
    BY <1>1, <2>1, <2>5, <2>6, TypedPlain
<1>6. ASSUME ClearActiveDesign, requests' \in 0..MaxRequests
      PROVE  RowsTyped' /\ lock' = lock
  <2>1. /\ active' = None /\ late' \in Nat \cup {None}
        /\ UNCHANGED <<catalog, calendar, config, frames, value, lock, failed, torn>>
    BY <1>6 DEF ClearActiveDesign, TypeInv, RowsTyped
  <2> QED
    BY <1>6, <2>1 DEF TypeInv, RowsTyped
<1>7. CASE Clear(t)
  <2>1. RowsTyped' /\ lock' = lock /\ task' = task
    BY <1>2, <1>6, <1>7 DEF Clear
  <2> QED
    BY <2>1 DEF TypeInv, Locked, Holding
<1>8. CASE Upload(t)
  <2>1. RowsTyped' /\ lock' = lock /\ Go(t, [at |-> "picture"]) /\ task[t].at = "idle"
    BY <1>2, <1>6, <1>8 DEF Upload
  <2>2. PICK place \in Place : place = [at |-> "picture"]
    BY PlaceRecords
  <2>3. place.at = "picture" /\ Go(t, place)
    BY <2>1, <2>2
  <2> QED
    BY <1>1, <2>1, <2>3, TypedPlain
<1>9. CASE PatchDevice(t)
  <2>1. /\ requests' \in 0..MaxRequests /\ task[t].at = "idle"
        /\ value < MaxValue /\ value' = value + 1 /\ Go(t, Rendering(TRUE))
        /\ UNCHANGED <<catalog, active, calendar, config, frames, lock, failed, torn, late>>
    BY <1>2, <1>9 DEF PatchDevice, tables
  <2>2. RowsTyped'
    BY <2>1, DesignsAssumption DEF TypeInv, RowsTyped
  <2>3. Rendering(TRUE) \in Place /\ Rendering(TRUE).at = "render"
    BY PlaceRecords DEF Rendering
  <2> QED
    BY <1>1, <2>1, <2>2, <2>3, TypedPlain
<1>10. CASE Reload(t)
  <2>1. /\ requests' \in 0..MaxRequests /\ task[t].at = "idle" /\ catalog' = catalog \ Files
        /\ Go(t, IF Files = {} THEN Idle ELSE [at |-> "reload", left |-> Files])
        /\ UNCHANGED <<active, calendar, config, frames, value, lock, failed, torn, late>>
    BY <1>2, <1>10 DEF Reload
  <2>2. RowsTyped'
    BY <2>1, DesignsAssumption DEF TypeInv, RowsTyped
  <2>3. PICK place \in Place : place = [at |-> "reload", left |-> Files]
    BY PlaceRecords
  <2>4. place.at = "reload" /\ Idle \in Place /\ Idle.at = "idle"
    BY <2>3, PlaceRecords DEF Idle
  <2>5. PICK next \in Place : Go(t, next) /\ next.at \in {"reload", "idle"}
    BY <2>1, <2>3, <2>4
  <2> QED
    BY <1>1, <2>1, <2>2, <2>5, TypedPlain
<1> QED
  BY <1>3, <1>4, <1>5, <1>7, <1>8, <1>9, <1>10 DEF Arrive

\* Enrolment, a status and the scheduler's minute only begin something.
LEMMA BeginTypes ==
  ASSUME TypeInv, NEW t \in Task, DeviceEnrolled(t) \/ StatusChanged(t) \/ (t = Scheduler /\ Tick)
  PROVE  TypeInv'
<1>1. CASE DeviceEnrolled(t)
  <2>1. /\ task[t].at = "enrolled"
        /\ Go(t, IF DefaultDesign \in catalog
                 THEN [at |-> "set", design |-> DefaultDesign] ELSE Idle)
        /\ UNCHANGED <<catalog, active, calendar, config, frames, value, lock, requests,
                       failed, torn, late>>
    BY <1>1 DEF DeviceEnrolled, At, tables, history
  <2>2. RowsTyped'
    BY <2>1, RowsKept DEF TypeInv, RowsTyped
  <2>3. DefaultDesign \in catalog =>
          /\ [at |-> "set", design |-> DefaultDesign] \in Place
          /\ [at |-> "set", design |-> DefaultDesign].at = "set"
    BY PlaceRecords DEF TypeInv, RowsTyped
  <2>4. Idle \in Place /\ Idle.at = "idle"
    BY PlaceRecords DEF Idle
  <2>5. PICK next \in Place : Go(t, next) /\ next.at \in {"set", "idle"}
    BY <2>1, <2>3, <2>4
  <2> QED
    BY <2>1, <2>2, <2>5, TypedPlain
<1>2. CASE StatusChanged(t) \/ (t = Scheduler /\ Tick)
  <2>1. /\ task[t].at = "idle" /\ Go(t, Rendering(FALSE)) /\ requests' \in 0..MaxRequests
        /\ UNCHANGED <<catalog, active, calendar, config, frames, value, lock, failed, torn, late>>
    BY <1>2, OccursFacts DEF StatusChanged, Tick, At, tables, history, TypeInv, RowsTyped
  <2>2. RowsTyped'
    BY <2>1, RowsKept DEF TypeInv, RowsTyped
  <2>3. Rendering(FALSE) \in Place /\ Rendering(FALSE).at = "render"
    BY PlaceRecords DEF Rendering
  <2> QED
    BY <2>1, <2>2, <2>3, TypedPlain
<1> QED
  BY <1>1, <1>2

\* Faults and the clock.
LEMMA FaultTypes ==
  ASSUME TypeInv, Advance \/ Crash \/ (\E t \in Handlers : Cancel(t))
  PROVE  TypeInv'
<1>1. CASE Advance
  <2>1. /\ requests' \in 0..MaxRequests /\ value < MaxValue /\ value' = value + 1
        /\ UNCHANGED <<catalog, active, calendar, config, frames, lock, task, failed, torn, late>>
    BY <1>1, OccursFacts DEF Advance, tables, TypeInv
  <2>2. RowsTyped'
    BY <2>1, DesignsAssumption DEF TypeInv, RowsTyped
  <2> QED
    BY <2>1, <2>2 DEF TypeInv, Locked, Holding
<1>2. CASE Crash
  <2>1. /\ requests' \in 0..MaxRequests
        /\ catalog' = catalog \cup Builtins \cup Files /\ lock' = None
        /\ task' = [t \in Task |-> Idle]
        /\ failed' \in BOOLEAN /\ torn' = FALSE
        /\ UNCHANGED <<active, calendar, config, frames, value, late>>
    BY <1>2, OccursFacts DEF Crash, TypeInv, RowsTyped
  <2>2. RowsTyped'
    BY <2>1 DEF TypeInv, RowsTyped, Design
  <2>3. task' \in [Task -> Place] /\ \A t \in Task : task'[t].at = "idle"
    BY <2>1, PlaceRecords DEF Idle
  <2>4. Locked'
    BY <2>1, <2>3, DesignsAssumption DEF Locked, Holding
  <2> QED
    BY <2>2, <2>3, <2>4 DEF TypeInv
<1>3. ASSUME NEW t \in Handlers, Cancel(t)
      PROVE  TypeInv'
  <2>1. /\ requests' \in 0..MaxRequests
        /\ Go(t, Idle) /\ lock' = (IF lock = t THEN None ELSE lock)
        /\ failed' = TRUE /\ torn' \in BOOLEAN
        /\ UNCHANGED <<catalog, active, calendar, config, frames, value, late>>
    BY <1>3, OccursFacts DEF Cancel, tables, TypeInv, RowsTyped, At
  <2>2. RowsTyped'
    BY <2>1, RowsKept DEF TypeInv, RowsTyped
  <2>3. Idle \in Place /\ Idle.at = "idle" /\ t \in Task
    BY PlaceRecords DEF Idle, Task
  <2> QED
    BY <2>1, <2>2, <2>3, TypedMove
<1> QED
  BY <1>1, <1>2, <1>3

\* Every step keeps the types and the lock.
LEMMA NextTypes == TypeInv /\ [Next]_vars => TypeInv'
<1> SUFFICES ASSUME TypeInv, [Next]_vars PROVE TypeInv'
  OBVIOUS
<1>1. ASSUME NEW t \in Task, Acquire(t) \/ Continue(t) PROVE TypeInv'
  BY <1>1, AcquireTypes, ContinueTypes
<1>2. ASSUME NEW t \in Sessions, DeviceEnrolled(t) \/ StatusChanged(t) PROVE TypeInv'
  BY <1>2, BeginTypes DEF Task
<1>3. CASE Tick
  BY <1>3, BeginTypes DEF Task
<1>4. CASE UNCHANGED vars
  <2>1. RowsTyped'
    BY <1>4 DEF TypeInv, RowsTyped, vars
  <2> QED
    BY <1>4, <2>1 DEF TypeInv, Locked, Holding, vars
<1> QED
  BY <1>1, <1>2, <1>3, <1>4, ArriveTypes, FaultTypes DEF Next

\* The typed rows, places and lock are what the type invariant says.
LEMMA TypesFollow == TypeInv => TypeOK
<1> SUFFICES ASSUME TypeInv PROVE TypeOK
  OBVIOUS
<1>1. \A f \in DesignFrame : frames[f].svg \in Design
  <2>1. \A f \in DOMAIN frames : frames[f] \in AnyFrame
    BY DEF TypeInv, RowsTyped
  <2> QED
    BY <2>1 DEF DesignFrame, AnyFrame, DesignFrames
<1> QED
  BY <1>1 DEF TypeInv, RowsTyped, Locked, TypeOK

\* The types of the tables and of every goroutine's locals; and the tablet's lock is
\* held exactly by the goroutine that is inside Render.
THEOREM DesignTypes == Spec => []TypeOK
BY InitTypes, NextTypes, TypesFollow, PTL DEF Spec

-----------------------------------------------------------------------------
(* What a step can do to a render *)

\* Steps that end what some goroutines do, with an error; those of connections go on,
\* or else nobody renders any more.
Breaks ==
  /\ failed' = TRUE /\ UNCHANGED <<active, config, frames, value>>
  /\ \A u \in Task : task'[u] = task[u] \/ task'[u].at = "idle"
  /\ (\A u \in Sessions : task'[u] = task[u]) \/ \A u \in Task : ~Holding(u)'

\* Steps of goroutines that are neither rendering nor about to change what is
\* rendered; a bitmap may be queued, and the design cleared.
Aside ==
  /\ failed' = failed /\ config' = config /\ active' \in {active, None}
  /\ frames' = frames \/ frames' = Append(frames, [svg |-> Picture])
  /\ value' \in Nat /\ value <= value'
  /\ \A u \in Task :
       \/ task'[u] = task[u]
       \/ /\ task[u].at \notin {"render", "load", "expire", "queue", "stamp"}
          /\ task'[u].at \notin {"load", "expire", "queue", "stamp"}

RenderAction(t) ==
  \/ Acquire(t) \/ Load(t) \/ QueueDesignFrame(t) \/ UpdateActiveDesignRender(t)
  \/ SetActiveDesign(t) \/ StoreConfig(t)

\* A goroutine outside Render goes to another place outside Render.
LEMMA AsideMove ==
  ASSUME TypeInv, NEW t \in Task, NEW place, Go(t, place),
         task[t].at \notin {"render", "load", "expire", "queue", "stamp"},
         place.at \notin {"load", "expire", "queue", "stamp"},
         failed' = failed, config' = config, active' \in {active, None},
         frames' = frames \/ frames' = Append(frames, [svg |-> Picture]),
         value' \in Nat, value <= value'
  PROVE  Aside
<1>1. \A u \in Task : task'[u] = IF u = t THEN place ELSE task[u]
  BY DEF Go, TypeInv
<1>2. \A u \in Task :
        \/ task'[u] = task[u]
        \/ /\ task[u].at \notin {"render", "load", "expire", "queue", "stamp"}
           /\ task'[u].at \notin {"load", "expire", "queue", "stamp"}
  BY <1>1
<1> QED
  BY <1>2 DEF Aside

\* A goroutine of a request, or the one that renders, stops with an error.
LEMMA BreakMove ==
  ASSUME TypeInv, NEW t \in Task, Go(t, Idle), failed' = TRUE,
         UNCHANGED <<active, config, frames, value>>, t \in Handlers \/ Holding(t)
  PROVE  Breaks
<1>1. \A u \in Task : task'[u] = IF u = t THEN Idle ELSE task[u]
  BY DEF Go, TypeInv
<1>2. Idle.at = "idle"
  BY DEF Idle
<1>3. CASE t \in Handlers
  <2>1. \A u \in Sessions : u \in Task /\ u # t
    BY <1>3, DesignsAssumption DEF Task
  <2>2. \A u \in Sessions : task'[u] = task[u]
    BY <1>1, <2>1
  <2> QED
    BY <1>1, <1>2, <2>2 DEF Breaks
<1>4. CASE Holding(t)
  <2>1. \A u \in Task : u # t => ~Holding(u)
    BY <1>4 DEF TypeInv, Locked
  <2>2. \A u \in Task : ~Holding(u)'
    BY <1>1, <1>2, <2>1 DEF Holding
  <2> QED
    BY <1>1, <1>2, <2>2 DEF Breaks
<1> QED
  BY <1>3, <1>4

\* A step renders, stops with an error, or leaves alone what a render depends on.
LEMMA StepShape ==
  ASSUME TypeInv, [Next]_vars
  PROVE  (\E t \in Task : RenderAction(t)) \/ Breaks \/ Aside
<1>1. value \in Nat /\ MaxValue \in Nat
  BY DesignsAssumption DEF TypeInv, RowsTyped
<1>2. ASSUME task' = task, failed' = failed, config' = config, active' \in {active, None},
             frames' = frames, value' \in Nat, value <= value'
      PROVE  Aside
  BY <1>2 DEF Aside
<1>3. Idle.at = "idle" /\ Rendering(TRUE).at = "render" /\ Rendering(FALSE).at = "render"
  BY DEF Idle, Rendering
<1>4. value <= value
  BY <1>1
<1>5. ASSUME NEW t \in Task, Fail(t)
      PROVE  Breaks
  BY <1>5, BreakMove DEF Fail, tables, Holding, At
<1>6. ASSUME NEW t \in Task, QueuePicture(t)
      PROVE  Aside
  <2>1. /\ task[t].at = "picture" /\ Go(t, Idle) /\ frames' = Append(frames, [svg |-> Picture])
        /\ UNCHANGED <<active, config, value, failed>>
    BY <1>6 DEF QueuePicture, At, history
  <2> QED
    BY <1>1, <1>3, <1>4, <2>1, AsideMove
<1>7. ASSUME NEW t \in Task, ActiveWidgets(t)
      PROVE  Aside
  <2>1. /\ task[t].at = "configure"
        /\ Go(t, IF active # None /\ active.design \in Configurable
                 THEN [task[t] EXCEPT !.at = "store"] ELSE Idle)
        /\ UNCHANGED <<active, config, frames, value, failed>>
    BY <1>7 DEF ActiveWidgets, At, tables, history
  <2>2. [task[t] EXCEPT !.at = "store"].at = "store"
    BY <2>1 DEF TypeInv, Place
  <2>3. PICK place : Go(t, place) /\ place.at \in {"store", "idle"}
    BY <1>3, <2>1, <2>2
  <2> QED
    BY <1>1, <1>4, <2>1, <2>3, AsideMove
<1>8. ASSUME NEW t \in Task, ReloadFile(t)
      PROVE  Aside
  <2>1. PICK f \in task[t].left :
          Go(t, IF task[t].left = {f} THEN Idle
                ELSE [task[t] EXCEPT !.left = task[t].left \ {f}])
    BY <1>8 DEF ReloadFile
  <2>2. task[t].at = "reload" /\ UNCHANGED <<active, config, frames, value, failed>>
    BY <1>8 DEF ReloadFile, At, history
  <2>3. task[t] \in [at : {"reload"}, left : SUBSET Files]
    BY <2>2 DEF TypeInv, Place
  <2>4. PICK left : left = task[t].left \ {f}
    OBVIOUS
  <2>5. [task[t] EXCEPT !.left = left].at = "reload"
    BY <2>3
  <2>6. PICK place : Go(t, place) /\ place.at \in {"reload", "idle"}
    BY <1>3, <2>1, <2>4, <2>5
  <2> QED
    BY <1>1, <1>4, <2>2, <2>6, AsideMove
<1>9. ASSUME NEW t \in Task, Continue(t)
      PROVE  RenderAction(t) \/ Breaks \/ Aside
  BY <1>5, <1>6, <1>7, <1>8, <1>9 DEF Continue, RenderStep, RenderAction
<1>10. ASSUME NEW t \in Handlers, Arrive(t)
       PROVE  Aside
  <2>1. t \in Task
    BY DEF Task
  <2>2. ASSUME NEW place, Go(t, place), task[t].at = "idle",
               place.at \in {"set", "configure", "render", "picture", "reload", "idle"},
               failed' = failed, config' = config, active' \in {active, None}, frames' = frames,
               value' \in Nat, value <= value'
        PROVE  Aside
    BY <2>1, <2>2, AsideMove
  <2>3. ASSUME NEW d \in Design, Assign(t, d) \/ AssignInline(t, d) PROVE Aside
    <3>1. PICK place : place = [at |-> "set", design |-> d]
      OBVIOUS
    <3>2. /\ Go(t, place) /\ place.at = "set" /\ task[t].at = "idle"
          /\ UNCHANGED <<active, config, frames, value, failed>>
      BY <2>3, <3>1 DEF Assign, AssignInline, Request, At, tables
    <3> QED
      BY <1>1, <1>4, <2>2, <3>2
  <2>4. ASSUME NEW d \in Design, PutDatabaseDesign(t, d) \/ DeleteDatabaseDesign(t, d)
        PROVE  Aside
    <3>1. UNCHANGED <<task, active, config, frames, value, failed>>
      BY <2>4 DEF PutDatabaseDesign, DeleteDatabaseDesign
    <3> QED
      BY <1>1, <1>2, <1>4, <3>1
  <2>5. ASSUME NEW s, ConfigureWidget(t, s) PROVE Aside
    <3>1. PICK place : place = [at |-> "configure", owner |-> Key(active.design), setting |-> s]
      OBVIOUS
    <3>2. /\ Go(t, place) /\ place.at = "configure" /\ task[t].at = "idle"
          /\ UNCHANGED <<active, config, frames, value, failed>>
      BY <2>5, <3>1 DEF ConfigureWidget, Request, At, tables
    <3> QED
      BY <1>1, <1>4, <2>2, <3>2
  <2>6. CASE Clear(t)
    <3>1. UNCHANGED <<task, config, frames, value, failed>> /\ active' = None
      BY <2>6 DEF Clear, ClearActiveDesign
    <3> QED
      BY <1>1, <1>2, <1>4, <3>1
  <2>7. CASE Upload(t)
    <3>1. PICK place : place = [at |-> "picture"]
      OBVIOUS
    <3>2. /\ Go(t, place) /\ place.at = "picture" /\ task[t].at = "idle"
          /\ UNCHANGED <<config, frames, value, failed>> /\ active' = None
      BY <2>7, <3>1 DEF Upload, ClearActiveDesign, Request, At
    <3> QED
      BY <1>1, <1>4, <2>2, <3>2
  <2>8. CASE PatchDevice(t)
    <3>1. /\ Go(t, Rendering(TRUE)) /\ task[t].at = "idle" /\ value' = value + 1
          /\ UNCHANGED <<active, config, frames, failed>>
      BY <2>8 DEF PatchDevice, Request, At, tables
    <3>2. value' \in Nat /\ value <= value'
      BY <1>1, <3>1
    <3> QED
      BY <1>3, <2>2, <3>1, <3>2
  <2>9. CASE Reload(t)
    <3>1. PICK place : place = [at |-> "reload", left |-> Files]
      OBVIOUS
    <3>2. /\ Go(t, IF Files = {} THEN Idle ELSE place) /\ place.at = "reload"
          /\ task[t].at = "idle" /\ UNCHANGED <<active, config, frames, value, failed>>
      BY <2>9, <3>1 DEF Reload, Request, At
    <3>3. PICK next : Go(t, next) /\ next.at \in {"reload", "idle"}
      BY <1>3, <3>2
    <3> QED
      BY <1>1, <1>4, <2>2, <3>2, <3>3
  <2> QED
    BY <1>10, <2>3, <2>4, <2>5, <2>6, <2>7, <2>8, <2>9 DEF Arrive
<1>11. ASSUME NEW t \in Handlers, Cancel(t)
       PROVE  Breaks
  BY <1>11, BreakMove DEF Cancel, tables, Task
<1>12. ASSUME NEW t \in Sessions, DeviceEnrolled(t)
       PROVE  Aside
  <2>1. PICK place : place = [at |-> "set", design |-> DefaultDesign]
    OBVIOUS
  <2>2. /\ Go(t, IF DefaultDesign \in catalog THEN place ELSE Idle) /\ place.at = "set"
        /\ task[t].at = "enrolled" /\ UNCHANGED <<active, config, frames, value, failed>>
    BY <1>12, <2>1 DEF DeviceEnrolled, At, tables, history
  <2>3. PICK next : Go(t, next) /\ next.at \in {"set", "idle"}
    BY <1>3, <2>2
  <2> QED
    BY <1>1, <1>4, <2>2, <2>3, AsideMove DEF Task
<1>13. ASSUME NEW t \in Task, StatusChanged(t) \/ (t = Scheduler /\ Tick)
       PROVE  Aside
  <2>1. /\ Go(t, Rendering(FALSE)) /\ task[t].at = "idle"
        /\ UNCHANGED <<active, config, frames, value, failed>>
    BY <1>13 DEF StatusChanged, Tick, At, tables, history
  <2> QED
    BY <1>1, <1>3, <1>4, <2>1, AsideMove
<1>14. CASE Advance
  <2>1. UNCHANGED <<task, active, config, frames, failed>> /\ value' = value + 1
    BY <1>14 DEF Advance, tables
  <2>2. value' \in Nat /\ value <= value'
    BY <1>1, <2>1
  <2> QED
    BY <1>2, <2>1, <2>2
<1>15. CASE Crash
  <2>1. /\ \A u \in Task : task'[u] = Idle
        /\ failed' = (failed \/ \E t \in Task : ~At(t, "idle"))
        /\ UNCHANGED <<active, config, frames, value>>
    BY <1>15 DEF Crash
  <2>2. CASE \E t \in Task : ~At(t, "idle")
    <3>1. failed' = TRUE
      BY <2>1, <2>2
    <3> QED
      BY <1>3, <2>1, <3>1 DEF Breaks, Holding
  <2>3. CASE \A t \in Task : At(t, "idle")
    <3>1. failed' = failed
      BY <2>1, <2>3 DEF TypeInv, RowsTyped
    <3> QED
      BY <1>1, <1>3, <1>4, <2>1, <2>3, <3>1 DEF Aside, At
  <2> QED
    BY <2>2, <2>3
<1>16. CASE UNCHANGED vars
  BY <1>1, <1>2, <1>4, <1>16 DEF vars, tables, history
<1> QED
  <2>1. CASE \E t \in Task : Acquire(t) \/ Continue(t)
    BY <1>9, <2>1 DEF RenderAction
  <2>2. CASE \E t \in Handlers : Arrive(t) \/ Cancel(t)
    BY <1>10, <1>11, <2>2
  <2>3. CASE \E t \in Sessions : DeviceEnrolled(t) \/ StatusChanged(t)
    BY <1>12, <1>13, <2>3 DEF Task
  <2>4. CASE Tick
    BY <1>13, <2>4 DEF Task
  <2> QED
    BY <1>14, <1>15, <1>16, <2>1, <2>2, <2>3, <2>4 DEF Next

-----------------------------------------------------------------------------
(* The frames *)

\* Frames are numbered, and those of designs carry what they show.
LEMMA DesignFrameFacts ==
  ASSUME frames \in Seq(AnyFrame)
  PROVE  /\ \A f \in DesignFrame : f \in 1..Len(frames) /\ f \in Nat /\ frames[f] \in DesignFrames
         /\ Len(frames) \in Nat
<1>1. \A f \in DOMAIN frames : frames[f] \in AnyFrame /\ f \in 1..Len(frames)
  OBVIOUS
<1>2. \A x \in AnyFrame : x.svg # Picture => x \in DesignFrames
  BY DEF AnyFrame
<1> QED
  BY <1>1, <1>2 DEF DesignFrame

\* A bitmap is no frame of a design.
LEMMA PictureQueued ==
  ASSUME frames \in Seq(AnyFrame), frames' = Append(frames, [svg |-> Picture])
  PROVE  DesignFrame' = DesignFrame /\ \A f \in DesignFrame : frames'[f] = frames[f]
<1>1. /\ DOMAIN frames' = 1..Len(frames) + 1 /\ DOMAIN frames = 1..Len(frames)
      /\ Len(frames) \in Nat
      /\ \A f \in DOMAIN frames : frames'[f] = frames[f]
      /\ frames'[Len(frames) + 1] = [svg |-> Picture]
  BY DEF AnyFrame
<1>2. \A f \in DOMAIN frames' : f \in DOMAIN frames \/ f = Len(frames) + 1
  BY <1>1
<1>3. \A f \in DOMAIN frames : f \in DOMAIN frames'
  BY <1>1
<1>4. frames'[Len(frames) + 1].svg = Picture
  BY <1>1
<1> QED
  BY <1>1, <1>2, <1>3, <1>4 DEF DesignFrame

\* A frame that is queued comes last.
LEMMA FrameQueued ==
  ASSUME frames \in Seq(AnyFrame), NEW frame \in DesignFrames, frame.svg # Picture,
         frames' = Append(frames, frame), NEW last, last = Len(frames) + 1
  PROVE  /\ DesignFrame' = DesignFrame \cup {last}
         /\ \A f \in DesignFrame : frames'[f] = frames[f] /\ f \in Nat /\ f < last
         /\ frames'[last] = frame /\ last \in Nat
<1>1. /\ DOMAIN frames' = 1..last /\ DOMAIN frames = 1..Len(frames)
      /\ Len(frames) \in Nat /\ last \in Nat
      /\ \A f \in DOMAIN frames : frames'[f] = frames[f]
      /\ frames'[last] = frame
  BY DEF AnyFrame
<1>2. \A f \in DOMAIN frames' : f \in DOMAIN frames \/ f = last
  BY <1>1
<1>3. last \in DOMAIN frames' /\ \A f \in DOMAIN frames : f \in DOMAIN frames' /\ f < last /\ f \in Nat
  BY <1>1
<1> QED
  BY <1>1, <1>2, <1>3 DEF DesignFrame

-----------------------------------------------------------------------------
(* Time goes forward on the screen *)

\* Whoever is about to queue a frame has read values at least as recent as those on
\* every frame before, because it read them with the lock.
Reads(t) == task[t].at \in {"expire", "queue"}
ForwardInv ==
  /\ ValuesForward
  /\ \A f \in DesignFrame : frames[f].value <= value
  /\ \A t \in Task : Reads(t) =>
       /\ task[t].view.value <= value
       /\ \A f \in DesignFrame : frames[f].value <= task[t].view.value

\* Steps that queue no frame of a design, and read only present values.
LEMMA ForwardKept ==
  ASSUME TypeInv, ForwardInv, value' \in Nat, value <= value',
         frames' = frames \/ frames' = Append(frames, [svg |-> Picture]),
         \A u \in Task : Reads(u)' => \/ Reads(u) /\ task'[u].view = task[u].view
                                      \/ task'[u].view.value = value /\ value' = value
  PROVE  ForwardInv'
<1>1. frames \in Seq(AnyFrame) /\ value \in Nat
  BY DesignsAssumption DEF TypeInv, RowsTyped
<1>2. DesignFrame' = DesignFrame /\ \A f \in DesignFrame : frames'[f] = frames[f]
  <2>1. CASE frames' = frames
    BY <2>1 DEF DesignFrame
  <2>2. CASE frames' = Append(frames, [svg |-> Picture])
    BY <1>1, <2>2, PictureQueued
  <2> QED
    BY <2>1, <2>2
<1>3. \A f \in DesignFrame : frames[f].value \in Nat /\ frames[f].value <= value
  BY <1>1, DesignFrameFacts, DesignsAssumption DEF DesignFrames, ForwardInv
<1>4. ValuesForward'
  BY <1>2 DEF ForwardInv, ValuesForward
<1>5. \A f \in DesignFrame' : frames'[f].value <= value'
  BY <1>1, <1>2, <1>3
<1>6. ASSUME NEW u \in Task, Reads(u)'
      PROVE  /\ task'[u].view.value <= value'
             /\ \A f \in DesignFrame' : frames'[f].value <= task'[u].view.value
  <2>1. CASE Reads(u) /\ task'[u].view = task[u].view
    <3>1. /\ task[u].view.value <= value
          /\ \A f \in DesignFrame : frames[f].value <= task[u].view.value
      BY <2>1 DEF ForwardInv
    <3>2. task[u].view \in Views
      BY <2>1, PlaceFields DEF Reads, TypeInv
    <3>3. task[u].view.value \in Nat
      BY <3>2, DesignsAssumption DEF Views
    <3> QED
      BY <1>1, <1>2, <2>1, <3>1, <3>3
  <2>2. CASE task'[u].view.value = value /\ value' = value
    BY <1>1, <1>2, <1>3, <2>2
  <2> QED
    BY <1>6, <2>1, <2>2
<1> QED
  BY <1>4, <1>5, <1>6 DEF ForwardInv

\* Steps of Render and of the requests that ask for one.
LEMMA ForwardRender ==
  ASSUME TypeInv, ForwardInv, NEW t \in Task, RenderAction(t)
  PROVE  ForwardInv'
<1>1. /\ frames \in Seq(AnyFrame) /\ value \in Nat /\ value <= value
      /\ task \in [Task -> Place] /\ \A u \in Task : Holding(u) <=> lock = u
  BY DesignsAssumption DEF TypeInv, RowsTyped, Locked
<1>2. ASSUME NEW place, Go(t, place), value' = value, frames' = frames,
             \/ place.at \notin {"expire", "queue"}
             \/ place.view.value = value
      PROVE  ForwardInv'
  <2>1. \A u \in Task : task'[u] = IF u = t THEN place ELSE task[u]
    BY <1>1, <1>2 DEF Go
  <2>2. ASSUME NEW u \in Task, Reads(u)'
        PROVE  \/ Reads(u) /\ task'[u].view = task[u].view
               \/ task'[u].view.value = value /\ value' = value
    BY <1>2, <2>1, <2>2 DEF Reads
  <2> QED
    BY <1>1, <1>2, <2>2, ForwardKept
<1>3. Idle.at = "idle" /\ Rendering(TRUE).at = "render"
  BY DEF Idle, Rendering
<1>4. CASE Acquire(t)
  <2>1. PICK place : place = [at |-> "load", force |-> task[t].force, row |-> active]
    OBVIOUS
  <2>2. /\ Go(t, IF active = None THEN Idle ELSE place) /\ place.at = "load"
        /\ UNCHANGED <<value, frames>>
    BY <1>4, <2>1 DEF Acquire, tables
  <2> QED
    BY <1>2, <1>3, <2>2
<1>5. CASE Load(t)
  <2>1. task[t].at = "load" /\ UNCHANGED <<value, frames>>
    BY <1>5 DEF Load, At, tables
  <2>2. PICK row \in Row : row = task[t].row
    BY <1>1, <2>1, PlaceFields
  <2>3. PICK view : view = View(row.design)
    OBVIOUS
  <2>4. view.value = value
    BY <2>3, ViewFacts DEF Row, TypeInv
  <2>5. PICK expire, queue :
          /\ expire = [at |-> "expire", force |-> task[t].force, row |-> row, view |-> view]
          /\ queue = [at |-> "queue", row |-> row, view |-> view]
    OBVIOUS
  <2>6. Go(t, expire) \/ Go(t, queue) \/ Go(t, Idle)
    BY <1>5, <2>2, <2>3, <2>5 DEF Load, Decide
  <2>7. expire.view = view /\ queue.view = view
    BY <2>5
  <2> QED
    BY <1>2, <1>3, <2>1, <2>4, <2>6, <2>7
<1>6. CASE QueueDesignFrame(t)
  <2>1. task[t].at = "queue" /\ value' = value
    BY <1>6 DEF QueueDesignFrame, At
  <2>2. PICK row \in Row, view \in Views : row = task[t].row /\ view = task[t].view
    BY <1>1, <2>1, PlaceFields
  <2>3. PICK frame : frame = [svg |-> row.design, value |-> view.value,
                              offset |-> view.offset, config |-> view.config]
    OBVIOUS
  <2>4. frame \in DesignFrames /\ frame.svg = row.design /\ frame.value = view.value
    BY <2>3, FrameFacts DEF Row
  <2>5. frame.svg # Picture
    BY <2>4, DesignsAssumption DEF Row
  <2>6. PICK place : place = [at |-> "stamp", row |-> row, view |-> view]
    OBVIOUS
  <2>7. frames' = Append(frames, frame) /\ Go(t, place) /\ place.at = "stamp"
    BY <1>6, <2>2, <2>3, <2>6 DEF QueueDesignFrame
  <2>8. PICK last : last = Len(frames) + 1
    OBVIOUS
  <2>9. /\ DesignFrame' = DesignFrame \cup {last}
        /\ \A f \in DesignFrame : frames'[f] = frames[f] /\ f \in Nat /\ f < last
        /\ frames'[last] = frame /\ last \in Nat
    BY <1>1, <2>4, <2>5, <2>7, <2>8, FrameQueued
  <2>10. /\ frame.value \in Nat /\ frame.value <= value
         /\ \A f \in DesignFrame : frames[f].value <= frame.value
    BY <2>1, <2>2, <2>4, DesignsAssumption DEF ForwardInv, Reads, Views
  <2>11. ValuesForward'
    <3> SUFFICES ASSUME NEW f \in DesignFrame', NEW g \in DesignFrame', f < g
                 PROVE  frames'[f].value <= frames'[g].value
      BY DEF ValuesForward
    <3>1. f \in DesignFrame
      BY <2>9
    <3>2. CASE g \in DesignFrame
      BY <2>9, <3>1, <3>2 DEF ForwardInv, ValuesForward
    <3>3. CASE g = last
      BY <2>9, <2>10, <3>1, <3>3
    <3> QED
      BY <2>9, <3>2, <3>3
  <2>12. \A f \in DesignFrame' : frames'[f].value <= value'
    <3>1. \A f \in DesignFrame : frames'[f].value <= value'
      BY <2>1, <2>9 DEF ForwardInv
    <3> QED
      BY <2>1, <2>9, <2>10, <3>1
  <2>13. \A u \in Task : ~Reads(u)'
    <3> SUFFICES ASSUME NEW u \in Task, Reads(u)' PROVE FALSE
      OBVIOUS
    <3>1. \A v \in Task : task'[v] = IF v = t THEN place ELSE task[v]
      BY <1>1, <2>7 DEF Go
    <3>2. u # t /\ task'[u] = task[u]
      BY <2>7, <3>1 DEF Reads
    <3>3. Holding(u) /\ Holding(t)
      BY <2>1, <3>2 DEF Holding, Reads
    <3> QED
      BY <1>1, <3>2, <3>3
  <2> QED
    BY <2>11, <2>12, <2>13 DEF ForwardInv
<1>7. CASE UpdateActiveDesignRender(t)
  BY <1>2, <1>3, <1>7 DEF UpdateActiveDesignRender
<1>8. CASE SetActiveDesign(t)
  BY <1>2, <1>3, <1>8 DEF SetActiveDesign
<1>9. CASE StoreConfig(t)
  BY <1>2, <1>3, <1>9 DEF StoreConfig
<1> QED
  BY <1>4, <1>5, <1>6, <1>7, <1>8, <1>9 DEF RenderAction

\* Every step keeps the frames in the order of their values.
LEMMA ForwardStep == TypeInv /\ ForwardInv /\ [Next]_vars => ForwardInv'
<1> SUFFICES ASSUME TypeInv, ForwardInv, [Next]_vars PROVE ForwardInv'
  OBVIOUS
<1>1. value \in Nat /\ value <= value
  BY DesignsAssumption DEF TypeInv, RowsTyped
<1>2. CASE Breaks
  <2>1. \A u \in Task : Reads(u)' => Reads(u) /\ task'[u].view = task[u].view
    BY <1>2 DEF Breaks, Reads
  <2> QED
    BY <1>1, <1>2, <2>1, ForwardKept DEF Breaks
<1>3. CASE Aside
  <2>1. \A u \in Task : Reads(u)' => Reads(u) /\ task'[u].view = task[u].view
    BY <1>3 DEF Aside, Reads
  <2> QED
    BY <1>3, <2>1, ForwardKept DEF Aside
<1> QED
  BY <1>2, <1>3, StepShape, ForwardRender

\* At the start there are no frames.
LEMMA InitForward == Init => ForwardInv
<1> SUFFICES ASSUME Init PROVE ForwardInv
  OBVIOUS
<1>1. DesignFrame = {}
  BY DEF Init, DesignFrame
<1>2. \A t \in Task : ~Reads(t)
  BY DEF Init, Reads, Idle
<1> QED
  BY <1>1, <1>2 DEF ForwardInv, ValuesForward

\* Of two frames drawn from designs the later one shows values at least as recent,
\* whatever renders concurrently.
THEOREM ValuesForwardAlways == Spec => []ValuesForward
<1>1. TypeInv /\ ForwardInv => ValuesForward
  BY DEF ForwardInv
<1>2. Init => TypeInv /\ ForwardInv
  BY InitTypes, InitForward
<1>3. TypeInv /\ ForwardInv /\ [Next]_vars => (TypeInv /\ ForwardInv)'
  BY NextTypes, ForwardStep
<1> QED
  BY <1>1, <1>2, <1>3, PTL DEF Spec

-----------------------------------------------------------------------------
(* What was asked for is shown *)

IsNewest(n) == n \in DesignFrame /\ \A g \in DesignFrame : g <= n

\* A render that was asked for waits for the lock, or is under way.
Forced == \E u \in Task : At(u, "render") /\ task[u].force
Due(t) == \/ task[t].at \in {"render", "load", "expire"} /\ task[t].force
          \/ task[t].at \in {"queue", "stamp"}

\* The newest frame is the one the row says it is.
Shows(n) ==
  /\ IsNewest(n)
  /\ frames[n].svg = active.design
  /\ frames[n].config = config[Key(active.design)]
  /\ active.deps = Dependencies(frames[n].svg)
  /\ active.hash = ValuesHash(frames[n], Dependencies(frames[n].svg))
  /\ active.refresh = (frames[n].svg \in Periodic)

\* Whoever renders renders what is active, with the configuration that is saved, or
\* another render waits that will.
RowCurrent(t) ==
  Holding(t) /\ active # None /\ task[t].row.design # active.design => failed \/ Forced
ConfigCurrent(t) ==
  task[t].at \in {"expire", "queue", "stamp"}
    /\ task[t].view.config # config[Key(task[t].row.design)] => failed \/ Forced

\* Between queueing a frame and marking the row the frame is the newest.
JustQueued(t) ==
  At(t, "stamp") => \E n \in DesignFrame :
    /\ IsNewest(n) /\ frames[n].svg = task[t].row.design
    /\ frames[n].value = task[t].view.value /\ frames[n].offset = task[t].view.offset
    /\ frames[n].config = task[t].view.config

ShownOrDue == active # None /\ ~failed => (\E n \in DesignFrame : Shows(n)) \/ \E t \in Task : Due(t)

QuietInv ==
  /\ \A t \in Task : RowCurrent(t) /\ ConfigCurrent(t) /\ JustQueued(t)
  /\ ShownOrDue

\* At the start there is no active design.
LEMMA InitQuiet == Init => QuietInv
<1> SUFFICES ASSUME Init PROVE QuietInv
  OBVIOUS
<1>1. \A t \in Task : task[t].at \in {"enrolled", "idle"}
  BY DEF Init, Idle
<1>2. active = None
  BY DEF Init
<1> QED
  BY <1>1, <1>2 DEF QuietInv, RowCurrent, ConfigCurrent, JustQueued, ShownOrDue, Holding, At

\* Frames that are added at the end do not change what a frame shows; a bitmap does
\* not change which frame of a design is the newest.
LEMMA NewestKept ==
  ASSUME frames \in Seq(AnyFrame), frames' = frames \/ frames' = Append(frames, [svg |-> Picture])
  PROVE  /\ DesignFrame' = DesignFrame
         /\ \A n \in DesignFrame : frames'[n] = frames[n] /\ (IsNewest(n) <=> IsNewest(n)')
<1>1. DesignFrame' = DesignFrame /\ \A f \in DesignFrame : frames'[f] = frames[f]
  <2>1. CASE frames' = frames
    BY <2>1 DEF DesignFrame
  <2>2. CASE frames' = Append(frames, [svg |-> Picture])
    BY <2>2, PictureQueued
  <2> QED
    BY <2>1, <2>2
<1> QED
  BY <1>1 DEF IsNewest

\* A frame that was just queued stays the newest until it is stamped.
LEMMA JustQueuedKept ==
  ASSUME frames \in Seq(AnyFrame), frames' = frames \/ frames' = Append(frames, [svg |-> Picture]),
         NEW t \in Task, JustQueued(t), At(t, "stamp")' => task'[t] = task[t]
  PROVE  JustQueued(t)'
<1> SUFFICES ASSUME At(t, "stamp")' PROVE JustQueued(t)'
  BY DEF JustQueued
<1>1. task'[t] = task[t] /\ At(t, "stamp")
  BY DEF At
<1>2. PICK n \in DesignFrame :
        /\ IsNewest(n) /\ frames[n].svg = task[t].row.design
        /\ frames[n].value = task[t].view.value /\ frames[n].offset = task[t].view.offset
        /\ frames[n].config = task[t].view.config
  BY <1>1 DEF JustQueued
<1>3. n \in DesignFrame' /\ frames'[n] = frames[n] /\ IsNewest(n)'
  BY <1>2, NewestKept
<1> QED
  BY <1>1, <1>2, <1>3 DEF JustQueued

\* A frame goes on showing the active design while neither changes.
LEMMA ShowsKept ==
  ASSUME frames \in Seq(AnyFrame), frames' = frames \/ frames' = Append(frames, [svg |-> Picture]),
         active' = active, config' = config, NEW n \in DesignFrame, Shows(n)
  PROVE  n \in DesignFrame' /\ Shows(n)'
<1>1. n \in DesignFrame' /\ frames'[n] = frames[n] /\ IsNewest(n)'
  BY NewestKept DEF Shows
<1>2. ValuesHash(frames[n], Dependencies(frames[n].svg))' = ValuesHash(frames[n], Dependencies(frames[n].svg))
  BY <1>1 DEF ValuesHash, Dependencies
<1>3. Dependencies(frames[n].svg)' = Dependencies(frames[n].svg)
  BY <1>1 DEF Dependencies
<1> QED
  BY <1>1, <1>2, <1>3 DEF Shows, Key

\* Steps that break off something leave an error behind, and what they do not touch.
LEMMA QuietBreaks ==
  ASSUME TypeInv, QuietInv, Breaks
  PROVE  QuietInv'
<1>1. /\ failed' = TRUE /\ UNCHANGED <<active, config, frames, value>>
      /\ \A u \in Task : task'[u] = task[u] \/ task'[u].at = "idle"
  BY DEF Breaks
<1>2. ShownOrDue' /\ \A t \in Task : RowCurrent(t)' /\ ConfigCurrent(t)'
  BY <1>1 DEF ShownOrDue, RowCurrent, ConfigCurrent
<1>3. \A t \in Task : JustQueued(t)'
  BY <1>1, JustQueuedKept DEF QuietInv, TypeInv, RowsTyped, At
<1> QED
  BY <1>2, <1>3 DEF QuietInv

\* Steps aside keep the renders that wait or are under way.
LEMMA QuietAside ==
  ASSUME TypeInv, QuietInv, Aside
  PROVE  QuietInv'
<1>1. /\ failed' = failed /\ config' = config /\ active' \in {active, None}
      /\ frames' = frames \/ frames' = Append(frames, [svg |-> Picture])
      /\ frames \in Seq(AnyFrame)
  BY DEF Aside, TypeInv, RowsTyped
<1>2. \A u \in Task : task[u].at \in {"render", "load", "expire", "queue", "stamp"} =>
        task'[u] = task[u]
  BY DEF Aside
<1>3. \A u \in Task : task'[u].at \in {"load", "expire", "queue", "stamp"} => task'[u] = task[u]
  BY DEF Aside
<1>4. Forced => Forced'
  BY <1>2 DEF Forced, At
<1>5. ASSUME NEW t \in Task
      PROVE  RowCurrent(t)' /\ ConfigCurrent(t)' /\ JustQueued(t)'
  <2>1. RowCurrent(t)'
    BY <1>1, <1>3, <1>4 DEF RowCurrent, Holding, QuietInv
  <2>2. ConfigCurrent(t)'
    <3> SUFFICES ASSUME task'[t].at \in {"expire", "queue", "stamp"},
                        task'[t].view.config # config'[Key(task'[t].row.design)]
                 PROVE  failed' \/ Forced'
      BY DEF ConfigCurrent, Key
    <3>1. task'[t] = task[t]
      BY <1>3
    <3> QED
      BY <1>1, <1>4, <3>1 DEF ConfigCurrent, QuietInv
  <2>3. JustQueued(t)'
    BY <1>1, <1>3, JustQueuedKept DEF QuietInv, At
  <2> QED
    BY <2>1, <2>2, <2>3
<1>6. ShownOrDue'
  <2> SUFFICES ASSUME active' # None, ~failed'
               PROVE  (\E n \in DesignFrame' : Shows(n)') \/ \E t \in Task : Due(t)'
    BY DEF ShownOrDue
  <2>1. active' = active /\ active # None /\ ~failed
    BY <1>1
  <2>2. CASE \E n \in DesignFrame : Shows(n)
    BY <1>1, <2>1, <2>2, ShowsKept
  <2>3. ASSUME NEW t \in Task, Due(t)
        PROVE  Due(t)'
    BY <1>2, <2>3 DEF Due
  <2> QED
    BY <2>1, <2>2, <2>3 DEF QuietInv, ShownOrDue
<1> QED
  BY <1>5, <1>6 DEF QuietInv

\* A step after which a forced render waits, no frame having been queued.
LEMMA QuietForced ==
  ASSUME TypeInv, QuietInv, NEW t \in Task, Go(t, Rendering(TRUE)), frames' = frames
  PROVE  QuietInv'
<1>1. /\ task'[t].at = "render" /\ task'[t].force = TRUE
      /\ \A u \in Task : u # t => task'[u] = task[u]
  BY DEF Go, TypeInv, Rendering
<1>2. Forced'
  BY <1>1 DEF Forced, At
<1>3. Due(t)'
  BY <1>1 DEF Due
<1>4. \A u \in Task : JustQueued(u)'
  <2> TAKE u \in Task
  <2>1. At(u, "stamp")' => task'[u] = task[u]
    BY <1>1 DEF At
  <2> QED
    BY <2>1, JustQueuedKept DEF QuietInv, TypeInv, RowsTyped
<1> QED
  BY <1>2, <1>3, <1>4 DEF QuietInv, RowCurrent, ConfigCurrent, ShownOrDue

\* The lock is given to one goroutine, which renders what is active now.
LEMMA QuietAcquire ==
  ASSUME TypeInv, QuietInv, NEW t \in Task, Acquire(t)
  PROVE  QuietInv'
<1>1. /\ task[t].at = "render" /\ lock = None
      /\ UNCHANGED <<active, config, frames, failed>>
  BY DEF Acquire, At, tables, history
<1>2. \A u \in Task : ~Holding(u)
  BY <1>1, DesignsAssumption DEF TypeInv, Locked
<1>3. PICK place : place = [at |-> "load", force |-> task[t].force, row |-> active]
  OBVIOUS
<1>4. place.at = "load" /\ place.force = task[t].force /\ place.row = active /\ Idle.at = "idle"
  BY <1>3 DEF Idle
<1>5. Go(t, IF active = None THEN Idle ELSE place)
  BY <1>3 DEF Acquire
<1>6. \A u \in Task : u # t => task'[u] = task[u]
  BY <1>5 DEF Go, TypeInv
<1>7. task'[t] = IF active = None THEN Idle ELSE place
  BY <1>5 DEF Go, TypeInv
<1>8. \A u \in Task : u # t => ~Holding(u)'
  BY <1>2, <1>6 DEF Holding
<1>9. task'[t].at \in {"idle", "load"} /\ (Holding(t)' => task'[t].row = active)
  BY <1>4, <1>7 DEF Holding
<1>10. \A u \in Task : RowCurrent(u)' /\ ConfigCurrent(u)' /\ JustQueued(u)'
  <2> TAKE u \in Task
  <2>1. task'[u].at \notin {"expire", "queue", "stamp"}
    BY <1>8, <1>9 DEF Holding
  <2>2. RowCurrent(u)'
    BY <1>1, <1>8, <1>9 DEF RowCurrent
  <2> QED
    BY <2>1, <2>2 DEF ConfigCurrent, JustQueued, At
<1>11. ShownOrDue'
  <2> SUFFICES ASSUME active # None, ~failed
               PROVE  (\E n \in DesignFrame' : Shows(n)') \/ \E u \in Task : Due(u)'
    BY <1>1 DEF ShownOrDue
  <2>1. CASE \E n \in DesignFrame : Shows(n)
    BY <1>1, <2>1, ShowsKept DEF TypeInv, RowsTyped
  <2>2. ASSUME NEW u \in Task, Due(u)
        PROVE  Due(u)'
    <3>1. CASE u = t
      BY <1>1, <1>4, <1>7, <2>2, <3>1 DEF Due
    <3>2. CASE u # t
      BY <1>6, <2>2, <3>2 DEF Due
    <3> QED
      BY <3>1, <3>2
  <2> QED
    BY <2>1, <2>2 DEF QuietInv, ShownOrDue
<1> QED
  BY <1>10, <1>11 DEF QuietInv

\* What is read for a frame is what is saved now; nothing is suppressed that was
\* asked for.
LEMMA QuietLoad ==
  ASSUME TypeInv, QuietInv, NEW t \in Task, Load(t)
  PROVE  QuietInv'
<1>1. task[t].at = "load" /\ UNCHANGED <<active, config, frames, failed>>
  BY DEF Load, At, tables, history
<1>2. \A u \in Task : u # t => ~Holding(u)
  BY <1>1 DEF TypeInv, Locked, Holding
<1>3. PICK row, force : row \in Row /\ row = task[t].row /\ force = task[t].force
  BY <1>1, PlaceFields DEF TypeInv
<1>4. PICK view : view = View(row.design)
  OBVIOUS
<1>5. view.config = config[Key(row.design)]
  BY <1>3, <1>4, ViewFacts DEF Row, TypeInv
<1>6. PICK expire, queue :
        /\ expire = [at |-> "expire", force |-> force, row |-> row, view |-> view]
        /\ queue = [at |-> "queue", row |-> row, view |-> view]
  OBVIOUS
<1>7. /\ expire.at = "expire" /\ expire.force = force /\ expire.row = row /\ expire.view = view
      /\ queue.at = "queue" /\ queue.row = row /\ queue.view = view
      /\ Idle.at = "idle"
  BY <1>6 DEF Idle
<1>8. Go(t, expire) \/ Go(t, queue) \/ (Go(t, Idle) /\ ~force)
  BY <1>3, <1>4, <1>6 DEF Load, Decide, Suppressed
<1>9. \A u \in Task : u # t => task'[u] = task[u]
  BY <1>8 DEF Go, TypeInv
<1>10. \/ task'[t] = expire \/ task'[t] = queue
       \/ task'[t].at = "idle" /\ ~force
  BY <1>7, <1>8 DEF Go, TypeInv
<1>11. Forced => Forced'
  BY <1>1, <1>9 DEF Forced, At
<1>12. ASSUME NEW u \in Task
       PROVE  RowCurrent(u)' /\ ConfigCurrent(u)' /\ JustQueued(u)'
  <2>1. CASE u # t
    <3>1. ~Holding(u)' /\ task'[u].at \notin {"expire", "queue", "stamp"}
      BY <1>2, <1>9, <2>1 DEF Holding
    <3> QED
      BY <3>1 DEF RowCurrent, ConfigCurrent, JustQueued, At
  <2>2. CASE u = t
    <3>1. RowCurrent(t)'
      <4>1. Holding(t)' => task'[t].row = task[t].row
        BY <1>3, <1>7, <1>10 DEF Holding
      <4>2. Holding(t)
        BY <1>1 DEF Holding
      <4> QED
        BY <1>1, <1>11, <4>1, <4>2 DEF RowCurrent, QuietInv
    <3>2. ConfigCurrent(t)'
      <4>1. task'[t].at \in {"expire", "queue", "stamp"} =>
              task'[t].row = row /\ task'[t].view = view
        BY <1>7, <1>10
      <4> QED
        BY <1>1, <1>5, <4>1 DEF ConfigCurrent, Key
    <3>3. ~At(t, "stamp")'
      BY <1>7, <1>10 DEF At
    <3> QED
      BY <2>2, <3>1, <3>2, <3>3 DEF JustQueued
  <2> QED
    BY <2>1, <2>2
<1>13. ShownOrDue'
  <2> SUFFICES ASSUME active # None, ~failed
               PROVE  (\E n \in DesignFrame' : Shows(n)') \/ \E u \in Task : Due(u)'
    BY <1>1 DEF ShownOrDue
  <2>1. CASE \E n \in DesignFrame : Shows(n)
    BY <1>1, <2>1, ShowsKept DEF TypeInv, RowsTyped
  <2>2. ASSUME NEW u \in Task, Due(u)
        PROVE  Due(u)'
    <3>1. CASE u = t
      BY <1>1, <1>3, <1>7, <1>10, <2>2, <3>1 DEF Due
    <3>2. CASE u # t
      BY <1>9, <2>2, <3>2 DEF Due
    <3> QED
      BY <3>1, <3>2
  <2> QED
    BY <2>1, <2>2 DEF QuietInv, ShownOrDue
<1> QED
  BY <1>12, <1>13 DEF QuietInv

\* The frame that is queued is the newest.
LEMMA QuietQueue ==
  ASSUME TypeInv, QuietInv, NEW t \in Task, QueueDesignFrame(t)
  PROVE  QuietInv'
<1>1. task[t].at = "queue" /\ UNCHANGED <<active, config, failed>>
  BY DEF QueueDesignFrame, At
<1>2. \A u \in Task : u # t => ~Holding(u)
  BY <1>1 DEF TypeInv, Locked, Holding
<1>3. PICK row \in Row, view \in Views : row = task[t].row /\ view = task[t].view
  BY <1>1, PlaceFields DEF TypeInv
<1>4. PICK frame : frame = [svg |-> row.design, value |-> view.value,
                            offset |-> view.offset, config |-> view.config]
  OBVIOUS
<1>5. /\ frame \in DesignFrames /\ frame.svg = row.design
      /\ frame.value = view.value /\ frame.offset = view.offset /\ frame.config = view.config
  BY <1>4, FrameFacts DEF Row
<1>6. frame.svg # Picture
  BY <1>5, DesignsAssumption DEF Row
<1>7. PICK place : place = [at |-> "stamp", row |-> row, view |-> view]
  OBVIOUS
<1>8. /\ frames' = Append(frames, frame) /\ Go(t, place)
      /\ place.at = "stamp" /\ place.row = row /\ place.view = view
  BY <1>3, <1>4, <1>7 DEF QueueDesignFrame
<1>9. task'[t] = place /\ \A u \in Task : u # t => task'[u] = task[u]
  BY <1>8 DEF Go, TypeInv
<1>10. PICK last : last = Len(frames) + 1
  OBVIOUS
<1>11. /\ DesignFrame' = DesignFrame \cup {last}
       /\ \A f \in DesignFrame : f \in Nat /\ f < last
       /\ frames'[last] = frame /\ last \in Nat
  BY <1>5, <1>6, <1>8, <1>10, FrameQueued DEF TypeInv, RowsTyped
<1>12. IsNewest(last)'
  BY <1>11 DEF IsNewest
<1>13. Forced => Forced'
  BY <1>1, <1>9 DEF Forced, At
<1>14. ASSUME NEW u \in Task
       PROVE  RowCurrent(u)' /\ ConfigCurrent(u)' /\ JustQueued(u)'
  <2>1. CASE u # t
    <3>1. ~Holding(u)' /\ task'[u].at \notin {"expire", "queue", "stamp"}
      BY <1>2, <1>9, <2>1 DEF Holding
    <3> QED
      BY <3>1 DEF RowCurrent, ConfigCurrent, JustQueued, At
  <2>2. CASE u = t
    <3>1. RowCurrent(t)'
      BY <1>1, <1>3, <1>8, <1>9, <1>13 DEF RowCurrent, QuietInv, Holding
    <3>2. ConfigCurrent(t)'
      BY <1>1, <1>3, <1>8, <1>9, <1>13 DEF ConfigCurrent, QuietInv, Key
    <3>3. JustQueued(t)'
      BY <1>5, <1>8, <1>9, <1>11, <1>12 DEF JustQueued
    <3> QED
      BY <2>2, <3>1, <3>2, <3>3
  <2> QED
    BY <2>1, <2>2
<1>15. Due(t)'
  BY <1>8, <1>9 DEF Due
<1> QED
  BY <1>14, <1>15 DEF QuietInv, ShownOrDue

\* A row that is marked shows the newest frame, if it is still the row that was
\* rendered; if not, whoever changed it waits to render.
LEMMA QuietStamp ==
  ASSUME TypeInv, QuietInv, NEW t \in Task, UpdateActiveDesignRender(t)
  PROVE  QuietInv'
<1>1. task[t].at = "stamp" /\ UNCHANGED <<config, frames>> /\ Go(t, Idle) /\ Idle.at = "idle"
  BY DEF UpdateActiveDesignRender, At, Idle
<1>2. \A u \in Task : u # t => ~Holding(u)
  BY <1>1 DEF TypeInv, Locked, Holding
<1>3. task'[t] = Idle /\ \A u \in Task : u # t => task'[u] = task[u]
  BY <1>1 DEF Go, TypeInv
<1>4. \A u \in Task : ~Holding(u)' /\ task'[u].at \notin {"expire", "queue", "stamp"}
  BY <1>1, <1>2, <1>3 DEF Holding
<1>5. PICK row \in Row, view \in Views : row = task[t].row /\ view = task[t].view
  BY <1>1, PlaceFields DEF TypeInv
<1>6. row.design \in Design
  BY DEF Row
<1>7. /\ active' = IF active = None THEN None ELSE Stamped(active, row.design, view)
      /\ failed' = (failed /\ ~(/\ active # None /\ active.design = row.design
                                /\ view.config = config[Key(row.design)]))
  BY <1>5 DEF UpdateActiveDesignRender
<1>8. ShownOrDue'
  <2> SUFFICES ASSUME active # None, ~failed'
               PROVE  (\E n \in DesignFrame' : Shows(n)') \/ \E u \in Task : Due(u)'
    BY <1>7 DEF ShownOrDue
  <2>1. active \in Row
    BY DEF TypeInv, RowsTyped
  <2>2. /\ active'.design = active.design
        /\ active'.deps = Dependencies(row.design)
        /\ active'.hash = ValuesHash(view, Dependencies(row.design))
        /\ active'.refresh = (row.design \in Periodic)
    BY <1>6, <1>7, <2>1, StampedFacts
  <2>3. CASE active.design = row.design /\ view.config = config[Key(row.design)]
    <3>1. PICK n \in DesignFrame :
            /\ IsNewest(n) /\ frames[n].svg = row.design
            /\ frames[n].value = view.value /\ frames[n].offset = view.offset
            /\ frames[n].config = view.config
      BY <1>1, <1>5 DEF QuietInv, JustQueued, At
    <3>2. n \in DesignFrame' /\ IsNewest(n)' /\ frames'[n] = frames[n]
      BY <1>1, <3>1 DEF IsNewest, DesignFrame
    <3>3. ValuesHash(frames[n], Dependencies(row.design)) = ValuesHash(view, Dependencies(row.design))
      <4>1. \A k \in Keys : frames[n][k] = view[k]
        BY <3>1 DEF Keys
      <4>2. Dependencies(row.design) \subseteq Keys
        BY DEF Dependencies
      <4> QED
        BY <4>1, <4>2 DEF ValuesHash
    <3>4. /\ frames'[n].svg = active'.design
          /\ frames'[n].config = config'[Key(active'.design)]
          /\ active'.deps = Dependencies(frames'[n].svg)
          /\ active'.hash = ValuesHash(frames'[n], Dependencies(frames'[n].svg))
          /\ active'.refresh = (frames'[n].svg \in Periodic)
      BY <1>1, <2>2, <2>3, <3>1, <3>2, <3>3
    <3>5. Shows(n)'
      BY <3>2, <3>4 DEF Shows, Key, Dependencies, ValuesHash
    <3> QED
      BY <3>2, <3>5
  <2>4. CASE ~(active.design = row.design /\ view.config = config[Key(row.design)])
    <3>1. ~failed
      BY <1>7, <2>4
    <3>2. Forced
      BY <1>1, <1>5, <2>4, <3>1 DEF QuietInv, RowCurrent, ConfigCurrent, Holding
    <3>3. PICK u \in Task : task[u].at = "render" /\ task[u].force
      BY <3>2 DEF Forced, At
    <3>4. task'[u] = task[u]
      BY <1>1, <1>3, <3>3
    <3>5. Due(u)'
      BY <3>3, <3>4 DEF Due
    <3> QED
      BY <3>5
  <2> QED
    BY <2>3, <2>4
<1> QED
  BY <1>4, <1>8 DEF QuietInv, RowCurrent, ConfigCurrent, JustQueued, At

\* Every step keeps what was asked for shown or due.
LEMMA QuietStep == TypeInv /\ QuietInv /\ [Next]_vars => QuietInv'
<1> SUFFICES ASSUME TypeInv, QuietInv, [Next]_vars PROVE QuietInv'
  OBVIOUS
<1>1. ASSUME NEW t \in Task, SetActiveDesign(t) \/ StoreConfig(t) PROVE QuietInv'
  BY <1>1, QuietForced DEF SetActiveDesign, StoreConfig
<1>2. ASSUME NEW t \in Task, RenderAction(t) PROVE QuietInv'
  BY <1>1, <1>2, QuietAcquire, QuietLoad, QuietQueue, QuietStamp DEF RenderAction
<1> QED
  BY <1>2, StepShape, QuietBreaks, QuietAside

\* When nothing is due any more, what was asked for is shown.
LEMMA QuietFollows == TypeInv /\ QuietInv => QuietShowsActive
<1> SUFFICES ASSUME TypeInv, QuietInv, Quiet, ~failed, active # None
             PROVE  /\ DesignFrame # {}
                    /\ LET newest == CHOOSE f \in DesignFrame : \A g \in DesignFrame : g <= f
                           frame  == frames[newest] IN
                       /\ frame.svg = active.design
                       /\ frame.config = config[Key(active.design)]
                       /\ active = Stamped(active, frame.svg, frame)
  BY DEF QuietShowsActive
<1>1. \A t \in Task : ~Due(t)
  BY DEF Quiet, At, Due
<1>2. PICK n \in DesignFrame : Shows(n)
  BY <1>1 DEF QuietInv, ShownOrDue
<1>3. /\ \A f \in DesignFrame : f \in Nat /\ frames[f] \in DesignFrames
      /\ \A g \in DesignFrame : g <= n
  BY <1>2, DesignFrameFacts DEF TypeInv, RowsTyped, Shows, IsNewest
<1>4. (CHOOSE f \in DesignFrame : \A g \in DesignFrame : g <= f) = n
  BY <1>3
<1>5. PICK svg, deps, hash, refresh :
        /\ svg = frames[n].svg /\ deps = Dependencies(svg)
        /\ hash = ValuesHash(frames[n], deps) /\ refresh = (svg \in Periodic)
  OBVIOUS
<1>6. active.deps = deps /\ active.hash = hash /\ active.refresh = refresh
  BY <1>2, <1>5 DEF Shows
<1>7. Stamped(active, svg, frames[n]) =
        [active EXCEPT !.deps = deps, !.hash = hash, !.refresh = refresh]
  BY <1>5 DEF Stamped
<1>8. active \in Row
  BY DEF TypeInv, RowsTyped
<1>9. active = [active EXCEPT !.deps = deps, !.hash = hash, !.refresh = refresh]
  BY <1>6, <1>8 DEF Row
<1> QED
  BY <1>2, <1>4, <1>5, <1>7, <1>9 DEF Shows

\* When everything that was asked for is done and no render failed, the newest frame of
\* a design shows the active design with the saved configuration, and the row is marked
\* with what that frame shows.
THEOREM QuietShowsActiveAlways == Spec => []QuietShowsActive
<1>1. Init => TypeInv /\ QuietInv
  BY InitTypes, InitQuiet
<1>2. TypeInv /\ QuietInv /\ [Next]_vars => (TypeInv /\ QuietInv)'
  BY NextTypes, QuietStep
<1> QED
  BY <1>1, <1>2, QuietFollows, PTL DEF Spec
=============================================================================
