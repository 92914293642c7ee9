------------------------------- MODULE Designs -------------------------------
(***************************************************************************)
(* The design service of one enrolled tablet (internal/design/service.go   *)
(* and internal/store/design.go): the catalogue of designs, the row that   *)
(* says which one is active, the widget states it is rendered with and the *)
(* frames it queues.  Requests, the tablet's connection and the scheduler  *)
(* are goroutines; one database statement or transaction is one step       *)
(* (Render's reads of the tablet and of its widget states are taken        *)
(* together), and only Render holds the tablet's lock.                     *)
(*                                                                         *)
(* An SVG is a model value; what the service sees of it is whether it uses *)
(* a changing value (Dynamic), refreshes (Periodic), carries a calendar    *)
(* with navigation (Navigable) or a configurable widget (Configurable),    *)
(* and whether rendering it may fail (Unreliable).  "value" stands for     *)
(* everything a design can print that changes with time or with the        *)
(* tablet: clock, date, battery, name.                                     *)
(***************************************************************************)
EXTENDS Integers, Sequences, SequencesExt

CONSTANTS
  None,           \* no row, no state, no hash, nobody
  Handlers,       \* goroutines of HTTP requests
  Sessions,       \* goroutines of the tablet's connections, replaced ones included
  Scheduler,      \* the goroutine of RunScheduler
  Files, Stored,  \* designs of the design directory; of the database
  Builtins,       \* designs compiled into the server
  Inline,         \* SVGs uploaded as images: they share one design ID
  Dynamic, Periodic, Navigable, Configurable, Unreliable,
  DefaultDesign,  \* assigned at enrolment, or None
  Settings,       \* configurations a user may save for a widget
  Months,         \* months a calendar can be moved in either direction (Touches)
  Requests,       \* the kinds of request and fault that occur
  MaxRequests,    \* bound: how many of them
  MaxValue        \* bound: changes of the values

Design == Files \cup Stored \cup Builtins \cup Inline
Task   == Handlers \cup Sessions \cup {Scheduler}
Picture == "picture"                  \* a frame that is an uploaded bitmap
Keys   == {"value", "offset"}         \* what a design's text can depend on
Month  == [offset : -Months..Months, expired : BOOLEAN]   \* a calendar's state
Buttons == {"previous", "today", "next"}   \* of a calendar with navigation

ASSUME DesignsAssumption ==
  /\ {Dynamic, Periodic, Navigable, Configurable, Unreliable} \subseteq SUBSET Design
  /\ Navigable \subseteq Periodic     \* the compiler makes them refresh every minute
  /\ DefaultDesign \in Design \cup {None}
  /\ Files \cap Stored = {}           \* their IDs begin with file:, db:
  /\ Builtins \cap (Files \cup Stored) = {}   \* and builtin:
  /\ Picture \notin Design
  /\ Handlers \cap Sessions = {}
  /\ None \notin Task \cup Int /\ None \notin Month
  /\ Months \in Nat \ {0}
  /\ MaxRequests \in Nat /\ MaxValue \in Nat

VARIABLES
  catalog,   \* table designs: the IDs it holds
  active,    \* table device_designs: the tablet's row, or None
  calendar,  \* table widget_states: month offset of each design's calendar
  config,    \* table widget_states: configuration of each design's widget
  frames,    \* table assignments: the frames queued, oldest first
  value,     \* the present values
  lock,      \* Service.renderMu of the tablet: who holds it
  task,      \* where each goroutine is, with its local variables
  requests,  \* history: requests so far
  failed,    \* history: a render that was due did not queue and stamp a frame
  torn,      \* history: a reload was cut off half way
  late       \* history: design frames queued since the design was cleared, or None

vars == <<catalog, active, calendar, config, frames, value, lock, task,
          requests, failed, torn, late>>
tables == <<catalog, active, calendar, config, frames>>
history == <<requests, failed, torn, late>>

(* Widget states are stored under the design ID. *)
Key(d) == IF d \in Inline THEN "inline" ELSE d
Owner  == {Key(d) : d \in Design}

Dependencies(d) == {k \in Keys : \/ k = "value" /\ d \in Dynamic
                                 \/ k = "offset" /\ d \in Navigable}
ValuesHash(view, deps) == [k \in deps |-> view[k]]

State(k) == calendar[k]
Expired(k) == State(k) # None /\ State(k).expired

(* The values and widget states a render of design d would use now. *)
View(d) ==
  LET k == Key(d) IN
  [value  |-> value,
   offset |-> IF State(k) = None \/ Expired(k) THEN None ELSE State(k).offset,
   config |-> config[k]]

Idle == [at |-> "idle"]
Go(t, place) == task' = [task EXCEPT ![t] = place]
At(t, place) == task[t].at = place
Rendering(force) == [at |-> "render", force |-> force]

Init ==
  /\ catalog = Builtins \cup Files
  /\ active = None
  /\ calendar = [k \in Owner |-> None]
  /\ config = [k \in Owner |-> None]
  /\ frames = <<>>
  /\ value = 0
  /\ lock = None
  /\ \E s \in Sessions : task = [t \in Task |-> IF t = s THEN [at |-> "enrolled"] ELSE Idle]
  /\ requests = 0
  /\ failed = FALSE
  /\ torn = FALSE
  /\ late = 0
-----------------------------------------------------------------------------
(* Service.Render. *)

AcquireUnlocked(t) ==               \* mutant: no lock
  /\ At(t, "render") /\ active # None
  /\ Go(t, [at |-> "load", force |-> task[t].force, row |-> active])
  /\ lock' = t
  /\ UNCHANGED <<tables, value, history>>

(* The tablet's lock is taken and the active row read; no row, no render. *)
Acquire(t) ==
  /\ At(t, "render") /\ lock = None
  /\ IF active = None
     THEN Go(t, Idle) /\ UNCHANGED lock
     ELSE /\ Go(t, [at |-> "load", force |-> task[t].force, row |-> active])
          /\ lock' = t
  /\ UNCHANGED <<tables, value, history>>

SuppressedUntilForced(force, row, view) == ~force /\ row.hash # None   \* mutant

(* Nothing to draw: the values the last frame was made of have not changed. *)
Suppressed(force, row, view) ==
  ~force /\ row.hash # None /\ ValuesHash(view, row.deps) = row.hash

DecideKeepingLock(t, force, row, view) ==   \* mutant: an early return without unlock
  /\ Go(t, IF Suppressed(force, row, view) THEN Idle
           ELSE [at |-> "queue", row |-> row, view |-> view])
  /\ UNCHANGED lock

Decide(t, force, row, view) ==
  IF Suppressed(force, row, view)
  THEN Go(t, Idle) /\ lock' = None
  ELSE Go(t, [at |-> "queue", row |-> row, view |-> view]) /\ UNCHANGED lock

(* Values and widget states are read; a month that has expired is not used, *)
(* and is deleted before anything else (Touches: only taps set months).     *)
Load(t) ==
  /\ At(t, "load")
  /\ LET row == task[t].row
         view == View(row.design) IN
     IF Expired(Key(row.design))
     THEN /\ Go(t, [at |-> "expire", force |-> task[t].force, row |-> row, view |-> view])
          /\ UNCHANGED lock
     ELSE Decide(t, task[t].force, row, view)
  /\ UNCHANGED <<tables, value, history>>

(* The compiler returns an error: nothing is queued or written. *)
Fail(t) ==
  /\ At(t, "queue") /\ task[t].row.design \in Unreliable
  /\ Go(t, Idle) /\ lock' = None
  /\ failed' = TRUE
  /\ UNCHANGED <<tables, value, requests, torn, late>>

(* QueueDesignFrame: one transaction. *)
QueueDesignFrame(t) ==
  /\ At(t, "queue")
  /\ LET row == task[t].row
         view == task[t].view IN
     /\ frames' = Append(frames, [svg |-> row.design, value |-> view.value,
                                  offset |-> view.offset, config |-> view.config])
     /\ Go(t, [at |-> "stamp", row |-> row, view |-> view])
  /\ late' = IF late = None THEN None ELSE late + 1
  /\ UNCHANGED <<catalog, active, calendar, config, value, lock, requests, failed, torn>>

(* UpdateActiveDesignRender: whatever row the tablet has by now is marked   *)
(* with the hash, the dependencies and the refresh of the rendered design.  *)
Stamped(row, svg, view) ==
  [row EXCEPT !.deps = Dependencies(svg),
              !.hash = ValuesHash(view, Dependencies(svg)),
              !.refresh = svg \in Periodic]

UpsertActiveDesign(t) ==            \* mutant: inserts the row if it is gone
  /\ At(t, "stamp")
  /\ LET svg == task[t].row.design
         row == IF active = None THEN task[t].row ELSE active IN
     active' = Stamped(row, svg, task[t].view)
  /\ Go(t, Idle) /\ lock' = None
  /\ UNCHANGED <<catalog, calendar, config, frames, value, history>>

UpdateActiveDesignRender(t) ==
  /\ At(t, "stamp")
  /\ LET svg  == task[t].row.design
         view == task[t].view IN
     /\ active' = IF active = None THEN None ELSE Stamped(active, svg, view)
     /\ failed' = (failed /\ ~(/\ active # None /\ active.design = svg
                               /\ view.config = config[Key(svg)]))
  /\ Go(t, Idle) /\ lock' = None
  /\ UNCHANGED <<catalog, calendar, config, frames, value, requests, torn, late>>
-----------------------------------------------------------------------------
(* Who calls Render. *)

(* An event of kind "kind" that the runs bound. *)
Occurs(kind) ==
  /\ kind \in Requests /\ requests < MaxRequests
  /\ requests' = requests + 1

(* An HTTP request of kind "kind" reaches an idle handler. *)
Request(t, kind) == t \in Handlers /\ At(t, "idle") /\ Occurs(kind)

(* Assign looks the design up in the catalogue; an unknown one is a 404.    *)
(* DeviceEnrolled is the same call, made once by a tablet's first session.  *)
Assign(t, d) ==
  /\ Request(t, "assign") /\ d \in catalog
  /\ Go(t, [at |-> "set", design |-> d])
  /\ UNCHANGED <<tables, value, lock, failed, torn, late>>

DeviceEnrolled(t) ==
  /\ At(t, "enrolled")
  /\ Go(t, IF DefaultDesign \in catalog
           THEN [at |-> "set", design |-> DefaultDesign] ELSE Idle)
  /\ UNCHANGED <<tables, value, lock, history>>

AssignInline(t, d) ==
  /\ Request(t, "inline") /\ d \in Inline
  /\ Go(t, [at |-> "set", design |-> d])
  /\ UNCHANGED <<tables, value, lock, failed, torn, late>>

SetActiveDesignUnforced(t) ==       \* mutant: renders as a status would
  /\ At(t, "set")
  /\ active' = [design |-> task[t].design, deps |-> {}, hash |-> None,
                refresh |-> active # None /\ active.refresh]
  /\ late' = None
  /\ Go(t, Rendering(FALSE))
  /\ UNCHANGED <<catalog, calendar, config, frames, value, lock, requests, failed, torn>>

(* SetActiveDesign: a row that was there keeps its refresh interval. *)
SetActiveDesign(t) ==
  /\ At(t, "set")
  /\ active' = [design |-> task[t].design, deps |-> {}, hash |-> None,
                refresh |-> active # None /\ active.refresh]
  /\ late' = None
  /\ Go(t, Rendering(TRUE))
  /\ UNCHANGED <<catalog, calendar, config, frames, value, lock, requests, failed, torn>>

ClearActiveDesign ==
  /\ active' = None
  /\ late' = IF late = None THEN 0 ELSE late
  /\ UNCHANGED <<catalog, calendar, config, frames, value, lock, failed, torn>>

Clear(t) == Request(t, "clear") /\ ClearActiveDesign /\ UNCHANGED task

(* An uploaded bitmap: the active design is cleared, then the frame queued. *)
Upload(t) ==
  /\ Request(t, "upload")
  /\ ClearActiveDesign
  /\ Go(t, [at |-> "picture"])

QueuePicture(t) ==
  /\ At(t, "picture")
  /\ frames' = Append(frames, [svg |-> Picture])
  /\ Go(t, Idle)
  /\ UNCHANGED <<catalog, active, calendar, config, value, lock, history>>

(* PATCH of the tablet: a value may change, and the design is rendered. *)
PatchDevice(t) ==
  /\ Request(t, "patch") /\ value < MaxValue
  /\ value' = value + 1
  /\ Go(t, Rendering(TRUE))
  /\ UNCHANGED <<tables, lock, failed, torn, late>>

(* PutWidgetConfig (s a setting) and ResetWidgetConfig (s is None) read the *)
(* active row, read it again inside ActiveWidgets to find the widget, and   *)
(* store what they were given under the design of the first reading.        *)
ConfigureWidget(t, s) ==
  /\ Request(t, "configure") /\ active # None
  /\ Go(t, [at |-> "configure", owner |-> Key(active.design), setting |-> s])
  /\ UNCHANGED <<tables, value, lock, failed, torn, late>>

ActiveWidgets(t) ==
  /\ At(t, "configure")
  /\ Go(t, IF active # None /\ active.design \in Configurable
           THEN [task[t] EXCEPT !.at = "store"] ELSE Idle)
  /\ UNCHANGED <<tables, value, lock, history>>

StoreConfig(t) ==
  /\ At(t, "store")
  /\ config' = [config EXCEPT ![task[t].owner] = task[t].setting]
  /\ Go(t, Rendering(TRUE))
  /\ UNCHANGED <<catalog, active, calendar, frames, value, lock, history>>

(* The tablet's status: StatusChanged in its session's goroutine. *)
StatusChanged(t) ==
  /\ At(t, "idle") /\ active # None /\ Occurs("status")
  /\ Go(t, Rendering(FALSE))
  /\ UNCHANGED <<tables, value, lock, failed, torn, late>>

(* A minute of RunScheduler at which the design's interval is due. *)
Tick ==
  /\ At(Scheduler, "idle") /\ active # None /\ active.refresh
  /\ Go(Scheduler, Rendering(FALSE))
  /\ UNCHANGED <<tables, value, lock, history>>
-----------------------------------------------------------------------------
(* The catalogue. *)

(* Reload deletes every file design and inserts those found, one by one. *)
Reload(t) ==
  /\ Request(t, "reload")
  /\ catalog' = catalog \ Files
  /\ Go(t, IF Files = {} THEN Idle ELSE [at |-> "reload", left |-> Files])
  /\ UNCHANGED <<active, calendar, config, frames, value, lock, failed, torn, late>>

ReloadFile(t) ==
  /\ At(t, "reload")
  /\ \E f \in task[t].left :
       /\ catalog' = catalog \cup {f}
       /\ Go(t, IF task[t].left = {f} THEN Idle
                ELSE [task[t] EXCEPT !.left = @ \ {f}])
  /\ UNCHANGED <<active, calendar, config, frames, value, lock, history>>

PutDatabaseDesign(t, d) ==
  /\ Request(t, "design") /\ d \in Stored
  /\ catalog' = catalog \cup {d}
  /\ UNCHANGED <<active, calendar, config, frames, value, lock, task, failed, torn, late>>

DeleteAnyDesign(t, d) ==            \* mutant: whatever its source
  /\ Request(t, "design") /\ d \in catalog
  /\ catalog' = catalog \ {d}
  /\ UNCHANGED <<active, calendar, config, frames, value, lock, task, failed, torn, late>>

DeleteDatabaseDesign(t, d) ==
  /\ Request(t, "design") /\ d \in Stored \cap catalog
  /\ catalog' = catalog \ {d}
  /\ UNCHANGED <<active, calendar, config, frames, value, lock, task, failed, torn, late>>
-----------------------------------------------------------------------------
(* The clock moves, or the tablet reports something new. *)
Advance ==
  /\ Occurs("advance") /\ value < MaxValue
  /\ value' = value + 1
  /\ UNCHANGED <<tables, lock, task, failed, torn, late>>

(* The HTTP client hangs up: the request's context is cancelled, the next   *)
(* statement fails and the deferred unlock runs.                            *)
Cancel(t) ==
  /\ Occurs("cancel") /\ ~At(t, "idle")
  /\ Go(t, Idle)
  /\ lock' = IF lock = t THEN None ELSE lock
  /\ failed' = TRUE
  /\ torn' = (torn \/ At(t, "reload"))
  /\ UNCHANGED <<tables, value, late>>

(* The process dies and starts again: start-up reloads the catalogue before *)
(* anything else runs; the tables are on disk.                              *)
Crash ==
  /\ Occurs("crash")
  /\ catalog' = catalog \cup Builtins \cup Files
  /\ lock' = None
  /\ task' = [t \in Task |-> Idle]
  /\ failed' = (failed \/ \E t \in Task : ~At(t, "idle"))
  /\ torn' = FALSE
  /\ UNCHANGED <<active, calendar, config, frames, value, late>>

RenderStep(t) ==
  \/ Load(t) \/ Fail(t)
  \/ QueueDesignFrame(t) \/ UpdateActiveDesignRender(t)

(* What a goroutine does next without anybody asking. *)
Continue(t) ==
  \/ RenderStep(t) \/ SetActiveDesign(t) \/ QueuePicture(t)
  \/ ActiveWidgets(t) \/ StoreConfig(t) \/ ReloadFile(t)

Arrive(t) ==
  \/ \E d \in Design : \/ Assign(t, d) \/ AssignInline(t, d)
                       \/ PutDatabaseDesign(t, d) \/ DeleteDatabaseDesign(t, d)
  \/ \E s \in Settings \cup {None} : ConfigureWidget(t, s)
  \/ Clear(t) \/ Upload(t) \/ PatchDevice(t) \/ Reload(t)

Next ==
  \/ \E t \in Task : Acquire(t) \/ Continue(t)
  \/ \E t \in Handlers : Arrive(t) \/ Cancel(t)
  \/ \E t \in Sessions : DeviceEnrolled(t) \/ StatusChanged(t)
  \/ Tick \/ Advance \/ Crash

(* Goroutines that can go on do so; sync.Mutex lets no waiter starve; the   *)
(* scheduler's timer fires every minute.  Nobody has to send a request, and *)
(* a tablet may sleep for as long as it likes.                              *)
Fairness ==
  /\ \A t \in Task : WF_vars(Continue(t)) /\ SF_vars(Acquire(t))
  /\ \A t \in Sessions : WF_vars(DeviceEnrolled(t))
  /\ WF_vars(Tick)

Spec == Init /\ [][Next]_vars /\ Fairness
-----------------------------------------------------------------------------
(* Properties. *)

Views == [value : 0..MaxValue, offset : -Months..Months \cup {None}, config : Settings \cup {None}]
Row   == [design : Design, deps : SUBSET Keys, refresh : BOOLEAN,
          hash : {None} \cup UNION {[s -> 0..MaxValue \cup -Months..Months \cup {None}] : s \in SUBSET Keys}]
Place ==
       [at : {"idle", "enrolled", "picture"}]
  \cup [at : {"set"}, design : Design]
  \cup [at : {"render"}, force : BOOLEAN]
  \cup [at : {"load"}, force : BOOLEAN, row : Row]
  \cup [at : {"expire"}, force : BOOLEAN, row : Row, view : Views]
  \cup [at : {"queue", "stamp"}, row : Row, view : Views]
  \cup [at : {"configure", "store"}, owner : Owner, setting : Settings \cup {None}]
  \cup [at : {"reload"}, left : SUBSET Files]
  \cup [at : {"claim"}, frame : Nat, owner : Owner, button : Buttons]   \* Touches
  \cup [at : {"state"}, owner : Owner, button : Buttons]                \* Touches
  \cup [at : {"put"}, owner : Owner, month : Month]                     \* Touches
DesignFrame == {f \in DOMAIN frames : frames[f].svg # Picture}
Holding(t)  == task[t].at \in {"load", "expire", "queue", "stamp"}

(* Types, and the lock: exactly the goroutine inside Render holds it. *)
TypeOK ==
  /\ catalog \subseteq Design /\ Builtins \subseteq catalog
  /\ active \in Row \cup {None}
  /\ calendar \in [Owner -> Month \cup {None}]
  /\ config \in [Owner -> Settings \cup {None}]
  /\ \A f \in DesignFrame : frames[f].svg \in Design
  /\ value \in 0..MaxValue /\ requests \in 0..MaxRequests /\ late \in Nat \cup {None}
  /\ failed \in BOOLEAN /\ torn \in BOOLEAN
  /\ task \in [Task -> Place]
  /\ \A t \in Task : Holding(t) <=> lock = t

(* A tablet's picture never goes back in time: of two frames rendered from  *)
(* designs the later one shows values at least as recent, although handlers *)
(* and the scheduler render concurrently and read the values long before    *)
(* they queue the frame (service.go Render holds renderMu throughout).      *)
ValuesForward ==
  \A f, g \in DesignFrame : f < g => frames[f].value <= frames[g].value

Quiet == \A t \in Task : At(t, "idle")

(* Once everything that was asked for has been done and no render failed,   *)
(* the newest design frame shows the design that is active, with the widget *)
(* configuration saved for it, and the row is marked with that frame's      *)
(* values, dependencies and refresh, even when another design was rendering *)
(* while it was assigned (UpdateActiveDesignRender marks whatever row is    *)
(* there).                                                                  *)
QuietShowsActive ==
  Quiet /\ ~failed /\ active # None =>
    /\ DesignFrame # {}
    /\ LET newest == CHOOSE f \in DesignFrame : \A g \in DesignFrame : g <= f
           frame  == frames[newest] IN
       /\ frame.svg = active.design
       /\ frame.config = config[Key(active.design)]
       /\ active = Stamped(active, frame.svg, frame)

(* Clearing a design, or uploading a bitmap over it, stops it: the render   *)
(* that is under way may still queue its frame, and none comes after it.    *)
StopsAfterClear == late # None => late <= 1

(* Unless a reload is under way or its request was cancelled, every design  *)
(* of the directory is in the catalogue, however reloads overlap.           *)
ReloadRestores ==
  (\A t \in Task : ~At(t, "reload")) /\ ~torn => Files \subseteq catalog

(* A design with a refresh interval catches up with its values: when they   *)
(* differ from those its row is marked with, the scheduler renders it       *)
(* again, without a request or a status (the design being one that can be   *)
(* rendered).                                                               *)
Outdated ==
  /\ active # None
  /\ active.refresh /\ active.design \notin Unreliable
  /\ active.hash = None \/ active.hash # ValuesHash(View(active.design), active.deps)
CatchesUp == Outdated ~> ~Outdated
=============================================================================
