---------------------------- MODULE TouchesProofs ----------------------------
(***************************************************************************)
(* Taps and retention, for any number of goroutines, frames and months.    *)
(* What DesignsProofs shows of the design service holds with taps as well, *)
(* and is carried over; so is its argument for what the newest frame       *)
(* shows, to the month of a calendar.                                      *)
(***************************************************************************)
EXTENDS Touches, DesignsProofs, FiniteSetTheorems

\* No month is out of reach.
MonthsInReach == calendar \in [Owner -> {None} \cup Month]

\* What a tap remembers from one statement to the next.
TapInv ==
  \A t \in Task :
    /\ At(t, "claim") => task[t].frame \in DOMAIN frames /\ task[t].owner \in Owner
    /\ At(t, "state") => task[t].owner \in Owner
    /\ At(t, "put") => task[t].month \in Month

\* Frames are a sequence, whatever they show.
FramesInv == \E S : frames \in Seq(S)

\* A frame that is known was claimed once if its claim is known, and else never.
ClaimInv ==
  \A f \in kept : claimed[f] = IF f \in claims THEN 1 ELSE 0

\* The newest frames ever queued are known: pruning counts what is left, and a
\* frame is never forgotten before Limit newer ones are there.
NewestKnown == \A f \in DOMAIN frames : f > Len(frames) - Limit => f \in kept

TouchInv == Inv /\ FramesInv /\ TapInv /\ TapTypes /\ MonthsInReach /\ ClaimInv /\ NewestKnown

\* One frame more.
LEMMA FrameAppended ==
  ASSUME FramesInv, NEW frame
  PROVE  /\ \E S : Append(frames, frame) \in Seq(S)
         /\ Len(Append(frames, frame)) = Len(frames) + 1
         /\ DOMAIN Append(frames, frame) = DOMAIN frames \cup {Len(frames) + 1}
         /\ DOMAIN frames = 1..Len(frames) /\ Len(frames) \in Nat
<1>1. PICK S : frames \in Seq(S)
  BY DEF FramesInv
<1>2. frames \in Seq(S \cup {frame}) /\ frame \in S \cup {frame}
  BY <1>1
<1>3. Append(frames, frame) \in Seq(S \cup {frame})
  BY <1>2
<1>4. /\ Len(Append(frames, frame)) = Len(frames) + 1
      /\ DOMAIN Append(frames, frame) = DOMAIN frames \cup {Len(frames) + 1}
      /\ DOMAIN frames = 1..Len(frames) /\ Len(frames) \in Nat
  BY <1>2
<1> QED
  BY <1>3, <1>4

\* The clamp keeps a month within reach.
LEMMA ClampFacts == ASSUME NEW n \in Int PROVE Clamp(n) \in -Months..Months
<1>1. Months \in Nat
  BY DesignsAssumption
<1>2. PICK m : m = Max({n, -Months})
  OBVIOUS
<1>3. m \in Int /\ m >= -Months
  <2>1. \E x \in {n, -Months} : \A y \in {n, -Months} : x >= y
    BY <1>1
  <2> QED
    BY <1>1, <1>2, <2>1 DEF Max
<1>4. PICK k : k = Min({m, Months})
  OBVIOUS
<1>5. k \in {m, Months} /\ k <= m /\ k <= Months
  <2>1. \E x \in {m, Months} : \A y \in {m, Months} : x <= y
    BY <1>1, <1>3
  <2> QED
    BY <1>4, <2>1 DEF Min
<1>6. Clamp(n) = k
  BY <1>2, <1>4 DEF Clamp
<1> QED
  BY <1>1, <1>3, <1>5, <1>6

\* A tap moves to a month within reach, with five new minutes.
LEMMA MovedFacts ==
  ASSUME NEW state \in Month \cup {None}, NEW button
  PROVE  Moved(state, button) \in Month
<1> DEFINE offset == IF state = None THEN 0 ELSE state.offset
           moved  == IF button = "previous" THEN offset - 1
                     ELSE IF button = "next" THEN offset + 1 ELSE 0
<1>1. offset \in Int
  BY DesignsAssumption DEF Month
<1>2. moved \in Int
  BY <1>1
<1>3. Clamp(moved) \in -Months..Months
  BY <1>2, ClampFacts
<1>4. Moved(state, button) = [offset |-> Clamp(moved), expired |-> FALSE]
  BY DEF Moved
<1> QED
  BY <1>3, <1>4 DEF Month

\* A step of one goroutine that is not a tap's.
LEMMA GoesElsewhere ==
  ASSUME TaskInv, NEW t \in Task, NEW place, Go(t, place), place.at \notin {"claim", "state", "put"}
  PROVE  \A u \in Task : task'[u] = task[u] \/ task'[u].at \notin {"claim", "state", "put"}
BY DEF TaskInv, Go

-----------------------------------------------------------------------------
(* The steps of the design service, as far as taps and retention are        *)
(* concerned.                                                               *)

Elsewhere == \A u \in Task : task'[u] = task[u] \/ task'[u].at \notin {"claim", "state", "put"}
OneFrameMore == frames' = frames \/ \E frame : frames' = Append(frames, frame)
Shape == calendar' = calendar /\ OneFrameMore /\ Elsewhere

\* Rendering.
LEMMA RenderShape ==
  ASSUME TaskInv, NEW t \in Task, Acquire(t) \/ RenderStep(t)
  PROVE  Shape
<1>1. CASE Acquire(t)
  <2>1. calendar' = calendar /\ frames' = frames
    BY <1>1 DEF Acquire, tables
  <2>2. PICK place : Go(t, place) /\ place.at \in {"idle", "load"}
    BY <1>1 DEF Acquire, Idle
  <2> QED
    BY <2>1, <2>2, GoesElsewhere DEF Shape, OneFrameMore, Elsewhere
<1>2. CASE Load(t)
  <2>1. calendar' = calendar /\ frames' = frames
    BY <1>2 DEF Load, tables
  <2>2. PICK place : Go(t, place) /\ place.at \in {"idle", "expire", "queue"}
    BY <1>2 DEF Load, Decide, Idle
  <2> QED
    BY <2>1, <2>2, GoesElsewhere DEF Shape, OneFrameMore, Elsewhere
<1>3. CASE Fail(t) \/ UpdateActiveDesignRender(t)
  <2>1. calendar' = calendar /\ frames' = frames /\ Go(t, Idle) /\ Idle.at = "idle"
    BY <1>3 DEF Fail, UpdateActiveDesignRender, tables, Idle
  <2> QED
    BY <2>1, GoesElsewhere DEF Shape, OneFrameMore, Elsewhere
<1>4. CASE QueueDesignFrame(t)
  <2>1. calendar' = calendar /\ \E frame : frames' = Append(frames, frame)
    BY <1>4 DEF QueueDesignFrame
  <2>2. PICK place : Go(t, place) /\ place.at = "stamp"
    BY <1>4 DEF QueueDesignFrame
  <2> QED
    BY <2>1, <2>2, GoesElsewhere DEF Shape, OneFrameMore, Elsewhere
<1> QED
  BY <1>1, <1>2, <1>3, <1>4 DEF RenderStep

\* What a goroutine does without anybody asking.
LEMMA ContinueShape ==
  ASSUME TaskInv, NEW t \in Task, Continue(t)
  PROVE  Shape
<1>1. CASE RenderStep(t)
  BY <1>1, RenderShape
<1>2. CASE SetActiveDesign(t) \/ StoreConfig(t)
  <2>1. calendar' = calendar /\ frames' = frames /\ Go(t, Rendering(TRUE)) /\ Rendering(TRUE).at = "render"
    BY <1>2 DEF SetActiveDesign, StoreConfig, Rendering
  <2> QED
    BY <2>1, GoesElsewhere DEF Shape, OneFrameMore, Elsewhere
<1>3. CASE QueuePicture(t)
  <2>1. /\ calendar' = calendar /\ \E frame : frames' = Append(frames, frame)
        /\ Go(t, Idle) /\ Idle.at = "idle"
    BY <1>3 DEF QueuePicture, Idle
  <2> QED
    BY <2>1, GoesElsewhere DEF Shape, OneFrameMore, Elsewhere
<1>4. CASE ActiveWidgets(t)
  <2>1. calendar' = calendar /\ frames' = frames
    BY <1>4 DEF ActiveWidgets, tables
  <2>2. [task[t] EXCEPT !.at = "store"].at = "store" /\ Idle.at = "idle"
    <3>1. task[t] = [at |-> "configure", owner |-> task[t].owner, setting |-> task[t].setting]
      BY <1>4 DEF ActiveWidgets, TaskInv
    <3> QED
      BY <3>1 DEF Idle
  <2>3. PICK place : Go(t, place) /\ place.at \in {"store", "idle"}
    BY <1>4, <2>2 DEF ActiveWidgets
  <2> QED
    BY <2>1, <2>3, GoesElsewhere DEF Shape, OneFrameMore, Elsewhere
<1>5. CASE ReloadFile(t)
  <2>1. calendar' = calendar /\ frames' = frames
    BY <1>5 DEF ReloadFile
  <2>2. PICK f \in task[t].left :
          Go(t, IF task[t].left = {f} THEN Idle ELSE [task[t] EXCEPT !.left = task[t].left \ {f}])
    BY <1>5 DEF ReloadFile
  <2>3. [task[t] EXCEPT !.left = task[t].left \ {f}].at = "reload" /\ Idle.at = "idle"
    <3>1. task[t] \in [at : {"reload"}, left : SUBSET Files]
      BY <1>5 DEF ReloadFile, TaskInv
    <3> QED
      BY <3>1 DEF Idle
  <2>4. PICK place : Go(t, place) /\ place.at \in {"reload", "idle"}
    BY <2>2, <2>3
  <2> QED
    BY <2>1, <2>4, GoesElsewhere DEF Shape, OneFrameMore, Elsewhere
<1> QED
  BY <1>1, <1>2, <1>3, <1>4, <1>5 DEF Continue

\* Requests.
LEMMA ArriveShape ==
  ASSUME TaskInv, NEW t \in Handlers, Arrive(t)
  PROVE  Shape
<1>1. t \in Task
  BY DEF Task
<1>2. calendar' = calendar /\ frames' = frames
  BY DEF Arrive, Assign, AssignInline, PutDatabaseDesign, DeleteDatabaseDesign, ConfigureWidget,
         Clear, Upload, PatchDevice, Reload, ClearActiveDesign, tables
<1>3. CASE task' = task
  BY <1>2, <1>3 DEF Shape, OneFrameMore, Elsewhere
<1>4. ASSUME NEW place, Go(t, place), place.at \notin {"claim", "state", "put"}
      PROVE  Shape
  BY <1>1, <1>2, <1>4, GoesElsewhere DEF Shape, OneFrameMore, Elsewhere
<1>5. ASSUME NEW d \in Design,
             Assign(t, d) \/ AssignInline(t, d) \/ PutDatabaseDesign(t, d) \/ DeleteDatabaseDesign(t, d)
      PROVE  Shape
  <2>1. \/ task' = task
        \/ Go(t, [at |-> "set", design |-> d])
    BY <1>5 DEF Assign, AssignInline, PutDatabaseDesign, DeleteDatabaseDesign
  <2>2. PICK place : place = [at |-> "set", design |-> d]
    OBVIOUS
  <2> QED
    BY <2>1, <2>2, <1>3, <1>4
<1>6. ASSUME NEW s \in Settings \cup {None}, ConfigureWidget(t, s) PROVE Shape
  <2>1. PICK place : Go(t, place) /\ place.at = "configure"
    BY <1>6 DEF ConfigureWidget
  <2> QED
    BY <2>1, <1>4
<1>7. CASE Clear(t)
  BY <1>3, <1>7 DEF Clear
<1>8. CASE Upload(t) \/ PatchDevice(t) \/ Reload(t)
  <2>1. PICK place : Go(t, place) /\ place.at \in {"picture", "render", "idle", "reload"}
    BY <1>8 DEF Upload, PatchDevice, Reload, Rendering, Idle
  <2> QED
    BY <2>1, <1>4
<1> QED
  BY <1>5, <1>6, <1>7, <1>8 DEF Arrive

\* Every step of the service.
LEMMA ServiceShape ==
  ASSUME TaskInv, Service
  PROVE  Shape
<1>1. ASSUME NEW t \in Task, NEW place, Go(t, place), place.at \notin {"claim", "state", "put"},
             calendar' = calendar, frames' = frames
      PROVE  Shape
  BY <1>1, GoesElsewhere DEF Shape, OneFrameMore, Elsewhere
<1>2. CASE \E t \in Handlers : Cancel(t)
  <2>1. PICK t \in Handlers : Cancel(t)
    BY <1>2
  <2>2. t \in Task /\ Go(t, Idle) /\ Idle.at = "idle" /\ calendar' = calendar /\ frames' = frames
    BY <2>1 DEF Cancel, Idle, tables, Task
  <2> QED
    BY <2>2, <1>1
<1>3. CASE \E t \in Sessions : DeviceEnrolled(t) \/ StatusChanged(t)
  <2>1. PICK t \in Sessions : DeviceEnrolled(t) \/ StatusChanged(t)
    BY <1>3
  <2>2. t \in Task /\ calendar' = calendar /\ frames' = frames
    BY <2>1 DEF DeviceEnrolled, StatusChanged, tables, Task
  <2>3. PICK place : Go(t, place) /\ place.at \in {"set", "idle", "render"}
    BY <2>1 DEF DeviceEnrolled, StatusChanged, Idle, Rendering
  <2> QED
    BY <2>2, <2>3, <1>1
<1>4. CASE Tick
  <2>1. /\ Scheduler \in Task /\ Go(Scheduler, Rendering(FALSE)) /\ Rendering(FALSE).at = "render"
        /\ calendar' = calendar /\ frames' = frames
    BY <1>4 DEF Tick, Rendering, tables, Task
  <2> QED
    BY <2>1, <1>1
<1>5. CASE Advance
  BY <1>5 DEF Advance, tables, Shape, OneFrameMore, Elsewhere
<1> QED
  BY <1>2, <1>3, <1>4, <1>5, RenderShape, ContinueShape, ArriveShape DEF Service

-----------------------------------------------------------------------------
(* The steps. *)

\* At the start nothing is queued and nobody taps.
LEMMA TouchInitInv == TouchInit => TouchInv
<1> SUFFICES ASSUME TouchInit PROVE TouchInv
  OBVIOUS
<1>1. Inv
  BY InitInv DEF TouchInit
<1>2. frames = <<>> /\ kept = {} /\ display = None /\ claims = {} /\ claimed = <<>>
  BY DEF TouchInit, Init
<1>3. FramesInv
  BY <1>2 DEF FramesInv
<1>4. TapInv
  <2>1. \A t \in Task : task[t].at \in {"enrolled", "idle"}
    BY DEF TouchInit, Init, Idle
  <2> QED
    BY <2>1 DEF TapInv, At
<1>5. calendar \in [Owner -> {None} \cup Month]
  BY DEF TouchInit, Init
<1>6. TapTypes /\ MonthsInReach
  BY <1>2, <1>5 DEF TapTypes, MonthsInReach, Month
<1>7. ClaimInv /\ NewestKnown
  BY <1>2 DEF ClaimInv, NewestKnown
<1> QED
  BY <1>1, <1>3, <1>4, <1>6, <1>7 DEF TouchInv

\* A step that adds no frame keeps what taps remember, if no tap begins.
LEMMA TapsKept ==
  ASSUME TapInv, frames' = frames, Elsewhere
  PROVE  TapInv'
BY DEF TapInv, Elsewhere, At

\* The service queues at most one frame, which is known and not claimed.
LEMMA ServiceStep ==
  ASSUME TouchInv, Service
  PROVE  TouchInv'
<1>1. Inv'
  BY NextInv DEF Service, Next, TouchInv
<1>2. Shape /\ Queued
  BY ServiceShape DEF TouchInv, Inv, Service
<1>3. CASE frames' = frames
  <2>1. kept' = kept /\ claimed' = claimed /\ UNCHANGED <<display, claims, calendar, frames>>
    BY <1>2, <1>3 DEF Queued, Shape
  <2>2. TapInv'
    BY <1>2, <1>3, TapsKept DEF TouchInv, Shape
  <2> QED
    BY <1>1, <2>1, <2>2 DEF TouchInv, FramesInv, TapTypes, MonthsInReach, ClaimInv, NewestKnown
<1>4. CASE frames' # frames
  <2> DEFINE last == Len(frames) + 1
  <2>1. PICK frame : frames' = Append(frames, frame)
    BY <1>2, <1>4 DEF Shape, OneFrameMore
  <2>2. /\ FramesInv' /\ Len(frames') = last /\ DOMAIN frames' = DOMAIN frames \cup {last}
        /\ DOMAIN frames = 1..Len(frames) /\ Len(frames) \in Nat
    BY <2>1, FrameAppended DEF TouchInv, FramesInv
  <2>3. kept' = kept \cup {last} /\ claimed' = Append(claimed, 0)
        /\ UNCHANGED <<display, claims, calendar>>
    BY <1>2, <1>4, <2>2 DEF Queued, Shape
  <2>4. claimed \in Seq(Nat) /\ Len(claimed) = Len(frames) /\ claims \subseteq DOMAIN frames
        /\ kept \subseteq DOMAIN frames /\ display \in DOMAIN frames \cup {None}
    BY DEF TouchInv, TapTypes, MonthsInReach
  <2>5. /\ claimed' \in Seq(Nat) /\ Len(claimed') = last
        /\ claimed'[last] = 0 /\ \A f \in DOMAIN frames : claimed'[f] = claimed[f]
    BY <2>2, <2>3, <2>4
  <2>6. TapTypes' /\ MonthsInReach'
    <3>1. kept' \subseteq DOMAIN frames' /\ claims' \subseteq DOMAIN frames'
          /\ display' \in DOMAIN frames' \cup {None}
      BY <2>2, <2>3, <2>4
    <3> QED
      BY <3>1, <2>2, <2>3, <2>5 DEF TouchInv, TapTypes, MonthsInReach
  <2>7. TapInv'
    BY <1>2, <2>2 DEF TouchInv, TapInv, Shape, Elsewhere, At
  <2>8. ClaimInv'
    <3>1. last \notin claims /\ last \notin kept
      BY <2>2, <2>4
    <3> QED
      BY <2>3, <2>4, <2>5, <3>1 DEF TouchInv, ClaimInv
  <2>9. NewestKnown'
    <3> SUFFICES ASSUME NEW f \in DOMAIN frames', f > Len(frames') - Limit PROVE f \in kept'
      BY DEF NewestKnown
    <3>1. CASE f = last
      BY <3>1, <2>3
    <3>2. CASE f \in DOMAIN frames
      <4>1. f > Len(frames) - Limit
        BY <3>2, <2>2, TouchesAssumption
      <4> QED
        BY <3>2, <4>1, <2>3 DEF TouchInv, NewestKnown
    <3> QED
      BY <3>1, <3>2, <2>2
  <2> QED
    BY <1>1, <2>2, <2>6, <2>7, <2>8, <2>9 DEF TouchInv
<1> QED
  BY <1>3, <1>4

\* A tap begins on a frame that is known.
LEMMA TapStep ==
  ASSUME TouchInv, NEW t \in Sessions, NEW f \in DOMAIN frames, TapCalendar(t, f)
  PROVE  TouchInv'
<1>1. t \in Task /\ At(t, "idle") /\ UNCHANGED <<tables, value, lock, failed, torn, late, touchVars>>
  BY DEF TapCalendar, Task
<1>2. PICK b : Go(t, [at |-> "claim", frame |-> f, owner |-> Key(frames[f].svg), button |-> b])
  BY DEF TapCalendar
<1>3. PICK place : place = [at |-> "claim", frame |-> f, owner |-> Key(frames[f].svg), button |-> b]
  OBVIOUS
<1>4. place.at = "claim" /\ place.frame = f /\ place.owner = Key(frames[f].svg)
  BY <1>3
<1>5. Key(frames[f].svg) \in Owner
  BY DesignsAssumption, KeyOwner DEF TapCalendar
<1>6. Go(t, place)
  BY <1>2, <1>3
<1>7. Inv'
  <2>1. ~At(t, "reload")
    BY <1>1 DEF At
  <2> QED
    BY <1>1, <1>4, <1>6, <2>1, PlainStep DEF TouchInv, tables
<1>8. TapInv'
  <2>1. \A u \in Task : task'[u] = IF u = t THEN place ELSE task[u]
    BY <1>6 DEF TouchInv, Inv, TaskInv, Go
  <2> QED
    BY <2>1, <1>1, <1>4, <1>5 DEF TouchInv, TapInv, At, tables
<1> QED
  BY <1>1, <1>7, <1>8 DEF TouchInv, FramesInv, TapTypes, MonthsInReach, ClaimInv, NewestKnown, tables, touchVars

\* A claim counts once: the second one finds the first.
LEMMA ClaimStep ==
  ASSUME TouchInv, NEW t \in Sessions, Claim(t)
  PROVE  TouchInv'
<1>1. t \in Task /\ At(t, "claim") /\ UNCHANGED <<tables, value, lock, history, kept, display>>
  BY DEF Claim, Task
<1>2. /\ ~At(t, "reload") /\ task[t].frame \in DOMAIN frames /\ task[t].owner \in Owner
  BY <1>1 DEF TouchInv, TapInv, At
<1>3. CASE task[t].frame \in claims
  <2>1. Go(t, Idle) /\ Idle.at = "idle" /\ UNCHANGED <<claims, claimed>>
    BY <1>3 DEF Claim, Idle
  <2>2. Inv'
    BY <1>1, <1>2, <2>1, PlainStep DEF TouchInv, tables, history
  <2>3. Elsewhere
    BY <1>1, <2>1, GoesElsewhere DEF TouchInv, Inv, Elsewhere
  <2>4. TapInv'
    BY <1>1, <2>3, TapsKept DEF TouchInv, tables
  <2> QED
    BY <1>1, <2>1, <2>2, <2>4 DEF TouchInv, FramesInv, TapTypes, MonthsInReach, ClaimInv, NewestKnown, tables
<1>4. CASE task[t].frame \notin claims
  <2> DEFINE f == task[t].frame
  <2>1. /\ Go(t, [at |-> "state", owner |-> task[t].owner, button |-> task[t].button])
        /\ claims' = claims \cup {f}
        /\ claimed' = [claimed EXCEPT ![f] = claimed[f] + 1]
    BY <1>4 DEF Claim
  <2>3. PICK place : place = [at |-> "state", owner |-> task[t].owner, button |-> task[t].button]
    OBVIOUS
  <2>4. place.at = "state" /\ place.owner \in Owner
    BY <1>2, <2>3
  <2>5. Inv'
    BY <1>1, <1>2, <2>1, <2>3, <2>4, PlainStep DEF TouchInv, tables, history
  <2>6. TapInv'
    <3>1. \A u \in Task : task'[u] = IF u = t THEN place ELSE task[u]
      BY <2>1, <2>3 DEF TouchInv, Inv, TaskInv, Go
    <3> QED
      BY <3>1, <1>1, <2>4 DEF TouchInv, TapInv, At, tables
  <2>7. claimed \in Seq(Nat) /\ DOMAIN claimed = DOMAIN frames /\ DOMAIN frames = 1..Len(frames)
    <3>1. DOMAIN frames = 1..Len(frames)
      BY FrameAppended DEF TouchInv
    <3> QED
      BY <3>1 DEF TouchInv, TapTypes, MonthsInReach
  <2>8. claimed[f] + 1 \in Nat
    BY <1>2, <2>7
  <2>9. claimed' \in Seq(Nat) /\ Len(claimed') = Len(claimed)
        /\ \A g \in DOMAIN claimed : claimed'[g] = IF g = f THEN claimed[f] + 1 ELSE claimed[g]
    BY <1>2, <2>1, <2>7, <2>8
  <2>10. TapTypes' /\ MonthsInReach'
    BY <1>1, <1>2, <2>1, <2>9 DEF TouchInv, TapTypes, MonthsInReach, tables
  <2>11. ClaimInv'
    <3> SUFFICES ASSUME NEW g \in kept PROVE claimed'[g] = IF g \in claims' THEN 1 ELSE 0
      BY <1>1 DEF ClaimInv
    <3>1. g \in DOMAIN claimed /\ claimed[g] = IF g \in claims THEN 1 ELSE 0
      BY <2>7 DEF TouchInv, ClaimInv, TapTypes, MonthsInReach
    <3> QED
      BY <3>1, <2>1, <2>9, <1>4
  <2> QED
    BY <1>1, <2>5, <2>6, <2>10, <2>11 DEF TouchInv, FramesInv, NewestKnown, tables
<1> QED
  BY <1>3, <1>4

\* The month to move to is one of the calendar's.
LEMMA GetStateStep ==
  ASSUME TouchInv, NEW t \in Sessions, GetWidgetState(t)
  PROVE  TouchInv'
<1> DEFINE month == Moved(State(task[t].owner), task[t].button)
<1>1. /\ t \in Task /\ At(t, "state") /\ UNCHANGED <<tables, value, lock, history, touchVars>>
      /\ Go(t, [at |-> "put", owner |-> task[t].owner, month |-> month])
  BY DEF GetWidgetState, Task
<1>2. ~At(t, "reload") /\ task[t].owner \in Owner
  BY <1>1 DEF TouchInv, TapInv, At
<1>3. month \in Month
  <2>1. State(task[t].owner) \in Month \cup {None}
    BY <1>2 DEF TouchInv, TapTypes, MonthsInReach, State, Month
  <2> QED
    BY <2>1, MovedFacts
<1> HIDE DEF month
<1>4. PICK place : place = [at |-> "put", owner |-> task[t].owner, month |-> month]
  OBVIOUS
<1>5. place.at = "put" /\ place.month \in Month
  BY <1>3, <1>4
<1>6. Inv'
  BY <1>1, <1>2, <1>4, <1>5, PlainStep DEF TouchInv, tables, history
<1>7. TapInv'
  <2>1. \A u \in Task : task'[u] = IF u = t THEN place ELSE task[u]
    BY <1>1, <1>4 DEF TouchInv, Inv, TaskInv, Go
  <2> QED
    BY <2>1, <1>1, <1>5 DEF TouchInv, TapInv, At, tables
<1> QED
  BY <1>1, <1>6, <1>7 DEF TouchInv, FramesInv, TapTypes, MonthsInReach, ClaimInv, NewestKnown, tables, touchVars

\* The new month is stored, and a render asked for.
LEMMA PutStateStep ==
  ASSUME TouchInv, NEW t \in Sessions, PutWidgetState(t)
  PROVE  TouchInv'
<1>1. /\ t \in Task /\ At(t, "put") /\ Go(t, Rendering(TRUE)) /\ Rendering(TRUE).at = "render"
      /\ calendar' = [calendar EXCEPT ![task[t].owner] = task[t].month]
      /\ UNCHANGED <<catalog, active, config, frames, value, lock, history, touchVars>>
  BY DEF PutWidgetState, Task, Rendering
<1>2. ~At(t, "reload") /\ task[t].month \in Month
  BY <1>1 DEF TouchInv, TapInv, At
<1>3. Inv'
  BY <1>1, <1>2, PlainStep DEF TouchInv, history
<1>4. Elsewhere
  BY <1>1, GoesElsewhere DEF TouchInv, Inv, Elsewhere
<1>5. TapInv'
  BY <1>1, <1>4, TapsKept DEF TouchInv
<1>6. calendar' \in [Owner -> {None} \cup Month]
  BY <1>1, <1>2 DEF TouchInv, TapTypes, MonthsInReach, Month
<1> QED
  BY <1>1, <1>3, <1>5, <1>6 DEF TouchInv, FramesInv, TapTypes, MonthsInReach, ClaimInv, NewestKnown, touchVars, Month

\* A month that ran out is deleted by the render that found it so.
LEMMA ExpireStep ==
  ASSUME TouchInv, NEW t \in Task, Expire(t)
  PROVE  TouchInv'
<1> DEFINE key == Key(task[t].row.design)
<1>1. /\ task[t].at = "expire" /\ Decide(t, task[t].force, task[t].row, task[t].view)
      /\ calendar' = [calendar EXCEPT ![key] = None]
      /\ UNCHANGED <<catalog, active, config, frames, value, history, touchVars>>
  BY DEF Expire, At
<1>2. Inv'
  BY <1>1, DecideStep DEF TouchInv, history
<1>3. PICK place : Go(t, place) /\ place.at \in {"idle", "queue"}
  BY <1>1 DEF Decide, Idle
<1>4. Elsewhere
  BY <1>3, GoesElsewhere DEF TouchInv, Inv, Elsewhere
<1>5. TapInv'
  BY <1>1, <1>4, TapsKept DEF TouchInv
<1>6. calendar' \in [Owner -> {None} \cup Month]
  BY <1>1 DEF TouchInv, TapTypes, MonthsInReach, Month
<1> QED
  BY <1>1, <1>2, <1>5, <1>6 DEF TouchInv, FramesInv, TapTypes, MonthsInReach, ClaimInv, NewestKnown, touchVars, Month

\* Five minutes go by.
LEMMA MonthExpiresStep ==
  ASSUME TouchInv, MonthExpires
  PROVE  TouchInv'
<1>1. UNCHANGED <<catalog, active, config, frames, value, lock, task, failed, torn, late, touchVars>>
  BY DEF MonthExpires
<1>2. Inv'
  BY <1>1, CatalogStep DEF TouchInv
<1>3. TapInv'
  BY <1>1 DEF TouchInv, TapInv, At
<1>4. PICK k \in Owner : /\ State(k) # None
                         /\ calendar' = [calendar EXCEPT ![k].expired = TRUE]
  BY DEF MonthExpires
<1>5. calendar \in [Owner -> {None} \cup Month] /\ calendar[k] \in Month
  BY <1>4 DEF TouchInv, TapTypes, MonthsInReach, State, Month
<1>6. PICK state : state = [calendar[k] EXCEPT !.expired = TRUE]
  OBVIOUS
<1>7. state \in Month
  BY <1>5, <1>6 DEF Month
<1>8. calendar' \in [Owner -> {None} \cup Month]
  BY <1>4, <1>5, <1>6, <1>7
<1> QED
  BY <1>1, <1>2, <1>3, <1>8 DEF TouchInv, FramesInv, TapTypes, MonthsInReach, ClaimInv, NewestKnown, touchVars, Month

\* The tablet tells what it shows.
LEMMA ReportStep ==
  ASSUME TouchInv, ReportDisplay
  PROVE  TouchInv'
<1>1. UNCHANGED <<tables, value, lock, task, failed, torn, late, kept, claims, claimed>>
  BY DEF ReportDisplay
<1>2. Inv'
  BY <1>1, CatalogStep DEF TouchInv, tables
<1>3. TapInv'
  BY <1>1 DEF TouchInv, TapInv, At, tables
<1>4. display' \in DOMAIN frames
  BY DEF ReportDisplay
<1> QED
  BY <1>1, <1>2, <1>3, <1>4 DEF TouchInv, FramesInv, TapTypes, MonthsInReach, ClaimInv, NewestKnown, tables

\* Among the frames that are known, those with fewer than Limit frames after them are
\* in the newest Limit.
LEMMA NewestRetained ==
  ASSUME TouchInv, NEW f \in kept, f > Len(frames) - Limit
  PROVE  f \in Newest(Limit)
<1>1. DOMAIN frames = 1..Len(frames) /\ Len(frames) \in Nat /\ kept \subseteq DOMAIN frames
  BY FrameAppended DEF TouchInv, TapTypes, MonthsInReach
<1>2. f \in Int /\ f <= Len(frames) /\ Limit \in Nat
  BY <1>1, TouchesAssumption
<1> DEFINE after == {g \in kept : g >= f}
<1>3. after \subseteq f..Len(frames)
  <2> SUFFICES ASSUME NEW g \in kept, g >= f PROVE g \in f..Len(frames)
    OBVIOUS
  <2>1. g \in 1..Len(frames)
    BY <1>1
  <2> QED
    BY <1>1, <1>2, <2>1
<1>4. IsFiniteSet(f..Len(frames)) /\ Cardinality(f..Len(frames)) = Len(frames) - f + 1
  <2>1. /\ IsFiniteSet(f..Len(frames))
        /\ Cardinality(f..Len(frames)) = IF f > Len(frames) THEN 0 ELSE Len(frames) - f + 1
    BY <1>1, <1>2, FS_Interval
  <2>2. ~(f > Len(frames))
    BY <1>1, <1>2
  <2> QED
    BY <2>1, <2>2
<1>5. Cardinality(after) \in Nat /\ Cardinality(after) <= Len(frames) - f + 1
  <2> HIDE DEF after
  <2> QED
    BY <1>3, <1>4, FS_Subset, FS_CardinalityType
<1>6. Cardinality(after) <= Limit
  BY <1>1, <1>2, <1>5
<1> QED
  BY <1>6 DEF Newest

\* Pruning forgets frames and their claims together.
LEMMA PruneStep ==
  ASSUME TouchInv, PruneFrameHistory
  PROVE  TouchInv'
<1>1. kept' = Retained /\ claims' = claims \cap Retained /\ UNCHANGED <<vars, display, claimed>>
  BY DEF PruneFrameHistory
<1>2. Retained \subseteq kept
  BY DEF Retained, Newest
<1>3. Inv'
  BY <1>1, CatalogStep DEF TouchInv, vars
<1>4. TapInv'
  BY <1>1 DEF TouchInv, TapInv, At, vars
<1>5. NewestKnown'
  BY <1>1, NewestRetained DEF TouchInv, NewestKnown, Retained, vars
<1>6. ClaimInv'
  BY <1>1, <1>2 DEF TouchInv, ClaimInv
<1>7. TapTypes' /\ MonthsInReach'
  BY <1>1, <1>2 DEF TouchInv, TapTypes, MonthsInReach, vars
<1> QED
  BY <1>1, <1>3, <1>4, <1>5, <1>6, <1>7 DEF TouchInv, FramesInv, vars

\* A restart forgets taps under way, claims stay.
LEMMA CrashAllStep ==
  ASSUME TouchInv, CrashAll
  PROVE  TouchInv'
<1>1. /\ UNCHANGED <<active, calendar, config, frames, value, late, touchVars>>
      /\ task' = [t \in Task |-> Idle]
  BY DEF CrashAll, Crash
<1>2. Inv'
  BY CrashStep DEF TouchInv, CrashAll
<1>3. Elsewhere
  BY <1>1 DEF Elsewhere, Idle
<1>4. TapInv'
  BY <1>1, <1>3, TapsKept DEF TouchInv
<1> QED
  BY <1>1, <1>2, <1>4 DEF TouchInv, FramesInv, TapTypes, MonthsInReach, ClaimInv, NewestKnown, touchVars

\* Every step keeps the invariant.
LEMMA TouchInvStep == TouchInv /\ [TouchNext]_allVars => TouchInv'
<1> SUFFICES ASSUME TouchInv, [TouchNext]_allVars PROVE TouchInv'
  OBVIOUS
<1>1. ASSUME NEW t \in Sessions, TouchStep(t) \/ \E f \in DOMAIN frames : TapCalendar(t, f)
      PROVE  TouchInv'
  BY <1>1, ClaimStep, GetStateStep, PutStateStep, TapStep DEF TouchStep
<1>2. CASE UNCHANGED allVars
  <2>1. UNCHANGED <<vars, touchVars>>
    BY <1>2 DEF allVars
  <2>2. Inv'
    BY <2>1, CatalogStep DEF TouchInv, vars
  <2> QED
    BY <2>1, <2>2 DEF TouchInv, FramesInv, TapInv, TapTypes, MonthsInReach, ClaimInv, NewestKnown, At, vars, touchVars
<1> QED
  BY <1>1, <1>2, ServiceStep, ExpireStep, MonthExpiresStep, ReportStep, PruneStep, CrashAllStep
     DEF TouchNext
-----------------------------------------------------------------------------
\* So the invariant always holds.
LEMMA TouchInvariant == TouchSpec => []TouchInv
BY TouchInitInv, TouchInvStep, PTL DEF TouchSpec

-----------------------------------------------------------------------------
(* Types *)

\* A tap keeps the frame it was made on, whose calendar it is and the button.
LEMMA TapTyped ==
  ASSUME TypeInv, NEW t \in Sessions, NEW f \in DOMAIN frames, TapCalendar(t, f)
  PROVE  TypeInv'
<1>1. /\ t \in Task /\ task[t].at = "idle" /\ f \in DesignFrame /\ Occurs("tap") /\ lock' = lock
      /\ UNCHANGED <<catalog, active, calendar, config, frames, value, failed, torn, late>>
  BY DEF TapCalendar, At, tables, Task
<1>2. RowsTyped'
  BY <1>1, OccursFacts, RowsKept DEF TypeInv, RowsTyped
<1>3. f \in Nat /\ frames[f].svg \in Design
  BY <1>1, DesignFrameFacts DEF TypeInv, RowsTyped, DesignFrames
<1>4. PICK owner \in Owner : owner = Key(frames[f].svg)
  BY <1>3, KeyOwner
<1>5. PICK b \in Buttons :
        Go(t, [at |-> "claim", frame |-> f, owner |-> owner, button |-> b])
  BY <1>4 DEF TapCalendar, Regions
<1>6. PICK place \in Place : place = [at |-> "claim", frame |-> f, owner |-> owner, button |-> b]
  BY <1>3, PlaceRecords
<1>7. place.at = "claim" /\ Go(t, place)
  BY <1>5, <1>6
<1> QED
  BY <1>1, <1>2, <1>7, TypedPlain

\* A claimed tap keeps whose calendar it is and the button.
LEMMA ClaimTyped ==
  ASSUME TypeInv, NEW t \in Sessions, Claim(t)
  PROVE  TypeInv'
<1>1. /\ t \in Task /\ task[t].at = "claim" /\ lock' = lock
      /\ UNCHANGED <<catalog, active, calendar, config, frames, value, requests, failed, torn, late>>
  BY DEF Claim, At, tables, history, Task
<1>2. RowsTyped'
  BY <1>1, RowsKept DEF TypeInv, RowsTyped
<1>3. PICK owner \in Owner, button \in Buttons : owner = task[t].owner /\ button = task[t].button
  BY <1>1, PlaceFields DEF TypeInv
<1>4. PICK place \in Place : place = [at |-> "state", owner |-> owner, button |-> button]
  BY PlaceRecords
<1>5. place.at = "state" /\ Idle \in Place /\ Idle.at = "idle"
  BY <1>4, PlaceRecords DEF Idle
<1>6. Go(t, Idle) \/ Go(t, place)
  BY <1>3, <1>4 DEF Claim
<1> QED
  BY <1>1, <1>2, <1>5, <1>6, TypedPlain

\* It then keeps the month it moves to.
LEMMA GetTyped ==
  ASSUME TypeInv, NEW t \in Sessions, GetWidgetState(t)
  PROVE  TypeInv'
<1>1. /\ t \in Task /\ task[t].at = "state" /\ lock' = lock
      /\ UNCHANGED <<catalog, active, calendar, config, frames, value, requests, failed, torn, late>>
  BY DEF GetWidgetState, At, tables, history, Task
<1>2. RowsTyped'
  BY <1>1, RowsKept DEF TypeInv, RowsTyped
<1>3. PICK owner \in Owner, button \in Buttons : owner = task[t].owner /\ button = task[t].button
  BY <1>1, PlaceFields DEF TypeInv
<1>4. State(owner) \in Month \cup {None}
  BY <1>3 DEF TypeInv, RowsTyped, State
<1>5. PICK month \in Month : month = Moved(State(owner), button)
  BY <1>4, MovedFacts
<1>6. PICK place \in Place : place = [at |-> "put", owner |-> owner, month |-> month]
  BY PlaceRecords
<1>7. place.at = "put"
  BY <1>6
<1>8. Go(t, place)
  BY <1>3, <1>5, <1>6 DEF GetWidgetState
<1> QED
  BY <1>1, <1>2, <1>7, <1>8, TypedPlain

\* The month that is stored is one of the calendar's.
LEMMA PutTyped ==
  ASSUME TypeInv, NEW t \in Sessions, PutWidgetState(t)
  PROVE  TypeInv'
<1>1. /\ t \in Task /\ task[t].at = "put" /\ lock' = lock /\ Go(t, Rendering(TRUE))
      /\ calendar' = [calendar EXCEPT ![task[t].owner] = task[t].month]
      /\ UNCHANGED <<catalog, active, config, frames, value, requests, failed, torn, late>>
  BY DEF PutWidgetState, At, history, Task
<1>2. task[t].month \in Month
  BY <1>1, PlaceFields DEF TypeInv
<1>3. RowsTyped'
  BY <1>1, <1>2 DEF TypeInv, RowsTyped
<1>4. Rendering(TRUE) \in Place /\ Rendering(TRUE).at = "render"
  BY PlaceRecords DEF Rendering
<1> QED
  BY <1>1, <1>3, <1>4, TypedPlain

\* The render that deletes a month goes on.
LEMMA ExpireTyped ==
  ASSUME TypeInv, NEW t \in Task, Expire(t)
  PROVE  TypeInv'
<1>1. /\ task[t].at = "expire" /\ calendar' = [calendar EXCEPT ![Key(task[t].row.design)] = None]
      /\ UNCHANGED <<catalog, active, config, frames, value, requests, failed, torn, late>>
  BY DEF Expire, At, history
<1>2. RowsTyped'
  BY <1>1 DEF TypeInv, RowsTyped
<1>3. PICK force \in BOOLEAN, row \in Row, view \in Views :
        force = task[t].force /\ row = task[t].row /\ view = task[t].view
  BY <1>1, PlaceFields DEF TypeInv
<1>4. Decide(t, force, row, view)
  BY <1>3 DEF Expire
<1> QED
  BY <1>1, <1>2, <1>4, DecideTypes

\* Months run out, statuses arrive and frames are pruned while goroutines stay where
\* they are.
LEMMA AsideTyped ==
  ASSUME TypeInv, MonthExpires \/ ReportDisplay \/ PruneFrameHistory
  PROVE  TypeInv'
<1>1. /\ task' = task /\ lock' = lock
      /\ UNCHANGED <<catalog, active, config, frames, value, failed, torn, late>>
  BY DEF MonthExpires, ReportDisplay, PruneFrameHistory, tables, vars
<1>2. calendar' \in [Owner -> Month \cup {None}]
  <2>1. CASE calendar' = calendar
    BY <2>1 DEF TypeInv, RowsTyped
  <2>2. CASE MonthExpires
    <3>1. PICK k \in Owner : /\ State(k) # None
                             /\ calendar' = [calendar EXCEPT ![k].expired = TRUE]
      BY <2>2 DEF MonthExpires
    <3>2. calendar[k] \in Month
      BY <3>1 DEF TypeInv, RowsTyped, State
    <3>3. PICK month : month = [calendar[k] EXCEPT !.expired = TRUE]
      OBVIOUS
    <3>4. month \in Month
      BY <3>2, <3>3 DEF Month
    <3>5. calendar' = [calendar EXCEPT ![k] = month]
      BY <3>1, <3>3
    <3> QED
      BY <3>4, <3>5 DEF TypeInv, RowsTyped
  <2> QED
    BY <2>1, <2>2 DEF ReportDisplay, PruneFrameHistory, tables, vars
<1>3. requests' \in 0..MaxRequests
  BY OccursFacts DEF TypeInv, RowsTyped, MonthExpires, ReportDisplay, PruneFrameHistory, vars
<1>4. RowsTyped'
  BY <1>1, <1>2, <1>3 DEF TypeInv, RowsTyped
<1> QED
  BY <1>1, <1>4 DEF TypeInv, Locked, Holding

\* The steps of the service and restarts are those of Designs.
LEMMA ServiceNext == Service \/ CrashAll => Next
BY DEF Service, CrashAll, Next

\* A step is one of Designs, or of a tap, a month, a status or retention.
LEMMA TouchSteps ==
  ASSUME [TouchNext]_allVars
  PROVE  \/ [Next]_vars /\ (Service \/ CrashAll \/ UNCHANGED allVars)
         \/ \E t \in Sessions, f \in DOMAIN frames : TapCalendar(t, f)
         \/ \E t \in Sessions : Claim(t) \/ GetWidgetState(t) \/ PutWidgetState(t)
         \/ \E t \in Task : Expire(t)
         \/ MonthExpires \/ ReportDisplay \/ PruneFrameHistory
<1>1. CASE UNCHANGED allVars
  <2>1. UNCHANGED vars
    BY <1>1 DEF allVars
  <2> QED
    BY <1>1, <2>1
<1>2. CASE TouchNext
  BY <1>2, ServiceNext DEF TouchNext, TouchStep
<1> QED
  BY <1>1, <1>2

\* Every step keeps the types of the design service.
LEMMA TouchTypesStep == TypeInv /\ [TouchNext]_allVars => TypeInv'
<1> SUFFICES ASSUME TypeInv, [TouchNext]_allVars PROVE TypeInv'
  OBVIOUS
<1>1. CASE [Next]_vars
  BY <1>1, NextTypes
<1> QED
  BY <1>1, TouchSteps, TapTyped, ClaimTyped, GetTyped, PutTyped, ExpireTyped, AsideTyped

\* So types always hold.
LEMMA TypedInvariant == TouchSpec => [](TouchInv /\ TypeInv)
<1>1. TouchInit => TypeInv
  BY InitTypes DEF TouchInit
<1>2. TypeInv /\ [TouchNext]_allVars => TypeInv'
  BY TouchTypesStep
<1> QED
  BY <1>1, <1>2, TouchInvariant, PTL DEF TouchSpec

\* The types of the design service and of what taps and retention keep: the lock is
\* held exactly inside Render, there is no claim or display of a frame that never was,
\* and no month out of reach, whatever is tapped.
THEOREM TouchTypes == TouchSpec => []TouchTypeOK
<1>1. TouchInv /\ TypeInv => TouchTypeOK
  BY TypesFollow DEF TouchInv, TouchTypeOK
<1> QED
  BY TypedInvariant, <1>1, PTL

-----------------------------------------------------------------------------
(* Claims and retention *)

\* However often the same picture is tapped, on however many connections, its
\* calendar moves once as long as the frame is known.
THEOREM TapOnceAlways == TouchSpec => []TapOnce
<1>1. TouchInv => TapOnce
  BY DEF TouchInv, ClaimInv, TapOnce
<1> QED
  BY TouchInvariant, <1>1, PTL

\* The last Limit frames that were queued are known: retention, which counts only
\* the frames that are left, never prunes one of them, however it interleaves with
\* renders, reports of an old frame and restarts.
THEOREM NewestKnownAlways == TouchSpec => []NewestKnown
<1>1. TouchInv => NewestKnown
  BY DEF TouchInv
<1> QED
  BY TouchInvariant, <1>1, PTL

\* No step forgets one of the newest frames that are known, or the displayed frame
\* while it is displayed and known.
THEOREM RetentionKeepsAlways == TouchSpec => RetentionKeeps
<1> DEFINE Keeps == /\ Newest(Limit) \subseteq kept'
                    /\ display \in kept /\ display' = display => display \in kept'
<1>1. TouchInv /\ [TouchNext]_allVars => [Keeps]_allVars
  <2> SUFFICES ASSUME [TouchNext]_allVars PROVE [Keeps]_allVars
    OBVIOUS
  <2>1. Newest(Limit) \subseteq kept
    BY DEF Newest
  <2>2. CASE PruneFrameHistory
    BY <2>2 DEF PruneFrameHistory, Retained
  <2>3. CASE kept \subseteq kept'
    BY <2>1, <2>3
  <2>4. CASE UNCHANGED allVars
    BY <2>4
  <2>5. ASSUME NEW t \in Sessions, TouchStep(t) \/ \E f \in DOMAIN frames : TapCalendar(t, f)
        PROVE  kept \subseteq kept'
    BY <2>5 DEF TouchStep, Claim, GetWidgetState, PutWidgetState, TapCalendar, touchVars
  <2>6. ASSUME NEW t \in Task, Expire(t) PROVE kept \subseteq kept'
    BY <2>6 DEF Expire, touchVars
  <2>7. Service \/ MonthExpires \/ ReportDisplay \/ CrashAll => kept \subseteq kept'
    BY DEF Service, Queued, MonthExpires, ReportDisplay, CrashAll, touchVars
  <2> QED
    BY <2>2, <2>3, <2>4, <2>5, <2>6, <2>7 DEF TouchNext
<1> QED
  BY TouchInvariant, <1>1, PTL DEF TouchSpec, RetentionKeeps

\* What was proved of the design service without taps holds with them: one frame at
\* most after a clear, and the directory in the catalogue between reloads.
THEOREM ServiceWithTaps == TouchSpec => [](StopsAfterClear /\ ReloadRestores)
<1>1. TouchInv => StopsAfterClear /\ ReloadRestores
  BY DEF TouchInv, Inv, LateInv, ReloadInv, StopsAfterClear, ReloadRestores
<1> QED
  BY TouchInvariant, <1>1, PTL

-----------------------------------------------------------------------------
(* The frames of the design service, with taps *)

\* Taps that do not store a month, months that run out, statuses and retention leave
\* alone what a render depends on, but for the month.
LEMMA TapsAside ==
  ASSUME TypeInv,
         \/ \E t \in Sessions, f \in DOMAIN frames : TapCalendar(t, f)
         \/ \E t \in Sessions : Claim(t) \/ GetWidgetState(t)
         \/ MonthExpires \/ ReportDisplay \/ PruneFrameHistory
  PROVE  Aside /\ UNCHANGED <<active, frames, value>>
<1>1. value \in Nat /\ value <= value
  BY DesignsAssumption DEF TypeInv, RowsTyped
<1>2. ASSUME NEW t \in Sessions, NEW f \in DOMAIN frames, TapCalendar(t, f)
      PROVE  Aside /\ UNCHANGED <<active, frames, value>>
  <2>1. /\ t \in Task /\ task[t].at = "idle"
        /\ UNCHANGED <<active, config, frames, value, failed>>
    BY <1>2 DEF TapCalendar, At, tables, Task
  <2>2. PICK b : Go(t, [at |-> "claim", frame |-> f, owner |-> Key(frames[f].svg), button |-> b])
    BY <1>2 DEF TapCalendar
  <2>3. PICK place : place = [at |-> "claim", frame |-> f, owner |-> Key(frames[f].svg), button |-> b]
    OBVIOUS
  <2>4. place.at = "claim" /\ Go(t, place)
    BY <2>2, <2>3
  <2> QED
    BY <1>1, <2>1, <2>4, AsideMove
<1>3. ASSUME NEW t \in Sessions, Claim(t) \/ GetWidgetState(t)
      PROVE  Aside /\ UNCHANGED <<active, frames, value>>
  <2>1. /\ t \in Task /\ task[t].at \in {"claim", "state"}
        /\ UNCHANGED <<active, config, frames, value, failed>>
    BY <1>3 DEF Claim, GetWidgetState, At, tables, history, touchVars, Task
  <2>2. PICK place : Go(t, place) /\ place.at \in {"idle", "state", "put"}
    BY <1>3 DEF Claim, GetWidgetState, Idle
  <2> QED
    BY <1>1, <2>1, <2>2, AsideMove
<1>4. CASE MonthExpires \/ ReportDisplay \/ PruneFrameHistory
  <2>1. UNCHANGED <<task, active, config, frames, value, failed>>
    BY <1>4 DEF MonthExpires, ReportDisplay, PruneFrameHistory, tables, vars
  <2> QED
    BY <1>1, <2>1 DEF Aside
<1> QED
  BY <1>2, <1>3, <1>4

\* The render that deletes a month goes on with what it read, or has nothing to draw.
LEMMA ExpireEffect ==
  ASSUME TypeInv, NEW t \in Task, Expire(t)
  PROVE  /\ task[t].at = "expire" /\ UNCHANGED <<active, config, frames, value, failed>>
         /\ calendar' = [calendar EXCEPT ![Key(task[t].row.design)] = None]
         /\ task[t].row \in Row /\ task[t].view \in Views
         /\ \A u \in Task : u # t => task'[u] = task[u] /\ ~Holding(u)
         /\ \/ /\ task'[t].at = "queue"
               /\ task'[t].row = task[t].row /\ task'[t].view = task[t].view
            \/ /\ task'[t].at = "idle" /\ ~task[t].force
               /\ ValuesHash(task[t].view, task[t].row.deps) = task[t].row.hash
<1>1. /\ task[t].at = "expire" /\ UNCHANGED <<active, config, frames, value, failed>>
      /\ calendar' = [calendar EXCEPT ![Key(task[t].row.design)] = None]
  BY DEF Expire, At, history
<1>2. PICK force \in BOOLEAN, row \in Row, view \in Views :
        force = task[t].force /\ row = task[t].row /\ view = task[t].view
  BY <1>1, PlaceFields DEF TypeInv
<1>3. PICK place : place = [at |-> "queue", row |-> row, view |-> view]
  OBVIOUS
<1>4. place.at = "queue" /\ place.row = row /\ place.view = view /\ Idle.at = "idle"
  BY <1>3 DEF Idle
<1>5. \/ Go(t, place)
      \/ Go(t, Idle) /\ ~force /\ ValuesHash(view, row.deps) = row.hash
  BY <1>2, <1>3 DEF Expire, Decide, Suppressed
<1>6. \A u \in Task : u # t => task'[u] = task[u] /\ ~Holding(u)
  BY <1>1, <1>5 DEF Go, TypeInv, Locked, Holding
<1>7. task'[t] = place \/ (task'[t] = Idle /\ ~force /\ ValuesHash(view, row.deps) = row.hash)
  BY <1>5 DEF Go, TypeInv
<1> QED
  BY <1>1, <1>2, <1>4, <1>6, <1>7

\* Every step keeps the frames in the order of their values.
LEMMA TouchForwardStep == TypeInv /\ ForwardInv /\ [TouchNext]_allVars => ForwardInv'
<1> SUFFICES ASSUME TypeInv, ForwardInv, [TouchNext]_allVars PROVE ForwardInv'
  OBVIOUS
<1>1. value \in Nat /\ value <= value
  BY DesignsAssumption DEF TypeInv, RowsTyped
<1>2. CASE [Next]_vars
  BY <1>2, ForwardStep
<1>3. CASE Aside /\ value' = value /\ frames' = frames
  <2>1. \A u \in Task : Reads(u)' => Reads(u) /\ task'[u].view = task[u].view
    BY <1>3 DEF Aside, Reads
  <2> QED
    BY <1>1, <1>3, <2>1, ForwardKept
<1>4. ASSUME NEW t \in Sessions, PutWidgetState(t)
      PROVE  ForwardInv'
  <2>1. /\ t \in Task /\ Go(t, Rendering(TRUE)) /\ Rendering(TRUE).at = "render"
        /\ UNCHANGED <<frames, value>>
    BY <1>4 DEF PutWidgetState, Rendering, Task
  <2>2. \A u \in Task : Reads(u)' => Reads(u) /\ task'[u].view = task[u].view
    BY <2>1 DEF Go, TypeInv, Reads
  <2> QED
    BY <1>1, <2>1, <2>2, ForwardKept
<1>5. ASSUME NEW t \in Task, Expire(t)
      PROVE  ForwardInv'
  <2>1. \A u \in Task : Reads(u)' => Reads(u) /\ task'[u].view = task[u].view
    BY <1>5, ExpireEffect DEF Reads
  <2>2. UNCHANGED <<frames, value>>
    BY <1>5, ExpireEffect
  <2> QED
    BY <1>1, <2>1, <2>2, ForwardKept
<1> QED
  BY <1>2, <1>3, <1>4, <1>5, TouchSteps, TapsAside

\* What was asked for stays shown or due when a month is deleted.
LEMMA QuietExpire ==
  ASSUME TypeInv, QuietInv, NEW t \in Task, Expire(t)
  PROVE  QuietInv'
<1>1. /\ task[t].at = "expire" /\ UNCHANGED <<active, config, frames, value, failed>>
      /\ \A u \in Task : u # t => task'[u] = task[u] /\ ~Holding(u)
      /\ \/ /\ task'[t].at = "queue"
            /\ task'[t].row = task[t].row /\ task'[t].view = task[t].view
         \/ task'[t].at = "idle" /\ ~task[t].force
  BY ExpireEffect
<1>2. Forced => Forced'
  BY <1>1 DEF Forced, At
<1>3. ASSUME NEW u \in Task
      PROVE  RowCurrent(u)' /\ ConfigCurrent(u)' /\ JustQueued(u)'
  <2>1. CASE u # t
    <3>1. ~Holding(u)' /\ task'[u].at \notin {"expire", "queue", "stamp"}
      BY <1>1, <2>1 DEF Holding
    <3> QED
      BY <3>1 DEF RowCurrent, ConfigCurrent, JustQueued, At
  <2>2. CASE u = t
    <3>1. RowCurrent(t)'
      BY <1>1, <1>2 DEF RowCurrent, QuietInv, Holding
    <3>2. ConfigCurrent(t)'
      BY <1>1, <1>2 DEF ConfigCurrent, QuietInv, Key
    <3>3. ~At(t, "stamp")'
      BY <1>1 DEF At
    <3> QED
      BY <2>2, <3>1, <3>2, <3>3 DEF JustQueued
  <2> QED
    BY <2>1, <2>2
<1>4. ShownOrDue'
  <2> SUFFICES ASSUME active # None, ~failed
               PROVE  (\E n \in DesignFrame' : Shows(n)') \/ \E u \in Task : Due(u)'
    BY <1>1 DEF ShownOrDue
  <2>1. CASE \E n \in DesignFrame : Shows(n)
    BY <1>1, <2>1, ShowsKept DEF TypeInv, RowsTyped
  <2>2. ASSUME NEW u \in Task, Due(u)
        PROVE  Due(u)'
    <3>1. CASE u = t
      BY <1>1, <2>2, <3>1 DEF Due
    <3>2. CASE u # t
      BY <1>1, <2>2, <3>2 DEF Due
    <3> QED
      BY <3>1, <3>2
  <2> QED
    BY <2>1, <2>2 DEF QuietInv, ShownOrDue
<1> QED
  BY <1>3, <1>4 DEF QuietInv

\* Every step keeps what was asked for shown or due.
LEMMA TouchQuietStep == TypeInv /\ QuietInv /\ [TouchNext]_allVars => QuietInv'
<1> SUFFICES ASSUME TypeInv, QuietInv, [TouchNext]_allVars PROVE QuietInv'
  OBVIOUS
<1>1. CASE [Next]_vars
  BY <1>1, QuietStep
<1>2. ASSUME NEW t \in Sessions, PutWidgetState(t)
      PROVE  QuietInv'
  BY <1>2, QuietForced DEF PutWidgetState, Task
<1> QED
  BY <1>1, <1>2, TouchSteps, TapsAside, QuietAside, QuietExpire

\* With taps as well, the values on the frames go forward, and what was asked for is
\* shown when all is done.
THEOREM FramesWithTaps == TouchSpec => [](ValuesForward /\ QuietShowsActive)
<1>1. TouchInit => ForwardInv /\ QuietInv
  BY InitForward, InitQuiet DEF TouchInit
<1>2. TypeInv /\ ForwardInv /\ QuietInv /\ [TouchNext]_allVars => ForwardInv' /\ QuietInv'
  BY TouchForwardStep, TouchQuietStep
<1>3. TypeInv /\ ForwardInv /\ QuietInv => ValuesForward /\ QuietShowsActive
  BY QuietFollows DEF ForwardInv
<1> QED
  BY TypedInvariant, <1>1, <1>2, <1>3, PTL DEF TouchSpec

-----------------------------------------------------------------------------
(* The month on the screen *)

\* The month a render of a design with widget states "k" would draw.
MonthOf(k) == IF State(k) = None \/ Expired(k) THEN None ELSE State(k).offset

\* A connection that stored a month waits to render it; nobody cancels it.
TapForced == \E u \in Sessions : At(u, "render") /\ task[u].force

\* The row a render started from is the tablet's, or another render waits.
RowSame(t) ==
  task[t].at \in {"load", "expire", "queue"} /\ active # None /\ task[t].row # active =>
    failed \/ Forced

\* What is drawn is the month that is stored, or a tap's render waits.
MonthRead(t) ==
  /\ At(t, "expire") => task[t].view.offset = None
  /\ task[t].at \in {"queue", "stamp"} =>
       \/ task[t].view.offset = MonthOf(Key(task[t].row.design))
       \/ Expired(Key(task[t].row.design)) \/ TapForced

MonthShownOrDue ==
  active # None /\ ~failed /\ active.design \in Navigable /\ ~Expired(Key(active.design)) =>
    \/ \E n \in DesignFrame : IsNewest(n) /\ frames[n].offset = MonthOf(Key(active.design))
    \/ \E t \in Task : Due(t)

MonthInv == (\A t \in Task : RowSame(t) /\ MonthRead(t)) /\ MonthShownOrDue

\* A view has the month that is stored.
LEMMA ViewMonth == ASSUME NEW d PROVE View(d).offset = MonthOf(Key(d))
BY DEF View, MonthOf

\* At the start there is no active design.
LEMMA InitMonth == Init => MonthInv
<1> SUFFICES ASSUME Init PROVE MonthInv
  OBVIOUS
<1>1. \A t \in Task : task[t].at \in {"enrolled", "idle"}
  BY DEF Init, Idle
<1>2. active = None
  BY DEF Init
<1> QED
  BY <1>1, <1>2 DEF MonthInv, RowSame, MonthRead, MonthShownOrDue, At

\* Months that are not stored anew stay, or run out.
MonthsStay == \A k : Expired(k)' \/ (~Expired(k) /\ MonthOf(k)' = MonthOf(k))

\* A calendar that is not written stays.
LEMMA SameMonths == calendar' = calendar => MonthsStay
BY DEF MonthsStay, MonthOf, State, Expired

\* Time that goes by only lets months run out.
LEMMA ExpiringMonths ==
  ASSUME TypeInv, MonthExpires
  PROVE  MonthsStay
<1>1. PICK k \in Owner : /\ State(k) # None /\ calendar' = [calendar EXCEPT ![k].expired = TRUE]
  BY DEF MonthExpires
<1>2. calendar \in [Owner -> Month \cup {None}] /\ calendar[k] \in Month
  BY <1>1 DEF TypeInv, RowsTyped, State
<1>3. PICK month : month = [calendar[k] EXCEPT !.expired = TRUE]
  OBVIOUS
<1>4. month \in Month /\ month.expired = TRUE
  BY <1>2, <1>3 DEF Month
<1>5. calendar' = [calendar EXCEPT ![k] = month]
  BY <1>1, <1>3
<1>6. month # None
  BY <1>4, DesignsAssumption
<1>7. Expired(k)'
  BY <1>2, <1>4, <1>5, <1>6 DEF Expired, State
<1>8. \A j : j # k => calendar'[j] = calendar[j]
  BY <1>2, <1>5
<1>9. \A j : j # k => (Expired(j)' <=> Expired(j)) /\ MonthOf(j)' = MonthOf(j)
  BY <1>8 DEF MonthOf, State, Expired
<1> QED
  BY <1>7, <1>9 DEF MonthsStay

\* A month that was shown stays shown while the design and the frames of designs stay.
LEMMA MonthKeptShown ==
  ASSUME frames \in Seq(AnyFrame), frames' = frames \/ frames' = Append(frames, [svg |-> Picture]),
         MonthsStay, active' = active, ~Expired(Key(active.design))',
         NEW n \in DesignFrame, IsNewest(n), frames[n].offset = MonthOf(Key(active.design))
  PROVE  \E m \in DesignFrame' : IsNewest(m)' /\ frames'[m].offset = MonthOf(Key(active.design))'
<1>1. n \in DesignFrame' /\ frames'[n] = frames[n] /\ IsNewest(n)'
  BY NewestKept
<1>2. PICK k : k = Key(active.design)
  OBVIOUS
<1>3. Key(active.design)' = k
  BY <1>2 DEF Key
<1>4. ~Expired(k)'
  BY <1>3 DEF Expired, State
<1>5. MonthOf(k)' = MonthOf(k)
  BY <1>4 DEF MonthsStay
<1>6. MonthOf(Key(active.design))' = MonthOf(k)'
  BY <1>3 DEF MonthOf, Expired, State
<1> QED
  BY <1>1, <1>2, <1>5, <1>6

\* Before a month that is drawn it was not expired if it is not now.
LEMMA NotExpired ==
  ASSUME MonthsStay, active' = active, ~Expired(Key(active.design))'
  PROVE  ~Expired(Key(active.design))
<1>1. PICK k : k = Key(active.design)
  OBVIOUS
<1>2. Key(active.design)' = k
  BY <1>1 DEF Key
<1>3. ~Expired(k)'
  BY <1>2 DEF Expired, State
<1> QED
  BY <1>1, <1>3 DEF MonthsStay

\* A render that stays where it is still draws the month that is stored.
LEMMA MonthReadKept ==
  ASSUME NEW t \in Task, MonthRead(t), MonthsStay, task'[t] = task[t], TapForced => TapForced'
  PROVE  MonthRead(t)'
<1>1. PICK k : k = Key(task[t].row.design)
  OBVIOUS
<1>2. Key(task[t].row.design)' = k
  BY <1>1 DEF Key
<1>3. MonthOf(Key(task[t].row.design))' = MonthOf(k)' /\ Expired(Key(task[t].row.design))' = Expired(k)'
  BY <1>2 DEF MonthOf, Expired, State
<1>4. Expired(k)' \/ (~Expired(k) /\ MonthOf(k)' = MonthOf(k))
  BY DEF MonthsStay
<1>5. At(t, "expire")' => task'[t].view.offset = None
  BY DEF MonthRead, At
<1>6. ASSUME task'[t].at \in {"queue", "stamp"}
      PROVE  task'[t].view.offset = MonthOf(k)' \/ Expired(k)' \/ TapForced'
  BY <1>1, <1>4, <1>6 DEF MonthRead
<1> QED
  BY <1>3, <1>5, <1>6 DEF MonthRead

\* Steps that break off something, or that leave a render alone.
LEMMA MonthAside ==
  ASSUME TypeInv, MonthInv, MonthsStay, Breaks \/ Aside
  PROVE  MonthInv'
<1>1. frames \in Seq(AnyFrame)
  BY DEF TypeInv, RowsTyped
<1>2. CASE Breaks
  <2>1. MonthShownOrDue' /\ \A t \in Task : RowSame(t)'
    BY <1>2 DEF Breaks, MonthShownOrDue, RowSame
  <2>2. ASSUME NEW t \in Task
        PROVE  MonthRead(t)'
    <3>1. CASE task'[t].at \notin {"expire", "queue", "stamp"}
      BY <3>1 DEF MonthRead, At
    <3>2. CASE task'[t].at \in {"expire", "queue", "stamp"}
      <4>1. task'[t] = task[t] /\ Holding(t)'
        BY <1>2, <3>2 DEF Breaks, Holding
      <4>2. \A u \in Sessions : task'[u] = task[u]
        BY <1>2, <4>1 DEF Breaks
      <4>3. TapForced => TapForced'
        BY <4>2 DEF TapForced, At
      <4> QED
        BY <4>1, <4>3, MonthReadKept DEF MonthInv
    <3> QED
      BY <3>1, <3>2
  <2> QED
    BY <2>1, <2>2 DEF MonthInv
<1>3. CASE Aside
  <2>1. /\ failed' = failed /\ active' \in {active, None}
        /\ frames' = frames \/ frames' = Append(frames, [svg |-> Picture])
    BY <1>3 DEF Aside
  <2>2. \A u \in Task : task[u].at \in {"render", "load", "expire", "queue", "stamp"} =>
          task'[u] = task[u]
    BY <1>3 DEF Aside
  <2>3. \A u \in Task : task'[u].at \in {"load", "expire", "queue", "stamp"} => task'[u] = task[u]
    BY <1>3 DEF Aside
  <2>4. (Forced => Forced') /\ (TapForced => TapForced')
    BY <2>2 DEF Forced, TapForced, At, Task
  <2>5. ASSUME NEW t \in Task
        PROVE  RowSame(t)' /\ MonthRead(t)'
    <3>1. RowSame(t)'
      BY <2>1, <2>3, <2>4 DEF RowSame, MonthInv
    <3>2. CASE task'[t].at \notin {"expire", "queue", "stamp"}
      BY <3>1, <3>2 DEF MonthRead, At
    <3>3. CASE task'[t].at \in {"expire", "queue", "stamp"}
      BY <2>3, <2>4, <3>1, <3>3, MonthReadKept DEF MonthInv
    <3> QED
      BY <3>2, <3>3
  <2>6. MonthShownOrDue'
    <3> SUFFICES ASSUME active' # None, ~failed', active'.design \in Navigable,
                        ~Expired(Key(active.design))'
                 PROVE  \/ \E n \in DesignFrame' :
                             IsNewest(n)' /\ frames'[n].offset = MonthOf(Key(active.design))'
                        \/ \E t \in Task : Due(t)'
      BY DEF MonthShownOrDue
    <3>1. active' = active /\ active # None /\ ~failed
      BY <2>1
    <3>2. ~Expired(Key(active.design))
      BY <3>1, NotExpired
    <3>3. CASE \E n \in DesignFrame : IsNewest(n) /\ frames[n].offset = MonthOf(Key(active.design))
      BY <1>1, <2>1, <3>1, <3>3, MonthKeptShown
    <3>4. CASE \E t \in Task : Due(t)
      BY <2>2, <3>4 DEF Due
    <3> QED
      BY <3>1, <3>2, <3>3, <3>4 DEF MonthInv, MonthShownOrDue
  <2> QED
    BY <2>5, <2>6 DEF MonthInv
<1> QED
  BY <1>2, <1>3

\* A step after which a forced render waits.
LEMMA MonthForced ==
  ASSUME TypeInv, MonthInv, NEW t \in Task, Go(t, Rendering(TRUE)),
         t \in Sessions \/ (calendar' = calendar /\ task[t].at # "render")
  PROVE  MonthInv'
<1>1. /\ task'[t].at = "render" /\ task'[t].force = TRUE
      /\ \A u \in Task : u # t => task'[u] = task[u]
  BY DEF Go, TypeInv, Rendering
<1>2. Forced' /\ Due(t)'
  BY <1>1 DEF Forced, At, Due
<1>3. \A u \in Task : RowSame(u)'
  BY <1>2 DEF RowSame
<1>4. MonthShownOrDue'
  BY <1>2 DEF MonthShownOrDue
<1>5. ASSUME NEW u \in Task
      PROVE  MonthRead(u)'
  <2>1. CASE u = t
    BY <1>1, <2>1 DEF MonthRead, At
  <2>2. CASE u # t /\ t \in Sessions
    <3>1. TapForced'
      BY <1>1, <2>2 DEF TapForced, At
    <3> QED
      BY <1>1, <2>2, <3>1 DEF MonthInv, MonthRead, At
  <2>3. CASE u # t /\ calendar' = calendar /\ task[t].at # "render"
    <3>1. TapForced => TapForced'
      BY <1>1, <2>3 DEF TapForced, At, Task
    <3> QED
      BY <1>1, <2>3, <3>1, SameMonths, MonthReadKept DEF MonthInv
  <2> QED
    BY <2>1, <2>2, <2>3
<1> QED
  BY <1>3, <1>4, <1>5 DEF MonthInv

\* The lock is given to one goroutine, with the row of now.
LEMMA MonthAcquire ==
  ASSUME TypeInv, MonthInv, NEW t \in Task, Acquire(t)
  PROVE  MonthInv'
<1>1. /\ task[t].at = "render" /\ lock = None
      /\ UNCHANGED <<active, calendar, frames, failed>>
  BY DEF Acquire, At, tables, history
<1>2. \A u \in Task : ~Holding(u)
  BY <1>1, DesignsAssumption DEF TypeInv, Locked
<1>3. PICK place : place = [at |-> "load", force |-> task[t].force, row |-> active]
  OBVIOUS
<1>4. place.at = "load" /\ place.force = task[t].force /\ place.row = active /\ Idle.at = "idle"
  BY <1>3 DEF Idle
<1>5. Go(t, IF active = None THEN Idle ELSE place)
  BY <1>3 DEF Acquire
<1>6. /\ task'[t] = IF active = None THEN Idle ELSE place
      /\ \A u \in Task : u # t => task'[u] = task[u] /\ ~Holding(u)
  BY <1>2, <1>5 DEF Go, TypeInv
<1>7. \A u \in Task : RowSame(u)' /\ MonthRead(u)'
  <2> TAKE u \in Task
  <2>1. task'[u].at \notin {"expire", "queue", "stamp"}
    BY <1>4, <1>6 DEF Holding
  <2>2. task'[u].at = "load" => u = t /\ task'[u].row = active
    BY <1>4, <1>6 DEF Holding
  <2>3. RowSame(u)'
    BY <1>1, <2>1, <2>2 DEF RowSame
  <2> QED
    BY <2>1, <2>3 DEF MonthRead, At
<1>8. MonthShownOrDue'
  <2> SUFFICES ASSUME active' # None, ~failed', active'.design \in Navigable,
                      ~Expired(Key(active.design))'
               PROVE  \/ \E n \in DesignFrame' :
                           IsNewest(n)' /\ frames'[n].offset = MonthOf(Key(active.design))'
                      \/ \E u \in Task : Due(u)'
    BY DEF MonthShownOrDue
  <2>1. MonthsStay /\ ~Expired(Key(active.design))
    BY <1>1, SameMonths, NotExpired
  <2>2. CASE \E n \in DesignFrame : IsNewest(n) /\ frames[n].offset = MonthOf(Key(active.design))
    BY <1>1, <2>1, <2>2, MonthKeptShown DEF TypeInv, RowsTyped
  <2>3. ASSUME NEW u \in Task, Due(u)
        PROVE  Due(u)'
    <3>1. CASE u = t
      BY <1>1, <1>4, <1>6, <2>3, <3>1 DEF Due
    <3>2. CASE u # t
      BY <1>6, <2>3, <3>2 DEF Due
    <3> QED
      BY <3>1, <3>2
  <2> QED
    BY <1>1, <2>1, <2>2, <2>3 DEF MonthInv, MonthShownOrDue
<1> QED
  BY <1>7, <1>8 DEF MonthInv

\* The month that is read is the one that is stored, and none if it has run out.
LEMMA MonthLoad ==
  ASSUME TypeInv, MonthInv, NEW t \in Task, Load(t)
  PROVE  MonthInv'
<1>1. task[t].at = "load" /\ UNCHANGED <<active, calendar, frames, failed>>
  BY DEF Load, At, tables, history
<1>2. \A u \in Task : u # t => ~Holding(u)
  BY <1>1 DEF TypeInv, Locked, Holding
<1>3. PICK row, force : row \in Row /\ row = task[t].row /\ force = task[t].force
  BY <1>1, PlaceFields DEF TypeInv
<1>4. PICK view, k : view = View(row.design) /\ k = Key(row.design)
  OBVIOUS
<1>5. view.offset = MonthOf(k)
  BY <1>4, ViewMonth
<1>6. PICK expire, queue :
        /\ expire = [at |-> "expire", force |-> force, row |-> row, view |-> view]
        /\ queue = [at |-> "queue", row |-> row, view |-> view]
  OBVIOUS
<1>7. /\ expire.at = "expire" /\ expire.force = force /\ expire.row = row /\ expire.view = view
      /\ queue.at = "queue" /\ queue.row = row /\ queue.view = view
      /\ Idle.at = "idle"
  BY <1>6 DEF Idle
<1>8. (Go(t, expire) /\ Expired(k)) \/ Go(t, queue) \/ (Go(t, Idle) /\ ~force)
  BY <1>3, <1>4, <1>6 DEF Load, Decide, Suppressed
<1>9. \A u \in Task : u # t => task'[u] = task[u]
  BY <1>8 DEF Go, TypeInv
<1>10. \/ task'[t] = expire /\ Expired(k)
       \/ task'[t] = queue
       \/ task'[t].at = "idle" /\ ~force
  BY <1>7, <1>8 DEF Go, TypeInv
<1>11. Forced => Forced'
  BY <1>1, <1>9 DEF Forced, At
<1>12. ASSUME NEW u \in Task
       PROVE  RowSame(u)' /\ MonthRead(u)'
  <2>1. CASE u # t
    <3>1. task'[u].at \notin {"load", "expire", "queue", "stamp"}
      BY <1>2, <1>9, <2>1 DEF Holding
    <3> QED
      BY <3>1 DEF RowSame, MonthRead, At
  <2>2. CASE u = t
    <3>1. RowSame(t)'
      <4>1. task'[t].at \in {"load", "expire", "queue"} => task'[t].row = task[t].row
        BY <1>3, <1>7, <1>10
      <4> QED
        BY <1>1, <1>11, <4>1 DEF RowSame, MonthInv
    <3>2. CASE task'[t] = expire /\ Expired(k)
      <4>1. view.offset = None
        BY <1>5, <3>2 DEF MonthOf
      <4> QED
        BY <1>7, <2>2, <3>1, <3>2, <4>1 DEF MonthRead, At
    <3>3. CASE task'[t] = queue
      <4>1. MonthOf(k)' = MonthOf(k)
        BY <1>1 DEF MonthOf, State, Expired
      <4>2. Key(task[t].row.design)' = k
        BY <1>4, <1>7, <3>3 DEF Key
      <4>3. MonthOf(Key(task[t].row.design))' = MonthOf(k)'
        BY <4>2 DEF MonthOf, State, Expired
      <4>4. task'[t].view.offset = MonthOf(Key(task[t].row.design))'
        BY <1>5, <1>7, <3>3, <4>1, <4>3
      <4> QED
        BY <1>7, <2>2, <3>1, <3>3, <4>4 DEF MonthRead, At
    <3>4. CASE task'[t].at = "idle"
      BY <2>2, <3>1, <3>4 DEF MonthRead, At
    <3> QED
      BY <1>10, <3>2, <3>3, <3>4
  <2> QED
    BY <2>1, <2>2
<1>13. MonthShownOrDue'
  <2> SUFFICES ASSUME active' # None, ~failed', active'.design \in Navigable,
                      ~Expired(Key(active.design))'
               PROVE  \/ \E n \in DesignFrame' :
                           IsNewest(n)' /\ frames'[n].offset = MonthOf(Key(active.design))'
                      \/ \E u \in Task : Due(u)'
    BY DEF MonthShownOrDue
  <2>1. MonthsStay /\ ~Expired(Key(active.design))
    BY <1>1, SameMonths, NotExpired
  <2>2. CASE \E n \in DesignFrame : IsNewest(n) /\ frames[n].offset = MonthOf(Key(active.design))
    BY <1>1, <2>1, <2>2, MonthKeptShown DEF TypeInv, RowsTyped
  <2>3. ASSUME NEW u \in Task, Due(u)
        PROVE  Due(u)'
    <3>1. CASE u = t
      BY <1>1, <1>3, <1>7, <1>10, <2>3, <3>1 DEF Due
    <3>2. CASE u # t
      BY <1>9, <2>3, <3>2 DEF Due
    <3> QED
      BY <3>1, <3>2
  <2> QED
    BY <1>1, <2>1, <2>2, <2>3 DEF MonthInv, MonthShownOrDue
<1> QED
  BY <1>12, <1>13 DEF MonthInv

\* A frame that is queued keeps the month that was read for it.
LEMMA MonthQueue ==
  ASSUME TypeInv, MonthInv, NEW t \in Task, QueueDesignFrame(t)
  PROVE  MonthInv'
<1>1. task[t].at = "queue" /\ UNCHANGED <<active, calendar, failed>>
  BY DEF QueueDesignFrame, At
<1>2. \A u \in Task : u # t => ~Holding(u)
  BY <1>1 DEF TypeInv, Locked, Holding
<1>3. PICK row, view : row = task[t].row /\ view = task[t].view
  OBVIOUS
<1>4. PICK place : place = [at |-> "stamp", row |-> row, view |-> view]
  OBVIOUS
<1>5. Go(t, place) /\ place.at = "stamp" /\ place.row = row /\ place.view = view
  BY <1>3, <1>4 DEF QueueDesignFrame
<1>6. task'[t] = place /\ \A u \in Task : u # t => task'[u] = task[u]
  BY <1>5 DEF Go, TypeInv
<1>7. Due(t)'
  BY <1>5, <1>6 DEF Due
<1>8. TapForced => TapForced'
  BY <1>1, <1>6 DEF TapForced, At, Task
<1>9. ASSUME NEW u \in Task
      PROVE  RowSame(u)' /\ MonthRead(u)'
  <2>1. CASE u # t
    <3>1. task'[u].at \notin {"load", "expire", "queue", "stamp"}
      BY <1>2, <1>6, <2>1 DEF Holding
    <3> QED
      BY <3>1 DEF RowSame, MonthRead, At
  <2>2. CASE u = t
    <3>1. PICK k : k = Key(row.design)
      OBVIOUS
    <3>2. Key(task[t].row.design)' = k
      BY <1>5, <1>6, <3>1 DEF Key
    <3>3. /\ MonthOf(Key(task[t].row.design))' = MonthOf(k)
          /\ Expired(Key(task[t].row.design))' = Expired(k)
      BY <1>1, <3>2 DEF MonthOf, State, Expired
    <3>4. view.offset = MonthOf(k) \/ Expired(k) \/ TapForced
      BY <1>1, <1>3, <3>1 DEF MonthInv, MonthRead
    <3> QED
      BY <1>5, <1>6, <1>8, <2>2, <3>3, <3>4 DEF RowSame, MonthRead, At
  <2> QED
    BY <2>1, <2>2
<1> QED
  BY <1>7, <1>9 DEF MonthInv, MonthShownOrDue

\* A row that is marked has the month of the newest frame, or a tap's render waits.
LEMMA MonthStamp ==
  ASSUME TypeInv, QuietInv, MonthInv, NEW t \in Task, UpdateActiveDesignRender(t)
  PROVE  MonthInv'
<1>1. task[t].at = "stamp" /\ UNCHANGED <<config, calendar, frames>> /\ Go(t, Idle) /\ Idle.at = "idle"
  BY DEF UpdateActiveDesignRender, At, Idle
<1>2. \A u \in Task : u # t => ~Holding(u)
  BY <1>1 DEF TypeInv, Locked, Holding
<1>3. task'[t] = Idle /\ \A u \in Task : u # t => task'[u] = task[u]
  BY <1>1 DEF Go, TypeInv
<1>4. \A u \in Task : task'[u].at \notin {"load", "expire", "queue", "stamp"}
  BY <1>1, <1>2, <1>3 DEF Holding
<1>5. PICK row \in Row, view \in Views : row = task[t].row /\ view = task[t].view
  BY <1>1, PlaceFields DEF TypeInv
<1>6. row.design \in Design
  BY DEF Row
<1>7. /\ active' = IF active = None THEN None ELSE Stamped(active, row.design, view)
      /\ failed' = (failed /\ ~(/\ active # None /\ active.design = row.design
                                /\ view.config = config[Key(row.design)]))
  BY <1>5 DEF UpdateActiveDesignRender
<1>8. Forced => \E u \in Task : Due(u)'
  <2> SUFFICES ASSUME NEW u \in Task, task[u].at = "render", task[u].force
               PROVE  Due(u)'
    BY DEF Forced, At
  <2> QED
    BY <1>1, <1>3 DEF Due
<1>9. MonthShownOrDue'
  <2> SUFFICES ASSUME active' # None, ~failed', active'.design \in Navigable,
                      ~Expired(Key(active.design))'
               PROVE  \/ \E n \in DesignFrame' :
                           IsNewest(n)' /\ frames'[n].offset = MonthOf(Key(active.design))'
                      \/ \E u \in Task : Due(u)'
    BY DEF MonthShownOrDue
  <2>1. active \in Row /\ active # None
    BY <1>7 DEF TypeInv, RowsTyped
  <2>2. active'.design = active.design
    BY <1>6, <1>7, <2>1, StampedFacts
  <2>3. PICK k : k = Key(active.design)
    OBVIOUS
  <2>4. Key(active.design)' = k
    BY <2>2, <2>3 DEF Key
  <2>5. ~Expired(k) /\ MonthOf(Key(active.design))' = MonthOf(k)
    BY <1>1, <2>4 DEF Expired, State, MonthOf
  <2>6. CASE active.design = row.design
    <3>1. PICK n \in DesignFrame : IsNewest(n) /\ frames[n].offset = view.offset
      BY <1>1, <1>5 DEF QuietInv, JustQueued, At
    <3>2. n \in DesignFrame' /\ IsNewest(n)' /\ frames'[n] = frames[n]
      BY <1>1, <3>1 DEF IsNewest, DesignFrame
    <3>3. view.offset = MonthOf(k) \/ TapForced
      BY <1>1, <1>5, <2>3, <2>5, <2>6 DEF MonthInv, MonthRead
    <3>4. TapForced => Forced
      BY DEF TapForced, Forced, Task
    <3> QED
      BY <1>8, <2>5, <3>1, <3>2, <3>3, <3>4
  <2>7. CASE active.design # row.design
    <3>1. ~failed
      BY <1>7, <2>7
    <3>2. Forced
      BY <1>1, <1>5, <2>1, <2>7, <3>1 DEF QuietInv, RowCurrent, Holding
    <3> QED
      BY <1>8, <3>2
  <2> QED
    BY <2>6, <2>7
<1> QED
  BY <1>4, <1>9 DEF MonthInv, RowSame, MonthRead, At

\* When a month is deleted, the render that deletes it draws the present month, or the
\* newest frame has it already.
LEMMA MonthExpire ==
  ASSUME TypeInv, QuietInv, MonthInv, NEW t \in Task, Expire(t)
  PROVE  MonthInv'
<1>1. /\ task[t].at = "expire" /\ UNCHANGED <<active, config, frames, value, failed>>
      /\ calendar' = [calendar EXCEPT ![Key(task[t].row.design)] = None]
      /\ task[t].row \in Row /\ task[t].view \in Views
      /\ \A u \in Task : u # t => task'[u] = task[u] /\ ~Holding(u)
      /\ \/ /\ task'[t].at = "queue"
            /\ task'[t].row = task[t].row /\ task'[t].view = task[t].view
         \/ /\ task'[t].at = "idle" /\ ~task[t].force
            /\ ValuesHash(task[t].view, task[t].row.deps) = task[t].row.hash
  BY ExpireEffect
<1>2. PICK row \in Row, view \in Views, k \in Owner :
        row = task[t].row /\ view = task[t].view /\ k = Key(task[t].row.design)
  BY <1>1, KeyOwner DEF Row
<1>3. view.offset = None
  BY <1>1, <1>2 DEF MonthInv, MonthRead, At
<1>4. calendar'[k] = None
  BY <1>1, <1>2 DEF TypeInv, RowsTyped
<1>5. ~Expired(k)' /\ MonthOf(k)' = None
  BY <1>4 DEF Expired, State, MonthOf
<1>6. Forced => Forced'
  BY <1>1 DEF Forced, At
<1>7. Forced => \E u \in Task : Due(u)'
  <2> SUFFICES ASSUME NEW u \in Task, task[u].at = "render", task[u].force
               PROVE  Due(u)'
    BY DEF Forced, At
  <2> QED
    BY <1>1 DEF Due
<1>8. ASSUME NEW u \in Task
      PROVE  RowSame(u)' /\ MonthRead(u)'
  <2>1. CASE u # t
    <3>1. task'[u].at \notin {"load", "expire", "queue", "stamp"}
      BY <1>1, <2>1 DEF Holding
    <3> QED
      BY <3>1 DEF RowSame, MonthRead, At
  <2>2. CASE u = t /\ task'[t].at = "idle"
    BY <2>2 DEF RowSame, MonthRead, At
  <2>3. CASE u = t /\ task'[t].at = "queue"
    <3>1. task'[t].row = row /\ task'[t].view = view
      BY <1>1, <1>2, <2>3
    <3>2. Key(task[t].row.design)' = k
      BY <1>2, <3>1 DEF Key
    <3>3. MonthOf(Key(task[t].row.design))' = None
      BY <1>5, <3>2 DEF MonthOf, State, Expired
    <3>4. RowSame(t)'
      BY <1>1, <1>2, <1>6, <3>1 DEF RowSame, MonthInv
    <3> QED
      BY <1>3, <2>3, <3>1, <3>3, <3>4 DEF MonthRead, At
  <2> QED
    BY <1>1, <2>1, <2>2, <2>3
<1>9. MonthShownOrDue'
  <2> SUFFICES ASSUME active' # None, ~failed', active'.design \in Navigable,
                      ~Expired(Key(active.design))'
               PROVE  \/ \E n \in DesignFrame' :
                           IsNewest(n)' /\ frames'[n].offset = MonthOf(Key(active.design))'
                      \/ \E u \in Task : Due(u)'
    BY DEF MonthShownOrDue
  <2>1. active' = active /\ active # None /\ ~failed /\ active.design \in Navigable
    BY <1>1
  <2>2. CASE task'[t].at = "queue"
    BY <2>2 DEF Due
  <2>3. CASE row # active
    BY <1>1, <1>2, <1>7, <2>1, <2>3 DEF MonthInv, RowSame
  <2>4. ASSUME NEW u \in Task, Due(u), task'[t].at = "idle"
        PROVE  Due(u)'
    <3>1. u # t
      BY <1>1, <2>4 DEF Due
    <3> QED
      BY <1>1, <2>4, <3>1 DEF Due
  <2>5. ASSUME NEW n \in DesignFrame, Shows(n), row = active, task'[t].at = "idle"
        PROVE  n \in DesignFrame' /\ IsNewest(n)' /\ frames'[n].offset = MonthOf(Key(active.design))'
    <3>1. PICK deps : deps = Dependencies(frames[n].svg)
      OBVIOUS
    <3>2. "offset" \in deps /\ active.deps = deps /\ active.hash = ValuesHash(frames[n], deps)
      BY <2>1, <2>5, <3>1 DEF Shows, Dependencies, Keys
    <3>3. ValuesHash(view, deps) = ValuesHash(frames[n], deps)
      BY <1>1, <1>2, <2>5, <3>2
    <3>4. frames[n].offset = None
      <4>1. ValuesHash(view, deps)["offset"] = view["offset"]
        BY <3>2 DEF ValuesHash
      <4>2. ValuesHash(frames[n], deps)["offset"] = frames[n]["offset"]
        BY <3>2 DEF ValuesHash
      <4> QED
        BY <1>3, <3>3, <4>1, <4>2
    <3>5. Key(active.design)' = k
      BY <1>2, <2>1, <2>5 DEF Key
    <3>6. MonthOf(Key(active.design))' = None
      BY <1>5, <3>5 DEF MonthOf, State, Expired
    <3>7. n \in DesignFrame' /\ IsNewest(n)' /\ frames'[n] = frames[n]
      BY <1>1, <2>5 DEF Shows, IsNewest, DesignFrame
    <3> QED
      BY <3>4, <3>6, <3>7
  <2> QED
    BY <1>1, <2>1, <2>2, <2>3, <2>4, <2>5 DEF QuietInv, ShownOrDue
<1> QED
  BY <1>8, <1>9 DEF MonthInv

\* Every step of the service keeps the month shown or due.
LEMMA MonthService ==
  ASSUME TypeInv, QuietInv, MonthInv, [Next]_vars, calendar' = calendar
  PROVE  MonthInv'
<1>1. ASSUME NEW t \in Task, SetActiveDesign(t) \/ StoreConfig(t)
      PROVE  MonthInv'
  <2>1. Go(t, Rendering(TRUE)) /\ task[t].at # "render"
    BY <1>1 DEF SetActiveDesign, StoreConfig, At
  <2> QED
    BY <2>1, MonthForced
<1>2. ASSUME NEW t \in Task, RenderAction(t)
      PROVE  MonthInv'
  BY <1>1, <1>2, MonthAcquire, MonthLoad, MonthQueue, MonthStamp DEF RenderAction
<1> QED
  BY <1>2, StepShape, SameMonths, MonthAside

\* Every step keeps the month shown or due.
LEMMA MonthStep ==
  TouchInv /\ TypeInv /\ QuietInv /\ MonthInv /\ [TouchNext]_allVars => MonthInv'
<1> SUFFICES ASSUME TouchInv, TypeInv, QuietInv, MonthInv, [TouchNext]_allVars PROVE MonthInv'
  OBVIOUS
<1>1. CASE [Next]_vars /\ (Service \/ CrashAll \/ UNCHANGED allVars)
  <2>1. calendar' = calendar
    BY <1>1, ServiceShape DEF TouchInv, Inv, Shape, CrashAll, Crash, allVars, vars
  <2> QED
    BY <1>1, <2>1, MonthService
<1>2. ASSUME NEW t \in Sessions,
             Claim(t) \/ GetWidgetState(t) \/ \E f \in DOMAIN frames : TapCalendar(t, f)
      PROVE  MonthInv'
  <2>1. calendar' = calendar
    BY <1>2 DEF Claim, GetWidgetState, TapCalendar, tables
  <2> QED
    BY <1>2, <2>1, TapsAside, SameMonths, MonthAside
<1>3. ASSUME NEW t \in Sessions, PutWidgetState(t)
      PROVE  MonthInv'
  BY <1>3, MonthForced DEF PutWidgetState, Task
<1>4. CASE ReportDisplay \/ PruneFrameHistory
  <2>1. calendar' = calendar
    BY <1>4 DEF ReportDisplay, PruneFrameHistory, tables, vars
  <2> QED
    BY <1>4, <2>1, TapsAside, SameMonths, MonthAside
<1>5. CASE MonthExpires
  BY <1>5, TapsAside, ExpiringMonths, MonthAside
<1> QED
  BY <1>1, <1>2, <1>3, <1>4, <1>5, TouchSteps, MonthExpire

\* When everything has been done and no render failed, the newest frame of a navigable
\* calendar shows the month stored for it, until that month has run out; although taps,
\* renders and the deletion of expired months write it without a lock.
THEOREM MonthShownAlways == TouchSpec => []MonthShown
<1>1. TypeInv /\ QuietInv /\ MonthInv => MonthShown
  <2> SUFFICES ASSUME TypeInv, QuietInv, MonthInv, Quiet, ~failed, active # None,
                      ~Expired(Key(active.design)), NEW f \in DesignFrame,
                      \A g \in DesignFrame : g <= f, frames[f].svg \in Navigable
               PROVE  frames[f].offset = View(active.design).offset
    BY DEF MonthShown
  <2>1. \A t \in Task : ~Due(t)
    BY DEF Quiet, At, Due
  <2>2. PICK n \in DesignFrame : Shows(n)
    BY <2>1 DEF QuietInv, ShownOrDue
  <2>3. \A g \in DesignFrame : g \in Nat
    BY DesignFrameFacts DEF TypeInv, RowsTyped
  <2>4. \A g \in DesignFrame : IsNewest(g) => g = f
    BY <2>3 DEF IsNewest
  <2>5. active.design \in Navigable
    BY <2>2, <2>4 DEF Shows
  <2>6. frames[f].offset = MonthOf(Key(active.design))
    BY <2>1, <2>4, <2>5 DEF MonthInv, MonthShownOrDue
  <2> QED
    BY <2>6, ViewMonth
<1>2. TouchInit => QuietInv /\ MonthInv
  BY InitQuiet, InitMonth DEF TouchInit
<1>3. TouchInv /\ TypeInv /\ QuietInv /\ MonthInv /\ [TouchNext]_allVars => QuietInv' /\ MonthInv'
  BY TouchQuietStep, MonthStep
<1> QED
  BY TypedInvariant, <1>1, <1>2, <1>3, PTL DEF TouchSpec
=============================================================================
