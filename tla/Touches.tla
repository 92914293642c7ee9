------------------------------- MODULE Touches -------------------------------
(***************************************************************************)
(* Taps on a calendar's regions: the design service moves its month while  *)
(* designs are rendered, months expire and old frames are pruned.  (A tap  *)
(* on a webhook's region is handed to the runner: see Actions.)            *)
(*                                                                         *)
(* Service.Touch and handleWidgetEvent (internal/design/service.go) run in *)
(* the goroutine of the session; PruneFrameHistory                         *)
(* (internal/store/retention.go) removes old frames with their regions.    *)
(***************************************************************************)
EXTENDS Designs, FiniteSets, FiniteSetsExt

CONSTANTS
  Limit      \* FrameHistoryLimit

ASSUME TouchesAssumption == Limit \in Nat \ {0}

VARIABLES
  kept,      \* numbers of the frames whose assignments are in the database
  display,   \* devices.display_state: the frame the tablet last reported, or None
  claims,    \* table widget_event_consumptions: frames whose calendar was tapped
  claimed    \* history: how often each frame's calendar was claimed

touchVars == <<kept, display, claims, claimed>>
allVars == <<vars, touchVars>>

Clamp(n) == Min({Max({n, -Months}), Months})

MovedUnbounded(state, button) ==    \* mutant: no clamp
  LET offset == IF state = None THEN 0 ELSE state.offset IN
  [offset |-> IF button = "previous" THEN offset - 1
              ELSE IF button = "next" THEN offset + 1 ELSE 0,
   expired |-> FALSE]

(* The month after a tap, five minutes of life; note that a month that has  *)
(* expired and was not deleted yet is moved on from.                        *)
Moved(state, button) ==
  LET offset == IF state = None THEN 0 ELSE state.offset
      moved  == IF button = "previous" THEN offset - 1
                ELSE IF button = "next" THEN offset + 1 ELSE 0 IN
  [offset |-> Clamp(moved), expired |-> FALSE]

(* The regions the calendar of a frame offers: none beyond the last month. *)
Regions(frame) ==
  LET offset == IF frame.offset = None THEN 0 ELSE frame.offset IN
  {b \in Buttons : /\ b = "previous" => offset > -Months
                   /\ b = "next" => offset < Months}

TouchInit ==
  /\ Init
  /\ kept = {}
  /\ display = None
  /\ claims = {}
  /\ claimed = <<>>
-----------------------------------------------------------------------------
(* Touch: a tap names the frame it was made on; if the database has no map  *)
(* for it any more the tap is ignored.                                      *)
TapCalendar(t, f) ==
  /\ t \in Sessions /\ At(t, "idle") /\ Occurs("tap")
  /\ f \in kept \cap DesignFrame /\ frames[f].svg \in Navigable
  /\ \E b \in Regions(frames[f]) :
       Go(t, [at |-> "claim", frame |-> f, owner |-> Key(frames[f].svg), button |-> b])
  /\ UNCHANGED <<tables, value, lock, failed, torn, late, touchVars>>

ClaimAlways(t) ==                   \* mutant: the insert is not checked
  /\ At(t, "claim")
  /\ LET tap == task[t] IN
     /\ Go(t, [at |-> "state", owner |-> tap.owner, button |-> tap.button])
     /\ claims' = claims \cup {tap.frame}
     /\ claimed' = [claimed EXCEPT ![tap.frame] = @ + 1]
  /\ UNCHANGED <<tables, value, lock, history, kept, display>>

(* ClaimWidgetEvent: of the taps on one frame's calendar the first goes on. *)
Claim(t) ==
  /\ At(t, "claim")
  /\ LET tap == task[t] IN
     IF tap.frame \in claims
     THEN Go(t, Idle) /\ UNCHANGED <<claims, claimed>>
     ELSE /\ Go(t, [at |-> "state", owner |-> tap.owner, button |-> tap.button])
          /\ claims' = claims \cup {tap.frame}
          /\ claimed' = [claimed EXCEPT ![tap.frame] = @ + 1]
  /\ UNCHANGED <<tables, value, lock, history, kept, display>>

(* GetWidgetState and HandleEvent: the month to move to, from the one stored. *)
GetWidgetState(t) ==
  /\ At(t, "state")
  /\ LET tap == task[t] IN
     Go(t, [at |-> "put", owner |-> tap.owner, month |-> Moved(State(tap.owner), tap.button)])
  /\ UNCHANGED <<tables, value, lock, history, touchVars>>

PutWidgetStateOnly(t) ==            \* mutant: nothing renders the new month
  /\ At(t, "put")
  /\ calendar' = [calendar EXCEPT ![task[t].owner] = task[t].month]
  /\ Go(t, Idle)
  /\ UNCHANGED <<catalog, active, config, frames, value, lock, history, touchVars>>

PutWidgetState(t) ==
  /\ At(t, "put")
  /\ calendar' = [calendar EXCEPT ![task[t].owner] = task[t].month]
  /\ Go(t, Rendering(TRUE))
  /\ UNCHANGED <<catalog, active, config, frames, value, lock, history, touchVars>>

(* Five minutes go by. *)
MonthExpires ==
  /\ Occurs("expire")
  /\ \E k \in Owner :
       /\ State(k) # None /\ ~State(k).expired
       /\ calendar' = [calendar EXCEPT ![k].expired = TRUE]
  /\ UNCHANGED <<catalog, active, config, frames, value, lock, task, failed, torn, late, touchVars>>

(* DeleteWidgetState of the month that had expired when it was read. *)
Expire(t) ==
  /\ At(t, "expire")
  /\ calendar' = [calendar EXCEPT ![Key(task[t].row.design)] = None]
  /\ Decide(t, task[t].force, task[t].row, task[t].view)
  /\ UNCHANGED <<catalog, active, config, frames, value, history, touchVars>>

(* A status names the frame on the screen; it may be an old one. *)
ReportDisplay ==
  /\ Occurs("report")
  /\ \E f \in DOMAIN frames : f # display /\ display' = f
  /\ UNCHANGED <<tables, value, lock, task, failed, torn, late, kept, claims, claimed>>

(* PruneFrameHistory: one transaction. *)
Newest(n) == {f \in kept : Cardinality({g \in kept : g >= f}) <= n}
RetainedNewest == Newest(Limit)     \* mutant: the displayed frame is forgotten
Retained == Newest(Limit) \cup (kept \cap {display})

PruneFrameHistory ==
  /\ kept # Retained
  /\ kept' = Retained
  /\ claims' = claims \cap Retained
  /\ UNCHANGED <<vars, display, claimed>>
-----------------------------------------------------------------------------
(* The steps of the design service, with the frames they add. *)
Queued ==
  /\ kept' = kept \cup (DOMAIN frames' \ DOMAIN frames)
  /\ claimed' = IF frames' = frames THEN claimed ELSE Append(claimed, 0)
  /\ UNCHANGED <<display, claims>>

Service ==
  /\ \/ \E t \in Task : Acquire(t) \/ Continue(t)
     \/ \E t \in Handlers : Arrive(t) \/ Cancel(t)
     \/ \E t \in Sessions : DeviceEnrolled(t) \/ StatusChanged(t)
     \/ Tick \/ Advance
  /\ Queued

CrashAll == Crash /\ UNCHANGED touchVars

TouchStep(t) == Claim(t) \/ GetWidgetState(t) \/ PutWidgetState(t)

TouchNext ==
  \/ Service
  \/ \E t \in Sessions : \/ TouchStep(t)
                         \/ \E f \in DOMAIN frames : TapCalendar(t, f)
  \/ \E t \in Task : Expire(t)
  \/ MonthExpires \/ ReportDisplay \/ PruneFrameHistory \/ CrashAll

(* As in Designs; nobody has to tap. *)
TouchFairness ==
  /\ \A t \in Task : /\ WF_allVars(Continue(t) /\ Queued)
                     /\ SF_allVars(Acquire(t) /\ Queued)
                     /\ WF_allVars(Expire(t))
  /\ \A t \in Sessions :
       /\ WF_allVars(DeviceEnrolled(t) /\ Queued)
       /\ WF_allVars(TouchStep(t))
  /\ WF_allVars(Tick /\ Queued)

TouchSpec == TouchInit /\ [][TouchNext]_allVars /\ TouchFairness
-----------------------------------------------------------------------------
(* Properties. *)
TapTypes ==
  /\ kept \subseteq DOMAIN frames
  /\ display \in DOMAIN frames \cup {None}
  /\ claims \subseteq DOMAIN frames /\ claimed \in Seq(Nat) /\ Len(claimed) = Len(frames)
TouchTypeOK == TypeOK /\ TapTypes

(* However often the same picture is tapped, and on however many            *)
(* connections, its calendar moves once, as long as the frame is known      *)
(* (ClaimWidgetEvent, with the claims that pruning removes).                *)
TapOnce == \A f \in kept : claimed[f] <= 1

(* When everything has been done and no render failed, the newest frame of  *)
(* a navigable calendar shows the month stored for it, although taps,       *)
(* scheduled renders and the deletion of expired months write that state    *)
(* without a lock; until the five minutes are over.                         *)
MonthShown ==
  Quiet /\ ~failed /\ active # None /\ ~Expired(Key(active.design)) =>
    \A f \in DesignFrame :
      (\A g \in DesignFrame : g <= f) /\ frames[f].svg \in Navigable =>
        frames[f].offset = View(active.design).offset

(* Retention keeps the newest frames, whatever is displayed, and a          *)
(* displayed frame that was still known when it was reported.               *)
RetentionKeeps ==
  [][/\ Newest(Limit) \subseteq kept'
     /\ display \in kept /\ display' = display => display \in kept']_allVars
=============================================================================
