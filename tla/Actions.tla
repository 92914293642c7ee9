------------------------------- MODULE Actions -------------------------------
(***************************************************************************)
(* The webhook runner (internal/action/runner.go) and the table of actions *)
(* it looks names up in (internal/store/design.go): taps put invocations   *)
(* in a bounded channel, workers take them out and call the webhook.       *)
(* Actions come from the TOML file, read at start-up, or from the API.     *)
(***************************************************************************)
EXTENDS Naturals, Sequences, SequencesExt

CONSTANTS
  None,
  Names,      \* names of actions
  Workers,    \* goroutines of the runner
  QueueSize,  \* capacity of its channel
  MaxTaps,    \* bound: taps on webhook regions
  MaxEdits    \* bound: requests about actions, and restarts

(* An event of an invocation's life, an invocation, and what a worker does  *)
(* with one: look its action up, or call the webhook.                       *)
Event == {"unresolved", "failed", "started", "succeeded", "lost"}
Invocation == [number : Nat, name : Names]
Job == [invocation : Invocation, calling : BOOLEAN]

ASSUME ActionsAssumption ==
  /\ {QueueSize, MaxTaps, MaxEdits} \subseteq Nat
  /\ None \notin {"config", "db"} \cup Job

VARIABLES
  sources,     \* table actions: "config", "db", or None for no such action
  configured,  \* the actions of the TOML file the process was started with
  checked,     \* PUT requests that have checked the name and not yet written it
  queue,       \* Runner.queue: invocations waiting
  running,     \* what each worker is doing
  story,       \* the events emitted for each invocation, by its number
  edits        \* history: requests about actions, and restarts

vars == <<sources, configured, checked, queue, running, story, edits>>

Init ==
  /\ configured \in SUBSET Names
  /\ sources = [n \in Names |-> IF n \in configured THEN "config" ELSE None]
  /\ checked = {}
  /\ queue = <<>>
  /\ running = [w \in Workers |-> None]
  /\ story = <<>>
  /\ edits = 0

Emit(i, event) == story' = [story EXCEPT ![i] = Append(@, event)]

Begin(events) == story' = Append(story, events)
Enqueue(n) == /\ queue' = Append(queue, [number |-> Len(story) + 1, name |-> n])
              /\ Begin(<<>>)

SubmitSilently(n) ==                \* mutant: a full channel is not reported
  /\ Len(story) < MaxTaps
  /\ IF sources[n] = None THEN Begin(<<"unresolved">>) /\ UNCHANGED queue
     ELSE IF Len(queue) < QueueSize THEN Enqueue(n)
          ELSE Begin(<<>>) /\ UNCHANGED queue
  /\ UNCHANGED <<sources, configured, checked, running, edits>>

SubmitOverfull(n) ==                \* mutant: no bound
  /\ Len(story) < MaxTaps
  /\ IF sources[n] = None THEN Begin(<<"unresolved">>) /\ UNCHANGED queue ELSE Enqueue(n)
  /\ UNCHANGED <<sources, configured, checked, running, edits>>

(* Submit: an unknown action and a full channel are reported, not retried. *)
Submit(n) ==
  /\ Len(story) < MaxTaps
  /\ IF sources[n] = None
     THEN Begin(<<"unresolved">>) /\ UNCHANGED queue
     ELSE IF Len(queue) < QueueSize THEN Enqueue(n)
          ELSE Begin(<<"failed">>) /\ UNCHANGED queue
  /\ UNCHANGED <<sources, configured, checked, running, edits>>

Take(w) ==
  /\ running[w] = None /\ queue # <<>>
  /\ running' = [running EXCEPT ![w] = [invocation |-> Head(queue), calling |-> FALSE]]
  /\ queue' = Tail(queue)
  /\ UNCHANGED <<sources, configured, checked, story, edits>>

LookupSilent(w) ==                  \* mutant: a deleted action is dropped in silence
  /\ running[w] # None /\ ~running[w].calling
  /\ LET i == running[w].invocation IN
     IF sources[i.name] = None
     THEN running' = [running EXCEPT ![w] = None] /\ UNCHANGED story
     ELSE Emit(i.number, "started") /\ running' = [running EXCEPT ![w].calling = TRUE]
  /\ UNCHANGED <<sources, configured, checked, queue, edits>>

(* execute looks the action up again: it may be gone by now. *)
Lookup(w) ==
  /\ running[w] # None /\ ~running[w].calling
  /\ LET i == running[w].invocation IN
     IF sources[i.name] = None
     THEN Emit(i.number, "failed") /\ running' = [running EXCEPT ![w] = None]
     ELSE Emit(i.number, "started") /\ running' = [running EXCEPT ![w].calling = TRUE]
  /\ UNCHANGED <<sources, configured, checked, queue, edits>>

(* The webhook answers 2xx; or something else, too late, or not at all. *)
Finish(w) ==
  /\ running[w] # None /\ running[w].calling
  /\ \E event \in {"succeeded", "failed"} : Emit(running[w].invocation.number, event)
  /\ running' = [running EXCEPT ![w] = None]
  /\ UNCHANGED <<sources, configured, checked, queue, edits>>

Edit == edits < MaxEdits /\ edits' = edits + 1

(* PUT of an action: the check and the write are two statements. *)
CheckAction(n) ==
  /\ Edit
  /\ n \notin checked /\ sources[n] # "config"
  /\ checked' = checked \cup {n}
  /\ UNCHANGED <<sources, configured, queue, running, story>>

PutAction(n) ==
  /\ n \in checked
  /\ checked' = checked \ {n}
  /\ sources' = [sources EXCEPT ![n] = "db"]
  /\ UNCHANGED <<configured, queue, running, story, edits>>

DeleteAnyAction(n) ==               \* mutant: not only dynamic ones
  /\ Edit /\ sources[n] # None
  /\ sources' = [sources EXCEPT ![n] = None]
  /\ UNCHANGED <<configured, checked, queue, running, story>>

(* DELETE of an action, which only finds dynamic ones. *)
DeleteAction(n) ==
  /\ Edit /\ sources[n] = "db"
  /\ sources' = [sources EXCEPT ![n] = None]
  /\ UNCHANGED <<configured, checked, queue, running, story>>

(* ReconcileConfigActions of a new process: the configured actions replace  *)
(* those configured before, and dynamic ones of the same name.              *)
Reconciled(toml) ==
  [n \in Names |-> IF n \in toml THEN "config"
                   ELSE IF sources[n] = "config" THEN None ELSE sources[n]]

Waiting(i) == \/ \E q \in Range(queue) : q.number = i
              \/ \E w \in Workers : running[w] # None /\ running[w].invocation.number = i

(* The process restarts: what waited or ran is gone, nobody says so. *)
Restart ==
  /\ Edit
  /\ configured' \in SUBSET Names
  /\ sources' = Reconciled(configured')
  /\ checked' = {}
  /\ queue' = <<>>
  /\ running' = [w \in Workers |-> None]
  /\ story' = [i \in DOMAIN story |-> IF Waiting(i) THEN Append(story[i], "lost") ELSE story[i]]

Work(w) == Take(w) \/ Lookup(w) \/ Finish(w)

Next ==
  \/ \E n \in Names : Submit(n) \/ CheckAction(n) \/ PutAction(n) \/ DeleteAction(n)
  \/ \E w \in Workers : Work(w)
  \/ Restart

(* A worker takes what waits, and a webhook answers or its timeout ends.    *)
Spec == Init /\ [][Next]_vars /\ \A w \in Workers : WF_vars(Work(w))
-----------------------------------------------------------------------------
(* Properties. *)

TypeOK ==
  /\ sources \in [Names -> {"config", "db", None}]
  /\ configured \subseteq Names /\ checked \subseteq Names
  /\ queue \in Seq(Invocation) /\ Len(queue) <= QueueSize
  /\ running \in [Workers -> {None} \cup Job]
  /\ story \in Seq(Seq(Event)) /\ Len(story) <= MaxTaps
  /\ edits \in 0..MaxEdits

(* Every tap on a webhook region ends in exactly one of the ways the events *)
(* tell a listener about, and as long as it has not, exactly one worker has *)
(* it or it waits in the channel; "lost", of a restart, is the one end      *)
(* nobody hears of.                                                         *)
Stories == {<<"unresolved">>, <<"failed">>, <<"started", "succeeded">>,
            <<"started", "failed">>, <<"lost">>, <<"started", "lost">>}
Holders(i) == {w \in Workers : running[w] # None /\ running[w].invocation.number = i}
Positions(i) == {p \in DOMAIN queue : queue[p].number = i}
Accounted ==
  \A i \in DOMAIN story :
    IF story[i] \in Stories
    THEN ~Waiting(i)
    ELSE \/ /\ story[i] = <<>> /\ Holders(i) = {}
            /\ \E p \in DOMAIN queue : Positions(i) = {p}
         \/ /\ Positions(i) = {}
            /\ \E w \in Workers :
                 /\ Holders(i) = {w}
                 /\ story[i] = IF running[w].calling THEN <<"started">> ELSE <<>>

(* Actions of the TOML file are read-only: whatever the API is asked and    *)
(* however requests interleave, the actions marked as configured are those  *)
(* of the file the process started with.                                    *)
ConfigMirrored == configured = {n \in Names : sources[n] = "config"}

(* What waits or runs for a tap comes to an end a listener is told of,      *)
(* unless the process dies first.                                           *)
Ended(i) == i \in DOMAIN story /\ story[i] \in Stories
InvocationEnds == \A i \in 1..MaxTaps : i \in DOMAIN story ~> Ended(i)
=============================================================================
