---------------------------- MODULE EventStream ----------------------------
(***************************************************************************)
(* The event log and its live streams: goroutines of the gateway, the      *)
(* design service, the action runner and the API emit events (AddEvent of  *)
(* internal/store, then Publish of internal/events), and eventStream of    *)
(* internal/httpapi replays and follows them for clients that reconnect    *)
(* with the id of the last event they saw.                                 *)
(*                                                                         *)
(* An event is its id.  Ids are AUTOINCREMENT and inserts run on one       *)
(* database connection, so the stored events are an interval of ids.  A    *)
(* client that does not read blocks its handler, which then takes no step. *)
(***************************************************************************)
EXTENDS Naturals, Sequences, FiniteSets

CONSTANTS
  Emitters,    \* the goroutines that emit events
  Clients,     \* the clients of the stream, one connection each at a time
  Buffer,      \* the capacity of a subscriber's channel
  Page,        \* the events one replay query returns
  EventLimit,  \* the events that pruning keeps at most
  MaxEvents    \* bound: events emitted

ASSUME SizesAssumption ==
  Buffer \in Nat \ {0} /\ Page \in Nat \ {0} /\ EventLimit \in Nat /\ MaxEvents \in Nat

VARIABLES
  stored,    \* the id of the newest event in the events table
  pruned,    \* the events up to this id have been deleted
  emitting,  \* the event each emitter has stored and not yet published
  stream,    \* the handler and the channel of each client's connection
  resume,    \* the id of the last event each client has received
  late       \* history: events published after a newer one

vars == <<stored, pruned, emitting, stream, resume, late>>

NoEvent == 0
Ids == 1..MaxEvents

\* from and dropped are history: the stream owes the client every event after
\* from; those in dropped found the channel full when they were published, or
\* were still to be replayed when a query failed.
Off == [pc |-> "off", channel |-> <<>>, lastID |-> 0, sent |-> <<>>, from |-> 0, dropped |-> {}]

Streams ==
  [pc : {"off", "replay", "live"}, channel : Seq(Ids), lastID : Nat, sent : Seq(Ids),
   from : Nat, dropped : SUBSET Ids]

TypeOK ==
  /\ stored \in 0..MaxEvents
  /\ pruned \in 0..stored
  /\ emitting \in [Emitters -> Ids \cup {NoEvent}]
  /\ stream \in [Clients -> Streams]
  /\ \A c \in Clients : stream[c].lastID <= stored
  /\ resume \in [Clients -> 0..stored]
  /\ late \subseteq Ids

Init ==
  /\ stored = 0 /\ pruned = 0 /\ late = {}
  /\ emitting = [e \in Emitters |-> NoEvent]
  /\ stream = [c \in Clients |-> Off]
  /\ resume = [c \in Clients |-> 0]

-----------------------------------------------------------------------------
(* The emitters *)

AddEvent(e) ==
  /\ emitting[e] = NoEvent /\ stored < MaxEvents
  /\ stored' = stored + 1
  /\ emitting' = [emitting EXCEPT ![e] = stored + 1]
  /\ UNCHANGED <<pruned, stream, resume, late>>

\* The event goes into every channel that has room for it.
Offer(x, event) ==
  IF x.pc = "off" THEN x
  ELSE IF Len(x.channel) < Buffer THEN [x EXCEPT !.channel = Append(x.channel, event)]
  ELSE [x EXCEPT !.dropped = x.dropped \cup {event}]

Pending == {emitting[e] : e \in Emitters} \ {NoEvent}
Published == (1..stored) \ Pending

Publish(e) ==
  LET event == emitting[e] IN
  /\ event # NoEvent
  /\ stream' = [c \in Clients |-> Offer(stream[c], event)]
  /\ late' = IF \E newer \in Published : event < newer THEN late \cup {event} ELSE late
  /\ emitting' = [emitting EXCEPT ![e] = NoEvent]
  /\ UNCHANGED <<stored, pruned, resume>>

\* Events that are too old go, and so do those beyond the newest EventLimit.
PruneEvents ==
  /\ \E n \in pruned..stored :
       pruned' = IF stored > n + EventLimit THEN stored - EventLimit ELSE n
  /\ UNCHANGED <<stored, emitting, stream, resume, late>>

-----------------------------------------------------------------------------
(* The stream handler *)

\* A client connects, with the id of the last event it received if it has one.
\* The channel is open before the replay starts.
Subscribe(c) ==
  IF resume[c] > 0
  THEN [Off EXCEPT !.pc = "replay", !.lastID = resume[c], !.from = resume[c]]
  ELSE [Off EXCEPT !.pc = "live", !.from = stored]

Connect(c) ==
  /\ stream[c].pc = "off"
  /\ stream' = [stream EXCEPT ![c] = Subscribe(c)]
  /\ UNCHANGED <<stored, pruned, emitting, resume, late>>

\* The events after id, oldest first and at most a page of them.
EventsAfter(id) ==
  LET first == IF id > pruned THEN id + 1 ELSE pruned + 1
      count == IF first > stored THEN 0
               ELSE IF stored - first + 1 > Page THEN Page
               ELSE stored - first + 1
  IN  [i \in 1..count |-> first + i - 1]

SendPage(x, events) ==
  [x EXCEPT !.sent = x.sent \o events, !.lastID = x.lastID + Page]

Send(x, events) ==
  [x EXCEPT !.sent = x.sent \o events,
            !.lastID = IF events = <<>> THEN x.lastID ELSE events[Len(events)]]

\* A page that is not full is the last one.
ReplayOnePage(items) == TRUE
ReplayDone(items) == Len(items) < Page

Replay(c) ==
  LET x     == stream[c]
      items == EventsAfter(x.lastID) IN
  /\ x.pc = "replay"
  /\ stream' = [stream EXCEPT ![c] =
       [Send(x, items) EXCEPT !.pc = IF ReplayDone(items) THEN "live" ELSE "replay"]]
  /\ UNCHANGED <<stored, pruned, emitting, resume, late>>

\* A query that fails ends the replay as well.  Events are then missing unless
\* they are in the channel already.
Sent(c) == {stream[c].sent[i] : i \in DOMAIN stream[c].sent}
Waiting(c) == {stream[c].channel[i] : i \in DOMAIN stream[c].channel}

Unreplayed(c) == {id \in Published : id > stream[c].lastID} \ Waiting(c)

ReplayFails(c) ==
  /\ stream[c].pc = "replay"
  /\ stream' = [stream EXCEPT ![c].pc = "live", ![c].dropped = @ \cup Unreplayed(c)]
  /\ UNCHANGED <<stored, pruned, emitting, resume, late>>

\* What the replay has sent is skipped.
AlwaysNew(x, event) == TRUE
NextInLine(x, event) == event = x.lastID + 1
IsNew(x, event) == event > x.lastID

Live(c) ==
  LET x == stream[c]
      event == Head(x.channel)
      rest == [x EXCEPT !.channel = Tail(x.channel)] IN
  /\ x.pc = "live" /\ x.channel # <<>>
  /\ stream' = [stream EXCEPT ![c] = IF IsNew(x, event) THEN Send(rest, <<event>>) ELSE rest]
  /\ UNCHANGED <<stored, pruned, emitting, resume, late>>

\* The connection ends and the channel is removed; the client has received some
\* of what was sent.
Disconnect(c) ==
  LET x == stream[c] IN
  /\ x.pc # "off"
  /\ \E id \in {resume[c]} \cup {x.sent[i] : i \in DOMAIN x.sent} :
       resume' = [resume EXCEPT ![c] = id]
  /\ stream' = [stream EXCEPT ![c] = Off]
  /\ UNCHANGED <<stored, pruned, emitting, late>>

-----------------------------------------------------------------------------
Next ==
  \/ \E e \in Emitters : AddEvent(e) \/ Publish(e)
  \/ PruneEvents
  \/ \E c \in Clients : Connect(c) \/ Replay(c) \/ ReplayFails(c) \/ Live(c) \/ Disconnect(c)

Spec == Init /\ [][Next]_vars

\* A handler whose client reads goes on replaying and following.
Fairness == \A c \in Clients : WF_vars(Replay(c) \/ Live(c))

FairSpec == Spec /\ Fairness

-----------------------------------------------------------------------------
\* One connection never shows an event twice or an older one after a newer one,
\* whatever was published during the replay (eventStream).
Increasing ==
  \A c \in Clients : \A i, j \in DOMAIN stream[c].sent :
    i < j => stream[c].sent[i] < stream[c].sent[j]

\* The events a followed stream owes its client.
Owed(c) == {id \in Published : id > stream[c].from /\ id > pruned}

\* An event is lost to a client that follows the log only because its channel was
\* full, because the replay's query failed or because a newer event was published
\* before it: the step from replay to following loses none (eventStream,
\* Subscribe, Publish).
LossExplained ==
  \A c \in Clients : stream[c].pc = "live" =>
    Owed(c) \subseteq Sent(c) \cup Waiting(c) \cup stream[c].dropped \cup late

\* A new event that waits in a client's channel reaches the client, unless a
\* newer one overtook it, it is pruned or the connection ends (eventStream).
WaitingArrives ==
  \A c \in Clients : \A id \in Ids :
    id \in Waiting(c) /\ id > stream[c].from ~>
      id \in Sent(c) \cup late \/ id <= pruned \/ stream[c].pc = "off"

\* httpapi/api.go: "The subscription is already open, so nothing published
\* meanwhile is lost".
NothingLost ==
  \A c \in Clients : stream[c].pc = "live" /\ stream[c].dropped = {} =>
    Owed(c) \subseteq Sent(c) \cup Waiting(c)
=============================================================================
