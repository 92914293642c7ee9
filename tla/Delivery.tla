------------------------------ MODULE Delivery ------------------------------
(***************************************************************************)
(* Image delivery to one tablet: the connection handlers and the delivery  *)
(* goroutines of internal/gateway over the assignment rows of              *)
(* internal/store, with the tablet and the two directions of each TCP      *)
(* connection as environment.                                              *)
(*                                                                         *)
(* A session is one accepted connection and is never reused.  Several can  *)
(* be alive at once: the handler and the delivery goroutine of a replaced  *)
(* session go on until they notice that it is closed.  Each direction of a *)
(* connection is an ordered queue.                                         *)
(*                                                                         *)
(* Every SQL statement is a step of its own; the code between two          *)
(* statements is merged with one of them where it touches only the         *)
(* session's own bookkeeping.  Events and logging are left out (module     *)
(* EventStream models them), and so are database errors and the pixels of  *)
(* a frame: the base frame of a partial update is the id of the frame the  *)
(* pixels came from.                                                       *)
(***************************************************************************)
EXTENDS Assignments, FiniteSets

CONSTANTS
  Sessions,                 \* the connections the tablet may open
  NoSession,
  MaxRows,                  \* bound: assignments created for the device
  Unrenderable,             \* the assignments whose frame fails to render
  Unbuildable,              \* those whose frame fits no image record (odd pixel counts)
  Faults,                   \* bound: what may go wrong around the gateway
  Kinds,                    \* bound: the sequence numbers statuses carry
  MaxUnanswered,            \* bound: a tablet that waits for so many replies sends no status
  MaxDeliveryAttempts,      \* unconfirmed sends per connection
  MaxTotalDeliveryAttempts  \* sends per assignment before it is given up

ASSUME SessionsAssumption == IsFiniteSet(Sessions) /\ NoSession \notin Sessions
ASSUME BoundsAssumption == MaxRows \in Nat /\ MaxUnanswered \in Nat /\
                            Unrenderable \subseteq 1..MaxRows /\ Unbuildable \subseteq 1..MaxRows
ASSUME FaultsAssumption == Faults \subseteq {"write", "exit", "restart", "ignore", "blank"}
ASSUME KindsAssumption == Kinds \subseteq Nat \ {0}
ASSUME AttemptsAssumption == /\ MaxDeliveryAttempts \in Nat \ {0}
                             /\ MaxTotalDeliveryAttempts \in Nat \ {0}

VARIABLES
  rows,       \* the assignment rows of the device
  current,    \* Gateway.connections[uuid]
  session,    \* the fields of each session struct
  handler,    \* program counter and locals of each connection handler
  delivery,   \* program counter and locals under each session's deliverMu
  wire,       \* every image record written to each connection, in order
  received,   \* how many of them the tablet has read
  inbox,      \* what the tablet has sent on each connection and no handler has read
  tablet,     \* the tablet's connection and the frame it displays
  confirmed   \* history: the rows a status echo has marked delivered

vars == <<rows, current, session, handler, delivery, wire, received, inbox, tablet, confirmed>>

-----------------------------------------------------------------------------
\* display is status.DisplayState; lastFrameID also names the frame in lastFrame.
SessionFields ==
  [closed : BOOLEAN, ready : BOOLEAN, display : Nat, nextSeq : Nat, ackedSeq : Nat,
   lastFrameID : Nat, lastSentSeq : Nat, attemptID : Nat, attempts : Nat,
   renderFailedID : Nat]

\* Locals are reset when they go out of scope.
HandlerPC == {"unused", "first", "read", "delivered", "reconcile", "reply",
              "ackSelect", "ackUpdate", "exit", "close", "done"}
HandlerLocals == [pc : HandlerPC, first : BOOLEAN, kind : Nat, display : Nat,
                  row : Nat, sequence : Nat]
AtPC(pc) == [pc |-> pc, first |-> FALSE, kind |-> 0, display |-> 0, row |-> 0, sequence |-> 0]

DeliveryPC == {"idle", "check", "load", "giveUp", "exhaust", "render", "write", "mark"}
DeliveryLocals == [pc : DeliveryPC, row : Nat, display : Nat,
                   sequence : Nat, base : Nat, ok : BOOLEAN]
DeliverAt(pc) == [pc |-> pc, row |-> 0, display |-> 0, sequence |-> 0, base |-> 0, ok |-> TRUE]

\* base 0 is a full-screen primitive.  late is history: the record was written
\* after its session had been closed.
Record == [frame : Nat, sequence : Nat, base : Nat, late : BOOLEAN]

\* What the tablet sends: number is the kind of a status, the sequence of an
\* acknowledgement; display is the frame a status echoes.
Message == [type : {"status", "acknowledgement"}, number : Nat, display : Nat]
Status(kind, display) == [type |-> "status", number |-> kind, display |-> display]
Acknowledgement(sequence) == [type |-> "acknowledgement", number |-> sequence, display |-> 0]

TypeOK ==
  /\ rows \in Seq(Row) /\ Len(rows) <= MaxRows
  /\ current \in Sessions \cup {NoSession}
  /\ session \in [Sessions -> SessionFields]
  /\ handler \in [Sessions -> HandlerLocals]
  /\ delivery \in [Sessions -> DeliveryLocals]
  /\ wire \in [Sessions -> Seq(Record)]
  /\ received \in [Sessions -> Nat]
  /\ inbox \in [Sessions -> Seq(Message)]
  /\ tablet \in [session : Sessions \cup {NoSession}, display : Nat]
  /\ confirmed \subseteq Nat

Init ==
  /\ rows = <<>>
  /\ current = NoSession
  /\ session = [s \in Sessions |->
       [closed |-> FALSE, ready |-> FALSE, display |-> 0, nextSeq |-> 1, ackedSeq |-> 0,
        lastFrameID |-> 0, lastSentSeq |-> 0, attemptID |-> 0, attempts |-> 0,
        renderFailedID |-> 0]]
  /\ handler = [s \in Sessions |-> AtPC("unused")]
  /\ delivery = [s \in Sessions |-> DeliverAt("idle")]
  /\ wire = [s \in Sessions |-> <<>>]
  /\ received = [s \in Sessions |-> 0]
  /\ inbox = [s \in Sessions |-> <<>>]
  /\ tablet = [session |-> NoSession, display |-> 0]
  /\ confirmed = {}

-----------------------------------------------------------------------------
(* Session bookkeeping *)

\* The tablet acknowledged, on this connection, the record sent last.
Acknowledged(s, sequence) == sequence # 0 /\ session[s].ackedSeq = sequence

\* The frame a partial update may start from, given the status the delivery
\* goroutine copied; a primitive that changes nothing is sent in full.
BaseUnconfirmed(s) ==
  IF session[s].lastFrameID # delivery[s].row THEN session[s].lastFrameID ELSE 0

Base(s) ==
  LET last == session[s].lastFrameID IN
  IF /\ last # 0
     /\ last # delivery[s].row
     /\ delivery[s].display = last \/ Acknowledged(s, session[s].lastSentSeq)
  THEN last
  ELSE 0

AdvanceSequence(next, observed) == IF next <= observed THEN observed + 1 ELSE next

-----------------------------------------------------------------------------
(* The connection handler *)

\* The first status of a connection registers its session and closes the one it
\* replaces; a new session starts numbering after the status it answers.
RegisterKeepingOld(s, status) ==
  [session EXCEPT ![s] = [@ EXCEPT !.nextSeq = status.number + 1, !.display = status.display]]

Register(s, status) ==
  [t \in Sessions |->
     IF t = s THEN [session[s] EXCEPT !.nextSeq = status.number + 1, !.display = status.display]
     ELSE IF t = current THEN [session[t] EXCEPT !.closed = TRUE]
     ELSE session[t]]

StatusRead(s, first, status) ==
  [pc |-> "delivered", first |-> first, kind |-> status.number, display |-> status.display,
   row |-> 0, sequence |-> 0]

\* session.close closes a connection together with the flag.  A handler that
\* ends sets the flag first and closes the connection when it returns.
Open(s) == ~session[s].closed \/ handler[s].pc = "close"

\* The handler is at pc and takes the oldest message of its connection, of this type.
Takes(s, pc, type) ==
  /\ handler[s].pc = pc /\ ~session[s].closed
  /\ inbox[s] # <<>> /\ Head(inbox[s]).type = type
  /\ inbox' = [inbox EXCEPT ![s] = Tail(@)]

\* The tablet connects and sends its first status; a handler starts.
Connect(s) ==
  /\ handler[s].pc = "unused"
  /\ tablet' = [tablet EXCEPT !.session = s]
  /\ handler' = [handler EXCEPT ![s] = AtPC("first")]
  /\ \E kind \in Kinds : inbox' = [inbox EXCEPT ![s] = <<Status(kind, tablet.display)>>]
  /\ UNCHANGED <<rows, current, session, delivery, wire, received, confirmed>>

ReadFirstStatus(s) ==
  /\ Takes(s, "first", "status")
  /\ current' = s
  /\ session' = Register(s, Head(inbox[s]))
  /\ handler' = [handler EXCEPT ![s] = StatusRead(s, TRUE, Head(inbox[s]))]
  /\ UNCHANGED <<rows, delivery, wire, received, tablet, confirmed>>

ReadStatus(s) ==
  /\ Takes(s, "read", "status")
  /\ handler' = [handler EXCEPT ![s] = StatusRead(s, FALSE, Head(inbox[s]))]
  /\ UNCHANGED <<rows, current, session, delivery, wire, received, tablet, confirmed>>

HandleDelivered(s) ==
  /\ handler[s].pc = "delivered"
  /\ rows' = MarkDelivered(rows, handler[s].display)
  /\ confirmed' = confirmed \cup (DOMAIN rows \cap {handler[s].display})
  /\ handler' = [handler EXCEPT ![s].pc = IF handler[s].first THEN "reconcile" ELSE "reply"]
  /\ UNCHANGED <<current, session, delivery, wire, received, inbox, tablet>>

HandleReconcile(s) ==
  /\ handler[s].pc = "reconcile"
  /\ rows' = ReconcileDesired(rows, handler[s].display)
  /\ handler' = [handler EXCEPT ![s].pc = "reply"]
  /\ UNCHANGED <<current, session, delivery, wire, received, inbox, tablet, confirmed>>

\* The status is stored before the reply is written, so it stays stored when the
\* write fails.  A reply that was written opens the session for delivery.
HandleReply(s, written) ==
  /\ handler[s].pc = "reply"
  /\ IF written THEN Open(s) ELSE ~Open(s) \/ "write" \in Faults
  /\ session' = [session EXCEPT ![s] =
       [@ EXCEPT !.display = handler[s].display,
                 !.nextSeq = AdvanceSequence(session[s].nextSeq, handler[s].kind),
                 !.ready = session[s].ready \/ written]]
  /\ handler' = [handler EXCEPT ![s] = AtPC(IF written THEN "read" ELSE "exit")]
  /\ UNCHANGED <<rows, current, delivery, wire, received, inbox, tablet, confirmed>>

\* An acknowledgement is read, a row is selected by its sequence ...
ReadAcknowledgement(s) ==
  /\ Takes(s, "read", "acknowledgement")
  /\ handler' = [handler EXCEPT ![s] =
       [@ EXCEPT !.pc = "ackSelect", !.sequence = Head(inbox[s]).number]]
  /\ UNCHANGED <<rows, current, session, delivery, wire, received, tablet, confirmed>>

SelectAcknowledgement(s) ==
  LET row == SelectAcknowledged(rows, handler[s].sequence) IN
  /\ handler[s].pc = "ackSelect"
  /\ handler' = [handler EXCEPT ![s] =
       IF row = NoRow THEN AtPC("read") ELSE [@ EXCEPT !.pc = "ackUpdate", !.row = row]]
  /\ UNCHANGED <<rows, current, session, delivery, wire, received, inbox, tablet, confirmed>>

\* ... and updated, and the session notes the sequence.
NoteAcknowledged(s) ==
  /\ handler[s].pc = "ackUpdate"
  /\ rows' = UpdateAcknowledged(rows, handler[s].row)
  /\ session' = [session EXCEPT ![s].ackedSeq = handler[s].sequence]
  /\ handler' = [handler EXCEPT ![s] = AtPC("read")]
  /\ UNCHANGED <<current, delivery, wire, received, inbox, tablet, confirmed>>

\* The reply failed, or the connection was closed at either end, timed out or
\* sent a bad record; what it still held is lost.  The session is closed, released
\* and unregistered ...
HandlerExit(s) ==
  /\ \/ handler[s].pc = "exit"
     \/ /\ handler[s].pc \in {"first", "read"}
        /\ session[s].closed \/ tablet.session # s \/ "exit" \in Faults
  /\ handler' = [handler EXCEPT ![s] = AtPC(IF session[s].closed THEN "done" ELSE "close")]
  /\ session' = [session EXCEPT ![s] = [@ EXCEPT !.closed = TRUE, !.ready = TRUE]]
  /\ current' = IF current = s THEN NoSession ELSE current
  /\ inbox' = [inbox EXCEPT ![s] = <<>>]
  /\ UNCHANGED <<rows, delivery, wire, received, tablet, confirmed>>

\* ... before its connection is, so that a delivery which has passed its check can
\* still write in between.
HandlerClose(s) ==
  /\ handler[s].pc = "close"
  /\ handler' = [handler EXCEPT ![s] = AtPC("done")]
  /\ UNCHANGED <<rows, current, session, delivery, wire, received, inbox, tablet, confirmed>>

-----------------------------------------------------------------------------
(* The delivery goroutine *)

Deliver(s, pc) == delivery[s].pc = pc

\* deliver waits for ready and takes deliverMu.  A status, an upload and the
\* retry ticker each start it, so it may start at any time; deliverLatest gives
\* up at once on a closed session and copies the status of a live one.
DeliverCheckUngated(s) ==
  /\ Deliver(s, "idle") \/ Deliver(s, "check")
  /\ delivery' = [delivery EXCEPT ![s] =
       [DeliverAt("load") EXCEPT !.display = session[s].display]]
  /\ ~session[s].closed
  /\ UNCHANGED <<rows, current, session, handler, wire, received, inbox, tablet, confirmed>>

DeliverCheck(s) ==
  /\ (Deliver(s, "idle") /\ session[s].ready) \/ Deliver(s, "check")
  /\ delivery' = [delivery EXCEPT ![s] =
       IF session[s].closed THEN DeliverAt("idle")
       ELSE [DeliverAt("load") EXCEPT !.display = session[s].display]]
  /\ UNCHANGED <<rows, current, session, handler, wire, received, inbox, tablet, confirmed>>

\* The connection's attempts, and those of the assignment, are used up.
ExhaustedLate(s) == session[s].attempts > MaxDeliveryAttempts
Exhausted(s) == session[s].attempts >= MaxDeliveryAttempts

AbandonedLate(p) == rows[p].attempts > MaxTotalDeliveryAttempts
Abandoned(p) == rows[p].attempts >= MaxTotalDeliveryAttempts

\* Where deliverLatest goes with pending row p.  due says whether
\* deliveryRetryInterval has passed since the last attempt: any delay may.
NextStepNoRetry(s, p, due) ==
  IF p = NoRow \/ session[s].attemptID = p THEN "idle" ELSE "render"

NextStep(s, p, due) ==
  LET x     == session[s]
      acked == x.lastFrameID = p /\ Acknowledged(s, x.lastSentSeq) IN
  IF p = NoRow \/ x.renderFailedID = p THEN "idle"
  ELSE IF Abandoned(p)                 THEN "giveUp"
  ELSE IF x.attemptID # p              THEN "render"
  ELSE IF acked \/ ~due                THEN "idle"
  ELSE IF Exhausted(s)                 THEN "exhaust"
  ELSE "render"

DeliverLoad(s, due) ==
  LET p    == Pending(rows)
      next == NextStep(s, p, due) IN
  /\ Deliver(s, "load")
  /\ delivery' = [delivery EXCEPT ![s] = IF next = "idle" THEN DeliverAt("idle")
                                         ELSE [@ EXCEPT !.pc = next, !.row = p]]
  /\ session' = IF next = "render" /\ session[s].attemptID # p
                THEN [session EXCEPT ![s] = [@ EXCEPT !.attemptID = p, !.attempts = 0]]
                ELSE session
  /\ UNCHANGED <<rows, current, handler, wire, received, inbox, tablet, confirmed>>

DeliverGiveUp(s) ==
  /\ Deliver(s, "giveUp")
  /\ rows' = MarkFailed(rows, delivery[s].row)
  /\ delivery' = [delivery EXCEPT ![s] = DeliverAt("idle")]
  /\ UNCHANGED <<current, session, handler, wire, received, inbox, tablet, confirmed>>

\* The connection's attempts are used up: make the tablet reconnect.
DeliverExhaust(s) ==
  /\ Deliver(s, "exhaust")
  /\ rows' = MarkSent(rows, delivery[s].row, FALSE)
  /\ session' = [session EXCEPT ![s].closed = TRUE]
  /\ delivery' = [delivery EXCEPT ![s] = DeliverAt("idle")]
  /\ UNCHANGED <<current, handler, wire, received, inbox, tablet, confirmed>>

\* A frame that does not render is no attempt and is not tried again here.
DeliverRenderFailed(s) ==
  /\ Deliver(s, "render") /\ delivery[s].row \in Unrenderable
  /\ rows' = MarkSent(rows, delivery[s].row, FALSE)
  /\ session' = [session EXCEPT ![s].renderFailedID = delivery[s].row]
  /\ delivery' = [delivery EXCEPT ![s] = DeliverAt("idle")]
  /\ UNCHANGED <<current, handler, wire, received, inbox, tablet, confirmed>>

DeliverPrepare(s) ==
  LET sequence == session[s].nextSeq IN
  /\ Deliver(s, "render") /\ delivery[s].row \notin Unrenderable
  /\ session' = [session EXCEPT ![s] = [@ EXCEPT !.attempts = session[s].attempts + 1,
                                                 !.nextSeq = sequence + 1]]
  /\ rows' = PrepareSend(rows, delivery[s].row, sequence)
  /\ delivery' = [delivery EXCEPT ![s] = 
       [@ EXCEPT !.pc = "write", !.display = 0, !.sequence = sequence, !.base = Base(s)]]
  /\ UNCHANGED <<current, handler, wire, received, inbox, tablet, confirmed>>

\* A frame that fits no record is not written, a write to a closed connection
\* fails, and any write may.
DeliverWrite(s, ok) ==
  LET d == delivery[s] IN
  /\ Deliver(s, "write")
  /\ IF ok THEN Open(s) /\ d.row \notin Unbuildable
     ELSE ~Open(s) \/ d.row \in Unbuildable \/ "write" \in Faults
  /\ wire' = IF ok
             THEN [wire EXCEPT ![s] = Append(@,
                     [frame |-> d.row, sequence |-> d.sequence, base |-> d.base,
                      late |-> session[s].closed])]
             ELSE wire
  /\ delivery' = [delivery EXCEPT ![s] = [@ EXCEPT !.pc = "mark", !.base = 0, !.ok = ok]]
  /\ UNCHANGED <<rows, current, session, handler, received, inbox, tablet, confirmed>>

\* After a send, look once more for work; after a failed write, hang up.
DeliverMark(s) ==
  LET d == delivery[s] IN
  /\ Deliver(s, "mark")
  /\ rows' = MarkSent(rows, d.row, d.ok)
  /\ session' = [session EXCEPT ![s] =
       IF d.ok THEN [@ EXCEPT !.lastFrameID = d.row, !.lastSentSeq = d.sequence]
               ELSE [@ EXCEPT !.closed = session[s].closed \/ d.row \notin Unbuildable]]
  /\ delivery' = [delivery EXCEPT ![s] = DeliverAt(IF d.ok THEN "check" ELSE "idle")]
  /\ UNCHANGED <<current, handler, wire, received, inbox, tablet, confirmed>>

-----------------------------------------------------------------------------
(* Uploads, time and restarts *)

\* A session exists once its first status is read.
Accepted(s) == handler[s].pc # "unused"
Used(s) == handler[s].pc \notin {"unused", "first"}

\* A device is known, and can be assigned an image, once it has sent a status.
Upload ==
  /\ Len(rows) < MaxRows
  /\ \E s \in Sessions : Used(s)
  /\ rows' = CreateAssignment(rows)
  /\ UNCHANGED <<current, session, handler, delivery, wire, received, inbox, tablet, confirmed>>

\* The process dies and starts again: only the rows and the tablet remain.
Restart ==
  /\ "restart" \in Faults
  /\ \E s \in Sessions : Accepted(s) /\ (handler[s].pc # "done" \/ delivery[s].pc # "idle")
  /\ current' = NoSession
  /\ session' = [s \in Sessions |->
       IF Accepted(s) THEN [session[s] EXCEPT !.closed = TRUE] ELSE session[s]]
  /\ handler' = [s \in Sessions |->
       IF Accepted(s) THEN AtPC("done") ELSE handler[s]]
  /\ delivery' = [s \in Sessions |-> DeliverAt("idle")]
  /\ inbox' = [s \in Sessions |-> <<>>]
  /\ UNCHANGED <<rows, wire, received, tablet, confirmed>>

-----------------------------------------------------------------------------
(* The tablet *)

\* What the tablet sends to a handler that has ended is lost.
Arrives(s, message) ==
  inbox' = IF handler[s].pc \in {"close", "done"} THEN inbox
           ELSE [inbox EXCEPT ![s] = Append(@, message)]

\* The tablet reads the next record.  It draws and acknowledges it, or it does
\* neither.
TabletReads(drawn) ==
  LET s      == tablet.session
      record == wire[s][received[s] + 1] IN
  /\ s # NoSession
  /\ received[s] < Len(wire[s])
  /\ drawn \/ "ignore" \in Faults
  /\ received' = [received EXCEPT ![s] = @ + 1]
  /\ IF drawn
     THEN /\ tablet' = [tablet EXCEPT !.display = record.frame]
          /\ Arrives(s, Acknowledgement(record.sequence))
     ELSE UNCHANGED <<tablet, inbox>>
  /\ UNCHANGED <<rows, current, session, handler, delivery, wire, confirmed>>

Unanswered(s) ==
  Cardinality({i \in DOMAIN inbox[s] : inbox[s][i].type = "status"})
    + IF handler[s].pc \in {"delivered", "reconcile", "reply"} THEN 1 ELSE 0

\* A wake-up: the tablet reports what it displays.
TabletReports ==
  LET s == tablet.session IN
  /\ s # NoSession
  /\ Unanswered(s) < MaxUnanswered
  /\ \E kind \in Kinds : Arrives(s, Status(kind, tablet.display))
  /\ UNCHANGED <<rows, current, session, handler, delivery, wire, received, tablet, confirmed>>

\* Power loss or Wi-Fi loss: the connection goes, and the image may go with it.
TabletDrops ==
  /\ tablet.session # NoSession
  /\ \E display \in {tablet.display} \cup (IF "blank" \in Faults THEN {0} ELSE {}) :
       tablet' = [session |-> NoSession, display |-> display]
  /\ UNCHANGED <<rows, current, session, handler, delivery, wire, received, inbox, confirmed>>

-----------------------------------------------------------------------------
Handle(s) ==
  \/ Connect(s) \/ ReadFirstStatus(s) \/ ReadStatus(s) \/ HandleDelivered(s) \/ HandleReconcile(s)
  \/ \E written \in BOOLEAN : HandleReply(s, written)
  \/ ReadAcknowledgement(s) \/ SelectAcknowledgement(s) \/ NoteAcknowledged(s)
  \/ HandlerExit(s) \/ HandlerClose(s)

DeliverStep(s) ==
  \/ DeliverCheck(s)
  \/ \E due \in BOOLEAN : DeliverLoad(s, due)
  \/ DeliverGiveUp(s) \/ DeliverExhaust(s) \/ DeliverRenderFailed(s) \/ DeliverPrepare(s)
  \/ \E ok \in BOOLEAN : DeliverWrite(s, ok)
  \/ DeliverMark(s)

Next ==
  \/ \E s \in Sessions : Handle(s) \/ DeliverStep(s)
  \/ Upload \/ Restart
  \/ \E drawn \in BOOLEAN : TabletReads(drawn)
  \/ TabletReports \/ TabletDrops

Spec == Init /\ [][Next]_vars

\* A delivery goroutine that runs goes on running, and the retry ticker keeps
\* starting new ones after the retry interval has passed.  Nothing is assumed of
\* the handlers, the uploads or the tablet.
Fairness ==
  \A s \in Sessions : WF_vars(DeliverStep(s)) /\ SF_vars(DeliverLoad(s, TRUE))

FairSpec == Spec /\ Fairness

-----------------------------------------------------------------------------
(* What delivery guarantees *)

Sent(s) == {wire[s][i].frame : i \in DOMAIN wire[s]}
SendsOf(s, frame) == {i \in DOMAIN wire[s] : wire[s][i].frame = frame}

\* Two connections of a device are never active together: a session that is not
\* registered is closed, and at most one more record goes out on a closed one, by
\* the goroutine that had passed its check (handle, session.close, deliverLatest).
OneActiveSession ==
  \A s \in Sessions :
    /\ Used(s) /\ s # current => session[s].closed
    /\ \A i \in DOMAIN wire[s] : wire[s][i].late => session[s].closed /\ i = Len(wire[s])

\* On one connection a frame is never followed by an older one, whatever was
\* uploaded, delivered or requeued between the sends (Pending, deliverMu).
NeverBackwards ==
  \A s \in Sessions : \A i, j \in DOMAIN wire[s] :
    i <= j => wire[s][i].frame <= wire[s][j].frame

\* One connection carries a frame at most maxDeliveryAttempts times: no upload,
\* requeue or retry in between starts the count again (deliverLatest).
AttemptsPerConnection ==
  \A s \in Sessions : \A f \in 1..MaxRows : Cardinality(SendsOf(s, f)) <= MaxDeliveryAttempts

\* Each connection adds at most one send to the limit on an assignment: the
\* check and the count of a send are apart, and only deliverMu is between them.
TotalAttempts ==
  \A r \in DOMAIN rows :
    rows[r].attempts <= MaxTotalDeliveryAttempts + Cardinality(Sessions) - 1

\* A partial update the tablet is about to draw starts from the frame it
\* displays, even though it may ignore records (deliverLatest, lastFrame).
PartialOnDisplayedBase ==
  \A s \in Sessions :
    tablet.session = s /\ received[s] < Len(wire[s]) =>
      wire[s][received[s] + 1].base \in {0, tablet.display}

\* An assignment counts as delivered only if its own frame went out on some
\* connection and was read there (MarkDelivered).
DeliveredWasRead ==
  \A r \in DOMAIN rows : rows[r].state = "delivered" =>
    \E s \in Sessions : \E i \in 1..received[s] : wire[s][i].frame = r

\* No image record is written to a connection before its first status reply
\* (ready), not even by the goroutines that a failed reply releases.
ImageAfterReply ==
  \A s \in Sessions :
    handler[s].first \/ (handler[s].pc = "exit" /\ ~session[s].ready) => wire[s] = <<>>

\* A late write to a delivered row, by a goroutine of this or of a replaced
\* session, does not undo the delivery; only the newest row is ever requeued.
DeliveredSticks ==
  [][\A r \in DOMAIN rows :
       rows[r].state = "delivered" /\ rows'[r].state # "delivered" =>
         rows'[r].state = "queued" /\ r = Newest(rows)]_vars

\* A pending frame on a live connection does not hang: it is acknowledged there,
\* stops being the pending one, or the connection is closed so that the tablet
\* reconnects (deliverLatest, retryDeliveries).
Settled(s, r) ==
  \/ session[s].closed
  \/ Pending(rows) # r
  \/ session[s].lastFrameID = r /\ Acknowledged(s, session[s].lastSentSeq)

PendingSettles ==
  \A s \in Sessions : \A r \in (1..MaxRows) \ Unrenderable :
    (current = s /\ session[s].ready /\ Pending(rows) = r) ~> Settled(s, r)

-----------------------------------------------------------------------------
(* What the documentation says and the code does not do *)

\* doc/api.md: failed means "not confirmed after nine delivery attempts".
FailedUnconfirmed ==
  \A r \in DOMAIN rows : rows[r].state = "failed" => r \notin confirmed

\* doc/architecture.md: "a frame the tablet has acknowledged on the current
\* connection is not resent".  With a tablet that acknowledges every record it
\* reads, and with every acknowledgement handled, nothing is sent once more.
AckedNotResent ==
  \A s \in Sessions :
    LET p == Pending(rows) IN
    /\ Deliver(s, "load") /\ p # NoRow /\ SendsOf(s, p) # {}
    /\ "ignore" \notin Faults
    /\ received[s] = Len(wire[s]) /\ inbox[s] = <<>> /\ handler[s].pc = "read"
    => NextStep(s, p, TRUE) # "render"

\* doc/architecture.md: after nine attempts the assignment "is not sent again".
SendsWithinTotal == \A r \in DOMAIN rows : rows[r].attempts <= MaxTotalDeliveryAttempts
=============================================================================
