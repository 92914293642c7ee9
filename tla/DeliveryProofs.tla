--------------------------- MODULE DeliveryProofs ---------------------------
(* Theorems of Delivery, for any number of sessions, assignments and attempts. *)
EXTENDS Delivery, AssignmentsProofs

-----------------------------------------------------------------------------
(* The shapes in which the actions update a record *)

\* The ways the actions change the fields of a session.
LEMMA SessionUpdates ==
  ASSUME NEW x \in SessionFields, NEW n \in Nat, NEW m \in Nat, NEW b \in BOOLEAN
  PROVE  /\ [x EXCEPT !.nextSeq = n, !.display = m] \in SessionFields
         /\ [x EXCEPT !.closed = TRUE] \in SessionFields
         /\ [x EXCEPT !.closed = b] \in SessionFields
         /\ [x EXCEPT !.display = m, !.nextSeq = n, !.ready = b] \in SessionFields
         /\ [x EXCEPT !.ackedSeq = n] \in SessionFields
         /\ [x EXCEPT !.closed = TRUE, !.ready = TRUE] \in SessionFields
         /\ [x EXCEPT !.attemptID = n, !.attempts = 0] \in SessionFields
         /\ [x EXCEPT !.renderFailedID = n] \in SessionFields
         /\ [x EXCEPT !.attempts = n, !.nextSeq = m] \in SessionFields
         /\ [x EXCEPT !.lastFrameID = n, !.lastSentSeq = m] \in SessionFields
<1>1. [x EXCEPT !.nextSeq = n, !.display = m] \in SessionFields
  BY DEF SessionFields
<1>2. [x EXCEPT !.closed = TRUE] \in SessionFields /\ [x EXCEPT !.closed = b] \in SessionFields
  BY DEF SessionFields
<1>3. [x EXCEPT !.display = m, !.nextSeq = n, !.ready = b] \in SessionFields
  BY DEF SessionFields
<1>4. [x EXCEPT !.ackedSeq = n] \in SessionFields
  BY DEF SessionFields
<1>5. [x EXCEPT !.closed = TRUE, !.ready = TRUE] \in SessionFields
  BY DEF SessionFields
<1>6. [x EXCEPT !.attemptID = n, !.attempts = 0] \in SessionFields
  BY DEF SessionFields
<1>7. [x EXCEPT !.renderFailedID = n] \in SessionFields
  BY DEF SessionFields
<1>8. [x EXCEPT !.attempts = n, !.nextSeq = m] \in SessionFields
  BY DEF SessionFields
<1>9. [x EXCEPT !.lastFrameID = n, !.lastSentSeq = m] \in SessionFields
  BY DEF SessionFields
<1> QED
  BY <1>1, <1>2, <1>3, <1>4, <1>5, <1>6, <1>7, <1>8, <1>9

\* What each field of a session is.
LEMMA SessionFieldTypes ==
  ASSUME NEW x \in SessionFields
  PROVE  /\ x.closed \in BOOLEAN /\ x.ready \in BOOLEAN
         /\ x.display \in Nat /\ x.nextSeq \in Nat /\ x.ackedSeq \in Nat
         /\ x.lastFrameID \in Nat /\ x.lastSentSeq \in Nat
         /\ x.attemptID \in Nat /\ x.attempts \in Nat /\ x.renderFailedID \in Nat
  BY DEF SessionFields

\* The ways the actions change the locals of a handler.
LEMMA HandlerUpdates ==
  ASSUME NEW x \in HandlerLocals, NEW n \in Nat, NEW pc \in HandlerPC
  PROVE  /\ AtPC(pc) \in HandlerLocals
         /\ [x EXCEPT !.pc = pc] \in HandlerLocals
         /\ [x EXCEPT !.pc = pc, !.sequence = n] \in HandlerLocals
         /\ [x EXCEPT !.pc = pc, !.row = n] \in HandlerLocals
         /\ AtPC(pc).pc = pc
         /\ [x EXCEPT !.pc = pc].pc = pc
         /\ [x EXCEPT !.pc = pc, !.sequence = n].pc = pc
         /\ [x EXCEPT !.pc = pc, !.row = n].pc = pc
         /\ [x EXCEPT !.pc = pc, !.row = n].row = n
<1>1. AtPC(pc) \in HandlerLocals /\ AtPC(pc).pc = pc
  BY DEF HandlerLocals, AtPC
<1>2. [x EXCEPT !.pc = pc] \in HandlerLocals /\ [x EXCEPT !.pc = pc].pc = pc
  BY DEF HandlerLocals
<1>3. /\ [x EXCEPT !.pc = pc, !.sequence = n] \in HandlerLocals
      /\ [x EXCEPT !.pc = pc, !.sequence = n].pc = pc
  BY DEF HandlerLocals
<1>4. /\ [x EXCEPT !.pc = pc, !.row = n] \in HandlerLocals
      /\ [x EXCEPT !.pc = pc, !.row = n].pc = pc
      /\ [x EXCEPT !.pc = pc, !.row = n].row = n
  BY DEF HandlerLocals
<1> QED
  BY <1>1, <1>2, <1>3, <1>4

\* What each local of a handler is.
LEMMA HandlerFieldTypes ==
  ASSUME NEW x \in HandlerLocals
  PROVE  /\ x.pc \in HandlerPC /\ x.first \in BOOLEAN
         /\ x.kind \in Nat /\ x.display \in Nat /\ x.row \in Nat /\ x.sequence \in Nat
  BY DEF HandlerLocals

\* The ways the actions change the locals of a delivery.
LEMMA DeliveryUpdates ==
  ASSUME NEW x \in DeliveryLocals, NEW n \in Nat, NEW m \in Nat, NEW b \in BOOLEAN,
         NEW pc \in DeliveryPC
  PROVE  /\ DeliverAt(pc) \in DeliveryLocals /\ DeliverAt(pc).pc = pc
         /\ LET y == [DeliverAt(pc) EXCEPT !.display = n] IN
            y \in DeliveryLocals /\ y.pc = pc /\ y.row = 0 /\ y.display = n
         /\ LET y == [x EXCEPT !.pc = pc, !.row = n] IN
            y \in DeliveryLocals /\ y.pc = pc /\ y.row = n /\ y.display = x.display
         /\ LET y == [x EXCEPT !.pc = pc, !.display = 0, !.sequence = n, !.base = m] IN
            y \in DeliveryLocals /\ y.pc = pc /\ y.row = x.row /\ y.sequence = n /\ y.base = m
         /\ LET y == [x EXCEPT !.pc = pc, !.base = 0, !.ok = b] IN
            y \in DeliveryLocals /\ y.pc = pc /\ y.row = x.row /\ y.sequence = x.sequence /\ y.ok = b
<1>1. DeliverAt(pc) \in DeliveryLocals /\ DeliverAt(pc).pc = pc
  BY DEF DeliveryLocals, DeliverAt
<1>2. LET y == [DeliverAt(pc) EXCEPT !.display = n] IN
      y \in DeliveryLocals /\ y.pc = pc /\ y.row = 0 /\ y.display = n
  BY DEF DeliveryLocals, DeliverAt
<1>3. LET y == [x EXCEPT !.pc = pc, !.row = n] IN
      y \in DeliveryLocals /\ y.pc = pc /\ y.row = n /\ y.display = x.display
  BY DEF DeliveryLocals
<1>4. LET y == [x EXCEPT !.pc = pc, !.display = 0, !.sequence = n, !.base = m] IN
      y \in DeliveryLocals /\ y.pc = pc /\ y.row = x.row /\ y.sequence = n /\ y.base = m
  BY DEF DeliveryLocals
<1>5. LET y == [x EXCEPT !.pc = pc, !.base = 0, !.ok = b] IN
      y \in DeliveryLocals /\ y.pc = pc /\ y.row = x.row /\ y.sequence = x.sequence /\ y.ok = b
  BY DEF DeliveryLocals
<1> QED
  BY <1>1, <1>2, <1>3, <1>4, <1>5

\* What each local of a delivery is.
LEMMA DeliveryFieldTypes ==
  ASSUME NEW x \in DeliveryLocals
  PROVE  /\ x.pc \in DeliveryPC /\ x.row \in Nat /\ x.display \in Nat
         /\ x.sequence \in Nat /\ x.base \in Nat /\ x.ok \in BOOLEAN
  BY DEF DeliveryLocals

-----------------------------------------------------------------------------
(* Type correctness *)

\* A delivery goroutine and an acknowledgement work on rows that exist: no row
\* is ever removed while they hold its id.
RowsExist ==
  \A s \in Sessions :
    /\ delivery[s].pc \in {"giveUp", "exhaust", "render", "write", "mark"}
         => delivery[s].row \in DOMAIN rows
    /\ handler[s].pc = "ackUpdate" => handler[s].row \in DOMAIN rows

TypeInv == TypeOK /\ RowsExist

\* The handlers keep the types.
LEMMA HandlersKeepTypes ==
  ASSUME TypeInv, NEW s \in Sessions, Handle(s)
  PROVE  TypeInv'
<1> USE DEF TypeInv
<1>1. /\ session[s] \in SessionFields /\ handler[s] \in HandlerLocals
      /\ delivery[s] \in DeliveryLocals /\ inbox[s] \in Seq(Message)
      /\ tablet.display \in Nat /\ tablet.session \in Sessions \cup {NoSession}
      /\ rows \in Seq(Row) /\ Len(rows) <= MaxRows
  BY DEF TypeOK
<1>0. /\ "read" \in HandlerPC /\ "delivered" \in HandlerPC /\ "reconcile" \in HandlerPC
      /\ "reply" \in HandlerPC /\ "ackSelect" \in HandlerPC /\ "ackUpdate" \in HandlerPC
      /\ "exit" \in HandlerPC /\ "close" \in HandlerPC /\ "done" \in HandlerPC
      /\ "first" \in HandlerPC
  BY DEF HandlerPC
<1>2. ASSUME inbox[s] # <<>>
      PROVE  /\ Head(inbox[s]) \in Message /\ Tail(inbox[s]) \in Seq(Message)
             /\ Head(inbox[s]).number \in Nat /\ Head(inbox[s]).display \in Nat
  <2>1. Head(inbox[s]) \in Message /\ Tail(inbox[s]) \in Seq(Message)
    BY <1>1, <1>2, HeadTailProperties
  <2> QED
    BY <2>1 DEF Message
<1>12. ASSUME NEW m \in Message, NEW first \in BOOLEAN
       PROVE  StatusRead(s, first, m) \in HandlerLocals /\ StatusRead(s, first, m).pc = "delivered"
  BY <1>0 DEF StatusRead, HandlerLocals, Message
<1>13. CASE Connect(s)
  <2>1. PICK kind \in Kinds : inbox' = [inbox EXCEPT ![s] = <<Status(kind, tablet.display)>>]
    BY <1>13 DEF Connect
  <2>2. Status(kind, tablet.display) \in Message
    BY <1>1, KindsAssumption DEF Status, Message
  <2>3. inbox' \in [Sessions -> Seq(Message)]
    BY <2>1, <2>2 DEF TypeOK
  <2>4. tablet' \in [session : Sessions \cup {NoSession}, display : Nat]
    BY <1>13 DEF Connect, TypeOK
  <2>5. AtPC("first") \in HandlerLocals /\ AtPC("first").pc = "first"
    BY <1>0, <1>1, HandlerUpdates
  <2> QED
    BY <1>13, <2>3, <2>4, <2>5 DEF TypeOK, RowsExist, Connect
<1>3. CASE ReadFirstStatus(s)
  <2> DEFINE m == Head(inbox[s])
  <2>1. m \in Message /\ m.number + 1 \in Nat /\ m.display \in Nat
    BY <1>2, <1>3 DEF ReadFirstStatus, Takes
  <2>2. handler' = [handler EXCEPT ![s] = StatusRead(s, TRUE, m)] /\ session' = Register(s, m)
    BY <1>3 DEF ReadFirstStatus
  <2> HIDE DEF m
  <2>3. session' \in [Sessions -> SessionFields]
    BY <1>1, <2>1, <2>2, SessionUpdates DEF TypeOK, Register
  <2>4. inbox' \in [Sessions -> Seq(Message)]
    BY <1>2, <1>3 DEF TypeOK, ReadFirstStatus, Takes
  <2>5. StatusRead(s, TRUE, m) \in HandlerLocals /\ StatusRead(s, TRUE, m).pc = "delivered"
    BY <1>12, <2>1
  <2> QED
    BY <1>3, <2>2, <2>3, <2>4, <2>5 DEF TypeOK, RowsExist, ReadFirstStatus
<1>4. CASE ReadStatus(s)
  <2> DEFINE m == Head(inbox[s])
  <2>1. m \in Message
    BY <1>2, <1>4 DEF ReadStatus, Takes
  <2>2. handler' = [handler EXCEPT ![s] = StatusRead(s, FALSE, m)]
    BY <1>4 DEF ReadStatus
  <2>3. inbox' \in [Sessions -> Seq(Message)]
    BY <1>2, <1>4 DEF TypeOK, ReadStatus, Takes
  <2> HIDE DEF m
  <2>4. StatusRead(s, FALSE, m) \in HandlerLocals /\ StatusRead(s, FALSE, m).pc = "delivered"
    BY <1>12, <2>1
  <2> QED
    BY <1>4, <2>2, <2>3, <2>4 DEF TypeOK, RowsExist, ReadStatus
<1>5. CASE HandleDelivered(s)
  <2>1. rows' \in Seq(Row) /\ Len(rows') = Len(rows) /\ DOMAIN rows' = DOMAIN rows
    BY <1>1, <1>5, HandlerFieldTypes, MarkDeliveredFacts DEF HandleDelivered
  <2>2. PICK pc \in {"reconcile", "reply"} : handler' = [handler EXCEPT ![s].pc = pc]
    BY <1>5 DEF HandleDelivered
  <2>3. [handler[s] EXCEPT !.pc = pc] \in HandlerLocals /\ [handler[s] EXCEPT !.pc = pc].pc = pc
    <3>1. pc \in HandlerPC
      BY <1>0
    <3> QED
      BY <1>1, <3>1, HandlerUpdates
  <2>4. TypeOK'
    <3>1. confirmed' \subseteq Nat
      BY <1>1, <1>5, LenProperties DEF TypeOK, HandleDelivered
    <3> QED
      BY <1>1, <1>5, <2>1, <2>2, <2>3, <3>1 DEF TypeOK, HandleDelivered
  <2> QED
    BY <1>5, <2>1, <2>2, <2>3, <2>4 DEF TypeOK, RowsExist, HandleDelivered
<1>6. CASE HandleReconcile(s)
  <2>1. rows' \in Seq(Row) /\ Len(rows') = Len(rows) /\ DOMAIN rows' = DOMAIN rows
    BY <1>1, <1>6, HandlerFieldTypes, ReconcileDesiredFacts DEF HandleReconcile
  <2>2. /\ [handler[s] EXCEPT !.pc = "reply"] \in HandlerLocals
        /\ [handler[s] EXCEPT !.pc = "reply"].pc = "reply"
    BY <1>0, <1>1, HandlerUpdates
  <2>3. TypeOK'
    BY <1>1, <1>6, <2>1, <2>2 DEF TypeOK, HandleReconcile
  <2> QED
    BY <1>6, <2>1, <2>2, <2>3 DEF TypeOK, RowsExist, HandleReconcile
<1>7. ASSUME NEW written \in BOOLEAN, HandleReply(s, written)
      PROVE  TypeInv'
  <2> DEFINE next == AdvanceSequence(session[s].nextSeq, handler[s].kind)
  <2>1. next \in Nat /\ handler[s].display \in Nat /\ (session[s].ready \/ written) \in BOOLEAN
    BY <1>1, SessionFieldTypes, HandlerFieldTypes DEF AdvanceSequence
  <2>2. [session[s] EXCEPT !.display = handler[s].display, !.nextSeq = next,
                           !.ready = session[s].ready \/ written] \in SessionFields
    <3> HIDE DEF next
    <3> QED
      BY <1>1, <2>1, SessionUpdates
  <2>3. session' \in [Sessions -> SessionFields]
    BY <1>7, <2>2 DEF TypeOK, HandleReply
  <2>4. PICK pc \in {"read", "exit"} : handler' = [handler EXCEPT ![s] = AtPC(pc)]
    BY <1>7 DEF HandleReply
  <2>5. AtPC(pc) \in HandlerLocals /\ AtPC(pc).pc = pc
    BY <1>0, <1>1, HandlerUpdates
  <2> QED
    BY <1>7, <2>3, <2>4, <2>5 DEF TypeOK, RowsExist, HandleReply
<1>8. CASE ReadAcknowledgement(s)
  <2> DEFINE n == Head(inbox[s]).number
  <2>1. n \in Nat
    BY <1>2, <1>8 DEF ReadAcknowledgement, Takes
  <2>2. handler' = [handler EXCEPT ![s] = [@ EXCEPT !.pc = "ackSelect", !.sequence = n]]
    BY <1>8 DEF ReadAcknowledgement
  <2>3. inbox' \in [Sessions -> Seq(Message)]
    BY <1>2, <1>8 DEF TypeOK, ReadAcknowledgement, Takes
  <2> HIDE DEF n
  <2>4. /\ [handler[s] EXCEPT !.pc = "ackSelect", !.sequence = n] \in HandlerLocals
        /\ [handler[s] EXCEPT !.pc = "ackSelect", !.sequence = n].pc = "ackSelect"
    BY <1>0, <1>1, <2>1 DEF HandlerLocals
  <2> QED
    BY <1>8, <2>2, <2>3, <2>4 DEF TypeOK, RowsExist, ReadAcknowledgement
<1>9. CASE SelectAcknowledgement(s)
  <2> DEFINE row == SelectAcknowledged(rows, handler[s].sequence)
  <2>1. row \in DOMAIN rows \cup {0} /\ row \in Nat
    BY <1>1, HandlerFieldTypes, SelectAcknowledgedFacts, LenProperties
  <2>2. AtPC("read") \in HandlerLocals /\ AtPC("read").pc = "read"
    BY <1>0, <1>1, HandlerUpdates
  <2>3. /\ [handler[s] EXCEPT !.pc = "ackUpdate", !.row = row] \in HandlerLocals
        /\ [handler[s] EXCEPT !.pc = "ackUpdate", !.row = row].row = row
    <3> HIDE DEF row
    <3> QED
      BY <1>0, <1>1, <2>1 DEF HandlerLocals
  <2>4. handler' = [handler EXCEPT ![s] =
          IF row = 0 THEN AtPC("read") ELSE [@ EXCEPT !.pc = "ackUpdate", !.row = row]]
    BY <1>9 DEF SelectAcknowledgement, NoRow
  <2> HIDE DEF row
  <2> QED
    BY <1>9, <2>1, <2>2, <2>3, <2>4 DEF TypeOK, RowsExist, SelectAcknowledgement
<1>10. CASE NoteAcknowledged(s)
  <2>1. handler[s].row \in DOMAIN rows /\ handler[s].sequence \in Nat
    BY <1>1, <1>10, HandlerFieldTypes DEF RowsExist, NoteAcknowledged
  <2>2. rows' \in Seq(Row) /\ Len(rows') = Len(rows) /\ DOMAIN rows' = DOMAIN rows
    BY <1>1, <1>10, <2>1, UpdateAcknowledgedFacts DEF NoteAcknowledged
  <2>3. AtPC("read") \in HandlerLocals /\ AtPC("read").pc = "read"
    BY <1>0, <1>1, HandlerUpdates
  <2>4. [session[s] EXCEPT !.ackedSeq = handler[s].sequence] \in SessionFields
    BY <1>1, <2>1, SessionUpdates
  <2> QED
    BY <1>10, <2>2, <2>3, <2>4 DEF TypeOK, RowsExist, NoteAcknowledged
<1>11. CASE HandlerExit(s)
  <2>1. PICK pc \in {"close", "done"} : handler' = [handler EXCEPT ![s] = AtPC(pc)]
    BY <1>11 DEF HandlerExit
  <2>2. AtPC(pc) \in HandlerLocals /\ AtPC(pc).pc = pc
    BY <1>0, <1>1, HandlerUpdates
  <2>3. [session[s] EXCEPT !.closed = TRUE, !.ready = TRUE] \in SessionFields
    BY <1>1, SessionUpdates
  <2>4. inbox' \in [Sessions -> Seq(Message)]
    BY <1>11, EmptySeq DEF TypeOK, HandlerExit
  <2> QED
    BY <1>11, <2>1, <2>2, <2>3, <2>4 DEF TypeOK, RowsExist, HandlerExit
<1>14. CASE HandlerClose(s)
  <2>1. AtPC("done") \in HandlerLocals /\ AtPC("done").pc = "done"
    BY <1>0, <1>1, HandlerUpdates
  <2> QED
    BY <1>14, <2>1 DEF TypeOK, RowsExist, HandlerClose
<1> QED
  BY <1>3, <1>4, <1>5, <1>6, <1>7, <1>8, <1>9, <1>10, <1>11, <1>13, <1>14 DEF Handle

\* A pending row is needed for every step but the last one.
LEMMA NextStepRange ==
  ASSUME NEW s \in Sessions, NEW p, NEW due \in BOOLEAN
  PROVE  /\ NextStep(s, p, due) \in {"idle", "giveUp", "exhaust", "render"}
         /\ NextStep(s, p, due) # "idle" => p # NoRow
  BY Zenon DEF NextStep

\* The delivery goroutine keeps the types.
LEMMA DeliveryKeepsTypes ==
  ASSUME TypeInv, NEW s \in Sessions, DeliverStep(s)
  PROVE  TypeInv'
<1> USE DEF TypeInv
<1>1. /\ session[s] \in SessionFields /\ delivery[s] \in DeliveryLocals
      /\ rows \in Seq(Row) /\ Len(rows) <= MaxRows
  BY DEF TypeOK
<1>2. /\ "idle" \in DeliveryPC /\ "check" \in DeliveryPC /\ "load" \in DeliveryPC
      /\ "giveUp" \in DeliveryPC /\ "exhaust" \in DeliveryPC /\ "render" \in DeliveryPC
      /\ "write" \in DeliveryPC /\ "mark" \in DeliveryPC
  BY DEF DeliveryPC
<1>3. \A pc \in DeliveryPC : DeliverAt(pc) \in DeliveryLocals /\ DeliverAt(pc).pc = pc
  BY DEF DeliverAt, DeliveryLocals
<1>4. /\ session[s].display \in Nat /\ session[s].nextSeq \in Nat /\ session[s].attempts \in Nat
      /\ session[s].lastFrameID \in Nat
      /\ delivery[s].row \in Nat /\ delivery[s].sequence \in Nat /\ delivery[s].base \in Nat
  BY <1>1, SessionFieldTypes, DeliveryFieldTypes
<1>5. delivery[s].pc \in {"giveUp", "exhaust", "render", "write", "mark"} =>
        delivery[s].row \in DOMAIN rows
  BY DEF RowsExist
<1>6. CASE DeliverCheck(s)
  <2>1. LET x == [DeliverAt("load") EXCEPT !.display = session[s].display] IN
        x \in DeliveryLocals /\ x.pc = "load"
    BY <1>4, <1>2 DEF DeliverAt, DeliveryLocals
  <2> QED
    BY <1>2, <1>3, <1>6, <2>1 DEF TypeOK, RowsExist, DeliverCheck
<1>7. ASSUME NEW due \in BOOLEAN, DeliverLoad(s, due)
      PROVE  TypeInv'
  <2> DEFINE p    == Pending(rows)
             next == NextStep(s, p, due)
  <2>1. p \in Nat /\ (p # 0 => p \in DOMAIN rows)
    BY <1>1, PendingFacts, LenProperties
  <2>2. next \in {"idle", "giveUp", "exhaust", "render"} /\ (next # "idle" => p # 0)
    BY NextStepRange DEF NoRow
  <2>3. /\ delivery' = [delivery EXCEPT ![s] = IF next = "idle" THEN DeliverAt("idle")
                                              ELSE [@ EXCEPT !.pc = next, !.row = p]]
        /\ session' = IF next = "render" /\ session[s].attemptID # p
                      THEN [session EXCEPT ![s] = [@ EXCEPT !.attemptID = p, !.attempts = 0]]
                      ELSE session
    BY <1>7 DEF DeliverLoad
  <2> HIDE DEF p, next
  <2>4. next \in DeliveryPC
    BY <1>2, <2>2
  <2>5. /\ [delivery[s] EXCEPT !.pc = next, !.row = p] \in DeliveryLocals
        /\ [delivery[s] EXCEPT !.pc = next, !.row = p].row = p
    BY <1>1, <2>1, <2>4 DEF DeliveryLocals
  <2>6. [session[s] EXCEPT !.attemptID = p, !.attempts = 0] \in SessionFields
    BY <1>1, <2>1, SessionUpdates
  <2>7. TypeOK'
    BY <1>2, <1>3, <1>7, <2>3, <2>5, <2>6 DEF TypeOK, DeliverLoad
  <2>8. delivery'[s].pc # "idle" => delivery'[s].row \in DOMAIN rows
    BY <1>2, <1>3, <2>1, <2>2, <2>3, <2>5 DEF TypeOK
  <2> QED
    BY <1>7, <2>3, <2>7, <2>8 DEF TypeOK, RowsExist, DeliverLoad
<1>8. CASE DeliverGiveUp(s)
  <2>1. rows' \in Seq(Row) /\ Len(rows') = Len(rows) /\ DOMAIN rows' = DOMAIN rows
    BY <1>1, <1>5, <1>8, SetUnlessDeliveredFacts DEF DeliverGiveUp, Deliver, MarkFailed, States
  <2> QED
    BY <1>2, <1>3, <1>8, <2>1 DEF TypeOK, RowsExist, DeliverGiveUp
<1>9. CASE DeliverExhaust(s)
  <2>1. rows' \in Seq(Row) /\ Len(rows') = Len(rows) /\ DOMAIN rows' = DOMAIN rows
    BY <1>1, <1>5, <1>9, SetUnlessDeliveredFacts DEF DeliverExhaust, Deliver, MarkSent, States
  <2>2. [session[s] EXCEPT !.closed = TRUE] \in SessionFields
    BY <1>1, SessionUpdates
  <2> QED
    BY <1>2, <1>3, <1>9, <2>1, <2>2 DEF TypeOK, RowsExist, DeliverExhaust
<1>10. CASE DeliverRenderFailed(s)
  <2>1. rows' \in Seq(Row) /\ Len(rows') = Len(rows) /\ DOMAIN rows' = DOMAIN rows
    BY <1>1, <1>5, <1>10, SetUnlessDeliveredFacts
       DEF DeliverRenderFailed, Deliver, MarkSent, States
  <2>2. [session[s] EXCEPT !.renderFailedID = delivery[s].row] \in SessionFields
    BY <1>1, <1>4, SessionUpdates
  <2> QED
    BY <1>2, <1>3, <1>10, <2>1, <2>2 DEF TypeOK, RowsExist, DeliverRenderFailed
<1>11. CASE DeliverPrepare(s)
  <2> DEFINE base == Base(s)
             n    == session[s].nextSeq
             k    == session[s].attempts + 1
             m    == n + 1
  <2>1. base \in Nat /\ n \in Nat /\ k \in Nat /\ m \in Nat
    BY <1>4 DEF Base
  <2>2. /\ rows' = PrepareSend(rows, delivery[s].row, n)
        /\ session' = [session EXCEPT ![s] = [@ EXCEPT !.attempts = k, !.nextSeq = m]]
        /\ delivery' = [delivery EXCEPT ![s] =
             [@ EXCEPT !.pc = "write", !.display = 0, !.sequence = n, !.base = base]]
    BY <1>11 DEF DeliverPrepare
  <2>3. rows' \in Seq(Row) /\ Len(rows') = Len(rows) /\ DOMAIN rows' = DOMAIN rows
    BY <1>1, <1>5, <1>11, <2>1, <2>2, PrepareSendFacts DEF DeliverPrepare, Deliver
  <2> HIDE DEF base, n, k, m
  <2>4. [session[s] EXCEPT !.attempts = k, !.nextSeq = m] \in SessionFields
    BY <1>1, <2>1, SessionUpdates
  <2>5. LET x == [delivery[s] EXCEPT !.pc = "write", !.display = 0, !.sequence = n, !.base = base]
        IN  x \in DeliveryLocals /\ x.row = delivery[s].row
    BY <1>1, <1>2, <2>1 DEF DeliveryLocals
  <2> QED
    BY <1>5, <1>11, <2>2, <2>3, <2>4, <2>5 DEF TypeOK, RowsExist, DeliverPrepare, Deliver
<1>12. ASSUME NEW ok \in BOOLEAN, DeliverWrite(s, ok)
       PROVE  TypeInv'
  <2>1. LET x == [delivery[s] EXCEPT !.pc = "mark", !.base = 0, !.ok = ok]
        IN  x \in DeliveryLocals /\ x.row = delivery[s].row
    BY <1>1, <1>2 DEF DeliveryLocals
  <2>2. [frame |-> delivery[s].row, sequence |-> delivery[s].sequence,
         base |-> delivery[s].base, late |-> session[s].closed] \in Record
    BY <1>1, <1>4, SessionFieldTypes DEF Record
  <2>3. wire' \in [Sessions -> Seq(Record)]
    BY <1>12, <2>2, AppendProperties DEF TypeOK, DeliverWrite
  <2> QED
    BY <1>5, <1>12, <2>1, <2>3 DEF TypeOK, RowsExist, DeliverWrite, Deliver
<1>13. CASE DeliverMark(s)
  <2>1. rows' \in Seq(Row) /\ Len(rows') = Len(rows) /\ DOMAIN rows' = DOMAIN rows
    BY <1>1, <1>5, <1>13, SetUnlessDeliveredFacts DEF DeliverMark, Deliver, MarkSent, States
  <2>2. /\ [session[s] EXCEPT !.closed = session[s].closed \/ delivery[s].row \notin Unbuildable]
             \in SessionFields
        /\ [session[s] EXCEPT !.lastFrameID = delivery[s].row,
                              !.lastSentSeq = delivery[s].sequence] \in SessionFields
    <3>1. (session[s].closed \/ delivery[s].row \notin Unbuildable) \in BOOLEAN
      BY <1>1, SessionFieldTypes
    <3> QED
      BY <1>1, <1>4, <3>1, SessionUpdates
  <2>3. session' \in [Sessions -> SessionFields]
    BY <1>13, <2>2 DEF TypeOK, DeliverMark
  <2> QED
    BY <1>2, <1>3, <1>13, <2>1, <2>3 DEF TypeOK, RowsExist, DeliverMark
<1> QED
  BY <1>6, <1>7, <1>8, <1>9, <1>10, <1>11, <1>12, <1>13 DEF DeliverStep

\* A message that arrives leaves queues of messages.
LEMMA ArrivesTypes ==
  ASSUME TypeInv, NEW s \in Sessions, NEW m \in Message, Arrives(s, m)
  PROVE  inbox' \in [Sessions -> Seq(Message)]
<1>1. inbox \in [Sessions -> Seq(Message)] /\ inbox[s] \in Seq(Message)
  BY DEF TypeInv, TypeOK
<1>2. Append(inbox[s], m) \in Seq(Message)
  BY <1>1, AppendProperties
<1> QED
  BY <1>1, <1>2 DEF Arrives

\* Uploads, restarts and the tablet keep the types.
LEMMA SurroundingsKeepTypes ==
  ASSUME TypeInv,
         Upload \/ Restart \/ (\E drawn \in BOOLEAN : TabletReads(drawn)) \/ TabletReports \/ TabletDrops
  PROVE  TypeInv'
<1> USE DEF TypeInv
<1>1. CASE Upload
  <2>1. /\ rows' \in Seq(Row) /\ Len(rows') = Len(rows) + 1
        /\ DOMAIN rows \subseteq DOMAIN rows'
    BY <1>1, CreateAssignmentFacts, LenProperties DEF Upload, TypeOK
  <2>2. Len(rows') <= MaxRows
    BY <1>1, <2>1, BoundsAssumption, LenProperties DEF Upload, TypeOK
  <2> QED
    BY <1>1, <2>1, <2>2 DEF TypeOK, RowsExist, Upload
<1>2. CASE Restart
  <2>1. AtPC("done") \in HandlerLocals /\ AtPC("done").pc = "done"
    BY DEF AtPC, HandlerLocals, HandlerPC
  <2>2. DeliverAt("idle") \in DeliveryLocals /\ DeliverAt("idle").pc = "idle"
    BY DEF DeliverAt, DeliveryLocals, DeliveryPC
  <2>3. session' \in [Sessions -> SessionFields]
    BY <1>2, SessionUpdates DEF TypeOK, Restart
  <2>4. inbox' \in [Sessions -> Seq(Message)]
    BY <1>2, EmptySeq DEF Restart
  <2> QED
    BY <1>2, <2>1, <2>2, <2>3, <2>4 DEF TypeOK, RowsExist, Restart
<1>3. ASSUME NEW drawn \in BOOLEAN, TabletReads(drawn)
      PROVE  TypeInv'
  <2> DEFINE s      == tablet.session
             record == wire[s][received[s] + 1]
  <2>1. s \in Sessions /\ received[s] \in Nat /\ received[s] < Len(wire[s])
    BY <1>3 DEF TabletReads, TypeOK
  <2>2. record \in Record
    BY <2>1, ElementOfSeq, LenProperties DEF TypeOK
  <2>3. record.frame \in Nat /\ record.sequence \in Nat
    BY <2>2 DEF Record
  <2>4. tablet' \in [session : Sessions \cup {NoSession}, display : Nat]
    BY <1>3, <2>3 DEF TabletReads, TypeOK
  <2>5. inbox' \in [Sessions -> Seq(Message)]
    <3>1. Acknowledgement(record.sequence) \in Message
      BY <2>3 DEF Acknowledgement, Message
    <3>2. inbox' = inbox \/ Arrives(s, Acknowledgement(record.sequence))
      BY <1>3 DEF TabletReads
    <3>3. inbox \in [Sessions -> Seq(Message)]
      BY DEF TypeOK
    <3> HIDE DEF s, record
    <3> QED
      BY <2>1, <3>1, <3>2, <3>3, ArrivesTypes
  <2>6. received' \in [Sessions -> Nat]
    <3>1. received' = [received EXCEPT ![s] = @ + 1]
      BY <1>3 DEF TabletReads
    <3> HIDE DEF s
    <3> QED
      BY <2>1, <3>1 DEF TypeOK
  <2>7. /\ rows' = rows /\ current' = current /\ session' = session /\ handler' = handler
        /\ delivery' = delivery /\ wire' = wire /\ confirmed' = confirmed
    BY <1>3 DEF TabletReads
  <2> HIDE DEF s, record
  <2> QED
    BY <2>4, <2>5, <2>6, <2>7 DEF TypeOK, RowsExist
<1>5. CASE TabletReports
  <2> DEFINE s == tablet.session
  <2>1. PICK kind \in Kinds : Arrives(s, Status(kind, tablet.display))
    BY <1>5 DEF TabletReports
  <2>2. Status(kind, tablet.display) \in Message /\ s \in Sessions
    BY <1>5, KindsAssumption DEF TabletReports, TypeOK, Status, Message
  <2>3. inbox' \in [Sessions -> Seq(Message)]
    <3> HIDE DEF s
    <3> QED
      BY <2>1, <2>2, ArrivesTypes
  <2> QED
    BY <1>5, <2>3 DEF TypeOK, RowsExist, TabletReports
<1>4. CASE TabletDrops
  BY <1>4 DEF TypeOK, RowsExist, TabletDrops
<1> QED
  BY <1>1, <1>2, <1>3, <1>4, <1>5

\* A server that starts has no session, and the rows it finds are typed.
LEMMA InitTypes == Init => TypeInv
<1> SUFFICES ASSUME Init PROVE TypeInv
  OBVIOUS
<1>1. AtPC("unused") \in HandlerLocals /\ AtPC("unused").pc = "unused"
  BY DEF AtPC, HandlerLocals, HandlerPC
<1>2. DeliverAt("idle") \in DeliveryLocals /\ DeliverAt("idle").pc = "idle"
  BY DEF DeliverAt, DeliveryLocals, DeliveryPC
<1>3. session \in [Sessions -> SessionFields]
  BY DEF Init, SessionFields
<1>4. rows \in Seq(Row) /\ Len(rows) <= MaxRows
  BY BoundsAssumption, EmptySeq DEF Init
<1>5. wire \in [Sessions -> Seq(Record)] /\ inbox \in [Sessions -> Seq(Message)]
  BY EmptySeq DEF Init
<1> QED
  BY <1>1, <1>2, <1>3, <1>4, <1>5 DEF Init, TypeInv, TypeOK, RowsExist

\* Every step keeps the types.
LEMMA NextTypes == TypeInv /\ [Next]_vars => TypeInv'
<1> SUFFICES ASSUME TypeInv, [Next]_vars PROVE TypeInv'
  OBVIOUS
<1>1. CASE \E s \in Sessions : Handle(s) \/ DeliverStep(s)
  BY <1>1, HandlersKeepTypes, DeliveryKeepsTypes
<1>2. CASE Upload \/ Restart \/ (\E drawn \in BOOLEAN : TabletReads(drawn)) \/ TabletReports \/ TabletDrops
  BY <1>2, SurroundingsKeepTypes
<1>3. CASE UNCHANGED vars
  BY <1>3 DEF vars, TypeInv, TypeOK, RowsExist
<1> QED
  BY <1>1, <1>2, <1>3 DEF Next

\* Every variable keeps its type, and every row id held by a handler or by a
\* delivery goroutine is the id of a row.
THEOREM TypesAlways == Spec => []TypeInv
  BY InitTypes, NextTypes, PTL DEF Spec

\* Every variable keeps its type, in the form the runs check.
THEOREM TypeCorrect == Spec => []TypeOK
<1>1. TypeInv => TypeOK
  BY DEF TypeInv
<1> QED
  BY <1>1, TypesAlways, PTL
-----------------------------------------------------------------------------
(* The rows *)

\* No row is ever removed, and a row stops being delivered only when it is the
\* newest one and is queued again.
LEMMA RowsStep ==
  ASSUME TypeInv, [Next]_vars
  PROVE  /\ Len(rows) <= Len(rows')
         /\ \A r \in DOMAIN rows :
              rows[r].state = "delivered" /\ rows'[r].state # "delivered" =>
                rows'[r].state = "queued" /\ r = Newest(rows)
<1> DEFINE Step == /\ Len(rows) <= Len(rows')
                   /\ \A r \in DOMAIN rows :
                        rows[r].state = "delivered" /\ rows'[r].state # "delivered" =>
                          rows'[r].state = "queued" /\ r = Newest(rows)
<1>1. rows \in Seq(Row) /\ Len(rows) \in Nat
  BY LenProperties DEF TypeInv, TypeOK
<1>2. \A s \in Sessions : handler[s] \in HandlerLocals /\ delivery[s] \in DeliveryLocals
  BY DEF TypeInv, TypeOK
<1>3. \A s \in Sessions : handler[s].display \in Nat
  BY <1>2, HandlerFieldTypes
<1>4. ASSUME rows' = rows
      PROVE  Step
  BY <1>1, <1>4
<1>5. ASSUME NEW s \in Sessions, Handle(s)
      PROVE  Step
  <2>1. CASE HandleDelivered(s)
    BY <1>1, <1>3, <2>1, MarkDeliveredFacts DEF HandleDelivered
  <2>2. CASE HandleReconcile(s)
    BY <1>1, <1>3, <2>2, ReconcileDesiredFacts DEF HandleReconcile, Newest
  <2>3. CASE NoteAcknowledged(s)
    <3>1. handler[s].row \in DOMAIN rows
      BY <2>3 DEF NoteAcknowledged, TypeInv, RowsExist
    <3> QED
      BY <1>1, <2>3, <3>1, UpdateAcknowledgedFacts DEF NoteAcknowledged
  <2>4. CASE ~(HandleDelivered(s) \/ HandleReconcile(s) \/ NoteAcknowledged(s))
    <3>1. rows' = rows
      BY <1>5, <2>4 DEF Handle, Connect, ReadFirstStatus, ReadStatus, HandleReply,
                        ReadAcknowledgement, SelectAcknowledgement, HandlerExit, HandlerClose
    <3> QED
      BY <1>4, <3>1
  <2> QED
    BY <2>1, <2>2, <2>3, <2>4
<1>6. ASSUME NEW s \in Sessions, DeliverStep(s)
      PROVE  Step
  <2>1. delivery[s].pc \in {"giveUp", "exhaust", "render", "write", "mark"} =>
          delivery[s].row \in DOMAIN rows
    BY DEF TypeInv, RowsExist
  <2>0. ASSUME delivery[s].row \in DOMAIN rows, NEW state \in States,
               rows' = SetUnlessDelivered(rows, delivery[s].row, state)
        PROVE  Step
    BY <1>1, <2>0, SetUnlessDeliveredFacts
  <2>2. CASE DeliverGiveUp(s)
    <3>1. rows' = SetUnlessDelivered(rows, delivery[s].row, "failed") /\ "failed" \in States
      BY <2>2 DEF DeliverGiveUp, MarkFailed, States
    <3> QED
      BY <2>0, <2>1, <2>2, <3>1 DEF DeliverGiveUp, Deliver
  <2>3. CASE DeliverExhaust(s)
    <3>1. rows' = SetUnlessDelivered(rows, delivery[s].row, "error") /\ "error" \in States
      BY <2>3 DEF DeliverExhaust, MarkSent, States
    <3> QED
      BY <2>0, <2>1, <2>3, <3>1 DEF DeliverExhaust, Deliver
  <2>4. CASE DeliverRenderFailed(s)
    <3>1. rows' = SetUnlessDelivered(rows, delivery[s].row, "error") /\ "error" \in States
      BY <2>4 DEF DeliverRenderFailed, MarkSent, States
    <3> QED
      BY <2>0, <2>1, <2>4, <3>1 DEF DeliverRenderFailed, Deliver
  <2>5. CASE DeliverPrepare(s)
    <3>1. session[s].nextSeq \in Nat
      BY SessionFieldTypes DEF TypeInv, TypeOK
    <3> QED
      BY <1>1, <2>1, <2>5, <3>1, PrepareSendFacts DEF DeliverPrepare, Deliver
  <2>6. CASE DeliverMark(s)
    <3>1. PICK state \in {"sent", "error"} : rows' = SetUnlessDelivered(rows, delivery[s].row, state)
      BY <2>6 DEF DeliverMark, MarkSent
    <3>2. state \in States
      BY DEF States
    <3> QED
      BY <2>0, <2>1, <2>6, <3>1, <3>2 DEF DeliverMark, Deliver
  <2>7. CASE DeliverCheck(s)
    BY <1>4, <2>7 DEF DeliverCheck
  <2>8. ASSUME NEW due \in BOOLEAN, DeliverLoad(s, due)
        PROVE  Step
    BY <1>4, <2>8 DEF DeliverLoad
  <2>9. ASSUME NEW ok \in BOOLEAN, DeliverWrite(s, ok)
        PROVE  Step
    BY <1>4, <2>9 DEF DeliverWrite
  <2> QED
    BY <1>6, <2>2, <2>3, <2>4, <2>5, <2>6, <2>7, <2>8, <2>9 DEF DeliverStep
<1>7. CASE Upload
  BY <1>1, <1>7, CreateAssignmentFacts DEF Upload
<1>8. CASE Restart \/ (\E drawn \in BOOLEAN : TabletReads(drawn)) \/ TabletReports \/ TabletDrops
  <2>1. rows' = rows
    BY <1>8 DEF Restart, TabletReads, TabletReports, TabletDrops
  <2> QED
    BY <1>4, <2>1
<1>9. CASE UNCHANGED vars
  BY <1>4, <1>9 DEF vars
<1> QED
  BY <1>5, <1>6, <1>7, <1>8, <1>9 DEF Next

\* A late write by a goroutine of this or of a replaced session never undoes a
\* delivery: only a handler that finds another image displayed does, and only
\* to the newest assignment.
THEOREM DeliveredStays == Spec => DeliveredSticks
<1>1. TypeInv /\ [Next]_vars =>
        [\A r \in DOMAIN rows :
           rows[r].state = "delivered" /\ rows'[r].state # "delivered" =>
             rows'[r].state = "queued" /\ r = Newest(rows)]_vars
  BY RowsStep
<1> QED
  BY <1>1, TypesAlways, PTL DEF Spec, DeliveredSticks

-----------------------------------------------------------------------------
(* The sessions *)

\* What a handler leaves alone.
LEMMA HandleFrame ==
  ASSUME TypeInv, NEW s \in Sessions, Handle(s), NEW t \in Sessions
  PROVE  /\ wire' = wire /\ delivery' = delivery
         /\ t # s => handler'[t] = handler[t]
         /\ session[t].closed => session'[t].closed
         /\ t # s => session'[t].ready = session[t].ready
<1> USE DEF TypeInv, TypeOK
<1>1. /\ session[s] \in SessionFields /\ session[t] \in SessionFields
      /\ session \in [Sessions -> SessionFields]
  OBVIOUS
<1>2. CASE Connect(s) \/ HandlerClose(s)
  BY <1>2 DEF Connect, HandlerClose
<1>11. CASE ReadFirstStatus(s)
  <2>1. /\ session[t].closed => session'[t].closed
        /\ t # s => session'[t].ready = session[t].ready
    BY <1>1, <1>11 DEF ReadFirstStatus, Register, SessionFields
  <2> QED
    BY <1>11, <2>1 DEF ReadFirstStatus
<1>3. CASE ReadStatus(s)
  BY <1>3 DEF ReadStatus
<1>4. CASE HandleDelivered(s)
  BY <1>4 DEF HandleDelivered
<1>5. CASE HandleReconcile(s)
  BY <1>5 DEF HandleReconcile
<1>6. ASSUME NEW written \in BOOLEAN, HandleReply(s, written)
      PROVE  /\ wire' = wire /\ delivery' = delivery
             /\ t # s => handler'[t] = handler[t]
             /\ session[t].closed => session'[t].closed
             /\ t # s => session'[t].ready = session[t].ready
  BY <1>1, <1>6 DEF HandleReply, SessionFields
<1>7. CASE ReadAcknowledgement(s)
  BY <1>7 DEF ReadAcknowledgement
<1>8. CASE SelectAcknowledgement(s)
  BY <1>8 DEF SelectAcknowledgement
<1>9. CASE NoteAcknowledged(s)
  BY <1>1, <1>9 DEF NoteAcknowledged, SessionFields
<1>10. CASE HandlerExit(s)
  BY <1>1, <1>10 DEF HandlerExit, SessionFields
<1> QED
  BY Handle(s), <1>2, <1>3, <1>4, <1>5, <1>6, <1>7, <1>8, <1>9, <1>10, <1>11 DEF Handle

\* What a delivery goroutine leaves alone.
LEMMA DeliverFrame ==
  ASSUME TypeInv, NEW s \in Sessions, DeliverStep(s), NEW t \in Sessions
  PROVE  /\ handler' = handler /\ current' = current
         /\ t # s => delivery'[t] = delivery[t] /\ wire'[t] = wire[t]
         /\ session[t].closed => session'[t].closed
         /\ session'[t].ready = session[t].ready
<1> USE DEF TypeInv, TypeOK
<1> DEFINE Framed == /\ handler' = handler /\ current' = current
                     /\ t # s => delivery'[t] = delivery[t] /\ wire'[t] = wire[t]
                     /\ session[t].closed => session'[t].closed
                     /\ session'[t].ready = session[t].ready
<1>1. session[s] \in SessionFields /\ session[t] \in SessionFields
  OBVIOUS
<1>2. CASE DeliverCheck(s)
  BY <1>2 DEF DeliverCheck
<1>3. ASSUME NEW due \in BOOLEAN, DeliverLoad(s, due)
      PROVE  Framed
  BY <1>1, <1>3 DEF DeliverLoad, SessionFields
<1>4. CASE DeliverGiveUp(s)
  BY <1>4 DEF DeliverGiveUp
<1>5. CASE DeliverExhaust(s)
  BY <1>1, <1>5 DEF DeliverExhaust, SessionFields
<1>6. CASE DeliverRenderFailed(s)
  BY <1>1, <1>6 DEF DeliverRenderFailed, SessionFields
<1>7. CASE DeliverPrepare(s)
  BY <1>1, <1>7 DEF DeliverPrepare, SessionFields
<1>8. ASSUME NEW ok \in BOOLEAN, DeliverWrite(s, ok)
      PROVE  Framed
  BY <1>8 DEF DeliverWrite
<1>9. CASE DeliverMark(s)
  BY <1>1, <1>9 DEF DeliverMark, SessionFields
<1> QED
  BY DeliverStep(s), <1>2, <1>3, <1>4, <1>5, <1>6, <1>7, <1>8, <1>9 DEF DeliverStep

-----------------------------------------------------------------------------
(* One active session *)

\* A session that is not registered is closed, and a connection whose first status
\* nobody has read is not registered.
RegisteredInv ==
  \A s \in Sessions :
    /\ Used(s) /\ s # current => session[s].closed
    /\ s = current => Used(s)

\* A late record is the last one: its goroutine is past the write and will find
\* the session closed when it looks for more work.
LateInv ==
  \A s \in Sessions : \A i \in DOMAIN wire[s] : wire[s][i].late =>
    /\ session[s].closed /\ i = Len(wire[s])
    /\ delivery[s].pc \in {"idle", "check", "mark"}

\* Every step keeps the one registered session.
LEMMA RegisteredInvStep == TypeInv /\ RegisteredInv /\ [Next]_vars => RegisteredInv'
<1> SUFFICES ASSUME TypeInv, RegisteredInv, [Next]_vars
             PROVE  RegisteredInv'
  OBVIOUS
<1> USE DEF RegisteredInv, Used
<1>0. /\ handler \in [Sessions -> HandlerLocals] /\ session \in [Sessions -> SessionFields]
      /\ \A t \in Sessions : session[t] \in SessionFields /\ handler[t] \in HandlerLocals
  BY DEF TypeInv, TypeOK
<1>1. ASSUME NEW s \in Sessions, ReadFirstStatus(s)
      PROVE  RegisteredInv'
  <2> DEFINE m == Head(inbox[s])
  <2>1. /\ handler' = [handler EXCEPT ![s] = StatusRead(s, TRUE, m)]
        /\ session' = Register(s, m)
        /\ current' = s
    BY <1>1 DEF ReadFirstStatus
  <2> HIDE DEF m
  <2>2. handler'[s].pc = "delivered"
    BY <1>0, <2>1 DEF StatusRead
  <2>3. ASSUME NEW t \in Sessions, t # s, Used(t)'
        PROVE  session'[t].closed
    <3>1. Used(t)
      BY <1>0, <2>1, <2>3
    <3>2. CASE t = current
      BY <1>0, <2>1, <2>3, <3>2 DEF Register, SessionFields
    <3>3. CASE t # current
      BY <2>1, <2>3, <3>1, <3>3 DEF Register
    <3> QED
      BY <3>2, <3>3
  <2> QED
    BY <2>1, <2>2, <2>3
<1>2. ASSUME NEW s \in Sessions, HandlerExit(s)
      PROVE  RegisteredInv'
  <2>1. PICK pc \in {"close", "done"} : handler' = [handler EXCEPT ![s] = AtPC(pc)]
    BY <1>2 DEF HandlerExit
  <2>2. session'[s].closed /\ \A t \in Sessions : t # s => session'[t] = session[t]
    BY <1>0, <1>2 DEF HandlerExit, SessionFields
  <2>3. current' = IF current = s THEN NoSession ELSE current
    BY <1>2 DEF HandlerExit
  <2>4. /\ Used(s)'
        /\ \A t \in Sessions : t # s => (Used(t)' <=> Used(t))
    BY <1>0, <2>1 DEF AtPC
  <2> QED
    BY <2>2, <2>3, <2>4, SessionsAssumption
<1>3. CASE Restart
  <2>1. /\ current' = NoSession
        /\ \A t \in Sessions : session'[t] = IF Accepted(t) THEN [session[t] EXCEPT !.closed = TRUE]
                                              ELSE session[t]
        /\ \A t \in Sessions : handler'[t] = IF Accepted(t) THEN AtPC("done") ELSE handler[t]
    BY <1>3 DEF Restart
  <2>2. \A t \in Sessions : Used(t)' => Accepted(t)
    BY <2>1 DEF Accepted
  <2>3. \A t \in Sessions : Accepted(t) => session'[t].closed
    BY <1>0, <2>1 DEF SessionFields
  <2> QED
    BY <2>1, <2>2, <2>3, SessionsAssumption
<1>4. ASSUME current' = current, \A t \in Sessions : Used(t)' <=> Used(t),
             \A t \in Sessions : session[t].closed => session'[t].closed
      PROVE  RegisteredInv'
  BY <1>4
<1>5. ASSUME NEW s \in Sessions, Handle(s), ~ReadFirstStatus(s), ~HandlerExit(s)
      PROVE  RegisteredInv'
  <2>1. current' = current
    BY <1>5 DEF Handle, Connect, ReadStatus, HandleDelivered, HandleReconcile, HandleReply,
                ReadAcknowledgement, SelectAcknowledgement, NoteAcknowledged, HandlerClose
  <2>2. Used(s)' <=> Used(s)
    <3>1. CASE Connect(s)
      BY <1>0, <3>1 DEF Connect, AtPC
    <3>2. CASE ReadStatus(s)
      BY <1>0, <3>2 DEF ReadStatus, Takes, StatusRead
    <3>3. CASE HandleDelivered(s) \/ HandleReconcile(s)
      BY <1>0, <3>3 DEF HandleDelivered, HandleReconcile, HandlerLocals
    <3>4. CASE \E written \in BOOLEAN : HandleReply(s, written)
      BY <1>0, <3>4 DEF HandleReply, AtPC
    <3>5. CASE ReadAcknowledgement(s)
      BY <1>0, <3>5 DEF ReadAcknowledgement, Takes, HandlerLocals
    <3>6. CASE SelectAcknowledgement(s)
      BY <1>0, <3>6 DEF SelectAcknowledgement, HandlerLocals, AtPC
    <3>7. CASE NoteAcknowledged(s) \/ HandlerClose(s)
      BY <1>0, <3>7 DEF NoteAcknowledged, HandlerClose, AtPC
    <3> QED
      BY <1>5, <3>1, <3>2, <3>3, <3>4, <3>5, <3>6, <3>7 DEF Handle
  <2> QED
    BY <1>4, <1>5, <2>1, <2>2, HandleFrame
<1>6. ASSUME NEW s \in Sessions, DeliverStep(s)
      PROVE  RegisteredInv'
  BY <1>4, <1>6, DeliverFrame
<1>7. CASE Upload \/ (\E drawn \in BOOLEAN : TabletReads(drawn)) \/ TabletReports \/ TabletDrops
  BY <1>7 DEF Upload, TabletReads, TabletReports, TabletDrops
<1>8. CASE UNCHANGED vars
  BY <1>8 DEF vars
<1> QED
  BY <1>1, <1>2, <1>3, <1>5, <1>6, <1>7, <1>8 DEF Next

\* Every step leaves a late record the last one of its connection.
LEMMA LateInvStep == TypeInv /\ LateInv /\ [Next]_vars => LateInv'
<1> SUFFICES ASSUME TypeInv, LateInv, [Next]_vars, NEW t \in Sessions,
                    NEW i \in DOMAIN wire'[t], wire'[t][i].late
             PROVE  /\ session'[t].closed /\ i = Len(wire'[t])
                    /\ delivery'[t].pc \in {"idle", "check", "mark"}
  BY DEF LateInv
<1> DEFINE Last == /\ session'[t].closed /\ i = Len(wire'[t])
                   /\ delivery'[t].pc \in {"idle", "check", "mark"}
<1>1. /\ session \in [Sessions -> SessionFields] /\ session[t] \in SessionFields
      /\ delivery \in [Sessions -> DeliveryLocals] /\ delivery[t] \in DeliveryLocals
      /\ wire \in [Sessions -> Seq(Record)] /\ wire[t] \in Seq(Record)
  BY DEF TypeInv, TypeOK
<1>2. \A j \in DOMAIN wire[t] : wire[t][j].late =>
        session[t].closed /\ j = Len(wire[t]) /\ delivery[t].pc \in {"idle", "check", "mark"}
  BY DEF LateInv
<1>3. ASSUME wire'[t] = wire[t], session[t].closed => session'[t].closed,
             session[t].closed /\ delivery[t].pc \in {"idle", "check", "mark"} =>
               delivery'[t].pc \in {"idle", "check", "mark"}
      PROVE  Last
  BY <1>2, <1>3
<1>4. ASSUME NEW s \in Sessions, Handle(s)
      PROVE  Last
  BY <1>3, <1>4, HandleFrame
<1>5. ASSUME NEW s \in Sessions, DeliverStep(s)
      PROVE  Last
  <2>1. CASE s # t
    BY <1>3, <1>5, <2>1, DeliverFrame
  <2>2. ASSUME s = t, NEW ok \in BOOLEAN, DeliverWrite(t, ok)
        PROVE  Last
    <3>1. delivery[t].pc = "write" /\ session' = session
      BY <2>2 DEF DeliverWrite, Deliver
    <3>2. delivery'[t].pc = "mark"
      BY <1>1, <2>2 DEF DeliverWrite, DeliveryLocals
    <3>3. \A j \in DOMAIN wire[t] : ~wire[t][j].late
      BY <1>2, <3>1
    <3>4. CASE ~ok
      <4>1. wire' = wire
        BY <2>2, <3>4 DEF DeliverWrite
      <4> QED
        BY <3>3, <4>1
    <3>5. CASE ok
      <4> DEFINE x == [frame |-> delivery[t].row, sequence |-> delivery[t].sequence,
                       base |-> delivery[t].base, late |-> session[t].closed]
      <4>1. wire'[t] = Append(wire[t], x) /\ x.late = session[t].closed
        BY <1>1, <2>2, <3>5 DEF DeliverWrite
      <4>2. x \in Record
        BY <1>1, DeliveryFieldTypes, SessionFieldTypes DEF Record
      <4> HIDE DEF x
      <4>3. /\ Len(wire[t]) \in Nat /\ DOMAIN wire[t] = 1..Len(wire[t])
            /\ DOMAIN wire'[t] = 1..(Len(wire[t]) + 1) /\ Len(wire'[t]) = Len(wire[t]) + 1
            /\ \A j \in 1..Len(wire[t]) : wire'[t][j] = wire[t][j]
            /\ wire'[t][Len(wire[t]) + 1] = x
        BY <1>1, <4>1, <4>2, AppendProperties, LenProperties
      <4>4. i = Len(wire[t]) + 1
        BY <3>3, <4>3
      <4> QED
        BY <3>1, <3>2, <4>1, <4>3, <4>4
    <3> QED
      BY <3>4, <3>5
  <2>3. CASE s = t /\ ~(\E ok \in BOOLEAN : DeliverWrite(t, ok))
    <3>1. wire' = wire
      BY <1>5, <2>3 DEF DeliverStep, DeliverCheck, DeliverLoad, DeliverGiveUp, DeliverExhaust,
                        DeliverRenderFailed, DeliverPrepare, DeliverMark
    <3>2. CASE DeliverCheck(t)
      BY <1>1, <1>3, <1>5, <2>3, <3>1, <3>2, DeliverFrame DEF DeliverCheck, DeliverAt
    <3>3. CASE DeliverMark(t)
      <4>1. delivery'[t].pc \in {"check", "idle"}
        BY <1>1, <3>3 DEF DeliverMark, DeliverAt
      <4> QED
        BY <1>3, <1>5, <2>3, <3>1, <4>1, DeliverFrame
    <3>4. CASE ~DeliverCheck(t) /\ ~DeliverMark(t)
      <4>1. delivery[t].pc \notin {"idle", "check", "mark"}
        BY <1>5, <2>3, <3>4 DEF DeliverStep, Deliver, DeliverLoad, DeliverGiveUp, DeliverExhaust,
                                DeliverRenderFailed, DeliverPrepare
      <4> QED
        BY <1>2, <3>1, <4>1
    <3> QED
      BY <3>2, <3>3, <3>4
  <2> QED
    BY <1>5, <2>1, <2>2, <2>3
<1>6. CASE Restart
  <2>1. session[t].closed => session'[t].closed
    BY <1>1, <1>6 DEF Restart, SessionFields
  <2>2. delivery'[t].pc = "idle" /\ wire' = wire
    BY <1>6 DEF Restart, DeliverAt
  <2> QED
    BY <1>3, <2>1, <2>2
<1>7. CASE Upload \/ (\E drawn \in BOOLEAN : TabletReads(drawn)) \/ TabletReports \/ TabletDrops
  <2>1. session' = session /\ delivery' = delivery /\ wire' = wire
    BY <1>7 DEF Upload, TabletReads, TabletReports, TabletDrops
  <2> QED
    BY <1>3, <2>1
<1>8. CASE UNCHANGED vars
  BY <1>3, <1>8 DEF vars
<1> QED
  BY <1>4, <1>5, <1>6, <1>7, <1>8 DEF Next

\* Two connections of a device are never active together, however many the
\* tablet opens and however long their handlers and goroutines live on: after a
\* session is closed its connection carries at most the record whose goroutine
\* had passed the check.
THEOREM OneActiveSessionAlways == Spec => []OneActiveSession
<1>1. Init => RegisteredInv /\ LateInv
  BY SessionsAssumption DEF Init, RegisteredInv, LateInv, Used, AtPC
<1>2. RegisteredInv /\ LateInv => OneActiveSession
  BY DEF RegisteredInv, LateInv, OneActiveSession
<1> QED
  BY <1>1, <1>2, RegisteredInvStep, LateInvStep, TypesAlways, PTL DEF Spec

-----------------------------------------------------------------------------
(* Nothing before the first reply *)

\* Until its first reply a session is not ready, and no goroutine works for a
\* session that is not ready.
ReplyInv ==
  \A s \in Sessions :
    /\ handler[s].first \/ ~Used(s) => ~session[s].ready
    /\ ~session[s].ready => delivery[s].pc = "idle" /\ wire[s] = <<>>

\* Every step keeps goroutines away from a session before its first reply.
LEMMA ReplyInvStep == TypeInv /\ ReplyInv /\ [Next]_vars => ReplyInv'
<1> SUFFICES ASSUME TypeInv, ReplyInv, [Next]_vars, NEW t \in Sessions
             PROVE  /\ handler'[t].first \/ ~Used(t)' => ~session'[t].ready
                    /\ ~session'[t].ready => delivery'[t].pc = "idle" /\ wire'[t] = <<>>
  BY DEF ReplyInv
<1> USE DEF Used
<1> DEFINE Goal == /\ handler'[t].first \/ ~Used(t)' => ~session'[t].ready
                   /\ ~session'[t].ready => delivery'[t].pc = "idle" /\ wire'[t] = <<>>
<1>1. /\ handler \in [Sessions -> HandlerLocals] /\ handler[t] \in HandlerLocals
      /\ session \in [Sessions -> SessionFields] /\ session[t] \in SessionFields
      /\ delivery \in [Sessions -> DeliveryLocals] /\ wire \in [Sessions -> Seq(Record)]
  BY DEF TypeInv, TypeOK
<1>2. /\ handler[t].first \/ ~Used(t) => ~session[t].ready
      /\ ~session[t].ready => delivery[t].pc = "idle" /\ wire[t] = <<>>
  BY DEF ReplyInv
<1>3. ASSUME NEW s \in Sessions, Handle(s)
      PROVE  Goal
  <2>1. CASE s # t
    BY <1>2, <1>3, <2>1, HandleFrame
  <2>2. CASE s = t
    <3>1. wire' = wire /\ delivery' = delivery
      BY <1>3, HandleFrame
    <3>2. CASE ReadFirstStatus(t)
      <4>1. session'[t].ready = session[t].ready /\ handler[t].pc = "first"
        BY <1>1, <3>2 DEF ReadFirstStatus, Takes, Register, SessionFields
      <4> QED
        BY <1>2, <3>1, <4>1
    <3>7. CASE Connect(t)
      <4>1. session' = session /\ handler[t].pc = "unused"
        BY <3>7 DEF Connect
      <4> QED
        BY <1>2, <3>1, <4>1
    <3>3. CASE ReadStatus(t) \/ HandleDelivered(t) \/ HandleReconcile(t)
               \/ ReadAcknowledgement(t) \/ SelectAcknowledgement(t) \/ HandlerClose(t)
      <4>1. session' = session /\ handler[t].pc \notin {"unused", "first"}
        BY <3>3 DEF ReadStatus, Takes, HandleDelivered, HandleReconcile, ReadAcknowledgement,
                    SelectAcknowledgement, HandlerClose
      <4>2. /\ handler'[t].first => handler[t].first
            /\ handler'[t].pc \notin {"unused", "first"}
        <5>1. CASE ReadStatus(t)
          BY <1>1, <5>1 DEF ReadStatus, StatusRead
        <5>2. CASE HandleDelivered(t) \/ HandleReconcile(t)
          BY <1>1, <5>2 DEF HandleDelivered, HandleReconcile, HandlerLocals
        <5>3. CASE ReadAcknowledgement(t)
          BY <1>1, <5>3 DEF ReadAcknowledgement, HandlerLocals
        <5>4. CASE SelectAcknowledgement(t)
          BY <1>1, <5>4 DEF SelectAcknowledgement, HandlerLocals, AtPC
        <5>5. CASE HandlerClose(t)
          BY <1>1, <5>5 DEF HandlerClose, AtPC
        <5> QED
          BY <3>3, <5>1, <5>2, <5>3, <5>4, <5>5
      <4> QED
        BY <1>2, <3>1, <4>1, <4>2
    <3>4. ASSUME NEW written \in BOOLEAN, HandleReply(t, written)
          PROVE  Goal
      <4>1. session'[t].ready = (session[t].ready \/ written)
        BY <1>1, <3>4 DEF HandleReply, SessionFields
      <4>2. ~handler'[t].first /\ handler'[t].pc \notin {"unused", "first"}
        BY <1>1, <3>4 DEF HandleReply, AtPC
      <4> QED
        BY <1>2, <3>1, <4>1, <4>2
    <3>5. CASE NoteAcknowledged(t)
      <4>1. ~handler'[t].first /\ handler'[t].pc \notin {"unused", "first"}
        BY <1>1, <3>5 DEF NoteAcknowledged, AtPC
      <4>2. session'[t].ready = session[t].ready
        BY <1>1, <3>5 DEF NoteAcknowledged, SessionFields
      <4> QED
        BY <1>2, <3>1, <4>1, <4>2
    <3>6. CASE HandlerExit(t)
      <4>1. ~handler'[t].first /\ handler'[t].pc \notin {"unused", "first"}
        BY <1>1, <3>6 DEF HandlerExit, AtPC
      <4>2. session'[t].ready = TRUE
        BY <1>1, <3>6 DEF HandlerExit, SessionFields
      <4> QED
        BY <4>1, <4>2
    <3> QED
      BY <1>3, <2>2, <3>2, <3>3, <3>4, <3>5, <3>6, <3>7 DEF Handle
  <2> QED
    BY <2>1, <2>2
<1>4. ASSUME NEW s \in Sessions, DeliverStep(s)
      PROVE  Goal
  <2>1. handler' = handler /\ session'[t].ready = session[t].ready
    BY <1>4, DeliverFrame
  <2>2. CASE s # t
    BY <1>2, <1>4, <2>1, <2>2, DeliverFrame
  <2>3. CASE s = t
    \* A step for this session finds it ready.
    <3>1. session[t].ready
      BY <1>2, <1>4, <2>3 DEF DeliverStep, Deliver, DeliverCheck, DeliverLoad, DeliverGiveUp,
         DeliverExhaust, DeliverRenderFailed, DeliverPrepare, DeliverWrite, DeliverMark
    <3> QED
      BY <1>2, <2>1, <3>1
  <2> QED
    BY <2>2, <2>3
<1>5. CASE Restart
  <2>1. /\ session'[t] = IF Accepted(t) THEN [session[t] EXCEPT !.closed = TRUE] ELSE session[t]
        /\ handler'[t] = IF Accepted(t) THEN AtPC("done") ELSE handler[t]
        /\ delivery'[t] = DeliverAt("idle") /\ wire' = wire
    BY <1>5 DEF Restart
  <2>2. session'[t].ready = session[t].ready
    BY <1>1, <2>1 DEF SessionFields
  <2> QED
    BY <1>2, <2>1, <2>2 DEF AtPC, DeliverAt, Accepted
<1>6. CASE Upload \/ (\E drawn \in BOOLEAN : TabletReads(drawn)) \/ TabletReports \/ TabletDrops
  <2>1. handler' = handler /\ session' = session /\ delivery' = delivery /\ wire' = wire
    BY <1>6 DEF Upload, TabletReads, TabletReports, TabletDrops
  <2> QED
    BY <1>2, <2>1
<1>7. CASE UNCHANGED vars
  BY <1>2, <1>7 DEF vars
<1> QED
  BY <1>3, <1>4, <1>5, <1>6, <1>7 DEF Next

\* No image record goes out on a connection before its first reply.
THEOREM ImageAfterReplyAlways == Spec => []ImageAfterReply
<1>1. Init => ReplyInv
  BY DEF Init, ReplyInv, DeliverAt
<1>2. ReplyInv => ImageAfterReply
  BY DEF ReplyInv, ImageAfterReply
<1> QED
  BY <1>1, <1>2, ReplyInvStep, TypesAlways, PTL DEF Spec

-----------------------------------------------------------------------------
(* Newest frame last *)

\* What a goroutine is about to send is at least as new as all its connection
\* has carried, and no connection has carried a row that does not exist.
OrderInv ==
  /\ NeverBackwards
  /\ \A s \in Sessions : \A i \in DOMAIN wire[s] :
       /\ wire[s][i].frame <= Len(rows)
       /\ delivery[s].pc \in {"giveUp", "exhaust", "render", "write"} =>
            wire[s][i].frame <= delivery[s].row

\* Every step keeps the frames on the wire in order.
LEMMA OrderInvStep == TypeInv /\ OrderInv /\ [Next]_vars => OrderInv'
<1> SUFFICES ASSUME TypeInv, OrderInv, [Next]_vars
             PROVE  OrderInv'
  OBVIOUS
<1>1. /\ rows \in Seq(Row) /\ Len(rows) \in Nat /\ rows' \in Seq(Row) /\ Len(rows') \in Nat
      /\ delivery \in [Sessions -> DeliveryLocals] /\ wire \in [Sessions -> Seq(Record)]
  BY NextTypes, LenProperties DEF TypeInv, TypeOK
<1>2. Len(rows) <= Len(rows')
  BY RowsStep
<1>3. \A s \in Sessions : \A i \in DOMAIN wire[s] : wire[s][i].frame \in Nat
  <2>1. \A s \in Sessions : \A i \in DOMAIN wire[s] : wire[s][i] \in Record
    BY <1>1, ElementOfSeq, LenProperties
  <2> QED
    BY <2>1 DEF Record
<1>4. ASSUME wire' = wire,
             \A s \in Sessions : delivery'[s].pc \in {"giveUp", "exhaust", "render", "write"} =>
               \/ delivery'[s].row = Len(rows)
               \/ /\ delivery[s].pc \in {"giveUp", "exhaust", "render", "write"}
                  /\ delivery'[s].row = delivery[s].row
      PROVE  OrderInv'
  <2>1. NeverBackwards'
    BY <1>4 DEF OrderInv, NeverBackwards
  <2>2. ASSUME NEW s \in Sessions, NEW i \in DOMAIN wire[s]
        PROVE  /\ wire[s][i].frame <= Len(rows')
               /\ delivery'[s].pc \in {"giveUp", "exhaust", "render", "write"} =>
                    wire[s][i].frame <= delivery'[s].row
    <3>1. wire[s][i].frame \in Nat /\ wire[s][i].frame <= Len(rows)
      BY <1>3 DEF OrderInv
    <3>2. delivery[s].pc \in {"giveUp", "exhaust", "render", "write"} =>
            wire[s][i].frame <= delivery[s].row
      BY DEF OrderInv
    <3>3. wire[s][i].frame <= Len(rows')
      BY <1>1, <1>2, <3>1
    <3> QED
      BY <1>4, <3>1, <3>2, <3>3
  <2> QED
    BY <1>4, <2>1, <2>2 DEF OrderInv
<1>5. ASSUME NEW s \in Sessions, Handle(s)
      PROVE  OrderInv'
  BY <1>4, <1>5, HandleFrame
<1>6. ASSUME NEW s \in Sessions, DeliverStep(s)
      PROVE  OrderInv'
  <2>0. delivery[s] \in DeliveryLocals
    BY <1>1
  <2>1. CASE DeliverCheck(s)
    <3>1. wire' = wire /\ \A t \in Sessions : t # s => delivery'[t] = delivery[t]
      BY <1>6, <2>1, DeliverFrame DEF DeliverCheck
    <3>2. delivery'[s].pc \in {"idle", "load"}
      BY <1>1, <2>1 DEF DeliverCheck, DeliverAt
    <3> QED
      BY <1>4, <3>1, <3>2
  <2>2. ASSUME NEW due \in BOOLEAN, DeliverLoad(s, due)
        PROVE  OrderInv'
    <3> DEFINE p    == Pending(rows)
               next == NextStep(s, p, due)
    <3>1. wire' = wire /\ \A t \in Sessions : t # s => delivery'[t] = delivery[t]
      BY <1>6, <2>2, DeliverFrame DEF DeliverLoad
    <3>2. p \in {0, Len(rows)}
      BY <1>1, PendingFacts
    <3>3. next # "idle" => p # 0
      BY NextStepRange DEF NoRow
    <3>4. delivery' = [delivery EXCEPT ![s] = IF next = "idle" THEN DeliverAt("idle")
                                              ELSE [@ EXCEPT !.pc = next, !.row = p]]
      BY <2>2 DEF DeliverLoad
    <3> HIDE DEF p, next
    <3>5. delivery'[s].pc # "idle" => delivery'[s].row = Len(rows)
      <4>1. CASE next = "idle"
        BY <1>1, <3>4, <4>1 DEF DeliverAt
      <4>2. CASE next # "idle"
        BY <1>1, <2>0, <3>2, <3>3, <3>4, <4>2 DEF DeliveryLocals
      <4> QED
        BY <4>1, <4>2
    <3> QED
      BY <1>4, <3>1, <3>5
  <2>3. CASE DeliverGiveUp(s) \/ DeliverExhaust(s) \/ DeliverRenderFailed(s) \/ DeliverMark(s)
    <3>1. wire' = wire /\ \A t \in Sessions : t # s => delivery'[t] = delivery[t]
      BY <1>6, <2>3, DeliverFrame
         DEF DeliverGiveUp, DeliverExhaust, DeliverRenderFailed, DeliverMark
    <3>2. delivery'[s].pc \in {"idle", "check"}
      <4>1. \E pc \in {"idle", "check"} : delivery' = [delivery EXCEPT ![s] = DeliverAt(pc)]
        BY <2>3 DEF DeliverGiveUp, DeliverExhaust, DeliverRenderFailed, DeliverMark
      <4> QED
        BY <1>1, <4>1 DEF DeliverAt
    <3> QED
      BY <1>4, <3>1, <3>2
  <2>4. CASE DeliverPrepare(s)
    <3>1. wire' = wire /\ \A t \in Sessions : t # s => delivery'[t] = delivery[t]
      BY <1>6, <2>4, DeliverFrame DEF DeliverPrepare
    <3>2. delivery[s].pc = "render" /\ delivery'[s].row = delivery[s].row
      BY <1>1, <2>0, <2>4 DEF DeliverPrepare, Deliver, DeliveryLocals
    <3> QED
      BY <1>4, <3>1, <3>2
  <2>5. ASSUME NEW ok \in BOOLEAN, DeliverWrite(s, ok)
        PROVE  OrderInv'
    <3> DEFINE record == [frame |-> delivery[s].row, sequence |-> delivery[s].sequence,
                          base |-> delivery[s].base, late |-> session[s].closed]
    <3>1. rows' = rows /\ delivery[s].pc = "write" /\ delivery'[s].pc = "mark"
      BY <1>1, <2>0, <2>5 DEF DeliverWrite, Deliver, DeliveryLocals
    <3>2. \A t \in Sessions : t # s => delivery'[t] = delivery[t] /\ wire'[t] = wire[t]
      BY <1>6, DeliverFrame
    <3>3. delivery[s].row \in 1..Len(rows)
      BY <1>1, <3>1, LenProperties DEF TypeInv, RowsExist
    <3>4. CASE ~ok
      <4>1. wire' = wire
        BY <2>5, <3>4 DEF DeliverWrite
      <4> QED
        BY <1>4, <3>1, <3>2, <4>1
    <3>5. CASE ok
      <4>1. wire'[s] = Append(wire[s], record) /\ record.frame = delivery[s].row
        BY <1>1, <2>5, <3>5 DEF DeliverWrite
      <4>2. record \in Record
        BY <2>0, DeliveryFieldTypes, SessionFieldTypes DEF Record, TypeInv, TypeOK
      <4> HIDE DEF record
      <4>3. /\ Len(wire[s]) \in Nat /\ DOMAIN wire[s] = 1..Len(wire[s])
            /\ DOMAIN wire'[s] = 1..(Len(wire[s]) + 1)
            /\ \A i \in 1..Len(wire[s]) : wire'[s][i] = wire[s][i]
            /\ wire'[s][Len(wire[s]) + 1] = record
        BY <1>1, <4>1, <4>2, AppendProperties, LenProperties
      <4>4. \A i \in DOMAIN wire[s] : /\ wire[s][i].frame \in Nat
                                      /\ wire[s][i].frame <= delivery[s].row
        BY <1>3, <3>1 DEF OrderInv
      <4>5. \A i \in DOMAIN wire'[s] : wire'[s][i].frame <= Len(rows)
        BY <1>1, <3>3, <4>1, <4>3, <4>4 DEF OrderInv
      <4>6. \A i, j \in DOMAIN wire'[s] : i <= j => wire'[s][i].frame <= wire'[s][j].frame
        <5>1. SUFFICES ASSUME NEW i \in DOMAIN wire'[s], NEW j \in DOMAIN wire'[s], i <= j
                       PROVE  wire'[s][i].frame <= wire'[s][j].frame
          OBVIOUS
        <5>2. CASE j \in DOMAIN wire[s]
          BY <4>3, <5>1, <5>2 DEF OrderInv, NeverBackwards
        <5>3. CASE j = Len(wire[s]) + 1
          <6>1. CASE i = j
            BY <1>1, <3>3, <4>1, <4>3, <5>3, <6>1
          <6>2. CASE i # j
            BY <4>1, <4>3, <4>4, <5>1, <5>3, <6>2
          <6> QED
            BY <6>1, <6>2
        <5> QED
          BY <4>3, <5>2, <5>3
      <4> QED
        BY <3>1, <3>2, <4>5, <4>6 DEF OrderInv, NeverBackwards
    <3> QED
      BY <3>4, <3>5
  <2> QED
    BY <1>6, <2>1, <2>2, <2>3, <2>4, <2>5 DEF DeliverStep
<1>7. CASE Restart
  <2>1. wire' = wire /\ \A s \in Sessions : delivery'[s].pc = "idle"
    BY <1>7 DEF Restart, DeliverAt
  <2> QED
    BY <1>4, <2>1
<1>8. CASE Upload \/ (\E drawn \in BOOLEAN : TabletReads(drawn)) \/ TabletReports \/ TabletDrops
  BY <1>4, <1>8 DEF Upload, TabletReads, TabletReports, TabletDrops
<1>9. CASE UNCHANGED vars
  BY <1>4, <1>9 DEF vars
<1> QED
  BY <1>5, <1>6, <1>7, <1>8, <1>9 DEF Next

\* A connection never carries an older frame after a newer one.
THEOREM NeverBackwardsAlways == Spec => []NeverBackwards
<1>1. Init => OrderInv
  BY DEF Init, OrderInv, NeverBackwards
<1>2. OrderInv => NeverBackwards
  BY DEF OrderInv
<1> QED
  BY <1>1, <1>2, OrderInvStep, TypesAlways, PTL DEF Spec
=============================================================================
