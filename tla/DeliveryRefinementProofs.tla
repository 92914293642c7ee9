---------------------- MODULE DeliveryRefinementProofs ----------------------
(* The bounds on attempts, what a confirmation rests on, what a partial       *)
(* update is drawn on, and the proof that Delivery implements LatestFrame,    *)
(* for any sessions, rows and limits.                                         *)
EXTENDS DeliveryProofs, DeliveryRefinement, FiniteSetTheorems

-----------------------------------------------------------------------------
(* What the steps leave alone *)

\* A handler does not touch the bookkeeping of deliveries.
LEMMA HandleKeepsBookkeeping ==
  ASSUME TypeInv, NEW s \in Sessions, Handle(s), NEW t \in Sessions
  PROVE  /\ session'[t].attemptID = session[t].attemptID
         /\ session'[t].attempts = session[t].attempts
         /\ session'[t].lastFrameID = session[t].lastFrameID
         /\ session'[t].lastSentSeq = session[t].lastSentSeq
         /\ t # s => /\ session'[t].nextSeq = session[t].nextSeq
                     /\ session'[t].ackedSeq = session[t].ackedSeq
                     /\ session'[t].display = session[t].display
<1> DEFINE Kept == /\ session'[t].attemptID = session[t].attemptID
                   /\ session'[t].attempts = session[t].attempts
                   /\ session'[t].lastFrameID = session[t].lastFrameID
                   /\ session'[t].lastSentSeq = session[t].lastSentSeq
                   /\ t # s => /\ session'[t].nextSeq = session[t].nextSeq
                               /\ session'[t].ackedSeq = session[t].ackedSeq
                               /\ session'[t].display = session[t].display
<1>1. /\ session \in [Sessions -> SessionFields]
      /\ session[s] \in SessionFields /\ session[t] \in SessionFields
  BY DEF TypeInv, TypeOK
<1>2. CASE ReadFirstStatus(s)
  <2>1. PICK status : session' = Register(s, status)
    BY <1>2 DEF ReadFirstStatus
  <2> QED
    BY <1>1, <2>1 DEF Register, SessionFields
<1>3. ASSUME NEW written \in BOOLEAN, HandleReply(s, written)
      PROVE  Kept
  BY <1>1, <1>3 DEF HandleReply, SessionFields
<1>4. CASE NoteAcknowledged(s)
  BY <1>1, <1>4 DEF NoteAcknowledged, SessionFields
<1>5. CASE HandlerExit(s)
  BY <1>1, <1>5 DEF HandlerExit, HandlerClose, SessionFields
<1>6. CASE session' = session
  BY <1>6
<1> QED
  BY Handle(s), <1>2, <1>3, <1>4, <1>5, <1>6
     DEF Handle, Connect, ReadStatus, HandleDelivered, HandleReconcile, ReadAcknowledgement,
         SelectAcknowledgement, HandlerClose

\* A restart closes sessions and changes nothing else of them.
LEMMA RestartKeepsBookkeeping ==
  ASSUME TypeInv, Restart, NEW t \in Sessions
  PROVE  /\ wire' = wire /\ delivery'[t] = DeliverAt("idle")
         /\ session'[t].attemptID = session[t].attemptID
         /\ session'[t].attempts = session[t].attempts
         /\ session'[t].lastFrameID = session[t].lastFrameID
         /\ session'[t].lastSentSeq = session[t].lastSentSeq
         /\ session'[t].nextSeq = session[t].nextSeq
         /\ session'[t].ackedSeq = session[t].ackedSeq
         /\ session'[t].display = session[t].display
         /\ session'[t].closed = (session[t].closed \/ Accepted(t))
<1>1. session[t] \in SessionFields
  BY DEF TypeInv, TypeOK
<1>2. session'[t] = IF Accepted(t) THEN [session[t] EXCEPT !.closed = TRUE] ELSE session[t]
  BY DEF Restart
<1>3. wire' = wire /\ delivery'[t] = DeliverAt("idle")
  BY DEF Restart
<1>4. CASE Accepted(t)
  BY <1>1, <1>2, <1>3, <1>4 DEF SessionFields
<1>5. CASE ~Accepted(t)
  BY <1>1, <1>2, <1>3, <1>5 DEF SessionFields
<1> QED
  BY <1>4, <1>5

\* A delivery goroutine does not touch the session of another one.
LEMMA DeliverKeepsOthers ==
  ASSUME TypeInv, NEW s \in Sessions, DeliverStep(s), NEW t \in Sessions, t # s
  PROVE  session'[t] = session[t] /\ delivery'[t] = delivery[t] /\ wire'[t] = wire[t]
<1>1. delivery'[t] = delivery[t] /\ wire'[t] = wire[t]
  BY DeliverFrame
<1>2. session'[t] = session[t]
  BY DEF DeliverStep, DeliverCheck, DeliverLoad, DeliverGiveUp, DeliverExhaust,
         DeliverRenderFailed, DeliverPrepare, DeliverWrite, DeliverMark, TypeInv, TypeOK
<1> QED
  BY <1>1, <1>2

\* Uploads and the tablet do not touch sessions, goroutines or the wire.
LEMMA SurroundingsFrame ==
  ASSUME Upload \/ (\E drawn \in BOOLEAN : TabletReads(drawn)) \/ TabletReports \/ TabletDrops
  PROVE  /\ session' = session /\ handler' = handler /\ delivery' = delivery
         /\ wire' = wire /\ current' = current
  BY DEF Upload, TabletReads, TabletReports, TabletDrops

-----------------------------------------------------------------------------
(* What each step of a delivery goroutine does *)

\* The start of a delivery copies the status the session stores.
LEMMA CheckEffect ==
  ASSUME TypeInv, NEW s \in Sessions, DeliverCheck(s)
  PROVE  /\ rows' = rows /\ session' = session /\ wire' = wire
         /\ delivery[s].pc \in {"idle", "check"}
         /\ \/ delivery'[s] = DeliverAt("idle") /\ session[s].closed
            \/ /\ delivery'[s].pc = "load" /\ delivery'[s].display = session[s].display
               /\ ~session[s].closed
<1>1. delivery \in [Sessions -> DeliveryLocals]
  BY DEF TypeInv, TypeOK
<1>2. delivery'[s] = IF session[s].closed THEN DeliverAt("idle")
                     ELSE [DeliverAt("load") EXCEPT !.display = session[s].display]
  BY <1>1 DEF DeliverCheck
<1>3. /\ [DeliverAt("load") EXCEPT !.display = session[s].display].pc = "load"
      /\ [DeliverAt("load") EXCEPT !.display = session[s].display].display = session[s].display
  BY DEF DeliverAt
<1> QED
  BY <1>2, <1>3 DEF DeliverCheck, Deliver

\* A goroutine goes on with the newest row only, renders it only below both
\* limits, and counts from 0 when it is another one than it attempted before.
LEMMA LoadEffect ==
  ASSUME TypeInv, NEW s \in Sessions, NEW due \in BOOLEAN, DeliverLoad(s, due)
  PROVE  /\ rows' = rows /\ wire' = wire /\ delivery[s].pc = "load"
         /\ \/ delivery'[s] = DeliverAt("idle") /\ session' = session
            \/ /\ delivery'[s].pc \in {"giveUp", "exhaust", "render"}
               /\ delivery'[s].row = Len(rows) /\ Len(rows) \in DOMAIN rows
               /\ delivery'[s].display = delivery[s].display
               /\ delivery'[s].pc # "render" => session' = session
               /\ delivery'[s].pc = "render" =>
                    /\ rows[Len(rows)].attempts < MaxTotalDeliveryAttempts
                    /\ \/ /\ session[s].attemptID # Len(rows)
                          /\ session'[s].attemptID = Len(rows) /\ session'[s].attempts = 0
                       \/ /\ session' = session /\ session[s].attemptID = Len(rows)
                          /\ session[s].attempts < MaxDeliveryAttempts
         /\ session'[s].closed = session[s].closed
         /\ session'[s].lastFrameID = session[s].lastFrameID
         /\ session'[s].lastSentSeq = session[s].lastSentSeq
         /\ session'[s].nextSeq = session[s].nextSeq
         /\ session'[s].ackedSeq = session[s].ackedSeq
         /\ session'[s].display = session[s].display
<1> DEFINE p    == Pending(rows)
           next == NextStep(s, p, due)
<1>1. /\ delivery \in [Sessions -> DeliveryLocals] /\ session \in [Sessions -> SessionFields]
      /\ delivery[s] \in DeliveryLocals /\ session[s] \in SessionFields
      /\ rows \in Seq(Row)
  BY DEF TypeInv, TypeOK
<1>2. p \in {0, Len(rows)} /\ (p # 0 => p \in DOMAIN rows)
  BY <1>1, PendingFacts
<1>3. next \in {"idle", "giveUp", "exhaust", "render"} /\ (next # "idle" => p # 0)
  BY NextStepRange DEF NoRow
<1>4. next = "render" => /\ ~Abandoned(p)
                         /\ session[s].attemptID = p => ~Exhausted(s)
  BY Zenon DEF NextStep
<1>5. /\ rows' = rows /\ wire' = wire /\ delivery[s].pc = "load"
      /\ delivery' = [delivery EXCEPT ![s] = IF next = "idle" THEN DeliverAt("idle")
                                            ELSE [@ EXCEPT !.pc = next, !.row = p]]
      /\ session' = IF next = "render" /\ session[s].attemptID # p
                    THEN [session EXCEPT ![s] = [@ EXCEPT !.attemptID = p, !.attempts = 0]]
                    ELSE session
  BY DEF DeliverLoad, Deliver
<1> HIDE DEF p, next
<1>6. session[s].attempts \in Nat
  BY <1>1, SessionFieldTypes
<1>7. p # 0 => rows[p].attempts \in Nat
  <2>1. p # 0 => rows[p] \in Row
    BY <1>1, <1>2, ElementOfSeq, LenProperties
  <2> QED
    BY <2>1 DEF Row
<1>8. p \in Nat
  BY <1>1, <1>2, LenProperties
<1>9. LET y == [session[s] EXCEPT !.attemptID = p, !.attempts = 0] IN
      /\ y.attemptID = p /\ y.attempts = 0 /\ y.closed = session[s].closed
      /\ y.lastFrameID = session[s].lastFrameID /\ y.lastSentSeq = session[s].lastSentSeq
      /\ y.nextSeq = session[s].nextSeq /\ y.ackedSeq = session[s].ackedSeq
      /\ y.display = session[s].display
  BY <1>1 DEF SessionFields
<1>10. LET y == [delivery[s] EXCEPT !.pc = next, !.row = p] IN
       y.pc = next /\ y.row = p /\ y.display = delivery[s].display
  BY <1>1 DEF DeliveryLocals
<1>11. CASE next = "idle"
  BY <1>1, <1>5, <1>11
<1>12. CASE next \in {"giveUp", "exhaust"}
  BY <1>1, <1>2, <1>3, <1>5, <1>10, <1>12
<1>13. CASE next = "render"
  <2>1. delivery'[s].pc = "render" /\ delivery'[s].row = p /\ delivery'[s].display = delivery[s].display
    BY <1>1, <1>5, <1>10, <1>13
  <2>2. rows[p].attempts < MaxTotalDeliveryAttempts
    BY <1>3, <1>4, <1>7, <1>13, AttemptsAssumption DEF Abandoned
  <2>3. p = Len(rows) /\ p \in DOMAIN rows
    BY <1>2, <1>3, <1>13
  <2>4. CASE session[s].attemptID # p
    <3>1. session'[s] = [session[s] EXCEPT !.attemptID = p, !.attempts = 0]
      BY <1>1, <1>5, <1>13, <2>4
    <3> QED
      BY <1>5, <1>9, <2>1, <2>2, <2>3, <2>4, <3>1
  <2>5. CASE session[s].attemptID = p
    <3>1. session[s].attempts < MaxDeliveryAttempts
      BY <1>4, <1>6, <1>13, <2>5, AttemptsAssumption DEF Exhausted
    <3> QED
      BY <1>5, <2>1, <2>2, <2>3, <2>5, <3>1
  <2> QED
    BY <2>4, <2>5
<1> QED
  BY <1>3, <1>11, <1>12, <1>13

\* A frame that was rendered is counted on its row and on the connection, and
\* takes the next sequence number.
LEMMA PrepareEffect ==
  ASSUME TypeInv, NEW s \in Sessions, DeliverPrepare(s)
  PROVE  /\ wire' = wire /\ delivery[s].pc = "render" /\ delivery[s].row \in DOMAIN rows
         /\ delivery'[s].pc = "write" /\ delivery'[s].row = delivery[s].row
         /\ delivery'[s].sequence = session[s].nextSeq /\ delivery'[s].base = Base(s)
         /\ DOMAIN rows' = DOMAIN rows
         /\ \A r \in DOMAIN rows :
              rows'[r].attempts = IF r = delivery[s].row THEN rows[r].attempts + 1
                                  ELSE rows[r].attempts
         /\ session'[s].attempts = session[s].attempts + 1
         /\ session'[s].nextSeq = session[s].nextSeq + 1
         /\ session'[s].attemptID = session[s].attemptID
         /\ session'[s].lastFrameID = session[s].lastFrameID
         /\ session'[s].lastSentSeq = session[s].lastSentSeq
         /\ session'[s].ackedSeq = session[s].ackedSeq
         /\ session'[s].display = session[s].display
         /\ session'[s].closed = session[s].closed
<1> DEFINE base == Base(s)
           n    == session[s].nextSeq
           k    == session[s].attempts + 1
           m    == n + 1
<1>1. /\ delivery \in [Sessions -> DeliveryLocals] /\ session \in [Sessions -> SessionFields]
      /\ delivery[s] \in DeliveryLocals /\ session[s] \in SessionFields
      /\ rows \in Seq(Row)
  BY DEF TypeInv, TypeOK
<1>2. n \in Nat
  BY <1>1, SessionFieldTypes
<1>3. /\ wire' = wire /\ delivery[s].pc = "render"
      /\ rows' = PrepareSend(rows, delivery[s].row, n)
      /\ session' = [session EXCEPT ![s] = [@ EXCEPT !.attempts = k, !.nextSeq = m]]
      /\ delivery' = [delivery EXCEPT ![s] =
           [@ EXCEPT !.pc = "write", !.display = 0, !.sequence = n, !.base = base]]
  BY DEF DeliverPrepare, Deliver
<1>4. delivery[s].row \in DOMAIN rows
  BY <1>3 DEF TypeInv, RowsExist
<1>5. DOMAIN rows' = DOMAIN rows /\ \A r \in DOMAIN rows :
              rows'[r].attempts = IF r = delivery[s].row THEN rows[r].attempts + 1
                                  ELSE rows[r].attempts
  BY <1>1, <1>2, <1>3, <1>4, PrepareSendFacts
<1> HIDE DEF base, k, m
<1>6. LET y == [session[s] EXCEPT !.attempts = k, !.nextSeq = m] IN
      /\ y.attemptID = session[s].attemptID /\ y.attempts = k /\ y.closed = session[s].closed
      /\ y.lastFrameID = session[s].lastFrameID /\ y.lastSentSeq = session[s].lastSentSeq
      /\ y.nextSeq = m /\ y.ackedSeq = session[s].ackedSeq
      /\ y.display = session[s].display
  BY <1>1 DEF SessionFields
<1>7. LET y == [delivery[s] EXCEPT !.pc = "write", !.display = 0, !.sequence = n, !.base = base] IN
      y.pc = "write" /\ y.row = delivery[s].row /\ y.sequence = n /\ y.base = base
  BY <1>1 DEF DeliveryLocals
<1>8. session'[s] = [session[s] EXCEPT !.attempts = k, !.nextSeq = m]
  BY <1>1, <1>3
<1>9. delivery'[s] = [delivery[s] EXCEPT !.pc = "write", !.display = 0, !.sequence = n, !.base = base]
  BY <1>1, <1>3
<1> QED
  BY <1>3, <1>4, <1>5, <1>6, <1>7, <1>8, <1>9 DEF base, k, m

\* A write appends one record to its connection, or none.
LEMMA WriteEffect ==
  ASSUME TypeInv, NEW s \in Sessions, NEW ok \in BOOLEAN, DeliverWrite(s, ok)
  PROVE  /\ rows' = rows /\ session' = session /\ delivery[s].pc = "write"
         /\ delivery[s].row \in DOMAIN rows
         /\ delivery'[s].pc = "mark" /\ delivery'[s].row = delivery[s].row
         /\ delivery'[s].sequence = delivery[s].sequence /\ delivery'[s].ok = ok
         /\ ~ok => wire' = wire
         /\ ok => LET n == Len(wire[s]) IN
              /\ n \in Nat /\ DOMAIN wire[s] = 1..n /\ DOMAIN wire'[s] = 1..(n + 1)
              /\ Len(wire'[s]) = n + 1
              /\ \A i \in 1..n : wire'[s][i] = wire[s][i]
              /\ wire'[s][n + 1].frame = delivery[s].row
              /\ wire'[s][n + 1].sequence = delivery[s].sequence
              /\ wire'[s][n + 1].base = delivery[s].base
<1> DEFINE record == [frame |-> delivery[s].row, sequence |-> delivery[s].sequence,
                      base |-> delivery[s].base, late |-> session[s].closed]
<1>1. /\ delivery \in [Sessions -> DeliveryLocals] /\ wire \in [Sessions -> Seq(Record)]
      /\ delivery[s] \in DeliveryLocals /\ session[s] \in SessionFields
  BY DEF TypeInv, TypeOK
<1>2. /\ rows' = rows /\ session' = session /\ delivery[s].pc = "write"
      /\ delivery' = [delivery EXCEPT ![s] = [@ EXCEPT !.pc = "mark", !.base = 0, !.ok = ok]]
      /\ wire' = IF ok THEN [wire EXCEPT ![s] = Append(@, record)] ELSE wire
  BY DEF DeliverWrite, Deliver
<1>3. delivery[s].row \in DOMAIN rows
  BY <1>2 DEF TypeInv, RowsExist
<1>4. LET y == [delivery[s] EXCEPT !.pc = "mark", !.base = 0, !.ok = ok] IN
      y.pc = "mark" /\ y.row = delivery[s].row /\ y.sequence = delivery[s].sequence /\ y.ok = ok
  BY <1>1 DEF DeliveryLocals
<1>5. delivery'[s] = [delivery[s] EXCEPT !.pc = "mark", !.base = 0, !.ok = ok]
  BY <1>1, <1>2
<1>6. /\ record \in Record /\ record.frame = delivery[s].row
      /\ record.sequence = delivery[s].sequence /\ record.base = delivery[s].base
  BY <1>1, DeliveryFieldTypes, SessionFieldTypes DEF Record
<1> HIDE DEF record
<1>7. ASSUME ok
      PROVE  LET n == Len(wire[s]) IN
              /\ n \in Nat /\ DOMAIN wire[s] = 1..n /\ DOMAIN wire'[s] = 1..(n + 1)
              /\ Len(wire'[s]) = n + 1
              /\ \A i \in 1..n : wire'[s][i] = wire[s][i]
              /\ wire'[s][n + 1] = record
  <2>1. wire'[s] = Append(wire[s], record) /\ wire[s] \in Seq(Record)
    BY <1>1, <1>2, <1>7
  <2> QED
    BY <1>6, <2>1, AppendProperties, LenProperties
<1> QED
  BY <1>2, <1>3, <1>4, <1>5, <1>6, <1>7

\* After a send the session notes what was sent last; after a failed one it is
\* closed, unless the frame fitted no record.
LEMMA MarkEffect ==
  ASSUME TypeInv, NEW s \in Sessions, DeliverMark(s)
  PROVE  /\ wire' = wire /\ delivery[s].pc = "mark"
         /\ delivery[s].ok => /\ delivery'[s] = DeliverAt("check")
                              /\ session'[s].lastFrameID = delivery[s].row
                              /\ session'[s].lastSentSeq = delivery[s].sequence
                              /\ session'[s].closed = session[s].closed
         /\ ~delivery[s].ok => /\ delivery'[s] = DeliverAt("idle")
                               /\ session'[s].lastFrameID = session[s].lastFrameID
                               /\ session'[s].lastSentSeq = session[s].lastSentSeq
                               /\ session[s].closed => session'[s].closed
         /\ session'[s].attemptID = session[s].attemptID
         /\ session'[s].attempts = session[s].attempts
         /\ session'[s].nextSeq = session[s].nextSeq
         /\ session'[s].ackedSeq = session[s].ackedSeq
         /\ session'[s].display = session[s].display
<1>1. /\ delivery \in [Sessions -> DeliveryLocals] /\ session \in [Sessions -> SessionFields]
      /\ session[s] \in SessionFields
  BY DEF TypeInv, TypeOK
<1>2. delivery'[s] = DeliverAt(IF delivery[s].ok THEN "check" ELSE "idle")
  BY <1>1 DEF DeliverMark
<1>3. /\ delivery[s].ok => session'[s] = [session[s] EXCEPT !.lastFrameID = delivery[s].row,
                                                         !.lastSentSeq = delivery[s].sequence]
      /\ ~delivery[s].ok => \E c \in BOOLEAN : /\ session'[s] = [session[s] EXCEPT !.closed = c]
                                               /\ session[s].closed => c
  BY <1>1, SessionFieldTypes DEF DeliverMark
<1>4. wire' = wire /\ delivery[s].pc = "mark"
  BY DEF DeliverMark, Deliver
<1>5. CASE delivery[s].ok
  <2>1. delivery'[s] = DeliverAt("check")
    BY <1>2, <1>5
  <2>2. session'[s] = [session[s] EXCEPT !.lastFrameID = delivery[s].row,
                                         !.lastSentSeq = delivery[s].sequence]
    BY <1>3, <1>5
  <2>3. /\ session'[s].lastFrameID = delivery[s].row
        /\ session'[s].lastSentSeq = delivery[s].sequence
        /\ session'[s].closed = session[s].closed
        /\ session'[s].attemptID = session[s].attemptID
        /\ session'[s].attempts = session[s].attempts
        /\ session'[s].nextSeq = session[s].nextSeq
        /\ session'[s].ackedSeq = session[s].ackedSeq
        /\ session'[s].display = session[s].display
    BY <1>1, <2>2 DEF SessionFields
  <2> QED
    BY <1>4, <1>5, <2>1, <2>3
<1>6. CASE ~delivery[s].ok
  BY <1>1, <1>2, <1>3, <1>4, <1>6 DEF SessionFields
<1> QED
  BY <1>5, <1>6

\* The three ways a delivery ends before a send leave the goroutine idle, and
\* the session's bookkeeping as it was.
LEMMA EndEffect ==
  ASSUME TypeInv, NEW s \in Sessions, DeliverGiveUp(s) \/ DeliverExhaust(s) \/ DeliverRenderFailed(s)
  PROVE  /\ wire' = wire /\ delivery[s].pc \in {"giveUp", "exhaust", "render"}
         /\ delivery'[s] = DeliverAt("idle")
         /\ session'[s].attemptID = session[s].attemptID
         /\ session'[s].attempts = session[s].attempts
         /\ session'[s].lastFrameID = session[s].lastFrameID
         /\ session'[s].lastSentSeq = session[s].lastSentSeq
         /\ session'[s].nextSeq = session[s].nextSeq
         /\ session'[s].ackedSeq = session[s].ackedSeq
         /\ session'[s].display = session[s].display
<1>1. /\ delivery \in [Sessions -> DeliveryLocals] /\ session \in [Sessions -> SessionFields]
      /\ session[s] \in SessionFields
  BY DEF TypeInv, TypeOK
<1>2. CASE DeliverGiveUp(s)
  BY <1>1, <1>2 DEF DeliverGiveUp, Deliver
<1>3. CASE DeliverExhaust(s)
  <2>1. session'[s] = [session[s] EXCEPT !.closed = TRUE]
    BY <1>1, <1>3 DEF DeliverExhaust
  <2> QED
    BY <1>1, <1>3, <2>1 DEF DeliverExhaust, Deliver, SessionFields
<1>4. CASE DeliverRenderFailed(s)
  <2>1. session'[s] = [session[s] EXCEPT !.renderFailedID = delivery[s].row]
    BY <1>1, <1>4 DEF DeliverRenderFailed
  <2> QED
    BY <1>1, <1>4, <2>1 DEF DeliverRenderFailed, Deliver, SessionFields
<1> QED
  BY <1>2, <1>3, <1>4

\* No handler counts a send or adds a row.
LEMMA HandleKeepsAttempts ==
  ASSUME TypeInv, NEW s \in Sessions, Handle(s)
  PROVE  /\ DOMAIN rows' = DOMAIN rows
         /\ \A r \in DOMAIN rows : rows'[r].attempts = rows[r].attempts
<1>1. rows \in Seq(Row) /\ handler[s].display \in Nat
  BY HandlerFieldTypes DEF TypeInv, TypeOK
<1>2. CASE HandleDelivered(s)
  BY <1>1, <1>2, MarkDeliveredFacts DEF HandleDelivered
<1>3. CASE HandleReconcile(s)
  BY <1>1, <1>3, ReconcileDesiredFacts DEF HandleReconcile
<1>4. CASE NoteAcknowledged(s)
  BY <1>1, <1>4, UpdateAcknowledgedFacts DEF NoteAcknowledged, TypeInv, RowsExist
<1> QED
  BY <1>2, <1>3, <1>4 DEF Handle, Connect, ReadFirstStatus, ReadStatus, HandleReply,
         ReadAcknowledgement, SelectAcknowledgement, HandlerExit, HandlerClose

\* A goroutine counts a send when it prepares it and at no other time.
LEMMA DeliverKeepsAttempts ==
  ASSUME TypeInv, NEW s \in Sessions, DeliverStep(s), ~DeliverPrepare(s)
  PROVE  /\ DOMAIN rows' = DOMAIN rows
         /\ \A r \in DOMAIN rows : rows'[r].attempts = rows[r].attempts
<1>1. rows \in Seq(Row)
  BY DEF TypeInv, TypeOK
<1>2. CASE DeliverGiveUp(s) \/ DeliverExhaust(s) \/ DeliverRenderFailed(s) \/ DeliverMark(s)
  <2>1. delivery[s].row \in DOMAIN rows
    BY <1>2 DEF TypeInv, RowsExist, Deliver, DeliverGiveUp, DeliverExhaust, DeliverRenderFailed,
                DeliverMark
  <2>2. PICK state \in States : rows' = SetUnlessDelivered(rows, delivery[s].row, state)
    <3>1. \E state \in {"failed", "sent", "error"} :
            rows' = SetUnlessDelivered(rows, delivery[s].row, state)
      BY <1>2 DEF DeliverGiveUp, DeliverExhaust, DeliverRenderFailed, DeliverMark, MarkFailed, MarkSent
    <3> QED
      BY <3>1 DEF States
  <2> QED
    BY <1>1, <2>1, <2>2, SetUnlessDeliveredFacts
<1> QED
  BY <1>2 DEF DeliverStep, DeliverCheck, DeliverLoad, DeliverWrite

-----------------------------------------------------------------------------
(* The sends of an assignment *)

\* The goroutines that have checked the limit on row r and not counted their
\* send yet.
Drawing(r) == {s \in Sessions : delivery[s].pc = "render" /\ delivery[s].row = r}

\* The sends that are under way count as if they were made.
CountInv ==
  \A r \in DOMAIN rows :
    rows[r].attempts + Cardinality(Drawing(r))
      <= MaxTotalDeliveryAttempts + Cardinality(Sessions) - 1

\* There are no more goroutines that draw a row than sessions.
LEMMA DrawingFinite ==
  ASSUME NEW r
  PROVE  /\ IsFiniteSet(Drawing(r)) /\ Cardinality(Drawing(r)) \in Nat
         /\ Cardinality(Sessions) \in Nat /\ Cardinality(Drawing(r)) <= Cardinality(Sessions)
<1>1. Drawing(r) \in SUBSET Sessions
  BY DEF Drawing
<1> QED
  BY <1>1, SessionsAssumption, FS_Subset, FS_CardinalityType

\* And after any step.
LEMMA DrawingNextFinite ==
  ASSUME NEW r
  PROVE  /\ IsFiniteSet(Drawing(r)') /\ Cardinality(Drawing(r)') \in Nat
         /\ Cardinality(Drawing(r)') <= Cardinality(Sessions)
<1>1. Drawing(r)' \in SUBSET Sessions
  BY DEF Drawing
<1> QED
  BY <1>1, SessionsAssumption, FS_Subset, FS_CardinalityType

\* Every step keeps the bound on the sends of a row.
LEMMA CountInvStep == TypeInv /\ CountInv /\ [Next]_vars => CountInv'
<1> DEFINE limit == MaxTotalDeliveryAttempts + Cardinality(Sessions) - 1
<1> SUFFICES ASSUME TypeInv, CountInv, [Next]_vars, NEW r \in DOMAIN rows'
             PROVE  rows'[r].attempts + Cardinality(Drawing(r)') <= limit
  BY DEF CountInv, Drawing
<1>1. /\ rows \in Seq(Row) /\ delivery \in [Sessions -> DeliveryLocals]
      /\ Cardinality(Sessions) \in Nat /\ limit \in Int
      /\ MaxTotalDeliveryAttempts \in Nat \ {0}
  BY SessionsAssumption, FS_CardinalityType, AttemptsAssumption DEF TypeInv, TypeOK
<1>2. r \in DOMAIN rows => /\ rows[r].attempts \in Nat
                           /\ rows[r].attempts + Cardinality(Drawing(r)) <= limit
  <2>1. r \in DOMAIN rows => rows[r] \in Row
    BY <1>1, ElementOfSeq, LenProperties
  <2> QED
    BY <2>1 DEF CountInv, Row
<1>3. /\ Cardinality(Drawing(r)) \in Nat /\ Cardinality(Drawing(r)') \in Nat
      /\ IsFiniteSet(Drawing(r)) /\ Cardinality(Drawing(r)') <= Cardinality(Sessions)
  BY DrawingFinite, DrawingNextFinite
<1> HIDE DEF limit
<1>4. ASSUME r \in DOMAIN rows, rows'[r].attempts = rows[r].attempts,
             Drawing(r)' \subseteq Drawing(r)
      PROVE  rows'[r].attempts + Cardinality(Drawing(r)') <= limit
  <2>1. Cardinality(Drawing(r)') <= Cardinality(Drawing(r))
    BY <1>3, <1>4, FS_Subset
  <2> QED
    BY <1>1, <1>2, <1>3, <1>4, <2>1
<1>5. ASSUME NEW s \in Sessions, DeliverPrepare(s)
      PROVE  rows'[r].attempts + Cardinality(Drawing(r)') <= limit
  <2>1. \A t \in Sessions : t # s => delivery'[t] = delivery[t]
    BY <1>5, DeliverFrame DEF DeliverStep
  <2>2. Drawing(r)' \subseteq Drawing(r) \ {s}
    BY <1>5, <2>1, PrepareEffect DEF Drawing
  <2>3. r \in DOMAIN rows
    BY <1>5, PrepareEffect
  <2>4. CASE r # delivery[s].row
    BY <1>4, <1>5, <2>2, <2>3, <2>4, PrepareEffect
  <2>5. CASE r = delivery[s].row
    <3>1. s \in Drawing(r)
      BY <1>5, <2>5, PrepareEffect DEF Drawing
    <3>2. /\ IsFiniteSet(Drawing(r) \ {s})
          /\ Cardinality(Drawing(r) \ {s}) = Cardinality(Drawing(r)) - 1
      BY <1>3, <3>1, FS_RemoveElement
    <3>3. Cardinality(Drawing(r)') <= Cardinality(Drawing(r)) - 1
      BY <2>2, <3>2, FS_Subset
    <3>4. rows'[r].attempts = rows[r].attempts + 1
      BY <1>5, <2>3, <2>5, PrepareEffect
    <3> QED
      BY <1>1, <1>2, <1>3, <2>3, <3>3, <3>4
  <2> QED
    BY <2>4, <2>5
<1>6. ASSUME NEW s \in Sessions, NEW due \in BOOLEAN, DeliverLoad(s, due)
      PROVE  rows'[r].attempts + Cardinality(Drawing(r)') <= limit
  <2>1. \A t \in Sessions : t # s => delivery'[t] = delivery[t]
    BY <1>6, DeliverFrame DEF DeliverStep
  <2>2. rows' = rows /\ r \in DOMAIN rows /\ rows'[r].attempts = rows[r].attempts
    BY <1>6, LoadEffect
  <2>3. CASE delivery'[s].pc = "render" /\ delivery'[s].row = r
    <3>1. r = Len(rows) /\ rows[Len(rows)].attempts < MaxTotalDeliveryAttempts
      BY <1>6, <2>3, LoadEffect DEF DeliverAt
    <3>2. rows[r].attempts + 1 <= MaxTotalDeliveryAttempts
      BY <1>1, <1>2, <2>2, <3>1
    <3> QED
      BY <1>1, <1>2, <1>3, <2>2, <3>2 DEF limit
  <2>4. CASE ~(delivery'[s].pc = "render" /\ delivery'[s].row = r)
    <3>1. Drawing(r)' \subseteq Drawing(r)
      BY <2>1, <2>4 DEF Drawing
    <3> QED
      BY <1>4, <2>2, <3>1
  <2> QED
    BY <2>3, <2>4
<1>7. ASSUME NEW s \in Sessions, DeliverStep(s), ~DeliverPrepare(s),
             \A due \in BOOLEAN : ~DeliverLoad(s, due)
      PROVE  rows'[r].attempts + Cardinality(Drawing(r)') <= limit
  <2>1. \A t \in Sessions : t # s => delivery'[t] = delivery[t]
    BY <1>7, DeliverFrame
  <2>2. delivery'[s].pc # "render"
    BY <1>7, CheckEffect, EndEffect, WriteEffect, MarkEffect DEF DeliverStep, DeliverAt
  <2>3. Drawing(r)' \subseteq Drawing(r)
    BY <2>1, <2>2 DEF Drawing
  <2> QED
    BY <1>4, <1>7, <2>3, DeliverKeepsAttempts
<1>8. ASSUME NEW s \in Sessions, Handle(s)
      PROVE  rows'[r].attempts + Cardinality(Drawing(r)') <= limit
  <2>1. Drawing(r)' = Drawing(r)
    BY <1>8, HandleFrame DEF Drawing
  <2> QED
    BY <1>4, <1>8, <2>1, HandleKeepsAttempts
<1>9. CASE Upload
  <2>1. /\ delivery' = delivery /\ DOMAIN rows' = 1..(Len(rows) + 1) /\ Len(rows) \in Nat
        /\ DOMAIN rows = 1..Len(rows)
        /\ \A q \in DOMAIN rows : rows'[q] = rows[q]
        /\ rows'[Len(rows) + 1] = NewRow
    BY <1>1, <1>9, CreateAssignmentFacts, LenProperties DEF Upload
  <2>2. Drawing(r)' = Drawing(r)
    BY <2>1 DEF Drawing
  <2>3. CASE r \in DOMAIN rows
    BY <1>4, <2>1, <2>2, <2>3
  <2>4. CASE r = Len(rows) + 1
    <3>1. Drawing(r) = {}
      BY <2>1, <2>4 DEF Drawing, TypeInv, RowsExist
    <3>2. Cardinality(Drawing(r)') = 0 /\ rows'[r].attempts = 0
      BY <2>1, <2>2, <2>4, <3>1, FS_EmptySet DEF NewRow
    <3> QED
      BY <1>1, <3>2 DEF limit
  <2> QED
    BY <2>1, <2>3, <2>4
<1>10. CASE Restart \/ (\E drawn \in BOOLEAN : TabletReads(drawn)) \/ TabletReports
           \/ TabletDrops \/ UNCHANGED vars
  <2>1. rows' = rows
    BY <1>10 DEF Restart, TabletReads, TabletReports, TabletDrops, vars
  <2>2. \A s \in Sessions : delivery'[s].pc = "render" => delivery'[s] = delivery[s]
    BY <1>10 DEF Restart, TabletReads, TabletReports, TabletDrops, vars, DeliverAt
  <2>3. Drawing(r)' \subseteq Drawing(r)
    BY <2>2 DEF Drawing
  <2> QED
    BY <1>4, <2>1, <2>3
<1> QED
  BY <1>5, <1>6, <1>7, <1>8, <1>9, <1>10 DEF Next

\* Each connection adds at most one send to the limit on an assignment, for any
\* number of connections and any interleaving of their goroutines.
THEOREM TotalAttemptsAlways == Spec => []TotalAttempts
<1>1. Init => CountInv
  BY DEF Init, CountInv
<1>2. TypeInv /\ CountInv => TotalAttempts
  <2> SUFFICES ASSUME TypeInv, CountInv, NEW r \in DOMAIN rows
               PROVE  rows[r].attempts <= MaxTotalDeliveryAttempts + Cardinality(Sessions) - 1
    BY DEF TotalAttempts
  <2>2. rows[r] \in Row
    BY ElementOfSeq, LenProperties DEF TypeInv, TypeOK
  <2>3. rows[r].attempts \in Nat
    BY <2>2 DEF Row
  <2>4. MaxTotalDeliveryAttempts + Cardinality(Sessions) - 1 \in Int
    BY DrawingFinite, AttemptsAssumption
  <2> QED
    BY <2>3, <2>4, DrawingFinite DEF CountInv
<1> QED
  BY <1>1, <1>2, CountInvStep, TypesAlways, PTL DEF Spec

-----------------------------------------------------------------------------
(* The sends of one connection *)

\* A record that is about to be written counts as a send.
InFlight(s) == IF delivery[s].pc = "write" THEN 1 ELSE 0

\* The session counts every send of the row it attempts, has carried nothing
\* newer, and starts at 0 only with a row it has never carried.
AttemptsOf(s) ==
  /\ session[s].attemptID <= Len(rows)
  /\ session[s].attempts <= MaxDeliveryAttempts
  /\ \A i \in DOMAIN wire[s] : wire[s][i].frame <= session[s].attemptID
  /\ delivery[s].pc \in {"render", "write"} => delivery[s].row = session[s].attemptID
  /\ delivery[s].pc = "render" => session[s].attempts < MaxDeliveryAttempts
  /\ Cardinality(SendsOf(s, session[s].attemptID)) + InFlight(s) <= session[s].attempts
  /\ \A f \in Nat : Cardinality(SendsOf(s, f)) <= MaxDeliveryAttempts

AttemptInv == \A s \in Sessions : AttemptsOf(s)

\* A connection has carried a frame finitely often.
LEMMA SendsOfFinite ==
  ASSUME TypeInv, NEW s \in Sessions, NEW f
  PROVE  IsFiniteSet(SendsOf(s, f)) /\ Cardinality(SendsOf(s, f)) \in Nat
<1>1. wire[s] \in Seq(Record)
  BY DEF TypeInv, TypeOK
<1>2. Len(wire[s]) \in Nat /\ DOMAIN wire[s] = 1..Len(wire[s])
  BY <1>1, LenProperties
<1>3. SendsOf(s, f) \in SUBSET (1..Len(wire[s]))
  BY <1>2 DEF SendsOf
<1>4. IsFiniteSet(1..Len(wire[s]))
  BY <1>2, FS_Interval
<1>5. IsFiniteSet(SendsOf(s, f))
  BY <1>3, <1>4, FS_Subset
<1> QED
  BY <1>5, FS_CardinalityType

\* A write adds one to the sends of its frame.
LEMMA SendsOfWrite ==
  ASSUME TypeInv, NEW s \in Sessions, DeliverWrite(s, TRUE), NEW f
  PROVE  Cardinality(SendsOf(s, f)') = IF f = delivery[s].row THEN Cardinality(SendsOf(s, f)) + 1
                                       ELSE Cardinality(SendsOf(s, f))
<1> DEFINE n == Len(wire[s])
<1>1. /\ n \in Nat /\ DOMAIN wire[s] = 1..n /\ DOMAIN wire'[s] = 1..(n + 1)
      /\ \A i \in 1..n : wire'[s][i] = wire[s][i]
      /\ wire'[s][n + 1].frame = delivery[s].row
  BY WriteEffect
<1> HIDE DEF n
<1>2. n + 1 \notin SendsOf(s, f)
  BY <1>1 DEF SendsOf
<1>3. SendsOf(s, f)' = IF f = delivery[s].row THEN SendsOf(s, f) \cup {n + 1} ELSE SendsOf(s, f)
  <2>1. \A i \in DOMAIN wire'[s] : i \in 1..n \/ i = n + 1
    BY <1>1
  <2>2. SendsOf(s, f)' = {i \in DOMAIN wire'[s] : wire'[s][i].frame = f}
    BY DEF SendsOf
  <2>3. CASE f = delivery[s].row
    BY <1>1, <2>1, <2>2, <2>3 DEF SendsOf
  <2>4. CASE f # delivery[s].row
    BY <1>1, <2>1, <2>2, <2>4 DEF SendsOf
  <2> QED
    BY <2>3, <2>4
<1> QED
  BY <1>2, <1>3, SendsOfFinite, FS_AddElement

\* Every step keeps the count of a connection's sends.
LEMMA AttemptInvStep == TypeInv /\ AttemptInv /\ [Next]_vars => AttemptInv'
<1> SUFFICES ASSUME TypeInv, AttemptInv, [Next]_vars, NEW t \in Sessions
             PROVE  AttemptsOf(t)'
  BY DEF AttemptInv
<1>1. AttemptsOf(t)
  BY DEF AttemptInv
<1>2. Len(rows) \in Nat /\ Len(rows') \in Nat /\ Len(rows) <= Len(rows')
  BY NextTypes, RowsStep, LenProperties DEF TypeInv, TypeOK
<1>3. /\ session[t].attemptID \in Nat /\ session[t].attempts \in Nat
      /\ MaxDeliveryAttempts \in Nat \ {0}
  BY SessionFieldTypes, AttemptsAssumption DEF TypeInv, TypeOK
<1>4. \A i \in DOMAIN wire[t] : wire[t][i].frame \in Nat
  <2>1. \A i \in DOMAIN wire[t] : wire[t][i] \in Record
    BY ElementOfSeq, LenProperties DEF TypeInv, TypeOK
  <2> QED
    BY <2>1 DEF Record
<1>5. ASSUME session'[t].attemptID = session[t].attemptID,
             session'[t].attempts = session[t].attempts, wire'[t] = wire[t],
             delivery'[t] = delivery[t] \/ delivery'[t].pc \notin {"render", "write"}
      PROVE  AttemptsOf(t)'
  <2>1. ASSUME NEW f
        PROVE  SendsOf(t, f)' = SendsOf(t, f)
    BY <1>5 DEF SendsOf
  <2>2. PICK n \in Nat : n = session[t].attemptID
    BY <1>3
  <2>3. /\ n <= Len(rows) /\ session[t].attempts <= MaxDeliveryAttempts
        /\ \A i \in DOMAIN wire[t] : wire[t][i].frame <= n
        /\ Cardinality(SendsOf(t, n)) + InFlight(t) <= session[t].attempts
        /\ \A f \in Nat : Cardinality(SendsOf(t, f)) <= MaxDeliveryAttempts
        /\ delivery[t].pc \in {"render", "write"} => delivery[t].row = n
        /\ delivery[t].pc = "render" => session[t].attempts < MaxDeliveryAttempts
    BY <1>1, <2>2 DEF AttemptsOf
  <2>4. n <= Len(rows')
    BY <1>2, <2>3
  <2>5. Cardinality(SendsOf(t, n)') + InFlight(t)' <= session'[t].attempts
    <3>1. InFlight(t)' \in {0, 1} /\ InFlight(t) \in {0, 1} /\ InFlight(t)' <= InFlight(t)
      BY <1>5 DEF InFlight
    <3>2. Cardinality(SendsOf(t, n)') = Cardinality(SendsOf(t, n))
      BY <2>1
    <3>3. Cardinality(SendsOf(t, n)) \in Nat
      BY SendsOfFinite
    <3> QED
      BY <1>3, <1>5, <2>3, <3>1, <3>2, <3>3
  <2>6. \A f \in Nat : Cardinality(SendsOf(t, f)') <= MaxDeliveryAttempts
    BY <2>1, <2>3
  <2>7. SendsOf(t, session[t].attemptID)' = SendsOf(t, n)'
    BY <1>5, <2>2 DEF SendsOf
  <2> QED
    BY <1>5, <2>2, <2>3, <2>4, <2>5, <2>6, <2>7 DEF AttemptsOf
<1>6. ASSUME NEW s \in Sessions, Handle(s)
      PROVE  AttemptsOf(t)'
  BY <1>5, <1>6, HandleFrame, HandleKeepsBookkeeping
<1>7. ASSUME NEW s \in Sessions, DeliverStep(s), s # t
      PROVE  AttemptsOf(t)'
  BY <1>5, <1>7, DeliverKeepsOthers
<1>8. CASE DeliverCheck(t) \/ DeliverGiveUp(t) \/ DeliverExhaust(t) \/ DeliverRenderFailed(t)
           \/ DeliverMark(t)
  <2>1. /\ session'[t].attemptID = session[t].attemptID
        /\ session'[t].attempts = session[t].attempts /\ wire'[t] = wire[t]
    BY <1>8, CheckEffect, EndEffect, MarkEffect
  <2>2. delivery'[t].pc \notin {"render", "write"}
    BY <1>8, CheckEffect, EndEffect, MarkEffect DEF DeliverAt
  <2> QED
    BY <1>5, <2>1, <2>2
<1>9. ASSUME NEW due \in BOOLEAN, DeliverLoad(t, due)
      PROVE  AttemptsOf(t)'
  <2>1. wire' = wire /\ rows' = rows
    BY <1>9, LoadEffect
  <2>2. CASE delivery'[t].pc # "render"
    BY <1>5, <1>9, <2>2, LoadEffect DEF DeliverAt
  <2>3. CASE delivery'[t].pc = "render" /\ session[t].attemptID # Len(rows)
    <3> DEFINE n == Len(rows)
    <3>1. /\ delivery'[t].row = n /\ session'[t].attemptID = n /\ session'[t].attempts = 0
      BY <1>9, <2>3, LoadEffect DEF DeliverAt
    <3>2. session[t].attemptID < n
      BY <1>1, <1>2, <1>3, <2>3 DEF AttemptsOf
    <3>3. \A i \in DOMAIN wire[t] : wire[t][i].frame < n
      <4>1. \A i \in DOMAIN wire[t] : wire[t][i].frame <= session[t].attemptID
        BY <1>1 DEF AttemptsOf
      <4> QED
        BY <1>2, <1>3, <1>4, <3>2, <4>1
    <3>4. SendsOf(t, n)' = {} /\ Cardinality({}) = 0
      BY <1>2, <1>4, <2>1, <3>3, FS_EmptySet DEF SendsOf
    <3>5. \A i \in DOMAIN wire'[t] : wire'[t][i].frame <= n
      BY <1>2, <1>4, <2>1, <3>3
    <3>6. \A f \in Nat : Cardinality(SendsOf(t, f)') <= MaxDeliveryAttempts
      BY <1>1, <2>1 DEF AttemptsOf, SendsOf
    <3>7. SendsOf(t, session[t].attemptID)' = SendsOf(t, n)' /\ InFlight(t)' = 0
      BY <2>1, <2>3, <3>1 DEF SendsOf, InFlight
    <3>8. Cardinality(SendsOf(t, session[t].attemptID)') + InFlight(t)' <= session'[t].attempts
      BY <3>1, <3>4, <3>7
    <3> QED
      BY <1>2, <1>3, <2>1, <2>3, <3>1, <3>5, <3>6, <3>8 DEF AttemptsOf
  <2>4. CASE delivery'[t].pc = "render" /\ session[t].attemptID = Len(rows)
    <3>1. /\ delivery'[t].row = Len(rows) /\ session' = session
          /\ session[t].attempts < MaxDeliveryAttempts
      BY <1>9, <2>4, LoadEffect DEF DeliverAt
    <3>2. InFlight(t)' = 0 /\ InFlight(t) = 0
      BY <1>9, <2>4, LoadEffect DEF InFlight
    <3>3. SendsOf(t, session[t].attemptID)' = SendsOf(t, session[t].attemptID)
      BY <2>1, <3>1 DEF SendsOf
    <3>4. \A f \in Nat : Cardinality(SendsOf(t, f)') <= MaxDeliveryAttempts
      BY <1>1, <2>1 DEF AttemptsOf, SendsOf
    <3> QED
      BY <1>1, <2>1, <2>4, <3>1, <3>2, <3>3, <3>4 DEF AttemptsOf
  <2> QED
    BY <2>2, <2>3, <2>4
<1>10. CASE DeliverPrepare(t)
  <2>1. PICK n \in Nat : n = session[t].attemptID
    BY <1>3
  <2>2. /\ delivery[t].row = n /\ session[t].attempts < MaxDeliveryAttempts
        /\ Cardinality(SendsOf(t, n)) + InFlight(t) <= session[t].attempts
    BY <1>1, <1>10, <2>1, PrepareEffect DEF AttemptsOf
  <2>3. /\ wire' = wire /\ delivery'[t].pc = "write" /\ delivery'[t].row = n
        /\ session'[t].attempts = session[t].attempts + 1 /\ session'[t].attemptID = n
    BY <1>10, <2>1, <2>2, PrepareEffect
  <2>4. InFlight(t)' = 1 /\ InFlight(t) = 0
    BY <1>10, <2>3, PrepareEffect DEF InFlight
  <2>5. \A f : SendsOf(t, f)' = SendsOf(t, f)
    <3> TAKE f
    <3> QED
      BY <2>3 DEF SendsOf
  <2>6. SendsOf(t, session[t].attemptID)' = SendsOf(t, n)
    BY <2>3 DEF SendsOf
  <2>7. Cardinality(SendsOf(t, session[t].attemptID)') + InFlight(t)' <= session'[t].attempts
    <3>1. Cardinality(SendsOf(t, n)) \in Nat
      BY SendsOfFinite
    <3> QED
      BY <1>3, <2>2, <2>3, <2>4, <2>6, <3>1
  <2>8. n <= Len(rows') /\ \A i \in DOMAIN wire[t] : wire[t][i].frame <= n
    BY <1>1, <1>2, <2>1 DEF AttemptsOf
  <2>9. \A f \in Nat : Cardinality(SendsOf(t, f)') <= MaxDeliveryAttempts
    BY <1>1, <2>5 DEF AttemptsOf
  <2>10. session'[t].attempts <= MaxDeliveryAttempts
    BY <1>3, <2>2, <2>3
  <2> QED
    BY <2>3, <2>7, <2>8, <2>9, <2>10 DEF AttemptsOf
<1>11. CASE DeliverWrite(t, FALSE)
  BY <1>5, <1>11, WriteEffect
<1>12. CASE DeliverWrite(t, TRUE)
  <2>1. PICK n \in Nat : n = session[t].attemptID
    BY <1>3
  <2>2. /\ delivery[t].pc = "write" /\ delivery'[t].pc = "mark" /\ delivery[t].row = n
        /\ session' = session /\ rows' = rows
    BY <1>1, <1>12, <2>1, WriteEffect DEF AttemptsOf
  <2>3. /\ n <= Len(rows) /\ session[t].attempts <= MaxDeliveryAttempts
        /\ Cardinality(SendsOf(t, n)) + 1 <= session[t].attempts
        /\ \A f \in Nat : Cardinality(SendsOf(t, f)) <= MaxDeliveryAttempts
        /\ \A i \in DOMAIN wire[t] : wire[t][i].frame <= n
    BY <1>1, <2>1, <2>2 DEF AttemptsOf, InFlight
  <2>4. Cardinality(SendsOf(t, n)') = Cardinality(SendsOf(t, n)) + 1
    BY <1>12, <2>2, SendsOfWrite
  <2>5. Cardinality(SendsOf(t, n)) \in Nat
    BY SendsOfFinite
  <2>6. ASSUME NEW f \in Nat
        PROVE  Cardinality(SendsOf(t, f)') <= MaxDeliveryAttempts
    <3>1. CASE f = n
      BY <1>3, <2>3, <2>4, <2>5, <3>1
    <3>2. CASE f # n
      <4>1. Cardinality(SendsOf(t, f)') = Cardinality(SendsOf(t, f))
        BY <1>12, <2>2, <3>2, SendsOfWrite
      <4> QED
        BY <2>3, <4>1
    <3> QED
      BY <3>1, <3>2
  <2>7. SendsOf(t, session[t].attemptID)' = SendsOf(t, n)' /\ InFlight(t)' = 0
    BY <2>1, <2>2 DEF SendsOf, InFlight
  <2>8. Cardinality(SendsOf(t, session[t].attemptID)') + InFlight(t)' <= session'[t].attempts
    BY <2>2, <2>3, <2>4, <2>5, <2>7
  <2>9. \A i \in DOMAIN wire'[t] : wire'[t][i].frame <= n
    <3> DEFINE m == Len(wire[t])
    <3>1. /\ m \in Nat /\ DOMAIN wire[t] = 1..m /\ DOMAIN wire'[t] = 1..(m + 1)
          /\ \A i \in 1..m : wire'[t][i] = wire[t][i]
          /\ wire'[t][m + 1].frame = n
      BY <1>12, <2>2, WriteEffect
    <3> HIDE DEF m
    <3> QED
      BY <2>3, <3>1
  <2> QED
    BY <2>1, <2>2, <2>3, <2>6, <2>8, <2>9 DEF AttemptsOf
<1>13. CASE Restart
  BY <1>5, <1>13, RestartKeepsBookkeeping DEF DeliverAt
<1>14. CASE Upload \/ (\E drawn \in BOOLEAN : TabletReads(drawn)) \/ TabletReports \/ TabletDrops
  BY <1>5, <1>14, SurroundingsFrame
<1>15. CASE UNCHANGED vars
  BY <1>5, <1>15 DEF vars
<1>16. ASSUME DeliverStep(t)
       PROVE  AttemptsOf(t)'
  BY <1>8, <1>9, <1>10, <1>11, <1>12, <1>16 DEF DeliverStep
<1> QED
  BY <1>6, <1>7, <1>13, <1>14, <1>15, <1>16 DEF Next

\* A server that starts has sent nothing.
LEMMA AttemptInvInit == Init => AttemptInv
<1> SUFFICES ASSUME Init, NEW s \in Sessions
             PROVE  AttemptsOf(s)
  BY DEF AttemptInv
<1>1. /\ rows = <<>> /\ session[s].attemptID = 0 /\ session[s].attempts = 0
      /\ delivery[s].pc = "idle" /\ wire[s] = <<>>
  BY DEF Init, DeliverAt
<1>2. \A f : SendsOf(s, f) = {}
  BY <1>1 DEF SendsOf
<1>3. Cardinality({}) = 0 /\ InFlight(s) = 0
  BY <1>1, FS_EmptySet DEF InFlight
<1>4. Len(rows) = 0 /\ DOMAIN wire[s] = {}
  BY <1>1
<1>5. Cardinality(SendsOf(s, session[s].attemptID)) + InFlight(s) <= session[s].attempts
  <2>1. SendsOf(s, session[s].attemptID) = {}
    BY <1>2
  <2>2. Cardinality(SendsOf(s, session[s].attemptID)) = 0
    BY <1>3, <2>1
  <2> QED
    BY <1>1, <1>3, <2>2
<1>6. \A f \in Nat : Cardinality(SendsOf(s, f)) <= MaxDeliveryAttempts
  <2>1. 0 <= MaxDeliveryAttempts
    BY AttemptsAssumption
  <2>2. \A f : Cardinality(SendsOf(s, f)) = 0
    BY <1>2, <1>3
  <2> QED
    BY <2>1, <2>2
<1>7. session[s].attemptID <= Len(rows) /\ session[s].attempts <= MaxDeliveryAttempts
  BY <1>1, <1>4, AttemptsAssumption
<1> QED
  BY <1>1, <1>4, <1>5, <1>6, <1>7 DEF AttemptsOf

\* One connection carries a frame at most maxDeliveryAttempts times, whatever
\* is uploaded, requeued or retried in between.
THEOREM AttemptsPerConnectionAlways == Spec => []AttemptsPerConnection
<1>1. AttemptInv => AttemptsPerConnection
  BY BoundsAssumption DEF AttemptInv, AttemptsOf, AttemptsPerConnection
<1> QED
  BY <1>1, AttemptInvInit, AttemptInvStep, TypesAlways, PTL DEF Spec

-----------------------------------------------------------------------------
(* What a confirmation rests on *)

\* The tablet read r on some connection.
WasRead(r) == \E s \in Sessions : \E i \in 1..received[s] : wire[s][i].frame = r

\* The frames echoed by what waits to be read on connection s, and the sequences
\* acknowledged there.
Echoed(s) == {inbox[s][i].display : i \in DOMAIN inbox[s]}
Waiting(s) ==
  {inbox[s][i].number : i \in {j \in DOMAIN inbox[s] : inbox[s][j].type = "acknowledgement"}}

\* The tablet reads what was written, displays what it read, and tells the
\* handlers what it displays.
ReadInv ==
  /\ \A s \in Sessions : received[s] <= Len(wire[s])
  /\ tablet.display # 0 => WasRead(tablet.display)
  /\ \A s \in Sessions : \A r \in Echoed(s) : r # 0 => WasRead(r)
  /\ \A s \in Sessions : handler[s].display # 0 => WasRead(handler[s].display)
  /\ \A r \in DOMAIN rows : rows[r].state = "delivered" => WasRead(r)

\* No record that was written is taken back or changed.
LEMMA WireGrows ==
  ASSUME TypeInv, [Next]_vars, NEW t \in Sessions
  PROVE  /\ Len(wire[t]) \in Nat /\ Len(wire'[t]) \in Nat /\ Len(wire[t]) <= Len(wire'[t])
         /\ DOMAIN wire[t] = 1..Len(wire[t])
         /\ \A i \in 1..Len(wire[t]) : wire'[t][i] = wire[t][i]
<1>1. Len(wire[t]) \in Nat /\ DOMAIN wire[t] = 1..Len(wire[t])
  BY LenProperties DEF TypeInv, TypeOK
<1>2. CASE wire'[t] = wire[t]
  BY <1>1, <1>2
<1>3. ASSUME NEW s \in Sessions, Handle(s)
      PROVE  wire'[t] = wire[t]
  BY <1>3, HandleFrame
<1>4. ASSUME NEW s \in Sessions, DeliverStep(s), s # t
      PROVE  wire'[t] = wire[t]
  BY <1>4, DeliverKeepsOthers
<1>5. ASSUME DeliverStep(t), ~DeliverWrite(t, TRUE)
      PROVE  wire'[t] = wire[t]
  BY <1>5, CheckEffect, LoadEffect, EndEffect, PrepareEffect, WriteEffect, MarkEffect DEF DeliverStep
<1>6. CASE DeliverWrite(t, TRUE)
  <2>1. /\ Len(wire'[t]) = Len(wire[t]) + 1
        /\ \A i \in 1..Len(wire[t]) : wire'[t][i] = wire[t][i]
    BY <1>6, WriteEffect
  <2> QED
    BY <1>1, <2>1
<1>7. CASE Upload \/ Restart \/ (\E drawn \in BOOLEAN : TabletReads(drawn)) \/ TabletReports
           \/ TabletDrops \/ UNCHANGED vars
  BY <1>2, <1>7, SurroundingsFrame, RestartKeepsBookkeeping DEF vars
<1> QED
  BY <1>2, <1>3, <1>4, <1>5, <1>6, <1>7 DEF Next

\* The tablet does not unread what it has read.
LEMMA ReceivedGrows ==
  ASSUME TypeInv, [Next]_vars, NEW t \in Sessions
  PROVE  /\ received[t] \in Nat /\ received'[t] \in Nat /\ received[t] <= received'[t]
         /\ received' = received \/ \E drawn \in BOOLEAN : TabletReads(drawn)
<1>1. received[t] \in Nat /\ received \in [Sessions -> Nat]
  BY DEF TypeInv, TypeOK
<1>2. CASE received' = received
  BY <1>1, <1>2
<1>3. CASE \E drawn \in BOOLEAN : TabletReads(drawn)
  <2>1. received' = [received EXCEPT ![tablet.session] = received[tablet.session] + 1]
    BY <1>3 DEF TabletReads
  <2>2. received'[t] \in {received[t], received[t] + 1}
    BY <1>1, <2>1
  <2> QED
    BY <1>1, <1>3, <2>2
<1>4. CASE ~(\E drawn \in BOOLEAN : TabletReads(drawn))
  <2>1. ASSUME NEW s \in Sessions, Handle(s)
        PROVE  received' = received
    BY <2>1 DEF Handle, Connect, ReadFirstStatus, ReadStatus, HandleDelivered, HandleReconcile,
       HandleReply, ReadAcknowledgement, SelectAcknowledgement, NoteAcknowledged, HandlerExit,
       HandlerClose
  <2>2. ASSUME NEW s \in Sessions, DeliverStep(s)
        PROVE  received' = received
    BY <2>2 DEF DeliverStep, DeliverCheck, DeliverLoad, DeliverGiveUp, DeliverExhaust,
       DeliverRenderFailed, DeliverPrepare, DeliverWrite, DeliverMark
  <2>3. ASSUME Upload \/ Restart \/ TabletReports \/ TabletDrops \/ UNCHANGED vars
        PROVE  received' = received
    BY <2>3 DEF Upload, Restart, TabletReports, TabletDrops, vars
  <2>4. received' = received
    BY <1>4, <2>1, <2>2, <2>3 DEF Next
  <2> QED
    BY <1>2, <2>4
<1> QED
  BY <1>3, <1>4

\* What was read stays read.
LEMMA WasReadStays ==
  ASSUME TypeInv, ReadInv, [Next]_vars, NEW r, WasRead(r)
  PROVE  WasRead(r)'
<1>0. PICK s \in Sessions : \E i \in 1..received[s] : wire[s][i].frame = r
  BY DEF WasRead
<1>1. PICK i \in 1..received[s] : wire[s][i].frame = r
  BY <1>0
<1>2. i \in 1..received'[s]
  BY <1>1, ReceivedGrows
<1>3. wire'[s][i] = wire[s][i]
  <2>1. i \in 1..Len(wire[s])
    BY <1>1, ReceivedGrows, WireGrows DEF ReadInv
  <2> QED
    BY <2>1, WireGrows
<1> QED
  BY <1>1, <1>2, <1>3 DEF WasRead

\* A handler that reads takes a message from its queue.
LEMMA TakesEffect ==
  ASSUME TypeInv, NEW s \in Sessions, NEW pc, NEW type, Takes(s, pc, type)
  PROVE  /\ handler[s].pc = pc
         /\ Head(inbox[s]) \in Message /\ Head(inbox[s]).display \in Echoed(s)
         /\ type = "acknowledgement" => Head(inbox[s]).number \in Waiting(s)
         /\ \A t \in Sessions : Echoed(t)' \subseteq Echoed(t) /\ Waiting(t)' \subseteq Waiting(t)
<1> DEFINE old == inbox[s]
           new == inbox'[s]
<1>1. /\ inbox \in [Sessions -> Seq(Message)] /\ old \in Seq(Message) /\ old # <<>>
      /\ inbox' = [inbox EXCEPT ![s] = Tail(old)] /\ Head(old).type = type
  BY DEF TypeInv, TypeOK, Takes
<1>2. /\ new = Tail(old) /\ \A t \in Sessions : t # s => inbox'[t] = inbox[t]
  BY <1>1
<1>3. PICK m : m = Head(old)
  OBVIOUS
<1>4. /\ m \in Message /\ 1 \in DOMAIN old /\ old[1] = m
      /\ \A i \in DOMAIN new : i + 1 \in DOMAIN old /\ new[i] = old[i + 1]
  BY <1>1, <1>2, <1>3, HeadTailProperties, LenProperties
<1>5. m.display \in Echoed(s) /\ (type = "acknowledgement" => m.number \in Waiting(s))
  BY <1>1, <1>3, <1>4 DEF Echoed, Waiting
<1>6. Echoed(s)' \subseteq Echoed(s) /\ Waiting(s)' \subseteq Waiting(s)
  BY <1>4 DEF Echoed, Waiting
<1>7. ASSUME NEW t \in Sessions
      PROVE  Echoed(t)' \subseteq Echoed(t) /\ Waiting(t)' \subseteq Waiting(t)
  <2>1. CASE t = s
    BY <1>6, <2>1
  <2>2. CASE t # s
    BY <1>2, <2>2 DEF Echoed, Waiting
  <2> QED
    BY <2>1, <2>2
<1> QED
  BY <1>3, <1>4, <1>5, <1>7 DEF Takes

\* What arrives joins the end of its queue, or is lost.
LEMMA ArrivesEffect ==
  ASSUME TypeInv, NEW s \in Sessions, NEW m \in Message, Arrives(s, m), NEW t \in Sessions
  PROVE  /\ Echoed(t)' \subseteq Echoed(t) \cup {m.display}
         /\ t # s => Echoed(t)' = Echoed(t) /\ Waiting(t)' = Waiting(t)
         /\ Waiting(t)' \subseteq Waiting(t) \cup {m.number}
         /\ m.type = "status" => Waiting(t)' \subseteq Waiting(t)
<1> DEFINE old == inbox[s]
           new == Append(old, m)
           n   == Len(old)
<1>1. /\ inbox \in [Sessions -> Seq(Message)] /\ old \in Seq(Message)
      /\ inbox' = inbox \/ inbox' = [inbox EXCEPT ![s] = new]
  BY DEF TypeInv, TypeOK, Arrives
<1>2. \A u \in Sessions : u # s => inbox'[u] = inbox[u]
  BY <1>1
<1>3. n \in Nat /\ DOMAIN old = 1..n /\ DOMAIN new = 1..(n + 1) /\ new[n + 1] = m
      /\ \A i \in 1..n : new[i] = old[i]
  BY <1>1, AppendProperties, LenProperties
<1> HIDE DEF n, new
<1>4. \A i \in DOMAIN new : (i \in DOMAIN old /\ new[i] = old[i]) \/ new[i] = m
  BY <1>3
<1>5. inbox'[s] = old \/ inbox'[s] = new
  BY <1>1
<1>6. /\ Echoed(s)' \subseteq Echoed(s) \cup {m.display}
      /\ Waiting(s)' \subseteq Waiting(s) \cup {m.number}
      /\ m.type = "status" => Waiting(s)' \subseteq Waiting(s)
  <2>1. CASE inbox'[s] = old
    BY <2>1 DEF Echoed, Waiting
  <2>2. CASE inbox'[s] = new
    BY <1>4, <2>2 DEF Echoed, Waiting
  <2> QED
    BY <1>5, <2>1, <2>2
<1>7. CASE t = s
  BY <1>6, <1>7
<1>8. CASE t # s
  BY <1>2, <1>8 DEF Echoed, Waiting
<1> QED
  BY <1>7, <1>8

\* A record that is still to be read has the fields of a record.
LEMMA ReadRecordTypes ==
  ASSUME TypeInv, NEW s \in Sessions, received[s] < Len(wire[s])
  PROVE  /\ wire[s][received[s] + 1].frame \in Nat /\ wire[s][received[s] + 1].sequence \in Nat
<1>1. received[s] + 1 \in DOMAIN wire[s]
  BY LenProperties DEF TypeInv, TypeOK
<1>2. wire[s][received[s] + 1] \in Record
  BY <1>1, ElementOfSeq, LenProperties DEF TypeInv, TypeOK
<1> QED
  BY <1>2 DEF Record

\* A status carries the frame the tablet displayed when it sent it, and a handler
\* forgets what it was told when it is done with it.
LEMMA HandlerDisplays ==
  ASSUME TypeInv, NEW s \in Sessions, Handle(s), NEW t \in Sessions
  PROVE  /\ handler'[t].display \in {handler[t].display, 0} \cup Echoed(t)
         /\ tablet'.display = tablet.display
         /\ Echoed(t)' \subseteq Echoed(t) \cup {tablet.display}
         /\ Waiting(t)' \subseteq Waiting(t)
<1>1. handler \in [Sessions -> HandlerLocals] /\ handler[s] \in HandlerLocals
  BY DEF TypeInv, TypeOK
<1>2. tablet'.display = tablet.display
  BY DEF Handle, Connect, ReadFirstStatus, ReadStatus, HandleDelivered, HandleReconcile,
         HandleReply, ReadAcknowledgement, SelectAcknowledgement, NoteAcknowledged, HandlerExit,
         HandlerClose, TypeInv, TypeOK
<1>3. handler'[t].display \in {handler[t].display, 0} \cup Echoed(t)
  <2>1. CASE t # s
    BY <2>1, HandleFrame
  <2>2. CASE t = s /\ (ReadFirstStatus(s) \/ ReadStatus(s))
    <3>1. PICK first, status :
            /\ handler' = [handler EXCEPT ![s] = StatusRead(s, first, status)]
            /\ status = Head(inbox[s])
      BY <2>2 DEF ReadFirstStatus, ReadStatus
    <3>2. status.display \in Echoed(s)
      BY <2>2, <3>1, TakesEffect DEF ReadFirstStatus, ReadStatus
    <3> QED
      BY <1>1, <2>2, <3>1, <3>2 DEF StatusRead
  <2>3. CASE t = s /\ (HandleDelivered(s) \/ HandleReconcile(s))
    BY <1>1, <2>3 DEF HandleDelivered, HandleReconcile, HandlerLocals
  <2>4. CASE t = s /\ (Connect(s) \/ NoteAcknowledged(s) \/ HandlerExit(s) \/ HandlerClose(s)
                       \/ \E written \in BOOLEAN : HandleReply(s, written))
    <3>1. PICK pc : handler' = [handler EXCEPT ![s] = AtPC(pc)]
      BY <2>4 DEF Connect, HandleReply, NoteAcknowledged, HandlerExit, HandlerClose
    <3> QED
      BY <1>1, <2>4, <3>1 DEF AtPC
  <2>5. CASE t = s /\ ReadAcknowledgement(s)
    BY <1>1, <2>5 DEF ReadAcknowledgement, HandlerLocals
  <2>6. CASE t = s /\ SelectAcknowledgement(s)
    BY <1>1, <2>6 DEF SelectAcknowledgement, HandlerLocals, AtPC
  <2> QED
    BY <2>1, <2>2, <2>3, <2>4, <2>5, <2>6 DEF Handle
<1>4. /\ Echoed(t)' \subseteq Echoed(t) \cup {tablet.display}
      /\ Waiting(t)' \subseteq Waiting(t)
  <2>1. inbox \in [Sessions -> Seq(Message)]
    BY DEF TypeInv, TypeOK
  <2>2. CASE inbox' = inbox
    BY <2>2 DEF Echoed, Waiting
  <2>3. ASSUME inbox'[t] = inbox[t] \/ inbox'[t] = <<>>
        PROVE  Echoed(t)' \subseteq Echoed(t) /\ Waiting(t)' \subseteq Waiting(t)
    BY <2>3 DEF Echoed, Waiting
  <2>4. CASE Connect(s)
    <3>1. PICK kind \in Kinds : inbox' = [inbox EXCEPT ![s] = <<Status(kind, tablet.display)>>]
      BY <2>4 DEF Connect
    <3>2. CASE t # s
      BY <2>1, <2>3, <3>1, <3>2
    <3>3. CASE t = s
      <4>1. inbox'[t] = <<Status(kind, tablet.display)>>
        BY <2>1, <3>1, <3>3
      <4>2. \A i \in DOMAIN inbox'[t] : inbox'[t][i] = Status(kind, tablet.display)
        BY <4>1
      <4> QED
        BY <4>2 DEF Echoed, Waiting, Status
    <3> QED
      BY <3>2, <3>3
  <2>5. CASE ReadFirstStatus(s) \/ ReadStatus(s) \/ ReadAcknowledgement(s)
    BY <2>5, TakesEffect DEF ReadFirstStatus, ReadStatus, ReadAcknowledgement
  <2>6. CASE HandlerExit(s)
    BY <2>1, <2>3, <2>6 DEF HandlerExit
  <2> QED
    BY <2>2, <2>4, <2>5, <2>6 DEF Handle, HandleDelivered, HandleReconcile, HandleReply,
       SelectAcknowledgement, NoteAcknowledged, HandlerClose
<1> QED
  BY <1>2, <1>3, <1>4

\* A row becomes delivered only by a handler that was told its frame is shown.
LEMMA DeliveredStep ==
  ASSUME TypeInv, [Next]_vars, NEW r \in DOMAIN rows',
         rows'[r].state = "delivered"
  PROVE  \/ r \in DOMAIN rows /\ rows[r].state = "delivered"
         \/ \E s \in Sessions : handler[s].display = r /\ r # 0
<1> DEFINE Goal == \/ r \in DOMAIN rows /\ rows[r].state = "delivered"
                   \/ \E s \in Sessions : handler[s].display = r /\ r # 0
<1>1. /\ rows \in Seq(Row) /\ Len(rows) \in Nat /\ DOMAIN rows = 1..Len(rows)
      /\ \A s \in Sessions : handler[s].display \in Nat /\ session[s].nextSeq \in Nat
  BY LenProperties, HandlerFieldTypes, SessionFieldTypes DEF TypeInv, TypeOK
<1>2. CASE rows' = rows
  BY <1>2
<1>3. ASSUME NEW s \in Sessions, HandleDelivered(s)
      PROVE  Goal
  BY <1>1, <1>3, MarkDeliveredFacts DEF HandleDelivered
<1>4. ASSUME NEW s \in Sessions, HandleReconcile(s)
      PROVE  Goal
  BY <1>1, <1>4, ReconcileDesiredFacts DEF HandleReconcile
<1>5. ASSUME NEW s \in Sessions, NoteAcknowledged(s)
      PROVE  Goal
  BY <1>1, <1>5, UpdateAcknowledgedFacts DEF NoteAcknowledged, TypeInv, RowsExist
<1>6. ASSUME NEW s \in Sessions, DeliverPrepare(s)
      PROVE  Goal
  <2>1. rows' = PrepareSend(rows, delivery[s].row, session[s].nextSeq)
    BY <1>6 DEF DeliverPrepare
  <2>2. delivery[s].row \in DOMAIN rows
    BY <1>6, PrepareEffect
  <2>3. rows \in Seq(Row) /\ session[s].nextSeq \in Nat
    BY <1>1
  <2>4. DOMAIN rows' = DOMAIN rows /\ \A q \in DOMAIN rows : rows'[q].state = rows[q].state
    BY <2>1, <2>2, <2>3, PrepareSendFacts
  <2> QED
    BY <2>4
<1>7. ASSUME NEW s \in Sessions,
             DeliverGiveUp(s) \/ DeliverExhaust(s) \/ DeliverRenderFailed(s) \/ DeliverMark(s)
      PROVE  Goal
  <2>1. delivery[s].row \in DOMAIN rows
    BY <1>7 DEF TypeInv, RowsExist, Deliver, DeliverGiveUp, DeliverExhaust, DeliverRenderFailed,
                DeliverMark
  <2>2. PICK state \in {"failed", "sent", "error"} :
          rows' = SetUnlessDelivered(rows, delivery[s].row, state)
    BY <1>7 DEF DeliverGiveUp, DeliverExhaust, DeliverRenderFailed, DeliverMark, MarkFailed, MarkSent
  <2>3. state \in States /\ state # "delivered"
    BY DEF States
  <2> QED
    BY <1>1, <2>1, <2>2, <2>3, SetUnlessDeliveredFacts
<1>8. CASE Upload
  <2>1. /\ DOMAIN rows' = 1..(Len(rows) + 1) /\ \A q \in DOMAIN rows : rows'[q] = rows[q]
        /\ rows'[Len(rows) + 1] = NewRow
    BY <1>1, <1>8, CreateAssignmentFacts DEF Upload
  <2>2. NewRow.state # "delivered"
    BY DEF NewRow
  <2>3. r # Len(rows) + 1
    BY <2>1, <2>2
  <2>4. r \in DOMAIN rows
    BY <1>1, <2>1, <2>3
  <2> QED
    BY <2>1, <2>4
<1> QED
  BY <1>2, <1>3, <1>4, <1>5, <1>6, <1>7, <1>8
     DEF Next, vars, Handle, DeliverStep, Connect, ReadFirstStatus, ReadStatus, HandleReply,
         ReadAcknowledgement, SelectAcknowledgement, HandlerExit, HandlerClose,
         DeliverCheck, DeliverLoad, DeliverWrite, Restart, TabletReads, TabletReports, TabletDrops

\* Every step keeps what the tablet displays and tells within what was written.
LEMMA ReadInvStep == TypeInv /\ ReadInv /\ [Next]_vars => ReadInv'
<1> SUFFICES ASSUME TypeInv, ReadInv, [Next]_vars
             PROVE  ReadInv'
  OBVIOUS
<1>1. ASSUME NEW r \in DOMAIN rows', rows'[r].state = "delivered"
      PROVE  WasRead(r)'
  <2>1. WasRead(r)
    BY <1>1, DeliveredStep DEF ReadInv
  <2> QED
    BY <2>1, WasReadStays
<1>2. ASSUME \A s \in Sessions : received'[s] <= Len(wire'[s]),
             \A s \in Sessions : handler'[s].display \in {handler[s].display, 0} \cup Echoed(s),
             \A s \in Sessions : Echoed(s)' \subseteq Echoed(s) \cup {tablet.display, 0},
             tablet'.display \in {tablet.display, 0} \/ WasRead(tablet.display)'
      PROVE  ReadInv'
  <2>1. \A n : n = tablet.display /\ n # 0 => WasRead(n)'
    BY WasReadStays DEF ReadInv
  <2>2. (tablet.display # 0 => WasRead(tablet.display))'
    <3>1. PICK n : n = tablet'.display
      OBVIOUS
    <3>2. WasRead(tablet.display)' <=> WasRead(n)'
      BY <3>1 DEF WasRead
    <3> QED
      BY <1>2, <2>1, <3>1, <3>2
  <2>3. ASSUME NEW s \in Sessions
        PROVE  (handler[s].display # 0 => WasRead(handler[s].display))'
    <3>1. PICK n : n = handler'[s].display
      OBVIOUS
    <3>2. WasRead(handler[s].display)' <=> WasRead(n)'
      BY <3>1 DEF WasRead
    <3>3. n = handler[s].display \/ n \in Echoed(s) => (n # 0 => WasRead(n)')
      BY WasReadStays DEF ReadInv
    <3> QED
      BY <1>2, <3>1, <3>2, <3>3
  <2>4. ASSUME NEW s \in Sessions, NEW r \in Echoed(s)', r # 0
        PROVE  WasRead(r)'
    <3>1. r \in Echoed(s) => WasRead(r)'
      BY <2>4, WasReadStays DEF ReadInv
    <3> QED
      BY <1>2, <2>1, <2>4, <3>1
  <2> QED
    BY <1>1, <1>2, <2>2, <2>3, <2>4 DEF ReadInv
<1>3. /\ tablet \in [session : Sessions \cup {NoSession}, display : Nat]
      /\ handler \in [Sessions -> HandlerLocals]
      /\ received \in [Sessions -> Nat]
  BY DEF TypeInv, TypeOK
<1>4. ASSUME received' = received
      PROVE  \A s \in Sessions : received'[s] <= Len(wire'[s])
  <2>1. TAKE s \in Sessions
  <2>2. received[s] <= Len(wire[s])
    BY DEF ReadInv
  <2> QED
    BY <1>3, <1>4, <2>2, WireGrows
<1>5. ASSUME NEW drawn \in BOOLEAN, TabletReads(drawn)
      PROVE  ReadInv'
  <2> DEFINE n == received[tablet.session] + 1
  <2>1. PICK s \in Sessions : s = tablet.session
    BY <1>3, <1>5 DEF TabletReads
  <2>2. /\ received[s] < Len(wire[s]) /\ wire' = wire /\ handler' = handler
        /\ received' = [received EXCEPT ![s] = received[s] + 1]
        /\ drawn => tablet' = [tablet EXCEPT !.display = wire[s][received[s] + 1].frame]
        /\ ~drawn => tablet' = tablet
    BY <1>5, <2>1 DEF TabletReads
  <2>3. Len(wire[s]) \in Nat /\ received[s] \in Nat
    BY <1>3, WireGrows
  <2>4. received'[s] = received[s] + 1 /\ \A q \in Sessions : q # s => received'[q] = received[q]
    BY <1>3, <2>2
  <2>5. \A q \in Sessions : received'[q] <= Len(wire'[q])
    BY <2>2, <2>3, <2>4 DEF ReadInv
  <2>8. ASSUME NEW q \in Sessions
        PROVE  Echoed(q)' \subseteq Echoed(q) \cup {tablet.display, 0}
    <3>1. CASE inbox' = inbox
      BY <3>1 DEF Echoed
    <3>2. CASE Arrives(s, Acknowledgement(wire[s][received[s] + 1].sequence))
      <4>1. PICK number \in Nat : Arrives(s, Acknowledgement(number))
        BY <1>3, <2>2, <2>3, <3>2, ReadRecordTypes
      <4>2. Acknowledgement(number) \in Message /\ Acknowledgement(number).display = 0
        BY DEF Acknowledgement, Message
      <4> QED
        BY <4>1, <4>2, ArrivesEffect
    <3> QED
      BY <1>5, <2>1, <3>1, <3>2 DEF TabletReads
  <2>6. CASE ~drawn
    BY <1>2, <2>2, <2>5, <2>6, <2>8
  <2>7. CASE drawn
    <3>1. tablet'.display = wire[s][received[s] + 1].frame
      BY <1>3, <2>2, <2>7
    <3>2. WasRead(tablet.display)'
      <4>1. received[s] + 1 \in 1..received'[s]
        BY <2>3, <2>4
      <4>2. wire'[s][received[s] + 1].frame = tablet'.display
        BY <2>2, <3>1
      <4> QED
        BY <4>1, <4>2 DEF WasRead
    <3> QED
      BY <1>2, <2>2, <2>5, <2>8, <3>2
  <2> QED
    BY <2>6, <2>7
<1>6. ASSUME NEW s \in Sessions, Handle(s)
      PROVE  ReadInv'
  <2>1. received' = received
    BY <1>6 DEF Handle, Connect, ReadFirstStatus, ReadStatus, HandleDelivered, HandleReconcile,
       HandleReply, ReadAcknowledgement, SelectAcknowledgement, NoteAcknowledged, HandlerExit, HandlerClose
  <2> QED
    BY <1>2, <1>4, <1>6, <2>1, HandlerDisplays
<1>7. ASSUME NEW s \in Sessions, DeliverStep(s)
      PROVE  ReadInv'
  <2>1. received' = received /\ tablet' = tablet /\ inbox' = inbox
    BY <1>7 DEF DeliverStep, DeliverCheck, DeliverLoad, DeliverGiveUp, DeliverExhaust,
       DeliverRenderFailed, DeliverPrepare, DeliverWrite, DeliverMark
  <2>2. handler' = handler
    BY <1>7, DeliverFrame
  <2> QED
    BY <1>2, <1>4, <2>1, <2>2 DEF Echoed
<1>8. CASE Restart
  <2>1. /\ received' = received /\ tablet' = tablet
        /\ \A s \in Sessions : handler'[s] \in {handler[s], AtPC("done")} /\ inbox'[s] = <<>>
    BY <1>8 DEF Restart
  <2>2. AtPC("done").display = 0
    BY DEF AtPC
  <2>3. \A s \in Sessions : Echoed(s)' = {}
    BY <2>1 DEF Echoed
  <2> QED
    BY <1>2, <1>4, <2>1, <2>2, <2>3
<1>9. CASE TabletDrops
  <2>1. /\ received' = received /\ handler' = handler /\ tablet'.display \in {tablet.display, 0}
        /\ inbox' = inbox
    BY <1>9 DEF TabletDrops
  <2> QED
    BY <1>2, <1>4, <2>1 DEF Echoed
<1>10. CASE Upload \/ UNCHANGED vars
  <2>1. received' = received /\ handler' = handler /\ tablet' = tablet /\ inbox' = inbox
    BY <1>10 DEF Upload, vars
  <2> QED
    BY <1>2, <1>4, <2>1 DEF Echoed
<1>11. CASE TabletReports
  <2>1. received' = received /\ handler' = handler /\ tablet' = tablet
    BY <1>11 DEF TabletReports
  <2>2. PICK s \in Sessions, kind \in Kinds : Arrives(s, Status(kind, tablet.display))
    BY <1>3, <1>11 DEF TabletReports
  <2>3. /\ Status(kind, tablet.display) \in Message
        /\ Status(kind, tablet.display).display = tablet.display
    BY <1>3, KindsAssumption DEF Status, Message
  <2>4. \A t \in Sessions : Echoed(t)' \subseteq Echoed(t) \cup {tablet.display}
    BY <2>2, <2>3, ArrivesEffect
  <2> QED
    BY <1>2, <1>4, <2>1, <2>4
<1> QED
  BY <1>5, <1>6, <1>7, <1>8, <1>9, <1>10, <1>11 DEF Next

\* At the start nothing is on the wire.
LEMMA ReadInvInit == Init => ReadInv
<1> SUFFICES ASSUME Init PROVE ReadInv
  OBVIOUS
<1>1. /\ rows = <<>> /\ tablet.display = 0
      /\ \A s \in Sessions : /\ received[s] = 0 /\ wire[s] = <<>> /\ handler[s].display = 0
                             /\ inbox[s] = <<>>
  BY DEF Init, AtPC
<1>2. \A s \in Sessions : received[s] <= Len(wire[s])
  BY <1>1, EmptySeq
<1> QED
  BY <1>1, <1>2 DEF ReadInv, Echoed

\* An assignment counts as delivered only if the tablet read its frame on one
\* of its connections, however late the status that says so is handled.
THEOREM DeliveredWasReadAlways == Spec => []DeliveredWasRead
<1>1. ReadInv => DeliveredWasRead
  BY DEF ReadInv, WasRead, DeliveredWasRead
<1> QED
  BY <1>1, ReadInvInit, ReadInvStep, TypesAlways, PTL DEF Spec

-----------------------------------------------------------------------------
(* Delivery implements LatestFrame *)

\* What LatestFrame sees of a step that writes no record, adds no row and
\* changes no row to or from "delivered".
LEMMA StutterStep ==
  ASSUME TypeInv, wire' = wire, DOMAIN rows' = DOMAIN rows, Len(rows') = Len(rows),
         \A r \in DOMAIN rows : rows'[r].state = "delivered" <=> rows[r].state = "delivered"
  PROVE  Len(rows') = Len(rows) /\ Carried' = Carried /\ Delivered' = Delivered
  BY DEF Carried, Delivered

\* A function on 1..n is a sequence of that length.
LEMMA FunctionIsSeq ==
  ASSUME NEW S, NEW n \in Nat, NEW f \in [1..n -> S]
  PROVE  f \in Seq(S) /\ Len(f) = n
<1>1. f \in Seq(S)
  BY SeqDef
<1>2. Len(f) \in Nat /\ DOMAIN f = 1..Len(f) /\ DOMAIN f = 1..n
  BY <1>1, LenProperties
<1> QED
  BY <1>1, <1>2

\* The connection of a write carries one frame more and the others what they
\* carried.
LEMMA CarriedWrite ==
  ASSUME TypeInv, NEW s \in Sessions, DeliverWrite(s, TRUE)
  PROVE  Carried' = [Carried EXCEPT ![s] = Append(@, delivery[s].row)]
<1> DEFINE n     == Len(wire[s])
           old   == [i \in DOMAIN wire[s] |-> wire[s][i].frame]
           new   == [i \in DOMAIN wire'[s] |-> wire'[s][i].frame]
           frame == delivery[s].row
<1>1. /\ n \in Nat /\ DOMAIN wire[s] = 1..n /\ DOMAIN wire'[s] = 1..(n + 1)
      /\ \A i \in 1..n : wire'[s][i] = wire[s][i]
      /\ wire'[s][n + 1].frame = frame
  BY WriteEffect
<1>2. frame \in Nat
  BY DeliveryFieldTypes DEF TypeInv, TypeOK
<1>3. \A i \in DOMAIN wire[s] : wire[s][i].frame \in Nat
  <2>1. \A i \in DOMAIN wire[s] : wire[s][i] \in Record
    BY ElementOfSeq, LenProperties DEF TypeInv, TypeOK
  <2> QED
    BY <2>1 DEF Record
<1> HIDE DEF n, frame
<1>4. old \in Seq(Nat) /\ Len(old) = n
  <2>1. old \in [1..n -> Nat]
    BY <1>1, <1>3
  <2> HIDE DEF old
  <2> QED
    BY <1>1, <2>1, FunctionIsSeq
<1>5. new \in Seq(Nat) /\ Len(new) = n + 1
  <2>1. \A i \in 1..(n + 1) : wire'[s][i].frame \in Nat
    <3>1. \A i \in 1..(n + 1) : i \in 1..n \/ i = n + 1
      BY <1>1
    <3> QED
      BY <1>1, <1>2, <1>3, <3>1
  <2>2. new \in [1..(n + 1) -> Nat] /\ n + 1 \in Nat
    BY <1>1, <2>1
  <2> HIDE DEF new
  <2> QED
    BY <2>2, FunctionIsSeq
<1>6. \A i \in 1..n : new[i] = old[i]
  BY <1>1
<1>7. new[n + 1] = frame
  BY <1>1
<1>8. new = Append(old, frame)
  <2> HIDE DEF old, new
  <2>1. /\ Append(old, frame) \in Seq(Nat) /\ Len(Append(old, frame)) = n + 1
        /\ \A i \in 1..n : Append(old, frame)[i] = old[i]
        /\ Append(old, frame)[n + 1] = frame
    BY <1>2, <1>4, AppendProperties
  <2>2. \A i \in 1..(n + 1) : new[i] = Append(old, frame)[i]
    BY <1>1, <1>6, <1>7, <2>1
  <2> QED
    BY <1>5, <2>1, <2>2, SeqEqual
<1>9. \A t \in Sessions : t # s => wire'[t] = wire[t]
  BY DeliverFrame DEF DeliverStep
<1>10. Carried' = [t \in Sessions |-> IF t = s THEN new ELSE Carried[t]]
  BY <1>9 DEF Carried
<1>11. Carried[s] = old /\ Carried = [t \in Sessions |-> Carried[t]]
  BY DEF Carried
<1> HIDE DEF old, new
<1> QED
  BY <1>8, <1>10, <1>11 DEF frame

\* The statement that skips delivered rows delivers none.
LEMMA SetKeepsDelivered ==
  ASSUME NEW table \in Seq(Row), NEW id \in DOMAIN table, NEW state \in {"failed", "sent", "error"}
  PROVE  LET new == SetUnlessDelivered(table, id, state) IN
         /\ Len(new) = Len(table) /\ DOMAIN new = DOMAIN table
         /\ \A r \in DOMAIN table : new[r].state = "delivered" <=> table[r].state = "delivered"
<1>1. state \in States /\ state # "delivered"
  BY DEF States
<1> QED
  BY <1>1, SetUnlessDeliveredFacts

\* A step of a handler confirms a frame that was carried, takes back the
\* confirmation of the newest one, or changes nothing LatestFrame sees.
LEMMA HandleRefines ==
  ASSUME TypeInv, ReadInv, NEW s \in Sessions, Handle(s)
  PROVE  [Promise!Next]_(Promise!vars)
<1>1. /\ rows \in Seq(Row) /\ Len(rows) \in Nat /\ DOMAIN rows = 1..Len(rows)
      /\ handler[s].display \in Nat
  BY LenProperties, HandlerFieldTypes DEF TypeInv, TypeOK
<1>2. wire' = wire
  BY HandleFrame
<1>3. Carried' = Carried
  BY <1>2 DEF Carried
<1>4. ASSUME DOMAIN rows' = DOMAIN rows, Len(rows') = Len(rows),
             \A r \in DOMAIN rows : rows'[r].state = "delivered" <=> rows[r].state = "delivered"
      PROVE  UNCHANGED Promise!vars
  <2>1. Len(rows') = Len(rows) /\ Carried' = Carried /\ Delivered' = Delivered
    BY <1>2, <1>4, StutterStep
  <2> QED
    BY <2>1 DEF Promise!vars
<1>5. CASE HandleDelivered(s)
  <2> DEFINE frame == handler[s].display
  <2>1. /\ rows' = MarkDelivered(rows, frame)
        /\ Len(rows') = Len(rows) /\ DOMAIN rows' = DOMAIN rows
        /\ \A r \in DOMAIN rows :
             rows'[r].state = IF r = frame THEN "delivered" ELSE rows[r].state
    BY <1>1, <1>5, MarkDeliveredFacts DEF HandleDelivered
  <2>2. CASE frame \in DOMAIN rows
    <3>1. Delivered' = Delivered \cup {frame}
      BY <2>1, <2>2 DEF Delivered
    <3>2. \E c \in Sessions : \E i \in DOMAIN Carried[c] : Carried[c][i] = frame
      <4>1. WasRead(frame)
        BY <1>1, <2>2 DEF ReadInv
      <4>2. PICK c \in Sessions : \E i \in 1..received[c] : wire[c][i].frame = frame
        BY <4>1 DEF WasRead
      <4>3. PICK i \in 1..received[c] : wire[c][i].frame = frame
        BY <4>2
      <4>4. i \in DOMAIN wire[c]
        BY LenProperties DEF ReadInv, TypeInv, TypeOK
      <4>5. i \in DOMAIN Carried[c] /\ Carried[c][i] = frame
        BY <4>3, <4>4 DEF Carried
      <4> QED
        BY <4>5
    <3>3. Promise!Confirm(frame)
      BY <1>3, <2>1, <3>1, <3>2 DEF Promise!Confirm
    <3>4. frame \in 1..Len(rows)
      BY <1>1, <2>2
    <3>5. PICK c \in Sessions : TRUE
      OBVIOUS
    <3> QED
      BY <3>3, <3>4, <3>5 DEF Promise!Next
  <2>3. CASE frame \notin DOMAIN rows
    BY <1>4, <2>1, <2>3
  <2> QED
    BY <2>2, <2>3
<1>6. CASE HandleReconcile(s)
  <2>1. /\ Len(rows') = Len(rows) /\ DOMAIN rows' = DOMAIN rows
        /\ \A r \in DOMAIN rows :
             \/ rows'[r].state = rows[r].state
             \/ r = Len(rows) /\ rows[r].state = "delivered" /\ rows'[r].state = "queued"
    BY <1>1, <1>6, ReconcileDesiredFacts DEF HandleReconcile
  <2>2. CASE \A r \in DOMAIN rows : rows'[r].state = rows[r].state
    BY <1>4, <2>1, <2>2
  <2>3. CASE ~\A r \in DOMAIN rows : rows'[r].state = rows[r].state
    <3>1. /\ Len(rows) \in DOMAIN rows /\ rows[Len(rows)].state = "delivered"
          /\ rows'[Len(rows)].state = "queued"
      BY <2>1, <2>3
    <3>2. Len(rows) \in Delivered /\ Delivered' = Delivered \ {Len(rows)}
      BY <2>1, <3>1 DEF Delivered
    <3>3. Promise!Retract
      BY <1>3, <2>1, <3>2 DEF Promise!Retract
    <3> QED
      BY <3>3 DEF Promise!Next
  <2> QED
    BY <2>2, <2>3
<1>7. CASE NoteAcknowledged(s)
  <2>1. /\ Len(rows') = Len(rows) /\ DOMAIN rows' = DOMAIN rows
        /\ \A r \in DOMAIN rows : rows'[r].state = rows[r].state
    BY <1>1, <1>7, UpdateAcknowledgedFacts DEF NoteAcknowledged, TypeInv, RowsExist
  <2> QED
    BY <1>4, <2>1
<1>8. CASE rows' = rows
  BY <1>4, <1>8
<1> QED
  BY <1>5, <1>6, <1>7, <1>8 DEF Handle, Connect, ReadFirstStatus, ReadStatus, HandleReply,
         ReadAcknowledgement, SelectAcknowledgement, HandlerExit, HandlerClose

\* A step of a delivery goroutine carries a frame LatestFrame lets the
\* connection carry, or changes nothing it sees.
LEMMA DeliverRefines ==
  ASSUME TypeInv, OrderInv, AttemptInv, NEW s \in Sessions, DeliverStep(s)
  PROVE  [Promise!Next]_(Promise!vars)
<1>1. /\ rows \in Seq(Row) /\ Len(rows) \in Nat /\ DOMAIN rows = 1..Len(rows)
  BY LenProperties DEF TypeInv, TypeOK
<1>2. ASSUME wire' = wire, DOMAIN rows' = DOMAIN rows, Len(rows') = Len(rows),
             \A r \in DOMAIN rows : rows'[r].state = "delivered" <=> rows[r].state = "delivered"
      PROVE  UNCHANGED Promise!vars
  <2>1. Len(rows') = Len(rows) /\ Carried' = Carried /\ Delivered' = Delivered
    BY <1>2, StutterStep
  <2> QED
    BY <2>1 DEF Promise!vars
<1>3. CASE DeliverWrite(s, TRUE)
  <2> DEFINE frame == delivery[s].row
  <2>1. /\ rows' = rows /\ delivery[s].pc = "write" /\ frame \in 1..Len(rows)
    BY <1>1, <1>3, WriteEffect
  <2>2. \A i \in DOMAIN Carried[s] : Carried[s][i] <= frame
    BY <2>1 DEF OrderInv, Carried
  <2>3. {i \in DOMAIN Carried[s] : Carried[s][i] = frame} = SendsOf(s, frame)
    BY DEF Carried, SendsOf
  <2>4. Cardinality(SendsOf(s, frame)) < MaxDeliveryAttempts
    <3>1. frame = session[s].attemptID
      BY <2>1 DEF AttemptInv, AttemptsOf
    <3>2. /\ Cardinality(SendsOf(s, frame)) + 1 <= session[s].attempts
          /\ session[s].attempts <= MaxDeliveryAttempts
      BY <2>1, <3>1 DEF AttemptInv, AttemptsOf, InFlight
    <3>3. Cardinality(SendsOf(s, frame)) \in Nat /\ session[s].attempts \in Nat
      BY SendsOfFinite, SessionFieldTypes DEF TypeInv, TypeOK
    <3> HIDE DEF frame
    <3> QED
      BY <3>2, <3>3, AttemptsAssumption
  <2>5. Carried' = [Carried EXCEPT ![s] = Append(@, frame)]
    BY <1>3, CarriedWrite
  <2>6. Delivered' = Delivered
    BY <2>1 DEF Delivered
  <2> HIDE DEF frame
  <2>7. Promise!Carry(s, frame)
    <3>1. Cardinality({i \in DOMAIN Carried[s] : Carried[s][i] = frame}) < MaxDeliveryAttempts
      BY <2>3, <2>4
    <3>2. \A S : Promise!Cardinality(S) = Cardinality(S)
      BY DEF Promise!Cardinality, Cardinality
    <3> QED
      BY <2>1, <2>2, <2>5, <2>6, <3>1, <3>2 DEF Promise!Carry
  <2> QED
    BY <2>1, <2>7 DEF Promise!Next
<1>4. CASE DeliverPrepare(s)
  <2>1. /\ rows' = PrepareSend(rows, delivery[s].row, session[s].nextSeq)
        /\ session[s].nextSeq \in Nat
    BY <1>4, SessionFieldTypes DEF DeliverPrepare, TypeInv, TypeOK
  <2>2. delivery[s].row \in DOMAIN rows /\ wire' = wire
    BY <1>4, PrepareEffect
  <2>3. /\ Len(rows') = Len(rows) /\ DOMAIN rows' = DOMAIN rows
        /\ \A r \in DOMAIN rows : rows'[r].state = rows[r].state
    BY <1>1, <2>1, <2>2, PrepareSendFacts
  <2> QED
    BY <1>2, <2>2, <2>3
<1>5. CASE DeliverGiveUp(s) \/ DeliverExhaust(s) \/ DeliverRenderFailed(s) \/ DeliverMark(s)
  <2>1. delivery[s].row \in DOMAIN rows /\ wire' = wire
    BY <1>5 DEF TypeInv, RowsExist, Deliver, DeliverGiveUp, DeliverExhaust, DeliverRenderFailed,
                DeliverMark
  <2>2. PICK state \in {"failed", "sent", "error"} :
          rows' = SetUnlessDelivered(rows, delivery[s].row, state)
    BY <1>5 DEF DeliverGiveUp, DeliverExhaust, DeliverRenderFailed, DeliverMark, MarkFailed, MarkSent
  <2> QED
    BY <1>1, <1>2, <2>1, <2>2, SetKeepsDelivered
<1>6. ASSUME rows' = rows, wire' = wire
      PROVE  [Promise!Next]_(Promise!vars)
  BY <1>2, <1>6
<1>7. CASE DeliverWrite(s, FALSE)
  BY <1>6, <1>7, WriteEffect
<1>8. CASE DeliverCheck(s) \/ \E due \in BOOLEAN : DeliverLoad(s, due)
  BY <1>6, <1>8, CheckEffect, LoadEffect
<1> QED
  BY <1>3, <1>4, <1>5, <1>7, <1>8 DEF DeliverStep

\* Every step of Delivery is a step of LatestFrame or changes nothing it sees.
LEMMA StepRefines ==
  TypeInv /\ OrderInv /\ AttemptInv /\ ReadInv /\ [Next]_vars => [Promise!Next]_(Promise!vars)
<1> SUFFICES ASSUME TypeInv, OrderInv, AttemptInv, ReadInv, [Next]_vars
             PROVE  [Promise!Next]_(Promise!vars)
  OBVIOUS
<1>1. CASE \E s \in Sessions : Handle(s) \/ DeliverStep(s)
  BY <1>1, HandleRefines, DeliverRefines
<1>2. CASE Upload
  <2>1. /\ Len(rows') = Len(rows) + 1 /\ DOMAIN rows = 1..Len(rows) /\ Len(rows) \in Nat
        /\ DOMAIN rows' = 1..(Len(rows) + 1)
        /\ \A r \in DOMAIN rows : rows'[r] = rows[r]
        /\ rows'[Len(rows) + 1] = NewRow
    BY <1>2, CreateAssignmentFacts, LenProperties DEF Upload, TypeInv, TypeOK
  <2>2. NewRow.state # "delivered"
    BY DEF NewRow
  <2>3. Delivered' = Delivered
    <3>1. \A r \in DOMAIN rows' : r \in DOMAIN rows \/ r = Len(rows) + 1
      BY <2>1
    <3>2. DOMAIN rows \subseteq DOMAIN rows'
      BY <2>1
    <3> QED
      BY <2>1, <2>2, <3>1, <3>2 DEF Delivered
  <2>4. Carried' = Carried
    BY <1>2 DEF Upload, Carried
  <2>5. Promise!Request
    BY <2>1, <2>3, <2>4 DEF Promise!Request
  <2> QED
    BY <2>5 DEF Promise!Next
<1>3. CASE Restart \/ (\E drawn \in BOOLEAN : TabletReads(drawn)) \/ TabletReports
           \/ TabletDrops \/ UNCHANGED vars
  <2>1. rows' = rows /\ wire' = wire
    BY <1>3 DEF Restart, TabletReads, TabletReports, TabletDrops, vars
  <2>2. Len(rows') = Len(rows) /\ Carried' = Carried /\ Delivered' = Delivered
    BY <2>1 DEF Carried, Delivered
  <2> QED
    BY <2>2 DEF Promise!vars
<1> QED
  BY <1>1, <1>2, <1>3 DEF Next

\* The initial states are those of the promise.
LEMMA InitRefines == Init => Promise!Init
<1> SUFFICES ASSUME Init PROVE Promise!Init
  OBVIOUS
<1>1. rows = <<>> /\ wire = [s \in Sessions |-> <<>>]
  BY DEF Init
<1>2. Len(rows) = 0 /\ Delivered = {}
  BY <1>1, EmptySeq DEF Delivered
<1>3. Carried = [s \in Sessions |-> <<>>]
  BY <1>1 DEF Carried
<1> QED
  BY <1>2, <1>3 DEF Promise!Init

\* Whatever the handlers, the goroutines, the restarts and the tablet do, what
\* each connection carries and what counts as delivered is what LatestFrame
\* promises.
THEOREM DeliveryRefines == Spec => ImplementsLatestFrame
<1>1. Init => OrderInv
  BY DEF Init, OrderInv, NeverBackwards
<1>2. Spec => [](TypeInv /\ OrderInv /\ AttemptInv /\ ReadInv)
  BY <1>1, OrderInvStep, AttemptInvInit, AttemptInvStep, ReadInvInit, ReadInvStep, TypesAlways, PTL
     DEF Spec
<1> QED
  BY <1>2, InitRefines, StepRefines, PTL DEF Spec, ImplementsLatestFrame, Promise!Spec

-----------------------------------------------------------------------------
(* What a partial update starts from *)

\* What a handler may change of the sequence numbers and displays it and its
\* session hold.
HandleChanges(s) ==
  /\ Len(rows') = Len(rows) /\ received' = received
  /\ handler'[s].sequence \in Waiting(s) \cup {handler[s].sequence, 0}
  /\ session'[s].ackedSeq \in {session[s].ackedSeq, handler[s].sequence}
  /\ session'[s].display \in {session[s].display, handler[s].display} \cup Echoed(s)
  /\ \/ handler[s].pc = "unused" /\ tablet'.session = s
     \/ tablet' = tablet
  /\ Used(s) => session[s].nextSeq <= session'[s].nextSeq

\* Every step of a handler changes them so.
LEMMA HandleEffect ==
  ASSUME TypeInv, NEW s \in Sessions, Handle(s)
  PROVE  HandleChanges(s)
<1>1. /\ rows \in Seq(Row) /\ handler[s].display \in Nat
      /\ session \in [Sessions -> SessionFields] /\ session[s] \in SessionFields
      /\ handler \in [Sessions -> HandlerLocals] /\ handler[s] \in HandlerLocals
      /\ tablet \in [session : Sessions \cup {NoSession}, display : Nat]
      /\ session[s].nextSeq \in Nat /\ handler[s].kind \in Nat
  BY HandlerFieldTypes, SessionFieldTypes DEF TypeInv, TypeOK
<1>2. CASE Connect(s)
  <2>1. handler'[s].sequence = 0
    BY <1>1, <1>2 DEF Connect, AtPC
  <2>2. /\ rows' = rows /\ received' = received /\ session' = session /\ handler[s].pc = "unused"
        /\ tablet'.session = s
    BY <1>1, <1>2 DEF Connect
  <2> QED
    BY <1>1, <2>1, <2>2 DEF HandleChanges
<1>10. CASE ReadFirstStatus(s)
  <2>1. PICK status : /\ status = Head(inbox[s]) /\ session' = Register(s, status)
                      /\ handler' = [handler EXCEPT ![s] = StatusRead(s, TRUE, status)]
    BY <1>10 DEF ReadFirstStatus
  <2>2. status.display \in Echoed(s) /\ handler[s].pc = "first"
    BY <1>10, <2>1, TakesEffect DEF ReadFirstStatus
  <2>3. handler'[s].sequence = 0
    BY <1>1, <2>1 DEF StatusRead
  <2>4. session'[s] = [session[s] EXCEPT !.nextSeq = status.number + 1, !.display = status.display]
    BY <2>1 DEF Register
  <2>5. session'[s].ackedSeq = session[s].ackedSeq /\ session'[s].display = status.display
    BY <1>1, <2>4 DEF SessionFields
  <2>6. rows' = rows /\ received' = received /\ tablet' = tablet
    BY <1>10 DEF ReadFirstStatus
  <2> QED
    BY <2>2, <2>3, <2>5, <2>6 DEF HandleChanges, Used
<1>3. CASE ReadStatus(s)
  <2>1. handler'[s].sequence = 0
    BY <1>1, <1>3 DEF ReadStatus, StatusRead
  <2>2. /\ rows' = rows /\ received' = received /\ session' = session /\ tablet' = tablet
    BY <1>3 DEF ReadStatus
  <2> QED
    BY <1>1, <2>1, <2>2 DEF HandleChanges
<1>4. CASE HandleDelivered(s) \/ HandleReconcile(s)
  <2>1. Len(rows') = Len(rows)
    BY <1>1, <1>4, MarkDeliveredFacts, ReconcileDesiredFacts DEF HandleDelivered, HandleReconcile
  <2>2. /\ received' = received /\ session' = session /\ tablet' = tablet
    BY <1>4 DEF HandleDelivered, HandleReconcile
  <2>3. handler'[s].sequence = handler[s].sequence
    BY <1>1, <1>4 DEF HandleDelivered, HandleReconcile, HandlerLocals
  <2> QED
    BY <1>1, <2>1, <2>2, <2>3 DEF HandleChanges
<1>5. ASSUME NEW written \in BOOLEAN, HandleReply(s, written)
      PROVE  HandleChanges(s)
  <2> DEFINE next == AdvanceSequence(session[s].nextSeq, handler[s].kind)
  <2>1. next \in Nat /\ session[s].nextSeq <= next
    BY <1>1 DEF AdvanceSequence
  <2>2. session'[s] = [session[s] EXCEPT !.display = handler[s].display, !.nextSeq = next,
                                         !.ready = session[s].ready \/ written]
    BY <1>1, <1>5 DEF HandleReply
  <2>3. /\ rows' = rows /\ received' = received /\ tablet' = tablet
    BY <1>5 DEF HandleReply
  <2>4. handler'[s].sequence = 0
    <3>1. PICK pc : handler' = [handler EXCEPT ![s] = AtPC(pc)]
      BY <1>5 DEF HandleReply
    <3> QED
      BY <1>1, <3>1 DEF AtPC
  <2> HIDE DEF next
  <2>5. /\ session'[s].ackedSeq = session[s].ackedSeq /\ session'[s].nextSeq = next
        /\ session'[s].display = handler[s].display
    BY <1>1, <2>2 DEF SessionFields
  <2> QED
    BY <2>1, <2>3, <2>4, <2>5 DEF HandleChanges
<1>6. CASE ReadAcknowledgement(s)
  <2>1. PICK n : /\ n = Head(inbox[s]).number
                 /\ handler' = [handler EXCEPT ![s] = [@ EXCEPT !.pc = "ackSelect", !.sequence = n]]
    BY <1>6 DEF ReadAcknowledgement
  <2>2. handler'[s].sequence = n
    BY <1>1, <2>1 DEF HandlerLocals
  <2>3. n \in Waiting(s)
    BY <1>6, <2>1, TakesEffect DEF ReadAcknowledgement
  <2>4. rows' = rows /\ received' = received /\ session' = session /\ tablet' = tablet
    BY <1>6 DEF ReadAcknowledgement
  <2> QED
    BY <1>1, <2>2, <2>3, <2>4 DEF HandleChanges
<1>7. CASE SelectAcknowledgement(s)
  <2> DEFINE row == SelectAcknowledged(rows, handler[s].sequence)
  <2>1. handler' = [handler EXCEPT ![s] =
          IF row = NoRow THEN AtPC("read") ELSE [@ EXCEPT !.pc = "ackUpdate", !.row = row]]
    BY <1>7 DEF SelectAcknowledgement
  <2> HIDE DEF row
  <2>2. handler'[s].sequence \in {handler[s].sequence, 0}
    BY <1>1, <2>1 DEF AtPC, HandlerLocals
  <2>3. rows' = rows /\ received' = received /\ session' = session /\ tablet' = tablet
    BY <1>7 DEF SelectAcknowledgement
  <2> QED
    BY <1>1, <2>2, <2>3 DEF HandleChanges
<1>8. CASE NoteAcknowledged(s)
  <2>1. Len(rows') = Len(rows)
    BY <1>1, <1>8, UpdateAcknowledgedFacts DEF NoteAcknowledged, TypeInv, RowsExist
  <2>2. received' = received /\ tablet' = tablet
    BY <1>8 DEF NoteAcknowledged
  <2>3. /\ session'[s].ackedSeq = handler[s].sequence /\ session'[s].display = session[s].display
        /\ session'[s].nextSeq = session[s].nextSeq
    BY <1>1, <1>8 DEF NoteAcknowledged, SessionFields
  <2>4. handler'[s].sequence = 0
    BY <1>1, <1>8 DEF NoteAcknowledged, AtPC
  <2> QED
    BY <1>1, <2>1, <2>2, <2>3, <2>4 DEF HandleChanges
<1>9. CASE HandlerExit(s) \/ HandlerClose(s)
  <2>1. rows' = rows /\ received' = received /\ tablet' = tablet
    BY <1>9 DEF HandlerExit, HandlerClose
  <2>2. /\ session'[s].ackedSeq = session[s].ackedSeq /\ session'[s].display = session[s].display
        /\ session'[s].nextSeq = session[s].nextSeq
    <3>1. CASE HandlerClose(s)
      BY <3>1 DEF HandlerClose
    <3>2. CASE HandlerExit(s)
      <4>1. session'[s] = [session[s] EXCEPT !.closed = TRUE, !.ready = TRUE]
        BY <1>1, <3>2 DEF HandlerExit
      <4> QED
        BY <1>1, <4>1 DEF SessionFields
    <3> QED
      BY <1>9, <3>1, <3>2
  <2>3. handler'[s].sequence = 0
    <3>1. PICK pc : handler' = [handler EXCEPT ![s] = AtPC(pc)]
      BY <1>9 DEF HandlerExit, HandlerClose
    <3> QED
      BY <1>1, <3>1 DEF AtPC
  <2> QED
    BY <1>1, <2>1, <2>2, <2>3 DEF HandleChanges
<1> QED
  BY <1>2, <1>3, <1>4, <1>5, <1>6, <1>7, <1>8, <1>9, <1>10 DEF Handle

\* Nothing has happened on a connection whose first status has not come.
LEMMA UnusedFacts ==
  ASSUME TypeInv, ReplyInv, ReadInv, NEW s \in Sessions, ~Used(s)
  PROVE  wire[s] = <<>> /\ received[s] = 0 /\ delivery[s].pc = "idle"
<1>1. wire[s] = <<>> /\ delivery[s].pc = "idle"
  BY DEF ReplyInv
<1>2. received[s] \in Nat /\ received[s] <= 0
  BY <1>1, EmptySeq DEF ReadInv, TypeInv, TypeOK
<1> QED
  BY <1>1, <1>2

\* Records are numbered in the order in which they are written, and what is
\* about to be written has a newer number than all of them.
Sequenced(s) ==
  /\ \A i \in DOMAIN wire[s] : wire[s][i].sequence < session[s].nextSeq
  /\ \A i, j \in DOMAIN wire[s] : i < j => wire[s][i].sequence < wire[s][j].sequence
  /\ delivery[s].pc = "write" =>
       /\ delivery[s].sequence < session[s].nextSeq
       /\ \A i \in DOMAIN wire[s] : wire[s][i].sequence < delivery[s].sequence

SequenceInv == \A s \in Sessions : Sequenced(s)

\* Every step keeps the order of the sequence numbers on the wire.
LEMMA SequenceInvStep == TypeInv /\ ReplyInv /\ ReadInv /\ SequenceInv /\ [Next]_vars => SequenceInv'
<1> SUFFICES ASSUME TypeInv, ReplyInv, ReadInv, SequenceInv, [Next]_vars, NEW t \in Sessions
             PROVE  Sequenced(t)'
  BY DEF SequenceInv
<1>1. Sequenced(t)
  BY DEF SequenceInv
<1>2. /\ session[t].nextSeq \in Nat /\ session'[t].nextSeq \in Nat
      /\ delivery[t].sequence \in Nat /\ delivery'[t].sequence \in Nat
  BY NextTypes, SessionFieldTypes, DeliveryFieldTypes DEF TypeInv, TypeOK
<1>3. \A i \in DOMAIN wire[t] : wire[t][i].sequence \in Nat
  <2>1. \A i \in DOMAIN wire[t] : wire[t][i] \in Record
    BY ElementOfSeq, LenProperties DEF TypeInv, TypeOK
  <2> QED
    BY <2>1 DEF Record
<1>4. ASSUME wire'[t] = wire[t], session[t].nextSeq <= session'[t].nextSeq,
             delivery'[t] = delivery[t] \/ delivery'[t].pc # "write"
      PROVE  Sequenced(t)'
  BY <1>1, <1>2, <1>3, <1>4 DEF Sequenced
<1>5. ASSUME NEW s \in Sessions, Handle(s)
      PROVE  Sequenced(t)'
  <2>1. wire' = wire /\ delivery' = delivery
    BY <1>5, HandleFrame
  <2>2. CASE t # s
    <3>1. session'[t].nextSeq = session[t].nextSeq
      BY <1>5, <2>2, HandleKeepsBookkeeping
    <3> QED
      BY <1>2, <1>4, <2>1, <3>1
  <2>3. CASE t = s /\ ~Used(t)
    <3>1. wire[t] = <<>> /\ delivery[t].pc = "idle"
      BY <2>3, UnusedFacts
    <3> QED
      BY <2>1, <3>1, EmptySeq DEF Sequenced
  <2>4. CASE t = s /\ Used(t)
    <3>1. session[t].nextSeq <= session'[t].nextSeq
      BY <1>5, <2>4, HandleEffect DEF HandleChanges
    <3> QED
      BY <1>4, <2>1, <3>1
  <2> QED
    BY <2>2, <2>3, <2>4
<1>6. ASSUME NEW s \in Sessions, DeliverStep(s), s # t
      PROVE  Sequenced(t)'
  BY <1>2, <1>4, <1>6, DeliverKeepsOthers
<1>7. CASE DeliverCheck(t) \/ DeliverGiveUp(t) \/ DeliverExhaust(t) \/ DeliverRenderFailed(t)
           \/ DeliverMark(t)
  <2>1. wire'[t] = wire[t] /\ session'[t].nextSeq = session[t].nextSeq
    BY <1>7, CheckEffect, EndEffect, MarkEffect
  <2>2. delivery'[t].pc # "write"
    BY <1>7, CheckEffect, EndEffect, MarkEffect DEF DeliverAt
  <2> QED
    BY <1>2, <1>4, <2>1, <2>2
<1>8. CASE \E due \in BOOLEAN : DeliverLoad(t, due)
  <2>1. wire'[t] = wire[t] /\ session'[t].nextSeq = session[t].nextSeq
    BY <1>8, LoadEffect
  <2>2. delivery'[t].pc # "write"
    BY <1>8, LoadEffect DEF DeliverAt
  <2> QED
    BY <1>2, <1>4, <2>1, <2>2
<1>9. CASE DeliverPrepare(t)
  <2>1. /\ wire' = wire /\ delivery'[t].pc = "write" /\ delivery'[t].sequence = session[t].nextSeq
        /\ session'[t].nextSeq = session[t].nextSeq + 1
    BY <1>9, PrepareEffect
  <2> QED
    BY <1>1, <1>2, <1>3, <2>1 DEF Sequenced
<1>10. CASE DeliverWrite(t, FALSE)
  <2>1. wire' = wire /\ session' = session /\ delivery'[t].pc = "mark"
    BY <1>10, WriteEffect
  <2> QED
    BY <1>2, <1>4, <2>1
<1>11. CASE DeliverWrite(t, TRUE)
  <2> DEFINE n == Len(wire[t])
  <2>1. /\ n \in Nat /\ DOMAIN wire[t] = 1..n /\ DOMAIN wire'[t] = 1..(n + 1)
        /\ \A i \in 1..n : wire'[t][i] = wire[t][i]
        /\ wire'[t][n + 1].sequence = delivery[t].sequence
        /\ delivery[t].pc = "write" /\ delivery'[t].pc = "mark" /\ session' = session
    BY <1>11, WriteEffect
  <2>2. /\ delivery[t].sequence < session[t].nextSeq
        /\ \A i \in 1..n : wire[t][i].sequence < delivery[t].sequence
        /\ \A i \in 1..n : wire[t][i].sequence < session[t].nextSeq
        /\ \A i, j \in 1..n : i < j => wire[t][i].sequence < wire[t][j].sequence
    BY <1>1, <2>1 DEF Sequenced
  <2> HIDE DEF n
  <2>3. \A i \in 1..(n + 1) : i \in 1..n \/ i = n + 1
    BY <2>1
  <2>4. \A i \in 1..(n + 1) : wire'[t][i].sequence < session[t].nextSeq
    BY <2>1, <2>2, <2>3
  <2>5. ASSUME NEW i \in 1..(n + 1), NEW j \in 1..(n + 1), i < j
        PROVE  wire'[t][i].sequence < wire'[t][j].sequence
    <3>1. i \in 1..n
      BY <2>1, <2>5
    <3>2. CASE j \in 1..n
      BY <2>1, <2>2, <2>5, <3>1, <3>2
    <3>3. CASE j = n + 1
      BY <2>1, <2>2, <3>1, <3>3
    <3> QED
      BY <2>3, <3>2, <3>3
  <2> QED
    BY <2>1, <2>4, <2>5 DEF Sequenced
<1>12. CASE Restart
  BY <1>2, <1>4, <1>12, RestartKeepsBookkeeping DEF DeliverAt
<1>13. CASE Upload \/ (\E drawn \in BOOLEAN : TabletReads(drawn)) \/ TabletReports \/ TabletDrops
  BY <1>2, <1>4, <1>13, SurroundingsFrame
<1>14. CASE UNCHANGED vars
  BY <1>2, <1>4, <1>14 DEF vars
<1>15. ASSUME DeliverStep(t)
       PROVE  Sequenced(t)'
  BY <1>7, <1>8, <1>9, <1>10, <1>11, <1>15 DEF DeliverStep
<1> QED
  BY <1>5, <1>6, <1>12, <1>13, <1>14, <1>15 DEF Next

\* The session has noted the last record of its connection.
LastNoted(s) ==
  IF wire[s] = <<>> THEN session[s].lastFrameID = 0
  ELSE /\ session[s].lastFrameID = wire[s][Len(wire[s])].frame
       /\ session[s].lastSentSeq = wire[s][Len(wire[s])].sequence

\* Between the write of a record and the note of it the goroutine holds the
\* record; a restart in between leaves the session closed.
Noted(s) ==
  IF delivery[s].pc = "mark" /\ delivery[s].ok
  THEN /\ wire[s] # <<>>
       /\ wire[s][Len(wire[s])].frame = delivery[s].row
       /\ wire[s][Len(wire[s])].sequence = delivery[s].sequence
  ELSE LastNoted(s) \/ (session[s].closed /\ delivery[s].pc = "idle")

NotedInv == \A s \in Sessions : Noted(s)

\* Every step keeps what the bookkeeping says of the last record sent.
LEMMA NotedInvStep == TypeInv /\ ReplyInv /\ NotedInv /\ [Next]_vars => NotedInv'
<1> SUFFICES ASSUME TypeInv, ReplyInv, NotedInv, [Next]_vars, NEW t \in Sessions
             PROVE  Noted(t)'
  BY DEF NotedInv
<1>1. Noted(t)
  BY DEF NotedInv
<1>2. ASSUME wire'[t] = wire[t], session'[t].lastFrameID = session[t].lastFrameID,
             session'[t].lastSentSeq = session[t].lastSentSeq,
             session[t].closed => session'[t].closed, delivery'[t] = delivery[t]
      PROVE  Noted(t)'
  BY <1>1, <1>2 DEF Noted, LastNoted
<1>3. ASSUME wire'[t] = wire[t], session'[t].lastFrameID = session[t].lastFrameID,
             session'[t].lastSentSeq = session[t].lastSentSeq,
             LastNoted(t), delivery'[t].pc # "mark" \/ ~delivery'[t].ok
      PROVE  Noted(t)'
  BY <1>3 DEF Noted, LastNoted
<1>4. ASSUME NEW s \in Sessions, Handle(s)
      PROVE  Noted(t)'
  BY <1>2, <1>4, HandleFrame, HandleKeepsBookkeeping
<1>5. ASSUME NEW s \in Sessions, DeliverStep(s), s # t
      PROVE  Noted(t)'
  BY <1>2, <1>5, DeliverKeepsOthers
<1>6. CASE DeliverCheck(t)
  <2>1. /\ wire' = wire /\ session' = session /\ delivery[t].pc \in {"idle", "check"}
        /\ \/ delivery'[t].pc = "idle" /\ session[t].closed
           \/ delivery'[t].pc = "load" /\ ~session[t].closed
    BY <1>6, CheckEffect DEF DeliverAt
  <2>2. CASE session[t].closed
    BY <2>1, <2>2 DEF Noted
  <2>3. CASE ~session[t].closed
    <3>1. LastNoted(t)
      BY <1>1, <2>1, <2>3 DEF Noted
    <3> QED
      BY <1>3, <2>1, <2>3, <3>1
  <2> QED
    BY <2>2, <2>3
<1>7. ASSUME delivery[t].pc \notin {"idle", "mark"}
      PROVE  LastNoted(t)
  BY <1>1, <1>7 DEF Noted
<1>8. CASE \E due \in BOOLEAN : DeliverLoad(t, due)
  <2>1. /\ wire' = wire /\ delivery[t].pc = "load" /\ delivery'[t].pc # "mark"
        /\ session'[t].lastFrameID = session[t].lastFrameID
        /\ session'[t].lastSentSeq = session[t].lastSentSeq
    BY <1>8, LoadEffect DEF DeliverAt
  <2> QED
    BY <1>3, <1>7, <2>1
<1>9. CASE DeliverGiveUp(t) \/ DeliverExhaust(t) \/ DeliverRenderFailed(t)
  <2>1. /\ wire' = wire /\ delivery[t].pc \notin {"idle", "mark"} /\ delivery'[t].pc # "mark"
        /\ session'[t].lastFrameID = session[t].lastFrameID
        /\ session'[t].lastSentSeq = session[t].lastSentSeq
    BY <1>9, EndEffect DEF DeliverAt
  <2> QED
    BY <1>3, <1>7, <2>1
<1>10. CASE DeliverPrepare(t)
  <2>1. /\ wire' = wire /\ delivery[t].pc = "render" /\ delivery'[t].pc = "write"
        /\ session'[t].lastFrameID = session[t].lastFrameID
        /\ session'[t].lastSentSeq = session[t].lastSentSeq
    BY <1>10, PrepareEffect
  <2> QED
    BY <1>3, <1>7, <2>1
<1>11. CASE DeliverWrite(t, FALSE)
  <2>1. /\ wire' = wire /\ session' = session /\ delivery[t].pc = "write" /\ ~delivery'[t].ok
    BY <1>11, WriteEffect
  <2> QED
    BY <1>3, <1>7, <2>1
<1>12. CASE DeliverWrite(t, TRUE)
  <2> DEFINE n == Len(wire[t])
  <2>1. /\ n \in Nat /\ Len(wire'[t]) = n + 1 /\ DOMAIN wire'[t] = 1..(n + 1)
        /\ wire'[t][n + 1].frame = delivery[t].row
        /\ wire'[t][n + 1].sequence = delivery[t].sequence
        /\ delivery'[t].pc = "mark" /\ delivery'[t].row = delivery[t].row /\ delivery'[t].ok
        /\ delivery'[t].sequence = delivery[t].sequence
    BY <1>12, WriteEffect
  <2> HIDE DEF n
  <2>2. wire'[t] # <<>>
    BY <2>1, EmptySeq
  <2> QED
    BY <2>1, <2>2 DEF Noted
<1>13. CASE DeliverMark(t)
  <2>1. wire' = wire /\ delivery[t].pc = "mark"
    BY <1>13, MarkEffect
  <2>2. CASE delivery[t].ok
    <3>1. /\ session'[t].lastFrameID = delivery[t].row
          /\ session'[t].lastSentSeq = delivery[t].sequence
          /\ delivery'[t].pc = "check"
      BY <1>13, <2>2, MarkEffect DEF DeliverAt
    <3>2. /\ wire[t] # <<>>
          /\ wire[t][Len(wire[t])].frame = delivery[t].row
          /\ wire[t][Len(wire[t])].sequence = delivery[t].sequence
      BY <1>1, <2>1, <2>2 DEF Noted
    <3> QED
      BY <2>1, <3>1, <3>2 DEF Noted, LastNoted
  <2>3. CASE ~delivery[t].ok
    <3>1. /\ session'[t].lastFrameID = session[t].lastFrameID
          /\ session'[t].lastSentSeq = session[t].lastSentSeq
          /\ delivery'[t].pc = "idle"
      BY <1>13, <2>3, MarkEffect DEF DeliverAt
    <3>2. LastNoted(t)
      BY <1>1, <2>1, <2>3 DEF Noted
    <3> QED
      BY <1>3, <2>1, <3>1, <3>2
  <2> QED
    BY <2>2, <2>3
<1>14. CASE Restart
  <2>1. /\ wire' = wire /\ delivery'[t].pc = "idle"
        /\ session'[t].lastFrameID = session[t].lastFrameID
        /\ session'[t].lastSentSeq = session[t].lastSentSeq
        /\ session'[t].closed = (session[t].closed \/ Accepted(t))
    BY <1>14, RestartKeepsBookkeeping DEF DeliverAt
  <2>2. CASE Accepted(t) \/ session[t].closed
    BY <2>1, <2>2 DEF Noted
  <2>3. CASE ~Accepted(t) /\ ~session[t].closed
    <3>1. delivery[t].pc = "idle"
      BY <2>3 DEF ReplyInv, Used, Accepted
    <3>2. LastNoted(t)
      BY <1>1, <2>3, <3>1 DEF Noted
    <3> QED
      BY <1>3, <2>1, <3>2
  <2> QED
    BY <2>2, <2>3
<1>15. CASE Upload \/ (\E drawn \in BOOLEAN : TabletReads(drawn)) \/ TabletReports \/ TabletDrops
  BY <1>2, <1>15, SurroundingsFrame
<1>16. CASE UNCHANGED vars
  BY <1>2, <1>16 DEF vars
<1>17. ASSUME DeliverStep(t)
       PROVE  Noted(t)'
  BY <1>6, <1>8, <1>9, <1>10, <1>11, <1>12, <1>13, <1>17 DEF DeliverStep
<1> QED
  BY <1>4, <1>5, <1>14, <1>15, <1>16, <1>17 DEF Next

\* The record numbered q was read on connection s; if it is the last one read
\* there, the tablet displays its frame.
DrawnAs(s, q) ==
  \E i \in 1..received[s] :
    /\ wire[s][i].sequence = q
    /\ i = received[s] /\ tablet.session = s => tablet.display = wire[s][i].frame

\* The numbers the handler and the session of connection s hold, or will read.
Acks(s) == Waiting(s) \cup {handler[s].sequence, session[s].ackedSeq}

\* What is acknowledged was drawn.
DrawnInv == \A s \in Sessions : \A q \in Acks(s) : q # 0 => DrawnAs(s, q)

\* Every step keeps what is acknowledged drawn.
LEMMA DrawnInvStep == TypeInv /\ ReplyInv /\ ReadInv /\ DrawnInv /\ [Next]_vars => DrawnInv'
<1> SUFFICES ASSUME TypeInv, ReplyInv, ReadInv, DrawnInv, [Next]_vars, NEW t \in Sessions,
                    NEW q \in Acks(t)', q # 0
             PROVE  DrawnAs(t, q)'
  BY DEF DrawnInv
<1>1. /\ received[t] \in Nat /\ received[t] <= Len(wire[t])
      /\ tablet \in [session : Sessions \cup {NoSession}, display : Nat]
      /\ received \in [Sessions -> Nat]
      /\ handler \in [Sessions -> HandlerLocals] /\ session \in [Sessions -> SessionFields]
  BY DEF ReadInv, TypeInv, TypeOK
<1>2. \A i \in 1..received[t] : wire'[t][i] = wire[t][i]
  BY <1>1, WireGrows
<1>3. ASSUME q \in Acks(t), received'[t] = received[t],
             tablet'.session # t \/ tablet' = tablet
      PROVE  DrawnAs(t, q)'
  <2>1. PICK i \in 1..received[t] :
          /\ wire[t][i].sequence = q
          /\ i = received[t] /\ tablet.session = t => tablet.display = wire[t][i].frame
    BY <1>3 DEF DrawnInv, DrawnAs
  <2>2. wire'[t][i] = wire[t][i]
    BY <1>2
  <2> QED
    BY <1>3, <2>1, <2>2 DEF DrawnAs
<1>4. ASSUME NEW s \in Sessions, Handle(s)
      PROVE  DrawnAs(t, q)'
  <2>1. received' = received /\ Waiting(t)' \subseteq Waiting(t)
    BY <1>4, HandleEffect, HandlerDisplays DEF HandleChanges
  <2>2. CASE t # s
    <3>1. handler'[t] = handler[t] /\ session'[t].ackedSeq = session[t].ackedSeq
      BY <1>4, <2>2, HandleFrame, HandleKeepsBookkeeping
    <3>2. tablet'.session = s \/ tablet' = tablet
      BY <1>4, HandleEffect DEF HandleChanges
    <3> QED
      BY <1>3, <2>1, <2>2, <3>1, <3>2 DEF Acks
  <2>3. CASE t = s
    <3>1. /\ handler'[t].sequence \in Waiting(t) \cup {handler[t].sequence, 0}
          /\ session'[t].ackedSeq \in {session[t].ackedSeq, handler[t].sequence}
      BY <1>4, <2>3, HandleEffect DEF HandleChanges
    <3>2. q \in Acks(t)
      BY <2>1, <3>1 DEF Acks
    <3>3. handler[t].pc # "unused"
      <4>1. ASSUME handler[t].pc = "unused"
            PROVE  FALSE
        <5>1. received[t] = 0
          BY <4>1, UnusedFacts DEF Used
        <5> QED
          BY <3>2, <5>1 DEF DrawnInv, DrawnAs
      <4> QED
        BY <4>1
    <3>4. tablet' = tablet
      BY <1>4, <2>3, <3>3, HandleEffect DEF HandleChanges
    <3> QED
      BY <1>3, <2>1, <3>2, <3>4
  <2> QED
    BY <2>2, <2>3
<1>5. ASSUME NEW s \in Sessions, DeliverStep(s)
      PROVE  DrawnAs(t, q)'
  <2>1. received' = received /\ tablet' = tablet /\ inbox' = inbox
    BY <1>5 DEF DeliverStep, DeliverCheck, DeliverLoad, DeliverGiveUp, DeliverExhaust,
       DeliverRenderFailed, DeliverPrepare, DeliverWrite, DeliverMark
  <2>2. handler' = handler
    BY <1>5, DeliverFrame
  <2>3. session'[t].ackedSeq = session[t].ackedSeq
    <3>1. CASE s # t
      BY <1>5, <3>1, DeliverKeepsOthers
    <3>2. CASE s = t
      BY <1>5, <3>2, CheckEffect, LoadEffect, EndEffect, PrepareEffect, WriteEffect, MarkEffect
         DEF DeliverStep
    <3> QED
      BY <3>1, <3>2
  <2> QED
    BY <1>3, <2>1, <2>2, <2>3 DEF Acks, Waiting
<1>6. CASE Restart
  <2>1. /\ received' = received /\ tablet' = tablet /\ inbox'[t] = <<>>
        /\ handler'[t].sequence \in {handler[t].sequence, 0}
    BY <1>6 DEF Restart, AtPC
  <2>2. session'[t].ackedSeq = session[t].ackedSeq
    BY <1>6, RestartKeepsBookkeeping
  <2> QED
    BY <1>3, <2>1, <2>2 DEF Acks, Waiting
<1>7. CASE TabletDrops
  <2>1. /\ received' = received /\ inbox' = inbox /\ handler' = handler /\ session' = session
        /\ tablet'.session = NoSession
    BY <1>7 DEF TabletDrops
  <2> QED
    BY <1>3, <2>1, SessionsAssumption DEF Acks, Waiting
<1>8. CASE Upload \/ UNCHANGED vars
  <2>1. /\ received' = received /\ inbox' = inbox /\ handler' = handler /\ session' = session
        /\ tablet' = tablet
    BY <1>8 DEF Upload, vars
  <2> QED
    BY <1>3, <2>1 DEF Acks, Waiting
<1>9. ASSUME NEW drawn \in BOOLEAN, TabletReads(drawn)
      PROVE  DrawnAs(t, q)'
  <2>1. PICK s \in Sessions : s = tablet.session
    BY <1>1, <1>9 DEF TabletReads
  <2>2. PICK n : n = wire[s][received[s] + 1].sequence
    OBVIOUS
  <2>3. /\ wire' = wire /\ handler' = handler /\ session' = session /\ received[s] < Len(wire[s])
        /\ received' = [received EXCEPT ![s] = received[s] + 1]
        /\ drawn => /\ tablet' = [tablet EXCEPT !.display = wire[s][received[s] + 1].frame]
                    /\ Arrives(s, Acknowledgement(n))
        /\ ~drawn => tablet' = tablet /\ inbox' = inbox
    BY <1>9, <2>1, <2>2 DEF TabletReads
  <2>4. /\ n \in Nat /\ Acknowledgement(n) \in Message /\ Acknowledgement(n).number = n
    BY <2>2, <2>3, ReadRecordTypes DEF Acknowledgement, Message
  <2>5. /\ t # s => Waiting(t)' = Waiting(t)
        /\ Waiting(t)' \subseteq Waiting(t) \cup {n}
        /\ ~drawn => Waiting(t)' = Waiting(t)
    <3>1. CASE drawn
      BY <2>3, <2>4, <3>1, ArrivesEffect
    <3>2. CASE ~drawn
      BY <2>3, <3>2 DEF Waiting
    <3> QED
      BY <3>1, <3>2
  <2>6. CASE t # s
    <3>1. received'[t] = received[t] /\ tablet'.session # t
      BY <1>1, <2>1, <2>3, <2>6
    <3> QED
      BY <1>3, <2>3, <2>5, <2>6, <3>1 DEF Acks
  <2>7. CASE t = s
    <3>1. received'[t] = received[t] + 1 /\ tablet'.session = t
      BY <1>1, <2>1, <2>3, <2>7
    <3>2. CASE q \in Acks(t)
      <4>1. PICK i \in 1..received[t] : wire[t][i].sequence = q
        BY <3>2 DEF DrawnInv, DrawnAs
      <4>2. i \in 1..received'[t] /\ i # received'[t]
        BY <1>1, <3>1
      <4> QED
        BY <2>3, <4>1, <4>2 DEF DrawnAs
    <3>3. CASE q \notin Acks(t)
      <4>1. drawn /\ q = wire[t][received[t] + 1].sequence
        BY <2>2, <2>3, <2>5, <2>7, <3>3 DEF Acks
      <4>2. tablet'.display = wire[t][received[t] + 1].frame
        BY <1>1, <2>3, <2>7, <4>1
      <4>3. received[t] + 1 \in 1..received'[t]
        BY <1>1, <3>1
      <4> QED
        BY <2>3, <4>1, <4>2, <4>3, <3>1 DEF DrawnAs
    <3> QED
      BY <3>2, <3>3
  <2> QED
    BY <2>6, <2>7
<1>10. CASE TabletReports
  <2>1. received' = received /\ tablet' = tablet /\ handler' = handler /\ session' = session
    BY <1>10 DEF TabletReports
  <2>2. PICK s \in Sessions, kind \in Kinds : Arrives(s, Status(kind, tablet.display))
    BY <1>1, <1>10 DEF TabletReports
  <2>3. Status(kind, tablet.display) \in Message /\ Status(kind, tablet.display).type = "status"
    BY <1>1, KindsAssumption DEF Status, Message
  <2>4. Waiting(t)' \subseteq Waiting(t)
    BY <2>2, <2>3, ArrivesEffect
  <2> QED
    BY <1>3, <2>1, <2>4 DEF Acks
<1> QED
  BY <1>4, <1>5, <1>6, <1>7, <1>8, <1>9, <1>10 DEF Next

\* On the tablet's connection nothing that is noted as displayed is newer than
\* what is displayed, and nothing still to be written or read is older.
Shown(s) ==
  /\ \A d \in Echoed(s) : d <= tablet.display
  /\ handler[s].display <= tablet.display
  /\ session[s].display <= tablet.display
  /\ delivery[s].pc \in {"load", "render"} => delivery[s].display <= tablet.display
  /\ delivery[s].pc \in {"giveUp", "exhaust", "render", "write"} => tablet.display <= delivery[s].row
  /\ \A i \in DOMAIN wire[s] : received[s] < i => tablet.display <= wire[s][i].frame
  /\ wire[s] # <<>> => tablet.display <= wire[s][Len(wire[s])].frame

ShownInv ==
  /\ tablet.display <= Len(rows)
  /\ \A s \in Sessions : tablet.session = s => Shown(s)

\* A session whose first status nobody has read has noted no frame.
FreshInv == \A s \in Sessions : ~Used(s) => session[s].display = 0

\* Every step keeps a session that is not used yet as it was.
LEMMA FreshInvStep == TypeInv /\ FreshInv /\ [Next]_vars => FreshInv'
<1> SUFFICES ASSUME TypeInv, FreshInv, [Next]_vars, NEW t \in Sessions, ~Used(t)'
             PROVE  session'[t].display = 0
  BY DEF FreshInv
<1>1. handler \in [Sessions -> HandlerLocals] /\ session \in [Sessions -> SessionFields]
  BY DEF TypeInv, TypeOK
<1>2. ASSUME handler'[t].pc = handler[t].pc, session'[t].display = session[t].display
      PROVE  session'[t].display = 0
  BY <1>2 DEF FreshInv, Used
<1>3. ASSUME NEW s \in Sessions, Handle(s)
      PROVE  session'[t].display = 0
  <2>1. CASE t # s
    BY <1>2, <1>3, <2>1, HandleFrame, HandleKeepsBookkeeping
  <2>2. CASE t = s
    <3>1. Connect(s)
      <4>1. \A pc : handler' = [handler EXCEPT ![s] = AtPC(pc)] => handler'[t].pc = pc
        BY <1>1, <2>2 DEF AtPC
      <4>2. \A first, status :
              handler' = [handler EXCEPT ![s] = StatusRead(s, first, status)] =>
                handler'[t].pc = "delivered"
        BY <1>1, <2>2 DEF StatusRead
      <4>3. \A pc \in HandlerPC :
              handler' = [handler EXCEPT ![s].pc = pc] => handler'[t].pc = pc
        BY <1>1, <2>2 DEF HandlerLocals
      <4>4. CASE ReadFirstStatus(s) \/ ReadStatus(s)
        BY <4>2, <4>4 DEF ReadFirstStatus, ReadStatus, Used
      <4>5. CASE HandleDelivered(s) \/ HandleReconcile(s)
        BY <4>3, <4>5 DEF HandleDelivered, HandleReconcile, Used, HandlerPC
      <4>6. CASE (\E written \in BOOLEAN : HandleReply(s, written)) \/ NoteAcknowledged(s)
                 \/ HandlerExit(s) \/ HandlerClose(s)
        BY <4>1, <4>6 DEF HandleReply, NoteAcknowledged, HandlerExit, HandlerClose, Used
      <4>7. CASE ReadAcknowledgement(s)
        BY <1>1, <2>2, <4>7 DEF ReadAcknowledgement, HandlerLocals, Used
      <4>8. CASE SelectAcknowledgement(s)
        BY <1>1, <2>2, <4>8 DEF SelectAcknowledgement, HandlerLocals, AtPC, Used
      <4> QED
        BY <1>3, <4>4, <4>5, <4>6, <4>7, <4>8 DEF Handle
    <3> QED
      BY <2>2, <3>1 DEF Connect, FreshInv, Used
  <2> QED
    BY <2>1, <2>2
<1>4. ASSUME NEW s \in Sessions, DeliverStep(s)
      PROVE  session'[t].display = 0
  <2>1. handler' = handler
    BY <1>4, DeliverFrame
  <2>2. session'[t].display = session[t].display
    <3>1. CASE s # t
      BY <1>4, <3>1, DeliverKeepsOthers
    <3>2. CASE s = t
      BY <1>4, <3>2, CheckEffect, LoadEffect, EndEffect, PrepareEffect, WriteEffect, MarkEffect
         DEF DeliverStep
    <3> QED
      BY <3>1, <3>2
  <2> QED
    BY <1>2, <2>1, <2>2
<1>5. CASE Restart
  <2>1. handler'[t] = handler[t] \/ handler'[t] = AtPC("done")
    BY <1>5 DEF Restart
  <2>2. handler'[t] = handler[t]
    BY <2>1 DEF AtPC, Used
  <2> QED
    BY <1>2, <1>5, <2>2, RestartKeepsBookkeeping
<1>6. CASE Upload \/ (\E drawn \in BOOLEAN : TabletReads(drawn)) \/ TabletReports
           \/ TabletDrops \/ UNCHANGED vars
  BY <1>2, <1>6, SurroundingsFrame DEF vars
<1> QED
  BY <1>3, <1>4, <1>5, <1>6 DEF Next

\* Every step keeps the order of what is shown and what is still to be read.
LEMMA ShownInvStep ==
  TypeInv /\ ReplyInv /\ ReadInv /\ OrderInv /\ FreshInv /\ ShownInv /\ [Next]_vars => ShownInv'
<1> SUFFICES ASSUME TypeInv, ReplyInv, ReadInv, OrderInv, FreshInv, ShownInv, [Next]_vars
             PROVE  ShownInv'
  OBVIOUS
<1>1. /\ tablet \in [session : Sessions \cup {NoSession}, display : Nat] /\ tablet.display \in Nat
      /\ received \in [Sessions -> Nat]
      /\ Len(rows) \in Nat /\ Len(rows') \in Nat /\ Len(rows) <= Len(rows')
      /\ tablet.display <= Len(rows)
  BY NextTypes, RowsStep, LenProperties DEF TypeInv, TypeOK, ShownInv
<1>2. \A s \in Sessions : /\ handler[s].display \in Nat /\ session[s].display \in Nat
                          /\ delivery[s].display \in Nat /\ delivery[s].row \in Nat
                          /\ received[s] \in Nat /\ received[s] <= Len(wire[s])
                          /\ Len(wire[s]) \in Nat /\ DOMAIN wire[s] = 1..Len(wire[s])
  BY HandlerFieldTypes, SessionFieldTypes, DeliveryFieldTypes, LenProperties
     DEF TypeInv, TypeOK, ReadInv
<1>3. \A s \in Sessions : \A i \in DOMAIN wire[s] : wire[s][i].frame \in Nat
  <2>1. \A s \in Sessions : \A i \in DOMAIN wire[s] : wire[s][i] \in Record
    BY ElementOfSeq, LenProperties DEF TypeInv, TypeOK
  <2> QED
    BY <2>1 DEF Record
<1>13. \A s \in Sessions : \A d \in Echoed(s) : d \in Nat
  <2>1. \A s \in Sessions : \A i \in DOMAIN inbox[s] : inbox[s][i] \in Message
    BY ElementOfSeq, LenProperties DEF TypeInv, TypeOK
  <2> QED
    BY <2>1 DEF Message, Echoed
<1>4. ASSUME tablet' = tablet,
             \A t \in Sessions : tablet.session = t => Shown(t)'
      PROVE  ShownInv'
  BY <1>1, <1>4 DEF ShownInv
<1>5. ASSUME NEW t \in Sessions, tablet.session = t, tablet' = tablet, wire'[t] = wire[t],
             received'[t] = received[t],
             handler'[t].display \in {handler[t].display, 0} \cup Echoed(t),
             session'[t].display \in {session[t].display, handler[t].display} \cup Echoed(t),
             Echoed(t)' \subseteq Echoed(t) \cup {tablet.display},
             \/ delivery'[t] = delivery[t]
             \/ delivery'[t].pc \in {"idle", "check", "mark"}
      PROVE  Shown(t)'
  <2>1. Shown(t)
    BY <1>5 DEF ShownInv
  <2>2. handler'[t].display <= tablet'.display /\ session'[t].display <= tablet'.display
    BY <1>1, <1>2, <1>5, <2>1 DEF Shown
  <2>3. \A d \in Echoed(t)' : d <= tablet'.display
    BY <1>1, <1>5, <2>1 DEF Shown
  <2> QED
    BY <1>5, <2>1, <2>2, <2>3 DEF Shown
<1>6. ASSUME NEW s \in Sessions, Handle(s)
      PROVE  ShownInv'
  <2>1. /\ wire' = wire /\ delivery' = delivery /\ received' = received
        /\ tablet'.display = tablet.display
    BY <1>6, HandleFrame, HandleEffect, HandlerDisplays DEF HandleChanges
  <2>2. CASE tablet' = tablet
    <3>1. ASSUME NEW t \in Sessions, tablet.session = t
          PROVE  Shown(t)'
      <4>1. session'[t].display \in {session[t].display, handler[t].display} \cup Echoed(t)
        BY <1>6, HandleEffect, HandleKeepsBookkeeping DEF HandleChanges
      <4>2. /\ handler'[t].display \in {handler[t].display, 0} \cup Echoed(t)
            /\ Echoed(t)' \subseteq Echoed(t) \cup {tablet.display}
        BY <1>6, HandlerDisplays
      <4> QED
        BY <1>5, <2>1, <2>2, <3>1, <4>1, <4>2
    <3> QED
      BY <1>4, <2>2, <3>1
  <2>3. CASE tablet' # tablet
    <3>1. Connect(s)
      BY <1>6, <2>3 DEF Handle, ReadFirstStatus, ReadStatus, HandleDelivered, HandleReconcile,
         HandleReply, ReadAcknowledgement, SelectAcknowledgement, NoteAcknowledged, HandlerExit,
         HandlerClose
    <3>2. /\ tablet'.session = s /\ rows' = rows /\ session' = session /\ ~Used(s)
          /\ handler'[s].display = 0
      BY <1>1, <3>1 DEF Connect, Used, AtPC, TypeInv, TypeOK
    <3>3. \A d \in Echoed(s)' : d = tablet.display
      <4>1. PICK kind \in Kinds : inbox'[s] = <<Status(kind, tablet.display)>>
        BY <3>1 DEF Connect, TypeInv, TypeOK
      <4>2. \A i \in DOMAIN inbox'[s] : inbox'[s][i] = Status(kind, tablet.display)
        BY <4>1
      <4> QED
        BY <4>2 DEF Echoed, Status
    <3>4. wire[s] = <<>> /\ delivery[s].pc = "idle" /\ session[s].display = 0
      BY <3>2, UnusedFacts DEF FreshInv
    <3>5. Shown(s)'
      BY <1>1, <2>1, <3>2, <3>3, <3>4 DEF Shown
    <3> QED
      BY <1>1, <2>1, <3>2, <3>5 DEF ShownInv
  <2> QED
    BY <2>2, <2>3
<1>7. ASSUME NEW s \in Sessions, DeliverStep(s)
      PROVE  ShownInv'
  <2>1. tablet' = tablet /\ received' = received /\ handler' = handler /\ inbox' = inbox
    BY <1>7 DEF DeliverStep, DeliverCheck, DeliverLoad, DeliverGiveUp, DeliverExhaust,
       DeliverRenderFailed, DeliverPrepare, DeliverWrite, DeliverMark
  <2>5. \A t \in Sessions : Echoed(t)' = Echoed(t)
    BY <2>1 DEF Echoed
  <2>2. ASSUME NEW t \in Sessions, tablet.session = t, t # s
        PROVE  Shown(t)'
    BY <1>5, <1>7, <2>1, <2>2, <2>5, DeliverKeepsOthers
  <2>3. ASSUME tablet.session = s
        PROVE  Shown(s)'
    <3>0. Shown(s)
      BY <2>3 DEF ShownInv
    <3>1. session'[s].display = session[s].display
      BY <1>7, CheckEffect, LoadEffect, EndEffect, PrepareEffect, WriteEffect, MarkEffect
         DEF DeliverStep
    <3>2. ASSUME wire' = wire, delivery'[s].pc \in {"idle", "check", "mark"}
          PROVE  Shown(s)'
      BY <1>5, <2>1, <2>3, <2>5, <3>1, <3>2
    <3>3. CASE DeliverGiveUp(s) \/ DeliverExhaust(s) \/ DeliverRenderFailed(s) \/ DeliverMark(s)
      BY <3>2, <3>3, EndEffect, MarkEffect DEF DeliverAt
    <3>4. CASE DeliverWrite(s, FALSE)
      BY <3>2, <3>4, WriteEffect
    <3>5. CASE DeliverCheck(s)
      <4>1. /\ wire' = wire
            /\ \/ delivery'[s].pc = "idle"
               \/ delivery'[s].pc = "load" /\ delivery'[s].display = session[s].display
        BY <3>5, CheckEffect DEF DeliverAt
      <4> QED
        BY <2>1, <2>5, <3>0, <3>1, <4>1 DEF Shown
    <3>6. CASE \E due \in BOOLEAN : DeliverLoad(s, due)
      <4>1. /\ wire' = wire /\ delivery[s].pc = "load"
            /\ \/ delivery'[s].pc = "idle"
               \/ /\ delivery'[s].pc \in {"giveUp", "exhaust", "render"}
                  /\ delivery'[s].row = Len(rows) /\ delivery'[s].display = delivery[s].display
        BY <3>6, LoadEffect DEF DeliverAt
      <4> QED
        BY <1>1, <2>1, <2>5, <3>0, <3>1, <4>1 DEF Shown
    <3>7. CASE DeliverPrepare(s)
      <4>1. /\ wire' = wire /\ delivery[s].pc = "render" /\ delivery'[s].pc = "write"
            /\ delivery'[s].row = delivery[s].row
        BY <3>7, PrepareEffect
      <4> QED
        BY <2>1, <2>5, <3>0, <3>1, <4>1 DEF Shown
    <3>8. CASE DeliverWrite(s, TRUE)
      <4> DEFINE n == Len(wire[s])
      <4>1. /\ n \in Nat /\ DOMAIN wire[s] = 1..n /\ DOMAIN wire'[s] = 1..(n + 1)
            /\ Len(wire'[s]) = n + 1 /\ \A i \in 1..n : wire'[s][i] = wire[s][i]
            /\ wire'[s][n + 1].frame = delivery[s].row
            /\ delivery[s].pc = "write" /\ delivery'[s].pc = "mark"
        BY <3>8, WriteEffect
      <4>2. /\ tablet.display <= delivery[s].row
            /\ \A i \in 1..n : received[s] < i => tablet.display <= wire[s][i].frame
        BY <3>0, <4>1 DEF Shown
      <4> HIDE DEF n
      <4>3. \A i \in 1..(n + 1) : i \in 1..n \/ i = n + 1
        BY <4>1
      <4>4. \A i \in 1..(n + 1) : received[s] < i => tablet.display <= wire'[s][i].frame
        BY <4>1, <4>2, <4>3
      <4> QED
        BY <2>1, <2>5, <3>0, <3>1, <4>1, <4>2, <4>4 DEF Shown
    <3> QED
      BY <1>7, <3>3, <3>4, <3>5, <3>6, <3>7, <3>8 DEF DeliverStep
  <2> QED
    BY <1>4, <2>1, <2>2, <2>3
<1>8. CASE Restart
  <2>1. /\ tablet' = tablet /\ received' = received
        /\ \A t \in Sessions : handler'[t].display \in {handler[t].display, 0} /\ inbox'[t] = <<>>
    BY <1>8 DEF Restart, AtPC
  <2>3. \A t \in Sessions : Echoed(t)' = {}
    BY <2>1 DEF Echoed
  <2>2. ASSUME NEW t \in Sessions, tablet.session = t
        PROVE  Shown(t)'
    BY <1>5, <1>8, <2>1, <2>2, <2>3, RestartKeepsBookkeeping DEF DeliverAt
  <2> QED
    BY <1>4, <2>1, <2>2
<1>9. CASE TabletDrops
  <2>1. tablet'.session = NoSession /\ tablet'.display \in {tablet.display, 0} /\ rows' = rows
    BY <1>9 DEF TabletDrops
  <2> QED
    BY <1>1, <2>1, SessionsAssumption DEF ShownInv
<1>10. CASE Upload \/ UNCHANGED vars
  <2>1. /\ tablet' = tablet /\ received' = received /\ handler' = handler /\ session' = session
        /\ delivery' = delivery /\ wire' = wire /\ inbox' = inbox
    BY <1>10 DEF Upload, vars
  <2>2. ASSUME NEW t \in Sessions, tablet.session = t
        PROVE  Shown(t)'
    BY <1>5, <2>1, <2>2 DEF Echoed
  <2> QED
    BY <1>4, <2>1, <2>2
<1>11. CASE TabletReads(FALSE)
  <2>1. PICK s \in Sessions : s = tablet.session
    BY <1>1, <1>11 DEF TabletReads
  <2>2. /\ tablet' = tablet /\ received'[s] = received[s] + 1
        /\ wire' = wire /\ session' = session /\ handler' = handler /\ delivery' = delivery
        /\ inbox' = inbox
    BY <1>1, <1>11, <2>1 DEF TabletReads
  <2>3. Shown(s)'
    BY <1>2, <2>1, <2>2 DEF ShownInv, Shown, Echoed
  <2> QED
    BY <1>4, <2>1, <2>2, <2>3
<1>12. CASE TabletReads(TRUE)
  <2>1. PICK s \in Sessions : s = tablet.session
    BY <1>1, <1>12 DEF TabletReads
  <2> DEFINE k    == received[s] + 1
             next == wire[s][k].frame
  <2>2. /\ received[s] < Len(wire[s])
        /\ tablet' = [tablet EXCEPT !.display = next] /\ received'[s] = k
        /\ wire' = wire /\ session' = session /\ handler' = handler /\ delivery' = delivery
        /\ rows' = rows
    BY <1>1, <1>12, <2>1 DEF TabletReads
  <2>3. k \in DOMAIN wire[s] /\ k \in Nat /\ received[s] < k
    BY <1>2, <2>2
  <2>4. tablet'.session = s /\ tablet'.display = next
    BY <1>1, <2>1, <2>2
  <2>5. Shown(s)
    BY <2>1 DEF ShownInv
  <2>6. next \in Nat /\ tablet.display <= next
    BY <1>3, <2>3, <2>5 DEF Shown
  <2>7. /\ next <= Len(rows)
        /\ delivery[s].pc \in {"giveUp", "exhaust", "render", "write"} => next <= delivery[s].row
        /\ \A i \in DOMAIN wire[s] : k <= i => next <= wire[s][i].frame
    BY <2>3 DEF OrderInv, NeverBackwards
  <2>8. next <= wire[s][Len(wire[s])].frame
    BY <1>2, <2>2, <2>3, <2>7
  <2>9. /\ handler[s].display <= next /\ session[s].display <= next
        /\ delivery[s].pc \in {"load", "render"} => delivery[s].display <= next
    <3> HIDE DEF next
    <3>1. /\ handler[s].display <= tablet.display /\ session[s].display <= tablet.display
          /\ delivery[s].pc \in {"load", "render"} => delivery[s].display <= tablet.display
      BY <2>5 DEF Shown
    <3> QED
      BY <1>1, <1>2, <2>6, <3>1
  <2>10. \A i \in DOMAIN wire[s] : k < i => next <= wire[s][i].frame
    BY <1>2, <2>3, <2>7
  <2>12. \A d \in Echoed(s)' : d <= next
    <3> DEFINE n == wire[s][received[s] + 1].sequence
    <3>1. n \in Nat /\ Arrives(s, Acknowledgement(n))
      BY <1>12, <2>1, <2>2, ReadRecordTypes DEF TabletReads
    <3> HIDE DEF n
    <3>2. Acknowledgement(n) \in Message /\ Acknowledgement(n).display = 0
      BY <3>1 DEF Acknowledgement, Message
    <3>3. Echoed(s)' \subseteq Echoed(s) \cup {0}
      BY <3>1, <3>2, ArrivesEffect
    <3> HIDE DEF next
    <3>4. \A d \in Echoed(s) : d <= next
      BY <1>1, <1>13, <2>5, <2>6 DEF Shown
    <3> QED
      BY <2>6, <3>3, <3>4
  <2> HIDE DEF k, next
  <2>11. Shown(s)'
    BY <2>2, <2>4, <2>7, <2>8, <2>9, <2>10, <2>12 DEF Shown
  <2> QED
    BY <2>2, <2>4, <2>7, <2>11 DEF ShownInv
<1>14. CASE TabletReports
  <2>1. /\ tablet' = tablet /\ received' = received /\ handler' = handler /\ session' = session
        /\ delivery' = delivery /\ wire' = wire
    BY <1>14 DEF TabletReports
  <2>2. PICK s \in Sessions, kind \in Kinds : Arrives(s, Status(kind, tablet.display))
    BY <1>1, <1>14 DEF TabletReports
  <2>3. /\ Status(kind, tablet.display) \in Message
        /\ Status(kind, tablet.display).display = tablet.display
    BY <1>1, KindsAssumption DEF Status, Message
  <2>4. \A t \in Sessions : Echoed(t)' \subseteq Echoed(t) \cup {tablet.display}
    BY <2>2, <2>3, ArrivesEffect
  <2>5. ASSUME NEW t \in Sessions, tablet.session = t
        PROVE  Shown(t)'
    BY <1>5, <2>1, <2>4, <2>5
  <2> QED
    BY <1>4, <2>1, <2>5
<1> QED
  BY <1>6, <1>7, <1>8, <1>9, <1>10, <1>11, <1>12, <1>14 DEF Next

\* On the tablet's connection a partial update that is still to be read starts
\* from the displayed frame, and so does all that is to be read before it.
Based(s) ==
  /\ \A i \in DOMAIN wire[s] : received[s] < i /\ wire[s][i].base # 0 =>
       /\ wire[s][i].base = tablet.display
       /\ \A j \in DOMAIN wire[s] : received[s] < j /\ j < i => wire[s][j].frame = tablet.display
  /\ delivery[s].pc = "write" /\ delivery[s].base # 0 =>
       /\ delivery[s].base = tablet.display
       /\ \A j \in DOMAIN wire[s] : received[s] < j => wire[s][j].frame = tablet.display

BasedInv == \A s \in Sessions : tablet.session = s => Based(s)

PaintInv == SequenceInv /\ NotedInv /\ DrawnInv /\ FreshInv /\ ShownInv /\ BasedInv

\* The base the gateway chooses is what the tablet will display when it reads
\* the update: either the status says so, or the last record, which nothing
\* follows, is acknowledged.
LEMMA BaseIsShown ==
  ASSUME TypeInv, ReadInv, OrderInv, SequenceInv, NotedInv, DrawnInv, ShownInv, NEW s \in Sessions,
         tablet.session = s, delivery[s].pc = "render", Base(s) # 0
  PROVE  /\ Base(s) = tablet.display
         /\ \A j \in DOMAIN wire[s] : received[s] < j => wire[s][j].frame = tablet.display
<1> DEFINE n    == Len(wire[s])
           last == session[s].lastFrameID
<1>1. /\ last # 0 /\ Base(s) = last
      /\ delivery[s].display = last \/ Acknowledged(s, session[s].lastSentSeq)
  BY DEF Base
<1>2. /\ n \in Nat /\ DOMAIN wire[s] = 1..n /\ received[s] \in Nat /\ received[s] <= n
      /\ delivery[s].display \in Nat /\ last \in Nat /\ tablet.display \in Nat
  BY LenProperties, SessionFieldTypes, DeliveryFieldTypes DEF ReadInv, TypeInv, TypeOK
<1>3. \A i \in 1..n : wire[s][i].frame \in Nat /\ wire[s][i].sequence \in Nat
  <2>1. \A i \in 1..n : wire[s][i] \in Record
    BY <1>2, ElementOfSeq DEF TypeInv, TypeOK
  <2> QED
    BY <2>1 DEF Record
<1>4. LastNoted(s)
  BY DEF NotedInv, Noted
<1>5. wire[s] # <<>> /\ last = wire[s][n].frame /\ session[s].lastSentSeq = wire[s][n].sequence
  BY <1>1, <1>4 DEF LastNoted
<1>6. n \in 1..n
  BY <1>2, <1>5, EmptySeq DEF TypeInv, TypeOK
<1>7. Shown(s)
  BY DEF ShownInv
<1> HIDE DEF n, last
<1>8. CASE delivery[s].display = last
  <2>1. last <= tablet.display /\ tablet.display <= last
    BY <1>5, <1>7, <1>8 DEF Shown, n
  <2>2. last = tablet.display
    BY <1>2, <2>1
  <2>3. ASSUME NEW j \in 1..n, received[s] < j
        PROVE  wire[s][j].frame = tablet.display
    <3>1. tablet.display <= wire[s][j].frame
      BY <1>2, <1>7, <2>3 DEF Shown
    <3>2. wire[s][j].frame <= wire[s][n].frame
      BY <1>2, <1>6, <2>3 DEF OrderInv, NeverBackwards
    <3> QED
      BY <1>2, <1>3, <1>5, <2>2, <3>1, <3>2
  <2> QED
    BY <1>1, <1>2, <2>2, <2>3
<1>9. CASE Acknowledged(s, session[s].lastSentSeq)
  <2> DEFINE q == session[s].ackedSeq
  <2>1. q # 0 /\ q = wire[s][n].sequence /\ q \in Acks(s)
    BY <1>5, <1>9 DEF Acknowledged, Acks
  <2>2. PICK i \in 1..received[s] :
          /\ wire[s][i].sequence = q
          /\ i = received[s] /\ tablet.session = s => tablet.display = wire[s][i].frame
    BY <2>1 DEF DrawnInv, DrawnAs
  <2> HIDE DEF q
  <2>3. i \in 1..n /\ ~(i < n)
    <3>1. i \in 1..n
      BY <1>2
    <3>2. i < n => wire[s][i].sequence < wire[s][n].sequence
      BY <1>2, <1>6, <3>1 DEF SequenceInv, Sequenced
    <3> QED
      BY <1>3, <1>6, <2>1, <2>2, <3>1, <3>2
  <2>4. i = n /\ received[s] = n
    BY <1>2, <2>3
  <2> QED
    BY <1>1, <1>2, <1>5, <2>2, <2>4
<1> QED
  BY <1>1, <1>8, <1>9

\* Every step keeps the base of a partial record the frame it will be drawn on.
LEMMA BasedInvStep ==
  TypeInv /\ ReplyInv /\ ReadInv /\ OrderInv /\ PaintInv /\ [Next]_vars => BasedInv'
<1> SUFFICES ASSUME TypeInv, ReplyInv, ReadInv, OrderInv, PaintInv, [Next]_vars,
                    NEW t \in Sessions, tablet'.session = t
             PROVE  Based(t)'
  BY DEF BasedInv
<1>1. /\ tablet \in [session : Sessions \cup {NoSession}, display : Nat]
      /\ received \in [Sessions -> Nat] /\ received[t] \in Nat /\ received[t] <= Len(wire[t])
      /\ Len(wire[t]) \in Nat /\ DOMAIN wire[t] = 1..Len(wire[t])
  BY LenProperties DEF TypeInv, TypeOK, ReadInv
<1>2. tablet.session = t => Based(t)
  BY DEF PaintInv, BasedInv
<1>3. ASSUME tablet.session = t, tablet' = tablet, wire'[t] = wire[t], received'[t] = received[t],
             delivery'[t] = delivery[t] \/ delivery'[t].pc # "write"
      PROVE  Based(t)'
  BY <1>2, <1>3 DEF Based
<1>4. ASSUME NEW s \in Sessions, Handle(s)
      PROVE  Based(t)'
  <2>1. wire' = wire /\ delivery' = delivery /\ received' = received
    BY <1>4, HandleFrame, HandleEffect DEF HandleChanges
  <2>2. CASE tablet' # tablet
    <3>1. wire[t] = <<>> /\ delivery[t].pc = "idle"
      BY <1>4, <2>2, HandleEffect, UnusedFacts DEF HandleChanges, Used
    <3> QED
      BY <2>1, <3>1 DEF Based
  <2>3. CASE tablet' = tablet
    BY <1>3, <2>1, <2>3
  <2> QED
    BY <2>2, <2>3
<1>5. ASSUME NEW s \in Sessions, DeliverStep(s)
      PROVE  Based(t)'
  <2>1. tablet' = tablet /\ received' = received /\ tablet.session = t
    BY <1>5 DEF DeliverStep, DeliverCheck, DeliverLoad, DeliverGiveUp, DeliverExhaust,
       DeliverRenderFailed, DeliverPrepare, DeliverWrite, DeliverMark
  <2>2. CASE t # s
    BY <1>3, <1>5, <2>1, <2>2, DeliverKeepsOthers
  <2>3. CASE DeliverPrepare(t)
    <3>1. /\ wire' = wire /\ delivery[t].pc = "render" /\ delivery'[t].base = Base(t)
      BY <2>3, PrepareEffect
    <3>2. Base(t) # 0 =>
            /\ Base(t) = tablet.display
            /\ \A j \in DOMAIN wire[t] : received[t] < j => wire[t][j].frame = tablet.display
      BY <2>1, <3>1, BaseIsShown DEF PaintInv
    <3> QED
      BY <1>2, <2>1, <3>1, <3>2 DEF Based
  <2>4. CASE DeliverWrite(t, TRUE)
    <3> DEFINE n == Len(wire[t])
    <3>1. /\ n \in Nat /\ DOMAIN wire[t] = 1..n /\ DOMAIN wire'[t] = 1..(n + 1)
          /\ \A i \in 1..n : wire'[t][i] = wire[t][i]
          /\ wire'[t][n + 1].base = delivery[t].base
          /\ delivery[t].pc = "write" /\ delivery'[t].pc = "mark"
      BY <2>4, WriteEffect
    <3>2. /\ \A i \in 1..n : received[t] < i /\ wire[t][i].base # 0 =>
               /\ wire[t][i].base = tablet.display
               /\ \A j \in 1..n : received[t] < j /\ j < i => wire[t][j].frame = tablet.display
          /\ delivery[t].base # 0 =>
               /\ delivery[t].base = tablet.display
               /\ \A j \in 1..n : received[t] < j => wire[t][j].frame = tablet.display
      BY <1>2, <2>1, <3>1 DEF Based
    <3> HIDE DEF n
    <3>3. ASSUME NEW i \in 1..(n + 1), received[t] < i, wire'[t][i].base # 0
          PROVE  /\ wire'[t][i].base = tablet.display
                 /\ \A j \in 1..(n + 1) : received[t] < j /\ j < i => wire'[t][j].frame = tablet.display
      <4>1. ASSUME NEW j \in 1..(n + 1), j < i
            PROVE  j \in 1..n /\ wire'[t][j] = wire[t][j]
        BY <3>1, <4>1
      <4>2. CASE i \in 1..n
        BY <3>1, <3>2, <3>3, <4>1, <4>2
      <4>3. CASE i = n + 1
        BY <3>1, <3>2, <3>3, <4>1, <4>3
      <4> QED
        BY <3>1, <4>2, <4>3
    <3> QED
      BY <2>1, <3>1, <3>3 DEF Based
  <2>5. CASE DeliverWrite(t, FALSE)
    BY <1>3, <2>1, <2>5, WriteEffect
  <2>6. CASE DeliverCheck(t) \/ DeliverGiveUp(t) \/ DeliverExhaust(t) \/ DeliverRenderFailed(t)
             \/ DeliverMark(t) \/ \E due \in BOOLEAN : DeliverLoad(t, due)
    <3>1. wire' = wire /\ delivery'[t].pc # "write"
      BY <2>6, CheckEffect, LoadEffect, EndEffect, MarkEffect DEF DeliverAt
    <3> QED
      BY <1>3, <2>1, <3>1
  <2> QED
    BY <1>5, <2>2, <2>3, <2>4, <2>5, <2>6 DEF DeliverStep
<1>6. CASE Restart
  <2>1. tablet' = tablet /\ received' = received
    BY <1>6 DEF Restart
  <2> QED
    BY <1>3, <1>6, <2>1, RestartKeepsBookkeeping DEF DeliverAt
<1>7. CASE TabletDrops
  BY <1>7, SessionsAssumption DEF TabletDrops
<1>8. CASE Upload \/ TabletReports \/ UNCHANGED vars
  BY <1>3, <1>8 DEF Upload, TabletReports, vars
<1>9. ASSUME NEW drawn \in BOOLEAN, TabletReads(drawn)
      PROVE  Based(t)'
  <2> DEFINE k    == received[t] + 1
             next == wire[t][k].frame
  <2>1. tablet.session = t
    BY <1>1, <1>9 DEF TabletReads
  <2>2. /\ received[t] < Len(wire[t]) /\ received'[t] = k
        /\ drawn => tablet'.display = next
        /\ ~drawn => tablet' = tablet
        /\ wire' = wire /\ delivery' = delivery
    BY <1>1, <1>9, <2>1 DEF TabletReads
  <2>3. k \in DOMAIN wire[t] /\ k \in Nat /\ received[t] < k
    BY <1>1, <2>2
  <2>4. Based(t)
    BY <1>2, <2>1
  <2> HIDE DEF k
  <2>5. \A i \in DOMAIN wire[t] : k < i => received[t] < i
    BY <1>1, <2>3
  <2>6. /\ \A i \in DOMAIN wire[t] : k < i /\ wire[t][i].base # 0 =>
             /\ wire[t][i].base = tablet.display /\ next = tablet.display
             /\ \A j \in DOMAIN wire[t] : k < j /\ j < i => wire[t][j].frame = tablet.display
        /\ delivery[t].pc = "write" /\ delivery[t].base # 0 =>
             /\ delivery[t].base = tablet.display /\ next = tablet.display
             /\ \A j \in DOMAIN wire[t] : k < j => wire[t][j].frame = tablet.display
    BY <2>3, <2>4, <2>5 DEF Based
  <2> HIDE DEF next
  <2> QED
    BY <2>2, <2>6 DEF Based
<1> QED
  BY <1>4, <1>5, <1>6, <1>7, <1>8, <1>9 DEF Next

\* At the start nothing is on the wire and nothing is being drawn.
LEMMA PaintInvInit == Init => PaintInv
<1> SUFFICES ASSUME Init PROVE PaintInv
  OBVIOUS
<1>1. /\ rows = <<>> /\ tablet.display = 0 /\ tablet.session = NoSession
      /\ \A s \in Sessions : /\ wire[s] = <<>> /\ inbox[s] = <<>> /\ handler[s].sequence = 0
                             /\ session[s].ackedSeq = 0 /\ session[s].lastFrameID = 0
                             /\ delivery[s].pc = "idle" /\ session[s].display = 0
  BY DEF Init, AtPC, DeliverAt
<1>2. SequenceInv /\ NotedInv /\ DrawnInv /\ FreshInv
  BY <1>1 DEF SequenceInv, Sequenced, NotedInv, Noted, LastNoted, DrawnInv, Acks, Waiting, FreshInv
<1>3. ShownInv /\ BasedInv
  BY <1>1, SessionsAssumption, EmptySeq DEF ShownInv, BasedInv
<1> QED
  BY <1>2, <1>3 DEF PaintInv

\* A partial update the tablet is about to draw starts from the frame it
\* displays, even though it may ignore records and lose what it displays.
THEOREM PartialOnDisplayedBaseAlways == Spec => []PartialOnDisplayedBase
<1>1. Init => ReplyInv /\ OrderInv
  BY DEF Init, ReplyInv, OrderInv, NeverBackwards, DeliverAt
<1>2. TypeInv /\ ReplyInv /\ ReadInv /\ OrderInv /\ PaintInv /\ [Next]_vars => PaintInv'
  BY SequenceInvStep, NotedInvStep, DrawnInvStep, FreshInvStep, ShownInvStep, BasedInvStep
     DEF PaintInv
<1>3. TypeInv /\ PaintInv => PartialOnDisplayedBase
  <2> SUFFICES ASSUME TypeInv, PaintInv, NEW s \in Sessions,
                      tablet.session = s, received[s] < Len(wire[s])
               PROVE  wire[s][received[s] + 1].base \in {0, tablet.display}
    BY DEF PartialOnDisplayedBase
  <2>1. Based(s)
    BY DEF PaintInv, BasedInv
  <2>2. received[s] + 1 \in DOMAIN wire[s] /\ received[s] < received[s] + 1
    BY LenProperties DEF TypeInv, TypeOK
  <2> QED
    BY <2>1, <2>2 DEF Based
<1> QED
  BY <1>1, <1>2, <1>3, PaintInvInit, ReadInvInit, ReplyInvStep, ReadInvStep, OrderInvStep,
     TypesAlways, PTL DEF Spec
=============================================================================
