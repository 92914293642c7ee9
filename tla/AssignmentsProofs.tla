------------------------- MODULE AssignmentsProofs -------------------------
(* What the statements of the store preserve. *)
EXTENDS Assignments, SequenceTheorems, WellFoundedInduction, TLAPS

\* An UPDATE of one existing row leaves a table of the same length, whose other
\* rows are what they were.
LEMMA UpdateRow ==
  ASSUME NEW rows \in Seq(Row), NEW id \in DOMAIN rows, NEW row \in Row
  PROVE  /\ [rows EXCEPT ![id] = row] \in Seq(Row)
         /\ Len([rows EXCEPT ![id] = row]) = Len(rows)
         /\ DOMAIN [rows EXCEPT ![id] = row] = DOMAIN rows
         /\ \A r \in DOMAIN rows : [rows EXCEPT ![id] = row][r] = IF r = id THEN row ELSE rows[r]
  BY ExceptSeq

\* A new row is queued and was never sent; the others stay.
LEMMA CreateAssignmentFacts ==
  ASSUME NEW rows \in Seq(Row)
  PROVE  /\ CreateAssignment(rows) \in Seq(Row)
         /\ Len(CreateAssignment(rows)) = Len(rows) + 1
         /\ DOMAIN CreateAssignment(rows) = 1..(Len(rows) + 1)
         /\ \A r \in DOMAIN rows : CreateAssignment(rows)[r] = rows[r]
         /\ CreateAssignment(rows)[Len(rows) + 1] = NewRow
<1>1. NewRow \in Row
  BY DEF NewRow, Row, States
<1> QED
  BY <1>1, AppendProperties DEF CreateAssignment

\* UPDATE ... SET state WHERE state != 'delivered' changes one row's state and
\* nothing else, and leaves a delivered row alone.
LEMMA SetUnlessDeliveredFacts ==
  ASSUME NEW rows \in Seq(Row), NEW id \in DOMAIN rows, NEW state \in States
  PROVE  LET new == SetUnlessDelivered(rows, id, state) IN
         /\ new \in Seq(Row)
         /\ Len(new) = Len(rows)
         /\ DOMAIN new = DOMAIN rows
         /\ \A r \in DOMAIN rows :
              /\ new[r].attempts = rows[r].attempts
              /\ rows[r].state = "delivered" => new[r].state = "delivered"
              /\ new[r].state \in {rows[r].state, state}
<1> DEFINE row == [rows[id] EXCEPT !.state = state]
<1>1. rows[id] \in Row
  BY ElementOfSeq
<1>2. row \in Row /\ row.state = state /\ row.attempts = rows[id].attempts
  BY <1>1 DEF Row
<1> HIDE DEF row
<1>3. SetUnlessDelivered(rows, id, state) =
        IF rows[id].state # "delivered" THEN [rows EXCEPT ![id] = row] ELSE rows
  BY DEF SetUnlessDelivered, row
<1>4. CASE rows[id].state # "delivered"
  BY <1>2, <1>3, <1>4, UpdateRow
<1>5. CASE rows[id].state = "delivered"
  BY <1>3, <1>5
<1> QED
  BY <1>4, <1>5

\* The confirmed row becomes delivered and no other changes.
LEMMA MarkDeliveredFacts ==
  ASSUME NEW rows \in Seq(Row), NEW display \in Nat
  PROVE  LET new == MarkDelivered(rows, display) IN
         /\ new \in Seq(Row)
         /\ Len(new) = Len(rows)
         /\ DOMAIN new = DOMAIN rows
         /\ \A r \in DOMAIN rows :
              /\ new[r].attempts = rows[r].attempts
              /\ new[r].state = IF r = display THEN "delivered" ELSE rows[r].state
<1> DEFINE row == [rows[display] EXCEPT !.state = "delivered"]
<1>1. CASE display \in DOMAIN rows
  <2>1. rows[display] \in Row
    BY <1>1, ElementOfSeq
  <2>2. row \in Row /\ row.state = "delivered" /\ row.attempts = rows[display].attempts
    BY <2>1 DEF Row, States
  <2> HIDE DEF row
  <2>3. MarkDelivered(rows, display) = [rows EXCEPT ![display] = row]
    BY <1>1 DEF MarkDelivered, row
  <2> QED
    BY <1>1, <2>2, <2>3, UpdateRow
<1>2. CASE display \notin DOMAIN rows
  BY <1>2 DEF MarkDelivered
<1> QED
  BY <1>1, <1>2

\* Only the newest row can be queued again, and only when it was delivered.
LEMMA ReconcileDesiredFacts ==
  ASSUME NEW rows \in Seq(Row), NEW display \in Nat
  PROVE  LET new == ReconcileDesired(rows, display) IN
         /\ new \in Seq(Row)
         /\ Len(new) = Len(rows)
         /\ DOMAIN new = DOMAIN rows
         /\ \A r \in DOMAIN rows :
              /\ new[r].attempts = rows[r].attempts
              /\ \/ new[r].state = rows[r].state
                 \/ r = Len(rows) /\ rows[r].state = "delivered" /\ new[r].state = "queued"
<1> DEFINE n == Len(rows)
           row == [rows[n] EXCEPT !.state = "queued", !.acknowledged = FALSE]
<1>1. CASE rows # <<>> /\ rows[n].state = "delivered" /\ n # display
  <2>1. n \in DOMAIN rows
    BY <1>1, EmptySeq
  <2>2. rows[n] \in Row
    BY <2>1, ElementOfSeq
  <2>3. row \in Row /\ row.state = "queued" /\ row.attempts = rows[n].attempts
    BY <2>2 DEF Row, States
  <2>4. ReconcileDesired(rows, display) = [rows EXCEPT ![n] = row]
    BY <1>1 DEF ReconcileDesired, Newest
  <2> HIDE DEF row
  <2> QED
    BY <1>1, <2>1, <2>3, <2>4, UpdateRow
<1>2. CASE ~(rows # <<>> /\ rows[n].state = "delivered" /\ n # display)
  BY <1>2 DEF ReconcileDesired, Newest
<1> QED
  BY <1>1, <1>2

\* A send is counted on its row and changes no state.
LEMMA PrepareSendFacts ==
  ASSUME NEW rows \in Seq(Row), NEW id \in DOMAIN rows, NEW sequence \in Nat
  PROVE  LET new == PrepareSend(rows, id, sequence) IN
         /\ new \in Seq(Row)
         /\ Len(new) = Len(rows)
         /\ DOMAIN new = DOMAIN rows
         /\ \A r \in DOMAIN rows :
              /\ new[r].attempts = IF r = id THEN rows[r].attempts + 1 ELSE rows[r].attempts
              /\ new[r].state = rows[r].state
<1> DEFINE n   == rows[id].attempts + 1
           row == [rows[id] EXCEPT !.sequence = sequence, !.acknowledged = FALSE,
                                   !.attempts = n]
<1>1. rows[id] \in Row /\ n \in Nat
  <2>1. rows[id] \in Row
    BY ElementOfSeq
  <2> QED
    BY <2>1 DEF Row
<1>2. row \in Row /\ row.state = rows[id].state /\ row.attempts = rows[id].attempts + 1
  <2> HIDE DEF n
  <2>1. row \in Row /\ row.state = rows[id].state /\ row.attempts = n
    BY <1>1 DEF Row
  <2> QED
    BY <2>1 DEF n
<1>3. PrepareSend(rows, id, sequence) = [rows EXCEPT ![id] = row]
  BY DEF PrepareSend
<1> HIDE DEF row
<1> QED
  BY <1>2, <1>3, UpdateRow

\* An acknowledgement changes no state and no count.
LEMMA UpdateAcknowledgedFacts ==
  ASSUME NEW rows \in Seq(Row), NEW id \in DOMAIN rows
  PROVE  LET new == UpdateAcknowledged(rows, id) IN
         /\ new \in Seq(Row)
         /\ Len(new) = Len(rows)
         /\ DOMAIN new = DOMAIN rows
         /\ \A r \in DOMAIN rows :
              new[r].attempts = rows[r].attempts /\ new[r].state = rows[r].state
<1> DEFINE row == [rows[id] EXCEPT !.acknowledged = TRUE]
<1>1. rows[id] \in Row
  BY ElementOfSeq
<1>2. row \in Row /\ row.state = rows[id].state /\ row.attempts = rows[id].attempts
  BY <1>1 DEF Row
<1>3. UpdateAcknowledged(rows, id) = [rows EXCEPT ![id] = row]
  BY DEF UpdateAcknowledged
<1> HIDE DEF row
<1> QED
  BY <1>2, <1>3, UpdateRow

\* The pending row, if any, is the newest one, and it is unfinished.
LEMMA PendingFacts ==
  ASSUME NEW rows \in Seq(Row)
  PROVE  /\ Pending(rows) \in {0, Len(rows)}
         /\ Pending(rows) # 0 => Pending(rows) \in DOMAIN rows
  BY EmptySeq DEF Pending, Newest, NoRow

\* An acknowledgement selects an existing row or none.
LEMMA SelectAcknowledgedFacts ==
  ASSUME NEW rows \in Seq(Row), NEW sequence \in Nat
  PROVE  SelectAcknowledged(rows, sequence) \in DOMAIN rows \cup {0}
<1> DEFINE match == Acknowledgeable(rows, sequence)
<1>1. match \subseteq DOMAIN rows
  BY DEF Acknowledgeable
<1>2. CASE match = {}
  BY <1>2 DEF SelectAcknowledged, NoRow
<1>3. CASE match # {}
  <2>1. \A r \in match : r \in Nat /\ r <= Len(rows)
    BY <1>1, LenProperties
  <2>2. \E r \in match : \A q \in match : q <= r
    <3> DEFINE below == {Len(rows) - r : r \in match}
    <3>1. below \subseteq Nat /\ below # {}
      BY <1>3, <2>1
    <3>2. PICK d \in below : \A e \in below : <<e, d>> \notin OpToRel(<, Nat)
      BY <3>1, NatLessThanWellFounded, WFMin
    <3>3. \A e \in below : ~(e < d)
      BY <3>1, <3>2 DEF OpToRel
    <3>4. PICK r \in match : d = Len(rows) - r
      BY <3>2
    <3>5. \A q \in match : q <= r
      <4>1. TAKE q \in match
      <4>2. Len(rows) - q \in below
        OBVIOUS
      <4>3. ~(Len(rows) - q < Len(rows) - r)
        BY <3>3, <3>4, <4>2
      <4> QED
        BY <2>1, <4>3
    <3> QED
      BY <3>5
  <2> QED
    BY <1>1, <1>3, <2>2 DEF SelectAcknowledged
<1> QED
  BY <1>2, <1>3
=============================================================================
