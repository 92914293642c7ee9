---------------------------- MODULE Assignments ----------------------------
(***************************************************************************)
(* The rows of the assignments table of one device and the SQL statements  *)
(* of internal/store that read and write them.  SQLite runs on a single    *)
(* connection, so each statement is one atomic operator here.              *)
(*                                                                         *)
(* A row's id is its position, because ids are AUTOINCREMENT.  Its frame   *)
(* id is identified with its id: frame ids are random non-zero 32-bit      *)
(* values, and two rows of one device are assumed not to draw the same     *)
(* one.  Id 0 stands for "no row" and for frame id 0, which no row has.    *)
(***************************************************************************)
EXTENDS Naturals, Sequences

\* The values of the state column.
States == {"queued", "sent", "error", "failed", "delivered"}

\* sequence is sent_sequence (0 for NULL), acknowledged says whether
\* acknowledged_at is set, attempts is send_attempts.
Row == [state : States, sequence : Nat, acknowledged : BOOLEAN, attempts : Nat]

NoRow == 0

NewRow == [state |-> "queued", sequence |-> 0, acknowledged |-> FALSE, attempts |-> 0]

\* INSERT INTO assignments, by an upload or a rendered design.
CreateAssignment(rows) == Append(rows, NewRow)

Newest(rows) == Len(rows)

\* Only the newest row is ever sent, and only while it is unfinished.
PendingNewestUnfinished(rows) ==
  LET open == {r \in DOMAIN rows : rows[r].state \notin {"delivered", "failed"}}
  IN  IF open = {} THEN NoRow ELSE CHOOSE r \in open : \A q \in open : q <= r

Pending(rows) ==
  IF rows # <<>> /\ rows[Newest(rows)].state \notin {"delivered", "failed"}
  THEN Newest(rows)
  ELSE NoRow

\* The row whose frame the tablet displays becomes delivered, whatever its state.
MarkDeliveredNewest(rows, display) ==
  IF display # 0 /\ rows # <<>>
  THEN [rows EXCEPT ![Newest(rows)].state = "delivered"]
  ELSE rows

MarkDelivered(rows, display) ==
  IF display \in DOMAIN rows
  THEN [rows EXCEPT ![display].state = "delivered"]
  ELSE rows

\* The newest row is queued again when it was delivered and is not displayed.
ReconcileDesired(rows, display) ==
  LET n == Newest(rows) IN
  IF rows # <<>> /\ rows[n].state = "delivered" /\ n # display
  THEN [rows EXCEPT ![n] = [@ EXCEPT !.state = "queued", !.acknowledged = FALSE]]
  ELSE rows

PrepareSend(rows, id, sequence) ==
  [rows EXCEPT ![id] = [@ EXCEPT !.sequence = sequence,
                                 !.acknowledged = FALSE,
                                 !.attempts = rows[id].attempts + 1]]

\* UPDATE ... WHERE id = ? AND state != 'delivered'
SetAlways(rows, id, state) == [rows EXCEPT ![id].state = state]

SetUnlessDelivered(rows, id, state) ==
  IF rows[id].state # "delivered" THEN [rows EXCEPT ![id].state = state] ELSE rows

MarkFailedSwapped(rows, id) == SetUnlessDelivered(rows, id, "delivery not confirmed")
MarkFailed(rows, id) == SetUnlessDelivered(rows, id, "failed")

MarkSent(rows, id, ok) == SetUnlessDelivered(rows, id, IF ok THEN "sent" ELSE "error")

\* MarkAcknowledged is a SELECT followed by an UPDATE in a second statement.
Acknowledgeable(rows, sequence) ==
  {r \in DOMAIN rows : /\ rows[r].sequence = sequence
                       /\ rows[r].state \in {"queued", "sent"}
                       /\ ~rows[r].acknowledged}

SelectAcknowledged(rows, sequence) ==
  LET match == Acknowledgeable(rows, sequence) IN
  IF match = {} THEN NoRow ELSE CHOOSE r \in match : \A q \in match : q <= r

UpdateAcknowledged(rows, id) == [rows EXCEPT ![id].acknowledged = TRUE]
=============================================================================
