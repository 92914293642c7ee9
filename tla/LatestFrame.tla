---------------------------- MODULE LatestFrame ----------------------------
(***************************************************************************)
(* What image delivery promises, without handlers, goroutines, sequence    *)
(* numbers or the tablet: images are requested one after the other; each   *)
(* connection carries requested frames, never going back to an older one   *)
(* and none too often; a frame is confirmed only after a connection has    *)
(* carried it, and only the confirmation of the newest is ever taken back. *)
(***************************************************************************)
EXTENDS Naturals, Sequences, FiniteSets

CONSTANTS Connections, MaxCarried

VARIABLES
  requested,  \* how many images have been requested; frames are 1..requested
  carried,    \* the frames each connection has carried, in order
  confirmed   \* the frames that are confirmed now

vars == <<requested, carried, confirmed>>

Init ==
  /\ requested = 0
  /\ carried = [c \in Connections |-> <<>>]
  /\ confirmed = {}

Request ==
  /\ requested' = requested + 1
  /\ UNCHANGED <<carried, confirmed>>

\* A connection carries a frame as new as any it has carried before.
Carry(c, frame) ==
  /\ frame \in 1..requested
  /\ \A i \in DOMAIN carried[c] : carried[c][i] <= frame
  /\ Cardinality({i \in DOMAIN carried[c] : carried[c][i] = frame}) < MaxCarried
  /\ carried' = [carried EXCEPT ![c] = Append(@, frame)]
  /\ UNCHANGED <<requested, confirmed>>

Confirm(frame) ==
  /\ \E c \in Connections : \E i \in DOMAIN carried[c] : carried[c][i] = frame
  /\ confirmed' = confirmed \cup {frame}
  /\ UNCHANGED <<requested, carried>>

\* A connection that starts may find that the newest frame is not shown.
Retract ==
  /\ requested \in confirmed
  /\ confirmed' = confirmed \ {requested}
  /\ UNCHANGED <<requested, carried>>

Next ==
  \/ Request \/ Retract
  \/ \E c \in Connections : \E frame \in 1..requested : Carry(c, frame) \/ Confirm(frame)

Spec == Init /\ [][Next]_vars
=============================================================================
