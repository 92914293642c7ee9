------------------------- MODULE DeliveryRefinement -------------------------
(* Delivery implements LatestFrame. *)
EXTENDS Delivery

Carried == [s \in Sessions |-> [i \in DOMAIN wire[s] |-> wire[s][i].frame]]
Delivered == {r \in DOMAIN rows : rows[r].state = "delivered"}

Promise == INSTANCE LatestFrame WITH
  Connections <- Sessions, MaxCarried <- MaxDeliveryAttempts,
  requested <- Len(rows), carried <- Carried, confirmed <- Delivered

\* Whatever the handlers, the delivery goroutines and the tablet do, what each
\* connection carries and what counts as delivered is what LatestFrame allows
\* (internal/gateway over internal/store).
ImplementsLatestFrame == Promise!Spec
=============================================================================
