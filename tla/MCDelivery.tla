----------------------------- MODULE MCDelivery -----------------------------
(* Instances of Delivery, and of its refinement, for TLC. *)
EXTENDS DeliveryRefinement, TLC

\* Sessions are interchangeable: no definition prefers one.
Symmetry == Permutations(Sessions)
=============================================================================
