------------------------------ MODULE MCTouches ------------------------------
(***************************************************************************)
(* A tablet whose clock has a calendar to navigate, and two connections of *)
(* which one has been replaced but is still handling its last tap.         *)
(***************************************************************************)
EXTENDS Touches
=============================================================================
