------------------------------ MODULE MCActions ------------------------------
(***************************************************************************)
(* Two actions, two workers, a channel of one, three taps, and requests and *)
(* restarts that change what the actions are.                              *)
(***************************************************************************)
EXTENDS Actions
=============================================================================
