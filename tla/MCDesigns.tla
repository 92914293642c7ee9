------------------------------ MODULE MCDesigns ------------------------------
(***************************************************************************)
(* The design service of one tablet: a clock that refreshes, a plain       *)
(* design, an uploaded SVG, and departures that have a configuration and   *)
(* may fail.                                                               *)
(***************************************************************************)
EXTENDS Designs

(* HTTP handlers are interchangeable; the run checks no liveness. *)
Symmetry == Permutations(Handlers)
=============================================================================
