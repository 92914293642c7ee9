--------------------------- MODULE MCEventStream ---------------------------
(* Instances of EventStream for TLC. *)
EXTENDS EventStream, TLC

\* Neither emitters nor clients are told apart.
Symmetry == Permutations(Emitters) \cup Permutations(Clients)
=============================================================================
