---------------------------- MODULE MCSessionRouter ----------------------------
EXTENDS SessionRouter, TLC

(* Handlers, and the names of actors, are interchangeable.                  *)
Symmetry == Permutations(Handlers) \cup Permutations(Actors)
=============================================================================
