---------------------------- MODULE MCFrontends ----------------------------
(* A small instance of Frontends for TLC. *)
EXTENDS Frontends, TLC

Symmetry == Permutations(Clients)
============================================================================
