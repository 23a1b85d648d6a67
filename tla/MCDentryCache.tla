----------------------------- MODULE MCDentryCache -----------------------------
(* A small instance of DentryCache for TLC.  Addresses are interchangeable: no *)
(* operation compares or chooses among them, and all properties are of safety. *)
EXTENDS DentryCache, TLC

Symmetry == Permutations(Node)
================================================================================
