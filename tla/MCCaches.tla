------------------------------ MODULE MCCaches ------------------------------
(* Instances of Caches for TLC: processes and requests are interchangeable. *)
EXTENDS Caches, TLC

Symmetry == Permutations(Procs) \union Permutations(Ops)
=============================================================================
