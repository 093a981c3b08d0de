------------------------------- MODULE MCCart -------------------------------
(* Instances of Cart for TLC.  The requests are interchangeable; of the    *)
(* items one has a variant and one has not.                                *)
EXTENDS Cart, TLC

Symmetry == Permutations(Ops)
=============================================================================
