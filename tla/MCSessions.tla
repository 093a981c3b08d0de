----------------------------- MODULE MCSessions -----------------------------
(* Instances of Sessions for TLC: the browsers and the requests are        *)
(* interchangeable, the seconds are not.                                   *)
EXTENDS Sessions, TLC

Symmetry == Permutations(Browsers) \union Permutations(Requests)
=============================================================================
