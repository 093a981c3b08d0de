----------------------------- MODULE MCAccounts -----------------------------
(* Instances of Accounts for TLC.  Requests and values of one column are   *)
(* interchangeable.                                                        *)
EXTENDS Accounts, TLC

Symmetry ==
  Permutations(Ops) \union Permutations(Passwords) \union Permutations(Codes)
    \union Permutations(Jtis)
=============================================================================
