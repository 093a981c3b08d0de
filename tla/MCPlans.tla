------------------------------ MODULE MCPlans ------------------------------
(* Instances of Plans for TLC: a short trial with a small limit and a      *)
(* longer plan with a larger one, whose period may hold that of the trial. *)
EXTENDS Plans, TLC

MCLimit == [p \in Plan |-> IF p = "tried" THEN 2 ELSE 3]
MCCycle == [p \in Plan |-> 2]
MCTrialDays == [p \in Plan |-> IF p = "tried" THEN 1 ELSE 0]

Symmetry == Permutations(Ops)
=============================================================================
