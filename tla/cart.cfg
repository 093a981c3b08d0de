SPECIFICATION Spec
CONSTANTS
  Ops = {o1, o2, o3}
  Items = {"plain", "variant"}
  Variants = {"variant"}
  MaxOps = 4
  MaxCarts = 4
  MaxLines = 4
SYMMETRY Symmetry
INVARIANT CartsBounded
INVARIANT AddsKept
INVARIANT MovedOnce
INVARIANT NotStranded
\* Nothing is left to do when the bounds on requests, carts and lines are reached.
CHECK_DEADLOCK FALSE
