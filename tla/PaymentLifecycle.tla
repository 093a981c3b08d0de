-------------------------- MODULE PaymentLifecycle --------------------------
(***************************************************************************)
(* What a payment promises: it is paid once, possibly after failed         *)
(* attempts, stays paid, and may then be refunded, which is final.  The    *)
(* exception is a settled payment overtaken by an answer that was begun    *)
(* before: nothing is promised of it any more.                             *)
(***************************************************************************)

CONSTANT Payments

VARIABLE stage      \* "none", the payment status, or "overtaken"

Moves == {<<"none", "pending">>, <<"pending", "paid">>, <<"pending", "failed">>,
          <<"failed", "paid">>, <<"paid", "refunded">>,
          <<"paid", "overtaken">>, <<"refunded", "overtaken">>}

Init == stage = [p \in Payments |-> "none"]

Move(p) == \E m \in Moves :
  /\ stage[p] = m[1]
  /\ stage' = [stage EXCEPT ![p] = m[2]]

Next == \E p \in Payments : Move(p)

Spec == Init /\ [][Next]_stage

=============================================================================
