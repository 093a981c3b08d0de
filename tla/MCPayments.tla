----------------------------- MODULE MCPayments -----------------------------
(* Instances of Payments for TLC.                                          *)
EXTENDS Payments, TLC

CONSTANTS c1, c2, c3, mon

\* All of them pay for the same order.
SameOrder == [c \in {c1, c2, c3} |-> mon]

Methods == (c1 :> "momo") @@ (c2 :> "vnpay") @@ (c3 :> "vnpay")

\* c1, c2: the bodies docs/FLOWS.md describes, with MoMo's amount.  c3: a
\* notification as VNPay signs it, with a field the pipe removes.
Bodies == (c1 :> {"order_id", "resultCode", "transId", "amount", "signature"})
       @@ (c2 :> {"vnp_TxnRef", "vnp_ResponseCode", "vnp_TransactionNo", "vnp_SecureHash"})
       @@ (c3 :> {"vnp_TxnRef", "vnp_ResponseCode", "vnp_TransactionNo", "vnp_SecureHash",
                  "vnp_Amount"})
=============================================================================
