------------------------------ MODULE Payments ------------------------------
(***************************************************************************)
(* Payments (backend/src/modules/payments): creating a payment for an      *)
(* order, the callbacks of the payment gateway, refunds.                   *)
(*                                                                         *)
(* Callback and refund handlers read the payment row, decide, and save the *)
(* whole entity they read.  The gateway is external: it captures money or  *)
(* declines, sends a signed notification of each outcome, and sends it     *)
(* again until it is acknowledged, or just so; notifications overtake each *)
(* other.  The global validation pipe removes every field of a callback    *)
(* that PaymentCallbackDto does not declare before processCallback sees    *)
(* it, so the fields a gateway sends decide whether its notification is    *)
(* accepted, and whether its amount is compared.  Notifications no gateway *)
(* signed are left out, as are cash and bank transfer, without callbacks.  *)
(***************************************************************************)
EXTENDS Integers, FiniteSets

CONSTANTS
  Creators,      \* POST /payments requests; a payment is named by its request
  OrderOf,       \* the order of each request, which exists and has a total > 0
  Orders,
  MethodOf,      \* the gateway of each request
  Carried,       \* the fields of its gateway's notifications
  Handlers,      \* server side of callbacks, each serving one at a time
  Refunders,     \* POST /payments/:id/refund requests
  MaxCrashes     \* bound on process deaths

ASSUME PaymentsAssumption ==
  /\ OrderOf \in [Creators -> Orders]
  /\ MethodOf \in [Creators -> {"vnpay", "momo", "stripe"}]
  /\ Carried \in [Creators -> SUBSET STRING]
  /\ MaxCrashes \in Nat

NoPayment == "no payment"

\* What the gateway tells: the payment's amount was paid, another amount was
\* paid, nothing was paid.
Outcomes == {"exact", "wrong", "declined"}

PaymentStatuses == {"pending", "paid", "failed", "refunded"}

\* transaction_id is that of the outcome it was taken from.
Row == [status : PaymentStatuses, transaction : Outcomes \cup {"null"},
        paid_at : BOOLEAN, refunded_at : BOOLEAN]

Notes == Creators \X Outcomes

NoNote == <<>>

VARIABLES
  row,           \* the payments table: a Row, or "none"
  pc,            \* creation: the statement it awaits next
  session,       \* gateway: "none", "open", or how the money was captured
  sent,          \* gateway: notifications sent at least once
  unacked,       \* gateway: those it has no 2xx answer for
  hpc, hnote, hseen,    \* callback: step, notification, row it read
  overtaken,     \* history: settled payments a callback overwrote that had
                 \* read them before they were settled
  rpc, rtarget, rseen,  \* refund: step, payment, row it read
  crashes

gatewayVars == <<session, sent, unacked>>
callbackVars == <<hpc, hnote, hseen, overtaken>>
refundVars == <<rpc, rtarget, rseen>>
vars == <<row, pc, session, sent, unacked, hpc, hnote, hseen,
          overtaken, rpc, rtarget, rseen, crashes>>

NoRow == [status |-> "none"]

TypeOK ==
  /\ row \in [Creators -> Row \cup {NoRow}]
  /\ pc \in [Creators -> {"new", "insert", "url", "done"}]
  /\ session \in [Creators -> {"none", "open", "exact", "wrong"}]
  /\ sent \subseteq Notes
  /\ unacked \subseteq sent
  /\ hpc \in [Handlers -> {"idle", "save", "reply", "refuse"}]
  /\ hnote \in [Handlers -> Notes \cup {NoNote}]
  /\ hseen \in [Handlers -> Row \cup {NoRow}]
  /\ overtaken \subseteq Creators
  /\ rpc \in [Refunders -> {"new", "save", "done", "refused"}]
  /\ rtarget \in [Refunders -> Creators \cup {NoPayment}]
  /\ rseen \in [Refunders -> Row \cup {NoRow}]
  /\ crashes \in Nat

Init ==
  /\ row = [c \in Creators |-> NoRow]
  /\ pc = [c \in Creators |-> "new"]
  /\ session = [c \in Creators |-> "none"]
  /\ sent = {}
  /\ unacked = {}
  /\ hpc = [h \in Handlers |-> "idle"]
  /\ hnote = [h \in Handlers |-> NoNote]
  /\ hseen = [h \in Handlers |-> NoRow]
  /\ overtaken = {}
  /\ rpc = [a \in Refunders |-> "new"]
  /\ rtarget = [a \in Refunders |-> NoPayment]
  /\ rseen = [a \in Refunders |-> NoRow]
  /\ crashes = 0

Exists(c) == row[c] # NoRow

-----------------------------------------------------------------------------
(* Creation: createPayment, then createPaymentUrl.                         *)

HasPayment(o) == \E c \in Creators : OrderOf[c] = o /\ Exists(c)

CheckNoPayment(c) ==
  /\ pc[c] = "new"
  /\ pc' = [pc EXCEPT ![c] = IF HasPayment(OrderOf[c]) THEN "done" ELSE "insert"]
  /\ UNCHANGED <<row, gatewayVars, callbackVars, refundVars, crashes>>

\* Mutant: no unique index on order_id.
IndexRefuses_Dropped(o) == FALSE

\* The unique index on order_id.
IndexRefuses(o) == HasPayment(o)

NewRow == [status |-> "pending", transaction |-> "null",
           paid_at |-> FALSE, refunded_at |-> FALSE]

InsertPayment(c) ==
  /\ pc[c] = "insert"
  /\ IF IndexRefuses(OrderOf[c])
       THEN /\ pc' = [pc EXCEPT ![c] = "done"]
            /\ UNCHANGED row
       ELSE /\ pc' = [pc EXCEPT ![c] = "url"]
            /\ row' = [row EXCEPT ![c] = NewRow]
  /\ UNCHANGED <<gatewayVars, callbackVars, refundVars, crashes>>

\* The gateway opens a session, or the call fails and the payment has none.
BuildUrl(c) ==
  /\ pc[c] = "url"
  /\ pc' = [pc EXCEPT ![c] = "done"]
  /\ \/ session' = [session EXCEPT ![c] = "open"]
     \/ UNCHANGED session
  /\ UNCHANGED <<row, sent, unacked, callbackVars, refundVars, crashes>>

-----------------------------------------------------------------------------
(* The gateway.                                                            *)

Notify(c, outcome) ==
  /\ sent' = sent \cup {<<c, outcome>>}
  /\ unacked' = unacked \cup {<<c, outcome>>}

\* The customer pays, perhaps after attempts that were declined.
Capture(c) ==
  /\ session[c] = "open"
  /\ \/ session' = [session EXCEPT ![c] = "exact"] /\ Notify(c, "exact")
     \/ session' = [session EXCEPT ![c] = "wrong"] /\ Notify(c, "wrong")
  /\ UNCHANGED <<row, pc, callbackVars, refundVars, crashes>>

Decline(c) ==
  /\ session[c] = "open"
  /\ <<c, "declined">> \notin sent
  /\ Notify(c, "declined")
  /\ UNCHANGED <<row, pc, session, callbackVars, refundVars, crashes>>

-----------------------------------------------------------------------------
(* Callbacks: processCallback.                                             *)

\* The fields of PaymentCallbackDto; the pipe removes all others.
Declared == {"transaction_id", "order_id", "status", "amount", "signature",
             "vnp_TxnRef", "vnp_ResponseCode", "vnp_TransactionNo",
             "vnp_SecureHash", "resultCode", "transId"}

Body(c) == Carried[c] \cap Declared

\* Stripe's signature is taken over the raw bytes, the others over the body
\* that is left.
Verifies(c) == MethodOf[c] = "stripe" \/ Carried[c] \subseteq Declared

Finds(c) ==
  IF MethodOf[c] = "vnpay" THEN "vnp_TxnRef" \in Body(c) ELSE "order_id" \in Body(c)

StatesResult(c) ==
  CASE MethodOf[c] = "vnpay"  -> "vnp_ResponseCode" \in Body(c)
    [] MethodOf[c] = "momo"   -> "resultCode" \in Body(c)
    [] MethodOf[c] = "stripe" -> "status" \in Body(c)

\* extractCallbackAmount finds a number; amount_total and vnp_Amount never
\* pass the pipe.
AmountStated(c) ==
  CASE MethodOf[c] = "vnpay"  -> "vnp_Amount" \in Body(c)
    [] MethodOf[c] = "momo"   -> "amount" \in Body(c)
    [] MethodOf[c] = "stripe" -> Body(c) \cap {"amount_total", "amount"} # {}

NamesTransaction(c) ==
  Body(c) \cap {"transaction_id", "vnp_TransactionNo", "transId"} # {}

\* Mutant: a failed payment is taken for final, too.
Settled_FailedToo(p) == p.status \in {"paid", "refunded", "failed"}

\* Mutant: no test at all.
Settled_Never(p) == FALSE

\* Processed already: the row is returned as it is.
Settled(p) == p.status \in {"paid", "refunded"}

\* Verifies the signature, finds the payment and looks at its status.
Deliver(h, n) ==
  LET p == row[n[1]] IN
  /\ hpc[h] = "idle"
  /\ n \in sent
  /\ hnote' = [hnote EXCEPT ![h] = n]
  /\ IF Verifies(n[1]) /\ Finds(n[1])
       THEN /\ hseen' = [hseen EXCEPT ![h] = p]
            /\ hpc' = [hpc EXCEPT ![h] = IF Settled(p) THEN "reply" ELSE "save"]
       ELSE /\ hpc' = [hpc EXCEPT ![h] = "refuse"]
            /\ UNCHANGED hseen
  /\ UNCHANGED <<row, pc, gatewayVars, overtaken, refundVars, crashes>>

TransactionOf(c, outcome) == IF NamesTransaction(c) THEN outcome ELSE "null"

\* Mutant: an amount that was stated is not compared.
Result_AnyAmount(c, p, outcome) ==
  LET success == outcome # "declined" /\ StatesResult(c) IN
  [p EXCEPT !.status = IF success THEN "paid" ELSE "failed",
            !.transaction = TransactionOf(c, outcome),
            !.paid_at = success \/ p.paid_at]

\* The entity read, changed by the outcome.  An amount is compared only if the
\* body states one; another than the payment's fails it and keeps the
\* transaction id as it was.  A body without a result counts as a failure.
Result(c, p, outcome) ==
  LET success == outcome # "declined" /\ StatesResult(c) IN
  IF success /\ AmountStated(c) /\ outcome = "wrong"
  THEN [p EXCEPT !.status = "failed"]
  ELSE [p EXCEPT !.status = IF success THEN "paid" ELSE "failed",
                 !.transaction = TransactionOf(c, outcome),
                 !.paid_at = success \/ p.paid_at]

\* save(payment): every column of the entity is written where it differs.
SaveResult(h) ==
  LET c == hnote[h][1]
      saved == Result(c, hseen[h], hnote[h][2])
  IN
  /\ hpc[h] = "save"
  /\ row' = [row EXCEPT ![c] = saved]
  /\ overtaken' = IF /\ hseen[h].status \in {"pending", "failed"}
                     /\ row[c].status \in {"paid", "refunded"} \ {saved.status}
                  THEN overtaken \cup {c}
                  ELSE overtaken
  /\ hpc' = [hpc EXCEPT ![h] = "reply"]
  /\ UNCHANGED <<pc, gatewayVars, hnote, hseen, refundVars, crashes>>

HandlerEnds(h) ==
  /\ hpc' = [hpc EXCEPT ![h] = "idle"]
  /\ hnote' = [hnote EXCEPT ![h] = NoNote]
  /\ hseen' = [hseen EXCEPT ![h] = NoRow]
  /\ UNCHANGED <<row, pc, session, sent, overtaken, refundVars, crashes>>

Reply(h) ==
  /\ hpc[h] = "reply"
  /\ unacked' = unacked \ {hnote[h]}
  /\ HandlerEnds(h)

\* 400 or 404: the gateway has no 2xx answer.
Refuse(h) ==
  /\ hpc[h] = "refuse"
  /\ UNCHANGED unacked
  /\ HandlerEnds(h)

-----------------------------------------------------------------------------
(* Refunds: refund.                                                        *)

RefundRead(a, c) ==
  /\ rpc[a] = "new"
  /\ Exists(c)
  /\ rtarget' = [rtarget EXCEPT ![a] = c]
  /\ rseen' = [rseen EXCEPT ![a] = row[c]]
  /\ rpc' = [rpc EXCEPT ![a] = IF row[c].status = "paid" THEN "save" ELSE "refused"]
  /\ UNCHANGED <<row, pc, gatewayVars, callbackVars, crashes>>

RefundSave(a) ==
  /\ rpc[a] = "save"
  /\ row' = [row EXCEPT ![rtarget[a]] =
               [rseen[a] EXCEPT !.status = "refunded", !.refunded_at = TRUE]]
  /\ rpc' = [rpc EXCEPT ![a] = "done"]
  /\ UNCHANGED <<pc, gatewayVars, callbackVars, rtarget, rseen, crashes>>

-----------------------------------------------------------------------------

\* The server process dies; the gateway has no answer and will send again.
Crash ==
  /\ crashes < MaxCrashes
  /\ crashes' = crashes + 1
  /\ pc' = [c \in Creators |-> IF pc[c] = "new" THEN "new" ELSE "done"]
  /\ hpc' = [h \in Handlers |-> "idle"]
  /\ hnote' = [h \in Handlers |-> NoNote]
  /\ hseen' = [h \in Handlers |-> NoRow]
  /\ rpc' = [a \in Refunders |-> IF rpc[a] = "save" THEN "refused" ELSE rpc[a]]
  /\ UNCHANGED <<row, gatewayVars, overtaken, rtarget, rseen>>

Next ==
  \/ \E c \in Creators : \/ CheckNoPayment(c) \/ InsertPayment(c) \/ BuildUrl(c)
                         \/ Capture(c) \/ Decline(c)
  \/ \E h \in Handlers : \/ \E n \in Notes : Deliver(h, n)
                         \/ SaveResult(h) \/ Reply(h) \/ Refuse(h)
  \/ \E a \in Refunders : RefundSave(a) \/ \E c \in Creators : RefundRead(a, c)
  \/ Crash

Spec == Init /\ [][Next]_vars

Redeliver(n) == n \in unacked /\ \E h \in Handlers : Deliver(h, n)

\* Handlers run on once called, and the gateway repeats the notification of a
\* capture while it has no answer to it.
Fairness ==
  /\ \A h \in Handlers : WF_vars(SaveResult(h) \/ Reply(h) \/ Refuse(h))
  /\ \A c \in Creators : SF_vars(Redeliver(<<c, "exact">>))

FairSpec == Spec /\ Fairness

-----------------------------------------------------------------------------
(* Properties.                                                             *)

\* Two requests for one order, each finding no payment, create only one.
OnePaymentPerOrder ==
  \A c, d \in Creators : OrderOf[c] = OrderOf[d] /\ Exists(c) /\ Exists(d) => c = d

\* A payment is shown paid (or refunded) only if the gateway has captured its
\* exact amount or, where its notification states no amount, any amount, and
\* it carries the date and the transaction of that capture, however callbacks
\* and refunds overlap.
PaidRecordsCapture ==
  \A c \in Creators : row[c] # NoRow /\ row[c].status \in {"paid", "refunded"} =>
    /\ session[c] \in {"exact", "wrong"}
    /\ AmountStated(c) => session[c] = "exact"
    /\ row[c].transaction = TransactionOf(c, session[c])
    /\ row[c].paid_at

\* The notifications processCallback can make use of.
Understood(c) == Verifies(c) /\ Finds(c) /\ StatesResult(c)

\* Where the gateway's notifications are understood, a payment captured for its
\* amount is recorded as paid in the end, whatever failed attempts preceded it
\* and however often a callback dies before its answer; only a callback that
\* read the payment before can overwrite it.
CapturedIsRecorded ==
  \A c \in Creators : Understood(c) =>
    (session[c] = "exact" ~> row[c].status \in {"paid", "refunded"} \/ c \in overtaken)

Lifecycle == INSTANCE PaymentLifecycle WITH
               Payments <- Creators,
               stage <- [c \in Creators |->
                           IF c \in overtaken THEN "overtaken" ELSE row[c].status]

\* However callbacks, refunds and deaths overlap, a payment moves only as its
\* lifecycle allows: the one way out of paid and refunded, but for the refund,
\* is a callback that read the payment before it was settled and saves after.
ImplementsLifecycle == Lifecycle!Spec
=============================================================================
