------------------------ MODULE PaymentsAndPlansProofs ------------------------
(***************************************************************************)
(* Theorems about Payments, for any number of requests, callbacks and      *)
(* refunds, and about Plans, for any number of requests and subscriptions. *)
(* The two components do not interact: each half stands by itself.         *)
(***************************************************************************)
EXTENDS Payments, Plans, FiniteSetTheorems, TLAPS

-----------------------------------------------------------------------------
(* Payments.                                                               *)

\* A row, or a copy of it held by a handler, that claims payment of c.
Backed(c, p) ==
  p.status \in {"paid", "refunded"} =>
    /\ session[c] \in {"exact", "wrong"}
    /\ AmountStated(c) => session[c] = "exact"
    /\ p.transaction = TransactionOf(c, session[c])
    /\ p.paid_at

\* What is known of the gateway: sessions are opened for rows that exist,
\* notifications tell what happened.
GatewayInv ==
  /\ \A c \in Creators : pc[c] = "url" => session[c] = "none" /\ row[c] \in Row
  /\ \A c \in Creators : pc[c] \in {"new", "insert"} => row[c] = NoRow /\ session[c] = "none"
  /\ \A c \in Creators : session[c] # "none" => row[c] \in Row
  /\ \A n \in sent : session[n[1]] # "none"
  /\ \A c \in Creators, o \in {"exact", "wrong"} : <<c, o>> \in sent => session[c] = o

\* What is known of the copies that will be saved.
CopiesInv ==
  /\ \A h \in Handlers : hpc[h] = "save" =>
       hnote[h] \in sent /\ hseen[h] \in Row /\ Backed(hnote[h][1], hseen[h])
  /\ \A a \in Refunders : rpc[a] = "save" =>
       /\ rtarget[a] \in Creators
       /\ rseen[a] \in Row
       /\ rseen[a].status = "paid"
       /\ Backed(rtarget[a], rseen[a])

RowsInv == \A c \in Creators : Backed(c, row[c])

IInv == TypeOK /\ GatewayInv /\ CopiesInv /\ RowsInv

-----------------------------------------------------------------------------

\* The initial state satisfies the invariant.
LEMMA InitIInv == Init => IInv
  BY PaymentsAssumption
  DEF Init, IInv, TypeOK, GatewayInv, CopiesInv, RowsInv, Backed, NoRow

\* The row a creation inserts.
LEMMA NewRowType == NewRow \in Row /\ NewRow # NoRow /\ NewRow.status = "pending"
  BY DEF NewRow, Row, NoRow, PaymentStatuses

\* What a callback saves is a row, paid or failed.
LEMMA ResultType ==
  ASSUME NEW c \in Creators, NEW p \in Row, NEW o \in Outcomes
  PROVE  Result(c, p, o) \in Row /\ Result(c, p, o).status \in {"paid", "failed"}
<1>1. TransactionOf(c, o) \in Outcomes \cup {"null"}
  BY DEF TransactionOf
<1>2. (o # "declined" /\ StatesResult(c)) \in BOOLEAN
  OBVIOUS
<1>3. p.paid_at \in BOOLEAN
  BY DEF Row
<1> QED
  BY <1>1, <1>2, <1>3 DEF Result, Row, PaymentStatuses

\* A callback shows as paid only what its notification says was captured.
LEMMA ResultBacked ==
  ASSUME NEW c \in Creators, NEW p \in Row, NEW o \in Outcomes,
         o \in {"exact", "wrong"} => session[c] = o
  PROVE  Backed(c, Result(c, p, o))
<1>1. SUFFICES ASSUME Result(c, p, o).status # "failed" PROVE Backed(c, Result(c, p, o))
  BY ResultType DEF Backed
<1>2. /\ o # "declined" /\ StatesResult(c)
      /\ ~ (AmountStated(c) /\ o = "wrong")
  BY <1>1 DEF Result, Row
<1>3. session[c] = o /\ o \in {"exact", "wrong"}
  BY <1>2 DEF Outcomes
<1>4. Result(c, p, o) =
        [p EXCEPT !.status = "paid", !.transaction = TransactionOf(c, o), !.paid_at = TRUE]
  BY <1>2 DEF Result
<1> QED
  BY <1>2, <1>3, <1>4 DEF Backed, Row

\* The invariant is inductive.
LEMMA NextIInv == IInv /\ [Next]_vars => IInv'
<1> SUFFICES ASSUME IInv, [Next]_vars PROVE IInv'
  OBVIOUS
<1> USE DEF IInv, NoRow
<1>1. ASSUME NEW c \in Creators, CheckNoPayment(c) PROVE IInv'
  BY <1>1 DEF CheckNoPayment, gatewayVars, callbackVars, refundVars,
              TypeOK, GatewayInv, CopiesInv, RowsInv, Backed
<1>2. ASSUME NEW c \in Creators, InsertPayment(c) PROVE IInv'
  <2>1. row' = row \/ row' = [row EXCEPT ![c] = NewRow]
    BY <1>2 DEF InsertPayment
  <2>2. TypeOK'
    BY <1>2, <2>1, NewRowType DEF InsertPayment, gatewayVars, callbackVars, refundVars, TypeOK
  <2>3. GatewayInv'
    BY <1>2, NewRowType DEF InsertPayment, gatewayVars, TypeOK, GatewayInv
  <2>4. CopiesInv'
    BY <1>2 DEF InsertPayment, gatewayVars, callbackVars, refundVars, CopiesInv, Backed
  <2>5. RowsInv'
    BY <1>2, <2>1, NewRowType DEF InsertPayment, gatewayVars, TypeOK, RowsInv, Backed
  <2> QED BY <2>2, <2>3, <2>4, <2>5
<1>3. ASSUME NEW c \in Creators, BuildUrl(c) PROVE IInv'
  <2>1. TypeOK'
    BY <1>3 DEF BuildUrl, callbackVars, refundVars, TypeOK
  <2>2. GatewayInv'
    BY <1>3 DEF BuildUrl, callbackVars, refundVars, TypeOK, GatewayInv, Notes
  <2>3. CopiesInv' /\ RowsInv'
    BY <1>3 DEF BuildUrl, callbackVars, refundVars, TypeOK, GatewayInv, CopiesInv,
                RowsInv, Backed, Notes
  <2> QED BY <2>1, <2>2, <2>3
<1>4. ASSUME NEW c \in Creators, Capture(c) PROVE IInv'
  <2>1. TypeOK'
    BY <1>4 DEF Capture, Notify, callbackVars, refundVars, TypeOK, Notes, Outcomes
  <2>2. GatewayInv'
    BY <1>4 DEF Capture, Notify, callbackVars, refundVars, TypeOK, GatewayInv, Notes, Outcomes
  <2>3. CopiesInv' /\ RowsInv'
    BY <1>4 DEF Capture, Notify, callbackVars, refundVars, TypeOK, GatewayInv, CopiesInv,
                RowsInv, Backed, Notes
  <2> QED BY <2>1, <2>2, <2>3
<1>5. ASSUME NEW c \in Creators, Decline(c) PROVE IInv'
  <2>1. TypeOK'
    BY <1>5 DEF Decline, Notify, callbackVars, refundVars, TypeOK, Notes, Outcomes
  <2>2. GatewayInv'
    BY <1>5 DEF Decline, Notify, callbackVars, refundVars, TypeOK, GatewayInv, Notes, Outcomes
  <2>3. CopiesInv' /\ RowsInv'
    BY <1>5 DEF Decline, Notify, callbackVars, refundVars, CopiesInv, RowsInv, Backed
  <2> QED BY <2>1, <2>2, <2>3
<1>6. ASSUME NEW h \in Handlers, NEW n \in Notes, Deliver(h, n) PROVE IInv'
  <2>1. n[1] \in Creators /\ n \in sent /\ row[n[1]] \in Row
    BY <1>6 DEF Deliver, GatewayInv, Notes
  <2>2. TypeOK'
    BY <1>6, <2>1 DEF Deliver, gatewayVars, refundVars, TypeOK
  <2>3. GatewayInv' /\ RowsInv'
    BY <1>6 DEF Deliver, gatewayVars, refundVars, GatewayInv, RowsInv, Backed
  <2>4. CopiesInv'
    BY <1>6, <2>1 DEF Deliver, gatewayVars, refundVars, TypeOK, CopiesInv, RowsInv, Backed
  <2> QED BY <2>2, <2>3, <2>4
<1>7. ASSUME NEW h \in Handlers, SaveResult(h) PROVE IInv'
  <2> DEFINE n == hnote[h]
             p == Result(n[1], hseen[h], n[2])
  <2>1. n \in sent /\ n \in Notes /\ hseen[h] \in Row /\ Backed(n[1], hseen[h])
    BY <1>7 DEF SaveResult, CopiesInv, TypeOK
  <2>2. n[1] \in Creators /\ n[2] \in Outcomes /\ n = <<n[1], n[2]>>
    BY <2>1 DEF Notes
  <2>3. p \in Row
    BY <2>1, <2>2, ResultType
  <2>4. Backed(n[1], p)
    BY <2>1, <2>2, ResultBacked DEF GatewayInv
  <2> HIDE DEF p
  <2>5. row' = [row EXCEPT ![n[1]] = p]
    BY <1>7 DEF SaveResult, p
  <2>6. TypeOK'
    <3>1. overtaken' \subseteq Creators
      BY <1>7, <2>2 DEF SaveResult, TypeOK
    <3> QED
      BY <1>7, <2>2, <2>3, <2>5, <3>1 DEF SaveResult, gatewayVars, refundVars, TypeOK
  <2>7. GatewayInv'
    <3>1. session[n[1]] # "none"
      BY <2>1 DEF GatewayInv
    <3> QED
      BY <1>7, <2>2, <2>3, <2>5, <3>1 DEF SaveResult, gatewayVars, refundVars, TypeOK, GatewayInv
  <2>8. CopiesInv'
    BY <1>7 DEF SaveResult, gatewayVars, refundVars, TypeOK, CopiesInv, Backed
  <2>9. RowsInv'
    BY <1>7, <2>2, <2>4, <2>5 DEF SaveResult, gatewayVars, TypeOK, RowsInv, Backed
  <2> QED BY <2>6, <2>7, <2>8, <2>9
<1>8. ASSUME NEW h \in Handlers, Reply(h) \/ Refuse(h) PROVE IInv'
  <2>1. TypeOK'
    BY <1>8 DEF Reply, Refuse, HandlerEnds, refundVars, TypeOK
  <2>2. GatewayInv' /\ RowsInv'
    BY <1>8 DEF Reply, Refuse, HandlerEnds, refundVars, GatewayInv, RowsInv, Backed
  <2>3. CopiesInv'
    BY <1>8 DEF Reply, Refuse, HandlerEnds, refundVars, TypeOK, CopiesInv, Backed
  <2> QED BY <2>1, <2>2, <2>3
<1>9. ASSUME NEW a \in Refunders, RefundSave(a) PROVE IInv'
  <2> DEFINE c == rtarget[a]
             p == [rseen[a] EXCEPT !.status = "refunded", !.refunded_at = TRUE]
  <2>1. c \in Creators /\ rseen[a] \in Row /\ rseen[a].status = "paid" /\ Backed(c, rseen[a])
    BY <1>9 DEF RefundSave, CopiesInv
  <2>2. p \in Row
    BY <2>1 DEF Row, PaymentStatuses
  <2>3. Backed(c, p)
    BY <2>1 DEF Backed, Row
  <2> HIDE DEF p
  <2>4. row' = [row EXCEPT ![c] = p]
    BY <1>9 DEF RefundSave, p
  <2>5. TypeOK'
    BY <1>9, <2>1, <2>2, <2>4 DEF RefundSave, gatewayVars, callbackVars, TypeOK
  <2>6. GatewayInv'
    <3>1. session[c] # "none"
      BY <2>1 DEF Backed
    <3> QED
      BY <1>9, <2>1, <2>2, <2>4, <3>1
      DEF RefundSave, gatewayVars, callbackVars, TypeOK, GatewayInv
  <2>7. CopiesInv'
    BY <1>9 DEF RefundSave, gatewayVars, callbackVars, TypeOK, CopiesInv, Backed
  <2>8. RowsInv'
    BY <1>9, <2>1, <2>3, <2>4 DEF RefundSave, gatewayVars, TypeOK, RowsInv, Backed
  <2> QED BY <2>5, <2>6, <2>7, <2>8
<1>10. ASSUME NEW a \in Refunders, NEW c \in Creators, RefundRead(a, c) PROVE IInv'
  <2>1. row[c] \in Row
    BY <1>10 DEF RefundRead, Exists, TypeOK
  <2>2. TypeOK'
    BY <1>10, <2>1 DEF RefundRead, gatewayVars, callbackVars, TypeOK
  <2>3. GatewayInv' /\ RowsInv'
    BY <1>10 DEF RefundRead, gatewayVars, callbackVars, GatewayInv, RowsInv, Backed
  <2>4. CopiesInv'
    BY <1>10, <2>1 DEF RefundRead, gatewayVars, callbackVars, TypeOK, CopiesInv, RowsInv, Backed
  <2> QED BY <2>2, <2>3, <2>4
<1>11. CASE Crash
  BY <1>11, PaymentsAssumption
  DEF Crash, gatewayVars, TypeOK, GatewayInv, CopiesInv, RowsInv, Backed
<1>12. CASE UNCHANGED vars
  BY <1>12 DEF vars, TypeOK, GatewayInv, CopiesInv, RowsInv, Backed
<1> QED
  BY <1>1, <1>2, <1>3, <1>4, <1>5, <1>6, <1>7, <1>8, <1>9, <1>10, <1>11, <1>12 DEF Next

\* The payments table, the gateway and every handler keep their types.
THEOREM PaymentsTypeCorrect == Spec => []TypeOK
<1>1. IInv => TypeOK
  BY DEF IInv
<1> QED BY InitIInv, NextIInv, <1>1, PTL DEF Spec

\* Whatever duplicated, reordered and concurrent callbacks and refunds do, a
\* payment shown as paid was captured: for its exact amount where the gateway's
\* notification states one that passes the pipe, for some amount otherwise.
THEOREM PaidIsCaptured == Spec => []PaidRecordsCapture
<1>1. IInv => PaidRecordsCapture
  BY DEF IInv, RowsInv, Backed, PaidRecordsCapture
<1> QED BY InitIInv, NextIInv, <1>1, PTL DEF Spec

-----------------------------------------------------------------------------

\* "none" is not a status of the table.
LEMMA RowsAreRows == NoRow \notin Row
  BY DEF Row, NoRow, PaymentStatuses

\* A step adds at most one row, that of a creation whose order has none.
LEMMA RowsAdded ==
  ASSUME IInv, [Next]_vars, NEW c \in Creators, Exists(c)', ~ Exists(c)
  PROVE  /\ ~ IndexRefuses(OrderOf[c])
         /\ \A d \in Creators : d # c => row'[d] = row[d]
<1> USE DEF IInv, Exists
<1>1. CASE \E d \in Creators : InsertPayment(d)
  BY <1>1 DEF InsertPayment, TypeOK
<1>2. ASSUME NEW h \in Handlers, SaveResult(h) PROVE FALSE
  <2>1. hnote[h][1] \in Creators /\ row[hnote[h][1]] \in Row
    BY <1>2 DEF SaveResult, CopiesInv, GatewayInv, TypeOK, Notes
  <2> QED BY <1>2, <2>1, RowsAreRows DEF SaveResult, TypeOK
<1>3. ASSUME NEW a \in Refunders, RefundSave(a) PROVE FALSE
  <2>1. rtarget[a] \in Creators /\ row[rtarget[a]] \in Row
    BY <1>3 DEF RefundSave, CopiesInv, GatewayInv, Backed
  <2> QED BY <1>3, <2>1, RowsAreRows DEF RefundSave, TypeOK
<1>4. CASE UNCHANGED row
  BY <1>4
<1> QED
  BY <1>1, <1>2, <1>3, <1>4
  DEF Next, vars, CheckNoPayment, BuildUrl, Capture, Decline, Deliver, Reply, Refuse, HandlerEnds, RefundRead, Crash

\* However many requests to pay for one order overlap, it has one payment.
THEOREM OnePaymentForEver == Spec => []OnePaymentPerOrder
<1>1. Init => OnePaymentPerOrder
  BY DEF Init, OnePaymentPerOrder, Exists
<1>2. ASSUME IInv, OnePaymentPerOrder, [Next]_vars PROVE OnePaymentPerOrder'
  <2> SUFFICES ASSUME NEW c \in Creators, NEW d \in Creators, OrderOf[c] = OrderOf[d],
                      Exists(c)', Exists(d)', c # d
               PROVE  FALSE
    BY DEF OnePaymentPerOrder
  <2>1. CASE Exists(c) /\ Exists(d)
    BY <2>1, <1>2 DEF OnePaymentPerOrder
  <2>2. CASE ~ Exists(c)
    BY <2>2, <1>2, RowsAdded DEF IndexRefuses, HasPayment, Exists
  <2>3. CASE ~ Exists(d)
    BY <2>3, <1>2, RowsAdded DEF IndexRefuses, HasPayment, Exists
  <2> QED BY <2>1, <2>2, <2>3
<1> QED BY InitIInv, NextIInv, <1>1, <1>2, PTL DEF Spec

-----------------------------------------------------------------------------
(* The lifecycle, however callbacks overlap.                               *)

\* A callback that is about to save read its row unsettled; a payment about to
\* be refunded has been paid, and is so unless a callback has overtaken it.
LifeInv ==
  /\ \A h \in Handlers : hpc[h] = "save" => hseen[h].status \in {"pending", "failed"}
  /\ \A a \in Refunders : rpc[a] = "save" =>
       Settled(row[rtarget[a]]) \/ rtarget[a] \in overtaken

\* What a callback that is about to save will make of its row.
LEMMA SavedResult ==
  ASSUME IInv, LifeInv, NEW h \in Handlers, SaveResult(h)
  PROVE  \E c \in Creators, p \in Row :
           /\ row' = [row EXCEPT ![c] = p]
           /\ row[c] \in Row
           /\ p.status \in {"paid", "failed"}
           /\ overtaken' = IF row[c].status \in {"paid", "refunded"} \ {p.status}
                           THEN overtaken \cup {c} ELSE overtaken
<1> DEFINE c == hnote[h][1]
           p == Result(c, hseen[h], hnote[h][2])
<1>1. /\ hnote[h] \in Notes /\ hnote[h] \in sent /\ hseen[h] \in Row
      /\ hseen[h].status \in {"pending", "failed"}
  BY DEF SaveResult, IInv, CopiesInv, LifeInv, TypeOK
<1>2. c \in Creators /\ hnote[h][2] \in Outcomes
  BY <1>1 DEF Notes
<1>3. row[c] \in Row
  BY <1>1, <1>2 DEF IInv, GatewayInv
<1>4. p \in Row /\ p.status \in {"paid", "failed"}
  BY <1>1, <1>2, ResultType
<1>5. /\ row' = [row EXCEPT ![c] = p]
      /\ overtaken' = IF row[c].status \in {"paid", "refunded"} \ {p.status}
                      THEN overtaken \cup {c} ELSE overtaken
  BY <1>1 DEF SaveResult
<1> HIDE DEF c, p
<1> QED
  BY <1>2, <1>3, <1>4, <1>5

\* A refund is saved over a payment that is settled, or overtaken.
LEMMA SavedRefund ==
  ASSUME IInv, LifeInv, NEW a \in Refunders, RefundSave(a)
  PROVE  \E c \in Creators, p \in Row :
           /\ row' = [row EXCEPT ![c] = p]
           /\ Settled(row[c]) \/ c \in overtaken
           /\ p.status = "refunded"
           /\ overtaken' = overtaken
<1> DEFINE c == rtarget[a]
           p == [rseen[a] EXCEPT !.status = "refunded", !.refunded_at = TRUE]
<1>1. c \in Creators /\ rseen[a] \in Row /\ (Settled(row[c]) \/ c \in overtaken)
  BY DEF RefundSave, IInv, CopiesInv, LifeInv
<1>2. p \in Row /\ p.status = "refunded"
  BY <1>1 DEF Row, PaymentStatuses
<1>3. row' = [row EXCEPT ![c] = p] /\ overtaken' = overtaken
  BY DEF RefundSave, callbackVars
<1> HIDE DEF c, p
<1> QED
  BY <1>1, <1>2, <1>3

\* Callbacks keep what they read, and no step takes a payment that is to be
\* refunded out of paid and refunded without overtaking it.
LEMMA NextLifeInv ==
  ASSUME IInv, LifeInv, [Next]_vars
  PROVE  LifeInv'
<1> USE DEF LifeInv
<1>a. /\ row \in [Creators -> Row \cup {NoRow}]
      /\ hpc \in [Handlers -> {"idle", "save", "reply", "refuse"}]
      /\ rpc \in [Refunders -> {"new", "save", "done", "refused"}]
      /\ \A a \in Refunders : rpc[a] = "save" => rtarget[a] \in Creators
  BY DEF IInv, TypeOK, CopiesInv
<1>1. CASE UNCHANGED <<row, callbackVars, refundVars>>
  BY <1>1 DEF callbackVars, refundVars, Settled
<1>2. ASSUME NEW c \in Creators, InsertPayment(c) PROVE LifeInv'
  <2>1. row[c] = NoRow /\ (row' = row \/ row' = [row EXCEPT ![c] = NewRow])
    BY <1>2 DEF InsertPayment, IInv, GatewayInv
  <2>2. \A d \in Creators : row[d] # NoRow => row'[d] = row[d]
    BY <2>1, <1>a
  <2>3. \A d \in Creators : Settled(row[d]) => row[d] # NoRow
    BY DEF Settled, NoRow
  <2> QED
    BY <1>2, <1>a, <2>2, <2>3 DEF InsertPayment, callbackVars, refundVars, Settled
<1>3. ASSUME NEW h \in Handlers, NEW n \in Notes, Deliver(h, n) PROVE LifeInv'
  <2>1. UNCHANGED <<row, overtaken, refundVars>>
    BY <1>3 DEF Deliver
  <2>2. row[n[1]] \in Row
    BY <1>3 DEF Deliver, IInv, GatewayInv, Notes
  <2>3. hpc'[h] = "save" => hseen'[h].status \in {"pending", "failed"}
    BY <1>3, <2>2 DEF Deliver, IInv, TypeOK, Settled, Row, PaymentStatuses
  <2>4. \A k \in Handlers : k # h => hpc'[k] = hpc[k] /\ hseen'[k] = hseen[k]
    BY <1>3 DEF Deliver, IInv, TypeOK
  <2>5. \A k \in Handlers : hpc'[k] = "save" => hseen'[k].status \in {"pending", "failed"}
    <3> SUFFICES ASSUME NEW k \in Handlers, hpc'[k] = "save"
                 PROVE  hseen'[k].status \in {"pending", "failed"}
      OBVIOUS
    <3>1. CASE k = h
      BY <2>3, <3>1
    <3>2. CASE k # h
      BY <2>4, <3>2
    <3> QED
      BY <3>1, <3>2
  <2> QED
    BY <2>1, <2>5 DEF refundVars, Settled
<1>4. ASSUME NEW h \in Handlers, SaveResult(h) PROVE LifeInv'
  <2>1. PICK c \in Creators, p \in Row :
          /\ row' = [row EXCEPT ![c] = p]
          /\ overtaken' = IF row[c].status \in {"paid", "refunded"} \ {p.status}
                          THEN overtaken \cup {c} ELSE overtaken
    BY <1>4, SavedResult
  <2>2. Settled(row[c]) => Settled(row'[c]) \/ c \in overtaken'
    BY <2>1, <1>a DEF Settled
  <2>3. /\ \A d \in Creators : d # c => row'[d] = row[d]
        /\ overtaken \subseteq overtaken'
    BY <2>1, <1>a
  <2>4. \A a \in Refunders : rpc[a] = "save" =>
          Settled(row'[rtarget[a]]) \/ rtarget[a] \in overtaken'
    <3> SUFFICES ASSUME NEW a \in Refunders, rpc[a] = "save"
                 PROVE  Settled(row'[rtarget[a]]) \/ rtarget[a] \in overtaken'
      OBVIOUS
    <3>1. Settled(row[rtarget[a]]) \/ rtarget[a] \in overtaken
      OBVIOUS
    <3>2. CASE rtarget[a] = c
      <4>1. c \in overtaken => c \in overtaken'
        BY <2>3
      <4> QED
        BY <3>1, <3>2, <4>1, <2>2 DEF Settled
    <3>3. CASE rtarget[a] # c
      BY <3>1, <3>3, <1>a, <2>3 DEF Settled
    <3> QED
      BY <3>2, <3>3
  <2> QED
    BY <1>4, <1>a, <2>4 DEF SaveResult, refundVars, Settled
<1>5. ASSUME NEW h \in Handlers, Reply(h) \/ Refuse(h) PROVE LifeInv'
  BY <1>5, <1>a DEF Reply, Refuse, HandlerEnds, IInv, TypeOK, refundVars, Settled
<1>6. ASSUME NEW a \in Refunders, NEW c \in Creators, RefundRead(a, c) PROVE LifeInv'
  BY <1>6, <1>a DEF RefundRead, IInv, TypeOK, callbackVars, Settled
<1>7. ASSUME NEW a \in Refunders, RefundSave(a) PROVE LifeInv'
  <2>1. PICK c \in Creators, p \in Row :
          row' = [row EXCEPT ![c] = p] /\ p.status = "refunded" /\ overtaken' = overtaken
    BY <1>7, SavedRefund
  <2>2. Settled(row'[c]) /\ \A d \in Creators : d # c => row'[d] = row[d]
    BY <2>1, <1>a DEF Settled
  <2> QED
    BY <1>7, <1>a, <2>1, <2>2 DEF RefundSave, callbackVars, Settled
<1>8. CASE Crash
  BY <1>8, <1>a DEF Crash, Settled
<1> QED
  BY <1>1, <1>2, <1>3, <1>4, <1>5, <1>6, <1>7, <1>8
  DEF Next, vars, CheckNoPayment, BuildUrl, Capture, Decline, gatewayVars, callbackVars, refundVars

\* What the lifecycle is about.
Stages == [c \in Creators |-> IF c \in overtaken THEN "overtaken" ELSE row[c].status]

\* A save that moves one payment as Moves allows is a step of the lifecycle,
\* and so is one that overtakes it.
LEMMA StageMoves ==
  ASSUME IInv, NEW c \in Creators, NEW p, NEW t, row' = [row EXCEPT ![c] = p],
         t = IF c \in overtaken' THEN "overtaken" ELSE p.status,
         overtaken' = overtaken \/ overtaken' = overtaken \cup {c},
         t = Stages[c] \/ <<Stages[c], t>> \in Lifecycle!Moves
  PROVE  [Lifecycle!Next]_Stages
<1>1. row \in [Creators -> Row \cup {NoRow}]
  BY DEF IInv, TypeOK
<1>2. \A d \in Creators : d # c => (d \in overtaken' <=> d \in overtaken) /\ row'[d] = row[d]
  BY <1>1
<1>3. row'[c] = p
  BY <1>1
<1>4. Stages' = [Stages EXCEPT ![c] = t]
  <2>1. Stages' = [d \in Creators |-> IF d \in overtaken' THEN "overtaken" ELSE row'[d].status]
    BY DEF Stages
  <2>2. [Stages EXCEPT ![c] = t] =
          [d \in Creators |-> IF d = c THEN t ELSE Stages[d]]
    BY DEF Stages
  <2>3. \A d \in Creators : (IF d \in overtaken' THEN "overtaken" ELSE row'[d].status)
                              = (IF d = c THEN t ELSE Stages[d])
    BY <1>2, <1>3 DEF Stages
  <2> QED
    BY <2>1, <2>2, <2>3
<1>5. CASE t = Stages[c]
  BY <1>4, <1>5 DEF Stages
<1>6. CASE <<Stages[c], t>> \in Lifecycle!Moves
  <2>1. PICK m \in Lifecycle!Moves : m = <<Stages[c], t>>
    BY <1>6
  <2>2. Stages[c] = m[1] /\ Stages' = [Stages EXCEPT ![c] = m[2]]
    BY <1>4, <2>1
  <2>3. Lifecycle!Move(c)
    BY <2>2 DEF Lifecycle!Move, Stages
  <2> QED
    BY <2>3 DEF Lifecycle!Next
<1> QED
  BY <1>5, <1>6

\* However callbacks, refunds and deaths overlap, for any number of each, a
\* payment moves only as its lifecycle allows: it stays paid until it is
\* refunded, and refunded for ever, unless a callback that read it before it
\* was settled overwrites it after.
THEOREM PaymentsImplementLifecycle == Spec => ImplementsLifecycle
<1>1. Init => LifeInv /\ Lifecycle!Init
  BY DEF Init, LifeInv, Lifecycle!Init, NoRow
<1>2. ASSUME IInv, LifeInv, [Next]_vars PROVE [Lifecycle!Next]_Stages
  <2>1. ASSUME NEW c \in Creators, InsertPayment(c), row' # row PROVE [Lifecycle!Next]_Stages
    <3>1. row' = [row EXCEPT ![c] = NewRow] /\ row[c] = NoRow /\ overtaken' = overtaken
      BY <2>1, <1>2 DEF InsertPayment, IInv, GatewayInv, callbackVars
    <3> DEFINE t == IF c \in overtaken' THEN "overtaken" ELSE NewRow.status
    <3>2. t = Stages[c] \/ <<Stages[c], t>> \in Lifecycle!Moves
      BY <3>1 DEF Lifecycle!Moves, NewRow, NoRow, Stages
    <3> QED
      BY <1>2, <3>1, <3>2, StageMoves
  <2>2. ASSUME NEW h \in Handlers, SaveResult(h) PROVE [Lifecycle!Next]_Stages
    <3>1. PICK c \in Creators, p \in Row :
            /\ row' = [row EXCEPT ![c] = p] /\ row[c] \in Row
            /\ p.status \in {"paid", "failed"}
            /\ overtaken' = IF row[c].status \in {"paid", "refunded"} \ {p.status}
                            THEN overtaken \cup {c} ELSE overtaken
      BY <1>2, <2>2, SavedResult
    <3> DEFINE t == IF c \in overtaken' THEN "overtaken" ELSE p.status
    <3>2. t = Stages[c] \/ <<Stages[c], t>> \in Lifecycle!Moves
      <4>1. row[c].status \in {"pending", "failed", "paid", "refunded"}
        BY <3>1 DEF Row, PaymentStatuses
      <4> QED
        BY <3>1, <4>1 DEF Lifecycle!Moves, Stages
    <3>3. overtaken' = overtaken \/ overtaken' = overtaken \cup {c}
      BY <3>1
    <3> HIDE DEF t
    <3> QED
      BY <1>2, <3>1, <3>2, <3>3, StageMoves DEF t
  <2>3. ASSUME NEW a \in Refunders, RefundSave(a) PROVE [Lifecycle!Next]_Stages
    <3>1. PICK c \in Creators, p \in Row :
            /\ row' = [row EXCEPT ![c] = p] /\ (Settled(row[c]) \/ c \in overtaken)
            /\ p.status = "refunded" /\ overtaken' = overtaken
      BY <1>2, <2>3, SavedRefund
    <3> DEFINE t == IF c \in overtaken' THEN "overtaken" ELSE p.status
    <3>2. t = Stages[c] \/ <<Stages[c], t>> \in Lifecycle!Moves
      BY <3>1 DEF Lifecycle!Moves, Settled, Stages
    <3> QED
      BY <1>2, <3>1, <3>2, StageMoves
  <2>4. CASE row' = row /\ overtaken' = overtaken
    BY <2>4 DEF Stages
  <2> QED
    BY <1>2, <2>1, <2>2, <2>3, <2>4
    DEF Next, vars, CheckNoPayment, InsertPayment, BuildUrl, Capture, Decline, Deliver, Reply,
        Refuse, HandlerEnds, RefundRead, Crash, callbackVars
<1>3. IInv /\ LifeInv /\ [Next]_vars => LifeInv'
  BY NextLifeInv
<1> QED
  BY <1>1, <1>2, <1>3, InitIInv, NextIInv, PTL DEF Spec, ImplementsLifecycle, Lifecycle!Spec, Stages

-----------------------------------------------------------------------------
(* Plans.                                                                  *)

\* Whoever has read the usage holds the locks, and its subscription is live.
LockInv ==
  \A o \in Ops : op[o].pc \in {"sum", "commit"} => lock = o /\ op[o].s \in LiveSubs

\* No row stands between two others and is missing.
NoGap == \A s, t \in Subs : sub[s] # NoSub /\ t < s => sub[t] # NoSub

\* The newest subscription alone may be active, and a subscribe that has
\* found it, or saved it, leaves none behind.
ActiveInv ==
  disturbed \/
  /\ \A o, p \in Subscribing : o = p
  /\ \A o \in Ops : op[o] # Idle => op[o].kind # "renew"
  /\ \A s \in Subs : sub[s].status = "active" => Newest(s, Existing)
  /\ \A o \in Subscribing : At(o, "insert") => \A s \in Subs : sub[s].status # "active"
  /\ \A o \in Subscribing : At(o, "save") => \A s \in Subs : sub[s].status = "active" => s = op[o].s

\* Whoever saves, cancels or renews has a subscription at hand.
SaveInv ==
  \A o \in Ops : op[o] # Idle =>
    /\ At(o, "save") => op[o].s \in Existing /\ op[o].kind # "reserve"
    /\ op[o].kind \in {"cancel", "renew"} => op[o].s \in Existing
    /\ op[o].pc \in {"lock", "sum", "commit"} <=> op[o].kind = "reserve"
    /\ op[o].kind = "subscribe" => op[o].plan \in Plan
    /\ At(o, "insert") => op[o].kind = "subscribe"

\* Types, locks and what requests hold.
QuotaStateInv == PlansTypeOK /\ LockInv /\ SaveInv /\ NoGap

QuotaIInv == QuotaStateInv /\ ActiveInv /\ QuotaKept

-----------------------------------------------------------------------------
\* What is counted in a period depends on the rows of usage and on the
\* subscription alone.
LEMMA CountedUnchanged ==
  ASSUME NEW s \in Subs, usage' = usage, sub'[s] = sub[s]
  PROVE  Counted(s)' = Counted(s)
<1>1. Within(s)' = Within(s)
  BY DEF Within
<1> QED
  BY <1>1 DEF Counted

\* A quota that fits still fits while its subscription, the usage and the
\* request stay as they are.
LEMMA FitsUnchanged ==
  ASSUME NEW o \in Ops, op[o].s \in Subs, usage' = usage, op'[o].s = op[o].s, op'[o].n = op[o].n,
         sub'[op[o].s] = sub[op[o].s], Fits(o, Counted(op[o].s))
  PROVE  Fits(o, Counted(op[o].s))'
<1>1. Counted(op[o].s)' = Counted(op[o].s)
  <2> DEFINE s == op[o].s
  <2>1. PICK t \in Subs : t = op[o].s
    OBVIOUS
  <2>2. Counted(t)' = Counted(t)
    BY <2>1, CountedUnchanged
  <2>3. op'[o].s = t
    BY <2>1
  <2> QED
    BY <2>1, <2>2, <2>3 DEF Counted, Within
<1> QED
  BY <1>1 DEF Fits

-----------------------------------------------------------------------------
\* The initial state satisfies the invariant.
LEMMA InitQuota ==
  ASSUME PlansInit
  PROVE  QuotaIInv
<1>a. 0 \in Times /\ 0 \in 0..MaxOps
  BY PlansAssumption DEF Times
<1>b. usage \in [Periods -> Nat] /\ sub \in [Subs -> {NoSub}] /\ op \in [Ops -> {Idle}]
  BY DEF PlansInit
<1>c. disturbed \in BOOLEAN
  BY DEF PlansInit
<1>1. PlansTypeOK
  BY <1>a, <1>b, <1>c DEF PlansInit, PlansTypeOK
<1> QED
  BY <1>1 DEF PlansInit, QuotaIInv, QuotaStateInv, LockInv, SaveInv, NoGap, ActiveInv, QuotaKept, At, Idle, NoSub,
              Subscribing

\* Every step preserves the type invariant and what is known of the locks.
LEMMA NextTypeLock ==
  ASSUME QuotaIInv, [PlansNext]_planVars
  PROVE  QuotaStateInv'
<1> USE PlansAssumption DEF QuotaIInv, LockInv, SaveInv, NoGap, PlansTypeOK, At, Idle, Subscription, Request, NoSub,
            LiveSubs, Live, Existing
<1>1. ASSUME NEW o \in Ops, Asks(o) PROVE QuotaStateInv'
  <2>1. ASSUME NEW n \in 1..2, Begin(o, "reserve", "none", None, n) PROVE QuotaStateInv'
    BY <2>1 DEF Begin, First, Kinds, QuotaStateInv
  <2>2. ASSUME NEW plan \in Plan, Begin(o, "subscribe", plan, None, 0) PROVE QuotaStateInv'
    BY <2>2 DEF Begin, First, Kinds, QuotaStateInv
  <2>3. ASSUME NEW s \in Subs, NEW k \in {"cancel", "renew"}, Begin(o, k, "none", s, 0) PROVE QuotaStateInv'
    BY <2>3 DEF Begin, First, Kinds, QuotaStateInv
  <2> QED
    BY <1>1, <2>1, <2>2, <2>3 DEF Asks
<1>2. ASSUME NEW o \in Ops, LockSub(o) PROVE QuotaStateInv'
  BY <1>2 DEF LockSub, MayLock, End, Newest, QuotaStateInv
<1>3. ASSUME NEW o \in Ops, SumUsage(o) PROVE QuotaStateInv'
  BY <1>3 DEF SumUsage, Goto, End, Release, QuotaStateInv
<1>4. ASSUME NEW o \in Ops, Commit(o) PROVE QuotaStateInv'
  <2>1. op[o] \in Request /\ op[o].s \in Subs /\ sub[op[o].s] \in Subscription
    BY <1>4 DEF Commit, QuotaStateInv
  <2>2. Period(sub[op[o].s]) \in Periods /\ op[o].n \in Nat
    BY <2>1 DEF Period, Periods
  <2>3. usage' \in [Periods -> Nat]
    BY <1>4, <2>2 DEF Commit, QuotaStateInv
  <2> QED
    BY <1>4, <2>3 DEF Commit, End, Release, QuotaStateInv
<1>5. ASSUME NEW o \in Ops, FindCurrent(o) PROVE QuotaStateInv'
  <2>a. /\ op[o] \in Request /\ op[o].kind = "subscribe" /\ op[o].plan \in Plan
        /\ UNCHANGED <<now, sub, usage, lock, served, disturbed>>
    BY <1>5 DEF FindCurrent, QuotaStateInv
  <2>b. ASSUME NEW r \in Request, r.pc \in {"save", "insert"}, r.kind = "subscribe", r.plan \in Plan,
               r.pc = "save" => r.s \in Existing, op' = [op EXCEPT ![o] = r]
        PROVE  QuotaStateInv'
    BY <2>a, <2>b DEF QuotaStateInv
  <2>1. ASSUME NEW s \in Subs, Newest(s, Existing), op' = [op EXCEPT ![o].pc = "save", ![o].s = s]
        PROVE  QuotaStateInv'
    <3> DEFINE r == [op[o] EXCEPT !.pc = "save", !.s = s]
    <3>1. r \in Request /\ r.pc = "save" /\ r.kind = "subscribe" /\ r.plan \in Plan /\ r.s = s
      BY <2>a
    <3>2. s \in Existing
      BY <2>1 DEF Newest
    <3>3. op' = [op EXCEPT ![o] = r]
      BY <2>1, <2>a DEF QuotaStateInv
    <3> HIDE DEF r
    <3> QED
      BY <2>b, <3>1, <3>2, <3>3
  <2>2. CASE Goto(o, "insert")
    <3> DEFINE r == [op[o] EXCEPT !.pc = "insert"]
    <3>1. r \in Request /\ r.pc = "insert" /\ r.kind = "subscribe" /\ r.plan \in Plan
      BY <2>a
    <3>2. op' = [op EXCEPT ![o] = r]
      BY <2>2, <2>a DEF Goto, QuotaStateInv
    <3> HIDE DEF r
    <3> QED
      BY <2>b, <3>1, <3>2
  <2> QED
    BY <1>5, <2>1, <2>2 DEF FindCurrent
<1>6. ASSUME NEW o \in Ops, FindNamed(o) PROVE QuotaStateInv'
  BY <1>6 DEF FindNamed, Goto, QuotaStateInv
<1>7. ASSUME NEW o \in Ops, Save(o) PROVE QuotaStateInv'
  <2>1. op[o].s \in Existing /\ op[o].s \in Subs /\ sub[op[o].s] \in Subscription
    BY <1>7 DEF Save, QuotaStateInv
  <2>2. PICK r \in Subscription : sub' = [sub EXCEPT ![op[o].s] = r]
    <3> DEFINE s == op[o].s
               renewed == [sub[s] EXCEPT !.status = "active", !.start = now, !.length = Cycle[sub[s].plan]]
               cancelled == [sub[s] EXCEPT !.status = "cancelled"]
    <3>1. renewed \in Subscription /\ cancelled \in Subscription
      BY <2>1 DEF QuotaStateInv, Lengths
    <3>2. sub' = [sub EXCEPT ![s] = renewed] \/ sub' = [sub EXCEPT ![s] = cancelled]
      BY <1>7, <2>1 DEF Save, Saved, QuotaStateInv
    <3> QED
      BY <3>1, <3>2
  <2>3. \/ op' = [op EXCEPT ![o].pc = "insert"] /\ op[o].kind = "subscribe"
        \/ op' = [op EXCEPT ![o] = Idle]
    BY <1>7 DEF Save, Goto, End, QuotaStateInv
  <2>4. \A p \in Ops : op[p].pc \notin {"sum", "commit"}
    BY <1>7 DEF Save, QuotaStateInv
  <2>5. PlansTypeOK'
    <3>1. sub' \in [Subs -> Subscription \union {NoSub}]
      BY <2>1, <2>2 DEF QuotaStateInv
    <3>2. op' \in [Ops -> Request \union {Idle}]
      BY <1>7, <2>3 DEF Save, QuotaStateInv
    <3> QED
      BY <1>7, <3>1, <3>2 DEF Save, QuotaStateInv
  <2>6. LockInv'
    BY <1>7, <2>3, <2>4 DEF Save, QuotaStateInv
  <2>7. SaveInv'
    BY <1>7, <2>1, <2>2, <2>3 DEF Save, QuotaStateInv
  <2>8. NoGap'
    BY <1>7, <2>1, <2>2 DEF Save, QuotaStateInv
  <2> QED
    BY <2>5, <2>6, <2>7, <2>8 DEF QuotaStateInv
<1>8. ASSUME NEW o \in Ops, InsertSub(o) PROVE QuotaStateInv'
  <2>1. PICK s \in Subs, r \in Subscription :
          /\ sub[s] = NoSub /\ \A t \in Subs : t < s => sub[t] # NoSub
          /\ sub' = [sub EXCEPT ![s] = r]
    <3>1. op[o].plan \in Plan
      BY <1>8 DEF InsertSub, QuotaStateInv
    <3>2. ASSUME NEW s \in Subs
          PROVE  [status |-> IF OnTrial(op[o].plan) THEN "trialing" ELSE "active",
                  plan |-> op[o].plan, start |-> now,
                  length |-> IF OnTrial(op[o].plan) THEN TrialDays[op[o].plan]
                             ELSE Cycle[op[o].plan]] \in Subscription
      BY <3>1 DEF QuotaStateInv, Lengths
    <3> QED
      BY <1>8, <3>2 DEF InsertSub
  <2>2. op' = [op EXCEPT ![o] = Idle]
    BY <1>8 DEF InsertSub, End
  <2>3. PlansTypeOK'
    BY <1>8, <2>1, <2>2 DEF InsertSub, QuotaStateInv
  <2>4. LockInv'
    BY <1>8, <2>1, <2>2 DEF InsertSub, QuotaStateInv
  <2>5. SaveInv'
    BY <1>8, <2>1, <2>2 DEF InsertSub, QuotaStateInv
  <2>6. NoGap'
    BY <1>8, <2>1 DEF InsertSub, QuotaStateInv, Subs
  <2> QED
    BY <2>3, <2>4, <2>5, <2>6 DEF QuotaStateInv
<1>9. ASSUME NEW o \in Ops, Dies(o) PROVE QuotaStateInv'
  BY <1>9 DEF Dies, End, Release, QuotaStateInv
<1>10. CASE Tick
  BY <1>10 DEF Tick, Times, QuotaStateInv
<1>11. CASE UNCHANGED planVars
  BY <1>11 DEF planVars, QuotaStateInv
<1> HIDE DEF QuotaIInv, LockInv, SaveInv, NoGap, PlansTypeOK, At, Idle, Subscription, Request,
         NoSub, LiveSubs, Live, Existing
<1> QED
  <2>1. ASSUME NEW o \in Ops, Step(o) PROVE QuotaStateInv'
    BY <2>1, <1>2, <1>3, <1>4, <1>5, <1>6, <1>7, <1>8 DEF Step
  <2> QED
    BY <2>1, <1>1, <1>9, <1>10, <1>11 DEF PlansNext

\* Every step preserves the quota: what is counted changes with the commit
\* of the holder of the locks alone.
LEMMA NextQuota ==
  ASSUME QuotaIInv, [PlansNext]_planVars
  PROVE  QuotaKept'
<1> USE PlansAssumption DEF QuotaIInv, QuotaStateInv
<1> SUFFICES ASSUME NEW o \in Ops, At(o, "commit")'
             PROVE  op'[o].s \in LiveSubs' /\ Fits(o, Counted(op[o].s))'
  BY DEF QuotaKept
<1>a. \A p \in Ops : op[p] \in Request \union {Idle}
  BY DEF PlansTypeOK
<1>b. \A p \in Ops : Asks(p) \/ Step(p) \/ Dies(p) => p = o \/ op'[o] = op[o]
  BY DEF PlansTypeOK, Asks, Begin, Step, LockSub, SumUsage, Commit, FindCurrent, FindNamed, Save, InsertSub,
         Dies, Goto, End
<1>c. ~Asks(o)
  <2>1. ASSUME NEW k, NEW plan, NEW s, NEW n, Begin(o, k, plan, s, n) PROVE FALSE
    BY <2>1 DEF Begin, First, At, PlansTypeOK
  <2> QED
    BY <2>1 DEF Asks
<1>d. ~Dies(o)
  BY DEF Dies, At, End, PlansTypeOK, Idle
<1>g. \A q : op[o].pc # "idle" /\ op'[o] = [op[o] EXCEPT !.pc = q] => q = "commit"
  BY <1>a DEF At, Idle, Request
<1>h. op' # [op EXCEPT ![o] = Idle]
  BY DEF At, PlansTypeOK, Idle
<1>e. Step(o) => SumUsage(o) /\ Fits(o, Counted(op[o].s)) /\ op' = [op EXCEPT ![o].pc = "commit"]
  <2>1. SumUsage(o) => Fits(o, Counted(op[o].s)) /\ op' = [op EXCEPT ![o].pc = "commit"]
    BY DEF SumUsage, At, Goto, End, PlansTypeOK, Idle
  <2>2. ~LockSub(o)
    BY <1>a, <1>h DEF LockSub, At, End, PlansTypeOK, Idle, Request
  <2>3. ~FindCurrent(o)
    BY <1>a, <1>g, <1>h DEF FindCurrent, At, Goto, PlansTypeOK, Idle, Request
  <2>4. ~Commit(o) /\ ~InsertSub(o)
    BY <1>h DEF Commit, InsertSub, End
  <2>5. ~FindNamed(o) /\ ~Save(o)
    BY <1>g, <1>h DEF FindNamed, Save, At, Goto, End, PlansTypeOK
  <2> QED
    BY <2>1, <2>2, <2>3, <2>4, <2>5 DEF Step
<1>f. \/ op'[o] = op[o]
      \/ (SumUsage(o) /\ Fits(o, Counted(op[o].s)) /\ op' = [op EXCEPT ![o].pc = "commit"])
  <2>1. Tick \/ UNCHANGED planVars => op'[o] = op[o]
    BY DEF Tick, planVars
  <2> QED
    BY <2>1, <1>b, <1>c, <1>d, <1>e DEF PlansNext
<1>1. op[o].pc \in {"sum", "commit"} /\ lock = o /\ op[o].s \in LiveSubs /\ op[o].s \in Subs
  BY <1>f DEF SumUsage, At, LockInv, LiveSubs
<1>2. Fits(o, Counted(op[o].s))
  BY <1>f DEF QuotaKept, At
<1>3. op'[o].s = op[o].s /\ op'[o].n = op[o].n
  BY <1>f, <1>1 DEF PlansTypeOK, Idle, Request
<1>4. usage' = usage
  <2>1. ASSUME NEW p \in Ops, Commit(p) PROVE FALSE
    BY <2>1, <1>1, <1>f DEF Commit, LockInv, At, End, PlansTypeOK, SumUsage, Idle
  <2>2. ASSUME NEW p \in Ops, Step(p) PROVE usage' = usage
    BY <2>1, <2>2 DEF Step, LockSub, SumUsage, FindCurrent, FindNamed, Save, InsertSub
  <2> QED
    BY <2>2 DEF PlansNext, Asks, Begin, Dies, Tick, planVars
<1>5. sub'[op[o].s] = sub[op[o].s]
  <2>1. ASSUME NEW p \in Ops, Save(p) PROVE FALSE
    BY <2>1, <1>1 DEF Save
  <2>2. ASSUME NEW p \in Ops, InsertSub(p) PROVE sub'[op[o].s] = sub[op[o].s]
    BY <2>2, <1>1 DEF InsertSub, LiveSubs, Live, NoSub, PlansTypeOK
  <2>3. ASSUME NEW p \in Ops, Step(p) PROVE sub'[op[o].s] = sub[op[o].s]
    BY <2>1, <2>2, <2>3 DEF Step, LockSub, SumUsage, Commit, FindCurrent, FindNamed
  <2> QED
    BY <2>3 DEF PlansNext, Asks, Begin, Dies, Tick, planVars
<1>6. Fits(o, Counted(op[o].s))'
  BY <1>1, <1>2, <1>3, <1>4, <1>5, FitsUnchanged
<1>7. op'[o].s \in LiveSubs'
  BY <1>1, <1>3, <1>5 DEF LiveSubs
<1> QED
  BY <1>6, <1>7

\* Every step preserves what is known of the active subscription.
LEMMA NextActive ==
  ASSUME QuotaIInv, [PlansNext]_planVars
  PROVE  ActiveInv'
<1> SUFFICES ASSUME ~disturbed' PROVE ActiveInv'
  BY DEF ActiveInv
<1> USE PlansAssumption DEF QuotaIInv, QuotaStateInv
<1>a. ~disturbed
  BY DEF PlansNext, Step, Asks, Begin, LockSub, SumUsage, Commit, FindCurrent, FindNamed, Save, InsertSub,
         Dies, Tick, planVars
<1>b. /\ \A p, q \in Subscribing : p = q
      /\ \A p \in Ops : op[p] # Idle => op[p].kind # "renew"
      /\ \A s \in Subs : sub[s].status = "active" => Newest(s, Existing)
      /\ \A p \in Subscribing : At(p, "insert") => \A s \in Subs : sub[s].status # "active"
      /\ \A p \in Subscribing : At(p, "save") => \A s \in Subs : sub[s].status = "active" => s = op[p].s
  BY <1>a DEF ActiveInv
<1>c. /\ \A p \in Ops : op[p] \in Request \union {Idle}
      /\ \A s \in Subs : sub[s] \in Subscription \union {NoSub}
  BY DEF PlansTypeOK
<1>1. ASSUME NEW o \in Ops, NEW k, NEW plan, NEW s, NEW n, Begin(o, k, plan, s, n) PROVE ActiveInv'
  BY <1>1, <1>b, <1>c DEF ActiveInv, Begin, First, Subscribing, At, Idle, PlansTypeOK, Existing, Newest
<1>2. ASSUME NEW o \in Ops, LockSub(o) \/ SumUsage(o) \/ Commit(o) \/ FindNamed(o) \/ Dies(o) PROVE ActiveInv'
  <2>1. /\ sub' = sub /\ \A p \in Ops : p # o => op'[p] = op[p]
        /\ Existing' = Existing /\ \A s \in Subs : Newest(s, Existing)' <=> Newest(s, Existing)
    BY <1>2 DEF LockSub, SumUsage, Commit, FindNamed, Dies, Goto, End, PlansTypeOK, Existing, Newest
  <2>2. op'[o] = Idle \/ (op'[o].kind = op[o].kind /\ op[o] # Idle /\ op[o].kind # "subscribe")
    <3>1. CASE LockSub(o) \/ SumUsage(o) \/ Commit(o)
      BY <3>1, <1>c DEF LockSub, SumUsage, Commit, Goto, End, At, Idle, PlansTypeOK, Request, SaveInv
    <3>2. CASE FindNamed(o) \/ Dies(o)
      BY <3>2, <1>c DEF FindNamed, Dies, Goto, End, At, Idle, PlansTypeOK, Request
    <3> QED
      BY <1>2, <3>1, <3>2
  <2>3. Subscribing' \subseteq Subscribing \ {o}
    BY <2>1, <2>2 DEF Subscribing, Idle
  <2>4. \A p \in Ops : op'[p] # Idle => op'[p].kind # "renew"
    BY <1>b, <2>1, <2>2
  <2>5. \A p \in Subscribing' : p \in Subscribing /\ op'[p] = op[p]
    BY <2>1, <2>3 DEF Subscribing
  <2> QED
    BY <1>b, <2>1, <2>4, <2>5 DEF ActiveInv, At
<1>3. ASSUME NEW o \in Ops, FindCurrent(o) PROVE ActiveInv'
  <2>1. sub' = sub /\ op[o] \in Request /\ op[o].kind = "subscribe"
    BY <1>3, <1>c DEF FindCurrent, At, Idle
  <2>2. Existing' = Existing /\ (\A s \in Subs : Newest(s, Existing)' <=> Newest(s, Existing))
    BY <2>1 DEF Existing, Newest
  <2>3. PICK r \in Request : op' = [op EXCEPT ![o] = r] /\ r.kind = "subscribe"
                           /\ (\/ r.pc = "save" /\ r.s \in Subs /\ Newest(r.s, Existing)
                               \/ r.pc = "insert" /\ \A s \in Subs : ~(Newest(s, Existing) /\ Replaced(s)))
    <3>1. CASE op' = [op EXCEPT ![o].pc = "insert"] /\ \A s \in Subs : ~(Newest(s, Existing) /\ Replaced(s))
      <4> DEFINE r == [op[o] EXCEPT !.pc = "insert"]
      <4>1. r \in Request /\ r.kind = "subscribe" /\ r.pc = "insert" /\ op' = [op EXCEPT ![o] = r]
        BY <3>1, <2>1 DEF Request
      <4> QED
        BY <3>1, <4>1
    <3>2. ASSUME NEW s \in Subs, Newest(s, Existing), op' = [op EXCEPT ![o].pc = "save", ![o].s = s]
          PROVE  \E r \in Request : op' = [op EXCEPT ![o] = r] /\ r.kind = "subscribe"
                                    /\ r.pc = "save" /\ r.s \in Subs /\ Newest(r.s, Existing)
      <4> DEFINE r == [op[o] EXCEPT !.pc = "save", !.s = s]
      <4>1. r \in Request /\ r.kind = "subscribe" /\ r.pc = "save" /\ r.s = s /\ op' = [op EXCEPT ![o] = r]
        BY <3>2, <2>1 DEF Request
      <4> QED
        BY <3>2, <4>1
    <3> QED
      BY <1>3, <3>1, <3>2 DEF FindCurrent, Goto
  <2>4. /\ Subscribing' = Subscribing
        /\ \A p \in Ops : op'[p] # Idle => op'[p].kind # "renew"
    BY <2>1, <2>3, <1>b DEF Subscribing, PlansTypeOK, Request, Idle
  <2>5. r.pc = "insert" => \A s \in Subs : sub[s].status # "active"
    BY <2>3, <1>b DEF Replaced
  <2>6. r.pc = "save" => \A s \in Subs : sub[s].status = "active" => s = r.s
    BY <2>3, <1>b DEF Newest, Existing, Subs
  <2>7. \A p \in Subscribing : p = o
    BY <2>1, <1>b, <1>3 DEF Subscribing, FindCurrent, At
  <2>8. \A p \in Subscribing' : op'[p] = r
    BY <2>3, <2>4, <2>7 DEF Subscribing, PlansTypeOK
  <2>9. \A p, q \in Subscribing' : p = q
    BY <2>4, <2>7
  <2>10. \A s \in Subs : sub'[s].status = "active" => Newest(s, Existing)'
    BY <2>1, <2>2, <1>b
  <2>11. \A p \in Subscribing' :
           /\ At(p, "insert")' => \A s \in Subs : sub'[s].status # "active"
           /\ At(p, "save")' => \A s \in Subs : sub'[s].status = "active" => s = op'[p].s
    BY <2>1, <2>5, <2>6, <2>8 DEF At
  <2> QED
    BY <2>4, <2>9, <2>10, <2>11 DEF ActiveInv
<1>4. ASSUME NEW o \in Ops, Save(o) PROVE ActiveInv'
  <2>a. op[o] # Idle /\ op[o].kind # "renew"
    BY <1>4, <1>b DEF Save, At, Idle
  <2>1. sub' = [sub EXCEPT ![op[o].s].status = "cancelled"]
    BY <1>4, <2>a DEF Save, Saved
  <2>2. op[o] \in Request /\ op[o].pc = "save" /\ op[o].s \in Existing
    BY <1>4, <1>c DEF Save, At, Idle, SaveInv
  <2>3. Existing' = Existing
    BY <1>c, <2>1, <2>2 DEF Existing, PlansTypeOK, Subscription, NoSub
  <2>4. \A s \in Subs : sub'[s].status = "active" => sub[s].status = "active" /\ s # op[o].s
    BY <1>c, <2>1, <2>2 DEF PlansTypeOK, Existing, Subscription
  <2>5. \/ op' = [op EXCEPT ![o].pc = "insert"] /\ op[o].kind = "subscribe"
        \/ op' = [op EXCEPT ![o] = Idle]
    BY <1>4 DEF Save, Goto, End
  <2>7. \A q \in Ops : q # o => op'[q] = op[q]
    BY <2>5 DEF PlansTypeOK
  <2>13. \/ op'[o].pc = "insert" /\ op'[o].kind = "subscribe" /\ o \in Subscribing
         \/ op'[o] = Idle
    BY <2>2, <2>5 DEF PlansTypeOK, Request, Subscribing
  <2>6. Subscribing' \subseteq Subscribing /\ \A q \in Ops : op'[q] # Idle => op'[q].kind # "renew"
    BY <1>b, <2>7, <2>13 DEF Subscribing, Idle
  <2>8. \A q \in Subscribing' : q = o => op'[q].pc = "insert" /\ o \in Subscribing
    BY <2>13 DEF Subscribing, Idle
  <2>9. o \in Subscribing => \A s \in Subs : sub[s].status = "active" => s = op[o].s
    BY <1>b, <2>2 DEF At
  <2>10. \A s \in Subs : sub'[s].status = "active" => Newest(s, Existing)'
    BY <1>b, <2>3, <2>4 DEF Newest
  <2>14. Subscribing \subseteq Ops
    BY DEF Subscribing
  <2>11. \A q \in Subscribing' : At(q, "insert")' => \A s \in Subs : sub'[s].status # "active"
    BY <1>b, <2>4, <2>6, <2>7, <2>8, <2>9, <2>14 DEF At
  <2>12. \A q \in Subscribing' : At(q, "save")' => \A s \in Subs : sub'[s].status = "active" => s = op'[q].s
    BY <1>b, <2>4, <2>6, <2>7, <2>8, <2>14 DEF At
  <2> QED
    BY <1>b, <2>6, <2>10, <2>11, <2>12 DEF ActiveInv
<1>5. ASSUME NEW o \in Ops, InsertSub(o) PROVE ActiveInv'
  <2>1. o \in Subscribing
    BY <1>5, <1>c DEF InsertSub, At, SaveInv, Subscribing, Idle
  <2>2. Subscribing' = {}
    BY <1>5, <1>b, <2>1 DEF InsertSub, End, Subscribing, Idle, PlansTypeOK
  <2>3. \A p \in Ops : op'[p] # Idle => op'[p].kind # "renew"
    BY <1>5, <1>b DEF InsertSub, End, PlansTypeOK
  <2>4. \A s \in Subs : sub[s].status # "active"
    BY <1>5, <1>b, <2>1 DEF InsertSub
  <2>5. PICK s \in Subs : /\ sub[s] = NoSub /\ \A t \in Subs : t < s => sub[t] # NoSub
                         /\ \E r : sub' = [sub EXCEPT ![s] = r]
    BY <1>5 DEF InsertSub
  <2>6. \A t \in Subs : sub'[t].status = "active" => t = s
    BY <2>4, <2>5 DEF PlansTypeOK
  <2>7. \A t \in Subs : t \in Existing' => t <= s
    BY <2>5 DEF PlansTypeOK, Existing, NoGap, Subs
  <2>8. \A t \in Subs : sub'[t].status = "active" => t \in Existing'
    BY DEF Existing, NoSub
  <2>9. \A t \in Subs : sub'[t].status = "active" => Newest(t, Existing)'
    BY <2>6, <2>7, <2>8 DEF Newest, Existing
  <2> QED
    BY <2>2, <2>3, <2>9 DEF ActiveInv
<1>6. CASE Tick \/ UNCHANGED planVars
  BY <1>6, <1>b DEF ActiveInv, Tick, planVars, Subscribing, At, Existing, Newest
<1>7. ASSUME NEW o \in Ops, Asks(o) PROVE ActiveInv'
  BY <1>7, <1>1 DEF Asks
<1> QED
  BY <1>2, <1>3, <1>4, <1>5, <1>6, <1>7 DEF PlansNext, Step

\* The invariant is inductive.
LEMMA NextQuotaIInv ==
  ASSUME QuotaIInv, [PlansNext]_planVars
  PROVE  QuotaIInv'
  BY NextTypeLock, NextQuota, NextActive DEF QuotaIInv

\* The invariant holds in every state.
LEMMA SpecQuota == PlansSpec => []QuotaIInv
<1>1. PlansInit => QuotaIInv
  BY InitQuota
<1>2. QuotaIInv /\ [PlansNext]_planVars => QuotaIInv'
  BY NextQuotaIInv
<1> QED
  BY <1>1, <1>2, PTL DEF PlansSpec

\* Subscriptions, usage and requests keep their types.
THEOREM PlansTypeCorrect == PlansSpec => []PlansTypeOK
  BY SpecQuota, PTL DEF QuotaIInv, QuotaStateInv

(***************************************************************************)
(* A quota is never passed, whatever reservations and changes of the       *)
(* subscriptions overlap.                                                  *)
(***************************************************************************)
THEOREM QuotaTheorem == PlansSpec => []QuotaKept
<1>1. QuotaIInv => QuotaKept
  BY DEF QuotaIInv
<1> QED
  BY <1>1, SpecQuota, PTL

(***************************************************************************)
(* Without overlapping subscribes and without a renewal, a tenant has one  *)
(* active subscription at most.                                            *)
(***************************************************************************)
THEOREM OneActiveTheorem == PlansSpec => []OneActive
<1>1. QuotaIInv => OneActive
  <2> SUFFICES ASSUME QuotaIInv, ~disturbed
               PROVE  Cardinality({s \in Subs : sub[s].status = "active"}) <= 1
    BY DEF OneActive
  <2>1. \A s, t \in Subs : sub[s].status = "active" /\ sub[t].status = "active" => s = t
    BY DEF QuotaIInv, QuotaStateInv, ActiveInv, Newest, Subs, PlansTypeOK
  <2>2. CASE {s \in Subs : sub[s].status = "active"} = {}
    <3>1. Cardinality({s \in Subs : sub[s].status = "active"}) = 0
      BY <2>2, FS_EmptySet
    <3> QED
      BY <3>1
  <2>3. ASSUME NEW s \in Subs, sub[s].status = "active"
        PROVE  Cardinality({t \in Subs : sub[t].status = "active"}) = 1
    <3>1. {t \in Subs : sub[t].status = "active"} = {s}
      BY <2>1, <2>3
    <3> QED
      BY <3>1, FS_Singleton
  <2> QED
    BY <2>2, <2>3
<1> QED
  BY <1>1, SpecQuota, PTL
=============================================================================
