---------------------------- MODULE OrdersProofs ----------------------------
(***************************************************************************)
(* Proofs about Orders, for any number of checkouts, cancellations, staff, *)
(* skus, codes, faults and stock.                                          *)
(***************************************************************************)
EXTENDS Orders, FiniteSetTheorems, TLAPS

\* Where a checkout stands in its lines, and that only checkouts that have a
\* code take the steps about it.
CheckoutPlaced ==
  \A r \in Requests :
    /\ back[r] <= got[r]
    /\ got[r] <= Len(LinesOf[r])
    /\ pc[r] = "new" => got[r] = 0
    /\ pc[r] = "reserve" => got[r] < Len(LinesOf[r])
    /\ pc[r] \in {"promo", "slot", "usage", "giveback", "unslot"} => HasCode(r)

\* Where a cancellation stands in the lines of its order.
CancelPlaced ==
  \A k \in Cancels :
    /\ cpc[k] = "swap" => cline[k] = 1
    /\ cpc[k] = "new" => cline[k] = 1
    /\ cpc[k] = "release" => cline[k] \in 1..Len(LinesOf[ctarget[k]])
    /\ cpc[k] \in {"revoke", "remove", "giveback"} => HasCode(ctarget[k])

TypeInv == TypeOK /\ CheckoutPlaced /\ CancelPlaced

\* A line of a checkout has a sku and a positive quantity.
LEMMA LineType ==
  ASSUME NEW r \in Requests, NEW i \in 1..Len(LinesOf[r])
  PROVE  LinesOf[r][i].sku \in Skus /\ LinesOf[r][i].qty \in Nat \ {0}
<1>1. LinesOf[r] \in Seq(Line)
  BY OrdersAssumption
<1>2. LinesOf[r][i] \in Line
  BY <1>1
<1> QED
  BY <1>2 DEF Line

\* A checkout has a line.
LEMMA LinesNonempty ==
  ASSUME NEW r \in Requests
  PROVE  Len(LinesOf[r]) \in Nat \ {0}
<1>1. LinesOf[r] \in Seq(Line) /\ LinesOf[r] # <<>>
  BY OrdersAssumption
<1> QED
  BY <1>1

\* The initial state satisfies the type invariant.
LEMMA InitTypeInv == Init => TypeInv
<1> SUFFICES ASSUME Init PROVE TypeInv
  OBVIOUS
<1> USE DEF Init
<1>1. InventoryTypeOK
  BY OrdersAssumption DEF InventoryTypeOK
<1>2. PromotionTypeOK /\ OrderTypeOK
  BY DEF PromotionTypeOK, OrderTypeOK
<1>3. CheckoutTypeOK /\ CheckoutPlaced
  BY LinesNonempty DEF CheckoutTypeOK, CheckoutPlaced, CheckoutSteps
<1>4. CancelTypeOK /\ CancelPlaced
  BY LinesNonempty DEF CancelTypeOK, CancelPlaced, CancelSteps
<1>5. StaffTypeOK /\ faults \in Nat
  BY DEF StaffTypeOK, StaffSteps
<1> QED
  BY <1>1, <1>2, <1>3, <1>4, <1>5 DEF TypeInv, TypeOK

\* A group of variables that a step leaves alone keeps its type.
LEMMA Frame ==
  ASSUME TypeInv
  PROVE  /\ UNCHANGED inventoryVars => InventoryTypeOK'
         /\ UNCHANGED promotionVars => PromotionTypeOK'
         /\ UNCHANGED orderVars => OrderTypeOK'
         /\ UNCHANGED checkoutVars => CheckoutTypeOK' /\ CheckoutPlaced'
         /\ UNCHANGED cancelVars => CancelTypeOK' /\ CancelPlaced'
         /\ UNCHANGED staffVars => StaffTypeOK'
         /\ UNCHANGED faults => faults' \in Nat
<1> USE DEF TypeInv, TypeOK
<1>1. UNCHANGED inventoryVars => InventoryTypeOK'
  BY DEF InventoryTypeOK, inventoryVars
<1>2. UNCHANGED promotionVars => PromotionTypeOK'
  BY DEF PromotionTypeOK, promotionVars
<1>3. UNCHANGED orderVars => OrderTypeOK'
  BY DEF OrderTypeOK, orderVars
<1>4. UNCHANGED checkoutVars => CheckoutTypeOK' /\ CheckoutPlaced'
  BY DEF CheckoutTypeOK, CheckoutPlaced, checkoutVars, HasCode
<1>5. UNCHANGED cancelVars => CancelTypeOK' /\ CancelPlaced'
  BY DEF CancelTypeOK, CancelPlaced, cancelVars, HasCode
<1>6. UNCHANGED staffVars => StaffTypeOK'
  BY DEF StaffTypeOK, staffVars
<1> QED
  BY <1>1, <1>2, <1>3, <1>4, <1>5, <1>6

\* The tables keep their types under the statements that write them.
LEMMA InventoryStep ==
  ASSUME InventoryTypeOK, NEW s \in Skus, NEW q \in Nat,
         ReserveStock(s, q) \/ ReleaseStock(s, q)
  PROVE  InventoryTypeOK'
BY DEF InventoryTypeOK, ReserveStock, ReleaseStock, FloorSub

\* Taking and giving back a slot keeps the types of Promotions.
LEMMA PromotionStep ==
  ASSUME PromotionTypeOK, NEW c \in Codes,
         TakeSlot(c) \/ ReleaseSlot(c)
  PROVE  PromotionTypeOK'
BY DEF PromotionTypeOK, TakeSlot, ReleaseSlot

\* Every statement of a checkout.
LEMMA CheckoutTypeInv ==
  ASSUME TypeInv, NEW r \in Requests, Begin(r) \/ CheckoutStep(r)
  PROVE  TypeInv'
<1> DEFINE CheckoutOK == CheckoutTypeOK /\ CheckoutPlaced
<1> USE DEF HasCode
<1>0. Len(LinesOf[r]) \in Nat \ {0}
  BY LinesNonempty
<1>a. TypeOK /\ CheckoutTypeOK /\ CheckoutPlaced /\ faults \in Nat
  BY DEF TypeInv, TypeOK
<1>b. got[r] \in Nat /\ back[r] \in Nat /\ back[r] <= got[r] /\ got[r] <= Len(LinesOf[r])
  BY <1>a DEF CheckoutTypeOK, CheckoutPlaced
<1>1. CASE Begin(r)
  <2>1. CheckoutOK'
    BY <1>1, <1>0, <1>a, <1>b DEF CheckoutTypeOK, CheckoutPlaced, CheckoutSteps, Begin, Goto
  <2>. QED
    BY <1>1, <1>a, <2>1, Frame DEF TypeInv, TypeOK, Begin, Fault
<1>2. CASE ReserveLine(r)
  <2>1. got[r] + 1 \in 1..Len(LinesOf[r])
    BY <1>2, <1>0, <1>a, <1>b DEF CheckoutPlaced, ReserveLine
  <2>2. InventoryTypeOK'
    BY <1>2, <1>a, <2>1, LineType, InventoryStep DEF TypeOK, ReserveLine
  <2>3. CheckoutOK'
    BY <1>2, <1>0, <1>a, <1>b DEF CheckoutTypeOK, CheckoutPlaced, CheckoutSteps, ReserveLine, Goto, AfterReserve
  <2>. QED
    BY <1>2, <1>a, <2>2, <2>3, Frame DEF TypeInv, TypeOK, ReserveLine, Fault
<1>3. CASE ReserveRefused(r)
  <2>1. CheckoutOK'
    BY <1>3, <1>0, <1>a, <1>b DEF CheckoutTypeOK, CheckoutPlaced, CheckoutSteps, ReserveRefused, Goto
  <2>. QED
    BY <1>3, <1>a, <2>1, Frame DEF TypeInv, TypeOK, ReserveRefused, Fault
<1>4. CASE ReserveUnrecorded(r)
  <2>1. got[r] + 1 \in 1..Len(LinesOf[r])
    BY <1>4, <1>0, <1>a, <1>b DEF CheckoutPlaced, ReserveUnrecorded
  <2>2. InventoryTypeOK'
    BY <1>4, <1>a, <2>1, LineType, InventoryStep DEF TypeOK, ReserveUnrecorded
  <2>3. CheckoutOK'
    BY <1>4, <1>0, <1>a, <1>b DEF CheckoutTypeOK, CheckoutPlaced, CheckoutSteps, ReserveUnrecorded, Goto
  <2>. QED
    BY <1>4, <1>a, <2>2, <2>3, Frame DEF TypeInv, TypeOK, ReserveUnrecorded, Fault
<1>5. CASE CheckPromotion(r)
  <2>1. CheckoutOK'
    BY <1>5, <1>0, <1>a, <1>b DEF CheckoutTypeOK, CheckoutPlaced, CheckoutSteps, CheckPromotion, Goto
  <2>. QED
    BY <1>5, <1>a, <2>1, Frame DEF TypeInv, TypeOK, CheckPromotion, Fault
<1>6. CASE RejectPromotion(r)
  <2>1. CheckoutOK'
    BY <1>6, <1>0, <1>a, <1>b DEF CheckoutTypeOK, CheckoutPlaced, CheckoutSteps, RejectPromotion, Goto
  <2>. QED
    BY <1>6, <1>a, <2>1, Frame DEF TypeInv, TypeOK, RejectPromotion, Fault
<1>7. CASE TakePromotionSlot(r)
  <2>1. CodeOf[r] \in Codes
    BY <1>7, <1>a, OrdersAssumption DEF CheckoutPlaced, TakePromotionSlot
  <2>2. PromotionTypeOK'
    BY <1>7, <1>a, <2>1, PromotionStep DEF TypeOK, TakePromotionSlot
  <2>3. CheckoutOK'
    BY <1>7, <1>0, <1>a, <1>b DEF CheckoutTypeOK, CheckoutPlaced, CheckoutSteps, TakePromotionSlot, Goto
  <2>. QED
    BY <1>7, <1>a, <2>2, <2>3, Frame DEF TypeInv, TypeOK, TakePromotionSlot, Fault, TakeSlot
<1>8. CASE SlotGone(r)
  <2>1. CheckoutOK'
    BY <1>8, <1>0, <1>a, <1>b DEF CheckoutTypeOK, CheckoutPlaced, CheckoutSteps, SlotGone, Goto
  <2>. QED
    BY <1>8, <1>a, <2>1, Frame DEF TypeInv, TypeOK, SlotGone, Fault
<1>9. CASE DrawNumber(r)
  <2>1. Cardinality(Orders) + 1 \in Nat
    BY FS_Subset, FS_CardinalityType, OrdersAssumption DEF Orders
  <2>2. CheckoutOK'
    BY <1>9, <1>0, <1>a, <1>b, <2>1 DEF CheckoutTypeOK, CheckoutPlaced, CheckoutSteps, DrawNumber, Goto
  <2>. QED
    BY <1>9, <1>a, <2>2, Frame DEF TypeInv, TypeOK, DrawNumber, Fault
<1>10. CASE DrawNumberFails(r)
  <2>1. CheckoutOK'
    BY <1>10, <1>0, <1>a, <1>b DEF CheckoutTypeOK, CheckoutPlaced, CheckoutSteps, DrawNumberFails, Goto
  <2>. QED
    BY <1>10, <1>a, <2>1, Frame DEF TypeInv, TypeOK, DrawNumberFails, Fault
<1>11. CASE InsertOrder(r)
  <2>1. OrderTypeOK'
    BY <1>11, <1>a DEF TypeOK, OrderTypeOK, CheckoutTypeOK, Statuses, InsertOrder
  <2>2. CheckoutOK'
    BY <1>11, <1>0, <1>a, <1>b DEF CheckoutTypeOK, CheckoutPlaced, CheckoutSteps, InsertOrder, Goto
  <2>. QED
    BY <1>11, <1>a, <2>1, <2>2, Frame DEF TypeInv, TypeOK, InsertOrder, Fault
<1>12. CASE InsertRefused(r)
  <2>1. CheckoutOK'
    BY <1>12, <1>0, <1>a, <1>b DEF CheckoutTypeOK, CheckoutPlaced, CheckoutSteps, InsertRefused, Goto
  <2>. QED
    BY <1>12, <1>a, <2>1, Frame DEF TypeInv, TypeOK, InsertRefused, Fault
<1>13. CASE RecordUsage(r)
  <2>1. CodeOf[r] \in Codes
    BY <1>13, <1>a, OrdersAssumption DEF CheckoutPlaced, RecordUsage
  <2>2. PromotionTypeOK'
    BY <1>13, <1>a, <2>1, OrdersAssumption DEF TypeOK, PromotionTypeOK, InsertUsage, UsageRow, RecordUsage
  <2>3. CheckoutOK'
    BY <1>13, <1>0, <1>a, <1>b DEF CheckoutTypeOK, CheckoutPlaced, CheckoutSteps, RecordUsage, Goto
  <2>. QED
    BY <1>13, <1>a, <2>2, <2>3, Frame DEF TypeInv, TypeOK, RecordUsage, Fault
<1>14. CASE RecordUsageFails(r)
  <2>1. CheckoutOK'
    BY <1>14, <1>0, <1>a, <1>b DEF CheckoutTypeOK, CheckoutPlaced, CheckoutSteps, RecordUsageFails, Goto
  <2>. QED
    BY <1>14, <1>a, <2>1, Frame DEF TypeInv, TypeOK, RecordUsageFails, Fault
<1>15. CASE GiveSlotBack(r)
  <2>1. CodeOf[r] \in Codes
    BY <1>15, <1>a, OrdersAssumption DEF CheckoutPlaced, GiveSlotBack
  <2>2. PromotionTypeOK'
    BY <1>15, <1>a, <2>1, PromotionStep, Frame DEF TypeOK, TryReleaseSlot, GiveSlotBack
  <2>3. CheckoutOK'
    BY <1>15, <1>0, <1>a, <1>b DEF CheckoutTypeOK, CheckoutPlaced, CheckoutSteps, GiveSlotBack, Goto
  <2>. QED
    BY <1>15, <1>a, <2>2, <2>3, Frame DEF TypeInv, TypeOK, GiveSlotBack, Fault, TryReleaseSlot
<1>16. CASE UndoLine(r)
  <2>1. back[r] + 1 \in 1..Len(LinesOf[r])
    BY <1>16, <1>0, <1>b DEF UndoLine
  <2>2. InventoryTypeOK'
    BY <1>16, <1>a, <2>1, LineType, InventoryStep, Frame DEF TypeOK, UndoLine
  <2>3. CheckoutOK'
    BY <1>16, <1>0, <1>a, <1>b DEF CheckoutTypeOK, CheckoutPlaced, CheckoutSteps, UndoLine, Goto
  <2>. QED
    BY <1>16, <1>a, <2>2, <2>3, Frame DEF TypeInv, TypeOK, UndoLine, Fault
<1>17. CASE EndUndo(r)
  <2>1. CheckoutOK'
    BY <1>17, <1>0, <1>a, <1>b DEF CheckoutTypeOK, CheckoutPlaced, CheckoutSteps, EndUndo, Goto, HoldsSlot
  <2>. QED
    BY <1>17, <1>a, <2>1, Frame DEF TypeInv, TypeOK, EndUndo, Fault
<1>18. CASE UndoSlot(r)
  <2>1. CodeOf[r] \in Codes
    BY <1>18, <1>a, OrdersAssumption DEF CheckoutPlaced, UndoSlot
  <2>2. PromotionTypeOK'
    BY <1>18, <1>a, <2>1, PromotionStep, Frame DEF TypeOK, TryReleaseSlot, UndoSlot
  <2>3. CheckoutOK'
    BY <1>18, <1>0, <1>a, <1>b DEF CheckoutTypeOK, CheckoutPlaced, CheckoutSteps, UndoSlot, Goto
  <2>. QED
    BY <1>18, <1>a, <2>2, <2>3, Frame DEF TypeInv, TypeOK, UndoSlot, Fault, TryReleaseSlot
<1>. QED
  BY <1>1, <1>2, <1>3, <1>4, <1>5, <1>6, <1>7, <1>8, <1>9, <1>10, <1>11, <1>12, <1>13, <1>14, <1>15, <1>16, <1>17, <1>18 DEF CheckoutStep

\* Every statement of a cancellation.
LEMMA CancelTypeInv ==
  ASSUME TypeInv, NEW k \in Cancels,
         CancelStep(k) \/ \E r \in Requests : CancelRead(k, r)
  PROVE  TypeInv'
<1> DEFINE CancelOK == CancelTypeOK /\ CancelPlaced
<1> USE DEF HasCode
<1>a. TypeOK /\ CancelTypeOK /\ CancelPlaced /\ faults \in Nat
  BY DEF TypeInv, TypeOK
<1>1. ASSUME NEW r \in Requests, CancelRead(k, r)
      PROVE  TypeInv'
  <2>1. CancelOK'
    BY <1>1, <1>a DEF TypeOK, OrderTypeOK, CancelTypeOK, CancelPlaced, CancelSteps, CancelRead, CGoto
  <2>. QED
    BY <1>1, <1>a, <2>1, Frame DEF TypeInv, TypeOK, CancelRead
<1>2. CASE CancelSwap(k)
  <2>1. ctarget[k] \in Requests
    BY <1>2, <1>a DEF CancelTypeOK, CancelSwap
  <2>2. CancelOK'
    BY <1>2, <1>a, <2>1, LinesNonempty DEF CancelTypeOK, CancelPlaced, CancelSteps, CancelSwap, CGoto
  <2>3. OrderTypeOK'
    BY <1>2, <1>a, <2>1 DEF TypeOK, OrderTypeOK, Statuses, CancelSwap
  <2>. QED
    BY <1>2, <1>a, <2>2, <2>3, Frame DEF TypeInv, TypeOK, CancelSwap
<1>3. CASE CancelConflict(k)
  <2>1. CancelOK'
    BY <1>3, <1>a DEF CancelTypeOK, CancelPlaced, CancelSteps, CancelConflict, CGoto
  <2>. QED
    BY <1>3, <1>a, <2>1, Frame DEF TypeInv, TypeOK, CancelConflict
<1>4. CASE CancelRelease(k)
  <2>1. ctarget[k] \in Requests /\ cline[k] \in 1..Len(LinesOf[ctarget[k]])
    BY <1>4, <1>a DEF CancelTypeOK, CancelPlaced, CancelRelease
  <2>2. CancelOK'
    BY <1>4, <1>a, <2>1, LinesNonempty
    DEF CancelTypeOK, CancelPlaced, CancelSteps, CancelRelease, CGoto, AfterRelease
  <2>3. InventoryTypeOK'
    BY <1>4, <1>a, <2>1, LineType, InventoryStep, Frame DEF TypeOK, CancelRelease
  <2>. QED
    BY <1>4, <1>a, <2>2, <2>3, Frame DEF TypeInv, TypeOK, CancelRelease, Fault
<1>5. CASE RevokeFind(k)
  <2>1. CancelOK'
    BY <1>5, <1>a DEF CancelTypeOK, CancelPlaced, CancelSteps, RevokeFind, CGoto
  <2>. QED
    BY <1>5, <1>a, <2>1, Frame DEF TypeInv, TypeOK, RevokeFind
<1>6. CASE RevokeRemove(k)
  <2>1. CancelOK'
    BY <1>6, <1>a DEF CancelTypeOK, CancelPlaced, CancelSteps, RevokeRemove, CGoto
  <2>2. PromotionTypeOK'
    BY <1>6, <1>a DEF TypeOK, PromotionTypeOK, RevokeRemove, RemoveUsage
  <2>. QED
    BY <1>6, <1>a, <2>1, <2>2, Frame DEF TypeInv, TypeOK, RevokeRemove
<1>7. CASE RevokeSlot(k)
  <2>1. CancelOK'
    BY <1>7, <1>a DEF CancelTypeOK, CancelPlaced, CancelSteps, RevokeSlot, CGoto
  <2>2. CodeOf[ctarget[k]] \in Codes
    BY <1>7, <1>a, OrdersAssumption DEF CancelTypeOK, CancelPlaced, RevokeSlot
  <2>3. PromotionTypeOK'
    BY <1>7, <1>a, <2>2, PromotionStep DEF TypeOK, RevokeSlot
  <2>. QED
    BY <1>7, <1>a, <2>1, <2>3, Frame DEF TypeInv, TypeOK, RevokeSlot
<1>8. CASE RevokeFails(k)
  <2>1. CancelOK'
    BY <1>8, <1>a DEF CancelTypeOK, CancelPlaced, CancelSteps, RevokeFails, CGoto
  <2>. QED
    BY <1>8, <1>a, <2>1, Frame DEF TypeInv, TypeOK, RevokeFails, Fault
<1>. QED
  BY <1>1, <1>2, <1>3, <1>4, <1>5, <1>6, <1>7, <1>8 DEF CancelStep

\* Staff, stock adjustments and crashes.
LEMMA OtherTypeInv ==
  ASSUME TypeInv,
         \/ \E a \in Admins : \/ \E r \in Requests : StaffRead(a, r)
                              \/ \E to \in Statuses : StaffWrite(a, to)
         \/ \E s \in Skus, delta \in Deltas : Adjust(s, delta)
         \/ Crash
  PROVE  TypeInv'
<1>a. TypeOK /\ CheckoutPlaced /\ CancelPlaced /\ faults \in Nat
  BY DEF TypeInv, TypeOK
<1>1. ASSUME NEW a \in Admins, NEW r \in Requests, StaffRead(a, r)
      PROVE  TypeInv'
  <2>1. StaffTypeOK'
    BY <1>1, <1>a DEF TypeOK, OrderTypeOK, StaffTypeOK, StaffSteps, StaffRead
  <2>. QED
    BY <1>1, <1>a, <2>1, Frame DEF TypeInv, TypeOK, StaffRead
<1>2. ASSUME NEW a \in Admins, NEW to \in Statuses, StaffWrite(a, to)
      PROVE  TypeInv'
  <2>1. StaffTypeOK'
    BY <1>2, <1>a DEF TypeOK, StaffTypeOK, StaffSteps, StaffWrite
  <2>2. OrderTypeOK'
    BY <1>2, <1>a DEF TypeOK, OrderTypeOK, StaffTypeOK, StaffWrite
  <2>. QED
    BY <1>2, <1>a, <2>1, <2>2, Frame DEF TypeInv, TypeOK, StaffWrite
<1>3. ASSUME NEW s \in Skus, NEW delta \in Deltas, Adjust(s, delta)
      PROVE  TypeInv'
  <2>1. InventoryTypeOK'
    BY <1>3, <1>a, OrdersAssumption DEF TypeOK, InventoryTypeOK, AdjustStock, Adjust
  <2>. QED
    BY <1>3, <1>a, <2>1, Frame DEF TypeInv, TypeOK, Adjust
<1>4. CASE Crash
  <2>1. CheckoutTypeOK' /\ CheckoutPlaced'
    BY <1>4, <1>a DEF TypeOK, CheckoutTypeOK, CheckoutPlaced, CheckoutSteps, Ended, HasCode, Crash
  <2>2. CancelTypeOK' /\ CancelPlaced'
    BY <1>4, <1>a DEF TypeOK, CancelTypeOK, CancelPlaced, CancelSteps, HasCode, Crash
  <2>3. StaffTypeOK'
    BY <1>4, <1>a DEF TypeOK, StaffTypeOK, StaffSteps, Crash
  <2>. QED
    BY <1>4, <1>a, <2>1, <2>2, <2>3, Frame DEF TypeInv, TypeOK, Crash, Fault
<1>. QED
  BY <1>1, <1>2, <1>3, <1>4

\* The type invariant is inductive.
LEMMA NextTypeInv == TypeInv /\ [Next]_vars => TypeInv'
<1>1. ASSUME TypeInv, Next PROVE TypeInv'
  BY <1>1, CheckoutTypeInv, CancelTypeInv, OtherTypeInv DEF Next
<1>2. ASSUME TypeInv, UNCHANGED vars PROVE TypeInv'
  BY <1>2, Frame DEF TypeInv, TypeOK, vars, inventoryVars, promotionVars, orderVars,
                     checkoutVars, cancelVars, staffVars
<1>. QED
  BY <1>1, <1>2

\* It holds throughout.
LEMMA AlwaysTypeInv == Spec => []TypeInv
BY InitTypeInv, NextTypeInv, PTL DEF Spec

\* Whatever staff, faults and interleavings do, the tables and the requests
\* keep their types: in particular the counters reserved and used_count never
\* become negative, which the GREATEST(0, ...) of the UPDATEs is there for.
THEOREM TypeCorrect == Spec => []TypeOK
<1>1. TypeInv => TypeOK
  BY DEF TypeInv
<1>. QED
  BY <1>1, AlwaysTypeInv, PTL

-----------------------------------------------------------------------------
(* Order numbers.                                                          *)

\* Which requests have an order in front of them: a checkout up to its insert
\* has none, a cancellation and a status change only work on existing orders.
HasRow ==
  /\ \A r \in Requests :
       pc[r] \in {"new", "reserve", "promo", "slot", "number", "insert"} => status[r] = NoOrder
  /\ \A k \in Cancels : cpc[k] = "swap" => cseen[k] # NoOrder
  /\ \A a \in Admins : apc[a] = "write" => status[atarget[a]] # NoOrder

DrawnBound ==
  \A r \in Requests :
    /\ drawn[r] <= Cardinality(Orders) + 1
    /\ pc[r] = "insert" => drawn[r] >= 1

\* There are finitely many orders.
LEMMA OrdersFinite ==
  /\ IsFiniteSet(Orders)
  /\ Cardinality(Orders) \in Nat
BY FS_Subset, FS_CardinalityType, OrdersAssumption DEF Orders

\* Only the insert creates an order, and nothing removes one.
LEMMA OrdersStep ==
  ASSUME TypeInv, HasRow, Next
  PROVE  /\ HasRow'
         /\ \/ Orders' = Orders /\ number' = number
            \/ \E r \in Requests : InsertOrder(r)
<1> DEFINE Same == Orders' = Orders /\ number' = number
<1>a. /\ OrderTypeOK /\ CheckoutTypeOK /\ CancelTypeOK /\ StaffTypeOK
      /\ NoOrder \notin Statuses
  BY DEF TypeInv, TypeOK, NoOrder, Statuses
<1>1. ASSUME NEW r \in Requests, Begin(r) \/ CheckoutStep(r), ~ InsertOrder(r)
      PROVE  HasRow' /\ Same
  <2>1. UNCHANGED <<status, number, cpc, cseen, apc, atarget>>
    BY <1>1 DEF CheckoutStep, Begin, ReserveLine, ReserveRefused, ReserveUnrecorded,
       CheckPromotion, RejectPromotion, TakePromotionSlot, SlotGone, DrawNumber, DrawNumberFails,
       InsertRefused, RecordUsage, RecordUsageFails, GiveSlotBack, UndoLine, EndUndo,
       UndoSlot, orderVars, cancelVars, staffVars
  <2>2. \E to \in CheckoutSteps :
          /\ Goto(r, to) \/ (pc' = pc /\ to = pc[r])
          /\ to \in {"new", "reserve", "promo", "slot", "number", "insert"} =>
               pc[r] \in {"new", "reserve", "promo", "slot", "number"}
    <3>1. CASE ReserveLine(r)
      BY <3>1 DEF ReserveLine, AfterReserve, CheckoutSteps
    <3>2. CASE UndoLine(r)
      BY <3>2, <1>a DEF UndoLine, CheckoutTypeOK
    <3>3. CASE EndUndo(r)
      BY <3>3 DEF EndUndo, CheckoutSteps
    <3>4. CASE Begin(r)
      BY <3>4 DEF Begin, CheckoutSteps
    <3>5. CASE CheckPromotion(r) \/ TakePromotionSlot(r) \/ DrawNumber(r)
      BY <3>5 DEF CheckPromotion, TakePromotionSlot, DrawNumber, CheckoutSteps
    <3>6. CASE ReserveRefused(r) \/ ReserveUnrecorded(r) \/ RejectPromotion(r) \/ SlotGone(r)
                 \/ InsertRefused(r)
      BY <3>6 DEF ReserveRefused, ReserveUnrecorded, RejectPromotion, SlotGone, InsertRefused,
                  CheckoutSteps
    <3>7. CASE DrawNumberFails(r) \/ RecordUsage(r) \/ RecordUsageFails(r) \/ GiveSlotBack(r)
                 \/ UndoSlot(r)
      BY <3>7 DEF DrawNumberFails, RecordUsage, RecordUsageFails, GiveSlotBack, UndoSlot,
                  CheckoutSteps
    <3>. QED
      BY <1>1, <3>1, <3>2, <3>3, <3>4, <3>5, <3>6, <3>7 DEF CheckoutStep
  <2>3. HasRow'
    BY <2>1, <2>2, <1>a DEF HasRow, Goto, CheckoutTypeOK
  <2>. QED
    BY <2>1, <2>3 DEF Orders
<1>2. ASSUME NEW r \in Requests, InsertOrder(r)
      PROVE  HasRow'
  BY <1>2, <1>a DEF InsertOrder, HasRow, Goto, OrderTypeOK, CheckoutTypeOK, StaffTypeOK, NoOrder,
                    cancelVars, staffVars
<1>3. ASSUME NEW k \in Cancels, NEW r \in Requests, CancelRead(k, r)
      PROVE  HasRow' /\ Same
  BY <1>3, <1>a DEF CancelRead, HasRow, CGoto, CancelTypeOK, Orders, orderVars, checkoutVars, staffVars
<1>4. ASSUME NEW k \in Cancels, CancelSwap(k)
      PROVE  HasRow' /\ Same
  <2>1. ctarget[k] \in Requests /\ status[ctarget[k]] # NoOrder
    BY <1>4, <1>a DEF CancelSwap, CancelTypeOK, HasRow
  <2>2. Same
    BY <1>4, <2>1, <1>a DEF CancelSwap, Orders, OrderTypeOK, NoOrder
  <2>3. HasRow'
    BY <1>4, <2>1, <1>a DEF CancelSwap, HasRow, CGoto, CancelTypeOK, StaffTypeOK, OrderTypeOK, NoOrder,
                            checkoutVars, staffVars
  <2>. QED
    BY <2>2, <2>3
<1>5. ASSUME NEW k \in Cancels, CancelStep(k), ~ CancelSwap(k)
      PROVE  HasRow' /\ Same
  <2>1. UNCHANGED <<status, number, pc, cseen, apc, atarget>>
    BY <1>5 DEF CancelStep, CancelConflict, CancelRelease, RevokeFind, RevokeRemove, RevokeSlot,
                RevokeFails, orderVars, checkoutVars, staffVars
  <2>2. \E to \in CancelSteps \ {"swap"} : CGoto(k, to)
    BY <1>5 DEF CancelStep, CancelConflict, CancelRelease, RevokeFind, RevokeRemove, RevokeSlot,
                RevokeFails, AfterRelease, CancelSteps
  <2>3. HasRow'
    BY <2>1, <2>2, <1>a DEF HasRow, CGoto, CancelTypeOK
  <2>. QED
    BY <2>1, <2>3 DEF Orders
<1>6. ASSUME NEW a \in Admins, NEW r \in Requests, StaffRead(a, r)
      PROVE  HasRow' /\ Same
  BY <1>6, <1>a DEF StaffRead, HasRow, StaffTypeOK, Orders, orderVars, checkoutVars, cancelVars
<1>7. ASSUME NEW a \in Admins, NEW to \in Statuses, StaffWrite(a, to)
      PROVE  HasRow' /\ Same
  <2>1. atarget[a] \in Requests /\ status[atarget[a]] # NoOrder
    BY <1>7, <1>a DEF StaffWrite, StaffTypeOK, HasRow
  <2>2. Same
    BY <1>7, <2>1, <1>a DEF StaffWrite, Orders, OrderTypeOK
  <2>3. HasRow'
    BY <1>7, <2>1, <1>a DEF StaffWrite, HasRow, StaffTypeOK, OrderTypeOK, checkoutVars, cancelVars
  <2>. QED
    BY <2>2, <2>3
<1>8. ASSUME NEW s \in Skus, NEW delta \in Deltas, Adjust(s, delta)
      PROVE  HasRow' /\ Same
  BY <1>8 DEF Adjust, HasRow, Orders, orderVars, checkoutVars, cancelVars, staffVars
<1>9. CASE Crash
  BY <1>9, <1>a DEF Crash, HasRow, Orders, orderVars, Ended, CheckoutTypeOK, CancelTypeOK
<1>. QED
  BY <1>1, <1>2, <1>3, <1>4, <1>5, <1>6, <1>7, <1>8, <1>9 DEF Next

NumberInv == NumbersGapless /\ DrawnBound

\* An insert whose number is free takes exactly the next number: the numbers
\* given out are 1..n, so the only free one that is not above n + 1 is n + 1.
LEMMA InsertKeepsGapless ==
  ASSUME TypeInv, HasRow, NumberInv, NEW r \in Requests, InsertOrder(r)
  PROVE  NumberInv'
<1> DEFINE n == Cardinality(Orders)
<1>a. OrderTypeOK /\ CheckoutTypeOK
  BY DEF TypeInv, TypeOK
<1>b. n \in Nat /\ IsFiniteSet(Orders)
  BY OrdersFinite
<1>1. r \notin Orders
  BY DEF HasRow, InsertOrder, Orders
<1>2. /\ Orders' = Orders \cup {r}
      /\ \A o \in Orders : number'[o] = number[o]
      /\ number'[r] = drawn[r]
      /\ drawn' = drawn
  BY <1>1, <1>a DEF InsertOrder, Orders, OrderTypeOK, NoOrder
<1>3. Cardinality(Orders') = n + 1
  BY <1>1, <1>2, <1>b, FS_AddElement
<1>4. drawn[r] \in Nat /\ 1 <= drawn[r] /\ drawn[r] <= n + 1
  BY <1>a DEF NumberInv, DrawnBound, InsertOrder, CheckoutTypeOK
<1>5. drawn[r] \notin {number[o] : o \in Orders}
  BY DEF InsertOrder, NumberTaken
<1>6. drawn[r] = n + 1
  <2>1. {number[o] : o \in Orders} = 1..n
    BY DEF NumberInv, NumbersGapless
  <2>. QED
    BY <2>1, <1>4, <1>5, <1>b
<1>7. {number'[o] : o \in Orders'} = {number[o] : o \in Orders} \cup {n + 1}
  BY <1>2, <1>6
<1>8. {number'[o] : o \in Orders'} = 1..Cardinality(Orders')
  BY <1>7, <1>3, <1>b DEF NumberInv, NumbersGapless
<1>9. \A o, p \in Orders' : number'[o] = number'[p] => o = p
  BY <1>2, <1>5 DEF NumberInv, NumbersGapless
<1>10. ASSUME NEW q \in Requests
      PROVE  /\ drawn'[q] <= Cardinality(Orders') + 1
             /\ pc'[q] = "insert" => drawn'[q] >= 1
  <2>1. drawn[q] \in Nat /\ drawn[q] <= n + 1 /\ (pc[q] = "insert" => drawn[q] >= 1)
    BY <1>a DEF NumberInv, DrawnBound, CheckoutTypeOK
  <2>2. pc'[q] = "insert" => pc[q] = "insert"
    BY <1>a DEF InsertOrder, Goto, CheckoutTypeOK
  <2>. QED
    BY <2>1, <2>2, <1>2, <1>3, <1>b
<1>11. NumbersGapless'
  BY <1>8, <1>9 DEF NumbersGapless
<1>12. DrawnBound'
  BY <1>10 DEF DrawnBound
<1>. QED
  BY <1>11, <1>12 DEF NumberInv

\* A step that neither inserts an order nor draws a number leaves the numbers
\* gapless.
LEMMA OthersKeepGapless ==
  ASSUME TypeInv, NumberInv, Next, Orders' = Orders, number' = number,
         ~ \E r \in Requests : InsertOrder(r)
  PROVE  NumberInv'
<1> DEFINE n == Cardinality(Orders)
<1>a. CheckoutTypeOK
  BY DEF TypeInv, TypeOK
<1>b. n \in Nat
  BY OrdersFinite
<1>1. NumbersGapless'
  BY DEF NumberInv, NumbersGapless
<1>2. \A q \in Requests : \/ drawn'[q] = drawn[q] /\ (pc'[q] = "insert" => pc[q] = "insert")
                         \/ drawn'[q] = n + 1
  <2>1. ASSUME NEW r \in Requests, DrawNumber(r)
        PROVE  \A q \in Requests : \/ drawn'[q] = drawn[q] /\ pc'[q] = pc[q]
                                  \/ drawn'[q] = n + 1
    BY <2>1, <1>a DEF DrawNumber, Goto, CheckoutTypeOK
  <2>2. ASSUME NEW r \in Requests, Begin(r) \/ CheckoutStep(r), ~ DrawNumber(r), ~ InsertOrder(r)
        PROVE  drawn' = drawn /\ \A q \in Requests : pc'[q] = "insert" => pc[q] = "insert"
    <3>1. drawn' = drawn
      BY <2>2 DEF CheckoutStep, Begin, ReserveLine, ReserveRefused, ReserveUnrecorded,
         CheckPromotion, RejectPromotion, TakePromotionSlot, SlotGone, DrawNumberFails,
         InsertRefused, RecordUsage, RecordUsageFails, GiveSlotBack, UndoLine, EndUndo, UndoSlot
    <3>2. \/ UNCHANGED pc
          \/ \E to \in CheckoutSteps \ {"insert"} : Goto(r, to)
      BY <2>2 DEF CheckoutStep, Begin, ReserveLine, ReserveRefused, ReserveUnrecorded,
         CheckPromotion, RejectPromotion, TakePromotionSlot, SlotGone, DrawNumberFails,
         InsertRefused, RecordUsage, RecordUsageFails, GiveSlotBack, UndoLine, EndUndo, UndoSlot,
         AfterReserve, CheckoutSteps
    <3>. QED
      BY <3>1, <3>2, <1>a DEF Goto, CheckoutTypeOK
  <2>3. ASSUME NEW k \in Cancels, CancelStep(k) \/ \E r \in Requests : CancelRead(k, r)
        PROVE  UNCHANGED <<drawn, pc>>
    BY <2>3 DEF CancelStep, CancelRead, CancelSwap, CancelConflict, CancelRelease, RevokeFind,
       RevokeRemove, RevokeSlot, RevokeFails, checkoutVars
  <2>4. ASSUME \/ \E a \in Admins : \/ \E r \in Requests : StaffRead(a, r)
                                    \/ \E to \in Statuses : StaffWrite(a, to)
               \/ \E s \in Skus, delta \in Deltas : Adjust(s, delta)
        PROVE  UNCHANGED <<drawn, pc>>
    BY <2>4 DEF StaffRead, StaffWrite, Adjust, checkoutVars
  <2>5. CASE Crash
    BY <2>5, <1>a DEF Crash, Ended, CheckoutTypeOK
  <2>. QED
    BY <2>1, <2>2, <2>3, <2>4, <2>5 DEF Next
<1>3. DrawnBound'
  BY <1>2, <1>a, <1>b DEF NumberInv, DrawnBound, CheckoutTypeOK
<1>. QED
  BY <1>1, <1>3 DEF NumberInv

\* Two concurrent checkouts may read the same count, but whatever the
\* interleaving the day's order numbers are 1, 2, ..., n.
THEOREM NumbersAreGapless == Spec => []NumbersGapless
<1> DEFINE Inv == HasRow /\ NumberInv
<1>1. Init => Inv
  <2> SUFFICES ASSUME Init PROVE Inv
    OBVIOUS
  <2>1. Orders = {} /\ Cardinality(Orders) = 0
    BY FS_EmptySet DEF Init, Orders
  <2>2. NumbersGapless
    BY <2>1 DEF NumbersGapless
  <2>3. DrawnBound
    BY <2>1 DEF Init, DrawnBound
  <2>. QED
    BY <2>2, <2>3 DEF Init, HasRow, NumberInv
<1>2. TypeInv /\ Inv /\ [Next]_vars => Inv'
  <2>1. ASSUME TypeInv, Inv, Next PROVE Inv'
    <3>1. HasRow'
      BY <2>1, OrdersStep
    <3>2. CASE \E r \in Requests : InsertOrder(r)
      BY <2>1, <3>1, <3>2, InsertKeepsGapless
    <3>3. CASE ~ \E r \in Requests : InsertOrder(r)
      BY <2>1, <3>1, <3>3, OrdersStep, OthersKeepGapless
    <3>. QED
      BY <3>2, <3>3
  <2>2. ASSUME Inv, UNCHANGED vars PROVE Inv'
    <3>1. Orders' = Orders
      BY <2>2 DEF Orders, vars
    <3>2. HasRow'
      BY <2>2 DEF HasRow, vars
    <3>3. NumbersGapless'
      BY <2>2, <3>1 DEF NumberInv, NumbersGapless, vars
    <3>4. DrawnBound'
      BY <2>2, <3>1 DEF NumberInv, DrawnBound, vars
    <3>. QED
      BY <3>2, <3>3, <3>4 DEF NumberInv
  <2>. QED
    BY <2>1, <2>2
<1>3. Inv => NumbersGapless
  BY DEF NumberInv
<1>. QED
  BY <1>1, <1>2, <1>3, AlwaysTypeInv, PTL DEF Spec
-----------------------------------------------------------------------------
(***************************************************************************)
(* No unit of stock is sold twice, for any number of requests, skus,       *)
(* faults and crashes, as long as no cancelled order is brought back to    *)
(* life: the lost update of updateStatus is the only way to undercount.    *)
(* Nor are promotion codes used beyond their usage_limit.  The last part   *)
(* is about what cancelOrder may do to an order that staff move on.        *)
(***************************************************************************)

\* Where a checkout stands and what it has reserved, drawn and inserted.
CheckoutCoherent ==
  \A r \in Requests :
    /\ pc[r] \in {"new", "reserve", "promo", "slot"} => back[r] = 0 /\ drawn[r] = 0
    /\ pc[r] \in {"promo", "slot", "number", "insert"} =>
         back[r] = 0 /\ got[r] = Len(LinesOf[r])
    /\ pc[r] \in {"undo", "unslot", "rejected"} => status[r] = NoOrder

\* A cancellation that has won the order and undoes what the order holds.
Undoing(k) == cpc[k] \in {"release", "revoke", "remove", "giveback"}

\* Only one cancellation undoes an order, and the order is cancelled.
CancelCoherent ==
  /\ \A k \in Cancels : cpc[k] = "swap" => cseen[k] # "cancelled"
  /\ \A k \in Cancels : Undoing(k) => status[ctarget[k]] = "cancelled"
  /\ \A j, k \in Cancels : Undoing(j) /\ Undoing(k) /\ ctarget[j] = ctarget[k] => j = k
  /\ \A k \in Cancels : cpc[k] = "remove" => UsageRow(ctarget[k]) \in usages

Coherent == TypeInv /\ HasRow /\ CheckoutCoherent /\ CancelCoherent

\* What CancelledStaysCancelled says of one step.
NoRevival == \A r \in Requests : status[r] = "cancelled" => status'[r] = "cancelled"

\* The initial state is coherent.
LEMMA InitCoherent == Init => Coherent
<1> SUFFICES ASSUME Init PROVE Coherent
  OBVIOUS
<1>1. TypeInv
  BY InitTypeInv
<1>2. HasRow /\ CheckoutCoherent /\ CancelCoherent
  BY DEF Init, HasRow, CheckoutCoherent, CancelCoherent, Undoing
<1>. QED
  BY <1>1, <1>2 DEF Coherent

\* A step keeps the parts of the invariant whose variables it leaves alone.
LEMMA CoherentFrame ==
  ASSUME Coherent
  PROVE  /\ UNCHANGED <<checkoutVars, status>> => CheckoutCoherent'
         /\ UNCHANGED <<cancelVars, status, usages>> => CancelCoherent'
<1>1. UNCHANGED <<checkoutVars, status>> => CheckoutCoherent'
  BY DEF Coherent, CheckoutCoherent, checkoutVars
<1>2. UNCHANGED <<cancelVars, status, usages>> => CancelCoherent'
  BY DEF Coherent, CancelCoherent, Undoing, UsageRow, cancelVars
<1>. QED
  BY <1>1, <1>2

\* A step of a checkout leaves checkouts and cancellations coherent.
LEMMA CheckoutCoherentStep ==
  ASSUME Coherent, NEW r \in Requests, Begin(r) \/ CheckoutStep(r)
  PROVE  CheckoutCoherent' /\ CancelCoherent'
<1>a. CheckoutTypeOK /\ OrderTypeOK /\ CancelTypeOK /\ CheckoutPlaced
  BY DEF Coherent, TypeInv, TypeOK
<1>b. got[r] \in Nat /\ back[r] \in Nat /\ Len(LinesOf[r]) \in Nat \ {0}
  BY <1>a, LinesNonempty DEF CheckoutTypeOK
<1> USE <1>a, <1>b DEF Coherent, CheckoutCoherent, CheckoutTypeOK, Goto
<1>1. CASE Begin(r)
  BY <1>1, CoherentFrame DEF Begin, orderVars, promotionVars
<1>2. CASE ReserveLine(r)
  <2>1. CheckoutCoherent'
    BY <1>2 DEF ReserveLine, AfterReserve, orderVars
  <2>. QED
    BY <1>2, <2>1, CoherentFrame DEF ReserveLine, orderVars, promotionVars
<1>3. CASE ReserveRefused(r) \/ ReserveUnrecorded(r)
  BY <1>3, CoherentFrame DEF ReserveRefused, ReserveUnrecorded, HasRow, orderVars, promotionVars
<1>4. CASE CheckPromotion(r) \/ RejectPromotion(r)
  BY <1>4, CoherentFrame DEF CheckPromotion, RejectPromotion, HasRow, orderVars, promotionVars
<1>5. CASE TakePromotionSlot(r) \/ SlotGone(r)
  BY <1>5, CoherentFrame DEF TakePromotionSlot, TakeSlot, SlotGone, HasRow, orderVars, promotionVars
<1>6. CASE DrawNumber(r) \/ DrawNumberFails(r)
  BY <1>6, CoherentFrame DEF DrawNumber, DrawNumberFails, HasRow, orderVars, promotionVars
<1>7. CASE InsertOrder(r)
  <2>1. CheckoutCoherent'
    BY <1>7 DEF InsertOrder, OrderTypeOK
  <2>2. status[r] = NoOrder /\ \A q \in Requests : q # r => status'[q] = status[q]
    BY <1>7 DEF InsertOrder, OrderTypeOK, HasRow
  <2>3. CancelCoherent'
    BY <1>7, <2>2 DEF InsertOrder, CancelCoherent, Undoing, UsageRow, CancelTypeOK, NoOrder,
                      cancelVars, promotionVars
  <2>. QED
    BY <2>1, <2>3
<1>8. CASE InsertRefused(r)
  BY <1>8, CoherentFrame DEF InsertRefused, HasRow, orderVars, promotionVars
<1>9. CASE RecordUsage(r)
  <2>1. CheckoutCoherent'
    BY <1>9 DEF RecordUsage, orderVars
  <2>2. CancelCoherent'
    BY <1>9 DEF RecordUsage, InsertUsage, CancelCoherent, Undoing, UsageRow, orderVars, cancelVars
  <2>. QED
    BY <2>1, <2>2
<1>10. CASE RecordUsageFails(r)
  BY <1>10, CoherentFrame DEF RecordUsageFails, orderVars, promotionVars
<1>11. CASE GiveSlotBack(r) \/ UndoSlot(r)
  <2>1. CheckoutCoherent'
    BY <1>11 DEF GiveSlotBack, UndoSlot, orderVars
  <2>2. UNCHANGED <<cancelVars, status, usages>>
    BY <1>11 DEF GiveSlotBack, UndoSlot, TryReleaseSlot, ReleaseSlot, orderVars, promotionVars
  <2>. QED
    BY <2>1, <2>2, CoherentFrame
<1>12. CASE UndoLine(r) \/ EndUndo(r)
  <2>1. CheckoutCoherent'
    BY <1>12 DEF UndoLine, EndUndo, orderVars
  <2>. QED
    BY <1>12, <2>1, CoherentFrame DEF UndoLine, EndUndo, orderVars, promotionVars
<1>. QED
  BY <1>1, <1>2, <1>3, <1>4, <1>5, <1>6, <1>7, <1>8, <1>9, <1>10, <1>11, <1>12 DEF CheckoutStep

\* So does a step of a cancellation.
LEMMA CancelCoherentStep ==
  ASSUME Coherent, NEW k \in Cancels, CancelStep(k) \/ \E r \in Requests : CancelRead(k, r)
  PROVE  CheckoutCoherent' /\ CancelCoherent'
<1>a. OrderTypeOK /\ CancelTypeOK
  BY DEF Coherent, TypeInv, TypeOK
<1> USE <1>a DEF Coherent, CancelCoherent, CancelTypeOK, CGoto, Undoing, UsageRow
<1>1. ASSUME NEW r \in Requests, CancelRead(k, r)
      PROVE  CheckoutCoherent' /\ CancelCoherent'
  <2>1. CancelCoherent'
    BY <1>1 DEF CancelRead, orderVars, promotionVars
  <2>. QED
    BY <1>1, <2>1, CoherentFrame DEF CancelRead, orderVars
<1>2. CASE CancelSwap(k)
  <2>1. ctarget[k] \in Requests /\ status[ctarget[k]] # "cancelled" /\ status[ctarget[k]] # NoOrder
    BY <1>2 DEF CancelSwap, HasRow
  <2>2. /\ status'[ctarget[k]] = "cancelled"
        /\ \A q \in Requests : q # ctarget[k] => status'[q] = status[q]
    BY <1>2, <2>1 DEF CancelSwap, OrderTypeOK
  <2>3. CheckoutCoherent'
    BY <1>2, <2>1, <2>2 DEF CancelSwap, CheckoutCoherent, checkoutVars
  <2>4. CancelCoherent'
    BY <1>2, <2>1, <2>2 DEF CancelSwap, promotionVars
  <2>. QED
    BY <2>3, <2>4
<1>3. CASE CancelConflict(k)
  BY <1>3, CoherentFrame DEF CancelConflict, orderVars, promotionVars
<1>4. CASE CancelRelease(k)
  <2>1. CancelCoherent'
    BY <1>4 DEF CancelRelease, AfterRelease, orderVars, promotionVars
  <2>. QED
    BY <1>4, <2>1, CoherentFrame DEF CancelRelease, orderVars
<1>5. CASE RevokeFind(k)
  BY <1>5, CoherentFrame DEF RevokeFind, orderVars, promotionVars
<1>6. CASE RevokeRemove(k)
  <2>1. CancelCoherent'
    BY <1>6 DEF RevokeRemove, RemoveUsage, orderVars
  <2>. QED
    BY <1>6, <2>1, CoherentFrame DEF RevokeRemove, orderVars
<1>7. CASE RevokeSlot(k)
  BY <1>7, CoherentFrame DEF RevokeSlot, ReleaseSlot, orderVars
<1>8. CASE RevokeFails(k)
  BY <1>8, CoherentFrame DEF RevokeFails, orderVars, promotionVars
<1>. QED
  BY <1>1, <1>2, <1>3, <1>4, <1>5, <1>6, <1>7, <1>8 DEF CancelStep

\* So do staff, adjustments and crashes, as long as no cancelled order is
\* revived.
LEMMA OtherCoherentStep ==
  ASSUME Coherent, NoRevival,
         \/ \E a \in Admins : \/ \E r \in Requests : StaffRead(a, r)
                              \/ \E to \in Statuses : StaffWrite(a, to)
         \/ \E s \in Skus, delta \in Deltas : Adjust(s, delta)
         \/ Crash
  PROVE  CheckoutCoherent' /\ CancelCoherent'
<1>a. OrderTypeOK /\ CancelTypeOK /\ StaffTypeOK /\ CheckoutTypeOK
  BY DEF Coherent, TypeInv, TypeOK
<1> USE <1>a DEF Coherent
<1>1. ASSUME NEW a \in Admins, NEW r \in Requests, StaffRead(a, r)
      PROVE  CheckoutCoherent' /\ CancelCoherent'
  BY <1>1, CoherentFrame DEF StaffRead, orderVars, promotionVars
<1>2. ASSUME NEW a \in Admins, NEW to \in Statuses, StaffWrite(a, to)
      PROVE  CheckoutCoherent' /\ CancelCoherent'
  <2>1. atarget[a] \in Requests /\ status[atarget[a]] # NoOrder
    BY <1>2 DEF StaffWrite, StaffTypeOK, HasRow
  <2>2. CheckoutCoherent'
    BY <1>2, <2>1 DEF StaffWrite, OrderTypeOK, CheckoutCoherent, checkoutVars
  <2>3. CancelCoherent'
    BY <1>2 DEF StaffWrite, NoRevival, CancelCoherent, CancelTypeOK, Undoing, UsageRow,
                cancelVars, promotionVars
  <2>. QED
    BY <2>2, <2>3
<1>3. ASSUME NEW s \in Skus, NEW delta \in Deltas, Adjust(s, delta)
      PROVE  CheckoutCoherent' /\ CancelCoherent'
  BY <1>3, CoherentFrame DEF Adjust, orderVars, promotionVars
<1>4. CASE Crash
  <2>1. CheckoutCoherent'
    BY <1>4 DEF Crash, CheckoutCoherent, CheckoutTypeOK, Ended, orderVars
  <2>2. CancelCoherent'
    BY <1>4 DEF Crash, CancelCoherent, CancelTypeOK, Undoing, UsageRow, orderVars, promotionVars
  <2>. QED
    BY <2>1, <2>2
<1>. QED
  BY <1>1, <1>2, <1>3, <1>4

\* Coherence is inductive as long as no cancelled order is revived.
LEMMA NextCoherent == Coherent /\ [Next /\ NoRevival]_vars => Coherent'
<1>1. ASSUME Coherent, Next, NoRevival PROVE Coherent'
  <2>1. TypeInv' /\ HasRow'
    BY <1>1, NextTypeInv, OrdersStep DEF Coherent
  <2>2. CheckoutCoherent' /\ CancelCoherent'
    BY <1>1, CheckoutCoherentStep, CancelCoherentStep, OtherCoherentStep DEF Next
  <2>. QED
    BY <2>1, <2>2 DEF Coherent
<1>2. ASSUME Coherent, UNCHANGED vars PROVE Coherent'
  <2>1. TypeInv' /\ HasRow'
    BY <1>2, NextTypeInv DEF Coherent, HasRow, vars
  <2>. QED
    BY <1>2, <2>1, CoherentFrame DEF Coherent, vars, checkoutVars, cancelVars
<1>. QED
  BY <1>1, <1>2

-----------------------------------------------------------------------------
(* Finite sets of units.                                                   *)

\* A line of a checkout and its units.
IsLine(r, i) == r \in Requests /\ i \in 1..Len(LinesOf[r])

LineUnits(r, i) == {r} \X {i} \X (1..LinesOf[r][i].qty)

\* A line has as many units as its quantity.
LEMMA LineUnitsCount ==
  ASSUME NEW r, NEW i, IsLine(r, i)
  PROVE  IsFiniteSet(LineUnits(r, i)) /\ Cardinality(LineUnits(r, i)) = LinesOf[r][i].qty
<1> DEFINE q == LinesOf[r][i].qty
           f == [n \in 1..q |-> <<r, i, n>>]
<1>1. q \in Nat
  BY LineType DEF IsLine
<1>2. IsFiniteSet(1..q) /\ Cardinality(1..q) = q
  <2> HIDE DEF q
  <2>1. 1 \in Int /\ q \in Int
    BY <1>1
  <2>2. IsFiniteSet(1..q) /\ Cardinality(1..q) = IF 1 > q THEN 0 ELSE q - 1 + 1
    BY ONLY <2>1, FS_Interval
  <2>. QED
    BY ONLY <1>1, <2>2
<1>3. f \in Bijection(1..q, LineUnits(r, i))
  <2>1. f \in [1..q -> LineUnits(r, i)]
    BY DEF LineUnits
  <2>2. \A a, b \in 1..q : f[a] = f[b] => a = b
    OBVIOUS
  <2>3. \A t \in LineUnits(r, i) : \E a \in 1..q : f[a] = t
    BY DEF LineUnits
  <2>. QED
    BY <2>1, <2>2, <2>3 DEF Bijection, Injection, Surjection, IsInjective
<1>4. ExistsBijection(1..q, LineUnits(r, i))
  BY <1>3 DEF ExistsBijection
<1>. QED
  BY <1>2, <1>4, FS_Bijection

\* A finite set has finitely many images under a function.
LEMMA FiniteImage ==
  ASSUME NEW S, NEW f, IsFiniteSet(S)
  PROVE  IsFiniteSet({f[x] : x \in S})
<1> DEFINE T == {f[x] : x \in S}
           g == [x \in S |-> f[x]]
<1>1. g \in Surjection(S, T)
  BY DEF Surjection
<1>. QED
  BY <1>1, FS_Surjection

\* The units of a checkout and of all of them.
CheckoutUnits(r) == UNION {LineUnits(r, i) : i \in DOMAIN LinesOf[r]}

\* A checkout has finitely many units.
LEMMA CheckoutUnitsFinite ==
  ASSUME NEW r \in Requests
  PROVE  IsFiniteSet(CheckoutUnits(r))
<1> DEFINE f == [i \in DOMAIN LinesOf[r] |-> LineUnits(r, i)]
<1>1. DOMAIN LinesOf[r] = 1..Len(LinesOf[r]) /\ Len(LinesOf[r]) \in Nat
  BY OrdersAssumption
<1>2. IsFiniteSet(DOMAIN LinesOf[r])
  BY <1>1, FS_Interval
<1>3. IsFiniteSet({f[i] : i \in DOMAIN LinesOf[r]})
  BY <1>2, FiniteImage
<1>4. {f[i] : i \in DOMAIN LinesOf[r]} = {LineUnits(r, i) : i \in DOMAIN LinesOf[r]}
  OBVIOUS
<1>5. \A i \in DOMAIN LinesOf[r] : IsFiniteSet(LineUnits(r, i))
  BY <1>1, LineUnitsCount DEF IsLine
<1>6. \A T \in {LineUnits(r, i) : i \in DOMAIN LinesOf[r]} : IsFiniteSet(T)
  BY <1>5
<1>. QED
  BY <1>3, <1>4, <1>6, FS_UNION DEF CheckoutUnits

\* There are finitely many units.
LEMMA UnitsFinite == IsFiniteSet(Units)
<1> DEFINE f == [r \in Requests |-> CheckoutUnits(r)]
<1>1. \A r \in Requests : f[r] = CheckoutUnits(r)
  OBVIOUS
<1> HIDE DEF f
<1>2. IsFiniteSet({f[r] : r \in Requests})
  <2>1. IsFiniteSet(Requests)
    BY OrdersAssumption
  <2>. QED
    BY ONLY <2>1, FiniteImage, Zenon
<1>3. \A T \in {f[r] : r \in Requests} : IsFiniteSet(T)
  BY <1>1, CheckoutUnitsFinite
<1>4. IsFiniteSet(UNION {f[r] : r \in Requests})
  BY <1>2, <1>3, FS_UNION
<1>5. Units = UNION {CheckoutUnits(r) : r \in Requests}
  BY DEF Units, CheckoutUnits, LineUnits
<1>6. {CheckoutUnits(r) : r \in Requests} = {f[r] : r \in Requests}
  BY <1>1
<1>. QED
  BY <1>4, <1>5, <1>6

\* Finitely many units of a sku are held.
LEMMA HeldFinite ==
  ASSUME NEW s
  PROVE  IsFiniteSet(HeldUnits(s)) /\ Cardinality(HeldUnits(s)) \in Nat
<1>1. HeldUnits(s) \in SUBSET Units
  BY DEF HeldUnits
<1>. QED
  BY <1>1, UnitsFinite, FS_Subset, FS_CardinalityType

\* The same of the next state, whose held units are a subset of Units too.
LEMMA HeldFiniteNext ==
  ASSUME NEW s
  PROVE  IsFiniteSet(HeldUnits(s)') /\ Cardinality(HeldUnits(s)') \in Nat
<1>1. HeldUnits(s)' \in SUBSET Units
  BY DEF HeldUnits, Units
<1>. QED
  BY <1>1, UnitsFinite, FS_Subset, FS_CardinalityType

\* A unit belongs to exactly one line.
LEMMA UnitOfLine ==
  ASSUME NEW u \in Units
  PROVE  /\ IsLine(u[1], u[2])
         /\ u \in LineUnits(u[1], u[2])
         /\ \A r, i : u \in LineUnits(r, i) => r = u[1] /\ i = u[2]
<1>1. PICK r \in Requests :
        u \in UNION {{r} \X {i} \X (1..LinesOf[r][i].qty) : i \in DOMAIN LinesOf[r]}
  BY DEF Units
<1>2. PICK i \in DOMAIN LinesOf[r] : u \in {r} \X {i} \X (1..LinesOf[r][i].qty)
  BY <1>1
<1>3. u[1] = r /\ u[2] = i
  BY <1>2
<1>4. DOMAIN LinesOf[r] = 1..Len(LinesOf[r])
  BY OrdersAssumption
<1>. QED
  BY <1>2, <1>3, <1>4 DEF IsLine, LineUnits

\* The units of a line are units.
LEMMA LineUnitsAreUnits ==
  ASSUME NEW r, NEW i, IsLine(r, i)
  PROVE  LineUnits(r, i) \subseteq Units
<1>1. r \in Requests /\ i \in DOMAIN LinesOf[r]
  BY OrdersAssumption DEF IsLine
<1>. QED
  BY <1>1 DEF Units, LineUnits

-----------------------------------------------------------------------------
(* What a step may do to the stock: nothing, reserve a line, release one.  *)

\* No line but those of a set is newly held.
HeldGrowsBy(r, i) ==
  \A q, j : IsLine(q, j) /\ Held(q, j)' => Held(q, j) \/ <<q, j>> = <<r, i>>

HeldNotGrowing == \A q, j : IsLine(q, j) /\ Held(q, j)' => Held(q, j)

HeldNotShrinking == \A q, j : IsLine(q, j) /\ Held(q, j) => Held(q, j)'

\* What a step does to the stock and to who answers for it.
StockEffect ==
  \/ UNCHANGED inventoryVars /\ HeldNotGrowing
  \/ \E r, i : /\ IsLine(r, i)
               /\ ReserveStock(LinesOf[r][i].sku, LinesOf[r][i].qty)
               /\ HeldGrowsBy(r, i) /\ HeldNotShrinking
  \/ \E r, i : /\ IsLine(r, i)
               /\ ReleaseStock(LinesOf[r][i].sku, LinesOf[r][i].qty)
               /\ HeldNotGrowing /\ Held(r, i) /\ ~ Held(r, i)'
  \/ \E s \in Skus, delta \in Deltas :
       AdjustStock(s, delta) /\ HeldNotGrowing /\ HeldNotShrinking

\* Stock stays covered when no line is newly held and the counter stays.
LEMMA StockKept ==
  ASSUME InventoryTypeOK, StockNeverUndercounted, reserved' = reserved, HeldNotGrowing
  PROVE  StockNeverUndercounted'
<1> SUFFICES ASSUME NEW s \in Skus
             PROVE  reserved'[s] >= Cardinality(HeldUnits(s)')
  BY DEF StockNeverUndercounted
<1>1. HeldUnits(s)' \in SUBSET HeldUnits(s)
  <2>1. ASSUME NEW u \in Units, SkuOf(u) = s, Held(u[1], u[2])'
        PROVE  Held(u[1], u[2])
    BY <2>1, UnitOfLine DEF HeldNotGrowing
  <2>. QED
    BY <2>1 DEF HeldUnits, Units, SkuOf
<1>2. Cardinality(HeldUnits(s)') <= Cardinality(HeldUnits(s))
  BY <1>1, HeldFinite, FS_Subset
<1>3. reserved[s] >= Cardinality(HeldUnits(s)) /\ reserved[s] \in Nat
  BY DEF StockNeverUndercounted, InventoryTypeOK
<1>. QED
  BY <1>2, <1>3, HeldFinite, HeldFiniteNext

\* Stock stays covered when a line is reserved and newly held.
LEMMA StockReserved ==
  ASSUME InventoryTypeOK, StockNeverUndercounted, NEW r, NEW i, IsLine(r, i),
         ReserveStock(LinesOf[r][i].sku, LinesOf[r][i].qty), HeldGrowsBy(r, i)
  PROVE  StockNeverUndercounted'
<1> SUFFICES ASSUME NEW s \in Skus
             PROVE  reserved'[s] >= Cardinality(HeldUnits(s)')
  BY DEF StockNeverUndercounted
<1> DEFINE line == LineUnits(r, i)
           qty == LinesOf[r][i].qty
<1>a. LinesOf[r][i].sku \in Skus /\ qty \in Nat
  BY LineType DEF IsLine
<1>b. /\ reserved[s] >= Cardinality(HeldUnits(s)) /\ reserved[s] \in Nat
      /\ IsFiniteSet(HeldUnits(s)) /\ Cardinality(HeldUnits(s)) \in Nat
      /\ Cardinality(HeldUnits(s)') \in Nat
  BY HeldFinite, HeldFiniteNext DEF StockNeverUndercounted, InventoryTypeOK
<1>c. IsFiniteSet(line) /\ Cardinality(line) = qty
  BY LineUnitsCount
<1>1. ASSUME NEW u \in Units, SkuOf(u) = s, Held(u[1], u[2])'
      PROVE  Held(u[1], u[2]) \/ (u \in line /\ s = LinesOf[r][i].sku)
  BY <1>1, UnitOfLine DEF HeldGrowsBy, SkuOf
<1>2. CASE s = LinesOf[r][i].sku
  <2>1. HeldUnits(s)' \in SUBSET (HeldUnits(s) \cup line)
    BY <1>1 DEF HeldUnits, Units, SkuOf
  <2>2. /\ IsFiniteSet(HeldUnits(s) \cup line)
        /\ Cardinality(HeldUnits(s) \cup line) =
             Cardinality(HeldUnits(s)) + Cardinality(line) - Cardinality(HeldUnits(s) \cap line)
    BY <1>b, <1>c, FS_Union
  <2>3. Cardinality(HeldUnits(s) \cap line) \in Nat
    <3>1. HeldUnits(s) \cap line \in SUBSET line
      OBVIOUS
    <3>. QED
      BY <3>1, <1>c, FS_Subset, FS_CardinalityType
  <2>4. Cardinality(HeldUnits(s)') <= Cardinality(HeldUnits(s) \cup line)
    BY <2>1, <2>2, FS_Subset
  <2>5. reserved'[s] = reserved[s] + qty
    BY <1>2, <1>a DEF ReserveStock, InventoryTypeOK
  <2> HIDE DEF line, qty
  <2>. QED
    BY <2>2, <2>3, <2>4, <2>5, <1>a, <1>b, <1>c
<1>3. CASE s # LinesOf[r][i].sku
  <2>1. HeldUnits(s)' \in SUBSET HeldUnits(s)
    BY <1>1, <1>3 DEF HeldUnits, Units, SkuOf
  <2>2. Cardinality(HeldUnits(s)') <= Cardinality(HeldUnits(s))
    BY <2>1, <1>b, FS_Subset
  <2>3. reserved'[s] = reserved[s]
    BY <1>3, <1>a DEF ReserveStock, InventoryTypeOK
  <2>. QED
    BY <2>2, <2>3, <1>b
<1>. QED
  BY <1>2, <1>3

\* Stock stays covered when a line is released and no longer held.
LEMMA StockReleased ==
  ASSUME InventoryTypeOK, StockNeverUndercounted, NEW r, NEW i, IsLine(r, i),
         ReleaseStock(LinesOf[r][i].sku, LinesOf[r][i].qty),
         HeldNotGrowing, Held(r, i), ~ Held(r, i)'
  PROVE  StockNeverUndercounted'
<1> SUFFICES ASSUME NEW s \in Skus
             PROVE  reserved'[s] >= Cardinality(HeldUnits(s)')
  BY DEF StockNeverUndercounted
<1> DEFINE line == LineUnits(r, i)
           qty == LinesOf[r][i].qty
<1>a. LinesOf[r][i].sku \in Skus /\ qty \in Nat
  BY LineType DEF IsLine
<1>b. /\ reserved[s] >= Cardinality(HeldUnits(s)) /\ reserved[s] \in Nat
      /\ IsFiniteSet(HeldUnits(s)) /\ Cardinality(HeldUnits(s)) \in Nat
      /\ Cardinality(HeldUnits(s)') \in Nat
  BY HeldFinite, HeldFiniteNext DEF StockNeverUndercounted, InventoryTypeOK
<1>c. IsFiniteSet(line) /\ Cardinality(line) = qty
  BY LineUnitsCount
<1>1. ASSUME NEW u \in Units, SkuOf(u) = s, Held(u[1], u[2])'
      PROVE  Held(u[1], u[2]) /\ u \notin line
  <2>1. Held(u[1], u[2])
    BY <1>1, UnitOfLine DEF HeldNotGrowing
  <2>2. u \notin line
    BY <1>1, UnitOfLine
  <2>. QED
    BY <2>1, <2>2
<1>2. CASE s = LinesOf[r][i].sku
  <2>1. HeldUnits(s)' \in SUBSET (HeldUnits(s) \ line)
    BY <1>1 DEF HeldUnits, Units, SkuOf
  <2>2. HeldUnits(s) \cap line = line
    <3>1. ASSUME NEW u, u \in line PROVE u \in HeldUnits(s)
      <4>1. u \in Units /\ u[1] = r /\ u[2] = i
        BY <3>1, LineUnitsAreUnits, UnitOfLine
      <4>2. SkuOf(u) = s /\ Held(u[1], u[2])
        BY <4>1, <1>2 DEF SkuOf
      <4>. QED
        BY <4>1, <4>2 DEF HeldUnits
    <3>. QED
      BY <3>1
  <2>3. /\ IsFiniteSet(HeldUnits(s) \ line)
        /\ Cardinality(HeldUnits(s) \ line) = Cardinality(HeldUnits(s)) - qty
    <3> HIDE DEF line, qty
    <3>1. /\ IsFiniteSet(HeldUnits(s) \ line)
          /\ Cardinality(HeldUnits(s) \ line)
               = Cardinality(HeldUnits(s)) - Cardinality(HeldUnits(s) \cap line)
      BY <1>b, FS_Difference
    <3>2. Cardinality(HeldUnits(s) \cap line) = qty
      BY <1>c, <2>2
    <3>. QED
      BY <3>1, <3>2
  <2>4. Cardinality(HeldUnits(s)') <= Cardinality(HeldUnits(s) \ line)
    BY <2>1, <2>3, FS_Subset
  <2>5. reserved'[s] = IF reserved[s] >= qty THEN reserved[s] - qty ELSE 0
    BY <1>2, <1>a DEF ReleaseStock, FloorSub, InventoryTypeOK
  <2> HIDE DEF line, qty
  <2>. QED
    BY <2>3, <2>4, <2>5, <1>a, <1>b
<1>3. CASE s # LinesOf[r][i].sku
  <2>1. HeldUnits(s)' \in SUBSET HeldUnits(s)
    BY <1>1 DEF HeldUnits, Units, SkuOf
  <2>2. Cardinality(HeldUnits(s)') <= Cardinality(HeldUnits(s))
    BY <2>1, <1>b, FS_Subset
  <2>3. reserved'[s] = reserved[s]
    BY <1>3, <1>a DEF ReleaseStock, InventoryTypeOK
  <2>. QED
    BY <2>2, <2>3, <1>b
<1>. QED
  BY <1>2, <1>3

-----------------------------------------------------------------------------
(* Every step has such an effect.                                          *)

\* A step of a checkout does to the stock one of the things StockEffect lists.
LEMMA CheckoutEffect ==
  ASSUME Coherent, NEW r \in Requests, Begin(r) \/ CheckoutStep(r)
  PROVE  StockEffect
<1>a. /\ CheckoutTypeOK /\ OrderTypeOK /\ CancelTypeOK /\ InventoryTypeOK
      /\ CheckoutPlaced /\ CheckoutCoherent
  BY DEF Coherent, TypeInv, TypeOK
<1>b. got[r] \in Nat /\ back[r] \in Nat /\ Len(LinesOf[r]) \in Nat \ {0}
      /\ back[r] <= got[r] /\ got[r] <= Len(LinesOf[r])
  BY <1>a, LinesNonempty DEF CheckoutTypeOK, CheckoutPlaced
<1>c. CASE ReserveLine(r)
  <2> DEFINE i == got[r] + 1
  <2>1. IsLine(r, i)
    BY <1>a, <1>b, <1>c DEF IsLine, CheckoutPlaced, ReserveLine
  <2>2. HeldGrowsBy(r, i) /\ HeldNotShrinking
    BY <1>a, <1>b, <1>c DEF HeldGrowsBy, HeldNotShrinking, IsLine, ReserveLine, Held, Live, Goto, AfterReserve, Ended,
                            CheckoutTypeOK, orderVars, cancelVars
  <2>. QED
    BY <1>c, <2>1, <2>2 DEF ReserveLine, StockEffect
<1>d. CASE UndoLine(r) /\ UNCHANGED faults /\ ~ UNCHANGED inventoryVars
  <2> PICK i \in Nat : i = back[r] + 1
    BY <1>b
  <2>1. IsLine(r, i) /\ ReleaseStock(LinesOf[r][i].sku, LinesOf[r][i].qty)
    BY <1>b, <1>d DEF IsLine, UndoLine
  <2>2. status[r] = NoOrder /\ status' = status /\ pc' = pc /\ got' = got /\ pc[r] = "undo"
        /\ back' = [back EXCEPT ![r] = i] /\ back[r] < got[r] /\ UNCHANGED cancelVars
    BY <1>a, <1>d DEF UndoLine, CheckoutCoherent, orderVars
  <2>3. Held(r, i) /\ ~ Held(r, i)' /\ HeldNotGrowing
    BY <1>a, <1>b, <2>2 DEF HeldNotGrowing, IsLine, Held, Live, Ended, CheckoutTypeOK, NoOrder, cancelVars
  <2>. QED
    BY <2>1, <2>3 DEF StockEffect
<1>e. CASE InsertOrder(r)
  <2>1. HeldNotGrowing
    BY <1>a, <1>b, <1>e DEF HeldNotGrowing, IsLine, InsertOrder, Held, Live, Goto, Ended, CheckoutTypeOK,
                            CheckoutCoherent, OrderTypeOK, NoOrder, Coherent, HasRow, cancelVars
  <2>. QED
    BY <1>e, <2>1 DEF InsertOrder, StockEffect
<1>f. CASE ReserveUnrecorded(r)
  <2> DEFINE i == got[r] + 1
  <2>1. IsLine(r, i)
    BY <1>a, <1>b, <1>f DEF IsLine, CheckoutPlaced, ReserveUnrecorded
  <2>2. HeldGrowsBy(r, i) /\ HeldNotShrinking
    BY <1>a, <1>b, <1>f DEF HeldGrowsBy, HeldNotShrinking, IsLine, ReserveUnrecorded, Held, Live, Goto, Ended,
                            CheckoutTypeOK, orderVars, cancelVars
  <2>. QED
    BY <1>f, <2>1, <2>2 DEF ReserveUnrecorded, StockEffect
<1>g. CASE /\ \/ UndoLine(r) /\ UNCHANGED inventoryVars
              \/ Begin(r)
              \/ CheckoutStep(r) /\ ~ UndoLine(r) /\ ~ ReserveLine(r) /\ ~ ReserveUnrecorded(r)
                 /\ ~ InsertOrder(r)
  <2>1. UNCHANGED <<quantity, reserved, status, cpc, ctarget, cline, got>>
    BY <1>g DEF CheckoutStep, Begin, ReserveRefused, CheckPromotion, RejectPromotion, TakePromotionSlot,
       SlotGone, DrawNumber, DrawNumberFails, InsertRefused, RecordUsage, RecordUsageFails, GiveSlotBack,
       UndoLine, EndUndo, UndoSlot, orderVars, cancelVars, inventoryVars
  <2>2. back' = back \/ (pc' = pc /\ back' = [back EXCEPT ![r] = back[r] + 1])
    BY <1>g DEF CheckoutStep, Begin, ReserveRefused, CheckPromotion, RejectPromotion, TakePromotionSlot,
       SlotGone, DrawNumber, DrawNumberFails, InsertRefused, RecordUsage, RecordUsageFails, GiveSlotBack,
       UndoLine, EndUndo, UndoSlot
  <2>3. pc[r] \notin Ended /\ \A q \in Requests : q # r => pc'[q] = pc[q]
    BY <1>g, <1>a DEF CheckoutStep, Begin, ReserveRefused, CheckPromotion, RejectPromotion, TakePromotionSlot,
       SlotGone, DrawNumber, DrawNumberFails, InsertRefused, RecordUsage, RecordUsageFails, GiveSlotBack,
       UndoLine, EndUndo, UndoSlot, Goto, Ended, CheckoutTypeOK
  <2>4. HeldNotGrowing
    BY <1>a, <1>b, <2>1, <2>2, <2>3 DEF HeldNotGrowing, IsLine, Held, Live, Ended, CheckoutTypeOK
  <2>. QED
    BY <2>1, <2>4 DEF StockEffect, inventoryVars
<1>. QED
  BY <1>c, <1>d, <1>e, <1>f, <1>g DEF CheckoutStep, UndoLine

\* So does a step of a cancellation.
LEMMA CancelEffect ==
  ASSUME Coherent, NEW k \in Cancels,
         CancelStep(k) \/ \E r \in Requests : CancelRead(k, r)
  PROVE  StockEffect
<1>a. /\ CheckoutTypeOK /\ OrderTypeOK /\ CancelTypeOK /\ InventoryTypeOK
      /\ CancelPlaced /\ CancelCoherent
  BY DEF Coherent, TypeInv, TypeOK
<1>1. CASE CancelRelease(k) /\ ~ UNCHANGED inventoryVars
  <2> PICK r \in Requests : r = ctarget[k]
    BY <1>1, <1>a DEF CancelRelease, CancelTypeOK
  <2> PICK i \in Nat : i = cline[k]
    BY <1>a DEF CancelTypeOK
  <2>1. /\ IsLine(r, i) /\ r \in Requests /\ i \in Nat /\ Len(LinesOf[r]) \in Nat
        /\ ReleaseStock(LinesOf[r][i].sku, LinesOf[r][i].qty)
    BY <1>1, <1>a, LinesNonempty DEF IsLine, CancelRelease, CancelPlaced, CancelTypeOK
  <2>2. /\ status[r] = "cancelled" /\ cpc[k] = "release"
        /\ \A j \in Cancels : j # k /\ cpc[j] = "release" => ctarget[j] # r
    BY <1>1, <1>a DEF CancelRelease, CancelCoherent, Undoing
  <2>3. /\ UNCHANGED <<status, pc, got, back, ctarget>>
        /\ cline' = [cline EXCEPT ![k] = i + 1]
        /\ \A j \in Cancels : j # k => cpc'[j] = cpc[j]
    BY <1>1, <1>a DEF CancelRelease, CGoto, CancelTypeOK, orderVars, checkoutVars
  <2>4. Held(r, i) /\ ~ Held(r, i)'
    BY <1>a, <2>1, <2>2, <2>3 DEF Held, Live, NoOrder, CancelTypeOK
  <2>5. HeldNotGrowing
    BY <1>a, <2>1, <2>2, <2>3 DEF HeldNotGrowing, IsLine, Held, Live, NoOrder, CancelTypeOK
  <2>. QED
    BY <2>1, <2>4, <2>5 DEF StockEffect
<1>2. CASE CancelRelease(k) /\ UNCHANGED inventoryVars
  <2>1. HeldNotGrowing
    BY <1>2, <1>a DEF CancelRelease, HeldNotGrowing, IsLine, Held, Live, CGoto, CancelTypeOK,
                      orderVars, checkoutVars, AfterRelease
  <2>. QED
    BY <1>2, <2>1 DEF StockEffect
<1>3. CASE CancelSwap(k)
  <2>1. ctarget[k] \in Requests /\ cline[k] = 1 /\ status[ctarget[k]] \notin {NoOrder, "cancelled"}
    BY <1>3, <1>a DEF CancelSwap, CancelTypeOK, CancelPlaced, CancelCoherent, Coherent, HasRow
  <2>2. HeldNotGrowing
    BY <1>3, <1>a, <2>1 DEF CancelSwap, HeldNotGrowing, IsLine, Held, Live, CGoto, CancelTypeOK, OrderTypeOK,
                            checkoutVars
  <2>. QED
    BY <1>3, <2>2 DEF CancelSwap, StockEffect
<1>4. CASE \/ \E r \in Requests : CancelRead(k, r)
           \/ CancelStep(k) /\ ~ CancelRelease(k) /\ ~ CancelSwap(k)
  <2>1. /\ UNCHANGED <<quantity, reserved, status, pc, got, back, cline>>
        /\ \A j \in Cancels : cpc'[j] = "release" => cpc[j] = "release" /\ ctarget'[j] = ctarget[j]
    BY <1>4, <1>a DEF CancelStep, CancelRead, CancelConflict, RevokeFind, RevokeRemove, RevokeSlot, RevokeFails,
       CGoto, CancelTypeOK, orderVars, checkoutVars, inventoryVars
  <2>2. HeldNotGrowing
    BY <2>1 DEF HeldNotGrowing, IsLine, Held, Live
  <2>. QED
    BY <2>1, <2>2 DEF StockEffect, inventoryVars
<1>. QED
  BY <1>1, <1>2, <1>3, <1>4 DEF CancelStep

\* So do staff, adjustments and crashes, as long as no cancelled order is
\* revived.
LEMMA OtherEffect ==
  ASSUME Coherent, NoRevival,
         \/ \E a \in Admins : \/ \E r \in Requests : StaffRead(a, r)
                              \/ \E to \in Statuses : StaffWrite(a, to)
         \/ \E s \in Skus, delta \in Deltas : Adjust(s, delta)
         \/ Crash
  PROVE  StockEffect
<1>a. CheckoutTypeOK /\ OrderTypeOK /\ CancelTypeOK /\ StaffTypeOK
  BY DEF Coherent, TypeInv, TypeOK
<1>1. ASSUME NEW a \in Admins, NEW r \in Requests, StaffRead(a, r) PROVE StockEffect
  BY <1>1 DEF StaffRead, StockEffect, HeldNotGrowing, Held, Live, orderVars, checkoutVars, cancelVars
<1>2. ASSUME NEW a \in Admins, NEW to \in Statuses, StaffWrite(a, to) PROVE StockEffect
  <2>1. atarget[a] \in Requests /\ status[atarget[a]] # NoOrder
    BY <1>2, <1>a DEF StaffWrite, StaffTypeOK, Coherent, HasRow
  <2>2. HeldNotGrowing
    BY <1>2, <1>a, <2>1 DEF StaffWrite, HeldNotGrowing, IsLine, Held, Live, OrderTypeOK, NoRevival,
                            checkoutVars, cancelVars
  <2>. QED
    BY <1>2, <2>2 DEF StaffWrite, StockEffect
<1>3. ASSUME NEW s \in Skus, NEW delta \in Deltas, Adjust(s, delta) PROVE StockEffect
  <2>1. HeldNotGrowing /\ HeldNotShrinking
    BY <1>3 DEF Adjust, HeldNotGrowing, HeldNotShrinking, Held, Live, orderVars, checkoutVars, cancelVars
  <2>. QED
    BY <1>3, <2>1 DEF Adjust, StockEffect
<1>4. CASE Crash
  <2>1. HeldNotGrowing
    BY <1>4, <1>a DEF Crash, HeldNotGrowing, IsLine, Held, Live, Ended, orderVars, CheckoutTypeOK, CancelTypeOK
  <2>. QED
    BY <1>4, <2>1 DEF Crash, StockEffect
<1>. QED
  BY <1>1, <1>2, <1>3, <1>4

\* So does every step.
LEMMA NextEffect ==
  ASSUME Coherent, [Next]_vars, [NoRevival]_vars
  PROVE  StockEffect
<1>1. CASE UNCHANGED vars
  BY <1>1 DEF StockEffect, HeldNotGrowing, Held, Live, vars, inventoryVars
<1>2. CASE Next /\ NoRevival
  BY <1>2, CheckoutEffect, CancelEffect, OtherEffect DEF Next
<1>. QED
  BY <1>1, <1>2

-----------------------------------------------------------------------------
(* The theorems.                                                           *)

\* Whatever faults, crashes and interleavings happen, stock is never given back
\* while a checkout, an order or a cancellation still answers for it, unless
\* updateStatus brings a cancelled order back to life.
THEOREM StockCovered == Spec /\ CancelledStaysCancelled => []StockNeverUndercounted
<1>1. Init => StockNeverUndercounted
  <2> SUFFICES ASSUME Init, NEW s \in Skus PROVE reserved[s] >= Cardinality(HeldUnits(s))
    BY DEF StockNeverUndercounted
  <2>1. ASSUME NEW u \in Units PROVE ~ Held(u[1], u[2])
    <3>1. u[1] \in Requests /\ u[2] \in Nat
      BY UnitOfLine DEF IsLine
    <3>. QED
      BY <3>1 DEF Init, Held, Live
  <2>2. Cardinality(HeldUnits(s)) = 0
    BY <2>1, FS_EmptySet DEF HeldUnits
  <2>. QED
    BY <2>2 DEF Init
<1>2. ASSUME Coherent, StockNeverUndercounted, [Next]_vars, [NoRevival]_vars
      PROVE  (Coherent /\ StockNeverUndercounted)'
  <2>1. Coherent'
    BY <1>2, NextCoherent
  <2>2. InventoryTypeOK
    BY <1>2 DEF Coherent, TypeInv, TypeOK
  <2>3. StockNeverUndercounted'
    BY <1>2, <2>2, NextEffect, StockKept, StockReserved, StockReleased
    DEF StockEffect, AdjustStock, inventoryVars
  <2>. QED
    BY <2>1, <2>3
<1>. QED
  BY <1>1, <1>2, InitCoherent, PTL DEF Spec, CancelledStaysCancelled, NoRevival

\* The guarded UPDATE keeps what is reserved within what exists.
ReservedExists == \A s \in Skus \ Backorder : reserved[s] <= quantity[s]

\* What is reserved exists at first.
LEMMA InitReservedExists == Init => ReservedExists
<1> SUFFICES ASSUME Init, NEW s \in Skus PROVE reserved[s] <= quantity[s]
  BY DEF ReservedExists
<1>1. reserved[s] = 0 /\ quantity[s] \in 0..MaxQuantity /\ MaxQuantity \in Nat
  BY OrdersAssumption DEF Init
<1>. QED
  BY <1>1

\* What is reserved exists after every step, if adjustments go upwards only.
LEMMA EffectKeepsExists ==
  ASSUME Deltas \subseteq Nat, InventoryTypeOK, ReservedExists, StockEffect
  PROVE  ReservedExists'
<1>1. ASSUME NEW s \in Skus, NEW q \in Nat, ReserveStock(s, q) PROVE ReservedExists'
  BY <1>1 DEF ReserveStock, CanReserve, Available, ReservedExists, InventoryTypeOK
<1>2. ASSUME NEW s \in Skus, NEW q \in Nat, ReleaseStock(s, q) PROVE ReservedExists'
  BY <1>2 DEF ReleaseStock, FloorSub, ReservedExists, InventoryTypeOK
<1>3. ASSUME NEW s \in Skus, NEW delta \in Nat, AdjustStock(s, delta) PROVE ReservedExists'
  BY <1>3 DEF AdjustStock, ReservedExists, InventoryTypeOK
<1>4. CASE UNCHANGED inventoryVars
  BY <1>4 DEF inventoryVars, ReservedExists
<1>5. \A r, i : IsLine(r, i) => LinesOf[r][i].sku \in Skus /\ LinesOf[r][i].qty \in Nat
  BY LineType DEF IsLine
<1>. QED
  BY <1>1, <1>2, <1>3, <1>4, <1>5 DEF StockEffect

\* What is reserved always exists, if adjustments go upwards only.
LEMMA AlwaysReservedExists ==
  ASSUME Deltas \subseteq Nat
  PROVE  Spec /\ CancelledStaysCancelled => [](Coherent /\ ReservedExists)
<1>1. ASSUME Coherent, ReservedExists, [Next]_vars, [NoRevival]_vars
      PROVE  (Coherent /\ ReservedExists)'
  <2>1. Coherent'
    BY <1>1, NextCoherent
  <2>2. ReservedExists'
    BY <1>1, NextEffect, EffectKeepsExists DEF Coherent, TypeInv, TypeOK
  <2>. QED
    BY <2>1, <2>2
<1>. QED
  BY <1>1, InitCoherent, InitReservedExists, PTL DEF Spec, CancelledStaysCancelled, NoRevival

\* What is held of a sku that cannot be backordered exists.
LEMMA HeldExists ==
  ASSUME InventoryTypeOK, ReservedExists, StockNeverUndercounted, NEW s \in Skus \ Backorder
  PROVE  Cardinality(HeldUnits(s)) <= quantity[s]
<1>1. Cardinality(HeldUnits(s)) <= reserved[s] /\ reserved[s] <= quantity[s]
  BY DEF StockNeverUndercounted, ReservedExists
<1>2. reserved[s] \in Nat /\ quantity[s] \in Int
  BY DEF InventoryTypeOK
<1>. QED
  BY <1>1, <1>2, HeldFinite

\* No path of createFromCart, createDirect, cancelOrder or of a failure between
\* their statements sells a unit twice, as long as stock is only added and no
\* cancelled order is brought back to life.
THEOREM NothingSoldTwice ==
  ASSUME Deltas \subseteq Nat
  PROVE  Spec /\ CancelledStaysCancelled => []NoOversell
<1>1. Coherent /\ ReservedExists /\ StockNeverUndercounted => NoOversell
  <2> SUFFICES ASSUME Coherent, ReservedExists, StockNeverUndercounted, NEW s \in Skus \ Backorder
               PROVE  Cardinality(PromisedUnits(s)) <= quantity[s]
    BY DEF NoOversell
  <2>1. PromisedUnits(s) \in SUBSET HeldUnits(s)
    BY DEF PromisedUnits, HeldUnits, Held
  <2>2. Cardinality(PromisedUnits(s)) <= Cardinality(HeldUnits(s))
        /\ Cardinality(PromisedUnits(s)) \in Nat
    BY <2>1, HeldFinite, FS_Subset, FS_CardinalityType
  <2>3. InventoryTypeOK
    BY DEF Coherent, TypeInv, TypeOK
  <2>4. Cardinality(HeldUnits(s)) <= quantity[s] /\ quantity[s] \in Int
    BY <2>3, HeldExists DEF InventoryTypeOK
  <2>. QED
    BY <2>2, <2>4, HeldFinite
<1>. QED
  BY <1>1, AlwaysReservedExists, StockCovered, PTL

-----------------------------------------------------------------------------
(* Refinement of the ledger.                                               *)

\* The units held of each sku, which the ledger calls promised.
HeldOf == [s \in Skus |-> HeldUnits(s)]

\* The ledger counts with the same Cardinality.
LEMMA SameCardinality == \A S : Ledger!Cardinality(S) = Cardinality(S)
BY DEF Ledger!Cardinality, Cardinality

\* A step of the requests is a step of the ledger, or none: a reservation
\* promises units of one sku that fit, everything else withdraws promises or
\* adds stock.
LEMMA EffectIsLedgerStep ==
  ASSUME Deltas \subseteq Nat, InventoryTypeOK, InventoryTypeOK', StockEffect,
         ReservedExists', StockNeverUndercounted'
  PROVE  [Ledger!Next]_<<quantity, HeldOf>>
<1>a. \A r, i : IsLine(r, i) => LinesOf[r][i].sku \in Skus
  BY LineType DEF IsLine
<1>b. HeldNotGrowing => \A s \in Skus : HeldUnits(s)' \subseteq HeldUnits(s)
  <2> SUFFICES ASSUME HeldNotGrowing, NEW s \in Skus, NEW u \in Units, SkuOf(u) = s, Held(u[1], u[2])'
               PROVE  Held(u[1], u[2])
    BY DEF HeldUnits, Units, SkuOf
  <2>. QED
    BY UnitOfLine DEF HeldNotGrowing
<1>c. HeldNotShrinking => \A s \in Skus : HeldUnits(s) \subseteq HeldUnits(s)'
  <2> SUFFICES ASSUME HeldNotShrinking, NEW s \in Skus, NEW u \in Units, SkuOf(u) = s, Held(u[1], u[2])
               PROVE  Held(u[1], u[2])'
    BY DEF HeldUnits, Units, SkuOf
  <2>. QED
    BY UnitOfLine DEF HeldNotShrinking
<1>1. CASE HeldNotGrowing /\ UNCHANGED quantity
  BY <1>1, <1>b DEF Ledger!Next, Ledger!Withdraw, HeldOf
<1>2. ASSUME NEW r, NEW i, IsLine(r, i), ReserveStock(LinesOf[r][i].sku, LinesOf[r][i].qty),
             HeldGrowsBy(r, i), HeldNotShrinking
      PROVE  Ledger!Next
  <2> PICK s \in Skus : s = LinesOf[r][i].sku
    BY <1>2, <1>a
  <2>1. \A t \in Skus \ {s} : HeldUnits(t)' = HeldUnits(t)
    <3> SUFFICES ASSUME NEW t \in Skus \ {s}, NEW u \in Units, SkuOf(u) = t, Held(u[1], u[2])'
                 PROVE  Held(u[1], u[2])
      BY <1>2, <1>c DEF HeldUnits, Units, SkuOf
    <3>. QED
      BY <1>2, UnitOfLine DEF HeldGrowsBy, SkuOf
  <2>2. HeldUnits(s) \subseteq HeldUnits(s)' /\ UNCHANGED quantity
    BY <1>2, <1>c DEF ReserveStock
  <2>3. Ledger!Fits(s)'
    <3>1. s \notin Backorder => Cardinality(HeldUnits(s)') <= quantity'[s]
      <4>1. s \notin Backorder => Cardinality(HeldUnits(s)') <= reserved'[s] /\ reserved'[s] <= quantity'[s]
        BY DEF StockNeverUndercounted, ReservedExists
      <4>2. reserved'[s] \in Nat /\ quantity'[s] \in Int
        BY DEF InventoryTypeOK
      <4>. QED
        BY <4>1, <4>2, HeldFiniteNext
    <3>. QED
      BY <3>1, SameCardinality DEF Ledger!Fits
  <2>4. Ledger!Promise(s)
    BY <2>1, <2>2, <2>3 DEF Ledger!Promise
  <2>. QED
    BY <2>4 DEF Ledger!Next
<1>3. ASSUME NEW s \in Skus, NEW delta \in Deltas, AdjustStock(s, delta),
             HeldNotGrowing, HeldNotShrinking
      PROVE  [Ledger!Next]_<<quantity, HeldOf>>
  <2>1. HeldOf' = HeldOf
    BY <1>3, <1>b, <1>c DEF HeldOf
  <2>2. CASE delta = 0
    <3>1. quantity' = quantity
      BY <1>3, <2>2 DEF AdjustStock, InventoryTypeOK
    <3>. QED
      BY <2>1, <3>1
  <2>3. CASE delta # 0
    <3>1. quantity'[s] > quantity[s] /\ quantity' = [quantity EXCEPT ![s] = quantity'[s]]
      BY <1>3, <2>3 DEF AdjustStock, InventoryTypeOK
    <3>. QED
      BY <2>1, <3>1 DEF Ledger!Next, Ledger!Restock, HeldOf
  <2>. QED
    BY <2>2, <2>3
<1>. QED
  BY <1>1, <1>2, <1>3 DEF StockEffect, inventoryVars, ReleaseStock

\* Orders and inventory implement the ledger: stock is promised only while it
\* fits, by one reservation at a time, whatever the interleaving of requests
\* and wherever they fail.
THEOREM OrdersImplementLedger ==
  ASSUME Deltas \subseteq Nat
  PROVE  Spec /\ CancelledStaysCancelled => ImplementsLedger
<1>1. Init => Ledger!Init
  <2> SUFFICES ASSUME Init PROVE Ledger!Init
    OBVIOUS
  <2>1. ASSUME NEW s \in Skus PROVE HeldUnits(s) = {}
    <3>1. ASSUME NEW u \in Units PROVE ~ Held(u[1], u[2])
      <4>1. u[1] \in Requests /\ u[2] \in Nat
        BY UnitOfLine DEF IsLine
      <4>. QED
        BY <4>1 DEF Init, Held, Live
    <3>. QED
      BY <3>1 DEF HeldUnits
  <2>2. quantity \in [Skus -> Nat]
    BY OrdersAssumption DEF Init
  <2>. QED
    BY <2>1, <2>2 DEF Ledger!Init
<1>2. ASSUME Coherent, ReservedExists, StockNeverUndercounted, [Next]_vars, [NoRevival]_vars,
             Coherent', ReservedExists', StockNeverUndercounted'
      PROVE  [Ledger!Next]_<<quantity, [s \in Skus |-> HeldUnits(s)]>>
  BY <1>2, NextEffect, EffectIsLedgerStep DEF Coherent, TypeInv, TypeOK, HeldOf
<1>. QED
  BY <1>1, <1>2, AlwaysReservedExists, StockCovered, PTL
  DEF Spec, CancelledStaysCancelled, NoRevival, ImplementsLedger, Ledger!Spec

-----------------------------------------------------------------------------
\* One request more or less in a finite set of requests or rows.
LEMMA CountKept ==
  ASSUME NEW S, NEW T \in SUBSET S, IsFiniteSet(S)
  PROVE  Cardinality(T) <= Cardinality(S) /\ Cardinality(T) \in Nat /\ Cardinality(S) \in Nat
BY FS_Subset, FS_CardinalityType

\* A set with one more element at most has one more at most.
LEMMA CountGrows ==
  ASSUME NEW S, NEW x, NEW T \in SUBSET (S \cup {x}), IsFiniteSet(S)
  PROVE  Cardinality(T) <= Cardinality(S) + 1 /\ Cardinality(T) \in Nat /\ Cardinality(S) \in Nat
<1>1. /\ IsFiniteSet(S \cup {x})
      /\ Cardinality(S \cup {x}) = IF x \in S THEN Cardinality(S) ELSE Cardinality(S) + 1
  BY FS_AddElement
<1>2. Cardinality(T) <= Cardinality(S \cup {x}) /\ Cardinality(T) \in Nat
  BY <1>1, CountKept
<1>3. Cardinality(S) \in Nat
  BY FS_CardinalityType
<1>. QED
  BY <1>1, <1>2, <1>3

\* A set that has lost an element has at least one fewer.
LEMMA CountShrinks ==
  ASSUME NEW S, NEW x \in S, NEW T \in SUBSET (S \ {x}), IsFiniteSet(S)
  PROVE  Cardinality(T) <= Cardinality(S) - 1 /\ Cardinality(T) \in Nat /\ Cardinality(S) \in Nat
<1>1. IsFiniteSet(S \ {x}) /\ Cardinality(S \ {x}) = Cardinality(S) - 1
  BY FS_RemoveElement
<1>2. Cardinality(T) <= Cardinality(S \ {x}) /\ Cardinality(T) \in Nat
  BY <1>1, CountKept
<1>3. Cardinality(S) \in Nat
  BY FS_CardinalityType
<1>. QED
  BY <1>1, <1>2, <1>3

\* used_count never passes usage_limit, the WHERE clause of reserveAndCalculate.
CountWithinLimit == \A c \in Codes : UsageLimit[c] # 0 => usedCount[c] <= UsageLimit[c]

SlotInv == IsFiniteSet(usages) /\ SlotsNeverUndercounted /\ CountWithinLimit

\* What is counted as a slot held is finite.
LEMMA SlotSetsFinite ==
  ASSUME IsFiniteSet(usages), NEW c
  PROVE  IsFiniteSet(SlotHolders(c)) /\ IsFiniteSet(UsagesOf(c)) /\ IsFiniteSet(Revokers(c))
<1>1. SlotHolders(c) \in SUBSET Requests /\ UsagesOf(c) \in SUBSET usages /\ Revokers(c) \in SUBSET Cancels
  BY DEF SlotHolders, UsagesOf, Revokers
<1>. QED
  BY <1>1, FS_Subset, OrdersAssumption

\* No set of holders grows.
HoldersKept(c) ==
  /\ SlotHolders(c)' \subseteq SlotHolders(c)
  /\ UsagesOf(c)' \subseteq UsagesOf(c)
  /\ Revokers(c)' \subseteq Revokers(c)

\* No more slots are held when nobody newly holds one.
LEMMA HeldNotMore ==
  ASSUME IsFiniteSet(usages), NEW c, HoldersKept(c)
  PROVE  SlotsHeld(c)' <= SlotsHeld(c) /\ SlotsHeld(c)' \in Nat /\ SlotsHeld(c) \in Nat
<1>1. Cardinality(SlotHolders(c)') <= Cardinality(SlotHolders(c))
      /\ Cardinality(SlotHolders(c)') \in Nat /\ Cardinality(SlotHolders(c)) \in Nat
  BY SlotSetsFinite, CountKept DEF HoldersKept
<1>2. Cardinality(UsagesOf(c)') <= Cardinality(UsagesOf(c))
      /\ Cardinality(UsagesOf(c)') \in Nat /\ Cardinality(UsagesOf(c)) \in Nat
  BY SlotSetsFinite, CountKept DEF HoldersKept
<1>3. Cardinality(Revokers(c)') <= Cardinality(Revokers(c))
      /\ Cardinality(Revokers(c)') \in Nat /\ Cardinality(Revokers(c)) \in Nat
  BY SlotSetsFinite, CountKept DEF HoldersKept
<1>. QED
  BY <1>1, <1>2, <1>3 DEF SlotsHeld

\* A step that neither counts nor makes a new holder.
LEMMA SlotsKept ==
  ASSUME PromotionTypeOK, SlotInv, usedCount' = usedCount, usages' \subseteq usages,
         \A c \in Codes : HoldersKept(c)
  PROVE  SlotInv'
<1>1. IsFiniteSet(usages')
  BY FS_Subset DEF SlotInv
<1>2. ASSUME NEW c \in Codes PROVE usedCount'[c] >= SlotsHeld(c)'
  <2>1. SlotsHeld(c)' <= SlotsHeld(c) /\ SlotsHeld(c)' \in Nat /\ SlotsHeld(c) \in Nat
    BY HeldNotMore DEF SlotInv
  <2>2. usedCount'[c] >= SlotsHeld(c) /\ usedCount'[c] \in Nat
    BY DEF SlotInv, SlotsNeverUndercounted, PromotionTypeOK
  <2>. QED
    BY <2>1, <2>2
<1>3. SlotsNeverUndercounted'
  BY <1>2 DEF SlotsNeverUndercounted
<1>. QED
  BY <1>1, <1>3 DEF SlotInv, CountWithinLimit

\* A holder gives its slot back: a checkout or a cancellation.
LEMMA SlotsReleased ==
  ASSUME PromotionTypeOK, SlotInv, NEW d \in Codes, ReleaseSlot(d),
         \A c \in Codes : HoldersKept(c),
         \/ \E r \in SlotHolders(d) : r \notin SlotHolders(d)'
         \/ \E k \in Revokers(d) : k \notin Revokers(d)'
  PROVE  SlotInv'
<1>1. usages' = usages
  BY DEF ReleaseSlot
<1>2. \A c \in Codes : usedCount[c] \in Nat /\ usedCount'[c] =
          IF c = d THEN (IF usedCount[c] > 0 THEN usedCount[c] - 1 ELSE 0) ELSE usedCount[c]
  BY DEF ReleaseSlot, PromotionTypeOK
<1>3. SlotsHeld(d)' <= SlotsHeld(d) - 1 /\ SlotsHeld(d)' \in Nat /\ SlotsHeld(d) \in Nat
  <2>a. /\ IsFiniteSet(SlotHolders(d)) /\ IsFiniteSet(UsagesOf(d)) /\ IsFiniteSet(Revokers(d))
        /\ HoldersKept(d)
    BY SlotSetsFinite DEF SlotInv
  <2>b. Cardinality(UsagesOf(d)') <= Cardinality(UsagesOf(d))
        /\ Cardinality(UsagesOf(d)') \in Nat /\ Cardinality(UsagesOf(d)) \in Nat
    BY <2>a, CountKept DEF HoldersKept
  <2>1. CASE \E r \in SlotHolders(d) : r \notin SlotHolders(d)'
    <3>1. PICK r \in SlotHolders(d) : SlotHolders(d)' \in SUBSET (SlotHolders(d) \ {r})
      BY <2>1, <2>a DEF HoldersKept
    <3>2. Cardinality(SlotHolders(d)') <= Cardinality(SlotHolders(d)) - 1
          /\ Cardinality(SlotHolders(d)') \in Nat /\ Cardinality(SlotHolders(d)) \in Nat
      BY <2>a, <3>1, CountShrinks
    <3>3. Cardinality(Revokers(d)') <= Cardinality(Revokers(d))
          /\ Cardinality(Revokers(d)') \in Nat /\ Cardinality(Revokers(d)) \in Nat
      BY <2>a, CountKept DEF HoldersKept
    <3>. QED
      BY <3>2, <3>3, <2>b DEF SlotsHeld
  <2>2. CASE \E k \in Revokers(d) : k \notin Revokers(d)'
    <3>1. PICK k \in Revokers(d) : Revokers(d)' \in SUBSET (Revokers(d) \ {k})
      BY <2>2, <2>a DEF HoldersKept
    <3>2. Cardinality(Revokers(d)') <= Cardinality(Revokers(d)) - 1
          /\ Cardinality(Revokers(d)') \in Nat /\ Cardinality(Revokers(d)) \in Nat
      BY <2>a, <3>1, CountShrinks
    <3>3. Cardinality(SlotHolders(d)') <= Cardinality(SlotHolders(d))
          /\ Cardinality(SlotHolders(d)') \in Nat /\ Cardinality(SlotHolders(d)) \in Nat
      BY <2>a, CountKept DEF HoldersKept
    <3>. QED
      BY <3>2, <3>3, <2>b DEF SlotsHeld
  <2>. QED
    BY <2>1, <2>2
<1>4. ASSUME NEW c \in Codes PROVE usedCount'[c] >= SlotsHeld(c)'
  <2>1. SlotsHeld(c)' <= SlotsHeld(c) /\ SlotsHeld(c)' \in Nat /\ SlotsHeld(c) \in Nat
    BY HeldNotMore DEF SlotInv
  <2>2. usedCount[c] >= SlotsHeld(c)
    BY DEF SlotInv, SlotsNeverUndercounted
  <2>. QED
    BY <1>2, <1>3, <2>1, <2>2
<1>5. CountWithinLimit'
  BY <1>2, LimitAssumption DEF SlotInv, CountWithinLimit
<1>. QED
  BY <1>1, <1>4, <1>5 DEF SlotInv, SlotsNeverUndercounted

\* A checkout takes a slot and holds it.
LEMMA SlotTaken ==
  ASSUME PromotionTypeOK, SlotInv, NEW d \in Codes, NEW r, TakeSlot(d),
         SlotHolders(d)' \subseteq SlotHolders(d) \cup {r},
         Revokers(d)' \subseteq Revokers(d),
         \A c \in Codes \ {d} : HoldersKept(c)
  PROVE  SlotInv'
<1>1. usages' = usages /\ UsagesOf(d)' = UsagesOf(d)
  BY DEF TakeSlot, UsagesOf
<1>2. /\ \A c \in Codes : usedCount[c] \in Nat /\ UsageLimit[c] \in Nat /\ usedCount'[c] =
           IF c = d THEN usedCount[c] + 1 ELSE usedCount[c]
      /\ UsageLimit[d] = 0 \/ usedCount[d] < UsageLimit[d]
  BY LimitAssumption DEF TakeSlot, SlotLeft, PromotionTypeOK
<1>3. SlotsHeld(d)' <= SlotsHeld(d) + 1 /\ SlotsHeld(d)' \in Nat /\ SlotsHeld(d) \in Nat
  <2>1. Cardinality(SlotHolders(d)') <= Cardinality(SlotHolders(d)) + 1
        /\ Cardinality(SlotHolders(d)') \in Nat /\ Cardinality(SlotHolders(d)) \in Nat
    BY SlotSetsFinite, CountGrows DEF SlotInv
  <2>2. Cardinality(UsagesOf(d)') = Cardinality(UsagesOf(d)) /\ Cardinality(UsagesOf(d)) \in Nat
    BY <1>1, SlotSetsFinite, FS_CardinalityType DEF SlotInv
  <2>3. Cardinality(Revokers(d)') <= Cardinality(Revokers(d))
        /\ Cardinality(Revokers(d)') \in Nat /\ Cardinality(Revokers(d)) \in Nat
    BY SlotSetsFinite, CountKept DEF SlotInv
  <2>. QED
    BY <2>1, <2>2, <2>3 DEF SlotsHeld
<1>4. ASSUME NEW c \in Codes PROVE usedCount'[c] >= SlotsHeld(c)'
  <2>1. usedCount[c] >= SlotsHeld(c)
    BY DEF SlotInv, SlotsNeverUndercounted
  <2>2. c # d => SlotsHeld(c)' <= SlotsHeld(c) /\ SlotsHeld(c)' \in Nat /\ SlotsHeld(c) \in Nat
    BY HeldNotMore DEF SlotInv
  <2>. QED
    BY <1>2, <1>3, <2>1, <2>2
<1>5. CountWithinLimit'
  BY <1>2 DEF SlotInv, CountWithinLimit
<1>. QED
  BY <1>1, <1>4, <1>5 DEF SlotInv, SlotsNeverUndercounted

\* The slot a checkout holds becomes a row.
LEMMA SlotBecomesRow ==
  ASSUME PromotionTypeOK, SlotInv, NEW r \in Requests, InsertUsage(UsageRow(r)),
         r \in SlotHolders(CodeOf[r]), r \notin SlotHolders(CodeOf[r])',
         \A c \in Codes : SlotHolders(c)' \subseteq SlotHolders(c) /\ Revokers(c)' \subseteq Revokers(c)
  PROVE  SlotInv'
<1> DEFINE d == CodeOf[r]
<1>1. IsFiniteSet(usages') /\ usedCount' = usedCount
  BY FS_AddElement DEF SlotInv, InsertUsage
<1>2. ASSUME NEW c \in Codes PROVE usedCount'[c] >= SlotsHeld(c)'
  <2>a. IsFiniteSet(SlotHolders(c)) /\ IsFiniteSet(UsagesOf(c)) /\ IsFiniteSet(Revokers(c))
    BY SlotSetsFinite DEF SlotInv
  <2>b. usedCount[c] >= SlotsHeld(c) /\ usedCount[c] \in Nat
    BY DEF SlotInv, SlotsNeverUndercounted, PromotionTypeOK
  <2>c. Cardinality(Revokers(c)') <= Cardinality(Revokers(c))
        /\ Cardinality(Revokers(c)') \in Nat /\ Cardinality(Revokers(c)) \in Nat
    BY <2>a, CountKept
  <2>1. CASE c = d
    <3>1. Cardinality(UsagesOf(c)') <= Cardinality(UsagesOf(c)) + 1
          /\ Cardinality(UsagesOf(c)') \in Nat /\ Cardinality(UsagesOf(c)) \in Nat
      <4>1. UsagesOf(c)' \in SUBSET (UsagesOf(c) \cup {UsageRow(r)})
        BY DEF UsagesOf, InsertUsage
      <4>. QED
        BY <2>a, <4>1, CountGrows
    <3>2. SlotHolders(c)' \in SUBSET (SlotHolders(c) \ {r}) /\ r \in SlotHolders(c)
      BY <2>1
    <3>3. Cardinality(SlotHolders(c)') <= Cardinality(SlotHolders(c)) - 1
          /\ Cardinality(SlotHolders(c)') \in Nat /\ Cardinality(SlotHolders(c)) \in Nat
      BY <2>a, <3>2, CountShrinks
    <3>. QED
      BY <1>1, <2>b, <2>c, <3>1, <3>3 DEF SlotsHeld
  <2>2. CASE c # d
    <3>1. UsagesOf(c)' = UsagesOf(c)
      BY <2>2 DEF UsagesOf, InsertUsage, UsageRow
    <3>2. SlotsHeld(c)' <= SlotsHeld(c) /\ SlotsHeld(c)' \in Nat /\ SlotsHeld(c) \in Nat
      BY <3>1, HeldNotMore DEF SlotInv, HoldersKept
    <3>. QED
      BY <1>1, <2>b, <3>2
  <2>. QED
    BY <2>1, <2>2
<1>. QED
  BY <1>1, <1>2 DEF SlotInv, SlotsNeverUndercounted, CountWithinLimit

\* The slot of a row becomes the one its cancellation is about to give back.
LEMMA RowBecomesSlot ==
  ASSUME PromotionTypeOK, SlotInv, NEW r \in Requests, NEW k, RemoveUsage(UsageRow(r)),
         UsageRow(r) \in usages,
         Revokers(CodeOf[r])' \subseteq Revokers(CodeOf[r]) \cup {k},
         \A c \in Codes : SlotHolders(c)' \subseteq SlotHolders(c),
         \A c \in Codes \ {CodeOf[r]} : Revokers(c)' \subseteq Revokers(c)
  PROVE  SlotInv'
<1> DEFINE d == CodeOf[r]
           row == UsageRow(r)
<1>1. usages' = usages \ {row} /\ usedCount' = usedCount /\ IsFiniteSet(usages')
  BY FS_RemoveElement DEF SlotInv, RemoveUsage
<1>2. row \in UsagesOf(d)
  BY DEF UsagesOf, UsageRow
<1>3. ASSUME NEW c \in Codes PROVE usedCount'[c] >= SlotsHeld(c)'
  <2>a. IsFiniteSet(SlotHolders(c)) /\ IsFiniteSet(UsagesOf(c)) /\ IsFiniteSet(Revokers(c))
    BY SlotSetsFinite DEF SlotInv
  <2>b. usedCount[c] >= SlotsHeld(c) /\ usedCount[c] \in Nat
    BY DEF SlotInv, SlotsNeverUndercounted, PromotionTypeOK
  <2>c. Cardinality(SlotHolders(c)') <= Cardinality(SlotHolders(c))
        /\ Cardinality(SlotHolders(c)') \in Nat /\ Cardinality(SlotHolders(c)) \in Nat
    BY <2>a, CountKept
  <2>1. CASE c = d
    <3>1. row \in UsagesOf(c) /\ UsagesOf(c)' \in SUBSET (UsagesOf(c) \ {row})
      BY <1>1, <1>2, <2>1 DEF UsagesOf
    <3>2. Cardinality(UsagesOf(c)') <= Cardinality(UsagesOf(c)) - 1
          /\ Cardinality(UsagesOf(c)') \in Nat /\ Cardinality(UsagesOf(c)) \in Nat
      BY <2>a, <3>1, CountShrinks
    <3>3. Cardinality(Revokers(c)') <= Cardinality(Revokers(c)) + 1
          /\ Cardinality(Revokers(c)') \in Nat /\ Cardinality(Revokers(c)) \in Nat
      BY <2>1, <2>a, CountGrows
    <3>. QED
      BY <1>1, <2>b, <2>c, <3>2, <3>3 DEF SlotsHeld
  <2>2. CASE c # d
    <3>1. UsagesOf(c)' \subseteq UsagesOf(c)
      BY <1>1 DEF UsagesOf
    <3>2. SlotsHeld(c)' <= SlotsHeld(c) /\ SlotsHeld(c)' \in Nat /\ SlotsHeld(c) \in Nat
      BY <2>2, <3>1, HeldNotMore DEF SlotInv, HoldersKept
    <3>. QED
      BY <1>1, <2>b, <3>2
  <2>. QED
    BY <2>1, <2>2
<1>. QED
  BY <1>1, <1>3 DEF SlotInv, SlotsNeverUndercounted, CountWithinLimit

-----------------------------------------------------------------------------
(* Every step is one of those.                                             *)

\* A step of a checkout keeps the slots covered and within the limit.
LEMMA CheckoutSlots ==
  ASSUME Coherent, SlotInv, NEW r \in Requests, Begin(r) \/ CheckoutStep(r)
  PROVE  SlotInv'
<1>a. /\ CheckoutTypeOK /\ PromotionTypeOK
      /\ CheckoutPlaced /\ CheckoutCoherent
      /\ CodeOf[r] \in Codes \cup {NoCode}
  BY OrdersAssumption DEF Coherent, TypeInv, TypeOK
<1>b. UNCHANGED <<cpc, ctarget>> /\ \A c : Revokers(c)' = Revokers(c)
  <2>1. UNCHANGED <<cpc, ctarget>>
    BY DEF CheckoutStep, Begin, ReserveLine, ReserveRefused, ReserveUnrecorded, CheckPromotion,
       RejectPromotion, TakePromotionSlot, SlotGone, DrawNumber, DrawNumberFails, InsertOrder,
       InsertRefused, RecordUsage, RecordUsageFails, GiveSlotBack, UndoLine, EndUndo, UndoSlot, cancelVars
  <2>. QED
    BY <2>1 DEF Revokers
<1>1. CASE TakePromotionSlot(r)
  <2>1. /\ TakeSlot(CodeOf[r]) /\ CodeOf[r] \in Codes
        /\ pc' = [pc EXCEPT ![r] = "number"] /\ drawn' = drawn
    BY <1>1, <1>a DEF TakePromotionSlot, CheckoutPlaced, HasCode, Goto
  <2>2. \A q \in Requests : q # r /\ HoldsSlot(q)' => HoldsSlot(q)
    BY <2>1, <1>a DEF HoldsSlot, HasCode, CheckoutTypeOK
  <2>3. \A c : SlotHolders(c)' \subseteq SlotHolders(c) \cup {r}
    BY <2>2 DEF SlotHolders
  <2>4. \A c : c # CodeOf[r] => SlotHolders(c)' \subseteq SlotHolders(c)
    BY <2>2 DEF SlotHolders
  <2>5. \A c : UsagesOf(c)' = UsagesOf(c)
    BY <2>1 DEF TakeSlot, UsagesOf
  <2>. QED
    BY <1>a, <1>b, <2>1, <2>3, <2>4, <2>5, SlotTaken DEF HoldersKept
<1>2. CASE RecordUsage(r)
  <2>1. /\ InsertUsage(UsageRow(r)) /\ HasCode(r) /\ pc[r] = "usage"
        /\ pc' = [pc EXCEPT ![r] = "placed"] /\ drawn' = drawn
    BY <1>2, <1>a DEF RecordUsage, CheckoutPlaced, Goto
  <2>2. HoldsSlot(r) /\ ~ HoldsSlot(r)' /\ \A q \in Requests : HoldsSlot(q)' => HoldsSlot(q)
    BY <2>1, <1>a DEF HoldsSlot, HasCode, CheckoutTypeOK
  <2>3. /\ r \in SlotHolders(CodeOf[r]) /\ r \notin SlotHolders(CodeOf[r])'
        /\ \A c : SlotHolders(c)' \subseteq SlotHolders(c)
    BY <2>2 DEF SlotHolders
  <2>. QED
    BY <1>a, <1>b, <2>1, <2>3, SlotBecomesRow
<1>3. CASE GiveSlotBack(r) \/ UndoSlot(r)
  <2>1. /\ TryReleaseSlot(CodeOf[r]) /\ HasCode(r) /\ pc[r] \in {"giveback", "unslot"}
        /\ pc' = [pc EXCEPT ![r] = "placed"] \/ pc' = [pc EXCEPT ![r] = "rejected"]
        /\ drawn' = drawn
    BY <1>3, <1>a DEF GiveSlotBack, UndoSlot, CheckoutPlaced, Goto
  <2>2. HoldsSlot(r) /\ ~ HoldsSlot(r)' /\ \A q \in Requests : HoldsSlot(q)' => HoldsSlot(q)
    BY <2>1, <1>a DEF HoldsSlot, HasCode, CheckoutTypeOK
  <2>3. usages' = usages
    BY <2>1 DEF TryReleaseSlot, ReleaseSlot, promotionVars
  <2>4. /\ r \in SlotHolders(CodeOf[r]) /\ r \notin SlotHolders(CodeOf[r])'
        /\ \A c : HoldersKept(c)
    BY <1>b, <2>2, <2>3 DEF SlotHolders, HoldersKept, UsagesOf
  <2>5. CodeOf[r] \in Codes
    BY <2>1, <1>a DEF HasCode
  <2>6. CASE ReleaseSlot(CodeOf[r])
    BY <1>a, <2>4, <2>5, <2>6, SlotsReleased
  <2>7. CASE UNCHANGED promotionVars
    BY <1>a, <2>4, <2>7, SlotsKept DEF promotionVars
  <2>. QED
    BY <2>1, <2>6, <2>7 DEF TryReleaseSlot
<1>4. CASE /\ Begin(r) \/ CheckoutStep(r)
           /\ ~ TakePromotionSlot(r) /\ ~ RecordUsage(r) /\ ~ GiveSlotBack(r) /\ ~ UndoSlot(r)
  <2>1. UNCHANGED promotionVars
    BY <1>4 DEF CheckoutStep, Begin, ReserveLine, ReserveRefused, ReserveUnrecorded, CheckPromotion,
       RejectPromotion, SlotGone, DrawNumber, DrawNumberFails, InsertOrder,
       InsertRefused, RecordUsageFails, UndoLine, EndUndo
  <2>2. \A q \in Requests : HoldsSlot(q)' => HoldsSlot(q)
    <3>1. CASE Begin(r) \/ ReserveLine(r) \/ ReserveRefused(r) \/ ReserveUnrecorded(r) \/ CheckPromotion(r)
      BY <3>1, <1>a DEF Begin, ReserveLine, AfterReserve, ReserveRefused, ReserveUnrecorded, CheckPromotion,
                        HoldsSlot, HasCode, CheckoutTypeOK, CheckoutCoherent, Goto
    <3>2. CASE RejectPromotion(r) \/ SlotGone(r) \/ DrawNumber(r) \/ DrawNumberFails(r)
      BY <3>2, <1>a DEF RejectPromotion, SlotGone, DrawNumber, DrawNumberFails,
                        HoldsSlot, HasCode, CheckoutTypeOK, CheckoutCoherent, Goto
    <3>3. CASE InsertOrder(r) \/ InsertRefused(r) \/ RecordUsageFails(r) \/ UndoLine(r) \/ EndUndo(r)
      BY <3>3, <1>a DEF InsertOrder, InsertRefused, RecordUsageFails, UndoLine, EndUndo,
                        HoldsSlot, HasCode, CheckoutTypeOK, CheckoutCoherent, Goto
    <3>. QED
      BY <1>4, <3>1, <3>2, <3>3 DEF CheckoutStep
  <2>3. \A c : HoldersKept(c)
    BY <1>b, <2>1, <2>2 DEF HoldersKept, SlotHolders, UsagesOf, promotionVars
  <2>. QED
    BY <1>a, <2>1, <2>3, SlotsKept DEF promotionVars
<1>. QED
  BY <1>1, <1>2, <1>3, <1>4

\* So does a step of a cancellation.
LEMMA CancelSlots ==
  ASSUME Coherent, SlotInv, NEW k \in Cancels,
         CancelStep(k) \/ \E r \in Requests : CancelRead(k, r)
  PROVE  SlotInv'
<1>a. CancelTypeOK /\ PromotionTypeOK /\ CancelPlaced /\ CancelCoherent
  BY DEF Coherent, TypeInv, TypeOK
<1>b. \A c : SlotHolders(c)' = SlotHolders(c)
  <2>1. UNCHANGED <<pc, drawn>>
    BY DEF CancelStep, CancelRead, CancelSwap, CancelConflict, CancelRelease, RevokeFind, RevokeRemove,
       RevokeSlot, RevokeFails, checkoutVars
  <2>. QED
    BY <2>1 DEF SlotHolders, HoldsSlot
<1>1. CASE RevokeRemove(k)
  <2> PICK r \in Requests : r = ctarget[k]
    BY <1>1, <1>a DEF RevokeRemove, CancelTypeOK
  <2>1. /\ RemoveUsage(UsageRow(r)) /\ UsageRow(r) \in usages /\ ctarget' = ctarget
        /\ cpc' = [cpc EXCEPT ![k] = "giveback"]
    BY <1>1, <1>a DEF RevokeRemove, CancelCoherent, CGoto
  <2>2. /\ Revokers(CodeOf[r])' \subseteq Revokers(CodeOf[r]) \cup {k}
        /\ \A c : c # CodeOf[r] => Revokers(c)' \subseteq Revokers(c)
    BY <2>1, <1>a DEF Revokers, CancelTypeOK
  <2>. QED
    BY <1>a, <1>b, <2>1, <2>2, RowBecomesSlot
<1>2. CASE RevokeSlot(k)
  <2> PICK d \in Codes : d = CodeOf[ctarget[k]]
    BY <1>2, <1>a, OrdersAssumption DEF RevokeSlot, CancelTypeOK, CancelPlaced, HasCode
  <2>1. ReleaseSlot(d) /\ ctarget' = ctarget /\ cpc[k] = "giveback" /\ cpc' = [cpc EXCEPT ![k] = "done"]
    BY <1>2 DEF RevokeSlot, CGoto
  <2>2. k \in Revokers(d) /\ k \notin Revokers(d)' /\ \A c : Revokers(c)' \subseteq Revokers(c)
    BY <2>1, <1>a DEF Revokers, CancelTypeOK
  <2>3. \A c : HoldersKept(c)
    BY <2>1, <2>2, <1>b DEF HoldersKept, ReleaseSlot, UsagesOf
  <2>. QED
    BY <1>a, <2>1, <2>2, <2>3, SlotsReleased
<1>3. CASE \/ \E r \in Requests : CancelRead(k, r)
           \/ CancelStep(k) /\ ~ RevokeRemove(k) /\ ~ RevokeSlot(k)
  <2>1. /\ UNCHANGED promotionVars
        /\ \A j \in Cancels : cpc'[j] = "giveback" => cpc[j] = "giveback" /\ ctarget'[j] = ctarget[j]
    BY <1>3, <1>a DEF CancelStep, CancelRead, CancelSwap, CancelConflict, CancelRelease, AfterRelease,
       RevokeFind, RevokeFails, CGoto, CancelTypeOK
  <2>2. \A c : HoldersKept(c)
    BY <2>1, <1>b DEF HoldersKept, Revokers, UsagesOf, promotionVars
  <2>. QED
    BY <1>a, <2>1, <2>2, SlotsKept DEF promotionVars
<1>. QED
  BY <1>1, <1>2, <1>3

\* So do staff, adjustments and crashes.
LEMMA OtherSlots ==
  ASSUME Coherent, SlotInv,
         \/ \E a \in Admins : \/ \E r \in Requests : StaffRead(a, r)
                              \/ \E to \in Statuses : StaffWrite(a, to)
         \/ \E s \in Skus, delta \in Deltas : Adjust(s, delta)
         \/ Crash
         \/ UNCHANGED vars
  PROVE  SlotInv'
<1>a. CheckoutTypeOK /\ CancelTypeOK /\ PromotionTypeOK
  BY DEF Coherent, TypeInv, TypeOK
<1>1. UNCHANGED <<promotionVars, drawn, ctarget>>
  BY DEF StaffRead, StaffWrite, Adjust, Crash, vars, promotionVars, checkoutVars, cancelVars
<1>2. \A r \in Requests : HoldsSlot(r)' => HoldsSlot(r)
  BY <1>1, <1>a DEF StaffRead, StaffWrite, Adjust, Crash, vars, checkoutVars, HoldsSlot, Ended, CheckoutTypeOK
<1>3. \A k \in Cancels : cpc'[k] = "giveback" => cpc[k] = "giveback"
  BY <1>a DEF StaffRead, StaffWrite, Adjust, Crash, vars, cancelVars, CancelTypeOK
<1>4. \A c : HoldersKept(c)
  BY <1>1, <1>2, <1>3 DEF HoldersKept, SlotHolders, UsagesOf, Revokers, promotionVars
<1>. QED
  BY <1>a, <1>1, <1>4, SlotsKept DEF promotionVars

\* Slots are always covered and within the limit.
LEMMA AlwaysSlotInv == Spec /\ CancelledStaysCancelled => []SlotInv
<1>1. Init => Coherent /\ SlotInv
  <2> SUFFICES ASSUME Init PROVE SlotInv
    BY InitCoherent
  <2>1. IsFiniteSet(usages)
    BY FS_EmptySet DEF Init
  <2>2. ASSUME NEW c \in Codes
        PROVE  usedCount[c] = 0 /\ SlotsHeld(c) = 0
    <3>1. SlotHolders(c) = {} /\ UsagesOf(c) = {} /\ Revokers(c) = {}
      BY DEF Init, SlotHolders, HoldsSlot, UsagesOf, Revokers
    <3>2. SlotsHeld(c) = 0
      BY <3>1, FS_EmptySet DEF SlotsHeld
    <3>. QED
      BY <3>2 DEF Init
  <2>. QED
    BY <2>1, <2>2, LimitAssumption DEF SlotInv, SlotsNeverUndercounted, CountWithinLimit
<1>2. ASSUME Coherent, SlotInv, [Next]_vars, [NoRevival]_vars
      PROVE  (Coherent /\ SlotInv)'
  <2>1. Coherent'
    BY <1>2, NextCoherent
  <2>. QED
    BY <1>2, <2>1, CheckoutSlots, CancelSlots, OtherSlots DEF Next
<1>. QED
  BY <1>1, <1>2, PTL DEF Spec, CancelledStaysCancelled, NoRevival

\* Whatever faults, crashes and interleavings happen, used_count covers every
\* checkout that has taken a slot, every usage row and every cancellation that
\* is about to count down, unless a cancelled order is brought back to life.
THEOREM SlotsCovered == Spec /\ CancelledStaysCancelled => []SlotsNeverUndercounted
<1>1. SlotInv => SlotsNeverUndercounted
  BY DEF SlotInv
<1>. QED
  BY <1>1, AlwaysSlotInv, PTL

\* A code is never recorded for more orders than its usage_limit: validate()
\* may be stale, the conditional UPDATE of reserveAndCalculate is not.
THEOREM CodesWithinLimit == Spec /\ CancelledStaysCancelled => []UsageLimitKept
<1>1. TypeInv /\ SlotInv => UsageLimitKept
  <2> SUFFICES ASSUME TypeInv, SlotInv, NEW c \in Codes, UsageLimit[c] # 0
               PROVE  Cardinality(UsagesOf(c)) <= UsageLimit[c]
    BY DEF UsageLimitKept
  <2>1. usedCount[c] >= SlotsHeld(c) /\ usedCount[c] <= UsageLimit[c]
    BY DEF SlotInv, SlotsNeverUndercounted, CountWithinLimit
  <2>2. Cardinality(SlotHolders(c)) \in Nat /\ Cardinality(UsagesOf(c)) \in Nat
        /\ Cardinality(Revokers(c)) \in Nat
    BY SlotSetsFinite, FS_CardinalityType DEF SlotInv
  <2>3. usedCount[c] \in Nat /\ UsageLimit[c] \in Nat
    BY LimitAssumption DEF TypeInv, TypeOK, PromotionTypeOK
  <2>. QED
    BY <2>1, <2>2, <2>3 DEF SlotsHeld
<1>. QED
  BY <1>1, AlwaysTypeInv, AlwaysSlotInv, PTL

-----------------------------------------------------------------------------
(* Cancellation against staff.                                             *)

\* Only InsertOrder, CancelSwap and StaffWrite write the status.
LEMMA StatusWrites ==
  ASSUME Coherent, Next
  PROVE  \/ status' = status
         \/ \E r \in Requests : status[r] = NoOrder /\ status' = [status EXCEPT ![r] = "pending"]
         \/ \E k \in Cancels : CancelSwap(k)
         \/ \E a \in Admins, to \in Statuses : StaffWrite(a, to)
<1>1. ASSUME NEW r \in Requests, Begin(r) \/ CheckoutStep(r)
      PROVE  status' = status \/ (status[r] = NoOrder /\ status' = [status EXCEPT ![r] = "pending"])
  BY <1>1 DEF CheckoutStep, Begin, ReserveLine, ReserveRefused, ReserveUnrecorded, CheckPromotion,
     RejectPromotion, TakePromotionSlot, SlotGone, DrawNumber, DrawNumberFails, InsertOrder,
     InsertRefused, RecordUsage, RecordUsageFails, GiveSlotBack, UndoLine, EndUndo, UndoSlot,
     orderVars, Coherent, HasRow
<1>2. ASSUME NEW k \in Cancels, CancelStep(k) \/ \E r \in Requests : CancelRead(k, r), ~ CancelSwap(k)
      PROVE  status' = status
  BY <1>2 DEF CancelStep, CancelRead, CancelConflict, CancelRelease, RevokeFind, RevokeRemove,
     RevokeSlot, RevokeFails, orderVars
<1>3. ASSUME \/ \E a \in Admins, r \in Requests : StaffRead(a, r)
             \/ \E s \in Skus, delta \in Deltas : Adjust(s, delta)
             \/ Crash
      PROVE  status' = status
  BY <1>3 DEF StaffRead, Adjust, Crash, orderVars
<1>. QED
  BY <1>1, <1>2, <1>3 DEF Next

\* Without updateStatus a cancelled order stays cancelled: the hypothesis of
\* the theorems about stock and codes is about staff only.
THEOREM OnlyStaffRevives ==
  ASSUME Admins = {}
  PROVE  Spec => CancelledStaysCancelled
<1>1. ASSUME Coherent, Next PROVE NoRevival
  <2>a. OrderTypeOK /\ CancelTypeOK
    BY <1>1 DEF Coherent, TypeInv, TypeOK
  <2>1. ASSUME NEW k \in Cancels, CancelSwap(k) PROVE NoRevival
    BY <2>1, <2>a DEF CancelSwap, NoRevival, OrderTypeOK
  <2>2. ASSUME NEW r \in Requests, status[r] = NoOrder, status' = [status EXCEPT ![r] = "pending"]
        PROVE  NoRevival
    BY <2>2, <2>a DEF NoRevival, OrderTypeOK, NoOrder
  <2>. QED
    BY <1>1, <2>1, <2>2, StatusWrites DEF NoRevival
<1>2. Coherent /\ [Next]_vars => Coherent' /\ [NoRevival]_vars
  BY <1>1, NextCoherent
<1>. QED
  BY InitCoherent, <1>2, PTL DEF Spec, CancelledStaysCancelled, NoRevival

\* cancelOrder never cancels an order that was delivered after it read it, as
\* long as staff do not set the status "cancelled" themselves.
THEOREM DeliveredStaysDelivered ==
  ASSUME \A move \in StaffMoves : move[2] # "cancelled"
  PROVE  Spec => DeliveredNotCancelled
<1> DEFINE SeenOpen == \A k \in Cancels : cpc[k] = "swap" => cseen[k] # "delivered"
           Kept == \A r \in Requests : status[r] = "delivered" => status'[r] # "cancelled"
<1>1. Init => SeenOpen
  BY DEF Init
<1>2. ASSUME TypeInv, SeenOpen, [Next]_vars PROVE SeenOpen'
  <2>a. CancelTypeOK
    BY <1>2 DEF TypeInv, TypeOK
  <2>1. ASSUME NEW k \in Cancels, CancelStep(k) \/ \E r \in Requests : CancelRead(k, r)
        PROVE  SeenOpen'
    BY <2>1, <1>2, <2>a DEF CancelStep, CancelRead, CancelSwap, CancelConflict, CancelRelease, AfterRelease,
       RevokeFind, RevokeRemove, RevokeSlot, RevokeFails, CGoto, CancelTypeOK
  <2>2. CASE UNCHANGED <<cpc, cseen>>
    BY <1>2, <2>2
  <2>3. ASSUME NEW r \in Requests, Begin(r) \/ CheckoutStep(r) PROVE UNCHANGED <<cpc, cseen>>
    BY <2>3 DEF CheckoutStep, Begin, ReserveLine, ReserveRefused, ReserveUnrecorded, CheckPromotion,
       RejectPromotion, TakePromotionSlot, SlotGone, DrawNumber, DrawNumberFails, InsertOrder,
       InsertRefused, RecordUsage, RecordUsageFails, GiveSlotBack, UndoLine, EndUndo, UndoSlot, cancelVars
  <2>4. CASE Crash
    BY <1>2, <2>4, <2>a DEF Crash, CancelTypeOK
  <2>5. ASSUME \/ \E a \in Admins : \/ \E r \in Requests : StaffRead(a, r)
                                    \/ \E to \in Statuses : StaffWrite(a, to)
               \/ \E s \in Skus, delta \in Deltas : Adjust(s, delta)
               \/ UNCHANGED vars
        PROVE  UNCHANGED <<cpc, cseen>>
    BY <2>5 DEF StaffRead, StaffWrite, Adjust, vars, cancelVars
  <2>. QED
    BY <1>2, <2>1, <2>2, <2>3, <2>4, <2>5 DEF Next
<1>3. ASSUME TypeInv, HasRow, SeenOpen, Next PROVE Kept
  <2>a. OrderTypeOK /\ CancelTypeOK
    BY <1>3 DEF TypeInv, TypeOK
  <2>1. ASSUME NEW k \in Cancels, CancelSwap(k) PROVE Kept
    BY <1>3, <2>1, <2>a DEF CancelSwap, OrderTypeOK, CancelTypeOK
  <2>2. ASSUME NEW a \in Admins, NEW to \in Statuses, StaffWrite(a, to) PROVE Kept
    <3>1. to # "cancelled"
      BY <2>2 DEF StaffWrite
    <3>. QED
      BY <2>2, <2>a, <3>1 DEF StaffWrite, OrderTypeOK
  <2>3. ASSUME NEW r \in Requests, Begin(r) \/ CheckoutStep(r) PROVE Kept
    <3>1. status' = status \/ status' = [status EXCEPT ![r] = "pending"]
      BY <2>3 DEF CheckoutStep, Begin, ReserveLine, ReserveRefused, ReserveUnrecorded, CheckPromotion,
         RejectPromotion, TakePromotionSlot, SlotGone, DrawNumber, DrawNumberFails, InsertOrder,
         InsertRefused, RecordUsage, RecordUsageFails, GiveSlotBack, UndoLine, EndUndo, UndoSlot, orderVars
    <3>. QED
      BY <3>1, <2>a DEF OrderTypeOK
  <2>4. CASE status' = status
    BY <2>4
  <2>5. ASSUME \/ \E k \in Cancels : /\ CancelStep(k) \/ \E r \in Requests : CancelRead(k, r)
                                     /\ ~ CancelSwap(k)
               \/ \E a \in Admins, r \in Requests : StaffRead(a, r)
               \/ \E s \in Skus, delta \in Deltas : Adjust(s, delta)
               \/ Crash
        PROVE  status' = status
    BY <2>5 DEF CancelStep, CancelRead, CancelConflict, CancelRelease, RevokeFind, RevokeRemove,
       RevokeSlot, RevokeFails, StaffRead, Adjust, Crash, orderVars
  <2>. QED
    BY <1>3, <2>1, <2>2, <2>3, <2>4, <2>5 DEF Next
<1>4. TypeInv /\ HasRow /\ [Next]_vars => HasRow'
  BY OrdersStep DEF HasRow, vars
<1>5. Init => TypeInv /\ HasRow
  BY InitTypeInv DEF Init, HasRow
<1>6. TypeInv /\ HasRow /\ SeenOpen /\ [Next]_vars
        => TypeInv' /\ HasRow' /\ SeenOpen' /\ [Kept]_vars
  BY <1>2, <1>3, <1>4, NextTypeInv
<1>. QED
  BY <1>1, <1>5, <1>6, PTL DEF Spec, DeliveredNotCancelled
-----------------------------------------------------------------------------
(***************************************************************************)
(* Without faults nothing leaks either: the inequalities are equalities.   *)
(***************************************************************************)

\* A checkout that has not failed in between: whatever it gives up it has given
\* back, it has an order when it is through, and its usage row comes last.
Unbroken ==
  \A r \in Requests :
    /\ pc[r] \in {"unslot", "rejected"} => back[r] = got[r]
    /\ pc[r] \in {"usage", "giveback", "placed"} => status[r] # NoOrder
    /\ pc[r] # "dead"
    /\ pc[r] = "insert" => drawn[r] # 0
    /\ UsageRow(r) \in usages => pc[r] = "placed"

\* Without faults no statement fails.
LEMMA NoFault == ASSUME Faults = {}, NEW f PROVE ~ Fault(f)
BY DEF Fault

\* A checkout that meets no fault stays unbroken.
LEMMA CheckoutUnbroken ==
  ASSUME Coherent, Unbroken, Faults = {}, NEW r \in Requests, Begin(r) \/ CheckoutStep(r)
  PROVE  Unbroken'
<1>a. CheckoutTypeOK /\ OrderTypeOK /\ CheckoutPlaced
  BY DEF Coherent, TypeInv, TypeOK
<1> USE <1>a, NoFault DEF Unbroken, CheckoutTypeOK, Goto, UsageRow
<1>1. CASE Begin(r) \/ ReserveLine(r) \/ ReserveRefused(r) \/ ReserveUnrecorded(r)
  BY <1>1 DEF Begin, ReserveLine, AfterReserve, ReserveRefused, ReserveUnrecorded, orderVars, promotionVars
<1>2. CASE CheckPromotion(r) \/ RejectPromotion(r) \/ TakePromotionSlot(r) \/ SlotGone(r)
  BY <1>2 DEF CheckPromotion, RejectPromotion, TakePromotionSlot, TakeSlot, SlotGone, orderVars, promotionVars
<1>3. CASE DrawNumber(r)
  <2>1. Cardinality(Orders) + 1 # 0
    BY OrdersFinite
  <2>. QED
    BY <1>3, <2>1 DEF DrawNumber, orderVars, promotionVars
<1>4. CASE DrawNumberFails(r) \/ RecordUsageFails(r)
  BY <1>4 DEF DrawNumberFails, RecordUsageFails
<1>5. CASE InsertOrder(r) \/ InsertRefused(r)
  BY <1>5 DEF InsertOrder, InsertRefused, OrderTypeOK, NoOrder, orderVars, promotionVars
<1>6. CASE RecordUsage(r)
  BY <1>6 DEF RecordUsage, InsertUsage, orderVars
<1>7. CASE GiveSlotBack(r) \/ UndoSlot(r)
  BY <1>7 DEF GiveSlotBack, UndoSlot, TryReleaseSlot, ReleaseSlot, orderVars, promotionVars
<1>8. CASE UndoLine(r) \/ EndUndo(r)
  BY <1>8 DEF UndoLine, EndUndo, orderVars, promotionVars
<1>. QED
  BY <1>1, <1>2, <1>3, <1>4, <1>5, <1>6, <1>7, <1>8 DEF CheckoutStep

\* Without faults every step leaves checkouts unbroken.
LEMMA NextUnbroken ==
  ASSUME Coherent, Unbroken, Faults = {}, [Next]_vars
  PROVE  Unbroken'
<1>a. CheckoutTypeOK /\ OrderTypeOK /\ CancelTypeOK /\ StaffTypeOK
  BY DEF Coherent, TypeInv, TypeOK
<1>1. ASSUME NEW k \in Cancels, CancelStep(k) \/ \E r \in Requests : CancelRead(k, r)
      PROVE  Unbroken'
  <2>1. UNCHANGED checkoutVars /\ usages' \subseteq usages
    BY <1>1 DEF CancelStep, CancelRead, CancelSwap, CancelConflict, CancelRelease, RevokeFind, RevokeRemove,
       RemoveUsage, RevokeSlot, ReleaseSlot, RevokeFails, promotionVars
  <2>2. \A r \in Requests : status[r] # NoOrder => status'[r] # NoOrder
    <3>1. CASE CancelSwap(k)
      BY <3>1, <1>a DEF CancelSwap, OrderTypeOK, NoOrder
    <3>2. CASE ~ CancelSwap(k)
      BY <1>1, <3>2 DEF CancelStep, CancelRead, CancelConflict, CancelRelease, RevokeFind, RevokeRemove,
         RevokeSlot, RevokeFails, orderVars
    <3>. QED
      BY <3>1, <3>2
  <2>. QED
    BY <2>1, <2>2 DEF Unbroken, UsageRow, checkoutVars
<1>2. ASSUME NEW a \in Admins, NEW to \in Statuses, StaffWrite(a, to) PROVE Unbroken'
  <2>1. \A r \in Requests : status[r] # NoOrder => status'[r] # NoOrder
    BY <1>2, <1>a DEF StaffWrite, OrderTypeOK, NoOrder, Statuses
  <2>. QED
    BY <1>2, <2>1 DEF StaffWrite, Unbroken, UsageRow, checkoutVars, promotionVars
<1>3. ASSUME NEW a \in Admins, NEW r \in Requests, StaffRead(a, r) PROVE Unbroken'
  BY <1>3 DEF StaffRead, Unbroken, UsageRow, checkoutVars, orderVars, promotionVars
<1>4. ASSUME NEW s \in Skus, NEW delta \in Deltas, Adjust(s, delta) PROVE Unbroken'
  BY <1>4 DEF Adjust, Unbroken, UsageRow, checkoutVars, orderVars, promotionVars
<1>5. ~ Crash
  BY NoFault DEF Crash
<1>6. CASE UNCHANGED vars
  BY <1>6 DEF vars, Unbroken, UsageRow
<1>. QED
  BY <1>1, <1>2, <1>3, <1>4, <1>5, <1>6, CheckoutUnbroken DEF Next

-----------------------------------------------------------------------------
(* Whatever is reserved is held.                                           *)

StockNotOvercounted == \A s \in Skus : reserved[s] <= Cardinality(HeldUnits(s))

\* No line but one of a set ceases to be held.
HeldShrinksBy(r, i) ==
  \A q, j : IsLine(q, j) /\ Held(q, j) => Held(q, j)' \/ <<q, j>> = <<r, i>>

\* What a step without fault does to the stock and to who answers for it.
ExactEffect ==
  \/ reserved' = reserved /\ HeldNotShrinking
  \/ \E r, i : /\ IsLine(r, i)
               /\ ReserveStock(LinesOf[r][i].sku, LinesOf[r][i].qty)
               /\ HeldNotShrinking /\ ~ Held(r, i) /\ Held(r, i)'
  \/ \E r, i : /\ IsLine(r, i)
               /\ ReleaseStock(LinesOf[r][i].sku, LinesOf[r][i].qty)
               /\ HeldShrinksBy(r, i) /\ Held(r, i)

\* No more is reserved than is held when no line ceases to be held and the
\* counter stays.
LEMMA NotOvercountedKept ==
  ASSUME InventoryTypeOK, StockNotOvercounted, reserved' = reserved, HeldNotShrinking
  PROVE  StockNotOvercounted'
<1> SUFFICES ASSUME NEW s \in Skus
             PROVE  reserved'[s] <= Cardinality(HeldUnits(s)')
  BY DEF StockNotOvercounted
<1>1. HeldUnits(s) \in SUBSET HeldUnits(s)'
  <2>1. ASSUME NEW u \in Units, SkuOf(u) = s, Held(u[1], u[2])
        PROVE  Held(u[1], u[2])'
    BY <2>1, UnitOfLine DEF HeldNotShrinking
  <2>. QED
    BY <2>1 DEF HeldUnits, Units, SkuOf
<1>2. Cardinality(HeldUnits(s)) <= Cardinality(HeldUnits(s)')
  BY <1>1, HeldFiniteNext, FS_Subset
<1>3. reserved[s] <= Cardinality(HeldUnits(s)) /\ reserved[s] \in Nat
  BY DEF StockNotOvercounted, InventoryTypeOK
<1>. QED
  BY <1>2, <1>3, HeldFinite, HeldFiniteNext

\* Nor when a line is reserved and newly held.
LEMMA NotOvercountedReserved ==
  ASSUME InventoryTypeOK, StockNotOvercounted, NEW r, NEW i, IsLine(r, i),
         ReserveStock(LinesOf[r][i].sku, LinesOf[r][i].qty),
         HeldNotShrinking, ~ Held(r, i), Held(r, i)'
  PROVE  StockNotOvercounted'
<1> SUFFICES ASSUME NEW s \in Skus
             PROVE  reserved'[s] <= Cardinality(HeldUnits(s)')
  BY DEF StockNotOvercounted
<1> DEFINE line == LineUnits(r, i)
           qty == LinesOf[r][i].qty
<1>a. LinesOf[r][i].sku \in Skus /\ qty \in Nat
  BY LineType DEF IsLine
<1>b. /\ reserved[s] <= Cardinality(HeldUnits(s)) /\ reserved[s] \in Nat
      /\ IsFiniteSet(HeldUnits(s)) /\ Cardinality(HeldUnits(s)) \in Nat
      /\ IsFiniteSet(HeldUnits(s)') /\ Cardinality(HeldUnits(s)') \in Nat
  BY HeldFinite, HeldFiniteNext DEF StockNotOvercounted, InventoryTypeOK
<1>c. IsFiniteSet(line) /\ Cardinality(line) = qty
  BY LineUnitsCount
<1>1. HeldUnits(s) \subseteq HeldUnits(s)'
  <2>1. ASSUME NEW u \in Units, SkuOf(u) = s, Held(u[1], u[2])
        PROVE  Held(u[1], u[2])'
    BY <2>1, UnitOfLine DEF HeldNotShrinking
  <2>. QED
    BY <2>1 DEF HeldUnits, Units, SkuOf
<1>2. CASE s = LinesOf[r][i].sku
  <2>a. ASSUME NEW u, u \in line PROVE u \in Units /\ u[1] = r /\ u[2] = i
    BY <2>a, LineUnitsAreUnits, UnitOfLine
  <2>1. line \subseteq HeldUnits(s)'
    <3>1. ASSUME NEW u, u \in line PROVE u \in Units /\ SkuOf(u) = s /\ Held(u[1], u[2])'
      BY <2>a, <1>2, <3>1 DEF SkuOf
    <3>. QED
      BY <3>1 DEF HeldUnits, Units, SkuOf
  <2>2. HeldUnits(s) \cap line = {}
    <3>1. ASSUME NEW u, u \in line PROVE u \notin HeldUnits(s)
      BY <2>a, <3>1 DEF HeldUnits
    <3>. QED
      BY <3>1
  <2>3. Cardinality(HeldUnits(s) \cup line) = Cardinality(HeldUnits(s)) + qty
    <3> HIDE DEF line, qty
    <3>1. Cardinality(HeldUnits(s) \cap line) = 0
      BY <2>2, FS_EmptySet
    <3>2. Cardinality(HeldUnits(s) \cup line) =
             Cardinality(HeldUnits(s)) + Cardinality(line) - Cardinality(HeldUnits(s) \cap line)
      BY <1>b, <1>c, FS_Union
    <3>. QED
      BY <1>a, <1>b, <1>c, <3>1, <3>2
  <2>4. HeldUnits(s) \cup line \in SUBSET HeldUnits(s)'
    BY <1>1, <2>1
  <2>5. Cardinality(HeldUnits(s) \cup line) <= Cardinality(HeldUnits(s)')
    <3> HIDE DEF line, qty
    <3>. QED
      BY <1>b, <2>4, FS_Subset
  <2>6. reserved'[s] = reserved[s] + qty
    BY <1>2, <1>a DEF ReserveStock, InventoryTypeOK
  <2> HIDE DEF line, qty
  <2>. QED
    BY <2>3, <2>5, <2>6, <1>a, <1>b
<1>3. CASE s # LinesOf[r][i].sku
  <2>1. Cardinality(HeldUnits(s)) <= Cardinality(HeldUnits(s)')
    BY <1>1, <1>b, FS_Subset
  <2>2. reserved'[s] = reserved[s]
    BY <1>3, <1>a DEF ReserveStock, InventoryTypeOK
  <2>. QED
    BY <2>1, <2>2, <1>b
<1>. QED
  BY <1>2, <1>3

\* The units released are among those reserved, so that the floor of
\* releaseStock has nothing to do.
LEMMA NotOvercountedReleased ==
  ASSUME InventoryTypeOK, StockNotOvercounted, StockNeverUndercounted, NEW r, NEW i, IsLine(r, i),
         ReleaseStock(LinesOf[r][i].sku, LinesOf[r][i].qty), HeldShrinksBy(r, i), Held(r, i)
  PROVE  StockNotOvercounted'
<1> SUFFICES ASSUME NEW s \in Skus
             PROVE  reserved'[s] <= Cardinality(HeldUnits(s)')
  BY DEF StockNotOvercounted
<1> DEFINE line == LineUnits(r, i)
           qty == LinesOf[r][i].qty
<1>a. LinesOf[r][i].sku \in Skus /\ qty \in Nat
  BY LineType DEF IsLine
<1>b. /\ reserved[s] = Cardinality(HeldUnits(s)) /\ reserved[s] \in Nat
      /\ IsFiniteSet(HeldUnits(s)) /\ Cardinality(HeldUnits(s)) \in Nat
      /\ IsFiniteSet(HeldUnits(s)') /\ Cardinality(HeldUnits(s)') \in Nat
  BY HeldFinite, HeldFiniteNext DEF StockNotOvercounted, StockNeverUndercounted, InventoryTypeOK
<1>c. IsFiniteSet(line) /\ Cardinality(line) = qty
  BY LineUnitsCount
<1>1. ASSUME NEW u \in Units, SkuOf(u) = s, Held(u[1], u[2])
      PROVE  Held(u[1], u[2])' \/ (u \in line /\ s = LinesOf[r][i].sku)
  BY <1>1, UnitOfLine DEF HeldShrinksBy, SkuOf
<1>2. CASE s = LinesOf[r][i].sku
  <2>1. line \subseteq HeldUnits(s)
    <3>1. ASSUME NEW u, u \in line PROVE u \in HeldUnits(s)
      <4>1. u \in Units /\ u[1] = r /\ u[2] = i
        BY <3>1, LineUnitsAreUnits, UnitOfLine
      <4>2. SkuOf(u) = s /\ Held(u[1], u[2])
        BY <4>1, <1>2 DEF SkuOf
      <4>. QED
        BY <4>1, <4>2 DEF HeldUnits
    <3>. QED
      BY <3>1
  <2>2. /\ IsFiniteSet(HeldUnits(s) \ line)
        /\ Cardinality(HeldUnits(s) \ line) = Cardinality(HeldUnits(s)) - qty
    <3>1. HeldUnits(s) \cap line = line
      BY <2>1
    <3>2. IsFiniteSet(HeldUnits(s))
      BY <1>b
    <3>3. /\ IsFiniteSet(HeldUnits(s) \ line)
          /\ Cardinality(HeldUnits(s) \ line) = Cardinality(HeldUnits(s)) - Cardinality(HeldUnits(s) \cap line)
      BY <3>2, FS_Difference, <1>c
    <3> HIDE DEF line, qty
    <3>. QED
      BY <1>c, <3>1, <3>3
  <2>3. HeldUnits(s) \ line \in SUBSET HeldUnits(s)'
    BY <1>1 DEF HeldUnits, Units, SkuOf
  <2>4. Cardinality(HeldUnits(s) \ line) <= Cardinality(HeldUnits(s)')
    <3> HIDE DEF line, qty
    <3>. QED
      BY <1>b, <2>3, FS_Subset
  <2>5. qty <= Cardinality(HeldUnits(s))
    <3> HIDE DEF line, qty
    <3>. QED
      BY <1>b, <1>c, <2>1, FS_Subset
  <2>6. reserved'[s] = reserved[s] - qty
    BY <1>2, <1>a, <1>b, <2>5 DEF ReleaseStock, FloorSub, InventoryTypeOK
  <2> HIDE DEF line, qty
  <2>. QED
    BY <2>2, <2>4, <2>6, <1>a, <1>b
<1>3. CASE s # LinesOf[r][i].sku
  <2>1. HeldUnits(s) \in SUBSET HeldUnits(s)'
    BY <1>1, <1>3 DEF HeldUnits, Units, SkuOf
  <2>2. Cardinality(HeldUnits(s)) <= Cardinality(HeldUnits(s)')
    BY <2>1, <1>b, FS_Subset
  <2>3. reserved'[s] = reserved[s]
    BY <1>3, <1>a DEF ReleaseStock, InventoryTypeOK
  <2>. QED
    BY <2>2, <2>3, <1>b
<1>. QED
  BY <1>2, <1>3

\* Without faults, a step of a checkout does to the stock one of the things
\* ExactEffect lists.
LEMMA CheckoutExact ==
  ASSUME Coherent, Unbroken, Faults = {}, NEW r \in Requests, Begin(r) \/ CheckoutStep(r)
  PROVE  ExactEffect
<1>a. /\ CheckoutTypeOK /\ OrderTypeOK /\ CancelTypeOK /\ InventoryTypeOK
      /\ CheckoutPlaced /\ CheckoutCoherent /\ HasRow
  BY DEF Coherent, TypeInv, TypeOK
<1>b. got[r] \in Nat /\ back[r] \in Nat /\ Len(LinesOf[r]) \in Nat \ {0}
      /\ back[r] <= got[r] /\ got[r] <= Len(LinesOf[r])
  BY <1>a, LinesNonempty DEF CheckoutTypeOK, CheckoutPlaced
<1>1. CASE ReserveLine(r)
  <2> PICK i \in Nat : i = got[r] + 1
    BY <1>b
  <2>1. IsLine(r, i) /\ ReserveStock(LinesOf[r][i].sku, LinesOf[r][i].qty)
    BY <1>a, <1>b, <1>1 DEF IsLine, CheckoutPlaced, ReserveLine
  <2>2. /\ pc[r] = "reserve" /\ status[r] = NoOrder /\ back[r] = 0 /\ got[r] = i - 1
        /\ got' = [got EXCEPT ![r] = i] /\ UNCHANGED <<status, back, cpc, ctarget, cline>>
    BY <1>a, <1>b, <1>1 DEF ReserveLine, HasRow, CheckoutCoherent, orderVars, cancelVars
  <2>a. pc'[r] \notin Ended /\ \A q \in Requests : q # r => pc'[q] = pc[q]
    BY <1>a, <1>1 DEF ReserveLine, AfterReserve, Goto, CheckoutTypeOK, Ended
  <2>3. ~ Held(r, i) /\ Held(r, i)' /\ HeldNotShrinking
    BY <1>a, <1>b, <2>a, <2>2 DEF HeldNotShrinking, IsLine, Held, Live, NoOrder, CheckoutTypeOK, Ended
  <2>. QED
    BY <2>1, <2>3 DEF ExactEffect
<1>2. CASE UndoLine(r)
  <2> PICK i \in Nat : i = back[r] + 1
    BY <1>b
  <2>1. IsLine(r, i) /\ ReleaseStock(LinesOf[r][i].sku, LinesOf[r][i].qty)
    BY <1>b, <1>2, NoFault DEF IsLine, UndoLine
  <2>2. /\ status[r] = NoOrder /\ pc[r] = "undo" /\ back[r] < got[r]
        /\ back' = [back EXCEPT ![r] = i] /\ UNCHANGED <<status, pc, got, cpc, ctarget, cline>>
    BY <1>a, <1>2 DEF UndoLine, CheckoutCoherent, orderVars, cancelVars
  <2>3. Held(r, i) /\ HeldShrinksBy(r, i)
    BY <1>a, <1>b, <2>2 DEF HeldShrinksBy, IsLine, Held, Live, Ended, CheckoutTypeOK, NoOrder
  <2>. QED
    BY <2>1, <2>3 DEF ExactEffect
<1>3. CASE InsertOrder(r)
  <2>1. /\ status' = [status EXCEPT ![r] = "pending"] /\ UNCHANGED <<got, back, cpc, ctarget, cline>>
        /\ \A q \in Requests : q # r => pc'[q] = pc[q]
    BY <1>a, <1>3 DEF InsertOrder, Goto, CheckoutTypeOK, cancelVars
  <2>2. HeldNotShrinking
    BY <1>a, <2>1 DEF HeldNotShrinking, IsLine, Held, Live, OrderTypeOK, NoOrder
  <2>. QED
    BY <1>3, <2>2 DEF InsertOrder, ExactEffect, inventoryVars
<1>4. CASE ReserveUnrecorded(r) \/ DrawNumberFails(r) \/ RecordUsageFails(r)
  BY <1>4, NoFault DEF ReserveUnrecorded, DrawNumberFails, RecordUsageFails
<1>5. CASE \/ Begin(r) \/ ReserveRefused(r) \/ CheckPromotion(r) \/ RejectPromotion(r)
           \/ TakePromotionSlot(r) \/ SlotGone(r) \/ DrawNumber(r) \/ InsertRefused(r)
           \/ RecordUsage(r) \/ GiveSlotBack(r) \/ EndUndo(r) \/ UndoSlot(r)
  <2>1. UNCHANGED <<reserved, status, got, back, cpc, ctarget, cline>>
    BY <1>5 DEF Begin, ReserveRefused, CheckPromotion, RejectPromotion, TakePromotionSlot, SlotGone,
       DrawNumber, InsertRefused, RecordUsage, GiveSlotBack, EndUndo, UndoSlot, orderVars, cancelVars,
       inventoryVars
  <2>2. /\ \A q \in Requests : q # r => pc'[q] = pc[q]
        /\ pc'[r] \in Ended => status[r] # NoOrder \/ back[r] = got[r]
    BY <1>5, <1>a DEF Begin, ReserveRefused, CheckPromotion, RejectPromotion, TakePromotionSlot, SlotGone,
       DrawNumber, InsertRefused, RecordUsage, GiveSlotBack, EndUndo, UndoSlot, Goto, Ended,
       CheckoutTypeOK, Unbroken
  <2>3. ASSUME NEW q \in Requests, NEW j \in Nat, Held(q, j) PROVE Held(q, j)'
    <3>1. CASE status[q] # NoOrder
      BY <2>1, <2>3, <3>1 DEF Held, Live
    <3>2. CASE status[q] = NoOrder
      <4>1. pc[q] \notin Ended /\ j > back[q] /\ j <= got[q]
        BY <2>3, <3>2 DEF Held, Live, NoOrder
      <4>2. pc'[q] \notin Ended
        BY <1>b, <2>2, <3>2, <4>1
      <4>. QED
        BY <2>1, <3>2, <4>1, <4>2 DEF Held
    <3>. QED
      BY <3>1, <3>2
  <2>4. HeldNotShrinking
    BY <2>3, LinesNonempty DEF HeldNotShrinking, IsLine
  <2>. QED
    BY <2>1, <2>4 DEF ExactEffect
<1>. QED
  BY <1>1, <1>2, <1>3, <1>4, <1>5 DEF CheckoutStep

\* So does a step of a cancellation.
LEMMA CancelExact ==
  ASSUME Coherent, Faults = {}, NEW k \in Cancels,
         CancelStep(k) \/ \E r \in Requests : CancelRead(k, r)
  PROVE  ExactEffect
<1>a. /\ CheckoutTypeOK /\ OrderTypeOK /\ CancelTypeOK /\ InventoryTypeOK
      /\ CancelPlaced /\ CancelCoherent /\ HasRow
  BY DEF Coherent, TypeInv, TypeOK
<1>1. CASE CancelRelease(k)
  <2> PICK r \in Requests : r = ctarget[k]
    BY <1>1, <1>a DEF CancelRelease, CancelTypeOK
  <2> PICK i \in Nat : i = cline[k]
    BY <1>a DEF CancelTypeOK
  <2>1. /\ IsLine(r, i) /\ Len(LinesOf[r]) \in Nat
        /\ ReleaseStock(LinesOf[r][i].sku, LinesOf[r][i].qty)
    BY <1>1, <1>a, LinesNonempty, NoFault DEF IsLine, CancelRelease, CancelPlaced, CancelTypeOK
  <2>2. /\ status[r] = "cancelled" /\ cpc[k] = "release" /\ ctarget[k] = r /\ cline[k] = i
        /\ \A j \in Cancels : j # k /\ cpc[j] = "release" => ctarget[j] # r
    BY <1>1, <1>a DEF CancelRelease, CancelCoherent, Undoing
  <2>3. /\ UNCHANGED <<status, pc, got, back, ctarget>>
        /\ cline' = [cline EXCEPT ![k] = i + 1]
        /\ \A j \in Cancels : j # k => cpc'[j] = cpc[j]
        /\ i # Len(LinesOf[r]) => cpc'[k] = "release"
    BY <1>1, <1>a DEF CancelRelease, CGoto, CancelTypeOK, orderVars, checkoutVars
  <2>4. Held(r, i)
    BY <1>a, <2>1, <2>2 DEF Held
  <2>5. ASSUME NEW q, NEW j, IsLine(q, j), Held(q, j), <<q, j>> # <<r, i>> PROVE Held(q, j)'
    <3>1. q \in Requests /\ j \in 1..Len(LinesOf[q]) /\ j \in Nat
      BY <2>5 DEF IsLine
    <3>2. CASE status[q] # "cancelled"
      BY <2>3, <2>5, <3>2 DEF Held, Live
    <3>3. CASE status[q] = "cancelled"
      <4>1. PICK h \in Cancels : cpc[h] = "release" /\ ctarget[h] = q /\ j >= cline[h]
        BY <2>5, <3>3 DEF Held, Live, NoOrder
      <4>2. CASE h # k
        <5>1. cpc'[h] = "release" /\ ctarget'[h] = q /\ cline'[h] = cline[h] /\ status'[q] = "cancelled"
          BY <1>a, <2>3, <3>3, <4>1, <4>2 DEF CancelTypeOK
        <5>. QED
          BY <4>1, <5>1 DEF Held
      <4>3. CASE h = k
        <5>1. q = r /\ j > i
          BY <2>2, <2>5, <3>1, <4>1, <4>3
        <5>2. cpc'[k] = "release" /\ cline'[k] = i + 1 /\ ctarget'[k] = q /\ status'[q] = "cancelled"
          BY <1>a, <2>1, <2>2, <2>3, <3>1, <3>3, <5>1 DEF CancelTypeOK
        <5>. QED
          BY <3>1, <5>1, <5>2 DEF Held
      <4>. QED
        BY <4>2, <4>3
    <3>. QED
      BY <3>2, <3>3
  <2>. QED
    BY <2>1, <2>4, <2>5 DEF ExactEffect, HeldShrinksBy
<1>2. CASE CancelSwap(k)
  <2> PICK r \in Requests : r = ctarget[k]
    BY <1>2, <1>a DEF CancelSwap, CancelTypeOK
  <2>1. /\ cline[k] = 1 /\ status' = [status EXCEPT ![r] = "cancelled"] /\ cpc[k] = "swap"
        /\ cpc' = [cpc EXCEPT ![k] = "release"] /\ UNCHANGED <<pc, got, back, ctarget, cline>>
        /\ reserved' = reserved
    BY <1>2, <1>a DEF CancelSwap, CancelPlaced, CGoto, checkoutVars, inventoryVars
  <2>2. HeldNotShrinking
    <3> SUFFICES ASSUME NEW q, NEW j, IsLine(q, j), Held(q, j) PROVE Held(q, j)'
      BY DEF HeldNotShrinking
    <3>1. q \in Requests /\ j \in Nat /\ j >= 1
      BY LinesNonempty DEF IsLine
    <3>2. CASE q = r
      BY <1>a, <2>1, <3>1, <3>2 DEF Held, CancelTypeOK, OrderTypeOK
    <3>3. CASE q # r /\ status[q] # "cancelled"
      BY <1>a, <2>1, <3>1, <3>3 DEF Held, Live, OrderTypeOK
    <3>4. CASE q # r /\ status[q] = "cancelled"
      <4>1. PICK h \in Cancels : cpc[h] = "release" /\ ctarget[h] = q /\ j >= cline[h]
        BY <3>4 DEF Held, Live, NoOrder
      <4>2. cpc'[h] = "release" /\ status'[q] = "cancelled"
        BY <1>a, <2>1, <3>4, <4>1 DEF CancelTypeOK, OrderTypeOK
      <4>. QED
        BY <2>1, <4>1, <4>2 DEF Held
    <3>. QED
      BY <3>2, <3>3, <3>4
  <2>. QED
    BY <2>1, <2>2 DEF ExactEffect
<1>3. CASE \/ \E r \in Requests : CancelRead(k, r)
           \/ CancelStep(k) /\ ~ CancelRelease(k) /\ ~ CancelSwap(k)
  <2>1. /\ UNCHANGED <<reserved, status, pc, got, back, cline>>
        /\ \A j \in Cancels : cpc[j] = "release" => cpc'[j] = "release" /\ ctarget'[j] = ctarget[j]
    BY <1>3, <1>a DEF CancelStep, CancelRead, CancelConflict, RevokeFind, RevokeRemove, RevokeSlot, RevokeFails,
       CGoto, CancelTypeOK, orderVars, checkoutVars, inventoryVars
  <2>2. HeldNotShrinking
    BY <2>1 DEF HeldNotShrinking, IsLine, Held, Live
  <2>. QED
    BY <2>1, <2>2 DEF ExactEffect
<1>. QED
  BY <1>1, <1>2, <1>3 DEF CancelStep

\* Staff do not cancel through updateStatus, which would release nothing.
StaffNeverCancel == \A move \in StaffMoves : move[2] # "cancelled"

\* So does every step, if staff do not cancel.
LEMMA NextExact ==
  ASSUME Coherent, Unbroken, Faults = {}, StaffNeverCancel, [Next]_vars, [NoRevival]_vars
  PROVE  ExactEffect
<1>a. OrderTypeOK /\ StaffTypeOK
  BY DEF Coherent, TypeInv, TypeOK
<1>1. ASSUME NEW a \in Admins, NEW to \in Statuses, StaffWrite(a, to) PROVE ExactEffect
  <2>1. /\ UNCHANGED <<reserved, pc, got, back, cpc, ctarget, cline>>
        /\ to \notin {"cancelled", NoOrder} /\ status' = [status EXCEPT ![atarget[a]] = to]
        /\ atarget[a] \in Requests /\ status[atarget[a]] # NoOrder
    BY <1>1, <1>a DEF StaffWrite, StaffNeverCancel, StaffTypeOK, Statuses, NoOrder, Coherent, HasRow,
                      checkoutVars, cancelVars, inventoryVars
  <2>2. status[atarget[a]] # "cancelled"
    <3>1. vars' # vars => NoRevival
      OBVIOUS
    <3>2. CASE vars' = vars
      BY <2>1, <3>2, <1>a DEF vars, OrderTypeOK
    <3>3. CASE NoRevival
      BY <2>1, <3>3, <1>a DEF NoRevival, OrderTypeOK
    <3>. QED
      BY <3>1, <3>2, <3>3
  <2>3. HeldNotShrinking
    BY <2>1, <2>2, <1>a DEF HeldNotShrinking, IsLine, Held, Live, OrderTypeOK
  <2>. QED
    BY <2>1, <2>3 DEF ExactEffect
<1>2. ASSUME NEW a \in Admins, NEW r \in Requests, StaffRead(a, r) PROVE ExactEffect
  BY <1>2 DEF StaffRead, ExactEffect, HeldNotShrinking, Held, Live, orderVars, checkoutVars, cancelVars, inventoryVars
<1>3. ASSUME NEW s \in Skus, NEW delta \in Deltas, Adjust(s, delta) PROVE ExactEffect
  BY <1>3 DEF Adjust, AdjustStock, ExactEffect, HeldNotShrinking, Held, Live, orderVars, checkoutVars, cancelVars
<1>4. ~ Crash
  BY NoFault DEF Crash
<1>5. CASE UNCHANGED vars
  BY <1>5 DEF vars, ExactEffect, HeldNotShrinking, Held, Live
<1>. QED
  BY <1>1, <1>2, <1>3, <1>4, <1>5, CheckoutExact, CancelExact DEF Next

\* When nothing fails, staff do not cancel through updateStatus and no cancelled
\* order is brought back to life, reserved is exactly what checkouts, live
\* orders and cancellations answer for: no unit leaks or is returned twice.
THEOREM StockIsConserved ==
  ASSUME Faults = {}, StaffNeverCancel
  PROVE  Spec /\ CancelledStaysCancelled => []StockConserved
<1> DEFINE Inv == Coherent /\ Unbroken /\ StockNotOvercounted
<1>1. ASSUME Init PROVE Inv
  <2>1. Coherent /\ Unbroken
    BY <1>1, InitCoherent DEF Init, Unbroken
  <2>2. ASSUME NEW s \in Skus PROVE reserved[s] <= Cardinality(HeldUnits(s))
    BY <1>1, HeldFinite DEF Init
  <2>. QED
    BY <2>1, <2>2 DEF StockNotOvercounted
<1>2. ASSUME Inv, StockNeverUndercounted, [Next]_vars, [NoRevival]_vars
      PROVE  Inv'
  <2>1. Coherent' /\ Unbroken'
    BY <1>2, NextCoherent, NextUnbroken
  <2>2. InventoryTypeOK
    BY <1>2 DEF Coherent, TypeInv, TypeOK
  <2>3. ExactEffect
    BY <1>2, NextExact
  <2>4. StockNotOvercounted'
    BY <1>2, <2>2, <2>3, NotOvercountedKept, NotOvercountedReserved, NotOvercountedReleased DEF ExactEffect
  <2>. QED
    BY <2>1, <2>4
<1>3. Inv /\ StockNeverUndercounted => StockConserved
  <2> SUFFICES ASSUME Inv, StockNeverUndercounted, NEW s \in Skus PROVE reserved[s] = Cardinality(HeldUnits(s))
    BY DEF StockConserved
  <2>1. reserved[s] \in Nat
    BY DEF Coherent, TypeInv, TypeOK, InventoryTypeOK
  <2>. QED
    BY <2>1, HeldFinite DEF StockNotOvercounted, StockNeverUndercounted
<1>. QED
  BY <1>1, <1>2, <1>3, StockCovered, PTL DEF Spec, CancelledStaysCancelled, NoRevival

-----------------------------------------------------------------------------
(* The same for promotion slots.                                           *)

SlotsNotOvercounted == \A c \in Codes : usedCount[c] <= SlotsHeld(c)

\* How many holders a set of them has lost or gained.
LEMMA CountStays ==
  ASSUME NEW T, IsFiniteSet(T), NEW S \in SUBSET T
  PROVE  Cardinality(T) >= Cardinality(S) /\ Cardinality(T) \in Nat /\ Cardinality(S) \in Nat
BY CountKept

\* A set that has gained an element has at least one more.
LEMMA CountGains ==
  ASSUME NEW T, IsFiniteSet(T), NEW x \in T, NEW S \in SUBSET (T \ {x})
  PROVE  Cardinality(T) >= Cardinality(S) + 1 /\ Cardinality(T) \in Nat /\ Cardinality(S) \in Nat
<1>1. Cardinality(S) <= Cardinality(T) - 1 /\ Cardinality(S) \in Nat /\ Cardinality(T) \in Nat
  BY CountShrinks
<1>. QED
  BY <1>1

\* A set that has lost one element at most has one fewer at most.
LEMMA CountLoses ==
  ASSUME NEW T, IsFiniteSet(T), NEW x, NEW S \in SUBSET (T \cup {x})
  PROVE  Cardinality(T) >= Cardinality(S) - 1 /\ Cardinality(T) \in Nat /\ Cardinality(S) \in Nat
<1>1. Cardinality(S) <= Cardinality(T) + 1 /\ Cardinality(S) \in Nat /\ Cardinality(T) \in Nat
  BY CountGrows
<1>. QED
  BY <1>1

\* The sets of holders of the next state are finite too.
LEMMA SlotSetsFiniteNext ==
  ASSUME IsFiniteSet(usages'), NEW c
  PROVE  IsFiniteSet(SlotHolders(c)') /\ IsFiniteSet(UsagesOf(c)') /\ IsFiniteSet(Revokers(c)')
<1>1. SlotHolders(c)' \in SUBSET Requests /\ UsagesOf(c)' \in SUBSET usages' /\ Revokers(c)' \in SUBSET Cancels
  BY DEF SlotHolders, UsagesOf, Revokers
<1>. QED
  BY <1>1, FS_Subset, OrdersAssumption

\* No set of holders of a code shrinks.
HoldersStay(c) ==
  /\ SlotHolders(c) \subseteq SlotHolders(c)'
  /\ UsagesOf(c) \subseteq UsagesOf(c)'
  /\ Revokers(c) \subseteq Revokers(c)'

\* What a step without fault does to the counter of a code and its holders.
SlotKept(c) == usedCount'[c] = usedCount[c] /\ HoldersStay(c)

SlotGained(c) ==
  /\ usedCount'[c] = usedCount[c] + 1
  /\ HoldersStay(c)
  /\ \E r \in SlotHolders(c)' : r \notin SlotHolders(c)

SlotReturned(c) ==
  /\ usedCount'[c] = usedCount[c] - 1
  /\ UsagesOf(c) \subseteq UsagesOf(c)'
  /\ \/ /\ \E r : SlotHolders(c) \subseteq SlotHolders(c)' \cup {r}
        /\ Revokers(c) \subseteq Revokers(c)'
     \/ /\ \E k : Revokers(c) \subseteq Revokers(c)' \cup {k}
        /\ SlotHolders(c) \subseteq SlotHolders(c)'

SlotRecorded(c) ==
  /\ usedCount'[c] = usedCount[c]
  /\ \E r : SlotHolders(c) \subseteq SlotHolders(c)' \cup {r}
  /\ UsagesOf(c) \subseteq UsagesOf(c)' /\ \E u \in UsagesOf(c)' : u \notin UsagesOf(c)
  /\ Revokers(c) \subseteq Revokers(c)'

SlotRevoked(c) ==
  /\ usedCount'[c] = usedCount[c]
  /\ SlotHolders(c) \subseteq SlotHolders(c)'
  /\ \E u : UsagesOf(c) \subseteq UsagesOf(c)' \cup {u}
  /\ Revokers(c) \subseteq Revokers(c)' /\ \E k \in Revokers(c)' : k \notin Revokers(c)

SlotEffect(c) ==
  SlotKept(c) \/ SlotGained(c) \/ SlotReturned(c) \/ SlotRecorded(c) \/ SlotRevoked(c)

\* No more slots are counted than are held after a step that SlotEffect
\* describes.
LEMMA EffectNotOvercounted ==
  ASSUME IsFiniteSet(usages'), NEW c, usedCount[c] \in Nat, usedCount[c] <= SlotsHeld(c), SlotEffect(c)
  PROVE  usedCount'[c] <= SlotsHeld(c)'
<1> DEFINE H == SlotHolders(c)'
           U == UsagesOf(c)'
           R == Revokers(c)'
<1>a. IsFiniteSet(H) /\ IsFiniteSet(U) /\ IsFiniteSet(R)
  BY SlotSetsFiniteNext
<1>b. /\ SlotsHeld(c) = Cardinality(SlotHolders(c)) + Cardinality(UsagesOf(c)) + Cardinality(Revokers(c))
      /\ SlotsHeld(c)' = Cardinality(H) + Cardinality(U) + Cardinality(R)
  BY DEF SlotsHeld
<1>h. SlotHolders(c) \subseteq H =>
        Cardinality(H) >= Cardinality(SlotHolders(c)) /\ Cardinality(H) \in Nat /\ Cardinality(SlotHolders(c)) \in Nat
  BY <1>a, CountStays
<1>u. UsagesOf(c) \subseteq U =>
        Cardinality(U) >= Cardinality(UsagesOf(c)) /\ Cardinality(U) \in Nat /\ Cardinality(UsagesOf(c)) \in Nat
  BY <1>a, CountStays
<1>r. Revokers(c) \subseteq R =>
        Cardinality(R) >= Cardinality(Revokers(c)) /\ Cardinality(R) \in Nat /\ Cardinality(Revokers(c)) \in Nat
  BY <1>a, CountStays
<1>1. CASE SlotKept(c)
  BY <1>1, <1>b, <1>h, <1>u, <1>r DEF SlotKept, HoldersStay
<1>2. CASE SlotGained(c)
  <2>1. PICK x \in H : SlotHolders(c) \in SUBSET (H \ {x})
    BY <1>2 DEF SlotGained, HoldersStay
  <2>2. Cardinality(H) >= Cardinality(SlotHolders(c)) + 1
        /\ Cardinality(H) \in Nat /\ Cardinality(SlotHolders(c)) \in Nat
    BY <1>a, <2>1, CountGains
  <2>. QED
    BY <1>2, <1>b, <2>2, <1>u, <1>r DEF SlotGained, HoldersStay
<1>3. CASE SlotReturned(c)
  <2>1. ASSUME NEW x, SlotHolders(c) \subseteq H \cup {x}
        PROVE  Cardinality(H) >= Cardinality(SlotHolders(c)) - 1
               /\ Cardinality(H) \in Nat /\ Cardinality(SlotHolders(c)) \in Nat
    BY <1>a, <2>1, CountLoses
  <2>2. ASSUME NEW x, Revokers(c) \subseteq R \cup {x}
        PROVE  Cardinality(R) >= Cardinality(Revokers(c)) - 1
               /\ Cardinality(R) \in Nat /\ Cardinality(Revokers(c)) \in Nat
    BY <1>a, <2>2, CountLoses
  <2>a. usedCount'[c] = usedCount[c] - 1 /\ UsagesOf(c) \subseteq U
    BY <1>3 DEF SlotReturned
  <2>3. CASE (\E x : SlotHolders(c) \subseteq H \cup {x}) /\ Revokers(c) \subseteq R
    BY <1>b, <2>a, <2>1, <2>3, <1>u, <1>r
  <2>4. CASE (\E x : Revokers(c) \subseteq R \cup {x}) /\ SlotHolders(c) \subseteq H
    BY <1>b, <2>a, <2>2, <2>4, <1>u, <1>h
  <2>. QED
    BY <1>3, <2>3, <2>4 DEF SlotReturned
<1>4. CASE SlotRecorded(c)
  <2>1. PICK x : SlotHolders(c) \subseteq H \cup {x}
    BY <1>4 DEF SlotRecorded
  <2>2. Cardinality(H) >= Cardinality(SlotHolders(c)) - 1
        /\ Cardinality(H) \in Nat /\ Cardinality(SlotHolders(c)) \in Nat
    BY <1>a, <2>1, CountLoses
  <2>3. PICK u \in U : UsagesOf(c) \in SUBSET (U \ {u})
    BY <1>4 DEF SlotRecorded
  <2>4. Cardinality(U) >= Cardinality(UsagesOf(c)) + 1
        /\ Cardinality(U) \in Nat /\ Cardinality(UsagesOf(c)) \in Nat
    BY <1>a, <2>3, CountGains
  <2>. QED
    BY <1>4, <1>b, <2>2, <2>4, <1>r DEF SlotRecorded
<1>5. CASE SlotRevoked(c)
  <2>1. PICK u : UsagesOf(c) \subseteq U \cup {u}
    BY <1>5 DEF SlotRevoked
  <2>2. Cardinality(U) >= Cardinality(UsagesOf(c)) - 1
        /\ Cardinality(U) \in Nat /\ Cardinality(UsagesOf(c)) \in Nat
    BY <1>a, <2>1, CountLoses
  <2>3. PICK k \in R : Revokers(c) \in SUBSET (R \ {k})
    BY <1>5 DEF SlotRevoked
  <2>4. Cardinality(R) >= Cardinality(Revokers(c)) + 1
        /\ Cardinality(R) \in Nat /\ Cardinality(Revokers(c)) \in Nat
    BY <1>a, <2>3, CountGains
  <2>. QED
    BY <1>5, <1>b, <2>2, <2>4, <1>h DEF SlotRevoked
<1>. QED
  BY <1>1, <1>2, <1>3, <1>4, <1>5 DEF SlotEffect

\* Somebody holds a slot, so the counter is not at its floor.
LEMMA CounterPositive ==
  ASSUME PromotionTypeOK, SlotInv, NEW c \in Codes, SlotHolders(c) # {} \/ Revokers(c) # {}
  PROVE  usedCount[c] \in Nat /\ usedCount[c] > 0
<1>a. IsFiniteSet(SlotHolders(c)) /\ IsFiniteSet(UsagesOf(c)) /\ IsFiniteSet(Revokers(c))
  BY SlotSetsFinite DEF SlotInv
<1>1. Cardinality(SlotHolders(c)) \in Nat /\ Cardinality(UsagesOf(c)) \in Nat /\ Cardinality(Revokers(c)) \in Nat
  BY <1>a, FS_CardinalityType
<1>2. Cardinality(SlotHolders(c)) # 0 \/ Cardinality(Revokers(c)) # 0
  BY <1>a, FS_EmptySet
<1>3. usedCount[c] >= SlotsHeld(c) /\ usedCount[c] \in Nat
  BY DEF SlotInv, SlotsNeverUndercounted, PromotionTypeOK
<1>. QED
  BY <1>1, <1>2, <1>3 DEF SlotsHeld

\* Without faults, a step of a checkout does to the slots of a code what
\* SlotEffect says.
LEMMA CheckoutSlotEffect ==
  ASSUME Coherent, Unbroken, SlotInv, Faults = {}, NEW r \in Requests, Begin(r) \/ CheckoutStep(r),
         NEW c \in Codes
  PROVE  SlotEffect(c)
<1>a. /\ CheckoutTypeOK /\ PromotionTypeOK
      /\ CheckoutPlaced /\ CheckoutCoherent
  BY DEF Coherent, TypeInv, TypeOK
<1>b. Revokers(c)' = Revokers(c)
  <2>1. UNCHANGED <<cpc, ctarget>>
    BY DEF CheckoutStep, Begin, ReserveLine, ReserveRefused, ReserveUnrecorded, CheckPromotion,
       RejectPromotion, TakePromotionSlot, SlotGone, DrawNumber, DrawNumberFails, InsertOrder,
       InsertRefused, RecordUsage, RecordUsageFails, GiveSlotBack, UndoLine, EndUndo, UndoSlot, cancelVars
  <2>. QED
    BY <2>1 DEF Revokers
<1>1. CASE TakePromotionSlot(r)
  <2>1. /\ TakeSlot(CodeOf[r]) /\ HasCode(r) /\ pc[r] = "slot"
        /\ pc' = [pc EXCEPT ![r] = "number"] /\ drawn' = drawn
    BY <1>1, <1>a DEF TakePromotionSlot, CheckoutPlaced, Goto
  <2>2. ~ HoldsSlot(r) /\ HoldsSlot(r)' /\ \A q \in Requests : HoldsSlot(q) => HoldsSlot(q)'
    BY <2>1, <1>a DEF HoldsSlot, HasCode, CheckoutTypeOK
  <2>3. HoldersStay(c)
    BY <1>b, <2>1, <2>2 DEF HoldersStay, SlotHolders, TakeSlot, UsagesOf
  <2>4. CASE c = CodeOf[r]
    <3>1. r \in SlotHolders(c)' /\ r \notin SlotHolders(c)
      BY <2>2, <2>4 DEF SlotHolders
    <3>2. usedCount'[c] = usedCount[c] + 1
      BY <1>a, <2>1, <2>4 DEF TakeSlot, PromotionTypeOK
    <3>. QED
      BY <2>3, <3>1, <3>2 DEF SlotEffect, SlotGained
  <2>5. CASE c # CodeOf[r]
    <3>1. usedCount'[c] = usedCount[c]
      BY <1>a, <2>1, <2>5 DEF TakeSlot, PromotionTypeOK
    <3>. QED
      BY <2>3, <3>1 DEF SlotEffect, SlotKept
  <2>. QED
    BY <2>4, <2>5
<1>2. CASE RecordUsage(r)
  <2>1. /\ usages' = usages \cup {UsageRow(r)} /\ usedCount' = usedCount /\ UsageRow(r) \notin usages
        /\ pc' = [pc EXCEPT ![r] = "placed"] /\ drawn' = drawn
    BY <1>2, <1>a DEF RecordUsage, InsertUsage, Unbroken, Goto
  <2>2. \A q \in Requests : q # r /\ HoldsSlot(q) => HoldsSlot(q)'
    BY <2>1, <1>a DEF HoldsSlot, HasCode, CheckoutTypeOK
  <2>3. UsagesOf(c) \subseteq UsagesOf(c)'
    BY <2>1 DEF UsagesOf
  <2>4. CASE c = CodeOf[r]
    <3>1. SlotHolders(c) \subseteq SlotHolders(c)' \cup {r}
      BY <2>2 DEF SlotHolders
    <3>2. UsageRow(r) \in UsagesOf(c)' /\ UsageRow(r) \notin UsagesOf(c)
      BY <2>1, <2>4 DEF UsagesOf, UsageRow
    <3>. QED
      BY <1>b, <2>1, <2>3, <3>1, <3>2 DEF SlotEffect, SlotRecorded
  <2>5. CASE c # CodeOf[r]
    <3>1. SlotHolders(c) \subseteq SlotHolders(c)'
      BY <2>2, <2>5 DEF SlotHolders
    <3>. QED
      BY <1>b, <2>1, <2>3, <3>1 DEF SlotEffect, SlotKept, HoldersStay
  <2>. QED
    BY <2>4, <2>5
<1>3. CASE GiveSlotBack(r) \/ UndoSlot(r)
  <2>1. /\ ReleaseSlot(CodeOf[r]) /\ HasCode(r) /\ pc[r] \in {"giveback", "unslot"}
        /\ pc' = [pc EXCEPT ![r] = "placed"] \/ pc' = [pc EXCEPT ![r] = "rejected"]
        /\ drawn' = drawn
    BY <1>3, <1>a, NoFault DEF GiveSlotBack, UndoSlot, TryReleaseSlot, CheckoutPlaced, Goto
  <2>2. HoldsSlot(r) /\ \A q \in Requests : q # r /\ HoldsSlot(q) => HoldsSlot(q)'
    BY <2>1, <1>a DEF HoldsSlot, HasCode, CheckoutTypeOK
  <2>3. UsagesOf(c)' = UsagesOf(c)
    BY <2>1 DEF ReleaseSlot, UsagesOf
  <2>4. CASE c = CodeOf[r]
    <3>1. SlotHolders(c) \subseteq SlotHolders(c)' \cup {r} /\ r \in SlotHolders(c)
      BY <2>2, <2>4 DEF SlotHolders
    <3>2. usedCount[c] \in Nat /\ usedCount[c] > 0
      BY <1>a, <3>1, CounterPositive
    <3>3. usedCount'[c] = usedCount[c] - 1
      BY <1>a, <2>1, <2>4, <3>2 DEF ReleaseSlot, PromotionTypeOK
    <3>. QED
      BY <1>b, <2>3, <3>1, <3>3 DEF SlotEffect, SlotReturned
  <2>5. CASE c # CodeOf[r]
    <3>1. SlotHolders(c) \subseteq SlotHolders(c)'
      BY <2>2, <2>5 DEF SlotHolders
    <3>2. usedCount'[c] = usedCount[c]
      BY <1>a, <2>1, <2>5 DEF ReleaseSlot, PromotionTypeOK
    <3>. QED
      BY <1>b, <2>3, <3>1, <3>2 DEF SlotEffect, SlotKept, HoldersStay
  <2>. QED
    BY <2>4, <2>5
<1>4. CASE /\ Begin(r) \/ CheckoutStep(r)
           /\ ~ TakePromotionSlot(r) /\ ~ RecordUsage(r) /\ ~ GiveSlotBack(r) /\ ~ UndoSlot(r)
  <2>1. UNCHANGED promotionVars
    BY <1>4 DEF CheckoutStep, Begin, ReserveLine, ReserveRefused, ReserveUnrecorded, CheckPromotion,
       RejectPromotion, SlotGone, DrawNumber, DrawNumberFails, InsertOrder,
       InsertRefused, RecordUsageFails, UndoLine, EndUndo
  <2>2. \A q \in Requests : HoldsSlot(q) => HoldsSlot(q)'
    <3>1. CASE Begin(r) \/ ReserveLine(r) \/ ReserveRefused(r) \/ ReserveUnrecorded(r) \/ CheckPromotion(r)
      BY <3>1, <1>a DEF Begin, ReserveLine, AfterReserve, ReserveRefused, ReserveUnrecorded, CheckPromotion,
                        HoldsSlot, HasCode, CheckoutTypeOK, Goto
    <3>2. CASE RejectPromotion(r) \/ SlotGone(r)
      BY <3>2, <1>a DEF RejectPromotion, SlotGone, HoldsSlot, HasCode, CheckoutTypeOK, Goto
    <3>3. CASE DrawNumber(r)
      <4>1. Cardinality(Orders) + 1 # 0
        BY OrdersFinite
      <4>. QED
        BY <3>3, <4>1, <1>a DEF DrawNumber, HoldsSlot, HasCode, CheckoutTypeOK, Goto
    <3>4. CASE InsertOrder(r) \/ InsertRefused(r) \/ UndoLine(r) \/ EndUndo(r)
      BY <3>4, <1>a DEF InsertOrder, InsertRefused, UndoLine, EndUndo, Unbroken,
                        HoldsSlot, HasCode, CheckoutTypeOK, Goto
    <3>5. ~ DrawNumberFails(r) /\ ~ RecordUsageFails(r)
      BY NoFault DEF DrawNumberFails, RecordUsageFails
    <3>. QED
      BY <1>4, <3>1, <3>2, <3>3, <3>4, <3>5 DEF CheckoutStep
  <2>3. HoldersStay(c)
    BY <1>b, <2>1, <2>2 DEF HoldersStay, SlotHolders, UsagesOf, promotionVars
  <2>. QED
    BY <2>1, <2>3 DEF SlotEffect, SlotKept, promotionVars
<1>. QED
  BY <1>1, <1>2, <1>3, <1>4

\* So does a step of a cancellation.
LEMMA CancelSlotEffect ==
  ASSUME Coherent, SlotInv, Faults = {}, NEW k \in Cancels,
         CancelStep(k) \/ \E r \in Requests : CancelRead(k, r),
         NEW c \in Codes
  PROVE  SlotEffect(c)
<1>a. CancelTypeOK /\ PromotionTypeOK /\ CancelPlaced /\ CancelCoherent
  BY DEF Coherent, TypeInv, TypeOK
<1>b. SlotHolders(c)' = SlotHolders(c)
  <2>1. UNCHANGED <<pc, drawn>>
    BY DEF CancelStep, CancelRead, CancelSwap, CancelConflict, CancelRelease, RevokeFind, RevokeRemove,
       RevokeSlot, RevokeFails, checkoutVars
  <2>. QED
    BY <2>1 DEF SlotHolders, HoldsSlot
<1>1. CASE RevokeRemove(k)
  <2> PICK r \in Requests : r = ctarget[k]
    BY <1>1, <1>a DEF RevokeRemove, CancelTypeOK
  <2>1. /\ usages' = usages \ {UsageRow(r)} /\ usedCount' = usedCount /\ ctarget' = ctarget
        /\ cpc[k] = "remove" /\ cpc' = [cpc EXCEPT ![k] = "giveback"]
    BY <1>1 DEF RevokeRemove, RemoveUsage, CGoto
  <2>2. Revokers(c) \subseteq Revokers(c)'
    BY <2>1, <1>a DEF Revokers, CancelTypeOK
  <2>3. CASE c = CodeOf[r]
    <3>1. k \in Revokers(c)' /\ k \notin Revokers(c)
      BY <2>1, <2>3, <1>a DEF Revokers, CancelTypeOK
    <3>2. UsagesOf(c) \subseteq UsagesOf(c)' \cup {UsageRow(r)}
      BY <2>1 DEF UsagesOf
    <3>. QED
      BY <1>b, <2>1, <2>2, <3>1, <3>2 DEF SlotEffect, SlotRevoked
  <2>4. CASE c # CodeOf[r]
    <3>1. UsagesOf(c) \subseteq UsagesOf(c)'
      BY <2>1, <2>4 DEF UsagesOf, UsageRow
    <3>. QED
      BY <1>b, <2>1, <2>2, <3>1 DEF SlotEffect, SlotKept, HoldersStay
  <2>. QED
    BY <2>3, <2>4
<1>2. CASE RevokeSlot(k)
  <2>1. /\ ReleaseSlot(CodeOf[ctarget[k]]) /\ ctarget' = ctarget
        /\ cpc[k] = "giveback" /\ cpc' = [cpc EXCEPT ![k] = "done"]
    BY <1>2 DEF RevokeSlot, CGoto
  <2>2. Revokers(c) \subseteq Revokers(c)' \cup {k} /\ UsagesOf(c)' = UsagesOf(c)
    BY <2>1, <1>a DEF Revokers, CancelTypeOK, ReleaseSlot, UsagesOf
  <2>3. CASE c = CodeOf[ctarget[k]]
    <3>1. k \in Revokers(c)
      BY <2>1, <2>3 DEF Revokers
    <3>2. usedCount[c] \in Nat /\ usedCount[c] > 0
      BY <1>a, <3>1, CounterPositive
    <3>3. usedCount'[c] = usedCount[c] - 1
      BY <1>a, <2>1, <2>3, <3>2 DEF ReleaseSlot, PromotionTypeOK
    <3>. QED
      BY <1>b, <2>2, <3>3 DEF SlotEffect, SlotReturned
  <2>4. CASE c # CodeOf[ctarget[k]]
    <3>1. Revokers(c) \subseteq Revokers(c)'
      BY <2>1, <2>4, <1>a DEF Revokers, CancelTypeOK
    <3>2. usedCount'[c] = usedCount[c]
      BY <1>a, <2>1, <2>4 DEF ReleaseSlot, PromotionTypeOK
    <3>. QED
      BY <1>b, <2>2, <3>1, <3>2 DEF SlotEffect, SlotKept, HoldersStay
  <2>. QED
    BY <2>3, <2>4
<1>3. CASE \/ \E r \in Requests : CancelRead(k, r)
           \/ CancelStep(k) /\ ~ RevokeRemove(k) /\ ~ RevokeSlot(k)
  <2>1. /\ UNCHANGED promotionVars
        /\ \A j \in Cancels : cpc[j] = "giveback" => cpc'[j] = "giveback" /\ ctarget'[j] = ctarget[j]
    BY <1>3, <1>a, NoFault DEF CancelStep, CancelRead, CancelSwap, CancelConflict, CancelRelease,
       RevokeFind, RevokeFails, CGoto, CancelTypeOK
  <2>2. HoldersStay(c)
    BY <2>1, <1>b DEF HoldersStay, Revokers, UsagesOf, promotionVars
  <2>. QED
    BY <2>1, <2>2 DEF SlotEffect, SlotKept, promotionVars
<1>. QED
  BY <1>1, <1>2, <1>3

\* So does every step.
LEMMA NextSlotEffect ==
  ASSUME Coherent, Unbroken, SlotInv, Faults = {}, [Next]_vars, NEW c \in Codes
  PROVE  SlotEffect(c)
<1>1. CASE \/ \E a \in Admins : \/ \E r \in Requests : StaffRead(a, r)
                                \/ \E to \in Statuses : StaffWrite(a, to)
           \/ \E s \in Skus, delta \in Deltas : Adjust(s, delta)
           \/ UNCHANGED vars
  <2>1. UNCHANGED <<usedCount, usages, pc, drawn, cpc, ctarget>>
    BY <1>1 DEF StaffRead, StaffWrite, Adjust, vars, promotionVars, checkoutVars, cancelVars
  <2>. QED
    BY <2>1 DEF SlotEffect, SlotKept, HoldersStay, SlotHolders, HoldsSlot, UsagesOf, Revokers
<1>2. ~ Crash
  BY NoFault DEF Crash
<1>. QED
  BY <1>1, <1>2, CheckoutSlotEffect, CancelSlotEffect DEF Next

\* When nothing fails and no cancelled order is brought back to life,
\* used_count is exactly the slots of checkouts under way, the usage rows and
\* the rows deleted by a cancellation that has yet to count down.
THEOREM SlotsAreConserved ==
  ASSUME Faults = {}
  PROVE  Spec /\ CancelledStaysCancelled => []SlotsConserved
<1> DEFINE Inv == Coherent /\ Unbroken /\ SlotsNotOvercounted
<1>1. ASSUME Init PROVE Inv
  <2>1. Coherent /\ Unbroken
    BY <1>1, InitCoherent DEF Init, Unbroken
  <2>2. ASSUME NEW c \in Codes PROVE usedCount[c] <= SlotsHeld(c)
    <3>1. IsFiniteSet(usages)
      BY <1>1, FS_EmptySet DEF Init
    <3>2. /\ Cardinality(SlotHolders(c)) \in Nat /\ Cardinality(UsagesOf(c)) \in Nat
          /\ Cardinality(Revokers(c)) \in Nat
      BY <3>1, SlotSetsFinite, FS_CardinalityType
    <3>. QED
      BY <1>1, <3>2 DEF Init, SlotsHeld
  <2>. QED
    BY <2>1, <2>2 DEF SlotsNotOvercounted
<1>2. ASSUME Inv, SlotInv, SlotInv', [Next]_vars, [NoRevival]_vars
      PROVE  Inv'
  <2>1. Coherent' /\ Unbroken'
    BY <1>2, NextCoherent, NextUnbroken
  <2>2. ASSUME NEW c \in Codes PROVE usedCount'[c] <= SlotsHeld(c)'
    <3>1. usedCount[c] \in Nat /\ usedCount[c] <= SlotsHeld(c) /\ IsFiniteSet(usages')
      BY <1>2 DEF Coherent, TypeInv, TypeOK, PromotionTypeOK, SlotsNotOvercounted, SlotInv
    <3>. QED
      BY <1>2, <3>1, NextSlotEffect, EffectNotOvercounted
  <2>. QED
    BY <2>1, <2>2 DEF SlotsNotOvercounted
<1>3. Inv /\ SlotInv => SlotsConserved
  <2> SUFFICES ASSUME Inv, SlotInv, NEW c \in Codes PROVE usedCount[c] = SlotsHeld(c)
    BY DEF SlotsConserved
  <2>1. usedCount[c] \in Nat /\ usedCount[c] <= SlotsHeld(c) /\ usedCount[c] >= SlotsHeld(c)
    BY DEF Coherent, TypeInv, TypeOK, PromotionTypeOK, SlotsNotOvercounted, SlotInv, SlotsNeverUndercounted
  <2>2. /\ Cardinality(SlotHolders(c)) \in Nat /\ Cardinality(UsagesOf(c)) \in Nat
        /\ Cardinality(Revokers(c)) \in Nat
    BY SlotSetsFinite, FS_CardinalityType DEF SlotInv
  <2>3. SlotsHeld(c) \in Nat
    BY <2>2 DEF SlotsHeld
  <2>. QED
    BY <2>1, <2>3
<1>. QED
  BY <1>1, <1>2, <1>3, AlwaysSlotInv, PTL DEF Spec, CancelledStaysCancelled, NoRevival
=============================================================================
