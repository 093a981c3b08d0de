------------------------------- MODULE Orders -------------------------------
(***************************************************************************)
(* Placing and cancelling orders (backend/src/modules/orders), composed    *)
(* with the inventory and the promotions they call.                        *)
(*                                                                         *)
(* The processes are HTTP requests handled concurrently by the API         *)
(* servers: checkouts (POST /orders), cancellations (POST /orders/:id/     *)
(* cancel) and status changes by staff (PATCH /orders/:id/status).  Each   *)
(* awaits one database statement after the other, and any other request    *)
(* may run between two of them.  A checkout creates at most one order, so  *)
(* an order is named by its checkout.                                      *)
(*                                                                         *)
(* A fault makes one statement throw instead of taking effect; "movement"  *)
(* is the insert into inventory_movements that follows a reservation, and  *)
(* "crash" ends the process with all requests in flight.  At most          *)
(* MaxFaults faults happen.                                                *)
(***************************************************************************)
EXTENDS Inventory, Promotions, Sequences

CONSTANTS
  Requests,      \* checkouts
  Cancels,       \* cancellations
  Admins,        \* members of staff, each changing one status at a time
  Users,
  UserOf,        \* the customer of each checkout
  LinesOf,       \* the lines of each checkout, a sequence of [sku, qty]
  CodeOf,        \* the promotion code of each checkout, or NoCode
  NoCode,
  StaffMoves,    \* the <<from, to>> status changes staff make
  Deltas,        \* stock adjustments
  MaxQuantity,   \* bound on the stock adjustments reach
  Faults,        \* the statements that may throw
  MaxFaults      \* bound on the number of faults

Statuses == {"pending", "confirmed", "processing", "shipping", "delivered",
             "cancelled", "returned"}

NoOrder == "none"

Line == [sku : Skus, qty : Nat \ {0}]

ASSUME OrdersAssumption ==
  /\ IsFiniteSet(Requests)
  /\ IsFiniteSet(Cancels)
  /\ UserOf \in [Requests -> Users]
  /\ LinesOf \in [Requests -> Seq(Line)]
  /\ \A r \in Requests : LinesOf[r] # <<>>
  /\ NoCode \notin Codes
  /\ CodeOf \in [Requests -> Codes \cup {NoCode}]
  /\ StaffMoves \subseteq Statuses \X Statuses
  /\ Deltas \subseteq Int
  /\ MaxQuantity \in Nat
  /\ MaxFaults \in Nat

CheckoutSteps == {"new", "reserve", "promo", "slot", "number", "insert",
                  "usage", "giveback", "undo", "unslot",
                  "placed", "rejected", "dead"}

CancelSteps == {"new", "swap", "release", "revoke", "remove", "giveback",
                "done", "dead"}

StaffSteps == {"new", "write"}

VARIABLES
  status,        \* orders.status, NoOrder while there is no row
  number,        \* orders.order_number (its daily sequence), 0 without a row
  pc,            \* checkout: the statement it awaits next
  got,           \* checkout: lines in its "reserved" array
  back,          \* checkout: lines of that array given back so far
  drawn,         \* checkout: result of generateOrderNumber, 0 before
  cpc,           \* cancellation: the statement it awaits next
  cseen,         \* cancellation: the status it read
  ctarget,       \* cancellation: the order
  cline,         \* cancellation: the line it releases next
  apc, aseen, atarget,   \* the same of a status change
  faults         \* faults so far

orderVars == <<status, number>>
checkoutVars == <<pc, got, back, drawn>>
cancelVars == <<cpc, cseen, ctarget, cline>>
staffVars == <<apc, aseen, atarget>>
vars == <<quantity, reserved, usedCount, usages, status, number, pc, got, back,
          drawn, cpc, cseen, ctarget, cline, apc, aseen, atarget, faults>>

NoTarget == "no order"

PromotionTypeOK ==
  /\ usedCount \in [Codes -> Nat]
  /\ usages \subseteq [order : Requests, user : Users, code : Codes]

OrderTypeOK ==
  /\ status \in [Requests -> Statuses \cup {NoOrder}]
  /\ number \in [Requests -> Nat]

CheckoutTypeOK ==
  /\ pc \in [Requests -> CheckoutSteps]
  /\ got \in [Requests -> Nat]
  /\ back \in [Requests -> Nat]
  /\ drawn \in [Requests -> Nat]

CancelTypeOK ==
  /\ cpc \in [Cancels -> CancelSteps]
  /\ cseen \in [Cancels -> Statuses \cup {NoOrder}]
  /\ ctarget \in [Cancels -> Requests \cup {NoTarget}]
  /\ \A k \in Cancels : cpc[k] \notin {"new", "done", "dead"} => ctarget[k] \in Requests
  /\ cline \in [Cancels -> Nat]

StaffTypeOK ==
  /\ apc \in [Admins -> StaffSteps]
  /\ aseen \in [Admins -> Statuses \cup {NoOrder}]
  /\ atarget \in [Admins -> Requests \cup {NoTarget}]
  /\ \A a \in Admins : apc[a] = "write" => atarget[a] \in Requests

TypeOK ==
  /\ InventoryTypeOK
  /\ PromotionTypeOK
  /\ OrderTypeOK
  /\ CheckoutTypeOK
  /\ CancelTypeOK
  /\ StaffTypeOK
  /\ faults \in Nat

Init ==
  /\ quantity \in [Skus -> 0..MaxQuantity]
  /\ reserved = [s \in Skus |-> 0]
  /\ usedCount = [c \in Codes |-> 0]
  /\ usages = {}
  /\ status = [r \in Requests |-> NoOrder]
  /\ number = [r \in Requests |-> 0]
  /\ pc = [r \in Requests |-> "new"]
  /\ got = [r \in Requests |-> 0]
  /\ back = [r \in Requests |-> 0]
  /\ drawn = [r \in Requests |-> 0]
  /\ cpc = [k \in Cancels |-> "new"]
  /\ cseen = [k \in Cancels |-> NoOrder]
  /\ ctarget = [k \in Cancels |-> NoTarget]
  /\ cline = [k \in Cancels |-> 1]
  /\ apc = [a \in Admins |-> "new"]
  /\ aseen = [a \in Admins |-> NoOrder]
  /\ atarget = [a \in Admins |-> NoTarget]
  /\ faults = 0

Goto(r, to) == pc' = [pc EXCEPT ![r] = to]
CGoto(k, to) == cpc' = [cpc EXCEPT ![k] = to]

Fault(f) ==
  /\ f \in Faults
  /\ faults < MaxFaults
  /\ faults' = faults + 1

HasCode(r) == CodeOf[r] # NoCode
Orders == {r \in Requests : status[r] # NoOrder}
UsageRow(r) == [order |-> r, user |-> UserOf[r], code |-> CodeOf[r]]

-----------------------------------------------------------------------------
(* Checkout: createFromCart and createDirect validate the lines and call   *)
(* createOrderInternal.                                                    *)

Begin(r) ==
  /\ pc[r] = "new"
  /\ Goto(r, "reserve")
  /\ UNCHANGED <<inventoryVars, promotionVars, orderVars, got, back, drawn,
                 cancelVars, staffVars, faults>>

\* Where the checkout goes when its last line is reserved.
AfterReserve(r) == IF HasCode(r) THEN "promo" ELSE "number"

\* The next line of the loop: reserve it, record the movement, remember it.
ReserveLine(r) ==
  LET i == got[r] + 1 IN
  /\ pc[r] = "reserve"
  /\ ReserveStock(LinesOf[r][i].sku, LinesOf[r][i].qty)
  /\ got' = [got EXCEPT ![r] = i]
  /\ Goto(r, IF i = Len(LinesOf[r]) THEN AfterReserve(r) ELSE "reserve")
  /\ UNCHANGED <<promotionVars, orderVars, back, drawn, cancelVars, staffVars, faults>>

\* Mutant: the line is pushed to "reserved" before reserveStock is awaited.
ReserveRefused_PushedFirst(r) ==
  LET i == got[r] + 1 IN
  /\ pc[r] = "reserve"
  /\ \/ ~ CanReserve(LinesOf[r][i].sku, LinesOf[r][i].qty) /\ UNCHANGED faults
     \/ Fault("reserve")
  /\ got' = [got EXCEPT ![r] = i]
  /\ Goto(r, "undo")
  /\ UNCHANGED <<inventoryVars, promotionVars, orderVars, back, drawn,
                 cancelVars, staffVars>>

\* Mutant: the catch block rethrows without giving anything back.
ReserveRefused_NoRollback(r) ==
  LET i == got[r] + 1 IN
  /\ pc[r] = "reserve"
  /\ ~ CanReserve(LinesOf[r][i].sku, LinesOf[r][i].qty)
  /\ Goto(r, "rejected")
  /\ UNCHANGED <<inventoryVars, promotionVars, orderVars, got, back, drawn,
                 cancelVars, staffVars, faults>>

\* Not enough stock, or the UPDATE throws: what is reserved is given back.
ReserveRefused(r) ==
  LET i == got[r] + 1 IN
  /\ pc[r] = "reserve"
  /\ \/ ~ CanReserve(LinesOf[r][i].sku, LinesOf[r][i].qty) /\ UNCHANGED faults
     \/ Fault("reserve")
  /\ Goto(r, "undo")
  /\ UNCHANGED <<inventoryVars, promotionVars, orderVars, got, back, drawn,
                 cancelVars, staffVars>>

\* The units are reserved but recording the movement throws: reserveStock
\* fails, and the line is not among those the caller gives back.
ReserveUnrecorded(r) ==
  LET i == got[r] + 1 IN
  /\ pc[r] = "reserve"
  /\ Fault("movement")
  /\ ReserveStock(LinesOf[r][i].sku, LinesOf[r][i].qty)
  /\ Goto(r, "undo")
  /\ UNCHANGED <<promotionVars, orderVars, got, back, drawn, cancelVars, staffVars>>

\* validate(): reads the counter and the customer's rows.
CheckPromotion(r) ==
  /\ pc[r] = "promo"
  /\ Validates(CodeOf[r], UserOf[r])
  /\ Goto(r, "slot")
  /\ UNCHANGED <<inventoryVars, promotionVars, orderVars, got, back, drawn,
                 cancelVars, staffVars, faults>>

\* validate() refuses: a limit is reached, or the code is unknown, inactive,
\* out of its dates or below its minimum amount, which may be so at any time.
RejectPromotion(r) ==
  /\ pc[r] = "promo"
  /\ Goto(r, "undo")
  /\ UNCHANGED <<inventoryVars, promotionVars, orderVars, got, back, drawn,
                 cancelVars, staffVars, faults>>

TakePromotionSlot(r) ==
  /\ pc[r] = "slot"
  /\ TakeSlot(CodeOf[r])
  /\ Goto(r, "number")
  /\ UNCHANGED <<inventoryVars, orderVars, got, back, drawn, cancelVars, staffVars, faults>>

\* The last slot went to another checkout since validate(), or the UPDATE
\* throws.
SlotGone(r) ==
  /\ pc[r] = "slot"
  /\ \/ ~ SlotLeft(CodeOf[r]) /\ UNCHANGED faults
     \/ Fault("slot")
  /\ Goto(r, "undo")
  /\ UNCHANGED <<inventoryVars, promotionVars, orderVars, got, back, drawn,
                 cancelVars, staffVars>>

\* generateOrderNumber: today's orders + 1.
DrawNumber(r) ==
  /\ pc[r] = "number"
  /\ drawn' = [drawn EXCEPT ![r] = Cardinality(Orders) + 1]
  /\ Goto(r, "insert")
  /\ UNCHANGED <<inventoryVars, promotionVars, orderVars, got, back,
                 cancelVars, staffVars, faults>>

\* generateOrderNumber is called outside every try block.
DrawNumberFails(r) ==
  /\ pc[r] = "number"
  /\ Fault("number")
  /\ Goto(r, "rejected")
  /\ UNCHANGED <<inventoryVars, promotionVars, orderVars, got, back, drawn,
                 cancelVars, staffVars>>

\* Mutant: no unique index on order_number.
NumberTaken_NoIndex(n) == FALSE

NumberTaken(n) == \E o \in Orders : number[o] = n

\* The transaction that inserts the order and its items.
InsertOrder(r) ==
  /\ pc[r] = "insert"
  /\ ~ NumberTaken(drawn[r])
  /\ status' = [status EXCEPT ![r] = "pending"]
  /\ number' = [number EXCEPT ![r] = drawn[r]]
  /\ Goto(r, IF HasCode(r) THEN "usage" ELSE "placed")
  /\ UNCHANGED <<inventoryVars, promotionVars, got, back, drawn,
                 cancelVars, staffVars, faults>>

\* The transaction rolls back: the unique index on order_number refuses the
\* row, or a statement of it throws.
InsertRefused(r) ==
  /\ pc[r] = "insert"
  /\ \/ NumberTaken(drawn[r]) /\ UNCHANGED faults
     \/ Fault("insert")
  /\ Goto(r, "undo")
  /\ UNCHANGED <<inventoryVars, promotionVars, orderVars, got, back, drawn,
                 cancelVars, staffVars>>

\* recordUsage, after the transaction has committed.
RecordUsage(r) ==
  /\ pc[r] = "usage"
  /\ InsertUsage(UsageRow(r))
  /\ Goto(r, "placed")
  /\ UNCHANGED <<inventoryVars, orderVars, got, back, drawn, cancelVars, staffVars, faults>>

RecordUsageFails(r) ==
  /\ pc[r] = "usage"
  /\ Fault("usage")
  /\ Goto(r, "giveback")
  /\ UNCHANGED <<inventoryVars, promotionVars, orderVars, got, back, drawn,
                 cancelVars, staffVars>>

\* releaseSlot; the callers swallow its failure.
TryReleaseSlot(c) ==
  \/ ReleaseSlot(c) /\ UNCHANGED faults
  \/ Fault("release") /\ UNCHANGED promotionVars

\* The slot without a row is given back; the order stays as it is.
GiveSlotBack(r) ==
  /\ pc[r] = "giveback"
  /\ TryReleaseSlot(CodeOf[r])
  /\ Goto(r, "placed")
  /\ UNCHANGED <<inventoryVars, orderVars, got, back, drawn, cancelVars, staffVars>>

HoldsSlot(r) ==
  /\ HasCode(r)
  /\ \/ pc[r] \in {"number", "insert", "usage", "giveback", "unslot"}
     \/ pc[r] = "undo" /\ drawn[r] # 0

\* releaseReserved: one line after the other, a failure is only logged.
UndoLine(r) ==
  LET i == back[r] + 1 IN
  /\ pc[r] = "undo"
  /\ back[r] < got[r]
  /\ back' = [back EXCEPT ![r] = i]
  /\ \/ ReleaseStock(LinesOf[r][i].sku, LinesOf[r][i].qty) /\ UNCHANGED faults
     \/ Fault("release") /\ UNCHANGED inventoryVars
  /\ UNCHANGED <<promotionVars, orderVars, pc, got, drawn, cancelVars, staffVars>>

EndUndo(r) ==
  /\ pc[r] = "undo"
  /\ back[r] = got[r]
  /\ Goto(r, IF HoldsSlot(r) THEN "unslot" ELSE "rejected")
  /\ UNCHANGED <<inventoryVars, promotionVars, orderVars, got, back, drawn,
                 cancelVars, staffVars, faults>>

\* Mutant: the slot is forgotten when the transaction rolls back.
UndoSlot_Forgotten(r) ==
  /\ pc[r] = "unslot"
  /\ Goto(r, "rejected")
  /\ UNCHANGED <<inventoryVars, promotionVars, orderVars, got, back, drawn,
                 cancelVars, staffVars, faults>>

UndoSlot(r) ==
  /\ pc[r] = "unslot"
  /\ TryReleaseSlot(CodeOf[r])
  /\ Goto(r, "rejected")
  /\ UNCHANGED <<inventoryVars, orderVars, got, back, drawn, cancelVars, staffVars>>

-----------------------------------------------------------------------------
(* Cancellation: cancelOrder.                                              *)

\* Reads the order with its items; a delivered or cancelled one is refused.
CancelRead(k, r) ==
  /\ cpc[k] = "new"
  /\ status[r] # NoOrder
  /\ cseen' = [cseen EXCEPT ![k] = status[r]]
  /\ ctarget' = [ctarget EXCEPT ![k] = r]
  /\ CGoto(k, IF status[r] \in {"delivered", "cancelled"} THEN "done" ELSE "swap")
  /\ UNCHANGED <<inventoryVars, promotionVars, orderVars, checkoutVars, cline,
                 staffVars, faults>>

\* Mutant: UPDATE ... WHERE id only, trusting the status read before.
CancelSwap_Blind(k) ==
  /\ cpc[k] = "swap"
  /\ status' = [status EXCEPT ![ctarget[k]] = "cancelled"]
  /\ CGoto(k, "release")
  /\ UNCHANGED <<inventoryVars, promotionVars, number, checkoutVars, cseen, ctarget,
                 cline, staffVars, faults>>

\* UPDATE ... SET status = cancelled WHERE status = <the status read>.
CancelSwap(k) ==
  /\ cpc[k] = "swap"
  /\ status[ctarget[k]] = cseen[k]
  /\ status' = [status EXCEPT ![ctarget[k]] = "cancelled"]
  /\ CGoto(k, "release")
  /\ UNCHANGED <<inventoryVars, promotionVars, number, checkoutVars, cseen, ctarget,
                 cline, staffVars, faults>>

CancelConflict(k) ==
  /\ cpc[k] = "swap"
  /\ status[ctarget[k]] # cseen[k]
  /\ CGoto(k, "done")
  /\ UNCHANGED <<inventoryVars, promotionVars, orderVars, checkoutVars, cseen, ctarget,
                 cline, staffVars, faults>>

AfterRelease(r) == IF HasCode(r) THEN "revoke" ELSE "done"

CancelRelease(k) ==
  LET r == ctarget[k]
      i == cline[k] IN
  /\ cpc[k] = "release"
  /\ cline' = [cline EXCEPT ![k] = i + 1]
  /\ \/ ReleaseStock(LinesOf[r][i].sku, LinesOf[r][i].qty) /\ UNCHANGED faults
     \/ Fault("release") /\ UNCHANGED inventoryVars
  /\ CGoto(k, IF i = Len(LinesOf[r]) THEN AfterRelease(r) ELSE "release")
  /\ UNCHANGED <<promotionVars, orderVars, checkoutVars, cseen, ctarget, staffVars>>

\* Mutant: the slot is counted down whether or not a row was found.
RevokeFind_Always(k) ==
  /\ cpc[k] = "revoke"
  /\ CGoto(k, "remove")
  /\ UNCHANGED <<inventoryVars, promotionVars, orderVars, checkoutVars, cseen, ctarget,
                 cline, staffVars, faults>>

\* revokeForOrder: find the usage rows of the order.
RevokeFind(k) ==
  /\ cpc[k] = "revoke"
  /\ CGoto(k, IF UsageRow(ctarget[k]) \in usages THEN "remove" ELSE "done")
  /\ UNCHANGED <<inventoryVars, promotionVars, orderVars, checkoutVars, cseen, ctarget,
                 cline, staffVars, faults>>

RevokeRemove(k) ==
  /\ cpc[k] = "remove"
  /\ RemoveUsage(UsageRow(ctarget[k]))
  /\ CGoto(k, "giveback")
  /\ UNCHANGED <<inventoryVars, orderVars, checkoutVars, cseen, ctarget, cline,
                 staffVars, faults>>

RevokeSlot(k) ==
  /\ cpc[k] = "giveback"
  /\ ReleaseSlot(CodeOf[ctarget[k]])
  /\ CGoto(k, "done")
  /\ UNCHANGED <<inventoryVars, orderVars, checkoutVars, cseen, ctarget, cline,
                 staffVars, faults>>

\* The rest of the revocation is given up; the cancellation stands.
RevokeFails(k) ==
  /\ cpc[k] \in {"revoke", "remove", "giveback"}
  /\ Fault("revoke")
  /\ CGoto(k, "done")
  /\ UNCHANGED <<inventoryVars, promotionVars, orderVars, checkoutVars, cseen, ctarget,
                 cline, staffVars>>

-----------------------------------------------------------------------------
(* Status change by staff: updateStatus reads the order, merges the new    *)
(* status and saves it, whatever the row holds by then.                    *)

StaffRead(a, r) ==
  /\ apc[a] = "new"
  /\ status[r] # NoOrder
  /\ aseen' = [aseen EXCEPT ![a] = status[r]]
  /\ atarget' = [atarget EXCEPT ![a] = r]
  /\ apc' = [apc EXCEPT ![a] = "write"]
  /\ UNCHANGED <<inventoryVars, promotionVars, orderVars, checkoutVars, cancelVars, faults>>

StaffWrite(a, to) ==
  /\ apc[a] = "write"
  /\ <<aseen[a], to>> \in StaffMoves
  /\ status' = [status EXCEPT ![atarget[a]] = to]
  /\ apc' = [apc EXCEPT ![a] = "new"]
  /\ UNCHANGED <<inventoryVars, promotionVars, number, checkoutVars, cancelVars,
                 aseen, atarget, faults>>

\* POST /inventory/adjust
Adjust(s, delta) ==
  /\ quantity[s] + delta <= MaxQuantity
  /\ AdjustStock(s, delta)
  /\ UNCHANGED <<promotionVars, orderVars, checkoutVars, cancelVars, staffVars, faults>>

Ended == {"placed", "rejected", "dead"}

\* The server process dies with the requests it is handling.
Crash ==
  /\ Fault("crash")
  /\ pc' = [r \in Requests |-> IF pc[r] \in Ended \cup {"new"} THEN pc[r] ELSE "dead"]
  /\ cpc' = [k \in Cancels |-> IF cpc[k] \in {"new", "done"} THEN cpc[k] ELSE "dead"]
  /\ apc' = [a \in Admins |-> "new"]
  /\ UNCHANGED <<inventoryVars, promotionVars, orderVars, got, back, drawn, cseen,
                 ctarget, cline, aseen, atarget>>

-----------------------------------------------------------------------------

CheckoutStep(r) ==
  \/ ReserveLine(r) \/ ReserveRefused(r) \/ ReserveUnrecorded(r)
  \/ CheckPromotion(r) \/ RejectPromotion(r) \/ TakePromotionSlot(r) \/ SlotGone(r)
  \/ DrawNumber(r) \/ DrawNumberFails(r) \/ InsertOrder(r) \/ InsertRefused(r)
  \/ RecordUsage(r) \/ RecordUsageFails(r) \/ GiveSlotBack(r)
  \/ UndoLine(r) \/ EndUndo(r) \/ UndoSlot(r)

CancelStep(k) ==
  \/ CancelSwap(k) \/ CancelConflict(k) \/ CancelRelease(k)
  \/ RevokeFind(k) \/ RevokeRemove(k) \/ RevokeSlot(k) \/ RevokeFails(k)

Next ==
  \/ \E r \in Requests : Begin(r) \/ CheckoutStep(r)
  \/ \E k \in Cancels : CancelStep(k) \/ \E r \in Requests : CancelRead(k, r)
  \/ \E a \in Admins : \/ \E r \in Requests : StaffRead(a, r)
                       \/ \E to \in Statuses : StaffWrite(a, to)
  \/ \E s \in Skus, delta \in Deltas : Adjust(s, delta)
  \/ Crash

Spec == Init /\ [][Next]_vars

\* A handler that has started runs on: each awaited statement answers or
\* throws.  No client is obliged to send a request.
Fairness ==
  /\ \A r \in Requests : WF_vars(CheckoutStep(r))
  /\ \A k \in Cancels : WF_vars(CancelStep(k))

FairSpec == Spec /\ Fairness

-----------------------------------------------------------------------------
(* What is promised to whom, computed from where every request stands.     *)

\* A unit of a line: <<checkout, line, k>>.
Units == UNION {UNION {{r} \X {i} \X (1..LinesOf[r][i].qty) : i \in DOMAIN LinesOf[r]}
                  : r \in Requests}

SkuOf(u) == LinesOf[u[1]][u[2]].sku

Live(r) == status[r] \notin {NoOrder, "cancelled"}

\* Line i of r is one some request or order still answers for: the checkout
\* that has reserved it, the order that contains it, or the cancellation that
\* has yet to release it.
Held(r, i) ==
  \/ status[r] = NoOrder /\ pc[r] \notin Ended /\ i > back[r] /\ i <= got[r]
  \/ Live(r)
  \/ /\ status[r] = "cancelled"
     /\ \E k \in Cancels : cpc[k] = "release" /\ ctarget[k] = r /\ i >= cline[k]

HeldUnits(s) == {u \in Units : SkuOf(u) = s /\ Held(u[1], u[2])}

PromisedUnits(s) == {u \in Units : SkuOf(u) = s /\ Live(u[1])}

\* Who answers for the slots of a code that are taken.
SlotHolders(c) == {r \in Requests : CodeOf[r] = c /\ HoldsSlot(r)}
Revokers(c) == {k \in Cancels : cpc[k] = "giveback" /\ CodeOf[ctarget[k]] = c}

SlotsHeld(c) ==
  Cardinality(SlotHolders(c)) + Cardinality(UsagesOf(c)) + Cardinality(Revokers(c))

-----------------------------------------------------------------------------
(* Properties.                                                             *)

\* Every reserved unit is answered for by exactly one checkout under way, live
\* order or cancellation: none leaks and none is given back twice, whatever
\* the interleaving of reserveStock, releaseReserved and cancelOrder.  Holds
\* without faults and without staff.
StockConserved == \A s \in Skus : reserved[s] = Cardinality(HeldUnits(s))

\* Even when statements throw and processes die in between, stock is never
\* given back while a request or an order still answers for it: a failure may
\* only leave too much reserved.
StockNeverUndercounted == \A s \in Skus : reserved[s] >= Cardinality(HeldUnits(s))

\* The units of the live orders exist: the guarded UPDATE of reserveStock and
\* every path that releases together never sell the same unit twice.
NoOversell ==
  \A s \in Skus \ Backorder : Cardinality(PromisedUnits(s)) <= quantity[s]

\* used_count is the slots of checkouts under way, plus the usage rows, plus
\* the rows a cancellation has deleted but not yet counted down.
SlotsConserved == \A c \in Codes : usedCount[c] = SlotsHeld(c)

\* With faults used_count may only be too high.
SlotsNeverUndercounted == \A c \in Codes : usedCount[c] >= SlotsHeld(c)

\* A code is never used by more orders than its usage_limit.
UsageLimitKept ==
  \A c \in Codes : UsageLimit[c] # 0 => Cardinality(UsagesOf(c)) <= UsageLimit[c]

\* The day's order numbers are 1, 2, 3, ... without a gap or a repetition: the
\* count a checkout read may be stale, but then its number is taken and the
\* unique index refuses it.
NumbersGapless ==
  /\ \A o, p \in Orders : number[o] = number[p] => o = p
  /\ {number[o] : o \in Orders} = 1..Cardinality(Orders)

\* cancelOrder never cancels an order that has been delivered in the meantime:
\* the status it read is compared again by the UPDATE.
DeliveredNotCancelled ==
  [][\A r \in Requests : status[r] = "delivered" => status'[r] # "cancelled"]_vars

\* Once the requests are through, what is reserved is what live orders hold:
\* rejected checkouts and cancelled orders have given everything back.
ReservationsSettle ==
  <>[](\A s \in Skus : reserved[s] = Cardinality(PromisedUnits(s)))

\* "Prevent the race of cancel and admin status update at the same time": a
\* cancelled order, whose stock is given back, is not brought back to life.
CancelledStaysCancelled ==
  [][\A r \in Requests : status[r] = "cancelled" => status'[r] = "cancelled"]_vars

\* The ledger of promises that checkouts and cancellations implement.
Ledger == INSTANCE StockLedger WITH
            stock <- quantity,
            promised <- [s \in Skus |-> HeldUnits(s)]

\* Orders and inventory together implement the ledger.
ImplementsLedger == Ledger!Spec
=============================================================================
