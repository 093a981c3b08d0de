----------------------------- MODULE Inventory -----------------------------
(***************************************************************************)
(* The inventory service (backend/src/modules/inventory).                  *)
(*                                                                         *)
(* One row per stock-keeping unit: "quantity" units exist, "reserved" of   *)
(* them are promised to orders.  Every operator below is one SQL UPDATE    *)
(* statement, which the database executes atomically; the callers in       *)
(* Orders interleave between them.  A unit without an inventory row behaves*)
(* as one whose quantity is 0: reserving it is refused.                    *)
(***************************************************************************)
EXTENDS Integers

CONSTANTS
  Skus,         \* the (product, variant) pairs that have an inventory row
  Backorder     \* those with allow_backorder = true

ASSUME BackorderAssumption == Backorder \subseteq Skus

VARIABLES
  quantity,     \* inventory.quantity, per sku
  reserved      \* inventory.reserved, per sku

inventoryVars == <<quantity, reserved>>

InventoryTypeOK ==
  /\ quantity \in [Skus -> Int]
  /\ reserved \in [Skus -> Nat]

Available(s) == quantity[s] - reserved[s]

\* Mutant: stock on the shelf is compared, as isInStock without reserved.
CanReserve_IgnoresReserved(s, q) == s \in Backorder \/ quantity[s] >= q

\* The WHERE clause of the reserving UPDATE; a backorder row has none.
CanReserve(s, q) == s \in Backorder \/ Available(s) >= q

ReserveStock(s, q) ==
  /\ CanReserve(s, q)
  /\ reserved' = [reserved EXCEPT ![s] = @ + q]
  /\ UNCHANGED quantity

\* Mutant: plain subtraction.
FloorSub_NoFloor(a, b) == a - b

\* GREATEST(0, a - b)
FloorSub(a, b) == IF a >= b THEN a - b ELSE 0

ReleaseStock(s, q) ==
  /\ reserved' = [reserved EXCEPT ![s] = FloorSub(@, q)]
  /\ UNCHANGED quantity

\* The guard looks at quantity only: what is reserved is not considered.
AdjustStock(s, delta) ==
  /\ delta < 0 /\ s \notin Backorder => quantity[s] + delta >= 0
  /\ quantity' = [quantity EXCEPT ![s] = @ + delta]
  /\ UNCHANGED reserved

=============================================================================
