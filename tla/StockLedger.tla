---------------------------- MODULE StockLedger ----------------------------
(***************************************************************************)
(* What the shop promises about stock, without requests or statements:     *)
(* units of a sku are promised to somebody, one promise at a time and only *)
(* while they fit into the stock; promises are withdrawn; stock comes in.  *)
(* A unit that is promised exists.                                         *)
(***************************************************************************)
EXTENDS Integers, FiniteSets

CONSTANTS
  Skus,
  Backorder     \* skus that may be promised beyond the stock

VARIABLES
  stock,        \* units that exist, per sku
  promised      \* the set of units promised, per sku

Fits(s) == s \in Backorder \/ Cardinality(promised[s]) <= stock[s]

Init ==
  /\ stock \in [Skus -> Nat]
  /\ promised = [s \in Skus |-> {}]

\* Somebody is promised more units of s, and they fit.
Promise(s) ==
  /\ promised[s] \subseteq promised'[s]
  /\ Fits(s)'
  /\ promised' = [promised EXCEPT ![s] = promised'[s]]
  /\ UNCHANGED stock

\* Promises are withdrawn, at a crash those of several skus at once.
Withdraw ==
  /\ DOMAIN promised' = Skus
  /\ \A s \in Skus : promised'[s] \subseteq promised[s]
  /\ UNCHANGED stock

Restock(s) ==
  /\ stock'[s] > stock[s]
  /\ stock' = [stock EXCEPT ![s] = stock'[s]]
  /\ UNCHANGED promised

Next == Withdraw \/ \E s \in Skus : Promise(s) \/ Restock(s)

Spec == Init /\ [][Next]_<<stock, promised>>

=============================================================================
