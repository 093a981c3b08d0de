----------------------------- MODULE Promotions -----------------------------
(***************************************************************************)
(* The promotions service (backend/src/modules/promotions).                *)
(*                                                                         *)
(* used_count counts the slots of a code that are taken; promotion_usages  *)
(* holds one row per order that used it.  The two are written by separate  *)
(* statements: a slot is taken first, the row is written once the order    *)
(* exists.  Every action here is one statement.                            *)
(***************************************************************************)
EXTENDS Integers, FiniteSets

CONSTANTS
  Codes,          \* promotion codes
  UsageLimit,     \* promotions.usage_limit per code; 0 stands for "no limit"
  PerUserLimit    \* promotions.per_user_limit per code

ASSUME LimitAssumption ==
  /\ UsageLimit \in [Codes -> Nat]
  /\ PerUserLimit \in [Codes -> Nat]

VARIABLES
  usedCount,      \* promotions.used_count, per code
  usages          \* the rows of promotion_usages

promotionVars == <<usedCount, usages>>

UsagesOf(c) == {u \in usages : u.code = c}

UsagesBy(c, user) == {u \in UsagesOf(c) : u.user = user}

\* The conditional UPDATE "used_count + 1 WHERE used_count < usage_limit".
SlotLeft(c) == UsageLimit[c] = 0 \/ usedCount[c] < UsageLimit[c]

\* The part of validate() that reads counters.  The dates, is_active and the
\* minimum amount may refuse a code at any time (see Orders!RejectPromotion).
Validates(c, user) ==
  /\ SlotLeft(c)
  /\ Cardinality(UsagesBy(c, user)) < PerUserLimit[c]

\* Mutant: the increment without its WHERE clause, trusting validate().
TakeSlot_Unchecked(c) ==
  /\ usedCount' = [usedCount EXCEPT ![c] = @ + 1]
  /\ UNCHANGED usages

TakeSlot(c) ==
  /\ SlotLeft(c)
  /\ usedCount' = [usedCount EXCEPT ![c] = @ + 1]
  /\ UNCHANGED usages

\* GREATEST(0, used_count - 1)
ReleaseSlot(c) ==
  /\ usedCount' = [usedCount EXCEPT ![c] = IF @ > 0 THEN @ - 1 ELSE 0]
  /\ UNCHANGED usages

InsertUsage(row) ==
  /\ usages' = usages \cup {row}
  /\ UNCHANGED usedCount

\* Deleting a row that is already gone affects nothing and does not fail.
RemoveUsage(row) ==
  /\ usages' = usages \ {row}
  /\ UNCHANGED usedCount

=============================================================================
