-------------------------------- MODULE Cart --------------------------------
(***************************************************************************)
(* Carts (backend/src/modules/cart): getting or creating the cart of a     *)
(* user or of a guest, adding, setting, removing, clearing, and merging    *)
(* the guest's cart into the user's at login.  Nothing is transactional:   *)
(* every call to the database is a step of its own.                        *)
(*                                                                         *)
(* Whether a product still exists and whether the stock suffices           *)
(* (resolvePrice, isInStock: reads that reserve nothing) is a choice.      *)
(* Adds are of one piece; prices are left out.                             *)
(***************************************************************************)
EXTENDS Integers, FiniteSets

CONSTANTS
  Ops,        \* requests that may be under way at a time
  Items,      \* products or variants
  Variants,   \* those with a variant_id
  MaxOps,     \* bound on the requests ever served
  MaxCarts,   \* bound on the carts ever created
  MaxLines    \* bound on the cart_items ever created

ASSUME CartAssumption ==
  /\ IsFiniteSet(Ops)
  /\ Variants \subseteq Items
  /\ MaxOps \in Nat /\ MaxCarts \in Nat /\ MaxLines \in Nat

Carts == 1..MaxCarts
Lines == 1..MaxLines
Owners == {"user", "guest"}
None == 0

VARIABLES
  cart,     \* carts: owner and status of each
  line,     \* cart_items: cart, item and quantity; cart None where there is no row
  op,
  served,
  made,     \* cart_items ever created
  \* History, read by the properties only:
  added,    \* what adds have put on a line since its quantity was last saved whole
  moved,    \* lines of guests that a merge has put in the user's cart, or left out
  again,    \* ... and those that another merge did so with
  late,     \* lines inserted in a cart that was merged by then
  disturbed \* two merges have overlapped, or one has ended half-way

history == <<added, moved, again, late, disturbed>>
vars == <<cart, line, op, served, made, added, moved, again, late, disturbed>>

Kinds == {"add", "set", "remove", "clear", "merge"}
NoLine == [cart |-> None, item |-> "none", qty |-> 0]
NoCart == [owner |-> "nobody", status |-> "none"]
Idle == [pc |-> "idle"]

Init ==
  /\ cart = [c \in Carts |-> NoCart]
  /\ line = [l \in Lines |-> NoLine]
  /\ op = [o \in Ops |-> Idle]
  /\ served = 0
  /\ made = 0
  /\ added = [l \in Lines |-> 0]
  /\ moved = {}
  /\ again = {}
  /\ late = {}
  /\ disturbed = FALSE

-----------------------------------------------------------------------------
At(o, kinds, step) == op[o].pc = step /\ op[o].kind \in kinds

Goto(o, step) == op' = [op EXCEPT ![o].pc = step]

End(o) == op' = [op EXCEPT ![o] = Idle]

\* A request of an owner: what it adds, or the line of its cart that it names.
\* merge is a request of the user for the guest of its session.
Begin(o, kind, owner, item, l) ==
  /\ op[o] = Idle
  /\ served < MaxOps
  /\ served' = served + 1
  /\ kind \in {"set", "remove"} => line[l].cart # None /\ cart[line[l].cart].owner = owner
  /\ op' = [op EXCEPT ![o] = [pc |-> IF kind = "merge" THEN "guest" ELSE "cart",
                               kind |-> kind, owner |-> owner, item |-> item, line |-> l,
                               cart |-> None, guest |-> None, theirs |-> {}, mine |-> {}, todo |-> {}]]
  /\ UNCHANGED <<cart, line, made, history>>

-----------------------------------------------------------------------------
(* getOrCreateCart.                                                        *)

\* Mutant: the cart is looked for among the abandoned ones.
Current_Abandoned(owner) == {c \in Carts : cart[c] = [owner |-> owner, status |-> "abandoned"]}

Current(owner) == {c \in Carts : cart[c] = [owner |-> owner, status |-> "active"]}

Rows(c) == {l \in Lines : c # None /\ line[l].cart = c}

\* The rows of a cart as a request has read them.
Copies(c) == {[id |-> l, item |-> line[l].item, qty |-> line[l].qty] : l \in Rows(c)}

AfterCart(kind) ==
  CASE kind \in {"add", "set", "remove"} -> "find"
    [] kind = "clear" -> "clear"
    [] kind = "merge" -> "transfer"

Enter(o, c) ==
  op' = [op EXCEPT ![o].pc = AfterCart(op[o].kind), ![o].cart = c, ![o].mine = Copies(c)]

FindCart(o) ==
  /\ op[o].pc = "cart"
  /\ IF Current(op[o].owner) = {} THEN Goto(o, "create")
     ELSE \E c \in Current(op[o].owner) : Enter(o, c)
  /\ UNCHANGED <<cart, line, served, made, history>>

CreateCart(o) ==
  /\ op[o].pc = "create"
  /\ \E c \in Carts :
       /\ cart[c] = NoCart /\ \A d \in Carts : d < c => cart[d] # NoCart
       /\ cart' = [cart EXCEPT ![c] = [owner |-> op[o].owner, status |-> "active"]]
       /\ Enter(o, c)
  /\ UNCHANGED <<line, served, made, history>>

-----------------------------------------------------------------------------
(* addItem.                                                                *)

Same(c, item) == {l \in Rows(c) : line[l].item = item}

\* A product that is gone or a stock that is too small ends the request.
Refuse(o) ==
  /\ At(o, {"add", "set"}, "find")
  /\ End(o)
  /\ UNCHANGED <<cart, line, served, made, history>>

FindLine(o) ==
  /\ At(o, {"add"}, "find")
  /\ LET same == Same(op[o].cart, op[o].item)
     IN  IF same = {} THEN Goto(o, "insert")
         ELSE \E l \in same : op' = [op EXCEPT ![o].pc = "increment", ![o].line = l,
                                               ![o].mine = {c \in Copies(op[o].cart) : c.id = l}]
  /\ UNCHANGED <<cart, line, served, made, history>>

\* Mutant: the quantity that was read, plus one, is written.
Incremented_Copy(o) == (CHOOSE c \in op[o].mine : c.id = op[o].line).qty + 1

\* quantity + 1, computed by the database.
Incremented(o) == line[op[o].line].qty + 1

\* The UPDATE finds no row when the line was deleted meanwhile; the add then
\* fails.
Increment(o) ==
  /\ op[o].pc = "increment"
  /\ LET l == op[o].line
     IN  IF line[l].cart = None THEN UNCHANGED <<line, added>>
         ELSE /\ line' = [line EXCEPT ![l].qty = Incremented(o)]
              /\ added' = [added EXCEPT ![l] = @ + 1]
  /\ End(o)
  /\ UNCHANGED <<cart, served, made, moved, again, late, disturbed>>

\* The unique index on cart, product and variant: rows without variant never
\* collide in it.
Collides(c, item) == item \in Variants /\ Same(c, item) # {}

NewLine(o, item, qty, whole) ==
  LET l == made + 1
      c == op[o].cart
  IN  /\ made < MaxLines
      /\ made' = l
      /\ line' = [line EXCEPT ![l] = [cart |-> c, item |-> item, qty |-> qty]]
      /\ added' = [added EXCEPT ![l] = IF whole THEN 0 ELSE qty]
      /\ late' = IF cart[c].status = "merged" THEN late \union {l} ELSE late

Insert(o) ==
  /\ At(o, {"add"}, "insert")
  /\ ~Collides(op[o].cart, op[o].item)
  /\ NewLine(o, op[o].item, 1, FALSE)
  /\ End(o)
  /\ UNCHANGED <<cart, served, moved, again, disturbed>>

\* The insert is refused; the line of the other request is looked for.
InsertRefused(o) ==
  /\ At(o, {"add"}, "insert")
  /\ Collides(op[o].cart, op[o].item)
  /\ Goto(o, "find again")
  /\ UNCHANGED <<cart, line, served, made, history>>

FindAgain(o) ==
  /\ op[o].pc = "find again"
  /\ LET same == Same(op[o].cart, op[o].item)
     IN  IF same = {} THEN End(o)
         ELSE \E l \in same : op' = [op EXCEPT ![o].pc = "increment", ![o].line = l,
                                               ![o].mine = {c \in Copies(op[o].cart) : c.id = l}]
  /\ UNCHANGED <<cart, line, served, made, history>>

-----------------------------------------------------------------------------
(* updateItemQuantity, removeItem, clearCart.                              *)

FindOwnLine(o) ==
  /\ At(o, {"set", "remove"}, "find")
  /\ IF op[o].line \in Rows(op[o].cart)
     THEN op' = [op EXCEPT ![o].pc = IF op[o].kind = "set" THEN "save" ELSE "delete",
                           ![o].mine = {c \in Copies(op[o].cart) : c.id = op[o].line}]
     ELSE End(o)
  /\ UNCHANGED <<cart, line, served, made, history>>

\* save of an entity: the row is written, or inserted again when it was deleted.
Saved(rows, copies, c) ==
  [l \in Lines |->
     IF \E copy \in copies : copy.id = l
     THEN LET copy == CHOOSE x \in copies : x.id = l
          IN  [cart |-> c, item |-> copy.item, qty |-> copy.qty]
     ELSE rows[l]]

\* Rows that a save would insert again beside another of their variant.
SaveCollides(copies, c) ==
  \E copy \in copies : line[copy.id].cart = None /\ Collides(c, copy.item)

WithoutAdded(copies) == [l \in Lines |-> IF \E copy \in copies : copy.id = l THEN 0 ELSE added[l]]

\* A row that was deleted since it was read, and the cart merged.
InsertedLate(o) ==
  IF cart[op[o].cart].status = "merged" /\ line[op[o].line].cart = None THEN {op[o].line} ELSE {}

\* The quantity of the request, one or two.
SetQuantity(o) ==
  /\ op[o].pc = "save"
  /\ IF SaveCollides(op[o].mine, op[o].cart) THEN UNCHANGED <<line, added, late>>
     ELSE /\ \E q \in 1..2 :
               line' = Saved(line, {[c EXCEPT !.qty = q] : c \in op[o].mine}, op[o].cart)
          /\ added' = WithoutAdded(op[o].mine)
          /\ late' = late \union InsertedLate(o)
  /\ End(o)
  /\ UNCHANGED <<cart, served, made, moved, again, disturbed>>

Deleted(ls) ==
  /\ line' = [l \in Lines |-> IF l \in ls THEN NoLine ELSE line[l]]
  /\ added' = [l \in Lines |-> IF l \in ls THEN 0 ELSE added[l]]

RemoveLine(o) ==
  /\ op[o].pc = "delete"
  /\ Deleted({op[o].line})
  /\ End(o)
  /\ UNCHANGED <<cart, served, made, moved, again, late, disturbed>>

Clear(o) ==
  /\ op[o].pc = "clear"
  /\ Deleted(Rows(op[o].cart))
  /\ End(o)
  /\ UNCHANGED <<cart, served, made, moved, again, late, disturbed>>

-----------------------------------------------------------------------------
(* mergeGuestCart.                                                         *)

Merging(o) == op[o].pc # "idle" /\ op[o].kind = "merge" /\ op[o].guest # None

\* The guest's cart is read with its rows, and the user's cart after it.
ReadGuest(o) ==
  /\ op[o].pc = "guest"
  /\ \/ /\ Current("guest") = {}
        /\ Goto(o, "cart")
        /\ UNCHANGED disturbed
     \/ \E g \in Current("guest") :
          IF Rows(g) = {} THEN Goto(o, "cart") /\ UNCHANGED disturbed
          ELSE /\ op' = [op EXCEPT ![o].pc = "cart", ![o].guest = g,
                                   ![o].theirs = Copies(g), ![o].todo = Copies(g)]
               /\ disturbed' = (disturbed \/ \E p \in Ops : Merging(p))
  /\ UNCHANGED <<cart, line, served, made, added, moved, again, late>>

NothingToMerge(o) ==
  /\ At(o, {"merge"}, "transfer") /\ op[o].guest = None
  /\ End(o)
  /\ UNCHANGED <<cart, line, served, made, history>>

\* A row of the guest is dealt with; mine: the user's rows as the request now
\* has them.
Done(o, theirs, mine) ==
  /\ op' = [op EXCEPT ![o].todo = @ \ {theirs}, ![o].mine = mine]
  /\ again' = again \union (moved \intersect {theirs.id})
  /\ moved' = moved \union {theirs.id}

\* The product is gone or the stock too small: the row is left out.
Skip(o, theirs) ==
  /\ Done(o, theirs, op[o].mine)
  /\ UNCHANGED <<cart, line, served, made, added, late, disturbed>>

SameIn(copies, item) == {c \in copies : c.item = item}

\* The user's cart had the item: the row that was read, with both quantities,
\* is saved.
AddToMine(o, theirs) ==
  /\ \E mine \in SameIn(op[o].mine, theirs.item) :
       LET both == [mine EXCEPT !.qty = @ + theirs.qty]
       IN  /\ ~SaveCollides({mine}, op[o].cart)
           /\ line' = Saved(line, {both}, op[o].cart)
           /\ added' = WithoutAdded({mine})
           /\ Done(o, theirs, (op[o].mine \ {mine}) \union {both})
  /\ UNCHANGED <<cart, served, made, late, disturbed>>

\* It had not: a new row, which later rows of the guest do not see.
AddAsNew(o, theirs) ==
  /\ SameIn(op[o].mine, theirs.item) = {}
  /\ ~Collides(op[o].cart, theirs.item)
  /\ NewLine(o, theirs.item, theirs.qty, TRUE)
  /\ Done(o, theirs, op[o].mine)
  /\ UNCHANGED <<cart, served, disturbed>>

Transfer(o) ==
  /\ At(o, {"merge"}, "transfer")
  /\ \E theirs \in op[o].todo : Skip(o, theirs) \/ AddToMine(o, theirs) \/ AddAsNew(o, theirs)

\* Mutant: the status alone is written.
CanFinish_StatusOnly(o) == TRUE

\* The guest's cart is saved with the rows that were read with it.  A row it has
\* got since would be detached from it, which its NOT NULL column forbids.
CanFinish(o) ==
  /\ Rows(op[o].guest) \subseteq {c.id : c \in op[o].theirs}
  /\ ~SaveCollides(op[o].theirs, op[o].guest)

\* Mutant: the status is not changed before the cart is saved.
Closed_StillActive(row) == row

\* What the merge makes of the guest's cart.
Closed(row) == [row EXCEPT !.status = "merged"]

Finish(o) ==
  /\ At(o, {"merge"}, "transfer") /\ op[o].guest # None /\ op[o].todo = {}
  /\ CanFinish(o)
  /\ cart' = [cart EXCEPT ![op[o].guest] = Closed(@)]
  /\ line' = Saved(line, op[o].theirs, op[o].guest)
  /\ added' = WithoutAdded(op[o].theirs)
  /\ End(o)
  /\ UNCHANGED <<served, made, moved, again, late, disturbed>>

FinishFails(o) ==
  /\ At(o, {"merge"}, "transfer") /\ op[o].guest # None /\ op[o].todo = {}
  /\ ~CanFinish(o)
  /\ disturbed' = TRUE
  /\ End(o)
  /\ UNCHANGED <<cart, line, served, made, added, moved, again, late>>

\* The process dies, or a call fails: a unique index that refuses a row of a
\* merge included.
Dies(o) ==
  /\ op[o] # Idle
  /\ disturbed' = (disturbed \/ Merging(o))
  /\ End(o)
  /\ UNCHANGED <<cart, line, served, made, added, moved, again, late>>

-----------------------------------------------------------------------------
Step(o) ==
  \/ FindCart(o) \/ CreateCart(o)
  \/ Refuse(o) \/ FindLine(o) \/ Increment(o) \/ Insert(o) \/ InsertRefused(o) \/ FindAgain(o)
  \/ FindOwnLine(o) \/ SetQuantity(o) \/ RemoveLine(o) \/ Clear(o)
  \/ ReadGuest(o) \/ NothingToMerge(o) \/ Transfer(o) \/ Finish(o) \/ FinishFails(o)

\* What each kind of request comes with.
Request(o) ==
  \/ \E owner \in Owners, item \in Items : Begin(o, "add", owner, item, None)
  \/ \E owner \in Owners, l \in Lines, kind \in {"set", "remove"} : Begin(o, kind, owner, "none", l)
  \/ \E owner \in Owners : Begin(o, "clear", owner, "none", None)
  \/ Begin(o, "merge", "user", "none", None)

Next == \E o \in Ops : Request(o) \/ Step(o) \/ Dies(o)

Spec == Init /\ [][Next]_vars

-----------------------------------------------------------------------------
(***************************************************************************)
(* An owner never has more active carts than requests may overlap: those   *)
(* that found no cart each create one, and every later request finds one   *)
(* of theirs.                                                              *)
(***************************************************************************)
ActiveCarts(owner) == {c \in Carts : cart[c].owner = owner /\ cart[c].status = "active"}

CartsBounded == \A owner \in Owners : Cardinality(ActiveCarts(owner)) <= Cardinality(Ops)

(***************************************************************************)
(* No add is lost to another: a line holds at least what the adds have put *)
(* on it since its quantity was last saved whole, be they the increment    *)
(* after a refused insert.                                                 *)
(***************************************************************************)
AddsKept == \A l \in Lines : line[l].cart # None => line[l].qty >= added[l]

(***************************************************************************)
(* A merge transfers each line of the guest once, unless merges overlapped *)
(* or one of them ended half-way and was sent again.                       *)
(***************************************************************************)
MovedOnce == again = {} \/ disturbed

(***************************************************************************)
(* No line stays behind in a merged cart that the merge has not looked at, *)
(* except one that was inserted after the merge, by a request that had     *)
(* read the cart before.                                                   *)
(***************************************************************************)
NotStranded ==
  \A l \in Lines :
    line[l].cart # None /\ cart[line[l].cart].status = "merged" => l \in moved \union late
=============================================================================
