------------------------------ MODULE CartProofs ------------------------------
(***************************************************************************)
(* Theorems about Cart, for any number of requests, items, carts and       *)
(* lines.                                                                  *)
(***************************************************************************)
EXTENDS Cart, FiniteSetTheorems, TLAPS

Steps == {"guest", "cart", "create", "find", "find again", "insert", "increment",
          "save", "delete", "clear", "transfer"}
Names == Items \union {"none"}
Copy == [id : Lines, item : Names, qty : Nat]
CartItem == [cart : 0..MaxCarts, item : Names, qty : Nat]
CartRow == [owner : Owners \union {"nobody"}, status : {"none", "active", "merged"}]

\* What a request is in each of its steps.
Consistent(r) ==
  /\ r.pc \notin {"guest", "cart", "create"} => r.cart \in Carts
  /\ r.pc \in {"increment", "save", "delete"} => r.line \in Lines
  /\ r.pc \in {"save", "delete"} => \A x \in r.mine : x.id = r.line
  /\ r.pc \in {"guest", "transfer"} => r.kind = "merge"
  /\ r.pc \notin {"guest", "cart", "create", "transfer"} => r.kind # "merge"
  /\ r.kind = "merge" => r.owner = "user"
  /\ r.kind # "merge" \/ r.pc = "guest" => r.guest = None
  /\ r.guest = None => r.theirs = {}
  /\ r.todo \subseteq r.theirs
  /\ \A x, y \in r.theirs : x.id = y.id => x = y

ServedRecord ==
  [pc : Steps, kind : Kinds, owner : Owners, item : Names, line : 0..MaxLines, cart : 0..MaxCarts,
   guest : 0..MaxCarts, theirs : SUBSET Copy, mine : SUBSET Copy, todo : SUBSET Copy]

Served == {r \in ServedRecord : Consistent(r)}

TypeOK ==
  /\ cart \in [Carts -> CartRow]
  /\ line \in [Lines -> CartItem]
  /\ op \in [Ops -> {Idle} \union Served]
  /\ made \in 0..MaxLines
  /\ added \in [Lines -> Nat]
  /\ moved \subseteq Lines
  /\ disturbed \in BOOLEAN

\* Carts keep their owners; only a guest's is ever merged.
CartsInv ==
  /\ \A c \in Carts : cart[c].status = "merged" => cart[c].owner = "guest"
  /\ \A o \in Ops : op[o] # Idle =>
       /\ op[o].cart \in Carts => cart[op[o].cart].owner = op[o].owner
       /\ op[o].guest \in Carts => cart[op[o].guest].owner = "guest"

\* An owner's carts and those about to be created for it.
Creating(owner) == {o \in Ops : op[o].pc = "create" /\ op[o].owner = owner}

CountInv == \A owner \in Owners : Cardinality(ActiveCarts(owner)) + Cardinality(Creating(owner)) <= Cardinality(Ops)

\* A line is in the cart, or a request that may save it in the cart has read it.
BelongsTo(l, c) ==
  \/ line[l].cart = c
  \/ \E o \in Ops : op[o] # Idle /\ op[o].cart = c /\ \E x \in op[o].mine : x.id = l
  \/ \E o \in Ops : op[o] # Idle /\ op[o].guest = c /\ \E x \in op[o].theirs : x.id = l

\* Lines never change their cart, deleted and inserted again as they may be.
HomeInv ==
  \A l \in Lines, c \in Carts : BelongsTo(l, c) =>
    /\ l <= made
    /\ \A d \in Carts : BelongsTo(l, d) => c = d

\* What a merge has dealt with is known to have been moved.
DealtInv ==
  /\ \A l \in moved : l <= made
  /\ \A o \in Ops : op[o] # Idle => \A x \in op[o].theirs \ op[o].todo : x.id \in moved

\* What is moved is of a cart that is merged, or of the one being merged.
QuietInv ==
  disturbed \/
    /\ again = {}
    /\ \A o, p \in Ops : Merging(o) /\ Merging(p) => o = p
    /\ \A o \in Ops : Merging(o) => cart[op[o].guest].status = "active"
    /\ \A l \in moved, c \in Carts : BelongsTo(l, c) =>
         \/ cart[c].status = "merged"
         \/ \E o \in Ops : Merging(o) /\ op[o].guest = c /\ \A x \in op[o].todo : x.id # l

IInv == TypeOK /\ CartsInv /\ CountInv /\ HomeInv /\ DealtInv /\ QuietInv /\ AddsKept /\ NotStranded

-----------------------------------------------------------------------------
\* Carts and lines are numbers; None is none of them.
LEMMA Numbers ==
  /\ Carts \subseteq 0..MaxCarts /\ Lines \subseteq 0..MaxLines
  /\ None \in 0..MaxCarts /\ None \in 0..MaxLines /\ None \notin Carts /\ None \notin Lines
  /\ Carts \subseteq Nat /\ Lines \subseteq Nat
  /\ \A c \in 0..MaxCarts : c # None => c \in Carts
  /\ \A l \in 0..MaxLines : l # None => l \in Lines
  BY CartAssumption DEF Carts, Lines, None

\* A request under way is one that is not idle.
LEMMA ServedOrIdle ==
  ASSUME TypeOK, NEW o \in Ops
  PROVE  /\ op[o] # Idle <=> op[o] \in Served
         /\ op[o].pc \in Steps => op[o] \in Served
         /\ op[o].pc # "idle" => op[o] \in Served
         /\ op[o] \in Served => Consistent(op[o]) /\ op[o].pc \in Steps /\ op[o].pc # "idle"
<1>1. op[o] = Idle \/ op[o] \in Served
  BY DEF TypeOK
<1>2. op[o] \in Served => Consistent(op[o]) /\ op[o].pc \in Steps
  BY DEF Served, ServedRecord
<1>3. Idle.pc = "idle" /\ "idle" \notin Steps
  BY DEF Idle, Steps
<1> QED
  BY <1>1, <1>2, <1>3

\* The copies of the rows of a cart, one of each row.
LEMMA CopiesOfRows ==
  ASSUME TypeOK, NEW c
  PROVE  /\ Copies(c) \subseteq Copy
         /\ \A x \in Copies(c) : line[x.id].cart = c /\ c # None
         /\ \A x, y \in Copies(c) : x.id = y.id => x = y
         /\ \A l \in Rows(c) : \E x \in Copies(c) : x.id = l
         /\ Copies(c) = {} <=> Rows(c) = {}
<1>1. \A l \in Rows(c) : l \in Lines /\ line[l] \in CartItem /\ line[l].cart = c /\ c # None
  BY DEF Rows, TypeOK
<1>2. \A l \in Rows(c) : [id |-> l, item |-> line[l].item, qty |-> line[l].qty] \in Copy
  BY <1>1 DEF Copy, CartItem
<1>3. ASSUME NEW x \in Copies(c)
      PROVE  x.id \in Rows(c) /\ x = [id |-> x.id, item |-> line[x.id].item, qty |-> line[x.id].qty]
  BY <1>3 DEF Copies
<1>4. Copies(c) \subseteq Copy
  BY <1>2, <1>3
<1>5. \A l \in Rows(c) : [id |-> l, item |-> line[l].item, qty |-> line[l].qty] \in Copies(c)
  BY DEF Copies
<1>6. \A l \in Rows(c) : \E x \in Copies(c) : x.id = l
  BY <1>5
<1> QED
  BY <1>1, <1>3, <1>4, <1>6

\* What a save of entities leaves in the rows.
LEMMA SavedRows ==
  ASSUME NEW rows \in [Lines -> CartItem], NEW copies \in SUBSET Copy, NEW c \in 0..MaxCarts
  PROVE  /\ Saved(rows, copies, c) \in [Lines -> CartItem]
         /\ \A l \in Lines : (\E x \in copies : x.id = l) => Saved(rows, copies, c)[l].cart = c
         /\ \A l \in Lines : ~(\E x \in copies : x.id = l) => Saved(rows, copies, c)[l] = rows[l]
<1>1. ASSUME NEW l \in Lines, \E x \in copies : x.id = l
      PROVE  Saved(rows, copies, c)[l] \in CartItem /\ Saved(rows, copies, c)[l].cart = c
  <2> DEFINE y == CHOOSE x \in copies : x.id = l
  <2>1. y \in copies
    BY <1>1
  <2>2. y \in Copy
    BY <2>1
  <2>3. Saved(rows, copies, c)[l] = [cart |-> c, item |-> y.item, qty |-> y.qty]
    BY <1>1 DEF Saved
  <2> HIDE DEF y
  <2> QED
    BY <2>2, <2>3 DEF Copy, CartItem
<1>2. ASSUME NEW l \in Lines, ~(\E x \in copies : x.id = l)
      PROVE  Saved(rows, copies, c)[l] = rows[l]
  BY <1>2 DEF Saved
<1>3. Saved(rows, copies, c) = [l \in Lines |-> Saved(rows, copies, c)[l]]
  BY DEF Saved
<1>4. \A l \in Lines : Saved(rows, copies, c)[l] \in CartItem
  BY <1>1, <1>2
<1>5. Saved(rows, copies, c) \in [Lines -> CartItem]
  <2> DEFINE s == Saved(rows, copies, c)
  <2>1. s = [l \in Lines |-> s[l]] /\ \A l \in Lines : s[l] \in CartItem
    BY <1>3, <1>4
  <2> HIDE DEF s
  <2>2. s \in [Lines -> CartItem]
    BY <2>1
  <2> QED
    BY <2>2 DEF s
<1> QED
  BY <1>1, <1>2, <1>5

\* A row that no entity stands for is left alone by the save.
LEMMA NotSaved ==
  ASSUME NEW rows, NEW copies, NEW c, NEW l \in Lines, ~\E x \in copies : x.id = l
  PROVE  Saved(rows, copies, c)[l] = rows[l]
  BY DEF Saved

\* One that an entity stands for is in its cart afterwards.
LEMMA SavedInCart ==
  ASSUME NEW rows, NEW copies, NEW c, NEW l \in Lines, \E x \in copies : x.id = l
  PROVE  Saved(rows, copies, c)[l].cart = c
  BY DEF Saved

\* Every step preserves the types.
LEMMA NextType == TypeOK /\ [Next]_vars => TypeOK'
<1> SUFFICES ASSUME TypeOK, [Next]_vars PROVE TypeOK'
  OBVIOUS
<1>a. /\ cart \in [Carts -> CartRow] /\ line \in [Lines -> CartItem] /\ op \in [Ops -> {Idle} \union Served]
      /\ made \in 0..MaxLines /\ added \in [Lines -> Nat] /\ moved \subseteq Lines /\ disturbed \in BOOLEAN
  BY DEF TypeOK
<1>b. ASSUME NEW o \in Ops, NEW q \in {Idle} \union Served, op' = [op EXCEPT ![o] = q]
      PROVE  op' \in [Ops -> {Idle} \union Served]
  BY <1>a, <1>b
<1>c. ASSUME NEW o \in Ops, End(o) PROVE op' \in [Ops -> {Idle} \union Served]
  BY <1>b, <1>c DEF End
<1>d. ASSUME NEW o \in Ops, op[o].pc # "idle" PROVE op[o] \in Served /\ op[o] \in ServedRecord /\ Consistent(op[o])
  BY <1>d, ServedOrIdle DEF Served
\* A request that goes on with other values, consistent with its step.
<1>e. ASSUME NEW o \in Ops, NEW q \in ServedRecord, Consistent(q), op' = [op EXCEPT ![o] = q]
      PROVE  op' \in [Ops -> {Idle} \union Served]
  BY <1>b, <1>e DEF Served
<1>f. ASSUME NEW o \in Ops, op[o].pc # "idle", NEW step \in Steps, Goto(o, step), Consistent([op[o] EXCEPT !.pc = step])
      PROVE  op' \in [Ops -> {Idle} \union Served]
  <2>1. [op[o] EXCEPT !.pc = step] \in ServedRecord
    BY <1>d, <1>f DEF ServedRecord
  <2> QED
    BY <1>e, <1>f, <2>1 DEF Goto
<1>g. ASSUME NEW o \in Ops, op[o].pc \in {"cart", "create"}, NEW c \in Carts, Enter(o, c)
      PROVE  op' \in [Ops -> {Idle} \union Served]
  <2> DEFINE q == [op[o] EXCEPT !.pc = AfterCart(op[o].kind), !.cart = c, !.mine = Copies(c)]
  <2>1. op[o] \in ServedRecord /\ Consistent(op[o])
    BY <1>d, <1>g
  <2>2. AfterCart(op[o].kind) \in {"find", "clear", "transfer"} /\ (AfterCart(op[o].kind) = "transfer" <=> op[o].kind = "merge")
    BY <2>1 DEF AfterCart, ServedRecord, Kinds
  <2>3. Copies(c) \in SUBSET Copy
    BY CopiesOfRows
  <2>4. q \in ServedRecord
    BY <2>1, <2>2, <2>3, Numbers DEF ServedRecord, Steps
  <2>5. Consistent(q)
    BY <1>g, <2>1, <2>2 DEF Consistent, ServedRecord
  <2> QED
    BY <1>e, <1>g, <2>4, <2>5 DEF Enter
\* A request that has found a line of its cart.
<1>h. ASSUME NEW o \in Ops, op[o].pc \in {"find", "find again"}, NEW l \in Rows(op[o].cart),
             NEW step \in {"increment", "save", "delete"},
             op' = [op EXCEPT ![o].pc = step, ![o].line = l, ![o].mine = {c \in Copies(op[o].cart) : c.id = l}]
      PROVE  op' \in [Ops -> {Idle} \union Served]
  <2> DEFINE q == [op[o] EXCEPT !.pc = step, !.line = l, !.mine = {c \in Copies(op[o].cart) : c.id = l}]
  <2>1. op[o] \in ServedRecord /\ Consistent(op[o])
    BY <1>d, <1>h
  <2>2. l \in Lines /\ {c \in Copies(op[o].cart) : c.id = l} \in SUBSET Copy
    BY CopiesOfRows DEF Rows
  <2>3. q \in ServedRecord
    BY <2>1, <2>2, Numbers DEF ServedRecord, Steps
  <2>4. Consistent(q)
    BY <1>h, <2>1, <2>2 DEF Consistent, ServedRecord
  <2> QED
    BY <1>e, <1>h, <2>3, <2>4
\* A new line.
<1>i. ASSUME NEW o \in Ops, op[o] \in ServedRecord, op[o].cart \in Carts, NEW item \in Names, NEW qty \in Nat, NEW whole,
             NewLine(o, item, qty, whole)
      PROVE  line' \in [Lines -> CartItem] /\ added' \in [Lines -> Nat] /\ made' \in 0..MaxLines
  <2>1. made' = made + 1 /\ made + 1 \in Lines
    BY <1>a, <1>i, CartAssumption DEF NewLine, Lines
  <2>2. [cart |-> op[o].cart, item |-> item, qty |-> qty] \in CartItem
    BY <1>i, Numbers DEF CartItem
  <2>3. (IF whole THEN 0 ELSE qty) \in Nat
    OBVIOUS
  <2> QED
    BY <1>a, <1>i, <2>1, <2>2, <2>3, Numbers DEF NewLine
<1>j. ASSUME NEW copies \in SUBSET Copy, added' = WithoutAdded(copies) PROVE added' \in [Lines -> Nat]
  BY <1>a, <1>j DEF WithoutAdded
<1>1. ASSUME NEW o \in Ops, Request(o) PROVE TypeOK'
  <2>1. PICK kind \in Kinds, owner \in Owners, item \in Names, l \in 0..MaxLines :
          Begin(o, kind, owner, item, l) /\ (kind = "merge" => owner = "user")
    BY <1>1, Numbers DEF Request, Kinds, Owners, Names
  <2> DEFINE q == [pc |-> IF kind = "merge" THEN "guest" ELSE "cart",
                   kind |-> kind, owner |-> owner, item |-> item, line |-> l,
                   cart |-> None, guest |-> None, theirs |-> {}, mine |-> {}, todo |-> {}]
  <2>2. q \in ServedRecord
    BY Numbers DEF ServedRecord, Steps
  <2>3. Consistent(q)
    BY <2>1 DEF Consistent
  <2>4. op' = [op EXCEPT ![o] = q]
    BY <2>1 DEF Begin
  <2> HIDE DEF q
  <2>5. op' \in [Ops -> {Idle} \union Served]
    BY <1>e, <2>2, <2>3, <2>4
  <2> QED
    BY <1>a, <2>1, <2>5 DEF Begin, history, TypeOK
<1>2. ASSUME NEW o \in Ops, FindCart(o) PROVE TypeOK'
  <2>1. op[o] \in ServedRecord /\ Consistent(op[o])
    BY <1>2, <1>d DEF FindCart
  <2>2. CASE Goto(o, "create")
    <3>1. Consistent([op[o] EXCEPT !.pc = "create"])
      BY <1>2, <2>1 DEF Consistent, FindCart, ServedRecord
    <3>2. op' \in [Ops -> {Idle} \union Served]
      BY <1>2, <1>f, <2>2, <3>1 DEF FindCart, Steps
    <3> QED
      BY <1>2, <1>a, <3>2 DEF FindCart, history, TypeOK
  <2>3. CASE \E c \in Current(op[o].owner) : Enter(o, c)
    <3>1. op' \in [Ops -> {Idle} \union Served]
      BY <1>2, <1>g, <2>3 DEF FindCart, Current
    <3> QED
      BY <1>2, <1>a, <3>1 DEF FindCart, history, TypeOK
  <2> QED
    BY <1>2, <2>2, <2>3 DEF FindCart
<1>3. ASSUME NEW o \in Ops, CreateCart(o) PROVE TypeOK'
  <2>1. op' \in [Ops -> {Idle} \union Served]
    BY <1>3, <1>g DEF CreateCart
  <2>2. op[o].owner \in Owners
    BY <1>3, <1>d DEF CreateCart, ServedRecord
  <2>3. [owner |-> op[o].owner, status |-> "active"] \in CartRow
    BY <2>2 DEF CartRow
  <2>4. cart' \in [Carts -> CartRow]
    BY <1>3, <1>a, <2>3 DEF CreateCart
  <2> QED
    BY <1>3, <1>a, <2>1, <2>4 DEF CreateCart, history, TypeOK
<1>4. ASSUME NEW o \in Ops, Refuse(o) \/ NothingToMerge(o) PROVE TypeOK'
  <2>1. op' \in [Ops -> {Idle} \union Served]
    BY <1>4, <1>c DEF Refuse, NothingToMerge
  <2> QED
    BY <1>4, <1>a, <2>1 DEF Refuse, NothingToMerge, history, TypeOK
<1>5. ASSUME NEW o \in Ops, FindLine(o) \/ FindAgain(o) PROVE TypeOK'
  <2>1. op[o].pc \in {"find", "find again"} /\ op[o] \in ServedRecord /\ Consistent(op[o])
        /\ (FindLine(o) => op[o].kind = "add")
    BY <1>5, <1>d DEF FindLine, FindAgain, At
  <2>2. CASE End(o)
    BY <1>5, <1>a, <1>c, <2>2 DEF FindLine, FindAgain, history, TypeOK
  <2>3. CASE FindLine(o) /\ Goto(o, "insert")
    <3>1. Consistent([op[o] EXCEPT !.pc = "insert"])
      BY <2>1, <2>3 DEF Consistent, ServedRecord
    <3>2. op' \in [Ops -> {Idle} \union Served]
      BY <1>f, <2>1, <2>3, <3>1 DEF Steps
    <3> QED
      BY <1>5, <1>a, <3>2 DEF FindLine, FindAgain, history, TypeOK
  <2>4. CASE \E l \in Same(op[o].cart, op[o].item) :
               op' = [op EXCEPT ![o].pc = "increment", ![o].line = l, ![o].mine = {c \in Copies(op[o].cart) : c.id = l}]
    <3>1. op' \in [Ops -> {Idle} \union Served]
      BY <1>h, <2>1, <2>4 DEF Same
    <3> QED
      BY <1>5, <1>a, <3>1 DEF FindLine, FindAgain, history, TypeOK
  <2> QED
    BY <1>5, <2>2, <2>3, <2>4 DEF FindLine, FindAgain
<1>6. ASSUME NEW o \in Ops, Increment(o) PROVE TypeOK'
  <2>1. op[o].line \in Lines
    BY <1>6, <1>d DEF Increment, Consistent
  <2>2. line' \in [Lines -> CartItem] /\ added' \in [Lines -> Nat]
    <3>1. CASE line[op[o].line].cart = None
      BY <1>6, <1>a, <3>1 DEF Increment
    <3>2. CASE line[op[o].line].cart # None
      <4>1. [line[op[o].line] EXCEPT !.qty = Incremented(o)] \in CartItem
        BY <1>a, <2>1 DEF CartItem, Incremented
      <4>2. line' = [line EXCEPT ![op[o].line] = [line[op[o].line] EXCEPT !.qty = Incremented(o)]]
            /\ added' = [added EXCEPT ![op[o].line] = @ + 1]
        BY <1>6, <3>2 DEF Increment
      <4> QED
        BY <1>a, <2>1, <4>1, <4>2
    <3> QED
      BY <3>1, <3>2
  <2>3. op' \in [Ops -> {Idle} \union Served]
    BY <1>6, <1>c DEF Increment
  <2> QED
    BY <1>6, <1>a, <2>2, <2>3 DEF Increment, TypeOK
<1>7. ASSUME NEW o \in Ops, Insert(o) PROVE TypeOK'
  <2>1. op[o] \in ServedRecord /\ op[o].cart \in Carts /\ op[o].item \in Names
    BY <1>7, <1>d DEF Insert, At, Consistent, ServedRecord
  <2>2. line' \in [Lines -> CartItem] /\ added' \in [Lines -> Nat] /\ made' \in 0..MaxLines
    BY <1>7, <1>i, <2>1 DEF Insert
  <2>3. op' \in [Ops -> {Idle} \union Served]
    BY <1>7, <1>c DEF Insert
  <2> QED
    BY <1>7, <1>a, <2>2, <2>3 DEF Insert, TypeOK
<1>8. ASSUME NEW o \in Ops, InsertRefused(o) PROVE TypeOK'
  <2>1. op[o].pc = "insert" /\ op[o].kind = "add" /\ op[o] \in ServedRecord /\ Consistent(op[o])
    BY <1>8, <1>d DEF InsertRefused, At
  <2>2. Consistent([op[o] EXCEPT !.pc = "find again"])
    BY <2>1 DEF Consistent, ServedRecord
  <2>3. op' \in [Ops -> {Idle} \union Served]
    BY <1>8, <1>f, <2>1, <2>2 DEF InsertRefused, Steps
  <2> QED
    BY <1>8, <1>a, <2>3 DEF InsertRefused, history, TypeOK
<1>9. ASSUME NEW o \in Ops, FindOwnLine(o) PROVE TypeOK'
  <2>1. op[o].pc = "find" /\ op[o] \in ServedRecord
    BY <1>9, <1>d DEF FindOwnLine, At
  <2>2. CASE End(o)
    BY <1>9, <1>a, <1>c, <2>2 DEF FindOwnLine, history, TypeOK
  <2>3. CASE ~End(o)
    <3> DEFINE l == op[o].line
               step == IF op[o].kind = "set" THEN "save" ELSE "delete"
    <3>1. l \in Rows(op[o].cart) /\ step \in {"increment", "save", "delete"}
      BY <1>9, <2>3 DEF FindOwnLine
    <3>2. op' = [op EXCEPT ![o].pc = step, ![o].mine = {c \in Copies(op[o].cart) : c.id = l}]
      BY <1>9, <3>1 DEF FindOwnLine
    <3>3. op' = [op EXCEPT ![o].pc = step, ![o].line = l, ![o].mine = {c \in Copies(op[o].cart) : c.id = l}]
      BY <1>a, <2>1, <3>2 DEF ServedRecord
    <3> HIDE DEF l, step
    <3>4. op' \in [Ops -> {Idle} \union Served]
      BY <1>h, <2>1, <3>1, <3>3
    <3> QED
      BY <1>9, <1>a, <3>4 DEF FindOwnLine, history, TypeOK
  <2> QED
    BY <2>2, <2>3
<1>10. ASSUME NEW o \in Ops, SetQuantity(o) PROVE TypeOK'
  <2>1. op[o] \in ServedRecord /\ op[o].cart \in 0..MaxCarts
    BY <1>10, <1>d DEF SetQuantity, ServedRecord
  <2>2. line' \in [Lines -> CartItem] /\ added' \in [Lines -> Nat]
    <3>1. ASSUME NEW q \in 1..2 PROVE {[c EXCEPT !.qty = q] : c \in op[o].mine} \in SUBSET Copy
      BY <2>1 DEF ServedRecord, Copy
    <3>2. ASSUME NEW q \in 1..2, line' = Saved(line, {[c EXCEPT !.qty = q] : c \in op[o].mine}, op[o].cart)
          PROVE  line' \in [Lines -> CartItem]
      BY <1>a, <2>1, <3>1, <3>2, SavedRows
    <3> QED
      BY <1>10, <1>a, <1>j, <2>1, <3>2 DEF SetQuantity, ServedRecord
  <2>3. op' \in [Ops -> {Idle} \union Served]
    BY <1>10, <1>c DEF SetQuantity
  <2> QED
    BY <1>10, <1>a, <2>2, <2>3 DEF SetQuantity, TypeOK
<1>11. ASSUME NEW o \in Ops, RemoveLine(o) \/ Clear(o) PROVE TypeOK'
  <2>1. NoLine \in CartItem
    BY Numbers DEF NoLine, CartItem, Names
  <2>2. \A ls : Deleted(ls) => line' \in [Lines -> CartItem] /\ added' \in [Lines -> Nat]
    BY <1>a, <2>1 DEF Deleted
  <2>3. op' \in [Ops -> {Idle} \union Served]
    BY <1>11, <1>c DEF RemoveLine, Clear
  <2> QED
    BY <1>11, <1>a, <2>2, <2>3 DEF RemoveLine, Clear, TypeOK
<1>12. ASSUME NEW o \in Ops, ReadGuest(o) PROVE TypeOK'
  <2>1. op[o].pc = "guest" /\ op[o] \in ServedRecord /\ Consistent(op[o])
    BY <1>12, <1>d DEF ReadGuest
  <2>2. disturbed' \in BOOLEAN
    BY <1>12, <1>a DEF ReadGuest
  <2>3. CASE Goto(o, "cart")
    <3>1. Consistent([op[o] EXCEPT !.pc = "cart"])
      BY <2>1 DEF Consistent, ServedRecord
    <3>2. op' \in [Ops -> {Idle} \union Served]
      BY <1>f, <2>1, <2>3, <3>1 DEF Steps
    <3> QED
      BY <1>12, <1>a, <2>2, <3>2 DEF ReadGuest, TypeOK
  <2>4. CASE ~Goto(o, "cart")
    <3>1. PICK g \in Current("guest") :
            op' = [op EXCEPT ![o].pc = "cart", ![o].guest = g, ![o].theirs = Copies(g), ![o].todo = Copies(g)]
      BY <1>12, <2>4 DEF ReadGuest
    <3> DEFINE q == [op[o] EXCEPT !.pc = "cart", !.guest = g, !.theirs = Copies(g), !.todo = Copies(g)]
    <3>2. g \in Carts /\ Copies(g) \in SUBSET Copy /\ \A x, y \in Copies(g) : x.id = y.id => x = y
      BY CopiesOfRows DEF Current
    <3>3. q \in ServedRecord
      BY <2>1, <3>2, Numbers DEF ServedRecord, Steps
    <3>4. Consistent(q)
      BY <2>1, <3>2, Numbers DEF Consistent, ServedRecord
    <3>5. op' \in [Ops -> {Idle} \union Served]
      BY <1>e, <3>1, <3>3, <3>4
    <3> QED
      BY <1>12, <1>a, <2>2, <3>5 DEF ReadGuest, TypeOK
  <2> QED
    BY <2>3, <2>4
<1>13. ASSUME NEW o \in Ops, Transfer(o) PROVE TypeOK'
  <2>1. op[o].pc = "transfer" /\ op[o] \in ServedRecord /\ Consistent(op[o]) /\ op[o].cart \in Carts
    BY <1>13, <1>d DEF Transfer, At, Consistent
  <2>2. ASSUME NEW x \in op[o].todo, NEW mine \in SUBSET Copy, Done(o, x, mine)
        PROVE  op' \in [Ops -> {Idle} \union Served] /\ moved' \subseteq Lines
    <3> DEFINE q == [op[o] EXCEPT !.todo = @ \ {x}, !.mine = mine]
    <3>1. q \in ServedRecord
      BY <2>1 DEF ServedRecord
    <3>2. Consistent(q)
      BY <2>1 DEF Consistent, ServedRecord
    <3>3. op' = [op EXCEPT ![o] = q]
      BY <2>2 DEF Done
    <3>4. x.id \in Lines
      BY <2>1 DEF ServedRecord, Copy
    <3> QED
      BY <1>a, <1>e, <2>2, <3>1, <3>2, <3>3, <3>4 DEF Done
  <2>3. PICK x \in op[o].todo : Skip(o, x) \/ AddToMine(o, x) \/ AddAsNew(o, x)
    BY <1>13 DEF Transfer
  <2>4. x \in Copy /\ op[o].mine \in SUBSET Copy
    BY <2>1 DEF ServedRecord
  <2>5. CASE Skip(o, x)
    BY <1>a, <2>2, <2>4, <2>5 DEF Skip, TypeOK
  <2>6. CASE AddToMine(o, x)
    <3>1. PICK mine \in SameIn(op[o].mine, x.item) :
            /\ line' = Saved(line, {[mine EXCEPT !.qty = @ + x.qty]}, op[o].cart)
            /\ added' = WithoutAdded({mine})
            /\ Done(o, x, (op[o].mine \ {mine}) \union {[mine EXCEPT !.qty = @ + x.qty]})
      BY <2>6 DEF AddToMine
    <3> DEFINE both == [mine EXCEPT !.qty = @ + x.qty]
    <3>2. mine \in Copy /\ both \in Copy
      BY <2>4 DEF SameIn, Copy
    <3> HIDE DEF both
    <3>3. line' \in [Lines -> CartItem]
      <4>1. {both} \in SUBSET Copy /\ op[o].cart \in 0..MaxCarts
        BY <2>1, <3>2, Numbers
      <4>2. line' = Saved(line, {both}, op[o].cart)
        BY <3>1 DEF both
      <4> QED
        BY <1>a, <4>1, <4>2, SavedRows
    <3>4. added' \in [Lines -> Nat]
      BY <1>j, <3>1, <3>2
    <3>5. op' \in [Ops -> {Idle} \union Served] /\ moved' \subseteq Lines
      <4>1. (op[o].mine \ {mine}) \union {both} \in SUBSET Copy
        BY <2>4, <3>2
      <4> QED
        BY <2>2, <3>1, <4>1 DEF both
    <3> QED
      BY <1>a, <2>6, <3>3, <3>4, <3>5 DEF AddToMine, TypeOK
  <2>7. CASE AddAsNew(o, x)
    <3>1. x.item \in Names /\ x.qty \in Nat
      BY <2>4 DEF Copy
    <3>2. line' \in [Lines -> CartItem] /\ added' \in [Lines -> Nat] /\ made' \in 0..MaxLines
      BY <1>i, <2>1, <2>7, <3>1 DEF AddAsNew
    <3>3. op' \in [Ops -> {Idle} \union Served] /\ moved' \subseteq Lines
      BY <2>2, <2>4, <2>7 DEF AddAsNew
    <3> QED
      BY <1>a, <2>7, <3>2, <3>3 DEF AddAsNew, TypeOK
  <2> QED
    BY <2>3, <2>5, <2>6, <2>7
<1>14. ASSUME NEW o \in Ops, Finish(o) PROVE TypeOK'
  <2>1. op[o] \in ServedRecord /\ op[o].guest \in Carts
    BY <1>14, <1>d, Numbers DEF Finish, At, ServedRecord
  <2>2. op[o].theirs \in SUBSET Copy
    BY <2>1 DEF ServedRecord
  <2>3. Closed(cart[op[o].guest]) \in CartRow
    BY <1>a, <2>1 DEF Closed, CartRow
  <2>4. cart' \in [Carts -> CartRow]
    BY <1>14, <1>a, <2>1, <2>3 DEF Finish
  <2>5. line' \in [Lines -> CartItem] /\ added' \in [Lines -> Nat]
    BY <1>14, <1>a, <1>j, <2>1, <2>2, SavedRows, Numbers DEF Finish
  <2>6. op' \in [Ops -> {Idle} \union Served]
    BY <1>14, <1>c DEF Finish
  <2> QED
    BY <1>14, <1>a, <2>4, <2>5, <2>6 DEF Finish, TypeOK
<1>15. ASSUME NEW o \in Ops, FinishFails(o) \/ Dies(o) PROVE TypeOK'
  <2>1. op' \in [Ops -> {Idle} \union Served]
    BY <1>15, <1>c DEF FinishFails, Dies
  <2>2. disturbed' \in BOOLEAN
    BY <1>15 DEF FinishFails, Dies
  <2> QED
    BY <1>15, <1>a, <2>1, <2>2 DEF FinishFails, Dies, TypeOK
<1>16. CASE UNCHANGED vars
  BY <1>16, <1>a DEF vars, TypeOK
<1> QED
  BY <1>1, <1>2, <1>3, <1>4, <1>5, <1>6, <1>7, <1>8, <1>9, <1>10, <1>11, <1>12, <1>13, <1>14, <1>15, <1>16 DEF Next, Step

-----------------------------------------------------------------------------
\* What a step makes of its request; the others are left alone.
LEMMA OpStep ==
  ASSUME TypeOK, NEW o \in Ops, Step(o)
  PROVE  /\ op[o] \in Served /\ \A p \in Ops : p # o => op'[p] = op[p]
         /\ op'[o] # Idle =>
              /\ op'[o].kind = op[o].kind /\ op'[o].owner = op[o].owner
              /\ \/ /\ op'[o].cart = op[o].cart
                    /\ \A x \in op'[o].mine : x \in Copies(op[o].cart) \/ \E y \in op[o].mine : y.id = x.id
                 \/ /\ op'[o].cart \in Carts /\ op'[o].mine = Copies(op'[o].cart)
                    /\ cart'[op'[o].cart].owner = op[o].owner
              /\ \/ /\ op'[o].guest = op[o].guest /\ op'[o].theirs = op[o].theirs
                    /\ op'[o].todo = op[o].todo \/ Transfer(o)
                 \/ /\ ReadGuest(o) /\ op'[o].guest \in Current("guest")
                    /\ op'[o].theirs = Copies(op'[o].guest) /\ op'[o].todo = Copies(op'[o].guest)
<1>a. op \in [Ops -> {Idle} \union Served] /\ cart \in [Carts -> CartRow]
  BY DEF TypeOK
<1>b. op[o] \in Served /\ op[o] \in ServedRecord
  <2>1. op[o].pc # "idle"
    BY DEF Step, FindCart, CreateCart, Refuse, FindLine, Increment, Insert, InsertRefused, FindAgain, FindOwnLine,
           SetQuantity, RemoveLine, Clear, ReadGuest, NothingToMerge, Transfer, Finish, FinishFails, At
  <2> QED
    BY <2>1, ServedOrIdle DEF Served
<1>c. CASE End(o)
  BY <1>a, <1>b, <1>c DEF End
<1>d. CASE \E step : Goto(o, step)
  BY <1>a, <1>b, <1>d DEF Goto, ServedRecord
<1>e. ASSUME NEW c \in Carts, Enter(o, c), cart'[c].owner = op[o].owner, FindCart(o) \/ CreateCart(o)
      PROVE  /\ \A p \in Ops : p # o => op'[p] = op[p]
             /\ op'[o].kind = op[o].kind /\ op'[o].owner = op[o].owner /\ op'[o].cart = c /\ op'[o].mine = Copies(c)
             /\ op'[o].guest = op[o].guest /\ op'[o].theirs = op[o].theirs /\ op'[o].todo = op[o].todo
  BY <1>a, <1>b, <1>e DEF Enter, ServedRecord
<1> DEFINE Found(l, step) == op' = [op EXCEPT ![o].pc = step, ![o].line = l, ![o].mine = {c \in Copies(op[o].cart) : c.id = l}]
           FoundOwn(l, step) == op' = [op EXCEPT ![o].pc = step, ![o].mine = {c \in Copies(op[o].cart) : c.id = l}]
<1>1. CASE FindCart(o)
  <2>1. CASE \E c \in Current(op[o].owner) : Enter(o, c)
    <3>1. PICK c \in Current(op[o].owner) : Enter(o, c)
      BY <2>1
    <3>2. c \in Carts /\ cart'[c].owner = op[o].owner
      BY <1>1 DEF Current, FindCart
    <3> QED
      BY <1>1, <1>b, <1>e, <3>1, <3>2
  <2> QED
    BY <1>1, <1>d, <2>1 DEF FindCart
<1>2. CASE CreateCart(o)
  <2>1. PICK c \in Carts : cart' = [cart EXCEPT ![c] = [owner |-> op[o].owner, status |-> "active"]] /\ Enter(o, c)
    BY <1>2 DEF CreateCart
  <2>2. cart'[c].owner = op[o].owner
    BY <1>a, <2>1
  <2> QED
    BY <1>2, <1>b, <1>e, <2>1, <2>2
<1>3. CASE \E l, step : Found(l, step)
  BY <1>3, <1>a, <1>b DEF ServedRecord
<1>4. CASE \E l, step : FoundOwn(l, step)
  BY <1>4, <1>a, <1>b DEF ServedRecord
<1>5. CASE ReadGuest(o)
  <2>1. CASE \E g \in Current("guest") :
               op' = [op EXCEPT ![o].pc = "cart", ![o].guest = g, ![o].theirs = Copies(g), ![o].todo = Copies(g)]
    BY <1>5, <2>1, <1>a, <1>b DEF ServedRecord
  <2> QED
    BY <1>5, <1>d, <2>1 DEF ReadGuest
<1>6. CASE Transfer(o)
  <2>1. PICK x \in op[o].todo : Skip(o, x) \/ AddToMine(o, x) \/ AddAsNew(o, x)
    BY <1>6 DEF Transfer
  <2>2. PICK mine : /\ op' = [op EXCEPT ![o].todo = @ \ {x}, ![o].mine = mine]
                    /\ \A z \in mine : \E y \in op[o].mine : y.id = z.id
    <3>1. CASE AddToMine(o, x)
      <4>1. PICK m \in SameIn(op[o].mine, x.item) : Done(o, x, (op[o].mine \ {m}) \union {[m EXCEPT !.qty = @ + x.qty]})
        BY <3>1 DEF AddToMine
      <4>2. m \in op[o].mine /\ m \in Copy
        BY <1>b DEF SameIn, ServedRecord
      <4>3. [m EXCEPT !.qty = @ + x.qty].id = m.id
        BY <4>2 DEF Copy
      <4>4. \A z \in (op[o].mine \ {m}) \union {[m EXCEPT !.qty = @ + x.qty]} : \E y \in op[o].mine : y.id = z.id
        BY <4>2, <4>3
      <4>5. op' = [op EXCEPT ![o].todo = @ \ {x}, ![o].mine = (op[o].mine \ {m}) \union {[m EXCEPT !.qty = @ + x.qty]}]
        BY <4>1 DEF Done
      <4> QED
        BY <4>4, <4>5
    <3>2. CASE Skip(o, x) \/ AddAsNew(o, x)
      BY <3>2 DEF Skip, AddAsNew, Done
    <3> QED
      BY <2>1, <3>1, <3>2
  <2> QED
    BY <1>6, <1>a, <1>b, <2>2 DEF ServedRecord
<1>7. \/ End(o) \/ (\E step : Goto(o, step)) \/ (\E l, step : Found(l, step)) \/ (\E l, step : FoundOwn(l, step))
      \/ FindCart(o) \/ CreateCart(o) \/ ReadGuest(o) \/ Transfer(o)
  <2>1. CASE FindLine(o) \/ FindAgain(o)
    <3>1. End(o) \/ Goto(o, "insert") \/ \E l \in Same(op[o].cart, op[o].item) : Found(l, "increment")
      BY <2>1 DEF FindLine, FindAgain
    <3> HIDE DEF Found, FoundOwn
    <3> QED
      BY <3>1
  <2>2. CASE FindOwnLine(o)
    <3>1. End(o) \/ FoundOwn(op[o].line, IF op[o].kind = "set" THEN "save" ELSE "delete")
      BY <2>2 DEF FindOwnLine
    <3> HIDE DEF Found, FoundOwn
    <3> QED
      BY <3>1
  <2>3. CASE InsertRefused(o)
    BY <2>3 DEF InsertRefused
  <2>4. CASE Refuse(o) \/ Increment(o) \/ Insert(o) \/ SetQuantity(o) \/ RemoveLine(o) \/ Clear(o) \/ NothingToMerge(o)
             \/ Finish(o) \/ FinishFails(o)
    BY <2>4 DEF Refuse, Increment, Insert, SetQuantity, RemoveLine, Clear, NothingToMerge, Finish, FinishFails
  <2> HIDE DEF Found, FoundOwn
  <2> QED
    BY <2>1, <2>2, <2>3, <2>4 DEF Step
<1> HIDE DEF Found, FoundOwn
<1> QED
  BY <1>1, <1>2, <1>3, <1>4, <1>5, <1>6, <1>7, <1>c, <1>d

\* Which steps change what.
LEMMA Changes ==
  ASSUME [Next]_vars
  PROVE  /\ cart' = cart \/ \E o \in Ops : CreateCart(o) \/ Finish(o)
         /\ \/ line' = line /\ added' = added
            \/ \E o \in Ops : Increment(o) \/ Insert(o) \/ SetQuantity(o) \/ RemoveLine(o) \/ Clear(o) \/ Transfer(o) \/ Finish(o)
         /\ made' = made \/ \E o \in Ops : Insert(o) \/ Transfer(o)
         /\ (moved' = moved /\ again' = again) \/ \E o \in Ops : Transfer(o)
         /\ late' = late \/ \E o \in Ops : Insert(o) \/ SetQuantity(o) \/ Transfer(o)
         /\ disturbed' = disturbed \/ \E o \in Ops : ReadGuest(o) \/ FinishFails(o) \/ Dies(o)
<1> DEFINE Others(o) == Request(o) \/ FindCart(o) \/ Refuse(o) \/ FindLine(o) \/ InsertRefused(o) \/ FindAgain(o)
                        \/ FindOwnLine(o) \/ NothingToMerge(o)
<1>1. ASSUME NEW o \in Ops, Others(o)
      PROVE  UNCHANGED <<cart, line, made, added, moved, again, late, disturbed>>
  <2>1. CASE Request(o)
    BY <2>1 DEF Request, Begin, history
  <2>2. CASE ~Request(o)
    BY <1>1, <2>2 DEF FindCart, Refuse, FindLine, InsertRefused, FindAgain, FindOwnLine, NothingToMerge, history
  <2> QED
    BY <2>1, <2>2
<1>2. ASSUME NEW o \in Ops, ReadGuest(o) \/ FinishFails(o) \/ Dies(o)
      PROVE  UNCHANGED <<cart, line, made, added, moved, again, late>>
  BY <1>2 DEF ReadGuest, FinishFails, Dies
<1>3. ASSUME NEW o \in Ops, CreateCart(o)
      PROVE  UNCHANGED <<line, made, added, moved, again, late, disturbed>>
  BY <1>3 DEF CreateCart, history
<1>4. ASSUME NEW o \in Ops, Increment(o) \/ RemoveLine(o) \/ Clear(o)
      PROVE  UNCHANGED <<cart, made, moved, again, late, disturbed>>
  BY <1>4 DEF Increment, RemoveLine, Clear
<1>5. ASSUME NEW o \in Ops, Insert(o) PROVE UNCHANGED <<cart, moved, again, disturbed>>
  BY <1>5 DEF Insert
<1>6. ASSUME NEW o \in Ops, SetQuantity(o) PROVE UNCHANGED <<cart, made, moved, again, disturbed>>
  BY <1>6 DEF SetQuantity
<1>7. ASSUME NEW o \in Ops, Transfer(o) PROVE UNCHANGED <<cart, disturbed>>
  BY <1>7 DEF Transfer, Skip, AddToMine, AddAsNew
<1>8. ASSUME NEW o \in Ops, Finish(o) PROVE UNCHANGED <<made, moved, again, late, disturbed>>
  BY <1>8 DEF Finish
<1>9. \/ UNCHANGED <<cart, line, made, added, moved, again, late, disturbed>>
      \/ \E o \in Ops : \/ Others(o) \/ ReadGuest(o) \/ FinishFails(o) \/ Dies(o) \/ CreateCart(o) \/ Increment(o) \/ RemoveLine(o)
                       \/ Clear(o) \/ Insert(o) \/ SetQuantity(o) \/ Transfer(o) \/ Finish(o)
  BY DEF Next, Step, vars, history
<1> HIDE DEF Others
<1> QED
  BY <1>1, <1>2, <1>3, <1>4, <1>5, <1>6, <1>7, <1>8, <1>9

\* What a request does to the rows of carts.
LEMMA NextCarts ==
  ASSUME TypeOK, [Next]_vars, NEW c \in Carts
  PROVE  \/ cart'[c] = cart[c]
         \/ \E o \in Ops : CreateCart(o) /\ cart[c] = NoCart /\ cart'[c] = [owner |-> op[o].owner, status |-> "active"]
         \/ \E o \in Ops : Finish(o) /\ op[o].guest = c /\ cart'[c].owner = cart[c].owner /\ cart'[c].status = "merged"
<1>a. cart \in [Carts -> CartRow]
  BY DEF TypeOK
<1>1. cart' = cart \/ \E o \in Ops : CreateCart(o) \/ Finish(o)
  BY Changes
<1>2. ASSUME NEW o \in Ops, CreateCart(o), cart'[c] # cart[c]
      PROVE  cart[c] = NoCart /\ cart'[c] = [owner |-> op[o].owner, status |-> "active"]
  BY <1>a, <1>2 DEF CreateCart
<1>3. ASSUME NEW o \in Ops, Finish(o), cart'[c] # cart[c]
      PROVE  op[o].guest = c /\ cart'[c].owner = cart[c].owner /\ cart'[c].status = "merged"
  BY <1>a, <1>3 DEF Finish, Closed, CartRow
<1> QED
  BY <1>1, <1>2, <1>3

\* The quantity of a line is as it was, or an add has put one more on it.
KeptOrAdded(l) ==
  \/ line'[l].qty = line[l].qty /\ added'[l] = added[l]
  \/ line'[l].qty = line[l].qty + 1 /\ added'[l] = added[l] + 1

\* What a step does to a line: the cart it is in, and how much of it there is.
LEMMA NextLine ==
  ASSUME TypeOK, TypeOK', [Next]_vars, NEW l \in Lines
  PROVE  \/ line'[l].cart = line[l].cart /\ KeptOrAdded(l)
         \/ line'[l].cart = None
         \/ \E o \in Ops : /\ Insert(o) \/ Transfer(o)
                           /\ op[o] \in Served /\ l = made + 1 /\ made' = made + 1 /\ line'[l].cart = op[o].cart
                           /\ cart' = cart /\ (cart[op[o].cart].status = "merged" => l \in late') /\ line'[l].qty >= added'[l]
         \/ \E o \in Ops : /\ SetQuantity(o) /\ op[o] \in Served /\ \E x \in op[o].mine : x.id = l
                           /\ line'[l].cart = op[o].cart /\ added'[l] = 0 /\ cart' = cart
                           /\ cart[op[o].cart].status = "merged" /\ line[l].cart = None => l \in late'
         \/ \E o \in Ops : /\ Transfer(o) /\ op[o] \in Served /\ op[o].kind = "merge" /\ \E x \in op[o].mine : x.id = l
                           /\ line'[l].cart = op[o].cart /\ added'[l] = 0 /\ cart' = cart
         \/ \E o \in Ops : /\ Finish(o) /\ op[o] \in Served /\ \E x \in op[o].theirs : x.id = l
                           /\ line'[l].cart = op[o].guest /\ added'[l] = 0
<1>a. line \in [Lines -> CartItem] /\ added \in [Lines -> Nat] /\ made \in Nat
  BY DEF TypeOK
<1>b. ASSUME NEW o \in Ops, op[o].pc # "idle" PROVE op[o] \in Served /\ op[o] \in ServedRecord /\ Consistent(op[o])
  BY <1>b, ServedOrIdle DEF Served
<1>c. ASSUME NEW copies \in SUBSET Copy, NEW c \in 0..MaxCarts, line' = Saved(line, copies, c), added' = WithoutAdded(copies)
      PROVE  \/ line'[l] = line[l] /\ added'[l] = added[l]
             \/ (\E x \in copies : x.id = l) /\ line'[l].cart = c /\ added'[l] = 0
  <2>1. CASE \E x \in copies : x.id = l
    BY <1>a, <1>c, <2>1, SavedRows DEF WithoutAdded
  <2>2. CASE ~\E x \in copies : x.id = l
    <3>1. Saved(line, copies, c)[l] = line[l]
      BY <2>2, NotSaved
    <3>2. added'[l] = added[l]
      BY <1>c, <2>2 DEF WithoutAdded
    <3> QED
      BY <1>c, <3>1, <3>2
  <2> QED
    BY <2>1, <2>2
<1>d. ASSUME NEW o \in Ops, NEW item, NEW qty \in Nat, NEW whole \in BOOLEAN, NewLine(o, item, qty, whole)
      PROVE  \/ line'[l] = line[l] /\ added'[l] = added[l]
             \/ /\ l = made + 1 /\ made' = made + 1 /\ line'[l].cart = op[o].cart
                /\ (cart[op[o].cart].status = "merged" => l \in late') /\ line'[l].qty >= added'[l]
  <2>1. CASE l = made + 1
    <3>1. line'[l] = [cart |-> op[o].cart, item |-> item, qty |-> qty] /\ added'[l] \in {0, qty}
      BY <1>a, <1>d, <2>1 DEF NewLine
    <3>2. made' = made + 1 /\ (cart[op[o].cart].status = "merged" => l \in late')
      BY <1>d, <2>1 DEF NewLine
    <3>3. line'[l].cart = op[o].cart /\ line'[l].qty >= added'[l]
      BY <3>1
    <3> QED
      BY <2>1, <3>2, <3>3
  <2>2. CASE l # made + 1
    BY <1>a, <1>d, <2>2 DEF NewLine
  <2> QED
    BY <2>1, <2>2
<1>1. ASSUME NEW o \in Ops, Increment(o)
      PROVE  line'[l].cart = line[l].cart /\ KeptOrAdded(l)
  <2>1. op[o].line \in Lines
    BY <1>1, <1>b DEF Increment, Consistent
  <2>2. CASE line[op[o].line].cart = None
    BY <1>1, <2>2 DEF Increment, KeptOrAdded
  <2>3. CASE line[op[o].line].cart # None
    <3>1. line' = [line EXCEPT ![op[o].line].qty = Incremented(o)] /\ added' = [added EXCEPT ![op[o].line] = @ + 1]
      BY <1>1, <2>3 DEF Increment
    <3> QED
      BY <1>a, <2>1, <3>1 DEF Incremented, CartItem, KeptOrAdded
  <2> QED
    BY <2>2, <2>3
<1>2. ASSUME NEW o \in Ops, Insert(o)
      PROVE  \/ line'[l] = line[l] /\ added'[l] = added[l]
             \/ /\ op[o] \in Served /\ l = made + 1 /\ made' = made + 1 /\ line'[l].cart = op[o].cart
                /\ cart' = cart /\ (cart[op[o].cart].status = "merged" => l \in late') /\ line'[l].qty >= added'[l]
  BY <1>2, <1>b, <1>d DEF Insert, At
<1>3. ASSUME NEW o \in Ops, SetQuantity(o)
      PROVE  \/ line'[l] = line[l] /\ added'[l] = added[l]
             \/ /\ op[o] \in Served /\ \E x \in op[o].mine : x.id = l
                /\ line'[l].cart = op[o].cart /\ added'[l] = 0 /\ cart' = cart
                /\ cart[op[o].cart].status = "merged" /\ line[l].cart = None => l \in late'
  <2>1. op[o] \in Served /\ op[o].mine \in SUBSET Copy /\ op[o].cart \in 0..MaxCarts /\ \A x \in op[o].mine : x.id = op[o].line
    BY <1>3, <1>b DEF SetQuantity, Consistent, ServedRecord
  <2>2. CASE SaveCollides(op[o].mine, op[o].cart)
    BY <1>3, <2>2 DEF SetQuantity
  <2>3. CASE ~SaveCollides(op[o].mine, op[o].cart)
    <3>1. PICK q \in 1..2 : line' = Saved(line, {[c EXCEPT !.qty = q] : c \in op[o].mine}, op[o].cart)
      BY <1>3, <2>3 DEF SetQuantity
    <3> DEFINE copies == {[c EXCEPT !.qty = q] : c \in op[o].mine}
    <3>2. (\E x \in copies : x.id = l) <=> (\E x \in op[o].mine : x.id = l)
      <4>1. \A x \in op[o].mine : [x EXCEPT !.qty = q].id = x.id /\ [x EXCEPT !.qty = q] \in copies
        BY <2>1 DEF Copy
      <4>2. \A y \in copies : \E x \in op[o].mine : y = [x EXCEPT !.qty = q]
        OBVIOUS
      <4> HIDE DEF copies
      <4>3. ASSUME NEW y \in copies, y.id = l PROVE \E x \in op[o].mine : x.id = l
        BY <4>1, <4>2, <4>3
      <4>4. ASSUME NEW x \in op[o].mine, x.id = l PROVE \E y \in copies : y.id = l
        BY <4>1, <4>4
      <4> QED
        BY <4>3, <4>4
    <3>3. copies \in SUBSET Copy
      BY <2>1 DEF Copy
    <3>4. added' = WithoutAdded(op[o].mine) /\ cart' = cart /\ late' = late \union InsertedLate(o)
      BY <1>3, <2>3 DEF SetQuantity
    <3>7. line' = Saved(line, copies, op[o].cart)
      BY <3>1
    <3> HIDE DEF copies
    <3>5. CASE \E x \in op[o].mine : x.id = l
      <4>4. Saved(line, copies, op[o].cart)[l].cart = op[o].cart
        BY <3>2, <3>5, SavedInCart
      <4>1. line'[l].cart = op[o].cart
        BY <3>7, <4>4
      <4>2. added'[l] = 0
        BY <3>4, <3>5 DEF WithoutAdded
      <4>3. cart[op[o].cart].status = "merged" /\ line[l].cart = None => l \in late'
        BY <2>1, <3>4, <3>5 DEF InsertedLate
      <4> QED
        BY <2>1, <3>4, <3>5, <4>1, <4>2, <4>3
    <3>6. CASE ~\E x \in op[o].mine : x.id = l
      <4>2. Saved(line, copies, op[o].cart)[l] = line[l]
        BY <3>2, <3>6, NotSaved
      <4>1. line'[l] = line[l]
        BY <3>7, <4>2
      <4> QED
        BY <3>4, <3>6, <4>1 DEF WithoutAdded
    <3> QED
      BY <3>5, <3>6
  <2> QED
    BY <2>2, <2>3
<1>4. ASSUME NEW o \in Ops, RemoveLine(o) \/ Clear(o)
      PROVE  (line'[l] = line[l] /\ added'[l] = added[l]) \/ line'[l].cart = None
  BY <1>4 DEF RemoveLine, Clear, Deleted, NoLine
<1>5. ASSUME NEW o \in Ops, Transfer(o)
      PROVE  \/ line'[l] = line[l] /\ added'[l] = added[l]
             \/ /\ op[o] \in Served /\ op[o].kind = "merge" /\ l = made + 1 /\ made' = made + 1 /\ line'[l].cart = op[o].cart
                /\ cart' = cart /\ (cart[op[o].cart].status = "merged" => l \in late') /\ line'[l].qty >= added'[l]
             \/ /\ op[o] \in Served /\ op[o].kind = "merge" /\ \E x \in op[o].mine : x.id = l
                /\ line'[l].cart = op[o].cart /\ added'[l] = 0 /\ cart' = cart
  <2>1. /\ op[o] \in Served /\ op[o].kind = "merge" /\ op[o].cart \in 0..MaxCarts
        /\ op[o].mine \in SUBSET Copy /\ op[o].todo \in SUBSET Copy
    BY <1>5, <1>b DEF Transfer, At, ServedRecord
  <2>2. PICK x \in op[o].todo : Skip(o, x) \/ AddToMine(o, x) \/ AddAsNew(o, x)
    BY <1>5 DEF Transfer
  <2>3. CASE Skip(o, x)
    BY <2>3 DEF Skip
  <2>4. CASE AddToMine(o, x)
    <3>1. PICK m \in SameIn(op[o].mine, x.item) :
            line' = Saved(line, {[m EXCEPT !.qty = @ + x.qty]}, op[o].cart) /\ added' = WithoutAdded({m})
      BY <2>4 DEF AddToMine
    <3> DEFINE both == [m EXCEPT !.qty = @ + x.qty]
    <3>2. m \in op[o].mine /\ both.id = m.id /\ {both} \in SUBSET Copy /\ x \in Copy
      BY <2>1 DEF SameIn, Copy
    <3>3. WithoutAdded({m}) = WithoutAdded({both})
      BY <3>2 DEF WithoutAdded
    <3> HIDE DEF both
    <3>4. line' = Saved(line, {both}, op[o].cart) /\ added' = WithoutAdded({both})
      BY <3>1, <3>3 DEF both
    <3>5. \/ line'[l] = line[l] /\ added'[l] = added[l]
          \/ (\E y \in {both} : y.id = l) /\ line'[l].cart = op[o].cart /\ added'[l] = 0
      BY <1>c, <2>1, <3>2, <3>4
    <3> QED
      BY <2>1, <2>4, <3>2, <3>5 DEF AddToMine
  <2>5. CASE AddAsNew(o, x)
    <3>1. x.qty \in Nat /\ NewLine(o, x.item, x.qty, TRUE) /\ cart' = cart
      BY <2>1, <2>5 DEF AddAsNew, Copy
    <3> QED
      BY <1>d, <2>1, <3>1
  <2> QED
    BY <2>2, <2>3, <2>4, <2>5
<1>6. ASSUME NEW o \in Ops, Finish(o)
      PROVE  \/ line'[l] = line[l] /\ added'[l] = added[l]
             \/ /\ op[o] \in Served /\ \E x \in op[o].theirs : x.id = l
                /\ line'[l].cart = op[o].guest /\ added'[l] = 0
  <2>1. op[o] \in Served /\ op[o].theirs \in SUBSET Copy /\ op[o].guest \in 0..MaxCarts
    BY <1>6, <1>b DEF Finish, At, ServedRecord
  <2> QED
    BY <1>6, <1>c, <2>1 DEF Finish
<1>7. CASE ~\E o \in Ops : Increment(o) \/ Insert(o) \/ SetQuantity(o) \/ RemoveLine(o) \/ Clear(o) \/ Transfer(o) \/ Finish(o)
  <2>1. line' = line /\ added' = added
    BY <1>7, Changes
  <2> QED
    BY <2>1 DEF KeptOrAdded
<1> QED
  BY <1>1, <1>2, <1>3, <1>4, <1>5, <1>6, <1>7 DEF KeptOrAdded

\* A request that is under way after a step was so before, has begun, or has made the step.
LEMMA NextOp ==
  ASSUME TypeOK, [Next]_vars, NEW o \in Ops, op'[o] # Idle
  PROVE  \/ op'[o] = op[o]
         \/ /\ op[o] = Idle /\ op'[o].cart = None /\ op'[o].guest = None /\ op'[o].pc \in {"guest", "cart"}
            /\ op'[o].mine = {} /\ op'[o].theirs = {} /\ op'[o].todo = {}
            /\ line' = line /\ cart' = cart /\ moved' = moved
         \/ Step(o)
<1>a. op \in [Ops -> {Idle} \union Served]
  BY DEF TypeOK
<1>1. CASE op' = op
  BY <1>1
<1>2. ASSUME NEW p \in Ops, Request(p)
      PROVE  \/ op'[o] = op[o]
             \/ /\ op[o] = Idle /\ op'[o].cart = None /\ op'[o].guest = None /\ op'[o].pc \in {"guest", "cart"}
                /\ op'[o].mine = {} /\ op'[o].theirs = {} /\ op'[o].todo = {}
                /\ line' = line /\ cart' = cart /\ moved' = moved
  <2>1. PICK kind, owner, item, l : Begin(p, kind, owner, item, l)
    BY <1>2 DEF Request
  <2>2. line' = line /\ cart' = cart /\ moved' = moved /\ op[p] = Idle
    BY <2>1 DEF Begin, history
  <2>3. op' = [op EXCEPT ![p] = [pc |-> IF kind = "merge" THEN "guest" ELSE "cart",
                                  kind |-> kind, owner |-> owner, item |-> item, line |-> l,
                                  cart |-> None, guest |-> None, theirs |-> {}, mine |-> {}, todo |-> {}]]
    BY <2>1 DEF Begin
  <2> QED
    BY <1>a, <2>2, <2>3
<1>3. ASSUME NEW p \in Ops, Step(p), p # o
      PROVE  op'[o] = op[o]
  BY <1>3, OpStep
<1>4. ASSUME NEW p \in Ops, Dies(p)
      PROVE  op'[o] = op[o]
  BY <1>a, <1>4 DEF Dies, End
<1> QED
  BY <1>1, <1>2, <1>3, <1>4 DEF Next, vars

\* A line comes to belong to a cart only as a new one.
LEMMA NextBelongs ==
  ASSUME TypeOK, TypeOK', [Next]_vars, NEW l \in Lines, NEW c \in Carts, BelongsTo(l, c)'
  PROVE  \/ BelongsTo(l, c)
         \/ \E o \in Ops : /\ Insert(o) \/ Transfer(o)
                           /\ op[o] \in Served /\ l = made + 1 /\ made' = made + 1 /\ op[o].cart = c /\ line'[l].cart = c
<1>a. c # None
  BY Numbers
<1>1. CASE line'[l].cart = c
  <2>1. \A o \in Ops : op[o] \in Served => op[o] # Idle
    BY ServedOrIdle
  <2> QED
    BY <1>1, <1>a, <2>1, NextLine DEF BelongsTo
<1>2. ASSUME NEW o \in Ops, op'[o] # Idle, op'[o].cart = c, NEW x \in op'[o].mine, x.id = l
      PROVE  BelongsTo(l, c)
  <2>1. CASE op'[o] = op[o]
    BY <1>2, <2>1 DEF BelongsTo
  <2>2. CASE Step(o)
    <3>1. op[o] # Idle
      BY <2>2, OpStep, ServedOrIdle
    <3>2. \/ op[o].cart = c /\ (x \in Copies(c) \/ \E y \in op[o].mine : y.id = x.id)
          \/ x \in Copies(c)
      BY <1>2, <2>2, OpStep
    <3>3. CASE x \in Copies(c)
      BY <1>2, <3>3, CopiesOfRows DEF BelongsTo
    <3> QED
      BY <1>2, <3>1, <3>2, <3>3 DEF BelongsTo
  <2> QED
    BY <1>2, <2>1, <2>2, NextOp
<1>3. ASSUME NEW o \in Ops, op'[o] # Idle, op'[o].guest = c, NEW x \in op'[o].theirs, x.id = l
      PROVE  BelongsTo(l, c)
  <2>1. CASE op'[o] = op[o]
    BY <1>3, <2>1 DEF BelongsTo
  <2>2. CASE Step(o)
    <3>1. op[o] # Idle
      BY <2>2, OpStep, ServedOrIdle
    <3>2. \/ op[o].guest = c /\ x \in op[o].theirs
          \/ x \in Copies(c)
      BY <1>3, <2>2, OpStep
    <3>3. CASE x \in Copies(c)
      BY <1>3, <3>3, CopiesOfRows DEF BelongsTo
    <3> QED
      BY <1>3, <3>1, <3>2, <3>3 DEF BelongsTo
  <2> QED
    BY <1>3, <2>1, <2>2, NextOp
<1> QED
  BY <1>1, <1>2, <1>3 DEF BelongsTo

\* A merge deals with one row of the guest at a time.
LEMMA Transferred ==
  ASSUME TypeOK, NEW o \in Ops, Transfer(o)
  PROVE  /\ op[o] \in Served /\ op[o].guest \in Carts
         /\ op'[o].guest = op[o].guest /\ op'[o].kind = "merge" /\ op'[o].pc = "transfer"
         /\ \E x \in op[o].todo :
              /\ moved' = moved \union {x.id} /\ again' = again \union (moved \intersect {x.id})
              /\ op'[o].todo = op[o].todo \ {x} /\ op'[o].theirs = op[o].theirs
<1>a. op \in [Ops -> {Idle} \union Served]
  BY DEF TypeOK
<1>1. PICK x \in op[o].todo : Skip(o, x) \/ AddToMine(o, x) \/ AddAsNew(o, x)
  BY DEF Transfer
<1>2. PICK mine : Done(o, x, mine)
  BY <1>1 DEF Skip, AddToMine, AddAsNew
<1>3. op[o].pc = "transfer" /\ op[o].kind = "merge"
  BY DEF Transfer, At
<1>4. op[o] \in Served /\ op[o] \in ServedRecord /\ Consistent(op[o])
  BY <1>3, ServedOrIdle DEF Served
<1>5. op[o].guest \in Carts
  <2>1. op[o].guest \in 0..MaxCarts /\ op[o].guest # None
    BY <1>1, <1>4 DEF ServedRecord, Consistent
  <2> QED
    BY <2>1, Numbers
<1> QED
  BY <1>a, <1>2, <1>3, <1>4, <1>5 DEF Done, ServedRecord

\* Lines are made one at a time, and dealt with one at a time.
LEMMA NextMade ==
  ASSUME TypeOK, [Next]_vars
  PROVE  /\ made \in Nat /\ made' \in {made, made + 1}
         /\ \/ moved' = moved /\ again' = again
            \/ \E o \in Ops : Transfer(o) /\ op[o] \in Served /\ \E x \in op[o].todo :
                 /\ moved' = moved \union {x.id} /\ again' = again \union (moved \intersect {x.id})
                 /\ op'[o].todo = op[o].todo \ {x}
<1>a. made \in Nat /\ op \in [Ops -> {Idle} \union Served]
  BY DEF TypeOK
<1>1. made' = made \/ \E o \in Ops : Insert(o) \/ Transfer(o)
  BY Changes
<1>2. ASSUME ~\E o \in Ops : Transfer(o)
      PROVE  moved' = moved /\ again' = again
  BY <1>2, Changes
<1>3. ASSUME NEW o \in Ops, Insert(o) PROVE made' = made + 1
  BY <1>3 DEF Insert, NewLine
<1>4. ASSUME NEW o \in Ops, Transfer(o) PROVE made' \in {made, made + 1}
  <2>1. PICK x \in op[o].todo : Skip(o, x) \/ AddToMine(o, x) \/ AddAsNew(o, x)
    BY <1>4 DEF Transfer
  <2> QED
    BY <2>1 DEF Skip, AddToMine, AddAsNew, NewLine
<1>5. made' \in {made, made + 1}
  BY <1>1, <1>3, <1>4
<1> QED
  BY <1>a, <1>2, <1>5, Transferred

\* Every step leaves each line in the cart it was made for.
LEMMA NextHome ==
  ASSUME TypeOK, TypeOK', HomeInv, [Next]_vars
  PROVE  HomeInv'
<1>1. ASSUME NEW l \in Lines, NEW c \in Carts, BelongsTo(l, c)'
      PROVE  \/ BelongsTo(l, c) /\ l <= made /\ l <= made'
             \/ l = made + 1 /\ made' = made + 1 /\ line'[l].cart = c
  <2>1. BelongsTo(l, c) => l <= made
    BY DEF HomeInv
  <2>2. l \in Nat /\ made \in Nat /\ made' \in {made, made + 1}
    BY Numbers, NextMade
  <2> QED
    BY <1>1, <2>1, <2>2, NextBelongs
<1>2. ASSUME NEW l \in Lines, NEW c \in Carts, BelongsTo(l, c)', NEW d \in Carts, BelongsTo(l, d)'
      PROVE  c = d
  <2>1. BelongsTo(l, c) /\ BelongsTo(l, d) => c = d
    BY DEF HomeInv
  <2>2. made \in Nat
    BY NextMade
  <2> QED
    BY <1>1, <1>2, <2>1, <2>2
<1>3. ASSUME NEW l \in Lines, NEW c \in Carts, BelongsTo(l, c)'
      PROVE  l <= made'
  <2>1. made \in Nat /\ l \in Nat
    BY NextMade, Numbers
  <2> QED
    BY <1>1, <1>3, <2>1
<1> QED
  BY <1>2, <1>3 DEF HomeInv

\* An owner's cart stays the owner's.
LEMMA OwnerKept ==
  ASSUME TypeOK, [Next]_vars, NEW c \in Carts, cart[c].owner # "nobody"
  PROVE  cart'[c].owner = cart[c].owner
<1>1. cart[c] # NoCart
  BY DEF NoCart
<1>2. \/ cart'[c] = cart[c]
      \/ \E o \in Ops : CreateCart(o) /\ cart[c] = NoCart /\ cart'[c] = [owner |-> op[o].owner, status |-> "active"]
      \/ \E o \in Ops : Finish(o) /\ op[o].guest = c /\ cart'[c].owner = cart[c].owner /\ cart'[c].status = "merged"
  BY NextCarts
<1> QED
  BY <1>1, <1>2

\* Carts keep their owners, and no cart of a user is ever merged.
LEMMA NextCartsInv ==
  ASSUME TypeOK, CartsInv, [Next]_vars
  PROVE  CartsInv'
<1>1. ASSUME NEW c \in Carts, cart'[c].status = "merged"
      PROVE  cart'[c].owner = "guest"
  <2>1. CASE cart'[c] = cart[c]
    BY <1>1, <2>1 DEF CartsInv
  <2>2. ASSUME NEW o \in Ops, Finish(o), op[o].guest = c, cart'[c].owner = cart[c].owner
        PROVE  cart'[c].owner = "guest"
    <3>1. op[o] # Idle
      BY <2>2, ServedOrIdle DEF Finish, At
    <3> QED
      BY <2>2, <3>1 DEF CartsInv
  <2>3. ASSUME NEW o \in Ops, cart'[c] = [owner |-> op[o].owner, status |-> "active"]
        PROVE  FALSE
    BY <1>1, <2>3
  <2>4. \/ cart'[c] = cart[c]
        \/ \E o \in Ops : CreateCart(o) /\ cart[c] = NoCart /\ cart'[c] = [owner |-> op[o].owner, status |-> "active"]
        \/ \E o \in Ops : Finish(o) /\ op[o].guest = c /\ cart'[c].owner = cart[c].owner /\ cart'[c].status = "merged"
    BY NextCarts
  <2> QED
    BY <2>1, <2>2, <2>3, <2>4
<1>2. ASSUME NEW o \in Ops, op'[o] # Idle, op'[o].cart \in Carts
      PROVE  cart'[op'[o].cart].owner = op'[o].owner
  <2>1. CASE op[o] # Idle /\ op'[o].cart = op[o].cart /\ op'[o].owner = op[o].owner
    <3>1. cart[op[o].cart].owner = op[o].owner /\ op[o].owner # "nobody"
      BY <1>2, <2>1, ServedOrIdle DEF CartsInv, Served, ServedRecord, Owners
    <3> QED
      BY <1>2, <2>1, <3>1, OwnerKept
  <2>2. CASE Step(o)
    <3>1. op[o] # Idle
      BY <2>2, OpStep, ServedOrIdle
    <3> QED
      BY <1>2, <2>1, <2>2, <3>1, OpStep
  <2>3. CASE op'[o] = op[o]
    BY <1>2, <2>1, <2>3
  <2> QED
    BY <1>2, <2>2, <2>3, NextOp, Numbers
<1>3. ASSUME NEW o \in Ops, op'[o] # Idle, op'[o].guest \in Carts
      PROVE  cart'[op'[o].guest].owner = "guest"
  <2>1. CASE op[o] # Idle /\ op'[o].guest = op[o].guest
    <3>1. cart[op[o].guest].owner = "guest"
      BY <1>3, <2>1 DEF CartsInv
    <3> QED
      BY <1>3, <2>1, <3>1, OwnerKept
  <2>2. CASE op'[o].guest \in Current("guest")
    <3>1. cart[op'[o].guest].owner = "guest"
      BY <2>2 DEF Current
    <3> QED
      BY <1>3, <3>1, OwnerKept
  <2>3. CASE Step(o)
    <3>1. op[o] # Idle
      BY <2>3, OpStep, ServedOrIdle
    <3> QED
      BY <1>3, <2>1, <2>2, <2>3, <3>1, OpStep
  <2>4. CASE op'[o] = op[o]
    BY <1>3, <2>1, <2>4
  <2> QED
    BY <1>3, <2>3, <2>4, NextOp, Numbers
<1> QED
  BY <1>1, <1>2, <1>3 DEF CartsInv

-----------------------------------------------------------------------------
\* Only a request that finds no cart goes on to create one.
LEMMA ToCreate ==
  ASSUME TypeOK, NEW o \in Ops, Step(o), op'[o].pc = "create"
  PROVE  FindCart(o) /\ Current(op[o].owner) = {} /\ cart' = cart /\ op'[o].owner = op[o].owner
<1>a. op \in [Ops -> {Idle} \union Served]
  BY DEF TypeOK
<1>b. op[o] \in ServedRecord /\ op[o].pc # "idle"
  BY OpStep, ServedOrIdle DEF Served
<1>1. ASSUME End(o) PROVE FALSE
  BY <1>a, <1>1 DEF End, Idle
<1>2. ASSUME NEW c, Enter(o, c) PROVE FALSE
  <2>1. op'[o].pc = AfterCart(op[o].kind)
    BY <1>a, <1>b, <1>2 DEF Enter, ServedRecord
  <2>2. AfterCart(op[o].kind) # "create"
    BY <1>b DEF AfterCart, ServedRecord, Kinds
  <2> QED
    BY <2>1, <2>2
<1>3. ASSUME NEW step, Goto(o, step) PROVE op'[o].pc = step /\ op'[o].owner = op[o].owner
  BY <1>a, <1>b, <1>3 DEF Goto, ServedRecord
<1>4. ASSUME NEW l, NEW mine, op' = [op EXCEPT ![o].pc = "increment", ![o].line = l, ![o].mine = mine] PROVE FALSE
  BY <1>a, <1>b, <1>4 DEF ServedRecord
<1>5. ASSUME NEW step \in {"save", "delete"}, NEW mine, op' = [op EXCEPT ![o].pc = step, ![o].mine = mine] PROVE FALSE
  BY <1>a, <1>b, <1>5 DEF ServedRecord
<1>6. ASSUME FindCart(o) PROVE Current(op[o].owner) = {} /\ cart' = cart /\ op'[o].owner = op[o].owner
  BY <1>2, <1>3, <1>6 DEF FindCart
<1>7. ASSUME CreateCart(o) PROVE FALSE
  BY <1>2, <1>7 DEF CreateCart
<1>8. ASSUME FindLine(o) \/ FindAgain(o) PROVE FALSE
  <2>1. \/ End(o) \/ Goto(o, "insert")
        \/ \E l \in Same(op[o].cart, op[o].item) :
             op' = [op EXCEPT ![o].pc = "increment", ![o].line = l, ![o].mine = {c \in Copies(op[o].cart) : c.id = l}]
    BY <1>8 DEF FindLine, FindAgain
  <2>2. ~Goto(o, "insert")
    BY <1>3
  <2> QED
    BY <1>1, <1>4, <2>1, <2>2
<1>9. ASSUME FindOwnLine(o) PROVE FALSE
  <2>1. End(o) \/ op' = [op EXCEPT ![o].pc = IF op[o].kind = "set" THEN "save" ELSE "delete",
                                   ![o].mine = {c \in Copies(op[o].cart) : c.id = op[o].line}]
    BY <1>9 DEF FindOwnLine
  <2> QED
    BY <1>1, <1>5, <2>1
<1>10. ASSUME InsertRefused(o) PROVE FALSE
  <2>1. Goto(o, "find again")
    BY <1>10 DEF InsertRefused
  <2>2. op'[o].pc = "find again"
    BY <1>3, <2>1
  <2> QED
    BY <2>2
<1>11. ASSUME ReadGuest(o) PROVE FALSE
  <2>1. CASE Goto(o, "cart")
    BY <1>3, <2>1
  <2>2. CASE \E g \in Current("guest") :
               op' = [op EXCEPT ![o].pc = "cart", ![o].guest = g, ![o].theirs = Copies(g), ![o].todo = Copies(g)]
    BY <1>a, <1>b, <2>2 DEF ServedRecord
  <2> QED
    BY <1>11, <2>1, <2>2 DEF ReadGuest
<1>12. ASSUME Transfer(o) PROVE FALSE
  <2>1. op[o].pc = "transfer"
    BY <1>12 DEF Transfer, At
  <2>2. PICK x, mine : Done(o, x, mine)
    BY <1>12 DEF Transfer, Skip, AddToMine, AddAsNew
  <2>3. op'[o].pc = op[o].pc
    BY <1>a, <1>b, <2>2 DEF Done, ServedRecord
  <2> QED
    BY <2>1, <2>3
<1>13. ASSUME Refuse(o) \/ Increment(o) \/ Insert(o) \/ SetQuantity(o) \/ RemoveLine(o) \/ Clear(o) \/ NothingToMerge(o)
             \/ Finish(o) \/ FinishFails(o)
       PROVE  FALSE
  BY <1>1, <1>13 DEF Refuse, Increment, Insert, SetQuantity, RemoveLine, Clear, NothingToMerge, Finish, FinishFails
<1> QED
  BY <1>6, <1>7, <1>8, <1>9, <1>10, <1>11, <1>12, <1>13 DEF Step

\* What CountInv counts is finite.
LEMMA FiniteCarts ==
  ASSUME NEW owner
  PROVE  /\ IsFiniteSet(ActiveCarts(owner)) /\ IsFiniteSet(Creating(owner)) /\ IsFiniteSet(Ops)
         /\ Cardinality(ActiveCarts(owner)) \in Nat /\ Cardinality(Creating(owner)) \in Nat /\ Cardinality(Ops) \in Nat
         /\ Cardinality(Creating(owner)) <= Cardinality(Ops)
<1>1. IsFiniteSet(Ops) /\ IsFiniteSet(Carts)
  BY CartAssumption, FS_Interval DEF Carts
<1>2. ActiveCarts(owner) \subseteq Carts /\ Creating(owner) \subseteq Ops
  BY DEF ActiveCarts, Creating
<1>3. IsFiniteSet(ActiveCarts(owner)) /\ IsFiniteSet(Creating(owner)) /\ Cardinality(Creating(owner)) <= Cardinality(Ops)
  BY <1>1, <1>2, FS_Subset
<1> QED
  BY <1>1, <1>3, FS_CardinalityType

\* A cart is made active by the request that was about to create it.
LEMMA NextCount ==
  ASSUME TypeOK, TypeOK', CountInv, [Next]_vars
  PROVE  CountInv'
<1> SUFFICES ASSUME NEW owner \in Owners
             PROVE  Cardinality(ActiveCarts(owner)') + Cardinality(Creating(owner)') <= Cardinality(Ops)
  BY DEF CountInv, ActiveCarts, Creating
<1>a. Cardinality(ActiveCarts(owner)) + Cardinality(Creating(owner)) <= Cardinality(Ops)
  BY DEF CountInv
<1>b. cart \in [Carts -> CartRow] /\ op \in [Ops -> {Idle} \union Served]
  BY DEF TypeOK
<1>f. /\ IsFiniteSet(ActiveCarts(owner)') /\ IsFiniteSet(Creating(owner)')
      /\ Cardinality(ActiveCarts(owner)') \in Nat /\ Cardinality(Creating(owner)') \in Nat
      /\ Cardinality(Creating(owner)') <= Cardinality(Ops)
  <2>1. IsFiniteSet(Ops) /\ IsFiniteSet(Carts)
    BY CartAssumption, FS_Interval DEF Carts
  <2>2. ActiveCarts(owner)' \subseteq Carts /\ Creating(owner)' \subseteq Ops
    BY DEF ActiveCarts, Creating
  <2>3. IsFiniteSet(ActiveCarts(owner)') /\ IsFiniteSet(Creating(owner)') /\ Cardinality(Creating(owner)') <= Cardinality(Ops)
    BY <2>1, <2>2, FS_Subset
  <2> QED
    BY <2>3, FS_CardinalityType
<1>1. ASSUME NEW o \in Ops, FindCart(o), Current(op[o].owner) = {}, op[o].owner = owner, cart' = cart
      PROVE  Cardinality(ActiveCarts(owner)') + Cardinality(Creating(owner)') <= Cardinality(Ops)
  <2>1. ActiveCarts(owner) = {}
    BY <1>b, <1>1 DEF ActiveCarts, Current, CartRow
  <2>2. ActiveCarts(owner)' = {}
    BY <1>1, <2>1 DEF ActiveCarts
  <2>3. Cardinality(ActiveCarts(owner)') = 0
    BY <2>2, FS_EmptySet
  <2> QED
    BY <1>f, <2>3, FiniteCarts
<1>2. ASSUME NEW o \in Ops, CreateCart(o), op[o].owner = owner
      PROVE  Cardinality(ActiveCarts(owner)') + Cardinality(Creating(owner)') <= Cardinality(Ops)
  <2>1. PICK c \in Carts : cart[c] = NoCart /\ cart' = [cart EXCEPT ![c] = [owner |-> owner, status |-> "active"]] /\ Enter(o, c)
    BY <1>2 DEF CreateCart
  <2>2. ActiveCarts(owner)' = ActiveCarts(owner) \union {c} /\ c \notin ActiveCarts(owner)
    BY <1>b, <2>1 DEF ActiveCarts, NoCart
  <2>3. op[o].pc = "create" /\ o \in Creating(owner)
    BY <1>2 DEF CreateCart, Creating
  <2>4. op'[o].pc # "create"
    <3>1. Step(o)
      BY <1>2 DEF Step
    <3> QED
      BY <2>3, <3>1, ToCreate DEF FindCart
  <2>5. \A p \in Ops : p # o => op'[p] = op[p]
    <3>1. Step(o)
      BY <1>2 DEF Step
    <3> QED
      BY <3>1, OpStep
  <2>6. Creating(owner)' = Creating(owner) \ {o}
    BY <2>4, <2>5 DEF Creating
  <2>7. Cardinality(ActiveCarts(owner)') = Cardinality(ActiveCarts(owner)) + 1
    <3>1. Cardinality(ActiveCarts(owner) \union {c}) = Cardinality(ActiveCarts(owner)) + 1
      BY <2>2, FiniteCarts, FS_AddElement
    <3> QED
      BY <2>2, <3>1
  <2>8. Cardinality(Creating(owner)') = Cardinality(Creating(owner)) - 1
    <3>1. Cardinality(Creating(owner) \ {o}) = Cardinality(Creating(owner)) - 1
      BY <2>3, FiniteCarts, FS_RemoveElement
    <3> QED
      BY <2>6, <3>1
  <2> QED
    BY <1>a, <2>7, <2>8, FiniteCarts
<1>3. ASSUME ~\E o \in Ops : /\ op[o].owner = owner
                             /\ CreateCart(o) \/ (FindCart(o) /\ Current(op[o].owner) = {} /\ cart' = cart)
      PROVE  Cardinality(ActiveCarts(owner)') + Cardinality(Creating(owner)') <= Cardinality(Ops)
  <2>1. ASSUME NEW c \in ActiveCarts(owner)' PROVE c \in ActiveCarts(owner)
    <3>1. c \in Carts /\ cart'[c].owner = owner /\ cart'[c].status = "active"
      BY <2>1 DEF ActiveCarts
    <3>2. ASSUME NEW o \in Ops, CreateCart(o), cart'[c] = [owner |-> op[o].owner, status |-> "active"]
          PROVE  FALSE
      BY <1>3, <3>1, <3>2
    <3>3. \/ cart'[c] = cart[c]
          \/ \E o \in Ops : CreateCart(o) /\ cart[c] = NoCart /\ cart'[c] = [owner |-> op[o].owner, status |-> "active"]
          \/ \E o \in Ops : Finish(o) /\ op[o].guest = c /\ cart'[c].owner = cart[c].owner /\ cart'[c].status = "merged"
      BY <3>1, NextCarts
    <3>4. cart'[c] = cart[c]
      BY <3>1, <3>2, <3>3
    <3> QED
      BY <3>1, <3>4 DEF ActiveCarts
  <2>2. ASSUME NEW o \in Creating(owner)' PROVE o \in Creating(owner)
    <3>1. o \in Ops /\ op'[o].pc = "create" /\ op'[o].owner = owner
      BY <2>2 DEF Creating
    <3>2. op'[o] # Idle
      BY <3>1 DEF Idle
    <3>3. ~Step(o)
      BY <1>3, <3>1, ToCreate
    <3>4. op'[o] = op[o]
      BY <3>1, <3>2, <3>3, NextOp
    <3> QED
      BY <3>1, <3>4 DEF Creating
  <2>3. ActiveCarts(owner)' \subseteq ActiveCarts(owner) /\ Creating(owner)' \subseteq Creating(owner)
    BY <2>1, <2>2
  <2>4. /\ Cardinality(ActiveCarts(owner)') <= Cardinality(ActiveCarts(owner))
        /\ Cardinality(Creating(owner)') <= Cardinality(Creating(owner))
    BY <2>3, FiniteCarts, FS_Subset
  <2> QED
    BY <1>a, <1>f, <2>4, FiniteCarts
<1> QED
  BY <1>1, <1>2, <1>3

-----------------------------------------------------------------------------
\* What has once happened stays so.
LEMMA HistoryGrows ==
  ASSUME TypeOK, [Next]_vars
  PROVE  moved \subseteq moved' /\ late \subseteq late' /\ (disturbed => disturbed')
<1>1. moved \subseteq moved'
  BY NextMade
<1>2. late \subseteq late'
  <2>1. late' = late \/ \E o \in Ops : Insert(o) \/ SetQuantity(o) \/ Transfer(o)
    BY Changes
  <2>2. \A o \in Ops : Insert(o) => late \subseteq late'
    BY DEF Insert, NewLine
  <2>3. \A o \in Ops : SetQuantity(o) => late \subseteq late'
    BY DEF SetQuantity
  <2>4. \A o \in Ops : Transfer(o) => late \subseteq late'
    BY DEF Transfer, Skip, AddToMine, AddAsNew, NewLine
  <2> QED
    BY <2>1, <2>2, <2>3, <2>4
<1>3. disturbed => disturbed'
  <2>1. disturbed' = disturbed \/ \E o \in Ops : ReadGuest(o) \/ FinishFails(o) \/ Dies(o)
    BY Changes
  <2>2. \A o \in Ops : ReadGuest(o) => (disturbed => disturbed')
    BY DEF ReadGuest
  <2>3. \A o \in Ops : FinishFails(o) \/ Dies(o) => (disturbed => disturbed')
    BY DEF FinishFails, Dies
  <2> QED
    BY <2>1, <2>2, <2>3
<1> QED
  BY <1>1, <1>2, <1>3

\* What a merge reads of a guest's cart was in that cart.
LEMMA TheirsBelong ==
  ASSUME TypeOK, NEW o \in Ops, op[o] \in Served, NEW x \in op[o].theirs
  PROVE  op[o].guest \in Carts /\ x.id \in Lines /\ BelongsTo(x.id, op[o].guest)
<1>1. op[o] # Idle /\ op[o] \in ServedRecord /\ Consistent(op[o])
  BY ServedOrIdle DEF Served
<1>2. x.id \in Lines /\ op[o].guest \in 0..MaxCarts /\ op[o].guest # None
  BY <1>1 DEF ServedRecord, Consistent, Copy
<1> QED
  BY <1>1, <1>2, Numbers DEF BelongsTo

\* What a merge has dealt with has been moved.
LEMMA NextDealt ==
  ASSUME TypeOK, HomeInv, DealtInv, [Next]_vars
  PROVE  DealtInv'
<1>1. ASSUME NEW l \in moved' PROVE l <= made'
  <2>1. l <= made
    <3>1. CASE l \in moved
      BY <3>1 DEF DealtInv
    <3>2. CASE l \notin moved
      <4>1. PICK o \in Ops : op[o] \in Served /\ \E x \in op[o].todo : l = x.id
        BY <1>1, <3>2, NextMade
      <4>2. PICK x \in op[o].theirs : l = x.id
        BY <4>1 DEF Served, Consistent
      <4> QED
        BY <4>1, <4>2, TheirsBelong DEF HomeInv
    <3> QED
      BY <3>1, <3>2
  <2>2. l \in Nat /\ made \in Nat /\ made' \in {made, made + 1}
    <3>1. l \in Lines
      <4>1. CASE l \in moved
        BY <4>1 DEF TypeOK
      <4>2. CASE l \notin moved
        <5>1. PICK o \in Ops : op[o] \in Served /\ \E x \in op[o].todo : l = x.id
          BY <1>1, <4>2, NextMade
        <5> QED
          BY <5>1 DEF Served, ServedRecord, Copy
      <4> QED
        BY <4>1, <4>2
    <3> QED
      BY <3>1, Numbers, NextMade
  <2> QED
    BY <2>1, <2>2
<1>2. ASSUME NEW o \in Ops, op'[o] # Idle, NEW x \in op'[o].theirs, x \notin op'[o].todo
      PROVE  x.id \in moved'
  <2>1. CASE op[o] # Idle /\ op'[o].theirs = op[o].theirs /\ op'[o].todo = op[o].todo
    BY <1>2, <2>1, HistoryGrows DEF DealtInv
  <2>2. CASE Transfer(o)
    <3>1. PICK y \in op[o].todo : moved' = moved \union {y.id} /\ op'[o].todo = op[o].todo \ {y} /\ op'[o].theirs = op[o].theirs
      BY <2>2, Transferred
    <3>2. op[o] # Idle
      BY <2>2, Transferred, ServedOrIdle
    <3>3. x = y \/ x \in op[o].theirs \ op[o].todo
      BY <1>2, <3>1
    <3> QED
      BY <3>1, <3>2, <3>3 DEF DealtInv
  <2>3. CASE Step(o)
    <3>1. op[o] # Idle
      BY <2>3, OpStep, ServedOrIdle
    <3> QED
      BY <1>2, <2>1, <2>2, <2>3, <3>1, OpStep
  <2>4. CASE op'[o] = op[o]
    BY <1>2, <2>1, <2>4
  <2> QED
    BY <1>2, <2>3, <2>4, NextOp
<1> QED
  BY <1>1, <1>2 DEF DealtInv

\* No step loses an add that has been answered.
LEMMA NextAdds ==
  ASSUME TypeOK, TypeOK', AddsKept, [Next]_vars
  PROVE  AddsKept'
<1> SUFFICES ASSUME NEW l \in Lines, line'[l].cart # None PROVE line'[l].qty >= added'[l]
  BY DEF AddsKept
<1>1. /\ line[l].qty \in Nat /\ line'[l].qty \in Nat /\ added[l] \in Nat /\ added'[l] \in Nat
      /\ line[l].cart # None => line[l].qty >= added[l]
  BY DEF TypeOK, CartItem, AddsKept
<1>2. (line'[l].cart = line[l].cart /\ KeptOrAdded(l)) \/ added'[l] = 0 \/ line'[l].qty >= added'[l]
  BY NextLine
<1> QED
  BY <1>1, <1>2 DEF KeptOrAdded

\* A merge comes to a guest's cart when it reads it.
LEMMA MergeBegins ==
  ASSUME TypeOK, [Next]_vars, NEW o \in Ops, op'[o].pc # "idle", op'[o].kind = "merge", op'[o].guest # None, ~disturbed'
  PROVE  \/ Merging(o) /\ op'[o].guest = op[o].guest
         \/ /\ cart' = cart /\ op'[o].guest \in Current("guest") /\ \A p \in Ops : ~Merging(p)
            /\ \A p \in Ops : p # o => op'[p] = op[p]
<1>a. op \in [Ops -> {Idle} \union Served]
  BY DEF TypeOK
<1>b. op'[o] # Idle
  BY DEF Idle
<1>1. CASE op'[o] = op[o]
  BY <1>1 DEF Merging
<1>2. CASE Step(o)
  <2>1. op[o] \in Served /\ op[o] \in ServedRecord /\ Consistent(op[o]) /\ op[o].pc # "idle" /\ op'[o].kind = op[o].kind
    BY <1>2, <1>b, OpStep, ServedOrIdle DEF Served
  <2>2. CASE op'[o].guest = op[o].guest
    BY <2>1, <2>2 DEF Merging
  <2>3. CASE ReadGuest(o) /\ op'[o].guest \in Current("guest")
    <3>1. op[o].guest = None
      BY <2>1, <2>3 DEF ReadGuest, Consistent
    <3>2. ~Goto(o, "cart")
      BY <1>a, <2>1, <3>1 DEF Goto, ServedRecord
    <3>3. disturbed' = (disturbed \/ \E p \in Ops : Merging(p)) /\ cart' = cart
      BY <2>3, <3>2 DEF ReadGuest
    <3>4. \A p \in Ops : ~Merging(p)
      BY <3>3
    <3> QED
      BY <1>2, <2>3, <3>3, <3>4, OpStep
  <2> QED
    BY <1>2, <1>b, <2>2, <2>3, OpStep
<1> QED
  BY <1>1, <1>2, <1>b, NextOp

\* It ends when it has saved the guest's cart, or else half-way.
LEMMA MergeEnds ==
  ASSUME TypeOK, TypeOK', [Next]_vars, NEW o \in Ops, Merging(o), ~disturbed'
  PROVE  \/ Finish(o)
         \/ /\ op'[o].pc # "idle" /\ op'[o].kind = "merge" /\ op'[o].guest = op[o].guest
            /\ op'[o].todo \subseteq op[o].todo
<1>a. op \in [Ops -> {Idle} \union Served] /\ op' \in [Ops -> {Idle} \union Served]
  BY DEF TypeOK
<1>b. op[o] \in Served /\ op[o] \in ServedRecord /\ Consistent(op[o]) /\ op[o] # Idle
      /\ op[o].kind = "merge" /\ op[o].guest # None
  BY ServedOrIdle DEF Merging, Served
<1>c. op'[o] # Idle => op'[o].pc # "idle"
  <2>1. op'[o] # Idle => op'[o].pc \in Steps
    BY <1>a DEF Served, ServedRecord
  <2> QED
    BY <2>1 DEF Steps
<1>1. CASE op'[o] = op[o]
  BY <1>1, <1>b DEF Merging
<1>2. CASE Step(o) /\ op'[o] # Idle
  <2>1. op'[o].kind = op[o].kind
    BY <1>2, OpStep
  <2>2. ~ReadGuest(o)
    BY <1>b DEF ReadGuest, Consistent
  <2>3. op'[o].guest = op[o].guest /\ (op'[o].todo = op[o].todo \/ Transfer(o))
    BY <1>2, <2>2, OpStep
  <2>4. Transfer(o) => op'[o].todo \subseteq op[o].todo
    BY Transferred
  <2> QED
    BY <1>2, <1>b, <1>c, <2>1, <2>3, <2>4
<1>3. CASE Step(o) /\ op'[o] = Idle
  <2>1. op'[o].pc = "idle"
    BY <1>3 DEF Idle
  <2>2. ASSUME NEW step, Goto(o, step) PROVE op'[o].pc = step
    BY <1>a, <1>b, <2>2 DEF Goto, ServedRecord
  <2>3. ASSUME NEW c, Enter(o, c) PROVE FALSE
    <3>1. op'[o].pc = AfterCart(op[o].kind)
      BY <1>a, <1>b, <2>3 DEF Enter, ServedRecord
    <3> QED
      BY <1>b, <2>1, <3>1 DEF AfterCart
  <2>4. ~FindCart(o) /\ ~CreateCart(o)
    <3>1. ~Goto(o, "create")
      BY <2>1, <2>2
    <3> QED
      BY <2>3, <3>1 DEF FindCart, CreateCart
  <2>5. /\ ~Refuse(o) /\ ~FindLine(o) /\ ~Insert(o) /\ ~InsertRefused(o) /\ ~FindOwnLine(o)
        /\ ~Increment(o) /\ ~FindAgain(o) /\ ~SetQuantity(o) /\ ~RemoveLine(o) /\ ~Clear(o)
    BY <1>b DEF Refuse, FindLine, Insert, InsertRefused, FindOwnLine, At, Increment, FindAgain, SetQuantity, RemoveLine, Clear,
                Consistent
  <2>6. ~ReadGuest(o) /\ ~NothingToMerge(o)
    BY <1>b DEF ReadGuest, NothingToMerge, Consistent
  <2>7. ~Transfer(o)
    BY <2>1, Transferred
  <2>8. ~FinishFails(o)
    BY DEF FinishFails
  <2> QED
    BY <1>3, <2>4, <2>5, <2>6, <2>7, <2>8 DEF Step
<1>4. ASSUME NEW p \in Ops, Dies(p) PROVE op'[o] = op[o]
  BY <1>a, <1>4 DEF Dies, End, Merging
<1>5. ASSUME NEW p \in Ops, Request(p) PROVE op'[o] = op[o]
  <2>1. p # o
    BY <1>5, <1>b DEF Request, Begin
  <2> QED
    BY <1>a, <1>5, <2>1 DEF Request, Begin
<1>6. ASSUME NEW p \in Ops, Step(p), p # o PROVE op'[o] = op[o]
  BY <1>6, OpStep
<1>7. CASE op' = op
  BY <1>7, <1>1
<1> QED
  BY <1>1, <1>2, <1>3, <1>4, <1>5, <1>6, <1>7 DEF Next, vars

\* A merge deals only with lines that no merge has dealt with.
LEMMA NewlyMoved ==
  ASSUME TypeOK, QuietInv, ~disturbed, NEW o \in Ops, Transfer(o), NEW x \in op[o].todo
  PROVE  x.id \notin moved /\ Merging(o) /\ BelongsTo(x.id, op[o].guest) /\ x.id \in Lines
<1>1. op[o] \in Served /\ op[o].guest \in Carts
  BY Transferred
<1>2. x \in op[o].theirs
  BY <1>1 DEF Served, Consistent
<1>3. x.id \in Lines /\ BelongsTo(x.id, op[o].guest)
  BY <1>1, <1>2, TheirsBelong
<1>4. Merging(o)
  <2>1. op[o].pc = "transfer" /\ op[o].kind = "merge"
    BY DEF Transfer, At
  <2> QED
    BY <1>1, <2>1, Numbers DEF Merging
<1>5. ASSUME x.id \in moved PROVE FALSE
  <2>1. \/ cart[op[o].guest].status = "merged"
        \/ \E p \in Ops : Merging(p) /\ op[p].guest = op[o].guest /\ \A y \in op[p].todo : y.id # x.id
    BY <1>1, <1>3, <1>5 DEF QuietInv
  <2>2. cart[op[o].guest].status = "active" /\ \A p \in Ops : Merging(p) => p = o
    BY <1>4 DEF QuietInv
  <2> QED
    BY <2>1, <2>2
<1> QED
  BY <1>3, <1>4, <1>5

\* While merges are quiet, no line is moved twice.
LEMMA NextQuiet ==
  ASSUME TypeOK, TypeOK', HomeInv, DealtInv, QuietInv, [Next]_vars
  PROVE  QuietInv'
<1> SUFFICES ASSUME ~disturbed'
             PROVE  /\ again' = {}
                    /\ \A o, p \in Ops : Merging(o)' /\ Merging(p)' => o = p
                    /\ \A o \in Ops : Merging(o)' => cart'[op'[o].guest].status = "active"
                    /\ \A l \in moved', c \in Carts : BelongsTo(l, c)' =>
                         \/ cart'[c].status = "merged"
                         \/ \E o \in Ops : Merging(o)' /\ op'[o].guest = c /\ \A x \in op'[o].todo : x.id # l
  BY DEF QuietInv, Merging
<1>a. ~disturbed
  BY HistoryGrows
<1>b. \A o, p \in Ops : Merging(o) /\ Merging(p) => o = p
  BY <1>a DEF QuietInv
<1>c. ASSUME NEW o \in Ops, Merging(o)'
      PROVE  \/ Merging(o) /\ op'[o].guest = op[o].guest
             \/ /\ cart' = cart /\ op'[o].guest \in Current("guest") /\ \A p \in Ops : ~Merging(p)
                /\ \A p \in Ops : p # o => op'[p] = op[p]
  <2>1. op'[o].pc # "idle" /\ op'[o].kind = "merge" /\ op'[o].guest # None
    BY <1>c DEF Merging
  <2> QED
    BY <2>1, MergeBegins
<1>d. ASSUME NEW o \in Ops, Merging(o), ~Finish(o)
      PROVE  Merging(o)' /\ op'[o].guest = op[o].guest /\ op'[o].todo \subseteq op[o].todo
  BY <1>d, MergeEnds DEF Merging
<1>1. again' = {}
  <2>1. again = {}
    BY <1>a DEF QuietInv
  <2>2. ASSUME NEW o \in Ops, Transfer(o), NEW x \in op[o].todo, again' = again \union (moved \intersect {x.id})
        PROVE  again' = {}
    BY <1>a, <2>1, <2>2, NewlyMoved
  <2> QED
    BY <2>1, <2>2, NextMade
<1>2. ASSUME NEW o \in Ops, NEW p \in Ops, Merging(o)', Merging(p)'
      PROVE  o = p
  <2>1. \A q \in Ops : op'[q] = op[q] /\ Merging(q)' => Merging(q)
    BY DEF Merging
  <2> QED
    BY <1>2, <1>b, <1>c, <2>1
<1>3. ASSUME NEW o \in Ops, Merging(o)'
      PROVE  cart'[op'[o].guest].status = "active"
  <2>1. CASE cart' = cart /\ op'[o].guest \in Current("guest")
    BY <2>1 DEF Current
  <2>2. CASE Merging(o) /\ op'[o].guest = op[o].guest
    <3>1. cart[op[o].guest].status = "active"
      BY <1>a, <2>2 DEF QuietInv
    <3>2. op[o].guest \in Carts
      <4>1. op[o] \in Served
        BY <2>2, ServedOrIdle DEF Merging
      <4>2. op[o].guest \in 0..MaxCarts /\ op[o].guest # None
        BY <2>2, <4>1 DEF Merging, Served, ServedRecord
      <4> QED
        BY <4>2, Numbers
    <3>3. ASSUME NEW p \in Ops, Finish(p), op[p].guest = op[o].guest PROVE FALSE
      <4>1. Merging(p)
        BY <3>3 DEF Finish, At, Merging
      <4>2. p = o
        BY <1>b, <2>2, <4>1
      <4>3. op'[o] = Idle
        BY <3>3, <4>2 DEF Finish, End, TypeOK
      <4> QED
        BY <1>3, <4>3 DEF Merging, Idle
    <3>4. cart[op[o].guest] # NoCart
      BY <3>1 DEF NoCart
    <3>5. \/ cart'[op[o].guest] = cart[op[o].guest]
          \/ \E p \in Ops : CreateCart(p) /\ cart[op[o].guest] = NoCart
          \/ \E p \in Ops : Finish(p) /\ op[p].guest = op[o].guest
      BY <3>2, NextCarts
    <3> QED
      BY <2>2, <3>1, <3>3, <3>4, <3>5
  <2> QED
    BY <1>3, <1>c, <2>1, <2>2
<1>4. ASSUME NEW l \in moved', NEW c \in Carts, BelongsTo(l, c)'
      PROVE  \/ cart'[c].status = "merged"
             \/ \E o \in Ops : Merging(o)' /\ op'[o].guest = c /\ \A x \in op'[o].todo : x.id # l
  <2>1. l \in Lines
    BY DEF TypeOK
  <2>2. CASE l \in moved
    <3>1. BelongsTo(l, c)
      <4>1. l <= made /\ made \in Nat
        BY <2>2, NextMade DEF DealtInv
      <4>2. l # made + 1
        BY <4>1
      <4> QED
        BY <1>4, <2>1, <4>2, NextBelongs
    <3>2. CASE cart[c].status = "merged"
      <4>1. cart[c] # NoCart
        BY <3>2 DEF NoCart
      <4>2. \/ cart'[c] = cart[c]
            \/ \E o \in Ops : CreateCart(o) /\ cart[c] = NoCart
            \/ \E o \in Ops : Finish(o) /\ cart'[c].status = "merged"
        BY NextCarts
      <4> QED
        BY <3>2, <4>1, <4>2
    <3>3. ASSUME NEW o \in Ops, Merging(o), op[o].guest = c, \A x \in op[o].todo : x.id # l
          PROVE  \/ cart'[c].status = "merged"
                 \/ Merging(o)' /\ op'[o].guest = c /\ \A x \in op'[o].todo : x.id # l
      <4>1. CASE Finish(o)
        <5>1. cart' = [cart EXCEPT ![c] = Closed(@)]
          BY <3>3, <4>1 DEF Finish
        <5> QED
          BY <5>1 DEF Closed, TypeOK, CartRow
      <4> QED
        BY <1>d, <3>3, <4>1
    <3> QED
      BY <1>a, <2>2, <3>1, <3>2, <3>3 DEF QuietInv
  <2>3. CASE l \notin moved
    <3>7. PICK o \in Ops : Transfer(o) /\ \E x \in op[o].todo : l = x.id /\ op'[o].todo = op[o].todo \ {x}
      BY <1>4, <2>3, NextMade
    <3>8. PICK x \in op[o].todo : l = x.id /\ op'[o].todo = op[o].todo \ {x}
      BY <3>7
    <3>1. Transfer(o) /\ x \in op[o].todo /\ l = x.id /\ op'[o].todo = op[o].todo \ {x}
      BY <3>7, <3>8
    <3>2. BelongsTo(l, op[o].guest) /\ Merging(o) /\ op[o].guest \in Carts /\ op[o] \in Served
      BY <1>a, <3>1, NewlyMoved, Transferred
    <3>3. BelongsTo(l, c)
      <4>1. l <= made /\ made \in Nat
        BY <2>1, <3>2, NextMade DEF HomeInv
      <4>2. l # made + 1
        BY <4>1
      <4> QED
        BY <1>4, <2>1, <4>2, NextBelongs
    <3>4. op[o].guest = c
      BY <2>1, <3>2, <3>3 DEF HomeInv
    <3>5. ~Finish(o)
      BY <3>1 DEF Finish
    <3>6. \A y \in op'[o].todo : y.id # l
      <4>1. op[o].todo \subseteq op[o].theirs /\ \A y, z \in op[o].theirs : y.id = z.id => y = z
        BY <3>2 DEF Served, Consistent
      <4> QED
        BY <3>1, <4>1
    <3> QED
      BY <1>d, <3>2, <3>4, <3>5, <3>6
  <2> QED
    BY <2>2, <2>3
<1> QED
  BY <1>1, <1>2, <1>3, <1>4

-----------------------------------------------------------------------------
\* A line comes to be in a merged cart only late, or by the merge that has looked at it.
LEMMA NextStranded ==
  ASSUME TypeOK, TypeOK', CartsInv, HomeInv, DealtInv, NotStranded, [Next]_vars
  PROVE  NotStranded'
<1> SUFFICES ASSUME NEW l \in Lines, line'[l].cart # None, cart'[line'[l].cart].status = "merged"
             PROVE  l \in moved' \union late'
  BY DEF NotStranded
<1>a. line'[l].cart \in Carts
  <2>1. line'[l].cart \in 0..MaxCarts
    BY DEF TypeOK, CartItem
  <2> QED
    BY <2>1, Numbers
<1>b. ASSUME line[l].cart # None, cart[line[l].cart].status = "merged"
      PROVE  l \in moved' \union late'
  BY <1>b, HistoryGrows DEF NotStranded
\* What a merge has read is all dealt with when it saves the guest's cart.
<1>c. ASSUME NEW o \in Ops, Finish(o), NEW x \in op[o].theirs, x.id = l
      PROVE  l \in moved' \union late'
  <2>1. op[o] # Idle /\ op[o].todo = {}
    BY <1>c DEF Finish, At, Idle
  <2>2. x.id \in moved
    BY <1>c, <2>1 DEF DealtInv
  <2> QED
    BY <1>c, <2>2, HistoryGrows
<1>1. CASE line'[l].cart = line[l].cart
  <2>1. ASSUME NEW o \in Ops, Finish(o), op[o].guest = line[l].cart
        PROVE  l \in moved' \union late'
    <3>1. l \in Rows(op[o].guest)
      BY <1>a, <1>1, <2>1, Numbers DEF Rows
    <3>2. Rows(op[o].guest) \subseteq {c.id : c \in op[o].theirs}
      BY <2>1 DEF Finish, CanFinish
    <3>3. PICK x \in op[o].theirs : x.id = l
      BY <3>1, <3>2
    <3> QED
      BY <1>c, <2>1, <3>3
  <2>2. ASSUME NEW o \in Ops, cart'[line[l].cart] = [owner |-> op[o].owner, status |-> "active"]
        PROVE  FALSE
    BY <1>1, <2>2
  <2>3. \/ cart'[line[l].cart] = cart[line[l].cart]
        \/ \E o \in Ops : cart'[line[l].cart] = [owner |-> op[o].owner, status |-> "active"]
        \/ \E o \in Ops : Finish(o) /\ op[o].guest = line[l].cart
    <3>1. line[l].cart \in Carts
      BY <1>a, <1>1
    <3> QED
      BY <3>1, NextCarts
  <2> QED
    BY <1>1, <1>b, <2>1, <2>2, <2>3
<1>2. ASSUME NEW o \in Ops, line'[l].cart = op[o].cart, cart' = cart, cart[op[o].cart].status = "merged" => l \in late'
      PROVE  l \in moved' \union late'
  BY <1>2
<1>3. ASSUME NEW o \in Ops, op[o] \in Served, \E x \in op[o].mine : x.id = l, line'[l].cart = op[o].cart, cart' = cart,
             cart[op[o].cart].status = "merged" /\ line[l].cart = None => l \in late'
      PROVE  l \in moved' \union late'
  <2>1. CASE line[l].cart = None
    BY <1>3, <2>1
  <2>2. CASE line[l].cart # None
    <3>1. BelongsTo(l, line'[l].cart)
      BY <1>3, ServedOrIdle DEF BelongsTo
    <3>2. line[l].cart \in Carts /\ BelongsTo(l, line[l].cart)
      <4>1. line[l].cart \in 0..MaxCarts
        BY DEF TypeOK, CartItem
      <4> QED
        BY <2>2, <4>1, Numbers DEF BelongsTo
    <3>3. line[l].cart = line'[l].cart
      BY <1>a, <3>1, <3>2 DEF HomeInv
    <3> QED
      BY <1>3, <1>b, <2>2, <3>3
  <2> QED
    BY <2>1, <2>2
\* A merge adds to the user's cart, which nothing merges.
<1>4. ASSUME NEW o \in Ops, op[o] \in Served, op[o].kind = "merge", line'[l].cart = op[o].cart, cart' = cart
      PROVE  FALSE
  <2>1. op[o] # Idle /\ op[o].owner = "user"
    BY <1>4, ServedOrIdle DEF Consistent
  <2>2. cart[op[o].cart].owner = "user" /\ cart[op[o].cart].owner = "guest"
    BY <1>a, <1>4, <2>1 DEF CartsInv
  <2> QED
    BY <2>2
<1>5. ASSUME NEW o \in Ops, Transfer(o) PROVE op[o].kind = "merge"
  BY <1>5 DEF Transfer, At
<1> QED
  BY <1>1, <1>2, <1>3, <1>4, <1>5, <1>c, NextLine

-----------------------------------------------------------------------------
\* The initial state satisfies the invariant.
LEMMA InitIInv == Init => IInv
<1> SUFFICES ASSUME Init PROVE IInv
  OBVIOUS
<1>a. /\ cart = [c \in Carts |-> NoCart] /\ line = [l \in Lines |-> NoLine] /\ op = [o \in Ops |-> Idle]
      /\ made = 0 /\ added = [l \in Lines |-> 0] /\ moved = {} /\ again = {} /\ disturbed = FALSE
  BY DEF Init
<1>1. TypeOK
  <2>1. NoCart \in CartRow /\ NoLine \in CartItem /\ 0 \in 0..MaxLines
    BY Numbers DEF NoCart, NoLine, CartRow, CartItem, Names, None
  <2> QED
    BY <1>a, <2>1 DEF TypeOK
<1>b. \A l \in Lines, c \in Carts : ~BelongsTo(l, c)
  BY <1>a, Numbers DEF BelongsTo, NoLine
<1>2. CartsInv /\ HomeInv /\ DealtInv
  BY <1>a, <1>b DEF CartsInv, HomeInv, DealtInv, NoCart
<1>3. CountInv
  <2>1. \A owner \in Owners : ActiveCarts(owner) = {} /\ Creating(owner) = {}
    BY <1>a DEF ActiveCarts, Creating, NoCart, Idle
  <2>2. Cardinality({}) = 0 /\ Cardinality(Ops) \in Nat
    BY FS_EmptySet, CartAssumption, FS_CardinalityType
  <2> QED
    BY <2>1, <2>2 DEF CountInv
<1>4. QuietInv
  BY <1>a DEF QuietInv, Merging, Idle
<1>5. AddsKept /\ NotStranded
  BY <1>a DEF AddsKept, NotStranded, NoLine
<1> QED
  BY <1>1, <1>2, <1>3, <1>4, <1>5 DEF IInv

\* The invariant holds throughout.
LEMMA SpecIInv == Spec => []IInv
<1>1. IInv /\ [Next]_vars => IInv'
  <2> SUFFICES ASSUME IInv, [Next]_vars PROVE IInv'
    OBVIOUS
  <2>1. TypeOK /\ CartsInv /\ CountInv /\ HomeInv /\ DealtInv /\ QuietInv /\ AddsKept /\ NotStranded
    BY DEF IInv
  <2>2. TypeOK'
    BY <2>1, NextType
  <2>3. CartsInv' /\ CountInv' /\ HomeInv' /\ DealtInv'
    BY <2>1, <2>2, NextCartsInv, NextCount, NextHome, NextDealt
  <2>4. QuietInv' /\ AddsKept' /\ NotStranded'
    BY <2>1, <2>2, NextQuiet, NextAdds, NextStranded
  <2> QED
    BY <2>2, <2>3, <2>4 DEF IInv
<1> QED
  BY <1>1, InitIInv, PTL DEF Spec

\* Carts, lines and requests keep their types.
THEOREM TypeCorrect == Spec => []TypeOK
  BY SpecIInv, PTL DEF IInv

(***************************************************************************)
(* An owner has no more active carts than requests may overlap, whatever   *)
(* the number of requests ever served (getOrCreateCart finds a cart or     *)
(* creates one, without a lock between the two).                           *)
(***************************************************************************)
THEOREM BoundedTheorem == Spec => []CartsBounded
<1>1. IInv => CartsBounded
  <2> SUFFICES ASSUME IInv, NEW owner \in Owners PROVE Cardinality(ActiveCarts(owner)) <= Cardinality(Ops)
    BY DEF CartsBounded
  <2>1. Cardinality(ActiveCarts(owner)) + Cardinality(Creating(owner)) <= Cardinality(Ops)
    BY DEF IInv, CountInv
  <2> QED
    BY <2>1, FiniteCarts
<1> QED
  BY <1>1, SpecIInv, PTL

(***************************************************************************)
(* addItem increments the quantity in the database, so that a line holds   *)
(* what every add has put on it since a request last saved it whole.       *)
(***************************************************************************)
THEOREM AddsTheorem == Spec => []AddsKept
<1>1. IInv => AddsKept
  BY DEF IInv
<1> QED
  BY <1>1, SpecIInv, PTL

(***************************************************************************)
(* mergeGuestCart transfers no line twice unless two merges overlap or one *)
(* ends half-way: a merged cart is no longer found by the next merge, and  *)
(* none of its lines comes to be in another cart.                          *)
(***************************************************************************)
THEOREM MovedTheorem == Spec => []MovedOnce
<1>1. IInv => MovedOnce
  BY DEF IInv, QuietInv, MovedOnce
<1> QED
  BY <1>1, SpecIInv, PTL

(***************************************************************************)
(* The merge saves the guest's cart with the rows it has read, and is      *)
(* refused when there are others: a line of a merged cart was dealt with,  *)
(* or was inserted by a request that had found the cart before.            *)
(***************************************************************************)
THEOREM StrandedTheorem == Spec => []NotStranded
<1>1. IInv => NotStranded
  BY DEF IInv
<1> QED
  BY <1>1, SpecIInv, PTL
=============================================================================
