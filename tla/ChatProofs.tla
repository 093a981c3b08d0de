------------------------------ MODULE ChatProofs ------------------------------
(***************************************************************************)
(* Theorems about Chat, for any number of requests, jobs and answers.      *)
(***************************************************************************)
EXTENDS Chat, TLAPS

\* What is marked fresh has not seen the conversation closed.
FreshInv == \A o \in Ops : op[o] # Idle /\ op[o].fresh => conv.status # "closed"

IInv == TypeOK /\ FreshInv /\ BadgeShown

-----------------------------------------------------------------------------
\* The initial state satisfies the invariant.
LEMMA InitIInv == Init => IInv
<1> SUFFICES ASSUME Init PROVE IInv
  OBVIOUS
<1>1. conv \in Conversation
  BY DEF Init, Conversation
<1>2. started \in 0..MaxOps
  BY ChatAssumption DEF Init
<1> QED
  BY <1>1, <1>2 DEF Init, IInv, TypeOK, FreshInv, BadgeShown

\* A request that moves on is one; it is told from none by its step.
LEMMA Moves ==
  ASSUME NEW q \in Operation, NEW step \in Steps
  PROVE  [q EXCEPT !.pc = step] \in Operation /\ [q EXCEPT !.pc = step].pc = step
         /\ [q EXCEPT !.pc = step].fresh = q.fresh /\ [q EXCEPT !.pc = step].role = q.role /\ q # Idle
  BY DEF Operation, Idle, Steps

\* markAsRead resets the counter first.
LEMMA ReadStepsAre == ReadSteps[1] = "zero" /\ ReadSteps[2] = "stamp"
  BY DEF ReadSteps

\* Every step preserves the types, and marks as fresh only what is.
LEMMA NextType ==
  ASSUME TypeOK, [Next]_vars
  PROVE  TypeOK'
<1> USE ChatAssumption
<1>a. op \in [Ops -> Operation \union {Idle}] /\ conv \in Conversation
  BY DEF TypeOK
<1>b. \A o \in Ops : op[o].pc \in Steps => op[o] \in Operation
  BY <1>a DEF Steps, Idle
<1>c. ASSUME NEW o \in Ops, NEW q \in Operation \union {Idle}, op' = [op EXCEPT ![o] = q]
      PROVE  op' \in [Ops -> Operation \union {Idle}]
  BY <1>a, <1>c
<1>d. ASSUME NEW o \in Ops, End(o) PROVE op' \in [Ops -> Operation \union {Idle}]
  BY <1>c, <1>d DEF End
<1>e. ASSUME NEW o \in Ops, op[o] \in Operation, NEW step \in Steps, Goto(o, step)
      PROVE  op' \in [Ops -> Operation \union {Idle}]
  <2>1. [op[o] EXCEPT !.pc = step] \in Operation
    BY <1>e, Moves
  <2> QED
    BY <1>c, <1>e, <2>1 DEF Goto
<1>q. \A o \in Ops : Question(o) \in BOOLEAN
  BY DEF Question
<1>1. ASSUME NEW o \in Ops, NEW kind \in Kinds, Begin(o, kind) PROVE TypeOK'
  <2>1. First(kind) \in Steps
    BY ReadStepsAre DEF First, Kinds, Steps
  <2>2. [kind |-> kind, pc |-> First(kind), copy |-> conv, fresh |-> FALSE,
         role |-> IF kind = "say" THEN "agent" ELSE "user"] \in Operation
    BY <1>a, <2>1 DEF Operation, Roles
  <2>3. op' \in [Ops -> Operation \union {Idle}]
    BY <1>1, <1>c, <2>2 DEF Begin
  <2> QED
    BY <1>1, <2>3 DEF Begin, history, TypeOK
<1>2. ASSUME NEW o \in Ops, Find(o) PROVE TypeOK'
  <2>1. op[o] \in Operation
    BY <1>2, <1>b DEF Find, At, Steps
  <2>2. \A step \in {"save", "insert"} : [op[o] EXCEPT !.copy = conv, !.pc = step] \in Operation
    BY <1>a, <2>1 DEF Operation, Steps
  <2>3. op' \in [Ops -> Operation \union {Idle}]
    <3>1. PICK step \in {"save", "insert"} : op' = [op EXCEPT ![o].copy = conv, ![o].pc = step]
      BY <1>2 DEF Find
    <3>2. op' = [op EXCEPT ![o] = [op[o] EXCEPT !.copy = conv, !.pc = step]]
      BY <1>a, <3>1
    <3> QED
      BY <1>c, <2>2, <3>2
  <2> QED
    BY <1>2, <2>3 DEF Find, history, TypeOK
<1>3. ASSUME NEW o \in Ops, Insert(o) PROVE TypeOK'
  <2>1. op[o] \in Operation /\ "patch" \in Steps
    BY <1>3, <1>b DEF Insert, At, Steps
  <2>2. op' \in [Ops -> Operation \union {Idle}]
    BY <1>3, <1>e, <2>1 DEF Insert
  <2>3. unseen' \in Nat
    <3>1. unseen' = unseen + 1 \/ unseen' = unseen
      BY <1>3 DEF Insert
    <3> QED
      BY <3>1 DEF TypeOK
  <2>5. dropped' \in BOOLEAN
    <3>1. dropped' = FALSE \/ dropped' = dropped
      BY <1>3 DEF Insert
    <3> QED
      BY <3>1 DEF TypeOK
  <2>4. pending' \in BOOLEAN
    BY <1>3, <1>q DEF Insert, TypeOK
  <2> QED
    BY <1>3, <2>2, <2>3, <2>4, <2>5 DEF Insert, TypeOK
<1>4. ASSUME NEW o \in Ops, Patch(o) PROVE TypeOK'
  <2>1. op[o] \in Operation /\ "trigger" \in Steps /\ "meta" \in Steps /\ "status" \in Steps
    BY <1>4, <1>b DEF Patch, At, Steps
  <2>2. op[o].role \in Roles /\ op[o].copy.badge \in Nat
    BY <2>1 DEF Operation, Conversation
  <2>3. op' \in [Ops -> Operation \union {Idle}]
    BY <1>4, <1>d, <1>e, <2>1, <2>2 DEF Patch, AfterPatch, Roles
  <2>4. conv' \in Conversation
    BY <1>4, <1>a, <2>2 DEF Patch, Conversation
  <2> QED
    BY <1>4, <2>3, <2>4 DEF Patch, TypeOK
<1>5. ASSUME NEW o \in Ops, Trigger(o) PROVE TypeOK'
  <2>1. op[o] \in Operation /\ "check" \in Steps
    BY <1>5, <1>b DEF Trigger, At, Steps
  <2>2. op' \in [Ops -> Operation \union {Idle}]
    BY <1>5, <1>d, <1>e, <2>1 DEF Trigger
  <2> QED
    BY <1>5, <2>2 DEF Trigger, history, TypeOK
<1>6. ASSUME NEW o \in Ops, Check(o) PROVE TypeOK'
  <2>1. op[o] \in Operation
    BY <1>6, <1>b DEF Check, At, Steps
  <2>2. [op[o] EXCEPT !.pc = "think", !.role = "ai", !.fresh = TRUE] \in Operation
    BY <2>1 DEF Operation, Steps, Roles
  <2>3. op' \in [Ops -> Operation \union {Idle}]
    <3>1. ASSUME op' = [op EXCEPT ![o].pc = "think", ![o].role = "ai", ![o].fresh = TRUE]
          PROVE  op' = [op EXCEPT ![o] = [op[o] EXCEPT !.pc = "think", !.role = "ai", !.fresh = TRUE]]
      BY <1>a, <3>1
    <3> QED
      BY <1>6, <1>c, <1>d, <2>2, <3>1 DEF Check
  <2> QED
    BY <1>6, <2>3 DEF Check, history, TypeOK
<1>7. ASSUME NEW o \in Ops, Think(o) \/ NoWords(o) \/ SaveMeta(o) PROVE TypeOK'
  <2>1. op[o] \in Operation /\ "find" \in Steps
    BY <1>7, <1>b DEF Think, NoWords, SaveMeta, At, Steps
  <2>2. op' \in [Ops -> Operation \union {Idle}]
    BY <1>7, <1>d, <1>e, <2>1 DEF Think, NoWords, SaveMeta
  <2> QED
    BY <1>7, <2>2 DEF Think, NoWords, SaveMeta, history, TypeOK
<1>8. ASSUME NEW o \in Ops, AiFails(o) PROVE TypeOK'
  <2>1. op[o] \in Operation
    BY <1>8, <1>b DEF AiFails, Steps
  <2>2. [op[o] EXCEPT !.role = "system", !.pc = "find"] \in Operation
    BY <2>1 DEF Operation, Steps, Roles
  <2>3. op' \in [Ops -> Operation \union {Idle}]
    <3>1. op' = [op EXCEPT ![o] = [op[o] EXCEPT !.role = "system", !.pc = "find"]]
      BY <1>8, <1>a DEF AiFails, Caught
    <3> QED
      BY <1>c, <2>2, <3>1
  <2> QED
    BY <1>8, <2>3 DEF AiFails, history, TypeOK
<1>9. ASSUME NEW o \in Ops, LeaveToAgent(o) PROVE TypeOK'
  BY <1>9, <1>a, <1>d DEF LeaveToAgent, Conversation, history, TypeOK
<1>10. ASSUME NEW o \in Ops, SaveCopy(o) PROVE TypeOK'
  <2>1. op[o] \in Operation
    BY <1>10, <1>b DEF SaveCopy, At, Steps
  <2>2. Edited(o) \in Conversation
    BY <2>1 DEF Edited, Operation, Conversation
  <2>3. \A q \in Ops : op[q] # Idle => [op[q] EXCEPT !.fresh = FALSE] \in Operation
    BY <1>a DEF Operation
  <2>4. op' \in [Ops -> Operation \union {Idle}]
    BY <1>10, <1>a, <2>3 DEF SaveCopy
  <2>5. hidden' \in BOOLEAN
    <3>1. (op[o].copy.badge < conv.badge) \in BOOLEAN
      OBVIOUS
    <3> QED
      BY <1>10, <3>1 DEF SaveCopy, TypeOK
  <2> QED
    BY <1>10, <2>2, <2>4, <2>5 DEF SaveCopy, TypeOK
<1>11. ASSUME NEW o \in Ops, ZeroBadge(o) \/ Stamp(o) PROVE TypeOK'
  <2>1. op[o] \in Operation /\ ReadSteps[2] \in Steps
    BY <1>11, <1>b, ReadStepsAre DEF ZeroBadge, Stamp, At, Steps
  <2>2. op' \in [Ops -> Operation \union {Idle}]
    BY <1>11, <1>d, <1>e, <2>1 DEF ZeroBadge, Stamp, AfterRead
  <2>3. conv' \in Conversation /\ unseen' \in Nat
    BY <1>11, <1>a DEF ZeroBadge, Stamp, Conversation, TypeOK
  <2> QED
    BY <1>11, <2>2, <2>3 DEF ZeroBadge, Stamp, history, TypeOK
<1>12. ASSUME NEW o \in Ops, Dies(o) PROVE TypeOK'
  <2>1. InBetween(o) \in BOOLEAN
    BY DEF InBetween, At
  <2> QED
    BY <1>12, <1>d, <2>1 DEF Dies, TypeOK
<1>13. CASE UNCHANGED vars
  BY <1>13 DEF vars, TypeOK
<1>14. ASSUME NEW o \in Ops, Step(o) PROVE TypeOK'
  BY <1>14, <1>2, <1>3, <1>4, <1>5, <1>6, <1>7, <1>9, <1>10, <1>11 DEF Step
<1> QED
  BY <1>1, <1>7, <1>8, <1>12, <1>13, <1>14 DEF Next

\* Every step preserves that nothing fresh has seen the conversation closed.
LEMMA NextFresh ==
  ASSUME TypeOK, FreshInv, [Next]_vars
  PROVE  FreshInv'
<1>a. op \in [Ops -> Operation \union {Idle}] /\ conv \in Conversation
  BY DEF TypeOK
<1>b. \A o \in Ops : op[o] # Idle => op[o] \in Operation
  BY <1>a
\* Steps that do not close the conversation and mark nothing.
<1>1. ASSUME conv'.status = conv.status \/ conv'.status # "closed",
             \A o \in Ops : op'[o] # Idle /\ op'[o].fresh => op[o] # Idle /\ op[o].fresh
      PROVE  FreshInv'
  <2> SUFFICES ASSUME NEW o \in Ops, op'[o] # Idle, op'[o].fresh PROVE conv'.status # "closed"
    BY DEF FreshInv, Idle
  <2> QED
    BY <1>1 DEF FreshInv
<1>c. ASSUME NEW o \in Ops, End(o) PROVE \A p \in Ops : op'[p] # Idle /\ op'[p].fresh => op[p] # Idle /\ op[p].fresh
  BY <1>a, <1>c DEF End
<1>d. ASSUME NEW o \in Ops, op[o] # Idle, NEW step \in Steps, Goto(o, step)
      PROVE  \A p \in Ops : op'[p] # Idle /\ op'[p].fresh => op[p] # Idle /\ op[p].fresh
  BY <1>a, <1>b, <1>d DEF Goto, Operation
<1>e. \A s \in {"find", "insert", "patch", "trigger", "check", "think", "meta", "status"} : s \in Steps
  BY DEF Steps
<1>2. ASSUME NEW o \in Ops, NEW kind \in Kinds, Begin(o, kind) PROVE FreshInv'
  BY <1>1, <1>2, <1>a DEF Begin
<1>3. ASSUME NEW o \in Ops, Find(o) PROVE FreshInv'
  <2>1. op[o] \in Operation
    BY <1>3, <1>b DEF Find, At, Idle
  <2> QED
    <3>1. conv' = conv
      BY <1>3 DEF Find
    <3>2. \A p \in Ops : op'[p] # Idle /\ op'[p].fresh => op[p] # Idle /\ op[p].fresh
      <4>1. PICK step \in {"save", "insert"} : op' = [op EXCEPT ![o].copy = conv, ![o].pc = step]
        BY <1>3 DEF Find
      <4>2. op'[o].fresh = op[o].fresh /\ op[o] # Idle
        <5>1. op' = [op EXCEPT ![o] = [op[o] EXCEPT !.copy = conv, !.pc = step]]
          BY <1>a, <4>1
        <5>2. [op[o] EXCEPT !.copy = conv, !.pc = step].fresh = op[o].fresh
          BY <2>1 DEF Operation
        <5>3. op[o] # Idle
          BY <1>3 DEF Find, At, Idle
        <5> QED
          BY <1>a, <5>1, <5>2, <5>3
      <4>3. \A p \in Ops : p # o => op'[p] = op[p]
        BY <1>a, <4>1
      <4> QED
        BY <4>2, <4>3
    <3> QED
      BY <1>1, <3>1, <3>2
<1>4. ASSUME NEW o \in Ops, Insert(o) PROVE FreshInv'
  BY <1>1, <1>4, <1>d, <1>e DEF Insert, At, Idle
<1>5. ASSUME NEW o \in Ops, Patch(o) PROVE FreshInv'
  <2>1. op[o] # Idle /\ op[o].role \in Roles
    BY <1>5, <1>b DEF Patch, At, Idle, Operation
  <2>2. conv'.status = conv.status
    BY <1>5, <1>a DEF Patch, Conversation
  <2> QED
    BY <1>1, <1>5, <1>c, <1>d, <1>e, <2>1, <2>2 DEF Patch, AfterPatch, Roles
<1>6. ASSUME NEW o \in Ops, Trigger(o) PROVE FreshInv'
  BY <1>1, <1>6, <1>c, <1>d, <1>e DEF Trigger, At, Idle
<1>7. ASSUME NEW o \in Ops, Check(o) PROVE FreshInv'
  <2>1. CASE MayAnswer(conv)
    <3>1. conv' = conv /\ conv.status # "closed"
      BY <1>7, <2>1 DEF Check, MayAnswer
    <3> QED
      BY <3>1 DEF FreshInv
  <2>2. CASE ~MayAnswer(conv)
    BY <1>1, <1>7, <1>c, <2>2 DEF Check
  <2> QED
    BY <2>1, <2>2
<1>8. ASSUME NEW o \in Ops, Think(o) \/ NoWords(o) \/ SaveMeta(o) PROVE FreshInv'
  BY <1>1, <1>8, <1>c, <1>d, <1>e DEF Think, NoWords, SaveMeta, At, Idle
<1>9. ASSUME NEW o \in Ops, AiFails(o) PROVE FreshInv'
  <2>1. op[o] \in Operation /\ conv' = conv
    BY <1>9, <1>b DEF AiFails, Idle
  <2>2. op'[o].fresh = op[o].fresh /\ \A p \in Ops : p # o => op'[p] = op[p]
    BY <1>9, <1>a, <2>1 DEF AiFails, Caught, Operation
  <2> QED
    BY <1>1, <1>b, <2>1, <2>2 DEF Idle, Operation
<1>10. ASSUME NEW o \in Ops, LeaveToAgent(o) PROVE FreshInv'
  <2>1. conv'.status = "waiting_agent"
    BY <1>10, <1>a DEF LeaveToAgent, Conversation
  <2> QED
    BY <2>1 DEF FreshInv
<1>11. ASSUME NEW o \in Ops, SaveCopy(o) PROVE FreshInv'
  <2> SUFFICES ASSUME NEW q \in Ops, op'[q] # Idle PROVE ~op'[q].fresh
    BY DEF FreshInv, Idle
  <2>1. op[q] \in Operation /\ op'[q] = [op[q] EXCEPT !.fresh = FALSE]
    BY <1>11, <1>b DEF SaveCopy
  <2> QED
    BY <2>1 DEF Operation
<1>12. ASSUME NEW o \in Ops, ZeroBadge(o) \/ Stamp(o) PROVE FreshInv'
  <2>1. op[o] # Idle /\ ReadSteps[2] \in Steps
    BY <1>12, ReadStepsAre DEF ZeroBadge, Stamp, At, Idle, Steps
  <2>2. conv'.status = conv.status
    BY <1>12, <1>a DEF ZeroBadge, Stamp, Conversation
  <2> QED
    BY <1>1, <1>12, <1>c, <1>d, <2>1, <2>2 DEF ZeroBadge, Stamp, AfterRead
<1>13. ASSUME NEW o \in Ops, Dies(o) PROVE FreshInv'
  BY <1>1, <1>13, <1>c DEF Dies
<1>14. CASE UNCHANGED vars
  BY <1>14 DEF vars, FreshInv
<1>15. ASSUME NEW o \in Ops, Step(o) PROVE FreshInv'
  BY <1>15, <1>3, <1>4, <1>5, <1>6, <1>7, <1>8, <1>10, <1>11, <1>12 DEF Step
<1> QED
  BY <1>2, <1>8, <1>9, <1>13, <1>14, <1>15 DEF Next

\* Every step keeps the counter and the messages in agreement.
LEMMA NextBadge ==
  ASSUME TypeOK, BadgeShown, [Next]_vars
  PROVE  BadgeShown'
<1>a. op \in [Ops -> Operation \union {Idle}] /\ conv \in Conversation /\ unseen \in Nat
  BY DEF TypeOK
<1>b. \A o \in Ops : op[o].pc \in Steps => op[o] \in Operation
  BY <1>a DEF Steps, Idle
\* Steps that keep counter and messages, by whoever is not in between.
<1>1. ASSUME unseen' = unseen, conv'.badge = conv.badge \/ conv'.badge > 0, hidden => hidden',
             \A o \in Ops : InBetween(o) => InBetween(o)' \/ hidden'
      PROVE  BadgeShown'
  BY <1>1 DEF BadgeShown
<1>c. ASSUME NEW o \in Ops, ~InBetween(o), \A p \in Ops : p # o => op'[p] = op[p]
      PROVE  \A p \in Ops : InBetween(p) => InBetween(p)'
  BY <1>c DEF InBetween, At
<1>d. ASSUME NEW o \in Ops, End(o) PROVE \A p \in Ops : p # o => op'[p] = op[p]
  BY <1>a, <1>d DEF End
<1>e. ASSUME NEW o \in Ops, NEW step, Goto(o, step) PROVE \A p \in Ops : p # o => op'[p] = op[p]
  BY <1>a, <1>e DEF Goto
<1>2. ASSUME NEW o \in Ops, NEW kind \in Kinds, Begin(o, kind) PROVE BadgeShown'
  <2>1. ~InBetween(o) /\ \A p \in Ops : p # o => op'[p] = op[p]
    BY <1>2, <1>a DEF Begin, InBetween, At, Idle
  <2> QED
    BY <1>1, <1>2, <1>c, <2>1 DEF Begin, history
<1>3. ASSUME NEW o \in Ops, Find(o) \/ Trigger(o) \/ Check(o) \/ Think(o) \/ NoWords(o) \/ SaveMeta(o) \/ LeaveToAgent(o)
      PROVE  BadgeShown'
  <2>1. ~InBetween(o)
    BY <1>3 DEF Find, Trigger, Check, Think, NoWords, SaveMeta, LeaveToAgent, InBetween, At
  <2>2. \A p \in Ops : p # o => op'[p] = op[p]
    BY <1>3, <1>a DEF Find, Trigger, Check, Think, NoWords, SaveMeta, LeaveToAgent, Goto, End
  <2>3. unseen' = unseen /\ hidden' = hidden
    BY <1>3 DEF Find, Trigger, Check, Think, NoWords, SaveMeta, LeaveToAgent, history
  <2>4. conv'.badge = conv.badge
    BY <1>3, <1>a DEF Find, Trigger, Check, Think, NoWords, SaveMeta, LeaveToAgent, Conversation
  <2> QED
    BY <1>1, <1>c, <2>1, <2>2, <2>3, <2>4
<1>4. ASSUME NEW o \in Ops, Insert(o) PROVE BadgeShown'
  <2>1. op[o] \in Operation /\ ~InBetween(o) /\ conv' = conv /\ hidden' = hidden
    BY <1>4, <1>b DEF Insert, At, InBetween, Steps
  <2>2. op'[o].pc = "patch" /\ op'[o].role = op[o].role
    BY <1>4, <1>a, <2>1 DEF Insert, Goto, Operation
  <2>3. CASE op[o].role = "user"
    BY <2>2, <2>3 DEF BadgeShown, InBetween, At
  <2>4. CASE op[o].role # "user"
    BY <1>1, <1>4, <1>c, <1>e, <2>1, <2>4 DEF Insert
  <2> QED
    BY <2>3, <2>4
<1>5. ASSUME NEW o \in Ops, Patch(o) PROVE BadgeShown'
  <2>1. op[o] \in Operation
    BY <1>5, <1>b DEF Patch, At, Steps
  <2>2. op[o].copy.badge \in Nat
    BY <2>1 DEF Operation, Conversation
  <2>3. CASE op[o].role = "user"
    <3>1. conv'.badge = op[o].copy.badge + 1
      BY <1>5, <1>a, <2>3 DEF Patch, Conversation
    <3> QED
      BY <2>2, <3>1 DEF BadgeShown
  <2>4. CASE op[o].role # "user"
    <3>1. ~InBetween(o) /\ UNCHANGED <<conv, hidden, unseen>>
      BY <1>5, <2>4 DEF Patch, InBetween, At
    <3>2. op[o].role \in Roles
      BY <2>1 DEF Operation
    <3>3. \A p \in Ops : p # o => op'[p] = op[p]
      BY <1>5, <1>d, <1>e, <3>2 DEF Patch, AfterPatch, Roles
    <3> QED
      BY <1>1, <1>c, <3>1, <3>3
  <2> QED
    BY <2>3, <2>4
<1>6. ASSUME NEW o \in Ops, AiFails(o) PROVE BadgeShown'
  <2>1. ~InBetween(o) /\ UNCHANGED <<conv, hidden, unseen>>
    BY <1>6 DEF AiFails, InBetween, At, history
  <2>2. \A p \in Ops : p # o => op'[p] = op[p]
    BY <1>6, <1>a DEF AiFails, Caught
  <2> QED
    BY <1>1, <1>c, <2>1, <2>2
<1>7. ASSUME NEW o \in Ops, SaveCopy(o) PROVE BadgeShown'
  <2>1. op[o] \in Operation
    BY <1>7, <1>b DEF SaveCopy, At, Steps
  <2>2. conv'.badge = op[o].copy.badge /\ op[o].copy.badge \in Nat /\ conv.badge \in Nat
    BY <1>7, <1>a, <2>1 DEF SaveCopy, Edited, Operation, Conversation
  <2>3. \A p \in Ops : InBetween(p) => InBetween(p)'
    <3> SUFFICES ASSUME NEW p \in Ops, InBetween(p) PROVE InBetween(p)'
      OBVIOUS
    <3>1. p # o /\ op[p] \in Operation
      BY <1>7, <1>b DEF SaveCopy, InBetween, At, Steps
    <3>2. op'[p] = [op[p] EXCEPT !.fresh = FALSE]
      BY <1>7, <3>1, Moves DEF SaveCopy, Idle, InBetween, At
    <3> QED
      BY <3>1, <3>2 DEF InBetween, At, Operation
  <2>4. CASE op[o].copy.badge < conv.badge
    BY <1>7, <2>4 DEF SaveCopy, BadgeShown
  <2>5. CASE ~(op[o].copy.badge < conv.badge)
    <3>1. unseen' = unseen /\ (hidden => hidden')
      BY <1>7 DEF SaveCopy
    <3>2. conv'.badge = conv.badge \/ conv'.badge > 0
      BY <2>2, <2>5
    <3> QED
      BY <1>1, <2>3, <3>1, <3>2
  <2> QED
    BY <2>4, <2>5
<1>8. ASSUME NEW o \in Ops, ZeroBadge(o) PROVE BadgeShown'
  <2>1. op[o] \in Operation /\ op[o].pc = ReadSteps[1] /\ ReadSteps[2] = "stamp"
    BY <1>8, <1>b, ReadStepsAre DEF ZeroBadge, At, Steps
  <2>2. op'[o].pc = "stamp"
    BY <1>8, <1>a, <2>1 DEF ZeroBadge, AfterRead, Goto, Operation
  <2> QED
    BY <2>2 DEF BadgeShown, InBetween, At
<1>9. ASSUME NEW o \in Ops, Stamp(o) PROVE BadgeShown'
  BY <1>9 DEF Stamp, BadgeShown
<1>10. ASSUME NEW o \in Ops, Dies(o) PROVE BadgeShown'
  BY <1>1, <1>10, <1>d DEF Dies, InBetween, At
<1>11. CASE UNCHANGED vars
  BY <1>11 DEF vars, BadgeShown, InBetween, At
<1>12. ASSUME NEW o \in Ops, Step(o) PROVE BadgeShown'
  BY <1>12, <1>3, <1>4, <1>5, <1>7, <1>8, <1>9 DEF Step
<1> QED
  BY <1>2, <1>3, <1>6, <1>10, <1>11, <1>12 DEF Next

\* The invariant holds in every state.
LEMMA SpecIInv == Spec => []IInv
<1>1. IInv /\ [Next]_vars => IInv'
  BY NextType, NextFresh, NextBadge DEF IInv
<1> QED
  BY <1>1, InitIInv, PTL DEF Spec

\* The conversation and what handlers have read of it keep their types.
THEOREM TypeCorrect == Spec => []TypeOK
  BY SpecIInv, PTL DEF IInv

(***************************************************************************)
(* A message that no agent has read shows in the counter of the agents,    *)
(* but for the moments and losses the property names.                      *)
(***************************************************************************)
THEOREM BadgeTheorem == Spec => []BadgeShown
  BY SpecIInv, PTL DEF IInv

(***************************************************************************)
(* Only an assignment, or the apology for an answer begun before, opens a  *)
(* closed conversation again.                                              *)
(***************************************************************************)
THEOREM ReopenedTheorem == Spec => ReopenedLate
<1> DEFINE Late == conv.status = "closed" /\ conv'.status # "closed" =>
                     \E o \in Ops : \/ At(o, "save") /\ op[o].kind = "assign"
                                    \/ At(o, "status") /\ ~op[o].fresh
<1>1. ASSUME IInv, [Next]_vars PROVE [Late]_vars
  <2> SUFFICES ASSUME conv.status = "closed", conv'.status # "closed", Next
               PROVE  \E o \in Ops : \/ At(o, "save") /\ op[o].kind = "assign"
                                     \/ At(o, "status") /\ ~op[o].fresh
    BY <1>1 DEF vars
  <2>a. conv \in Conversation /\ op \in [Ops -> Operation \union {Idle}]
    BY <1>1 DEF IInv, TypeOK
  <2>1. ASSUME NEW o \in Ops, LeaveToAgent(o) PROVE At(o, "status") /\ ~op[o].fresh
    BY <1>1, <2>1 DEF LeaveToAgent, IInv, FreshInv, At, Idle
  <2>2. ASSUME NEW o \in Ops, SaveCopy(o) PROVE At(o, "save") /\ op[o].kind = "assign"
    <3>1. op[o] \in Operation
      BY <2>a, <2>2 DEF SaveCopy, At, Idle
    <3> QED
      BY <2>2, <3>1 DEF SaveCopy, Edited, Operation, Conversation
  <2>3. ASSUME NEW o \in Ops, Patch(o) \/ ZeroBadge(o) PROVE FALSE
    BY <2>3, <2>a DEF Patch, ZeroBadge, Conversation
  <2>4. conv' = conv \/ \E o \in Ops : LeaveToAgent(o) \/ SaveCopy(o) \/ Patch(o) \/ ZeroBadge(o)
    BY DEF Next, Step, Begin, Find, Insert, Trigger, Check, Think, NoWords, AiFails, SaveMeta, Stamp, Dies
  <2> QED
    BY <2>1, <2>2, <2>3, <2>4
<1> QED
  BY <1>1, SpecIInv, PTL DEF Spec, ReopenedLate
=============================================================================
