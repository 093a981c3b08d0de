---------------------------- MODULE AccountsProofs ----------------------------
(***************************************************************************)
(* Theorems about Accounts, for any number of requests, passwords, codes   *)
(* and tokens and for any limit on the attempts.                           *)
(***************************************************************************)
EXTENDS Accounts, FiniteSetTheorems, TLAPS

\* What a request holds at each of its steps.
HeldInv ==
  \A o \in Ops : op[o] # Idle =>
    /\ op[o].pc = "save" => op[o].copy \in Row
    /\ op[o].pc \in {"find", "save"} => op[o].kind # "disable"
    /\ op[o].pc = "find" /\ op[o].kind = "toggle" => op[o].copy \in Row
    /\ op[o].pc \in {"start", "find"} /\ op[o].kind = "change" => op[o].arg \in Passwords
    /\ op[o].arg \in Codes => op[o].arg \in issued

StateInv == TypeOK /\ HeldInv

\* Logins that were let past the lockout and not counted yet.
Trying == {o \in Ops : op[o].pc \in {"compare", "incr"}}

Uncounted == {o \in Ops : op[o].pc = "incr"}

\* Whoever was let past the lockout read a counter below the limit, and
\* every wrong password is counted, about to be, or was lost.
CountInv ==
  /\ attempts.count + Cardinality(Trying) <= MaxAttempts - 1 + Cardinality(Ops)
  /\ tries <= attempts.count + Cardinality(Uncounted) + died

\* A code that let somebody in was issued and is retired.
AcceptedInv == accepted \subseteq retired \intersect issued

IInv == StateInv /\ CountInv /\ LockoutEnds /\ RetiredStaysOut /\ AcceptedInv /\ CodeLetsInOnce

-----------------------------------------------------------------------------
\* The initial state satisfies the invariant.
LEMMA InitIInv == Init => IInv
<1> SUFFICES ASSUME Init PROVE IInv
  OBVIOUS
<1> USE AccountsAssumption
<1>1. StateInv
  BY DEF Init, StateInv, TypeOK, HeldInv, Row, Idle
<1>2. Trying = {} /\ Uncounted = {}
  BY DEF Init, Trying, Uncounted, Idle
<1>3. Cardinality({}) = 0 /\ Cardinality(Ops) \in Nat
  BY FS_EmptySet, FS_CardinalityType
<1>4. CountInv
  BY <1>2, <1>3 DEF Init, CountInv
<1> QED
  BY <1>1, <1>4 DEF Init, IInv, LockoutEnds, RetiredStaysOut, AcceptedInv, CodeLetsInOnce

\* A save leaves a row.
LEMMA MergedType ==
  ASSUME StateInv, NEW o \in Ops, op[o].pc = "find",
         NEW jti \in Jtis \union {NoJti}, NEW password \in Passwords
  PROVE  Merged(o, db, jti, password) \in Row
<1> USE DEF StateInv, TypeOK, HeldInv, Idle, Request, Row
<1>1. op[o] \in Request /\ op[o].kind \in Kinds \ {"disable"} /\ db \in Row
  OBVIOUS
<1>2. CASE op[o].kind \in {"login", "edit"}
  BY <1>2 DEF Merged
<1>3. CASE op[o].kind = "change"
  BY <1>3, <1>1 DEF Merged
<1>4. CASE op[o].kind = "forgot"
  BY <1>4 DEF Merged
<1>5. CASE op[o].kind = "reset"
  BY <1>5 DEF Merged
<1>6. CASE op[o].kind = "toggle"
  BY <1>6, <1>1 DEF Merged
<1> QED
  BY <1>1, <1>2, <1>3, <1>4, <1>5, <1>6 DEF Kinds

\* Every step preserves the types and what requests hold.
LEMMA NextState == StateInv /\ [Next]_vars => StateInv'
<1> SUFFICES ASSUME StateInv, [Next]_vars PROVE StateInv'
  OBVIOUS
<1> USE AccountsAssumption DEF StateInv
<1>1. ASSUME NEW o \in Ops, NEW kind \in Kinds, NEW arg, Begin(o, kind, arg) PROVE StateInv'
  <2>1. arg \in Passwords \union Codes \union Jtis \union {NoJti} /\ (kind = "change" => arg \in Passwords)
    BY <1>1 DEF Begin, Arguments, Kinds
  <2>2. First(kind) \in {"check", "find", "start"} /\ First(kind) \in Steps /\ (First(kind) = "find" <=> kind = "edit")
    BY DEF First, Steps
  <2> QED
    BY <1>1, <2>1, <2>2 DEF Begin, TypeOK, HeldInv, Request, Idle, history
<1>2. ASSUME NEW o \in Ops, CheckLockout(o) \/ Disabled(o) PROVE StateInv'
  BY <1>2 DEF CheckLockout, Disabled, Goto, End, At, TypeOK, HeldInv, Request, Steps, Idle, history
<1>2a. ASSUME NEW o \in Ops, WrongPassword(o) \/ RightPassword(o) PROVE StateInv'
  BY <1>2a DEF WrongPassword, RightPassword, Goto, End, At, TypeOK, HeldInv, Request, Steps, Idle, history
<1>3. ASSUME NEW o \in Ops, Incr(o) PROVE StateInv'
  <2>1. attempts' \in [count : Nat, ttl : BOOLEAN]
    BY <1>3 DEF Incr, TypeOK
  <2> QED
    BY <1>3, <2>1 DEF Incr, Goto, End, At, TypeOK, HeldInv, Request, Steps, Idle, history
<1>3a. ASSUME NEW o \in Ops, Expire(o) PROVE StateInv'
  <2>1. PICK b \in BOOLEAN : attempts' = [attempts EXCEPT !.ttl = b]
    <3>1. (attempts.count > 0) \in BOOLEAN
      OBVIOUS
    <3> QED
      BY <1>3a, <3>1 DEF Expire
  <2>2. attempts' \in [count : Nat, ttl : BOOLEAN]
    BY <2>1 DEF TypeOK
  <2> QED
    BY <1>3a, <2>2 DEF Expire, End, At, TypeOK, HeldInv, Request, Steps, Idle, history
<1>4. ASSUME NEW o \in Ops, ClearAttempts(o) PROVE StateInv'
  BY <1>4 DEF ClearAttempts, NoKey, Goto, End, At, TypeOK, HeldInv, Request, Steps, Idle, history
<1>5. ASSUME NEW o \in Ops, Factor(o) \/ ConsumedByOther(o) \/ AuthenticatorCode(o) PROVE StateInv'
  BY <1>5 DEF Factor, ConsumedByOther, AuthenticatorCode, Goto, End, At, TypeOK, HeldInv, Request, Steps, Idle, history
<1>6. ASSUME NEW o \in Ops, Consume(o) PROVE StateInv'
  BY <1>6 DEF Consume, StillThere, Goto, At, TypeOK, HeldInv, Request, Steps, Idle, Row
<1>7. ASSUME NEW o \in Ops, DropCodes(o) PROVE StateInv'
  BY <1>7 DEF DropCodes, WriteCodes, End, At, TypeOK, HeldInv, Request, Steps, Idle, Row
<1>8. ASSUME NEW o \in Ops, Start(o) PROVE StateInv'
  BY <1>8 DEF Start, End, At, TypeOK, HeldInv, Request, Steps, Idle, history
<1>9. ASSUME NEW o \in Ops, Find(o) PROVE StateInv'
  <2>1. PICK jti \in (Jtis \ issued) \union {NoJti}, password \in Passwords :
           /\ op' = [op EXCEPT ![o].pc = "save", ![o].copy = Merged(o, db, jti, password), ![o].arg = NoJti]
           /\ issued' = issued \union ({jti} \ {NoJti})
    BY <1>9 DEF Find
  <2>2. Merged(o, db, jti, password) \in Row
    BY <1>9, MergedType DEF Find
  <2>3. op[o] \in Request /\ op[o].pc = "find" /\ op[o].kind # "disable"
    BY <1>9 DEF Find, TypeOK, HeldInv, Idle
  <2>4. op'[o] \in Request /\ op'[o].kind = op[o].kind /\ op'[o].pc = "save" /\ op'[o].arg = NoJti /\ op'[o].copy \in Row
    BY <2>1, <2>2, <2>3 DEF TypeOK, Request, Steps
  <2>5. \A p \in Ops : p # o => op'[p] = op[p]
    BY <2>1 DEF TypeOK
  <2>6. op' \in [Ops -> Request \union {Idle}]
    BY <2>1, <2>4, <2>5 DEF TypeOK
  <2>7. UNCHANGED <<db, attempts, served, tries, died, retired, restored, accepted, again>>
    BY <1>9 DEF Find, history
  <2>8. TypeOK'
    BY <2>1, <2>6, <2>7 DEF TypeOK
  <2>9. issued \subseteq issued' /\ NoJti \notin Codes
    BY <2>1
  <2>10. HeldInv'
    <3> SUFFICES ASSUME NEW p \in Ops, op'[p] # Idle
                 PROVE  /\ op'[p].pc = "save" => op'[p].copy \in Row
                        /\ op'[p].pc \in {"find", "save"} => op'[p].kind # "disable"
                        /\ op'[p].pc = "find" /\ op'[p].kind = "toggle" => op'[p].copy \in Row
                        /\ op'[p].pc \in {"start", "find"} /\ op'[p].kind = "change" => op'[p].arg \in Passwords
                        /\ op'[p].arg \in Codes => op'[p].arg \in issued'
      BY DEF HeldInv, Row, Idle
    <3>1. CASE p = o
      BY <3>1, <2>3, <2>4, <2>9
    <3>2. CASE p # o
      BY <3>2, <2>5, <2>9 DEF HeldInv, Idle
    <3> QED
      BY <3>1, <3>2
  <2> QED
    BY <2>8, <2>10
<1>10. ASSUME NEW o \in Ops, Save(o) PROVE StateInv'
  <2>1. Meant(o, db) \subseteq Passwords \union Codes \union Jtis \union {On}
    BY DEF Meant, Values, TypeOK, Row
  <2> QED
    BY <1>10, <2>1 DEF Save, Saved, End, TypeOK, HeldInv, Request, Steps, Idle
<1>11. ASSUME NEW o \in Ops, Dies(o) PROVE StateInv'
  BY <1>11 DEF Dies, End, TypeOK, HeldInv, Request, Idle
<1>12. CASE GenerateBackupCodes
  BY <1>12 DEF GenerateBackupCodes, WriteCodes, TypeOK, HeldInv, Row
<1>13. CASE KeyExpires
  BY <1>13 DEF KeyExpires, NoKey, TypeOK, HeldInv
<1>14. CASE UNCHANGED vars
  BY <1>14 DEF vars, TypeOK, HeldInv
<1> HIDE DEF StateInv
<1> QED
  BY <1>1, <1>2, <1>2a, <1>3, <1>3a, <1>4, <1>5, <1>6, <1>7, <1>8, <1>9, <1>10, <1>11, <1>12, <1>13, <1>14 DEF Next, Step

\* What sets of requests count.
LEMMA Counting ==
  ASSUME NEW S \in SUBSET Ops, NEW o \in Ops
  PROVE  /\ Cardinality(S) \in Nat /\ Cardinality(Ops) \in Nat
         /\ Cardinality(S) <= Cardinality(Ops)
         /\ o \notin S => Cardinality(S \union {o}) = Cardinality(S) + 1
         /\ o \in S => Cardinality(S \ {o}) = Cardinality(S) - 1
<1>1. IsFiniteSet(Ops) /\ IsFiniteSet(S) /\ Cardinality(S) <= Cardinality(Ops)
  BY AccountsAssumption, FS_Subset
<1> QED
  BY <1>1, FS_CardinalityType, FS_AddElement, FS_RemoveElement

\* Every step preserves what is known of the attempts.
LEMMA NextCount == StateInv /\ CountInv /\ [Next]_vars => CountInv'
<1> SUFFICES ASSUME StateInv, CountInv, [Next]_vars PROVE CountInv'
  OBVIOUS
<1>a. op \in [Ops -> Request \union {Idle}] /\ attempts \in [count : Nat, ttl : BOOLEAN] /\ tries \in Nat /\ died \in Nat
  BY DEF StateInv, TypeOK
<1>b. Trying \in SUBSET Ops /\ Uncounted \in SUBSET Ops /\ Trying' \in SUBSET Ops /\ Uncounted' \in SUBSET Ops
  BY DEF Trying, Uncounted
<1>c. \A S \in SUBSET Ops : Cardinality(S) \in Nat /\ Cardinality(S) <= Cardinality(Ops)
  <2> TAKE S \in SUBSET Ops
  <2>1. IsFiniteSet(Ops) /\ IsFiniteSet(S) /\ Cardinality(S) <= Cardinality(Ops)
    BY AccountsAssumption, FS_Subset
  <2> QED
    BY <2>1, FS_CardinalityType
<1>d. Cardinality(Ops) \in Nat /\ MaxAttempts \in Nat /\ MaxAttempts >= 1
  BY AccountsAssumption, FS_CardinalityType
<1>e. \A q : \A o \in Ops : op[o] \in Request => [op[o] EXCEPT !.pc = q].pc = q
  BY DEF Request
<1>f. ASSUME NEW o \in Ops, NEW r, op' = [op EXCEPT ![o] = r]
      PROVE  /\ Trying' = IF r.pc \in {"compare", "incr"} THEN Trying \union {o} ELSE Trying \ {o}
             /\ Uncounted' = IF r.pc = "incr" THEN Uncounted \union {o} ELSE Uncounted \ {o}
  <2>1. op'[o] = r /\ \A p \in Ops : p # o => op'[p] = op[p]
    BY <1>f, <1>a
  <2>2. \A p : p \in Trying' <=> p \in IF r.pc \in {"compare", "incr"} THEN Trying \union {o} ELSE Trying \ {o}
    BY <2>1 DEF Trying
  <2>3. \A p : p \in Uncounted' <=> p \in IF r.pc = "incr" THEN Uncounted \union {o} ELSE Uncounted \ {o}
    BY <2>1 DEF Uncounted
  <2> QED
    BY <2>2, <2>3
<1>g. ASSUME NEW o \in Ops, NEW q, op[o] \in Request, Goto(o, q)
      PROVE  /\ Trying' = IF q \in {"compare", "incr"} THEN Trying \union {o} ELSE Trying \ {o}
             /\ Uncounted' = IF q = "incr" THEN Uncounted \union {o} ELSE Uncounted \ {o}
  <2>1. op' = [op EXCEPT ![o] = [op[o] EXCEPT !.pc = q]]
    BY <1>g DEF Goto
  <2> QED
    BY <1>f, <1>e, <1>g, <2>1
<1>h. ASSUME NEW o \in Ops, End(o) PROVE Trying' = Trying \ {o} /\ Uncounted' = Uncounted \ {o}
  <2>1. op' = [op EXCEPT ![o] = Idle]
    BY <1>h DEF End
  <2>2. Idle.pc = "idle"
    BY DEF Idle
  <2> QED
    BY <1>f, <2>1, <2>2
\* Steps that count nothing and let nobody in.
<1>1. ASSUME Trying' \subseteq Trying, Uncounted' = Uncounted, UNCHANGED <<attempts, tries, died>> PROVE CountInv'
  <2>1. Cardinality(Trying') <= Cardinality(Trying)
    <3>1. IsFiniteSet(Trying)
      BY <1>b, AccountsAssumption, FS_Subset
    <3> QED
      BY <1>1, <3>1, FS_Subset
  <2> QED
    BY <1>1, <2>1, <1>a, <1>b, <1>c, <1>d DEF CountInv
\* Steps that delete the counter.
<1>2. ASSUME attempts'.count = 0, tries' = 0, died' = died PROVE CountInv'
  BY <1>2, <1>a, <1>b, <1>c, <1>d DEF CountInv
<1>3. ASSUME NEW o \in Ops, CheckLockout(o) PROVE CountInv'
  <2>1. UNCHANGED <<attempts, tries, died>> /\ op[o] \in Request /\ op[o].pc = "check"
    BY <1>3, <1>a DEF CheckLockout, At, Idle, history
  <2>2. Uncounted' = Uncounted
    BY <1>3, <2>1, <1>g, <1>h DEF CheckLockout, Uncounted
  <2>3. CASE attempts.count < MaxAttempts
    BY <2>1, <2>2, <2>3, <1>a, <1>b, <1>c, <1>d DEF CountInv
  <2>4. CASE ~(attempts.count < MaxAttempts)
    <3>1. Trying' \subseteq Trying
      BY <1>3, <2>4, <1>a DEF CheckLockout, MayTry, End, Trying, Idle
    <3> QED
      BY <3>1, <2>1, <2>2, <1>1
  <2> QED
    BY <2>3, <2>4
<1>4. ASSUME NEW o \in Ops, WrongPassword(o) PROVE CountInv'
  <2>1. UNCHANGED <<attempts, died>> /\ tries' = tries + 1 /\ op[o] \in Request /\ op[o].pc = "compare"
    BY <1>4, <1>a DEF WrongPassword, At, Idle
  <2>2. Trying' = Trying /\ Uncounted' = Uncounted \union {o} /\ o \notin Uncounted
    BY <1>4, <2>1, <1>a, <1>e DEF WrongPassword, Goto, Trying, Uncounted
  <2>3. Cardinality(Uncounted') = Cardinality(Uncounted) + 1
    BY <2>2, <1>b, Counting
  <2> QED
    BY <2>1, <2>2, <2>3, <1>a, <1>b, <1>c, <1>d DEF CountInv
<1>5. ASSUME NEW o \in Ops, Incr(o) PROVE CountInv'
  <2>1. UNCHANGED <<tries, died>> /\ attempts'.count = attempts.count + 1 /\ op[o] \in Request /\ op[o].pc = "incr"
    BY <1>5, <1>a DEF Incr, At, Idle, history
  <2>2. Trying' = Trying \ {o} /\ Uncounted' = Uncounted \ {o} /\ o \in Trying /\ o \in Uncounted
    BY <1>5, <2>1, <1>g, <1>h DEF Incr, Trying, Uncounted
  <2>3. Cardinality(Uncounted') = Cardinality(Uncounted) - 1 /\ Cardinality(Trying') = Cardinality(Trying) - 1
    BY <2>2, <1>b, Counting
  <2> QED
    BY <2>1, <2>2, <2>3, <1>a, <1>b, <1>c, <1>d DEF CountInv
<1>6. ASSUME NEW o \in Ops, Dies(o) PROVE CountInv'
  <2>1. UNCHANGED <<attempts, tries>> /\ op' = [op EXCEPT ![o] = Idle]
    BY <1>6 DEF Dies, End
  <2>2. Trying' \subseteq Trying /\ Uncounted' = Uncounted \ {o}
    BY <2>1, <1>a DEF Trying, Uncounted, Idle
  <2>3. CASE o \notin Uncounted /\ died' = died
    BY <2>1, <2>2, <2>3, <1>1
  <2>4. CASE died' = died + 1
    <3>1. Cardinality(Uncounted) <= Cardinality(Uncounted') + 1
      <4>1. CASE o \in Uncounted
        BY <4>1, <2>2, <1>b, <1>c, Counting
      <4>2. CASE o \notin Uncounted
        BY <4>2, <2>2, <1>b, <1>c
      <4> QED
        BY <4>1, <4>2
    <3>2. Cardinality(Trying') <= Cardinality(Trying)
      <4>1. IsFiniteSet(Trying)
        BY <1>b, AccountsAssumption, FS_Subset
      <4> QED
        BY <2>2, <4>1, FS_Subset
    <3> QED
      BY <2>1, <2>4, <3>1, <3>2, <1>a, <1>b, <1>c, <1>d DEF CountInv
  <2> QED
    BY <1>6, <2>3, <2>4 DEF Dies, Uncounted
<1>7. ASSUME NEW o \in Ops, ClearAttempts(o) \/ KeyExpires PROVE CountInv'
  BY <1>7, <1>2 DEF ClearAttempts, KeyExpires, NoKey
<1>8. ASSUME NEW o \in Ops, Disabled(o) \/ RightPassword(o) \/ Expire(o) PROVE CountInv'
  <2>1. op[o] \in Request /\ op[o].pc \in {"compare", "expire"} /\ tries' = tries /\ died' = died /\ attempts'.count = attempts.count
    BY <1>8, <1>a DEF Disabled, RightPassword, Expire, At, Idle, history
  <2>2. Goto(o, "clear") \/ End(o)
    BY <1>8 DEF Disabled, RightPassword, Expire
  <2>3. Trying' \subseteq Trying /\ Uncounted' = Uncounted
    BY <2>1, <2>2, <1>g, <1>h DEF Uncounted
  <2>4. Cardinality(Trying') <= Cardinality(Trying)
    <3>1. IsFiniteSet(Trying)
      BY <1>b, AccountsAssumption, FS_Subset
    <3> QED
      BY <2>3, <3>1, FS_Subset
  <2> QED
    BY <2>1, <2>3, <2>4, <1>a, <1>b, <1>c, <1>d DEF CountInv
<1>9. ASSUME NEW o \in Ops, op[o] \notin {Idle}, op[o].pc \notin {"compare", "incr"}, UNCHANGED <<attempts, tries, died>>,
             End(o) \/ (\E q \in Steps \ {"compare", "incr"} : Goto(o, q))
      PROVE  CountInv'
  <2>1. op[o] \in Request
    BY <1>9, <1>a
  <2>2. Trying' = Trying /\ Uncounted' = Uncounted
    BY <1>9, <2>1, <1>g, <1>h DEF Trying, Uncounted
  <2> QED
    BY <1>9, <2>2, <1>1
<1>9a. ASSUME NEW o \in Ops, Factor(o) \/ ConsumedByOther(o) \/ AuthenticatorCode(o) PROVE CountInv'
  BY <1>9a, <1>9 DEF Factor, ConsumedByOther, AuthenticatorCode, At, Idle, Steps, history
<1>9b. ASSUME NEW o \in Ops, Consume(o) \/ DropCodes(o) \/ Save(o) PROVE CountInv'
  BY <1>9b, <1>9 DEF Consume, DropCodes, Save, At, Idle, Steps
<1>9c. ASSUME NEW o \in Ops, Start(o) \/ Find(o) PROVE CountInv'
  <2>1. op[o] \in Request /\ op[o].pc \in {"start", "find"} /\ UNCHANGED <<attempts, tries, died>>
    <3>1. Start(o) => op[o].pc = "start" /\ UNCHANGED <<attempts, tries, died>>
      BY DEF Start, At, history
    <3>2. Find(o) => op[o].pc = "find" /\ UNCHANGED <<attempts, tries, died>>
      BY DEF Find, history
    <3> QED
      BY <1>9c, <1>a, <3>1, <3>2 DEF Idle
  <2>2. CASE End(o)
    BY <2>1, <2>2, <1>9 DEF Idle
  <2>3. CASE ~End(o)
    <3>1. \A c : [op[o] EXCEPT !.pc = "save", !.copy = c, !.arg = NoJti].pc = "save"
                /\ [op[o] EXCEPT !.pc = "find", !.copy = c].pc = "find"
      BY <2>1 DEF Request
    <3>2. Start(o) => op' = [op EXCEPT ![o] = [op[o] EXCEPT !.pc = "find", !.copy = db]]
      BY <2>3 DEF Start
    <3>3. Find(o) => \E c : op' = [op EXCEPT ![o] = [op[o] EXCEPT !.pc = "save", !.copy = c, !.arg = NoJti]]
      BY DEF Find
    <3>4. PICK r : op' = [op EXCEPT ![o] = r] /\ r.pc \in {"save", "find"}
      BY <1>9c, <3>1, <3>2, <3>3
    <3>5. Trying' = Trying /\ Uncounted' = Uncounted
      BY <2>1, <3>4, <1>f DEF Trying, Uncounted
    <3> QED
      BY <2>1, <3>5, <1>1
  <2> QED
    BY <2>2, <2>3
<1>10. ASSUME NEW o \in Ops, NEW kind \in Kinds, NEW arg, Begin(o, kind, arg) PROVE CountInv'
  <2>1. Trying' = Trying /\ Uncounted' = Uncounted
    BY <1>10, <1>a DEF Begin, First, Trying, Uncounted, Idle
  <2> QED
    BY <1>10, <2>1, <1>1 DEF Begin, history
<1>11. CASE GenerateBackupCodes \/ UNCHANGED vars
  <2>1. Trying' = Trying /\ Uncounted' = Uncounted /\ UNCHANGED <<attempts, tries, died>>
    BY <1>11 DEF GenerateBackupCodes, vars, Trying, Uncounted
  <2> QED
    BY <2>1, <1>1
<1>12. CASE KeyExpires
  BY <1>12, <1>2 DEF KeyExpires, NoKey
<1> QED
  BY <1>3, <1>4, <1>5, <1>6, <1>7, <1>8, <1>9a, <1>9b, <1>9c, <1>10, <1>11, <1>12 DEF Next, Step

\* Every step preserves the end of a lockout.
LEMMA NextLockout == StateInv /\ LockoutEnds /\ [Next]_vars => LockoutEnds'
<1> SUFFICES ASSUME StateInv, LockoutEnds, [Next]_vars, attempts'.count > 0, ~attempts'.ttl, ~(died' > 0)
             PROVE  \E o \in Ops : op'[o].pc = "expire"
  BY DEF LockoutEnds
<1>a. op \in [Ops -> Request \union {Idle}] /\ attempts \in [count : Nat, ttl : BOOLEAN] /\ died \in Nat
  BY DEF StateInv, TypeOK
<1>1. ASSUME NEW o \in Ops, Incr(o) PROVE \E p \in Ops : op'[p].pc = "expire"
  <2>1. op[o] \in Request /\ op[o].pc = "incr"
    BY <1>1, <1>a DEF Incr, At, Idle
  <2>2. CASE attempts.count = 0
    <3>1. op'[o] = [op[o] EXCEPT !.pc = "expire"]
      BY <1>1, <1>a, <2>2 DEF Incr, SetsExpiry, Goto
    <3> QED
      BY <3>1, <2>1 DEF Request
  <2>3. CASE attempts.count > 0
    <3>1. ~attempts.ttl /\ died' = died
      BY <1>1, <1>a DEF Incr, history
    <3>2. PICK p \in Ops : op[p].pc = "expire"
      BY <1>a, <2>3, <3>1 DEF LockoutEnds
    <3>3. op'[p] = op[p]
      BY <1>1, <1>a, <2>1, <3>2 DEF Incr, Goto, End
    <3> QED
      BY <3>2, <3>3
  <2> QED
    BY <1>a, <2>2, <2>3
<1>2. ASSUME NEW o \in Ops, Expire(o) PROVE FALSE
  BY <1>2, <1>a DEF Expire
<1>3. ASSUME NEW o \in Ops, ClearAttempts(o) \/ KeyExpires PROVE FALSE
  BY <1>3 DEF ClearAttempts, KeyExpires, NoKey
\* No other step sets the counter, nor takes a request from "expire".
<1>4. ASSUME attempts' = attempts, died' = died, \A o \in Ops : op[o].pc = "expire" => op'[o] = op[o]
      PROVE  \E o \in Ops : op'[o].pc = "expire"
  BY <1>4, <1>a DEF LockoutEnds
<1>5. ASSUME NEW o \in Ops, Step(o), ~Incr(o), ~Expire(o), ~ClearAttempts(o)
      PROVE  attempts' = attempts /\ died' = died /\ \A p \in Ops : op[p].pc = "expire" => op'[p] = op[p]
  <2>1. \A p \in Ops : p # o => op'[p] = op[p]
    BY <1>5, <1>a DEF Step, CheckLockout, Disabled, WrongPassword, RightPassword, Factor, Consume, ConsumedByOther,
                     AuthenticatorCode, DropCodes, Start, Find, Save, Goto, End
  <2>2. op[o].pc # "expire"
    BY <1>5 DEF Step, CheckLockout, Disabled, WrongPassword, RightPassword, Factor, Consume, ConsumedByOther,
                AuthenticatorCode, DropCodes, Start, Find, Save, At
  <2>3. attempts' = attempts /\ died' = died
    BY <1>5 DEF Step, CheckLockout, Disabled, WrongPassword, RightPassword, Factor, Consume, ConsumedByOther,
                AuthenticatorCode, DropCodes, Start, Find, Save, history
  <2> QED
    BY <2>1, <2>2, <2>3
<1>6. ASSUME NEW o \in Ops, Dies(o), ~(op[o].pc \in {"incr", "expire"})
      PROVE  attempts' = attempts /\ died' = died /\ \A p \in Ops : op[p].pc = "expire" => op'[p] = op[p]
  BY <1>6, <1>a DEF Dies, End
<1>7. ASSUME NEW o \in Ops, Dies(o), op[o].pc \in {"incr", "expire"} PROVE FALSE
  BY <1>7, <1>a DEF Dies
<1>8. ASSUME NEW o \in Ops, NEW kind, NEW arg, Begin(o, kind, arg)
      PROVE  attempts' = attempts /\ died' = died /\ \A p \in Ops : op[p].pc = "expire" => op'[p] = op[p]
  BY <1>8, <1>a DEF Begin, Idle, history
<1>9. CASE GenerateBackupCodes \/ UNCHANGED vars
  BY <1>9, <1>4 DEF GenerateBackupCodes, vars
<1>10. ASSUME NEW o \in Ops, Step(o) PROVE \E p \in Ops : op'[p].pc = "expire"
  BY <1>10, <1>1, <1>2, <1>3, <1>4, <1>5
<1>11. ASSUME NEW o \in Ops, Dies(o) PROVE \E p \in Ops : op'[p].pc = "expire"
  BY <1>11, <1>4, <1>6, <1>7
<1>12. ASSUME KeyExpires PROVE FALSE
  BY <1>12 DEF KeyExpires, NoKey
<1> QED
  BY <1>4, <1>8, <1>9, <1>10, <1>11, <1>12 DEF Next

\* What a row has of each column.
LEMMA RowValues ==
  ASSUME NEW row \in Row
  PROVE  /\ row.password \in Passwords /\ row.codes \subseteq Codes /\ row.reset \in Jtis \union {NoJti}
         /\ Values(row) \intersect Codes = row.codes
<1>1. row.password \in Passwords /\ row.codes \subseteq Codes /\ row.reset \in Jtis \union {NoJti}
  BY DEF Row
<1> QED
  BY <1>1, AccountsAssumption DEF Values

\* A row whose codes alone are written keeps its other values.
LEMMA CodesWritten ==
  ASSUME NEW row \in Row, NEW codes \in SUBSET Codes, NEW x
  PROVE  LET after == [row EXCEPT !.codes = codes]
         IN  x \in Values(after) <=> x \in codes \/ (x \in Values(row) /\ x \notin Codes)
<1> DEFINE after == [row EXCEPT !.codes = codes]
<1>1. after.password = row.password /\ after.codes = codes /\ after.reset = row.reset /\ after.active = row.active
  BY DEF Row
<1>2. row.password \notin Codes /\ (row.reset \in Codes => FALSE) /\ On \notin Codes /\ row.codes \subseteq Codes
  BY RowValues, AccountsAssumption
<1> QED
  BY <1>1, <1>2 DEF Values

\* What is known of the values of the row, and of the codes that let in.
ValuesInv == RetiredStaysOut /\ AcceptedInv /\ CodeLetsInOnce

\* A write of the codes keeps retired values out, unless it writes them itself.
LEMMA WriteCodesValues ==
  ASSUME StateInv, ValuesInv, NEW codes \in SUBSET Codes, codes \intersect accepted = {}, WriteCodes(codes),
         UNCHANGED <<accepted, again>>, issued \subseteq issued'
  PROVE  ValuesInv'
<1>1. db \in Row /\ db' = [db EXCEPT !.codes = codes] /\ again \subseteq accepted
  BY DEF StateInv, TypeOK, WriteCodes
<1>2. retired' = (retired \union db.codes) \ codes /\ restored' = (restored \ codes) \intersect retired'
  BY DEF WriteCodes
<1>3. db.codes \subseteq Codes
  BY <1>1, RowValues
<1>4. ASSUME NEW x, x \in retired', x \in Values(db') PROVE x \in restored'
  <2>1. x \notin codes /\ x \in Values(db) /\ x \notin Codes
    BY <1>1, <1>2, <1>4, CodesWritten
  <2> QED
    BY <1>2, <1>3, <1>4, <2>1 DEF ValuesInv, RetiredStaysOut
<1>5. AcceptedInv'
  BY <1>2 DEF ValuesInv, AcceptedInv
<1>6. CodeLetsInOnce'
  BY <1>1, <1>2, <1>5 DEF ValuesInv, AcceptedInv, CodeLetsInOnce
<1> QED
  BY <1>4, <1>5, <1>6 DEF ValuesInv, RetiredStaysOut

\* Every step preserves it.
LEMMA NextValues == StateInv /\ ValuesInv /\ [Next]_vars => ValuesInv'
<1> SUFFICES ASSUME StateInv, ValuesInv, [Next]_vars PROVE ValuesInv'
  OBVIOUS
<1>a. db \in Row /\ accepted \subseteq Codes /\ again \subseteq accepted
  BY DEF StateInv, TypeOK
<1>1. ASSUME UNCHANGED <<db, retired, restored, accepted, again>>, issued \subseteq issued' PROVE ValuesInv'
  BY <1>1 DEF ValuesInv, RetiredStaysOut, AcceptedInv, CodeLetsInOnce
<1>2. ASSUME NEW o \in Ops, Consume(o) PROVE ValuesInv'
  <2> DEFINE c == op[o].arg
  <2>1. c \in db.codes /\ db' = [db EXCEPT !.codes = @ \ {c}] /\ UNCHANGED <<restored, issued>>
    BY <1>2 DEF Consume, StillThere
  <2>2. accepted' = accepted \union {c} /\ again' = again \union (accepted \intersect {c}) /\ retired' = retired \union {c}
    BY <1>2 DEF Consume
  <2>3. c \in Codes /\ c \in Values(db) /\ c \in issued
    <3>1. c \in Codes /\ c \in Values(db)
      BY <1>a, <2>1, RowValues
    <3>2. op[o] # Idle
      BY <1>2 DEF Consume, Idle
    <3> QED
      BY <3>1, <3>2 DEF StateInv, HeldInv
  <2>4. \A x : x \in Values(db') <=> x \in db.codes \ {c} \/ (x \in Values(db) /\ x \notin Codes)
    <3> HIDE DEF c
    <3>1. db' = [db EXCEPT !.codes = db.codes \ {c}] /\ (db.codes \ {c}) \in SUBSET Codes
      BY <1>a, <2>1, RowValues
    <3> QED
      BY <1>a, <3>1, CodesWritten
  <2> HIDE DEF c
  <2>5. \A x : x \in Values(db') => x \in Values(db) /\ x # c
    BY <1>a, <2>3, <2>4, RowValues
  <2>6. accepted \intersect {c} \subseteq restored
    BY <2>3 DEF ValuesInv, AcceptedInv, RetiredStaysOut
  <2> QED
    BY <2>1, <2>2, <2>3, <2>5, <2>6 DEF ValuesInv, RetiredStaysOut, AcceptedInv, CodeLetsInOnce
<1>3. ASSUME NEW o \in Ops, DropCodes(o) PROVE ValuesInv'
  BY <1>3, WriteCodesValues DEF DropCodes
<1>4. CASE GenerateBackupCodes
  <2>1. PICK c \in Codes \ issued : WriteCodes({c}) /\ issued' = issued \union {c}
    BY <1>4 DEF GenerateBackupCodes
  <2>2. {c} \in SUBSET Codes /\ {c} \intersect accepted = {} /\ issued \subseteq issued'
    BY <2>1 DEF ValuesInv, AcceptedInv
  <2> QED
    BY <1>4, <2>1, <2>2, WriteCodesValues DEF GenerateBackupCodes
<1>5. ASSUME NEW o \in Ops, Save(o) PROVE ValuesInv'
  <2> DEFINE mine == Meant(o, op[o].copy)
  <2>1. /\ db' = op[o].copy
        /\ retired' = (retired \union Meant(o, db)) \ mine
        /\ restored' = (restored \union (retired \intersect (Values(db') \ Values(db)))) \ mine
        /\ UNCHANGED <<issued, accepted, again>>
    BY <1>5 DEF Save, Saved
  <2>2. op[o].kind \in {"login", "edit", "change", "forgot", "reset", "toggle"}
    BY <1>5 DEF Save, StateInv, TypeOK, HeldInv, Request, Kinds, Idle
  <2>3. PICK C \in SUBSET (Passwords \union Jtis \union {On}) : \A row : Meant(o, row) = Values(row) \intersect C
    <3>1. CASE op[o].kind \in {"login", "edit"}
      <4>1. \A row : Meant(o, row) = Values(row) \intersect {}
        BY <3>1 DEF Meant
      <4> QED
        BY <4>1
    <3>2. CASE op[o].kind = "change"
      <4>1. \A row : Meant(o, row) = Values(row) \intersect Passwords
        BY <3>2 DEF Meant
      <4> QED
        BY <4>1
    <3>3. CASE op[o].kind = "forgot"
      <4>1. \A row : Meant(o, row) = Values(row) \intersect Jtis
        BY <3>3 DEF Meant
      <4> QED
        BY <4>1
    <3>4. CASE op[o].kind = "reset"
      <4>1. \A row : Meant(o, row) = Values(row) \intersect (Passwords \union Jtis)
        BY <3>4 DEF Meant
      <4> QED
        BY <4>1
    <3>5. CASE op[o].kind = "toggle"
      <4>1. \A row : Meant(o, row) = Values(row) \intersect {On}
        BY <3>5 DEF Meant
      <4> QED
        BY <4>1
    <3> QED
      BY <2>2, <3>1, <3>2, <3>3, <3>4, <3>5
  <2>4. mine = Values(db') \intersect C /\ Meant(o, db) = Values(db) \intersect C
    BY <2>1, <2>3
  <2>5. C \intersect Codes = {}
    BY AccountsAssumption
  <2> HIDE DEF mine
  <2>6. RetiredStaysOut'
    BY <2>1, <2>4 DEF ValuesInv, RetiredStaysOut
  <2>7. AcceptedInv'
    BY <1>a, <2>1, <2>4, <2>5 DEF ValuesInv, AcceptedInv
  <2>8. CodeLetsInOnce'
    BY <1>a, <2>1, <2>4, <2>5 DEF ValuesInv, CodeLetsInOnce
  <2> QED
    BY <2>6, <2>7, <2>8 DEF ValuesInv
<1>6. ASSUME NEW o \in Ops, Find(o) PROVE ValuesInv'
  BY <1>6, <1>1 DEF Find, history
<1>7. ASSUME NEW o \in Ops,
             \/ CheckLockout(o) \/ Disabled(o) \/ WrongPassword(o) \/ RightPassword(o) \/ Incr(o) \/ Expire(o)
             \/ ClearAttempts(o) \/ Factor(o) \/ ConsumedByOther(o) \/ AuthenticatorCode(o) \/ Start(o) \/ Dies(o)
      PROVE  ValuesInv'
  BY <1>7, <1>1 DEF CheckLockout, Disabled, WrongPassword, RightPassword, Incr, Expire, ClearAttempts, Factor,
                    ConsumedByOther, AuthenticatorCode, Start, Dies, history
<1>8. ASSUME NEW o \in Ops, NEW kind, NEW arg, Begin(o, kind, arg) PROVE ValuesInv'
  BY <1>8, <1>1 DEF Begin, history
<1>9. CASE KeyExpires \/ UNCHANGED vars
  BY <1>9, <1>1 DEF KeyExpires, vars
<1> QED
  BY <1>2, <1>3, <1>4, <1>5, <1>6, <1>7, <1>8, <1>9 DEF Next, Step

\* The invariant holds in every state.
LEMMA SpecIInv == Spec => []IInv
<1>1. IInv /\ [Next]_vars => IInv'
  BY NextState, NextCount, NextLockout, NextValues DEF IInv, ValuesInv
<1> QED
  BY <1>1, InitIInv, PTL DEF Spec

\* The row of the user, the attempts and the requests keep their types.
THEOREM TypeCorrect == Spec => []TypeOK
  BY SpecIInv, PTL DEF IInv, StateInv

(***************************************************************************)
(* No more wrong passwords are compared than the limit and the requests    *)
(* under way allow, and one for each that died before it was counted.      *)
(***************************************************************************)
THEOREM GuessesTheorem == Spec => []GuessesBounded
<1>1. IInv => GuessesBounded
  <2> SUFFICES ASSUME IInv PROVE GuessesBounded
    OBVIOUS
  <2>1. Uncounted \subseteq Trying /\ Trying \subseteq Ops
    BY DEF Uncounted, Trying
  <2>2. IsFiniteSet(Trying) /\ IsFiniteSet(Ops) /\ Cardinality(Uncounted) <= Cardinality(Trying)
    BY <2>1, AccountsAssumption, FS_Subset
  <2>3. Cardinality(Trying) \in Nat /\ Cardinality(Uncounted) \in Nat /\ Cardinality(Ops) \in Nat
    BY <2>1, <2>2, FS_Subset, FS_CardinalityType
  <2> QED
    BY <2>2, <2>3, AccountsAssumption DEF IInv, StateInv, TypeOK, CountInv, GuessesBounded
<1> QED
  BY <1>1, SpecIInv, PTL

(***************************************************************************)
(* A lockout ends, unless the request that started it died.                *)
(***************************************************************************)
THEOREM LockoutTheorem == Spec => []LockoutEnds
  BY SpecIInv, PTL DEF IInv

(***************************************************************************)
(* What was replaced, consumed or switched off stays out of the row unless *)
(* the save of an older copy puts it back; ...                             *)
(***************************************************************************)
THEOREM RetiredTheorem == Spec => []RetiredStaysOut
  BY SpecIInv, PTL DEF IInv

(***************************************************************************)
(* ... and but for that a backup code lets in once.                        *)
(***************************************************************************)
THEOREM CodeTheorem == Spec => []CodeLetsInOnce
  BY SpecIInv, PTL DEF IInv
=============================================================================
