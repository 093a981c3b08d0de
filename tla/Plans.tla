-------------------------------- MODULE Plans --------------------------------
(***************************************************************************)
(* The subscriptions of one tenant and its usage of one metric             *)
(* (backend/src/modules/plans/plans.service.ts): subscribe, cancel, renew, *)
(* and assertQuotaAvailable, a transaction that locks the subscription,    *)
(* adds up the usage of its period and inserts a row of usage.             *)
(*                                                                         *)
(* assertQuotaAvailable and renew are offered to other services; nothing   *)
(* in the repository calls them yet.  The limits of a plan do not change.  *)
(***************************************************************************)
EXTENDS Integers, FiniteSets, Functions

CONSTANTS
  Ops,       \* requests that may be under way at a time
  MaxOps,    \* bound on the requests ever served
  MaxSubs,   \* bound on the subscriptions ever made
  MaxNow,    \* bound on the clock
  Plan,      \* plans
  Limit,     \* the limit of each for the metric
  Cycle,     \* the length of its billing_cycle
  TrialDays  \* the length of its trial, zero where there is none

Free == "free"

ASSUME PlansAssumption ==
  /\ MaxOps \in Nat /\ MaxSubs \in Nat /\ MaxNow \in Nat
  /\ Limit \in [Plan -> Nat]
  /\ Cycle \in [Plan -> Nat]
  /\ TrialDays \in [Plan -> Nat]
  /\ Free \notin Ops

Subs == 1..MaxSubs
Times == 0..MaxNow
None == 0

VARIABLES
  now,
  sub,       \* subscriptions in the order of created_at
  usage,     \* usages: the sum of the rows of each period
  lock,      \* who holds the row locks of the tenant's subscriptions
  op,
  served,
  disturbed  \* history: two subscribes have overlapped, or a subscription was renewed

planVars == <<now, sub, usage, lock, op, served, disturbed>>

Live == {"active", "trialing"}
NoSub == [status |-> "none"]
Lengths == {Cycle[p] : p \in Plan} \union {TrialDays[p] : p \in Plan}
Subscription == [status : Live \union {"cancelled"}, plan : Plan, start : Times, length : Lengths]
Kinds == {"reserve", "subscribe", "cancel", "renew"}
Idle == [pc |-> "idle"]

\* A period is the second it starts at and its length.
Period(s) == <<s.start, s.length>>
Periods == Times \X Lengths

Request == [pc : {"lock", "sum", "commit", "find", "save", "insert"}, kind : Kinds,
            plan : Plan \union {"none"}, s : Subs \union {None}, n : 0..2]

PlansTypeOK ==
  /\ now \in Times
  /\ sub \in [Subs -> Subscription \union {NoSub}]
  /\ lock \in Ops \union {Free}
  /\ op \in [Ops -> Request \union {Idle}]
  /\ usage \in [Periods -> Nat]
  /\ served \in 0..MaxOps
  /\ disturbed \in BOOLEAN

PlansInit ==
  /\ now = 0
  /\ sub = [s \in Subs |-> NoSub]
  /\ usage = [p \in Periods |-> 0]
  /\ lock = Free
  /\ op = [o \in Ops |-> Idle]
  /\ served = 0
  /\ disturbed = FALSE

-----------------------------------------------------------------------------
At(o, step) == op[o].pc = step

Goto(o, step) == op' = [op EXCEPT ![o].pc = step]

End(o) == op' = [op EXCEPT ![o] = Idle]

First(kind) == IF kind = "reserve" THEN "lock" ELSE "find"

Subscribing == {o \in Ops : op[o].pc # "idle" /\ op[o].kind = "subscribe"}

\* plan: to subscribe to; s: to cancel or renew; n: the increment to reserve.
Begin(o, kind, plan, s, n) ==
  /\ op[o] = Idle
  /\ served < MaxOps
  /\ served' = served + 1
  /\ kind \in {"cancel", "renew"} => sub[s] # NoSub
  /\ op' = [op EXCEPT ![o] = [pc |-> First(kind), kind |-> kind, plan |-> plan, s |-> s, n |-> n]]
  /\ disturbed' = (disturbed \/ (kind = "subscribe" /\ Subscribing # {}) \/ kind = "renew")
  /\ UNCHANGED <<now, sub, usage, lock>>

-----------------------------------------------------------------------------
(* assertQuotaAvailable.                                                   *)

\* Mutant: the subscription is read without FOR UPDATE.
MayLock_NoLock(o) == TRUE

MayLock(o) == lock = Free

Newest(s, S) == s \in S /\ \A t \in S : t <= s

LiveSubs == {s \in Subs : sub[s].status \in Live}

LockSub(o) ==
  /\ At(o, "lock")
  /\ MayLock(o)
  /\ IF LiveSubs = {} THEN End(o) /\ UNCHANGED lock
     ELSE /\ \E s \in Subs : Newest(s, LiveSubs) /\ op' = [op EXCEPT ![o].pc = "sum", ![o].s = s]
          /\ lock' = o
  /\ UNCHANGED <<now, sub, usage, served, disturbed>>

\* The rows of the periods that lie in the period of s.
Within(s) ==
  {p \in Periods : p[1] >= sub[s].start /\ p[1] + p[2] <= sub[s].start + sub[s].length}

Counted(s) == SumFunctionOnSet(usage, Within(s))

Fits(o, used) == Limit[sub[op[o].s].plan] > 0 /\ used + op[o].n <= Limit[sub[op[o].s].plan]

Release(o) == lock' = IF lock = o THEN Free ELSE lock

SumUsage(o) ==
  /\ At(o, "sum")
  /\ IF Fits(o, Counted(op[o].s)) THEN Goto(o, "commit") /\ UNCHANGED lock
     ELSE End(o) /\ Release(o)
  /\ UNCHANGED <<now, sub, usage, served, disturbed>>

\* The row of usage is inserted and the transaction ends.
Commit(o) ==
  /\ At(o, "commit")
  /\ usage' = [usage EXCEPT ![Period(sub[op[o].s])] = @ + op[o].n]
  /\ End(o)
  /\ Release(o)
  /\ UNCHANGED <<now, sub, served, disturbed>>

-----------------------------------------------------------------------------
(* subscribe, cancel, renew: a row is read, changed and saved.  The save   *)
(* waits for the locks of a transaction; the insert of a new row need not. *)

Existing == {s \in Subs : sub[s] # NoSub}

\* Mutant: only a trial is given up for another plan.
Replaced_TrialOnly(s) == sub[s].status = "trialing"

\* The subscription that subscribe cancels first: not one that is trialing.
Replaced(s) == sub[s].status = "active"

FindCurrent(o) ==
  /\ At(o, "find") /\ op[o].kind = "subscribe"
  /\ \/ \E s \in Subs : /\ Newest(s, Existing) /\ Replaced(s)
                        /\ op' = [op EXCEPT ![o].pc = "save", ![o].s = s]
     \/ /\ \A s \in Subs : ~(Newest(s, Existing) /\ Replaced(s))
        /\ Goto(o, "insert")
  /\ UNCHANGED <<now, sub, usage, lock, served, disturbed>>

FindNamed(o) ==
  /\ At(o, "find") /\ op[o].kind \in {"cancel", "renew"}
  /\ Goto(o, "save")
  /\ UNCHANGED <<now, sub, usage, lock, served, disturbed>>

\* The period a cancelled subscription is saved with may be older than a renewal
\* in between; nothing reads it before the next one, which sets it.  A trial
\* that is renewed goes on with the billing cycle.
Saved(o) ==
  IF op[o].kind = "renew"
  THEN [sub EXCEPT ![op[o].s].status = "active", ![op[o].s].start = now,
                   ![op[o].s].length = Cycle[sub[op[o].s].plan]]
  ELSE [sub EXCEPT ![op[o].s].status = "cancelled"]

Save(o) ==
  /\ At(o, "save")
  /\ lock = Free
  /\ sub' = Saved(o)
  /\ IF op[o].kind = "subscribe" THEN Goto(o, "insert") ELSE End(o)
  /\ UNCHANGED <<now, usage, lock, served, disturbed>>

OnTrial(plan) == TrialDays[plan] > 0

InsertSub(o) ==
  /\ At(o, "insert")
  /\ \E s \in Subs :
       /\ sub[s] = NoSub /\ \A t \in Subs : t < s => sub[t] # NoSub
       /\ sub' = [sub EXCEPT ![s] =
                    [status |-> IF OnTrial(op[o].plan) THEN "trialing" ELSE "active",
                     plan |-> op[o].plan, start |-> now,
                     length |-> IF OnTrial(op[o].plan) THEN TrialDays[op[o].plan]
                                ELSE Cycle[op[o].plan]]]
  /\ End(o)
  /\ UNCHANGED <<now, usage, lock, served, disturbed>>

\* The process dies, or a call fails: a transaction is rolled back.
Dies(o) ==
  /\ op[o] # Idle
  /\ End(o)
  /\ Release(o)
  /\ UNCHANGED <<now, sub, usage, served, disturbed>>

Tick ==
  /\ now < MaxNow
  /\ now' = now + 1
  /\ UNCHANGED <<sub, usage, lock, op, served, disturbed>>

-----------------------------------------------------------------------------
Step(o) ==
  \/ LockSub(o) \/ SumUsage(o) \/ Commit(o)
  \/ FindCurrent(o) \/ FindNamed(o) \/ Save(o) \/ InsertSub(o)

Asks(o) ==
  \/ \E n \in 1..2 : Begin(o, "reserve", "none", None, n)
  \/ \E plan \in Plan : Begin(o, "subscribe", plan, None, 0)
  \/ \E s \in Subs, kind \in {"cancel", "renew"} : Begin(o, kind, "none", s, 0)

PlansNext ==
  \/ \E o \in Ops : Asks(o) \/ Step(o) \/ Dies(o)
  \/ Tick

PlansSpec == PlansInit /\ [][PlansNext]_planVars

-----------------------------------------------------------------------------
(***************************************************************************)
(* A quota is never passed: whoever is about to reserve has a subscription *)
(* that is live at this moment, and what it adds still fits the limit over *)
(* all that was reserved in its period, whatever reservations, changes of  *)
(* the plan, cancellations and renewals overlap.                           *)
(***************************************************************************)
QuotaKept ==
  \A o \in Ops :
    At(o, "commit") => op[o].s \in LiveSubs /\ Fits(o, Counted(op[o].s))

(***************************************************************************)
(* A tenant has one active subscription, unless two subscribes overlapped  *)
(* or a subscription was renewed.                                          *)
(***************************************************************************)
OneActive == disturbed \/ Cardinality({s \in Subs : sub[s].status = "active"}) <= 1
=============================================================================
