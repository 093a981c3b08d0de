----------------------------- MODULE CachesProofs -----------------------------
(***************************************************************************)
(* Theorems about Caches, for any number of processes, fetches and writes, *)
(* any TTL and any duration of a fetch.                                    *)
(***************************************************************************)
EXTENDS Caches, TLAPS

\* The value of a fetch is not older than the row it has read, nor that than
\* the look at the entry; a write has a step left.
OpInv ==
  \A o \in Ops :
    /\ op[o].pc = "find" => op[o].stale = Current /\ op[o].lag = 0
    /\ op[o].pc = "fill" => op[o].stale <= op[o].lag /\ op[o].lag <= op[o].age
    /\ op[o].pc = "write" => op[o].done < Len(StepsOf(op[o].job))

\* An entry grows older as fast as its life runs out.
LifeInv == \A p \in Procs : Fresh(p) => cache[p].stale + cache[p].left <= TTL + cache[p].lag

IInv == TypeOK /\ OpInv /\ LifeInv /\ OwnWritesSeen

-----------------------------------------------------------------------------
\* The steps of each write.
LEMMA StepsAre ==
  /\ Len(StepsOf("bulk")) = 3 /\ Len(StepsOf("put")) = 1 /\ Len(StepsOf("update")) = 2
  /\ StepsOf("bulk")[1] = "invalidate" /\ StepsOf("bulk")[2] = "save" /\ StepsOf("bulk")[3] = "invalidate"
  /\ StepsOf("put")[1] = "save"
  /\ StepsOf("update")[1] = "save" /\ StepsOf("update")[2] = "invalidate"
  BY DEF StepsOf

\* Operations are told apart by their step.
LEMMA FetchOrWrite ==
  /\ \A q \in Fetch \union Write \union {Idle} : q.pc \in {"find", "fill"} => q \in Fetch
  /\ \A q \in Fetch \union Write \union {Idle} : q.pc = "write" => q \in Write
  /\ \A q \in Fetch \union Write : q # Idle
  BY DEF Fetch, Write, Idle

\* The initial state satisfies the invariant.
LEMMA InitIInv == Init => IInv
<1> SUFFICES ASSUME Init PROVE IInv
  OBVIOUS
<1>1. TypeOK
  BY DEF Init, TypeOK
<1> QED
  BY <1>1, CachesAssumption DEF Init, IInv, OpInv, LifeInv, OwnWritesSeen, Fresh, NoEntry, Idle

\* A write goes to its next step, or ends.
LEMMA AdvancedIs ==
  ASSUME TypeOK, OpInv, NEW o \in Ops, op[o].pc = "write"
  PROVE  \/ Advanced(o) = Idle /\ op[o].done + 1 = Len(StepsOf(op[o].job))
         \/ /\ Advanced(o) \in Write
            /\ Advanced(o).proc = op[o].proc /\ Advanced(o).job = op[o].job
            /\ Advanced(o).done = op[o].done + 1
            /\ Advanced(o).done < Len(StepsOf(op[o].job))
<1>1. op[o] \in Write /\ op[o].done \in 0..2 /\ op[o].job \in Jobs /\ op[o].done < Len(StepsOf(op[o].job))
  BY FetchOrWrite DEF TypeOK, OpInv, Write
<1>2. CASE op[o].done + 1 = Len(StepsOf(op[o].job))
  BY <1>2 DEF Advanced
<1>3. CASE op[o].done + 1 # Len(StepsOf(op[o].job))
  <2>1. Len(StepsOf(op[o].job)) \in 1..3
    BY <1>1, StepsAre DEF Jobs
  <2>2. op[o].done + 1 \in 0..2 /\ op[o].done + 1 < Len(StepsOf(op[o].job))
    <3>1. \A d \in 0..2, n \in 1..3 : d < n /\ d + 1 # n => d + 1 \in 0..2 /\ d + 1 < n
      OBVIOUS
    <3> QED
      BY <1>1, <1>3, <2>1, <3>1
  <2>3. Advanced(o) = [op[o] EXCEPT !.done = op[o].done + 1]
    BY <1>3 DEF Advanced
  <2> QED
    BY <1>1, <2>2, <2>3 DEF Write
<1> QED
  BY <1>2, <1>3

\* Copies that grow older or are superseded.
LEMMA OlderCopy ==
  ASSUME NEW c \in Entry \union {NoEntry}
  PROVE  /\ Older(c).left = c.left /\ Older(c).lag = c.lag /\ Older(c).overlap = c.overlap
         /\ Older(c).stale \in {Current} \union Nat
         /\ Older(c).stale <= c.stale + 1
         /\ Older(c).stale = Current <=> c.stale = Current
         /\ Superseded(c).left = c.left /\ Superseded(c).lag = c.lag
         /\ Superseded(c).stale \in Nat
         /\ Superseded(c).stale = c.stale \/ Superseded(c).stale = 0
         /\ c \in Entry => Older(c) \in Entry /\ Superseded(c) \in Entry
  BY CachesAssumption DEF Older, Superseded, Entry, NoEntry, Current

\* A fetch goes on as it was while time passes and when its value is
\* superseded.
LEMMA OlderFetch ==
  ASSUME NEW q \in Fetch
  PROVE  /\ Older(q) \in Fetch /\ Superseded(q) \in Fetch
         /\ Older(q).pc = q.pc /\ Older(q).proc = q.proc /\ Older(q).age = q.age /\ Older(q).lag = q.lag
         /\ Older(q).stale <= q.stale + 1
         /\ Superseded(q).pc = q.pc /\ Superseded(q).proc = q.proc /\ Superseded(q).age = q.age /\ Superseded(q).lag = q.lag
         /\ Superseded(q).stale = q.stale \/ Superseded(q).stale = 0
  BY CachesAssumption DEF Older, Superseded, Fetch, Current

\* The life of an entry.
LEMMA LifeIs ==
  ASSUME TypeOK, OpInv, NEW o \in Ops, op[o].pc = "fill"
  PROVE  /\ Life(o) \in Int /\ Life(o) <= TTL
         /\ Life(o) > 0 => NewEntry(o) \in Entry
         /\ NewEntry(o).left = Life(o) /\ NewEntry(o).stale = op[o].stale
         /\ NewEntry(o).stale + NewEntry(o).left <= TTL + NewEntry(o).lag
         /\ NewEntry(o).overlap = (op[o].stale # Current)
<1>1. op[o] \in Fetch
  BY FetchOrWrite DEF TypeOK
<1>2. /\ op[o].age \in 0..MaxWait /\ op[o].lag \in 0..MaxWait /\ op[o].stale \in {Current} \union Nat
      /\ op[o].stale <= op[o].lag /\ op[o].lag <= op[o].age
  BY <1>1 DEF Fetch, OpInv
<1>3. Life(o) \in Int /\ Life(o) <= TTL
  BY <1>2, CachesAssumption DEF Life
<1>4. (op[o].stale # Current) \in BOOLEAN /\ 0 \in 0..MaxWait
  BY CachesAssumption
<1>5. ASSUME Life(o) > 0 PROVE NewEntry(o) \in Entry
  <2>1. Life(o) \in 1..TTL
    BY <1>3, <1>5, CachesAssumption
  <2>2. (IF kind = "settings" THEN op[o].lag ELSE 0) \in 0..MaxWait
    BY <1>2, <1>4
  <2> QED
    BY <1>2, <1>4, <2>1, <2>2 DEF NewEntry, Entry
<1>6. NewEntry(o).stale + NewEntry(o).left <= TTL + NewEntry(o).lag
  BY <1>2, CachesAssumption DEF NewEntry, Life, Current
<1> QED
  BY <1>3, <1>5, <1>6 DEF NewEntry

\* Every step preserves the types and what is known of the operations.
LEMMA NextOps ==
  ASSUME TypeOK, OpInv, [Next]_vars
  PROVE  TypeOK' /\ OpInv'
<1> USE CachesAssumption
<1>a. /\ kind \in {"settings", "flags"} /\ cache \in [Procs -> Entry \union {NoEntry}]
      /\ op \in [Ops -> Fetch \union Write \union {Idle}] /\ writer \in Procs \union {Nobody}
  BY DEF TypeOK
<1> DEFINE Good(q) ==
      /\ q \in Fetch \union Write \union {Idle}
      /\ q.pc = "find" => q.stale = Current /\ q.lag = 0
      /\ q.pc = "fill" => q.stale <= q.lag /\ q.lag <= q.age
      /\ q.pc = "write" => q.done < Len(StepsOf(q.job))
<1>b. \A o \in Ops : Good(op[o])
  BY <1>a DEF OpInv
<1>c. Good(Idle)
  BY DEF Idle
<1>d. ASSUME op' \in [Ops -> {q \in Fetch \union Write \union {Idle} : Good(q)}], kind' = kind,
             cache' \in [Procs -> Entry \union {NoEntry}], writer' \in Procs \union {Nobody}
      PROVE  TypeOK' /\ OpInv'
  BY <1>a, <1>d DEF TypeOK, OpInv
<1>e. ASSUME NEW o \in Ops, op[o].pc = "write" PROVE Good(Advanced(o)) /\ Good(Idle) /\ op[o] \in Write /\ op[o].proc \in Procs
  <2>1. op[o] \in Write
    BY <1>a, <1>e, FetchOrWrite
  <2>2. CASE Advanced(o) = Idle
    BY <1>c, <2>1, <2>2 DEF Write
  <2>3. CASE Advanced(o) # Idle
    <3>1. Advanced(o) \in Write /\ Advanced(o).done < Len(StepsOf(Advanced(o).job))
      BY <1>e, <2>3, AdvancedIs
    <3>2. Advanced(o).pc = "write"
      BY <3>1 DEF Write
    <3> QED
      BY <1>c, <2>1, <3>1, <3>2 DEF Write
  <2> QED
    BY <2>2, <2>3
<1>f. \A q : Good(q) => q \in {r \in Fetch \union Write \union {Idle} : Good(r)}
  OBVIOUS
<1> HIDE DEF Good
<1>g. ASSUME NEW o \in Ops, NEW q, Good(q), op' = [op EXCEPT ![o] = q]
      PROVE  op' \in [Ops -> {r \in Fetch \union Write \union {Idle} : Good(r)}]
  BY <1>a, <1>b, <1>f, <1>g
<1>1. ASSUME NEW o \in Ops, NEW p \in Procs, Look(o, p) PROVE TypeOK' /\ OpInv'
  <2> DEFINE q == [pc |-> "find", proc |-> p, age |-> 0, lag |-> 0, stale |-> Current]
  <2>1. Good(q)
    BY DEF Good, Fetch
  <2> QED
    BY <1>1, <1>a, <1>d, <1>g, <2>1 DEF Look
<1>2. ASSUME NEW o \in Ops, FindRow(o) PROVE TypeOK' /\ OpInv'
  <2>1. op[o] \in Fetch /\ op[o].stale = Current /\ op[o].lag = 0
    BY <1>2, <1>a, FetchOrWrite DEF FindRow, OpInv
  <2>2. Good([op[o] EXCEPT !.pc = "fill"])
    BY <2>1 DEF Good, Fetch, Current
  <2> QED
    BY <1>2, <1>a, <1>d, <1>g, <2>2 DEF FindRow
<1>3. ASSUME NEW o \in Ops, Fill(o) PROVE TypeOK' /\ OpInv'
  <2>1. cache' \in [Procs -> Entry \union {NoEntry}]
    BY <1>3, <1>a, LifeIs DEF Fill
  <2> QED
    BY <1>3, <1>a, <1>c, <1>d, <1>g, <2>1 DEF Fill
<1>4. ASSUME NEW o \in Ops, NotFilled(o) PROVE TypeOK' /\ OpInv'
  BY <1>4, <1>a, <1>c, <1>d, <1>g DEF NotFilled
<1>5. ASSUME NEW o \in Ops, NEW p \in Procs, NEW job \in Jobs, StartWrite(o, p, job) PROVE TypeOK' /\ OpInv'
  <2> DEFINE q == [pc |-> "write", proc |-> p, job |-> job, done |-> 0]
  <2>1. Good(q)
    BY StepsAre DEF Good, Write, Jobs
  <2> QED
    BY <1>5, <1>a, <1>d, <1>g, <2>1 DEF StartWrite
<1>6. ASSUME NEW o \in Ops, Invalidate(o) PROVE TypeOK' /\ OpInv'
  <2>1. Good(Advanced(o)) /\ op[o].proc \in Procs
    BY <1>6, <1>e DEF Invalidate
  <2> QED
    BY <1>6, <1>a, <1>d, <1>g, <2>1 DEF Invalidate
<1>7. ASSUME NEW o \in Ops, Save(o) PROVE TypeOK' /\ OpInv'
  <2>1. Good(Advanced(o)) /\ op[o].proc \in Procs
    BY <1>7, <1>e DEF Save
  <2>2. ASSUME NEW q \in Ops, op[q].pc = "fill" PROVE Good(Superseded(op[q]))
    <3>1. op[q] \in Fetch /\ op[q].stale <= op[q].lag /\ op[q].lag <= op[q].age
      BY <1>a, <2>2, FetchOrWrite DEF OpInv
    <3>2. Superseded(op[q]).stale <= op[q].lag
      <4>1. op[q].lag \in 0..MaxWait
        BY <3>1 DEF Fetch
      <4> QED
        BY <3>1, <4>1, OlderFetch
    <3> QED
      BY <2>2, <3>1, <3>2, OlderFetch DEF Good
  <2>3. op' \in [Ops -> {r \in Fetch \union Write \union {Idle} : Good(r)}]
    BY <1>7, <1>a, <1>b, <1>f, <2>1, <2>2 DEF Save
  <2>4. ASSUME NEW p \in Procs, Fresh(p) PROVE [Superseded(cache[p]) EXCEPT !.overlap = FALSE] \in Entry
    <3>1. cache[p] \in Entry
      BY <1>a, <2>4 DEF Fresh, NoEntry
    <3>2. Superseded(cache[p]) \in Entry
      BY <3>1, OlderCopy
    <3> QED
      BY <3>2 DEF Entry
  <2>5. cache' \in [Procs -> Entry \union {NoEntry}]
    BY <1>7, <1>a, <2>4 DEF Save
  <2> QED
    BY <1>7, <1>d, <2>1, <2>3, <2>5 DEF Save
<1>8. ASSUME NEW o \in Ops, WriteFails(o) PROVE TypeOK' /\ OpInv'
  BY <1>8, <1>a, <1>c, <1>d, <1>g DEF WriteFails
<1>9. ASSUME NEW p \in Procs, Restart(p) PROVE TypeOK' /\ OpInv'
  <2>1. op' \in [Ops -> {r \in Fetch \union Write \union {Idle} : Good(r)}]
    BY <1>9, <1>a, <1>b, <1>c, <1>f DEF Restart
  <2> QED
    BY <1>9, <1>a, <1>d, <2>1 DEF Restart
<1>10. CASE Tick
  <2>1. ASSUME NEW o \in Ops, op[o].pc = "find" PROVE Good([op[o] EXCEPT !.age = @ + 1])
    <3>1. op[o] \in Fetch /\ op[o].age < MaxWait /\ op[o].stale = Current /\ op[o].lag = 0
      BY <1>10, <1>a, <2>1, FetchOrWrite DEF Tick, Fetching, OpInv
    <3>2. op[o].age + 1 \in 0..MaxWait
      BY <3>1 DEF Fetch
    <3> QED
      BY <2>1, <3>1, <3>2 DEF Good, Fetch
  <2>2. ASSUME NEW o \in Ops, op[o].pc = "fill" PROVE Good([Older(op[o]) EXCEPT !.age = @ + 1, !.lag = @ + 1])
    <3>1. op[o] \in Fetch /\ op[o].age < MaxWait /\ op[o].stale <= op[o].lag /\ op[o].lag <= op[o].age
      BY <1>10, <1>a, <2>2, FetchOrWrite DEF Tick, Fetching, OpInv
    <3>2. PICK q \in Fetch : q = Older(op[o]) /\ q.age < MaxWait /\ q.stale <= q.lag + 1 /\ q.lag <= q.age /\ q.pc = "fill"
      <4>1. op[o].lag \in 0..MaxWait /\ op[o].stale \in {Current} \union Nat
        BY <3>1 DEF Fetch
      <4>2. Older(op[o]).stale \in {Current} \union Nat
        BY <3>1, OlderFetch DEF Fetch
      <4> QED
        BY <2>2, <3>1, <4>1, <4>2, OlderFetch DEF Current
    <3>3. q.age + 1 \in 0..MaxWait /\ q.lag + 1 \in 0..MaxWait /\ q.lag + 1 <= q.age + 1
      BY <3>2 DEF Fetch
    <3> QED
      BY <3>2, <3>3 DEF Good, Fetch
  <2>3. op' \in [Ops -> {r \in Fetch \union Write \union {Idle} : Good(r)}]
    BY <1>10, <1>a, <1>b, <1>f, <2>1, <2>2 DEF Tick
  <2>4. ASSUME NEW p \in Procs, ~(cache[p].left <= 1) PROVE [Older(cache[p]) EXCEPT !.left = @ - 1] \in Entry
    <3>1. cache[p] \in Entry
      BY <1>a, <2>4 DEF NoEntry
    <3>2. Older(cache[p]) \in Entry /\ Older(cache[p]).left = cache[p].left
      BY <3>1, OlderCopy
    <3>3. cache[p].left \in 1..TTL
      BY <3>1 DEF Entry
    <3>4. Older(cache[p]).left - 1 \in 1..TTL
      BY <2>4, <3>2, <3>3
    <3> QED
      BY <3>2, <3>4 DEF Entry
  <2>5. cache' \in [Procs -> Entry \union {NoEntry}]
    BY <1>10, <2>4 DEF Tick
  <2> QED
    BY <1>10, <1>a, <1>d, <2>3, <2>5 DEF Tick
<1>11. CASE UNCHANGED vars
  BY <1>11 DEF vars, TypeOK, OpInv
<1> QED
  BY <1>1, <1>2, <1>3, <1>4, <1>5, <1>6, <1>7, <1>8, <1>9, <1>10, <1>11 DEF Next

\* Every step preserves the relation between the age and the life of entries.
LEMMA NextLife ==
  ASSUME TypeOK, OpInv, LifeInv, [Next]_vars
  PROVE  LifeInv'
<1> USE CachesAssumption
<1>a. /\ cache \in [Procs -> Entry \union {NoEntry}]
      /\ op \in [Ops -> Fetch \union Write \union {Idle}]
  BY DEF TypeOK
<1> DEFINE Good(c) == c.left > 0 => c.stale + c.left <= TTL + c.lag
<1>b. \A p \in Procs : Good(cache[p])
  BY DEF LifeInv, Fresh
<1>c. Good(NoEntry)
  BY DEF NoEntry
<1>d. ASSUME \A p \in Procs : Good(cache'[p]) PROVE LifeInv'
  BY <1>d DEF LifeInv, Fresh
<1>e. ASSUME cache' = cache PROVE LifeInv'
  BY <1>b, <1>d, <1>e
<1>1. ASSUME NEW o \in Ops, Fill(o) PROVE LifeInv'
  <2>1. Good(NewEntry(o))
    BY <1>1, LifeIs DEF Fill
  <2> HIDE DEF Good
  <2> QED
    BY <1>1, <1>a, <1>b, <1>c, <1>d, <2>1 DEF Fill
<1>2. ASSUME NEW o \in Ops, Invalidate(o) PROVE LifeInv'
  <2> HIDE DEF Good
  <2> QED
    BY <1>2, <1>a, <1>b, <1>c, <1>d DEF Invalidate
<1>3. ASSUME NEW p \in Procs, Restart(p) PROVE LifeInv'
  <2> HIDE DEF Good
  <2> QED
    BY <1>3, <1>a, <1>b, <1>c, <1>d DEF Restart
<1>4. ASSUME NEW o \in Ops, Save(o) PROVE LifeInv'
  <2>1. ASSUME NEW p \in Procs, Fresh(p) PROVE Good([Superseded(cache[p]) EXCEPT !.overlap = FALSE])
    <3>1. cache[p] \in Entry /\ Good(cache[p])
      BY <1>a, <1>b, <2>1 DEF Fresh, NoEntry
    <3>2. PICK c \in Entry : c = [Superseded(cache[p]) EXCEPT !.overlap = FALSE]
      BY <3>1, OlderCopy DEF Entry
    <3>3. c.left = cache[p].left /\ c.lag = cache[p].lag /\ (c.stale = cache[p].stale \/ c.stale = 0)
      BY <3>1, <3>2, OlderCopy DEF Entry
    <3>4. c.left \in 1..TTL /\ c.lag \in 0..MaxWait
      BY DEF Entry
    <3>5. Good(c)
      BY <3>1, <3>3, <3>4
    <3> QED
      BY <3>2, <3>5
  <2> HIDE DEF Good
  <2> QED
    BY <1>4, <1>a, <1>b, <1>d, <2>1 DEF Save
<1>5. CASE Tick
  <2>1. ASSUME NEW p \in Procs, ~(cache[p].left <= 1) PROVE Good([Older(cache[p]) EXCEPT !.left = @ - 1])
    <3>1. cache[p] \in Entry /\ Good(cache[p])
      BY <1>a, <1>b, <2>1 DEF NoEntry
    <3>2. Older(cache[p]) \in Entry /\ Older(cache[p]).left = cache[p].left /\ Older(cache[p]).lag = cache[p].lag
          /\ Older(cache[p]).stale <= cache[p].stale + 1
      BY <3>1, OlderCopy
    <3>3. PICK c : c = [Older(cache[p]) EXCEPT !.left = @ - 1]
      OBVIOUS
    <3>4. c.left = cache[p].left - 1 /\ c.lag = cache[p].lag /\ c.stale = Older(cache[p]).stale
      BY <3>2, <3>3 DEF Entry
    <3>5. cache[p].left \in 1..TTL /\ cache[p].lag \in 0..MaxWait /\ cache[p].stale \in {Current} \union Nat
          /\ Older(cache[p]).stale \in {Current} \union Nat
      BY <3>1, <3>2 DEF Entry
    <3>6. c.left \in Int /\ c.stale + c.left <= TTL + c.lag
      BY <2>1, <3>1, <3>2, <3>4, <3>5 DEF Current
    <3>7. Good(c)
      BY <3>6
    <3> QED
      BY <3>3, <3>7
  <2> HIDE DEF Good
  <2> QED
    BY <1>5, <1>a, <1>b, <1>c, <1>d, <2>1 DEF Tick
<1>6. ASSUME NEW o \in Ops, FindRow(o) \/ NotFilled(o) \/ WriteFails(o) PROVE LifeInv'
  BY <1>6, <1>e DEF FindRow, NotFilled, WriteFails
<1>7. ASSUME NEW o \in Ops, NEW p \in Procs, Look(o, p) PROVE LifeInv'
  BY <1>7, <1>e DEF Look
<1>8. ASSUME NEW o \in Ops, NEW p \in Procs, NEW job \in Jobs, StartWrite(o, p, job) PROVE LifeInv'
  BY <1>8, <1>e DEF StartWrite
<1>9. CASE UNCHANGED vars
  BY <1>9, <1>e DEF vars
<1> HIDE DEF Good
<1> QED
  BY <1>1, <1>2, <1>3, <1>4, <1>5, <1>6, <1>7, <1>8, <1>9 DEF Next

\* Every step preserves that the last writer sees its own write.
LEMMA NextOwn ==
  ASSUME TypeOK, OpInv, OwnWritesSeen, [Next]_vars
  PROVE  OwnWritesSeen'
<1> USE CachesAssumption
<1>a. /\ cache \in [Procs -> Entry \union {NoEntry}]
      /\ op \in [Ops -> Fetch \union Write \union {Idle}]
  BY DEF TypeOK
<1> DEFINE Good(c, p) == c.left > 0 /\ c.stale # Current => Unfinished(p) \/ c.overlap
           Waits(w, p) == op[w].pc = "write" /\ op[w].proc = p /\ op[w].done > 0 /\ NextStep(w) = "invalidate"
<1>b. ASSUME NEW p \in Procs, writer = p PROVE Good(cache[p], p)
  BY <1>b DEF OwnWritesSeen, Fresh
<1>c. ASSUME \A p \in Procs : writer' = p /\ cache'[p].left > 0 /\ cache'[p].stale # Current =>
                                Unfinished(p)' \/ cache'[p].overlap
      PROVE  OwnWritesSeen'
  BY <1>c DEF OwnWritesSeen, Fresh
<1>d. ASSUME NEW p \in Procs, Unfinished(p), \A w \in Ops : Waits(w, p) => op'[w] = op[w]
      PROVE  Unfinished(p)'
  BY <1>d DEF Unfinished, NextStep
<1>e. ASSUME writer' = writer,
             \A w \in Ops : op[w].pc = "write" => op'[w] = op[w],
             \A p \in Procs : \/ cache'[p] = cache[p] \/ cache'[p].left <= 0 
                              \/ cache'[p].stale # Current => cache'[p].overlap
      PROVE  OwnWritesSeen'
  <2> SUFFICES ASSUME NEW p \in Procs, writer = p, cache'[p].left > 0, cache'[p].stale # Current,
                      ~cache'[p].overlap, cache'[p] = cache[p] \/ cache'[p].left <= 0
               PROVE  Unfinished(p)'
    BY <1>c, <1>e
  <2>1. cache'[p] = cache[p]
    <3>1. CASE cache'[p].left <= 0
      <4>1. cache'[p] \in Entry \union {NoEntry}
        BY NextOps DEF TypeOK
      <4>2. cache'[p].left \in Int
        BY <4>1 DEF Entry, NoEntry
      <4> QED
        BY <3>1, <4>2
    <3> QED
      BY <3>1
  <2>2. Unfinished(p)
    BY <1>b, <2>1
  <2> QED
    BY <1>d, <1>e, <2>2
<1>f. Idle.pc = "idle" /\ NoEntry.left = 0
  BY DEF Idle, NoEntry
<1>1. ASSUME NEW o \in Ops, NEW p \in Procs, Look(o, p) PROVE OwnWritesSeen'
  BY <1>1, <1>a, <1>e, <1>f DEF Look
<1>2. ASSUME NEW o \in Ops, NEW p \in Procs, NEW job \in Jobs, StartWrite(o, p, job) PROVE OwnWritesSeen'
  BY <1>2, <1>a, <1>e, <1>f DEF StartWrite
<1>3. ASSUME NEW o \in Ops, FindRow(o) \/ NotFilled(o) PROVE OwnWritesSeen'
  BY <1>3, <1>a, <1>e, <1>f DEF FindRow, NotFilled
<1>4. ASSUME NEW o \in Ops, Fill(o) PROVE OwnWritesSeen'
  <2>1. NewEntry(o).stale # Current => NewEntry(o).overlap
    BY <1>4, LifeIs DEF Fill
  <2> QED
    BY <1>4, <1>a, <1>e, <1>f, <2>1 DEF Fill
<1>5. ASSUME NEW o \in Ops, Invalidate(o) PROVE OwnWritesSeen'
  <2> SUFFICES ASSUME NEW p \in Procs, writer = p, cache'[p].left > 0, cache'[p].stale # Current, ~cache'[p].overlap
               PROVE  Unfinished(p)'
    BY <1>5, <1>c DEF Invalidate
  <2>1. p # op[o].proc
    BY <1>5, <1>a, <1>f DEF Invalidate
  <2>2. cache'[p] = cache[p] /\ op' = [op EXCEPT ![o] = Advanced(o)]
    BY <1>5, <1>a, <2>1 DEF Invalidate
  <2>3. Unfinished(p)
    BY <1>b, <2>2
  <2> QED
    BY <1>a, <1>d, <2>1, <2>2, <2>3
<1>6. ASSUME NEW o \in Ops, Save(o) PROVE OwnWritesSeen'
  <2> SUFFICES ASSUME NEW p \in Procs, p = op[o].proc, op[o].job # "put" PROVE Unfinished(p)'
    BY <1>6, <1>c DEF Save
  <2>1. op[o] \in Write /\ op[o].pc = "write" /\ NextStep(o) = "save" /\ op[o].done < Len(StepsOf(op[o].job))
    BY <1>6, <1>a, FetchOrWrite DEF Save, OpInv
  <2>2. op'[o] = Advanced(o)
    BY <1>6, <1>a DEF Save
  <2>3. /\ op[o].job = "update" => op[o].done = 0
        /\ op[o].job = "bulk" => op[o].done = 1
        /\ op[o].job \in {"update", "bulk"}
    BY <2>1, StepsAre DEF NextStep, Write, Jobs
  <2>4. op[o].done + 1 # Len(StepsOf(op[o].job))
    BY <2>3, StepsAre
  <2>5. op'[o] \in Write /\ op'[o].proc = p /\ op'[o].job = op[o].job /\ op'[o].done = op[o].done + 1
    BY <2>1, <2>2, <2>4, AdvancedIs
  <2>6. StepsOf(op'[o].job)[op'[o].done + 1] = "invalidate"
    BY <2>3, <2>5, StepsAre
  <2>7. op'[o].pc = "write" /\ op'[o].done > 0
    BY <2>3, <2>5 DEF Write
  <2> QED
    BY <2>5, <2>6, <2>7 DEF Unfinished, NextStep
<1>7. ASSUME NEW o \in Ops, WriteFails(o) PROVE OwnWritesSeen'
  BY <1>7, <1>c DEF WriteFails
<1>8. ASSUME NEW q \in Procs, Restart(q) PROVE OwnWritesSeen'
  <2> SUFFICES ASSUME NEW p \in Procs, writer = p, cache'[p].left > 0, cache'[p].stale # Current, ~cache'[p].overlap
               PROVE  Unfinished(p)'
    BY <1>8, <1>c DEF Restart
  <2>1. p # q /\ cache'[p] = cache[p]
    BY <1>8, <1>a, <1>f DEF Restart
  <2>2. Unfinished(p)
    BY <1>b, <2>1
  <2> QED
    BY <1>8, <1>d, <2>1, <2>2 DEF Restart
<1>9. CASE Tick
  <2> SUFFICES ASSUME NEW p \in Procs, writer = p, cache'[p].left > 0, cache'[p].stale # Current, ~cache'[p].overlap
               PROVE  Unfinished(p)'
    BY <1>9, <1>c DEF Tick
  <2>1. ~(cache[p].left <= 1) /\ cache'[p] = [Older(cache[p]) EXCEPT !.left = @ - 1]
    <3>1. cache'[p] # NoEntry
      BY <1>f
    <3>2. cache'[p] = IF cache[p].left <= 1 THEN NoEntry ELSE [Older(cache[p]) EXCEPT !.left = @ - 1]
      BY <1>9, Zenon DEF Tick
    <3> QED
      BY <3>1, <3>2
  <2>2. cache[p] \in Entry
    BY <1>a, <2>1 DEF NoEntry
  <2>3. cache[p].left > 0
    BY <2>1, <2>2 DEF Entry
  <2>4. Older(cache[p]) \in Entry /\ Older(cache[p]).overlap = cache[p].overlap
        /\ (Older(cache[p]).stale = Current <=> cache[p].stale = Current)
    BY <2>2, OlderCopy
  <2>5. cache'[p].stale = Older(cache[p]).stale /\ cache'[p].overlap = Older(cache[p]).overlap
    BY <2>1, <2>4 DEF Entry
  <2>6. Unfinished(p)
    BY <1>b, <2>3, <2>4, <2>5
  <2>7. \A w \in Ops : op[w].pc = "write" => op'[w] = op[w]
    BY <1>9 DEF Tick
  <2> QED
    BY <1>d, <2>6, <2>7
<1>10. CASE UNCHANGED vars
  BY <1>10, <1>e DEF vars
<1> HIDE DEF Good, Waits
<1> QED
  BY <1>1, <1>2, <1>3, <1>4, <1>5, <1>6, <1>7, <1>8, <1>9, <1>10 DEF Next

-----------------------------------------------------------------------------
\* The invariant holds throughout.
LEMMA SpecIInv == Spec => []IInv
<1>1. Init => IInv
  BY InitIInv
<1>2. IInv /\ [Next]_vars => IInv'
  BY NextOps, NextLife, NextOwn DEF IInv
<1> QED
  BY <1>1, <1>2, PTL DEF Spec

\* The caches, fetches and writes keep their types: an entry lives as long as TTL
\* at most, and a fetch as long as MaxWait.
THEOREM TypeCorrect == Spec => []TypeOK
  BY SpecIInv, PTL DEF IInv

(***************************************************************************)
(* No process answers from an entry that was superseded longer ago than    *)
(* TTL and, for settings, the time its fetch took.                         *)
(***************************************************************************)
THEOREM StaleTheorem == Spec => []StaleBounded
<1>1. IInv => StaleBounded
  <2> SUFFICES ASSUME IInv, NEW p \in Procs, Fresh(p) PROVE cache[p].stale < TTL + cache[p].lag
    BY DEF StaleBounded
  <2>1. cache[p] \in Entry
    BY DEF IInv, TypeOK, Fresh, NoEntry
  <2>2. cache[p].stale + cache[p].left <= TTL + cache[p].lag
    BY DEF IInv, LifeInv
  <2>3. cache[p].left \in 1..TTL /\ cache[p].stale \in {Current} \union Nat /\ cache[p].lag \in 0..MaxWait
    BY <2>1 DEF Entry
  <2> QED
    BY <2>2, <2>3, CachesAssumption DEF Current
<1> QED
  BY <1>1, SpecIInv, PTL

(***************************************************************************)
(* The process that wrote last does not answer with an older value once    *)
(* its write is done, unless a fetch of its own spanned the write.         *)
(***************************************************************************)
THEOREM OwnWritesTheorem == Spec => []OwnWritesSeen
<1>1. IInv => OwnWritesSeen
  BY DEF IInv
<1> QED
  BY <1>1, SpecIInv, PTL
=============================================================================
