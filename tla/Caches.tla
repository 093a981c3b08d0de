------------------------------- MODULE Caches -------------------------------
(***************************************************************************)
(* The caches of settings (backend/src/modules/settings, 60 s) and of      *)
(* feature flags (backend/src/modules/feature-flags, 30 s): a map in every *)
(* process, of which other processes hear nothing.                         *)
(*                                                                         *)
(* One key, of the one or of the other.  Its values do not matter, only    *)
(* how long ago a value was superseded in the database: the time is        *)
(* counted in each copy, not on a clock of its own.                        *)
(***************************************************************************)
EXTENDS Integers, Sequences

CONSTANTS
  Procs,
  Ops,       \* fetches and writes that may be under way at a time
  TTL,       \* CACHE_TTL_MS
  MaxWait    \* bound on the duration of a fetch

Nobody == "nobody"
Current == -1

ASSUME CachesAssumption == TTL \in Nat \ {0} /\ MaxWait \in Nat /\ Nobody \notin Procs

VARIABLES
  kind,      \* "settings" or "flags"
  cache,     \* of each process: the entry of the key
  op,
  writer     \* history: the process that wrote last and will have invalidated
             \* its entry by the time it answers; Nobody if there is none

vars == <<kind, cache, op, writer>>

\* left: until it expires; stale: since its value was superseded; lag: from the
\* read of the value to the entry (history; kept for settings only); overlap:
\* the last write came between the two (history).
Entry == [left : 1..TTL, stale : {Current} \union Nat, lag : 0..MaxWait, overlap : BOOLEAN]
NoEntry == [left |-> 0, stale |-> Current, lag |-> 0, overlap |-> FALSE]

\* age: since the entry was looked up; lag: since the row was read.
Fetch == [pc : {"find", "fill"}, proc : Procs, age : 0..MaxWait, lag : 0..MaxWait,
          stale : {Current} \union Nat]

Jobs == {"bulk", "put", "update"}
Write == [pc : {"write"}, proc : Procs, job : Jobs, done : 0..2]
Idle == [pc |-> "idle"]

TypeOK ==
  /\ kind \in {"settings", "flags"}
  /\ cache \in [Procs -> Entry \union {NoEntry}]
  /\ op \in [Ops -> Fetch \union Write \union {Idle}]
  /\ writer \in Procs \union {Nobody}

Init ==
  /\ kind \in {"settings", "flags"}
  /\ cache = [p \in Procs |-> NoEntry]
  /\ op = [o \in Ops |-> Idle]
  /\ writer = Nobody

-----------------------------------------------------------------------------
(* Reading: getOrDefault and getFlagCached.                                *)

Fresh(p) == cache[p].left > 0

\* A fresh entry is answered at once, which changes nothing.
Look(o, p) ==
  /\ op[o] = Idle
  /\ ~Fresh(p)
  /\ op' = [op EXCEPT ![o] = [pc |-> "find", proc |-> p, age |-> 0, lag |-> 0, stale |-> Current]]
  /\ UNCHANGED <<kind, cache, writer>>

FindRow(o) ==
  /\ op[o].pc = "find"
  /\ op' = [op EXCEPT ![o].pc = "fill"]
  /\ UNCHANGED <<kind, cache, writer>>

\* Mutant: the life of a flag's entry is counted from the end of the fetch.
Life_FromFill(o) == TTL

\* What is left of an entry when it is made: settings count from now, flags
\* from when they looked the entry up.
Life(o) == IF kind = "settings" THEN TTL ELSE TTL - op[o].age

NewEntry(o) ==
  [left |-> Life(o), stale |-> op[o].stale,
   lag |-> IF kind = "settings" THEN op[o].lag ELSE 0,
   overlap |-> op[o].stale # Current]

Fill(o) ==
  /\ op[o].pc = "fill"
  /\ cache' = [cache EXCEPT ![op[o].proc] = IF Life(o) > 0 THEN NewEntry(o) ELSE NoEntry]
  /\ op' = [op EXCEPT ![o] = Idle]
  /\ UNCHANGED <<kind, writer>>

\* A setting that cannot be parsed is not cached; or the call fails.
NotFilled(o) ==
  /\ op[o].pc \in {"find", "fill"}
  /\ op' = [op EXCEPT ![o] = Idle]
  /\ UNCHANGED <<kind, cache, writer>>

-----------------------------------------------------------------------------
(* Writing.  bulkSet invalidates, saves (set), and invalidates all keys at *)
(* the end; the PUT of one setting saves and does not know of the cache;   *)
(* flags (create, update, delete) save and invalidate.                     *)

\* Mutant: flags are invalidated, like settings, before they are saved.
StepsOf_InvalidateFirst(job) ==
  CASE job = "bulk"   -> <<"invalidate", "save", "invalidate">>
    [] job = "put"    -> <<"save">>
    [] job = "update" -> <<"invalidate", "save">>

StepsOf(job) ==
  CASE job = "bulk"   -> <<"invalidate", "save", "invalidate">>
    [] job = "put"    -> <<"save">>
    [] job = "update" -> <<"save", "invalidate">>

StartWrite(o, p, job) ==
  /\ op[o] = Idle
  /\ kind = "flags" <=> job = "update"
  /\ op' = [op EXCEPT ![o] = [pc |-> "write", proc |-> p, job |-> job, done |-> 0]]
  /\ UNCHANGED <<kind, cache, writer>>

NextStep(o) == StepsOf(op[o].job)[op[o].done + 1]

Advanced(o) ==
  IF op[o].done + 1 = Len(StepsOf(op[o].job)) THEN Idle ELSE [op[o] EXCEPT !.done = @ + 1]

Invalidate(o) ==
  /\ op[o].pc = "write" /\ NextStep(o) = "invalidate"
  /\ cache' = [cache EXCEPT ![op[o].proc] = NoEntry]
  /\ op' = [op EXCEPT ![o] = Advanced(o)]
  /\ UNCHANGED <<kind, writer>>

Superseded(copy) == IF copy.stale = Current THEN [copy EXCEPT !.stale = 0] ELSE copy

\* All copies of the old value are stale from now on; a second write does not
\* make them younger.
Save(o) ==
  /\ op[o].pc = "write" /\ NextStep(o) = "save"
  /\ cache' = [p \in Procs |-> IF Fresh(p) THEN [Superseded(cache[p]) EXCEPT !.overlap = FALSE]
                               ELSE cache[p]]
  /\ op' = [q \in Ops |-> IF q = o THEN Advanced(o)
                          ELSE IF op[q].pc = "fill" THEN Superseded(op[q]) ELSE op[q]]
  /\ writer' = IF op[o].job = "put" THEN Nobody ELSE op[o].proc
  /\ UNCHANGED kind

\* A call fails: bulkSet then leaves the keys it has saved as they are cached.
WriteFails(o) ==
  /\ op[o].pc = "write" /\ (NextStep(o) = "save" \/ op[o].job = "bulk")
  /\ op' = [op EXCEPT ![o] = Idle]
  /\ writer' = Nobody
  /\ UNCHANGED <<kind, cache>>

\* A process restarts with an empty cache.
Restart(p) ==
  /\ cache' = [cache EXCEPT ![p] = NoEntry]
  /\ op' = [o \in Ops |-> IF op[o] # Idle /\ op[o].proc = p THEN Idle ELSE op[o]]
  /\ UNCHANGED <<kind, writer>>

-----------------------------------------------------------------------------
Older(copy) == IF copy.stale = Current THEN copy ELSE [copy EXCEPT !.stale = @ + 1]

Fetching(o) == op[o].pc \in {"find", "fill"}

Tick ==
  /\ \A o \in Ops : Fetching(o) => op[o].age < MaxWait
  /\ cache' = [p \in Procs |->
                IF cache[p].left <= 1 THEN NoEntry ELSE [Older(cache[p]) EXCEPT !.left = @ - 1]]
  /\ op' = [o \in Ops |->
             IF op[o].pc = "find" THEN [op[o] EXCEPT !.age = @ + 1]
             ELSE IF op[o].pc = "fill" THEN [Older(op[o]) EXCEPT !.age = @ + 1, !.lag = @ + 1]
             ELSE op[o]]
  /\ UNCHANGED <<kind, writer>>

Next ==
  \/ \E o \in Ops : FindRow(o) \/ Fill(o) \/ NotFilled(o) \/ Invalidate(o) \/ Save(o) \/ WriteFails(o)
  \/ \E o \in Ops, p \in Procs : Look(o, p)
  \/ \E o \in Ops, p \in Procs, job \in Jobs : StartWrite(o, p, job)
  \/ \E p \in Procs : Restart(p)
  \/ Tick

Spec == Init /\ [][Next]_vars

-----------------------------------------------------------------------------
(***************************************************************************)
(* No process answers from its cache with a flag that was superseded a     *)
(* whole TTL ago, however slow its fetch was; with a setting, the time     *)
(* from the read of the row to the entry comes on top.                     *)
(***************************************************************************)
StaleBounded == \A p \in Procs : Fresh(p) => cache[p].stale < TTL + cache[p].lag

\* The process has saved and not invalidated yet.
Unfinished(p) ==
  \E o \in Ops : op[o].pc = "write" /\ op[o].proc = p /\ op[o].done > 0 /\ NextStep(o) = "invalidate"

(***************************************************************************)
(* The process that wrote last has no older value in its cache once it has *)
(* answered, unless a fetch of its own had read the row before the write   *)
(* and made its entry after it.  (The PUT of one setting, and a bulkSet    *)
(* that fails at a later key, promise nothing.)                            *)
(***************************************************************************)
OwnWritesSeen ==
  \A p \in Procs :
    writer = p /\ Fresh(p) /\ cache[p].stale # Current => Unfinished(p) \/ cache[p].overlap
=============================================================================
