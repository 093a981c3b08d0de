--------------------------- MODULE WebhooksProofs ---------------------------
(***************************************************************************)
(* Theorems about Webhooks, for any number of events, workers, cron runs,  *)
(* administrators, attempts, jobs, deaths and calls that throw.            *)
(***************************************************************************)
EXTENDS Webhooks, FiniteSetTheorems, SequenceTheorems, TLAPS

-----------------------------------------------------------------------------
(* The invariant.                                                          *)

\* A worker at work has a job of its own, which is active until it ends.
WorkerInv ==
  /\ \A w \in Workers : wpc[w] # "idle" =>
       /\ wjob[w] \in DOMAIN jobs
       /\ jobs[wjob[w]].state = IF wpc[w] = "bury" THEN "failed" ELSE "active"
  /\ \A w, v \in Workers : wpc[w] # "idle" /\ wpc[v] # "idle" /\ wjob[w] = wjob[v] => w = v

\* Attempts are left to a job that is open, and one that failed has had them all
\* or has stalled too often.
AttemptInv ==
  \A j \in DOMAIN jobs :
    /\ Open(j) => jobs[j].attemptsMade < MaxAttempts /\ jobs[j].stalls <= MaxStalledCount
    /\ jobs[j].state = "failed" => jobs[j].attemptsMade >= MaxAttempts \/ StalledOut(j)

\* Only the jobs of the queue have letters, and administrators deal with these.
LetterInv ==
  /\ Len(jobs) <= MaxJobs
  /\ \A j \in 1..MaxJobs : deadLetters[j] # "none" => j \in DOMAIN jobs
  /\ \A a \in Admins : apc[a] # "idle" => aletter[a] \in DOMAIN jobs

\* A run of the cron job has the lock or has outlived it and, until it ends,
\* rows to deal with.
CronInv ==
  /\ \A i \in Crons : cpc[i] # "idle" => lock \/ i \in outlived
  /\ CronExclusive
  /\ \A i \in Crons : cpc[i] \in {"enqueue", "mark"} => ctodo[i] # {}

TypeInv == TypeOK /\ WorkerInv /\ AttemptInv /\ LetterInv /\ CronInv

\* What was read of the webhook is what it is or was.
BeenInv ==
  /\ hook # "active" => hook \in been
  /\ \A w \in Workers : wseen[w] # "active" => wseen[w] \in been

\* A failed delivery of the event is left for the cron job.
Hopeful(e) == \E d \in Retriable : rows[d].event = e

\* The attempts of the job that are over and could have left a delivery to
\* retry all threw before it was logged.
Missed(j) == \A k \in 1..jobs[j].attemptsMade : k < MaxAttempts => k \in unlogged[j]

\* A worker that reports success has reached the receiver, or the webhook was
\* switched off and the delivery that says so is there.
OutcomeOf(w) ==
  /\ wpc[w] \in {"idle", "post"} => ~ wok[w]
  /\ wpc[w] \in {"save", "log"} /\ wok[w] => Event(w) \in received
  /\ wpc[w] = "end" /\ wok[w] /\ "deleted" \notin been /\ ~ NeverLogged(wjob[w]) =>
       Event(w) \in received \/ (been # {} /\ Hopeful(Event(w)))
  /\ wpc[w] = "end" /\ ~ wok[w] /\ "deleted" \notin been /\ ~ NeverLogged(wjob[w]) =>
       Hopeful(Event(w))

OutcomeInv == \A w \in Workers : OutcomeOf(w)

\* What became of a job.
JobOf(j) ==
  /\ "deleted" \notin been /\ ~ Missed(j) => Hopeful(jobs[j].event)
  /\ jobs[j].state = "completed" /\ "deleted" \notin been /\ ~ NeverLogged(j) =>
       jobs[j].event \in received \/ (been # {} /\ Hopeful(jobs[j].event))
  /\ jobs[j].state = "failed" /\ ~ StalledOut(j) =>
       deadLetters[j] # "none" \/ faults > 0 \/ \E w \in Workers : wpc[w] = "bury" /\ wjob[w] = j

JobInv == \A j \in DOMAIN jobs : JobOf(j)

Later(j) == \E k \in DOMAIN jobs : k > j /\ jobs[k].event = jobs[j].event

\* Whatever was put in the queue again has a later job, and there is a last one.
LastInv ==
  /\ \A j \in DOMAIN jobs : deadLetters[j] = "requeued" => Later(j)
  /\ \A a \in Admins : apc[a] = "save" => Later(aletter[a])
  /\ \A e \in Events : Triggered(e) => \E j \in DOMAIN jobs : jobs[j].event = e /\ ~ Later(j)

IInv == TypeInv /\ BeenInv /\ OutcomeInv /\ JobInv /\ LastInv

-----------------------------------------------------------------------------
(* Sequences of jobs and of deliveries, and the next row of the cron job.  *)

\* Among the intervals that start at 0 and end in S one contains no other.
LEMMA MinIn == ASSUME NEW S \in SUBSET Nat, S # {} PROVE Min(S) \in S
<1> DEFINE T == {0..x : x \in S}
<1>1. T # {} /\ T \subseteq FiniteSubsetsOf(Nat)
  <2>1. ASSUME NEW x \in S PROVE IsFiniteSet(0..x) /\ 0..x \subseteq Nat
    BY FS_Interval
  <2> QED
    BY <2>1 DEF FiniteSubsetsOf
<1>2. PICK t \in T : \A u \in T : ~ (<<u, t>> \in StrictSubsetOrdering(Nat))
  <2> HIDE DEF T
  <2> QED
    BY <1>1, FS_StrictSubsetOrderingWellFounded, WFMin
<1>3. PICK x \in S : t = 0..x
  OBVIOUS
<1>4. ASSUME NEW y \in S, y < x PROVE FALSE
  <2>1. 0..y \subseteq 0..x /\ 0..y # 0..x
    <3>1. x \in 0..x /\ x \notin 0..y
      BY <1>4
    <3> QED
      BY <1>4, <3>1
  <2>2. <<0..y, 0..x>> \in StrictSubsetOrdering(Nat)
    BY <2>1 DEF StrictSubsetOrdering
  <2> QED
    BY <1>2, <1>3, <2>2
<1>5. \A y \in S : x <= y
  BY <1>4
<1> QED
  BY <1>5 DEF Min

\* A queue with one job more.
LEMMA NewJob ==
  ASSUME TypeOK, NEW e \in Events, AddJob(e), NEW n, n = Len(jobs) + 1
  PROVE  /\ jobs' \in Seq(Job) /\ n \in Nat /\ n <= MaxJobs
         /\ Len(jobs') = n /\ DOMAIN jobs' = DOMAIN jobs \cup {n} /\ n \notin DOMAIN jobs
         /\ \A j \in DOMAIN jobs : jobs'[j] = jobs[j] /\ j < n
         /\ jobs'[n] = [event |-> e, state |-> "waiting", attemptsMade |-> 0, stalls |-> 0]
<1> DEFINE q == [event |-> e, state |-> "waiting", attemptsMade |-> 0, stalls |-> 0]
<1>1. q \in Job /\ jobs \in Seq(Job)
  BY WebhooksAssumption DEF Job, TypeOK
<1>2. jobs' = Append(jobs, q) /\ Len(jobs) < MaxJobs
  BY DEF AddJob
<1> HIDE DEF q
<1>3. /\ jobs' \in Seq(Job) /\ Len(jobs') = Len(jobs) + 1
      /\ \A j \in 1..Len(jobs) : jobs'[j] = jobs[j]
      /\ jobs'[Len(jobs) + 1] = q
  BY <1>1, <1>2, AppendProperties
<1>4. Len(jobs) \in Nat /\ DOMAIN jobs = 1..Len(jobs) /\ DOMAIN jobs' = 1..Len(jobs')
  BY <1>1, <1>3
<1> QED
  BY <1>2, <1>3, <1>4, WebhooksAssumption DEF q

\* A queue with one job changed.
LEMMA EditedJob ==
  ASSUME TypeOK, NEW j \in DOMAIN jobs, NEW q \in Job, jobs' = [jobs EXCEPT ![j] = q]
  PROVE  /\ jobs' \in Seq(Job) /\ Len(jobs') = Len(jobs) /\ DOMAIN jobs' = DOMAIN jobs
         /\ jobs'[j] = q
         /\ \A k \in DOMAIN jobs : k # j => jobs'[k] = jobs[k]
<1>1. jobs \in Seq(Job) /\ DOMAIN jobs = 1..Len(jobs) /\ j \in 1..Len(jobs)
  BY DEF TypeOK
<1>2. /\ jobs' \in Seq(Job) /\ Len(jobs') = Len(jobs)
      /\ \A k \in 1..Len(jobs) : jobs'[k] = IF k = j THEN q ELSE jobs[k]
  BY <1>1, ExceptSeq
<1> QED
  BY <1>1, <1>2

\* One delivery more.
LEMMA NewRow ==
  ASSUME TypeOK, NEW d \in Delivery, rows' = Append(rows, d)
  PROVE  /\ rows' \in Seq(Delivery) /\ DOMAIN rows' = DOMAIN rows \cup {Len(rows) + 1}
         /\ Len(rows) + 1 \notin DOMAIN rows
         /\ \A c \in DOMAIN rows : rows'[c] = rows[c]
         /\ rows'[Len(rows) + 1] = d
<1>1. rows \in Seq(Delivery) /\ DOMAIN rows = 1..Len(rows) /\ Len(rows) \in Nat
  BY DEF TypeOK
<1>2. /\ rows' \in Seq(Delivery) /\ Len(rows') = Len(rows) + 1
      /\ \A c \in 1..Len(rows) : rows'[c] = rows[c]
      /\ rows'[Len(rows) + 1] = d
  BY <1>1, AppendProperties
<1>3. DOMAIN rows' = 1..Len(rows')
  BY <1>2
<1> QED
  BY <1>1, <1>2, <1>3

\* One delivery changed.
LEMMA EditedRow ==
  ASSUME TypeOK, NEW c \in DOMAIN rows, NEW d \in Delivery, rows' = [rows EXCEPT ![c] = d]
  PROVE  /\ rows' \in Seq(Delivery) /\ DOMAIN rows' = DOMAIN rows
         /\ rows'[c] = d
         /\ \A b \in DOMAIN rows : b # c => rows'[b] = rows[b]
<1>1. rows \in Seq(Delivery) /\ DOMAIN rows = 1..Len(rows) /\ c \in 1..Len(rows)
  BY DEF TypeOK
<1>2. /\ rows' \in Seq(Delivery) /\ Len(rows') = Len(rows)
      /\ \A b \in 1..Len(rows) : rows'[b] = IF b = c THEN d ELSE rows[b]
  BY <1>1, ExceptSeq
<1> QED
  BY <1>1, <1>2

\* The initial state satisfies the invariant.
LEMMA InitIInv == Init => IInv
<1> SUFFICES ASSUME Init PROVE IInv
  OBVIOUS
<1>1. /\ jobs = << >> /\ rows = << >> /\ DOMAIN jobs = {} /\ DOMAIN rows = {} /\ Len(jobs) = 0
  BY DEF Init
<1>2. TypeOK
  <2>1. << >> \in Seq(Job) /\ << >> \in Seq(Delivery)
    OBVIOUS
  <2>2. ctodo \in [Crons -> SUBSET DOMAIN rows] /\ wjob \in [Workers -> 0..Len(jobs)]
    BY <1>1 DEF Init
  <2>3. /\ wpc \in [Workers -> WorkerSteps] /\ wseen \in [Workers -> HookStates]
        /\ wok \in [Workers -> BOOLEAN]
    BY DEF Init, HookStates, WorkerSteps
  <2>4. /\ deadLetters \in [1..MaxJobs -> {"none", "pending", "requeued", "purged", "removed"}]
        /\ cpc \in [Crons -> {"idle", "select", "enqueue", "mark"}]
        /\ apc \in [Admins -> {"idle", "requeue", "save", "purge", "remove"}]
        /\ aletter \in [Admins -> 0..MaxJobs]
        /\ unlogged \in [1..MaxJobs -> SUBSET (1..MaxAttempts)]
    BY WebhooksAssumption DEF Init
  <2> QED
    BY <1>1, <2>1, <2>2, <2>3, <2>4 DEF Init, TypeOK, HookStates
<1>3. WorkerInv /\ AttemptInv /\ LetterInv /\ CronInv
  BY <1>1, WebhooksAssumption DEF Init, WorkerInv, AttemptInv, LetterInv, CronInv, CronExclusive
<1>4. BeenInv /\ OutcomeInv /\ JobInv /\ LastInv
  BY <1>1 DEF Init, BeenInv, OutcomeInv, OutcomeOf, JobInv, LastInv, Triggered
<1> QED
  BY <1>2, <1>3, <1>4 DEF IInv, TypeInv

-----------------------------------------------------------------------------
(* Types.                                                                  *)

\* A job that is put in the queue disturbs nobody.
LEMMA AddedType ==
  ASSUME TypeInv, NEW e \in Events, AddJob(e),
         UNCHANGED <<hook, rows, deadLetters, received, workerVars, lock, ctodo, outlived, aletter, faults,
                     been, unlogged>>,
         cpc' \in [Crons -> {"idle", "select", "enqueue", "mark"}],
         apc' \in [Admins -> {"idle", "requeue", "save", "purge", "remove"}],
         \A i \in Crons : cpc'[i] # "idle" => cpc[i] # "idle" /\ (cpc[i] # "select" \/ cpc'[i] = "select"),
         \A a \in Admins : apc'[a] # "idle" => apc[a] # "idle"
  PROVE  TypeInv'
<1> DEFINE n == Len(jobs) + 1
<1>a. Len(jobs) \in Nat /\ n = Len(jobs) + 1 /\ TypeOK
  BY DEF TypeInv, TypeOK
<1> HIDE DEF n
<1>1. /\ jobs' \in Seq(Job) /\ n \in Nat /\ n <= MaxJobs
      /\ Len(jobs') = n /\ DOMAIN jobs' = DOMAIN jobs \cup {n} /\ n \notin DOMAIN jobs
      /\ \A j \in DOMAIN jobs : jobs'[j] = jobs[j]
      /\ jobs'[n] = [event |-> e, state |-> "waiting", attemptsMade |-> 0, stalls |-> 0]
  BY <1>a, NewJob
<1>2. jobs'[n].state = "waiting" /\ jobs'[n].attemptsMade = 0 /\ jobs'[n].stalls = 0
  BY <1>1
<1>3. wjob' \in [Workers -> 0..Len(jobs')]
  BY <1>1, <1>a DEF TypeInv, TypeOK, workerVars
<1>4. TypeOK'
  BY <1>1, <1>3 DEF TypeInv, TypeOK, workerVars
<1>5. WorkerInv'
  BY <1>1, <1>2 DEF TypeInv, WorkerInv, workerVars
<1>6. AttemptInv'
  BY <1>1, <1>2, WebhooksAssumption DEF TypeInv, AttemptInv, Open, StalledOut, MaxStalledCount
<1>7. LetterInv'
  BY <1>1 DEF TypeInv, LetterInv
<1>8. CronInv'
  <2>1. \A i \in Crons : cpc[i] \in {"idle", "select", "enqueue", "mark"}
    BY DEF TypeInv, TypeOK
  <2> QED
    BY <2>1 DEF TypeInv, CronInv, CronExclusive
<1> QED
  BY <1>4, <1>5, <1>6, <1>7, <1>8 DEF TypeInv

\* Where the queue and the deliveries are as before, and workers and letters.
LEMMA SameQueueType ==
  ASSUME TypeInv, TypeOK', UNCHANGED <<jobs, deadLetters, wpc, wjob>>
  PROVE  WorkerInv' /\ AttemptInv'
  BY DEF TypeInv, WorkerInv, AttemptInv, Open, StalledOut

\* The steps of the cron job.
LEMMA CronType ==
  ASSUME TypeInv, NEW i \in Crons, Acquire(i) \/ CronStep(i) \/ CronDies(i)
  PROVE  TypeInv'
<1>a. /\ cpc \in [Crons -> {"idle", "select", "enqueue", "mark"}]
      /\ ctodo \in [Crons -> SUBSET DOMAIN rows] /\ faults \in Nat
      /\ rows \in Seq(Delivery)
  BY DEF TypeInv, TypeOK
<1>b. \A c \in DOMAIN rows : rows[c] \in Delivery /\ c \in Nat
  BY <1>a
<1>m. cpc[i] \in {"enqueue", "mark"} => Min(ctodo[i]) \in ctodo[i] /\ Min(ctodo[i]) \in DOMAIN rows
  <2> SUFFICES ASSUME cpc[i] \in {"enqueue", "mark"} PROVE Min(ctodo[i]) \in ctodo[i]
    BY <1>a
  <2>1. ctodo[i] \in SUBSET Nat /\ ctodo[i] # {}
    BY <1>a, <1>b DEF TypeInv, CronInv
  <2> QED
    BY <2>1, MinIn
<1>1. CASE Acquire(i)
  <2>1. TypeOK'
    BY <1>a, <1>1 DEF TypeInv, TypeOK, Acquire, CGoto, workerVars, adminVars
  <2>2. CronInv'
    BY <1>a, <1>1 DEF TypeInv, CronInv, CronExclusive, Acquire, CGoto, LockFree
  <2> QED
    BY <1>1, <2>1, <2>2, SameQueueType DEF TypeInv, LetterInv, Acquire, workerVars, adminVars
<1>2. CASE Select(i)
  <2>1. PICK passed \in SUBSET {d \in Retriable : rows[d].retry} :
          ctodo' = [ctodo EXCEPT ![i] = passed \cup {d \in Retriable : ~ rows[d].retry}]
    BY <1>2 DEF Select
  <2>2. Retriable \subseteq DOMAIN rows
    BY DEF Retriable
  <2>3. passed \cup {d \in Retriable : ~ rows[d].retry} \in SUBSET DOMAIN rows
    BY <2>2
  <2>4. ctodo' \in [Crons -> SUBSET DOMAIN rows]
    BY <1>a, <2>1, <2>3
  <2>5. TypeOK'
    BY <1>a, <1>2, <2>4 DEF TypeInv, TypeOK, Select, CNext, CGoto, workerVars, adminVars
  <2>6. /\ \A k \in Crons \ {i} : cpc'[k] = cpc[k] /\ ctodo'[k] = ctodo[k]
        /\ cpc'[i] = IF ctodo'[i] = {} THEN "idle" ELSE "enqueue"
        /\ cpc[i] = "select" /\ lock' = lock
        /\ outlived' = IF ctodo'[i] = {} THEN outlived \ {i} ELSE outlived
    BY <1>a, <1>2, <2>1 DEF Select, CNext, CGoto
  <2>7. CronInv'
    BY <2>6 DEF TypeInv, CronInv, CronExclusive
  <2> QED
    BY <1>2, <2>5, <2>7, SameQueueType DEF TypeInv, LetterInv, Select, workerVars, adminVars
<1>3. CASE Enqueue(i)
  <2>1. rows[Min(ctodo[i])].event \in Events
    BY <1>3, <1>m, <1>b DEF Enqueue, Delivery
  <2>2. cpc' = [cpc EXCEPT ![i] = "mark"] /\ cpc[i] = "enqueue"
    BY <1>3 DEF Enqueue, CGoto
  <2>3. apc' = apc /\ aletter' = aletter
    BY <1>3 DEF Enqueue, adminVars
  <2> QED
    BY <1>3, <1>a, <2>1, <2>2, <2>3, AddedType DEF Enqueue, TypeInv, TypeOK, adminVars
<1>4. CASE MarkRow(i)
  <2> DEFINE d == Min(ctodo[i])
             q == [rows[d] EXCEPT !.retry = FALSE]
  <2>1. d \in DOMAIN rows /\ d \in ctodo[i] /\ cpc[i] = "mark"
    BY <1>4, <1>m DEF MarkRow
  <2>2. q \in Delivery
    BY <2>1, <1>b DEF Delivery
  <2>3. /\ rows' = [rows EXCEPT ![d] = q] /\ ctodo' = [ctodo EXCEPT ![i] = @ \ {d}]
        /\ cpc' = [cpc EXCEPT ![i] = IF ctodo[i] = {d} THEN "idle" ELSE "enqueue"]
        /\ outlived' = IF ctodo[i] = {d} THEN outlived \ {i} ELSE outlived
        /\ lock' = lock
    BY <1>4 DEF MarkRow, CNext, CGoto
  <2> HIDE DEF d, q
  <2>4. rows' \in Seq(Delivery) /\ DOMAIN rows' = DOMAIN rows
    BY <2>1, <2>2, <2>3, EditedRow DEF TypeInv
  <2>5. ctodo' \in [Crons -> SUBSET DOMAIN rows']
    BY <1>a, <2>3, <2>4
  <2>6. TypeOK'
    BY <1>a, <1>4, <2>3, <2>4, <2>5 DEF TypeInv, TypeOK, MarkRow, workerVars, adminVars
  <2>7. /\ \A k \in Crons \ {i} : cpc'[k] = cpc[k] /\ ctodo'[k] = ctodo[k]
        /\ cpc'[i] = "enqueue" => ctodo'[i] # {}
        /\ cpc'[i] \in {"idle", "enqueue"}
    BY <1>a, <2>1, <2>3
  <2>8. CronInv'
    BY <2>1, <2>3, <2>7 DEF TypeInv, CronInv, CronExclusive
  <2> QED
    BY <1>4, <2>6, <2>8, SameQueueType DEF TypeInv, LetterInv, MarkRow, workerVars, adminVars
<1>5. CASE CronDies(i)
  <2>1. ctodo' \in [Crons -> SUBSET DOMAIN rows]
    BY <1>a, <1>5 DEF CronDies
  <2>2. TypeOK'
    BY <1>a, <1>5, <2>1 DEF TypeInv, TypeOK, CronDies, CNext, CGoto, Fault, workerVars, adminVars
  <2>3. CronInv'
    BY <1>a, <1>5 DEF TypeInv, CronInv, CronExclusive, CronDies, CNext, CGoto
  <2> QED
    BY <1>5, <2>2, <2>3, SameQueueType DEF TypeInv, LetterInv, CronDies, workerVars, adminVars
<1> QED
  BY <1>1, <1>2, <1>3, <1>4, <1>5 DEF CronStep
\* The steps about dead letters.
LEMMA AdminType ==
  ASSUME TypeInv, NEW a \in Admins,
         AdminStep(a) \/ AdminDies(a) \/ \E j \in 1..MaxJobs : RetryLetter(a, j) \/ PurgeLetter(a, j)
  PROVE  TypeInv'
<1>a. /\ apc \in [Admins -> {"idle", "requeue", "save", "purge", "remove"}]
      /\ aletter \in [Admins -> 0..MaxJobs] /\ faults \in Nat
      /\ deadLetters \in [1..MaxJobs -> {"none", "pending", "requeued", "purged", "removed"}]
      /\ jobs \in Seq(Job) /\ Len(jobs) <= MaxJobs
  BY DEF TypeInv, TypeOK, LetterInv
<1>b. /\ DOMAIN jobs \subseteq 1..MaxJobs
      /\ \A j \in DOMAIN jobs : jobs[j] \in Job /\ jobs[j].event \in Events
  <2>1. DOMAIN jobs \subseteq 1..MaxJobs /\ \A j \in DOMAIN jobs : jobs[j] \in Job
    BY <1>a, WebhooksAssumption
  <2> QED
    BY <2>1 DEF Job
<1>c. apc[a] # "idle" => aletter[a] \in DOMAIN jobs
  BY DEF TypeInv, LetterInv
<1>1. CASE Requeue(a)
  <2>1. jobs[aletter[a]].event \in Events
    BY <1>1, <1>b, <1>c DEF Requeue
  <2>2. apc' = [apc EXCEPT ![a] = "save"] /\ apc[a] = "requeue"
    BY <1>1 DEF Requeue, AGoto
  <2>3. cpc' = cpc /\ ctodo' = ctodo /\ lock' = lock /\ outlived' = outlived
    BY <1>1 DEF Requeue, otherVars, cronVars
  <2> QED
    BY <1>1, <1>a, <2>1, <2>2, <2>3, AddedType DEF Requeue, otherVars, TypeInv, TypeOK
<1>2. ASSUME UNCHANGED <<otherVars, jobs>>, TypeOK', LetterInv' PROVE TypeInv'
  <2>1. WorkerInv' /\ AttemptInv'
    BY <1>2 DEF TypeInv, WorkerInv, AttemptInv, Open, StalledOut, otherVars, workerVars
  <2>2. CronInv'
    BY <1>2 DEF TypeInv, CronInv, CronExclusive, otherVars, cronVars
  <2> QED
    BY <1>2, <2>1, <2>2 DEF TypeInv
<1>3. ASSUME NEW status \in {"requeued", "purged", "removed"}, SetLetter(a, status), apc[a] # "idle",
             UNCHANGED <<otherVars, jobs, faults>>,
             apc' \in [Admins -> {"idle", "requeue", "save", "purge", "remove"}],
             aletter' \in [Admins -> 0..MaxJobs],
             \A b \in Admins : apc'[b] # "idle" => apc[b] # "idle" /\ aletter'[b] = aletter[b]
      PROVE  TypeInv'
  <2>1. /\ deadLetters' \in [1..MaxJobs -> {"none", "pending", "requeued", "purged", "removed"}]
        /\ \A j \in 1..MaxJobs : deadLetters'[j] # deadLetters[j] => j = aletter[a]
    BY <1>3, <1>a DEF SetLetter
  <2>2. TypeOK'
    BY <1>3, <2>1 DEF TypeInv, TypeOK, otherVars, workerVars, cronVars
  <2>3. LetterInv'
    BY <1>3, <1>c, <2>1 DEF TypeInv, LetterInv
  <2> QED
    BY <1>2, <1>3, <2>2, <2>3
<1>4. CASE SaveLetter(a) \/ SavePurged(a) \/ RemoveLetter(a)
  <2>1. PICK status \in {"requeued", "purged", "removed"} : SetLetter(a, status)
    BY <1>4 DEF SaveLetter, SavePurged, RemoveLetter
  <2>2. /\ apc' \in [Admins -> {"idle", "requeue", "save", "purge", "remove"}]
        /\ aletter' \in [Admins -> 0..MaxJobs] /\ apc[a] # "idle"
        /\ \A b \in Admins : apc'[b] # "idle" => apc[b] # "idle" /\ aletter'[b] = aletter[b]
    <3>1. CASE SavePurged(a)
      BY <3>1, <1>a DEF SavePurged, AGoto
    <3>2. CASE SaveLetter(a) \/ RemoveLetter(a)
      <4>1. /\ apc' = [apc EXCEPT ![a] = "idle"] /\ aletter' = [aletter EXCEPT ![a] = 0]
            /\ apc[a] # "idle"
        BY <3>2 DEF SaveLetter, RemoveLetter, AFree, AGoto
      <4>2. 0 \in 0..MaxJobs
        BY WebhooksAssumption
      <4> QED
        BY <4>1, <4>2, <1>a
    <3> QED
      BY <1>4, <3>1, <3>2
  <2>3. UNCHANGED <<otherVars, jobs, faults>>
    BY <1>4 DEF SaveLetter, SavePurged, RemoveLetter
  <2> QED
    BY <1>3, <2>1, <2>2, <2>3
<1>5. CASE AdminDies(a)
  <2>1. TypeOK'
    BY <1>5, <1>a, WebhooksAssumption
       DEF TypeInv, TypeOK, AdminDies, AFree, AGoto, Fault, otherVars, workerVars, cronVars
  <2>2. LetterInv'
    BY <1>5, <1>a DEF TypeInv, LetterInv, AdminDies, AFree, AGoto
  <2> QED
    BY <1>2, <1>5, <2>1, <2>2 DEF AdminDies
<1>6. ASSUME NEW j \in 1..MaxJobs, RetryLetter(a, j) \/ PurgeLetter(a, j) PROVE TypeInv'
  <2>1. j \in DOMAIN jobs
    BY <1>6 DEF RetryLetter, PurgeLetter, TypeInv, LetterInv
  <2>2. TypeOK'
    <3>1. j \in 0..MaxJobs /\ aletter' = [aletter EXCEPT ![a] = j]
      BY <1>6, WebhooksAssumption DEF RetryLetter, PurgeLetter
    <3>2. aletter' \in [Admins -> 0..MaxJobs]
      BY <1>a, <3>1
    <3> QED
      BY <1>6, <1>a, <3>2
         DEF TypeInv, TypeOK, RetryLetter, PurgeLetter, AGoto, otherVars, workerVars, cronVars
  <2>3. LetterInv'
    BY <1>6, <1>a, <2>1 DEF TypeInv, LetterInv, RetryLetter, PurgeLetter, AGoto
  <2> QED
    BY <1>2, <1>6, <2>2, <2>3 DEF RetryLetter, PurgeLetter
<1> QED
  BY <1>1, <1>4, <1>5, <1>6 DEF AdminStep

\* A worker that is freed has no job.
LEMMA Freed ==
  ASSUME TypeOK, NEW w \in Workers, Free(w)
  PROVE  /\ wpc' = [wpc EXCEPT ![w] = "idle"] /\ wpc' \in [Workers -> WorkerSteps]
         /\ wjob' = [wjob EXCEPT ![w] = 0] /\ wjob' \in [Workers -> 0..Len(jobs)]
         /\ wseen' = [wseen EXCEPT ![w] = "active"] /\ wseen' \in [Workers -> HookStates]
         /\ wok' = [wok EXCEPT ![w] = FALSE] /\ wok' \in [Workers -> BOOLEAN]
<1>1. Len(jobs) \in Nat
  BY DEF TypeOK
<1>2. wok' = [wok EXCEPT ![w] = FALSE] /\ wok' \in [Workers -> BOOLEAN]
  BY Zenon DEF Free, TypeOK
<1> QED
  BY <1>1, <1>2 DEF TypeOK, Free, Goto, WorkerSteps, HookStates

\* The steps of a worker between taking a job and its end: the job stays active.
LEMMA MoveType ==
  ASSUME TypeInv, NEW w \in Workers, Post(w) \/ SaveHook(w) \/ LogDelivery(w)
  PROVE  TypeInv'
<1>a. /\ wpc \in [Workers -> WorkerSteps] /\ wjob \in [Workers -> 0..Len(jobs)]
      /\ wseen \in [Workers -> HookStates] /\ wok \in [Workers -> BOOLEAN]
      /\ jobs \in Seq(Job) /\ rows \in Seq(Delivery)
      /\ ctodo \in [Crons -> SUBSET DOMAIN rows] /\ received \subseteq Events
      /\ hook \in HookStates /\ faults \in Nat
  BY DEF TypeInv, TypeOK
<1>b. /\ wpc[w] \in {"post", "save", "log"} /\ wjob[w] \in DOMAIN jobs
      /\ jobs[wjob[w]].state = "active" /\ jobs[wjob[w]] \in Job
  <2>1. wpc[w] \in {"post", "save", "log"}
    BY DEF Post, SaveHook, LogDelivery
  <2>2. wjob[w] \in DOMAIN jobs /\ jobs[wjob[w]].state = "active"
    BY <2>1 DEF TypeInv, WorkerInv
  <2>3. \A j \in DOMAIN jobs : jobs[j] \in Job
    BY <1>a
  <2> QED
    BY <2>1, <2>2, <2>3
<1>c. PICK to \in {"save", "log", "end", "threw"} : wpc' = [wpc EXCEPT ![w] = to]
  BY DEF Post, SaveHook, LogDelivery, Goto, AfterSave
<1>d. UNCHANGED <<jobs, wjob, wseen, deadLetters, adminVars, cronVars, been, unlogged>> /\ faults' \in Nat
  BY <1>a DEF Post, SaveHook, LogDelivery, Fault
<1>e. wpc' \in [Workers -> WorkerSteps]
  BY <1>a, <1>c DEF WorkerSteps
<1>1. WorkerInv'
  BY <1>a, <1>b, <1>c, <1>d DEF TypeInv, WorkerInv, WorkerSteps
<1>2. AttemptInv' /\ LetterInv' /\ CronInv'
  BY <1>d DEF TypeInv, AttemptInv, Open, StalledOut, LetterInv, CronInv, CronExclusive, adminVars, cronVars
<1>3. wok' \in [Workers -> BOOLEAN]
  BY <1>a, Zenon DEF Post, SaveHook, LogDelivery
<1>4. CASE Post(w)
  <2>1. received' \subseteq Events
    BY <1>4, <1>a, <1>b DEF Post, Event, Job
  <2>2. TypeOK'
    BY <1>4, <1>d, <1>e, <1>3, <2>1 DEF TypeInv, TypeOK, Post, adminVars, cronVars
  <2> QED
    BY <1>1, <1>2, <2>2 DEF TypeInv
<1>5. CASE SaveHook(w)
  <2>1. hook' \in HookStates
    BY <1>5, <1>a DEF SaveHook
  <2>2. TypeOK'
    BY <1>5, <1>d, <1>e, <1>3, <2>1 DEF TypeInv, TypeOK, SaveHook, adminVars, cronVars
  <2> QED
    BY <1>1, <1>2, <2>2 DEF TypeInv
<1>6. CASE LogDelivery(w) /\ UNCHANGED rows
  <2>1. TypeOK'
    BY <1>6, <1>d, <1>e, <1>3 DEF TypeInv, TypeOK, LogDelivery, adminVars, cronVars
  <2> QED
    BY <1>1, <1>2, <2>1 DEF TypeInv
<1>7. CASE LogDelivery(w) /\ ~ UNCHANGED rows
  <2> DEFINE attempt == jobs[wjob[w]].attemptsMade + 1
             retry == RetryPlanned(wok[w], attempt)
             d == [event |-> Event(w), attempt |-> attempt, success |-> wok[w], retry |-> retry]
  <2>1. attempt \in 1..MaxAttempts
    BY <1>b, WebhooksAssumption DEF TypeInv, AttemptInv, Open, Job
  <2>2. retry \in BOOLEAN
    BY DEF RetryPlanned
  <2>3. Event(w) \in Events
    BY <1>b DEF Event, Job
  <2>4. rows' = Append(rows, d)
    BY <1>7 DEF LogDelivery
  <2> HIDE DEF attempt, retry
  <2>5. wok[w] \in BOOLEAN
    BY <1>a, Zenon
  <2>6. d \in Delivery
    BY <2>1, <2>2, <2>3, <2>5, Zenon DEF Delivery
  <2> HIDE DEF d
  <2>7. rows' \in Seq(Delivery) /\ DOMAIN rows \subseteq DOMAIN rows'
    BY <2>4, <2>6, NewRow DEF TypeInv
  <2>8. ctodo' \in [Crons -> SUBSET DOMAIN rows']
    BY <1>a, <1>d, <2>7 DEF cronVars
  <2>9. TypeOK'
    BY <1>7, <1>d, <1>e, <1>3, <2>7, <2>8 DEF TypeInv, TypeOK, LogDelivery, adminVars, cronVars
  <2> QED
    BY <1>1, <1>2, <2>9 DEF TypeInv
<1> QED
  BY <1>4, <1>5, <1>6, <1>7

\* The steps of a worker that change the state of its job.
LEMMA JobType ==
  ASSUME TypeInv, NEW w \in Workers, NEW j \in DOMAIN jobs, NEW q \in Job,
         jobs' = [jobs EXCEPT ![j] = q],
         \A v \in Workers \ {w} : wpc[v] # "idle" => wjob[v] # j,
         wpc' \in [Workers -> WorkerSteps], \A v \in Workers \ {w} : wpc'[v] = wpc[v],
         wjob' \in [Workers -> 0..Len(jobs)], \A v \in Workers \ {w} : wjob'[v] = wjob[v],
         wpc'[w] # "idle" => wjob'[w] = j /\ q.state = IF wpc'[w] = "bury" THEN "failed" ELSE "active",
         q.state \in {"waiting", "active"} => q.attemptsMade < MaxAttempts /\ q.stalls <= MaxStalledCount,
         q.state = "failed" => q.attemptsMade >= MaxAttempts \/ q.stalls > MaxStalledCount,
         wseen' \in [Workers -> HookStates], wok' \in [Workers -> BOOLEAN], faults' \in Nat,
         unlogged' \in [1..MaxJobs -> SUBSET (1..MaxAttempts)],
         UNCHANGED <<hook, rows, deadLetters, received, cronVars, adminVars, been>>
  PROVE  TypeInv'
<1>1. /\ jobs' \in Seq(Job) /\ Len(jobs') = Len(jobs) /\ DOMAIN jobs' = DOMAIN jobs
      /\ jobs'[j] = q
      /\ \A k \in DOMAIN jobs : k # j => jobs'[k] = jobs[k]
  BY EditedJob DEF TypeInv
<1>2. TypeOK'
  <2>1. wjob' \in [Workers -> 0..Len(jobs')]
    BY <1>1
  <2> QED
    BY <1>1, <2>1 DEF TypeInv, TypeOK, cronVars, adminVars
<1>3. WorkerInv'
  <2>1. ASSUME NEW v \in Workers, wpc'[v] # "idle"
        PROVE  /\ wjob'[v] \in DOMAIN jobs'
               /\ jobs'[wjob'[v]].state = IF wpc'[v] = "bury" THEN "failed" ELSE "active"
    <3>1. CASE v = w
      BY <1>1, <2>1, <3>1
    <3>2. CASE v # w
      <4>1. wpc'[v] = wpc[v] /\ wjob'[v] = wjob[v] /\ wjob[v] # j
        BY <2>1, <3>2
      <4>2. /\ wjob[v] \in DOMAIN jobs
            /\ jobs[wjob[v]].state = IF wpc[v] = "bury" THEN "failed" ELSE "active"
        BY <2>1, <4>1 DEF TypeInv, WorkerInv
      <4> QED
        BY <1>1, <4>1, <4>2
    <3> QED
      BY <3>1, <3>2
  <2>2. ASSUME NEW u \in Workers, NEW v \in Workers, wpc'[u] # "idle", wpc'[v] # "idle", wjob'[u] = wjob'[v]
        PROVE  u = v
    <3>1. \A x \in Workers \ {w} : wpc'[x] # "idle" => wpc[x] # "idle" /\ wjob'[x] = wjob[x] /\ wjob'[x] # j
      OBVIOUS
    <3>2. wpc'[w] # "idle" => wjob'[w] = j
      OBVIOUS
    <3>3. CASE u = w \/ v = w
      <4>1. \A x \in Workers \ {w} : wpc'[x] # "idle" => wjob'[x] # j
        BY <3>1
      <4> QED
        BY <2>2, <3>2, <3>3, <4>1, Zenon
    <3>4. CASE u # w /\ v # w
      <4>1. wpc[u] # "idle" /\ wpc[v] # "idle" /\ wjob[u] = wjob[v]
        BY <2>2, <3>1, <3>4
      <4> QED
        BY <4>1 DEF TypeInv, WorkerInv
    <3> QED
      BY <3>3, <3>4
  <2> QED
    BY <2>1, <2>2 DEF WorkerInv
<1>4. AttemptInv'
  BY <1>1 DEF TypeInv, AttemptInv, Open, StalledOut
<1>5. LetterInv'
  BY <1>1 DEF TypeInv, LetterInv, adminVars
<1>6. CronInv'
  BY DEF TypeInv, CronInv, CronExclusive, cronVars
<1> QED
  BY <1>2, <1>3, <1>4, <1>5, <1>6 DEF TypeInv

\* The steps of a worker at the ends of a job.
LEMMA WorkerType ==
  ASSUME TypeInv, NEW w \in Workers,
         Complete(w) \/ Fail(w) \/ Bury(w) \/ WorkerDies(w) \/ \E j \in DOMAIN jobs : Take(w, j)
  PROVE  TypeInv'
<1>a. /\ wpc \in [Workers -> WorkerSteps] /\ wjob \in [Workers -> 0..Len(jobs)]
      /\ wseen \in [Workers -> HookStates] /\ wok \in [Workers -> BOOLEAN]
      /\ \A j \in DOMAIN jobs : jobs[j] \in Job
      /\ faults \in Nat /\ TypeOK /\ hook \in HookStates
      /\ unlogged \in [1..MaxJobs -> SUBSET (1..MaxAttempts)]
  BY DEF TypeInv, TypeOK
<1>b. /\ \A v \in Workers : wpc[v] # "idle" =>
           /\ wjob[v] \in DOMAIN jobs
           /\ jobs[wjob[v]].state = IF wpc[v] = "bury" THEN "failed" ELSE "active"
      /\ \A v \in Workers \ {w} : wpc[v] # "idle" /\ wpc[w] # "idle" => wjob[v] # wjob[w]
  BY DEF TypeInv, WorkerInv
<1>c. \A j \in DOMAIN jobs :
        jobs[j].state \in {"waiting", "active"} =>
          jobs[j].attemptsMade < MaxAttempts /\ jobs[j].stalls <= MaxStalledCount
  BY DEF TypeInv, AttemptInv, Open
<1>1. ASSUME NEW j \in DOMAIN jobs, Take(w, j) PROVE TypeInv'
  <2> DEFINE q == [jobs[j] EXCEPT !.state = "active"]
  <2>1. /\ q \in Job /\ q.state = "active"
        /\ q.attemptsMade = jobs[j].attemptsMade /\ q.stalls = jobs[j].stalls
    BY <1>a DEF Job
  <2>2. jobs' = [jobs EXCEPT ![j] = q] /\ jobs[j].state = "waiting"
    BY <1>1 DEF Take
  <2>3. PICK to \in {"post", "log", "threw"} : wpc' = [wpc EXCEPT ![w] = to]
    BY <1>1, <1>a DEF Take, Goto, HookStates
  <2>4. wjob' = [wjob EXCEPT ![w] = j] /\ wseen' = [wseen EXCEPT ![w] = hook] /\ wok' = wok
    BY <1>1 DEF Take
  <2>5. wjob' \in [Workers -> 0..Len(jobs)] /\ wseen' \in [Workers -> HookStates]
    <3>1. j \in 0..Len(jobs)
      BY <1>a DEF TypeOK
    <3> QED
      BY <1>a, <2>4, <3>1
  <2>6. wpc' \in [Workers -> WorkerSteps]
    BY <1>a, <2>3 DEF WorkerSteps
  <2>7. UNCHANGED <<hook, rows, deadLetters, received, cronVars, adminVars, been, unlogged>>
    BY <1>1 DEF Take
  <2>8. \A v \in Workers \ {w} : wpc[v] # "idle" => wjob[v] # j
    BY <1>b, <2>2
  <2>9. wpc'[w] = to /\ wjob'[w] = j /\ \A v \in Workers \ {w} : wpc'[v] = wpc[v] /\ wjob'[v] = wjob[v]
    BY <1>a, <2>3, <2>4
  <2>10. /\ wok' \in [Workers -> BOOLEAN] /\ faults' \in Nat
         /\ unlogged' \in [1..MaxJobs -> SUBSET (1..MaxAttempts)]
    BY <1>1, <1>a, <2>4, <2>7 DEF Take, Fault
  <2>11. /\ wpc'[w] # "idle" => wjob'[w] = j /\ q.state = IF wpc'[w] = "bury" THEN "failed" ELSE "active"
         /\ q.state \in {"waiting", "active"} => q.attemptsMade < MaxAttempts /\ q.stalls <= MaxStalledCount
         /\ q.state = "failed" => q.attemptsMade >= MaxAttempts \/ q.stalls > MaxStalledCount
    <3> HIDE DEF q
    <3> QED
      BY <1>c, <2>1, <2>2, <2>3, <2>9
  <2>12. (\A v \in Workers \ {w} : wpc'[v] = wpc[v]) /\ (\A v \in Workers \ {w} : wjob'[v] = wjob[v])
    BY <2>9
  <2>13. UNCHANGED <<hook, rows, deadLetters, received, cronVars, adminVars, been>>
    BY <2>7
  <2>14. q \in Job /\ jobs' = [jobs EXCEPT ![j] = q]
    BY <2>1, <2>2
  <2> HIDE DEF q
  <2> QED
    BY <2>5, <2>6, <2>8, <2>10, <2>11, <2>12, <2>13, <2>14, JobType
<1>2. CASE Complete(w)
  <2> DEFINE j == wjob[w]
             q == [jobs[j] EXCEPT !.state = "completed"]
  <2>2. wpc[w] \notin {"idle", "bury"} /\ j \in DOMAIN jobs /\ jobs[j].state = "active"
    BY <1>2, <1>b DEF Complete
  <2>3. q \in Job /\ q.state = "completed"
    BY <1>a, <2>2 DEF Job
  <2>4. jobs' = [jobs EXCEPT ![j] = q]
    BY <1>2 DEF Complete
  <2>5. Free(w) /\ UNCHANGED <<hook, rows, deadLetters, received, cronVars, adminVars, been>>
    BY <1>2 DEF Complete
  <2>6. faults' \in Nat /\ unlogged' \in [1..MaxJobs -> SUBSET (1..MaxAttempts)]
    BY <1>2, <1>a DEF Complete
  <2>7. /\ wpc' = [wpc EXCEPT ![w] = "idle"] /\ wpc' \in [Workers -> WorkerSteps]
        /\ wjob' = [wjob EXCEPT ![w] = 0] /\ wjob' \in [Workers -> 0..Len(jobs)]
        /\ wseen' \in [Workers -> HookStates] /\ wok' \in [Workers -> BOOLEAN]
    BY <1>a, <2>5, Freed
  <2>8. /\ wpc'[w] = "idle"
        /\ \A v \in Workers \ {w} : wpc'[v] = wpc[v]
        /\ \A v \in Workers \ {w} : wjob'[v] = wjob[v]
    BY <1>a, <2>7
  <2>9. \A v \in Workers \ {w} : wpc[v] # "idle" => wjob[v] # wjob[w]
    BY <1>b, <2>2
  <2>10. \A v \in Workers \ {w} : wpc[v] # "idle" => wjob[v] # j
    BY <2>9
  <2>11. /\ wpc'[w] # "idle" => wjob'[w] = j /\ q.state = IF wpc'[w] = "bury" THEN "failed" ELSE "active"
         /\ q.state \in {"waiting", "active"} => q.attemptsMade < MaxAttempts /\ q.stalls <= MaxStalledCount
         /\ q.state = "failed" => q.attemptsMade >= MaxAttempts \/ q.stalls > MaxStalledCount
    <3> HIDE DEF q, j
    <3> QED
      BY <2>3, <2>8
  <2>12. /\ j \in DOMAIN jobs
         /\ UNCHANGED <<hook, rows, deadLetters, received, cronVars, adminVars, been>>
    BY <2>2, <2>5
  <2>13. q \in Job /\ jobs' = [jobs EXCEPT ![j] = q]
    BY <2>3, <2>4
  <2> HIDE DEF q, j
  <2> QED
    BY <2>6, <2>7, <2>8, <2>10, <2>11, <2>12, <2>13, JobType
<1>5. CASE WorkerDies(w) /\ wpc[w] # "bury"
  <2> DEFINE j == wjob[w]
             n == jobs[j].stalls + 1
             state == IF jobs[j].stalls < MaxStalledCount THEN "waiting" ELSE "failed"
             q == [jobs[j] EXCEPT !.stalls = n, !.state = state]
  <2>2. wpc[w] \notin {"idle", "bury"} /\ j \in DOMAIN jobs /\ jobs[j].state = "active"
    BY <1>5, <1>b DEF WorkerDies
  <2>3. /\ q \in Job /\ q.attemptsMade = jobs[j].attemptsMade
        /\ q.stalls = n /\ q.state = state
    <3>1. jobs[j] \in Job /\ jobs[j].stalls \in 0..1
      BY <1>a, <1>c, <2>2 DEF Job, MaxStalledCount
    <3>2. n \in 0..2 /\ state \in {"waiting", "failed"}
      BY <3>1
    <3> HIDE DEF n, state
    <3> QED
      BY <3>1, <3>2 DEF Job
  <2>4. jobs' = [jobs EXCEPT ![j] = q]
    BY <1>5 DEF WorkerDies
  <2>5. Free(w) /\ UNCHANGED <<hook, rows, deadLetters, received, cronVars, adminVars, been>>
    BY <1>5 DEF WorkerDies
  <2>6. faults' \in Nat /\ unlogged' \in [1..MaxJobs -> SUBSET (1..MaxAttempts)]
    BY <1>5, <1>a DEF WorkerDies, Fault
  <2>7. /\ wpc' = [wpc EXCEPT ![w] = "idle"] /\ wpc' \in [Workers -> WorkerSteps]
        /\ wjob' = [wjob EXCEPT ![w] = 0] /\ wjob' \in [Workers -> 0..Len(jobs)]
        /\ wseen' \in [Workers -> HookStates] /\ wok' \in [Workers -> BOOLEAN]
    BY <1>a, <2>5, Freed
  <2>8. /\ wpc'[w] = "idle"
        /\ \A v \in Workers \ {w} : wpc'[v] = wpc[v]
        /\ \A v \in Workers \ {w} : wjob'[v] = wjob[v]
    BY <1>a, <2>7
  <2>9. \A v \in Workers \ {w} : wpc[v] # "idle" => wjob[v] # wjob[w]
    BY <1>b, <2>2
  <2>10. /\ q.state \in {"waiting", "active"} => q.attemptsMade < MaxAttempts /\ q.stalls <= MaxStalledCount
         /\ q.state = "failed" => q.attemptsMade >= MaxAttempts \/ q.stalls > MaxStalledCount
    <3> HIDE DEF q
    <3>1. jobs[j] \in Job
      BY <1>a, <2>2
    <3>2. jobs[j].stalls \in Nat
      BY <3>1 DEF Job
    <3> QED
      BY <1>c, <2>2, <2>3, <3>2 DEF MaxStalledCount
  <2>11. \A v \in Workers \ {w} : wpc[v] # "idle" => wjob[v] # j
    BY <2>9
  <2>12. /\ wpc'[w] # "idle" => wjob'[w] = j /\ q.state = IF wpc'[w] = "bury" THEN "failed" ELSE "active"
         /\ j \in DOMAIN jobs
         /\ UNCHANGED <<hook, rows, deadLetters, received, cronVars, adminVars, been>>
    <3> HIDE DEF q
    <3> QED
      BY <2>2, <2>5, <2>8
  <2>13. q \in Job /\ jobs' = [jobs EXCEPT ![j] = q]
    BY <2>3, <2>4
  <2> HIDE DEF q, j
  <2> QED
    BY <2>6, <2>7, <2>8, <2>10, <2>11, <2>12, <2>13, JobType
<1>3. CASE Fail(w)
  <2> DEFINE j == wjob[w]
             n == jobs[j].attemptsMade + 1
             q == [jobs[j] EXCEPT !.attemptsMade = n,
                                  !.state = IF GivenUp(n) THEN "failed" ELSE "waiting"]
  <2>2. wpc[w] \in {"end", "threw"} /\ j \in DOMAIN jobs /\ jobs[j].state = "active"
    BY <1>3, <1>b DEF Fail
  <2>3. /\ q \in Job /\ q.attemptsMade = n /\ q.stalls = jobs[j].stalls /\ n \in 1..MaxAttempts
        /\ q.state = IF n >= MaxAttempts THEN "failed" ELSE "waiting"
    <3>1. /\ jobs[j] \in Job /\ jobs[j].attemptsMade \in Nat
          /\ jobs[j].attemptsMade < MaxAttempts
      BY <1>a, <1>c, <2>2 DEF Job
    <3>2. n \in 0..MaxAttempts /\ n \in 1..MaxAttempts
      BY <3>1, WebhooksAssumption
    <3> HIDE DEF n
    <3> QED
      BY <3>1, <3>2 DEF Job, GivenUp
  <2>4. jobs' = [jobs EXCEPT ![j] = q]
    BY <1>3 DEF Fail
  <2>5. UNCHANGED <<hook, rows, deadLetters, received, cronVars, adminVars, been, faults>>
    BY <1>3 DEF Fail
  <2>u. unlogged' \in [1..MaxJobs -> SUBSET (1..MaxAttempts)]
    <3> HIDE DEF n, j
    <3>1. unlogged' = unlogged \/ unlogged' = [unlogged EXCEPT ![j] = @ \cup {n}]
      BY <1>3 DEF Fail, j, n
    <3> QED
      BY <1>a, <2>3, <3>1
  <2>6. \A v \in Workers \ {w} : wpc[v] # "idle" => wjob[v] # j
    BY <1>b, <2>2
  <2>7. CASE GivenUp(n)
    <3>1. wpc' = [wpc EXCEPT ![w] = "bury"] /\ wjob' = wjob /\ wseen' = wseen /\ wok' = wok
      BY <1>3, <2>7 DEF Fail, Goto
    <3>2. wpc' \in [Workers -> WorkerSteps]
      BY <1>a, <3>1 DEF WorkerSteps
    <3>3. wpc'[w] = "bury" /\ \A v \in Workers \ {w} : wpc'[v] = wpc[v] /\ wjob'[v] = wjob[v]
      BY <1>a, <3>1
    <3>4. q.state = "failed" /\ q.attemptsMade >= MaxAttempts /\ wjob'[w] = j
      <4>1. n >= MaxAttempts
        BY <2>7 DEF GivenUp
      <4> HIDE DEF q, n
      <4> QED
        BY <2>3, <4>1, <3>1
    <3>5. wjob' \in [Workers -> 0..Len(jobs)] /\ wseen' \in [Workers -> HookStates]
      BY <1>a, <3>1
    <3>6. wok' \in [Workers -> BOOLEAN] /\ faults' \in Nat
      BY <1>a, <2>5, <3>1
    <3>7. q \in Job /\ j \in DOMAIN jobs
      BY <2>2, <2>3
    <3> HIDE DEF q, n, j
    <3>8. /\ wpc'[w] # "idle" => wjob'[w] = j /\ q.state = IF wpc'[w] = "bury" THEN "failed" ELSE "active"
          /\ q.state \in {"waiting", "active"} => q.attemptsMade < MaxAttempts /\ q.stalls <= MaxStalledCount
          /\ q.state = "failed" => q.attemptsMade >= MaxAttempts \/ q.stalls > MaxStalledCount
      BY <3>3, <3>4
    <3>9. (\A v \in Workers \ {w} : wpc'[v] = wpc[v]) /\ (\A v \in Workers \ {w} : wjob'[v] = wjob[v])
      BY <3>3
    <3>10. UNCHANGED <<hook, rows, deadLetters, received, cronVars, adminVars, been>>
      BY <2>5
    <3> QED
      BY <2>4, <2>6, <2>u, <3>2, <3>5, <3>6, <3>7, <3>8, <3>9, <3>10, JobType
  <2>8. CASE ~ GivenUp(n)
    <3>1. Free(w)
      BY <1>3, <2>8 DEF Fail
    <3>2. /\ wpc' = [wpc EXCEPT ![w] = "idle"] /\ wpc' \in [Workers -> WorkerSteps]
          /\ wjob' = [wjob EXCEPT ![w] = 0] /\ wjob' \in [Workers -> 0..Len(jobs)]
          /\ wseen' \in [Workers -> HookStates] /\ wok' \in [Workers -> BOOLEAN]
      BY <1>a, <3>1, Freed
    <3>3. wpc'[w] = "idle" /\ \A v \in Workers \ {w} : wpc'[v] = wpc[v] /\ wjob'[v] = wjob[v]
      BY <1>a, <3>2
    <3>4. q.state = "waiting" /\ q.attemptsMade < MaxAttempts /\ q.stalls <= MaxStalledCount
      BY <1>c, <2>2, <2>3, <2>8, WebhooksAssumption DEF GivenUp
    <3>5. faults' \in Nat
      BY <1>a, <2>5
    <3> HIDE DEF q, n, j
    <3> QED
      BY <2>2, <2>3, <2>4, <2>5, <2>6, <2>u, <3>2, <3>3, <3>4, <3>5, JobType
  <2> QED
    BY <2>7, <2>8
<1>4. CASE Bury(w) \/ (WorkerDies(w) /\ wpc[w] = "bury")
  <2>1. Free(w) /\ wpc[w] = "bury" /\ UNCHANGED <<hook, jobs, rows, received, cronVars, adminVars, been, unlogged>>
    BY <1>4 DEF Bury, WorkerDies
  <2>2. /\ wpc' = [wpc EXCEPT ![w] = "idle"] /\ wpc' \in [Workers -> WorkerSteps]
        /\ wjob' = [wjob EXCEPT ![w] = 0] /\ wjob' \in [Workers -> 0..Len(jobs)]
        /\ wseen' \in [Workers -> HookStates] /\ wok' \in [Workers -> BOOLEAN]
    BY <1>a, <2>1, Freed
  <2>3. /\ faults' \in Nat
        /\ deadLetters' = deadLetters \/ deadLetters' = [deadLetters EXCEPT ![wjob[w]] = "pending"]
    BY <1>4, <1>a DEF Bury, WorkerDies, Fault
  <2>4. /\ deadLetters' \in [1..MaxJobs -> {"none", "pending", "requeued", "purged", "removed"}]
        /\ \A j \in 1..MaxJobs : deadLetters'[j] # deadLetters[j] => j = wjob[w]
    BY <2>3 DEF TypeInv, TypeOK
  <2>5. TypeOK'
    BY <1>a, <2>1, <2>2, <2>3, <2>4 DEF TypeOK, cronVars, adminVars
  <2>6. WorkerInv'
    BY <1>a, <1>b, <2>1, <2>2 DEF TypeInv, WorkerInv
  <2>7. LetterInv'
    BY <1>b, <2>1, <2>4 DEF TypeInv, LetterInv, adminVars
  <2>8. AttemptInv' /\ CronInv'
    BY <2>1 DEF TypeInv, AttemptInv, Open, StalledOut, CronInv, CronExclusive, cronVars
  <2> QED
    BY <2>5, <2>6, <2>7, <2>8 DEF TypeInv
<1> QED
  BY <1>1, <1>2, <1>3, <1>4, <1>5

\* Every step preserves the types.
LEMMA NextType ==
  ASSUME TypeInv, [Next]_vars
  PROVE  TypeInv'
<1>a. /\ rows \in Seq(Delivery) /\ cpc \in [Crons -> {"idle", "select", "enqueue", "mark"}]
      /\ apc \in [Admins -> {"idle", "requeue", "save", "purge", "remove"}]
  BY DEF TypeInv, TypeOK
<1>1. ASSUME NEW e \in Events, Trigger(e) PROVE TypeInv'
  BY <1>1, <1>a, AddedType DEF Trigger, cronVars, adminVars
<1>2. ASSUME NEW d \in DOMAIN rows, ManualRetry(d) PROVE TypeInv'
  <2>1. rows[d] \in Delivery
    BY <1>a
  <2>2. rows[d].event \in Events
    BY <2>1 DEF Delivery
  <2> QED
    BY <1>2, <1>a, <2>2, AddedType DEF ManualRetry, cronVars, adminVars
<1>3. CASE SwitchOff
  <2>1. hook' \in HookStates /\ been' \subseteq HookStates
    BY <1>3 DEF SwitchOff, HookStates, TypeInv, TypeOK
  <2>2. TypeOK'
    BY <1>3, <2>1 DEF SwitchOff, TypeInv, TypeOK, workerVars, cronVars, adminVars
  <2>3. WorkerInv' /\ AttemptInv' /\ LetterInv' /\ CronInv'
    BY <1>3 DEF SwitchOff, TypeInv, WorkerInv, AttemptInv, Open, StalledOut, LetterInv, CronInv, CronExclusive,
                workerVars, cronVars, adminVars
  <2> QED
    BY <2>2, <2>3 DEF TypeInv
<1>4. CASE LockExpires
  <2>1. TypeOK'
    BY <1>4 DEF LockExpires, TypeInv, TypeOK, workerVars, adminVars
  <2>2. WorkerInv' /\ AttemptInv' /\ LetterInv' /\ CronInv'
    BY <1>4 DEF LockExpires, TypeInv, WorkerInv, AttemptInv, Open, StalledOut, LetterInv, CronInv, CronExclusive,
                workerVars, adminVars
  <2> QED
    BY <2>1, <2>2 DEF TypeInv
<1>5. CASE UNCHANGED vars
  BY <1>5 DEF vars, TypeInv, TypeOK, WorkerInv, AttemptInv, Open, StalledOut, LetterInv, CronInv, CronExclusive
<1> QED
  BY <1>1, <1>2, <1>3, <1>4, <1>5, WorkerType, MoveType, CronType, AdminType DEF Next, WorkerStep
-----------------------------------------------------------------------------
(* Deliveries.                                                             *)

\* A delivery is logged or loses its planned retry.
LEMMA RowSteps ==
  ASSUME TypeInv, [Next]_vars
  PROVE  \/ UNCHANGED rows
         \/ \E w \in Workers : LogDelivery(w) /\ wpc'[w] = "end"
         \/ \E i \in Crons : MarkRow(i)
<1>1. ASSUME NEW w \in Workers, WorkerStep(w) \/ WorkerDies(w) \/ \E j \in DOMAIN jobs : Take(w, j)
      PROVE  UNCHANGED rows \/ (LogDelivery(w) /\ wpc'[w] = "end")
  <2>1. CASE LogDelivery(w)
    BY <2>1 DEF LogDelivery, Goto, TypeInv, TypeOK
  <2> QED
    BY <1>1, <2>1 DEF WorkerStep, Post, SaveHook, Complete, Fail, Bury, WorkerDies, Take
<1>2. ASSUME NEW i \in Crons, Acquire(i) \/ CronStep(i) \/ CronDies(i)
      PROVE  UNCHANGED rows \/ MarkRow(i)
  BY <1>2 DEF CronStep, Acquire, Select, Enqueue, CronDies
<1>3. ASSUME NEW a \in Admins,
             AdminStep(a) \/ AdminDies(a) \/ \E j \in 1..MaxJobs : RetryLetter(a, j) \/ PurgeLetter(a, j)
      PROVE  UNCHANGED rows
  BY <1>3 DEF AdminStep, AdminDies, Requeue, SaveLetter, SavePurged, RemoveLetter, RetryLetter,
              PurgeLetter, otherVars
<1>4. CASE (\E e \in Events : Trigger(e)) \/ (\E d \in DOMAIN rows : ManualRetry(d)) \/ SwitchOff
           \/ LockExpires \/ UNCHANGED vars
  BY <1>4 DEF Trigger, ManualRetry, SwitchOff, LockExpires, vars
<1> QED
  BY <1>1, <1>2, <1>3, <1>4 DEF Next

\* The delivery that LogDelivery writes.
LEMMA Logged ==
  ASSUME TypeInv, NEW w \in Workers, LogDelivery(w), wpc'[w] = "end", NEW n, n = Len(rows) + 1
  PROVE  /\ DOMAIN rows' = DOMAIN rows \cup {n} /\ n \notin DOMAIN rows
         /\ \A c \in DOMAIN rows : rows'[c] = rows[c]
         /\ rows'[n].event = Event(w) /\ rows'[n].success = wok[w]
         /\ rows'[n].attempt = jobs[wjob[w]].attemptsMade + 1
<1> DEFINE attempt == jobs[wjob[w]].attemptsMade + 1
           retry == RetryPlanned(wok[w], attempt)
           d == [event |-> Event(w), attempt |-> attempt, success |-> wok[w], retry |-> retry]
<1>1. wjob[w] \in DOMAIN jobs /\ jobs[wjob[w]].state = "active" /\ \A j \in DOMAIN jobs : jobs[j] \in Job
  <2>1. wpc[w] = "log"
    BY DEF LogDelivery
  <2> QED
    BY <2>1 DEF TypeInv, TypeOK, WorkerInv
<1>2. jobs[wjob[w]] \in Job /\ jobs[wjob[w]].attemptsMade < MaxAttempts
  BY <1>1 DEF TypeInv, AttemptInv, Open
<1>3. attempt \in 1..MaxAttempts /\ Event(w) \in Events
  BY <1>2, WebhooksAssumption DEF Job, Event
<1>4. wok[w] \in BOOLEAN
  BY Zenon DEF TypeInv, TypeOK
<1>5. retry \in BOOLEAN
  BY DEF RetryPlanned
<1>6. rows' = Append(rows, d)
  BY DEF LogDelivery, Goto, TypeInv, TypeOK
<1> HIDE DEF attempt, retry
<1>7. d \in Delivery
  BY <1>3, <1>4, <1>5, Zenon DEF Delivery
<1>8. d.event = Event(w) /\ d.success = wok[w] /\ d.attempt = attempt
  OBVIOUS
<1> HIDE DEF d
<1>9. /\ DOMAIN rows' = DOMAIN rows \cup {Len(rows) + 1} /\ Len(rows) + 1 \notin DOMAIN rows
      /\ \A c \in DOMAIN rows : rows'[c] = rows[c]
      /\ rows'[Len(rows) + 1] = d
  BY <1>6, <1>7, NewRow DEF TypeInv
<1>10. rows'[n] = d
  BY <1>9
<1> QED
  BY <1>8, <1>9, <1>10, Zenon DEF attempt

\* The delivery that MarkRow changes.
LEMMA Marked ==
  ASSUME TypeInv, NEW i \in Crons, MarkRow(i)
  PROVE  /\ DOMAIN rows' = DOMAIN rows
         /\ \A c \in DOMAIN rows :
              /\ rows'[c].event = rows[c].event /\ rows'[c].success = rows[c].success
              /\ rows'[c].attempt = rows[c].attempt /\ (rows'[c].retry => rows[c].retry)
<1> DEFINE d == Min(ctodo[i])
<1>1. rows' = [rows EXCEPT ![d].retry = FALSE]
  BY DEF MarkRow
<1>2. \A c \in DOMAIN rows : rows[c] \in Delivery
  BY DEF TypeInv, TypeOK
<1> HIDE DEF d
<1>3. ASSUME NEW c \in DOMAIN rows
      PROVE  /\ rows'[c].event = rows[c].event /\ rows'[c].success = rows[c].success
             /\ rows'[c].attempt = rows[c].attempt /\ (rows'[c].retry => rows[c].retry)
  <2>1. rows[c] \in Delivery
    BY <1>2
  <2>2. CASE c = d
    <3>1. rows'[c] = [rows[c] EXCEPT !.retry = FALSE]
      BY <1>1, <2>2
    <3> QED
      BY <2>1, <3>1 DEF Delivery
  <2>3. CASE c # d
    BY <1>1, <2>3
  <2> QED
    BY <2>2, <2>3
<1>4. DOMAIN rows' = DOMAIN rows
  BY <1>1
<1> QED
  BY <1>3, <1>4

\* What has failed below the limit stays so.
LEMMA HopefulGrows ==
  ASSUME TypeInv, [Next]_vars, NEW e, Hopeful(e)
  PROVE  Hopeful(e)'
<1>1. PICK d \in DOMAIN rows : rows[d].event = e /\ ~ rows[d].success /\ rows[d].attempt < MaxAttempts
  BY DEF Hopeful, Retriable
<1>2. d \in DOMAIN rows' /\ rows'[d].event = e /\ ~ rows'[d].success /\ rows'[d].attempt < MaxAttempts
  <2>1. CASE UNCHANGED rows
    BY <1>1, <2>1
  <2>2. ASSUME NEW w \in Workers, LogDelivery(w), wpc'[w] = "end"
        PROVE  d \in DOMAIN rows' /\ rows'[d] = rows[d]
    BY <2>2, Logged
  <2>3. ASSUME NEW i \in Crons, MarkRow(i)
        PROVE  /\ d \in DOMAIN rows' /\ rows'[d].event = rows[d].event
               /\ rows'[d].success = rows[d].success /\ rows'[d].attempt = rows[d].attempt
    BY <2>3, Marked
  <2> QED
    BY <1>1, <2>1, <2>2, <2>3, RowSteps
<1> QED
  BY <1>2 DEF Hopeful, Retriable

-----------------------------------------------------------------------------
(* What is never taken back.                                               *)

\* The receiver's events, the history of the webhook and the faults only grow.
LEMMA Grows ==
  ASSUME TypeInv, [Next]_vars
  PROVE  received \subseteq received' /\ been \subseteq been' /\ faults <= faults'
<1>a. faults \in Nat
  BY DEF TypeInv, TypeOK
<1>1. ASSUME NEW w \in Workers, WorkerStep(w) \/ WorkerDies(w) \/ \E j \in DOMAIN jobs : Take(w, j)
      PROVE  received \subseteq received' /\ been \subseteq been' /\ faults <= faults'
  <2>1. CASE Post(w)
    BY <1>a, <2>1 DEF Post
  <2>2. CASE Bury(w) \/ WorkerDies(w) \/ \E j \in DOMAIN jobs : Take(w, j)
    BY <1>a, <2>2 DEF Bury, WorkerDies, Take, Fault
  <2>3. CASE SaveHook(w) \/ LogDelivery(w) \/ Complete(w) \/ Fail(w)
    BY <1>a, <2>3 DEF SaveHook, LogDelivery, Complete, Fail, Fault
  <2> QED
    BY <1>1, <2>1, <2>2, <2>3 DEF WorkerStep
<1>2. ASSUME NEW i \in Crons, Acquire(i) \/ CronStep(i) \/ CronDies(i)
      PROVE  received \subseteq received' /\ been \subseteq been' /\ faults <= faults'
  <2>1. CASE CronDies(i)
    BY <1>a, <2>1 DEF CronDies, Fault
  <2>2. CASE Acquire(i) \/ CronStep(i)
    <3>1. UNCHANGED <<received, been, faults>>
      BY <2>2 DEF CronStep, Acquire, Select, Enqueue, MarkRow
    <3> QED
      BY <1>a, <3>1
  <2> QED
    BY <1>2, <2>1, <2>2
<1>3. ASSUME NEW a \in Admins,
             AdminStep(a) \/ AdminDies(a) \/ \E j \in 1..MaxJobs : RetryLetter(a, j) \/ PurgeLetter(a, j)
      PROVE  received \subseteq received' /\ been \subseteq been' /\ faults <= faults'
  BY <1>3, <1>a DEF AdminStep, AdminDies, Requeue, SaveLetter, SavePurged, RemoveLetter, RetryLetter,
              PurgeLetter, otherVars, Fault
<1>4. CASE (\E e \in Events : Trigger(e)) \/ (\E d \in DOMAIN rows : ManualRetry(d)) \/ SwitchOff
           \/ LockExpires \/ UNCHANGED vars
  BY <1>4, <1>a DEF Trigger, ManualRetry, SwitchOff, LockExpires, vars
<1> QED
  BY <1>1, <1>2, <1>3, <1>4 DEF Next

\* Attempts without a delivery are remembered, and only Fail adds one.
LEMMA UnloggedGrows ==
  ASSUME TypeInv, [Next]_vars
  PROVE  /\ \A j \in 1..MaxJobs : unlogged[j] \subseteq unlogged'[j]
         /\ UNCHANGED unlogged \/ \E w \in Workers : Fail(w)
<1>a. unlogged \in [1..MaxJobs -> SUBSET (1..MaxAttempts)]
  BY DEF TypeInv, TypeOK
<1>1. ASSUME NEW w \in Workers, WorkerStep(w) \/ WorkerDies(w) \/ \E j \in DOMAIN jobs : Take(w, j)
      PROVE  UNCHANGED unlogged \/ Fail(w)
  BY <1>1 DEF WorkerStep, Post, SaveHook, LogDelivery, Complete, Bury, WorkerDies, Take
<1>2. ASSUME NEW i \in Crons, Acquire(i) \/ CronStep(i) \/ CronDies(i) PROVE UNCHANGED unlogged
  BY <1>2 DEF CronStep, Acquire, Select, Enqueue, MarkRow, CronDies
<1>3. ASSUME NEW a \in Admins,
             AdminStep(a) \/ AdminDies(a) \/ \E j \in 1..MaxJobs : RetryLetter(a, j) \/ PurgeLetter(a, j)
      PROVE  UNCHANGED unlogged
  BY <1>3 DEF AdminStep, AdminDies, Requeue, SaveLetter, SavePurged, RemoveLetter, RetryLetter,
              PurgeLetter, otherVars
<1>4. CASE (\E e \in Events : Trigger(e)) \/ (\E d \in DOMAIN rows : ManualRetry(d)) \/ SwitchOff
           \/ LockExpires \/ UNCHANGED vars
  BY <1>4 DEF Trigger, ManualRetry, SwitchOff, LockExpires, vars
<1>5. ASSUME NEW w \in Workers, Fail(w), NEW j \in 1..MaxJobs PROVE unlogged[j] \subseteq unlogged'[j]
  BY <1>a, <1>5 DEF Fail
<1>6. UNCHANGED unlogged \/ \E w \in Workers : Fail(w)
  BY <1>1, <1>2, <1>3, <1>4 DEF Next
<1> QED
  BY <1>5, <1>6

\* A step adds a job or changes at most the state of one, never its event.
LEMMA JobSteps ==
  ASSUME TypeInv, [Next]_vars
  PROVE  \/ \E e \in Events : AddJob(e)
         \/ /\ DOMAIN jobs' = DOMAIN jobs
            /\ \A j \in DOMAIN jobs : jobs'[j].event = jobs[j].event
<1>a. \A j \in DOMAIN jobs : jobs[j] \in Job
  BY DEF TypeInv, TypeOK
<1>b. rows \in Seq(Delivery)
  BY DEF TypeInv, TypeOK
<1>1. ASSUME NEW j \in DOMAIN jobs, NEW state, jobs' = [jobs EXCEPT ![j].state = state]
      PROVE  DOMAIN jobs' = DOMAIN jobs /\ \A k \in DOMAIN jobs : jobs'[k].event = jobs[k].event
  BY <1>1, <1>a DEF Job
<1>2. ASSUME NEW w \in Workers, Fail(w)
      PROVE  DOMAIN jobs' = DOMAIN jobs /\ \A k \in DOMAIN jobs : jobs'[k].event = jobs[k].event
  <2>1. PICK n, state :
          jobs' = [jobs EXCEPT ![wjob[w]] = [@ EXCEPT !.attemptsMade = n, !.state = state]]
    BY <1>2 DEF Fail
  <2> QED
    BY <2>1, <1>a DEF Job
<1>3. ASSUME NEW w \in Workers, WorkerStep(w) \/ WorkerDies(w) \/ \E j \in DOMAIN jobs : Take(w, j)
      PROVE  DOMAIN jobs' = DOMAIN jobs /\ \A k \in DOMAIN jobs : jobs'[k].event = jobs[k].event
  <2>1. CASE Post(w) \/ SaveHook(w) \/ LogDelivery(w) \/ Bury(w) \/ (WorkerDies(w) /\ wpc[w] = "bury")
    BY <2>1 DEF Post, SaveHook, LogDelivery, Bury, WorkerDies
  <2>2. CASE Complete(w)
    <3>1. wjob[w] \in DOMAIN jobs
      BY <2>2 DEF Complete, TypeInv, WorkerInv
    <3> QED
      BY <2>2, <3>1, <1>1 DEF Complete
  <2>4. CASE WorkerDies(w) /\ wpc[w] # "bury"
    <3>1. PICK n, state :
            jobs' = [jobs EXCEPT ![wjob[w]] = [@ EXCEPT !.stalls = n, !.state = state]]
      BY <2>4 DEF WorkerDies
    <3> QED
      BY <3>1, <1>a DEF Job
  <2>3. ASSUME NEW j \in DOMAIN jobs, Take(w, j)
        PROVE  DOMAIN jobs' = DOMAIN jobs /\ \A k \in DOMAIN jobs : jobs'[k].event = jobs[k].event
    BY <2>3, <1>1 DEF Take
  <2> QED
    BY <1>2, <1>3, <2>1, <2>2, <2>3, <2>4 DEF WorkerStep
<1>4. ASSUME NEW i \in Crons, Acquire(i) \/ CronStep(i) \/ CronDies(i)
      PROVE  UNCHANGED jobs \/ \E e \in Events : AddJob(e)
  <2>1. CASE Enqueue(i)
    <3>1. rows[Min(ctodo[i])] \in Delivery
      <4>1. ctodo[i] \in SUBSET Nat /\ ctodo[i] # {} /\ ctodo[i] \subseteq DOMAIN rows
        BY <1>b, <2>1 DEF Enqueue, TypeInv, TypeOK, CronInv
      <4>2. Min(ctodo[i]) \in DOMAIN rows
        BY <4>1, MinIn
      <4> QED
        BY <1>b, <4>2
    <3> QED
      BY <2>1, <3>1 DEF Enqueue, Delivery
  <2> QED
    BY <1>4, <2>1 DEF CronStep, Acquire, Select, MarkRow, CronDies
<1>5. ASSUME NEW a \in Admins,
             AdminStep(a) \/ AdminDies(a) \/ \E j \in 1..MaxJobs : RetryLetter(a, j) \/ PurgeLetter(a, j)
      PROVE  UNCHANGED jobs \/ \E e \in Events : AddJob(e)
  <2>1. CASE Requeue(a)
    <3>1. jobs[aletter[a]] \in Job
      BY <1>a, <2>1 DEF Requeue, TypeInv, LetterInv
    <3> QED
      BY <2>1, <3>1 DEF Requeue, Job
  <2> QED
    BY <1>5, <2>1 DEF AdminStep, AdminDies, SaveLetter, SavePurged, RemoveLetter, RetryLetter, PurgeLetter
<1>6. CASE (\E e \in Events : Trigger(e)) \/ SwitchOff \/ LockExpires \/ UNCHANGED vars
  BY <1>6 DEF Trigger, SwitchOff, LockExpires, vars
<1>7. ASSUME NEW d \in DOMAIN rows, ManualRetry(d) PROVE \E e \in Events : AddJob(e)
  <2>1. rows[d] \in Delivery
    BY <1>b
  <2> QED
    BY <1>7, <2>1 DEF ManualRetry, Delivery
<1> QED
  BY <1>3, <1>4, <1>5, <1>6, <1>7 DEF Next

\* Jobs stay, with their events.
LEMMA JobsGrow ==
  ASSUME TypeInv, [Next]_vars
  PROVE  /\ DOMAIN jobs \subseteq DOMAIN jobs'
         /\ \A j \in DOMAIN jobs : jobs'[j].event = jobs[j].event
<1>1. ASSUME NEW e \in Events, AddJob(e)
      PROVE  /\ DOMAIN jobs \subseteq DOMAIN jobs'
             /\ \A j \in DOMAIN jobs : jobs'[j].event = jobs[j].event
  BY <1>1, NewJob DEF TypeInv
<1> QED
  BY <1>1, JobSteps
-----------------------------------------------------------------------------
(* What was read, what became of posts and jobs, and the last job.         *)

\* Where a worker stands changes by its own steps only.
LEMMA WorkerSame ==
  ASSUME TypeInv, [Next]_vars, NEW v \in Workers,
         ~ (WorkerStep(v) \/ WorkerDies(v) \/ \E j \in DOMAIN jobs : Take(v, j))
  PROVE  wpc'[v] = wpc[v] /\ wjob'[v] = wjob[v] /\ wseen'[v] = wseen[v] /\ wok'[v] = wok[v]
<1>1. ASSUME NEW w \in Workers, WorkerStep(w) \/ WorkerDies(w) \/ \E j \in DOMAIN jobs : Take(w, j)
      PROVE  wpc'[v] = wpc[v] /\ wjob'[v] = wjob[v] /\ wseen'[v] = wseen[v] /\ wok'[v] = wok[v]
  <2>1. w # v
    BY <1>1
  <2>2. /\ \A x : Goto(w, x) => wpc'[v] = wpc[v]
        /\ Free(w) => wpc'[v] = wpc[v] /\ wjob'[v] = wjob[v] /\ wseen'[v] = wseen[v] /\ wok'[v] = wok[v]
    BY <2>1 DEF Goto, Free, TypeInv, TypeOK
  <2>3. wok'[v] = wok[v]
    BY <1>1, <2>1, <2>2, Zenon DEF WorkerStep, Post, SaveHook, LogDelivery, Complete, Fail, Bury, WorkerDies,
                            Take, TypeInv, TypeOK
  <2>4. wpc'[v] = wpc[v] /\ wjob'[v] = wjob[v] /\ wseen'[v] = wseen[v]
    BY <1>1, <2>1, <2>2 DEF WorkerStep, Post, SaveHook, LogDelivery, Complete, Fail, Bury, WorkerDies, Take,
                            TypeInv, TypeOK
  <2> QED
    BY <2>3, <2>4
<1>2. ASSUME NEW i \in Crons, Acquire(i) \/ CronStep(i) \/ CronDies(i) PROVE UNCHANGED workerVars
  BY <1>2 DEF CronStep, Acquire, Select, Enqueue, MarkRow, CronDies
<1>3. ASSUME NEW a \in Admins,
             AdminStep(a) \/ AdminDies(a) \/ \E j \in 1..MaxJobs : RetryLetter(a, j) \/ PurgeLetter(a, j)
      PROVE  UNCHANGED workerVars
  BY <1>3 DEF AdminStep, AdminDies, Requeue, SaveLetter, SavePurged, RemoveLetter, RetryLetter,
              PurgeLetter, otherVars
<1>4. CASE (\E e \in Events : Trigger(e)) \/ (\E d \in DOMAIN rows : ManualRetry(d)) \/ SwitchOff
           \/ LockExpires \/ UNCHANGED vars
  BY <1>4 DEF Trigger, ManualRetry, SwitchOff, LockExpires, vars, workerVars
<1> QED
  BY <1>1, <1>2, <1>3, <1>4 DEF Next, workerVars

\* A step that is no worker's changes the queue by additions only, and writes
\* no letter off as none.
LEMMA OthersQueue ==
  ASSUME TypeInv, [Next]_vars,
         ~ \E w \in Workers : WorkerStep(w) \/ WorkerDies(w) \/ \E j \in DOMAIN jobs : Take(w, j)
  PROVE  /\ UNCHANGED workerVars
         /\ UNCHANGED jobs \/ \E e \in Events : AddJob(e)
         /\ \A j \in 1..MaxJobs : deadLetters[j] # "none" => deadLetters'[j] # "none"
<1>a. /\ deadLetters \in [1..MaxJobs -> {"none", "pending", "requeued", "purged", "removed"}]
      /\ \A d \in DOMAIN rows : rows[d] \in Delivery
      /\ \A j \in DOMAIN jobs : jobs[j] \in Job
  BY DEF TypeInv, TypeOK
<1>1. ASSUME NEW i \in Crons, Acquire(i) \/ CronStep(i) \/ CronDies(i)
      PROVE  /\ UNCHANGED <<workerVars, deadLetters>>
             /\ UNCHANGED jobs \/ \E e : AddJob(e)
  BY <1>1 DEF CronStep, Acquire, Select, Enqueue, MarkRow, CronDies
<1>2. ASSUME NEW a \in Admins,
             AdminStep(a) \/ AdminDies(a) \/ \E j \in 1..MaxJobs : RetryLetter(a, j) \/ PurgeLetter(a, j)
      PROVE  /\ UNCHANGED workerVars
             /\ UNCHANGED jobs \/ \E e : AddJob(e)
             /\ \A j \in 1..MaxJobs : deadLetters[j] # "none" => deadLetters'[j] # "none"
  <2>1. UNCHANGED workerVars /\ (UNCHANGED jobs \/ \E e : AddJob(e))
    BY <1>2 DEF AdminStep, AdminDies, Requeue, SaveLetter, SavePurged, RemoveLetter, RetryLetter,
                PurgeLetter, otherVars
  <2>2. CASE UNCHANGED deadLetters
    BY <2>1, <2>2
  <2>3. CASE \E status \in {"requeued", "purged", "removed"} : SetLetter(a, status)
    BY <1>a, <2>1, <2>3 DEF SetLetter
  <2> QED
    BY <1>2, <2>2, <2>3 DEF AdminStep, AdminDies, Requeue, SaveLetter, SavePurged, RemoveLetter, RetryLetter,
                            PurgeLetter
<1>3. (\E e : AddJob(e)) => \E e \in Events : AddJob(e)
  <2> SUFFICES ASSUME NEW e, AddJob(e) PROVE \E f \in Events : AddJob(f)
    OBVIOUS
  <2>1. CASE \E f \in Events : AddJob(f)
    BY <2>1
  <2>2. CASE DOMAIN jobs' = DOMAIN jobs
    <3>1. jobs' = Append(jobs, [event |-> e, state |-> "waiting", attemptsMade |-> 0, stalls |-> 0])
      BY DEF AddJob
    <3>2. Len(jobs) \in Nat /\ DOMAIN jobs = 1..Len(jobs)
      BY DEF TypeInv, TypeOK
    <3>3. Len(jobs) + 1 \in DOMAIN jobs'
      BY <3>1, <3>2
    <3> QED
      BY <2>2, <3>2, <3>3
  <2> QED
    BY <2>1, <2>2, JobSteps
<1>4. CASE (\E e \in Events : Trigger(e)) \/ (\E d \in DOMAIN rows : ManualRetry(d)) \/ SwitchOff
           \/ LockExpires \/ UNCHANGED vars
  <2>1. UNCHANGED <<workerVars, deadLetters>>
    BY <1>4 DEF Trigger, ManualRetry, SwitchOff, LockExpires, vars, workerVars
  <2>2. UNCHANGED jobs \/ \E e : AddJob(e)
    <3>1. ASSUME NEW e \in Events, Trigger(e) PROVE AddJob(e)
      BY <3>1 DEF Trigger
    <3>2. ASSUME NEW d \in DOMAIN rows, ManualRetry(d) PROVE AddJob(rows[d].event)
      BY <3>2 DEF ManualRetry
    <3> QED
      BY <1>4, <3>1, <3>2 DEF SwitchOff, LockExpires, vars
  <2> QED
    BY <1>3, <2>1, <2>2
<1> QED
  BY <1>1, <1>2, <1>3, <1>4 DEF Next

\* What a worker has read of the webhook is what it is or was.
LEMMA NextBeen ==
  ASSUME TypeInv, BeenInv, [Next]_vars
  PROVE  BeenInv'
<1>a. been \subseteq been'
  BY Grows
<1>b. hook \in HookStates /\ wseen \in [Workers -> HookStates]
  BY DEF TypeInv, TypeOK
<1>1. hook' # "active" => hook' \in been'
  <2>1. CASE SwitchOff
    BY <2>1 DEF SwitchOff
  <2>2. ASSUME NEW w \in Workers, SaveHook(w) PROVE hook' = wseen[w] \/ UNCHANGED hook
    BY <2>2 DEF SaveHook
  <2>3. CASE UNCHANGED hook
    BY <1>a, <2>3 DEF BeenInv
  <2>4. ASSUME NEW w \in Workers, WorkerStep(w) \/ WorkerDies(w) \/ \E j \in DOMAIN jobs : Take(w, j)
        PROVE  SaveHook(w) \/ UNCHANGED hook
    BY <2>4 DEF WorkerStep, Post, LogDelivery, Complete, Fail, Bury, WorkerDies, Take
  <2>5. ASSUME NEW i \in Crons, Acquire(i) \/ CronStep(i) \/ CronDies(i) PROVE UNCHANGED hook
    BY <2>5 DEF CronStep, Acquire, Select, Enqueue, MarkRow, CronDies
  <2>6. ASSUME NEW a \in Admins,
               AdminStep(a) \/ AdminDies(a) \/ \E j \in 1..MaxJobs : RetryLetter(a, j) \/ PurgeLetter(a, j)
        PROVE  UNCHANGED hook
    BY <2>6 DEF AdminStep, AdminDies, Requeue, SaveLetter, SavePurged, RemoveLetter, RetryLetter,
                PurgeLetter, otherVars
  <2>7. CASE (\E e \in Events : Trigger(e)) \/ (\E d \in DOMAIN rows : ManualRetry(d))
             \/ LockExpires \/ UNCHANGED vars
    BY <2>3, <2>7 DEF Trigger, ManualRetry, LockExpires, vars
  <2> QED
    BY <1>a, <2>1, <2>2, <2>3, <2>4, <2>5, <2>6, <2>7 DEF Next, BeenInv
<1>2. ASSUME NEW v \in Workers, wseen'[v] # "active" PROVE wseen'[v] \in been'
  <2>1. CASE wseen'[v] = wseen[v]
    BY <1>a, <1>2, <2>1 DEF BeenInv
  <2>2. ASSUME NEW j \in DOMAIN jobs, Take(v, j) PROVE wseen'[v] = hook
    BY <1>b, <2>2 DEF Take
  <2>3. CASE WorkerStep(v) \/ WorkerDies(v)
    <3>1. CASE Free(v)
      BY <1>2, <1>b, <3>1 DEF Free
    <3> QED
      BY <2>1, <2>3, <3>1 DEF WorkerStep, Post, SaveHook, LogDelivery, Complete, Fail, Bury, WorkerDies
  <2> QED
    BY <1>a, <1>2, <2>1, <2>2, <2>3, WorkerSame DEF BeenInv
<1> QED
  BY <1>1, <1>2 DEF BeenInv

\* Reports stay true.
LEMMA NextOutcome ==
  ASSUME TypeInv, BeenInv, OutcomeInv, JobInv, [Next]_vars
  PROVE  OutcomeInv'
<1> SUFFICES ASSUME NEW v \in Workers PROVE OutcomeOf(v)'
  BY DEF OutcomeInv
<1>a. /\ received \subseteq received' /\ been \subseteq been'
      /\ \A e : Hopeful(e) => Hopeful(e)'
  BY Grows, HopefulGrows
<1>b. /\ wpc \in [Workers -> WorkerSteps] /\ wjob \in [Workers -> 0..Len(jobs)]
      /\ wseen \in [Workers -> HookStates] /\ wok \in [Workers -> BOOLEAN]
  BY DEF TypeInv, TypeOK
<1>c. /\ OutcomeOf(v)
      /\ wpc[v] # "idle" => wjob[v] \in DOMAIN jobs
  BY DEF OutcomeInv, TypeInv, WorkerInv
<1>d. ASSUME wpc[v] # "idle", wjob'[v] = wjob[v]
      PROVE  /\ Event(v)' = Event(v)
             /\ \A n : n = wjob[v] => (NeverLogged(n) => NeverLogged(n)') /\ wjob'[v] = n
  <2>1. wjob[v] \in 1..MaxJobs
    BY <1>c, <1>d, WebhooksAssumption DEF TypeInv, TypeOK, LetterInv
  <2> QED
    BY <1>c, <1>d, <2>1, JobsGrow, UnloggedGrows DEF Event, NeverLogged
<1>1. CASE wpc'[v] = wpc[v] /\ wjob'[v] = wjob[v] /\ wok'[v] = wok[v]
  <2>1. CASE wpc[v] = "idle"
    BY <1>1, <1>c, <2>1 DEF OutcomeOf
  <2>2. CASE wpc[v] # "idle"
    <3>1. PICK e, n : e = Event(v) /\ n = wjob[v]
      OBVIOUS
    <3>2. /\ Event(v)' = e /\ wjob'[v] = n /\ (NeverLogged(n) => NeverLogged(n)')
          /\ Hopeful(e) => Hopeful(e)'
      BY <1>1, <1>a, <1>d, <2>2, <3>1
    <3> QED
      BY <1>1, <1>a, <1>c, <3>1, <3>2, Zenon DEF OutcomeOf
  <2> QED
    BY <2>1, <2>2
<1>2. CASE Free(v)
  <2>1. wpc'[v] = "idle" /\ wok'[v] = FALSE
    BY <1>2, Freed, Zenon DEF TypeInv, TypeOK, Free, Goto
  <2> QED
    BY <2>1 DEF OutcomeOf
<1>3. ASSUME NEW j \in DOMAIN jobs, Take(v, j) PROVE OutcomeOf(v)'
  <2>1. wpc[v] = "idle" /\ ~ wok[v]
    BY <1>3, <1>c DEF Take, OutcomeOf
  <2>2. ~ wok'[v]
    BY <1>3, <2>1 DEF Take
  <2>3. wpc'[v] # "end"
    BY <1>3, <1>b DEF Take, Goto, TypeInv, TypeOK, HookStates
  <2> QED
    BY <2>2, <2>3 DEF OutcomeOf
<1>4. CASE Post(v)
  <2>1. wpc[v] = "post" /\ wjob' = wjob /\ wpc'[v] = "save"
    BY <1>4, <1>b DEF Post, Goto
  <2>2. ~ wok[v] /\ Event(v)' = Event(v)
    BY <1>c, <1>d, <2>1 DEF OutcomeOf
  <2>3. wok'[v] => Event(v) \in received'
    BY <1>4, <2>2, Zenon DEF Post
  <2> QED
    BY <2>1, <2>2, <2>3 DEF OutcomeOf
<1>5. CASE SaveHook(v)
  <2>1. wpc[v] = "save" /\ wjob' = wjob /\ wok' = wok /\ wpc'[v] \in {"log", "threw"}
    BY <1>5, <1>b DEF SaveHook, Goto, AfterSave
  <2>2. Event(v)' = Event(v)
    BY <1>d, <2>1
  <2> QED
    BY <1>a, <1>c, <2>1, <2>2 DEF OutcomeOf
<1>9. CASE LogDelivery(v) /\ wpc'[v] # "end"
  <2>1. wpc'[v] = "threw"
    BY <1>9, <1>b DEF LogDelivery, Goto
  <2> QED
    BY <2>1 DEF OutcomeOf
<1>6. CASE LogDelivery(v) /\ wpc'[v] = "end"
  <2> DEFINE n == Len(rows) + 1
  <2>1. /\ wpc[v] = "log" /\ wjob' = wjob /\ wpc'[v] = "end" /\ UNCHANGED <<received, been>>
    BY <1>6 DEF LogDelivery
  <2>2. Event(v)' = Event(v) /\ wjob[v] \in DOMAIN jobs
    BY <1>c, <1>d, <2>1
  <2>3. wok'[v] = (wok[v] \/ wseen[v] = "inactive")
    <3>1. wok' = [wok EXCEPT ![v] = @ \/ wseen[v] = "inactive"]
      <4>1. ~ Goto(v, "threw")
        BY <1>6, <1>b DEF Goto
      <4> QED
        BY <1>6, <4>1, Zenon DEF LogDelivery
    <3> QED
      BY <1>b, <3>1, Zenon
  <2>4. /\ DOMAIN rows' = DOMAIN rows \cup {n}
        /\ rows'[n].event = Event(v) /\ rows'[n].success = wok[v]
        /\ rows'[n].attempt = jobs[wjob[v]].attemptsMade + 1
    BY <1>6, Logged
  <2>5. /\ jobs[wjob[v]].attemptsMade \in Nat /\ jobs[wjob[v]].attemptsMade < MaxAttempts
    <3>1. jobs[wjob[v]] \in Job /\ jobs[wjob[v]].state = "active"
      <4>1. \A j \in DOMAIN jobs : jobs[j] \in Job
        BY DEF TypeInv, TypeOK
      <4> QED
        BY <2>1, <2>2, <4>1 DEF TypeInv, WorkerInv
    <3> QED
      BY <2>2, <3>1 DEF TypeInv, AttemptInv, Open, Job
  <2> HIDE DEF n
  <2>n. PICK e, m : e = Event(v) /\ m = wjob[v]
    OBVIOUS
  <2>o. /\ Event(v)' = e /\ wjob'[v] = m /\ (NeverLogged(m) => NeverLogged(m)')
        /\ Hopeful(e) => Hopeful(e)'
    BY <1>a, <1>d, <2>1, <2>n
  <2>6. ASSUME ~ wok[v], "deleted" \notin been, ~ NeverLogged(m) PROVE Hopeful(e)'
    <3>1. CASE jobs[m].attemptsMade + 1 = MaxAttempts
      <4>1. ~ Missed(m)
        BY <2>5, <2>6, <2>n, <3>1 DEF Missed, NeverLogged
      <4> QED
        BY <2>2, <2>6, <2>n, <2>o, <4>1 DEF JobInv, JobOf, Event
    <3>2. CASE jobs[m].attemptsMade + 1 # MaxAttempts
      <4>1. rows'[n].attempt < MaxAttempts /\ ~ rows'[n].success
        BY <2>4, <2>5, <2>6, <2>n, <3>2, WebhooksAssumption
      <4>2. n \in DOMAIN rows' /\ rows'[n].event = e
        BY <2>4, <2>n
      <4> QED
        BY <4>1, <4>2 DEF Hopeful, Retriable
    <3> QED
      BY <3>1, <3>2
  <2>7. wok[v] => e \in received'
    BY <1>c, <2>1, <2>n DEF OutcomeOf
  <2>8. wseen[v] = "inactive" => been' # {}
    BY <2>1 DEF BeenInv
  <2>9. wok'[v] /\ "deleted" \notin been' /\ ~ NeverLogged(m)' => e \in received' \/ (been' # {} /\ Hopeful(e)')
    BY <2>1, <2>3, <2>6, <2>7, <2>8, <2>o
  <2>10. ~ wok'[v] /\ "deleted" \notin been' /\ ~ NeverLogged(m)' => Hopeful(e)'
    BY <2>1, <2>3, <2>6, <2>o
  <2> QED
    BY <2>1, <2>9, <2>10, <2>o, Zenon DEF OutcomeOf
<1>7. CASE Fail(v)
  <2>1. CASE Free(v)
    BY <1>2, <2>1
  <2>2. CASE Goto(v, "bury")
    <3>1. wpc'[v] = "bury"
      BY <1>b, <2>2 DEF Goto
    <3> QED
      BY <3>1 DEF OutcomeOf
  <2> QED
    BY <1>7, <2>1, <2>2 DEF Fail
<1>8. CASE Complete(v) \/ Bury(v) \/ WorkerDies(v)
  BY <1>2, <1>8 DEF Complete, Bury, WorkerDies
<1> QED
  BY <1>1, <1>3, <1>4, <1>5, <1>6, <1>7, <1>8, <1>9, WorkerSame DEF WorkerStep
\* What became of the jobs stays.
LEMMA NextJob ==
  ASSUME TypeInv, OutcomeInv, JobInv, [Next]_vars
  PROVE  JobInv'
<1> SUFFICES ASSUME NEW j \in DOMAIN jobs' PROVE JobOf(j)'
  BY DEF JobInv
<1>a. /\ received \subseteq received' /\ been \subseteq been' /\ faults <= faults' /\ faults \in Nat
      /\ faults' \in Nat /\ \A e : Hopeful(e) => Hopeful(e)'
  BY Grows, HopefulGrows, NextType DEF TypeInv, TypeOK
<1>b. /\ wpc \in [Workers -> WorkerSteps] /\ wjob \in [Workers -> 0..Len(jobs)]
      /\ \A k \in DOMAIN jobs : jobs[k] \in Job /\ k \in 1..MaxJobs
      /\ deadLetters \in [1..MaxJobs -> {"none", "pending", "requeued", "purged", "removed"}]
  <2>1. DOMAIN jobs \subseteq 1..MaxJobs
    BY WebhooksAssumption DEF TypeInv, TypeOK, LetterInv
  <2> QED
    BY <2>1 DEF TypeInv, TypeOK
<1>c. \A k \in DOMAIN jobs : JobOf(k)
  BY DEF JobInv
<1>e. j \in DOMAIN jobs =>
        /\ NeverLogged(j) => NeverLogged(j)'
        /\ Missed(j) /\ jobs'[j].attemptsMade = jobs[j].attemptsMade => Missed(j)'
  BY <1>b, UnloggedGrows DEF NeverLogged, Missed
<1>f. ASSUME j \in DOMAIN jobs, jobs'[j].event = jobs[j].event,
             jobs'[j].attemptsMade = jobs[j].attemptsMade,
             "deleted" \notin been', ~ Missed(j)'
      PROVE  Hopeful(jobs[j].event)'
  <2>1. PICK e : e = jobs[j].event
    OBVIOUS
  <2>2. Hopeful(e)
    BY <1>a, <1>c, <1>e, <1>f, <2>1 DEF JobOf
  <2>3. jobs'[j].event = e /\ Hopeful(e)'
    BY <1>a, <1>f, <2>1, <2>2
  <2> QED
    BY <2>3
<1>d. ASSUME j \in DOMAIN jobs, jobs'[j] = jobs[j],
             deadLetters[j] # "none" => deadLetters'[j] # "none" \/ faults' > 0,
             \A w \in Workers : wpc[w] = "bury" /\ wjob[w] = j =>
                (wpc'[w] = "bury" /\ wjob'[w] = j) \/ deadLetters'[j] # "none" \/ faults' > 0
      PROVE  JobOf(j)'
  <2>1. jobs'[j].event = jobs[j].event /\ JobOf(j)
    BY <1>c, <1>d
  <2>2. "deleted" \notin been' /\ ~ Missed(j)' => Hopeful(jobs[j].event)'
    BY <1>d, <1>f
  <2>3. jobs'[j].state = "completed" /\ "deleted" \notin been' /\ ~ NeverLogged(j)' =>
          jobs'[j].event \in received' \/ (been' # {} /\ Hopeful(jobs[j].event)')
    <3>1. PICK e : e = jobs[j].event
      OBVIOUS
    <3>2. Hopeful(e) => Hopeful(e)'
      BY <1>a
    <3>3. jobs'[j].event = e
      BY <2>1, <3>1
    <3>4. jobs'[j].state = "completed" /\ "deleted" \notin been' /\ ~ NeverLogged(j)' =>
            e \in received' \/ (been' # {} /\ Hopeful(e)')
      BY <1>a, <1>d, <1>e, <2>1, <3>1, <3>2 DEF JobOf
    <3> QED
      BY <3>3, <3>4
  <2>4. jobs'[j].state = "failed" /\ ~ StalledOut(j)' =>
          deadLetters'[j] # "none" \/ faults' > 0 \/ \E w \in Workers : wpc'[w] = "bury" /\ wjob'[w] = j
    BY <1>a, <1>d, <2>1 DEF JobOf, StalledOut
  <2> QED
    BY <2>2, <2>3, <2>4 DEF JobOf
<1>1. CASE ~ \E w \in Workers : WorkerStep(w) \/ WorkerDies(w) \/ \E k \in DOMAIN jobs : Take(w, k)
  <2>1. /\ UNCHANGED workerVars
        /\ UNCHANGED jobs \/ \E e \in Events : AddJob(e)
        /\ \A k \in 1..MaxJobs : deadLetters[k] # "none" => deadLetters'[k] # "none"
    BY <1>1, OthersQueue
  <2>2. CASE UNCHANGED jobs
    BY <1>b, <1>d, <2>1, <2>2 DEF workerVars
  <2>3. ASSUME NEW e \in Events, AddJob(e) PROVE JobOf(j)'
    <3>1. j \in DOMAIN jobs => jobs'[j] = jobs[j]
      BY <2>3, NewJob DEF TypeInv
    <3>2. j \notin DOMAIN jobs => jobs'[j] = [event |-> e, state |-> "waiting", attemptsMade |-> 0, stalls |-> 0]
      BY <2>3, NewJob DEF TypeInv
    <3>3. CASE j \in DOMAIN jobs
      BY <1>b, <1>d, <2>1, <3>1, <3>3 DEF workerVars
    <3>4. CASE j \notin DOMAIN jobs
      <4>1. jobs'[j].attemptsMade = 0 /\ jobs'[j].state = "waiting"
        BY <3>2, <3>4
      <4> QED
        BY <4>1 DEF JobOf, Missed
    <3> QED
      BY <3>3, <3>4
  <2> QED
    BY <2>1, <2>2, <2>3
<1>2. ASSUME NEW w \in Workers, WorkerStep(w) \/ WorkerDies(w) \/ \E k \in DOMAIN jobs : Take(w, k)
      PROVE  JobOf(j)'
  <2>a. /\ wpc[w] # "idle" => wjob[w] \in DOMAIN jobs
        /\ wpc[w] \notin {"idle", "bury"} => jobs[wjob[w]].state = "active"
    BY DEF TypeInv, WorkerInv
  <2>b. \A v \in Workers : wpc[v] = "bury" => wjob[v] \in DOMAIN jobs /\ jobs[wjob[v]].state = "failed"
    BY DEF TypeInv, WorkerInv
  <2>c. \A v \in Workers \ {w} : wpc'[v] = wpc[v] /\ wjob'[v] = wjob[v]
    BY <1>2, <1>b DEF WorkerStep, Post, SaveHook, LogDelivery, Complete, Fail, Bury, WorkerDies, Take,
                      Goto, Free
  <2>d. ASSUME NEW k \in DOMAIN jobs, NEW q, jobs' = [jobs EXCEPT ![k] = q],
               jobs[k].state # "failed", wpc[w] # "bury", UNCHANGED deadLetters, j # k
        PROVE  JobOf(j)'
    <3>1. j \in DOMAIN jobs /\ jobs'[j] = jobs[j]
      BY <2>d
    <3> QED
      BY <1>a, <1>d, <2>c, <2>d, <3>1
  <2>1. CASE Post(w) \/ SaveHook(w) \/ LogDelivery(w)
    <3>1. wpc[w] # "bury" /\ UNCHANGED <<jobs, deadLetters>>
      BY <2>1 DEF Post, SaveHook, LogDelivery
    <3> QED
      BY <1>d, <2>c, <3>1
  <2>2. ASSUME NEW k \in DOMAIN jobs, Take(w, k) PROVE JobOf(j)'
    <3> DEFINE q == [jobs[k] EXCEPT !.state = "active"]
    <3>1. jobs' = [jobs EXCEPT ![k] = q] /\ jobs[k].state = "waiting" /\ wpc[w] = "idle" /\ UNCHANGED deadLetters
      BY <2>2 DEF Take
    <3>2. CASE j # k
      BY <2>d, <3>1, <3>2
    <3>3. CASE j = k
      <4>1. jobs'[j].event = jobs[j].event /\ jobs'[j].state = "active"
            /\ jobs'[j].attemptsMade = jobs[j].attemptsMade
        BY <1>b, <3>1, <3>3 DEF Job
      <4> QED
        BY <1>f, <3>3, <4>1 DEF JobOf
    <3> QED
      BY <3>2, <3>3
  <2>3. CASE WorkerDies(w) /\ wpc[w] # "bury"
    <3> DEFINE k == wjob[w]
               state == IF jobs[k].stalls < MaxStalledCount THEN "waiting" ELSE "failed"
               q == [jobs[k] EXCEPT !.stalls = jobs[k].stalls + 1, !.state = state]
    <3>1. /\ jobs' = [jobs EXCEPT ![k] = q] /\ k \in DOMAIN jobs /\ jobs[k].state = "active"
          /\ UNCHANGED deadLetters /\ faults' > 0
      BY <1>a, <2>3, <2>a DEF WorkerDies, Fault
    <3>2. CASE j # k
      BY <2>3, <2>d, <3>1, <3>2
    <3>3. CASE j = k
      <4>1. jobs'[j].event = jobs[j].event /\ jobs'[j].state \in {"waiting", "failed"}
            /\ jobs'[j].attemptsMade = jobs[j].attemptsMade
        BY <1>b, <3>1, <3>3 DEF Job
      <4> QED
        BY <1>f, <3>1, <3>3, <4>1 DEF JobOf
    <3> QED
      BY <3>2, <3>3
  <2>4. CASE Complete(w)
    <3> DEFINE k == wjob[w]
               q == [jobs[k] EXCEPT !.state = "completed"]
    <3>1. /\ jobs' = [jobs EXCEPT ![k] = q] /\ k \in DOMAIN jobs /\ jobs[k].state = "active"
          /\ wpc[w] = "end" /\ wok[w] /\ UNCHANGED deadLetters
      BY <2>4, <2>a DEF Complete
    <3>2. CASE j # k
      BY <2>d, <3>1, <3>2
    <3>3. CASE j = k
      <4>1. jobs'[j].event = jobs[j].event /\ jobs'[j].state = "completed"
            /\ jobs'[j].attemptsMade = jobs[j].attemptsMade
        BY <1>b, <3>1, <3>3 DEF Job
      <4>2. PICK e : e = jobs[j].event
        OBVIOUS
      <4>3. "deleted" \notin been /\ ~ NeverLogged(j) => e \in received \/ (been # {} /\ Hopeful(e))
        BY <3>1, <3>3, <4>2 DEF OutcomeInv, OutcomeOf, Event
      <4>4. "deleted" \notin been' /\ ~ NeverLogged(j)' => e \in received' \/ (been' # {} /\ Hopeful(e)')
        BY <1>a, <1>e, <3>1, <3>3, <4>3
      <4>5. "deleted" \notin been' /\ ~ Missed(j)' => Hopeful(jobs[j].event)'
        BY <1>f, <3>1, <3>3, <4>1
      <4>6. jobs'[j].event = e
        BY <4>1, <4>2
      <4> QED
        BY <4>1, <4>4, <4>5, <4>6 DEF JobOf
    <3> QED
      BY <3>2, <3>3
  <2>5. CASE Fail(w)
    <3> DEFINE k == wjob[w]
               n == jobs[k].attemptsMade + 1
               q == [jobs[k] EXCEPT !.attemptsMade = n,
                                    !.state = IF GivenUp(n) THEN "failed" ELSE "waiting"]
    <3>1. /\ jobs' = [jobs EXCEPT ![k] = q] /\ k \in DOMAIN jobs /\ jobs[k].state = "active"
          /\ wpc[w] = "threw" \/ (wpc[w] = "end" /\ ~ wok[w])
          /\ UNCHANGED <<deadLetters, been>>
      BY <2>5, <2>a DEF Fail
    <3>2. CASE j # k
      BY <2>d, <3>1, <3>2
    <3>3. CASE j = k
      <4>1. /\ jobs'[j].event = jobs[j].event /\ jobs'[j].attemptsMade = n
            /\ jobs'[j].state \in {"failed", "waiting"} /\ (jobs'[j].state = "failed" => GivenUp(n))
        <5> HIDE DEF n
        <5>1. jobs'[k] = q /\ jobs[k] \in Job
          BY <1>b, <3>1
        <5>2. /\ q.event = jobs[k].event /\ q.attemptsMade = n
              /\ q.state = IF GivenUp(n) THEN "failed" ELSE "waiting"
          BY <5>1 DEF Job
        <5> HIDE DEF q
        <5>3. q.state \in {"failed", "waiting"} /\ (q.state = "failed" => GivenUp(n))
          BY <5>2
        <5> QED
          BY <3>3, <5>1, <5>2, <5>3
      <4>2. PICK e : e = jobs[j].event
        OBVIOUS
      <4>3. jobs[j].attemptsMade \in Nat
        BY <1>b, <3>1, <3>3 DEF Job
      <4>4. GivenUp(n) => wpc'[w] = "bury" /\ wjob'[w] = k
        BY <2>5, <1>b DEF Fail, Goto
      <4>5. "deleted" \notin been' /\ ~ Missed(j)' => Hopeful(e)'
        <5>1. CASE wpc[w] = "threw"
          <6>1. n \in unlogged'[j]
            <7>1. unlogged' = [unlogged EXCEPT ![j] = @ \cup {n}]
              BY <2>5, <3>3, <5>1 DEF Fail
            <7>2. unlogged \in [1..MaxJobs -> SUBSET (1..MaxAttempts)] /\ j \in 1..MaxJobs
              BY <1>b, <3>1, <3>3 DEF TypeInv, TypeOK
            <7> QED
              BY <7>1, <7>2
          <6>2. Missed(j) => Missed(j)'
            <7> SUFFICES ASSUME Missed(j), NEW m \in 1..n, m < MaxAttempts PROVE m \in unlogged'[j]
              BY <4>1 DEF Missed
            <7>1. m = n \/ m \in 1..jobs[j].attemptsMade
              BY <3>3, <4>3
            <7>2. m \in 1..jobs[j].attemptsMade => m \in unlogged[j]
              BY DEF Missed
            <7>3. unlogged[j] \subseteq unlogged'[j]
              BY <1>b, <3>1, <3>3, UnloggedGrows
            <7> QED
              BY <6>1, <7>1, <7>2, <7>3
          <6>3. "deleted" \notin been' /\ ~ Missed(j)' => Hopeful(e)
            BY <1>a, <1>c, <3>1, <3>3, <4>2, <6>2 DEF JobOf
          <6> QED
            BY <1>a, <6>3
        <5>2. CASE wpc[w] = "end" /\ ~ wok[w]
          <6>1. "deleted" \notin been /\ ~ NeverLogged(j) => Hopeful(e)
            BY <3>3, <4>2, <5>2 DEF OutcomeInv, OutcomeOf, Event
          <6>2. NeverLogged(j) => Missed(j)'
            <7> SUFFICES ASSUME NeverLogged(j), NEW m \in 1..n, m < MaxAttempts PROVE m \in unlogged'[j]
              BY <4>1 DEF Missed
            <7>1. m \in 1..(MaxAttempts - 1)
              BY <3>3, <4>3, WebhooksAssumption
            <7>2. unlogged[j] \subseteq unlogged'[j]
              BY <1>b, <3>1, <3>3, UnloggedGrows
            <7> QED
              BY <7>1, <7>2 DEF NeverLogged
          <6> QED
            BY <1>a, <6>1, <6>2
        <5> QED
          BY <3>1, <5>1, <5>2
      <4> HIDE DEF n, q
      <4>6. jobs'[j].state = "failed" => \E v \in Workers : wpc'[v] = "bury" /\ wjob'[v] = j
        BY <3>3, <4>1, <4>4
      <4>7. jobs'[j].event = e
        BY <4>1, <4>2
      <4> QED
        BY <4>1, <4>5, <4>6, <4>7 DEF JobOf
    <3> QED
      BY <3>2, <3>3
  <2>6. CASE Bury(w) \/ (WorkerDies(w) /\ wpc[w] = "bury")
    <3>1. wpc[w] = "bury" /\ UNCHANGED jobs /\ wjob[w] \in 1..MaxJobs
      BY <2>6, <2>a, <1>b DEF Bury, WorkerDies
    <3>2. (deadLetters' = [deadLetters EXCEPT ![wjob[w]] = "pending"]) \/ (faults' > 0 /\ UNCHANGED deadLetters)
      BY <2>6, <1>a DEF Bury, WorkerDies, Fault
    <3>3. deadLetters'[wjob[w]] # "none" \/ faults' > 0
      BY <1>b, <3>1, <3>2
    <3>4. j \in DOMAIN jobs /\ (deadLetters[j] # "none" => deadLetters'[j] # "none")
      BY <1>b, <3>1, <3>2
    <3> QED
      BY <1>d, <2>c, <3>1, <3>3, <3>4
  <2> QED
    BY <1>2, <2>1, <2>2, <2>3, <2>4, <2>5, <2>6 DEF WorkerStep
<1> QED
  BY <1>1, <1>2
\* A job that has a later one keeps it.
LEMMA LaterGrows ==
  ASSUME TypeInv, [Next]_vars, NEW j \in DOMAIN jobs, Later(j)
  PROVE  Later(j)'
<1>1. PICK k \in DOMAIN jobs : k > j /\ jobs[k].event = jobs[j].event
  BY DEF Later
<1>2. k \in DOMAIN jobs' /\ jobs'[k].event = jobs'[j].event
  BY <1>1, JobsGrow
<1> QED
  BY <1>1, <1>2 DEF Later

\* Letters are requeued by SaveLetter, which Requeue comes before.
LEMMA LetterSteps ==
  ASSUME TypeInv, [Next]_vars
  PROVE  /\ \A j \in 1..MaxJobs : deadLetters'[j] = "requeued" =>
              deadLetters[j] = "requeued" \/ \E a \in Admins : apc[a] = "save" /\ j = aletter[a]
         /\ \A a \in Admins : apc'[a] = "save" =>
              aletter'[a] = aletter[a] /\ (apc[a] = "save" \/ Requeue(a))
<1>a. /\ deadLetters \in [1..MaxJobs -> {"none", "pending", "requeued", "purged", "removed"}]
      /\ apc \in [Admins -> {"idle", "requeue", "save", "purge", "remove"}]
      /\ aletter \in [Admins -> 0..MaxJobs]
  BY DEF TypeInv, TypeOK
<1>1. CASE UNCHANGED <<deadLetters, adminVars>>
  BY <1>1 DEF adminVars
<1>2. ASSUME NEW w \in Workers, WorkerStep(w) \/ WorkerDies(w) \/ \E j \in DOMAIN jobs : Take(w, j)
      PROVE  /\ UNCHANGED adminVars
             /\ \A j \in 1..MaxJobs : deadLetters'[j] = "requeued" => deadLetters[j] = "requeued"
  <2>1. CASE Bury(w)
    BY <1>a, <2>1 DEF Bury
  <2> QED
    BY <1>2, <2>1 DEF WorkerStep, Post, SaveHook, LogDelivery, Complete, Fail, WorkerDies, Take
<1>3. ASSUME NEW a \in Admins,
             AdminStep(a) \/ AdminDies(a) \/ \E j \in 1..MaxJobs : RetryLetter(a, j) \/ PurgeLetter(a, j)
      PROVE  /\ \A j \in 1..MaxJobs : deadLetters'[j] = "requeued" =>
                  deadLetters[j] = "requeued" \/ \E b \in Admins : apc[b] = "save" /\ j = aletter[b]
             /\ \A b \in Admins : apc'[b] = "save" =>
                  aletter'[b] = aletter[b] /\ (apc[b] = "save" \/ Requeue(b))
  <2>1. CASE Requeue(a)
    BY <1>a, <2>1 DEF Requeue, AGoto
  <2>2. CASE SaveLetter(a)
    BY <1>a, <2>2 DEF SaveLetter, SetLetter, AFree, AGoto
  <2>3. CASE SavePurged(a) \/ RemoveLetter(a)
    BY <1>a, <2>3 DEF SavePurged, RemoveLetter, SetLetter, AFree, AGoto
  <2>4. CASE AdminDies(a)
    BY <1>a, <2>4 DEF AdminDies, AFree, AGoto
  <2>5. ASSUME NEW j \in 1..MaxJobs, RetryLetter(a, j) \/ PurgeLetter(a, j)
        PROVE  /\ UNCHANGED deadLetters
               /\ \A b \in Admins : apc'[b] = "save" => aletter'[b] = aletter[b] /\ apc[b] = "save"
    BY <1>a, <2>5 DEF RetryLetter, PurgeLetter, AGoto
  <2> QED
    BY <1>3, <2>1, <2>2, <2>3, <2>4, <2>5 DEF AdminStep
<1>4. ASSUME NEW i \in Crons, Acquire(i) \/ CronStep(i) \/ CronDies(i)
      PROVE  UNCHANGED <<deadLetters, adminVars>>
  BY <1>4 DEF CronStep, Acquire, Select, Enqueue, MarkRow, CronDies
<1>5. CASE (\E e \in Events : Trigger(e)) \/ (\E d \in DOMAIN rows : ManualRetry(d)) \/ SwitchOff
           \/ LockExpires \/ UNCHANGED vars
  BY <1>1, <1>5 DEF Trigger, ManualRetry, SwitchOff, LockExpires, vars, adminVars
<1>6. CASE UNCHANGED adminVars /\ \A j \in 1..MaxJobs : deadLetters'[j] = "requeued" => deadLetters[j] = "requeued"
  BY <1>6 DEF adminVars
<1> QED
  BY <1>1, <1>2, <1>3, <1>4, <1>5, <1>6 DEF Next

\* Whatever is put in the queue again has a later job, and every event a last.
LEMMA NextLast ==
  ASSUME TypeInv, LastInv, [Next]_vars
  PROVE  LastInv'
<1>a. DOMAIN jobs \subseteq Nat /\ DOMAIN jobs \subseteq 1..MaxJobs /\ Len(jobs) \in Nat
  BY WebhooksAssumption DEF TypeInv, TypeOK, LetterInv
<1>b. TypeInv'
  BY NextType
<1>1. ASSUME NEW j \in DOMAIN jobs', deadLetters'[j] = "requeued" PROVE Later(j)'
  <2>0. j \in 1..MaxJobs
    <3>1. jobs' \in Seq(Job) /\ Len(jobs') <= MaxJobs
      BY <1>b DEF TypeInv, TypeOK, LetterInv
    <3> QED
      BY <3>1, WebhooksAssumption
  <2>1. CASE deadLetters[j] = "requeued"
    <3>1. j \in DOMAIN jobs
      BY <2>0, <2>1 DEF TypeInv, LetterInv
    <3> QED
      BY <2>1, <3>1, LaterGrows DEF LastInv
  <2>2. ASSUME NEW a \in Admins, apc[a] = "save", j = aletter[a] PROVE Later(j)'
    <3>1. j \in DOMAIN jobs /\ Later(j)
      BY <2>2 DEF TypeInv, LetterInv, LastInv
    <3> QED
      BY <3>1, LaterGrows
  <2> QED
    BY <1>1, <2>0, <2>1, <2>2, LetterSteps
<1>2. ASSUME NEW a \in Admins, apc'[a] = "save" PROVE Later(aletter[a])' /\ aletter'[a] = aletter[a]
  <2>0. aletter'[a] = aletter[a]
    BY <1>2, LetterSteps
  <2>1. PICK j : j = aletter[a]
    OBVIOUS
  <2>2. CASE apc[a] = "save"
    <3>1. j \in DOMAIN jobs /\ Later(j)
      BY <2>1, <2>2 DEF TypeInv, LetterInv, LastInv
    <3>2. Later(j)'
      BY <3>1, LaterGrows
    <3> QED
      BY <2>0, <2>1, <3>2
  <2>3. CASE Requeue(a)
    <3>1. j \in DOMAIN jobs /\ AddJob(jobs[j].event)
      BY <2>1, <2>3 DEF Requeue, TypeInv, LetterInv
    <3>2. jobs[j].event \in Events
      <4>1. jobs[j] \in Job
        BY <3>1 DEF TypeInv, TypeOK
      <4> QED
        BY <4>1 DEF Job
    <3>3. PICK n, e : n = Len(jobs) + 1 /\ e = jobs[j].event
      OBVIOUS
    <3>4. /\ n \in DOMAIN jobs' /\ j < n /\ jobs'[j] = jobs[j]
          /\ jobs'[n] = [event |-> e, state |-> "waiting", attemptsMade |-> 0, stalls |-> 0]
      BY <3>1, <3>2, <3>3, NewJob DEF TypeInv
    <3>5. Later(j)'
      <4>1. n > j /\ jobs'[n].event = jobs'[j].event
        BY <1>a, <3>1, <3>3, <3>4
      <4> QED
        BY <3>4, <4>1 DEF Later
    <3> QED
      BY <2>0, <2>1, <3>5
  <2> QED
    BY <1>2, <2>2, <2>3, LetterSteps
<1>3. ASSUME NEW e \in Events, Triggered(e)' PROVE \E j \in DOMAIN jobs' : jobs'[j].event = e /\ ~ Later(j)'
  <2>1. ASSUME NEW f \in Events, AddJob(f)
        PROVE  \E j \in DOMAIN jobs' : jobs'[j].event = e /\ ~ Later(j)'
    <3>1. PICK n : n = Len(jobs) + 1
      OBVIOUS
    <3>2. /\ DOMAIN jobs' = DOMAIN jobs \cup {n} /\ n \in Nat
          /\ \A j \in DOMAIN jobs : jobs'[j] = jobs[j] /\ j < n
          /\ jobs'[n].event = f
      <4>1. /\ DOMAIN jobs' = DOMAIN jobs \cup {n} /\ n \in Nat
            /\ \A j \in DOMAIN jobs : jobs'[j] = jobs[j] /\ j < n
            /\ jobs'[n] = [event |-> f, state |-> "waiting", attemptsMade |-> 0, stalls |-> 0]
        BY <2>1, <3>1, NewJob DEF TypeInv
      <4> QED
        BY <4>1
    <3>3. CASE e = f
      <4>1. ~ Later(n)'
        BY <1>a, <3>2 DEF Later
      <4> QED
        BY <3>2, <3>3, <4>1
    <3>4. CASE e # f
      <4>1. Triggered(e)
        BY <1>3, <3>2, <3>4 DEF Triggered
      <4>2. PICK j \in DOMAIN jobs : jobs[j].event = e /\ ~ Later(j)
        BY <4>1 DEF LastInv
      <4>3. ~ Later(j)'
        BY <3>2, <3>4, <4>2 DEF Later
      <4> QED
        BY <3>2, <4>2, <4>3
    <3> QED
      BY <3>3, <3>4
  <2>2. CASE DOMAIN jobs' = DOMAIN jobs /\ \A j \in DOMAIN jobs : jobs'[j].event = jobs[j].event
    <3>1. Triggered(e)
      BY <1>3, <2>2 DEF Triggered
    <3>2. PICK j \in DOMAIN jobs : jobs[j].event = e /\ ~ Later(j)
      BY <3>1 DEF LastInv
    <3>3. ~ Later(j)'
      BY <2>2, <3>2 DEF Later
    <3> QED
      BY <2>2, <3>2, <3>3
  <2> QED
    BY <2>1, <2>2, JobSteps
<1>4. ASSUME NEW a \in Admins, apc'[a] = "save" PROVE Later(aletter[a])'
  BY <1>2, <1>4
<1> QED
  BY <1>1, <1>3, <1>4 DEF LastInv

\* Every step preserves the invariant.
LEMMA NextIInv == IInv /\ [Next]_vars => IInv'
  BY NextType, NextBeen, NextOutcome, NextJob, NextLast DEF IInv

\* The invariant says of the last job of an event that it is settled, or that
\* somebody still has to do with it.
LEMMA IInvAccounts == IInv => EventAccounted
<1> SUFFICES ASSUME IInv, NEW e \in Events, Triggered(e), "deleted" \notin been
             PROVE  \/ Carried(e)
                    \/ (faults > 0 \/ been # {}) /\ \E d \in Retriable : rows[d].event = e
                    \/ \E j \in DOMAIN jobs : jobs[j].event = e /\ (NeverLogged(j) \/ StalledOut(j))
  BY DEF EventAccounted
<1>1. PICK j \in DOMAIN jobs : jobs[j].event = e /\ ~ Later(j)
  BY DEF IInv, LastInv
<1>2. /\ jobs[j].state \in {"waiting", "active", "completed", "failed"} /\ jobs[j].attemptsMade \in Nat
      /\ j \in 1..MaxJobs
      /\ deadLetters[j] \in {"none", "pending", "requeued", "purged", "removed"}
  <2>1. \A k \in DOMAIN jobs : jobs[k] \in Job /\ k \in 1..MaxJobs
    BY WebhooksAssumption DEF IInv, TypeInv, TypeOK, LetterInv
  <2> QED
    BY <1>1, <2>1 DEF Job, IInv, TypeInv, TypeOK
<1>3. CASE Open(j)
  BY <1>1, <1>3 DEF Carried
<1>4. CASE jobs[j].state = "completed"
  BY <1>1, <1>4 DEF IInv, JobInv, JobOf, Carried, Hopeful
<1>5. CASE jobs[j].state = "failed"
  <2>1. ASSUME ~ NeverLogged(j), ~ StalledOut(j) PROVE Hopeful(e)
    <3>1. jobs[j].attemptsMade >= MaxAttempts
      BY <1>1, <1>5, <2>1 DEF IInv, TypeInv, AttemptInv
    <3>2. ~ Missed(j)
      BY <1>2, <2>1, <3>1, WebhooksAssumption DEF Missed, NeverLogged
    <3> QED
      BY <1>1, <3>2 DEF IInv, JobInv, JobOf
  <2>2. deadLetters[j] # "requeued"
    BY <1>1 DEF IInv, LastInv
  <2>3. CASE deadLetters[j] \in {"pending", "purged", "removed"}
    BY <1>1, <2>3 DEF Carried
  <2>4. ASSUME NEW w \in Workers, wpc[w] = "bury", wjob[w] = j PROVE Carried(e)
    BY <1>1, <2>4 DEF Carried, Event
  <2>5. CASE deadLetters[j] = "none" /\ faults > 0
    BY <1>1, <2>1, <2>5 DEF Hopeful
  <2>6. CASE StalledOut(j)
    BY <1>1, <2>6
  <2> QED
    BY <1>1, <1>2, <1>5, <2>2, <2>3, <2>4, <2>5, <2>6 DEF IInv, JobInv, JobOf
<1> QED
  BY <1>2, <1>3, <1>4, <1>5 DEF Open

-----------------------------------------------------------------------------
(* The theorems.                                                           *)

\* The invariant always holds.
LEMMA Invariance == Spec => []IInv
<1>1. Init => IInv
  BY InitIInv
<1> QED
  BY <1>1, NextIInv, PTL DEF Spec

\* Jobs, deliveries, dead letters, workers and crons keep their types: nobody
\* holds a job, a delivery or a letter that does not exist.
THEOREM TypeCorrect == Spec => []TypeOK
  BY Invariance, PTL DEF IInv, TypeInv

\* No event is lost through the repetitions of the queue, of the cron job and of
\* administrators, or through deaths, failed calls and the webhook being switched
\* off - except where it is deleted, where each attempt of a job below the limit
\* threw before it was logged, and where a job stalled more often than the queue
\* allows: these three are the ways in which the code loses an event.
THEOREM AccountedTheorem == Spec => []EventAccounted
  BY Invariance, IInvAccounts, PTL

\* However many runs of the cron job are under way, at most one of them is within
\* the time of its lock.
THEOREM ExclusiveTheorem == Spec => []CronExclusive
<1>1. IInv => CronExclusive
  BY DEF IInv, TypeInv, CronInv
<1> QED
  BY <1>1, Invariance, PTL
=============================================================================
