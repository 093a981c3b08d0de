------------------------------ MODULE Webhooks ------------------------------
(***************************************************************************)
(* Delivery of webhooks: the processor of the "webhook" queue              *)
(* (backend/src/common/queue/webhook.processor.ts), the cron job that      *)
(* retries failed deliveries (common/cron/webhook-retry.cron.ts), the      *)
(* requests that put jobs in the queue (modules/webhooks), and what        *)
(* administrators do with dead letters (common/queue/dead-letter.service). *)
(*                                                                         *)
(* One webhook is modelled; deliveries of different webhooks share nothing.*)
(* The queue is BullMQ, external: a job is taken by one worker, taken once *)
(* again when its worker died, failed at the second death, and repeated    *)
(* after a failure until its attempts are used up.  The receiver is        *)
(* external, too: it accepts or refuses a post, and its answer may be lost.*)
(*                                                                         *)
(* Time is abstract: a next_retry_at that is set may have passed whenever  *)
(* the cron job looks.                                                     *)
(***************************************************************************)
EXTENDS Integers, Sequences, FiniteSets, FiniteSetsExt

CONSTANTS
  Events,        \* occurrences of events the webhook is subscribed to
  Workers,       \* processes with a webhook worker
  Crons,         \* runs of the retry cron job that may be under way at a time
  Admins,        \* requests about dead letters that may be under way at a time
  MaxAttempts,   \* MAX_WEBHOOK_ATTEMPTS, also the attempts of a job (5)
  MaxJobs,       \* bound on the jobs ever queued
  Budget         \* bound on the jobs, the faults, the runs past their lock and the
                 \* ways in which the webhook is switched off, together

ASSUME WebhooksAssumption ==
  /\ MaxAttempts \in Nat \ {0, 1}
  /\ MaxJobs \in Nat
  /\ Budget \in Nat

VARIABLES
  hook,          \* the webhook: "active", "inactive" or "deleted"
  jobs,          \* the queue: a sequence of Job records
  rows,          \* webhook_deliveries: [event, attempt, success, retry]
  deadLetters,   \* dead_letters: the status of each job's, "removed" when soft-deleted
  received,      \* receiver: the events it has accepted
  wpc, wjob, wseen, wok,   \* worker: step, job, webhook it read, outcome
  lock,          \* Redis: cron:webhook-retry:lock
  cpc, ctodo,    \* cron run: step, rows selected and not yet handled
  outlived,      \* history: cron runs under way whose lock has expired
  apc, aletter,  \* administrator: step, dead letter
  faults,        \* process deaths and database calls that threw
  been,          \* history: what the webhook has been besides active
  unlogged       \* history: the attempts each job used up without a delivery

workerVars == <<wpc, wjob, wseen, wok>>
cronVars == <<lock, cpc, ctodo, outlived>>
adminVars == <<apc, aletter>>
vars == <<hook, jobs, rows, deadLetters, received, wpc, wjob, wseen, wok,
          lock, cpc, ctodo, outlived, apc, aletter, faults, been, unlogged>>

HookStates == {"active", "inactive", "deleted"}

Job == [event : Events, state : {"waiting", "active", "completed", "failed"},
        attemptsMade : 0..MaxAttempts, stalls : 0..2]

\* retry: next_retry_at is not null.
Delivery == [event : Events, attempt : 1..MaxAttempts, success : BOOLEAN, retry : BOOLEAN]

WorkerSteps == {"idle", "post", "save", "log", "end", "threw", "bury"}

TypeOK ==
  /\ hook \in HookStates
  /\ jobs \in Seq(Job)
  /\ rows \in Seq(Delivery)
  /\ deadLetters \in [1..MaxJobs -> {"none", "pending", "requeued", "purged", "removed"}]
  /\ received \subseteq Events
  /\ wpc \in [Workers -> WorkerSteps]
  /\ wjob \in [Workers -> 0..Len(jobs)]
  /\ wseen \in [Workers -> HookStates]
  /\ wok \in [Workers -> BOOLEAN]
  /\ lock \in BOOLEAN
  /\ cpc \in [Crons -> {"idle", "select", "enqueue", "mark"}]
  /\ ctodo \in [Crons -> SUBSET DOMAIN rows]
  /\ apc \in [Admins -> {"idle", "requeue", "save", "purge", "remove"}]
  /\ aletter \in [Admins -> 0..MaxJobs]
  /\ faults \in Nat
  /\ outlived \subseteq Crons
  /\ been \subseteq HookStates
  /\ unlogged \in [1..MaxJobs -> SUBSET (1..MaxAttempts)]

Init ==
  /\ hook = "active"
  /\ jobs = <<>>
  /\ rows = <<>>
  /\ deadLetters = [j \in 1..MaxJobs |-> "none"]
  /\ received = {}
  /\ wpc = [w \in Workers |-> "idle"]
  /\ wjob = [w \in Workers |-> 0]
  /\ wseen = [w \in Workers |-> "active"]
  /\ wok = [w \in Workers |-> FALSE]
  /\ lock = FALSE
  /\ cpc = [i \in Crons |-> "idle"]
  /\ ctodo = [i \in Crons |-> {}]
  /\ apc = [a \in Admins |-> "idle"]
  /\ aletter = [a \in Admins |-> 0]
  /\ outlived = {}
  /\ faults = 0
  /\ been = {}
  /\ unlogged = [j \in 1..MaxJobs |-> {}]

-----------------------------------------------------------------------------
(* Putting jobs in the queue.                                              *)

Room == Len(jobs) + faults + Cardinality(outlived) + Cardinality(been) < Budget

AddJob(e) ==
  /\ Len(jobs) < MaxJobs
  /\ Room
  /\ jobs' = Append(jobs, [event |-> e, state |-> "waiting", attemptsMade |-> 0,
                           stalls |-> 0])

Triggered(e) == \E j \in DOMAIN jobs : jobs[j].event = e

Trigger(e) ==
  /\ ~ Triggered(e)
  /\ hook = "active"
  /\ AddJob(e)
  /\ UNCHANGED <<hook, rows, deadLetters, received, workerVars, cronVars, faults, adminVars, been, unlogged>>

\* An administrator retries a delivery, whatever became of it.
ManualRetry(d) ==
  /\ d \in DOMAIN rows
  /\ AddJob(rows[d].event)
  /\ UNCHANGED <<hook, rows, deadLetters, received, workerVars, cronVars, faults, adminVars, been, unlogged>>

\* An administrator switches the webhook off or deletes it.
SwitchOff ==
  /\ hook = "active"
  /\ Room
  /\ hook' \in {"inactive", "deleted"}
  /\ been' = been \cup {hook'}
  /\ UNCHANGED <<jobs, rows, deadLetters, received, workerVars, cronVars, adminVars, faults, unlogged>>

-----------------------------------------------------------------------------
(* The processor.                                                          *)

Goto(w, to) == wpc' = [wpc EXCEPT ![w] = to]

\* The worker is done with its job and forgets it.
Free(w) ==
  /\ Goto(w, "idle")
  /\ wjob' = [wjob EXCEPT ![w] = 0]
  /\ wseen' = [wseen EXCEPT ![w] = "active"]
  /\ wok' = [wok EXCEPT ![w] = FALSE]

Fault == Room /\ faults' = faults + 1

\* process() starts and reads the webhook.  It throws when the read does and
\* for a deleted webhook, and for an inactive one it only logs a failed
\* delivery.
Take(w, j) ==
  /\ wpc[w] = "idle"
  /\ j \in DOMAIN jobs
  /\ jobs[j].state = "waiting"
  /\ jobs' = [jobs EXCEPT ![j].state = "active"]
  /\ wjob' = [wjob EXCEPT ![w] = j]
  /\ wseen' = [wseen EXCEPT ![w] = hook]
  /\ UNCHANGED wok
  /\ \/ /\ Goto(w, CASE hook = "active" -> "post" [] hook = "inactive" -> "log"
                     [] hook = "deleted" -> "threw")
        /\ UNCHANGED faults
     \/ Fault /\ Goto(w, "threw")
  /\ UNCHANGED <<hook, rows, deadLetters, received, cronVars, adminVars, been, unlogged>>

Event(w) == jobs[wjob[w]].event

\* Mutant: fetch without AbortSignal.timeout waits for ever for an answer.
Post_NoTimeout(w) ==
  /\ wpc[w] = "post"
  /\ \/ /\ wok' = [wok EXCEPT ![w] = TRUE]
        /\ received' = received \cup {Event(w)}
        /\ Goto(w, "save")
     \/ Goto(w, "waiting for an answer") /\ UNCHANGED <<wok, received>>
  /\ UNCHANGED <<hook, jobs, rows, deadLetters, wjob, wseen, cronVars, faults, adminVars, been, unlogged>>

\* fetch, which takes ten seconds at most: accepted; accepted but the answer is
\* lost or late; or refused.
Post(w) ==
  /\ wpc[w] = "post"
  /\ \/ wok' = [wok EXCEPT ![w] = TRUE] /\ received' = received \cup {Event(w)}
     \/ wok' = wok /\ received' = received \cup {Event(w)}
     \/ wok' = wok /\ received' = received
  /\ Goto(w, "save")
  /\ UNCHANGED <<hook, jobs, rows, deadLetters, wjob, wseen, cronVars, faults, adminVars, been, unlogged>>

\* Mutant: a failed attempt throws before its delivery is logged.
AfterSave_Throws(w) == IF wok[w] THEN "log" ELSE "end"

AfterSave(w) == "log"

\* Saves the webhook's counters, and with them the entity as it was read; or
\* the save throws.
SaveHook(w) ==
  /\ wpc[w] = "save"
  /\ \/ hook' = wseen[w] /\ Goto(w, AfterSave(w)) /\ UNCHANGED faults
     \/ Fault /\ Goto(w, "threw") /\ UNCHANGED hook
  /\ UNCHANGED <<jobs, rows, deadLetters, received, wjob, wseen, wok, cronVars, adminVars,
                 been, unlogged>>

RetryPlanned(ok, attempt) == ~ ok /\ attempt < MaxAttempts

\* saveDelivery, or its save throws.  The job of an inactive webhook then ends
\* as a success.
LogDelivery(w) ==
  LET attempt == jobs[wjob[w]].attemptsMade + 1 IN
  /\ wpc[w] = "log"
  /\ \/ /\ rows' = Append(rows, [event |-> Event(w), attempt |-> attempt, success |-> wok[w],
                                 retry |-> RetryPlanned(wok[w], attempt)])
        /\ wok' = [wok EXCEPT ![w] = @ \/ wseen[w] = "inactive"]
        /\ Goto(w, "end")
        /\ UNCHANGED faults
     \/ Fault /\ Goto(w, "threw") /\ UNCHANGED <<rows, wok>>
  /\ UNCHANGED <<hook, jobs, deadLetters, received, wjob, wseen, cronVars, adminVars, been, unlogged>>

\* After how many attempts the queue gives a job up.
GivenUp(n) == n >= MaxAttempts

\* process() returns.
Complete(w) ==
  /\ wpc[w] = "end"
  /\ wok[w]
  /\ jobs' = [jobs EXCEPT ![wjob[w]].state = "completed"]
  /\ Free(w)
  /\ UNCHANGED <<hook, rows, deadLetters, received, cronVars, faults, adminVars, been, unlogged>>

\* process() throws: the queue repeats the job later, or gives it up and calls
\* the failed listener.
Fail(w) ==
  LET j == wjob[w]
      n == jobs[j].attemptsMade + 1
  IN
  /\ wpc[w] = "threw" \/ (wpc[w] = "end" /\ ~ wok[w])
  /\ jobs' = [jobs EXCEPT ![j] =
                [@ EXCEPT !.attemptsMade = n,
                          !.state = IF GivenUp(n) THEN "failed" ELSE "waiting"]]
  /\ unlogged' = IF wpc[w] = "threw" THEN [unlogged EXCEPT ![j] = @ \cup {n}] ELSE unlogged
  /\ IF GivenUp(n)
       THEN Goto(w, "bury") /\ UNCHANGED <<wjob, wseen, wok>>
       ELSE Free(w)
  /\ UNCHANGED <<hook, rows, deadLetters, received, cronVars, faults, adminVars, been>>

\* onFailed: moveToDlq, whose failure is only logged.
Bury(w) ==
  /\ wpc[w] = "bury"
  /\ \/ deadLetters' = [deadLetters EXCEPT ![wjob[w]] = "pending"] /\ UNCHANGED faults
     \/ Fault /\ UNCHANGED deadLetters
  /\ Free(w)
  /\ UNCHANGED <<hook, jobs, rows, received, cronVars, adminVars, been, unlogged>>

-----------------------------------------------------------------------------
(* The cron job.                                                           *)

CGoto(i, to) == cpc' = [cpc EXCEPT ![i] = to]

\* Mutant: SET without NX.
LockFree_Ignored == TRUE

\* SET NX
LockFree == ~ lock

Acquire(i) ==
  /\ cpc[i] = "idle"
  /\ LockFree
  /\ lock' = TRUE
  /\ CGoto(i, "select")
  /\ UNCHANGED <<hook, jobs, rows, deadLetters, received, workerVars, ctodo, outlived, faults, adminVars, been, unlogged>>

\* The lock is never released: it expires after nine minutes, whether or not
\* the run that took it has ended.
LockExpires ==
  /\ lock
  /\ Room \/ \A i \in Crons : cpc[i] = "idle"
  /\ lock' = FALSE
  /\ outlived' = {i \in Crons : cpc[i] # "idle"}
  /\ UNCHANGED <<hook, jobs, rows, deadLetters, received, workerVars, cpc, ctodo, faults, adminVars, been, unlogged>>

\* A run goes on with the next row, or ends.
CNext(i, more) ==
  /\ CGoto(i, IF more THEN "enqueue" ELSE "idle")
  /\ outlived' = IF more THEN outlived ELSE outlived \ {i}

Retriable == {d \in DOMAIN rows : ~ rows[d].success /\ rows[d].attempt < MaxAttempts}

\* Failed rows below the limit whose next_retry_at is null or has passed.  The
\* second query of the job, for failed rows at the limit with a next_retry_at,
\* finds none, as saveDelivery plans no retry at the limit, and is left out.
Select(i) ==
  /\ cpc[i] = "select"
  /\ \E passed \in SUBSET {d \in Retriable : rows[d].retry} :
       ctodo' = [ctodo EXCEPT ![i] = passed \cup {d \in Retriable : ~ rows[d].retry}]
  /\ CNext(i, ctodo'[i] # {})
  /\ UNCHANGED <<hook, jobs, rows, deadLetters, received, workerVars, lock, faults, adminVars, been, unlogged>>

Enqueue(i) ==
  /\ cpc[i] = "enqueue"
  /\ AddJob(rows[Min(ctodo[i])].event)
  /\ CGoto(i, "mark")
  /\ UNCHANGED <<hook, rows, deadLetters, received, workerVars, lock, ctodo, outlived, faults, adminVars, been, unlogged>>

\* next_retry_at = null
MarkRow(i) ==
  LET d == Min(ctodo[i]) IN
  /\ cpc[i] = "mark"
  /\ rows' = [rows EXCEPT ![d].retry = FALSE]
  /\ ctodo' = [ctodo EXCEPT ![i] = @ \ {d}]
  /\ CNext(i, ctodo[i] # {d})
  /\ UNCHANGED <<hook, jobs, deadLetters, received, workerVars, lock, faults, adminVars, been, unlogged>>

-----------------------------------------------------------------------------
(* Dead letters.                                                           *)

AGoto(a, to) == apc' = [apc EXCEPT ![a] = to]

AFree(a) == AGoto(a, "idle") /\ aletter' = [aletter EXCEPT ![a] = 0]

SetLetter(a, status) == deadLetters' = [deadLetters EXCEPT ![aletter[a]] = status]

otherVars == <<hook, been, unlogged, rows, received, workerVars, cronVars>>

\* retry: the letter is read.  Only one that was requeued is refused.
RetryLetter(a, j) ==
  /\ apc[a] = "idle"
  /\ deadLetters[j] \in {"pending", "purged"}
  /\ aletter' = [aletter EXCEPT ![a] = j]
  /\ AGoto(a, "requeue")
  /\ UNCHANGED <<otherVars, jobs, deadLetters, faults>>

Requeue(a) ==
  /\ apc[a] = "requeue"
  /\ AddJob(jobs[aletter[a]].event)
  /\ AGoto(a, "save")
  /\ UNCHANGED <<otherVars, deadLetters, aletter, faults>>

\* The entity that was read is saved, deleted_at included: a letter that was
\* removed meanwhile is there again.
SaveLetter(a) ==
  /\ apc[a] = "save"
  /\ SetLetter(a, "requeued")
  /\ AFree(a)
  /\ UNCHANGED <<otherVars, jobs, faults>>

\* purge: the letter is read, saved as purged, and soft-deleted.
PurgeLetter(a, j) ==
  /\ apc[a] = "idle"
  /\ deadLetters[j] \in {"pending", "requeued", "purged"}
  /\ aletter' = [aletter EXCEPT ![a] = j]
  /\ AGoto(a, "purge")
  /\ UNCHANGED <<otherVars, jobs, deadLetters, faults>>

SavePurged(a) ==
  /\ apc[a] = "purge"
  /\ SetLetter(a, "purged")
  /\ AGoto(a, "remove")
  /\ UNCHANGED <<otherVars, jobs, aletter, faults>>

RemoveLetter(a) ==
  /\ apc[a] = "remove"
  /\ SetLetter(a, "removed")
  /\ AFree(a)
  /\ UNCHANGED <<otherVars, jobs, faults>>

-----------------------------------------------------------------------------

\* How often the queue gives a job to a worker again whose worker died.
MaxStalledCount == 1

\* A worker process dies.  The job it was processing has stalled: the queue
\* gives it to a worker again or, stalled too often, fails it; the listener
\* finds attempts left and writes no dead letter.
WorkerDies(w) ==
  LET j == wjob[w] IN
  /\ wpc[w] # "idle"
  /\ Fault
  /\ jobs' = IF wpc[w] = "bury" THEN jobs
             ELSE [jobs EXCEPT ![j] =
                     [@ EXCEPT !.stalls = jobs[j].stalls + 1,
                               !.state = IF jobs[j].stalls < MaxStalledCount
                                         THEN "waiting" ELSE "failed"]]
  /\ Free(w)
  /\ UNCHANGED <<hook, rows, deadLetters, received, cronVars, adminVars, been, unlogged>>

\* A cron run ends early: its process dies or a statement throws.
CronDies(i) ==
  /\ cpc[i] # "idle"
  /\ Fault
  /\ CNext(i, FALSE)
  /\ ctodo' = [ctodo EXCEPT ![i] = {}]
  /\ UNCHANGED <<hook, jobs, rows, deadLetters, received, workerVars, lock, adminVars, been, unlogged>>

\* A request about a dead letter ends early.
AdminDies(a) ==
  /\ apc[a] # "idle"
  /\ Fault
  /\ AFree(a)
  /\ UNCHANGED <<otherVars, jobs, deadLetters>>

WorkerStep(w) ==
  \/ Post(w) \/ SaveHook(w) \/ LogDelivery(w) \/ Complete(w) \/ Fail(w) \/ Bury(w)

CronStep(i) == Select(i) \/ Enqueue(i) \/ MarkRow(i)

AdminStep(a) == Requeue(a) \/ SaveLetter(a) \/ SavePurged(a) \/ RemoveLetter(a)

Next ==
  \/ \E e \in Events : Trigger(e)
  \/ \E d \in DOMAIN rows : ManualRetry(d)
  \/ SwitchOff
  \/ \E w \in Workers : WorkerStep(w) \/ WorkerDies(w) \/ \E j \in DOMAIN jobs : Take(w, j)
  \/ \E i \in Crons : Acquire(i) \/ CronStep(i) \/ CronDies(i)
  \/ \E a \in Admins :
       AdminStep(a) \/ AdminDies(a) \/ \E j \in 1..MaxJobs : RetryLetter(a, j) \/ PurgeLetter(a, j)
  \/ LockExpires

Spec == Init /\ [][Next]_vars

\* The queue hands out every waiting job, and a job that is handed out runs on.
Fairness ==
  /\ \A w \in Workers : WF_vars(WorkerStep(w))
  /\ \A j \in 1..MaxJobs : SF_vars(\E w \in Workers : Take(w, j))

FairSpec == Spec /\ Fairness

-----------------------------------------------------------------------------
(* Properties.                                                             *)

Open(j) == jobs[j].state \in {"waiting", "active"}

\* Somebody still has to do with the event: the receiver has it, or a job or a
\* dead letter carries it.  A letter that was requeued does not count: its new
\* job must.
Carried(e) ==
  \/ e \in received
  \/ \E j \in DOMAIN jobs :
       jobs[j].event = e /\ (Open(j) \/ deadLetters[j] \in {"pending", "purged", "removed"})
  \/ \E w \in Workers : wpc[w] = "bury" /\ Event(w) = e

\* Every attempt of the job that could have left a delivery to retry threw
\* before the delivery was logged.
NeverLogged(j) == \A k \in 1..(MaxAttempts - 1) : k \in unlogged[j]

\* The job stalled more often than the queue allows.
StalledOut(j) == jobs[j].stalls > MaxStalledCount

(***************************************************************************)
(* An event that was triggered is not lost: the receiver has it, or a job  *)
(* or a dead letter carries it.  If something died or threw on the way, or *)
(* the webhook has been switched off for a time, it may be that only a     *)
(* failed delivery is left, and the cron job will pick that one up.  The   *)
(* exceptions are a webhook that was deleted, a job none of whose attempts *)
(* below the limit could be logged, and a job that stalled out.            *)
(***************************************************************************)
EventAccounted ==
  \A e \in Events : Triggered(e) /\ "deleted" \notin been =>
    \/ Carried(e)
    \/ (faults > 0 \/ been # {}) /\ \E d \in Retriable : rows[d].event = e
    \/ \E j \in DOMAIN jobs : jobs[j].event = e /\ (NeverLogged(j) \/ StalledOut(j))

\* No job is repeated for ever: each ends completed or failed.
RetriesEnd ==
  \A j \in 1..MaxJobs : (j \in DOMAIN jobs) ~> (j \in DOMAIN jobs /\ ~ Open(j))

\* However many processes run the cron job, and however long a run takes, no
\* two runs are under way of which each is still within the time of its lock.
CronExclusive ==
  \A i, k \in Crons : cpc[i] # "idle" /\ cpc[k] # "idle" =>
    i = k \/ i \in outlived \/ k \in outlived
=============================================================================
