-------------------------- MODULE AutomationCycle --------------------------
(***************************************************************************)
(* The life of automation runs: app/automation (service, repository, lock, *)
(* worker, scheduler) and POST /automation/run.  Runs are created by the   *)
(* API or by the job itself, executed by ARQ workers under a Redis lock    *)
(* with a TTL, and recovered when a worker starts.                         *)
(*                                                                         *)
(* One run stands for one correlation id and for the one job that carries  *)
(* it.  All runs of a deployment are of the same broker account (the       *)
(* configured one, or the only one), so there is one lock.  Durations are  *)
(* counted in ticks, as ages and remaining times, so that time has no end. *)
(***************************************************************************)
EXTENDS Integers, FiniteSets

CONSTANTS
  Runs,            \* correlation ids
  ManualRuns,      \* those created by POST /automation/run
  Workers,         \* ARQ worker processes, max_jobs = 1
  RunTimeout,      \* automation_run_timeout_seconds
  JobTimeout,      \* WorkerSettings.job_timeout: RunTimeout + 30 seconds
  LockTtl,         \* automation_lock_ttl_seconds
  StaleThreshold,  \* stale_run_threshold_seconds
  Faults,          \* whether calls to Redis and PostgreSQL may fail
  Crashes,         \* whether processes may die or be told to stop
  NoRun, NoWorker

ASSUME AutomationAssumption ==
  /\ ManualRuns \subseteq Runs
  /\ NoRun \notin Runs /\ NoWorker \notin Workers
  /\ RunTimeout \in Nat \ {0} /\ JobTimeout \in Nat /\ RunTimeout <= JobTimeout
  /\ LockTtl \in Nat \ {0} /\ StaleThreshold \in Nat
  /\ Faults \in BOOLEAN /\ Crashes \in BOOLEAN

VARIABLES
  runs,     \* table automation_runs; age is the time since heartbeat_at
  jobs,     \* external: the ARQ job of each run
  api,      \* what the request that creates a manual run is doing
  lock,     \* external: the Redis key automation-cycle:{account_id}
  worker,   \* what each worker is doing
  entered   \* history: how many times a run's pipeline was entered

vars == <<runs, jobs, api, lock, worker, entered>>

Finished == {"SUCCEEDED", "FAILED", "SKIPPED"}
AutomationRunStatus == {"PENDING", "RUNNING"} \cup Finished

\* "ABSENT": the row has not been inserted.  The age stops counting once stale.
AutomationRun ==
  [status : AutomationRunStatus \cup {"ABSENT"}, age : 0 .. StaleThreshold + 1]

LockLease == [owner : Workers \cup {NoWorker}, ttl : 0 .. LockTtl]

\* Guarded: the steps inside asyncio.timeout.  "skipped" and "succeeded" have
\* written their status and await a notification or the release of the lock.
Guarded == {"safety_check", "account_sync", "locked", "pipeline", "skipped", "succeeded"}
Unguarded == {"unwinding", "failing"}
Executing == Guarded \cup Unguarded

\* broken: a failed flush, or a statement cut off, has left the job's database
\* session in a transaction that must be rolled back before it serves again.
WorkerState ==
  [pc : Executing \cup {"down", "idle"}, run : Runs \cup {NoRun}, elapsed : 0 .. JobTimeout,
   broken : BOOLEAN]

TypeOK ==
  /\ runs \in [Runs -> AutomationRun]
  /\ jobs \in [Runs -> {"absent", "queued", "taken"}]
  /\ api \in [ManualRuns -> {"idle", "created", "failing"}]
  /\ lock \in LockLease
  /\ worker \in [Workers -> WorkerState]
  /\ entered \in [Runs -> Nat]

Free == [owner |-> NoWorker, ttl |-> 0]
Down == [pc |-> "down", run |-> NoRun, elapsed |-> 0, broken |-> FALSE]
Idle == [pc |-> "idle", run |-> NoRun, elapsed |-> 0, broken |-> FALSE]

Init ==
  /\ runs = [r \in Runs |-> [status |-> "ABSENT", age |-> 0]]
  /\ jobs = [r \in Runs |-> "absent"]
  /\ api = [r \in ManualRuns |-> "idle"]
  /\ lock = Free
  /\ worker = [w \in Workers |-> Down]
  /\ entered = [r \in Runs |-> 0]

----------------------------------------------------------------------------
AtStep(w, pc) == worker[w].pc = pc

Goto(w, pc) == worker' = [worker EXCEPT ![w].pc = pc]

\* create, mark_running and finish: one commit of the status and a new
\* heartbeat, whatever the row holds by now.
WriteStatus(r, status) ==
  runs' = [runs EXCEPT ![r] = [status |-> status, age |-> 0]]

\* update_step leaves the status column alone.
Heartbeat(r) == runs' = [runs EXCEPT ![r].age = 0]

\* The coroutine of the job returns or raises, and ARQ drops the job.
EndJob(w) ==
  /\ worker' = [worker EXCEPT ![w] = Idle]
  /\ jobs' = [jobs EXCEPT ![worker[w].run] = "absent"]

\* Mutant of release: DEL without comparing the token.
release_any(w) == lock' = Free

\* RELEASE_SCRIPT: delete the key if it holds this lease's token.
release(w) == lock' = IF lock.owner = w THEN Free ELSE lock

\* Mutant of Stale: every RUNNING run counts as stuck.
StaleAtOnce(r) == runs[r].status = "RUNNING"

Stale(r) == runs[r].status = "RUNNING" /\ runs[r].age > StaleThreshold

----------------------------------------------------------------------------
(* Creating and queueing runs                                               *)

\* POST /automation/run up to the commit.  A request that repeats the key gets
\* the existing run and queues nothing.
CreateManualRun(r) ==
  /\ r \in ManualRuns /\ runs[r].status = "ABSENT"
  /\ WriteStatus(r, "PENDING")
  /\ api' = [api EXCEPT ![r] = "created"]
  /\ UNCHANGED <<jobs, lock, worker, entered>>

EnqueueManualRun(r) ==
  /\ r \in ManualRuns /\ api[r] = "created"
  /\ jobs' = [jobs EXCEPT ![r] = "queued"]
  /\ api' = [api EXCEPT ![r] = "idle"]
  /\ UNCHANGED <<runs, lock, worker, entered>>

\* Redis raises, before it has the job or after, when the answer or the closing
\* of the connection fails.
EnqueueFails(r) ==
  /\ Faults /\ r \in ManualRuns /\ api[r] = "created"
  /\ \E queued \in BOOLEAN :
       jobs' = IF queued THEN [jobs EXCEPT ![r] = "queued"] ELSE jobs
  /\ api' = [api EXCEPT ![r] = "failing"]
  /\ UNCHANGED <<runs, lock, worker, entered>>

\* FAILED/queue_unavailable, and 503 for the caller.
FailUnqueuedRun(r) ==
  /\ r \in ManualRuns /\ api[r] = "failing"
  /\ WriteStatus(r, "FAILED")
  /\ api' = [api EXCEPT ![r] = "idle"]
  /\ UNCHANGED <<jobs, lock, worker, entered>>

ApiCrash(r) ==
  /\ Crashes /\ r \in ManualRuns /\ api[r] # "idle"
  /\ api' = [api EXCEPT ![r] = "idle"]
  /\ UNCHANGED <<runs, jobs, lock, worker, entered>>

\* The scheduler's minute loop: enqueue_job does nothing while a job of the same
\* id is queued or being executed.
Schedule(r) ==
  /\ r \in Runs \ ManualRuns /\ jobs[r] = "absent"
  /\ jobs' = [jobs EXCEPT ![r] = "queued"]
  /\ UNCHANGED <<runs, api, lock, worker, entered>>

----------------------------------------------------------------------------
(* A job, on worker w                                                       *)

\* Mutants of Resolvable: a run found RUNNING is resumed, or any run is.
ResolvableRunning(r) ==
  runs[r].status \in IF r \in ManualRuns THEN {"PENDING", "RUNNING"} ELSE {"ABSENT", "RUNNING"}
ResolvableAlways(r) == TRUE

\* _resolve_run: a manual run must be PENDING, another one must be new.
Resolvable(r) == runs[r].status = IF r \in ManualRuns THEN "PENDING" ELSE "ABSENT"

\* The run is created or found PENDING, and its first step committed.
Begin(w, r) ==
  /\ AtStep(w, "idle") /\ jobs[r] = "queued"
  /\ Resolvable(r)
  /\ WriteStatus(r, "PENDING")
  /\ jobs' = [jobs EXCEPT ![r] = "taken"]
  /\ worker' = [worker EXCEPT ![w] =
       [pc |-> "safety_check", run |-> r, elapsed |-> 0, broken |-> FALSE]]
  /\ UNCHANGED <<api, lock, entered>>

\* A job whose correlation id is known, or whose first statement fails.
DropJob(w, r) ==
  /\ AtStep(w, "idle") /\ jobs[r] = "queued"
  /\ Faults \/ ~Resolvable(r)
  /\ jobs' = [jobs EXCEPT ![r] = "absent"]
  /\ UNCHANGED <<runs, api, lock, worker, entered>>

\* Trade mode OFF or the kill switch: SKIPPED, then a notification.
SkipUnsafe(w) ==
  /\ AtStep(w, "safety_check")
  /\ WriteStatus(worker[w].run, "SKIPPED")
  /\ Goto(w, "skipped")
  /\ UNCHANGED <<jobs, api, lock, entered>>

SyncAccount(w) ==
  /\ AtStep(w, "safety_check")
  /\ Heartbeat(worker[w].run)
  /\ Goto(w, "account_sync")
  /\ UNCHANGED <<jobs, api, lock, entered>>

\* Mutants of acquire: SET without NX, SET without EX, a lifetime that is
\* longer than a lease can have.
acquire_taken(w) ==
  /\ AtStep(w, "account_sync")
  /\ lock' = [owner |-> w, ttl |-> LockTtl]
  /\ Goto(w, "locked")
  /\ UNCHANGED <<runs, jobs, api, entered>>
acquire_forever(w) ==
  /\ AtStep(w, "account_sync")
  /\ lock = Free
  /\ lock' = [owner |-> w, ttl |-> 0]
  /\ Goto(w, "locked")
  /\ UNCHANGED <<runs, jobs, api, entered>>
acquire_longer(w) ==
  /\ AtStep(w, "account_sync")
  /\ lock = Free
  /\ lock' = [owner |-> w, ttl |-> LockTtl + JobTimeout]
  /\ Goto(w, "locked")
  /\ UNCHANGED <<runs, jobs, api, entered>>

\* SET key token NX EX ttl.
acquire(w) ==
  /\ AtStep(w, "account_sync")
  /\ lock = Free
  /\ lock' = [owner |-> w, ttl |-> LockTtl]
  /\ Goto(w, "locked")
  /\ UNCHANGED <<runs, jobs, api, entered>>

\* The key is set, but the answer does not arrive, or the timeout cuts off the
\* await: no lease is returned, and nobody will release this one.
AcquireUnanswered(w) ==
  /\ AtStep(w, "account_sync")
  /\ Faults \/ worker[w].elapsed = RunTimeout
  /\ lock = Free
  /\ lock' = [owner |-> w, ttl |-> LockTtl]
  /\ Goto(w, "failing")
  /\ UNCHANGED <<runs, jobs, api, entered>>

\* The key exists: SKIPPED/cycle_already_running.
SkipLocked(w) ==
  /\ AtStep(w, "account_sync")
  /\ lock # Free
  /\ WriteStatus(worker[w].run, "SKIPPED")
  /\ EndJob(w)
  /\ UNCHANGED <<api, lock, entered>>

mark_running(w) ==
  /\ AtStep(w, "locked")
  /\ WriteStatus(worker[w].run, "RUNNING")
  /\ entered' = [entered EXCEPT ![worker[w].run] = @ + 1]
  /\ Goto(w, "pipeline")
  /\ UNCHANGED <<jobs, api, lock>>

\* The steps of _run_pipeline: each begins with a heartbeat.
update_step(w) ==
  /\ AtStep(w, "pipeline")
  /\ Heartbeat(worker[w].run)
  /\ UNCHANGED <<jobs, api, lock, worker, entered>>

\* All steps done, or those the mode or a closed market leaves.
Succeed(w) ==
  /\ AtStep(w, "pipeline")
  /\ WriteStatus(worker[w].run, "SUCCEEDED")
  /\ Goto(w, "succeeded")
  /\ UNCHANGED <<jobs, api, lock, entered>>

\* The coroutine returns: the notification is sent, the lock released.
Return(w) ==
  /\ worker[w].pc \in {"skipped", "succeeded"}
  /\ IF AtStep(w, "succeeded") THEN release(w) ELSE UNCHANGED lock
  /\ EndJob(w)
  /\ UNCHANGED <<runs, api, entered>>

\* The exception may leave the session broken: one that an execution commit or
\* save_broker_state raises (IntegrityError), and any that a failing database or
\* the timeout brings to a statement.
MayBreakSession(w) ==
  \/ AtStep(w, "pipeline")
  \/ /\ worker[w].pc \in {"safety_check", "account_sync", "locked"}
     /\ Faults \/ worker[w].elapsed = RunTimeout

\* An exception, or the timeout, which alone can end the notification of a
\* skipped run: at a step that holds the lock the finally clause runs first.
Raise(w) ==
  /\ worker[w].pc \in Guarded \ {"succeeded"}
  /\ AtStep(w, "skipped") => worker[w].elapsed = RunTimeout
  /\ \E broken \in BOOLEAN :
       /\ broken => MayBreakSession(w)
       /\ worker' = [worker EXCEPT
            ![w].pc = IF @ \in {"locked", "pipeline"} THEN "unwinding" ELSE "failing",
            ![w].broken = broken]
  /\ UNCHANGED <<runs, jobs, api, lock, entered>>

\* The release itself raises, or is cut off by the timeout, after Redis has
\* done it or before.
ReleaseFails(w) ==
  /\ \/ Faults /\ worker[w].pc \in {"unwinding", "succeeded"}
     \/ AtStep(w, "succeeded") /\ worker[w].elapsed = RunTimeout
  /\ release(w) \/ UNCHANGED lock
  /\ Goto(w, "failing")
  /\ UNCHANGED <<runs, jobs, api, entered>>

Unwind(w) ==
  /\ AtStep(w, "unwinding")
  /\ release(w)
  /\ Goto(w, "failing")
  /\ UNCHANGED <<runs, jobs, api, entered>>

\* Mutant of Fail: the exception ends the job and the run is left as it is.
FailSilently(w) ==
  /\ AtStep(w, "failing")
  /\ EndJob(w)
  /\ UNCHANGED <<runs, api, lock, entered>>

\* _fail, in the session the run has used so far.
Fail(w) ==
  /\ AtStep(w, "failing") /\ ~worker[w].broken
  /\ WriteStatus(worker[w].run, "FAILED")
  /\ EndJob(w)
  /\ UNCHANGED <<api, lock, entered>>

\* _fail does not roll the session back, so that the commit of a broken one
\* raises PendingRollbackError and the run stays as it is; so it does when the
\* database is away or ARQ cancels a job that outlives its own timeout.
Abandon(w) ==
  /\ worker[w].pc \in Unguarded
  /\ Faults \/ (worker[w].broken /\ AtStep(w, "failing"))
  /\ EndJob(w)
  /\ UNCHANGED <<runs, api, lock, entered>>

----------------------------------------------------------------------------
(* Workers stop, crash and start                                            *)

\* SIGTERM: the job is cancelled, the finally clause releases the lock, nothing
\* is written, and ARQ queues the job again.
Stop(w) ==
  LET r == worker[w].run IN
  /\ Crashes /\ ~AtStep(w, "down")
  /\ jobs' = IF r = NoRun THEN jobs ELSE [jobs EXCEPT ![r] = "queued"]
  /\ CASE worker[w].pc \in {"locked", "pipeline"} -> release(w)
       [] worker[w].pc \in {"succeeded", "unwinding"} -> release(w) \/ UNCHANGED lock
       [] OTHER -> UNCHANGED lock
  /\ worker' = [worker EXCEPT ![w] = Down]
  /\ UNCHANGED <<runs, api, entered>>

Crash(w) ==
  /\ Crashes /\ ~AtStep(w, "down")
  /\ worker' = [worker EXCEPT ![w] = Down]
  /\ UNCHANGED <<runs, jobs, api, lock, entered>>

\* ARQ: the in-progress mark of a dead worker's job expires.
Redeliver(r) ==
  /\ jobs[r] = "taken" /\ \A w \in Workers : worker[w].run # r
  /\ jobs' = [jobs EXCEPT ![r] = "queued"]
  /\ UNCHANGED <<runs, api, lock, worker, entered>>

\* startup: recover_stale, before the worker takes jobs.
startup(w) ==
  /\ AtStep(w, "down")
  /\ worker' = [worker EXCEPT ![w] = Idle]
  /\ runs' = [r \in Runs |-> IF Stale(r) THEN [status |-> "FAILED", age |-> 0] ELSE runs[r]]
  /\ UNCHANGED <<jobs, api, lock, entered>>

----------------------------------------------------------------------------
Least(a, b) == IF a <= b THEN a ELSE b

\* What asyncio.timeout and ARQ allow a job at this step.
TimeLimit(w) == IF worker[w].pc \in Guarded THEN RunTimeout ELSE JobTimeout

\* A key that was set with a time to live is gone with its last tick.
Expire ==
  CASE lock.ttl = 0 -> lock
    [] lock.ttl = 1 -> Free
    [] OTHER -> [lock EXCEPT !.ttl = @ - 1]

Tick ==
  /\ \A w \in Workers : worker[w].pc \in Executing => worker[w].elapsed < TimeLimit(w)
  /\ runs' = [r \in Runs |->
       [runs[r] EXCEPT !.age = Least(@ + 1, StaleThreshold + 1)]]
  /\ lock' = Expire
  /\ worker' = [w \in Workers |->
       IF worker[w].pc \in Executing THEN [worker[w] EXCEPT !.elapsed = @ + 1] ELSE worker[w]]
  /\ UNCHANGED <<jobs, api, entered>>

JobStep(w) ==
  \/ SkipUnsafe(w) \/ SyncAccount(w) \/ acquire(w) \/ AcquireUnanswered(w) \/ SkipLocked(w)
  \/ mark_running(w) \/ update_step(w) \/ Succeed(w) \/ Return(w)
  \/ Raise(w) \/ ReleaseFails(w) \/ Unwind(w) \/ Fail(w) \/ Abandon(w)

WorkerStep(w) ==
  \/ \E r \in Runs : Begin(w, r) \/ DropJob(w, r)
  \/ JobStep(w)
  \/ Stop(w) \/ Crash(w) \/ startup(w)

RunStep(r) ==
  \/ CreateManualRun(r) \/ EnqueueManualRun(r) \/ EnqueueFails(r) \/ FailUnqueuedRun(r)
  \/ ApiCrash(r) \/ Schedule(r) \/ Redeliver(r)

Next ==
  \/ \E r \in Runs : RunStep(r)
  \/ \E w \in Workers : WorkerStep(w)
  \/ Tick

Spec == Init /\ [][Next]_vars

\* asyncio.timeout has run out at an await of the guarded steps.
CutOff(w) ==
  /\ worker[w].elapsed = RunTimeout
  /\ Raise(w) \/ ReleaseFails(w)

\* Time passes, and asyncio.timeout cuts off a step that takes too long; a job
\* that has left the timeout's block finishes or is cancelled by ARQ; a stopped
\* worker is started again (restart: unless-stopped); a request goes on; ARQ
\* takes the oldest job first, so that a job that can be taken again and again
\* is taken.
Fairness ==
  /\ WF_vars(Tick)
  /\ \A w \in Workers :
       /\ WF_vars(CutOff(w))
       /\ WF_vars(Unwind(w) \/ Fail(w) \/ Abandon(w))
       /\ WF_vars(startup(w))
  /\ \A r \in Runs :
       /\ WF_vars(EnqueueManualRun(r) \/ EnqueueFails(r))
       /\ WF_vars(FailUnqueuedRun(r))
       /\ SF_vars(\E w \in Workers : Begin(w, r) \/ DropJob(w, r))

FairSpec == Spec /\ Fairness

----------------------------------------------------------------------------
(* Properties                                                               *)

\* The steps between a successful acquire and the finally clause.
HoldsLease(w) == worker[w].pc \in {"locked", "pipeline", "succeeded"}

\* Two cycles never work on the account at the same time, whatever crashes,
\* redelivers or times out, as long as the key outlives the run's timeout
\* (acquire, RELEASE_SCRIPT, asyncio.timeout).
CycleMutex == \A v, w \in Workers : HoldsLease(v) /\ HoldsLease(w) => v = w

\* A correlation id executes at most one cycle: repeated requests, scheduler
\* ticks, redelivered jobs and restarts included (_resolve_run).
ExecutedOnce == \A r \in Runs : entered[r] <= 1

\* recover_stale never fails a run that some worker is still executing.
RecoverySparesLive ==
  [][\A r \in Runs :
       /\ \E w \in Workers : AtStep(w, "down") /\ worker'[w].pc = "idle"
       /\ \E w \in Workers : worker[w].run = r
       => runs'[r] = runs[r]]_vars

\* A run that succeeded or was skipped is never taken up again, across crashes,
\* redeliveries, scheduler ticks and failing stores (_resolve_run, mark_running).
\* FAILED is left out: the API and a late timeout write it over a live run.
FinishedStaysFinished ==
  [][\A r \in Runs :
       runs[r].status \in {"SUCCEEDED", "SKIPPED"} =>
         runs'[r].status \notin {"PENDING", "RUNNING"}]_vars

\* "чужой lock не удаляется и освобождается по TTL" (operations.md:80): a lock
\* disappears by its owner's release or by expiry, also when a cycle outlives
\* its own lease and releases late.
ForeignLockKept ==
  [][\A w \in Workers :
       lock.owner = w /\ lock'.owner # w =>
         lock.ttl = 1 \/ worker'[w].pc # worker[w].pc]_vars

\* The lock never stays taken: what a timeout, in the middle of the release
\* included, keeps from being released expires.
LockFreed == []<>(lock = Free)

\* A worker executes the run, or has it in its queue and will take it up.
InHand(r) ==
  \/ jobs[r] = "queued" /\ Resolvable(r) /\ runs[r].status = "PENDING"
  \/ \E w \in Workers : worker[w].run = r

SessionBroken(r) == \E w \in Workers : worker[w].run = r /\ worker[w].broken

WorkersUp == \A w \in Workers : ~AtStep(w, "down")

\* Every run that is in the hands of workers which stay up ends as SUCCEEDED,
\* SKIPPED or FAILED, whatever the broker does, unless an exception breaks its
\* session (_fail); and whatever left a run RUNNING, a broken session, a crash or
\* a stop, it ends while workers keep being started (recover_stale).
EveryRunEnds ==
  \A r \in Runs :
    /\ [](InHand(r) /\ []WorkersUp => <>(runs[r].status \in Finished \/ SessionBroken(r)))
    /\ []<>~WorkersUp => (runs[r].status = "RUNNING" ~> runs[r].status \in Finished)
============================================================================
