-------------------------- MODULE AutomationProofs --------------------------
(***************************************************************************)
(* Proofs about AutomationCycle: mutual exclusion of cycles, execution at  *)
(* most once and harmless recovery, for every number of runs and workers   *)
(* and every deadline, with the relations between deadlines they need.     *)
(***************************************************************************)
EXTENDS AutomationCycle, TLAPS

Early == {"safety_check", "account_sync", "locked"}

\* A worker that executes a run has its job, alone, and within its deadline.
WorkerConsistent(w) ==
  /\ worker[w].pc \in Executing <=> worker[w].run # NoRun
  /\ worker[w].run # NoRun => jobs[worker[w].run] = "taken"
  /\ worker[w].pc \in Guarded => worker[w].elapsed <= RunTimeout
  /\ worker[w].pc \in Early => entered[worker[w].run] = 0

JobsExclusive ==
  \A v, w \in Workers : worker[v].run = worker[w].run /\ worker[v].run # NoRun => v = w

\* A run that was never begun, or is PENDING, was not entered.
EnteredConsistent(r) ==
  /\ entered[r] <= 1
  /\ runs[r].status \in {"ABSENT", "PENDING"} => entered[r] = 0

\* The heartbeat of a running run is younger than the job.
HeartbeatFresh(w) ==
  \A r \in Runs :
    worker[w].run = r /\ runs[r].status = "RUNNING" => runs[r].age <= worker[w].elapsed

\* A manual run has no job before its request has enqueued it.
ApiConsistent(r) ==
  /\ runs[r].status = "ABSENT" \/ api[r] = "created" => jobs[r] = "absent"
  /\ api[r] # "idle" => runs[r].status # "ABSENT"

IInv ==
  /\ TypeOK
  /\ \A w \in Workers : WorkerConsistent(w)
  /\ JobsExclusive
  /\ \A r \in Runs : EnteredConsistent(r)
  /\ \A w \in Workers : HeartbeatFresh(w)
  /\ \A r \in ManualRuns : ApiConsistent(r)

\* The key of a worker that holds the lease is its own, and it has lost no more
\* of its time to live than the job has lasted.
LeaseValid ==
  \A w \in Workers :
    HoldsLease(w) => lock.owner = w /\ lock.ttl + worker[w].elapsed >= LockTtl

----------------------------------------------------------------------------
(* Type correctness                                                         *)

LEMMA TypeInit == Init => TypeOK
  BY AutomationAssumption
     DEF Init, TypeOK, AutomationRun, LockLease, WorkerState, Free, Down

\* One worker's record, one run's row, one lock value of their types.
LEMMA RunTyped ==
  ASSUME TypeOK, NEW r \in Runs, NEW status \in AutomationRunStatus, WriteStatus(r, status)
  PROVE  /\ runs' \in [Runs -> AutomationRun]
         /\ runs'[r].status = status /\ runs'[r].age = 0
         /\ \A x \in Runs \ {r} : runs'[x] = runs[x]
<1>1. [status |-> status, age |-> 0] \in AutomationRun
  BY AutomationAssumption DEF AutomationRun
<1> QED BY <1>1 DEF TypeOK, WriteStatus

LEMMA HeartbeatTyped ==
  ASSUME TypeOK, NEW r \in Runs, Heartbeat(r)
  PROVE  /\ runs' \in [Runs -> AutomationRun]
         /\ runs'[r].status = runs[r].status /\ runs'[r].age = 0
         /\ \A x \in Runs \ {r} : runs'[x] = runs[x]
<1> DEFINE row == [runs[r] EXCEPT !.age = 0]
<1>1. runs[r] \in AutomationRun
  BY DEF TypeOK
<1>2. row \in AutomationRun /\ row.status = runs[r].status /\ row.age = 0
  BY <1>1, AutomationAssumption DEF AutomationRun
<1>3. runs' = [runs EXCEPT ![r] = row]
  BY DEF Heartbeat
<1> HIDE DEF row
<1> QED BY <1>2, <1>3 DEF TypeOK

LEMMA GotoTyped ==
  ASSUME TypeOK, NEW w \in Workers, NEW pc \in Executing, Goto(w, pc)
  PROVE  /\ worker' \in [Workers -> WorkerState]
         /\ worker'[w].pc = pc /\ worker'[w].run = worker[w].run
         /\ worker'[w].elapsed = worker[w].elapsed
         /\ \A x \in Workers \ {w} : worker'[x] = worker[x]
<1> DEFINE new == [worker[w] EXCEPT !.pc = pc]
<1>1. worker[w] \in WorkerState
  BY DEF TypeOK
<1>2. new \in WorkerState /\ new.pc = pc /\ new.run = worker[w].run
      /\ new.elapsed = worker[w].elapsed
  BY <1>1 DEF WorkerState
<1>3. worker' = [worker EXCEPT ![w] = new]
  BY DEF Goto
<1> HIDE DEF new
<1> QED BY <1>2, <1>3 DEF TypeOK

LEMMA RestTyped ==
  ASSUME TypeOK, NEW w \in Workers, NEW new \in {Idle, Down},
         worker' = [worker EXCEPT ![w] = new]
  PROVE  /\ worker' \in [Workers -> WorkerState]
         /\ worker'[w] = new
         /\ \A x \in Workers \ {w} : worker'[x] = worker[x]
<1>1. Idle \in WorkerState /\ Down \in WorkerState
  BY AutomationAssumption DEF WorkerState, Idle, Down
<1>2. new \in WorkerState
  BY <1>1
<1> HIDE DEF Idle, Down
<1> QED BY <1>2 DEF TypeOK

\* An exception leaves the run in hand, on its way to the end of the job.
LEMMA RaiseTyped ==
  ASSUME TypeOK, NEW w \in Workers, Raise(w)
  PROVE  /\ worker' \in [Workers -> WorkerState]
         /\ worker[w].pc \in Guarded /\ worker'[w].pc \in {"unwinding", "failing"}
         /\ worker'[w].run = worker[w].run /\ worker'[w].elapsed = worker[w].elapsed
         /\ \A x \in Workers \ {w} : worker'[x] = worker[x]
         /\ UNCHANGED <<runs, jobs, api, lock, entered>>
<1>1. PICK broken \in BOOLEAN :
        worker' = [worker EXCEPT
          ![w].pc = IF @ \in {"locked", "pipeline"} THEN "unwinding" ELSE "failing",
          ![w].broken = broken]
  BY DEF Raise
<1> DEFINE pc == IF worker[w].pc \in {"locked", "pipeline"} THEN "unwinding" ELSE "failing"
           new == [worker[w] EXCEPT !.pc = pc, !.broken = broken]
<1>2. worker[w] \in WorkerState /\ worker \in [Workers -> WorkerState]
  BY DEF TypeOK
<1>3. pc \in {"unwinding", "failing"}
  OBVIOUS
<1>4. worker' = [worker EXCEPT ![w] = new]
  BY <1>1, <1>2 DEF WorkerState
<1> HIDE DEF pc
<1>5. new \in WorkerState /\ new.pc = pc /\ new.run = worker[w].run
      /\ new.elapsed = worker[w].elapsed
  BY <1>2, <1>3 DEF WorkerState, Executing, Guarded, Unguarded
<1> HIDE DEF new
<1>6. worker[w].pc \in Guarded /\ UNCHANGED <<runs, jobs, api, lock, entered>>
  BY DEF Raise
<1> QED BY <1>2, <1>3, <1>4, <1>5, <1>6

LEMMA LockTyped ==
  ASSUME TypeOK, NEW w \in Workers
  PROVE  Free \in LockLease /\ [owner |-> w, ttl |-> LockTtl] \in LockLease
         /\ (release(w) => lock' \in LockLease)
  BY AutomationAssumption DEF TypeOK, LockLease, Free, release

LEMMA ExpireTyped ==
  ASSUME TypeOK
  PROVE  /\ Expire \in LockLease
         /\ lock.ttl > 1 => Expire.owner = lock.owner /\ Expire.ttl = lock.ttl - 1
<1>1. lock \in LockLease /\ Free \in LockLease
  BY AutomationAssumption DEF TypeOK, LockLease, Free
<1>2. CASE lock.ttl > 1
  BY <1>1, <1>2, AutomationAssumption DEF LockLease, Expire
<1>3. CASE lock.ttl <= 1
  BY <1>1, <1>3, AutomationAssumption DEF LockLease, Expire
<1> QED BY <1>1, <1>2, <1>3 DEF LockLease

----------------------------------------------------------------------------
(* The inductive invariant                                                  *)

\* A row that is not rewritten keeps its age, one that is rewritten has age 0.
RowsYoung ==
  \A r \in Runs :
    runs'[r].status = "RUNNING" =>
      runs'[r].age = 0 \/ (runs[r].status = "RUNNING" /\ runs'[r].age = runs[r].age)

\* A step of one worker keeps the invariant of the others.
LEMMA OneWorker ==
  ASSUME IInv, TypeOK', NEW w \in Workers,
         \A x \in Workers \ {w} : worker'[x] = worker[x],
         WorkerConsistent(w)', HeartbeatFresh(w)',
         \A x \in Workers \ {w} : worker[x].run # NoRun =>
            jobs'[worker[x].run] = "taken" /\ entered'[worker[x].run] = entered[worker[x].run],
         \/ worker'[w].run \in {worker[w].run, NoRun}
         \/ \A x \in Workers \ {w} : worker[x].run # worker'[w].run,
         \A r \in Runs : EnteredConsistent(r)',
         RowsYoung,
         api' = api,
         \A r \in Runs : (jobs[r] = "absent" => jobs'[r] = "absent")
                        /\ (runs'[r].status = "ABSENT" => runs[r].status = "ABSENT")
  PROVE  IInv'
<1>1. ASSUME NEW x \in Workers PROVE WorkerConsistent(x)'
  <2>1. CASE x # w
    <3>1. worker'[x] = worker[x] /\ WorkerConsistent(x)
      BY <2>1 DEF IInv
    <3>2. worker[x].run # NoRun => jobs'[worker[x].run] = "taken"
                                   /\ entered'[worker[x].run] = entered[worker[x].run]
      BY <2>1
    <3> QED BY <3>1, <3>2 DEF WorkerConsistent, Executing, Guarded, Early
  <2> QED BY <2>1
<1>2. JobsExclusive'
  BY DEF IInv, JobsExclusive
<1>3. ASSUME NEW x \in Workers PROVE HeartbeatFresh(x)'
  <2>1. CASE x # w
    <3>1. worker[x] \in WorkerState /\ HeartbeatFresh(x)
      BY DEF IInv, TypeOK
    <3> QED BY <2>1, <3>1 DEF HeartbeatFresh, RowsYoung, WorkerState
  <2> QED BY <2>1
<1>4. \A r \in ManualRuns : ApiConsistent(r)'
  BY AutomationAssumption DEF IInv, ApiConsistent
<1> QED BY <1>1, <1>2, <1>3, <1>4 DEF IInv

\* A step that moves no worker and takes no job from one.
LEMMA NoWorkerMoves ==
  ASSUME IInv, TypeOK', UNCHANGED <<worker, entered>>, RowsYoung,
         \A r \in Runs : jobs[r] = "taken" => jobs'[r] = "taken"
                          \/ \A w \in Workers : worker[w].run # r,
         \A r \in Runs : runs'[r].status \in {"ABSENT", "PENDING"} =>
                            runs[r].status \in {"ABSENT", "PENDING"},
         \A r \in ManualRuns : ApiConsistent(r)'
  PROVE  IInv'
<1>1. ASSUME NEW w \in Workers PROVE WorkerConsistent(w)' /\ HeartbeatFresh(w)'
  <2>1. worker[w] \in WorkerState /\ worker' = worker /\ entered' = entered
        /\ WorkerConsistent(w) /\ HeartbeatFresh(w)
    BY DEF IInv, TypeOK
  <2>2. worker[w].run # NoRun => worker[w].run \in Runs /\ jobs'[worker[w].run] = "taken"
    BY <2>1 DEF WorkerState, WorkerConsistent
  <2>3. WorkerConsistent(w)'
    BY <2>1, <2>2 DEF WorkerConsistent
  <2>4. HeartbeatFresh(w)'
    BY <2>1 DEF HeartbeatFresh, RowsYoung, WorkerState
  <2> QED BY <2>3, <2>4
<1>2. \A r \in Runs : EnteredConsistent(r)'
  BY DEF IInv, EnteredConsistent
<1> QED BY <1>1, <1>2 DEF IInv, JobsExclusive

LEMMA InitConsistent == Init => IInv
<1> SUFFICES ASSUME Init PROVE IInv
  OBVIOUS
<1>1. \A w \in Workers : worker[w] = Down
  BY DEF Init
<1>2. \A w \in Workers : WorkerConsistent(w) /\ HeartbeatFresh(w)
  BY <1>1, AutomationAssumption
     DEF Down, WorkerConsistent, HeartbeatFresh, Executing, Guarded, Unguarded, Early
<1>3. JobsExclusive
  BY <1>1 DEF JobsExclusive, Down
<1>5. \A r \in ManualRuns : ApiConsistent(r)
  BY AutomationAssumption DEF Init, ApiConsistent
<1>4. \A r \in Runs : EnteredConsistent(r)
  BY DEF Init, EnteredConsistent
<1> QED BY <1>2, <1>3, <1>4, <1>5, TypeInit DEF IInv

LEMMA RunStepConsistent ==
  ASSUME IInv, NEW r \in Runs, RunStep(r)
  PROVE  IInv'
<1>t. TypeOK /\ \A x \in ManualRuns : ApiConsistent(x) /\ x \in Runs
  BY AutomationAssumption DEF IInv
<1>1. CASE CreateManualRun(r)
  <2>1. TypeOK' /\ api' = [api EXCEPT ![r] = "created"]
    BY <1>1, <1>t, RunTyped DEF CreateManualRun, AutomationRunStatus, TypeOK
  <2>2. RowsYoung /\ \A x \in Runs : runs'[x].status \in {"ABSENT", "PENDING"} =>
                            runs[x].status \in {"ABSENT", "PENDING"}
    BY <1>1, <1>t, RunTyped DEF CreateManualRun, AutomationRunStatus, RowsYoung
  <2>3. runs'[r].status # "ABSENT" /\ \A x \in Runs \ {r} : runs'[x] = runs[x]
    BY <1>1, <1>t, RunTyped DEF CreateManualRun, AutomationRunStatus
  <2>4. \A x \in ManualRuns : ApiConsistent(x)'
    BY <1>1, <1>t, <2>1, <2>3 DEF CreateManualRun, ApiConsistent, TypeOK
  <2> QED BY <1>1, <2>1, <2>2, <2>4, NoWorkerMoves DEF CreateManualRun
<1>2. CASE FailUnqueuedRun(r)
  <2>1. TypeOK' /\ api' = [api EXCEPT ![r] = "idle"]
    BY <1>2, <1>t, RunTyped DEF FailUnqueuedRun, AutomationRunStatus, Finished, TypeOK
  <2>2. RowsYoung /\ \A x \in Runs : runs'[x].status \in {"ABSENT", "PENDING"} =>
                            runs[x].status \in {"ABSENT", "PENDING"}
    BY <1>2, <1>t, RunTyped DEF FailUnqueuedRun, AutomationRunStatus, Finished, RowsYoung
  <2>3. runs'[r].status # "ABSENT" /\ \A x \in Runs \ {r} : runs'[x] = runs[x]
    BY <1>2, <1>t, RunTyped DEF FailUnqueuedRun, AutomationRunStatus, Finished
  <2>4. \A x \in ManualRuns : ApiConsistent(x)'
    BY <1>2, <1>t, <2>1, <2>3 DEF FailUnqueuedRun, ApiConsistent, TypeOK
  <2> QED BY <1>2, <2>1, <2>2, <2>4, NoWorkerMoves DEF FailUnqueuedRun
<1>rows. ASSUME runs' = runs PROVE RowsYoung
  BY <1>rows DEF RowsYoung
<1>3. CASE EnqueueManualRun(r) \/ EnqueueFails(r)
  <2>1. PICK pc \in {"idle", "failing"} : api' = [api EXCEPT ![r] = pc]
    BY <1>3 DEF EnqueueManualRun, EnqueueFails
  <2>2. r \in ManualRuns /\ api[r] = "created" /\ jobs[r] = "absent"
        /\ jobs' \in {jobs, [jobs EXCEPT ![r] = "queued"]}
        /\ UNCHANGED <<runs, lock, worker, entered>>
    BY <1>3, <1>t DEF EnqueueManualRun, EnqueueFails, ApiConsistent
  <2>3. TypeOK'
    BY <1>t, <2>1, <2>2 DEF TypeOK
  <2>4. \A x \in ManualRuns : ApiConsistent(x)'
    BY <1>t, <2>1, <2>2 DEF ApiConsistent, TypeOK
  <2>5. \A x \in Runs : jobs[x] = "taken" => jobs'[x] = "taken"
    BY <1>t, <2>2 DEF TypeOK
  <2> QED BY <1>rows, <2>2, <2>3, <2>4, <2>5, NoWorkerMoves
<1>4. CASE ApiCrash(r)
  <2>1. TypeOK'
    BY <1>4, <1>t DEF ApiCrash, TypeOK
  <2>2. \A x \in ManualRuns : ApiConsistent(x)'
    BY <1>4, <1>t DEF ApiCrash, ApiConsistent, TypeOK
  <2> QED BY <1>4, <1>rows, <2>1, <2>2, NoWorkerMoves DEF ApiCrash
<1>5. CASE Schedule(r)
  <2>1. TypeOK'
    BY <1>5, <1>t DEF Schedule, TypeOK
  <2>2. \A x \in ManualRuns : ApiConsistent(x)'
    BY <1>5, <1>t DEF Schedule, ApiConsistent, TypeOK
  <2>3. \A x \in Runs : jobs[x] = "taken" => jobs'[x] = "taken"
    BY <1>5, <1>t DEF Schedule, TypeOK
  <2> QED BY <1>5, <1>rows, <2>1, <2>2, <2>3, NoWorkerMoves DEF Schedule
<1>6. CASE Redeliver(r)
  <2>1. TypeOK'
    BY <1>6, <1>t DEF Redeliver, TypeOK
  <2>2. \A x \in ManualRuns : ApiConsistent(x)'
    BY <1>6, <1>t DEF Redeliver, ApiConsistent, TypeOK
  <2>3. \A x \in Runs : jobs[x] = "taken" => jobs'[x] = "taken"
                          \/ \A w \in Workers : worker[w].run # x
    BY <1>6, <1>t DEF Redeliver, TypeOK
  <2> QED BY <1>6, <1>rows, <2>1, <2>2, <2>3, NoWorkerMoves DEF Redeliver
<1> QED BY <1>1, <1>2, <1>3, <1>4, <1>5, <1>6 DEF RunStep

LEMMA TickConsistent ==
  ASSUME IInv, Tick
  PROVE  IInv'
<1>t. TypeOK
  BY DEF IInv
<1>1. ASSUME NEW r \in Runs
      PROVE  /\ runs'[r] \in AutomationRun
             /\ runs'[r].status = runs[r].status
             /\ runs'[r].age <= runs[r].age + 1
  <2> DEFINE row == [runs[r] EXCEPT !.age = Least(@ + 1, StaleThreshold + 1)]
  <2>1. runs[r] \in AutomationRun /\ StaleThreshold \in Nat
    BY <1>t, AutomationAssumption DEF TypeOK
  <2>2. row \in AutomationRun /\ row.status = runs[r].status /\ row.age <= runs[r].age + 1
    BY <2>1 DEF AutomationRun, Least
  <2>3. runs'[r] = row
    BY DEF Tick
  <2> HIDE DEF row
  <2> QED BY <2>2, <2>3
<1>2. ASSUME NEW w \in Workers
      PROVE  /\ worker'[w] \in WorkerState
             /\ worker'[w].pc = worker[w].pc /\ worker'[w].run = worker[w].run
             /\ worker[w].pc \in Executing =>
                  worker'[w].elapsed = worker[w].elapsed + 1 /\ worker[w].elapsed < TimeLimit(w)
  <2>1. worker[w] \in WorkerState /\ RunTimeout \in Nat /\ JobTimeout \in Nat
        /\ RunTimeout <= JobTimeout
    BY <1>t, AutomationAssumption DEF TypeOK
  <2>2. CASE worker[w].pc \in Executing
    <3> DEFINE new == [worker[w] EXCEPT !.elapsed = @ + 1]
    <3>1. worker[w].elapsed < TimeLimit(w) /\ worker'[w] = new
      BY <2>2 DEF Tick
    <3>2. new \in WorkerState /\ new.pc = worker[w].pc /\ new.run = worker[w].run
          /\ new.elapsed = worker[w].elapsed + 1
      BY <2>1, <3>1 DEF WorkerState, TimeLimit
    <3> HIDE DEF new
    <3> QED BY <3>1, <3>2
  <2>3. CASE worker[w].pc \notin Executing
    BY <2>1, <2>3 DEF Tick
  <2> QED BY <2>2, <2>3
<1>3. TypeOK'
  <2>1. runs' \in [Runs -> AutomationRun]
    BY <1>1 DEF Tick
  <2>2. worker' \in [Workers -> WorkerState]
    BY <1>2 DEF Tick
  <2> QED BY <1>t, <2>1, <2>2, ExpireTyped DEF Tick, TypeOK
<1>4. ASSUME NEW w \in Workers PROVE WorkerConsistent(w)'
  <2>1. WorkerConsistent(w) /\ jobs' = jobs /\ entered' = entered
        /\ RunTimeout \in Nat /\ worker[w].elapsed \in Nat
    BY <1>t, AutomationAssumption DEF IInv, Tick, TypeOK, WorkerState
  <2> QED BY <1>2, <2>1 DEF WorkerConsistent, TimeLimit, Executing
<1>5. ASSUME NEW w \in Workers PROVE HeartbeatFresh(w)'
  <2>1. HeartbeatFresh(w) /\ WorkerConsistent(w) /\ worker[w].elapsed \in Nat
        /\ \A r \in Runs : runs[r].age \in Nat /\ runs'[r].age \in Nat
    BY <1>1, <1>t, AutomationAssumption DEF IInv, TypeOK, WorkerState, AutomationRun
  <2>2. ASSUME NEW r \in Runs, worker'[w].run = r, runs'[r].status = "RUNNING"
        PROVE  runs'[r].age <= worker'[w].elapsed
    <3>1. worker[w].run = r /\ worker[w].pc \in Executing
      BY <1>2, <2>1, <2>2, AutomationAssumption DEF WorkerConsistent
    <3> QED BY <1>1, <1>2, <2>1, <2>2, <3>1 DEF HeartbeatFresh
  <2> QED BY <2>2 DEF HeartbeatFresh
<1>6. (\A r \in Runs : EnteredConsistent(r)') /\ \A r \in ManualRuns : ApiConsistent(r)'
  BY <1>1, AutomationAssumption DEF IInv, Tick, EnteredConsistent, ApiConsistent
<1>7. JobsExclusive'
  BY <1>2 DEF IInv, JobsExclusive
<1> QED BY <1>3, <1>4, <1>5, <1>6, <1>7 DEF IInv

\* A worker that goes on with its run, whose row has been left alone or written
\* with a new heartbeat and not with PENDING.
LEMMA KeepsRun ==
  ASSUME IInv, NEW w \in Workers, worker[w].pc \in Executing,
         worker' \in [Workers -> WorkerState],
         NEW pc \in Executing, worker'[w].pc = pc,
         worker'[w].run = worker[w].run, worker'[w].elapsed = worker[w].elapsed,
         \A x \in Workers \ {w} : worker'[x] = worker[x],
         pc \in Guarded => worker[w].pc \in Guarded,
         pc \in Early => worker[w].pc \in Early,
         lock' \in LockLease, UNCHANGED <<jobs, api, entered>>,
         \/ runs' = runs
         \/ Heartbeat(worker[w].run)
         \/ \E status \in AutomationRunStatus \ {"PENDING"} : WriteStatus(worker[w].run, status)
  PROVE  IInv'
<1> DEFINE r == worker[w].run
<1>t. TypeOK /\ WorkerConsistent(w) /\ HeartbeatFresh(w)
  BY DEF IInv
<1>1. r \in Runs
  BY <1>t DEF TypeOK, WorkerState, WorkerConsistent
<1> HIDE DEF r
<1>2. /\ runs' \in [Runs -> AutomationRun]
      /\ runs'[r].status = runs[r].status \/ runs'[r].status \in AutomationRunStatus \ {"PENDING"}
      /\ runs' = runs \/ runs'[r].age = 0
      /\ \A x \in Runs \ {r} : runs'[x] = runs[x]
  <2>1. CASE runs' = runs
    BY <2>1, <1>t DEF TypeOK
  <2>2. CASE Heartbeat(r)
    BY <1>1, <2>2, <1>t, HeartbeatTyped
  <2>3. CASE \E status \in AutomationRunStatus \ {"PENDING"} : WriteStatus(r, status)
    <3>1. PICK status \in AutomationRunStatus \ {"PENDING"} : WriteStatus(r, status)
      BY <2>3
    <3> QED BY <1>1, <3>1, <1>t, RunTyped
  <2> QED BY <2>1, <2>2, <2>3 DEF r
<1>4. TypeOK'
  BY <1>t, <1>2 DEF TypeOK
<1>5. WorkerConsistent(w)'
  BY <1>t DEF WorkerConsistent
<1>6. RowsYoung
  BY <1>1, <1>2 DEF RowsYoung
<1>7. HeartbeatFresh(w)'
  <2>1. worker[w].elapsed \in Nat
    BY <1>t, AutomationAssumption DEF TypeOK, WorkerState
  <2> QED BY <1>t, <1>6, <2>1 DEF HeartbeatFresh, RowsYoung
<1>8. \A x \in Runs : EnteredConsistent(x)'
  BY <1>2, AutomationAssumption DEF IInv, EnteredConsistent, AutomationRunStatus, Finished
<1>9. \A x \in Runs : runs'[x].status = "ABSENT" => runs[x].status = "ABSENT"
  BY <1>2 DEF AutomationRunStatus, Finished
<1>10. \A x \in Workers \ {w} : worker[x].run # NoRun =>
         jobs'[worker[x].run] = "taken" /\ entered'[worker[x].run] = entered[worker[x].run]
  BY DEF IInv, WorkerConsistent
<1> QED BY <1>4, <1>5, <1>6, <1>7, <1>8, <1>9, <1>10, OneWorker

\* The same for a step that only moves the worker on.
LEMMA GoesOn ==
  ASSUME IInv, NEW w \in Workers, worker[w].pc \in Executing,
         NEW pc \in Executing, Goto(w, pc),
         pc \in Guarded => worker[w].pc \in Guarded,
         pc \in Early => worker[w].pc \in Early,
         lock' \in LockLease, UNCHANGED <<jobs, api, entered>>,
         \/ runs' = runs
         \/ Heartbeat(worker[w].run)
         \/ \E status \in AutomationRunStatus \ {"PENDING"} : WriteStatus(worker[w].run, status)
  PROVE  IInv'
<1>1. TypeOK
  BY DEF IInv
<1> QED BY <1>1, GotoTyped, KeepsRun

\* A worker that lays its run down, whose row has been left alone or written
\* with a final status, and whose job is dropped, queued again or left taken.
LEMMA LaysDown ==
  ASSUME IInv, NEW w \in Workers, NEW new \in {Idle, Down},
         worker' = [worker EXCEPT ![w] = new],
         lock' \in LockLease, UNCHANGED <<api, entered>>,
         \/ jobs' = jobs
         \/ /\ worker[w].pc \in Executing
            /\ \E state \in {"absent", "queued"} :
                 jobs' = [jobs EXCEPT ![worker[w].run] = state],
         \/ runs' = runs
         \/ /\ worker[w].pc \in Executing
            /\ \E status \in Finished : WriteStatus(worker[w].run, status)
  PROVE  IInv'
<1>t. TypeOK /\ WorkerConsistent(w)
  BY DEF IInv
<1>1. worker[w].pc \in Executing => worker[w].run \in Runs /\ jobs[worker[w].run] = "taken"
  BY <1>t DEF TypeOK, WorkerState, WorkerConsistent
<1>2. /\ worker' \in [Workers -> WorkerState] /\ worker'[w] = new
      /\ \A x \in Workers \ {w} : worker'[x] = worker[x]
  BY <1>t, RestTyped
<1>3. /\ jobs' \in [Runs -> {"absent", "queued", "taken"}]
      /\ \A x \in Runs : /\ jobs[x] = "absent" => jobs'[x] = "absent"
                         /\ x # worker[w].run => jobs'[x] = jobs[x]
  BY <1>t, <1>1 DEF TypeOK
<1>4. /\ runs' \in [Runs -> AutomationRun]
      /\ \A x \in Runs : runs'[x] = runs[x] \/ (runs'[x].age = 0 /\ runs'[x].status \in Finished)
  <2>1. CASE runs' = runs
    BY <2>1, <1>t DEF TypeOK
  <2>2. CASE runs' # runs
    <3>1. worker[w].pc \in Executing /\ worker[w].run \in Runs
      BY <2>2, <1>1
    <3>2. PICK status \in Finished : WriteStatus(worker[w].run, status)
      BY <2>2
    <3>3. status \in AutomationRunStatus
      BY DEF AutomationRunStatus
    <3>4. /\ runs' \in [Runs -> AutomationRun]
          /\ runs'[worker[w].run].status = status /\ runs'[worker[w].run].age = 0
          /\ \A x \in Runs \ {worker[w].run} : runs'[x] = runs[x]
      BY <1>t, <3>1, <3>2, <3>3, RunTyped
    <3> QED BY <3>4
  <2> QED BY <2>1, <2>2
<1>5. TypeOK'
  BY <1>t, <1>2, <1>3, <1>4 DEF TypeOK
<1>6. new.run = NoRun /\ new.pc \in {"idle", "down"}
  BY DEF Idle, Down
<1>7. WorkerConsistent(w)' /\ HeartbeatFresh(w)'
  BY <1>2, <1>6, AutomationAssumption
     DEF WorkerConsistent, HeartbeatFresh, Executing, Guarded, Unguarded, Early
<1>8. RowsYoung
  BY <1>4 DEF RowsYoung
<1>9. \A x \in Runs : EnteredConsistent(x)' /\ (runs'[x].status = "ABSENT" => runs[x].status = "ABSENT")
  BY <1>4, AutomationAssumption DEF IInv, EnteredConsistent, Finished
<1>10. \A x \in Workers \ {w} : worker[x].run # NoRun =>
         jobs'[worker[x].run] = "taken" /\ entered'[worker[x].run] = entered[worker[x].run]
  <2> SUFFICES ASSUME NEW x \in Workers \ {w}, worker[x].run # NoRun
               PROVE  jobs'[worker[x].run] = "taken"
    OBVIOUS
  <2>1. worker[x].run \in Runs /\ jobs[worker[x].run] = "taken"
    BY <1>t DEF IInv, TypeOK, WorkerState, WorkerConsistent
  <2>2. worker[x].run # worker[w].run
    BY DEF IInv, JobsExclusive
  <2> QED BY <1>3, <2>1, <2>2
<1> QED BY <1>2, <1>3, <1>5, <1>6, <1>7, <1>8, <1>9, <1>10, OneWorker

LEMMA BeginConsistent ==
  ASSUME IInv, NEW w \in Workers, NEW r \in Runs, Begin(w, r)
  PROVE  IInv'
<1> DEFINE new == [pc |-> "safety_check", run |-> r, elapsed |-> 0, broken |-> FALSE]
<1>t. TypeOK /\ EnteredConsistent(r) /\ r # NoRun
  BY AutomationAssumption DEF IInv
<1>1. new \in WorkerState /\ new.pc = "safety_check" /\ new.run = r /\ new.elapsed = 0
  BY AutomationAssumption DEF WorkerState, Executing, Guarded
<1>2. worker' = [worker EXCEPT ![w] = new]
  BY DEF Begin
<1> HIDE DEF new
<1>3. /\ worker' \in [Workers -> WorkerState] /\ worker'[w] = new
      /\ \A x \in Workers \ {w} : worker'[x] = worker[x]
  BY <1>t, <1>1, <1>2 DEF TypeOK
<1>4. /\ runs' \in [Runs -> AutomationRun] /\ runs'[r].status = "PENDING" /\ runs'[r].age = 0
      /\ \A x \in Runs \ {r} : runs'[x] = runs[x]
  BY <1>t, RunTyped DEF Begin, AutomationRunStatus
<1>5. /\ jobs' \in [Runs -> {"absent", "queued", "taken"}]
      /\ jobs[r] = "queued" /\ jobs'[r] = "taken" /\ \A x \in Runs \ {r} : jobs'[x] = jobs[x]
  BY <1>t DEF Begin, TypeOK
<1>6. entered[r] = 0 /\ runs[r].status \in {"ABSENT", "PENDING"}
  BY <1>t DEF Begin, Resolvable, EnteredConsistent
<1>7. TypeOK' /\ UNCHANGED <<api, lock, entered>>
  BY <1>t, <1>3, <1>4, <1>5 DEF Begin, TypeOK
<1>8. WorkerConsistent(w)'
  BY <1>1, <1>3, <1>5, <1>6, <1>7, <1>t, AutomationAssumption
     DEF WorkerConsistent, Executing, Guarded
<1>9. HeartbeatFresh(w)'
  BY <1>1, <1>3, <1>4 DEF HeartbeatFresh
<1>10. \A x \in Runs : EnteredConsistent(x)'
  BY <1>4, <1>6, <1>7 DEF IInv, EnteredConsistent
<1>11. RowsYoung
  BY <1>4 DEF RowsYoung
<1>12. \A x \in Workers : worker[x].run # NoRun =>
         worker[x].run # r /\ jobs'[worker[x].run] = "taken"
         /\ entered'[worker[x].run] = entered[worker[x].run]
  BY <1>5, <1>7, <1>t DEF IInv, TypeOK, WorkerState, WorkerConsistent
<1>13. \A x \in Runs : (jobs[x] = "absent" => jobs'[x] = "absent")
                      /\ (runs'[x].status = "ABSENT" => runs[x].status = "ABSENT")
  BY <1>4, <1>5
<1>14. \A x \in Workers \ {w} : worker[x].run # worker'[w].run
  BY <1>1, <1>3, <1>12, <1>t
<1> QED BY <1>3, <1>7, <1>8, <1>9, <1>10, <1>11, <1>12, <1>13, <1>14, OneWorker

LEMMA MarkRunningConsistent ==
  ASSUME IInv, NEW w \in Workers, mark_running(w)
  PROVE  IInv'
<1> DEFINE r == worker[w].run
<1>t. TypeOK /\ WorkerConsistent(w) /\ JobsExclusive
  BY DEF IInv
<1>1. worker[w].pc = "locked" /\ r \in Runs /\ r # NoRun /\ entered[r] = 0
  BY <1>t DEF mark_running, AtStep, TypeOK, WorkerState, WorkerConsistent, Executing, Guarded, Early
<1> HIDE DEF r
<1>2. /\ runs' \in [Runs -> AutomationRun] /\ runs'[r].status = "RUNNING" /\ runs'[r].age = 0
      /\ \A x \in Runs \ {r} : runs'[x] = runs[x]
  BY <1>1, <1>t, RunTyped DEF mark_running, AutomationRunStatus, r
<1>3. /\ worker' \in [Workers -> WorkerState]
      /\ worker'[w].pc = "pipeline" /\ worker'[w].run = r
      /\ worker'[w].elapsed = worker[w].elapsed
      /\ \A x \in Workers \ {w} : worker'[x] = worker[x]
  BY <1>t, GotoTyped DEF mark_running, Executing, Guarded, r
<1>4. /\ entered' \in [Runs -> Nat] /\ entered'[r] = 1
      /\ \A x \in Runs \ {r} : entered'[x] = entered[x]
  BY <1>1, <1>t DEF mark_running, TypeOK, r
<1>5. TypeOK' /\ UNCHANGED <<jobs, api, lock>>
  BY <1>t, <1>2, <1>3, <1>4 DEF TypeOK, mark_running
<1>6. WorkerConsistent(w)'
  BY <1>t, <1>1, <1>3, <1>5 DEF WorkerConsistent, Executing, Guarded, Early, r
<1>7. HeartbeatFresh(w)'
  <2>1. worker[w].elapsed \in Nat
    BY <1>t, AutomationAssumption DEF TypeOK, WorkerState
  <2> QED BY <1>2, <1>3, <2>1 DEF HeartbeatFresh
<1>8. RowsYoung /\ \A x \in Runs : EnteredConsistent(x)'
  BY <1>2, <1>4 DEF IInv, RowsYoung, EnteredConsistent
<1>9. \A x \in Workers \ {w} : worker[x].run # NoRun =>
         jobs'[worker[x].run] = "taken" /\ entered'[worker[x].run] = entered[worker[x].run]
  <2> SUFFICES ASSUME NEW x \in Workers \ {w}, worker[x].run # NoRun
               PROVE  jobs'[worker[x].run] = "taken"
                      /\ entered'[worker[x].run] = entered[worker[x].run]
    OBVIOUS
  <2>1. worker[x].run \in Runs /\ jobs[worker[x].run] = "taken"
    BY <1>t DEF IInv, TypeOK, WorkerState, WorkerConsistent
  <2>2. worker[x].run # r
    BY <1>t, <1>1 DEF JobsExclusive, r
  <2> QED BY <1>4, <1>5, <2>1, <2>2
<1>10. \A x \in Runs : (jobs[x] = "absent" => jobs'[x] = "absent")
                      /\ (runs'[x].status = "ABSENT" => runs[x].status = "ABSENT")
  BY <1>2, <1>5
<1>11. worker'[w].run = worker[w].run
  BY <1>3 DEF r
<1> QED BY <1>3, <1>5, <1>6, <1>7, <1>8, <1>9, <1>10, <1>11, OneWorker

LEMMA startupConsistent ==
  ASSUME IInv, NEW w \in Workers, startup(w)
  PROVE  IInv'
<1>t. TypeOK /\ WorkerConsistent(w)
  BY DEF IInv
<1>1. worker' = [worker EXCEPT ![w] = Idle] /\ UNCHANGED <<jobs, api, lock, entered>>
  BY DEF startup
<1>2. /\ worker' \in [Workers -> WorkerState] /\ worker'[w] = Idle
      /\ \A x \in Workers \ {w} : worker'[x] = worker[x]
  BY <1>t, <1>1, RestTyped
<1>3. [status |-> "FAILED", age |-> 0] \in AutomationRun
  BY AutomationAssumption DEF AutomationRun, AutomationRunStatus, Finished
<1>4. /\ runs' \in [Runs -> AutomationRun]
      /\ \A x \in Runs : runs'[x] = runs[x] \/ (runs'[x].status = "FAILED" /\ runs[x].status = "RUNNING")
  BY <1>t, <1>3 DEF startup, Stale, TypeOK
<1>5. TypeOK'
  BY <1>t, <1>1, <1>2, <1>4 DEF TypeOK
<1>6. Idle.run = NoRun /\ Idle.pc = "idle"
  BY DEF Idle
<1>7. WorkerConsistent(w)' /\ HeartbeatFresh(w)'
  BY <1>2, <1>6, AutomationAssumption
     DEF WorkerConsistent, HeartbeatFresh, Executing, Guarded, Unguarded, Early
<1>8. RowsYoung /\ \A x \in Runs : EnteredConsistent(x)'
                  /\ (runs'[x].status = "ABSENT" => runs[x].status = "ABSENT")
  BY <1>1, <1>4 DEF IInv, RowsYoung, EnteredConsistent
<1>9. \A x \in Workers \ {w} : worker[x].run # NoRun =>
         jobs'[worker[x].run] = "taken" /\ entered'[worker[x].run] = entered[worker[x].run]
  BY <1>1 DEF IInv, WorkerConsistent
<1> QED BY <1>1, <1>2, <1>5, <1>6, <1>7, <1>8, <1>9, OneWorker

LEMMA DropJobConsistent ==
  ASSUME IInv, NEW w \in Workers, NEW r \in Runs, DropJob(w, r)
  PROVE  IInv'
<1>t. TypeOK /\ \A x \in ManualRuns : ApiConsistent(x) /\ x \in Runs
  BY AutomationAssumption DEF IInv
<1>1. jobs[r] = "queued" /\ jobs' = [jobs EXCEPT ![r] = "absent"]
      /\ UNCHANGED <<runs, api, lock, worker, entered>>
  BY DEF DropJob
<1>2. TypeOK' /\ RowsYoung
  BY <1>t, <1>1 DEF TypeOK, RowsYoung
<1>3. \A x \in ManualRuns : ApiConsistent(x)'
  BY <1>t, <1>1 DEF ApiConsistent, TypeOK
<1>4. \A x \in Runs : jobs[x] = "taken" => jobs'[x] = "taken"
  BY <1>t, <1>1 DEF TypeOK
<1> QED BY <1>1, <1>2, <1>3, <1>4, NoWorkerMoves

LEMMA WorkerStepConsistent ==
  ASSUME IInv, NEW w \in Workers, WorkerStep(w)
  PROVE  IInv'
<1>t. TypeOK /\ WorkerConsistent(w) /\ lock \in LockLease
  BY DEF IInv, TypeOK
<1>l. Free \in LockLease /\ [owner |-> w, ttl |-> LockTtl] \in LockLease
      /\ (release(w) => lock' \in LockLease)
  BY <1>t, LockTyped
<1>idle. Idle \in {Idle, Down} /\ Down \in {Idle, Down}
  OBVIOUS
<1>1. CASE SkipUnsafe(w)
  BY <1>1, <1>t, GoesOn
     DEF SkipUnsafe, AtStep, Executing, Guarded, Early, AutomationRunStatus, Finished
<1>2. CASE SyncAccount(w)
  BY <1>2, <1>t, GoesOn DEF SyncAccount, AtStep, Executing, Guarded, Early
<1>3. CASE acquire(w)
  BY <1>3, <1>t, <1>l, GoesOn DEF acquire, AtStep, Executing, Guarded, Early
<1>4. CASE AcquireUnanswered(w)
  BY <1>4, <1>t, <1>l, GoesOn
     DEF AcquireUnanswered, AtStep, Executing, Guarded, Unguarded, Early
<1>5. CASE SkipLocked(w)
  BY <1>5, <1>t, <1>idle, LaysDown
     DEF SkipLocked, EndJob, AtStep, Executing, Guarded, Finished
<1>6. CASE mark_running(w)
  BY <1>6, MarkRunningConsistent
<1>7. CASE update_step(w)
  <2>1. Goto(w, "pipeline") /\ worker[w].pc = "pipeline"
    <3>1. worker[w] \in WorkerState
      BY <1>t DEF TypeOK
    <3>2. [worker[w] EXCEPT !.pc = "pipeline"] = worker[w] /\ worker' = worker
      BY <1>7, <3>1 DEF update_step, AtStep, WorkerState
    <3> QED BY <1>7, <1>t, <3>2 DEF update_step, AtStep, Goto, TypeOK
  <2> QED BY <1>7, <1>t, <2>1, GoesOn DEF update_step, Executing, Guarded, Early
<1>8. CASE Succeed(w)
  BY <1>8, <1>t, GoesOn
     DEF Succeed, AtStep, Executing, Guarded, Early, AutomationRunStatus, Finished
<1>9. CASE Return(w)
  <2>1. lock' \in LockLease
    BY <1>9, <1>t, <1>l DEF Return
  <2> QED BY <1>9, <1>idle, <2>1, LaysDown DEF Return, EndJob, Executing, Guarded
<1>10. CASE Raise(w)
  <2>1. PICK pc \in {"unwinding", "failing"} : worker'[w].pc = pc
    BY <1>10, <1>t, RaiseTyped
  <2>2. pc \in Executing /\ pc \notin Guarded /\ pc \notin Early
        /\ \A at \in Guarded : at \in Executing
    BY DEF Executing, Guarded, Unguarded, Early
  <2> QED BY <1>10, <1>t, <2>1, <2>2, RaiseTyped, KeepsRun
<1>11. CASE ReleaseFails(w)
  <2>1. lock' \in LockLease
    BY <1>11, <1>t, <1>l DEF ReleaseFails
  <2> QED BY <1>11, <2>1, GoesOn
          DEF ReleaseFails, AtStep, Executing, Guarded, Unguarded, Early
<1>12. CASE Unwind(w)
  BY <1>12, <1>l, GoesOn DEF Unwind, AtStep, Executing, Guarded, Unguarded, Early
<1>13. CASE Fail(w)
  BY <1>13, <1>t, <1>idle, LaysDown
     DEF Fail, EndJob, AtStep, Executing, Unguarded, Finished
<1>14. CASE Abandon(w)
  BY <1>14, <1>t, <1>idle, LaysDown DEF Abandon, EndJob, Executing
<1>15. CASE Stop(w)
  <2>1. lock' \in LockLease
    BY <1>15, <1>t, <1>l DEF Stop
  <2>2. \/ jobs' = jobs
        \/ worker[w].pc \in Executing /\ jobs' = [jobs EXCEPT ![worker[w].run] = "queued"]
    BY <1>15, <1>t DEF Stop, WorkerConsistent
  <2>3. worker' = [worker EXCEPT ![w] = Down] /\ UNCHANGED <<runs, api, entered>>
    BY <1>15 DEF Stop
  <2> QED BY <1>idle, <2>1, <2>2, <2>3, LaysDown
<1>16. CASE Crash(w)
  BY <1>16, <1>t, <1>idle, LaysDown DEF Crash
<1>17. CASE startup(w)
  BY <1>17, startupConsistent
<1> QED
  BY <1>1, <1>2, <1>3, <1>4, <1>5, <1>6, <1>7, <1>8, <1>9, <1>10, <1>11, <1>12, <1>13,
     <1>14, <1>15, <1>16, <1>17, BeginConsistent, DropJobConsistent
     DEF WorkerStep, JobStep

LEMMA StepConsistent == IInv /\ [Next]_vars => IInv'
<1> SUFFICES ASSUME IInv, [Next]_vars PROVE IInv'
  OBVIOUS
<1>1. CASE UNCHANGED vars
  BY <1>1 DEF vars, IInv, TypeOK, WorkerConsistent, JobsExclusive, EnteredConsistent,
       HeartbeatFresh, ApiConsistent
<1> QED BY <1>1, RunStepConsistent, WorkerStepConsistent, TickConsistent DEF Next

LEMMA Inductive == Spec => []IInv
  BY InitConsistent, StepConsistent, PTL DEF Spec

----------------------------------------------------------------------------
(* The theorems                                                             *)

\* Rows, jobs, lock and workers keep their types for any number of runs.
THEOREM TypeCorrect == Spec => []TypeOK
<1>1. IInv => TypeOK
  BY DEF IInv
<1> QED BY <1>1, Inductive, PTL

\* No correlation id enters the pipeline twice, whatever is repeated,
\* redelivered, restarted or lost: _resolve_run and the unique column suffice.
THEOREM AtMostOnce == Spec => []ExecutedOnce
<1>1. IInv => ExecutedOnce
  BY DEF IInv, EnteredConsistent, ExecutedOnce
<1> QED BY <1>1, Inductive, PTL

\* recover_stale spares every run in execution as soon as the threshold is not
\* below ARQ's job timeout, which the settings do not enforce.
THEOREM RecoveryIsHarmless ==
  ASSUME JobTimeout <= StaleThreshold
  PROVE  Spec => RecoverySparesLive
<1>1. ASSUME IInv, [Next]_vars, NEW r \in Runs,
             \E w \in Workers : AtStep(w, "down") /\ worker'[w].pc = "idle",
             \E w \in Workers : worker[w].run = r
      PROVE  runs'[r] = runs[r]
  <2>1. PICK d \in Workers : worker[d].pc = "down" /\ worker'[d].pc = "idle"
    BY <1>1 DEF AtStep
  <2>2. PICK w \in Workers : worker[w].run = r
    BY <1>1
  <2>3. ~Stale(r)
    <3>1. worker[w] \in WorkerState /\ runs[r] \in AutomationRun /\ HeartbeatFresh(w)
      BY <1>1 DEF IInv, TypeOK
    <3> QED BY <2>2, <3>1, AutomationAssumption
            DEF Stale, HeartbeatFresh, WorkerState, AutomationRun
  <2>4. worker \in [Workers -> WorkerState]
    BY <1>1 DEF IInv, TypeOK
  <2>5. ASSUME NEW v \in Workers, WorkerStep(v) PROVE startup(v)
    <3>1. CASE v = d
      BY <2>1, <2>5, <3>1
         DEF WorkerStep, JobStep, AtStep, Begin, DropJob, SkipUnsafe, SyncAccount, acquire,
             AcquireUnanswered, SkipLocked, mark_running, update_step, Succeed, Return, Raise,
             ReleaseFails, Unwind, Fail, Abandon, Stop, Crash, Guarded, Unguarded
    <3>2. CASE v # d
      <4>1. worker'[d] = worker[d]
        BY <2>4, <2>5, <3>2
           DEF WorkerStep, JobStep, Goto, EndJob, Begin, DropJob, SkipUnsafe, SyncAccount, acquire,
               AcquireUnanswered, SkipLocked, mark_running, update_step, Succeed, Return, Raise,
               ReleaseFails, Unwind, Fail, Abandon, Stop, Crash, startup
      <4> QED BY <2>1, <4>1
    <3> QED BY <3>1, <3>2
  <2>6. ASSUME NEW x \in Runs, RunStep(x) PROVE FALSE
    BY <2>1, <2>6
       DEF RunStep, CreateManualRun, EnqueueManualRun, EnqueueFails, FailUnqueuedRun, ApiCrash,
           Schedule, Redeliver
  <2>7. ~Tick
    <3>1. worker[d].pc \notin Executing
      BY <2>1 DEF Executing, Guarded, Unguarded
    <3> QED BY <2>1, <3>1 DEF Tick
  <2>8. PICK v \in Workers : startup(v)
    BY <1>1, <2>1, <2>5, <2>6, <2>7 DEF Next, vars
  <2> QED BY <2>3, <2>8 DEF startup
<1>2. IInv /\ [Next]_vars =>
        [\A r \in Runs :
           /\ \E w \in Workers : AtStep(w, "down") /\ worker'[w].pc = "idle"
           /\ \E w \in Workers : worker[w].run = r
           => runs'[r] = runs[r]]_vars
  BY <1>1
<1> QED BY <1>2, Inductive, PTL DEF Spec, RecoverySparesLive

\* A job step keeps every lease valid: acquire needs a free key, and a release
\* deletes its own key only.
LEMMA LeaseKept ==
  ASSUME RunTimeout < LockTtl, IInv, LeaseValid, [Next]_vars
  PROVE  LeaseValid'
<1>t. /\ lock \in LockLease /\ worker \in [Workers -> WorkerState]
      /\ LockTtl \in Nat /\ RunTimeout \in Nat /\ JobTimeout \in Nat /\ NoWorker \notin Workers
  BY AutomationAssumption DEF IInv, TypeOK
<1> SUFFICES ASSUME NEW x \in Workers, HoldsLease(x)'
             PROVE  lock'.owner = x /\ lock'.ttl + worker'[x].elapsed >= LockTtl
  BY DEF LeaseValid
<1>x. worker[x] \in WorkerState /\ lock.ttl \in Nat /\ worker[x].elapsed \in Nat
  BY <1>t, AutomationAssumption DEF WorkerState, LockLease
<1>held. ASSUME HoldsLease(x)
         PROVE  lock.owner = x /\ lock.ttl + worker[x].elapsed >= LockTtl /\ lock # Free
  BY <1>held, <1>t DEF LeaseValid, Free
<1>1. CASE UNCHANGED <<lock, worker>>
  BY <1>1, <1>held DEF HoldsLease
<1>2. CASE Tick
  <2>1. worker'[x].pc = worker[x].pc /\ worker[x].elapsed < RunTimeout
        /\ worker'[x].elapsed = worker[x].elapsed + 1
    <3>1. worker'[x] = IF worker[x].pc \in Executing
                         THEN [worker[x] EXCEPT !.elapsed = @ + 1] ELSE worker[x]
      BY <1>2 DEF Tick
    <3>2. worker'[x].pc = worker[x].pc
      BY <1>x, <3>1 DEF WorkerState
    <3>3. worker[x].pc \in Guarded /\ worker[x].pc \in Executing
      BY <3>2 DEF HoldsLease, Guarded, Executing
    <3> QED BY <1>2, <1>x, <3>1, <3>2, <3>3 DEF Tick, TimeLimit, WorkerState
  <2>2. lock.owner = x /\ lock.ttl + worker[x].elapsed >= LockTtl
    BY <1>held, <2>1 DEF HoldsLease
  <2>3. lock.ttl > 1
    BY <1>t, <1>x, <2>1, <2>2
  <2>4. lock'.owner = x /\ lock'.ttl = lock.ttl - 1
    BY <1>2, <2>2, <2>3, ExpireTyped DEF Tick, IInv
  <2> QED BY <1>x, <2>1, <2>2, <2>4
<1>3. ASSUME NEW w \in Workers, WorkerStep(w)
      PROVE  lock'.owner = x /\ lock'.ttl + worker'[x].elapsed >= LockTtl
  <2>1. CASE x # w
    <3>1. worker'[x] = worker[x]
      BY <1>t, <1>3, <2>1
         DEF WorkerStep, JobStep, Goto, EndJob, Begin, DropJob, SkipUnsafe, SyncAccount, acquire,
             AcquireUnanswered, SkipLocked, mark_running, update_step, Succeed, Return, Raise,
             ReleaseFails, Unwind, Fail, Abandon, Stop, Crash, startup
    <3>2. lock.owner = x /\ lock.ttl + worker[x].elapsed >= LockTtl /\ lock # Free
      BY <1>held, <3>1 DEF HoldsLease
    <3>3. lock' = lock
      BY <1>3, <2>1, <3>2
         DEF WorkerStep, JobStep, Begin, DropJob, SkipUnsafe, SyncAccount, acquire, release,
             AcquireUnanswered, SkipLocked, mark_running, update_step, Succeed, Return, Raise,
             ReleaseFails, Unwind, Fail, Abandon, Stop, Crash, startup
    <3> QED BY <3>1, <3>2, <3>3
  <2>2. CASE x = w /\ acquire(w)
    <3>1. lock' = [owner |-> x, ttl |-> LockTtl] /\ worker' = [worker EXCEPT ![x].pc = "locked"]
      BY <2>2 DEF acquire, Goto
    <3>2. worker'[x].elapsed \in Nat
      BY <1>t, <1>x, <3>1 DEF WorkerState
    <3> QED BY <1>t, <3>1, <3>2
  <2>3. CASE x = w /\ (mark_running(w) \/ update_step(w) \/ Succeed(w))
    <3>1. HoldsLease(x) /\ lock' = lock /\ worker'[x].elapsed = worker[x].elapsed
      BY <2>3, <1>t, <1>x
         DEF mark_running, update_step, Succeed, Goto, AtStep, HoldsLease, WorkerState
    <3> QED BY <1>held, <3>1
  <2>4. CASE x = w /\ ~(acquire(w) \/ mark_running(w) \/ update_step(w) \/ Succeed(w))
    <3>0. \/ \E r \in Runs : Begin(w, r) \/ DropJob(w, r)
          \/ SkipUnsafe(w) \/ SyncAccount(w) \/ AcquireUnanswered(w) \/ SkipLocked(w)
          \/ Return(w) \/ Raise(w) \/ ReleaseFails(w) \/ Unwind(w) \/ Fail(w) \/ Abandon(w)
          \/ Stop(w) \/ Crash(w) \/ startup(w)
      BY <1>3, <2>4 DEF WorkerStep, JobStep
    <3>1. CASE Raise(w)
      BY <1>t, <2>4, <3>1, RaiseTyped DEF IInv, HoldsLease
    <3>2. CASE ~Raise(w)
      <4>1. worker'[x].pc \notin {"locked", "pipeline", "succeeded"}
        BY <1>t, <1>x, <2>4, <3>0, <3>2
           DEF Goto, EndJob, Begin, DropJob, SkipUnsafe, SyncAccount, AtStep, Idle, Down,
               AcquireUnanswered, SkipLocked, Return, ReleaseFails, Unwind, Fail, Abandon,
               Stop, Crash, startup, WorkerState
      <4> QED BY <4>1 DEF HoldsLease
    <3> QED BY <3>1, <3>2
  <2> QED BY <2>1, <2>2, <2>3, <2>4
<1>4. ASSUME NEW r \in Runs, RunStep(r) PROVE UNCHANGED <<lock, worker>>
  BY <1>4 DEF RunStep, CreateManualRun, EnqueueManualRun, EnqueueFails, FailUnqueuedRun, ApiCrash,
              Schedule, Redeliver
<1> QED BY <1>1, <1>2, <1>3, <1>4 DEF Next, vars

\* Two cycles never hold the lease of the account at the same time, for any
\* number of workers, as soon as the key's time to live exceeds the run timeout,
\* which the settings do not enforce.
THEOREM MutualExclusion ==
  ASSUME RunTimeout < LockTtl
  PROVE  Spec => []CycleMutex
<1>1. Init => LeaseValid
  BY DEF Init, LeaseValid, HoldsLease, Down
<1>2. IInv /\ LeaseValid /\ [Next]_vars => LeaseValid'
  BY LeaseKept
<1>3. LeaseValid => CycleMutex
  BY DEF LeaseValid, CycleMutex
<1> QED BY <1>1, <1>2, <1>3, Inductive, PTL DEF Spec

\* A key that is taken from its owner expired, or the owner's own step released
\* it: RELEASE_SCRIPT compares the token.
THEOREM LocksRespected == Spec => ForeignLockKept
<1>1. ASSUME IInv, [Next]_vars, NEW w \in Workers, lock.owner = w, lock'.owner # w
      PROVE  lock.ttl = 1 \/ worker'[w].pc # worker[w].pc
  <2>t. /\ lock \in LockLease /\ worker \in [Workers -> WorkerState] /\ worker[w] \in WorkerState
        /\ lock # Free /\ NoWorker \notin Workers
    BY <1>1, AutomationAssumption DEF IInv, TypeOK, Free
  <2>1. CASE UNCHANGED lock
    BY <1>1, <2>1
  <2>2. CASE Tick
    BY <1>1, <2>t, <2>2, AutomationAssumption DEF Tick, Expire, LockLease
  <2>3. ASSUME NEW v \in Workers, WorkerStep(v), lock' # lock
        PROVE  worker'[w].pc # worker[w].pc
    <3>1. \/ Return(v) \/ ReleaseFails(v) \/ Unwind(v) \/ Stop(v)
      BY <2>3, <2>t
         DEF WorkerStep, JobStep, Begin, DropJob, SkipUnsafe, SyncAccount, acquire,
             AcquireUnanswered, SkipLocked, mark_running, update_step, Succeed, Raise,
             Fail, Abandon, Crash, startup
    <3>2. v = w
      BY <1>1, <2>3, <3>1 DEF Return, ReleaseFails, Unwind, Stop, release
    <3> QED BY <2>t, <3>1, <3>2
            DEF Return, ReleaseFails, Unwind, Stop, EndJob, Goto, AtStep, Idle, Down, WorkerState
  <2>4. ASSUME NEW r \in Runs, RunStep(r) PROVE UNCHANGED lock
    BY <2>4 DEF RunStep, CreateManualRun, EnqueueManualRun, EnqueueFails, FailUnqueuedRun,
                ApiCrash, Schedule, Redeliver
  <2> QED BY <1>1, <2>1, <2>2, <2>3, <2>4 DEF Next, vars
<1>2. IInv /\ [Next]_vars =>
        [\A w \in Workers :
           lock.owner = w /\ lock'.owner # w =>
             lock.ttl = 1 \/ worker'[w].pc # worker[w].pc]_vars
  BY <1>1
<1> QED BY <1>2, Inductive, PTL DEF Spec, ForeignLockKept

\* A worker on its way to mark_running works on a run that has no other end yet
\* than the FAILED of a recovery, a request or a late timeout.
EarlyOpen ==
  \A w \in Workers :
    worker[w].pc \in Early => runs[worker[w].run].status \notin {"SUCCEEDED", "SKIPPED"}

LEMMA EarlyOpenKept ==
  ASSUME IInv, EarlyOpen, [Next]_vars
  PROVE  EarlyOpen'
<1>t. /\ worker \in [Workers -> WorkerState] /\ runs \in [Runs -> AutomationRun]
      /\ NoRun \notin Runs /\ JobsExclusive /\ \A w \in Workers : WorkerConsistent(w)
  BY AutomationAssumption DEF IInv, TypeOK
<1> SUFFICES ASSUME NEW x \in Workers, worker'[x].pc \in Early
             PROVE  runs'[worker'[x].run].status \notin {"SUCCEEDED", "SKIPPED"}
  BY DEF EarlyOpen
<1>x. worker[x] \in WorkerState
  BY <1>t
<1>r. ASSUME worker[x].pc \in Early
      PROVE  worker[x].run \in Runs /\ runs[worker[x].run].status \notin {"SUCCEEDED", "SKIPPED"}
  BY <1>r, <1>t, <1>x DEF EarlyOpen, WorkerConsistent, WorkerState, Early, Executing, Guarded
<1>1. CASE UNCHANGED <<runs, worker>>
  BY <1>1, <1>r
<1>2. CASE Tick
  <2>1. worker'[x].pc = worker[x].pc /\ worker'[x].run = worker[x].run
    BY <1>2, <1>x DEF Tick, WorkerState
  <2>2. \A r \in Runs : runs'[r].status = runs[r].status
    BY <1>2, <1>t DEF Tick, AutomationRun
  <2> QED BY <1>r, <2>1, <2>2
<1>3. ASSUME NEW r \in Runs, RunStep(r)
      PROVE  runs'[worker'[x].run].status \notin {"SUCCEEDED", "SKIPPED"}
  <2>1. worker' = worker /\ (runs' = runs \/ WriteStatus(r, "PENDING") \/ WriteStatus(r, "FAILED"))
    BY <1>3 DEF RunStep, CreateManualRun, EnqueueManualRun, EnqueueFails, FailUnqueuedRun,
                ApiCrash, Schedule, Redeliver
  <2> QED BY <1>r, <1>t, <2>1 DEF WriteStatus
<1>4. ASSUME NEW w \in Workers, WorkerStep(w)
      PROVE  runs'[worker'[x].run].status \notin {"SUCCEEDED", "SKIPPED"}
  <2>1. CASE x # w
    <3>1. worker'[x] = worker[x]
      BY <1>t, <1>4, <2>1
         DEF WorkerStep, JobStep, Goto, EndJob, Begin, DropJob, SkipUnsafe, SyncAccount, acquire,
             AcquireUnanswered, SkipLocked, mark_running, update_step, Succeed, Return, Raise,
             ReleaseFails, Unwind, Fail, Abandon, Stop, Crash, startup
    <3>2. worker[x].run \in Runs /\ worker[x].run # worker[w].run
      BY <1>r, <1>t, <2>1, <3>1 DEF JobsExclusive
    <3>3. \/ runs'[worker[x].run].status = runs[worker[x].run].status
          \/ runs'[worker[x].run].status \in {"PENDING", "FAILED"}
      <4>1. CASE Raise(w)
        BY <4>1 DEF Raise
      <4>2. CASE ~Raise(w)
        BY <1>t, <1>4, <3>2, <4>2
           DEF WorkerStep, JobStep, WriteStatus, Heartbeat, Begin, DropJob, SkipUnsafe,
               SyncAccount, acquire, AcquireUnanswered, SkipLocked, mark_running, update_step,
               Succeed, Return, ReleaseFails, Unwind, Fail, Abandon, Stop, Crash, startup
      <4> QED BY <4>1, <4>2
    <3> QED BY <1>r, <3>1, <3>3
  <2>2. CASE x = w /\ \E r \in Runs : Begin(w, r)
    <3>1. PICK r \in Runs : Begin(w, r)
      BY <2>2
    <3>2. worker'[x].run = r /\ runs'[r].status = "PENDING"
      BY <1>t, <2>2, <3>1 DEF Begin, WriteStatus
    <3> QED BY <3>2
  <2>3. CASE x = w /\ (SyncAccount(w) \/ acquire(w))
    <3>1. worker[x].pc \in Early /\ worker'[x].run = worker[x].run
      BY <1>t, <1>x, <2>3 DEF SyncAccount, acquire, AtStep, Goto, Early, WorkerState
    <3>2. \A r \in Runs : runs'[r].status = runs[r].status
      BY <1>t, <2>3 DEF SyncAccount, acquire, Heartbeat, AutomationRun
    <3> QED BY <1>r, <3>1, <3>2
  <2>4. CASE x = w /\ \E r \in Runs : DropJob(w, r)
    BY <1>1, <2>4 DEF DropJob
  <2>5. CASE x = w /\ ~(SyncAccount(w) \/ acquire(w) \/ \E r \in Runs : Begin(w, r) \/ DropJob(w, r))
    <3>0. \/ SkipUnsafe(w) \/ AcquireUnanswered(w) \/ SkipLocked(w) \/ mark_running(w)
          \/ update_step(w) \/ Succeed(w) \/ Return(w) \/ Raise(w) \/ ReleaseFails(w)
          \/ Unwind(w) \/ Fail(w) \/ Abandon(w) \/ Stop(w) \/ Crash(w) \/ startup(w)
      BY <1>4, <2>5 DEF WorkerStep, JobStep
    <3>1. CASE Raise(w)
      BY <2>5, <3>1, RaiseTyped DEF IInv, Early
    <3>2. CASE ~Raise(w)
      <4>1. worker'[x].pc \notin Early
        BY <1>t, <1>x, <2>5, <3>0, <3>2
           DEF Goto, EndJob, SkipUnsafe, AtStep, Idle, Down, AcquireUnanswered, SkipLocked,
               mark_running, update_step, Succeed, Return, ReleaseFails, Unwind, Fail,
               Abandon, Stop, Crash, startup, WorkerState, Early
      <4> QED BY <4>1
    <3> QED BY <3>1, <3>2
  <2> QED BY <2>1, <2>2, <2>3, <2>4, <2>5
<1> QED BY <1>1, <1>2, <1>3, <1>4 DEF Next, vars

\* SUCCEEDED and SKIPPED are the last words on a run, which only a worker on its
\* way to mark_running could take back, and _resolve_run gives it no such run.
THEOREM EndsAreFinal == Spec => FinishedStaysFinished
<1>1. Init => EarlyOpen
  BY DEF Init, EarlyOpen, Early, Down
<1>2. IInv /\ EarlyOpen /\ [Next]_vars => EarlyOpen'
  BY EarlyOpenKept
<1>3. ASSUME IInv, EarlyOpen, [Next]_vars, NEW r \in Runs,
             runs[r].status \in {"SUCCEEDED", "SKIPPED"}
      PROVE  runs'[r].status \notin {"PENDING", "RUNNING"}
  <2>t. runs \in [Runs -> AutomationRun]
    BY <1>3 DEF IInv, TypeOK
  <2>1. CASE UNCHANGED runs
    BY <1>3, <2>1
  <2>2. CASE Tick
    BY <1>3, <2>t, <2>2 DEF Tick, AutomationRun
  <2>3. ASSUME NEW x \in Runs, RunStep(x)
        PROVE  runs'[r].status \notin {"PENDING", "RUNNING"}
    <3>1. CASE CreateManualRun(x)
      BY <1>3, <2>t, <3>1 DEF CreateManualRun, WriteStatus
    <3>2. CASE FailUnqueuedRun(x)
      BY <1>3, <2>t, <3>2 DEF FailUnqueuedRun, WriteStatus
    <3>3. CASE ~(CreateManualRun(x) \/ FailUnqueuedRun(x))
      BY <1>3, <2>3, <3>3
         DEF RunStep, EnqueueManualRun, EnqueueFails, ApiCrash, Schedule, Redeliver
    <3> QED BY <3>1, <3>2, <3>3
  <2>4. ASSUME NEW w \in Workers, WorkerStep(w)
        PROVE  runs'[r].status \notin {"PENDING", "RUNNING"}
    <3>1. CASE \E x \in Runs : Begin(w, x)
      BY <1>3, <2>t, <3>1 DEF Begin, Resolvable, WriteStatus
    <3>2. CASE mark_running(w)
      <4>1. worker[w].run # r
        BY <1>3, <3>2 DEF mark_running, AtStep, EarlyOpen, Early
      <4> QED BY <1>3, <2>t, <3>2, <4>1 DEF mark_running, WriteStatus
    <3>3. CASE ~(mark_running(w) \/ \E x \in Runs : Begin(w, x))
      <4>1. CASE Raise(w)
        BY <1>3, <4>1 DEF Raise
      <4>2. CASE ~Raise(w)
        BY <1>3, <2>t, <2>4, <3>3, <4>2
           DEF WorkerStep, JobStep, WriteStatus, Heartbeat, DropJob, SkipUnsafe, SyncAccount,
               acquire, AcquireUnanswered, SkipLocked, update_step, Succeed, Return,
               ReleaseFails, Unwind, Fail, Abandon, Stop, Crash, startup, AutomationRun
      <4> QED BY <4>1, <4>2
    <3> QED BY <3>1, <3>2, <3>3
  <2> QED BY <1>3, <2>1, <2>2, <2>3, <2>4 DEF Next, vars
<1>4. IInv /\ EarlyOpen /\ [Next]_vars =>
        [\A r \in Runs :
           runs[r].status \in {"SUCCEEDED", "SKIPPED"} =>
             runs'[r].status \notin {"PENDING", "RUNNING"}]_vars
  BY <1>3
<1> QED BY <1>1, <1>2, <1>4, Inductive, PTL DEF Spec, FinishedStaysFinished
=============================================================================
