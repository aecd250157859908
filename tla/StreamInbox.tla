---------------------------- MODULE StreamInbox ----------------------------
(***************************************************************************)
(* The durable inbox of broker stream events and the debounced             *)
(* reconciliation it leads to: app/streams (repository, processor,         *)
(* supervisor._handle_event), the ARQ job process_broker_stream_event and  *)
(* the admin requests that retry an event or ask for a reconciliation.     *)
(*                                                                         *)
(* An event stands for one dedupe key.  One account is watched, as the     *)
(* supervisor subscribes one set of accounts; a reason of a reconciliation *)
(* is kept only as the fact that one was asked for.  Every call to         *)
(* PostgreSQL or Redis that another process can see is a step.             *)
(***************************************************************************)
EXTENDS Integers, FiniteSets

CONSTANTS
  Events,          \* dedupe keys of broker events
  StatusEvents,    \* those that report the status of a subscription
  Workers,         \* ARQ worker processes, max_jobs = 1
  Streams,         \* stream tasks of the listener
  Clients,         \* admin requests in flight
  MaxAttempts,     \* stream_event_max_processing_attempts
  MaxReconciles,   \* bound: reconciliation jobs in the queue when a key expires
  MaxDeaths,       \* bound: how often a process dies or gives up
  NoEvent

ASSUME InboxAssumption ==
  /\ StatusEvents \subseteq Events
  /\ Workers \cap (Streams \cup Clients) = {} /\ Streams \cap Clients = {}
  /\ MaxAttempts \in Nat \ {0} /\ MaxReconciles \in Nat /\ MaxDeaths \in Nat
  /\ NoEvent \notin Events

VARIABLES
  records,     \* table broker_stream_events
  jobs,        \* external: ARQ's process_broker_stream_event jobs, by id
  state_key,   \* external: whether the Redis debounce key of the account exists
  reconciles,  \* external: how many reconcile_account jobs are queued
  proc,        \* what each process is doing
  deaths,      \* history: how often a process died or gave up its work
  stalled,     \* history: whether Redis ever failed a worker
  overtaken    \* history: whether a starting worker ever recovered a live event

history == <<deaths, stalled, overtaken>>

vars == <<records, jobs, state_key, reconciles, proc, deaths, stalled, overtaken>>

Processes == Workers \cup Streams \cup Clients

Attempts == 0 .. MaxAttempts

Settled == {"PROCESSED", "IGNORED", "DEAD_LETTER"}
StreamEventProcessingStatus == {"PENDING", "PROCESSING", "FAILED"} \cup Settled

\* "ABSENT": no row has the dedupe key.
BrokerStreamEventRecord ==
  [status : StreamEventProcessingStatus \cup {"ABSENT"}, attempts : Attempts]

\* The job ids stream-event:{id}, stream-event-recovery:{id},
\* stream-event:{id}:{attempts} and stream-event-retry:{id}:{attempts}.
JobIds == {"event", "recovery", "retry", "manual"} \X Attempts

\* "kept": the job is done and its result keeps the id occupied.
JobState == {"absent", "queued", "taken", "kept"}

Scheduling == {"marking", "adding", "queueing"}
Handling == Scheduling \cup {"completing", "requeueing"}

\* attempts is the worker's copy of the row it claimed, created the answer to
\* SET NX, found the rows startup_recovery has read.
Process ==
  [pc : Handling \cup {"down", "idle", "persisting", "enqueueing", "retrying",
                       "reconciling", "clearing", "recovering", "recovered"},
   event : Events \cup {NoEvent}, job : JobIds, attempts : Attempts, created : BOOLEAN,
   found : SUBSET Events]

NoJob == <<"event", 0>>

Resting(pc) ==
  [pc |-> pc, event |-> NoEvent, job |-> NoJob, attempts |-> 0, created |-> FALSE,
   found |-> {}]

TypeOK ==
  /\ records \in [Events -> BrokerStreamEventRecord]
  /\ jobs \in [Events -> [JobIds -> JobState]]
  /\ state_key \in BOOLEAN
  /\ reconciles \in Nat
  /\ proc \in [Processes -> Process]
  /\ deaths \in 0 .. MaxDeaths /\ stalled \in BOOLEAN /\ overtaken \in BOOLEAN

Init ==
  /\ records = [e \in Events |-> [status |-> "ABSENT", attempts |-> 0]]
  /\ jobs = [e \in Events |-> [j \in JobIds |-> "absent"]]
  /\ state_key = FALSE
  /\ reconciles = 0
  /\ proc = [p \in Processes |-> Resting(IF p \in Workers THEN "down" ELSE "idle")]
  /\ deaths = 0 /\ stalled = FALSE /\ overtaken = FALSE

----------------------------------------------------------------------------
AtStep(p, pc) == proc[p].pc = pc

Goto(p, pc) == proc' = [proc EXCEPT ![p].pc = pc]

Rest(p) == proc' = [proc EXCEPT ![p] = Resting("idle")]

SetStatus(e, status) == records' = [records EXCEPT ![e].status = status]

\* enqueue_job does nothing when the id has a job or a kept result.
Enqueued(e, id, table) ==
  IF table[e][id] = "absent" THEN [table EXCEPT ![e][id] = "queued"] ELSE table

Finished(e, id, table) == [table EXCEPT ![e][id] = "kept"]

\* The coroutine of the event's job has returned or raised.
EndJob(w) ==
  /\ Rest(w)
  /\ jobs' = Finished(proc[w].event, proc[w].job, jobs)

----------------------------------------------------------------------------
(* schedule_debounced_reconciliation, by a worker, a stream or a request    *)

AfterScheduling(p) ==
  CASE p \in Workers -> "completing"
    [] p \in Streams -> "persisting"
    [] p \in Clients -> "idle"

\* SET state_key NX EX.
MarkAccount(p) ==
  /\ AtStep(p, "marking")
  /\ state_key' = TRUE
  /\ proc' = [proc EXCEPT ![p].created = ~state_key, ![p].pc = "adding"]
  /\ UNCHANGED <<records, jobs, reconciles, history>>

\* SADD and EXPIRE; the request is over unless it set the key.
AddReason(p) ==
  /\ AtStep(p, "adding")
  /\ Goto(p, IF proc[p].created THEN "queueing" ELSE AfterScheduling(p))
  /\ UNCHANGED <<records, jobs, state_key, reconciles, history>>

\* The job id ends with the second it was made in.  The key lives longer than that,
\* so two jobs share a second only if an older one deletes the key between them: then
\* the first of the two, still queued, stands for both, which is left out.
QueueReconciliation(p) ==
  /\ AtStep(p, "queueing")
  /\ reconciles' = reconciles + 1
  /\ proc' = [proc EXCEPT ![p].pc = AfterScheduling(p), ![p].created = FALSE]
  /\ UNCHANGED <<records, jobs, state_key, history>>

\* The time to live of the key, max_debounce_seconds + 60, is over.
KeyExpires ==
  /\ state_key /\ reconciles < MaxReconciles
  /\ state_key' = FALSE
  /\ UNCHANGED <<records, jobs, reconciles, proc, history>>

----------------------------------------------------------------------------
(* The listener                                                             *)

\* _handle_event: the broker delivers an event, for the first time or again.
Receive(s, e) ==
  /\ s \in Streams /\ AtStep(s, "idle")
  /\ proc' = [proc EXCEPT ![s] =
       [Resting(IF e \in StatusEvents THEN "marking" ELSE "persisting") EXCEPT !.event = e]]
  /\ UNCHANGED <<records, jobs, state_key, reconciles, history>>

\* The unique dedupe key makes the look-up and the insert one step.
persist_event(s) ==
  LET e == proc[s].event IN
  /\ AtStep(s, "persisting")
  /\ IF records[e].status = "ABSENT"
     THEN SetStatus(e, "PENDING") /\ Goto(s, "enqueueing")
     ELSE Rest(s) /\ UNCHANGED records
  /\ UNCHANGED <<jobs, state_key, reconciles, history>>

EnqueueEvent(s) ==
  /\ AtStep(s, "enqueueing")
  /\ jobs' = Enqueued(proc[s].event, NoJob, jobs)
  /\ Rest(s)
  /\ UNCHANGED <<records, state_key, reconciles, history>>

----------------------------------------------------------------------------
(* The job of an event, on worker w                                         *)

\* Mutants of Claimable: attempts are not limited, or the status is not looked at.
ClaimableForever(e) == records[e].status \in {"PENDING", "FAILED"}
ClaimableAgain(e) == records[e].status # "ABSENT" /\ records[e].attempts < MaxAttempts

Claimable(e) ==
  records[e].status \in {"PENDING", "FAILED"} /\ records[e].attempts < MaxAttempts

\* claim_event.  Only events that report an account change are reconciled.
claim_event(w, e, id) ==
  /\ AtStep(w, "idle") /\ w \in Workers
  /\ jobs[e][id] = "queued" /\ Claimable(e)
  /\ records' = [records EXCEPT ![e] = [status |-> "PROCESSING", attempts |-> @.attempts + 1]]
  /\ jobs' = [jobs EXCEPT ![e][id] = "taken"]
  /\ proc' = [proc EXCEPT ![w] =
       [pc |-> IF e \in StatusEvents THEN "completing" ELSE "marking", event |-> e,
        job |-> id, attempts |-> records[e].attempts + 1, created |-> FALSE, found |-> {}]]
  /\ UNCHANGED <<state_key, reconciles, history>>

\* Nothing to claim.  An event found FAILED is queued again, unless that is the
\* id of this very job.
ClaimNothing(w, e, id) ==
  /\ AtStep(w, "idle") /\ w \in Workers
  /\ jobs[e][id] = "queued" /\ ~Claimable(e)
  /\ jobs' = Finished(e, id,
       IF records[e].status = "FAILED"
       THEN Enqueued(e, <<"retry", records[e].attempts>>, jobs) ELSE jobs)
  /\ UNCHANGED <<records, state_key, reconciles, proc, history>>

\* PROCESSED or IGNORED, whatever the row holds by now.
complete_event(w) ==
  LET e == proc[w].event IN
  /\ AtStep(w, "completing") /\ w \in Workers
  /\ SetStatus(e, IF e \in StatusEvents THEN "IGNORED" ELSE "PROCESSED")
  /\ EndJob(w)
  /\ UNCHANGED <<state_key, reconciles, history>>

Exhausted(w) == proc[w].attempts >= MaxAttempts

\* A call to Redis raises or outlasts the timeout, before Redis has done it or
\* after, and fail_event writes the outcome, judged by the worker's own copy.
fail_event(w) ==
  /\ w \in Workers /\ proc[w].pc \in Scheduling
  /\ stalled' = TRUE /\ UNCHANGED <<deaths, overtaken>>
  /\ \/ UNCHANGED <<state_key, reconciles>>
     \/ AtStep(w, "marking") /\ state_key' = TRUE /\ UNCHANGED reconciles
     \/ AtStep(w, "queueing") /\ reconciles' = reconciles + 1 /\ UNCHANGED state_key
  /\ IF Exhausted(w)
     THEN SetStatus(proc[w].event, "DEAD_LETTER") /\ EndJob(w)
     ELSE SetStatus(proc[w].event, "FAILED") /\ Goto(w, "requeueing") /\ UNCHANGED jobs

\* Mutant of Requeue: the retry has the id of the job that is still running.
RequeueSameId(w) ==
  LET e == proc[w].event IN
  /\ AtStep(w, "requeueing")
  /\ jobs' = Finished(e, proc[w].job, Enqueued(e, proc[w].job, jobs))
  /\ Rest(w)
  /\ UNCHANGED <<records, state_key, reconciles, history>>

\* The failed event is queued again under the number of its attempts.
Requeue(w) ==
  LET e == proc[w].event IN
  /\ AtStep(w, "requeueing")
  /\ jobs' = Finished(e, proc[w].job, Enqueued(e, <<"retry", proc[w].attempts>>, jobs))
  /\ Rest(w)
  /\ UNCHANGED <<records, state_key, reconciles, history>>

----------------------------------------------------------------------------
(* run_reconciliation_job, on worker w                                      *)

TakeReconciliation(w) ==
  /\ AtStep(w, "idle") /\ w \in Workers
  /\ reconciles > 0
  /\ reconciles' = reconciles - 1
  /\ Goto(w, "reconciling")
  /\ UNCHANGED <<records, jobs, state_key, history>>

\* reconcile, of which AccountReconciliation has the steps.  A failure that raises is
\* an Abort.
ReadAccount(w) ==
  /\ AtStep(w, "reconciling")
  /\ Goto(w, "clearing")
  /\ UNCHANGED <<records, jobs, state_key, reconciles, history>>

\* Mutant of ClearReasons: the reasons are deleted, the key is not.
ClearReasonsOnly(w) ==
  /\ AtStep(w, "clearing")
  /\ Rest(w)
  /\ UNCHANGED <<records, jobs, state_key, reconciles, history>>

\* DEL of the key and its reasons, whoever set them.
ClearReasons(w) ==
  /\ AtStep(w, "clearing")
  /\ state_key' = FALSE
  /\ Rest(w)
  /\ UNCHANGED <<records, jobs, reconciles, history>>

----------------------------------------------------------------------------
(* The admin API                                                            *)

\* POST /accounts/{account_id}/reconcile.
RequestReconciliation(c) ==
  /\ c \in Clients /\ AtStep(c, "idle")
  /\ Goto(c, "marking")
  /\ UNCHANGED <<records, jobs, state_key, reconciles, history>>

\* POST /streams/events/{event_id}/retry: retry_event, then the job.
retry_event(c, e) ==
  /\ c \in Clients /\ AtStep(c, "idle")
  /\ records[e].status = "DEAD_LETTER"
  /\ SetStatus(e, "PENDING")
  /\ proc' = [proc EXCEPT ![c] = [Resting("retrying") EXCEPT !.event = e]]
  /\ UNCHANGED <<jobs, state_key, reconciles, history>>

EnqueueRetry(c) ==
  LET e == proc[c].event IN
  /\ AtStep(c, "retrying")
  /\ jobs' = Enqueued(e, <<"manual", records[e].attempts>>, jobs)
  /\ Rest(c)
  /\ UNCHANGED <<records, state_key, reconciles, history>>

----------------------------------------------------------------------------
(* Crashes, restarts and time                                               *)

DiesOrGivesUp ==
  /\ deaths < MaxDeaths
  /\ deaths' = deaths + 1
  /\ UNCHANGED <<stalled, overtaken>>

\* A call fails, or ARQ cancels a job: a request or a stream gives up, a job
\* raises with its row as it is.
Abort(p) ==
  /\ proc[p].pc \notin {"down", "idle", "recovering", "recovered"}
  /\ Rest(p)
  /\ jobs' = IF p \in Workers /\ proc[p].event # NoEvent
             THEN Finished(proc[p].event, proc[p].job, jobs) ELSE jobs
  /\ DiesOrGivesUp
  /\ UNCHANGED <<records, state_key, reconciles>>

\* A worker dies; ARQ will deliver its job again.
Crash(w) ==
  /\ w \in Workers /\ ~AtStep(w, "down")
  /\ proc' = [proc EXCEPT ![w] = Resting("down")]
  /\ jobs' = IF proc[w].event = NoEvent THEN jobs
             ELSE [jobs EXCEPT ![proc[w].event][proc[w].job] = "queued"]
  /\ reconciles' = reconciles + (IF proc[w].pc \in {"reconciling", "clearing"} THEN 1 ELSE 0)
  /\ DiesOrGivesUp
  /\ UNCHANGED <<records, state_key>>

\* startup_recovery reads the rows that are PROCESSING,
ReadProcessing(w) ==
  LET found == {e \in Events : records[e].status = "PROCESSING"} IN
  /\ AtStep(w, "down")
  /\ proc' = [proc EXCEPT ![w] = [Resting("recovering") EXCEPT !.found = found]]
  /\ UNCHANGED <<records, jobs, state_key, reconciles, history>>

\* The row is no longer what a dead worker left: another one has or had it.
Alive(e) == records[e].status # "PROCESSING" \/ \E p \in Workers : proc[p].event = e

\* and makes them PENDING, whatever they are by now.
startup_recovery(w) ==
  /\ AtStep(w, "recovering")
  /\ records' = [e \in Events |->
       IF e \in proc[w].found THEN [records[e] EXCEPT !.status = "PENDING"] ELSE records[e]]
  /\ proc' = [proc EXCEPT ![w] = Resting("recovered")]
  /\ overtaken' = (overtaken \/ \E e \in proc[w].found : Alive(e))
  /\ UNCHANGED <<jobs, state_key, reconciles, deaths, stalled>>

\* A job for each PENDING event, then the worker takes jobs.
startup(w) ==
  /\ AtStep(w, "recovered")
  /\ jobs' = [e \in Events |->
       IF records[e].status = "PENDING" THEN Enqueued(e, <<"recovery", 0>>, jobs)[e]
       ELSE jobs[e]]
  /\ Rest(w)
  /\ UNCHANGED <<records, state_key, reconciles, history>>

\* ARQ drops the result of a finished job after an hour.
ResultExpires(e, id) ==
  /\ jobs[e][id] = "kept"
  /\ jobs' = [jobs EXCEPT ![e][id] = "absent"]
  /\ UNCHANGED <<records, state_key, reconciles, proc, history>>

\* cleanup of a row past its retention, at least a day: its jobs are long gone.
cleanup(e) ==
  /\ records[e].status \in {"PROCESSED", "IGNORED"}
  /\ \A id \in JobIds : jobs[e][id] = "absent"
  /\ \A p \in Processes : proc[p].event # e /\ e \notin proc[p].found
  /\ records' = [records EXCEPT ![e] = [status |-> "ABSENT", attempts |-> 0]]
  /\ UNCHANGED <<jobs, state_key, reconciles, proc, history>>

----------------------------------------------------------------------------
EventJob(w) == complete_event(w) \/ fail_event(w) \/ Requeue(w)

ReconciliationJob(w) == TakeReconciliation(w) \/ ReadAccount(w) \/ ClearReasons(w)

Schedule(p) == MarkAccount(p) \/ AddReason(p) \/ QueueReconciliation(p)

ProcessStep(p) ==
  \/ Schedule(p) \/ EventJob(p) \/ ReconciliationJob(p)
  \/ persist_event(p) \/ EnqueueEvent(p)
  \/ RequestReconciliation(p) \/ EnqueueRetry(p)
  \/ Abort(p) \/ Crash(p)
  \/ ReadProcessing(p) \/ startup_recovery(p) \/ startup(p)

EventStep(p, e) ==
  \/ Receive(p, e) \/ retry_event(p, e)
  \/ \E id \in JobIds : claim_event(p, e, id) \/ ClaimNothing(p, e, id)

Next ==
  \/ \E p \in Processes : ProcessStep(p)
  \/ \E p \in Processes, e \in Events : EventStep(p, e)
  \/ \E e \in Events : cleanup(e) \/ \E id \in JobIds : ResultExpires(e, id)
  \/ KeyExpires

Spec == Init /\ [][Next]_vars

\* A process goes on with what it has begun, a stopped worker is started again
\* (restart: unless-stopped), and ARQ takes the oldest job first, so that an
\* event with a job is served again and again.
Fairness ==
  /\ \A p \in Processes :
       /\ WF_vars(Schedule(p) \/ EventJob(p) \/ persist_event(p) \/ EnqueueEvent(p)
                  \/ ReadAccount(p) \/ ClearReasons(p) \/ EnqueueRetry(p))
       /\ WF_vars(ReadProcessing(p) \/ startup_recovery(p) \/ startup(p))
  /\ \A e \in Events :
       SF_vars(\E w \in Workers, id \in JobIds : claim_event(w, e, id) \/ ClaimNothing(w, e, id))

FairSpec == Spec /\ Fairness

----------------------------------------------------------------------------
(* Properties                                                               *)

\* As long as no process dies or is overtaken by a recovery, an event that may
\* still be claimed has a job on the way, or a process that is about to queue
\* one: no mix of duplicates, failures, retries, late starts and colliding job
\* ids (_handle_event, process_broker_stream_event) strands it.
OpenEventsQueued ==
  deaths = 0 /\ ~overtaken =>
    \A e \in Events : Claimable(e) =>
      \/ \E id \in JobIds : jobs[e][id] \in {"queued", "taken"}
      \/ \E p \in Processes : AtStep(p, "enqueueing") /\ proc[p].event = e

\* An event that was processed is never processed again, whatever dies,
\* stalls, is delivered again or is recovered at startup (claim_event,
\* startup_recovery), unless a recovery hit an event that another worker was
\* processing: that one was overtaken.
SettledStaysSettled ==
  [][\A e \in Events :
       ~overtaken' /\ records[e].status \in {"PROCESSED", "IGNORED"} =>
         records'[e].status \in {records[e].status, "ABSENT"}]_vars

\* As long as nothing dies or stalls, the debounce key never stands without a
\* reconciliation to come or under way: a request that finds the key is joined
\* to something, even when keys expire and jobs delete each other's keys
\* (schedule_debounced_reconciliation, run_reconciliation_job).
KeyHasJob ==
  deaths = 0 /\ ~stalled /\ state_key =>
    \/ reconciles > 0
    \/ \E p \in Processes :
         \/ proc[p].pc \in {"reconciling", "clearing"}
         \/ proc[p].pc \in {"adding", "queueing"} /\ proc[p].created

\* "Dead-letter event повторяется защищённым endpoint" (operations.md:123): an
\* event that waits for a job can be claimed by it.
PendingIsClaimable ==
  \A e \in Events : records[e].status \in {"PENDING", "FAILED"} => Claimable(e)

\* While nothing dies, an event that can be claimed or is being processed ends as
\* PROCESSED, IGNORED or DEAD_LETTER, however often Redis fails its processing.
EveryEventSettles ==
  \A e \in Events :
    Claimable(e) \/ records[e].status = "PROCESSING" ~>
      records[e].status \in Settled \/ deaths > 0
=============================================================================
