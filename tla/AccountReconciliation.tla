------------------------ MODULE AccountReconciliation ------------------------
(***************************************************************************)
(* The reconciliation of an account: app/streams/reconciliation.py and the *)
(* job run_reconciliation_job (processor.py) that asks for it and queues   *)
(* an automation cycle for what it has found.                              *)
(*                                                                         *)
(* One account is reconciled.  An operation is one the broker will report  *)
(* at some time as executed, with the date of its execution; the read is   *)
(* by date, from the cursor on.  A step ends where the code commits, calls *)
(* the broker or calls Redis.                                              *)
(***************************************************************************)
EXTENDS Integers, FiniteSets

CONSTANTS
  Operations,    \* external: operations of the account
  Deposits,      \* those of one of the types of an external cash input
  Ignored,       \* those no event is made of: dividends, fees, ...
  DateOf,        \* the date of an operation
  Lookback,      \* operations_sync_lookback_hours
  MaxOperations, \* operations_sync_max_pages pages of 100 operations
  stream_automation_trigger_enabled,
                 \* the setting without which nothing asks for a cycle
  Workers,       \* ARQ worker processes, max_jobs = 1
  MaxTime,       \* bound: the last date
  MaxJobs,       \* bound: jobs in the queue when a key expires
  MaxFailures,   \* bound: how often a job fails or its worker dies
  ACCOUNT_CHANGE, NoOperation

ASSUME ReconciliationAssumption ==
  /\ Deposits \subseteq Operations /\ Ignored \subseteq Operations \ Deposits
  /\ DateOf \in [Operations -> Nat \ {0}]
  /\ stream_automation_trigger_enabled \in BOOLEAN
  /\ Lookback \in Nat /\ MaxOperations \in Nat /\ MaxTime \in Nat
  /\ MaxJobs \in Nat /\ MaxFailures \in Nat
  /\ ACCOUNT_CHANGE \notin Operations /\ NoOperation \notin Operations

VARIABLES
  now,        \* the clock, and
  reported,   \* external: the operations the broker reports by now
  state_key,  \* external: whether the Redis debounce key of the account exists
  jobs,       \* external: how many reconcile_account jobs are queued
  row,        \* whether the account has its row in account_reconciliations
  cursor,     \* broker_operation_cursors: last_operation_time
  events,     \* account_events: the operations and the one change recorded
  announced,  \* external: how often a deposit was notified
  cycles,     \* external: the automation job of each kind that reconciliations ask for
  proc,       \* what each worker is doing
  failures,   \* history: how often a job failed or its worker died
  missed,     \* history: operations reported late, or older than the lookback
  orphaned,   \* history: events of jobs that ended before they asked for a cycle
  served,     \* history: the deposits recorded when the cycle for deposits started
  dropped     \* history: the deposits for which a cycle was asked for in vain

broker == <<now, reported>>
redis == <<state_key, jobs>>
automation == <<cycles, served, dropped>>
database == <<row, cursor, events>>
history == <<failures, missed, orphaned>>

vars == <<broker, redis, automation, database, announced, proc, history>>

\* NoCursor: no row.  0: a row without a time, as no operation was ever found.
NoCursor == -1

AccountEvents == (Operations \ Ignored) \cup {ACCOUNT_CHANGE}

AutomationTrigger == {"DEPOSIT_DETECTED", "ACCOUNT_CHANGE"}

\* What is known of the one job of a kind there can be: its id, and that of its
\* run, is made of the id of the row and the kind.
Cycle == {"none", "queued", "started"}

\* first: the job has made the row.  from: its copy of the cursor's time.
\* operations: what it has read, unseen: the part it has not gone through,
\* operation: the deposit to notify, created: the events it has made.  What is not
\* used any more is set back.
Process ==
  [pc : {"idle", "fetching", "reading", "recording", "announcing", "triggering", "clearing"},
   first : BOOLEAN, from : Int, operations : SUBSET Operations,
   unseen : SUBSET (Operations \ Ignored), operation : Operations \cup {NoOperation},
   created : SUBSET AccountEvents]

Idle ==
  [pc |-> "idle", first |-> FALSE, from |-> 0, operations |-> {}, unseen |-> {},
   operation |-> NoOperation, created |-> {}]

TypeOK ==
  /\ now \in 1 .. MaxTime + 1 /\ reported \subseteq Operations
  /\ state_key \in BOOLEAN /\ jobs \in Nat
  /\ row \in BOOLEAN /\ cursor \in Int /\ events \subseteq AccountEvents
  /\ announced \in [Operations -> Nat]
  /\ cycles \in [AutomationTrigger -> Cycle]
  /\ served \subseteq Deposits /\ dropped \subseteq Deposits
  /\ proc \in [Workers -> Process]
  /\ failures \in 0 .. MaxFailures
  /\ missed \subseteq Operations /\ orphaned \subseteq AccountEvents

Init ==
  /\ now = 1 /\ reported = {}
  /\ state_key = FALSE /\ jobs = 0
  /\ cycles = [k \in AutomationTrigger |-> "none"] /\ served = {} /\ dropped = {}
  /\ row = FALSE /\ cursor = NoCursor /\ events = {}
  /\ announced = [o \in Operations |-> 0]
  /\ proc = [w \in Workers |-> Idle]
  /\ failures = 0 /\ missed = {} /\ orphaned = {}

----------------------------------------------------------------------------
AtStep(w, pc) == proc[w].pc = pc

\* The job is over, with or without a cycle for the events it has made.
EndJob(w) ==
  /\ proc' = [proc EXCEPT ![w] = Idle]
  /\ orphaned' = orphaned \cup proc[w].created

\* Mutant of Classified: every operation makes an event.
ClassifiedAll(S) == S

\* classify_operation and _operation_event_type.
Classified(S) == S \ Ignored

\* The date a read starts at.
From(time) == IF time > 0 THEN time ELSE now - Lookback

Since(time) == {o \in reported : DateOf[o] >= From(time)}

\* A read that starts at a time leaves these out for good.
TooOld(time) == IF time > 0 THEN {} ELSE reported \ Since(time)

----------------------------------------------------------------------------
(* The broker, and who asks for a reconciliation                            *)

Tick ==
  /\ now < MaxTime
  /\ now' = now + 1
  /\ UNCHANGED <<reported, redis, automation, database, announced, proc, history>>

\* The broker reports an operation, perhaps after one of a later date.
Report(o) ==
  /\ o \notin reported /\ DateOf[o] <= now
  /\ reported' = reported \cup {o}
  /\ missed' = IF \E p \in reported : DateOf[p] > DateOf[o] THEN missed \cup {o} ELSE missed
  /\ UNCHANGED <<now, redis, automation, database, announced, proc, failures, orphaned>>

\* schedule_debounced_reconciliation, whose steps are in StreamInbox: only the one
\* that sets the key queues a job.
Notify ==
  /\ state_key' = TRUE
  /\ jobs' = IF state_key THEN jobs ELSE jobs + 1
  /\ UNCHANGED <<broker, automation, database, announced, proc, history>>

\* Mutant of KeyExpires: the key is set without a time to live.
KeyStays == FALSE /\ UNCHANGED vars

KeyExpires ==
  /\ state_key /\ jobs < MaxJobs
  /\ state_key' = FALSE
  /\ UNCHANGED <<broker, jobs, automation, database, announced, proc, history>>

----------------------------------------------------------------------------
(* run_reconciliation_job, on worker w                                      *)

\* The reasons are read; without any, there is a default.  create_reconciliation
\* takes an earlier row as it is: the correlation id is the same for every job.
TakeJob(w) ==
  /\ AtStep(w, "idle") /\ jobs > 0
  /\ jobs' = jobs - 1
  /\ row' = TRUE
  /\ proc' = [proc EXCEPT ![w].first = ~row, ![w].pc = "fetching"]
  /\ UNCHANGED <<broker, state_key, automation, cursor, events, announced, history>>

\* get_accounts, get_positions, get_portfolio, then the cursor's row.
get_cursor(w) ==
  /\ AtStep(w, "fetching")
  /\ proc' = [proc EXCEPT ![w].first = FALSE, ![w].from = cursor, ![w].pc = "reading"]
  /\ UNCHANGED <<broker, redis, automation, database, announced, history>>

\* Two jobs have made the row of the cursor.
CursorTaken(w) == proc[w].from = NoCursor /\ cursor # NoCursor

\* _read_operations and save_broker_state, whose commit is that of the cursor's row, too.
read_operations(w) ==
  LET found == Since(proc[w].from) IN
  /\ AtStep(w, "reading") /\ ~CursorTaken(w) /\ Cardinality(found) <= MaxOperations
  /\ proc' = [proc EXCEPT ![w].operations = found, ![w].unseen = Classified(found),
                          ![w].pc = "recording"]
  /\ cursor' = IF cursor = NoCursor THEN 0 ELSE cursor
  /\ missed' = missed \cup TooOld(proc[w].from)
  /\ UNCHANGED <<broker, redis, automation, row, events, announced, failures, orphaned>>

\* Too many pages, or the unique key of the cursor: with the transaction that
\* get_cursor has begun, the rollback expires the row, and the job raises.
ReadFails(w) ==
  /\ AtStep(w, "reading")
  /\ CursorTaken(w) \/ Cardinality(Since(proc[w].from)) > MaxOperations
  /\ EndJob(w)
  /\ UNCHANGED <<broker, redis, automation, database, announced, failures, missed>>

\* Mutant of RecordEvent: an event that exists counts as created.
RecordEventAgain(w, o) ==
  /\ AtStep(w, "recording") /\ o \in proc[w].unseen
  /\ events' = events \cup {o}
  /\ proc' = [proc EXCEPT ![w].unseen = @ \ {o}, ![w].created = @ \cup {o},
                          ![w].operation = IF o \in Deposits THEN o ELSE NoOperation,
                          ![w].pc = IF o \in Deposits THEN "announcing" ELSE "recording"]
  /\ UNCHANGED <<broker, redis, automation, row, cursor, announced, history>>

\* save_account_event and the commit of its audit.
RecordEvent(w, o) ==
  /\ AtStep(w, "recording") /\ o \in proc[w].unseen
  /\ events' = events \cup {o}
  /\ proc' = IF o \in events
             THEN [proc EXCEPT ![w].unseen = @ \ {o}]
             ELSE [proc EXCEPT ![w].unseen = @ \ {o}, ![w].created = @ \cup {o},
                               ![w].operation = IF o \in Deposits THEN o ELSE NoOperation,
                               ![w].pc = IF o \in Deposits THEN "announcing" ELSE "recording"]
  /\ UNCHANGED <<broker, redis, automation, row, cursor, announced, history>>

Announce(w) ==
  /\ AtStep(w, "announcing")
  /\ announced' = [announced EXCEPT ![proc[w].operation] = @ + 1]
  /\ proc' = [proc EXCEPT ![w].operation = NoOperation, ![w].pc = "recording"]
  /\ UNCHANGED <<broker, redis, automation, database, history>>

AllSeen(w) == AtStep(w, "recording") /\ proc[w].unseen = {}

NothingNew(w) == proc[w].created = {} /\ ACCOUNT_CHANGE \notin events

\* No operation is new: the account has changed.  The fingerprint is the same every
\* time.
RecordChange(w) ==
  /\ AllSeen(w) /\ NothingNew(w)
  /\ events' = events \cup {ACCOUNT_CHANGE}
  /\ proc' = [proc EXCEPT ![w].created = {ACCOUNT_CHANGE}]
  /\ UNCHANGED <<broker, redis, automation, row, cursor, announced, history>>

Latest(S) == {o \in S : \A p \in S : DateOf[p] <= DateOf[o]}

\* Mutant of commit_cursor: the cursor moves to the time of the synchronisation.
CommitNow(w) ==
  /\ AllSeen(w) /\ ~NothingNew(w)
  /\ cursor' = now
  /\ proc' = [proc EXCEPT ![w].operations = {}, ![w].from = 0, ![w].pc = "triggering"]
  /\ UNCHANGED <<broker, redis, automation, row, events, announced, history>>

\* The time is written if it differs from the job's copy.  finish_reconciliation
\* then changes the status of the row, which nothing reads.
commit_cursor(w) ==
  /\ AllSeen(w) /\ ~NothingNew(w)
  /\ IF proc[w].operations = {} THEN UNCHANGED cursor
     ELSE \E o \in Latest(proc[w].operations) :
            cursor' = IF DateOf[o] = proc[w].from THEN cursor ELSE DateOf[o]
  /\ proc' = [proc EXCEPT ![w].operations = {}, ![w].from = 0, ![w].pc = "triggering"]
  /\ UNCHANGED <<broker, redis, automation, row, events, announced, history>>

Kind(S) == IF S \cap Deposits # {} THEN "DEPOSIT_DETECTED" ELSE "ACCOUNT_CHANGE"

\* Mutant of Enqueue: the id is that of the row, whatever the kind.
EnqueueAnyKind(S) ==
  /\ cycles' = IF \A k \in AutomationTrigger : cycles[k] = "none"
               THEN [cycles EXCEPT ![Kind(S)] = "queued"] ELSE cycles
  /\ dropped' = IF cycles[Kind(S)] = "started"
                THEN dropped \cup ((S \cap Deposits) \ served) ELSE dropped
  /\ UNCHANGED served

\* enqueue_job and _resolve_run: a job that waits is not queued again, and one whose
\* run has started comes to nothing.
Enqueue(S) ==
  /\ cycles' = [cycles EXCEPT ![Kind(S)] = IF @ = "none" THEN "queued" ELSE @]
  /\ dropped' = IF cycles[Kind(S)] = "started"
                THEN dropped \cup ((S \cap Deposits) \ served) ELSE dropped
  /\ UNCHANGED served

\* With the setting off, or without new events, no cycle is asked for.
Trigger(w) ==
  /\ AtStep(w, "triggering")
  /\ IF stream_automation_trigger_enabled /\ proc[w].created # {}
       THEN Enqueue(proc[w].created) ELSE UNCHANGED automation
  /\ proc' = [proc EXCEPT ![w].created = {}, ![w].pc = "clearing"]
  /\ UNCHANGED <<broker, redis, database, announced, history>>

\* A worker takes the job of the cycle for deposits and makes its run (AutomationCycle,
\* Begin).  Nothing depends on when that of the other kind is taken.
StartCycle ==
  /\ cycles["DEPOSIT_DETECTED"] = "queued"
  /\ cycles' = [cycles EXCEPT !["DEPOSIT_DETECTED"] = "started"]
  /\ served' = Deposits \cap events
  /\ UNCHANGED <<broker, redis, dropped, database, announced, proc, history>>

\* DEL of the key and the reasons, also of those that came meanwhile.
Clear(w) ==
  /\ AtStep(w, "clearing")
  /\ state_key' = FALSE
  /\ EndJob(w)
  /\ UNCHANGED <<broker, jobs, automation, database, announced, failures, missed>>

----------------------------------------------------------------------------
(* Failures                                                                 *)

FailsOrDies == failures < MaxFailures /\ failures' = failures + 1

\* A call fails or the job is cancelled.  The rollback expires the row, so that
\* the handler of the failure raises as well.
Raise(w) ==
  /\ ~AtStep(w, "idle")
  /\ FailsOrDies
  /\ EndJob(w)
  /\ UNCHANGED <<broker, redis, automation, database, announced, missed>>

\* Only the first job has no transaction open when it calls the broker: its row is
\* not expired, and the failure is recorded.
FailReconciliation(w) ==
  /\ AtStep(w, "fetching") /\ proc[w].first
  /\ FailsOrDies
  /\ proc' = [proc EXCEPT ![w].first = FALSE, ![w].pc = "clearing"]
  /\ UNCHANGED <<broker, redis, automation, database, announced, missed, orphaned>>

\* The worker dies; ARQ will deliver its job again.
Crash(w) ==
  /\ ~AtStep(w, "idle")
  /\ FailsOrDies
  /\ EndJob(w)
  /\ jobs' = jobs + 1
  /\ UNCHANGED <<broker, state_key, automation, database, announced, missed>>

----------------------------------------------------------------------------
JobStep(w) ==
  \/ get_cursor(w) \/ read_operations(w) \/ ReadFails(w)
  \/ \E o \in Operations : RecordEvent(w, o)
  \/ Announce(w) \/ RecordChange(w)
  \/ commit_cursor(w) \/ Trigger(w) \/ Clear(w)

Next ==
  \/ Tick \/ Notify \/ KeyExpires
  \/ \E o \in Operations : Report(o)
  \/ StartCycle
  \/ \E w \in Workers :
       TakeJob(w) \/ JobStep(w) \/ Raise(w) \/ FailReconciliation(w) \/ Crash(w)

Spec == Init /\ [][Next]_vars

\* ARQ delivers what is queued, a job goes on unless it fails, Redis drops a key
\* whose time is over.
Fairness ==
  /\ \A w \in Workers : WF_vars(TakeJob(w) \/ JobStep(w))
  /\ WF_vars(KeyExpires)

FairSpec == Spec /\ Fairness

----------------------------------------------------------------------------
(* Properties                                                               *)

\* The cursor never passes an operation that has no account event: whatever
\* fails, dies, overlaps or is repeated between the read of the operations and
\* the commit of the cursor (_read_operations, save_account_event, commit_cursor),
\* an operation before the cursor was recorded, was reported after a later one,
\* or was older than the lookback when nothing had ever been found.
CursorBehindEvents ==
  \A o \in Classified(reported) :
    DateOf[o] < cursor => o \in events \/ o \in missed

\* A deposit is notified at most once, and only with its event committed, although
\* jobs overlap, are delivered again and read the same operations again
\* (save_account_event, Notifier.send).
AnnouncedOnce ==
  \A o \in Operations : announced[o] <= 1 /\ (announced[o] = 1 => o \in events)

\* With the setting on, a cycle for deposits starts after each deposit was recorded:
\* it has, it is queued, or the job that recorded the deposit has yet to ask for it,
\* whatever else that job has found.  A deposit goes without one if its
\* job ends before that, or if the cycle of an earlier deposit has started already, as
\* all have one correlation id (run_reconciliation_job).  With the setting off, no
\* cycle starts.
DepositTriggers ==
  IF stream_automation_trigger_enabled
    THEN \A o \in Deposits \cap (events \ orphaned) :
           \/ o \in served \/ cycles["DEPOSIT_DETECTED"] = "queued"
           \/ \E w \in Workers : o \in proc[w].created
           \/ o \in dropped /\ served # {}
    ELSE \A k \in AutomationTrigger : cycles[k] = "none"

\* More operations than one reconciliation may read: none will succeed any more.
Backlog == Cardinality(Since(cursor)) > MaxOperations

\* As long as events of the account keep coming, every operation is recorded in the
\* end: reasons that a reconciliation deletes unread, keys that stand without a
\* job and jobs that fail are made up for by the next event.  Excepted are operations reported
\* late or beyond the lookback, and a backlog that exceeds the pages of one read.
EveryOperationFound ==
  WF_vars(Notify) =>
    \A o \in Operations \ Ignored :
      o \in reported ~> o \in events \/ o \in missed \/ Backlog
=============================================================================
