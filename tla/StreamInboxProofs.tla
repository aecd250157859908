-------------------------- MODULE StreamInboxProofs --------------------------
(***************************************************************************)
(* Proofs about StreamInbox: no event and no debounce key is left without  *)
(* a job, and nothing is processed twice, for every number of events,      *)
(* workers, streams, requests and attempts.                                *)
(***************************************************************************)
EXTENDS StreamInbox, TLAPS

----------------------------------------------------------------------------
(* Type correctness                                                         *)

\* A job whose id is free is queued, every other job is what it was.
LEMMA EnqueuedJobs ==
  ASSUME NEW table \in [Events -> [JobIds -> JobState]], NEW e \in Events, NEW id \in JobIds
  PROVE  /\ Enqueued(e, id, table) \in [Events -> [JobIds -> JobState]]
         /\ \A f \in Events, j \in JobIds :
              Enqueued(e, id, table)[f][j] =
                IF f = e /\ j = id /\ table[e][id] = "absent" THEN "queued" ELSE table[f][j]
  BY DEF Enqueued, JobState

LEMMA FinishedJobs ==
  ASSUME NEW table \in [Events -> [JobIds -> JobState]], NEW e \in Events, NEW id \in JobIds
  PROVE  /\ Finished(e, id, table) \in [Events -> [JobIds -> JobState]]
         /\ \A f \in Events, j \in JobIds :
              Finished(e, id, table)[f][j] = IF f = e /\ j = id THEN "kept" ELSE table[f][j]
  BY DEF Finished, JobState

\* The number of attempts is the number of a job.
LEMMA Numbered ==
  /\ 0 \in Attempts /\ NoJob \in JobIds
  /\ \A n \in Attempts :
       <<"retry", n>> \in JobIds /\ <<"manual", n>> \in JobIds /\ <<"recovery", n>> \in JobIds
  BY InboxAssumption DEF Attempts, JobIds, NoJob

\* Where a process can be, and whether it has an event then.
Seated(p) ==
  /\ p \in Workers =>
       /\ proc[p].pc \in Handling \cup {"down", "idle", "reconciling", "clearing",
                                        "recovering", "recovered"}
       /\ proc[p].pc \in Handling <=> proc[p].event # NoEvent
  /\ p \in Streams =>
       /\ proc[p].pc \in Scheduling \cup {"idle", "persisting", "enqueueing"}
       /\ proc[p].pc # "idle" => proc[p].event # NoEvent
  /\ p \in Clients =>
       /\ proc[p].pc \in Scheduling \cup {"idle", "retrying"}
       /\ proc[p].pc = "retrying" <=> proc[p].event # NoEvent

TypeInv == TypeOK /\ \A p \in Processes : Seated(p)

\* The record of one process changes.
LEMMA Updated ==
  ASSUME TypeInv, NEW p \in Processes, NEW new \in Process,
         proc' = [proc EXCEPT ![p] = new], Seated(p)'
  PROVE  /\ proc' \in [Processes -> Process]
         /\ proc'[p] = new
         /\ \A q \in Processes \ {p} : proc'[q] = proc[q]
         /\ \A q \in Processes : Seated(q)'
<1>1. /\ proc' \in [Processes -> Process]
      /\ proc'[p] = new
      /\ \A q \in Processes \ {p} : proc'[q] = proc[q]
  BY DEF TypeInv, TypeOK
<1>2. \A q \in Processes \ {p} : Seated(q)'
  BY <1>1 DEF TypeInv, Seated
<1> QED BY <1>1, <1>2

LEMMA RestingTyped ==
  ASSUME NEW pc \in {"down", "idle", "persisting", "marking", "retrying", "recovering", "recovered"}
  PROVE  /\ Resting(pc) \in Process
         /\ Resting(pc).pc = pc /\ Resting(pc).event = NoEvent /\ Resting(pc).found = {}
         /\ \A e \in Events : [Resting(pc) EXCEPT !.event = e] \in Process
  BY Numbered DEF Resting, Process, Handling, Scheduling

LEMMA InitTyped == Init => TypeInv
<1> SUFFICES ASSUME Init PROVE TypeInv
  OBVIOUS
<1>1. TypeOK
  <2>1. records \in [Events -> BrokerStreamEventRecord]
    BY Numbered DEF Init, BrokerStreamEventRecord
  <2>2. jobs \in [Events -> [JobIds -> JobState]]
    BY DEF Init, JobState
  <2>3. proc \in [Processes -> Process]
    BY RestingTyped DEF Init
  <2>4. deaths \in 0 .. MaxDeaths
    BY InboxAssumption DEF Init
  <2> QED BY <2>1, <2>2, <2>3, <2>4 DEF Init, TypeOK
<1>2. ASSUME NEW p \in Processes PROVE Seated(p)
  <2>1. proc[p] = Resting(IF p \in Workers THEN "down" ELSE "idle")
    BY DEF Init
  <2>2. p \in Workers => p \notin Streams \cup Clients
    BY InboxAssumption
  <2> QED BY <2>1, <2>2, RestingTyped DEF Seated, Handling, Scheduling
<1> QED BY <1>1, <1>2 DEF TypeInv

\* A process is of one kind.
LEMMA Kinds ==
  \A p \in Processes :
    /\ p \in Workers => p \notin Streams /\ p \notin Clients
    /\ p \in Streams => p \notin Workers /\ p \notin Clients
    /\ p \in Clients => p \notin Workers /\ p \notin Streams
    /\ p \in Workers \/ p \in Streams \/ p \in Clients
  BY InboxAssumption DEF Processes

\* Steps that only move a process: the rows and the jobs are what they were, a worker
\* keeps its event, and no stream gets or, unless it dies, has a row to queue.
Live == Scheduling \cup {"completing"}

Glides(p) ==
  /\ records' = records /\ jobs' = jobs /\ overtaken' = overtaken
  /\ deaths' = 0 => deaths = 0 /\ proc[p].pc # "enqueueing"
  /\ \A q \in Processes \ {p} : proc'[q] = proc[q]
  /\ \A e \in proc'[p].found : e \in proc[p].found \/ records[e].status # "ABSENT"
  /\ p \in Workers =>
       /\ proc'[p].event = proc[p].event
       /\ proc[p].event # NoEvent =>
            proc'[p].job = proc[p].job /\ proc'[p].attempts = proc[p].attempts
       /\ proc'[p].pc \in Live <=> proc[p].pc \in Live
  /\ p \notin Workers =>
       /\ proc'[p].pc # "enqueueing"
       /\ proc'[p].event # NoEvent => p \in Streams

LEMMA ScheduleGlides ==
  ASSUME TypeInv, NEW p \in Processes, Schedule(p)
  PROVE  TypeInv' /\ Glides(p)
<1>0. proc[p] \in Process /\ Seated(p)
  BY DEF TypeInv, TypeOK
<1>1. PICK new \in Process :
        /\ proc' = [proc EXCEPT ![p] = new]
        /\ new.event = proc[p].event /\ new.job = proc[p].job /\ new.found = proc[p].found
        /\ new.attempts = proc[p].attempts
        /\ new.pc \in {"adding", "queueing"} \/ new.pc = AfterScheduling(p)
  <2>1. CASE MarkAccount(p)
    <3> DEFINE new == [proc[p] EXCEPT !.created = ~state_key, !.pc = "adding"]
    <3>1. new \in Process
      BY <1>0 DEF Process, Handling, Scheduling, TypeInv, TypeOK
    <3> QED BY <1>0, <2>1, <3>1 DEF MarkAccount, Process
  <2>2. CASE AddReason(p)
    <3> DEFINE new == [proc[p] EXCEPT
                 !.pc = IF proc[p].created THEN "queueing" ELSE AfterScheduling(p)]
    <3>1. new \in Process
      BY <1>0, Kinds DEF Process, Handling, Scheduling, AfterScheduling
    <3> QED BY <1>0, <2>2, <3>1 DEF AddReason, Goto, Process
  <2>3. CASE QueueReconciliation(p)
    <3> DEFINE new == [proc[p] EXCEPT !.pc = AfterScheduling(p), !.created = FALSE]
    <3>1. new \in Process
      BY <1>0, Kinds DEF Process, Handling, Scheduling, AfterScheduling
    <3> QED BY <1>0, <2>3, <3>1 DEF QueueReconciliation, Process
  <2> QED BY <2>1, <2>2, <2>3 DEF Schedule
<1>2. proc[p].pc \in Scheduling
  BY DEF Schedule, MarkAccount, AddReason, QueueReconciliation, AtStep, Scheduling
<1>3. AfterScheduling(p) = IF p \in Workers THEN "completing"
                           ELSE IF p \in Streams THEN "persisting" ELSE "idle"
  BY Kinds DEF AfterScheduling
<1>4. proc'[p] = new
  BY <1>1 DEF TypeInv, TypeOK
<1>5. Seated(p)'
  BY <1>0, <1>1, <1>2, <1>3, <1>4, Kinds DEF Seated, Handling, Scheduling
<1>6. /\ proc' \in [Processes -> Process]
      /\ \A q \in Processes \ {p} : proc'[q] = proc[q]
      /\ \A q \in Processes : Seated(q)'
  BY <1>1, <1>5, Updated
<1>7. UNCHANGED <<records, jobs, deaths, stalled, overtaken>> /\ state_key' \in BOOLEAN /\ reconciles' \in Nat
  <2>1. state_key \in BOOLEAN /\ reconciles \in Nat
    BY DEF TypeInv, TypeOK
  <2>2. UNCHANGED <<records, jobs, deaths, stalled, overtaken>>
    BY DEF Schedule, MarkAccount, AddReason, QueueReconciliation, history
  <2>3. reconciles' \in Nat
    BY <2>1 DEF Schedule, MarkAccount, AddReason, QueueReconciliation
  <2>4. state_key' = state_key \/ state_key' = TRUE \/ state_key' = FALSE
    BY DEF Schedule, MarkAccount, AddReason, QueueReconciliation
  <2> QED BY <2>1, <2>2, <2>3, <2>4
<1>8. TypeInv'
  BY <1>6, <1>7 DEF TypeInv, TypeOK
<1>9. Glides(p)
  BY <1>0, <1>1, <1>2, <1>3, <1>4, <1>6, <1>7, Kinds
     DEF Glides, Live, Scheduling, Seated
<1> QED BY <1>8, <1>9

LEMMA PcMoves ==
  ASSUME TypeInv, NEW p \in Processes, ReconciliationJob(p) \/ RequestReconciliation(p)
  PROVE  TypeInv' /\ Glides(p)
<1>0. proc[p] \in Process /\ Seated(p)
  BY DEF TypeInv, TypeOK
<1>1. PICK new \in Process :
        /\ proc' = [proc EXCEPT ![p] = new]
        /\ new.event = NoEvent /\ new.found \subseteq proc[p].found
        /\ \/ p \in Workers /\ new.pc \in {"reconciling", "clearing", "idle"}
           \/ p \in Clients /\ proc[p].pc = "idle" /\ new.pc = "marking"
  <2>1. CASE TakeReconciliation(p)
    <3> DEFINE new == [proc[p] EXCEPT !.pc = "reconciling"]
    <3>1. new \in Process
      BY <1>0 DEF Process
    <3>2. p \in Workers /\ proc[p].event = NoEvent
      BY <1>0, <2>1 DEF TakeReconciliation, AtStep, Seated, Handling, Scheduling
    <3> QED BY <1>0, <2>1, <3>1, <3>2 DEF TakeReconciliation, Goto, Process
  <2>2. CASE ReadAccount(p)
    <3> DEFINE new == [proc[p] EXCEPT !.pc = "clearing"]
    <3>1. new \in Process
      BY <1>0 DEF Process
    <3>2. p \in Workers /\ proc[p].event = NoEvent
      BY <1>0, <2>2, Kinds DEF ReadAccount, AtStep, Seated, Handling, Scheduling
    <3> QED BY <1>0, <2>2, <3>1, <3>2 DEF ReadAccount, Goto, Process
  <2>3. CASE ClearReasons(p)
    <3>1. p \in Workers
      BY <1>0, <2>3, Kinds DEF ClearReasons, AtStep, Seated, Handling, Scheduling
    <3> QED BY <2>3, <3>1, RestingTyped DEF ClearReasons, Rest
  <2>4. CASE RequestReconciliation(p)
    <3> DEFINE new == [proc[p] EXCEPT !.pc = "marking"]
    <3>1. new \in Process
      BY <1>0 DEF Process, Handling, Scheduling
    <3>2. p \in Clients /\ proc[p].pc = "idle" /\ proc[p].event = NoEvent
      BY <1>0, <2>4 DEF RequestReconciliation, AtStep, Seated
    <3> QED BY <1>0, <2>4, <3>1, <3>2 DEF RequestReconciliation, Goto, Process
  <2> QED BY <2>1, <2>2, <2>3, <2>4 DEF ReconciliationJob
<1>2. /\ proc[p].event = NoEvent /\ proc[p].pc # "enqueueing"
      /\ p \in Workers => proc[p].pc \notin Handling
  BY <1>0, Kinds DEF ReconciliationJob, TakeReconciliation, ReadAccount, ClearReasons,
     RequestReconciliation, AtStep, Seated, Handling, Scheduling
<1>3. UNCHANGED <<records, jobs, deaths, stalled, overtaken>> /\ state_key' \in BOOLEAN /\ reconciles' \in Nat
  <2>1. state_key \in BOOLEAN /\ reconciles \in Nat
    BY DEF TypeInv, TypeOK
  <2>2. UNCHANGED <<records, jobs, deaths, stalled, overtaken>>
    BY DEF ReconciliationJob, TakeReconciliation, ReadAccount, ClearReasons,
           RequestReconciliation, history
  <2>3. reconciles' \in Nat
    BY <2>1 DEF ReconciliationJob, TakeReconciliation, ReadAccount, ClearReasons,
           RequestReconciliation
  <2>4. state_key' = state_key \/ state_key' = TRUE \/ state_key' = FALSE
    BY DEF ReconciliationJob, TakeReconciliation, ReadAccount, ClearReasons,
           RequestReconciliation
  <2> QED BY <2>1, <2>2, <2>3, <2>4
<1>4. proc'[p] = new
  BY <1>1 DEF TypeInv, TypeOK
<1>5. Seated(p)'
  BY <1>1, <1>4, Kinds DEF Seated, Handling, Scheduling
<1>6. /\ proc' \in [Processes -> Process]
      /\ \A q \in Processes \ {p} : proc'[q] = proc[q]
      /\ \A q \in Processes : Seated(q)'
  BY <1>1, <1>5, Updated
<1>7. TypeInv'
  BY <1>3, <1>6 DEF TypeInv, TypeOK
<1>8. Glides(p)
  BY <1>1, <1>2, <1>3, <1>4, <1>6, Kinds DEF Glides, Live, Handling, Scheduling
<1> QED BY <1>7, <1>8

\* An event arrives, or the rows that are PROCESSING are read.
LEMMA EventMoves ==
  ASSUME TypeInv, NEW p \in Processes,
         ReadProcessing(p) \/ \E e \in Events : Receive(p, e)
  PROVE  TypeInv' /\ Glides(p)
<1>0. proc[p] \in Process /\ Seated(p)
  BY DEF TypeInv, TypeOK
<1>1. PICK new \in Process :
        /\ proc' = [proc EXCEPT ![p] = new]
        /\ \A e \in new.found : records[e].status # "ABSENT"
        /\ \/ /\ p \in Workers /\ proc[p].pc = "down"
              /\ new.event = NoEvent /\ new.pc = "recovering"
           \/ /\ p \in Streams /\ proc[p].pc = "idle" /\ new.event # NoEvent /\ new.pc \in {"marking", "persisting"}
  <2>1. CASE ReadProcessing(p)
    <3> DEFINE found == {e \in Events : records[e].status = "PROCESSING"}
               new == [Resting("recovering") EXCEPT !.found = found]
    <3>1. new \in Process
      BY RestingTyped DEF Process
    <3>2. /\ \A e \in new.found : records[e].status # "ABSENT"
          /\ new.event = NoEvent /\ new.pc = "recovering"
      BY RestingTyped DEF Process
    <3>3. p \in Workers /\ proc[p].pc = "down"
      BY <1>0, <2>1, Kinds DEF ReadProcessing, AtStep, Seated, Scheduling
    <3>4. proc' = [proc EXCEPT ![p] = new]
      BY <2>1 DEF ReadProcessing
    <3> HIDE DEF new
    <3> QED BY <3>1, <3>2, <3>3, <3>4
  <2>2. CASE \E e \in Events : Receive(p, e)
    <3> PICK e \in Events : Receive(p, e)
      BY <2>2
    <3> DEFINE at == IF e \in StatusEvents THEN "marking" ELSE "persisting"
               new == [Resting(at) EXCEPT !.event = e]
    <3>1. new \in Process
      BY RestingTyped
    <3>2. new.event = e /\ new.pc = at /\ new.found = {}
      BY RestingTyped DEF Process
    <3>3. proc' = [proc EXCEPT ![p] = new] /\ p \in Streams /\ proc[p].pc = "idle"
      BY DEF Receive, AtStep
    <3>4. e # NoEvent
      BY InboxAssumption
    <3> HIDE DEF new
    <3> QED BY <3>1, <3>2, <3>3, <3>4
  <2> QED BY <2>1, <2>2
<1>2. proc'[p] = new
  BY <1>1 DEF TypeInv, TypeOK
<1>3. Seated(p)'
  BY <1>1, <1>2, Kinds DEF Seated, Handling, Scheduling
<1>4. /\ proc' \in [Processes -> Process]
      /\ \A q \in Processes \ {p} : proc'[q] = proc[q]
      /\ \A q \in Processes : Seated(q)'
  BY <1>1, <1>3, Updated
<1>5. UNCHANGED <<records, jobs, state_key, reconciles, deaths, stalled, overtaken>>
  BY DEF ReadProcessing, Receive, history
<1>6. TypeInv'
  BY <1>4, <1>5 DEF TypeInv, TypeOK
<1>7. Glides(p)
  BY <1>0, <1>1, <1>2, <1>4, <1>5, Kinds DEF Glides, Live, Seated, Handling, Scheduling
<1> QED BY <1>6, <1>7

\* A process that ends what it was doing.
LEMMA Rests ==
  ASSUME TypeInv, NEW p \in Processes, NEW pc \in {"idle", "down", "recovered"},
         pc = "idle" \/ p \in Workers, proc' = [proc EXCEPT ![p] = Resting(pc)]
  PROVE  /\ proc' \in [Processes -> Process] /\ \A q \in Processes : Seated(q)'
         /\ proc'[p].pc = pc /\ proc'[p].event = NoEvent /\ proc'[p].found = {}
         /\ \A q \in Processes \ {p} : proc'[q] = proc[q]
<1>1. /\ Resting(pc) \in Process
      /\ Resting(pc).pc = pc /\ Resting(pc).event = NoEvent /\ Resting(pc).found = {}
  BY RestingTyped
<1>2. proc'[p] = Resting(pc)
  BY DEF TypeInv, TypeOK
<1>3. Seated(p)'
  BY <1>1, <1>2, Kinds DEF Seated, Handling, Scheduling
<1> QED BY <1>1, <1>2, <1>3, Updated

\* A worker or a stream that has an event, and a job that a worker has taken.
LEMMA Handled ==
  ASSUME TypeInv, NEW p \in Processes, proc[p].event # NoEvent
  PROVE  /\ proc[p].event \in Events /\ proc[p].job \in JobIds /\ proc[p].attempts \in Attempts
         /\ <<"retry", proc[p].attempts>> \in JobIds
  BY Numbered DEF TypeInv, TypeOK, Process

\* A status is written to a row.
LEMMA RowSet ==
  ASSUME TypeInv, NEW e \in Events, NEW status \in StreamEventProcessingStatus,
         SetStatus(e, status)
  PROVE  /\ records' \in [Events -> BrokerStreamEventRecord]
         /\ records'[e].status = status /\ records'[e].attempts = records[e].attempts
         /\ \A f \in Events \ {e} : records'[f] = records[f]
  BY DEF SetStatus, TypeInv, TypeOK, BrokerStreamEventRecord

----------------------------------------------------------------------------
(* The invariant                                                            *)

\* The job of a worker's event is its own, and so is the number of the attempt.
HeldConsistent(w) ==
  LET e == proc[w].event IN
  e # NoEvent =>
    /\ jobs[e][proc[w].job] = "taken"
    /\ proc[w].attempts <= records[e].attempts
    /\ \A v \in Workers \ {w} : proc[v].event = e =>
         proc[v].job # proc[w].job /\ proc[v].attempts # proc[w].attempts

\* What a worker has claimed is what the row still says.
LiveConsistent(w) ==
  LET e == proc[w].event IN
  proc[w].pc \in Live =>
    records[e].status = "PROCESSING" /\ records[e].attempts = proc[w].attempts

\* A retry has the number of an attempt that failed, and nobody works on it.
RetryConsistent(e) ==
  \A n \in Attempts :
    jobs[e][<<"retry", n>>] # "absent" =>
      n <= records[e].attempts /\ \A w \in Workers : proc[w].event = e => proc[w].attempts # n

\* Attempts are used up if and only if a failed event is a dead letter.
OutcomeConsistent(e) ==
  /\ records[e].status = "FAILED" => records[e].attempts < MaxAttempts
  /\ records[e].status = "DEAD_LETTER" => records[e].attempts = MaxAttempts

\* A row that is not there has left no job and nobody who knows it.
AbsentConsistent(e) ==
  records[e].status = "ABSENT" =>
    /\ \A id \in JobIds : jobs[e][id] = "absent"
    /\ \A p \in Processes :
         /\ e \notin proc[p].found
         /\ proc[p].event = e => p \in Streams /\ proc[p].pc # "enqueueing"

\* The stream that inserted a row is the only one to queue its first job.
EnqueueConsistent(s) ==
  LET e == proc[s].event IN
  proc[s].pc = "enqueueing" =>
    /\ jobs[e][NoJob] = "absent"
    /\ \A t \in Streams \ {s} : proc[t].pc = "enqueueing" => proc[t].event # e

\* An event that is PROCESSING has its worker, unless something died.
Attended(e) ==
  deaths = 0 /\ records[e].status = "PROCESSING" =>
    \E w \in Workers : proc[w].pc \in Live /\ proc[w].event = e

InboxInv ==
  /\ TypeInv
  /\ \A w \in Workers : HeldConsistent(w)
  /\ \A e \in Events : AbsentConsistent(e)
  /\ \A s \in Streams : EnqueueConsistent(s)
  /\ ~overtaken =>
       /\ \A w \in Workers : LiveConsistent(w)
       /\ \A e \in Events : RetryConsistent(e) /\ OutcomeConsistent(e) /\ Attended(e)
  /\ OpenEventsQueued

----------------------------------------------------------------------------
(* Every step keeps it                                                      *)

LEMMA GlideKeepsInv ==
  ASSUME InboxInv, TypeInv', NEW p \in Processes, Glides(p)
  PROVE  InboxInv'
<1>0. Workers \subseteq Processes /\ Streams \subseteq Processes
  BY DEF Processes
<1>1. \A q \in Processes \ {p} : proc'[q] = proc[q]
  BY DEF Glides
<1>2. \A w \in Workers :
        /\ proc'[w].event = proc[w].event
        /\ proc[w].event # NoEvent =>
             proc'[w].job = proc[w].job /\ proc'[w].attempts = proc[w].attempts
        /\ proc'[w].pc \in Live <=> proc[w].pc \in Live
  BY <1>0, <1>1 DEF Glides
<1>3. \A w \in Workers : proc[w].pc \in Live => proc[w].event # NoEvent
  BY <1>0 DEF InboxInv, TypeInv, Seated, Live, Handling
<1>4. UNCHANGED <<records, jobs, overtaken>> /\ (deaths' = 0 => deaths = 0)
  BY DEF Glides
<1>5. \A w \in Workers : HeldConsistent(w)'
  BY <1>2, <1>4 DEF InboxInv, HeldConsistent
<1>6. ~overtaken' => \A w \in Workers : LiveConsistent(w)'
  BY <1>2, <1>3, <1>4 DEF InboxInv, LiveConsistent
<1>7. ~overtaken' =>
        \A e \in Events : RetryConsistent(e)' /\ OutcomeConsistent(e)' /\ Attended(e)'
  <2>1. ASSUME ~overtaken, NEW e \in Events PROVE RetryConsistent(e)'
    <3>1. e # NoEvent
      BY InboxAssumption
    <3> QED BY <1>2, <1>4, <2>1, <3>1 DEF InboxInv, RetryConsistent
  <2>2. ASSUME ~overtaken, NEW e \in Events PROVE OutcomeConsistent(e)' /\ Attended(e)'
    BY <1>2, <1>4, <2>2 DEF InboxInv, OutcomeConsistent, Attended
  <2> QED BY <1>4, <2>1, <2>2
<1>8. \A e \in Events : AbsentConsistent(e)'
  <2>1. ASSUME NEW e \in Events, records[e].status = "ABSENT", NEW q \in Processes
        PROVE  /\ e \notin proc'[q].found
               /\ proc'[q].event = e => q \in Streams /\ proc'[q].pc # "enqueueing"
    <3>1. AbsentConsistent(e) /\ e # NoEvent
      BY InboxAssumption DEF InboxInv
    <3> QED BY <1>1, <2>1, <3>1, Kinds DEF AbsentConsistent, Glides
  <2> QED BY <1>4, <2>1 DEF InboxInv, AbsentConsistent
<1>9. \A s \in Streams : EnqueueConsistent(s)'
  <2>1. \A s \in Streams : proc'[s].pc = "enqueueing" => s # p
    BY <1>0, Kinds DEF Glides
  <2> QED BY <1>0, <1>1, <1>4, <2>1 DEF InboxInv, EnqueueConsistent
<1>10. OpenEventsQueued'
  <2>1. deaths' = 0 => \A q \in Processes : proc[q].pc = "enqueueing" => q # p
    BY DEF Glides
  <2> QED BY <1>1, <1>4, <2>1 DEF InboxInv, OpenEventsQueued, Claimable, AtStep
<1> QED BY <1>5, <1>6, <1>7, <1>8, <1>9, <1>10 DEF InboxInv

\* The insert of a row, or of nothing.
LEMMA PersistKeepsInv ==
  ASSUME InboxInv, NEW s \in Processes, persist_event(s)
  PROVE  InboxInv'
<1>0. /\ TypeInv /\ proc[s] \in Process
      /\ s \in Streams /\ s \notin Workers /\ s \notin Clients /\ proc[s].pc = "persisting"
      /\ proc[s].event \in Events
  BY Kinds, Handled DEF InboxInv, TypeInv, TypeOK, persist_event, AtStep, Seated, Handling, Scheduling
<1> PICK e \in Events : e = proc[s].event
  BY <1>0
<1>1. UNCHANGED <<jobs, state_key, reconciles, deaths, stalled, overtaken>>
  BY DEF persist_event, history
<1>2. CASE records[e].status # "ABSENT"
  <2>1. Rest(s) /\ UNCHANGED records
    BY <1>2 DEF persist_event
  <2>2. /\ proc' \in [Processes -> Process] /\ \A q \in Processes : Seated(q)'
        /\ proc'[s].pc = "idle" /\ proc'[s].event = NoEvent /\ proc'[s].found = {}
        /\ \A q \in Processes \ {s} : proc'[q] = proc[q]
    BY <1>0, <2>1, Rests DEF Rest
  <2>3. TypeInv'
    BY <1>0, <1>1, <2>1, <2>2 DEF TypeInv, TypeOK
  <2>4. Glides(s)
    BY <1>0, <1>1, <2>1, <2>2 DEF Glides
  <2> QED BY <2>3, <2>4, GlideKeepsInv
<1>3. CASE records[e].status = "ABSENT"
  <2>0. SetStatus(e, "PENDING") /\ Goto(s, "enqueueing")
    BY <1>3 DEF persist_event
  <2>1. /\ records' \in [Events -> BrokerStreamEventRecord]
        /\ records'[e].status = "PENDING" /\ records'[e].attempts = records[e].attempts
        /\ \A f \in Events \ {e} : records'[f] = records[f]
    BY <1>0, <2>0, RowSet DEF StreamEventProcessingStatus
  <2> DEFINE new == [proc[s] EXCEPT !.pc = "enqueueing"]
  <2>2. new \in Process /\ new.pc = "enqueueing" /\ new.event = e /\ new.found = proc[s].found
    BY <1>0 DEF Process
  <2>3. proc' = [proc EXCEPT ![s] = new]
    BY <2>0 DEF Goto
  <2> HIDE DEF new
  <2>4. proc'[s] = new
    BY <1>0, <2>3 DEF TypeInv, TypeOK
  <2>5. Seated(s)'
    BY <1>0, <2>2, <2>4, InboxAssumption DEF Seated, Handling, Scheduling
  <2>6. /\ proc' \in [Processes -> Process] /\ \A q \in Processes : Seated(q)'
        /\ \A q \in Processes \ {s} : proc'[q] = proc[q]
    BY <1>0, <2>2, <2>3, <2>5, Updated
  <2>7. TypeInv'
    BY <1>0, <1>1, <2>1, <2>6 DEF TypeInv, TypeOK
  <2>8. Workers \subseteq Processes /\ Streams \subseteq Processes
    BY DEF Processes
  <2>9. \A w \in Workers : proc'[w] = proc[w]
    BY <1>0, <2>6, <2>8
  <2>10. /\ \A id \in JobIds : jobs[e][id] = "absent"
         /\ \A q \in Processes : proc[q].event = e => q \in Streams /\ proc[q].pc # "enqueueing"
    BY <1>0, <1>3 DEF InboxInv, AbsentConsistent
  <2>11. \A w \in Workers : proc[w].event # e
    BY <2>8, <2>10, Kinds
  <2>12. \A w \in Workers : HeldConsistent(w)'
    <3>1. \A w \in Workers : proc[w].event # NoEvent => proc[w].event \in Events \ {e}
      BY <1>0, <2>8, <2>11, Handled
    <3> QED BY <1>1, <2>1, <2>9, <3>1 DEF InboxInv, HeldConsistent
  <2>13. ~overtaken' => \A w \in Workers : LiveConsistent(w)'
    <3>1. \A w \in Workers : proc[w].pc \in Live => proc[w].event \in Events \ {e}
      BY <1>0, <2>8, <2>11, Handled DEF TypeInv, Seated, Live, Handling
    <3> QED BY <1>1, <2>1, <2>9, <3>1 DEF InboxInv, LiveConsistent
  <2>14. ASSUME ~overtaken', NEW f \in Events
         PROVE  RetryConsistent(f)' /\ OutcomeConsistent(f)' /\ Attended(f)'
    <3>1. CASE f = e
      <4>1. RetryConsistent(f)'
        BY <1>1, <2>10, <3>1, Numbered DEF RetryConsistent
      <4> QED BY <2>1, <3>1, <4>1 DEF OutcomeConsistent, Attended
    <3>2. CASE f # e
      BY <1>1, <2>1, <2>9, <2>14, <3>2
         DEF InboxInv, RetryConsistent, OutcomeConsistent, Attended
    <3> QED BY <3>1, <3>2
  <2>15. \A f \in Events : AbsentConsistent(f)'
    <3>1. ASSUME NEW f \in Events \ {e} PROVE AbsentConsistent(f)'
      <4>1. \A q \in Processes : proc'[q].found = proc[q].found /\ proc'[q].event = proc[q].event
        BY <2>2, <2>4, <2>6
      <4>2. \A q \in Processes : proc'[q].event = f => proc'[q].pc = proc[q].pc
        BY <2>2, <2>4, <2>6
      <4>3. AbsentConsistent(f) /\ records'[f] = records[f]
        BY <2>1 DEF InboxInv
      <4>4. ASSUME records[f].status = "ABSENT", NEW q \in Processes
            PROVE  /\ f \notin proc'[q].found
                   /\ proc'[q].event = f => q \in Streams /\ proc'[q].pc # "enqueueing"
        BY <4>1, <4>2, <4>3, <4>4 DEF AbsentConsistent
      <4> QED BY <1>1, <4>3, <4>4 DEF AbsentConsistent
    <3>2. AbsentConsistent(e)'
      BY <2>1 DEF AbsentConsistent
    <3> QED BY <3>1, <3>2
  <2>16. ASSUME NEW t \in Streams PROVE EnqueueConsistent(t)'
    <3>1. CASE t = s
      BY <1>0, <1>1, <2>2, <2>4, <2>6, <2>8, <2>10, <3>1, Numbered DEF EnqueueConsistent
    <3>2. CASE t # s
      BY <1>0, <1>1, <2>2, <2>4, <2>6, <2>8, <2>10, <3>2 DEF InboxInv, EnqueueConsistent
    <3> QED BY <3>1, <3>2
  <2>17. OpenEventsQueued'
    <3>1. ASSUME deaths = 0 /\ ~overtaken, NEW f \in Events, Claimable(f)'
          PROVE  \/ \E id \in JobIds : jobs'[f][id] \in {"queued", "taken"}
                 \/ \E q \in Processes : proc'[q].pc = "enqueueing" /\ proc'[q].event = f
      <4>1. CASE f = e
        BY <2>2, <2>4, <4>1
      <4>2. CASE f # e
        <5>1. Claimable(f)
          BY <2>1, <3>1, <4>2 DEF Claimable
        <5>2. \A q \in Processes : proc[q].pc = "enqueueing" => proc'[q] = proc[q]
          BY <1>0, <2>6
        <5> QED BY <1>1, <3>1, <5>1, <5>2 DEF InboxInv, OpenEventsQueued, AtStep
      <4> QED BY <4>1, <4>2
    <3> QED BY <1>1, <3>1 DEF OpenEventsQueued, AtStep
  <2> QED BY <2>7, <2>12, <2>13, <2>14, <2>15, <2>16, <2>17 DEF InboxInv
<1> QED BY <1>2, <1>3

\* Jobs are queued, none of them a retry, and the process that has queued them rests.
Queues(p) ==
  /\ UNCHANGED <<records, deaths, overtaken>>
  /\ p \in Workers => proc[p].event = NoEvent
  /\ proc'[p].pc = "idle" /\ proc'[p].event = NoEvent /\ proc'[p].found = {}
  /\ \A q \in Processes \ {p} : proc'[q] = proc[q]
  /\ \A e \in Events, id \in JobIds :
       jobs'[e][id] # jobs[e][id] =>
         /\ jobs[e][id] = "absent" /\ jobs'[e][id] = "queued"
         /\ records[e].status # "ABSENT"
         /\ \A n \in Attempts : id # <<"retry", n>>
         /\ id = NoJob => proc[p].pc = "enqueueing" /\ proc[p].event = e
  /\ proc[p].pc = "enqueueing" => jobs'[proc[p].event][NoJob] = "queued"

LEMMA QueueKeepsInv ==
  ASSUME InboxInv, TypeInv', NEW p \in Processes, Queues(p)
  PROVE  InboxInv'
<1>0. Workers \subseteq Processes /\ Streams \subseteq Processes /\ NoEvent \notin Events
  BY InboxAssumption DEF Processes
<1>1. /\ UNCHANGED <<records, deaths, overtaken>>
      /\ \A q \in Processes \ {p} : proc'[q] = proc[q]
  BY DEF Queues
<1>2. \A w \in Workers :
        /\ proc'[w].event = proc[w].event
        /\ proc[w].event # NoEvent => proc'[w] = proc[w]
  BY <1>0, <1>1 DEF Queues
<1>3. \A w \in Workers :
        /\ proc[w].pc \in Live => proc[w].event # NoEvent
        /\ proc'[w].pc \in Live => proc'[w].event # NoEvent
  BY <1>0 DEF InboxInv, TypeInv, Seated, Live, Handling
<1>4. ASSUME NEW w \in Workers PROVE HeldConsistent(w)'
  <2>1. CASE proc[w].event = NoEvent
    BY <1>2, <2>1 DEF HeldConsistent
  <2>2. CASE proc[w].event # NoEvent
    <3>1. PICK e \in Events : e = proc[w].event
      BY <1>0, <2>2, Handled DEF InboxInv
    <3>2. proc[w].job \in JobIds /\ jobs[e][proc[w].job] = "taken"
      BY <1>0, <2>2, <3>1, Handled DEF InboxInv, HeldConsistent
    <3>3. jobs'[e][proc[w].job] = "taken"
      BY <3>2 DEF Queues
    <3> QED BY <1>0, <1>1, <1>2, <2>2, <3>1, <3>3 DEF InboxInv, HeldConsistent
  <2> QED BY <2>1, <2>2
<1>5. ~overtaken' => \A w \in Workers : LiveConsistent(w)'
  BY <1>1, <1>2, <1>3 DEF InboxInv, LiveConsistent
<1>6. ASSUME ~overtaken', NEW e \in Events
      PROVE  RetryConsistent(e)' /\ OutcomeConsistent(e)' /\ Attended(e)'
  <2>1. RetryConsistent(e)'
    <3>1. ASSUME NEW n \in Attempts PROVE jobs'[e][<<"retry", n>>] = jobs[e][<<"retry", n>>]
      <4> PICK id \in JobIds : id = <<"retry", n>>
        BY Numbered
      <4>1. jobs'[e][id] = jobs[e][id]
        BY DEF Queues
      <4> QED BY <4>1
    <3>2. RetryConsistent(e)
      BY <1>1, <1>6 DEF InboxInv
    <3> QED BY <1>0, <1>1, <1>2, <3>1, <3>2 DEF RetryConsistent
  <2>2. OutcomeConsistent(e)' /\ Attended(e)'
    BY <1>0, <1>1, <1>2, <1>6 DEF InboxInv, OutcomeConsistent, Attended
  <2> QED BY <2>1, <2>2
<1>7. ASSUME NEW e \in Events PROVE AbsentConsistent(e)'
  <2>1. CASE records[e].status = "ABSENT"
    <3>1. AbsentConsistent(e)
      BY DEF InboxInv
    <3>2. \A id \in JobIds : jobs'[e][id] = "absent"
      BY <2>1, <3>1 DEF Queues, AbsentConsistent
    <3>3. \A q \in Processes :
            /\ e \notin proc'[q].found
            /\ proc'[q].event = e => q \in Streams /\ proc'[q].pc # "enqueueing"
      BY <1>0, <1>1, <2>1, <3>1 DEF Queues, AbsentConsistent
    <3> QED BY <3>2, <3>3 DEF AbsentConsistent
  <2> QED BY <1>1, <2>1 DEF AbsentConsistent
<1>8. ASSUME NEW s \in Streams, proc'[s].pc = "enqueueing" PROVE EnqueueConsistent(s)'
  <2>1. s # p /\ proc'[s] = proc[s]
    BY <1>0, <1>1, <1>8 DEF Queues
  <2>2. PICK e \in Events : e = proc[s].event
    BY <1>0, <1>8, <2>1, Handled DEF InboxInv, TypeInv, Seated
  <2>3. proc[p].pc = "enqueueing" => proc[p].event # e
    BY <1>0, <1>8, <2>1, <2>2, Kinds
       DEF InboxInv, TypeInv, Seated, Handling, Scheduling, EnqueueConsistent
  <2>4. jobs'[e][NoJob] = jobs[e][NoJob]
    BY <2>3, Numbered DEF Queues
  <2>5. jobs[e][NoJob] = "absent"
        /\ \A t \in Streams \ {s} : proc[t].pc = "enqueueing" => proc[t].event # e
    BY <1>8, <2>1, <2>2 DEF InboxInv, EnqueueConsistent
  <2>6. \A t \in Streams : proc'[t].pc = "enqueueing" => proc'[t] = proc[t]
    BY <1>0, <1>1 DEF Queues
  <2> QED BY <2>1, <2>2, <2>4, <2>5, <2>6 DEF EnqueueConsistent
<1>9. ASSUME deaths = 0 /\ ~overtaken, NEW e \in Events, Claimable(e)
      PROVE  \/ \E id \in JobIds : jobs'[e][id] \in {"queued", "taken"}
             \/ \E q \in Processes : proc'[q].pc = "enqueueing" /\ proc'[q].event = e
  <2>1. CASE \E id \in JobIds : jobs[e][id] \in {"queued", "taken"}
    BY <2>1 DEF Queues
  <2>2. CASE \E q \in Processes : proc[q].pc = "enqueueing" /\ proc[q].event = e
    BY <1>1, <2>2, Numbered DEF Queues
  <2> QED BY <1>9, <2>1, <2>2 DEF InboxInv, OpenEventsQueued, AtStep
<1>10. OpenEventsQueued'
  BY <1>1, <1>9 DEF OpenEventsQueued, Claimable, AtStep
<1>11. \A s \in Streams : EnqueueConsistent(s)'
  BY <1>8 DEF EnqueueConsistent
<1> QED BY <1>1, <1>4, <1>5, <1>6, <1>7, <1>10, <1>11 DEF InboxInv

LEMMA EnqueueKeepsInv ==
  ASSUME InboxInv, NEW p \in Processes, EnqueueEvent(p) \/ EnqueueRetry(p) \/ startup(p)
  PROVE  InboxInv'
<1>0. TypeInv /\ Seated(p) /\ TypeOK
  BY DEF InboxInv, TypeInv
<1>1. /\ UNCHANGED <<records, state_key, reconciles, deaths, stalled, overtaken>>
      /\ proc' = [proc EXCEPT ![p] = Resting("idle")]
  BY DEF EnqueueEvent, EnqueueRetry, startup, history, Rest
<1>2. /\ proc' \in [Processes -> Process] /\ \A q \in Processes : Seated(q)'
      /\ proc'[p].pc = "idle" /\ proc'[p].event = NoEvent /\ proc'[p].found = {}
      /\ \A q \in Processes \ {p} : proc'[q] = proc[q]
  BY <1>0, <1>1, Rests
<1>3. jobs \in [Events -> [JobIds -> JobState]]
  BY <1>0 DEF TypeOK
<1> DEFINE New(e, id) ==
      /\ jobs[e][id] = "absent" /\ jobs'[e][id] = "queued"
      /\ records[e].status # "ABSENT"
      /\ \A n \in Attempts : id # <<"retry", n>>
      /\ id = NoJob => proc[p].pc = "enqueueing" /\ proc[p].event = e
<1>4. /\ jobs' \in [Events -> [JobIds -> JobState]]
      /\ p \in Workers => proc[p].event = NoEvent
      /\ \A e \in Events, id \in JobIds : jobs'[e][id] # jobs[e][id] => New(e, id)
      /\ proc[p].pc = "enqueueing" => jobs'[proc[p].event][NoJob] = "queued"
  <2>1. CASE EnqueueEvent(p)
    <3>1. p \in Streams /\ p \notin Workers /\ proc[p].pc = "enqueueing" /\ proc[p].event # NoEvent
      BY <1>0, <2>1, Kinds DEF EnqueueEvent, AtStep, Seated, Handling, Scheduling
    <3>2. PICK e \in Events : e = proc[p].event
      BY <1>0, <3>1, Handled
    <3>3. jobs[e][NoJob] = "absent" /\ records[e].status # "ABSENT"
      BY <3>1, <3>2 DEF InboxInv, EnqueueConsistent, AbsentConsistent
    <3>4. jobs' = Enqueued(e, NoJob, jobs)
      BY <2>1, <3>2 DEF EnqueueEvent
    <3>5. /\ jobs' \in [Events -> [JobIds -> JobState]]
          /\ \A f \in Events, j \in JobIds :
               jobs'[f][j] = IF f = e /\ j = NoJob THEN "queued" ELSE jobs[f][j]
      BY <1>3, <3>3, <3>4, EnqueuedJobs, Numbered
    <3>6. \A n \in Attempts : NoJob # <<"retry", n>>
      BY DEF NoJob
    <3> QED BY <3>1, <3>2, <3>3, <3>5, <3>6, Numbered
  <2>2. CASE EnqueueRetry(p)
    <3>1. p \in Clients /\ p \notin Workers /\ p \notin Streams
          /\ proc[p].pc = "retrying" /\ proc[p].event # NoEvent
      BY <1>0, <2>2, Kinds DEF EnqueueRetry, AtStep, Seated, Handling, Scheduling
    <3>2. PICK e \in Events : e = proc[p].event
      BY <1>0, <3>1, Handled
    <3>3. records[e].status # "ABSENT"
      BY <3>1, <3>2 DEF InboxInv, AbsentConsistent
    <3>4. PICK id \in JobIds : id = <<"manual", records[e].attempts>>
      BY <1>0, Numbered DEF TypeOK, BrokerStreamEventRecord
    <3>5. jobs' = Enqueued(e, id, jobs)
      BY <2>2, <3>2, <3>4 DEF EnqueueRetry
    <3>6. /\ jobs' \in [Events -> [JobIds -> JobState]]
          /\ \A f \in Events, j \in JobIds :
               jobs'[f][j] = IF f = e /\ j = id /\ jobs[e][id] = "absent" THEN "queued" ELSE jobs[f][j]
      BY <1>3, <3>5, EnqueuedJobs
    <3>7. id # NoJob /\ \A n \in Attempts : id # <<"retry", n>>
      BY <3>4 DEF NoJob
    <3> QED BY <3>1, <3>3, <3>6, <3>7
  <2>3. CASE startup(p)
    <3>1. p \in Workers /\ proc[p].pc = "recovered" /\ proc[p].event = NoEvent
      BY <1>0, <2>3, Kinds DEF startup, AtStep, Seated, Handling, Scheduling
    <3>2. PICK id \in JobIds : id = <<"recovery", 0>>
      BY Numbered
    <3>3. \A e \in Events :
            jobs'[e] = IF records[e].status = "PENDING" THEN Enqueued(e, id, jobs)[e] ELSE jobs[e]
      BY <2>3, <3>2 DEF startup
    <3>4. \A e \in Events : Enqueued(e, id, jobs) \in [Events -> [JobIds -> JobState]]
            /\ \A j \in JobIds : Enqueued(e, id, jobs)[e][j] =
                 IF j = id /\ jobs[e][id] = "absent" THEN "queued" ELSE jobs[e][j]
      BY <1>3, EnqueuedJobs
    <3>5. jobs' \in [Events -> [JobIds -> JobState]]
      <4>1. \A e \in Events : jobs'[e] \in [JobIds -> JobState]
        BY <1>3, <3>3, <3>4
      <4>2. jobs' = [e \in Events |-> jobs'[e]]
        BY <2>3 DEF startup
      <4> QED BY <4>1, <4>2
    <3>6. id # NoJob /\ \A n \in Attempts : id # <<"retry", n>>
      BY <3>2 DEF NoJob
    <3>7. \A e \in Events, j \in JobIds : jobs'[e][j] # jobs[e][j] =>
            /\ records[e].status = "PENDING" /\ j = id
            /\ jobs[e][j] = "absent" /\ jobs'[e][j] = "queued"
      BY <3>3, <3>4
    <3> QED BY <3>1, <3>5, <3>6, <3>7
  <2> QED BY <2>1, <2>2, <2>3
<1>5. TypeInv'
  BY <1>0, <1>1, <1>2, <1>4 DEF TypeInv, TypeOK
<1>6. Queues(p)
  BY <1>1, <1>2, <1>4 DEF Queues
<1> QED BY <1>5, <1>6, QueueKeepsInv

\* Jobs end or are forgotten.  A job is added only where a recovery went wrong.
Dequeues ==
  /\ UNCHANGED <<records, proc, deaths, overtaken>>
  /\ \A e \in Events, id \in JobIds :
       /\ jobs[e][id] = "taken" => jobs'[e][id] = "taken"
       /\ jobs[e][id] = "queued" /\ Claimable(e) => jobs'[e][id] = "queued"
       /\ jobs[e][id] = "absent" =>
            \/ jobs'[e][id] = "absent"
            \/ overtaken /\ records[e].status # "ABSENT" /\ id # NoJob

LEMMA DequeueKeepsInv ==
  ASSUME InboxInv, TypeInv', Dequeues
  PROVE  InboxInv'
<1>0. Workers \subseteq Processes /\ Streams \subseteq Processes
  BY DEF Processes
<1>1. UNCHANGED <<records, proc, deaths, overtaken>>
  BY DEF Dequeues
<1>2. ASSUME NEW w \in Workers PROVE HeldConsistent(w)'
  <2>1. CASE proc[w].event # NoEvent
    <3>1. proc[w].event \in Events /\ proc[w].job \in JobIds
      BY <1>0, <2>1, Handled DEF InboxInv
    <3>2. jobs'[proc[w].event][proc[w].job] = "taken"
      BY <2>1, <3>1 DEF Dequeues, InboxInv, HeldConsistent
    <3> QED BY <1>1, <2>1, <3>2 DEF InboxInv, HeldConsistent
  <2> QED BY <1>1, <2>1 DEF HeldConsistent
<1>3. ~overtaken' => \A w \in Workers : LiveConsistent(w)'
  BY <1>1 DEF InboxInv, LiveConsistent
<1>4. ASSUME ~overtaken', NEW e \in Events
      PROVE  RetryConsistent(e)' /\ OutcomeConsistent(e)' /\ Attended(e)'
  <2>1. RetryConsistent(e)'
    <3>1. ASSUME NEW n \in Attempts, jobs'[e][<<"retry", n>>] # "absent"
          PROVE  jobs[e][<<"retry", n>>] # "absent"
      <4> PICK id \in JobIds : id = <<"retry", n>>
        BY Numbered
      <4>1. jobs[e][id] # "absent"
        BY <1>1, <1>4, <3>1 DEF Dequeues
      <4> QED BY <4>1
    <3>2. RetryConsistent(e)
      BY <1>1, <1>4 DEF InboxInv
    <3> QED BY <1>1, <3>1, <3>2 DEF RetryConsistent
  <2>2. OutcomeConsistent(e)' /\ Attended(e)'
    BY <1>1, <1>4 DEF InboxInv, OutcomeConsistent, Attended
  <2> QED BY <2>1, <2>2
<1>5. ASSUME NEW e \in Events PROVE AbsentConsistent(e)'
  BY <1>1 DEF Dequeues, InboxInv, AbsentConsistent
<1>6. ASSUME NEW s \in Streams PROVE EnqueueConsistent(s)'
  <2>1. CASE proc[s].pc = "enqueueing"
    <3>1. proc[s].event \in Events
      BY <1>0, <2>1, Handled DEF InboxInv, TypeInv, Seated
    <3>2. jobs'[proc[s].event][NoJob] = "absent"
      BY <2>1, <3>1, Numbered DEF Dequeues, InboxInv, EnqueueConsistent
    <3> QED BY <1>1, <2>1, <3>2 DEF InboxInv, EnqueueConsistent
  <2> QED BY <1>1, <2>1 DEF EnqueueConsistent
<1>7. ASSUME deaths = 0 /\ ~overtaken, NEW e \in Events, Claimable(e)
      PROVE  \/ \E id \in JobIds : jobs'[e][id] \in {"queued", "taken"}
             \/ \E q \in Processes : proc[q].pc = "enqueueing" /\ proc[q].event = e
  BY <1>7 DEF Dequeues, InboxInv, OpenEventsQueued, AtStep
<1>8. OpenEventsQueued'
  BY <1>1, <1>7 DEF OpenEventsQueued, Claimable, AtStep
<1> QED BY <1>1, <1>2, <1>3, <1>4, <1>5, <1>6, <1>8 DEF InboxInv

LEMMA ClaimNothingKeepsInv ==
  ASSUME InboxInv, NEW w \in Processes, NEW e \in Events, NEW id \in JobIds,
         ClaimNothing(w, e, id)
  PROVE  InboxInv'
<1>0. TypeInv /\ TypeOK /\ jobs \in [Events -> [JobIds -> JobState]]
  BY DEF InboxInv, TypeInv, TypeOK
<1>1. /\ UNCHANGED <<records, state_key, reconciles, proc, deaths, stalled, overtaken>>
      /\ jobs[e][id] = "queued" /\ ~Claimable(e)
  BY DEF ClaimNothing, history
<1>2. PICK again \in JobIds : again = <<"retry", records[e].attempts>>
  BY <1>0, Numbered DEF TypeOK, BrokerStreamEventRecord
<1> DEFINE table == IF records[e].status = "FAILED" THEN Enqueued(e, again, jobs) ELSE jobs
<1>3. jobs' = Finished(e, id, table)
  BY <1>2 DEF ClaimNothing
<1>4. /\ table \in [Events -> [JobIds -> JobState]]
      /\ \A f \in Events, j \in JobIds :
           table[f][j] # jobs[f][j] =>
             f = e /\ j = again /\ jobs[f][j] = "absent" /\ records[e].status = "FAILED"
  BY <1>0, EnqueuedJobs
<1> HIDE DEF table
<1>5. /\ jobs' \in [Events -> [JobIds -> JobState]]
      /\ \A f \in Events, j \in JobIds :
           jobs'[f][j] = IF f = e /\ j = id THEN "kept" ELSE table[f][j]
  BY <1>3, <1>4, FinishedJobs
<1>6. records[e].status = "FAILED" => overtaken
  BY <1>1 DEF InboxInv, OutcomeConsistent, Claimable
<1>7. again # NoJob
  BY <1>2 DEF NoJob
<1>8. TypeInv'
  <2>1. \A q \in Processes : Seated(q)'
    BY <1>0, <1>1 DEF TypeInv, Seated
  <2> QED BY <1>0, <1>1, <1>5, <2>1 DEF TypeInv, TypeOK
<1>9. Dequeues
  BY <1>1, <1>4, <1>5, <1>6, <1>7 DEF Dequeues
<1> QED BY <1>8, <1>9, DequeueKeepsInv

LEMMA ResultExpiresKeepsInv ==
  ASSUME InboxInv, NEW e \in Events, NEW id \in JobIds, ResultExpires(e, id)
  PROVE  InboxInv'
<1>0. TypeInv /\ TypeOK /\ jobs \in [Events -> [JobIds -> JobState]]
  BY DEF InboxInv, TypeInv, TypeOK
<1>1. /\ UNCHANGED <<records, state_key, reconciles, proc, deaths, stalled, overtaken>>
      /\ jobs[e][id] = "kept" /\ jobs' = [jobs EXCEPT ![e][id] = "absent"]
  BY DEF ResultExpires, history
<1>2. /\ jobs' \in [Events -> [JobIds -> JobState]]
      /\ \A f \in Events, j \in JobIds :
           jobs'[f][j] = IF f = e /\ j = id THEN "absent" ELSE jobs[f][j]
  BY <1>0, <1>1 DEF JobState
<1>3. TypeInv'
  <2>1. \A q \in Processes : Seated(q)'
    BY <1>0, <1>1 DEF TypeInv, Seated
  <2> QED BY <1>0, <1>1, <1>2, <2>1 DEF TypeInv, TypeOK
<1>4. Dequeues
  BY <1>1, <1>2 DEF Dequeues
<1> QED BY <1>3, <1>4, DequeueKeepsInv

LEMMA KeyExpiresKeepsInv ==
  ASSUME InboxInv, KeyExpires
  PROVE  InboxInv'
<1>1. UNCHANGED <<records, jobs, reconciles, proc, deaths, stalled, overtaken>> /\ state_key' = FALSE
  BY DEF KeyExpires, history
<1>2. TypeInv'
  <2>1. \A q \in Processes : Seated(q)'
    BY <1>1 DEF InboxInv, TypeInv, Seated
  <2> QED BY <1>1, <2>1 DEF InboxInv, TypeInv, TypeOK
<1>3. Dequeues
  BY <1>1 DEF Dequeues
<1> QED BY <1>2, <1>3, DequeueKeepsInv

\* A worker claims an event that nobody else is working on, unless a recovery went wrong.
LEMMA ClaimKeepsInv ==
  ASSUME InboxInv, NEW w \in Processes, NEW e \in Events, NEW id \in JobIds,
         claim_event(w, e, id)
  PROVE  InboxInv'
<1>0. /\ TypeInv /\ TypeOK /\ jobs \in [Events -> [JobIds -> JobState]]
      /\ w \in Workers /\ w \notin Streams /\ proc[w].pc = "idle" /\ proc[w].event = NoEvent
      /\ jobs[e][id] = "queued" /\ Claimable(e) /\ e # NoEvent
      /\ Workers \subseteq Processes /\ Streams \subseteq Processes
  BY Kinds, InboxAssumption
     DEF InboxInv, TypeInv, TypeOK, claim_event, AtStep, Seated, Handling, Scheduling, Processes
<1>1. UNCHANGED <<state_key, reconciles, deaths, stalled, overtaken>>
  BY DEF claim_event, history
<1>2. PICK n \in Attempts : n = records[e].attempts + 1
  BY <1>0, InboxAssumption DEF TypeOK, BrokerStreamEventRecord, Attempts, Claimable
<1>3. /\ records' \in [Events -> BrokerStreamEventRecord]
      /\ records'[e].status = "PROCESSING" /\ records'[e].attempts = n
      /\ \A f \in Events \ {e} : records'[f] = records[f]
  <2>1. [status |-> "PROCESSING", attempts |-> records[e].attempts + 1]
          \in BrokerStreamEventRecord
    BY <1>2 DEF BrokerStreamEventRecord, StreamEventProcessingStatus
  <2> QED BY <1>0, <1>2, <2>1 DEF claim_event, TypeOK
<1>4. /\ jobs' \in [Events -> [JobIds -> JobState]]
      /\ \A f \in Events, j \in JobIds :
           jobs'[f][j] = IF f = e /\ j = id THEN "taken" ELSE jobs[f][j]
  BY <1>0 DEF claim_event, JobState
<1> DEFINE new ==
      [pc |-> IF e \in StatusEvents THEN "completing" ELSE "marking", event |-> e,
       job |-> id, attempts |-> records[e].attempts + 1, created |-> FALSE, found |-> {}]
<1>5. /\ new \in Process /\ new.pc \in Live /\ new.event = e /\ new.job = id
      /\ new.attempts = n /\ new.found = {}
  BY <1>2 DEF Process, Handling, Scheduling, Live
<1>6. proc' = [proc EXCEPT ![w] = new]
  BY DEF claim_event
<1> HIDE DEF new
<1>7. proc'[w] = new
  BY <1>0, <1>6 DEF TypeOK
<1>8. Seated(w)'
  BY <1>0, <1>5, <1>7, Kinds DEF Seated, Live, Handling
<1>9. /\ proc' \in [Processes -> Process] /\ \A q \in Processes : Seated(q)'
      /\ \A q \in Processes \ {w} : proc'[q] = proc[q]
  BY <1>0, <1>5, <1>6, <1>8, Updated
<1>10. TypeInv'
  BY <1>0, <1>1, <1>3, <1>4, <1>9 DEF TypeInv, TypeOK
<1>11. records[e].attempts \in Attempts /\ records[e].status \in {"PENDING", "FAILED"}
  BY <1>0 DEF TypeOK, BrokerStreamEventRecord, Claimable
<1>12. \A v \in Workers : proc[v].event # NoEvent =>
         proc[v].event \in Events /\ proc[v].job \in JobIds /\ proc[v].attempts \in Attempts
  BY <1>0, Handled
<1>13. \A v \in Workers \ {w} : proc[v].event = e =>
         proc[v].job # id /\ proc[v].attempts < n
  BY <1>0, <1>2, <1>11, <1>12 DEF InboxInv, HeldConsistent, Attempts
<1>14. ASSUME NEW v \in Workers PROVE HeldConsistent(v)'
  <2>1. CASE v = w
    <3>1. \A u \in Workers \ {w} : proc'[u] = proc[u]
      BY <1>0, <1>9
    <3>2. \A u \in Workers \ {w} : proc'[u].event = e => proc'[u].job # id /\ proc'[u].attempts # n
      BY <1>2, <1>12, <1>13, <3>1, <1>0 DEF Attempts
    <3> QED BY <1>2, <1>3, <1>4, <1>5, <1>7, <2>1, <3>2 DEF HeldConsistent, Attempts
  <2>2. CASE v # w
    <3>1. proc'[v] = proc[v] /\ \A u \in Workers \ {w} : proc'[u] = proc[u]
      BY <1>0, <1>9, <2>2
    <3>2. CASE proc[v].event = e
      <4>1. jobs'[e][proc[v].job] = "taken" /\ proc[v].attempts <= records'[e].attempts
        BY <1>0, <1>2, <1>3, <1>4, <1>12, <1>13, <2>2, <3>2
           DEF InboxInv, HeldConsistent, Attempts
      <4>2. proc[v].job # id /\ proc[v].attempts # n
        BY <1>0, <1>2, <1>12, <1>13, <2>2, <3>2 DEF Attempts
      <4> QED BY <1>5, <1>7, <3>1, <3>2, <4>1, <4>2, <2>2 DEF InboxInv, HeldConsistent
    <3>3. CASE proc[v].event # e
      BY <1>3, <1>4, <1>5, <1>7, <1>12, <3>1, <3>3 DEF InboxInv, HeldConsistent
    <3> QED BY <3>2, <3>3
  <2> QED BY <2>1, <2>2
<1>15. ASSUME ~overtaken', NEW v \in Workers PROVE LiveConsistent(v)'
  <2>1. CASE v = w
    BY <1>3, <1>5, <1>7, <2>1 DEF LiveConsistent
  <2>2. CASE v # w
    <3>1. proc'[v] = proc[v] /\ LiveConsistent(v)
      BY <1>0, <1>1, <1>9, <1>15, <2>2 DEF InboxInv
    <3>2. proc[v].pc \in Live => proc[v].event \in Events \ {e}
      BY <1>0, <1>11, <1>12, <3>1 DEF LiveConsistent, TypeInv, Seated, Live, Handling
    <3> QED BY <1>3, <3>1, <3>2 DEF LiveConsistent
  <2> QED BY <2>1, <2>2
<1>16. ASSUME ~overtaken', NEW f \in Events
       PROVE  RetryConsistent(f)' /\ OutcomeConsistent(f)' /\ Attended(f)'
  <2>0. RetryConsistent(f) /\ OutcomeConsistent(f) /\ Attended(f)
    BY <1>1, <1>16 DEF InboxInv
  <2>1. ASSUME NEW m \in Attempts, jobs'[f][<<"retry", m>>] # "absent"
        PROVE  m <= records'[f].attempts /\ \A v \in Workers : proc'[v].event = f => proc'[v].attempts # m
    <3>1. jobs[f][<<"retry", m>>] # "absent"
      <4> PICK j \in JobIds : j = <<"retry", m>>
        BY Numbered
      <4>1. jobs[f][j] # "absent"
        BY <1>0, <1>4, <2>1
      <4> QED BY <4>1
    <3>2. m <= records[f].attempts /\ \A v \in Workers : proc[v].event = f => proc[v].attempts # m
      BY <2>0, <3>1 DEF RetryConsistent
    <3> QED BY <1>0, <1>2, <1>3, <1>5, <1>7, <1>9, <1>11, <3>2 DEF Attempts
  <2>2. OutcomeConsistent(f)'
    BY <1>3, <2>0 DEF OutcomeConsistent
  <2>3. Attended(f)'
    <3>1. CASE f = e
      BY <1>0, <1>5, <1>7, <3>1 DEF Attended
    <3>2. CASE f # e
      <4>1. \A v \in Workers : proc[v].pc \in Live => proc'[v] = proc[v]
        BY <1>0, <1>9 DEF Live, Scheduling
      <4> QED BY <1>1, <1>3, <2>0, <3>2, <4>1 DEF Attended
    <3> QED BY <3>1, <3>2
  <2> QED BY <2>1, <2>2, <2>3 DEF RetryConsistent
<1>17. ASSUME NEW f \in Events PROVE AbsentConsistent(f)'
  <2>1. CASE f = e
    BY <1>3, <2>1 DEF AbsentConsistent
  <2>2. CASE f # e
    <3>1. AbsentConsistent(f) /\ records'[f] = records[f]
          /\ \A j \in JobIds : jobs'[f][j] = jobs[f][j]
      BY <1>3, <1>4, <2>2 DEF InboxInv
    <3>2. ASSUME records[f].status = "ABSENT", NEW q \in Processes
          PROVE  /\ f \notin proc'[q].found
                 /\ proc'[q].event = f => q \in Streams /\ proc'[q].pc # "enqueueing"
      BY <1>5, <1>7, <1>9, <2>2, <3>1, <3>2 DEF AbsentConsistent
    <3> QED BY <3>1, <3>2 DEF AbsentConsistent
  <2> QED BY <2>1, <2>2
<1>18. ASSUME NEW s \in Streams PROVE EnqueueConsistent(s)'
  <2>1. \A t \in Streams : proc'[t] = proc[t]
    BY <1>0, <1>9
  <2>2. CASE proc[s].pc = "enqueueing"
    <3>1. proc[s].event \in Events
      BY <1>0, <2>2, Handled DEF TypeInv, Seated
    <3>2. jobs[proc[s].event][NoJob] = "absent"
      BY <2>2 DEF InboxInv, EnqueueConsistent
    <3>3. jobs'[proc[s].event][NoJob] = "absent"
      BY <1>0, <1>4, <3>1, <3>2, Numbered
    <3> QED BY <2>1, <2>2, <3>3 DEF InboxInv, EnqueueConsistent
  <2> QED BY <2>1, <2>2 DEF EnqueueConsistent
<1>19. ASSUME deaths = 0 /\ ~overtaken, NEW f \in Events, Claimable(f)'
       PROVE  \/ \E j \in JobIds : jobs'[f][j] \in {"queued", "taken"}
              \/ \E q \in Processes : proc'[q].pc = "enqueueing" /\ proc'[q].event = f
  <2>1. f # e /\ Claimable(f)
    BY <1>3, <1>19 DEF Claimable
  <2>2. \A q \in Processes : proc[q].pc = "enqueueing" => proc'[q] = proc[q]
    BY <1>0, <1>9
  <2> QED BY <1>4, <1>19, <2>1, <2>2 DEF InboxInv, OpenEventsQueued, AtStep
<1>20. OpenEventsQueued'
  BY <1>1, <1>19 DEF OpenEventsQueued, AtStep
<1> QED BY <1>10, <1>14, <1>15, <1>16, <1>17, <1>18, <1>20 DEF InboxInv

\* A worker gives up its event e, whose row keeps its status only if a retry is queued,
\* something died or a recovery went wrong.
Releases(w, e) ==
  /\ w \in Workers /\ e = proc[w].event /\ overtaken' = overtaken /\ (deaths' = 0 => deaths = 0)
  /\ proc'[w].pc \in {"idle", "down"} /\ proc'[w].event = NoEvent /\ proc'[w].found = {}
  /\ \A q \in Processes \ {w} : proc'[q] = proc[q]
  /\ \A f \in Events \ {e} : records'[f] = records[f]
  /\ records'[e].attempts = records[e].attempts
  /\ \/ records'[e].status = records[e].status
     \/ /\ proc[w].pc \in Live /\ records'[e].status \in Settled
        /\ records'[e].status = "DEAD_LETTER" => proc[w].attempts = MaxAttempts
  /\ records'[e].status = records[e].status /\ deaths' = 0 /\ ~overtaken =>
       /\ proc[w].pc = "requeueing"
       /\ jobs[e][<<"retry", proc[w].attempts>>] = "absent"
            => jobs'[e][<<"retry", proc[w].attempts>>] = "queued"
  /\ \A f \in Events, id \in JobIds :
       jobs'[f][id] # jobs[f][id] =>
         /\ f = e
         /\ \/ id = proc[w].job /\ jobs'[f][id] \in {"kept", "queued"}
            \/ /\ id = <<"retry", proc[w].attempts>> /\ jobs[f][id] = "absent"
               /\ jobs'[f][id] = "queued"

LEMMA ReleaseKeepsInv ==
  ASSUME InboxInv, TypeInv', NEW w \in Processes, NEW e \in Events, Releases(w, e)
  PROVE  InboxInv'
<1>0. /\ Workers \subseteq Processes /\ Streams \subseteq Processes /\ NoEvent \notin Events
      /\ w \in Workers /\ w \notin Streams /\ proc[w].event = e /\ e # NoEvent
      /\ overtaken' = overtaken /\ (deaths' = 0 => deaths = 0)
      /\ records'[e].attempts = records[e].attempts
      /\ TypeInv
  BY InboxAssumption, Kinds DEF Processes, Releases, InboxInv
<1>1. /\ \A v \in Workers \ {w} : proc'[v] = proc[v]
      /\ \A s \in Streams : proc'[s] = proc[s]
  BY <1>0 DEF Releases
<1>2. PICK copy \in Attempts : copy = proc[w].attempts
  BY <1>0, Handled
<1>3. PICK retry \in JobIds : retry = <<"retry", copy>>
  BY Numbered
<1>4. PICK own \in JobIds : own = proc[w].job
  BY <1>0, Handled
<1>5. jobs[e][own] = "taken" /\ copy <= records[e].attempts
  BY <1>0, <1>2, <1>4 DEF InboxInv, HeldConsistent
<1>6. \A f \in Events, id \in JobIds :
        jobs'[f][id] # jobs[f][id] =>
          /\ f = e
          /\ \/ id = own
             \/ id = retry /\ jobs[f][id] = "absent" /\ jobs'[f][id] = "queued"
  BY <1>2, <1>3, <1>4 DEF Releases
<1>7. records[e].status # "ABSENT" /\ records'[e].status # "ABSENT"
  BY <1>0 DEF InboxInv, AbsentConsistent, Releases, Settled
<1>8. ASSUME NEW v \in Workers PROVE HeldConsistent(v)'
  <2>1. CASE v = w
    BY <2>1 DEF Releases, HeldConsistent
  <2>2. CASE v # w /\ proc[v].event # NoEvent
    <3>1. PICK f \in Events : f = proc[v].event
      BY <1>0, <2>2, Handled
    <3>2. PICK job \in JobIds : job = proc[v].job
      BY <1>0, <2>2, Handled
    <3>3. jobs[f][job] = "taken" /\ proc[v].attempts <= records[f].attempts
      BY <2>2, <3>1, <3>2 DEF InboxInv, HeldConsistent
    <3>4. f = e => job # own
      BY <1>0, <1>4, <2>2, <3>1, <3>2 DEF InboxInv, HeldConsistent
    <3>5. jobs'[f][job] = "taken" /\ records'[f].attempts = records[f].attempts
      BY <1>0, <1>6, <3>3, <3>4 DEF Releases
    <3> QED BY <1>0, <1>1, <2>2, <3>1, <3>2, <3>3, <3>5 DEF InboxInv, HeldConsistent, Releases
  <2>3. CASE v # w /\ proc[v].event = NoEvent
    BY <1>1, <2>3 DEF HeldConsistent
  <2> QED BY <2>1, <2>2, <2>3
<1>9. ASSUME ~overtaken', NEW v \in Workers PROVE LiveConsistent(v)'
  <2>1. CASE v = w
    BY <2>1 DEF Releases, LiveConsistent, Live, Scheduling
  <2>2. CASE v # w
    <3>1. LiveConsistent(v) /\ LiveConsistent(w) /\ proc'[v] = proc[v]
      BY <1>0, <1>1, <1>9, <2>2 DEF InboxInv
    <3>2. CASE proc[v].pc \in Live /\ proc[v].event = e
      <4>1. proc[v].attempts # proc[w].attempts
        BY <1>0, <2>2, <3>2 DEF InboxInv, HeldConsistent
      <4>2. records'[e].status = records[e].status
        BY <1>0, <3>1, <3>2, <4>1 DEF LiveConsistent, Releases
      <4> QED BY <1>0, <3>1, <3>2, <4>2 DEF LiveConsistent
    <3>3. CASE proc[v].pc \in Live /\ proc[v].event # e
      <4>1. proc[v].event \in Events
        BY <1>0, <3>3, Handled DEF TypeInv, Seated, Live, Handling
      <4> QED BY <3>1, <3>3, <4>1 DEF LiveConsistent, Releases
    <3>4. CASE proc[v].pc \notin Live
      BY <3>1, <3>4 DEF LiveConsistent
    <3> QED BY <3>2, <3>3, <3>4
  <2> QED BY <2>1, <2>2
<1>10. ASSUME ~overtaken', NEW f \in Events
       PROVE  RetryConsistent(f)' /\ OutcomeConsistent(f)' /\ Attended(f)'
  <2>0. /\ RetryConsistent(f) /\ OutcomeConsistent(f) /\ Attended(f)
        /\ LiveConsistent(w)
    BY <1>0, <1>10 DEF InboxInv
  <2>1. ASSUME NEW m \in Attempts, jobs'[f][<<"retry", m>>] # "absent"
        PROVE  m <= records'[f].attempts /\ \A v \in Workers : proc'[v].event = f => proc'[v].attempts # m
    <3>0. records'[f].attempts = records[f].attempts
      BY <1>0 DEF Releases
    <3>1. \A v \in Workers : proc'[v].event = f => v # w /\ proc'[v] = proc[v]
      BY <1>0, <1>1 DEF Releases
    <3> PICK j \in JobIds : j = <<"retry", m>>
      BY Numbered
    <3>2. CASE f = e /\ m = copy
      <4>1. \A v \in Workers \ {w} : proc[v].event = e => proc[v].attempts # copy
        BY <1>0, <1>2 DEF InboxInv, HeldConsistent
      <4> QED BY <1>5, <3>0, <3>1, <3>2, <4>1
    <3>3. CASE ~(f = e /\ m = copy)
      <4>1. jobs[f][j] # "absent"
        BY <1>3, <1>5, <1>6, <2>1, <3>3
      <4> QED BY <2>0, <3>0, <3>1, <4>1 DEF RetryConsistent
    <3> QED BY <3>2, <3>3
  <2>2. OutcomeConsistent(f)'
    <3>1. CASE f # e
      BY <2>0, <3>1 DEF OutcomeConsistent, Releases
    <3>2. CASE f = e /\ records'[e].status = records[e].status
      BY <1>0, <2>0, <3>2 DEF OutcomeConsistent
    <3>3. CASE f = e /\ records'[e].status # records[e].status
      BY <1>0, <2>0, <3>3 DEF OutcomeConsistent, Releases, LiveConsistent, Settled
    <3> QED BY <3>1, <3>2, <3>3
  <2>3. Attended(f)'
    <3>1. ASSUME deaths' = 0, records'[f].status = "PROCESSING"
          PROVE  \E v \in Workers : proc'[v].pc \in Live /\ proc'[v].event = f
      <4>1. records[f].status = "PROCESSING"
        BY <3>1 DEF Releases, Settled
      <4>2. PICK v \in Workers : proc[v].pc \in Live /\ proc[v].event = f
        BY <1>0, <2>0, <3>1, <4>1 DEF Attended
      <4>3. v # w
        BY <1>0, <1>10, <3>1, <4>1, <4>2 DEF Releases, Live, Scheduling
      <4> QED BY <1>1, <4>2, <4>3
    <3> QED BY <3>1 DEF Attended
  <2> QED BY <2>1, <2>2, <2>3 DEF RetryConsistent
<1>11. ASSUME NEW f \in Events PROVE AbsentConsistent(f)'
  <2>1. CASE f = e
    BY <1>7, <2>1 DEF AbsentConsistent
  <2>2. CASE f # e
    <3>1. AbsentConsistent(f) /\ records'[f] = records[f]
          /\ \A j \in JobIds : jobs'[f][j] = jobs[f][j]
      BY <1>6, <2>2 DEF InboxInv, Releases
    <3>2. ASSUME records[f].status = "ABSENT", NEW q \in Processes
          PROVE  /\ f \notin proc'[q].found
                 /\ proc'[q].event = f => q \in Streams /\ proc'[q].pc # "enqueueing"
      BY <1>0, <2>2, <3>1, <3>2 DEF AbsentConsistent, Releases
    <3> QED BY <3>1, <3>2 DEF AbsentConsistent
  <2> QED BY <2>1, <2>2
<1>12. ASSUME NEW s \in Streams PROVE EnqueueConsistent(s)'
  <2>1. CASE proc[s].pc = "enqueueing"
    <3>1. proc[s].event \in Events
      BY <1>0, <2>1, Handled DEF TypeInv, Seated
    <3>2. jobs[proc[s].event][NoJob] = "absent"
      BY <2>1 DEF InboxInv, EnqueueConsistent
    <3>3. NoJob # retry
      BY <1>3 DEF NoJob
    <3>4. jobs'[proc[s].event][NoJob] = "absent"
      BY <1>5, <1>6, <3>1, <3>2, <3>3, Numbered
    <3> QED BY <1>1, <2>1, <3>4 DEF InboxInv, EnqueueConsistent
  <2>2. CASE proc[s].pc # "enqueueing"
    BY <1>1, <2>2 DEF EnqueueConsistent
  <2> QED BY <2>1, <2>2
<1>13. ASSUME deaths' = 0 /\ ~overtaken', NEW f \in Events, Claimable(f)'
       PROVE  \/ \E id \in JobIds : jobs'[f][id] \in {"queued", "taken"}
              \/ \E q \in Processes : proc'[q].pc = "enqueueing" /\ proc'[q].event = f
  <2>1. CASE f = e
    <3>1. records'[e].status = records[e].status
      BY <1>13, <2>1 DEF Claimable, Releases, Settled
    <3>2. RetryConsistent(e)
      BY <1>0, <1>13 DEF InboxInv
    <3>3. jobs[e][<<"retry", copy>>] = "absent"
      BY <1>0, <1>2, <3>2 DEF RetryConsistent
    <3>4. jobs'[e][retry] = "queued"
      BY <1>0, <1>2, <1>3, <1>13, <3>1, <3>3 DEF Releases
    <3> QED BY <2>1, <3>4
  <2>2. CASE f # e
    <3>1. Claimable(f) /\ \A id \in JobIds : jobs'[f][id] = jobs[f][id]
      BY <1>6, <1>13, <2>2 DEF Claimable, Releases
    <3>2. \A q \in Processes : proc[q].pc = "enqueueing" => proc'[q] = proc[q]
      BY <1>0 DEF Releases, TypeInv, Seated, Handling, Scheduling
    <3> QED BY <1>0, <1>13, <3>1, <3>2 DEF InboxInv, OpenEventsQueued, AtStep
  <2> QED BY <2>1, <2>2
<1>14. OpenEventsQueued'
  BY <1>13 DEF OpenEventsQueued, AtStep
<1> QED BY <1>0, <1>8, <1>9, <1>10, <1>11, <1>12, <1>14 DEF InboxInv

LEMMA CompleteKeepsInv ==
  ASSUME InboxInv, NEW w \in Processes, complete_event(w)
  PROVE  InboxInv'
<1>0. /\ TypeInv /\ TypeOK /\ jobs \in [Events -> [JobIds -> JobState]]
      /\ w \in Workers /\ proc[w].pc = "completing" /\ proc[w].event # NoEvent
  BY DEF InboxInv, TypeInv, TypeOK, complete_event, AtStep, Seated, Handling
<1>1. PICK e \in Events : e = proc[w].event
  BY <1>0, Handled
<1>2. PICK own \in JobIds : own = proc[w].job
  BY <1>0, Handled
<1>3. PICK status \in {"IGNORED", "PROCESSED"} : SetStatus(e, status)
  BY <1>1 DEF complete_event
<1>4. /\ records' \in [Events -> BrokerStreamEventRecord]
      /\ records'[e].status = status /\ records'[e].attempts = records[e].attempts
      /\ \A f \in Events \ {e} : records'[f] = records[f]
  BY <1>0, <1>3, RowSet DEF StreamEventProcessingStatus, Settled
<1>5. /\ jobs' \in [Events -> [JobIds -> JobState]]
      /\ \A f \in Events, j \in JobIds :
           jobs'[f][j] = IF f = e /\ j = own THEN "kept" ELSE jobs[f][j]
  BY <1>0, <1>1, <1>2, FinishedJobs DEF complete_event, EndJob
<1>6. /\ proc' \in [Processes -> Process] /\ \A q \in Processes : Seated(q)'
      /\ proc'[w].pc = "idle" /\ proc'[w].event = NoEvent /\ proc'[w].found = {}
      /\ \A q \in Processes \ {w} : proc'[q] = proc[q]
  BY <1>0, Rests DEF complete_event, EndJob, Rest
<1>7. UNCHANGED <<state_key, reconciles, deaths, stalled, overtaken>>
  BY DEF complete_event, history
<1>8. TypeInv'
  BY <1>0, <1>4, <1>5, <1>6, <1>7 DEF TypeInv, TypeOK
<1>9. proc[w].pc \in Live /\ status \in Settled
  BY <1>0 DEF Live, Settled
<1>10. ~overtaken => records[e].status = "PROCESSING"
  BY <1>0, <1>1, <1>9 DEF InboxInv, LiveConsistent
<1>11. Releases(w, e)
  BY <1>0, <1>1, <1>2, <1>4, <1>5, <1>6, <1>7, <1>9, <1>10 DEF Releases
<1> QED BY <1>8, <1>11, ReleaseKeepsInv

\* A failure that ends in a dead letter, or in one more attempt.
LEMMA FailKeepsInv ==
  ASSUME InboxInv, NEW w \in Processes, fail_event(w)
  PROVE  InboxInv'
<1>0. /\ TypeInv /\ TypeOK /\ jobs \in [Events -> [JobIds -> JobState]] /\ proc[w] \in Process
      /\ w \in Workers /\ proc[w].pc \in Scheduling /\ proc[w].pc \in Live
      /\ proc[w].event # NoEvent /\ w \notin Streams
  BY Kinds DEF InboxInv, TypeInv, TypeOK, fail_event, Seated, Handling, Live
<1>1. PICK e \in Events : e = proc[w].event
  BY <1>0, Handled
<1>2. /\ deaths' = deaths /\ overtaken' = overtaken /\ stalled' = TRUE
      /\ reconciles' \in Nat
  BY <1>0 DEF fail_event, TypeOK
<1>3. state_key' \in BOOLEAN
  <2>1. state_key \in BOOLEAN
    BY <1>0 DEF TypeOK
  <2>2. state_key' = state_key \/ state_key' = TRUE
    BY DEF fail_event
  <2> QED BY <2>1, <2>2
<1>4. proc[w].attempts \in Attempts /\ (~overtaken => records[e].attempts = proc[w].attempts)
      /\ (~overtaken => records[e].status = "PROCESSING")
  BY <1>0, <1>1, Handled DEF InboxInv, LiveConsistent
<1>5. CASE Exhausted(w)
  <2>0. SetStatus(e, "DEAD_LETTER") /\ EndJob(w)
    BY <1>1, <1>5 DEF fail_event
  <2>1. /\ records' \in [Events -> BrokerStreamEventRecord]
        /\ records'[e].status = "DEAD_LETTER" /\ records'[e].attempts = records[e].attempts
        /\ \A f \in Events \ {e} : records'[f] = records[f]
    BY <1>0, <2>0, RowSet DEF StreamEventProcessingStatus, Settled
  <2>2. PICK own \in JobIds : own = proc[w].job
    BY <1>0, Handled
  <2>3. /\ jobs' \in [Events -> [JobIds -> JobState]]
        /\ \A f \in Events, j \in JobIds :
             jobs'[f][j] = IF f = e /\ j = own THEN "kept" ELSE jobs[f][j]
    BY <1>0, <1>1, <2>0, <2>2, FinishedJobs DEF EndJob
  <2>4. /\ proc' \in [Processes -> Process] /\ \A q \in Processes : Seated(q)'
        /\ proc'[w].pc = "idle" /\ proc'[w].event = NoEvent /\ proc'[w].found = {}
        /\ \A q \in Processes \ {w} : proc'[q] = proc[q]
    BY <1>0, <2>0, Rests DEF EndJob, Rest
  <2>5. TypeInv'
    BY <1>0, <1>2, <1>3, <2>1, <2>3, <2>4 DEF TypeInv, TypeOK
  <2>6. proc[w].attempts = MaxAttempts
    BY <1>4, <1>5, InboxAssumption DEF Exhausted, Attempts
  <2>7. Releases(w, e)
    BY <1>0, <1>1, <1>2, <1>4, <2>1, <2>2, <2>3, <2>4, <2>6 DEF Releases, Settled
  <2> QED BY <2>5, <2>7, ReleaseKeepsInv
<1>6. CASE ~Exhausted(w)
  <2>0. SetStatus(e, "FAILED") /\ Goto(w, "requeueing") /\ UNCHANGED jobs
    BY <1>1, <1>6 DEF fail_event
  <2>1. /\ records' \in [Events -> BrokerStreamEventRecord]
        /\ records'[e].status = "FAILED" /\ records'[e].attempts = records[e].attempts
        /\ \A f \in Events \ {e} : records'[f] = records[f]
    BY <1>0, <2>0, RowSet DEF StreamEventProcessingStatus
  <2> DEFINE new == [proc[w] EXCEPT !.pc = "requeueing"]
  <2>2. /\ new \in Process /\ new.pc = "requeueing" /\ new.event = e /\ new.job = proc[w].job
        /\ new.attempts = proc[w].attempts /\ new.found = proc[w].found
    BY <1>0, <1>1 DEF Process, Handling
  <2>3. proc' = [proc EXCEPT ![w] = new]
    BY <2>0 DEF Goto
  <2> HIDE DEF new
  <2>4. proc'[w] = new
    BY <1>0, <2>3 DEF TypeOK
  <2>5. Seated(w)'
    BY <1>0, <1>1, <2>2, <2>4, Kinds DEF Seated, Handling
  <2>6. /\ proc' \in [Processes -> Process] /\ \A q \in Processes : Seated(q)'
        /\ \A q \in Processes \ {w} : proc'[q] = proc[q]
    BY <1>0, <2>2, <2>3, <2>5, Updated
  <2>7. TypeInv'
    BY <1>0, <1>2, <1>3, <2>0, <2>1, <2>6 DEF TypeInv, TypeOK
  <2>8. /\ \A q \in Processes :
             /\ proc'[q].event = proc[q].event /\ proc'[q].job = proc[q].job
             /\ proc'[q].attempts = proc[q].attempts /\ proc'[q].found = proc[q].found
             /\ proc'[q].pc = "enqueueing" <=> proc[q].pc = "enqueueing"
        /\ \A f \in Events : records'[f].attempts = records[f].attempts
        /\ Workers \subseteq Processes /\ Streams \subseteq Processes
    BY <1>0, <1>1, <2>1, <2>2, <2>4, <2>6 DEF Processes, Scheduling
  <2>9. \A v \in Workers : proc[v].event # NoEvent => proc[v].event \in Events
    BY <1>0, <2>8, Handled
  <2>10. \A v \in Workers : HeldConsistent(v)'
    BY <2>0, <2>8, <2>9 DEF InboxInv, HeldConsistent
  <2>11. ASSUME ~overtaken', NEW v \in Workers PROVE LiveConsistent(v)'
    <3>1. CASE v = w
      BY <2>2, <2>4, <3>1 DEF LiveConsistent, Live, Scheduling
    <3>2. CASE v # w
      <4>1. LiveConsistent(v) /\ proc'[v] = proc[v]
        BY <1>2, <2>6, <2>8, <2>11, <3>2 DEF InboxInv
      <4>2. proc[v].pc \in Live => proc[v].event \in Events
        BY <1>0, <2>8, <2>9 DEF TypeInv, Seated, Live, Handling
      <4>3. proc[v].pc \in Live => proc[v].event # e
        BY <1>0, <1>1, <1>2, <1>4, <2>11, <3>2, <4>1 DEF InboxInv, HeldConsistent, LiveConsistent
      <4> QED BY <2>1, <4>1, <4>2, <4>3 DEF LiveConsistent
    <3> QED BY <3>1, <3>2
  <2>12. ASSUME ~overtaken', NEW f \in Events
         PROVE  RetryConsistent(f)' /\ OutcomeConsistent(f)' /\ Attended(f)'
    <3>0. RetryConsistent(f) /\ OutcomeConsistent(f) /\ Attended(f)
      BY <1>2, <2>12 DEF InboxInv
    <3>1. RetryConsistent(f)'
      BY <2>0, <2>8, <3>0 DEF RetryConsistent
    <3>2. CASE f = e
      <4>1. records'[e].attempts < MaxAttempts
        BY <1>2, <1>4, <1>6, <2>1, <2>12, InboxAssumption DEF Exhausted, Attempts
      <4> QED BY <2>1, <3>1, <3>2, <4>1 DEF OutcomeConsistent, Attended
    <3>3. CASE f # e
      <4>1. Attended(f)'
        BY <1>1, <1>2, <2>1, <2>6, <2>8, <3>0, <3>3 DEF Attended
      <4> QED BY <2>1, <3>0, <3>1, <3>3, <4>1 DEF OutcomeConsistent
    <3> QED BY <3>2, <3>3
  <2>13. \A f \in Events : AbsentConsistent(f)'
    BY <2>0, <2>1, <2>8 DEF InboxInv, AbsentConsistent
  <2>14. \A s \in Streams : EnqueueConsistent(s)'
    BY <2>0, <2>8 DEF InboxInv, EnqueueConsistent
  <2>15. ASSUME deaths = 0 /\ ~overtaken, NEW f \in Events, Claimable(f)'
         PROVE  \/ \E j \in JobIds : jobs'[f][j] \in {"queued", "taken"}
                \/ \E q \in Processes : proc'[q].pc = "enqueueing" /\ proc'[q].event = f
    <3>1. CASE f = e
      <4>1. proc[w].job \in JobIds /\ jobs[e][proc[w].job] = "taken"
        BY <1>0, <1>1, Handled DEF InboxInv, HeldConsistent
      <4> QED BY <2>0, <3>1, <4>1
    <3>2. CASE f # e
      BY <2>0, <2>1, <2>8, <2>15, <3>2 DEF InboxInv, OpenEventsQueued, AtStep, Claimable
    <3> QED BY <3>1, <3>2
  <2>16. OpenEventsQueued'
    BY <1>2, <2>15 DEF OpenEventsQueued, AtStep
  <2> QED BY <2>7, <2>10, <2>11, <2>12, <2>13, <2>14, <2>16 DEF InboxInv
<1> QED BY <1>5, <1>6

LEMMA RequeueKeepsInv ==
  ASSUME InboxInv, NEW w \in Processes, Requeue(w)
  PROVE  InboxInv'
<1>0. /\ TypeInv /\ TypeOK /\ jobs \in [Events -> [JobIds -> JobState]]
      /\ w \in Workers /\ proc[w].pc = "requeueing" /\ proc[w].event # NoEvent
  BY Kinds DEF InboxInv, TypeInv, TypeOK, Requeue, AtStep, Seated, Handling, Scheduling
<1>1. PICK e \in Events : e = proc[w].event
  BY <1>0, Handled
<1>2. PICK own \in JobIds : own = proc[w].job
  BY <1>0, Handled
<1>3. PICK retry \in JobIds : retry = <<"retry", proc[w].attempts>>
  BY <1>0, Handled
<1>4. PICK table \in [Events -> [JobIds -> JobState]] :
        /\ jobs' = Finished(e, own, table)
        /\ \A f \in Events, j \in JobIds :
             table[f][j] = IF f = e /\ j = retry /\ jobs[e][retry] = "absent"
                           THEN "queued" ELSE jobs[f][j]
  <2>1. jobs' = Finished(e, own, Enqueued(e, retry, jobs))
    BY <1>1, <1>2, <1>3 DEF Requeue
  <2> DEFINE table == Enqueued(e, retry, jobs)
  <2>2. /\ table \in [Events -> [JobIds -> JobState]]
        /\ \A f \in Events, j \in JobIds :
             table[f][j] = IF f = e /\ j = retry /\ jobs[e][retry] = "absent"
                           THEN "queued" ELSE jobs[f][j]
    BY <1>0, EnqueuedJobs
  <2> QED BY <2>1, <2>2
<1>5. /\ jobs' \in [Events -> [JobIds -> JobState]]
      /\ \A f \in Events, j \in JobIds :
           jobs'[f][j] = IF f = e /\ j = own THEN "kept" ELSE table[f][j]
  BY <1>4, FinishedJobs
<1>6. jobs[e][own] = "taken"
  BY <1>0, <1>1, <1>2 DEF InboxInv, HeldConsistent
<1>7. /\ proc' \in [Processes -> Process] /\ \A q \in Processes : Seated(q)'
      /\ proc'[w].pc = "idle" /\ proc'[w].event = NoEvent /\ proc'[w].found = {}
      /\ \A q \in Processes \ {w} : proc'[q] = proc[q]
  BY <1>0, Rests DEF Requeue, Rest
<1>8. UNCHANGED <<records, state_key, reconciles, deaths, stalled, overtaken>>
  BY DEF Requeue, history
<1>9. TypeInv'
  BY <1>0, <1>5, <1>7, <1>8 DEF TypeInv, TypeOK
<1>10. jobs[e][retry] = "absent" => jobs'[e][retry] = "queued"
  BY <1>4, <1>5, <1>6
<1>11. \A f \in Events, j \in JobIds :
         jobs'[f][j] # jobs[f][j] =>
           /\ f = e
           /\ \/ j = own /\ jobs'[f][j] = "kept"
              \/ j = retry /\ jobs[f][j] = "absent" /\ jobs'[f][j] = "queued"
  BY <1>4, <1>5
<1>12. Releases(w, e)
  BY <1>0, <1>1, <1>2, <1>3, <1>7, <1>8, <1>10, <1>11 DEF Releases
<1> QED BY <1>9, <1>12, ReleaseKeepsInv

\* A process gives up or dies.
LEMMA DeathKeepsInv ==
  ASSUME InboxInv, NEW p \in Processes, Abort(p) \/ Crash(p)
  PROVE  InboxInv'
<1>0. /\ TypeInv /\ TypeOK /\ Seated(p) /\ jobs \in [Events -> [JobIds -> JobState]]
  BY DEF InboxInv, TypeInv, TypeOK
<1>1. /\ deaths' = deaths + 1 /\ deaths' # 0 /\ deaths' \in 0 .. MaxDeaths
      /\ UNCHANGED <<records, state_key, stalled, overtaken>>
  BY <1>0, InboxAssumption DEF Abort, Crash, DiesOrGivesUp, TypeOK
<1>2. reconciles' \in Nat
  BY <1>0 DEF Abort, Crash, TypeOK
<1>3. PICK pc \in {"idle", "down", "recovered"} :
        /\ pc \in {"idle", "down"} /\ (pc = "idle" \/ p \in Workers)
        /\ proc' = [proc EXCEPT ![p] = Resting(pc)]
  <2>1. CASE Abort(p)
    BY <2>1 DEF Abort, Rest
  <2>2. CASE Crash(p)
    BY <2>2 DEF Crash
  <2> QED BY <2>1, <2>2
<1>4. /\ proc' \in [Processes -> Process] /\ \A q \in Processes : Seated(q)'
      /\ proc'[p].pc = pc /\ proc'[p].event = NoEvent /\ proc'[p].found = {}
      /\ \A q \in Processes \ {p} : proc'[q] = proc[q]
  BY <1>0, <1>3, Rests
<1>5. CASE p \in Workers /\ proc[p].event # NoEvent
  <2>1. PICK e \in Events : e = proc[p].event
    BY <1>0, <1>5, Handled
  <2>2. PICK own \in JobIds : own = proc[p].job
    BY <1>0, <1>5, Handled
  <2>3. /\ jobs' \in [Events -> [JobIds -> JobState]]
        /\ \A f \in Events, j \in JobIds :
             /\ ~(f = e /\ j = own) => jobs'[f][j] = jobs[f][j]
             /\ f = e /\ j = own => jobs'[f][j] \in {"kept", "queued"}
    <3>1. CASE Abort(p)
      <4>1. jobs' = Finished(e, own, jobs)
        BY <1>5, <2>1, <2>2, <3>1 DEF Abort
      <4> QED BY <1>0, <4>1, FinishedJobs
    <3>2. CASE Crash(p)
      <4>1. jobs' = [jobs EXCEPT ![e][own] = "queued"]
        BY <1>5, <2>1, <2>2, <3>2 DEF Crash
      <4> QED BY <1>0, <4>1 DEF JobState
    <3> QED BY <3>1, <3>2
  <2>4. TypeInv'
    BY <1>0, <1>1, <1>2, <1>4, <2>3 DEF TypeInv, TypeOK
  <2>5. Releases(p, e)
    BY <1>1, <1>3, <1>4, <1>5, <2>1, <2>2, <2>3 DEF Releases
  <2> QED BY <2>4, <2>5, ReleaseKeepsInv
<1>6. CASE ~(p \in Workers /\ proc[p].event # NoEvent)
  <2>1. jobs' = jobs
    BY <1>6 DEF Abort, Crash
  <2>2. TypeInv'
    BY <1>0, <1>1, <1>2, <1>4, <2>1 DEF TypeInv, TypeOK
  <2>3. p \in Workers => proc[p].event = NoEvent /\ proc[p].pc \notin Live
    BY <1>0, <1>6 DEF Seated, Live, Handling
  <2>4. Glides(p)
    BY <1>1, <1>3, <1>4, <2>1, <2>3 DEF Glides, Live, Scheduling
  <2> QED BY <2>2, <2>4, GlideKeepsInv
<1> QED BY <1>5, <1>6

\* Rows return to PENDING: those of dead workers, or a recovery has gone wrong.
LEMMA RecoveryKeepsInv ==
  ASSUME InboxInv, NEW w \in Processes, startup_recovery(w)
  PROVE  InboxInv'
<1>0. /\ TypeInv /\ TypeOK /\ proc[w] \in Process
      /\ w \in Workers /\ w \notin Streams /\ proc[w].event = NoEvent /\ proc[w].pc \notin Live
      /\ Workers \subseteq Processes /\ Streams \subseteq Processes
  BY Kinds DEF InboxInv, TypeInv, TypeOK, startup_recovery, AtStep, Seated, Handling, Scheduling,
               Live, Processes
<1>1. PICK found \in SUBSET Events : found = proc[w].found
  BY <1>0 DEF Process
<1>2. /\ records' \in [Events -> BrokerStreamEventRecord]
      /\ \A e \in found : records'[e].status = "PENDING" /\ records'[e].attempts = records[e].attempts
      /\ \A e \in Events \ found : records'[e] = records[e]
  <2>1. \A e \in Events : [records[e] EXCEPT !.status = "PENDING"] \in BrokerStreamEventRecord
          /\ [records[e] EXCEPT !.status = "PENDING"].status = "PENDING"
          /\ [records[e] EXCEPT !.status = "PENDING"].attempts = records[e].attempts
    BY <1>0 DEF TypeOK, BrokerStreamEventRecord, StreamEventProcessingStatus
  <2>2. records' = [e \in Events |->
          IF e \in found THEN [records[e] EXCEPT !.status = "PENDING"] ELSE records[e]]
    BY <1>1 DEF startup_recovery
  <2> HIDE DEF BrokerStreamEventRecord
  <2> QED BY <1>0, <2>1, <2>2 DEF TypeOK
<1>3. UNCHANGED <<jobs, state_key, reconciles, deaths, stalled>>
  BY DEF startup_recovery
<1>4. /\ proc' \in [Processes -> Process] /\ \A q \in Processes : Seated(q)'
      /\ proc'[w].pc = "recovered" /\ proc'[w].event = NoEvent /\ proc'[w].found = {}
      /\ \A q \in Processes \ {w} : proc'[q] = proc[q]
  BY <1>0, Rests DEF startup_recovery
<1>5. ~overtaken' => ~overtaken /\ \A e \in found : ~Alive(e)
  BY <1>1 DEF startup_recovery
<1>6. overtaken' \in BOOLEAN
  BY DEF startup_recovery
<1>7. TypeInv'
  BY <1>0, <1>2, <1>3, <1>4, <1>6 DEF TypeInv, TypeOK
<1>8. /\ \A v \in Workers : proc'[v].event # NoEvent =>
           proc'[v] = proc[v] /\ proc[v].event \in Events
      /\ \A v \in Workers : proc'[v].pc \in Live => proc'[v].event # NoEvent
      /\ \A v \in Workers : proc[v].pc \in Live => proc'[v] = proc[v]
      /\ \A s \in Streams : proc'[s] = proc[s]
  <2>1. \A v \in Workers : proc[v].event # NoEvent => proc[v].event \in Events
    BY <1>0, Handled
  <2>2. \A v \in Workers : v # w => proc'[v] = proc[v]
    BY <1>0, <1>4
  <2>3. \A v \in Workers : Seated(v)'
    BY <1>0, <1>4
  <2>4. \A v \in Workers : proc'[v].pc \in Live => proc'[v].event # NoEvent
    BY <2>3 DEF Seated, Live, Handling
  <2>5. \A s \in Streams : proc'[s] = proc[s]
    BY <1>0, <1>4
  <2> QED BY <1>0, <1>4, <2>1, <2>2, <2>4, <2>5
<1>9. \A e \in Events : records'[e].attempts = records[e].attempts
  BY <1>2
<1>10. \A v \in Workers : HeldConsistent(v)'
  BY <1>3, <1>8, <1>9 DEF InboxInv, HeldConsistent
<1>11. ASSUME ~overtaken' PROVE \A v \in Workers : proc[v].event \notin found
  BY <1>0, <1>5, <1>11 DEF Alive
<1>12. ASSUME ~overtaken', NEW v \in Workers PROVE LiveConsistent(v)'
  <2>1. LiveConsistent(v)
    BY <1>5, <1>12 DEF InboxInv
  <2> QED BY <1>2, <1>8, <1>11, <1>12, <2>1 DEF LiveConsistent
<1>13. ASSUME ~overtaken', NEW e \in Events
       PROVE  RetryConsistent(e)' /\ OutcomeConsistent(e)' /\ Attended(e)'
  <2>0. RetryConsistent(e) /\ OutcomeConsistent(e) /\ Attended(e) /\ e # NoEvent
    BY <1>5, <1>13, InboxAssumption DEF InboxInv
  <2>1. RetryConsistent(e)'
    BY <1>3, <1>8, <1>9, <2>0 DEF RetryConsistent
  <2>2. OutcomeConsistent(e)'
    BY <1>2, <2>0 DEF OutcomeConsistent
  <2>3. Attended(e)'
    BY <1>2, <1>3, <1>8, <2>0 DEF Attended
  <2> QED BY <2>1, <2>2, <2>3
<1>14. ASSUME NEW e \in Events PROVE AbsentConsistent(e)'
  <2>1. AbsentConsistent(e) /\ e # NoEvent
    BY InboxAssumption DEF InboxInv
  <2>2. records'[e].status = "ABSENT" => records[e].status = "ABSENT"
    BY <1>2
  <2>3. ASSUME records[e].status = "ABSENT", NEW q \in Processes
        PROVE  /\ e \notin proc'[q].found
               /\ proc'[q].event = e => q \in Streams /\ proc'[q].pc # "enqueueing"
    BY <1>4, <2>1, <2>3 DEF AbsentConsistent
  <2> QED BY <1>3, <2>1, <2>2, <2>3 DEF AbsentConsistent
<1>15. \A s \in Streams : EnqueueConsistent(s)'
  BY <1>3, <1>8 DEF InboxInv, EnqueueConsistent
<1>16. ASSUME deaths = 0 /\ ~overtaken', NEW e \in Events, Claimable(e)'
       PROVE  \/ \E j \in JobIds : jobs'[e][j] \in {"queued", "taken"}
              \/ \E q \in Processes : proc'[q].pc = "enqueueing" /\ proc'[q].event = e
  <2>1. e \notin found
    <3>1. Attended(e)
      BY <1>5, <1>16 DEF InboxInv
    <3> QED BY <1>5, <1>11, <1>16, <3>1 DEF Attended, Alive
  <2>2. Claimable(e)
    BY <1>2, <1>16, <2>1 DEF Claimable
  <2>3. \A q \in Processes : proc[q].pc = "enqueueing" => proc'[q] = proc[q]
    BY <1>0, <1>4 DEF startup_recovery, AtStep
  <2> QED BY <1>3, <1>5, <1>16, <2>2, <2>3 DEF InboxInv, OpenEventsQueued, AtStep
<1>17. OpenEventsQueued'
  BY <1>3, <1>16 DEF OpenEventsQueued, AtStep
<1> QED BY <1>7, <1>10, <1>12, <1>13, <1>14, <1>15, <1>17 DEF InboxInv

\* A dead letter is PENDING again, with its attempts used up.
LEMMA RetryKeepsInv ==
  ASSUME InboxInv, NEW c \in Processes, NEW e \in Events, retry_event(c, e)
  PROVE  InboxInv'
<1>0. /\ TypeInv /\ TypeOK /\ proc[c] \in Process
      /\ c \in Clients /\ c \notin Workers /\ c \notin Streams /\ proc[c].pc = "idle"
      /\ records[e].status = "DEAD_LETTER" /\ e # NoEvent
      /\ Workers \subseteq Processes /\ Streams \subseteq Processes
  BY Kinds, InboxAssumption DEF InboxInv, TypeInv, TypeOK, retry_event, AtStep, Processes
<1>1. UNCHANGED <<jobs, state_key, reconciles, deaths, stalled, overtaken>>
  BY DEF retry_event, history
<1>2. /\ records' \in [Events -> BrokerStreamEventRecord]
      /\ records'[e].status = "PENDING" /\ records'[e].attempts = records[e].attempts
      /\ \A f \in Events \ {e} : records'[f] = records[f]
  BY <1>0, RowSet DEF retry_event, StreamEventProcessingStatus
<1> DEFINE new == [Resting("retrying") EXCEPT !.event = e]
<1>3. new \in Process /\ new.pc = "retrying" /\ new.event = e /\ new.found = {}
  BY RestingTyped DEF Process
<1>4. proc' = [proc EXCEPT ![c] = new]
  BY DEF retry_event
<1> HIDE DEF new
<1>5. proc'[c] = new
  BY <1>0, <1>4 DEF TypeOK
<1>6. Seated(c)'
  BY <1>0, <1>3, <1>5 DEF Seated
<1>7. /\ proc' \in [Processes -> Process] /\ \A q \in Processes : Seated(q)'
      /\ \A q \in Processes \ {c} : proc'[q] = proc[q]
  BY <1>0, <1>3, <1>4, <1>6, Updated
<1>8. TypeInv'
  BY <1>0, <1>1, <1>2, <1>7 DEF TypeInv, TypeOK
<1>9. /\ \A w \in Workers : proc'[w] = proc[w]
      /\ \A s \in Streams : proc'[s] = proc[s]
      /\ \A f \in Events : records'[f].attempts = records[f].attempts
  BY <1>0, <1>2, <1>7
<1>10. \A w \in Workers : proc[w].event # NoEvent => proc[w].event \in Events
  BY <1>0, Handled
<1>11. \A w \in Workers : HeldConsistent(w)'
  BY <1>1, <1>9, <1>10 DEF InboxInv, HeldConsistent
<1>12. ASSUME ~overtaken', NEW w \in Workers PROVE LiveConsistent(w)'
  <2>1. LiveConsistent(w)
    BY <1>1, <1>12 DEF InboxInv
  <2>2. proc[w].pc \in Live => proc[w].event \in Events \ {e}
    BY <1>0, <1>10, <2>1 DEF LiveConsistent, TypeInv, Seated, Live, Handling
  <2> QED BY <1>2, <1>9, <2>1, <2>2 DEF LiveConsistent
<1>13. ASSUME ~overtaken', NEW f \in Events
       PROVE  RetryConsistent(f)' /\ OutcomeConsistent(f)' /\ Attended(f)'
  <2>0. RetryConsistent(f) /\ OutcomeConsistent(f) /\ Attended(f)
    BY <1>1, <1>13 DEF InboxInv
  <2>1. RetryConsistent(f)'
    BY <1>1, <1>9, <2>0 DEF RetryConsistent
  <2>2. OutcomeConsistent(f)' /\ Attended(f)'
    BY <1>1, <1>2, <1>9, <2>0 DEF OutcomeConsistent, Attended
  <2> QED BY <2>1, <2>2
<1>14. ASSUME NEW f \in Events PROVE AbsentConsistent(f)'
  <2>1. CASE f = e
    BY <1>2, <2>1 DEF AbsentConsistent
  <2>2. CASE f # e
    <3>1. AbsentConsistent(f) /\ records'[f] = records[f]
      BY <1>2, <2>2 DEF InboxInv
    <3>2. ASSUME records[f].status = "ABSENT", NEW q \in Processes
          PROVE  /\ f \notin proc'[q].found
                 /\ proc'[q].event = f => q \in Streams /\ proc'[q].pc # "enqueueing"
      BY <1>3, <1>5, <1>7, <2>2, <3>1, <3>2 DEF AbsentConsistent
    <3> QED BY <1>1, <3>1, <3>2 DEF AbsentConsistent
  <2> QED BY <2>1, <2>2
<1>15. \A s \in Streams : EnqueueConsistent(s)'
  BY <1>1, <1>9 DEF InboxInv, EnqueueConsistent
<1>16. ASSUME deaths = 0 /\ ~overtaken, NEW f \in Events, Claimable(f)'
       PROVE  \/ \E j \in JobIds : jobs'[f][j] \in {"queued", "taken"}
              \/ \E q \in Processes : proc'[q].pc = "enqueueing" /\ proc'[q].event = f
  <2>1. f # e
    BY <1>0, <1>2, <1>16, InboxAssumption DEF InboxInv, OutcomeConsistent, Claimable
  <2>2. Claimable(f)
    BY <1>2, <1>16, <2>1 DEF Claimable
  <2>3. \A q \in Processes : proc[q].pc = "enqueueing" => proc'[q] = proc[q]
    BY <1>0, <1>7
  <2> QED BY <1>1, <1>16, <2>2, <2>3 DEF InboxInv, OpenEventsQueued, AtStep
<1>17. OpenEventsQueued'
  BY <1>1, <1>16 DEF OpenEventsQueued, AtStep
<1> QED BY <1>8, <1>11, <1>12, <1>13, <1>14, <1>15, <1>17 DEF InboxInv

LEMMA CleanupKeepsInv ==
  ASSUME InboxInv, NEW e \in Events, cleanup(e)
  PROVE  InboxInv'
<1>0. /\ TypeInv /\ TypeOK /\ Workers \subseteq Processes /\ Streams \subseteq Processes
      /\ \A id \in JobIds : jobs[e][id] = "absent"
      /\ \A p \in Processes : proc[p].event # e /\ e \notin proc[p].found
  BY DEF InboxInv, TypeInv, cleanup, Processes
<1>1. UNCHANGED <<jobs, state_key, reconciles, proc, deaths, stalled, overtaken>>
  BY DEF cleanup, history
<1>2. /\ records' \in [Events -> BrokerStreamEventRecord]
      /\ records'[e].status = "ABSENT"
      /\ \A f \in Events \ {e} : records'[f] = records[f]
  <2>1. [status |-> "ABSENT", attempts |-> 0] \in BrokerStreamEventRecord
    BY Numbered DEF BrokerStreamEventRecord
  <2> QED BY <1>0, <2>1 DEF cleanup, TypeOK
<1>3. TypeInv'
  <2>1. \A q \in Processes : Seated(q)'
    BY <1>0, <1>1 DEF TypeInv, Seated
  <2> QED BY <1>0, <1>1, <1>2, <2>1 DEF TypeInv, TypeOK
<1>4. \A w \in Workers : proc[w].event # NoEvent => proc[w].event \in Events \ {e}
  BY <1>0, Handled
<1>5. \A w \in Workers : HeldConsistent(w)'
  BY <1>1, <1>2, <1>4 DEF InboxInv, HeldConsistent
<1>6. ASSUME ~overtaken', NEW w \in Workers PROVE LiveConsistent(w)'
  <2>1. LiveConsistent(w)
    BY <1>1, <1>6 DEF InboxInv
  <2>2. proc[w].pc \in Live => proc[w].event \in Events \ {e}
    BY <1>0, <1>4 DEF TypeInv, Seated, Live, Handling
  <2> QED BY <1>1, <1>2, <2>1, <2>2 DEF LiveConsistent
<1>7. ASSUME ~overtaken', NEW f \in Events
      PROVE  RetryConsistent(f)' /\ OutcomeConsistent(f)' /\ Attended(f)'
  <2>0. RetryConsistent(f) /\ OutcomeConsistent(f) /\ Attended(f)
    BY <1>1, <1>7 DEF InboxInv
  <2>1. CASE f = e
    BY <1>0, <1>1, <1>2, <2>1, Numbered DEF RetryConsistent, OutcomeConsistent, Attended
  <2>2. CASE f # e
    BY <1>1, <1>2, <2>0, <2>2 DEF RetryConsistent, OutcomeConsistent, Attended
  <2> QED BY <2>1, <2>2
<1>8. ASSUME NEW f \in Events PROVE AbsentConsistent(f)'
  <2>1. CASE f = e
    BY <1>0, <1>1, <2>1 DEF AbsentConsistent
  <2>2. CASE f # e
    BY <1>1, <1>2, <2>2 DEF InboxInv, AbsentConsistent
  <2> QED BY <2>1, <2>2
<1>9. \A s \in Streams : EnqueueConsistent(s)'
  BY <1>1 DEF InboxInv, EnqueueConsistent
<1>10. OpenEventsQueued'
  <2>1. \A f \in Events : Claimable(f)' => Claimable(f)
    BY <1>2 DEF Claimable
  <2> QED BY <1>1, <2>1 DEF InboxInv, OpenEventsQueued, AtStep
<1> QED BY <1>3, <1>5, <1>6, <1>7, <1>8, <1>9, <1>10 DEF InboxInv

LEMMA InitInv == Init => InboxInv
<1> SUFFICES ASSUME Init PROVE InboxInv
  OBVIOUS
<1>1. TypeInv
  BY InitTyped
<1>2. /\ \A p \in Processes : proc[p].event = NoEvent /\ proc[p].found = {}
                              /\ proc[p].pc \in {"down", "idle"}
      /\ Workers \subseteq Processes /\ Streams \subseteq Processes /\ NoEvent \notin Events
      /\ \A e \in Events : records[e].status = "ABSENT"
      /\ \A e \in Events, id \in JobIds : jobs[e][id] = "absent"
  BY RestingTyped, InboxAssumption DEF Init, Processes
<1>3. \A w \in Workers : HeldConsistent(w) /\ LiveConsistent(w)
  BY <1>2 DEF HeldConsistent, LiveConsistent, Live, Scheduling
<1>4. \A e \in Events : AbsentConsistent(e) /\ OutcomeConsistent(e) /\ Attended(e)
  BY <1>2 DEF AbsentConsistent, OutcomeConsistent, Attended
<1>5. \A e \in Events : RetryConsistent(e)
  BY <1>2, Numbered DEF RetryConsistent
<1>6. \A s \in Streams : EnqueueConsistent(s)
  BY <1>2 DEF EnqueueConsistent
<1>7. OpenEventsQueued
  BY <1>2 DEF OpenEventsQueued, Claimable
<1> QED BY <1>1, <1>3, <1>4, <1>5, <1>6, <1>7 DEF InboxInv

LEMMA UnchangedKeepsInv == InboxInv /\ UNCHANGED vars => InboxInv'
<1> SUFFICES ASSUME InboxInv, UNCHANGED vars PROVE InboxInv'
  OBVIOUS
<1>1. UNCHANGED <<records, jobs, state_key, reconciles, proc, deaths, stalled, overtaken>>
  BY DEF vars
<1>2. TypeInv'
  <2>1. \A q \in Processes : Seated(q)'
    BY <1>1 DEF InboxInv, TypeInv, Seated
  <2> QED BY <1>1, <2>1 DEF InboxInv, TypeInv, TypeOK
<1>3. Dequeues
  BY <1>1 DEF Dequeues
<1> QED BY <1>2, <1>3, DequeueKeepsInv

LEMMA StepKeepsInv == InboxInv /\ [Next]_vars => InboxInv'
<1> SUFFICES ASSUME InboxInv, [Next]_vars PROVE InboxInv'
  OBVIOUS
<1>0. TypeInv
  BY DEF InboxInv
<1>1. ASSUME NEW p \in Processes, ProcessStep(p) PROVE InboxInv'
  <2>1. CASE Schedule(p)
    BY <1>0, <2>1, ScheduleGlides, GlideKeepsInv
  <2>2. CASE EventJob(p)
    BY <2>2, CompleteKeepsInv, FailKeepsInv, RequeueKeepsInv DEF EventJob
  <2>3. CASE ReconciliationJob(p) \/ RequestReconciliation(p)
    BY <1>0, <2>3, PcMoves, GlideKeepsInv
  <2>4. CASE persist_event(p)
    BY <2>4, PersistKeepsInv
  <2>5. CASE EnqueueEvent(p) \/ EnqueueRetry(p) \/ startup(p)
    BY <2>5, EnqueueKeepsInv
  <2>6. CASE Abort(p) \/ Crash(p)
    BY <2>6, DeathKeepsInv
  <2>7. CASE ReadProcessing(p)
    BY <1>0, <2>7, EventMoves, GlideKeepsInv
  <2>8. CASE startup_recovery(p)
    BY <2>8, RecoveryKeepsInv
  <2> QED BY <1>1, <2>1, <2>2, <2>3, <2>4, <2>5, <2>6, <2>7, <2>8 DEF ProcessStep
<1>2. ASSUME NEW p \in Processes, NEW e \in Events, EventStep(p, e) PROVE InboxInv'
  <2>1. CASE Receive(p, e)
    BY <1>0, <2>1, EventMoves, GlideKeepsInv
  <2>2. CASE retry_event(p, e)
    BY <2>2, RetryKeepsInv
  <2>3. ASSUME NEW id \in JobIds, claim_event(p, e, id) \/ ClaimNothing(p, e, id) PROVE InboxInv'
    BY <2>3, ClaimKeepsInv, ClaimNothingKeepsInv
  <2> QED BY <1>2, <2>1, <2>2, <2>3 DEF EventStep
<1>3. ASSUME NEW e \in Events, cleanup(e) \/ \E id \in JobIds : ResultExpires(e, id) PROVE InboxInv'
  BY <1>3, CleanupKeepsInv, ResultExpiresKeepsInv
<1>4. CASE KeyExpires
  BY <1>4, KeyExpiresKeepsInv
<1> QED BY <1>1, <1>2, <1>3, <1>4, UnchangedKeepsInv DEF Next

LEMMA Invariance == Spec => []InboxInv
BY InitInv, StepKeepsInv, PTL DEF Spec

\* Every variable keeps its type.
THEOREM TypeCorrect == Spec => []TypeOK
<1>1. InboxInv => TypeOK
  BY DEF InboxInv, TypeInv
<1> QED BY <1>1, Invariance, PTL

\* As long as nothing dies or is overtaken by a recovery, an event that may be claimed has
\* a job or a process about to queue one: the job ids of persist_event, startup, Requeue and
\* EnqueueRetry never collide so that one is lost.
THEOREM NothingStranded == Spec => []OpenEventsQueued
<1>1. InboxInv => OpenEventsQueued
  BY DEF InboxInv
<1> QED BY <1>1, Invariance, PTL

----------------------------------------------------------------------------
(* Nothing is processed twice                                               *)

LEMMA DoneKept ==
  ASSUME InboxInv, [Next]_vars, NEW e \in Events, ~overtaken',
         records[e].status \in {"PROCESSED", "IGNORED"}
  PROVE  records'[e].status \in {records[e].status, "ABSENT"}
<1>0. TypeInv /\ TypeOK
  BY DEF InboxInv, TypeInv
<1>1. ASSUME NEW w \in Processes, complete_event(w) \/ fail_event(w)
      PROVE  records'[e].status = records[e].status
  <2>1. overtaken' = overtaken
    BY <1>1 DEF complete_event, fail_event, history
  <2>2. w \in Workers /\ proc[w].pc \in Live /\ proc[w].event # NoEvent
    BY <1>0, <1>1 DEF complete_event, fail_event, AtStep, Live, TypeInv, Seated, Handling
  <2>3. records[proc[w].event].status = "PROCESSING" /\ proc[w].event \in Events
    BY <1>0, <2>1, <2>2, Handled DEF InboxInv, LiveConsistent
  <2>4. PICK status : SetStatus(proc[w].event, status)
    BY <1>1 DEF complete_event, fail_event
  <2> QED BY <1>0, <2>3, <2>4 DEF SetStatus, TypeOK
<1>2. ASSUME NEW s \in Processes, persist_event(s)
      PROVE  records'[e].status = records[e].status
  BY <1>0, <1>2 DEF persist_event, SetStatus, TypeOK
<1>3. ASSUME NEW w \in Processes, startup_recovery(w)
      PROVE  records'[e].status = records[e].status
  BY <1>3 DEF startup_recovery, Alive
<1>4. ASSUME NEW p \in Processes, NEW f \in Events,
             retry_event(p, f) \/ \E id \in JobIds : claim_event(p, f, id)
      PROVE  records'[e].status = records[e].status
  BY <1>0, <1>4 DEF retry_event, claim_event, Claimable, SetStatus, TypeOK
<1>5. ASSUME NEW f \in Events, cleanup(f)
      PROVE  records'[e].status \in {records[e].status, "ABSENT"}
  BY <1>0, <1>5 DEF cleanup, TypeOK
<1>6. ASSUME NEW p \in Processes,
             \/ Schedule(p) \/ Requeue(p) \/ ReconciliationJob(p) \/ EnqueueEvent(p)
             \/ RequestReconciliation(p) \/ EnqueueRetry(p) \/ Abort(p) \/ Crash(p)
             \/ ReadProcessing(p) \/ startup(p)
      PROVE  records' = records
  BY <1>6 DEF Schedule, MarkAccount, AddReason, QueueReconciliation, Requeue, ReconciliationJob,
     TakeReconciliation, ReadAccount, ClearReasons, EnqueueEvent, RequestReconciliation,
     EnqueueRetry, Abort, Crash, ReadProcessing, startup
<1>7. ASSUME NEW p \in Processes, NEW f \in Events,
             \/ Receive(p, f)
             \/ \E id \in JobIds : ClaimNothing(p, f, id) \/ ResultExpires(f, id)
             \/ KeyExpires
      PROVE  records' = records
  BY <1>7 DEF Receive, ClaimNothing, ResultExpires, KeyExpires
<1>8. ASSUME NEW p \in Processes, ProcessStep(p)
      PROVE  records'[e].status \in {records[e].status, "ABSENT"}
  BY <1>1, <1>2, <1>3, <1>6, <1>8 DEF ProcessStep, EventJob
<1>9. ASSUME NEW p \in Processes, NEW f \in Events, EventStep(p, f)
      PROVE  records'[e].status \in {records[e].status, "ABSENT"}
  BY <1>4, <1>7, <1>9 DEF EventStep
<1>10. ASSUME NEW f \in Events, NEW id \in JobIds, ResultExpires(f, id) PROVE records' = records
  BY <1>10 DEF ResultExpires
<1>11. CASE KeyExpires
  BY <1>11 DEF KeyExpires
<1>12. CASE UNCHANGED vars
  BY <1>12 DEF vars
<1> QED BY <1>5, <1>8, <1>9, <1>10, <1>11, <1>12 DEF Next

\* An event that was processed is not processed again, unless a recovery went wrong
\* (claim_event, complete_event, fail_event, startup_recovery).
THEOREM ProcessedOnce == Spec => SettledStaysSettled
<1>1. InboxInv /\ [Next]_vars =>
        [\A e \in Events :
           ~overtaken' /\ records[e].status \in {"PROCESSED", "IGNORED"} =>
             records'[e].status \in {records[e].status, "ABSENT"}]_vars
  BY DoneKept
<1> QED BY <1>1, Invariance, PTL DEF Spec, SettledStaysSettled

----------------------------------------------------------------------------
(* The debounce key                                                         *)

\* A process is between setting the key and the end of what it set it for.
Backs(p) ==
  \/ proc[p].pc \in {"reconciling", "clearing"}
  \/ proc[p].pc \in {"adding", "queueing"} /\ proc[p].created

\* Neither the key nor the queue change, nor who backs the key.
LEMMA KeyKept ==
  ASSUME KeyHasJob, deaths = 0, ~stalled, NEW p \in Processes, ~Backs(p),
         state_key, reconciles' = reconciles,
         \A q \in Processes \ {p} : proc'[q] = proc[q]
  PROVE  reconciles' > 0 \/ \E q \in Processes : Backs(q)'
<1>1. reconciles > 0 \/ \E q \in Processes : Backs(q)
  BY DEF KeyHasJob, Backs
<1> QED BY <1>1 DEF Backs

LEMMA KeyStep == InboxInv /\ KeyHasJob /\ [Next]_vars => KeyHasJob'
<1> SUFFICES ASSUME InboxInv, KeyHasJob, [Next]_vars, deaths' = 0, ~stalled', state_key'
             PROVE  reconciles' > 0 \/ \E p \in Processes : Backs(p)'
  BY DEF KeyHasJob, Backs
<1> DEFINE Goal == reconciles' > 0 \/ \E p \in Processes : Backs(p)'
<1>0. TypeOK /\ reconciles \in Nat /\ deaths \in Nat /\ proc \in [Processes -> Process]
      /\ \A p \in Processes : Seated(p)
  BY InboxAssumption DEF InboxInv, TypeInv, TypeOK
<1>1. ASSUME NEW p \in Processes, Schedule(p) PROVE Goal
  <2>a. UNCHANGED history
    BY <1>1 DEF Schedule, MarkAccount, AddReason, QueueReconciliation
  <2>0. deaths = 0 /\ ~stalled
    BY <2>a, Zenon DEF history
  <2>1. CASE MarkAccount(p)
    <3>1. proc'[p].pc = "adding" /\ proc'[p].created = ~state_key
          /\ proc[p].pc = "marking" /\ reconciles' = reconciles
          /\ \A q \in Processes \ {p} : proc'[q] = proc[q]
      BY <1>0, <2>1 DEF MarkAccount, AtStep, Process
    <3>2. CASE state_key
      BY <2>0, <3>1, <3>2, KeyKept DEF Backs
    <3>3. CASE ~state_key
      BY <3>1, <3>3 DEF Backs
    <3> QED BY <3>2, <3>3
  <2>2. CASE AddReason(p)
    <3>1. /\ proc[p].pc = "adding" /\ proc'[p].created = proc[p].created
          /\ proc[p].created => proc'[p].pc = "queueing"
          /\ reconciles' = reconciles /\ state_key' = state_key
          /\ \A q \in Processes \ {p} : proc'[q] = proc[q]
      BY <1>0, <2>2 DEF AddReason, AtStep, Goto, Process
    <3>2. CASE proc[p].created
      BY <3>1, <3>2 DEF Backs
    <3>3. CASE ~proc[p].created
      BY <2>0, <3>1, <3>3, KeyKept DEF Backs
    <3> QED BY <3>2, <3>3
  <2>3. CASE QueueReconciliation(p)
    BY <1>0, <2>3 DEF QueueReconciliation
  <2> QED BY <1>1, <2>1, <2>2, <2>3 DEF Schedule
<1>2. ASSUME NEW p \in Processes, ReconciliationJob(p) PROVE Goal
  <2>1. CASE TakeReconciliation(p) \/ ReadAccount(p)
    <3>1. \E pc \in {"reconciling", "clearing"} : proc' = [proc EXCEPT ![p].pc = pc]
      BY <2>1 DEF TakeReconciliation, ReadAccount, Goto
    <3>2. proc'[p].pc \in {"reconciling", "clearing"}
      BY <1>0, <3>1 DEF Process
    <3> QED BY <3>2, Zenon DEF Backs
  <2>2. CASE ClearReasons(p)
    BY <2>2 DEF ClearReasons
  <2> QED BY <1>2, <2>1, <2>2 DEF ReconciliationJob
<1> DEFINE Apart(p) ==
      \/ complete_event(p) \/ Requeue(p) \/ persist_event(p) \/ EnqueueEvent(p)
      \/ RequestReconciliation(p) \/ EnqueueRetry(p)
      \/ ReadProcessing(p) \/ startup_recovery(p) \/ startup(p)
<1>3. ASSUME NEW p \in Processes, Apart(p) PROVE Goal
  <2>1. ~Backs(p)
    BY <1>3 DEF complete_event, Requeue, persist_event, EnqueueEvent, RequestReconciliation,
       EnqueueRetry, ReadProcessing, startup_recovery, startup, AtStep, Backs
  <2>2. UNCHANGED <<state_key, reconciles, deaths, stalled>>
    BY <1>3 DEF complete_event, Requeue, persist_event, EnqueueEvent, RequestReconciliation,
       EnqueueRetry, ReadProcessing, startup_recovery, startup, history
  <2>3. \A q \in Processes \ {p} : proc'[q] = proc[q]
    BY <1>0, <1>3 DEF complete_event, Requeue, persist_event, EnqueueEvent, RequestReconciliation,
       EnqueueRetry, ReadProcessing, startup_recovery, startup, EndJob, Rest, Goto
  <2> QED BY <2>1, <2>2, <2>3, KeyKept
<1>4. ASSUME NEW p \in Processes, fail_event(p) \/ Abort(p) \/ Crash(p) PROVE Goal
  <2>1. CASE fail_event(p)
    <3>1. stalled' = TRUE
      BY <2>1, Zenon DEF fail_event
    <3> QED BY <3>1, Zenon
  <2>2. CASE Abort(p) \/ Crash(p)
    <3>1. deaths' = deaths + 1
      BY <2>2, Zenon DEF Abort, Crash, DiesOrGivesUp
    <3> QED BY <1>0, <3>1
  <2> QED BY <1>4, <2>1, <2>2
<1>5. ASSUME NEW p \in Processes, NEW e \in Events, EventStep(p, e) PROVE Goal
  <2>1. ~Backs(p) \/ UNCHANGED proc
    BY <1>5 DEF EventStep, Receive, retry_event, claim_event, ClaimNothing, AtStep, Backs
  <2>2. UNCHANGED <<state_key, reconciles, deaths, stalled>>
    BY <1>5 DEF EventStep, Receive, retry_event, claim_event, ClaimNothing, history
  <2>3. \A q \in Processes \ {p} : proc'[q] = proc[q]
    BY <1>0, <1>5 DEF EventStep, Receive, retry_event, claim_event, ClaimNothing
  <2>4. CASE ~Backs(p)
    BY <2>2, <2>3, <2>4, KeyKept
  <2>5. CASE UNCHANGED proc
    BY <2>2, <2>5 DEF KeyHasJob, Backs
  <2> QED BY <2>1, <2>4, <2>5
<1>6. ASSUME UNCHANGED <<state_key, reconciles, proc, deaths, stalled>> PROVE Goal
  BY <1>6 DEF KeyHasJob, Backs
<1>7. ASSUME NEW e \in Events, cleanup(e) \/ \E id \in JobIds : ResultExpires(e, id) PROVE Goal
  BY <1>6, <1>7 DEF cleanup, ResultExpires, history
<1>8. CASE KeyExpires
  BY <1>8 DEF KeyExpires
<1>9. CASE UNCHANGED vars
  BY <1>6, <1>9 DEF vars
<1>10. ASSUME NEW p \in Processes, ProcessStep(p) PROVE Goal
  BY <1>1, <1>2, <1>3, <1>4, <1>10 DEF ProcessStep, EventJob
<1> QED BY <1>5, <1>7, <1>8, <1>9, <1>10 DEF Next

\* While nothing dies or stalls, whoever finds the debounce key joins a reconciliation to
\* come (schedule_debounced_reconciliation, run_reconciliation_job).
THEOREM KeyIsBacked == Spec => []KeyHasJob
<1>1. Init => KeyHasJob
  BY DEF Init, KeyHasJob
<1> QED BY <1>1, KeyStep, Invariance, PTL DEF Spec
=============================================================================
