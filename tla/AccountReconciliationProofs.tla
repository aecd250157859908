--------------------- MODULE AccountReconciliationProofs ---------------------
(***************************************************************************)
(* Proofs about AccountReconciliation: no operation is passed over, no     *)
(* deposit is announced twice, and a recorded deposit asks for a cycle,    *)
(* for every number of workers and operations and every date.              *)
(***************************************************************************)
EXTENDS AccountReconciliation, TLAPS

----------------------------------------------------------------------------
(* Type correctness                                                         *)

\* The record of one worker changes.
LEMMA Updated ==
  ASSUME TypeOK, NEW w \in Workers, NEW new \in Process,
         proc' = [proc EXCEPT ![w] = new]
  PROVE  /\ proc' \in [Workers -> Process]
         /\ proc'[w] = new
         /\ \A v \in Workers \ {w} : proc'[v] = proc[v]
  BY DEF TypeOK

LEMMA IdleTyped == Idle \in Process
  BY DEF Idle, Process

LEMMA InitTyped == Init => TypeOK
<1> SUFFICES ASSUME Init PROVE TypeOK
  OBVIOUS
<1>1. 1 \in 1 .. MaxTime + 1 /\ 0 \in 0 .. MaxFailures
  BY ReconciliationAssumption
<1>2. proc \in [Workers -> Process] /\ announced \in [Operations -> Nat]
  BY IdleTyped DEF Init
<1>3. cursor \in Int /\ jobs \in Nat
  BY DEF Init, NoCursor
<1>4. cycles \in [AutomationTrigger -> Cycle] /\ served = {} /\ dropped = {}
  BY DEF Init, Cycle
<1> QED BY <1>1, <1>2, <1>3, <1>4 DEF Init, TypeOK

LEMMA EnvironmentTyped ==
  ASSUME TypeOK,
         Tick \/ Notify \/ KeyExpires \/ StartCycle \/ \E o \in Operations : Report(o)
  PROVE  TypeOK'
<1>1. CASE Tick
  BY <1>1, ReconciliationAssumption
     DEF Tick, TypeOK, redis, automation, database, history
<1>2. CASE Notify
  BY <1>2 DEF Notify, TypeOK, broker, automation, database, history
<1>3. CASE KeyExpires
  BY <1>3 DEF KeyExpires, TypeOK, broker, automation, database, history
<1>4. ASSUME NEW o \in Operations, Report(o) PROVE TypeOK'
  BY <1>4 DEF Report, TypeOK, redis, automation, database
<1>5. CASE StartCycle
  BY <1>5 DEF StartCycle, TypeOK, AutomationTrigger, Cycle, broker, redis, database, history
<1> QED BY <1>1, <1>2, <1>3, <1>4, <1>5

\* What the reads of worker w make of its record.
LEMMA ReadTyped ==
  ASSUME TypeOK, NEW w \in Workers, TakeJob(w) \/ get_cursor(w) \/ read_operations(w)
  PROVE  TypeOK'
<1>0. proc[w] \in Process
  BY DEF TypeOK
<1>1. CASE TakeJob(w)
  <2> DEFINE new == [proc[w] EXCEPT !.first = ~row, !.pc = "fetching"]
  <2>1. new \in Process
    BY <1>0 DEF Process, TypeOK
  <2>2. proc' = [proc EXCEPT ![w] = new]
    BY <1>1 DEF TakeJob
  <2>3. proc' \in [Workers -> Process]
    BY <2>1, <2>2, Updated
  <2> QED BY <1>1, <2>3 DEF TakeJob, TypeOK, AtStep, broker, automation, history
<1>2. CASE get_cursor(w)
  <2> DEFINE new == [proc[w] EXCEPT !.first = FALSE, !.from = cursor, !.pc = "reading"]
  <2>1. new \in Process
    BY <1>0 DEF Process, TypeOK
  <2>2. proc' = [proc EXCEPT ![w] = new]
    BY <1>2 DEF get_cursor
  <2>3. proc' \in [Workers -> Process]
    BY <2>1, <2>2, Updated
  <2> QED BY <1>2, <2>3 DEF get_cursor, TypeOK, broker, redis, automation, database, history
<1>3. CASE read_operations(w)
  <2> DEFINE found == Since(proc[w].from)
             new == [proc[w] EXCEPT !.operations = found, !.unseen = Classified(found),
                                    !.pc = "recording"]
  <2>1. found \subseteq Operations /\ Classified(found) \subseteq Operations \ Ignored
        /\ TooOld(proc[w].from) \subseteq Operations
    BY DEF Since, Classified, TooOld, TypeOK
  <2>2. new \in Process
    BY <1>0, <2>1 DEF Process
  <2>3. proc' = [proc EXCEPT ![w] = new]
    BY <1>3 DEF read_operations
  <2>4. proc' \in [Workers -> Process]
    BY <2>2, <2>3, Updated
  <2>5. cursor' \in Int
    BY <1>3 DEF read_operations, TypeOK
  <2> QED BY <1>3, <2>1, <2>4, <2>5 DEF read_operations, TypeOK, broker, redis, automation
<1> QED BY <1>1, <1>2, <1>3

LEMMA RecordTyped ==
  ASSUME TypeOK, NEW w \in Workers, NEW o \in Operations, RecordEvent(w, o)
  PROVE  TypeOK'
<1> DEFINE seen == [proc[w] EXCEPT !.unseen = @ \ {o}]
           new == [proc[w] EXCEPT !.unseen = @ \ {o}, !.created = @ \cup {o},
                     !.operation = IF o \in Deposits THEN o ELSE NoOperation,
                     !.pc = IF o \in Deposits THEN "announcing" ELSE "recording"]
<1>1. proc[w] \in Process
  BY DEF TypeOK
<1>2. o \in AccountEvents
  BY <1>1 DEF RecordEvent, Process, AccountEvents
<1>3. seen \in Process /\ new \in Process
  BY <1>1, <1>2 DEF Process
<1>4. proc' = [proc EXCEPT ![w] = IF o \in events THEN seen ELSE new]
  BY DEF RecordEvent
<1>5. proc' \in [Workers -> Process]
  BY <1>3, <1>4, Updated
<1> QED BY <1>2, <1>5 DEF RecordEvent, TypeOK, broker, redis, automation, history

LEMMA LaterStepsTyped ==
  ASSUME TypeOK, NEW w \in Workers,
         Announce(w) \/ RecordChange(w) \/ commit_cursor(w) \/ Trigger(w)
           \/ FailReconciliation(w)
  PROVE  TypeOK'
<1>0. proc[w] \in Process
  BY DEF TypeOK
<1>1. CASE Announce(w)
  <2> DEFINE new == [proc[w] EXCEPT !.operation = NoOperation, !.pc = "recording"]
  <2>1. new \in Process
    BY <1>0 DEF Process
  <2>2. proc' = [proc EXCEPT ![w] = new]
    BY <1>1 DEF Announce
  <2>3. proc' \in [Workers -> Process]
    BY <2>1, <2>2, Updated
  <2>4. announced' \in [Operations -> Nat]
    <3>1. announced' = [o \in Operations |->
                          IF o = proc[w].operation THEN announced[o] + 1 ELSE announced[o]]
      BY <1>1 DEF Announce, TypeOK
    <3> QED BY <3>1 DEF TypeOK
  <2> HIDE DEF new
  <2> QED BY <1>1, <2>3, <2>4 DEF Announce, TypeOK, broker, redis, automation, database, history
<1>2. CASE RecordChange(w)
  <2> DEFINE new == [proc[w] EXCEPT !.created = {ACCOUNT_CHANGE}]
  <2>1. new \in Process
    BY <1>0 DEF Process, AccountEvents
  <2>2. proc' = [proc EXCEPT ![w] = new]
    BY <1>2 DEF RecordChange
  <2>3. proc' \in [Workers -> Process]
    BY <2>1, <2>2, Updated
  <2> QED BY <1>2, <2>3 DEF RecordChange, TypeOK, AccountEvents, broker, redis, automation, history
<1>3. CASE commit_cursor(w)
  <2> DEFINE new == [proc[w] EXCEPT !.operations = {}, !.from = 0, !.pc = "triggering"]
  <2>0. {} \in SUBSET Operations /\ 0 \in Int
    OBVIOUS
  <2>1. new \in Process
    BY <1>0, <2>0 DEF Process
  <2>2. proc' = [proc EXCEPT ![w] = new]
    <3>1. proc' = [proc EXCEPT ![w].operations = {}, ![w].from = 0, ![w].pc = "triggering"]
      BY <1>3 DEF commit_cursor
    <3> QED BY <3>1
  <2>3. proc' \in [Workers -> Process]
    BY <2>1, <2>2, Updated
  <2>4. \A o \in Latest(proc[w].operations) : DateOf[o] \in Int
    BY <1>0, ReconciliationAssumption DEF Latest, Process
  <2> HIDE DEF new
  <2>5. cursor' \in Int
    BY <1>3, <2>4 DEF commit_cursor, TypeOK
  <2> QED BY <1>3, <2>3, <2>5 DEF commit_cursor, TypeOK, broker, redis, automation, history
<1>4. CASE Trigger(w)
  <2> DEFINE new == [proc[w] EXCEPT !.created = {}, !.pc = "clearing"]
  <2>1. new \in Process
    BY <1>0 DEF Process
  <2>2. proc' = [proc EXCEPT ![w] = new]
    BY <1>4 DEF Trigger
  <2>3. proc' \in [Workers -> Process]
    BY <2>1, <2>2, Updated
  <2>4. cycles' \in [AutomationTrigger -> Cycle] /\ dropped' \subseteq Deposits /\ served' = served
    BY <1>4 DEF Trigger, Enqueue, Kind, TypeOK, AutomationTrigger, Cycle, automation
  <2> QED BY <1>4, <2>3, <2>4 DEF Trigger, TypeOK, broker, redis, database, history
<1>5. CASE FailReconciliation(w)
  <2> DEFINE new == [proc[w] EXCEPT !.first = FALSE, !.pc = "clearing"]
  <2>1. new \in Process
    BY <1>0 DEF Process
  <2>2. proc' = [proc EXCEPT ![w] = new]
    BY <1>5 DEF FailReconciliation
  <2>3. proc' \in [Workers -> Process]
    BY <2>1, <2>2, Updated
  <2>4. failures' \in 0 .. MaxFailures
    BY <1>5, ReconciliationAssumption DEF FailReconciliation, FailsOrDies, TypeOK
  <2> QED BY <1>5, <2>3, <2>4 DEF FailReconciliation, TypeOK, broker, redis, automation, database
<1> QED BY <1>1, <1>2, <1>3, <1>4, <1>5

EndsJob(w) == ReadFails(w) \/ Clear(w) \/ Raise(w) \/ Crash(w)

LEMMA EndTyped ==
  ASSUME TypeOK, NEW w \in Workers, EndsJob(w)
  PROVE  TypeOK'
<1>1. EndJob(w)
  BY DEF EndsJob, ReadFails, Clear, Raise, Crash
<1>2. proc' \in [Workers -> Process]
  BY <1>1, IdleTyped, Updated DEF EndJob
<1>3. orphaned' \subseteq AccountEvents
  <2>1. proc[w].created \subseteq AccountEvents
    BY DEF TypeOK, Process
  <2> QED BY <1>1, <2>1 DEF EndJob, TypeOK
<1>4. failures' \in 0 .. MaxFailures
  BY ReconciliationAssumption
     DEF EndsJob, ReadFails, Clear, Raise, Crash, FailsOrDies, TypeOK
<1>5. jobs' \in Nat
  BY DEF EndsJob, ReadFails, Clear, Raise, Crash, TypeOK, redis
<1>6. state_key' \in BOOLEAN
  BY DEF EndsJob, ReadFails, Clear, Raise, Crash, TypeOK, redis
<1> QED BY <1>2, <1>3, <1>4, <1>5, <1>6
        DEF EndsJob, ReadFails, Clear, Raise, Crash, TypeOK, broker, redis, automation, database

LEMMA StepTyped == TypeOK /\ [Next]_vars => TypeOK'
<1> SUFFICES ASSUME TypeOK, [Next]_vars PROVE TypeOK'
  OBVIOUS
<1>1. CASE Next
  BY <1>1, EnvironmentTyped, ReadTyped, RecordTyped, LaterStepsTyped, EndTyped
     DEF Next, JobStep, EndsJob
<1>2. CASE UNCHANGED vars
  BY <1>2 DEF vars, broker, redis, automation, database, history, TypeOK
<1> QED BY <1>1, <1>2

\* Every variable keeps its type.
THEOREM TypeCorrect == Spec => []TypeOK
BY InitTyped, StepTyped, PTL DEF Spec

----------------------------------------------------------------------------
(* No operation is passed over                                              *)

\* The operations of a set that are before a date are done,
Passed(date, S, done) == \A o \in Classified(S) : DateOf[o] < date => o \in done

\* and so will be any that comes later, as one that comes with an earlier date is late.
Reached(date, S) == date > 0 => \E p \in S : DateOf[p] >= date

Done == events \cup missed

ReadConsistent(w) ==
  /\ AtStep(w, "reading") =>
       Passed(proc[w].from, reported, Done) /\ Reached(proc[w].from, reported)
  /\ proc[w].pc \in {"recording", "announcing"} =>
       /\ proc[w].operations \subseteq reported
       /\ \A p \in proc[w].operations :
            Passed(DateOf[p], reported, Done \cup proc[w].unseen)

CursorInv ==
  /\ TypeOK
  /\ Passed(cursor, reported, Done) /\ Reached(cursor, reported)
  /\ \A w \in Workers : ReadConsistent(w)

\* The invariant says as much of worker w after a step as it did before.
Undisturbed(w) ==
  \/ proc'[w].pc \notin {"reading", "recording", "announcing"}
  \/ /\ proc[w].pc = "reading" /\ proc'[w].pc = "reading"
     /\ proc'[w].from = proc[w].from
  \/ /\ {proc[w].pc, proc'[w].pc} \subseteq {"recording", "announcing"}
     /\ proc'[w].operations = proc[w].operations /\ proc'[w].unseen = proc[w].unseen

LEMMA PassedGrows ==
  ASSUME NEW date, NEW S, NEW done, NEW more, done \subseteq more, Passed(date, S, done)
  PROVE  Passed(date, S, more)
  BY DEF Passed

LEMMA WorkerKept ==
  ASSUME NEW w \in Workers, ReadConsistent(w), Undisturbed(w),
         reported' = reported, Done \subseteq Done'
  PROVE  ReadConsistent(w)'
<1>1. CASE proc'[w].pc \notin {"reading", "recording", "announcing"}
  BY <1>1 DEF ReadConsistent, AtStep
<1>2. CASE /\ proc[w].pc = "reading" /\ proc'[w].pc = "reading"
           /\ proc'[w].from = proc[w].from
  BY <1>2, PassedGrows DEF ReadConsistent, AtStep
<1>3. CASE /\ {proc[w].pc, proc'[w].pc} \subseteq {"recording", "announcing"}
           /\ proc'[w].operations = proc[w].operations /\ proc'[w].unseen = proc[w].unseen
  <2>1. proc'[w].operations \subseteq reported'
    BY <1>3 DEF ReadConsistent
  <2>2. Done \cup proc[w].unseen \subseteq Done' \cup proc'[w].unseen
    BY <1>3
  <2>3. ASSUME NEW p \in proc'[w].operations
        PROVE  Passed(DateOf[p], reported', Done' \cup proc'[w].unseen)
    BY <1>3, <2>2, PassedGrows DEF ReadConsistent
  <2> QED BY <1>3, <2>1, <2>3 DEF ReadConsistent, AtStep
<1> QED BY <1>1, <1>2, <1>3 DEF Undisturbed

LEMMA CursorKept ==
  ASSUME CursorInv, TypeOK', reported' = reported, cursor' = cursor, Done \subseteq Done',
         \A w \in Workers : Undisturbed(w)
  PROVE  CursorInv'
<1>1. Passed(cursor', reported', Done') /\ Reached(cursor', reported')
  BY PassedGrows DEF CursorInv
<1> QED BY <1>1, WorkerKept DEF CursorInv

\* The records of the others are what they were.
LEMMA OthersUndisturbed ==
  ASSUME TypeOK, NEW w \in Workers, NEW new, proc' = [proc EXCEPT ![w] = new]
  PROVE  /\ proc'[w] = new
         /\ \A v \in Workers \ {w} : Undisturbed(v)
<1>1. proc'[w] = new /\ \A v \in Workers \ {w} : proc'[v] = proc[v]
  BY DEF TypeOK
<1>2. \A v \in Workers : proc[v].pc \in {"idle", "fetching", "reading", "recording",
                                       "announcing", "triggering", "clearing"}
  BY DEF TypeOK, Process
<1> QED BY <1>1, <1>2 DEF Undisturbed

\* Steps that neither report nor read nor commit the cursor.
LEMMA QuietStep ==
  ASSUME CursorInv, TypeOK', NEW w \in Workers,
         TakeJob(w) \/ Announce(w) \/ RecordChange(w) \/ Trigger(w)
           \/ FailReconciliation(w) \/ EndsJob(w)
  PROVE  CursorInv'
<1> USE DEF CursorInv
<1>1. CASE TakeJob(w)
  <2>1. proc' = [proc EXCEPT ![w] = [proc[w] EXCEPT !.first = ~row, !.pc = "fetching"]]
    BY <1>1 DEF TakeJob
  <2>2. \A v \in Workers : Undisturbed(v)
    BY <2>1, OthersUndisturbed DEF Undisturbed, TypeOK, Process
  <2> QED BY <1>1, <2>2, CursorKept DEF TakeJob, broker, history, Done
<1>2. CASE Announce(w)
  <2>1. proc' = [proc EXCEPT ![w] =
                   [proc[w] EXCEPT !.operation = NoOperation, !.pc = "recording"]]
    BY <1>2 DEF Announce
  <2>2. \A v \in Workers : Undisturbed(v)
    BY <1>2, <2>1, OthersUndisturbed DEF Announce, AtStep, Undisturbed, TypeOK, Process
  <2> QED BY <1>2, <2>2, CursorKept DEF Announce, broker, database, history, Done
<1>3. CASE RecordChange(w)
  <2>1. proc' = [proc EXCEPT ![w] = [proc[w] EXCEPT !.created = {ACCOUNT_CHANGE}]]
    BY <1>3 DEF RecordChange
  <2>2. \A v \in Workers : Undisturbed(v)
    BY <1>3, <2>1, OthersUndisturbed
       DEF RecordChange, AllSeen, AtStep, Undisturbed, TypeOK, Process
  <2> QED BY <1>3, <2>2, CursorKept DEF RecordChange, broker, history, Done
<1>4. CASE Trigger(w)
  <2>1. proc' = [proc EXCEPT ![w] = [proc[w] EXCEPT !.created = {}, !.pc = "clearing"]]
    BY <1>4 DEF Trigger
  <2>2. \A v \in Workers : Undisturbed(v)
    BY <2>1, OthersUndisturbed DEF Undisturbed, TypeOK, Process
  <2> QED BY <1>4, <2>2, CursorKept DEF Trigger, broker, database, history, Done
<1>5. CASE FailReconciliation(w)
  <2>1. proc' = [proc EXCEPT ![w] = [proc[w] EXCEPT !.first = FALSE, !.pc = "clearing"]]
    BY <1>5 DEF FailReconciliation
  <2>2. \A v \in Workers : Undisturbed(v)
    BY <2>1, OthersUndisturbed DEF Undisturbed, TypeOK, Process
  <2> QED BY <1>5, <2>2, CursorKept DEF FailReconciliation, broker, database, Done
<1>6. CASE EndsJob(w)
  <2>1. proc' = [proc EXCEPT ![w] = Idle]
    BY <1>6 DEF EndsJob, EndJob, ReadFails, Clear, Raise, Crash
  <2>2. \A v \in Workers : Undisturbed(v)
    BY <2>1, OthersUndisturbed DEF Undisturbed, Idle
  <2>3. reported' = reported /\ UNCHANGED <<cursor, events, missed>>
    BY <1>6 DEF EndsJob, ReadFails, Clear, Raise, Crash, broker, database, history
  <2> QED BY <2>2, <2>3, CursorKept DEF Done
<1> QED BY <1>1, <1>2, <1>3, <1>4, <1>5, <1>6

\* What is read later than what has been reached is late.
LEMMA PassedLate ==
  ASSUME TypeOK, NEW o \in Operations, Report(o), NEW date \in Int, NEW more,
         Passed(date, reported, Done \cup more), Reached(date, reported)
  PROVE  /\ Passed(date, reported', Done' \cup more)
         /\ Reached(date, reported')
<1>1. reported' = reported \cup {o} /\ Done \subseteq Done'
  BY DEF Report, Done, database
<1>2. ASSUME DateOf[o] < date PROVE o \in Done'
  <2>1. date > 0
    BY <1>2, ReconciliationAssumption
  <2>2. PICK p \in reported : DateOf[p] >= date
    BY <2>1 DEF Reached
  <2>3. DateOf[p] > DateOf[o]
    BY <1>2, <2>2, ReconciliationAssumption DEF TypeOK
  <2> QED BY <2>3 DEF Report, Done
<1> QED BY <1>1, <1>2 DEF Passed, Reached, Classified

LEMMA PassedLateDone ==
  ASSUME TypeOK, NEW o \in Operations, Report(o), NEW date \in Int,
         Passed(date, reported, Done), Reached(date, reported)
  PROVE  /\ Passed(date, reported', Done')
         /\ Reached(date, reported')
<1>1. Done \cup {} = Done /\ Done' \cup {} = Done'
  OBVIOUS
<1>2. Passed(date, reported, Done \cup {})
  BY <1>1
<1> HIDE DEF Done
<1> QED BY <1>1, <1>2, PassedLate

LEMMA ReportStep ==
  ASSUME CursorInv, TypeOK', NEW o \in Operations, Report(o)
  PROVE  CursorInv'
<1> USE DEF CursorInv
<1>1. UNCHANGED <<cursor, proc>> /\ reported \subseteq reported'
  BY DEF Report, database
<1>2. Passed(cursor', reported', Done') /\ Reached(cursor', reported')
  <2>1. cursor \in Int
    BY DEF TypeOK
  <2> QED BY <1>1, <2>1, PassedLateDone
<1>3. ASSUME NEW w \in Workers PROVE ReadConsistent(w)'
  <2>1. proc[w] \in Process /\ ReadConsistent(w)
    BY DEF TypeOK
  <2>2. CASE AtStep(w, "reading")
    <3>1. proc[w].from \in Int
      BY <2>1 DEF Process
    <3>2. Passed(proc[w].from, reported', Done') /\ Reached(proc[w].from, reported')
      BY <2>1, <2>2, <3>1, PassedLateDone DEF ReadConsistent
    <3> QED BY <1>1, <2>2, <3>2 DEF ReadConsistent, AtStep
  <2>3. CASE proc[w].pc \in {"recording", "announcing"}
    <3>1. ASSUME NEW p \in proc[w].operations
          PROVE  Passed(DateOf[p], reported', Done' \cup proc[w].unseen)
      <4>1. p \in reported /\ DateOf[p] \in Int
        BY <2>1, <2>3, ReconciliationAssumption DEF ReadConsistent, Process
      <4>2. Reached(DateOf[p], reported)
        BY <4>1 DEF Reached
      <4> QED BY <2>1, <2>3, <4>1, <4>2, PassedLate DEF ReadConsistent
    <3> QED BY <1>1, <2>1, <2>3, <3>1 DEF ReadConsistent, AtStep
  <2> QED BY <1>1, <2>2, <2>3 DEF ReadConsistent, AtStep
<1> QED BY <1>2, <1>3

LEMMA GetCursorStep ==
  ASSUME CursorInv, TypeOK', NEW w \in Workers, get_cursor(w)
  PROVE  CursorInv'
<1> USE DEF CursorInv
<1> DEFINE new == [proc[w] EXCEPT !.first = FALSE, !.from = cursor, !.pc = "reading"]
<1>1. proc' = [proc EXCEPT ![w] = new]
  BY DEF get_cursor
<1>2. proc[w] \in Process
  BY DEF TypeOK
<1>3. new.from = cursor /\ new.pc = "reading"
  BY <1>2 DEF Process
<1>4. UNCHANGED <<reported, cursor, events, missed>>
  BY DEF get_cursor, broker, database, history
<1> HIDE DEF new
<1>5. proc'[w] = new /\ \A v \in Workers \ {w} : Undisturbed(v)
  BY <1>1, OthersUndisturbed
<1>6. ReadConsistent(w)'
  BY <1>3, <1>4, <1>5 DEF ReadConsistent, AtStep, Done
<1>7. \A v \in Workers \ {w} : ReadConsistent(v)'
  BY <1>4, <1>5, WorkerKept DEF Done
<1> QED BY <1>4, <1>6, <1>7 DEF Done

\* What a read leaves out was done, late or too old.
LEMMA ReadStep ==
  ASSUME CursorInv, TypeOK', NEW w \in Workers, read_operations(w)
  PROVE  CursorInv'
<1> USE DEF CursorInv
<1> DEFINE from == proc[w].from
           found == Since(from)
           new == [proc[w] EXCEPT !.operations = found, !.unseen = Classified(found),
                                  !.pc = "recording"]
<1>1. proc' = [proc EXCEPT ![w] = new]
  BY DEF read_operations
<1>2. proc[w] \in Process /\ AtStep(w, "reading") /\ ReadConsistent(w)
  BY DEF TypeOK, read_operations
<1>3. /\ new.operations = found /\ new.unseen = Classified(found)
      /\ new.pc = "recording"
  BY <1>2 DEF Process
<1>4. /\ reported' = reported /\ events' = events
      /\ missed' = missed \cup TooOld(from) /\ Done \subseteq Done'
      /\ cursor' = IF cursor = NoCursor THEN 0 ELSE cursor
  BY DEF read_operations, broker, Done
<1> HIDE DEF new
<1>5. proc'[w] = new /\ \A v \in Workers \ {w} : Undisturbed(v)
  BY <1>1, OthersUndisturbed
<1>6. found \subseteq reported
  BY DEF Since
<1>7. ASSUME NEW p \in found, NEW o \in Classified(reported), DateOf[o] < DateOf[p]
      PROVE  o \in Done' \cup Classified(found)
  <2>0. from \in Int
    BY <1>2 DEF Process
  <2>1. CASE o \in found
    BY <2>1 DEF Classified
  <2>2. CASE o \notin found /\ from > 0
    <3>1. DateOf[o] < from
      BY <2>0, <2>2, ReconciliationAssumption DEF Since, From, Classified, TypeOK
    <3>2. o \in Done
      BY <1>2, <3>1 DEF ReadConsistent, Passed
    <3> QED BY <1>4, <3>2
  <2>3. CASE o \notin found /\ ~(from > 0)
    BY <1>4, <2>3 DEF TooOld, Done, Classified
  <2> QED BY <2>1, <2>2, <2>3
<1> HIDE DEF found
<1>8. ReadConsistent(w)'
  BY <1>3, <1>4, <1>5, <1>6, <1>7 DEF ReadConsistent, AtStep, Passed
<1>9. \A v \in Workers \ {w} : ReadConsistent(v)'
  BY <1>4, <1>5, WorkerKept
<1>10. Passed(cursor', reported', Done') /\ Reached(cursor', reported')
  <2>1. CASE cursor = NoCursor
    BY <1>4, <2>1, ReconciliationAssumption DEF Passed, Reached, Classified, TypeOK
  <2>2. CASE cursor # NoCursor
    BY <1>4, <2>2, PassedGrows
  <2> QED BY <2>1, <2>2
<1> QED BY <1>8, <1>9, <1>10

\* An operation leaves the unseen ones when its event is there.
LEMMA RecordStep ==
  ASSUME CursorInv, TypeOK', NEW w \in Workers, NEW o \in Operations, RecordEvent(w, o)
  PROVE  CursorInv'
<1> USE DEF CursorInv
<1> DEFINE seen == [proc[w] EXCEPT !.unseen = @ \ {o}]
           made == [proc[w] EXCEPT !.unseen = @ \ {o}, !.created = @ \cup {o},
                      !.operation = IF o \in Deposits THEN o ELSE NoOperation,
                      !.pc = IF o \in Deposits THEN "announcing" ELSE "recording"]
           new == IF o \in events THEN seen ELSE made
<1>1. proc[w] \in Process /\ AtStep(w, "recording") /\ ReadConsistent(w)
  BY DEF TypeOK, RecordEvent
<1>2. proc' = [proc EXCEPT ![w] = new]
  BY DEF RecordEvent
<1>3. /\ new.operations = proc[w].operations /\ new.unseen = proc[w].unseen \ {o}
      /\ new.pc \in {"recording", "announcing"}
  BY <1>1 DEF Process, AtStep
<1>4. /\ UNCHANGED <<reported, cursor, missed>> /\ events' = events \cup {o}
      /\ Done' = Done \cup {o}
  BY DEF RecordEvent, broker, history, Done
<1> HIDE DEF new
<1>5. proc'[w] = new /\ \A v \in Workers \ {w} : Undisturbed(v)
  BY <1>2, OthersUndisturbed
<1>6. Done \cup proc[w].unseen \subseteq Done' \cup proc'[w].unseen
  BY <1>3, <1>4, <1>5
<1>7. ASSUME NEW p \in proc'[w].operations
      PROVE  Passed(DateOf[p], reported', Done' \cup proc'[w].unseen)
  <2>1. p \in proc[w].operations
    BY <1>3, <1>5
  <2>2. Passed(DateOf[p], reported, Done \cup proc[w].unseen)
    BY <1>1, <2>1 DEF ReadConsistent, AtStep
  <2> QED BY <1>4, <1>6, <2>2, PassedGrows
<1>8. ReadConsistent(w)'
  <2>1. proc'[w].operations \subseteq reported'
    BY <1>1, <1>3, <1>4, <1>5 DEF ReadConsistent, AtStep
  <2> QED BY <1>3, <1>5, <1>7, <2>1 DEF ReadConsistent, AtStep
<1>9. \A v \in Workers \ {w} : ReadConsistent(v)'
  BY <1>4, <1>5, WorkerKept
<1>10. Passed(cursor', reported', Done') /\ Reached(cursor', reported')
  BY <1>4, PassedGrows
<1> QED BY <1>8, <1>9, <1>10

\* The cursor moves to the last operation of a job that has recorded all it read.
LEMMA CommitStep ==
  ASSUME CursorInv, TypeOK', NEW w \in Workers, commit_cursor(w)
  PROVE  CursorInv'
<1> USE DEF CursorInv
<1> DEFINE new == [proc[w] EXCEPT !.operations = {}, !.from = 0, !.pc = "triggering"]
<1>1. proc' = [proc EXCEPT ![w] = new]
  <2>1. proc' = [proc EXCEPT ![w].operations = {}, ![w].from = 0, ![w].pc = "triggering"]
    BY DEF commit_cursor
  <2> QED BY <2>1
<1>2. proc[w] \in Process /\ AtStep(w, "recording") /\ proc[w].unseen = {}
      /\ ReadConsistent(w)
  BY DEF TypeOK, commit_cursor, AllSeen
<1>3. new.pc = "triggering"
  BY <1>2 DEF Process
<1>4. UNCHANGED <<reported, events, missed>> /\ Done' = Done
  BY DEF commit_cursor, broker, history, Done
<1> HIDE DEF new
<1>5. \A v \in Workers : Undisturbed(v)
  BY <1>1, <1>3, OthersUndisturbed DEF Undisturbed
<1>6. \A v \in Workers : ReadConsistent(v)'
  BY <1>4, <1>5, WorkerKept
<1>7. Passed(cursor', reported', Done') /\ Reached(cursor', reported')
  <2>1. CASE cursor' = cursor
    BY <1>4, <2>1
  <2>2. ASSUME NEW o \in proc[w].operations, cursor' = DateOf[o]
        PROVE  Passed(cursor', reported', Done') /\ Reached(cursor', reported')
    <3>1. Passed(DateOf[o], reported, Done)
      BY <1>2 DEF ReadConsistent, AtStep, Passed
    <3>2. o \in reported /\ DateOf[o] \in Int
      BY <1>2, ReconciliationAssumption DEF ReadConsistent, AtStep, Process
    <3> QED BY <1>4, <2>2, <3>1, <3>2 DEF Reached
  <2> QED BY <2>1, <2>2 DEF commit_cursor, Latest
<1> QED BY <1>6, <1>7

LEMMA CursorStep == CursorInv /\ [Next]_vars => CursorInv'
<1> SUFFICES ASSUME CursorInv, [Next]_vars PROVE CursorInv'
  OBVIOUS
<1>1. TypeOK'
  BY StepTyped DEF CursorInv
<1>2. CASE Tick \/ Notify \/ KeyExpires \/ StartCycle \/ UNCHANGED vars
  <2>1. UNCHANGED <<reported, cursor, events, missed, proc>>
    BY <1>2 DEF Tick, Notify, KeyExpires, StartCycle, vars, broker, database, history
  <2>2. \A w \in Workers : Undisturbed(w)
    BY <2>1 DEF Undisturbed, CursorInv, TypeOK, Process
  <2> QED BY <1>1, <2>1, <2>2, CursorKept DEF Done
<1>3. CASE \E o \in Operations : Report(o)
  BY <1>1, <1>3, ReportStep
<1>4. ASSUME NEW w \in Workers,
             TakeJob(w) \/ JobStep(w) \/ Raise(w) \/ FailReconciliation(w) \/ Crash(w)
      PROVE  CursorInv'
  BY <1>1, <1>4, QuietStep, GetCursorStep, ReadStep, RecordStep, CommitStep
     DEF JobStep, EndsJob
<1> QED BY <1>2, <1>3, <1>4 DEF Next

LEMMA CursorInit == Init => CursorInv
<1> SUFFICES ASSUME Init PROVE CursorInv
  OBVIOUS
<1>1. \A w \in Workers : proc[w].pc = "idle"
  BY DEF Init, Idle
<1>2. Passed(cursor, reported, Done) /\ Reached(cursor, reported)
  BY DEF Init, Passed, Reached, Classified, NoCursor
<1> QED BY <1>1, <1>2, InitTyped DEF CursorInv, ReadConsistent, AtStep

\* The cursor passes no operation that is neither recorded, nor late, nor too old.
THEOREM NothingPassedOver == Spec => []CursorBehindEvents
<1>1. CursorInv => CursorBehindEvents
  BY DEF CursorInv, CursorBehindEvents, Passed, Done
<1> QED BY <1>1, CursorInit, CursorStep, PTL DEF Spec

----------------------------------------------------------------------------
(* No deposit is announced twice, and a recorded one asks for a cycle       *)

\* What a step does to the record of w: everything but RecordEvent leaves the deposit
\* to announce alone, and only the end of a job or its trigger what it has created.
LEMMA RecordOf ==
  ASSUME TypeOK, NEW w \in Workers,
         TakeJob(w) \/ get_cursor(w) \/ read_operations(w) \/ Announce(w)
           \/ commit_cursor(w) \/ FailReconciliation(w)
  PROVE  /\ proc'[w].pc # "announcing" /\ proc'[w].created = proc[w].created
         /\ \A v \in Workers \ {w} : proc'[v] = proc[v]
         /\ UNCHANGED <<events, automation, orphaned>>
<1>0. proc \in [Workers -> Process] /\ proc[w] \in Process
  BY DEF TypeOK
<1>1. CASE TakeJob(w)
  BY <1>0, <1>1 DEF TakeJob, Process, history
<1>2. CASE get_cursor(w)
  BY <1>0, <1>2 DEF get_cursor, Process, redis, database, history
<1>3. CASE read_operations(w)
  BY <1>0, <1>3 DEF read_operations, Process
<1>4. CASE Announce(w)
  BY <1>0, <1>4 DEF Announce, Process, redis, database, history
<1>5. CASE commit_cursor(w)
  <2>1. /\ proc' = [proc EXCEPT ![w].operations = {}, ![w].from = 0, ![w].pc = "triggering"]
        /\ UNCHANGED <<automation, events, history>>
    BY <1>5 DEF commit_cursor
  <2> QED BY <1>0, <2>1 DEF Process, history
<1>6. CASE FailReconciliation(w)
  BY <1>0, <1>6 DEF FailReconciliation, Process, redis, database
<1> QED BY <1>1, <1>2, <1>3, <1>4, <1>5, <1>6

LEMMA LastRecordOf ==
  ASSUME TypeOK, NEW w \in Workers,
         Trigger(w) \/ EndsJob(w) \/ RecordChange(w)
  PROVE  /\ proc'[w].pc # "announcing"
         /\ \A v \in Workers \ {w} : proc'[v] = proc[v]
         /\ events \subseteq events' /\ announced' = announced
<1>0. proc \in [Workers -> Process] /\ proc[w] \in Process
  BY DEF TypeOK
<1>1. CASE Trigger(w)
  BY <1>0, <1>1 DEF Trigger, Process, database
<1>2. CASE EndsJob(w)
  <2>1. proc' = [proc EXCEPT ![w] = Idle] /\ UNCHANGED <<events, announced>>
    BY <1>2 DEF EndsJob, EndJob, ReadFails, Clear, Raise, Crash, database
  <2> QED BY <1>0, <2>1 DEF Idle
<1>3. CASE RecordChange(w)
  BY <1>0, <1>3 DEF RecordChange, AllSeen, AtStep, Process
<1> QED BY <1>1, <1>2, <1>3

LEMMA RecordEventOf ==
  ASSUME TypeOK, NEW w \in Workers, NEW o \in Operations, RecordEvent(w, o)
  PROVE  /\ events' = events \cup {o} /\ UNCHANGED <<announced, automation, orphaned>>
         /\ \A v \in Workers \ {w} : proc'[v] = proc[v]
         /\ o \in events => proc'[w].pc # "announcing" /\ proc'[w].created = proc[w].created
         /\ o \notin events =>
              /\ proc'[w].created = proc[w].created \cup {o}
              /\ proc'[w].pc = "announcing" => proc'[w].operation = o
<1>1. proc \in [Workers -> Process] /\ proc[w] \in Process
  BY DEF TypeOK
<1>2. UNCHANGED <<announced, automation, orphaned>>
  BY DEF RecordEvent, redis, history
<1>3. CASE o \in events
  BY <1>1, <1>2, <1>3 DEF RecordEvent, AtStep, Process
<1>4. CASE o \notin events
  <2> DEFINE new == [proc[w] EXCEPT !.unseen = @ \ {o}, !.created = @ \cup {o},
                       !.operation = IF o \in Deposits THEN o ELSE NoOperation,
                       !.pc = IF o \in Deposits THEN "announcing" ELSE "recording"]
  <2>1. proc' = [proc EXCEPT ![w] = new] /\ events' = events \cup {o}
    BY <1>4 DEF RecordEvent
  <2>2. /\ new.created = proc[w].created \cup {o}
        /\ new.pc = "announcing" => new.operation = o
    BY <1>1 DEF Process
  <2> HIDE DEF new
  <2> QED BY <1>1, <1>2, <1>4, <2>1, <2>2
<1> QED BY <1>3, <1>4

\* The deposit a worker is to announce has its event, was not announced, and is
\* nobody else's.
AnnounceConsistent(w) ==
  AtStep(w, "announcing") =>
    /\ proc[w].operation \in events /\ announced[proc[w].operation] = 0
    /\ \A v \in Workers \ {w} :
         AtStep(v, "announcing") => proc[v].operation # proc[w].operation

AnnounceInv == TypeOK /\ AnnouncedOnce /\ \A w \in Workers : AnnounceConsistent(w)

LEMMA AnnounceKept ==
  ASSUME AnnounceInv, TypeOK', events \subseteq events', announced' = announced,
         \A w \in Workers :
           proc'[w].pc = "announcing" =>
             proc[w].pc = "announcing" /\ proc'[w].operation = proc[w].operation
  PROVE  AnnounceInv'
BY DEF AnnounceInv, AnnouncedOnce, AnnounceConsistent, AtStep

LEMMA AnnounceNew ==
  ASSUME AnnounceInv, TypeOK', NEW w \in Workers, NEW o \in Operations, RecordEvent(w, o)
  PROVE  AnnounceInv'
<1>1. TypeOK
  BY DEF AnnounceInv
<1>2. CASE o \in events
  BY <1>1, <1>2, RecordEventOf, AnnounceKept
<1>3. CASE o \notin events
  <2>1. announced[o] = 0
    BY <1>1, <1>3 DEF AnnounceInv, AnnouncedOnce, TypeOK
  <2>2. \A v \in Workers : AtStep(v, "announcing") => proc[v].operation # o
    BY <1>3 DEF AnnounceInv, AnnounceConsistent
  <2>3. ASSUME NEW v \in Workers PROVE AnnounceConsistent(v)'
    <3>1. CASE v = w
      BY <1>1, <1>3, <2>1, <2>2, <3>1, RecordEventOf DEF AnnounceConsistent, AtStep
    <3>2. CASE v # w
      BY <1>1, <1>3, <2>1, <2>2, <3>2, RecordEventOf
         DEF AnnounceInv, AnnounceConsistent, AtStep
    <3> QED BY <3>1, <3>2
  <2>4. AnnouncedOnce'
    BY <1>1, RecordEventOf DEF AnnounceInv, AnnouncedOnce
  <2> QED BY <2>3, <2>4 DEF AnnounceInv
<1> QED BY <1>2, <1>3

LEMMA AnnounceDone ==
  ASSUME AnnounceInv, TypeOK', NEW w \in Workers, Announce(w)
  PROVE  AnnounceInv'
<1>1. TypeOK /\ announced \in [Operations -> Nat]
  BY DEF AnnounceInv, TypeOK
<1>2. /\ announced' = [announced EXCEPT ![proc[w].operation] = @ + 1]
      /\ AtStep(w, "announcing")
  BY DEF Announce
<1>3. proc[w].operation \in events /\ announced[proc[w].operation] = 0
  BY <1>2 DEF AnnounceInv, AnnounceConsistent
<1>4. /\ proc'[w].pc # "announcing" /\ events' = events
      /\ \A v \in Workers \ {w} : proc'[v] = proc[v]
  BY <1>1, RecordOf
<1>5. AnnouncedOnce'
  BY <1>1, <1>2, <1>3, <1>4 DEF AnnounceInv, AnnouncedOnce
<1>6. ASSUME NEW v \in Workers PROVE AnnounceConsistent(v)'
  <2>1. CASE v = w
    BY <1>4, <2>1 DEF AnnounceConsistent, AtStep
  <2>2. CASE v # w /\ AtStep(v, "announcing")
    <3>1. proc[v].operation # proc[w].operation /\ announced[proc[v].operation] = 0
      BY <1>2, <2>2 DEF AnnounceInv, AnnounceConsistent
    <3>2. announced'[proc[v].operation] = 0
      BY <1>1, <1>2, <3>1
    <3> QED BY <1>4, <2>2, <3>2 DEF AnnounceInv, AnnounceConsistent, AtStep
  <2>3. CASE v # w /\ ~AtStep(v, "announcing")
    BY <1>4, <2>3 DEF AnnounceConsistent, AtStep
  <2> QED BY <2>1, <2>2, <2>3
<1> QED BY <1>5, <1>6 DEF AnnounceInv

LEMMA AnnounceStep == AnnounceInv /\ [Next]_vars => AnnounceInv'
<1> SUFFICES ASSUME AnnounceInv, [Next]_vars PROVE AnnounceInv'
  OBVIOUS
<1>1. TypeOK /\ TypeOK'
  BY StepTyped DEF AnnounceInv
<1>2. CASE Tick \/ Notify \/ KeyExpires \/ StartCycle \/ (\E o \in Operations : Report(o))
             \/ UNCHANGED vars
  <2>1. UNCHANGED <<events, announced, proc>>
    BY <1>2 DEF Tick, Notify, KeyExpires, StartCycle, Report, vars, database
  <2> QED BY <1>1, <2>1, AnnounceKept
<1>3. ASSUME NEW w \in Workers,
             TakeJob(w) \/ JobStep(w) \/ Raise(w) \/ FailReconciliation(w) \/ Crash(w)
      PROVE  AnnounceInv'
  <2>1. CASE TakeJob(w) \/ get_cursor(w) \/ read_operations(w) \/ commit_cursor(w)
               \/ FailReconciliation(w)
    <3>1. announced' = announced
      BY <2>1 DEF TakeJob, get_cursor, read_operations, commit_cursor, FailReconciliation
    <3> QED BY <1>1, <2>1, <3>1, RecordOf, AnnounceKept
  <2>2. CASE Trigger(w) \/ EndsJob(w) \/ RecordChange(w)
    BY <1>1, <2>2, LastRecordOf, AnnounceKept
  <2> QED BY <1>1, <1>3, <2>1, <2>2, AnnounceNew, AnnounceDone DEF JobStep, EndsJob
<1> QED BY <1>2, <1>3 DEF Next

LEMMA AnnounceInit == Init => AnnounceInv
<1> SUFFICES ASSUME Init PROVE AnnounceInv
  OBVIOUS
<1>1. \A w \in Workers : proc[w].pc = "idle"
  BY DEF Init, Idle
<1>2. AnnouncedOnce
  BY DEF Init, AnnouncedOnce
<1> QED BY <1>1, <1>2, InitTyped DEF AnnounceInv, AnnounceConsistent, AtStep

\* A deposit is notified at most once, however jobs overlap, fail and repeat.
THEOREM NotifiedOnce == Spec => []AnnouncedOnce
<1>1. AnnounceInv => AnnouncedOnce
  BY DEF AnnounceInv
<1> QED BY <1>1, AnnounceInit, AnnounceStep, PTL DEF Spec

\* What a worker has created is recorded, and a cycle for deposits that is queued or
\* started has deposits to serve.
TriggerInv ==
  /\ TypeOK /\ DepositTriggers
  /\ \A w \in Workers : proc[w].created \subseteq events
  /\ cycles["DEPOSIT_DETECTED"] = "queued" => Deposits \cap events # {}
  /\ cycles["DEPOSIT_DETECTED"] = "started" => served # {}

\* Steps that keep what the workers have created.
LEMMA CreatedKept ==
  ASSUME TriggerInv, TypeOK', UNCHANGED <<automation, orphaned>>,
         events \subseteq events', (events' \ events) \cap Deposits = {},
         \A w \in Workers : /\ proc[w].created \subseteq proc'[w].created
                             /\ proc'[w].created \subseteq events'
  PROVE  TriggerInv'
<1>1. UNCHANGED <<cycles, served, dropped, orphaned>>
  BY DEF automation
<1>2. DepositTriggers'
  BY <1>1 DEF TriggerInv, DepositTriggers
<1> QED BY <1>1, <1>2 DEF TriggerInv

LEMMA StartServes ==
  ASSUME TriggerInv, TypeOK', StartCycle
  PROVE  TriggerInv'
<1>1. /\ cycles["DEPOSIT_DETECTED"] = "queued" /\ cycles'["DEPOSIT_DETECTED"] = "started"
      /\ served' = Deposits \cap events /\ UNCHANGED <<events, proc>>
  BY DEF StartCycle, TriggerInv, TypeOK, AutomationTrigger, database
<1>2. stream_automation_trigger_enabled
  BY <1>1 DEF TriggerInv, DepositTriggers, AutomationTrigger
<1>3. DepositTriggers'
  BY <1>1, <1>2 DEF DepositTriggers
<1> QED BY <1>1, <1>3 DEF TriggerInv

\* The deposits among what a job has created are served, by a cycle that is queued
\* now, or dropped.
LEMMA TriggerAsks ==
  ASSUME TriggerInv, TypeOK', NEW w \in Workers, Trigger(w)
  PROVE  TriggerInv'
<1>1. /\ \A v \in Workers \ {w} : proc'[v] = proc[v]
      /\ proc'[w].created = {} /\ UNCHANGED <<events, orphaned>>
  <2>1. proc \in [Workers -> Process] /\ proc[w] \in Process
    BY DEF TriggerInv, TypeOK
  <2> QED BY <2>1 DEF Trigger, Process, database, history
<1>2. \A v \in Workers : proc'[v].created \subseteq events'
  BY <1>1 DEF TriggerInv
<1>3. CASE ~(stream_automation_trigger_enabled /\ proc[w].created # {})
  <2>1. UNCHANGED <<cycles, served, dropped>>
    BY <1>3 DEF Trigger, automation
  <2>2. DepositTriggers'
    BY <1>1, <1>3, <2>1 DEF TriggerInv, DepositTriggers
  <2> QED BY <1>1, <1>2, <2>1, <2>2 DEF TriggerInv
<1>4. CASE stream_automation_trigger_enabled /\ proc[w].created # {}
  <2> DEFINE S == proc[w].created
             c == cycles["DEPOSIT_DETECTED"]
  <2>1. S \subseteq events
    BY DEF TriggerInv
  <2>2. cycles \in [AutomationTrigger -> Cycle]
    BY DEF TriggerInv, TypeOK
  <2>3. Enqueue(S)
    BY <1>4 DEF Trigger
  <2>4. CASE S \cap Deposits = {}
    <3>1. cycles'["DEPOSIT_DETECTED"] = c /\ served' = served /\ dropped \subseteq dropped'
      BY <2>2, <2>3, <2>4 DEF Enqueue, Kind, AutomationTrigger
    <3>2. DepositTriggers'
      BY <1>1, <1>4, <2>4, <3>1 DEF TriggerInv, DepositTriggers
    <3> QED BY <1>1, <1>2, <3>1, <3>2 DEF TriggerInv
  <2>5. CASE S \cap Deposits # {}
    <3>1. /\ cycles'["DEPOSIT_DETECTED"] = (IF c = "none" THEN "queued" ELSE c)
          /\ dropped' = IF c = "started" THEN dropped \cup ((S \cap Deposits) \ served)
                        ELSE dropped
          /\ served' = served
      BY <2>2, <2>3, <2>5 DEF Enqueue, Kind, AutomationTrigger
    <3>2. c \in {"none", "queued", "started"}
      BY <2>2 DEF AutomationTrigger, Cycle
    <3>3. CASE c # "started"
      <4>1. DepositTriggers'
        BY <1>4, <3>1, <3>2, <3>3 DEF DepositTriggers
      <4> QED BY <1>1, <1>2, <2>1, <2>5, <3>1, <3>2, <3>3, <4>1 DEF TriggerInv
    <3>4. CASE c = "started"
      <4>1. served # {} /\ dropped' = dropped \cup ((S \cap Deposits) \ served)
        BY <3>1, <3>4 DEF TriggerInv
      <4>2. DepositTriggers'
        BY <1>1, <1>4, <3>1, <3>4, <4>1 DEF TriggerInv, DepositTriggers
      <4> QED BY <1>1, <1>2, <3>1, <3>4, <4>1, <4>2 DEF TriggerInv
    <3> QED BY <3>3, <3>4
  <2> QED BY <2>4, <2>5
<1> QED BY <1>3, <1>4

LEMMA TriggerStep == TriggerInv /\ [Next]_vars => TriggerInv'
<1> SUFFICES ASSUME TriggerInv, [Next]_vars PROVE TriggerInv'
  OBVIOUS
<1>1. TypeOK /\ TypeOK' /\ \A v \in Workers : proc[v].created \subseteq events
  BY StepTyped DEF TriggerInv
<1>2. CASE Tick \/ Notify \/ KeyExpires \/ (\E o \in Operations : Report(o)) \/ UNCHANGED vars
  <2>1. UNCHANGED <<events, automation, orphaned, proc>>
    BY <1>2 DEF Tick, Notify, KeyExpires, Report, vars, database, history
  <2> QED BY <1>1, <2>1, CreatedKept
<1>3. ASSUME NEW w \in Workers,
             TakeJob(w) \/ JobStep(w) \/ Raise(w) \/ FailReconciliation(w) \/ Crash(w)
      PROVE  TriggerInv'
  <2>1. CASE TakeJob(w) \/ get_cursor(w) \/ read_operations(w) \/ Announce(w)
               \/ commit_cursor(w) \/ FailReconciliation(w)
    <3>1. events' = events /\ \A v \in Workers : proc'[v].created = proc[v].created
      BY <1>1, <2>1, RecordOf
    <3> QED BY <1>1, <2>1, <3>1, RecordOf, CreatedKept
  <2>2. ASSUME NEW o \in Operations, RecordEvent(w, o) PROVE TriggerInv'
    <3>1. CASE o \in events
      <4>1. events' = events /\ \A v \in Workers : proc'[v].created = proc[v].created
        BY <1>1, <2>2, <3>1, RecordEventOf
      <4> QED BY <1>1, <2>2, <4>1, RecordEventOf, CreatedKept
    <3>2. CASE o \notin events
      <4>1. /\ events' = events \cup {o} /\ UNCHANGED <<automation, orphaned>>
            /\ o \in proc'[w].created
            /\ \A v \in Workers : /\ proc[v].created \subseteq proc'[v].created
                                   /\ proc'[v].created \subseteq events'
        BY <1>1, <2>2, <3>2, RecordEventOf
      <4>2. UNCHANGED <<cycles, served, dropped>>
        BY <4>1 DEF automation
      <4>3. DepositTriggers'
        BY <4>1, <4>2 DEF TriggerInv, DepositTriggers
      <4> QED BY <1>1, <4>1, <4>2, <4>3 DEF TriggerInv
    <3> QED BY <3>1, <3>2
  <2>3. CASE RecordChange(w)
    <3>1. /\ events' = events \cup {ACCOUNT_CHANGE} /\ UNCHANGED <<automation, orphaned>>
          /\ proc[w].created = {}
      BY <2>3 DEF RecordChange, NothingNew, history
    <3>2. proc'[w].created = {ACCOUNT_CHANGE} /\ \A v \in Workers \ {w} : proc'[v] = proc[v]
      <4>1. proc \in [Workers -> Process] /\ proc[w] \in Process
        BY <1>1 DEF TypeOK
      <4> QED BY <2>3, <4>1 DEF RecordChange, Process
    <3>3. \A v \in Workers : /\ proc[v].created \subseteq proc'[v].created
                             /\ proc'[v].created \subseteq events'
      BY <1>1, <3>1, <3>2
    <3>4. (events' \ events) \cap Deposits = {}
      BY <3>1, ReconciliationAssumption
    <3> QED BY <1>1, <3>1, <3>3, <3>4, CreatedKept
  <2>4. CASE Trigger(w)
    BY <1>1, <2>4, TriggerAsks
  <2>5. CASE EndsJob(w)
    <3>1. EndJob(w) /\ UNCHANGED <<events, automation>>
      BY <2>5 DEF EndsJob, ReadFails, Clear, Raise, Crash, database
    <3>2. UNCHANGED <<cycles, served, dropped>> /\ orphaned' = orphaned \cup proc[w].created
      BY <3>1 DEF EndJob, automation
    <3>3. /\ \A v \in Workers \ {w} : proc'[v] = proc[v]
          /\ proc'[w].created = {}
      BY <1>1, <3>1 DEF EndJob, Idle, TypeOK
    <3>4. DepositTriggers'
      BY <3>1, <3>2, <3>3 DEF TriggerInv, DepositTriggers
    <3> QED BY <1>1, <3>1, <3>2, <3>3, <3>4 DEF TriggerInv
  <2> QED BY <1>3, <2>1, <2>2, <2>3, <2>4, <2>5 DEF JobStep, EndsJob
<1> QED BY <1>1, <1>2, <1>3, StartServes DEF Next

LEMMA TriggerInit == Init => TriggerInv
<1> SUFFICES ASSUME Init PROVE TriggerInv
  OBVIOUS
<1>1. \A k \in AutomationTrigger : cycles[k] = "none"
  BY DEF Init
<1>2. \A w \in Workers : proc[w].created = {}
  BY DEF Init, Idle
<1>3. events = {}
  BY DEF Init
<1> QED BY <1>1, <1>2, <1>3, InitTyped DEF TriggerInv, DepositTriggers, AutomationTrigger

\* A deposit goes without a cycle only if its job ended too early, or an earlier deposit
\* has used the one there is; where the setting is off, there is none.
THEOREM DepositsAskForCycle == Spec => []DepositTriggers
<1>1. TriggerInv => DepositTriggers
  BY DEF TriggerInv
<1> QED BY <1>1, TriggerInit, TriggerStep, PTL DEF Spec
=============================================================================
