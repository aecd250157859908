---------------------------- MODULE StreamLease ----------------------------
(***************************************************************************)
(* The stream listener: which process consumes a broker stream, and how it *)
(* reconnects and stops (app/streams/supervisor.py, lease.py, listener.py).*)
(*                                                                         *)
(* A listener is a process, and here one of its stream tasks: the tasks of *)
(* a process share nothing but its stop event.  What a task does with an   *)
(* event is in StreamInbox; the rows it keeps for the status views are     *)
(* left out, since no code but those views reads them.                     *)
(***************************************************************************)
EXTENDS Integers

CONSTANTS
  Listeners,       \* processes of the service stream-listener
  RenewInterval,   \* broker_stream_lock_renew_interval_seconds, in ticks
  RenewDelay,      \* bound: how late a renewal may reach Redis
  LockTtl,         \* broker_stream_lock_ttl_seconds
  ReconnectLimit,  \* failures after which the float 2 ** failures overflows
  Faults,          \* whether Redis and PostgreSQL may fail, and Redis forget
  NoListener

\* validate_stream_configuration compares the interval with the lifetime.
ASSUME LeaseAssumption ==
  /\ RenewInterval \in Nat \ {0} /\ RenewDelay \in Nat
  /\ LockTtl \in Nat /\ RenewInterval < LockTtl
  /\ ReconnectLimit \in Nat
  /\ Faults \in BOOLEAN
  /\ NoListener \notin Listeners

VARIABLES
  lease,      \* external: the Redis key broker-stream:{provider}:{target}:{type}:{accounts}
  listener,   \* what each listener is doing
  forgotten   \* history: whether Redis ever lost the key

vars == <<lease, listener, forgotten>>

\* Inside the try statement of _run_stream.
Running == {"connecting", "consuming", "erring", "waiting"}

Free == [owner |-> NoListener, ttl |-> 0]

Held(l, ttl) == [owner |-> l, ttl |-> ttl]

\* renewing: the task that renews the lease is alive; since: the time since it
\* last did.  ReconnectLimit + 1 stands for every larger number of failures.
Listener ==
  [pc : Running \cup {"down", "acquiring", "closing", "ended"},
   renewing : BOOLEAN, since : 0 .. RenewInterval + RenewDelay,
   failures : 0 .. ReconnectLimit + 1, stop : BOOLEAN]

Down == [pc |-> "down", renewing |-> FALSE, since |-> 0, failures |-> 0, stop |-> FALSE]

TypeOK ==
  /\ lease \in [owner : Listeners \cup {NoListener}, ttl : 0 .. LockTtl]
  /\ listener \in [Listeners -> Listener]
  /\ forgotten \in BOOLEAN

Init ==
  /\ lease = Free
  /\ listener = [l \in Listeners |-> Down]
  /\ forgotten = FALSE

----------------------------------------------------------------------------
AtStep(l, pc) == listener[l].pc = pc

Goto(l, pc) == listener' = [listener EXCEPT ![l].pc = pc]

\* Mutant of Close: the task that renews goes on.
CloseKeepsRenewing(l) == Goto(l, "closing")

\* The finally clause begins by cancelling the task that renews.
Close(l) ==
  listener' = [listener EXCEPT ![l].pc = "closing", ![l].renewing = FALSE, ![l].since = 0]

\* Mutants of Unlocked: anybody's lease is deleted; of Locked: it lives longer.
UnlockedAny(l) == Free
LockedLonger(l) == Held(l, LockTtl + RenewInterval)

\* SET NX EX, and RELEASE_SCRIPT.
Locked(l) == Held(l, LockTtl)
Unlocked(l) == IF lease.owner = l THEN Free ELSE lease

----------------------------------------------------------------------------
(* The stream task                                                          *)

Start(l) ==
  /\ AtStep(l, "down")
  /\ Goto(l, "acquiring")
  /\ UNCHANGED <<lease, forgotten>>

\* Mutant of acquire: SET without NX.
acquire_taken(l) ==
  /\ AtStep(l, "acquiring")
  /\ lease' = Locked(l)
  /\ listener' = [listener EXCEPT ![l].pc = "connecting", ![l].renewing = TRUE]
  /\ UNCHANGED forgotten

acquire(l) ==
  /\ AtStep(l, "acquiring") /\ lease = Free
  /\ lease' = Locked(l)
  /\ listener' = [listener EXCEPT ![l].pc = "connecting", ![l].renewing = TRUE]
  /\ UNCHANGED forgotten

\* Mutant of Refused: the task asks again and again.
RefusedRetries(l) ==
  /\ AtStep(l, "acquiring") /\ lease # Free
  /\ UNCHANGED vars

\* The lease is taken: the task ends, and nothing starts it again.
Refused(l) ==
  /\ AtStep(l, "acquiring") /\ lease # Free
  /\ Goto(l, "ended")
  /\ UNCHANGED <<lease, forgotten>>

\* Redis fails, before it has set the key or after; gather swallows the error.
AcquireFails(l) ==
  /\ Faults /\ AtStep(l, "acquiring")
  /\ \/ UNCHANGED lease
     \/ lease = Free /\ lease' = Locked(l)
  /\ Goto(l, "ended")
  /\ UNCHANGED forgotten

\* Next turn of the outer loop.
Connect(l) ==
  /\ AtStep(l, "connecting") /\ ~listener[l].stop
  /\ Goto(l, "consuming")
  /\ UNCHANGED <<lease, forgotten>>

\* The loop ends when it was told to stop, or the first write of the state
\* fails, which no except clause catches.
LeaveLoop(l) ==
  /\ AtStep(l, "connecting") /\ (Faults \/ listener[l].stop)
  /\ Close(l)
  /\ UNCHANGED <<lease, forgotten>>

\* _next_event sees the stop event and raises CancelledError.
StopConsuming(l) ==
  /\ AtStep(l, "consuming") /\ listener[l].stop
  /\ Close(l)
  /\ UNCHANGED <<lease, forgotten>>

\* The stream closes or grows stale, or the handling of an event fails.  The
\* count of failures is set back only when the loop ends, so never in effect.
StreamFails(l) ==
  /\ AtStep(l, "consuming")
  /\ listener' = [listener EXCEPT ![l].pc = "erring",
       ![l].failures = IF @ > ReconnectLimit THEN @ ELSE @ + 1]
  /\ UNCHANGED <<lease, forgotten>>

Backoff(l) ==
  /\ AtStep(l, "erring") /\ listener[l].failures <= ReconnectLimit
  /\ Goto(l, "waiting")
  /\ UNCHANGED <<lease, forgotten>>

\* A terminal error, a delay that overflows, or a write that fails.
GiveUp(l) ==
  /\ AtStep(l, "erring")
  /\ Close(l)
  /\ UNCHANGED <<lease, forgotten>>

\* The delay is over, or the stop event ends it.
Reconnect(l) ==
  /\ AtStep(l, "waiting")
  /\ Goto(l, "connecting")
  /\ UNCHANGED <<lease, forgotten>>

release(l) ==
  /\ AtStep(l, "closing")
  /\ lease' = Unlocked(l)
  /\ Goto(l, "ended")
  /\ UNCHANGED forgotten

ReleaseFails(l) ==
  /\ Faults /\ AtStep(l, "closing")
  /\ Goto(l, "ended")
  /\ UNCHANGED <<lease, forgotten>>

----------------------------------------------------------------------------
(* The task that renews the lease                                           *)

RenewDue(l) == listener[l].renewing /\ listener[l].since >= RenewInterval

renew(l) ==
  /\ RenewDue(l) /\ lease.owner = l
  /\ lease' = Held(l, LockTtl)
  /\ listener' = [listener EXCEPT ![l].since = 0]
  /\ UNCHANGED forgotten

\* The lease is another's or nobody's: the stream task is cancelled.
LeaseLost(l) ==
  /\ RenewDue(l) /\ lease.owner # l
  /\ Close(l)
  /\ UNCHANGED <<lease, forgotten>>

\* The renewal raises, done or not: the renewing task ends, the stream goes on.
RenewFails(l) ==
  /\ Faults /\ RenewDue(l)
  /\ \/ UNCHANGED lease
     \/ lease.owner = l /\ lease' = Held(l, LockTtl)
  /\ listener' = [listener EXCEPT ![l].renewing = FALSE, ![l].since = 0]
  /\ UNCHANGED forgotten

----------------------------------------------------------------------------
(* The process, Redis and time                                              *)

\* SIGTERM or SIGINT sets the stop event.
Stop(l) ==
  /\ ~AtStep(l, "down")
  /\ listener' = [listener EXCEPT ![l].stop = TRUE]
  /\ UNCHANGED <<lease, forgotten>>

\* run waits for the stop event once its tasks have ended.
Exit(l) ==
  /\ AtStep(l, "ended") /\ listener[l].stop
  /\ listener' = [listener EXCEPT ![l] = Down]
  /\ UNCHANGED <<lease, forgotten>>

Crash(l) ==
  /\ ~AtStep(l, "down")
  /\ listener' = [listener EXCEPT ![l] = Down]
  /\ UNCHANGED <<lease, forgotten>>

\* Redis restarts without the key.
Forget ==
  /\ Faults /\ lease # Free
  /\ lease' = Free
  /\ forgotten' = TRUE
  /\ UNCHANGED listener

Tick ==
  /\ \A l \in Listeners : listener[l].renewing => listener[l].since < RenewInterval + RenewDelay
  /\ lease' = CASE lease.ttl = 0 -> lease
                [] lease.ttl = 1 -> Free
                [] OTHER -> [lease EXCEPT !.ttl = @ - 1]
  /\ listener' = [l \in Listeners |->
       IF listener[l].renewing THEN [listener[l] EXCEPT !.since = @ + 1] ELSE listener[l]]
  /\ UNCHANGED forgotten

TaskStep(l) ==
  \/ acquire(l) \/ Refused(l) \/ Connect(l) \/ LeaveLoop(l) \/ StopConsuming(l)
  \/ Backoff(l) \/ GiveUp(l) \/ Reconnect(l) \/ release(l) \/ ReleaseFails(l)

Renewal(l) == renew(l) \/ LeaseLost(l) \/ RenewFails(l)

ListenerStep(l) ==
  \/ TaskStep(l) \/ Renewal(l) \/ AcquireFails(l) \/ StreamFails(l)
  \/ Start(l) \/ Stop(l) \/ Exit(l) \/ Crash(l)

Next ==
  \/ \E l \in Listeners : ListenerStep(l)
  \/ Forget
  \/ Tick

Spec == Init /\ [][Next]_vars

\* Time passes and renewals come due; a task goes on, but no stream must fail or
\* deliver, and no process must start, crash or be told to stop.
Fairness ==
  /\ WF_vars(Tick)
  /\ \A l \in Listeners : WF_vars(TaskStep(l)) /\ WF_vars(Renewal(l)) /\ WF_vars(Exit(l))

FairSpec == Spec /\ Fairness

----------------------------------------------------------------------------
(* Properties                                                               *)

\* Two listeners never consume the stream while both renew their leases, unless
\* Redis lost the key, for renewals that reach it in time: "Leader lease"
\* (operations.md:108).  A listener whose renewal raised is no longer a leader,
\* though it goes on consuming.
OneLeader ==
  RenewInterval + RenewDelay < LockTtl /\ ~forgotten =>
    \A l, m \in Listeners : listener[l].renewing /\ listener[m].renewing => l = m

\* "продлевается и освобождается Lua-скриптами только owner" (operations.md:108):
\* as long as Redis keeps the key, a lease goes away only by its owner's release
\* or by expiry, and lives longer only by its owner's renewal.
ForeignLeaseKept ==
  [][\A l \in Listeners :
       lease.owner = l /\ ~forgotten' =>
         /\ lease'.owner # l => lease.ttl = 1 \/ listener'[l].pc # listener[l].pc
         /\ lease'.owner = l /\ lease'.ttl > lease.ttl =>
              RenewDue(l) /\ listener'[l].since = 0]_vars

\* The lease of a listener that crashed, failed to acquire it or failed to
\* release it does not bar the others for ever.
OrphanExpires ==
  \A l \in Listeners :
    lease.owner = l /\ listener[l].pc \notin Running ~> lease.owner # l

\* A listener that is told to stop does stop, from whatever step it is at: no
\* wait, retry or failing call keeps the process.
StopsWhenTold == \A l \in Listeners : listener[l].stop ~> AtStep(l, "down")
============================================================================
