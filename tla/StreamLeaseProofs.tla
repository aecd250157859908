------------------------- MODULE StreamLeaseProofs -------------------------
(***************************************************************************)
(* Proofs about StreamLease: one leader, and leases that only their owners *)
(* prolong or delete, for every number of listeners and every interval.    *)
(***************************************************************************)
EXTENDS StreamLease, TLAPS

\* A lease is renewed inside the try statement only.
RenewerConsistent(l) ==
  /\ listener[l].renewing => listener[l].pc \in Running
  /\ ~listener[l].renewing => listener[l].since = 0

\* The lease of a leader is its own, and as old as its last renewal.
LeaseInStep(l) ==
  listener[l].renewing => lease.owner = l /\ lease.ttl + listener[l].since = LockTtl

Timely == RenewInterval + RenewDelay < LockTtl

IInv ==
  /\ TypeOK
  /\ \A l \in Listeners : RenewerConsistent(l)
  /\ Timely /\ ~forgotten => \A l \in Listeners : LeaseInStep(l)

----------------------------------------------------------------------------
\* The counters of a listener stay in their ranges.
LEMMA Ranges ==
  /\ 0 \in 0 .. RenewInterval + RenewDelay /\ 0 \in 0 .. ReconnectLimit + 1
  /\ \A n \in 0 .. ReconnectLimit + 1 : n > ReconnectLimit \/ n + 1 \in 0 .. ReconnectLimit + 1
  BY LeaseAssumption

LEMMA DownTyped == Down \in Listener /\ ~Down.renewing /\ Down.since = 0
  BY Ranges DEF Down, Listener

\* The record of one listener changes.
LEMMA Updated ==
  ASSUME TypeOK, NEW l \in Listeners, NEW new \in Listener,
         listener' = [listener EXCEPT ![l] = new]
  PROVE  /\ listener' \in [Listeners -> Listener]
         /\ listener'[l] = new
         /\ \A m \in Listeners \ {l} : listener'[m] = listener[m]
  BY DEF TypeOK

LEMMA GotoUpdates ==
  ASSUME TypeOK, NEW l \in Listeners, Goto(l, "acquiring") \/ Goto(l, "consuming")
           \/ Goto(l, "waiting") \/ Goto(l, "connecting") \/ Goto(l, "ended")
  PROVE  /\ listener' \in [Listeners -> Listener]
         /\ listener'[l].renewing = listener[l].renewing
         /\ listener'[l].since = listener[l].since
         /\ \A m \in Listeners \ {l} : listener'[m] = listener[m]
         /\ \A pc \in {"acquiring", "consuming", "waiting", "connecting", "ended"} :
              Goto(l, pc) => listener'[l].pc = pc
<1>1. PICK pc \in {"acquiring", "consuming", "waiting", "connecting", "ended"} : Goto(l, pc)
  OBVIOUS
<1> DEFINE new == [listener[l] EXCEPT !.pc = pc]
<1>2. listener[l] \in Listener
  BY DEF TypeOK
<1>3. new \in Listener /\ new.pc = pc /\ new.renewing = listener[l].renewing
      /\ new.since = listener[l].since
  BY <1>2 DEF Listener, Running
<1>4. listener' = [listener EXCEPT ![l] = new]
  BY <1>1 DEF Goto
<1>5. \A q : Goto(l, q) => listener'[l].pc = q
  BY <1>2 DEF Goto, TypeOK, Listener
<1> HIDE DEF new
<1> QED BY <1>3, <1>4, <1>5, Updated

LEMMA CloseUpdates ==
  ASSUME TypeOK, NEW l \in Listeners, Close(l)
  PROVE  /\ listener' \in [Listeners -> Listener]
         /\ ~listener'[l].renewing /\ listener'[l].since = 0
         /\ \A m \in Listeners \ {l} : listener'[m] = listener[m]
<1> DEFINE new == [listener[l] EXCEPT !.pc = "closing", !.renewing = FALSE, !.since = 0]
<1>1. listener[l] \in Listener
  BY DEF TypeOK
<1>2. new \in Listener /\ ~new.renewing /\ new.since = 0
  BY <1>1, Ranges DEF Listener
<1>3. listener' = [listener EXCEPT ![l] = new]
  BY DEF Close
<1> HIDE DEF new
<1> QED BY <1>2, <1>3, Updated

LEMMA DownUpdates ==
  ASSUME TypeOK, NEW l \in Listeners, listener' = [listener EXCEPT ![l] = Down]
  PROVE  /\ listener' \in [Listeners -> Listener]
         /\ ~listener'[l].renewing /\ listener'[l].since = 0
         /\ \A m \in Listeners \ {l} : listener'[m] = listener[m]
  BY DownTyped, Updated

LEMMA LeaseTyped ==
  ASSUME TypeOK, NEW l \in Listeners
  PROVE  /\ Free \in [owner : Listeners \cup {NoListener}, ttl : 0 .. LockTtl]
         /\ Held(l, LockTtl) \in [owner : Listeners \cup {NoListener}, ttl : 0 .. LockTtl]
         /\ Unlocked(l) \in [owner : Listeners \cup {NoListener}, ttl : 0 .. LockTtl]
  BY LeaseAssumption DEF TypeOK, Free, Held, Unlocked

----------------------------------------------------------------------------
\* What a step may do to one listener l: the invariant's clauses about l follow.
LEMMA Kept ==
  ASSUME IInv, NEW l \in Listeners,
         listener' \in [Listeners -> Listener],
         lease' \in [owner : Listeners \cup {NoListener}, ttl : 0 .. LockTtl],
         forgotten' \in BOOLEAN, ~forgotten' => ~forgotten,
         RenewerConsistent(l)',
         \A m \in Listeners \ {l} : listener'[m] = listener[m],
         Timely /\ ~forgotten' => LeaseInStep(l)',
         ~forgotten' => \A m \in Listeners \ {l} : lease.owner = m => lease' = lease
  PROVE  IInv'
<1>1. TypeOK'
  BY DEF TypeOK
<1>2. \A m \in Listeners : RenewerConsistent(m)'
  <2>1. \A m \in Listeners \ {l} : RenewerConsistent(m)'
    BY DEF IInv, RenewerConsistent
  <2> QED BY <2>1
<1>3. ASSUME Timely, ~forgotten' PROVE \A m \in Listeners : LeaseInStep(m)'
  <2>1. ASSUME NEW m \in Listeners \ {l} PROVE LeaseInStep(m)'
    BY <1>3 DEF IInv, LeaseInStep
  <2> QED BY <1>3, <2>1
<1> QED BY <1>1, <1>2, <1>3 DEF IInv, Timely

LEMMA TaskKeeps == ASSUME IInv, NEW l \in Listeners, TaskStep(l) \/ AcquireFails(l) PROVE IInv'
<1> USE LeaseAssumption
<1>t. TypeOK /\ RenewerConsistent(l) /\ listener[l] \in Listener
  BY DEF IInv, TypeOK
<1>1. CASE acquire(l)
  <2> DEFINE new == [listener[l] EXCEPT !.pc = "connecting", !.renewing = TRUE]
  <2>1. ~listener[l].renewing /\ listener[l].since = 0
    BY <1>1, <1>t DEF acquire, AtStep, RenewerConsistent, Running
  <2>2. new \in Listener /\ new.pc = "connecting" /\ new.renewing /\ new.since = 0
    BY <1>t, <2>1 DEF Listener, Running
  <2>3. listener' = [listener EXCEPT ![l] = new]
    BY <1>1 DEF acquire
  <2> HIDE DEF new
  <2>4. /\ listener' \in [Listeners -> Listener] /\ listener'[l] = new
        /\ \A m \in Listeners \ {l} : listener'[m] = listener[m]
    BY <1>t, <2>2, <2>3, Updated
  <2>5. lease' = Held(l, LockTtl) /\ lease.owner \notin Listeners /\ forgotten' = forgotten
    BY <1>1 DEF acquire, Locked, Free
  <2>6. RenewerConsistent(l)' /\ LeaseInStep(l)'
    BY <2>2, <2>4, <2>5 DEF RenewerConsistent, LeaseInStep, Held, Running
  <2> QED BY <1>t, <2>4, <2>5, <2>6, LeaseTyped, Kept DEF TypeOK
<1>2. ASSUME Refused(l) \/ Connect(l) \/ Backoff(l) \/ Reconnect(l) PROVE IInv'
  <2>1. /\ listener' \in [Listeners -> Listener]
        /\ listener'[l].renewing = listener[l].renewing
        /\ listener'[l].since = listener[l].since
        /\ \A m \in Listeners \ {l} : listener'[m] = listener[m]
    BY <1>2, <1>t, GotoUpdates DEF Refused, Connect, Backoff, Reconnect
  <2>2. listener[l].renewing => listener'[l].pc \in Running
    BY <1>2, <1>t, GotoUpdates
       DEF Refused, Connect, Backoff, Reconnect, AtStep, RenewerConsistent, Running
  <2>3. UNCHANGED <<lease, forgotten>>
    BY <1>2 DEF Refused, Connect, Backoff, Reconnect
  <2>4. RenewerConsistent(l)' /\ (LeaseInStep(l) => LeaseInStep(l)')
    BY <1>t, <2>1, <2>2, <2>3 DEF RenewerConsistent, LeaseInStep
  <2> QED BY <1>t, <2>1, <2>3, <2>4, Kept DEF IInv, TypeOK
<1>3. ASSUME LeaveLoop(l) \/ StopConsuming(l) \/ GiveUp(l) PROVE IInv'
  <2>1. Close(l) /\ UNCHANGED <<lease, forgotten>>
    BY <1>3 DEF LeaveLoop, StopConsuming, GiveUp
  <2>2. RenewerConsistent(l)' /\ LeaseInStep(l)'
    BY <1>t, <2>1, CloseUpdates DEF RenewerConsistent, LeaseInStep
  <2> QED BY <1>t, <2>1, <2>2, CloseUpdates, Kept DEF TypeOK
<1>4. ASSUME release(l) \/ ReleaseFails(l) \/ AcquireFails(l) PROVE IInv'
  <2>1. Goto(l, "ended") /\ forgotten' = forgotten /\ ~listener[l].renewing
    BY <1>4, <1>t DEF release, ReleaseFails, AcquireFails, AtStep, RenewerConsistent, Running
  <2>2. RenewerConsistent(l)' /\ LeaseInStep(l)'
    BY <1>t, <2>1, GotoUpdates DEF RenewerConsistent, LeaseInStep
  <2>3. \A m \in Listeners \ {l} : lease.owner = m => lease' = lease
    BY <1>4 DEF release, ReleaseFails, AcquireFails, Unlocked, Free
  <2>4. lease' \in [owner : Listeners \cup {NoListener}, ttl : 0 .. LockTtl]
    BY <1>4, <1>t, LeaseTyped DEF release, ReleaseFails, AcquireFails, Locked, TypeOK
  <2> QED BY <1>t, <2>1, <2>2, <2>3, <2>4, GotoUpdates, Kept DEF TypeOK
<1> QED BY <1>1, <1>2, <1>3, <1>4 DEF TaskStep

LEMMA RenewalKeeps == ASSUME IInv, NEW l \in Listeners, Renewal(l) PROVE IInv'
<1> USE LeaseAssumption
<1>t. TypeOK /\ RenewerConsistent(l) /\ listener[l] \in Listener
  BY DEF IInv, TypeOK
<1>1. CASE renew(l)
  <2> DEFINE new == [listener[l] EXCEPT !.since = 0]
  <2>1. new \in Listener /\ new.pc = listener[l].pc /\ new.renewing /\ new.since = 0
    BY <1>1, <1>t, Ranges DEF renew, RenewDue, Listener
  <2>2. listener' = [listener EXCEPT ![l] = new]
    BY <1>1 DEF renew
  <2> HIDE DEF new
  <2>3. /\ listener' \in [Listeners -> Listener] /\ listener'[l] = new
        /\ \A m \in Listeners \ {l} : listener'[m] = listener[m]
    BY <1>t, <2>1, <2>2, Updated
  <2>4. lease' = Held(l, LockTtl) /\ lease.owner = l /\ forgotten' = forgotten
        /\ listener[l].renewing
    BY <1>1 DEF renew, RenewDue
  <2>5. RenewerConsistent(l)' /\ LeaseInStep(l)'
    BY <1>t, <2>1, <2>3, <2>4 DEF RenewerConsistent, LeaseInStep, Held
  <2> QED BY <1>t, <2>3, <2>4, <2>5, LeaseTyped, Kept DEF TypeOK
<1>2. CASE LeaseLost(l)
  <2>1. Close(l) /\ UNCHANGED <<lease, forgotten>>
    BY <1>2 DEF LeaseLost
  <2>2. RenewerConsistent(l)' /\ LeaseInStep(l)'
    BY <1>t, <2>1, CloseUpdates DEF RenewerConsistent, LeaseInStep
  <2> QED BY <1>t, <2>1, <2>2, CloseUpdates, Kept DEF TypeOK
<1>3. CASE RenewFails(l)
  <2> DEFINE new == [listener[l] EXCEPT !.renewing = FALSE, !.since = 0]
  <2>1. new \in Listener /\ ~new.renewing /\ new.since = 0
    BY <1>t, Ranges DEF Listener
  <2>2. listener' = [listener EXCEPT ![l] = new] /\ forgotten' = forgotten
    BY <1>3 DEF RenewFails
  <2> HIDE DEF new
  <2>3. /\ listener' \in [Listeners -> Listener] /\ listener'[l] = new
        /\ \A m \in Listeners \ {l} : listener'[m] = listener[m]
    BY <1>t, <2>1, <2>2, Updated
  <2>4. (lease' = lease) \/ (lease.owner = l /\ lease' = Held(l, LockTtl))
    BY <1>3 DEF RenewFails
  <2>5. RenewerConsistent(l)' /\ LeaseInStep(l)'
    BY <2>1, <2>3 DEF RenewerConsistent, LeaseInStep
  <2> QED BY <1>t, <2>2, <2>3, <2>4, <2>5, LeaseTyped, Kept DEF TypeOK
<1> QED BY <1>1, <1>2, <1>3 DEF Renewal

LEMMA ProcessKeeps ==
  ASSUME IInv, NEW l \in Listeners,
         StreamFails(l) \/ Start(l) \/ Stop(l) \/ Exit(l) \/ Crash(l)
  PROVE  IInv'
<1> USE LeaseAssumption
<1>t. TypeOK /\ RenewerConsistent(l) /\ listener[l] \in Listener
  BY DEF IInv, TypeOK
<1>u. UNCHANGED <<lease, forgotten>>
  BY DEF StreamFails, Start, Stop, Exit, Crash
<1>1. CASE StreamFails(l)
  <2> DEFINE old == listener[l].failures
             n == IF old > ReconnectLimit THEN old ELSE old + 1
             new == [listener[l] EXCEPT !.pc = "erring", !.failures = n]
  <2>0. n \in 0 .. ReconnectLimit + 1
    BY <1>t, Ranges DEF Listener
  <2> HIDE DEF n
  <2>1. new \in Listener /\ new.pc = "erring" /\ new.since = listener[l].since
        /\ new.renewing = listener[l].renewing
    BY <1>t, <2>0 DEF Listener, Running
  <2>2. listener' = [listener EXCEPT ![l] = new]
    BY <1>1 DEF StreamFails, n
  <2> HIDE DEF new
  <2>3. /\ listener' \in [Listeners -> Listener] /\ listener'[l] = new
        /\ \A m \in Listeners \ {l} : listener'[m] = listener[m]
    BY <1>t, <2>1, <2>2, Updated
  <2>4. RenewerConsistent(l)' /\ (LeaseInStep(l) => LeaseInStep(l)')
    BY <1>t, <1>u, <2>1, <2>3 DEF RenewerConsistent, LeaseInStep, Running
  <2> QED BY <1>t, <1>u, <2>3, <2>4, Kept DEF IInv, TypeOK
<1>2. CASE Start(l)
  <2>1. Goto(l, "acquiring") /\ ~listener[l].renewing
    BY <1>2, <1>t DEF Start, AtStep, RenewerConsistent, Running
  <2>2. RenewerConsistent(l)' /\ LeaseInStep(l)'
    BY <1>t, <2>1, GotoUpdates DEF RenewerConsistent, LeaseInStep
  <2> QED BY <1>t, <1>u, <2>1, <2>2, GotoUpdates, Kept DEF TypeOK
<1>3. CASE Stop(l)
  <2> DEFINE new == [listener[l] EXCEPT !.stop = TRUE]
  <2>1. new \in Listener /\ new.pc = listener[l].pc /\ new.since = listener[l].since
        /\ new.renewing = listener[l].renewing
    BY <1>t DEF Listener
  <2>2. listener' = [listener EXCEPT ![l] = new]
    BY <1>3 DEF Stop
  <2> HIDE DEF new
  <2>3. /\ listener' \in [Listeners -> Listener] /\ listener'[l] = new
        /\ \A m \in Listeners \ {l} : listener'[m] = listener[m]
    BY <1>t, <2>1, <2>2, Updated
  <2>4. RenewerConsistent(l)' /\ (LeaseInStep(l) => LeaseInStep(l)')
    BY <1>t, <1>u, <2>1, <2>3 DEF RenewerConsistent, LeaseInStep
  <2> QED BY <1>t, <1>u, <2>3, <2>4, Kept DEF IInv, TypeOK
<1>4. ASSUME Exit(l) \/ Crash(l) PROVE IInv'
  <2>1. listener' = [listener EXCEPT ![l] = Down]
    BY <1>4 DEF Exit, Crash
  <2>2. RenewerConsistent(l)' /\ LeaseInStep(l)'
    BY <1>t, <2>1, DownUpdates DEF RenewerConsistent, LeaseInStep
  <2> QED BY <1>t, <1>u, <2>1, <2>2, DownUpdates, Kept DEF TypeOK
<1> QED BY <1>1, <1>2, <1>3, <1>4

LEMMA ForgetKeeps == IInv /\ Forget => IInv'
<1> SUFFICES ASSUME IInv, Forget PROVE IInv'
  OBVIOUS
<1>1. TypeOK'
  BY LeaseAssumption DEF IInv, Forget, TypeOK, Free
<1>2. \A l \in Listeners : RenewerConsistent(l)'
  BY DEF IInv, Forget, RenewerConsistent
<1> QED BY <1>1, <1>2 DEF IInv, Forget

LEMMA TickKeeps == IInv /\ Tick => IInv'
<1> SUFFICES ASSUME IInv, Tick PROVE IInv'
  OBVIOUS
<1> USE LeaseAssumption
<1>1. lease \in [owner : Listeners \cup {NoListener}, ttl : 0 .. LockTtl]
      /\ lease' \in [owner : Listeners \cup {NoListener}, ttl : 0 .. LockTtl]
      /\ (lease.ttl > 1 => lease'.owner = lease.owner /\ lease'.ttl = lease.ttl - 1)
  <2>1. lease \in [owner : Listeners \cup {NoListener}, ttl : 0 .. LockTtl]
    BY DEF IInv, TypeOK
  <2>2. CASE lease.ttl = 0
    BY <2>1, <2>2 DEF Tick
  <2>3. CASE lease.ttl = 1
    BY <2>1, <2>3 DEF Tick, Free
  <2>4. CASE lease.ttl > 1
    BY <2>1, <2>4 DEF Tick
  <2> QED BY <2>1, <2>2, <2>3, <2>4
<1>2. ASSUME NEW l \in Listeners
      PROVE  /\ listener'[l] \in Listener
             /\ listener'[l].pc = listener[l].pc
             /\ listener'[l].renewing = listener[l].renewing
             /\ listener[l].renewing =>
                  /\ listener[l].since < RenewInterval + RenewDelay
                  /\ listener'[l].since = listener[l].since + 1
             /\ ~listener[l].renewing => listener'[l].since = listener[l].since
  <2> DEFINE new == [listener[l] EXCEPT !.since = @ + 1]
  <2>1. listener[l] \in Listener
    BY DEF IInv, TypeOK
  <2>2. CASE listener[l].renewing
    <3>1. listener'[l] = new /\ listener[l].since < RenewInterval + RenewDelay
      BY <2>2 DEF Tick
    <3>2. new \in Listener /\ new.pc = listener[l].pc /\ new.since = listener[l].since + 1
          /\ new.renewing = listener[l].renewing
      BY <2>1, <3>1 DEF Listener
    <3> QED BY <2>2, <3>1, <3>2
  <2>3. CASE ~listener[l].renewing
    BY <2>1, <2>3 DEF Tick
  <2> QED BY <2>2, <2>3
<1>3. listener' \in [Listeners -> Listener] /\ forgotten' = forgotten
  <2>1. listener' = [l \in Listeners |-> listener'[l]]
    BY DEF Tick
  <2> QED BY <1>2, <2>1 DEF Tick
<1>4. \A l \in Listeners : RenewerConsistent(l)'
  BY <1>2 DEF IInv, RenewerConsistent
<1>5. ASSUME Timely, ~forgotten, NEW l \in Listeners, listener[l].renewing
      PROVE  LeaseInStep(l)'
  <2>1. lease.owner = l /\ lease.ttl + listener[l].since = LockTtl
    BY <1>5 DEF IInv, LeaseInStep
  <2>2. listener[l].since \in Int /\ lease.ttl \in Int
    BY <1>1 DEF IInv, TypeOK, Listener
  <2>3. lease.ttl > 1
    BY <1>2, <1>5, <2>1, <2>2 DEF Timely
  <2> QED BY <1>1, <1>2, <1>5, <2>1, <2>2, <2>3 DEF LeaseInStep
<1> QED BY <1>1, <1>2, <1>3, <1>4, <1>5 DEF IInv, TypeOK, LeaseInStep, Timely

LEMMA InitHolds == Init => IInv
<1> SUFFICES ASSUME Init PROVE IInv
  OBVIOUS
<1>1. Free \in [owner : Listeners \cup {NoListener}, ttl : 0 .. LockTtl]
  BY LeaseAssumption DEF Free
<1>2. \A l \in Listeners : listener[l] = Down
  BY DEF Init
<1>3. TypeOK
  BY <1>1, DownTyped DEF Init, TypeOK
<1> QED BY <1>2, <1>3, DownTyped DEF IInv, RenewerConsistent, LeaseInStep

LEMMA NextKeeps == IInv /\ [Next]_vars => IInv'
<1>1. IInv /\ UNCHANGED vars => IInv'
  BY DEF IInv, TypeOK, RenewerConsistent, LeaseInStep, Timely, vars
<1>2. IInv /\ Next => IInv'
  BY TaskKeeps, RenewalKeeps, ProcessKeeps, ForgetKeeps, TickKeeps DEF Next, ListenerStep
<1> QED BY <1>1, <1>2

LEMMA Inductive == Spec => []IInv
  BY InitHolds, NextKeeps, PTL DEF Spec

----------------------------------------------------------------------------
\* Every variable keeps its type, whatever crashes, fails or is forgotten.
THEOREM TypeCorrect == Spec => []TypeOK
<1>1. IInv => TypeOK
  BY DEF IInv
<1> QED BY <1>1, Inductive, PTL

\* At most one listener consumes the stream under a lease it renews, for any
\* number of listeners, if renewals reach Redis within the lifetime of the key
\* and Redis keeps it.
THEOREM SingleLeader == Spec => []OneLeader
<1>1. IInv => OneLeader
  BY DEF IInv, OneLeader, LeaseInStep, Timely
<1> QED BY <1>1, Inductive, PTL

\* No listener deletes or prolongs the lease of another.
THEOREM LeasesRespected == Spec => ForeignLeaseKept
<1> DEFINE Mine(l) ==
      lease.owner = l /\ ~forgotten' =>
        /\ lease'.owner # l => lease.ttl = 1 \/ listener'[l].pc # listener[l].pc
        /\ lease'.owner = l /\ lease'.ttl > lease.ttl => RenewDue(l) /\ listener'[l].since = 0
<1> USE LeaseAssumption
<1>1. ASSUME TypeOK, NEW l \in Listeners, NEW m \in Listeners, ListenerStep(m) PROVE Mine(l)
  <2>t. /\ lease.owner \in Listeners => lease # Free
        /\ listener[l] \in Listener /\ lease.ttl \in Int /\ l # NoListener
    BY <1>1 DEF TypeOK, Free
  <2>1. CASE UNCHANGED lease
    BY <2>t, <2>1
  <2>2. CASE acquire(m) \/ AcquireFails(m)
    BY <2>t, <2>2 DEF acquire, AcquireFails
  <2>3. CASE release(m)
    <3>1. m = l => listener'[l].pc = "ended" /\ listener[l].pc = "closing"
      BY <1>1, <2>3, GotoUpdates DEF release, AtStep
    <3> QED BY <2>t, <2>3, <3>1 DEF release, Unlocked, Free
  <2>4. CASE renew(m) \/ RenewFails(m)
    <3>1. m = l => RenewDue(l) /\ listener'[l].since = 0
      BY <1>1, <2>t, <2>4 DEF renew, RenewFails, TypeOK, Listener
    <3> QED BY <2>t, <2>4, <3>1 DEF renew, RenewFails, Held
  <2> QED BY <1>1, <2>1, <2>2, <2>3, <2>4
       DEF ListenerStep, TaskStep, Renewal, Refused, Connect, LeaveLoop, StopConsuming, Backoff,
           GiveUp, Reconnect, ReleaseFails, LeaseLost, StreamFails, Start, Stop, Exit, Crash
<1>2. ASSUME TypeOK, NEW l \in Listeners, Forget PROVE Mine(l)
  BY <1>2 DEF Forget
<1>3. ASSUME TypeOK, NEW l \in Listeners, Tick PROVE Mine(l)
  <2>1. lease \in [owner : Listeners \cup {NoListener}, ttl : 0 .. LockTtl] /\ l # NoListener
    BY <1>3 DEF TypeOK
  <2>2. CASE lease.ttl = 0
    BY <1>3, <2>1, <2>2 DEF Tick
  <2>3. CASE lease.ttl = 1
    BY <1>3, <2>1, <2>3 DEF Tick, Free
  <2>4. CASE lease.ttl > 1
    BY <1>3, <2>1, <2>4 DEF Tick
  <2> QED BY <2>1, <2>2, <2>3, <2>4
<1>4. IInv /\ [Next]_vars => [\A l \in Listeners : Mine(l)]_vars
  BY <1>1, <1>2, <1>3 DEF Next, IInv
<1> QED BY <1>4, Inductive, PTL DEF Spec, ForeignLeaseKept
============================================================================
