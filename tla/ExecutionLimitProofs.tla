------------------------ MODULE ExecutionLimitProofs ------------------------
(***************************************************************************)
(* Proofs about what Execution counts: the trades of a day, the posts of   *)
(* an order and the time between the trades of an instrument, for every    *)
(* number of orders and of overlapping calls.                              *)
(***************************************************************************)
EXTENDS ExecutionProofs, FiniteSetTheorems

----------------------------------------------------------------------------
(* Days                                                                     *)

\* The midnight of a time is the multiple of the day length it follows.
LEMMA MidnightIs ==
  ASSUME NEW t \in Nat, NEW q \in Int, q = t \div DayLength
  PROVE  midnight(t) = DayLength * q /\ DayLength * q <= t /\ t < DayLength * q + DayLength
<1>1. DayLength * q <= t /\ t < DayLength * q + DayLength
  BY ExecutionAssumption
<1>2. t % DayLength = t - DayLength * q
  BY ExecutionAssumption
<1>3. DayLength * q \in Int
  BY ExecutionAssumption
<1> QED BY <1>1, <1>2, <1>3 DEF midnight

LEMMA MidnightBefore ==
  ASSUME NEW t \in Nat
  PROVE  midnight(t) \in Nat /\ midnight(t) <= t
<1>1. t % DayLength \in 0 .. DayLength - 1
  BY ExecutionAssumption
<1>2. t \div DayLength \in Nat
  BY ExecutionAssumption
<1>3. PICK q \in Nat : q = t \div DayLength
  BY <1>2
<1>4. midnight(t) = DayLength * q /\ DayLength * q <= t
  BY <1>3, MidnightIs
<1>5. DayLength * q \in Nat
  BY ExecutionAssumption
<1> QED BY <1>4, <1>5

LEMMA MidnightMonotone ==
  ASSUME NEW t \in Nat, NEW u \in Nat, t <= u
  PROVE  midnight(t) <= midnight(u)
<1>0. DayLength \in Nat /\ DayLength > 0
  BY ExecutionAssumption
<1>1. PICK a \in Int : a = t \div DayLength
  BY <1>0
<1>2. PICK b \in Int : b = u \div DayLength
  BY <1>0
<1>3. /\ midnight(t) = DayLength * a /\ DayLength * a <= t
      /\ midnight(u) = DayLength * b /\ u < DayLength * b + DayLength
  BY <1>1, <1>2, MidnightIs
<1>4. DayLength * a \in Int /\ DayLength * b \in Int
  BY <1>0
<1>5. a <= b
  <2> SUFFICES ASSUME b + 1 <= a PROVE FALSE
    OBVIOUS
  <2>1. DayLength * (b + 1) <= DayLength * a
    BY <1>0
  <2>2. DayLength * (b + 1) = DayLength * b + DayLength
    BY <1>0
  <2> QED BY <1>0, <1>3, <1>4, <2>1, <2>2
<1>6. DayLength * a <= DayLength * b
  BY <1>0, <1>5
<1> QED BY <1>3, <1>4, <1>6

----------------------------------------------------------------------------
(* What a step of a session does to calls and rows                          *)

\* The count that decides about the call is behind it, and it was not too large.
Decided(s) ==
  \/ session[s].pc \in {"allowed", "posted"}
  \/ session[s].pc = "counted" /\ ~session[s].limit_reached

Commits(s) == Simulate(s) \/ SaveSandboxExecution(s)

\* Nobody but s moves, and the clock stands.
LEMMA OthersStay ==
  ASSUME IInv, NEW s \in Sessions, SessionStep(s)
  PROVE  /\ now' = now
         /\ \A x \in Sessions \ {s} : session'[x] = session[x]
<1>1. session \in [Sessions -> SessionState]
  BY DEF IInv, TypeOK
<1> QED
  BY <1>1 DEF SessionStep, CloseSession, ReturnFromCall, BeginPlan, SaveOrders, GetOrder, Load,
     GetHeldOrder, SkipExecutedOrder, HeldOrderConflict, EndCycle, ReadSettings, ReadLatestTrade,
     CountTrades, Evaluate, Reject, Simulate, post_sandbox_order, SaveSandboxExecution,
     IntegrityError, GetManualOrder, SetConfirmationStatus, Fail

\* A step that neither counts nor commits leaves the call, begins one, or goes on with
\* it without deciding.
LEMMA QuietStep ==
  ASSUME IInv, NEW s \in Sessions, SessionStep(s), ~CountTrades(s), ~Commits(s)
  PROVE  /\ UNCHANGED <<virtual_trades, execution_orders>>
         /\ \/ session'[s].pc \notin InCall
            \/ session'[s].pc = "loaded" /\ session'[s].begun = now
            \/ /\ session[s].pc \in InCall /\ session'[s].begun = session[s].begun
               /\ Decided(s)' => Decided(s)
         /\ session'[s].pc = "dated" => session'[s].read_at = now
<1>t. session \in [Sessions -> SessionState] /\ session[s] \in SessionState
  BY DEF IInv, TypeOK
<1>1. UNCHANGED <<virtual_trades, execution_orders>>
  BY DEF SessionStep, Commits, UnchangedRows, BeginPlan, SaveOrders, GetOrder, Load,
     GetHeldOrder, SkipExecutedOrder, HeldOrderConflict, EndCycle, ReadSettings, ReadLatestTrade,
     Evaluate, Reject, post_sandbox_order, IntegrityError, GetManualOrder,
     SetConfirmationStatus, Fail
<1>2. ASSUME session'[s] = IdleSession
      PROVE  session'[s].pc \notin InCall
  BY <1>2 DEF IdleSession, InCall
<1>3. CASE Reject(s) \/ IntegrityError(s) \/ EndCycle(s) \/ SetConfirmationStatus(s) \/ Fail(s)
           \/ \E o \in Orders : HeldOrderConflict(s, o)
  <2>1. session'[s] = IdleSession
    BY <1>t, <1>3 DEF Reject, IntegrityError, EndCycle, SetConfirmationStatus, Fail,
       HeldOrderConflict, CloseSession
  <2> QED BY <1>1, <1>2, <2>1 DEF InCall
<1>4. CASE \E p \in Plans : BeginPlan(s, p)
  <2>1. session'[s].pc = "planning"
    BY <1>t, <1>4 DEF BeginPlan, IdleSession
  <2> QED BY <1>1, <2>1 DEF InCall
<1>5. CASE SaveOrders(s)
  <2>1. session'[s].pc \in {"idle", "looping"}
    BY <1>t, <1>5 DEF SaveOrders, IdleSession
  <2> QED BY <1>1, <2>1 DEF InCall
<1>6. ASSUME NEW o \in Orders, SkipExecutedOrder(s, o)
      PROVE  session'[s].pc = "looping"
  BY <1>t, <1>6 DEF SkipExecutedOrder, AtStep, SessionState
<1>7. ASSUME NEW o \in Orders, NEW required \in ExecutableModes, Load(s, o, required)
      PROVE  session'[s].pc = "loaded" /\ session'[s].begun = now
  BY <1>t, <1>7 DEF Load, SessionState
<1>8. ASSUME NEW o \in Orders, GetHeldOrder(s, o)
      PROVE  session'[s].pc = "loaded" /\ session'[s].begun = now
  BY <1>t, <1>7, <1>8 DEF GetHeldOrder, SessionState
<1>9. CASE ReadSettings(s) \/ ReadLatestTrade(s)
  <2>1. CASE ReadSettings(s)
    <3>1. /\ session[s].pc \in InCall /\ session'[s].begun = session[s].begun
          /\ session'[s].pc = "authorised"
      BY <1>t, <2>1 DEF ReadSettings, AtStep, SessionState, InCall
    <3> QED BY <1>1, <3>1 DEF Decided
  <2>2. CASE ReadLatestTrade(s)
    <3> DEFINE active == CooldownActive(InstrumentOf[session[s].order])
    <3>1. session' = [session EXCEPT ![s] =
            [@ EXCEPT !.pc = "dated", !.read_at = now, !.cooldown_active = active]]
      BY <2>2 DEF ReadLatestTrade
    <3> HIDE DEF active
    <3>2. session'[s].begun = session[s].begun /\ session'[s].pc = "dated"
          /\ session'[s].read_at = now
      BY <1>t, <3>1 DEF SessionState
    <3> QED BY <1>1, <2>2, <3>2 DEF ReadLatestTrade, AtStep, Decided, InCall
  <2> QED BY <1>9, <2>1, <2>2
<1>10. CASE Evaluate(s)
  <2>1. /\ session[s].pc = "counted" /\ session'[s].begun = session[s].begun
        /\ session'[s].pc \in {"allowed", "refused"}
        /\ session'[s].pc = "allowed" => ~session[s].limit_reached
    BY <1>t, <1>10 DEF Evaluate, AtStep, SessionState, RiskAllows
  <2> QED BY <1>1, <2>1 DEF Decided, InCall
<1>11. CASE post_sandbox_order(s)
  <2>1. /\ session[s].pc = "allowed" /\ session'[s].begun = session[s].begun
        /\ session'[s].pc = "posted"
    BY <1>t, <1>11 DEF post_sandbox_order, AtStep, SessionState
  <2> QED BY <1>1, <2>1 DEF Decided, InCall
<1>12. ASSUME NEW o \in Orders, NEW pc \in {"approving", "rejecting"}, GetManualOrder(s, o, pc)
       PROVE  session'[s].pc = pc
  BY <1>t, <1>12 DEF GetManualOrder, SessionState
<1> QED
  BY <1>1, <1>3, <1>4, <1>5, <1>6, <1>7, <1>8, <1>9, <1>10, <1>11, <1>12
     DEF SessionStep, GetOrder, Commits, InCall

\* CountTrades decides by the rows of the day of the clock reading, and since.
LEMMA CountStep ==
  ASSUME IInv, NEW s \in Sessions, CountTrades(s)
  PROVE  /\ UNCHANGED <<virtual_trades, execution_orders>>
         /\ session[s].pc = "dated" /\ session'[s].pc = "counted"
         /\ session'[s].begun = session[s].begun
         /\ ~session'[s].limit_reached =>
              ~(count_trades_since(midnight(session[s].read_at)) >= MaxDailyTrades)
<1>1. session \in [Sessions -> SessionState] /\ session[s] \in SessionState
  BY DEF IInv, TypeOK
<1> DEFINE reached == count_trades_since(midnight(session[s].read_at)) >= MaxDailyTrades
<1>2. session' = [session EXCEPT ![s] = [@ EXCEPT !.pc = "counted", !.limit_reached = reached]]
  BY DEF CountTrades
<1>3. session[s].pc = "dated" /\ UNCHANGED <<virtual_trades, execution_orders>>
  BY DEF CountTrades, AtStep, UnchangedRows
<1> HIDE DEF reached
<1>4. session'[s].pc = "counted" /\ session'[s].begun = session[s].begun
      /\ session'[s].limit_reached = reached
  BY <1>1, <1>2 DEF SessionState
<1> QED BY <1>3, <1>4, Zenon DEF reached

\* The step adds the row, of that order and of that time, to its table.
RowIsAdded(row, o, time) ==
  /\ row.planned_order = o
  /\ \/ /\ row.executed_at = time
        /\ virtual_trades' = virtual_trades \cup {row} /\ execution_orders' = execution_orders
     \/ /\ row.created_at = time
        /\ execution_orders' = execution_orders \cup {row} /\ virtual_trades' = virtual_trades

\* A commit adds one row, dated by the begin of the call, and ends the call.
LEMMA CommitStep ==
  ASSUME IInv, NEW s \in Sessions, Commits(s)
  PROVE  /\ Decided(s) /\ session[s].pc \in InCall /\ session[s].begun \in Time
         /\ session[s].order \in Orders
         /\ session'[s].pc \notin InCall
         /\ \E row : RowIsAdded(row, session[s].order, session[s].begun)
<1>1. session \in [Sessions -> SessionState] /\ session[s] \in SessionState /\ SessionConsistent(s)
  BY DEF IInv, TypeOK
<1>2. session[s].pc \in {"allowed", "posted"}
  BY DEF Commits, Simulate, SaveSandboxExecution, AtStep
<1>3. session'[s].pc \in {"idle", "looping"}
  <2>1. ReturnFromCall(s)
    BY DEF Commits, Simulate, SaveSandboxExecution
  <2>2. CASE s \in CycleSessions
    BY <1>1, <2>1, <2>2 DEF ReturnFromCall, IdleSession
  <2>3. CASE s \notin CycleSessions
    BY <1>1, <2>1, <2>3 DEF ReturnFromCall, IdleSession
  <2> QED BY <2>2, <2>3
<1>4. session[s].order \in Orders
  BY <1>1, <1>2 DEF SessionConsistent, InCall
<1>5. \E row : RowIsAdded(row, session[s].order, session[s].begun)
  <2>1. TypeOK
    BY DEF IInv
  <2>2. CASE Simulate(s)
    <3>1. RowIsAdded(NewVirtualTrade(s), session[s].order, session[s].begun)
      BY <1>4, <2>1, <2>2, NewRows DEF Simulate, RowIsAdded
    <3> QED BY <3>1
  <2>3. CASE SaveSandboxExecution(s)
    <3>1. RowIsAdded(NewExecutionOrder(s), session[s].order, session[s].begun)
      BY <1>4, <2>1, <2>3, NewRows DEF SaveSandboxExecution, RowIsAdded
    <3> QED BY <3>1
  <2> QED BY <2>2, <2>3 DEF Commits
<1> QED
  BY <1>1, <1>2, <1>3, <1>4, <1>5 DEF Decided, InCall, SessionState

----------------------------------------------------------------------------
(* The daily limit                                                          *)

\* The rows of a day, the calls that began on it, and those of them that have decided.
TradesAt(day) == {t \in virtual_trades : midnight(t.executed_at) = day}
ExecutionsAt(day) == {e \in execution_orders : midnight(e.created_at) = day}
CallsOf(day) == {s \in Sessions : session[s].pc \in InCall /\ midnight(session[s].begun) = day}
DecidedOf(day) == {s \in Sessions : Decided(s) /\ midnight(session[s].begun) = day}

\* While the day lasts, every decided call has counted the rows of the day, so that
\* only calls that decided together exceed the limit.  After it, each call that
\* began on the day may still add its row, whatever it counts.
DayBounded(day) ==
  IF midnight(now) <= day
  THEN TradesOf(day) + Cardinality(DecidedOf(day)) <= MaxDailyTrades + Cardinality(Sessions) - 1
  ELSE TradesOf(day) + Cardinality(CallsOf(day)) <= MaxDailyTrades + 2 * Cardinality(Sessions) - 1

LimitInv ==
  /\ IsFiniteSet(virtual_trades) /\ IsFiniteSet(execution_orders)
  /\ \A s \in Sessions : session[s].pc = "dated" => session[s].read_at <= now
  /\ \A day \in Nat : DayBounded(day)

\* The cardinalities are numbers, and those of calls at most that of the sessions.
LEMMA Counts ==
  ASSUME IsFiniteSet(virtual_trades), IsFiniteSet(execution_orders), NEW day
  PROVE  /\ IsFiniteSet(TradesAt(day)) /\ Cardinality(TradesAt(day)) \in Nat
         /\ IsFiniteSet(ExecutionsAt(day)) /\ Cardinality(ExecutionsAt(day)) \in Nat
         /\ TradesOf(day) = Cardinality(TradesAt(day)) + Cardinality(ExecutionsAt(day))
         /\ TradesOf(day) \in Nat
<1>1. TradesAt(day) \in SUBSET virtual_trades /\ ExecutionsAt(day) \in SUBSET execution_orders
  BY DEF TradesAt, ExecutionsAt
<1>2. IsFiniteSet(TradesAt(day)) /\ IsFiniteSet(ExecutionsAt(day))
  BY <1>1, FS_Subset
<1>3. Cardinality(TradesAt(day)) \in Nat /\ Cardinality(ExecutionsAt(day)) \in Nat
  BY <1>2, FS_CardinalityType
<1> QED BY <1>2, <1>3 DEF TradesOf, TradesAt, ExecutionsAt

LEMMA SessionsCount ==
  /\ Cardinality(Sessions) \in Nat
  /\ \A S \in SUBSET Sessions :
       IsFiniteSet(S) /\ Cardinality(S) \in Nat /\ Cardinality(S) <= Cardinality(Sessions)
<1>1. IsFiniteSet(Sessions)
  BY ExecutionAssumption
<1>2. ASSUME NEW S \in SUBSET Sessions
      PROVE  IsFiniteSet(S) /\ Cardinality(S) \in Nat /\ Cardinality(S) <= Cardinality(Sessions)
  BY <1>1, FS_Subset, FS_CardinalityType
<1> QED BY <1>1, <1>2, FS_CardinalityType

LEMMA CallsAreSessions ==
  ASSUME NEW day
  PROVE  DecidedOf(day) \in SUBSET Sessions /\ CallsOf(day) \in SUBSET Sessions
  BY DEF DecidedOf, CallsOf

\* count_trades_since sees at least the rows of a day that is not before its midnight.
LEMMA DayIsCounted ==
  ASSUME TypeOK, IsFiniteSet(virtual_trades), IsFiniteSet(execution_orders),
         NEW day \in Nat, NEW since \in Nat, since <= day
  PROVE  count_trades_since(since) \in Nat /\ TradesOf(day) <= count_trades_since(since)
<1> DEFINE T == {t \in virtual_trades : t.executed_at >= since}
           E == {e \in execution_orders : e.created_at >= since}
<1>1. IsFiniteSet(T) /\ IsFiniteSet(E)
  BY FS_Subset
<1>2. TradesAt(day) \in SUBSET T
  <2> SUFFICES ASSUME NEW t \in virtual_trades, midnight(t.executed_at) = day
               PROVE  t.executed_at >= since
    BY DEF TradesAt
  <2>1. t.executed_at \in Nat
    BY DEF TypeOK, VirtualTrade, Time
  <2> QED BY <2>1, MidnightBefore
<1>3. ExecutionsAt(day) \in SUBSET E
  <2> SUFFICES ASSUME NEW e \in execution_orders, midnight(e.created_at) = day
               PROVE  e.created_at >= since
    BY DEF ExecutionsAt
  <2>1. e.created_at \in Nat
    BY DEF TypeOK, ExecutionOrder, Time
  <2> QED BY <2>1, MidnightBefore
<1>4. /\ Cardinality(TradesAt(day)) <= Cardinality(T) /\ Cardinality(T) \in Nat
      /\ Cardinality(ExecutionsAt(day)) <= Cardinality(E) /\ Cardinality(E) \in Nat
  BY <1>1, <1>2, <1>3, FS_Subset, FS_CardinalityType
<1>5. count_trades_since(since) = Cardinality(T) + Cardinality(E)
  BY DEF count_trades_since
<1> HIDE DEF T, E
<1> QED BY <1>4, <1>5, Counts

\* One more element is at most one more.
LEMMA AddOne ==
  ASSUME NEW S, NEW x, IsFiniteSet(S)
  PROVE  /\ Cardinality(S) \in Nat /\ Cardinality(S \cup {x}) \in Nat
         /\ Cardinality(S \cup {x}) <= Cardinality(S) + 1
<1>1. Cardinality(S) \in Nat
  BY FS_CardinalityType
<1>2. Cardinality(S \cup {x}) = (IF x \in S THEN Cardinality(S) ELSE Cardinality(S) + 1)
  BY FS_AddElement
<1> QED BY <1>1, <1>2

LEMMA RemoveOne ==
  ASSUME NEW S, NEW x, IsFiniteSet(S)
  PROVE  /\ Cardinality(S) \in Nat /\ Cardinality(S \ {x}) \in Nat
         /\ Cardinality(S \ {x}) = Cardinality(S) - (IF x \in S THEN 1 ELSE 0)
<1>1. Cardinality(S) \in Nat
  BY FS_CardinalityType
<1>2. IsFiniteSet(S \ {x})
  BY FS_RemoveElement
<1>3. Cardinality(S \ {x}) \in Nat
  BY <1>2, FS_CardinalityType
<1>4. Cardinality(S \ {x}) = (IF x \in S THEN Cardinality(S) - 1 ELSE Cardinality(S))
  BY FS_RemoveElement
<1> QED BY <1>1, <1>3, <1>4

\* A row that is added counts on its own day only.
LEMMA RowAdded ==
  ASSUME IsFiniteSet(virtual_trades), IsFiniteSet(execution_orders),
         NEW o, NEW time, NEW row, RowIsAdded(row, o, time)
  PROVE  /\ IsFiniteSet(virtual_trades') /\ IsFiniteSet(execution_orders')
         /\ \A day : TradesOf(day)' <= TradesOf(day) + (IF midnight(time) = day THEN 1 ELSE 0)
<1>1. IsFiniteSet(virtual_trades') /\ IsFiniteSet(execution_orders')
  BY FS_AddElement DEF RowIsAdded
<1>2. ASSUME NEW day PROVE TradesOf(day)' <= TradesOf(day) + (IF midnight(time) = day THEN 1 ELSE 0)
  <2>1. /\ IsFiniteSet(TradesAt(day)) /\ Cardinality(TradesAt(day)) \in Nat
        /\ IsFiniteSet(ExecutionsAt(day)) /\ Cardinality(ExecutionsAt(day)) \in Nat
        /\ TradesOf(day) = Cardinality(TradesAt(day)) + Cardinality(ExecutionsAt(day))
    BY Counts
  <2>2. TradesOf(day)' = Cardinality(TradesAt(day)') + Cardinality(ExecutionsAt(day)')
    BY DEF TradesOf, TradesAt, ExecutionsAt, midnight
  <2>3. CASE /\ row.executed_at = time
             /\ virtual_trades' = virtual_trades \cup {row} /\ execution_orders' = execution_orders
    <3>1. ExecutionsAt(day)' = ExecutionsAt(day)
      BY <2>3 DEF ExecutionsAt, midnight
    <3>2. CASE midnight(time) = day
      <4>1. TradesAt(day)' = TradesAt(day) \cup {row}
        BY <2>3, <3>2 DEF TradesAt, midnight
      <4>2. /\ Cardinality(TradesAt(day) \cup {row}) <= Cardinality(TradesAt(day)) + 1
            /\ Cardinality(TradesAt(day) \cup {row}) \in Nat
        BY <2>1, AddOne
      <4> QED BY <2>1, <2>2, <3>1, <3>2, <4>1, <4>2
    <3>3. CASE midnight(time) # day
      <4>1. TradesAt(day)' = TradesAt(day)
        BY <2>3, <3>3 DEF TradesAt, midnight
      <4> QED BY <2>1, <2>2, <3>1, <3>3, <4>1
    <3> QED BY <3>2, <3>3
  <2>4. CASE /\ row.created_at = time
             /\ execution_orders' = execution_orders \cup {row} /\ virtual_trades' = virtual_trades
    <3>1. TradesAt(day)' = TradesAt(day)
      BY <2>4 DEF TradesAt, midnight
    <3>2. CASE midnight(time) = day
      <4>1. ExecutionsAt(day)' = ExecutionsAt(day) \cup {row}
        BY <2>4, <3>2 DEF ExecutionsAt, midnight
      <4>2. /\ Cardinality(ExecutionsAt(day) \cup {row}) <= Cardinality(ExecutionsAt(day)) + 1
            /\ Cardinality(ExecutionsAt(day) \cup {row}) \in Nat
        BY <2>1, AddOne
      <4> QED BY <2>1, <2>2, <3>1, <3>2, <4>1, <4>2
    <3>3. CASE midnight(time) # day
      <4>1. ExecutionsAt(day)' = ExecutionsAt(day)
        BY <2>4, <3>3 DEF ExecutionsAt, midnight
      <4> QED BY <2>1, <2>2, <3>1, <3>3, <4>1
    <3> QED BY <3>2, <3>3
  <2> QED BY <2>3, <2>4 DEF RowIsAdded
<1> QED BY <1>1, <1>2

\* Rows and clock stay, no call decides, and none begins but now.
LEMMA QuietKeepsDays ==
  ASSUME IInv, LimitInv, NEW s \in Sessions, SessionStep(s), ~CountTrades(s), ~Commits(s)
  PROVE  \A day \in Nat : DayBounded(day)'
<1> SUFFICES ASSUME NEW day \in Nat PROVE DayBounded(day)'
  OBVIOUS
<1>1. UNCHANGED <<virtual_trades, execution_orders, now>>
  BY QuietStep, OthersStay
<1>2. TradesOf(day)' = TradesOf(day) /\ midnight(now)' = midnight(now)
  BY <1>1 DEF TradesOf, midnight
<1>3. DecidedOf(day)' \in SUBSET DecidedOf(day)
  <2>1. Decided(s)' => Decided(s) /\ session'[s].begun = session[s].begun
    BY QuietStep DEF Decided, InCall
  <2>2. \A x \in Sessions \ {s} : session'[x] = session[x]
    BY OthersStay
  <2> QED BY <2>1, <2>2 DEF DecidedOf, Decided, midnight
<1>4. ASSUME ~(midnight(now) <= day) PROVE CallsOf(day)' \in SUBSET CallsOf(day)
  <2>1. session'[s].pc \in InCall /\ midnight(session'[s].begun) = day
          => session[s].pc \in InCall /\ session'[s].begun = session[s].begun
    <3>1. ~(midnight(now) = day)
      BY <1>4
    <3> QED BY <3>1, QuietStep
  <2>2. \A x \in Sessions \ {s} : session'[x] = session[x]
    BY OthersStay
  <2> QED BY <2>1, <2>2 DEF CallsOf, midnight
<1>5. /\ Cardinality(DecidedOf(day)') <= Cardinality(DecidedOf(day))
      /\ ~(midnight(now) <= day) => Cardinality(CallsOf(day)') <= Cardinality(CallsOf(day))
  <2>1. IsFiniteSet(DecidedOf(day)) /\ IsFiniteSet(CallsOf(day))
    BY CallsAreSessions, SessionsCount
  <2> QED BY <1>3, <1>4, <2>1, FS_Subset
<1>6. /\ Cardinality(DecidedOf(day)') \in Nat /\ Cardinality(DecidedOf(day)) \in Nat
      /\ Cardinality(CallsOf(day)) \in Nat /\ TradesOf(day) \in Nat
      /\ Cardinality(Sessions) \in Nat /\ MaxDailyTrades \in Nat
      /\ ~(midnight(now) <= day) => Cardinality(CallsOf(day)') \in Nat
  <2>1. DecidedOf(day)' \in SUBSET Sessions
    BY <1>3, CallsAreSessions
  <2>2. ~(midnight(now) <= day) => CallsOf(day)' \in SUBSET Sessions
    BY <1>4, CallsAreSessions
  <2> QED BY <2>1, <2>2, CallsAreSessions, SessionsCount, Counts, ExecutionAssumption DEF LimitInv
<1>7. DayBounded(day)
  BY DEF LimitInv
<1>8. CASE midnight(now) <= day
  BY <1>2, <1>5, <1>6, <1>7, <1>8 DEF DayBounded
<1>9. CASE ~(midnight(now) <= day)
  BY <1>2, <1>5, <1>6, <1>7, <1>9 DEF DayBounded
<1> QED BY <1>8, <1>9

\* While the day lasts, a call that decides has seen fewer rows than the limit allows.
LEMMA CountKeepsDays ==
  ASSUME IInv, LimitInv, Sessions # {}, NEW s \in Sessions, CountTrades(s)
  PROVE  \A day \in Nat : DayBounded(day)'
<1> SUFFICES ASSUME NEW day \in Nat PROVE DayBounded(day)'
  OBVIOUS
<1>0. SessionStep(s) /\ now' = now /\ \A x \in Sessions \ {s} : session'[x] = session[x]
  <2>1. SessionStep(s)
    BY DEF SessionStep
  <2> QED BY <2>1, OthersStay
<1>1. /\ UNCHANGED <<virtual_trades, execution_orders>>
      /\ session[s].pc = "dated" /\ session'[s].pc = "counted"
      /\ session'[s].begun = session[s].begun
      /\ ~session'[s].limit_reached =>
           ~(count_trades_since(midnight(session[s].read_at)) >= MaxDailyTrades)
  BY CountStep
<1>2. TradesOf(day)' = TradesOf(day) /\ midnight(now)' = midnight(now)
  BY <1>0, <1>1 DEF TradesOf, midnight
<1>3. CallsOf(day)' = CallsOf(day)
  BY <1>0, <1>1 DEF CallsOf, InCall, midnight
<1>4. /\ MaxDailyTrades \in Nat /\ Cardinality(Sessions) \in Nat /\ Cardinality(Sessions) > 0
      /\ TradesOf(day) \in Nat /\ now \in Nat
      /\ IsFiniteSet(DecidedOf(day)) /\ Cardinality(DecidedOf(day)) \in Nat
  <2>1. Cardinality(Sessions) # 0
    BY FS_EmptySet, ExecutionAssumption
  <2> QED BY <2>1, SessionsCount, CallsAreSessions, Counts, ExecutionAssumption
          DEF LimitInv, IInv, TypeOK, Time
<1>5. DayBounded(day)
  BY DEF LimitInv
<1>6. CASE ~(midnight(now) <= day)
  BY <1>2, <1>3, <1>5, <1>6 DEF DayBounded
<1>7. CASE midnight(now) <= day
  <2>1. DecidedOf(day)' \in SUBSET Sessions
    BY DEF DecidedOf
  <2>2. Cardinality(DecidedOf(day)') \in Nat /\ Cardinality(DecidedOf(day)') <= Cardinality(Sessions)
    BY <2>1, SessionsCount
  <2>3. CASE ~session'[s].limit_reached
    <3>1. session[s].read_at \in Nat /\ session[s].read_at <= now
      BY <1>1 DEF IInv, TypeOK, LimitInv, SessionState, Time
    <3>2. midnight(session[s].read_at) \in Nat /\ midnight(session[s].read_at) <= midnight(now)
          /\ midnight(now) \in Nat
      BY <1>4, <3>1, MidnightBefore, MidnightMonotone
    <3>3. midnight(session[s].read_at) <= day
      BY <1>7, <3>2
    <3>4. /\ count_trades_since(midnight(session[s].read_at)) \in Nat
          /\ TradesOf(day) <= count_trades_since(midnight(session[s].read_at))
      BY <3>2, <3>3, DayIsCounted DEF IInv, LimitInv
    <3>5. TradesOf(day) <= MaxDailyTrades - 1
      BY <1>1, <1>4, <2>3, <3>4
    <3> QED BY <1>2, <1>4, <1>7, <2>2, <3>5 DEF DayBounded
  <2>4. CASE session'[s].limit_reached
    <3>1. DecidedOf(day)' \in SUBSET DecidedOf(day)
      BY <1>0, <1>1, <2>4 DEF DecidedOf, Decided, midnight
    <3>2. Cardinality(DecidedOf(day)') <= Cardinality(DecidedOf(day))
      BY <1>4, <3>1, FS_Subset
    <3> QED BY <1>2, <1>4, <1>5, <1>7, <2>2, <3>2 DEF DayBounded
  <2> QED BY <2>3, <2>4
<1> QED BY <1>6, <1>7

\* A commit turns a decided call into a row.
LEMMA CommitKeepsDays ==
  ASSUME IInv, LimitInv, NEW s \in Sessions, SessionStep(s), Commits(s)
  PROVE  /\ IsFiniteSet(virtual_trades') /\ IsFiniteSet(execution_orders')
         /\ \A day \in Nat : DayBounded(day)'
<1>1. now' = now /\ \A x \in Sessions \ {s} : session'[x] = session[x]
  BY OthersStay
<1>2. Decided(s) /\ session[s].pc \in InCall /\ session'[s].pc \notin InCall
  BY CommitStep
<1>3. /\ IsFiniteSet(virtual_trades') /\ IsFiniteSet(execution_orders')
      /\ \A day : TradesOf(day)'
                    <= TradesOf(day) + (IF midnight(session[s].begun) = day THEN 1 ELSE 0)
  BY CommitStep, RowAdded DEF LimitInv
<1>4. ASSUME NEW day \in Nat PROVE DayBounded(day)'
  <2>1. DayBounded(day) /\ midnight(now)' = midnight(now)
    BY <1>1 DEF LimitInv, midnight
  <2>2. TradesOf(day) \in Nat /\ TradesOf(day)' \in Nat
    <3>1. TradesOf(day) \in Nat
      BY Counts DEF LimitInv
    <3>2. (IsFiniteSet(virtual_trades) /\ IsFiniteSet(execution_orders) => TradesOf(day) \in Nat)'
      <4>1. IsFiniteSet(virtual_trades) /\ IsFiniteSet(execution_orders) => TradesOf(day) \in Nat
        BY Counts
      <4>2. /\ {t \in virtual_trades' : midnight(t.executed_at) = day} \in SUBSET virtual_trades'
            /\ {e \in execution_orders' : midnight(e.created_at) = day} \in SUBSET execution_orders'
        OBVIOUS
      <4>3. /\ Cardinality({t \in virtual_trades' : midnight(t.executed_at) = day}) \in Nat
            /\ Cardinality({e \in execution_orders' : midnight(e.created_at) = day}) \in Nat
        BY <1>3, <4>2, FS_Subset, FS_CardinalityType
      <4> QED BY <4>3 DEF TradesOf, midnight
    <3> QED BY <1>3, <3>1, <3>2
  <2>3. /\ DecidedOf(day)' = DecidedOf(day) \ {s}
        /\ CallsOf(day)' = CallsOf(day) \ {s}
        /\ midnight(session[s].begun) = day => s \in DecidedOf(day) /\ s \in CallsOf(day)
    BY <1>1, <1>2 DEF DecidedOf, CallsOf, Decided, InCall, midnight
  <2>4. /\ IsFiniteSet(DecidedOf(day)) /\ Cardinality(DecidedOf(day)) \in Nat
        /\ IsFiniteSet(CallsOf(day)) /\ Cardinality(CallsOf(day)) \in Nat
    BY CallsAreSessions, SessionsCount
  <2>5. /\ Cardinality(DecidedOf(day)') =
             Cardinality(DecidedOf(day)) - (IF s \in DecidedOf(day) THEN 1 ELSE 0)
        /\ Cardinality(CallsOf(day)') =
             Cardinality(CallsOf(day)) - (IF s \in CallsOf(day) THEN 1 ELSE 0)
    BY <2>3, <2>4, RemoveOne
  <2>6. /\ TradesOf(day)' <= TradesOf(day) + (IF midnight(session[s].begun) = day THEN 1 ELSE 0)
        /\ MaxDailyTrades \in Nat /\ Cardinality(Sessions) \in Nat
    BY <1>3, SessionsCount, ExecutionAssumption
  <2>7. /\ TradesOf(day)' + Cardinality(DecidedOf(day)') <= TradesOf(day) + Cardinality(DecidedOf(day))
        /\ TradesOf(day)' + Cardinality(CallsOf(day)') <= TradesOf(day) + Cardinality(CallsOf(day))
    BY <2>2, <2>3, <2>4, <2>5, <2>6
  <2>8. Cardinality(DecidedOf(day)') \in Int /\ Cardinality(CallsOf(day)') \in Int
    BY <2>4, <2>5
  <2> QED BY <2>1, <2>2, <2>4, <2>6, <2>7, <2>8 DEF DayBounded
<1> QED BY <1>3, <1>4

\* The clock may end the day; then calls that have not decided can still add a row each.
LEMMA TickKeepsDays ==
  ASSUME IInv, LimitInv, Tick
  PROVE  \A day \in Nat : DayBounded(day)'
<1> SUFFICES ASSUME NEW day \in Nat PROVE DayBounded(day)'
  OBVIOUS
<1>1. UNCHANGED <<virtual_trades, execution_orders, session>> /\ now' = now + 1 /\ now \in Nat
  BY DEF Tick, UnchangedRows, IInv, TypeOK, Time
<1>2. /\ TradesOf(day)' = TradesOf(day) /\ DecidedOf(day)' = DecidedOf(day)
      /\ CallsOf(day)' = CallsOf(day)
  BY <1>1 DEF TradesOf, DecidedOf, CallsOf, Decided, midnight
<1>3. midnight(now) <= midnight(now') /\ midnight(now) \in Nat /\ midnight(now') \in Nat
      /\ midnight(now)' = midnight(now')
  BY <1>1, MidnightMonotone, MidnightBefore DEF midnight
<1>4. /\ TradesOf(day) \in Nat /\ MaxDailyTrades \in Nat /\ Cardinality(Sessions) \in Nat
      /\ Cardinality(DecidedOf(day)) \in Nat /\ Cardinality(CallsOf(day)) \in Nat
      /\ Cardinality(CallsOf(day)) <= Cardinality(Sessions)
  BY Counts, CallsAreSessions, SessionsCount, ExecutionAssumption DEF LimitInv
<1>5. DayBounded(day)
  BY DEF LimitInv
<1> QED BY <1>2, <1>3, <1>4, <1>5 DEF DayBounded

LEMMA LimitInit == Sessions # {} /\ Init => LimitInv
<1> SUFFICES ASSUME Sessions # {}, Init PROVE LimitInv
  OBVIOUS
<1>1. virtual_trades = {} /\ execution_orders = {} /\ \A s \in Sessions : session[s].pc = "idle"
  BY DEF Init, IdleSession
<1>2. IsFiniteSet({}) /\ Cardinality({}) = 0
  BY FS_EmptySet
<1>3. Cardinality(Sessions) \in Nat /\ Cardinality(Sessions) > 0 /\ MaxDailyTrades \in Nat
  BY SessionsCount, FS_EmptySet, ExecutionAssumption
<1>4. ASSUME NEW day \in Nat PROVE DayBounded(day)
  <2>1. DecidedOf(day) = {} /\ CallsOf(day) = {}
    BY <1>1 DEF DecidedOf, CallsOf, Decided, InCall
  <2>2. TradesOf(day) = 0
    <3>1. {t \in {} : midnight(t.executed_at) = day} = {} /\ {e \in {} : midnight(e.created_at) = day} = {}
      OBVIOUS
    <3> QED BY <1>1, <1>2, <3>1 DEF TradesOf
  <2> QED BY <1>2, <1>3, <2>1, <2>2 DEF DayBounded
<1> QED BY <1>1, <1>2, <1>4 DEF LimitInv

LEMMA LimitStep == Sessions # {} /\ IInv /\ LimitInv /\ [Next]_vars => LimitInv'
<1> SUFFICES ASSUME Sessions # {}, IInv, LimitInv, [Next]_vars PROVE LimitInv'
  OBVIOUS
<1>same. ASSUME UNCHANGED <<virtual_trades, execution_orders, session, now>> PROVE LimitInv'
  BY <1>same DEF LimitInv, DayBounded, TradesOf, DecidedOf, CallsOf, Decided, midnight
<1>1. ASSUME NEW s \in Sessions, SessionStep(s) PROVE LimitInv'
  <2>1. now' = now /\ \A x \in Sessions \ {s} : session'[x] = session[x]
    BY <1>1, OthersStay
  <2>2. session'[s].pc = "dated" => session'[s].read_at = now
    BY <1>1, QuietStep, CountStep, CommitStep DEF InCall
  <2>3. now \in Nat
    BY DEF IInv, TypeOK, Time
  <2>4. \A x \in Sessions : session'[x].pc = "dated" => session'[x].read_at <= now'
    BY <2>1, <2>2, <2>3 DEF LimitInv
  <2>5. CASE CountTrades(s)
    BY <2>4, <2>5, CountKeepsDays, CountStep DEF LimitInv
  <2>6. CASE Commits(s)
    BY <1>1, <2>4, <2>6, CommitKeepsDays DEF LimitInv
  <2>7. CASE ~CountTrades(s) /\ ~Commits(s)
    <3>1. UNCHANGED <<virtual_trades, execution_orders>>
      BY <1>1, <2>7, QuietStep
    <3> QED BY <1>1, <2>4, <2>7, <3>1, QuietKeepsDays DEF LimitInv
  <2> QED BY <2>5, <2>6, <2>7
<1>2. CASE Tick
  <2>1. \A s \in Sessions : session'[s].pc = "dated" => session'[s].read_at <= now'
    <3>1. session' = session /\ now' = now + 1 /\ now \in Nat
          /\ \A s \in Sessions : session[s].read_at \in Nat
      BY <1>2 DEF Tick, IInv, TypeOK, SessionState, Time
    <3> QED BY <3>1 DEF LimitInv
  <2> QED BY <1>2, <2>1, TickKeepsDays DEF LimitInv, Tick, UnchangedRows
<1>3. ASSUME NEW settings, UpdateSystemSettings(settings)
      PROVE  UNCHANGED <<virtual_trades, execution_orders, session, now>>
  BY <1>3 DEF UpdateSystemSettings, UnchangedRows
<1> QED BY <1>same, <1>1, <1>2, <1>3 DEF Next, vars

\* A day exceeds the limit by no more than the calls in flight when it is reached and
\* those in flight at midnight, however many sessions overlap and however long their
\* calls last (_build_risk_context, count_trades_since, simulate, save_sandbox_execution).
THEOREM DailyLimit == ASSUME Sessions # {} PROVE Spec => []DailyOverrunBounded
<1>1. IInv /\ LimitInv => DailyOverrunBounded
  <2> SUFFICES ASSUME IInv, LimitInv, NEW t \in Time
               PROVE  TradesOf(midnight(t)) <= MaxDailyTrades + 2 * Cardinality(Sessions) - 1
    BY DEF DailyOverrunBounded
  <2> DEFINE day == midnight(t)
  <2>1. day \in Nat
    BY MidnightBefore DEF Time
  <2>2. DayBounded(day)
    BY <2>1 DEF LimitInv
  <2>3. /\ TradesOf(day) \in Nat /\ MaxDailyTrades \in Nat /\ Cardinality(Sessions) \in Nat
        /\ Cardinality(DecidedOf(day)) \in Nat /\ Cardinality(CallsOf(day)) \in Nat
    BY Counts, CallsAreSessions, SessionsCount, ExecutionAssumption DEF LimitInv
  <2> HIDE DEF day
  <2>4. TradesOf(day) <= MaxDailyTrades + 2 * Cardinality(Sessions) - 1
    BY <2>2, <2>3 DEF DayBounded
  <2> QED BY <2>4 DEF day
<1>2. Init => LimitInv
  BY LimitInit
<1>3. IInv /\ LimitInv /\ [Next]_vars => LimitInv'
  BY LimitStep
<1> QED BY <1>1, <1>2, <1>3, Inductive, PTL DEF Spec


----------------------------------------------------------------------------
(* The posts of an order                                                    *)

\* The calls that may still post the order, and those that have, and have yet to
\* record it.
MayPost(s, o) ==
  /\ session[s].pc \in InCall \ {"posted"}
  /\ session[s].required = "SANDBOX" /\ session[s].order = o
HasPosted(s, o) == session[s].pc = "posted" /\ session[s].order = o

PendingCalls(o) == {s \in Sessions : MayPost(s, o)}
PostedCalls(o) == {s \in Sessions : HasPosted(s, o)}

\* Before an order has its row, each post is lost or that of a call which still waits to
\* record it.  After it no new call begins, so that a session posts it at most once more.
PostBounded(o) ==
  IF Executed(o)
  THEN posts[o] + Cardinality(PendingCalls(o)) <= lost[o] + Cardinality(Sessions)
  ELSE posts[o] = lost[o] + Cardinality(PostedCalls(o))

\* The call fails between its post and its commit.
LosesPost(s) == Fail(s) /\ AtStep(s, "posted")

\* A step of a call that neither posts nor records, nor loses a post.
PostQuiet(s) ==
  /\ UNCHANGED <<execution_orders, posts, lost>>
  /\ \A o \in Orders :
       /\ Executed(o) /\ MayPost(s, o)' => MayPost(s, o)
       /\ ~Executed(o) => (HasPosted(s, o)' <=> HasPosted(s, o))

LEMMA PostQuietStep ==
  ASSUME IInv, NEW s \in Sessions, SessionStep(s),
         ~post_sandbox_order(s), ~SaveSandboxExecution(s), ~LosesPost(s)
  PROVE  PostQuiet(s)
<1>t. /\ session \in [Sessions -> SessionState] /\ session[s] \in SessionState
      /\ SessionConsistent(s)
  BY DEF IInv, TypeOK
<1>1. UNCHANGED <<execution_orders, posts, lost>>
  BY DEF SessionStep, UnchangedRows, BeginPlan, SaveOrders, GetOrder, Load,
     GetHeldOrder, SkipExecutedOrder, HeldOrderConflict, EndCycle, ReadSettings, ReadLatestTrade,
     CountTrades, Evaluate, Reject, Simulate, IntegrityError, GetManualOrder,
     SetConfirmationStatus, Fail, LosesPost
<1>idle. ASSUME session'[s].pc \notin InCall,
                session[s].pc = "posted" => Executed(session[s].order)
         PROVE  PostQuiet(s)
  BY <1>1, <1>idle DEF PostQuiet, MayPost, HasPosted, InCall
<1>same. ASSUME session'[s].order = session[s].order, session'[s].required = session[s].required,
                session[s].pc \in InCall \ {"posted"}, session'[s].pc \in InCall \ {"posted"}
         PROVE  PostQuiet(s)
  BY <1>1, <1>same DEF PostQuiet, MayPost, HasPosted
<1>close. ASSUME CloseSession(s), session[s].pc = "posted" => Executed(session[s].order)
          PROVE  PostQuiet(s)
  <2>1. session'[s].pc = "idle"
    BY <1>t, <1>close DEF CloseSession, IdleSession
  <2> QED BY <1>idle, <1>close, <2>1 DEF InCall
<1>3. CASE Reject(s) \/ EndCycle(s) \/ SetConfirmationStatus(s)
           \/ \E o \in Orders : HeldOrderConflict(s, o)
  BY <1>3, <1>close DEF Reject, EndCycle, SetConfirmationStatus, HeldOrderConflict, AtStep
<1>3a. CASE IntegrityError(s)
  BY <1>3a, <1>close DEF IntegrityError, RowExists, AtStep
<1>3b. CASE Fail(s)
  BY <1>3b, <1>close DEF Fail, LosesPost, AtStep
<1>4. CASE \E p \in Plans : BeginPlan(s, p)
  <2>1. session[s].pc = "idle" /\ session'[s].pc = "planning"
    BY <1>t, <1>4 DEF BeginPlan, IdleSession, AtStep
  <2> QED BY <1>idle, <2>1 DEF InCall
<1>5. CASE SaveOrders(s)
  <2>1. session[s].pc = "planning" /\ session'[s].pc \in {"idle", "looping"}
    BY <1>t, <1>5 DEF SaveOrders, IdleSession, AtStep
  <2> QED BY <1>idle, <2>1 DEF InCall
<1>6. ASSUME NEW o \in Orders, SkipExecutedOrder(s, o)
      PROVE  PostQuiet(s)
  <2>1. session[s].pc = "looping" /\ session'[s].pc = "looping"
    BY <1>t, <1>6 DEF SkipExecutedOrder, AtStep, SessionState
  <2> QED BY <1>idle, <2>1 DEF InCall
<1>7. ASSUME NEW o \in Orders, NEW required \in ExecutableModes, Load(s, o, required),
             ~ExistingResult(o, required), session[s].pc \in {"idle", "looping"}
      PROVE  PostQuiet(s)
  <2>1. session'[s].pc = "loaded" /\ session'[s].order = o /\ session'[s].required = required
    BY <1>t, <1>7 DEF Load, SessionState
  <2>2. required = "SANDBOX" => ~Executed(o)
    BY <1>7 DEF ExistingResult
  <2> QED BY <1>1, <1>7, <2>1, <2>2 DEF PostQuiet, MayPost, HasPosted, InCall
<1>8. ASSUME NEW o \in Orders, GetHeldOrder(s, o) PROVE PostQuiet(s)
  BY <1>t, <1>7, <1>8 DEF GetHeldOrder, SessionState, AtStep
<1>8a. ASSUME NEW o \in Orders, NEW required \in ExecutableModes, GetOrder(s, o, required)
       PROVE  PostQuiet(s)
  BY <1>7, <1>8a DEF GetOrder, AtStep
<1>9. CASE ReadSettings(s)
  <2>1. /\ session[s].pc = "loaded" /\ session'[s].pc = "authorised"
        /\ session'[s].order = session[s].order /\ session'[s].required = session[s].required
    BY <1>t, <1>9 DEF ReadSettings, AtStep, SessionState
  <2> QED BY <1>same, <2>1 DEF InCall
<1>10. CASE ReadLatestTrade(s)
  <2> DEFINE active == CooldownActive(InstrumentOf[session[s].order])
  <2>1. session' = [session EXCEPT ![s] =
          [@ EXCEPT !.pc = "dated", !.read_at = now, !.cooldown_active = active]]
    BY <1>10 DEF ReadLatestTrade
  <2> HIDE DEF active
  <2>2. session'[s].pc = "dated"
        /\ session'[s].order = session[s].order /\ session'[s].required = session[s].required
    BY <1>t, <2>1 DEF SessionState
  <2> QED BY <1>same, <1>10, <2>2 DEF ReadLatestTrade, AtStep, InCall
<1>11. CASE CountTrades(s)
  <2> DEFINE reached == count_trades_since(midnight(session[s].read_at)) >= MaxDailyTrades
  <2>1. session' = [session EXCEPT ![s] = [@ EXCEPT !.pc = "counted", !.limit_reached = reached]]
    BY <1>11 DEF CountTrades
  <2> HIDE DEF reached
  <2>2. session'[s].pc = "counted"
        /\ session'[s].order = session[s].order /\ session'[s].required = session[s].required
    BY <1>t, <2>1 DEF SessionState
  <2> QED BY <1>same, <1>11, <2>2 DEF CountTrades, AtStep, InCall
<1>12. CASE Evaluate(s)
  <2>1. /\ session[s].pc = "counted" /\ session'[s].pc \in {"allowed", "refused"}
        /\ session'[s].order = session[s].order /\ session'[s].required = session[s].required
    BY <1>t, <1>12 DEF Evaluate, AtStep, SessionState
  <2> QED BY <1>same, <2>1 DEF InCall
<1>13. CASE Simulate(s)
  <2>1. session[s].pc = "allowed" /\ session'[s].pc \notin InCall
    BY <1>13, CommitStep DEF Simulate, AtStep, Commits
  <2> QED BY <1>idle, <2>1
<1>14. ASSUME NEW o \in Orders, NEW pc \in {"approving", "rejecting"}, GetManualOrder(s, o, pc)
       PROVE  PostQuiet(s)
  <2>1. session[s].pc = "idle" /\ session'[s].pc = pc
    BY <1>t, <1>14 DEF GetManualOrder, SessionState, AtStep
  <2> QED BY <1>idle, <2>1 DEF InCall
<1> QED
  BY <1>3, <1>3a, <1>3b, <1>4, <1>5, <1>6, <1>8, <1>8a, <1>9, <1>10, <1>11, <1>12, <1>13, <1>14
     DEF SessionStep

LEMMA PostSets ==
  ASSUME NEW o
  PROVE  /\ IsFiniteSet(PendingCalls(o)) /\ Cardinality(PendingCalls(o)) \in Nat
         /\ IsFiniteSet(PostedCalls(o)) /\ Cardinality(PostedCalls(o)) \in Nat
         /\ Cardinality(PendingCalls(o)) + Cardinality(PostedCalls(o)) <= Cardinality(Sessions)
         /\ Cardinality(Sessions) \in Nat
<1>1. PendingCalls(o) \in SUBSET Sessions /\ PostedCalls(o) \in SUBSET Sessions
  BY DEF PendingCalls, PostedCalls
<1>2. PendingCalls(o) \cap PostedCalls(o) = {}
  BY DEF PendingCalls, PostedCalls, MayPost, HasPosted
<1>3. /\ IsFiniteSet(PendingCalls(o)) /\ Cardinality(PendingCalls(o)) \in Nat
      /\ IsFiniteSet(PostedCalls(o)) /\ Cardinality(PostedCalls(o)) \in Nat
  BY <1>1, SessionsCount
<1>4. Cardinality(PendingCalls(o) \cup PostedCalls(o)) =
        Cardinality(PendingCalls(o)) + Cardinality(PostedCalls(o))
          - Cardinality(PendingCalls(o) \cap PostedCalls(o))
  BY <1>3, FS_Union
<1>5. Cardinality(PendingCalls(o) \cap PostedCalls(o)) = 0
  BY <1>2, FS_EmptySet
<1>6. Cardinality(PendingCalls(o) \cup PostedCalls(o)) <= Cardinality(Sessions)
  <2>1. PendingCalls(o) \cup PostedCalls(o) \in SUBSET Sessions
    BY <1>1
  <2> QED BY <2>1, SessionsCount
<1> QED BY <1>3, <1>4, <1>5, <1>6, SessionsCount

\* The sets of a step that only s takes differ by s at most.
LEMMA PostSetsMove ==
  ASSUME IInv, NEW s \in Sessions, SessionStep(s), NEW o
  PROVE  /\ PendingCalls(o)' = (IF MayPost(s, o)' THEN PendingCalls(o) \cup {s}
                                                  ELSE PendingCalls(o) \ {s})
         /\ PostedCalls(o)' = (IF HasPosted(s, o)' THEN PostedCalls(o) \cup {s}
                                                   ELSE PostedCalls(o) \ {s})
<1>1. \A x \in Sessions \ {s} : session'[x] = session[x]
  BY OthersStay
<1>2. \A x \in Sessions \ {s} : (MayPost(x, o)' <=> MayPost(x, o)) /\ (HasPosted(x, o)' <=> HasPosted(x, o))
  BY <1>1 DEF MayPost, HasPosted
<1> QED BY <1>2 DEF PendingCalls, PostedCalls

LEMMA PostStep ==
  ASSUME IInv, \A o \in Orders : PostBounded(o), [Next]_vars
  PROVE  \A o \in Orders : PostBounded(o)'
<1>same. ASSUME UNCHANGED <<execution_orders, posts, lost, session>>
         PROVE  \A o \in Orders : PostBounded(o)'
  BY <1>same DEF PostBounded, Executed, PendingCalls, PostedCalls, MayPost, HasPosted
<1>1. ASSUME NEW s \in Sessions, SessionStep(s), NEW o \in Orders
      PROVE  PostBounded(o)'
  <2>t. /\ PostBounded(o) /\ posts \in [Orders -> 0 .. MaxPosts] /\ posts[o] \in Nat
        /\ lost \in [Orders -> Nat] /\ lost[o] \in Nat
        /\ session \in [Sessions -> SessionState] /\ session[s] \in SessionState
        /\ SessionConsistent(s)
    BY DEF IInv, TypeOK
  <2>f. /\ IsFiniteSet(PendingCalls(o)) /\ Cardinality(PendingCalls(o)) \in Nat
        /\ IsFiniteSet(PostedCalls(o)) /\ Cardinality(PostedCalls(o)) \in Nat
        /\ Cardinality(PendingCalls(o)) + Cardinality(PostedCalls(o)) <= Cardinality(Sessions)
        /\ Cardinality(Sessions) \in Nat
    BY PostSets
  <2>m. /\ PendingCalls(o)' = (IF MayPost(s, o)' THEN PendingCalls(o) \cup {s}
                                                 ELSE PendingCalls(o) \ {s})
        /\ PostedCalls(o)' = (IF HasPosted(s, o)' THEN PostedCalls(o) \cup {s}
                                                  ELSE PostedCalls(o) \ {s})
    BY <1>1, PostSetsMove
  <2>in. (s \in PendingCalls(o) <=> MayPost(s, o)) /\ (s \in PostedCalls(o) <=> HasPosted(s, o))
    BY DEF PendingCalls, PostedCalls
  <2>1. CASE post_sandbox_order(s)
    <3>1. /\ session[s].pc = "allowed" /\ session[s].required = "SANDBOX"
          /\ session'[s].pc = "posted" /\ session'[s].order = session[s].order
          /\ execution_orders' = execution_orders /\ lost' = lost
          /\ posts' = [posts EXCEPT ![session[s].order] = @ + 1]
      BY <2>1, <2>t DEF post_sandbox_order, AtStep, SessionState
    <3>2. ~MayPost(s, o)' /\ (HasPosted(s, o)' <=> session[s].order = o)
      BY <3>1 DEF MayPost, HasPosted
    <3>3. MayPost(s, o) <=> session[s].order = o
      BY <3>1 DEF MayPost, InCall
    <3>4. ~HasPosted(s, o)
      BY <3>1 DEF HasPosted
    <3>5. posts'[o] = (IF session[s].order = o THEN posts[o] + 1 ELSE posts[o]) /\ lost'[o] = lost[o]
      BY <2>t, <3>1
    <3>6. Executed(o)' <=> Executed(o)
      BY <3>1 DEF Executed
    <3>7. CASE session[s].order = o
      <4>1. PendingCalls(o)' = PendingCalls(o) \ {s} /\ PostedCalls(o)' = PostedCalls(o) \cup {s}
        BY <2>m, <3>2, <3>7
      <4>2. Cardinality(PendingCalls(o)') = Cardinality(PendingCalls(o)) - 1
        BY <4>1, <2>f, <2>in, <3>3, <3>7, RemoveOne
      <4>3. Cardinality(PostedCalls(o)') = Cardinality(PostedCalls(o)) + 1
        BY <4>1, <2>f, <2>in, <3>4, FS_AddElement
      <4> QED BY <2>t, <2>f, <3>5, <3>6, <3>7, <4>2, <4>3 DEF PostBounded
    <3>8. CASE session[s].order # o
      <4>1. PendingCalls(o)' = PendingCalls(o) /\ PostedCalls(o)' = PostedCalls(o)
        BY <2>m, <2>in, <3>2, <3>3, <3>4, <3>8
      <4> QED BY <2>t, <3>5, <3>6, <3>8, <4>1 DEF PostBounded
    <3> QED BY <3>7, <3>8
  <2>2. CASE SaveSandboxExecution(s)
    <3>1. /\ session[s].pc = "posted" /\ session'[s].pc \notin InCall
          /\ posts' = posts /\ lost' = lost /\ ~Executed(session[s].order)
          /\ execution_orders' = execution_orders \cup {NewExecutionOrder(s)}
          /\ NewExecutionOrder(s).planned_order = session[s].order
      <4>1. session'[s].pc \notin InCall
        BY <2>2, CommitStep DEF Commits
      <4>2. NewExecutionOrder(s).planned_order = session[s].order
        BY DEF NewExecutionOrder
      <4> QED BY <2>2, <4>1, <4>2 DEF SaveSandboxExecution, AtStep
    <3>2. ~MayPost(s, o)' /\ ~HasPosted(s, o)' /\ ~MayPost(s, o) /\ (HasPosted(s, o) <=> session[s].order = o)
      BY <3>1 DEF MayPost, HasPosted, InCall
    <3>3. PendingCalls(o)' = PendingCalls(o)
      BY <2>m, <2>in, <3>2
    <3>4. CASE session[s].order = o
      <4> DEFINE row == NewExecutionOrder(s)
      <4>0. row \in execution_orders' /\ row.planned_order = o
        BY <3>1, <3>4
      <4>1. Executed(o)' /\ ~Executed(o)
        <5> HIDE DEF row
        <5> QED BY <3>1, <3>4, <4>0 DEF Executed
      <4> QED BY <2>t, <2>f, <3>1, <3>3, <4>1 DEF PostBounded
    <3>5. CASE session[s].order # o
      <4>1. Executed(o)' <=> Executed(o)
        BY <3>1, <3>5 DEF Executed
      <4>2. PostedCalls(o)' = PostedCalls(o)
        BY <2>m, <2>in, <3>2, <3>5
      <4> QED BY <2>t, <3>1, <3>3, <4>1, <4>2 DEF PostBounded
    <3> QED BY <3>4, <3>5
  <2>3. CASE LosesPost(s)
    <3>1. /\ session[s].pc = "posted" /\ session'[s].pc = "idle"
          /\ UNCHANGED <<posts, execution_orders>>
          /\ lost' = [lost EXCEPT ![session[s].order] = @ + 1]
      BY <2>3, <2>t DEF LosesPost, Fail, CloseSession, IdleSession, AtStep
    <3>2. ~MayPost(s, o)' /\ ~HasPosted(s, o)' /\ ~MayPost(s, o) /\ (HasPosted(s, o) <=> session[s].order = o)
      BY <3>1 DEF MayPost, HasPosted, InCall
    <3>3. PendingCalls(o)' = PendingCalls(o) /\ PostedCalls(o)' = PostedCalls(o) \ {s}
      BY <2>m, <2>in, <3>2
    <3>4. Cardinality(PostedCalls(o)') =
            Cardinality(PostedCalls(o)) - (IF session[s].order = o THEN 1 ELSE 0)
      BY <2>f, <2>in, <3>2, <3>3, RemoveOne
    <3>5. lost'[o] = lost[o] + (IF session[s].order = o THEN 1 ELSE 0)
      BY <2>t, <3>1
    <3>6. (Executed(o)' <=> Executed(o)) /\ posts'[o] = posts[o]
      BY <3>1 DEF Executed
    <3> QED BY <2>t, <2>f, <3>3, <3>4, <3>5, <3>6 DEF PostBounded
  <2>4. CASE ~post_sandbox_order(s) /\ ~SaveSandboxExecution(s) /\ ~LosesPost(s)
    <3>1. PostQuiet(s)
      BY <1>1, <2>4, PostQuietStep
    <3>2. (Executed(o)' <=> Executed(o)) /\ posts'[o] = posts[o] /\ lost'[o] = lost[o]
      BY <3>1 DEF PostQuiet, Executed
    <3>3. CASE Executed(o)
      <4>1. PendingCalls(o)' \in SUBSET PendingCalls(o)
        BY <2>m, <2>in, <3>1, <3>3 DEF PostQuiet
      <4>2. Cardinality(PendingCalls(o)') <= Cardinality(PendingCalls(o))
            /\ Cardinality(PendingCalls(o)') \in Nat
        BY <2>f, <4>1, FS_Subset, FS_CardinalityType
      <4> QED BY <2>t, <2>f, <3>2, <3>3, <4>2 DEF PostBounded
    <3>4. CASE ~Executed(o)
      <4>1. PostedCalls(o)' = PostedCalls(o)
        BY <2>m, <2>in, <3>1, <3>4 DEF PostQuiet
      <4> QED BY <2>t, <3>2, <3>4, <4>1 DEF PostBounded
    <3> QED BY <3>3, <3>4
  <2> QED BY <2>1, <2>2, <2>3, <2>4
<1>2. CASE Tick
  BY <1>2, <1>same DEF Tick, UnchangedRows
<1>3. ASSUME NEW settings, UpdateSystemSettings(settings)
      PROVE  UNCHANGED <<execution_orders, posts, lost, session>>
  BY <1>3 DEF UpdateSystemSettings, UnchangedRows
<1> QED BY <1>same, <1>1, <1>2, <1>3 DEF Next, vars

LEMMA PostInductive == Spec => [](\A o \in Orders : PostBounded(o))
<1>1. Init => \A o \in Orders : PostBounded(o)
  <2> SUFFICES ASSUME Init, NEW o \in Orders PROVE PostBounded(o)
    OBVIOUS
  <2>1. posts[o] = 0 /\ lost[o] = 0 /\ ~Executed(o) /\ PostedCalls(o) = {}
    BY DEF Init, Executed, PostedCalls, HasPosted, IdleSession
  <2> QED BY <2>1, FS_EmptySet DEF PostBounded
<1>2. IInv /\ (\A o \in Orders : PostBounded(o)) /\ [Next]_vars => (\A o \in Orders : PostBounded(o))'
  BY PostStep
<1> QED BY <1>1, <1>2, Inductive, PTL DEF Spec

\* Whatever calls overlap, fail or are repeated, every order the broker received is
\* recorded, in the hands of the call that posted it, or lost by a failing one; and no
\* session posts a recorded order more than once beside the lost posts
\* (execute_sandbox, save_sandbox_execution).
THEOREM EveryPostAccounted == Spec => []PostsAccounted
<1>1. IInv /\ (\A o \in Orders : PostBounded(o)) => PostsAccounted
  <2> SUFFICES ASSUME IInv, NEW o \in Orders, PostBounded(o)
               PROVE  IF Executed(o) THEN posts[o] <= lost[o] + Cardinality(Sessions)
                                     ELSE posts[o] = lost[o] + Cardinality(Posting(o))
    BY DEF PostsAccounted
  <2>1. posts[o] \in Nat /\ lost[o] \in Nat
    BY DEF IInv, TypeOK
  <2>2. Cardinality(PendingCalls(o)) \in Nat /\ Cardinality(Sessions) \in Nat
    BY PostSets
  <2>3. Posting(o) = PostedCalls(o)
    BY DEF Posting, PostedCalls, HasPosted, AtStep
  <2> QED BY <2>1, <2>2, <2>3 DEF PostBounded
<1> QED BY <1>1, Inductive, PostInductive, PTL

----------------------------------------------------------------------------
(* The cooldown of an instrument                                            *)

\* The cooldown did not stop the call.
Cleared(s) ==
  \/ session[s].pc \in {"dated", "counted"} /\ ~session[s].cooldown_active
  \/ session[s].pc \in {"allowed", "posted"}

ItsInstrument(s) == InstrumentOf[session[s].order]

\* A call in time, and one whose row would keep the cooldown.
CallInTime(s) ==
  session[s].pc \in InCall => session[s].begun <= now /\ now - session[s].begun <= MaxCallTicks
CallKeepsCooldown(s) ==
  Cleared(s) => \A r \in RowTimes(ItsInstrument(s)) : session[s].begun - r >= Cooldown - MaxCallTicks

CooldownInv ==
  /\ IsFiniteSet(virtual_trades) /\ IsFiniteSet(execution_orders)
  /\ CooldownRespected
  /\ \A s \in Sessions : CallInTime(s) /\ CallKeepsCooldown(s)

LEMMA RowTimesAreTimes ==
  ASSUME IInv, NEW i
  PROVE  RowTimes(i) \subseteq Nat
BY DEF IInv, TypeOK, RowTimes, VirtualTrade, ExecutionOrder, Time

\* Between commits a call is cleared by latest_trade_time, and by nothing else.
LEMMA ClearedStep ==
  ASSUME IInv, NEW s \in Sessions, SessionStep(s), ~Commits(s)
  PROVE  /\ UNCHANGED <<virtual_trades, execution_orders>>
         /\ \/ session'[s].pc \notin InCall
            \/ session'[s].pc = "loaded" /\ session'[s].begun = now
            \/ /\ session[s].pc \in InCall /\ session'[s].begun = session[s].begun
               /\ session'[s].order = session[s].order
               /\ Cleared(s)' => Cleared(s) \/ ~CooldownActive(ItsInstrument(s))
<1>t. session \in [Sessions -> SessionState] /\ session[s] \in SessionState
  BY DEF IInv, TypeOK
<1> DEFINE Going == /\ session[s].pc \in InCall /\ session'[s].begun = session[s].begun
                    /\ session'[s].order = session[s].order
                    /\ Cleared(s)' => Cleared(s) \/ ~CooldownActive(ItsInstrument(s))
<1>1. UNCHANGED <<virtual_trades, execution_orders>>
  BY QuietStep, CountStep
<1>2. CASE ~(ReadSettings(s) \/ ReadLatestTrade(s) \/ CountTrades(s) \/ Evaluate(s)
             \/ post_sandbox_order(s))
  <2>1. ASSUME CloseSession(s) PROVE session'[s].pc \notin InCall
    BY <1>t, <2>1 DEF CloseSession, IdleSession, InCall
  <2>2. ASSUME NEW p \in Plans, BeginPlan(s, p) PROVE session'[s].pc \notin InCall
    BY <1>t, <2>2 DEF BeginPlan, IdleSession, InCall
  <2>3. CASE SaveOrders(s)
    <3>1. session'[s].pc \in {"idle", "looping"}
      BY <1>t, <2>3 DEF SaveOrders, IdleSession
    <3> QED BY <1>1, <3>1 DEF InCall
  <2>4. ASSUME NEW o \in Orders, SkipExecutedOrder(s, o) PROVE session'[s].pc \notin InCall
    BY <1>t, <2>4 DEF SkipExecutedOrder, AtStep, SessionState, InCall
  <2>5. ASSUME NEW o \in Orders, NEW required \in ExecutableModes, Load(s, o, required)
        PROVE  session'[s].pc = "loaded" /\ session'[s].begun = now
    BY <1>t, <2>5 DEF Load, SessionState
  <2>6. ASSUME NEW o \in Orders, GetHeldOrder(s, o)
        PROVE  session'[s].pc = "loaded" /\ session'[s].begun = now
    BY <1>t, <2>5, <2>6 DEF GetHeldOrder, SessionState
  <2>7. ASSUME NEW o \in Orders, NEW pc \in {"approving", "rejecting"}, GetManualOrder(s, o, pc)
        PROVE  session'[s].pc \notin InCall
    <3>1. session'[s].pc = pc
      BY <1>t, <2>7 DEF GetManualOrder, SessionState
    <3> QED BY <3>1 DEF InCall
  <2> QED
    BY <1>1, <1>2, <2>1, <2>2, <2>3, <2>4, <2>5, <2>6, <2>7
       DEF SessionStep, GetOrder, Commits, HeldOrderConflict, EndCycle, Reject, IntegrityError,
           SetConfirmationStatus, Fail
<1>3. CASE ReadSettings(s)
  <2>1. /\ session[s].pc = "loaded" /\ session'[s].begun = session[s].begun
        /\ session'[s].pc = "authorised" /\ session'[s].order = session[s].order
    BY <1>t, <1>3 DEF ReadSettings, AtStep, SessionState
  <2> QED BY <1>1, <2>1 DEF Cleared, InCall
<1>4. CASE ReadLatestTrade(s)
  <2> DEFINE active == CooldownActive(ItsInstrument(s))
  <2>1. session' = [session EXCEPT ![s] =
          [@ EXCEPT !.pc = "dated", !.read_at = now, !.cooldown_active = active]]
    BY <1>4 DEF ReadLatestTrade, ItsInstrument
  <2>2. session[s].pc = "authorised"
    BY <1>4 DEF ReadLatestTrade, AtStep
  <2> HIDE DEF active
  <2>3. session'[s].begun = session[s].begun /\ session'[s].pc = "dated"
        /\ session'[s].order = session[s].order /\ session'[s].cooldown_active = active
    BY <1>t, <2>1 DEF SessionState
  <2>4. Cleared(s)' => ~active
    BY <2>3, Zenon DEF Cleared
  <2>5. Cleared(s)' => ~CooldownActive(ItsInstrument(s))
    BY <2>4 DEF active
  <2> QED BY <1>1, <2>2, <2>3, <2>5 DEF InCall
<1>5. CASE CountTrades(s)
  <2> DEFINE reached == count_trades_since(midnight(session[s].read_at)) >= MaxDailyTrades
  <2>1. session' = [session EXCEPT ![s] = [@ EXCEPT !.pc = "counted", !.limit_reached = reached]]
    BY <1>5 DEF CountTrades
  <2>2. session[s].pc = "dated"
    BY <1>5 DEF CountTrades, AtStep
  <2> HIDE DEF reached
  <2>3. session'[s].begun = session[s].begun /\ session'[s].pc = "counted"
        /\ session'[s].order = session[s].order
        /\ session'[s].cooldown_active = session[s].cooldown_active
    BY <1>t, <2>1 DEF SessionState
  <2> QED BY <1>1, <2>2, <2>3 DEF Cleared, InCall
<1>6. CASE Evaluate(s)
  <2>1. /\ session[s].pc = "counted" /\ session'[s].begun = session[s].begun
        /\ session'[s].order = session[s].order
        /\ session'[s].pc \in {"allowed", "refused"}
        /\ session'[s].pc = "allowed" => ~session[s].cooldown_active
    BY <1>t, <1>6 DEF Evaluate, AtStep, SessionState, RiskAllows
  <2> QED BY <1>1, <2>1 DEF Cleared, InCall
<1>7. CASE post_sandbox_order(s)
  <2>1. /\ session[s].pc = "allowed" /\ session'[s].begun = session[s].begun
        /\ session'[s].pc = "posted" /\ session'[s].order = session[s].order
    BY <1>t, <1>7 DEF post_sandbox_order, AtStep, SessionState
  <2> QED BY <1>1, <2>1 DEF Cleared, InCall
<1> QED BY <1>2, <1>3, <1>4, <1>5, <1>6, <1>7

\* What ~CooldownActive says of the times of the rows.
LEMMA CooldownOver ==
  ASSUME IInv, NEW i, ~CooldownActive(i)
  PROVE  \A r \in RowTimes(i) : now - r >= Cooldown
<1>1. \A t \in virtual_trades : t.executed_at \in Nat
  BY DEF IInv, TypeOK, VirtualTrade, Time
<1>2. \A e \in execution_orders : e.created_at \in Nat
  BY DEF IInv, TypeOK, ExecutionOrder, Time
<1>3. now \in Nat /\ Cooldown \in Nat
  BY ExecutionAssumption DEF IInv, TypeOK, Time
<1>4. ASSUME NEW t \in virtual_trades, InstrumentOf[t.planned_order] = i
      PROVE  now - t.executed_at >= Cooldown
  BY <1>1, <1>3, <1>4 DEF CooldownActive
<1>5. ASSUME NEW e \in execution_orders, InstrumentOf[e.planned_order] = i
      PROVE  now - e.created_at >= Cooldown
  BY <1>2, <1>3, <1>5 DEF CooldownActive
<1> QED BY <1>4, <1>5 DEF RowTimes

TradesIn(i) == {t \in virtual_trades : InstrumentOf[t.planned_order] = i}
ExecutionsIn(i) == {e \in execution_orders : InstrumentOf[e.planned_order] = i}

LEMMA RowsCount ==
  ASSUME IsFiniteSet(virtual_trades), IsFiniteSet(execution_orders), NEW i
  PROVE  /\ IsFiniteSet(TradesIn(i)) /\ Cardinality(TradesIn(i)) \in Nat
         /\ IsFiniteSet(ExecutionsIn(i)) /\ Cardinality(ExecutionsIn(i)) \in Nat
         /\ Rows(i) = Cardinality(TradesIn(i)) + Cardinality(ExecutionsIn(i))
         /\ RowTimes(i) = {t.executed_at : t \in TradesIn(i)} \cup {e.created_at : e \in ExecutionsIn(i)}
         /\ IsFiniteSet(RowTimes(i)) /\ Cardinality(RowTimes(i)) \in Nat
<1>1. TradesIn(i) \in SUBSET virtual_trades /\ ExecutionsIn(i) \in SUBSET execution_orders
  BY DEF TradesIn, ExecutionsIn
<1>2. /\ IsFiniteSet(TradesIn(i)) /\ Cardinality(TradesIn(i)) \in Nat
      /\ IsFiniteSet(ExecutionsIn(i)) /\ Cardinality(ExecutionsIn(i)) \in Nat
  BY <1>1, FS_Subset, FS_CardinalityType
<1>3. RowTimes(i) = {t.executed_at : t \in TradesIn(i)} \cup {e.created_at : e \in ExecutionsIn(i)}
  BY DEF RowTimes, TradesIn, ExecutionsIn
<1>4. IsFiniteSet({t.executed_at : t \in TradesIn(i)})
  <2> DEFINE f == [t \in TradesIn(i) |-> t.executed_at]
  <2>1. f \in Surjection(TradesIn(i), {t.executed_at : t \in TradesIn(i)})
    BY DEF Surjection
  <2> QED BY <1>2, <2>1, FS_Surjection
<1>5. IsFiniteSet({e.created_at : e \in ExecutionsIn(i)})
  <2> DEFINE f == [e \in ExecutionsIn(i) |-> e.created_at]
  <2>1. f \in Surjection(ExecutionsIn(i), {e.created_at : e \in ExecutionsIn(i)})
    BY DEF Surjection
  <2> QED BY <1>2, <2>1, FS_Surjection
<1>6. IsFiniteSet(RowTimes(i))
  BY <1>3, <1>4, <1>5, FS_Union
<1>7. Cardinality(RowTimes(i)) \in Nat
  BY <1>6, FS_CardinalityType
<1> QED BY <1>2, <1>3, <1>6, <1>7 DEF Rows, TradesIn, ExecutionsIn

\* A row adds its time to those of its instrument; a time that is new to it adds one to
\* both counts.
LEMMA TimeAdded ==
  ASSUME IsFiniteSet(virtual_trades), IsFiniteSet(execution_orders),
         NEW o, NEW time, NEW row, RowIsAdded(row, o, time)
  PROVE  /\ \A i : i # InstrumentOf[o] => RowTimes(i)' = RowTimes(i) /\ Rows(i)' = Rows(i)
         /\ RowTimes(InstrumentOf[o])' = RowTimes(InstrumentOf[o]) \cup {time}
         /\ time \notin RowTimes(InstrumentOf[o]) => Rows(InstrumentOf[o])' = Rows(InstrumentOf[o]) + 1
<1>0. row.planned_order = o
  BY DEF RowIsAdded
<1>1. \/ /\ row.executed_at = time
         /\ virtual_trades' = virtual_trades \cup {row} /\ execution_orders' = execution_orders
      \/ /\ row.created_at = time
         /\ execution_orders' = execution_orders \cup {row} /\ virtual_trades' = virtual_trades
  BY DEF RowIsAdded
<1>2. ASSUME NEW i, i # InstrumentOf[o]
      PROVE  TradesIn(i)' = TradesIn(i) /\ ExecutionsIn(i)' = ExecutionsIn(i)
  BY <1>0, <1>1, <1>2 DEF TradesIn, ExecutionsIn
<1>3. ASSUME NEW i
      PROVE  /\ Rows(i)' = Cardinality(TradesIn(i)') + Cardinality(ExecutionsIn(i)')
             /\ RowTimes(i)' = {t.executed_at : t \in TradesIn(i)'}
                                 \cup {e.created_at : e \in ExecutionsIn(i)'}
  BY DEF Rows, RowTimes, TradesIn, ExecutionsIn
<1>4. ASSUME NEW i
      PROVE  /\ IsFiniteSet(TradesIn(i)) /\ Cardinality(TradesIn(i)) \in Nat
             /\ IsFiniteSet(ExecutionsIn(i)) /\ Cardinality(ExecutionsIn(i)) \in Nat
             /\ Rows(i) = Cardinality(TradesIn(i)) + Cardinality(ExecutionsIn(i))
             /\ RowTimes(i) = {t.executed_at : t \in TradesIn(i)}
                                \cup {e.created_at : e \in ExecutionsIn(i)}
  BY RowsCount
<1>5. \A i : i # InstrumentOf[o] => RowTimes(i)' = RowTimes(i) /\ Rows(i)' = Rows(i)
  BY <1>2, <1>3, <1>4
<1>6. ASSUME NEW i, i = InstrumentOf[o]
      PROVE  /\ RowTimes(i)' = RowTimes(i) \cup {time}
             /\ time \notin RowTimes(i) => Rows(i)' = Rows(i) + 1
  <2>0. /\ Rows(i)' = Cardinality(TradesIn(i)') + Cardinality(ExecutionsIn(i)')
        /\ Rows(i) = Cardinality(TradesIn(i)) + Cardinality(ExecutionsIn(i))
        /\ Cardinality(TradesIn(i)) \in Nat /\ Cardinality(ExecutionsIn(i)) \in Nat
    BY <1>3, <1>4
  <2>1. CASE /\ row.executed_at = time
             /\ virtual_trades' = virtual_trades \cup {row} /\ execution_orders' = execution_orders
    <3>1. TradesIn(i)' = TradesIn(i) \cup {row} /\ ExecutionsIn(i)' = ExecutionsIn(i)
      BY <1>0, <1>6, <2>1 DEF TradesIn, ExecutionsIn
    <3>2. RowTimes(i)' = RowTimes(i) \cup {time}
      BY <1>3, <1>4, <2>1, <3>1
    <3>3. ASSUME time \notin RowTimes(i) PROVE Rows(i)' = Rows(i) + 1
      <4>1. row \notin TradesIn(i)
        BY <1>4, <2>1, <3>3
      <4>2. Cardinality(TradesIn(i)') = Cardinality(TradesIn(i)) + 1
        BY <1>4, <3>1, <4>1, FS_AddElement
      <4> QED BY <2>0, <3>1, <4>2
    <3> QED BY <3>2, <3>3
  <2>2. CASE /\ row.created_at = time
             /\ execution_orders' = execution_orders \cup {row} /\ virtual_trades' = virtual_trades
    <3>1. ExecutionsIn(i)' = ExecutionsIn(i) \cup {row} /\ TradesIn(i)' = TradesIn(i)
      BY <1>0, <1>6, <2>2 DEF TradesIn, ExecutionsIn
    <3>2. RowTimes(i)' = RowTimes(i) \cup {time}
      BY <1>3, <1>4, <2>2, <3>1
    <3>3. ASSUME time \notin RowTimes(i) PROVE Rows(i)' = Rows(i) + 1
      <4>1. row \notin ExecutionsIn(i)
        BY <1>4, <2>2, <3>3
      <4>2. Cardinality(ExecutionsIn(i)') = Cardinality(ExecutionsIn(i)) + 1
        BY <1>4, <3>1, <4>1, FS_AddElement
      <4> QED BY <2>0, <3>1, <4>2
    <3> QED BY <3>2, <3>3
  <2> QED BY <1>1, <2>1, <2>2
<1> QED BY <1>5, <1>6

\* A commit of a cleared call keeps the times of its instrument apart.
LEMMA CommitKeepsCooldown ==
  ASSUME IInv, CooldownInv, NEW s \in Sessions, Commits(s)
  PROVE  CooldownRespected' /\ IsFiniteSet(virtual_trades') /\ IsFiniteSet(execution_orders')
<1>0. PICK o, b, i : o = session[s].order /\ b = session[s].begun /\ i = InstrumentOf[o]
  OBVIOUS
<1>1. /\ session[s].pc \in {"allowed", "posted"} /\ b \in Nat
      /\ \E row : RowIsAdded(row, o, b)
  BY <1>0, CommitStep DEF Commits, Simulate, SaveSandboxExecution, AtStep, Time
<1>2. \A r \in RowTimes(i) : b - r >= Cooldown - MaxCallTicks
  BY <1>0, <1>1 DEF CooldownInv, CallKeepsCooldown, Cleared, ItsInstrument
<1>3. IsFiniteSet(virtual_trades) /\ IsFiniteSet(execution_orders)
  BY DEF CooldownInv
<1>4. /\ \A j : j # InstrumentOf[o] => RowTimes(j)' = RowTimes(j) /\ Rows(j)' = Rows(j)
      /\ RowTimes(InstrumentOf[o])' = RowTimes(InstrumentOf[o]) \cup {b}
      /\ b \notin RowTimes(InstrumentOf[o]) => Rows(InstrumentOf[o])' = Rows(InstrumentOf[o]) + 1
  BY <1>1, <1>3, TimeAdded
<1>5. InstrumentOf[o] = i
  BY <1>0
<1>6. /\ RowTimes(i) \subseteq Nat /\ Cooldown \in Nat /\ MaxCallTicks \in Nat
      /\ IsFiniteSet(RowTimes(i)) /\ Cardinality(RowTimes(i)) \in Nat
  BY <1>3, RowTimesAreTimes, RowsCount, ExecutionAssumption
<1>7. IsFiniteSet(virtual_trades') /\ IsFiniteSet(execution_orders')
  BY <1>1, <1>3, RowAdded
<1>8. ASSUME NEW j \in Instruments
      PROVE  /\ Cooldown > MaxCallTicks => Rows(j)' = Cardinality(RowTimes(j)')
             /\ \A t, u \in RowTimes(j)' : t < u => u - t >= Cooldown - MaxCallTicks
  <2>0. /\ Cooldown > MaxCallTicks => Rows(j) = Cardinality(RowTimes(j))
        /\ \A t, u \in RowTimes(j) : t < u => u - t >= Cooldown - MaxCallTicks
    BY DEF CooldownInv, CooldownRespected
  <2>1. CASE j # i
    <3>1. RowTimes(j)' = RowTimes(j) /\ Rows(j)' = Rows(j)
      BY <1>4, <1>5, <2>1
    <3> QED BY <2>0, <3>1
  <2>2. CASE j = i
    <3>1. RowTimes(j)' = RowTimes(j) \cup {b}
      BY <1>4, <1>5, <2>2
    <3>2. ASSUME Cooldown > MaxCallTicks PROVE Rows(j)' = Cardinality(RowTimes(j)')
      <4>1. b \notin RowTimes(i)
        BY <1>1, <1>2, <1>6, <3>2
      <4>2. Rows(j)' = Rows(j) + 1
        BY <1>4, <1>5, <2>2, <4>1
      <4>3. Cardinality(RowTimes(i) \cup {b}) = Cardinality(RowTimes(i)) + 1
        BY <1>6, <4>1, FS_AddElement
      <4> QED BY <2>0, <2>2, <3>1, <3>2, <4>2, <4>3
    <3>3. \A t, u \in RowTimes(j)' : t < u => u - t >= Cooldown - MaxCallTicks
      <4> SUFFICES ASSUME NEW t \in RowTimes(j)', NEW u \in RowTimes(j)', t < u
                   PROVE  u - t >= Cooldown - MaxCallTicks
        OBVIOUS
      <4>1. (t \in RowTimes(i) \/ t = b) /\ (u \in RowTimes(i) \/ u = b)
        BY <2>2, <3>1
      <4> QED BY <1>1, <1>2, <1>6, <2>0, <2>2, <4>1
    <3> QED BY <3>2, <3>3
  <2> QED BY <2>1, <2>2
<1> QED BY <1>7, <1>8 DEF CooldownRespected

LEMMA CooldownStep ==
  ASSUME IInv, CooldownInv, Cardinality(Sessions) = 1, [Next]_vars
  PROVE  CooldownInv'
<1>t. /\ now \in Nat /\ MaxCallTicks \in Nat /\ Cooldown \in Nat
      /\ \A s \in Sessions : session[s].begun \in Nat
  BY ExecutionAssumption DEF IInv, TypeOK, SessionState, Time
<1>same. ASSUME UNCHANGED <<virtual_trades, execution_orders, session>>
         PROVE  /\ IsFiniteSet(virtual_trades') /\ IsFiniteSet(execution_orders')
                /\ CooldownRespected'
                /\ \A s \in Sessions : CallKeepsCooldown(s)'
  BY <1>same DEF CooldownInv, CooldownRespected, CallKeepsCooldown, Rows, RowTimes, ItsInstrument, Cleared
<1>1. ASSUME NEW s \in Sessions, SessionStep(s) PROVE CooldownInv'
  <2>1. \A x \in Sessions : x = s
    <3>1. PICK y : Sessions = {y}
      BY ExecutionAssumption, FS_Singleton
    <3> QED BY <3>1
  <2>2. now' = now
    BY <1>1, OthersStay
  <2>3. CASE Commits(s)
    <3>1. session'[s].pc \notin InCall
      BY <2>3, CommitStep
    <3>2. CallInTime(s)' /\ CallKeepsCooldown(s)'
      BY <3>1 DEF CallInTime, CallKeepsCooldown, Cleared, InCall
    <3> QED BY <2>1, <2>3, <3>2, CommitKeepsCooldown DEF CooldownInv
  <2>4. CASE ~Commits(s)
    <3>1. /\ UNCHANGED <<virtual_trades, execution_orders>>
          /\ \/ session'[s].pc \notin InCall
             \/ session'[s].pc = "loaded" /\ session'[s].begun = now
             \/ /\ session[s].pc \in InCall /\ session'[s].begun = session[s].begun
                /\ session'[s].order = session[s].order
                /\ Cleared(s)' => Cleared(s) \/ ~CooldownActive(ItsInstrument(s))
      BY <1>1, <2>4, ClearedStep
    <3>2. CallInTime(s) /\ CallKeepsCooldown(s)
      BY DEF CooldownInv
    <3>3. CallInTime(s)'
      BY <1>t, <2>2, <3>1, <3>2 DEF CallInTime, InCall
    <3>4. \A i : RowTimes(i)' = RowTimes(i) /\ Rows(i)' = Rows(i)
      BY <3>1 DEF RowTimes, Rows
    <3>5. CallKeepsCooldown(s)'
      <4>1. CASE session'[s].pc \notin InCall \/ session'[s].pc = "loaded"
        BY <4>1 DEF CallKeepsCooldown, Cleared, InCall
      <4>2. CASE /\ session[s].pc \in InCall /\ session'[s].begun = session[s].begun
                 /\ session'[s].order = session[s].order
                 /\ Cleared(s)' => Cleared(s) \/ ~CooldownActive(ItsInstrument(s))
        <5> SUFFICES ASSUME Cleared(s)', NEW r \in RowTimes(ItsInstrument(s))
                     PROVE  session[s].begun - r >= Cooldown - MaxCallTicks
          <6>1. ItsInstrument(s)' = ItsInstrument(s)
            BY <4>2 DEF ItsInstrument
          <6>2. RowTimes(ItsInstrument(s))' = RowTimes(ItsInstrument(s))
            BY <3>1, <6>1 DEF RowTimes
          <6> QED BY <4>2, <6>2 DEF CallKeepsCooldown
        <5>1. CASE Cleared(s)
          BY <3>2, <5>1 DEF CallKeepsCooldown
        <5>2. CASE ~CooldownActive(ItsInstrument(s))
          <6>1. now - r >= Cooldown
            BY <5>2, CooldownOver
          <6>2. r \in Nat
            BY RowTimesAreTimes
          <6>3. session[s].begun <= now /\ now - session[s].begun <= MaxCallTicks
            BY <3>2, <4>2 DEF CallInTime
          <6> QED BY <1>t, <6>1, <6>2, <6>3
        <5> QED BY <4>2, <5>1, <5>2
      <4> QED BY <3>1, <4>1, <4>2
    <3>6. CooldownRespected'
      BY <3>4 DEF CooldownInv, CooldownRespected
    <3> QED BY <2>1, <3>1, <3>3, <3>5, <3>6 DEF CooldownInv
  <2> QED BY <2>3, <2>4
<1>2. CASE Tick
  <2>0. now' = now + 1 /\ session' = session
    BY <1>2 DEF Tick
  <2>1. ASSUME NEW s \in Sessions PROVE CallInTime(s)'
    <3>1. session[s].pc \in InCall => session[s].begun <= now /\ now - session[s].begun < MaxCallTicks
      BY <1>2 DEF Tick, CooldownInv, CallInTime
    <3>2. session[s].pc \in InCall =>
            session[s].begun <= now + 1 /\ now + 1 - session[s].begun <= MaxCallTicks
      BY <1>t, <3>1
    <3>3. session'[s].pc \in InCall =>
            session'[s].begun <= now' /\ now' - session'[s].begun <= MaxCallTicks
      BY <1>t, <2>0, <3>2
    <3> QED BY <3>3 DEF CallInTime, InCall
  <2>2. UNCHANGED <<virtual_trades, execution_orders, session>>
    BY <1>2 DEF Tick, UnchangedRows
  <2> QED BY <1>same, <2>1, <2>2 DEF CooldownInv
<1>3. ASSUME UNCHANGED <<virtual_trades, execution_orders, session, now>> PROVE CooldownInv'
  <2>1. \A s \in Sessions : CallInTime(s)'
    BY <1>3 DEF CooldownInv, CallInTime
  <2> QED BY <1>same, <1>3, <2>1 DEF CooldownInv
<1>4. ASSUME NEW settings, UpdateSystemSettings(settings)
      PROVE  UNCHANGED <<virtual_trades, execution_orders, session, now>>
  BY <1>4 DEF UpdateSystemSettings, UnchangedRows
<1> QED BY <1>1, <1>2, <1>3, <1>4 DEF Next, vars

\* Calls made one after the other, failing ones too, keep the trades of an instrument
\* Cooldown apart, less the length of one call (latest_trade_time is read after the
\* transaction has begun that dates the row).
THEOREM CooldownKept ==
  ASSUME Cardinality(Sessions) = 1 PROVE Spec => []CooldownRespected
<1>1. Init => CooldownInv
  <2> SUFFICES ASSUME Init PROVE CooldownInv
    OBVIOUS
  <2>1. virtual_trades = {} /\ execution_orders = {} /\ \A s \in Sessions : session[s].pc = "idle"
    BY DEF Init, IdleSession
  <2>2. IsFiniteSet({}) /\ Cardinality({}) = 0
    BY FS_EmptySet
  <2>3. ASSUME NEW i PROVE RowTimes(i) = {} /\ Rows(i) = 0
    <3>1. TradesIn(i) = {} /\ ExecutionsIn(i) = {}
      BY <2>1 DEF TradesIn, ExecutionsIn
    <3>2. /\ Rows(i) = Cardinality(TradesIn(i)) + Cardinality(ExecutionsIn(i))
          /\ RowTimes(i) = {t.executed_at : t \in TradesIn(i)}
                             \cup {e.created_at : e \in ExecutionsIn(i)}
      BY <2>1, <2>2, RowsCount
    <3> QED BY <2>2, <3>1, <3>2
  <2>4. CooldownRespected
    BY <2>2, <2>3 DEF CooldownRespected
  <2> QED BY <2>1, <2>2, <2>4 DEF CooldownInv, CallInTime, CallKeepsCooldown, Cleared, InCall
<1>2. IInv /\ CooldownInv /\ [Next]_vars => CooldownInv'
  BY CooldownStep
<1>3. CooldownInv => CooldownRespected
  BY DEF CooldownInv
<1> QED BY <1>1, <1>2, <1>3, Inductive, PTL DEF Spec

----------------------------------------------------------------------------
(* A refusal is final                                                       *)

\* The session neither executes the order nor is about to.
Leaves(s, o) ==
  /\ session[s].pc \in InCall => session[s].order # o
  /\ session[s].held[o] # "PLANNED"

\* A step of a session that leaves a refused order alone keeps doing so.
LEMMA RefusalSession ==
  ASSUME IInv, NEW s \in Sessions, SessionStep(s), NEW o \in Orders,
         planned_orders[o].status = "RISK_REJECTED", Leaves(s, o)
  PROVE  Leaves(s, o)' /\ planned_orders'[o].status = "RISK_REJECTED"
<1>t. /\ session \in [Sessions -> SessionState] /\ session[s] \in SessionState
      /\ planned_orders \in [Orders -> PlannedOrder] /\ SessionConsistent(s)
  BY DEF IInv, TypeOK
<1>h. session[s].held \in [Orders -> PlannedOrderStatus \cup {"ABSENT"}]
  BY <1>t DEF SessionState
<1>idle. ASSUME session'[s] = IdleSession PROVE Leaves(s, o)'
  <2>1. session'[s].pc = "idle" /\ session'[s].held[o] = "ABSENT"
    BY <1>idle DEF IdleSession
  <2> QED BY <2>1 DEF Leaves, InCall
<1>set. ASSUME NEW status, SetStatus(session[s].order, status), session[s].order # o
        PROVE  planned_orders'[o] = planned_orders[o]
  BY <1>t, <1>set DEF SetStatus
<1>1. CASE EndCycle(s) \/ IntegrityError(s) \/ Fail(s)
           \/ \E x \in Orders : HeldOrderConflict(s, x)
  <2>1. session'[s] = IdleSession /\ planned_orders' = planned_orders
    BY <1>t, <1>1 DEF EndCycle, IntegrityError, Fail, HeldOrderConflict, CloseSession, UnchangedRows
  <2> QED BY <1>idle, <2>1
<1>2. CASE Reject(s)
  <2>1. session'[s] = IdleSession /\ SetStatus(session[s].order, "RISK_REJECTED")
    BY <1>t, <1>2 DEF Reject, CloseSession
  <2>2. session[s].order # o
    BY <1>2 DEF Reject, AtStep, InCall, Leaves
  <2> QED BY <1>idle, <1>set, <2>1, <2>2
<1>3. CASE SetConfirmationStatus(s)
  <2>1. session'[s] = IdleSession
    BY <1>t, <1>3 DEF SetConfirmationStatus, CloseSession
  <2>2. session[s].order # o
    BY <1>t, <1>3 DEF SetConfirmationStatus, ManualStatus, SessionConsistent
  <2> QED BY <1>idle, <1>set, <1>3, <2>1, <2>2 DEF SetConfirmationStatus
<1>4. CASE Commits(s)
  <2>1. session[s].order # o
    BY <1>4 DEF Commits, Simulate, SaveSandboxExecution, AtStep, InCall, Leaves
  <2>2. planned_orders'[o] = planned_orders[o]
    BY <1>set, <1>4, <2>1 DEF Commits, Simulate, SaveSandboxExecution
  <2>3. ReturnFromCall(s)
    BY <1>4 DEF Commits, Simulate, SaveSandboxExecution
  <2>4. CASE s \notin CycleSessions
    <3>1. session'[s] = IdleSession
      BY <1>t, <2>3, <2>4 DEF ReturnFromCall
    <3> QED BY <1>idle, <2>2, <3>1
  <2>5. CASE s \in CycleSessions
    <3>1. /\ session'[s].pc = "looping"
          /\ session'[s].held = [session[s].held EXCEPT ![session[s].order] = "ABSENT"]
      BY <1>t, <2>3, <2>5 DEF ReturnFromCall, IdleSession
    <3>2. session'[s].held[o] = session[s].held[o]
      BY <1>h, <2>1, <3>1
    <3> QED BY <2>2, <3>1, <3>2 DEF Leaves, InCall
  <2> QED BY <2>4, <2>5
<1>5. ASSUME NEW p \in Plans, BeginPlan(s, p)
      PROVE  Leaves(s, o)' /\ planned_orders'[o] = planned_orders[o]
  <2>1. session'[s].pc = "planning" /\ session'[s].held[o] = "ABSENT"
    BY <1>t, <1>5 DEF BeginPlan, IdleSession
  <2> QED BY <1>5, <2>1 DEF Leaves, InCall, BeginPlan, UnchangedRows
<1>6. CASE SaveOrders(s)
  <2> DEFINE mode == session[s].settings.trade_mode
             planned == [x \in Orders |->
               IF PlanOf[x] = session[s].plan /\ planned_orders[x].status = "ABSENT"
                 THEN [status |-> initial_order_status(mode), trade_mode |-> mode]
                 ELSE planned_orders[x]]
             held == [x \in Orders |->
               IF PlanOf[x] = session[s].plan THEN planned[x].status ELSE "ABSENT"]
  <2>1. planned_orders' = planned
    BY <1>6 DEF SaveOrders
  <2>2. planned[o] = planned_orders[o] /\ held[o] # "PLANNED"
    OBVIOUS
  <2>3. \/ session'[s] = IdleSession
        \/ session'[s].pc = "looping" /\ session'[s].held = held
    BY <1>t, <1>6 DEF SaveOrders, IdleSession
  <2> HIDE DEF planned, held
  <2>4. ASSUME session'[s].pc = "looping", session'[s].held = held PROVE Leaves(s, o)'
    BY <2>2, <2>4 DEF Leaves, InCall
  <2> QED BY <1>idle, <2>1, <2>2, <2>3, <2>4
<1>7. ASSUME NEW x \in Orders, SkipExecutedOrder(s, x)
      PROVE  Leaves(s, o)' /\ planned_orders'[o] = planned_orders[o]
  <2>1. /\ session'[s].pc = "looping" /\ planned_orders' = planned_orders
        /\ session'[s].held = [session[s].held EXCEPT ![x] = "ABSENT"]
    BY <1>t, <1>7 DEF SkipExecutedOrder, AtStep, SessionState, UnchangedRows
  <2>2. session'[s].held[o] \in {"ABSENT", session[s].held[o]}
    BY <1>h, <2>1
  <2> QED BY <2>1, <2>2 DEF Leaves, InCall
<1>8. ASSUME NEW x \in Orders, NEW required \in ExecutableModes, Load(s, x, required), x # o
      PROVE  Leaves(s, o)' /\ planned_orders'[o] = planned_orders[o]
  <2>1. /\ session'[s].order = x /\ session'[s].held = session[s].held
        /\ planned_orders' = planned_orders
    BY <1>t, <1>8 DEF Load, SessionState, UnchangedRows
  <2> QED BY <1>8, <2>1 DEF Leaves
<1>8a. ASSUME NEW x \in Orders, NEW required \in ExecutableModes, GetOrder(s, x, required)
       PROVE  Leaves(s, o)' /\ planned_orders'[o] = planned_orders[o]
  <2>1. x # o
    BY <1>8a DEF GetOrder
  <2> QED BY <1>8, <1>8a, <2>1 DEF GetOrder
<1>9. ASSUME NEW x \in Orders, GetHeldOrder(s, x)
      PROVE  Leaves(s, o)' /\ planned_orders'[o] = planned_orders[o]
  <2>1. x # o
    BY <1>9 DEF GetHeldOrder, Leaves
  <2> QED BY <1>t, <1>8, <1>9, <2>1 DEF GetHeldOrder, SessionState
<1>going. ASSUME session[s].pc \in InCall, session'[s].order = session[s].order,
                 session'[s].held = session[s].held, planned_orders' = planned_orders
          PROVE  Leaves(s, o)' /\ planned_orders'[o].status = "RISK_REJECTED"
  BY <1>going DEF Leaves
<1>10. CASE ReadSettings(s)
  <2>1. session[s].pc \in InCall /\ planned_orders' = planned_orders
    BY <1>10 DEF ReadSettings, AtStep, InCall, UnchangedRows
  <2>2. session'[s].order = session[s].order /\ session'[s].held = session[s].held
    BY <1>t, <1>10 DEF ReadSettings, SessionState
  <2> QED BY <1>going, <2>1, <2>2
<1>10a. CASE Evaluate(s)
  <2>1. session[s].pc \in InCall /\ planned_orders' = planned_orders
    BY <1>10a DEF Evaluate, AtStep, InCall, UnchangedRows
  <2>2. session'[s].order = session[s].order /\ session'[s].held = session[s].held
    BY <1>t, <1>10a DEF Evaluate, SessionState
  <2> QED BY <1>going, <2>1, <2>2
<1>10b. CASE post_sandbox_order(s)
  <2>1. session[s].pc \in InCall /\ planned_orders' = planned_orders
    BY <1>10b DEF post_sandbox_order, AtStep, InCall
  <2>2. session'[s].order = session[s].order /\ session'[s].held = session[s].held
    BY <1>t, <1>10b DEF post_sandbox_order, SessionState
  <2> QED BY <1>going, <2>1, <2>2
<1>11. CASE ReadLatestTrade(s)
  <2> DEFINE active == CooldownActive(InstrumentOf[session[s].order])
  <2>1. session' = [session EXCEPT ![s] =
          [@ EXCEPT !.pc = "dated", !.read_at = now, !.cooldown_active = active]]
    BY <1>11 DEF ReadLatestTrade
  <2>2. session[s].pc \in InCall /\ planned_orders' = planned_orders
    BY <1>11 DEF ReadLatestTrade, AtStep, InCall, UnchangedRows
  <2> HIDE DEF active
  <2>3. session'[s].order = session[s].order /\ session'[s].held = session[s].held
    BY <1>t, <2>1 DEF SessionState
  <2> QED BY <1>going, <2>2, <2>3
<1>12. CASE CountTrades(s)
  <2> DEFINE reached == count_trades_since(midnight(session[s].read_at)) >= MaxDailyTrades
  <2>1. session' = [session EXCEPT ![s] = [@ EXCEPT !.pc = "counted", !.limit_reached = reached]]
    BY <1>12 DEF CountTrades
  <2>2. session[s].pc \in InCall /\ planned_orders' = planned_orders
    BY <1>12 DEF CountTrades, AtStep, InCall, UnchangedRows
  <2> HIDE DEF reached
  <2>3. session'[s].order = session[s].order /\ session'[s].held = session[s].held
    BY <1>t, <2>1 DEF SessionState
  <2> QED BY <1>going, <2>2, <2>3
<1>13. ASSUME NEW x \in Orders, NEW pc \in {"approving", "rejecting"}, GetManualOrder(s, x, pc)
       PROVE  Leaves(s, o)' /\ planned_orders'[o] = planned_orders[o]
  <2>1. /\ session'[s].pc = pc /\ session'[s].held = session[s].held
        /\ planned_orders' = planned_orders
    BY <1>t, <1>13 DEF GetManualOrder, SessionState, UnchangedRows
  <2> QED BY <2>1 DEF Leaves, InCall
<1> QED
  BY <1>1, <1>2, <1>3, <1>4, <1>5, <1>6, <1>7, <1>8a, <1>9, <1>10, <1>10a, <1>10b,
     <1>11, <1>12, <1>13 DEF SessionStep, Commits

LEMMA RefusalStep ==
  ASSUME IInv, [Next]_vars, NEW o \in Orders,
         planned_orders[o].status = "RISK_REJECTED", Quiet(o)
  PROVE  planned_orders'[o].status = "RISK_REJECTED" /\ Quiet(o)'
<1>1. ASSUME NEW s \in Sessions, SessionStep(s)
      PROVE  planned_orders'[o].status = "RISK_REJECTED" /\ Quiet(o)'
  <2>1. \A x \in Sessions : Leaves(x, o)
    BY DEF Quiet, Leaves
  <2>2. Leaves(s, o)' /\ planned_orders'[o].status = "RISK_REJECTED"
    BY <1>1, <2>1, RefusalSession
  <2>3. ASSUME NEW x \in Sessions \ {s} PROVE Leaves(x, o)'
    <3>1. session'[x] = session[x]
      BY <1>1, OthersStay
    <3> QED BY <2>1, <3>1 DEF Leaves
  <2>4. \A x \in Sessions : Leaves(x, o)'
    BY <2>2, <2>3
  <2> QED BY <2>2, <2>4 DEF Quiet, Leaves
<1>2. ASSUME UNCHANGED <<planned_orders, session>>
      PROVE  planned_orders'[o].status = "RISK_REJECTED" /\ Quiet(o)'
  BY <1>2 DEF Quiet
<1>3. CASE Tick
  BY <1>2, <1>3 DEF Tick, UnchangedRows
<1>4. ASSUME NEW settings, UpdateSystemSettings(settings)
      PROVE  UNCHANGED <<planned_orders, session>>
  BY <1>4 DEF UpdateSystemSettings, UnchangedRows
<1> QED BY <1>1, <1>2, <1>3, <1>4 DEF Next, vars

\* However many sessions overlap and fail: once no call works on a refused order and no
\* cycle holds it as PLANNED, it stays refused and no call takes it up again
\* (execute, execute_sandbox, save_orders, repository.reject).
THEOREM RefusedForGood == Spec => RefusalIsFinal
<1>1. IInv /\ [Next]_vars
        => [\A o \in Orders :
              planned_orders[o].status = "RISK_REJECTED" /\ Quiet(o)
                => planned_orders'[o].status = "RISK_REJECTED" /\ Quiet(o)']_vars
  BY RefusalStep
<1> QED BY <1>1, Inductive, PTL DEF Spec, RefusalIsFinal
=============================================================================
