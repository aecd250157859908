-------------------------- MODULE ExecutionProofs --------------------------
(***************************************************************************)
(* Proofs about Execution: its safety invariants, for every set of orders, *)
(* sessions and modes, and its refinement of OrderLedger.                  *)
(***************************************************************************)
EXTENDS Execution, TLAPS

ManualStatus == {"WAITING_CONFIRMATION", "APPROVED", "REJECTED"}
ExecutionStatus == {"PLANNED", "RISK_REJECTED", "SIMULATED", "SUBMITTED"}

\* An inserted order is either a manual one or one to execute, by mode and by
\* status alike, and its rows and posts are those of its mode.
OrderConsistent(o) ==
  LET status == planned_orders[o].status
      mode == planned_orders[o].trade_mode
  IN /\ \/ status = "ABSENT" /\ mode = "OFF"
        \/ status \in ExecutionStatus /\ mode \in ExecutableModes
        \/ status \in ManualStatus /\ mode = "REAL_MANUAL_CONFIRM"
     /\ status = "SIMULATED" => Traded(o)
     /\ status = "SUBMITTED" => Executed(o)
     /\ Traded(o) => mode = "DRY_RUN" /\ status \in {"SIMULATED", "RISK_REJECTED"}
     /\ Executed(o) => mode = "SANDBOX" /\ status \in {"SUBMITTED", "RISK_REJECTED"}
     /\ posts[o] > 0 => mode = "SANDBOX" /\ status # "ABSENT"

UniqueRows ==
  /\ \A t, u \in virtual_trades : t.planned_order = u.planned_order => t = u
  /\ \A e, f \in execution_orders : e.planned_order = f.planned_order => e = f

\* What a session may rely on although it read it earlier.
SessionConsistent(s) ==
  LET pc == session[s].pc
      order == session[s].order
  IN /\ pc = "planning" => session[s].settings.trade_mode \in PlannableModes
     /\ \A o \in Orders :
          session[s].held[o] = "PLANNED" => planned_orders[o].status \in ExecutionStatus
     /\ pc \in InCall => order \in Orders /\ planned_orders[order].status \in ExecutionStatus
     /\ pc \in {"allowed", "posted"} => planned_orders[order].trade_mode = session[s].required
     /\ pc = "posted" => session[s].required = "SANDBOX"
     /\ pc \in {"approving", "rejecting"} =>
          order \in Orders /\ planned_orders[order].status \in ManualStatus

\* A barred request is in its call, the stored settings still do not permit
\* it, and neither do the settings it has read.
BarredConsistent(s) ==
  /\ session[s].pc \in {"loaded", "authorised", "dated", "counted", "refused"}
  /\ ~Permits(system_settings, session[s].required)
  /\ session[s].pc \in {"authorised", "dated", "counted"} =>
       ~Permits(session[s].settings, session[s].required)

IInv ==
  /\ TypeOK
  /\ \A o \in Orders : OrderConsistent(o)
  /\ UniqueRows
  /\ \A s \in Sessions : SessionConsistent(s)
  /\ \A s \in barred \ CycleSessions : BarredConsistent(s)

----------------------------------------------------------------------------
(* Type correctness                                                         *)

LEMMA IdleTyped == IdleSession \in SessionState
  BY ExecutionAssumption
     DEF IdleSession, SessionState, SeedSettings, SystemSettings, TradeModes, Steps,
         ExecutableModes, Time

LEMMA TypeInit == Init => TypeOK
  BY IdleTyped, ExecutionAssumption
     DEF Init, TypeOK, SeedSettings, SystemSettings, PlannedOrder, TradeModes, Time

\* A step that changes one session's record and no table keeps the types.
LEMMA SessionTyped ==
  ASSUME TypeOK, NEW s \in Sessions, NEW r \in SessionState,
         session' = [session EXCEPT ![s] = r],
         barred' \subseteq barred \cup {s},
         UNCHANGED <<system_settings, now>>, UnchangedRows
  PROVE  TypeOK'
  BY DEF TypeOK, UnchangedRows

\* The same for a step that also sets the status of an order.
LEMMA StatusTyped ==
  ASSUME TypeOK, NEW s \in Sessions, NEW r \in SessionState,
         session' = [session EXCEPT ![s] = r],
         barred' \subseteq barred \cup {s},
         NEW o \in Orders, NEW status \in PlannedOrderStatus, SetStatus(o, status),
         virtual_trades' \subseteq VirtualTrade, execution_orders' \subseteq ExecutionOrder,
         UNCHANGED <<system_settings, posts, lost, now>>
  PROVE  TypeOK'
<1>1. [planned_orders[o] EXCEPT !.status = status] \in PlannedOrder
  BY DEF TypeOK, PlannedOrder
<1> QED BY <1>1 DEF TypeOK, SetStatus

\* What is inserted is a row of the session's order, dated by the start of its
\* transaction.
LEMMA NewRows ==
  ASSUME TypeOK, NEW s \in Sessions, session[s].order \in Orders
  PROVE  /\ NewVirtualTrade(s) \in VirtualTrade
         /\ NewVirtualTrade(s).planned_order = session[s].order
         /\ NewVirtualTrade(s).executed_at = session[s].begun
         /\ NewExecutionOrder(s) \in ExecutionOrder
         /\ NewExecutionOrder(s).planned_order = session[s].order
         /\ NewExecutionOrder(s).created_at = session[s].begun
<1>1. session[s].begun \in Time
  BY DEF TypeOK, SessionState
<1> QED BY <1>1 DEF NewVirtualTrade, NewExecutionOrder, VirtualTrade, ExecutionOrder

LEMMA ReturnTyped ==
  ASSUME TypeOK, NEW s \in Sessions, ReturnFromCall(s)
  PROVE  \E r \in SessionState : session' = [session EXCEPT ![s] = r]
<1>1. session[s].settings \in SystemSettings /\ session[s].required \in ExecutableModes
      /\ [session[s].held EXCEPT ![session[s].order] = "ABSENT"]
           \in [Orders -> PlannedOrderStatus \cup {"ABSENT"}]
  BY DEF TypeOK, SessionState
<1>2. [IdleSession EXCEPT !.pc = "looping", !.settings = session[s].settings,
        !.required = session[s].required,
        !.held = [session[s].held EXCEPT ![session[s].order] = "ABSENT"]] \in SessionState
  BY <1>1, IdleTyped DEF SessionState, Steps
<1> QED BY <1>2, IdleTyped DEF ReturnFromCall

LEMMA TypeStep == IInv /\ [Next]_vars => TypeOK'
<1> SUFFICES ASSUME IInv, [Next]_vars PROVE TypeOK'
  OBVIOUS
<1>0. TypeOK
  BY DEF IInv
<1> USE <1>0, ExecutionAssumption
<1>1. CASE UNCHANGED vars
  BY <1>1 DEF vars, TypeOK
<1>2. ASSUME NEW s \in Sessions, SessionStep(s) PROVE TypeOK'
  <2> USE IdleTyped
  <2>s. session[s] \in SessionState /\ system_settings \in SystemSettings /\ now \in Time
    BY DEF TypeOK
  <2>i. session[s].pc \in InCall \cup {"approving", "rejecting"} => session[s].order \in Orders
    BY DEF IInv, SessionConsistent
  <2>1. ASSUME NEW p \in Plans, BeginPlan(s, p) PROVE TypeOK'
    <3> DEFINE r == [IdleSession EXCEPT !.pc = "planning", !.plan = p,
                                        !.settings = system_settings]
    <3>1. r \in SessionState
      BY <2>s DEF SessionState, Steps
    <3> QED BY <2>1, <3>1, SessionTyped DEF BeginPlan
  <2>2. CASE SaveOrders(s)
    BY <2>2 DEF SaveOrders, SessionState, IdleSession, Steps, PlannedOrder, TypeOK,
         SystemSettings, initial_order_status, PlannedOrderStatus, AtStep
  <2>3. ASSUME NEW o \in Orders, NEW required \in ExecutableModes, Load(s, o, required)
        PROVE TypeOK'
    <3> DEFINE r == [session[s] EXCEPT !.pc = "loaded", !.order = o,
                                       !.required = required, !.begun = now]
    <3>1. r \in SessionState
      BY <2>s DEF SessionState, Steps
    <3>2. barred' \subseteq barred \cup {s} /\ session' = [session EXCEPT ![s] = r]
      BY <2>3 DEF Load
    <3> QED BY <2>3, <3>1, <3>2, SessionTyped DEF Load
  <2>4. ASSUME NEW o \in Orders, GetHeldOrder(s, o) PROVE TypeOK'
    BY <2>3, <2>4, <2>s DEF GetHeldOrder, SessionState
  <2>5. ASSUME NEW o \in Orders, SkipExecutedOrder(s, o) PROVE TypeOK'
    BY <2>5 DEF SkipExecutedOrder, UnchangedRows, SessionState, TypeOK
  <2>6. ASSUME CloseSession(s), UNCHANGED <<system_settings, now>>, UnchangedRows PROVE TypeOK'
    BY <2>6, SessionTyped DEF CloseSession
  <2>7. CASE ReadSettings(s)
    <3> DEFINE r == [session[s] EXCEPT !.pc = "authorised",
                       !.settings = get_settings(s)]
    <3>1. r \in SessionState
      BY <2>s DEF SessionState, Steps, get_settings
    <3> QED BY <2>7, <3>1, SessionTyped DEF ReadSettings
  <2>8. CASE ReadLatestTrade(s)
    <3> DEFINE active == CooldownActive(InstrumentOf[session[s].order])
               r == [session[s] EXCEPT !.pc = "dated", !.read_at = now,
                                       !.cooldown_active = active]
    <3>1. active \in BOOLEAN
      BY DEF CooldownActive
    <3>2. r \in SessionState
      <4> HIDE DEF active
      <4> QED BY <2>s, <3>1 DEF SessionState, Steps
    <3> QED BY <2>8, <3>2, SessionTyped DEF ReadLatestTrade
  <2>9. CASE CountTrades(s)
    <3> DEFINE reached == count_trades_since(midnight(session[s].read_at)) >= MaxDailyTrades
               r == [session[s] EXCEPT !.pc = "counted", !.limit_reached = reached]
    <3>1. reached \in BOOLEAN
      OBVIOUS
    <3>2. r \in SessionState
      <4> HIDE DEF reached
      <4> QED BY <2>s, <3>1 DEF SessionState, Steps
    <3> QED BY <2>9, <3>2, SessionTyped DEF CountTrades
  <2>10. CASE Evaluate(s)
    <3>1. PICK pc \in {"allowed", "refused"} : session' = [session EXCEPT ![s] =
            [@ EXCEPT !.pc = pc, !.read_at = 0, !.cooldown_active = FALSE, !.limit_reached = FALSE,
                      !.settings = KeptSettings(s)]]
      BY <2>10 DEF Evaluate
    <3> DEFINE r == [session[s] EXCEPT !.pc = pc, !.read_at = 0, !.cooldown_active = FALSE,
                       !.limit_reached = FALSE,
                       !.settings = KeptSettings(s)]
    <3>2. KeptSettings(s) \in SystemSettings /\ 0 \in Time
      <4>1. SeedSettings \in SystemSettings /\ 0 \in Time
        BY DEF SeedSettings, SystemSettings, TradeModes, Time
      <4>2. session[s].settings \in SystemSettings
        BY <2>s DEF SessionState
      <4> QED BY <4>1, <4>2 DEF KeptSettings
    <3>3. r \in SessionState
      BY <2>s, <3>2 DEF SessionState, Steps
    <3> QED BY <2>10, <3>1, <3>3, SessionTyped DEF Evaluate
  <2>11. CASE Reject(s)
    BY <2>11, <2>i, StatusTyped DEF Reject, AtStep, InCall, CloseSession, PlannedOrderStatus, TypeOK
  <2>12. CASE Simulate(s)
    <3>1. PICK r \in SessionState : session' = [session EXCEPT ![s] = r]
      BY <2>12, ReturnTyped DEF Simulate
    <3>2. virtual_trades' \subseteq VirtualTrade
      BY <2>12, <2>i, NewRows DEF Simulate, TypeOK, AtStep, InCall
    <3>3. barred' \subseteq barred
      BY <2>12 DEF Simulate, ReturnFromCall
    <3> QED BY <2>12, <2>i, <3>1, <3>2, <3>3, StatusTyped
            DEF Simulate, AtStep, InCall, PlannedOrderStatus, TypeOK
  <2>13. CASE post_sandbox_order(s)
    <3> DEFINE r == [session[s] EXCEPT !.pc = "posted"]
    <3>1. r \in SessionState
      BY <2>s DEF SessionState, Steps
    <3> QED BY <2>13, <2>i, <3>1 DEF post_sandbox_order, TypeOK, AtStep, InCall
  <2>14. CASE SaveSandboxExecution(s)
    <3>1. PICK r \in SessionState : session' = [session EXCEPT ![s] = r]
      BY <2>14, ReturnTyped DEF SaveSandboxExecution
    <3>2. execution_orders' \subseteq ExecutionOrder
      BY <2>14, <2>i, NewRows DEF SaveSandboxExecution, TypeOK, AtStep, InCall
    <3>3. barred' \subseteq barred
      BY <2>14 DEF SaveSandboxExecution, ReturnFromCall
    <3> QED BY <2>14, <2>i, <3>1, <3>2, <3>3, StatusTyped
            DEF SaveSandboxExecution, AtStep, InCall, PlannedOrderStatus, TypeOK
  <2>15. ASSUME NEW o \in Orders, NEW pc \in {"approving", "rejecting"}, GetManualOrder(s, o, pc)
         PROVE TypeOK'
    <3> DEFINE r == [session[s] EXCEPT !.pc = pc, !.order = o]
    <3>1. r \in SessionState
      BY <2>s DEF SessionState, Steps
    <3> QED BY <2>15, <3>1, SessionTyped DEF GetManualOrder
  <2>16. CASE SetConfirmationStatus(s)
    <3>1. \E status \in PlannedOrderStatus : SetStatus(session[s].order, status)
      BY <2>16 DEF SetConfirmationStatus, PlannedOrderStatus
    <3> QED BY <2>16, <2>i, <3>1, StatusTyped DEF SetConfirmationStatus, CloseSession, TypeOK
  <2>17. CASE Fail(s)
    <3>1. lost' \in [Orders -> Nat]
      BY <2>17, <2>i DEF Fail, AtStep, InCall, TypeOK
    <3>2. session' \in [Sessions -> SessionState] /\ barred' \subseteq Sessions
      BY <2>17 DEF Fail, CloseSession, TypeOK
    <3> QED BY <2>17, <3>1, <3>2 DEF Fail, TypeOK
  <2> QED
    BY <1>2, <2>1, <2>2, <2>3, <2>4, <2>5, <2>6, <2>7, <2>8, <2>9, <2>10, <2>11, <2>12,
       <2>13, <2>14, <2>15, <2>16, <2>17
       DEF SessionStep, GetOrder, HeldOrderConflict, EndCycle, IntegrityError
<1>3. ASSUME NEW kill_switch \in BOOLEAN, NEW trade_mode \in Modes,
             UpdateSystemSettings([kill_switch |-> kill_switch, trade_mode |-> trade_mode])
      PROVE TypeOK'
  BY <1>3 DEF UpdateSystemSettings, UnchangedRows, SystemSettings, TypeOK
<1>4. CASE Tick
  BY <1>4 DEF Tick, UnchangedRows, Time, TypeOK, VirtualTrade, ExecutionOrder
<1> QED BY <1>1, <1>2, <1>3, <1>4 DEF Next

----------------------------------------------------------------------------
(* The inductive invariant                                                  *)

\* No step takes an order from one side, manual or to execute, to the other.
StatusesKept ==
  \A o \in Orders :
    /\ planned_orders[o].status \in ExecutionStatus => planned_orders'[o].status \in ExecutionStatus
    /\ planned_orders[o].status \in ManualStatus => planned_orders'[o].status \in ManualStatus
    /\ planned_orders[o].status # "ABSENT" =>
         planned_orders'[o].trade_mode = planned_orders[o].trade_mode

LEMMA RowsKept ==
  ASSUME IInv, UNCHANGED <<planned_orders, virtual_trades, execution_orders, posts>>
  PROVE  /\ StatusesKept
         /\ \A o \in Orders : OrderConsistent(o)'
         /\ UniqueRows'
  BY DEF IInv, StatusesKept, OrderConsistent, UniqueRows, Traded, Executed

\* A step of one session keeps the invariant if it does so for its orders, its
\* session and its own place in barred.
LEMMA OneSession ==
  ASSUME IInv, TypeOK', NEW s \in Sessions,
         \A x \in Sessions \ {s} : session'[x] = session[x],
         barred' \subseteq barred \cup {s}, system_settings' = system_settings,
         StatusesKept, \A o \in Orders : OrderConsistent(o)', UniqueRows',
         SessionConsistent(s)', s \in barred' \ CycleSessions => BarredConsistent(s)'
  PROVE  IInv'
<1>1. ASSUME NEW x \in Sessions \ {s} PROVE SessionConsistent(x)'
  <2>1. SessionConsistent(x) /\ session'[x] = session[x]
    BY DEF IInv
  <2> QED
    BY <2>1 DEF SessionConsistent, StatusesKept, ExecutionStatus, ManualStatus, InCall
<1>2. ASSUME NEW x \in (barred' \ CycleSessions) \ {s} PROVE BarredConsistent(x)'
  <2>1. x \in Sessions /\ BarredConsistent(x) /\ session'[x] = session[x]
    BY DEF IInv, TypeOK
  <2> QED BY <2>1 DEF BarredConsistent, Permits
<1> QED BY <1>1, <1>2 DEF IInv

LEMMA InitConsistent == Init => IInv
<1> SUFFICES ASSUME Init PROVE IInv
  OBVIOUS
<1>1. TypeOK
  BY TypeInit
<1>2. ASSUME NEW o \in Orders PROVE OrderConsistent(o)
  BY DEF Init, OrderConsistent, Traded, Executed
<1>3. ASSUME NEW s \in Sessions PROVE SessionConsistent(s)
  BY DEF Init, SessionConsistent, IdleSession, InCall
<1>4. UniqueRows /\ barred = {}
  BY DEF Init, UniqueRows
<1> QED BY <1>1, <1>2, <1>3, <1>4 DEF IInv

LEMMA SessionStepConsistent ==
  ASSUME IInv, TypeOK', NEW s \in Sessions, SessionStep(s)
  PROVE  IInv'
<1>t. /\ TypeOK
      /\ SessionConsistent(s)
      /\ s \in barred \ CycleSessions => BarredConsistent(s)
      /\ s \in DOMAIN session
      /\ session[s] \in SessionState /\ system_settings \in SystemSettings /\ now \in Time
  BY DEF IInv, TypeOK
<1>c. ASSUME CloseSession(s)
      PROVE  /\ \A x \in Sessions \ {s} : session'[x] = session[x]
             /\ barred' \subseteq barred \cup {s}
             /\ s \notin barred'
             /\ SessionConsistent(s)'
  <2>1. session'[s] = IdleSession
    BY <1>c, <1>t DEF CloseSession
  <2>2. SessionConsistent(s)'
    BY <2>1 DEF SessionConsistent, IdleSession, InCall
  <2> QED BY <1>c, <1>t, <2>2 DEF CloseSession, TypeOK
<1>close. ASSUME CloseSession(s),
                 UNCHANGED <<system_settings, planned_orders, virtual_trades, execution_orders, posts>>
          PROVE  IInv'
  BY <1>close, <1>c, RowsKept, OneSession
<1>1. ASSUME NEW p \in Plans, BeginPlan(s, p) PROVE IInv'
  <2>1. session'[s] = [IdleSession EXCEPT !.pc = "planning", !.plan = p,
                                          !.settings = system_settings]
    BY <1>1, <1>t DEF BeginPlan
  <2>2. SessionConsistent(s)'
    <3>1. /\ session'[s].pc = "planning"
          /\ session'[s].settings = system_settings
          /\ \A o \in Orders : session'[s].held[o] = "ABSENT"
      BY <2>1 DEF IdleSession
    <3> QED BY <1>1, <3>1 DEF BeginPlan, SessionConsistent, InCall
  <2>3. s \notin barred \ CycleSessions
    BY <1>1, <1>t DEF BeginPlan, BarredConsistent, AtStep
  <2> QED BY <1>1, <1>t, <2>2, <2>3, RowsKept, OneSession DEF BeginPlan, TypeOK, UnchangedRows
<1>3. ASSUME NEW o \in Orders, NEW required \in ExecutableModes, Load(s, o, required),
             planned_orders[o].status \in ExecutionStatus, session[s].pc \in {"idle", "looping"}
      PROVE  IInv'
  <2>1. session'[s] = [session[s] EXCEPT !.pc = "loaded", !.order = o,
                                         !.required = required, !.begun = now]
    BY <1>3, <1>t DEF Load
  <2>2. /\ session'[s].pc = "loaded" /\ session'[s].order = o
        /\ session'[s].required = required /\ session'[s].held = session[s].held
    BY <2>1, <1>t DEF TypeOK, SessionState
  <2>3. SessionConsistent(s)'
    BY <1>3, <1>t, <2>2 DEF Load, SessionConsistent, InCall, UnchangedRows
  <2>4. s \in barred' \ CycleSessions => BarredConsistent(s)'
    BY <1>3, <1>t, <2>2 DEF Load, BarredConsistent, Permits
  <2> QED BY <1>3, <1>t, <2>3, <2>4, RowsKept, OneSession DEF Load, TypeOK, UnchangedRows
<1>2. CASE SaveOrders(s)
  <2> DEFINE mode == session[s].settings.trade_mode
  <2>1. mode \in PlannableModes
    BY <1>2, <1>t DEF SaveOrders, SessionConsistent, AtStep
  <2>2. \A o \in Orders :
          planned_orders'[o] = IF PlanOf[o] = session[s].plan /\ planned_orders[o].status = "ABSENT"
                                 THEN [status |-> initial_order_status(mode), trade_mode |-> mode]
                                 ELSE planned_orders[o]
    BY <1>2 DEF SaveOrders
  <2>3. StatusesKept
    BY <2>2 DEF StatusesKept, ExecutionStatus, ManualStatus
  <2>4. ASSUME NEW o \in Orders PROVE OrderConsistent(o)'
    <3>1. OrderConsistent(o) /\ virtual_trades' = virtual_trades
            /\ execution_orders' = execution_orders /\ posts' = posts
      BY <1>2 DEF IInv, SaveOrders
    <3>2. posts[o] \in Nat
      BY <1>t, ExecutionAssumption DEF TypeOK
    <3>3. CASE PlanOf[o] = session[s].plan /\ planned_orders[o].status = "ABSENT"
      BY <2>1, <2>2, <3>1, <3>2, <3>3
         DEF OrderConsistent, Traded, Executed, initial_order_status, PlannableModes,
             ExecutableModes, ExecutionStatus, ManualStatus
    <3>4. CASE ~(PlanOf[o] = session[s].plan /\ planned_orders[o].status = "ABSENT")
      BY <2>2, <3>1, <3>4 DEF OrderConsistent, Traded, Executed
    <3> QED BY <3>3, <3>4
  <2>5. UniqueRows'
    BY <1>2 DEF IInv, SaveOrders, UniqueRows
  <2>6. SessionConsistent(s)'
    <3>1. CASE s \in CycleSessions /\ mode \in ExecutableModes
      <4>1. /\ session'[s].pc = "looping"
            /\ \A o \in Orders : session'[s].held[o] \in {"ABSENT", planned_orders'[o].status}
        BY <1>2, <1>t, <2>2, <3>1 DEF SaveOrders, IdleSession
      <4> QED BY <4>1 DEF SessionConsistent, InCall, ExecutionStatus
    <3>2. CASE ~(s \in CycleSessions /\ mode \in ExecutableModes)
      <4>1. session'[s] = IdleSession
        BY <1>2, <1>t, <3>2 DEF SaveOrders
      <4> QED BY <4>1 DEF SessionConsistent, IdleSession, InCall
    <3> QED BY <3>1, <3>2
  <2>7. s \notin barred' \ CycleSessions
    BY <1>2, <1>t DEF SaveOrders, BarredConsistent, AtStep
  <2>8. (\A x \in Sessions \ {s} : session'[x] = session[x]) /\ system_settings' = system_settings
        /\ barred' \subseteq barred \cup {s}
    BY <1>2, <1>t DEF SaveOrders, TypeOK
  <2> QED BY <2>3, <2>4, <2>5, <2>6, <2>7, <2>8, OneSession
<1>4. ASSUME NEW o \in Orders, NEW required \in ExecutableModes, GetOrder(s, o, required)
      PROVE  IInv'
  BY <1>3, <1>4 DEF GetOrder, AtStep, ExecutionStatus
<1>5. ASSUME NEW o \in Orders, GetHeldOrder(s, o) PROVE IInv'
  BY <1>3, <1>5, <1>t DEF GetHeldOrder, AtStep, SessionConsistent, TypeOK, SessionState
<1>6. ASSUME NEW o \in Orders, SkipExecutedOrder(s, o) PROVE IInv'
  <2>1. session'[s] = [session[s] EXCEPT !.held[o] = "ABSENT"]
    BY <1>6, <1>t DEF SkipExecutedOrder
  <2>2. /\ session'[s].pc = "looping"
        /\ \A x \in Orders : session'[s].held[x] \in {"ABSENT", session[s].held[x]}
    BY <1>6, <2>1, <1>t DEF SkipExecutedOrder, AtStep, TypeOK, SessionState
  <2>3. SessionConsistent(s)'
    BY <1>6, <2>2, <1>t DEF SkipExecutedOrder, UnchangedRows, SessionConsistent, InCall
  <2>4. s \notin barred' \ CycleSessions
    BY <1>6, <1>t DEF SkipExecutedOrder, BarredConsistent, AtStep
  <2> QED BY <1>6, <1>t, <2>3, <2>4, RowsKept, OneSession DEF SkipExecutedOrder, TypeOK, UnchangedRows
<1>read. ASSUME NEW r \in SessionState, session' = [session EXCEPT ![s] = r],
                session[s].pc \in InCall, r.pc \in InCall \ {"posted"},
                r.order = session[s].order, r.required = session[s].required,
                r.held = session[s].held,
                r.pc = "allowed" =>
                  planned_orders[r.order].trade_mode = r.required /\ Permits(session[s].settings, r.required),
                r.pc = "allowed" => session[s].pc = "counted",
                s \notin CycleSessions /\ r.pc \in {"authorised", "dated", "counted"} =>
                  r.settings \in {system_settings, session[s].settings},
                s \notin CycleSessions /\ r.pc \in {"dated", "counted"} =>
                  session[s].pc \in {"authorised", "dated"} /\ r.settings = session[s].settings,
                s \notin CycleSessions /\ r.pc = "authorised" => r.settings = system_settings,
                UNCHANGED <<system_settings, now, barred>>, UnchangedRows
         PROVE  IInv'
  <2>1. session'[s] = r
    BY <1>read, <1>t
  <2>2. SessionConsistent(s)'
    BY <1>read, <2>1, <1>t DEF SessionConsistent, UnchangedRows, InCall
  <2>3. s \in barred' \ CycleSessions => BarredConsistent(s)'
    BY <1>read, <2>1, <1>t DEF BarredConsistent, Permits, InCall
  <2> QED BY <1>read, <1>t, <2>2, <2>3, RowsKept, OneSession DEF TypeOK, UnchangedRows
<1>7. CASE ReadSettings(s)
  <2> DEFINE r == [session[s] EXCEPT !.pc = "authorised", !.settings = get_settings(s)]
  <2>0. r \in SessionState
    BY <1>t DEF SessionState, Steps, get_settings
  <2>1. r.pc = "authorised" /\ r.order = session[s].order
        /\ r.required = session[s].required /\ r.held = session[s].held
        /\ r.settings = get_settings(s)
    BY <1>t DEF SessionState
  <2>2. session' = [session EXCEPT ![s] = r] /\ session[s].pc = "loaded"
    BY <1>7 DEF ReadSettings, AtStep
  <2> HIDE DEF r
  <2> QED BY <1>7, <1>read, <2>0, <2>1, <2>2 DEF ReadSettings, get_settings, InCall
<1>8. CASE ReadLatestTrade(s)
  <2> DEFINE active == CooldownActive(InstrumentOf[session[s].order])
             r == [session[s] EXCEPT !.pc = "dated", !.read_at = now,
                                     !.cooldown_active = active]
  <2>0. active \in BOOLEAN
    BY DEF CooldownActive
  <2>1. session' = [session EXCEPT ![s] = r] /\ session[s].pc = "authorised"
    BY <1>8 DEF ReadLatestTrade, AtStep
  <2> HIDE DEF active
  <2>2. r \in SessionState
    BY <1>t, <2>0 DEF SessionState, Steps
  <2>3. r.pc = "dated" /\ r.order = session[s].order /\ r.required = session[s].required
        /\ r.held = session[s].held /\ r.settings = session[s].settings
    BY <1>t DEF SessionState
  <2> HIDE DEF r
  <2> QED BY <1>8, <1>read, <2>1, <2>2, <2>3 DEF ReadLatestTrade, InCall
<1>9. CASE CountTrades(s)
  <2> DEFINE reached == count_trades_since(midnight(session[s].read_at)) >= MaxDailyTrades
             r == [session[s] EXCEPT !.pc = "counted", !.limit_reached = reached]
  <2>0. reached \in BOOLEAN
    OBVIOUS
  <2>1. session' = [session EXCEPT ![s] = r] /\ session[s].pc = "dated"
    BY <1>9 DEF CountTrades, AtStep
  <2> HIDE DEF reached
  <2>2. r \in SessionState
    BY <1>t, <2>0 DEF SessionState, Steps
  <2>3. r.pc = "counted" /\ r.order = session[s].order /\ r.required = session[s].required
        /\ r.held = session[s].held /\ r.settings = session[s].settings
    BY <1>t DEF SessionState
  <2> HIDE DEF r
  <2> QED BY <1>9, <1>read, <2>1, <2>2, <2>3 DEF CountTrades, InCall
<1>10. CASE Evaluate(s)
  <2>1. PICK pc \in {"allowed", "refused"} :
          /\ pc = "allowed" => RiskAllows(s)
          /\ session' = [session EXCEPT ![s] =
               [@ EXCEPT !.pc = pc, !.read_at = 0, !.cooldown_active = FALSE,
                         !.limit_reached = FALSE, !.settings = KeptSettings(s)]]
    BY <1>10 DEF Evaluate
  <2> DEFINE r == [session[s] EXCEPT !.pc = pc, !.read_at = 0, !.cooldown_active = FALSE,
                     !.limit_reached = FALSE, !.settings = KeptSettings(s)]
  <2>2. SeedSettings \in SystemSettings /\ 0 \in Time
    BY ExecutionAssumption DEF SeedSettings, SystemSettings, TradeModes, Time
  <2>3. r \in SessionState
    BY <1>t, <2>2 DEF SessionState, Steps, KeptSettings
  <2>5. r.pc = pc /\ r.order = session[s].order
        /\ r.required = session[s].required /\ r.held = session[s].held
    BY <1>t DEF SessionState
  <2>4. session' = [session EXCEPT ![s] = r] /\ session[s].pc = "counted"
    BY <1>10, <2>1 DEF Evaluate, AtStep
  <2> HIDE DEF r
  <2> QED BY <1>10, <1>read, <2>1, <2>3, <2>4, <2>5 DEF Evaluate, RiskAllows, InCall
<1>status. ASSUME CloseSession(s), NEW o \in Orders, NEW status,
                  SetStatus(o, status), OrderConsistent(o)',
                  planned_orders[o].status \in ExecutionStatus => status \in ExecutionStatus,
                  planned_orders[o].status \in ManualStatus => status \in ManualStatus,
                  UNCHANGED <<system_settings, virtual_trades, execution_orders, posts, now>>
           PROVE  IInv'
  <2>1. /\ planned_orders'[o].trade_mode = planned_orders[o].trade_mode
        /\ planned_orders'[o].status = status
        /\ \A x \in Orders \ {o} : planned_orders'[x] = planned_orders[x]
    BY <1>status, <1>t DEF SetStatus, TypeOK, PlannedOrder
  <2>2. StatusesKept
    BY <1>status, <2>1 DEF StatusesKept
  <2>3. ASSUME NEW x \in Orders PROVE OrderConsistent(x)'
    <3>1. CASE x = o
      BY <1>status, <3>1
    <3>2. CASE x # o
      BY <1>status, <2>1, <3>2 DEF IInv, OrderConsistent, Traded, Executed
    <3> QED BY <3>1, <3>2
  <2>4. UniqueRows'
    BY <1>status DEF IInv, UniqueRows
  <2> QED BY <1>status, <1>c, <2>2, <2>3, <2>4, OneSession
<1>11. CASE Reject(s)
  <2>1. PICK o \in Orders : o = session[s].order /\ planned_orders[o].status \in ExecutionStatus
    BY <1>11, <1>t DEF Reject, AtStep, SessionConsistent, InCall
  <2>2. /\ planned_orders'[o].trade_mode = planned_orders[o].trade_mode
        /\ planned_orders'[o].status = "RISK_REJECTED"
    BY <1>11, <2>1, <1>t DEF Reject, SetStatus, TypeOK, PlannedOrder
  <2>3. OrderConsistent(o)'
    BY <1>11, <2>1, <2>2 DEF Reject, IInv, OrderConsistent, Traded, Executed,
         ExecutionStatus, ManualStatus
  <2> QED BY <1>11, <1>status, <2>1, <2>3 DEF Reject, ExecutionStatus, ManualStatus
<1>return. ASSUME ReturnFromCall(s), session[s].pc \in InCall,
                  NEW o \in Orders, o = session[s].order,
                  planned_orders[o].status \in ExecutionStatus,
                  NEW status \in ExecutionStatus, SetStatus(o, status),
                  OrderConsistent(o)', UniqueRows',
                  \A x \in Orders \ {o} : Traded(x)' = Traded(x) /\ Executed(x)' = Executed(x),
                  UNCHANGED <<system_settings, posts, now>>
           PROVE  IInv'
  <2>1. /\ planned_orders'[o].trade_mode = planned_orders[o].trade_mode
        /\ planned_orders'[o].status = status
        /\ \A x \in Orders \ {o} : planned_orders'[x] = planned_orders[x]
    BY <1>return, <1>t DEF SetStatus, TypeOK, PlannedOrder
  <2>2. StatusesKept
    BY <1>return, <2>1 DEF StatusesKept, ExecutionStatus, ManualStatus
  <2>3. ASSUME NEW x \in Orders PROVE OrderConsistent(x)'
    <3>1. CASE x = o
      BY <1>return, <3>1
    <3>2. CASE x # o
      <4>1. OrderConsistent(x) /\ Traded(x)' = Traded(x) /\ Executed(x)' = Executed(x)
              /\ planned_orders'[x] = planned_orders[x] /\ posts' = posts
        BY <1>return, <2>1, <3>2 DEF IInv
      <4> QED BY <4>1 DEF OrderConsistent
    <3> QED BY <3>1, <3>2
  <2>4. session'[s].pc \in {"idle", "looping"}
        /\ \A x \in Orders : session'[s].held[x] \in {"ABSENT", session[s].held[x]}
    <3>1. session[s].held \in [Orders -> PlannedOrderStatus \cup {"ABSENT"}]
      BY <1>t DEF SessionState
    <3> QED BY <1>return, <1>t, <3>1 DEF ReturnFromCall, IdleSession
  <2>5. SessionConsistent(s)'
    BY <1>t, <2>2, <2>4 DEF SessionConsistent, StatusesKept, InCall
  <2>6. /\ \A x \in Sessions \ {s} : session'[x] = session[x]
        /\ barred' \subseteq barred \cup {s} /\ s \notin barred'
    BY <1>return, <1>t DEF ReturnFromCall, TypeOK
  <2> QED BY <1>return, <2>2, <2>3, <2>5, <2>6, OneSession
<1>12. CASE Simulate(s)
  <2>1. PICK o \in Orders : /\ o = session[s].order
                            /\ planned_orders[o].status \in ExecutionStatus
                            /\ planned_orders[o].trade_mode = "DRY_RUN"
    BY <1>12, <1>t DEF Simulate, AtStep, SessionConsistent, InCall
  <2> DEFINE row == NewVirtualTrade(s)
  <2>r. row.planned_order = o
    BY <1>t, <2>1, NewRows
  <2>2. virtual_trades' = virtual_trades \cup {row}
        /\ execution_orders' = execution_orders /\ posts' = posts /\ ~Traded(o)
        /\ planned_orders'[o].trade_mode = "DRY_RUN" /\ planned_orders'[o].status = "SIMULATED"
    BY <1>12, <1>t, <2>1 DEF Simulate, SetStatus, TypeOK, PlannedOrder
  <2> HIDE DEF row
  <2>3. OrderConsistent(o)'
    <3>1. ~Executed(o) /\ ~(posts[o] > 0)
      BY <2>1 DEF IInv, OrderConsistent
    <3>2. ~Executed(o)'
      BY <2>2, <3>1 DEF Executed
    <3>3. row \in virtual_trades' /\ row.planned_order = o
      BY <2>2, <2>r
    <3>4. Traded(o)'
      BY <3>3 DEF Traded
    <3> QED BY <2>2, <3>1, <3>2, <3>4 DEF OrderConsistent, ExecutionStatus, ExecutableModes
  <2>4. UniqueRows'
    BY <2>2, <2>r DEF IInv, UniqueRows, Traded
  <2>5. \A x \in Orders \ {o} : Traded(x)' = Traded(x) /\ Executed(x)' = Executed(x)
    BY <2>2, <2>r DEF Traded, Executed
  <2> QED BY <1>12, <1>return, <2>1, <2>3, <2>4, <2>5
          DEF Simulate, AtStep, InCall, ExecutionStatus
<1>13. CASE post_sandbox_order(s)
  <2>1. PICK o \in Orders : /\ o = session[s].order /\ session[s].pc = "allowed"
                            /\ session[s].required = "SANDBOX"
                            /\ planned_orders[o].status \in ExecutionStatus
                            /\ planned_orders[o].trade_mode = "SANDBOX"
    BY <1>13, <1>t DEF post_sandbox_order, AtStep, SessionConsistent, InCall
  <2>2. UNCHANGED <<system_settings, planned_orders, virtual_trades, execution_orders, barred>>
        /\ \A x \in Orders \ {o} : posts'[x] = posts[x]
    BY <1>13, <1>t, <2>1 DEF post_sandbox_order, TypeOK
  <2>3. ASSUME NEW x \in Orders PROVE OrderConsistent(x)'
    <3>1. OrderConsistent(x)
      BY DEF IInv
    <3>2. CASE x = o
      BY <2>1, <2>2, <3>1, <3>2 DEF OrderConsistent, Traded, Executed, ExecutionStatus
    <3>3. CASE x # o
      BY <2>2, <3>1, <3>3 DEF OrderConsistent, Traded, Executed
    <3> QED BY <3>2, <3>3
  <2>4. StatusesKept /\ UniqueRows'
    BY <2>2 DEF StatusesKept, UniqueRows, IInv
  <2>5. session'[s] = [session[s] EXCEPT !.pc = "posted"]
    BY <1>13, <1>t DEF post_sandbox_order
  <2>6. /\ session'[s].pc = "posted" /\ session'[s].order = session[s].order
        /\ session'[s].required = session[s].required /\ session'[s].held = session[s].held
    BY <2>5, <1>t DEF SessionState
  <2>7. SessionConsistent(s)'
    BY <1>t, <2>1, <2>2, <2>6 DEF SessionConsistent, InCall
  <2>8. s \notin barred' \ CycleSessions
    BY <1>t, <2>1, <2>2 DEF BarredConsistent
  <2>9. \A x \in Sessions \ {s} : session'[x] = session[x]
    BY <1>13, <1>t DEF post_sandbox_order, TypeOK
  <2> QED BY <2>2, <2>3, <2>4, <2>7, <2>8, <2>9, OneSession
<1>14. CASE SaveSandboxExecution(s)
  <2>1. PICK o \in Orders : /\ o = session[s].order
                            /\ planned_orders[o].status \in ExecutionStatus
                            /\ planned_orders[o].trade_mode = "SANDBOX"
    BY <1>14, <1>t DEF SaveSandboxExecution, AtStep, SessionConsistent, InCall
  <2> DEFINE row == NewExecutionOrder(s)
  <2>r. row.planned_order = o
    BY <1>t, <2>1, NewRows
  <2>2. execution_orders' = execution_orders \cup {row}
        /\ virtual_trades' = virtual_trades /\ posts' = posts /\ ~Executed(o)
        /\ planned_orders'[o].trade_mode = "SANDBOX" /\ planned_orders'[o].status = "SUBMITTED"
    BY <1>14, <1>t, <2>1 DEF SaveSandboxExecution, SetStatus, TypeOK, PlannedOrder
  <2> HIDE DEF row
  <2>3. OrderConsistent(o)'
    <3>1. ~Traded(o)
      BY <2>1 DEF IInv, OrderConsistent
    <3>2. ~Traded(o)'
      BY <2>2, <3>1 DEF Traded
    <3>3. row \in execution_orders' /\ row.planned_order = o
      BY <2>2, <2>r
    <3>4. Executed(o)'
      BY <3>3 DEF Executed
    <3> QED BY <2>2, <3>2, <3>4 DEF OrderConsistent, ExecutionStatus, ExecutableModes
  <2>4. UniqueRows'
    BY <2>2, <2>r DEF IInv, UniqueRows, Executed
  <2>5. \A x \in Orders \ {o} : Traded(x)' = Traded(x) /\ Executed(x)' = Executed(x)
    BY <2>2, <2>r DEF Traded, Executed
  <2> QED BY <1>14, <1>return, <2>1, <2>3, <2>4, <2>5
          DEF SaveSandboxExecution, AtStep, InCall, ExecutionStatus
<1>15. ASSUME NEW o \in Orders, NEW pc \in {"approving", "rejecting"}, GetManualOrder(s, o, pc)
       PROVE  IInv'
  <2>1. session'[s] = [session[s] EXCEPT !.pc = pc, !.order = o]
    BY <1>15, <1>t DEF GetManualOrder
  <2>2. session'[s].pc = pc /\ session'[s].order = o /\ session'[s].held = session[s].held
    BY <2>1, <1>t DEF SessionState
  <2>3. planned_orders[o].status \in ManualStatus /\ session[s].pc = "idle"
    BY <1>15 DEF GetManualOrder, Confirmable, ManualStatus, AtStep
  <2>4. SessionConsistent(s)'
    BY <1>15, <1>t, <2>2, <2>3 DEF GetManualOrder, UnchangedRows, SessionConsistent, InCall
  <2>5. s \notin barred' \ CycleSessions
    BY <1>15, <1>t, <2>3 DEF GetManualOrder, BarredConsistent
  <2> QED BY <1>15, <1>t, <2>4, <2>5, RowsKept, OneSession DEF GetManualOrder, TypeOK, UnchangedRows
<1>16. CASE SetConfirmationStatus(s)
  <2>1. PICK o \in Orders : o = session[s].order /\ planned_orders[o].status \in ManualStatus
    BY <1>16, <1>t DEF SetConfirmationStatus, SessionConsistent
  <2>2. PICK status \in {"APPROVED", "REJECTED"} : SetStatus(o, status)
    BY <1>16, <2>1 DEF SetConfirmationStatus
  <2>3. /\ planned_orders'[o].trade_mode = planned_orders[o].trade_mode
        /\ planned_orders'[o].status = status
    BY <2>2, <1>t DEF SetStatus, TypeOK, PlannedOrder
  <2>4. OrderConsistent(o)'
    BY <1>16, <2>1, <2>2, <2>3 DEF SetConfirmationStatus, IInv, OrderConsistent, Traded, Executed,
         ExecutionStatus, ManualStatus, ExecutableModes
  <2> QED BY <1>16, <1>status, <2>1, <2>2, <2>4
          DEF SetConfirmationStatus, ExecutionStatus, ManualStatus
<1> QED
  BY <1>close, <1>1, <1>2, <1>4, <1>5, <1>6, <1>7, <1>8, <1>9, <1>10, <1>11, <1>12,
     <1>13, <1>14, <1>15, <1>16
     DEF SessionStep, HeldOrderConflict, EndCycle, IntegrityError, Fail, UnchangedRows

LEMMA StepConsistent == IInv /\ [Next]_vars => IInv'
<1> SUFFICES ASSUME IInv, [Next]_vars PROVE IInv'
  OBVIOUS
<1>0. TypeOK'
  BY TypeStep
<1>1. CASE UNCHANGED vars
  BY <1>1, <1>0 DEF vars, IInv, OrderConsistent, UniqueRows, SessionConsistent,
       BarredConsistent, Traded, Executed, Permits
<1>2. ASSUME NEW s \in Sessions, SessionStep(s) PROVE IInv'
  BY <1>0, <1>2, SessionStepConsistent
<1>3. ASSUME NEW kill_switch \in BOOLEAN, NEW trade_mode \in Modes,
             UpdateSystemSettings([kill_switch |-> kill_switch, trade_mode |-> trade_mode])
      PROVE IInv'
  <2>1. (\A o \in Orders : OrderConsistent(o)') /\ UniqueRows'
    BY <1>3, RowsKept DEF UpdateSystemSettings, UnchangedRows
  <2>2. ASSUME NEW s \in Sessions PROVE SessionConsistent(s)'
    BY <1>3 DEF UpdateSystemSettings, UnchangedRows, SessionConsistent, IInv
  <2>3. ASSUME NEW s \in barred' \ CycleSessions PROVE BarredConsistent(s)'
    BY <1>3 DEF UpdateSystemSettings, BarredConsistent, Permits, IInv
  <2> QED BY <1>0, <2>1, <2>2, <2>3 DEF IInv
<1>4. CASE Tick
  <2>1. (\A o \in Orders : OrderConsistent(o)') /\ UniqueRows'
    BY <1>4, RowsKept DEF Tick, UnchangedRows
  <2>2. (\A s \in Sessions : SessionConsistent(s)')
        /\ \A s \in barred' \ CycleSessions : BarredConsistent(s)'
    BY <1>4 DEF Tick, UnchangedRows, SessionConsistent, BarredConsistent, Permits, IInv
  <2> QED BY <1>0, <2>1, <2>2 DEF IInv
<1> QED BY <1>1, <1>2, <1>3, <1>4 DEF Next

LEMMA Inductive == Spec => []IInv
  BY InitConsistent, StepConsistent, PTL DEF Spec

----------------------------------------------------------------------------
(* The theorems                                                             *)

\* Every table and every session's record keeps its type, for any number of
\* orders, plans and sessions.
THEOREM TypeCorrect == Spec => []TypeOK
<1>1. IInv => TypeOK
  BY DEF IInv
<1> QED BY <1>1, Inductive, PTL

\* Status and rows of an order agree however execute, execute_sandbox, the
\* cycle, approve and reject interleave.
THEOREM StatusTruth == Spec => []StatusAgreesWithRows
<1>1. IInv => StatusAgreesWithRows
  BY DEF IInv, OrderConsistent, StatusAgreesWithRows
<1> QED BY <1>1, Inductive, PTL

\* An order has at most one virtual trade or execution order, and never both:
\* the guards of simulate and save_sandbox_execution and the unique indexes
\* suffice for any number of concurrent calls.
THEOREM SingleRow == Spec => []OneRowPerOrder
<1>1. IInv => OneRowPerOrder
  <2> SUFFICES ASSUME IInv PROVE OneRowPerOrder
    OBVIOUS
  <2>1. ASSUME NEW o \in Orders PROVE ~(Traded(o) /\ Executed(o))
    BY DEF IInv, OrderConsistent
  <2> QED BY <2>1 DEF IInv, UniqueRows, OneRowPerOrder
<1> QED BY <1>1, Inductive, PTL

\* Orders planned for manual confirmation never get a trade, a post or a risk
\* decision, whatever the administrator switches.
THEOREM ManualSafe == Spec => []ManualOrdersNeverTrade
<1>1. IInv => ManualOrdersNeverTrade
  <2> SUFFICES ASSUME IInv, NEW o \in Orders,
                      planned_orders[o].trade_mode = "REAL_MANUAL_CONFIRM"
               PROVE  /\ posts[o] = 0 /\ ~Traded(o) /\ ~Executed(o)
                      /\ planned_orders[o].status \in {"WAITING_CONFIRMATION", "APPROVED", "REJECTED"}
    BY DEF ManualOrdersNeverTrade
  <2>1. OrderConsistent(o) /\ posts[o] \in 0 .. MaxPosts
    BY DEF IInv, TypeOK
  <2> QED
    BY <2>1, ExecutionAssumption DEF OrderConsistent, ExecutionStatus, ManualStatus, ExecutableModes
<1> QED BY <1>1, Inductive, PTL

\* A request's risk check never lets an order through when the settings never
\* permitted it during the call, for any number of concurrent sessions.
THEOREM RequestsSafe == Spec => []RequestsRecheckSafety
<1>1. IInv => RequestsRecheckSafety
  BY DEF IInv, BarredConsistent, RequestsRecheckSafety
<1> QED BY <1>1, Inductive, PTL

----------------------------------------------------------------------------
(* Execution implements OrderLedger                                         *)

\* The kind depends on the mode and on whether the row exists.
LEMMA KindKept ==
  ASSUME \A o \in Orders :
           /\ planned_orders'[o].trade_mode = planned_orders[o].trade_mode
           /\ planned_orders'[o].status = "ABSENT" <=> planned_orders[o].status = "ABSENT"
  PROVE  PlannedKind' = PlannedKind
  BY DEF PlannedKind, KindOf

LEMMA OutcomeKept ==
  ASSUME UNCHANGED <<virtual_trades, execution_orders>>
  PROVE  RecordedOutcome' = RecordedOutcome
  BY DEF RecordedOutcome, Repeated, Traded, Executed

\* An order has one row at most, so its outcome is the row's kind.
SingleOutcome ==
  [o \in Orders |-> IF Traded(o) THEN "virtual" ELSE IF Executed(o) THEN "sandbox" ELSE "none"]

LEMMA OutcomeIsSingle ==
  ASSUME IInv
  PROVE  RecordedOutcome = SingleOutcome
<1>1. ASSUME NEW o \in Orders PROVE ~Repeated(o)
  BY DEF IInv, UniqueRows, OrderConsistent, Repeated
<1> QED BY <1>1 DEF RecordedOutcome, SingleOutcome

LEMMA NextOutcomeIsSingle ==
  ASSUME IInv'
  PROVE  RecordedOutcome' = SingleOutcome'
<1>1. ASSUME NEW o \in Orders PROVE ~Repeated(o)'
  BY DEF IInv, UniqueRows, OrderConsistent, Repeated
<1> QED BY <1>1 DEF RecordedOutcome, SingleOutcome

\* save_orders is Ledger!Plan of the orders that were missing.
LEMMA PlanMaps ==
  ASSUME IInv, NEW s \in Sessions, SaveOrders(s)
  PROVE  Ledger!Next
<1> DEFINE mode == session[s].settings.trade_mode
           planned == {o \in Orders : PlanOf[o] = session[s].plan /\ planned_orders[o].status = "ABSENT"}
<1>1. mode \in PlannableModes
  BY DEF IInv, SessionConsistent, SaveOrders, AtStep
<1>2. \A o \in Orders :
        /\ o \in planned => planned_orders'[o] = [status |-> initial_order_status(mode), trade_mode |-> mode]
        /\ o \notin planned => planned_orders'[o] = planned_orders[o]
  BY DEF SaveOrders
<1>3. initial_order_status(mode) # "ABSENT" /\ KindOf(mode) \in {"virtual", "sandbox", "manual"}
  BY <1>1 DEF initial_order_status, KindOf, PlannableModes, ExecutableModes
<1>4. RecordedOutcome' = RecordedOutcome
  BY OutcomeKept DEF SaveOrders
<1>5. \A o \in planned : PlannedKind[o] = "unplanned"
  BY DEF PlannedKind
<1> HIDE DEF mode
<1>6. PlannedKind' = [o \in Orders |-> IF o \in planned THEN KindOf(mode) ELSE PlannedKind[o]]
  <2>1. ASSUME NEW o \in Orders
        PROVE  (IF planned_orders'[o].status = "ABSENT" THEN "unplanned"
                ELSE KindOf(planned_orders'[o].trade_mode))
               = IF o \in planned THEN KindOf(mode) ELSE PlannedKind[o]
    <3>1. CASE o \in planned
      BY <1>2, <1>3, <3>1
    <3>2. CASE o \notin planned
      BY <1>2, <3>2 DEF PlannedKind
    <3> QED BY <3>1, <3>2
  <2>2. PlannedKind' = [o \in Orders |-> IF planned_orders'[o].status = "ABSENT" THEN "unplanned"
                                  ELSE KindOf(planned_orders'[o].trade_mode)]
    BY DEF PlannedKind, KindOf
  <2> QED BY <2>1, <2>2
<1> HIDE DEF planned
<1>7. planned \in SUBSET Orders
  BY DEF planned
<1>8. Ledger!Plan(planned, KindOf(mode))
  BY <1>4, <1>5, <1>6 DEF Ledger!Plan
<1> QED BY <1>3, <1>7, <1>8 DEF Ledger!Next, Ledger!Kinds

\* A commit that records a trade of order o is Ledger!Trade(o).
LEMMA TradeMaps ==
  ASSUME NEW o \in Orders, NEW k \in {"virtual", "sandbox"},
         PlannedKind[o] = k, RecordedOutcome[o] = "none", PlannedKind' = PlannedKind,
         RecordedOutcome' = [RecordedOutcome EXCEPT ![o] = k]
  PROVE  Ledger!Next
<1>1. Ledger!Trade(o)
  BY DEF Ledger!Trade
<1> QED BY <1>1 DEF Ledger!Next

LEMMA StepMaps == IInv /\ [Next]_vars => [Ledger!Next]_(Ledger!ledger)
<1> SUFFICES ASSUME IInv, [Next]_vars, ~(PlannedKind' = PlannedKind /\ RecordedOutcome' = RecordedOutcome)
             PROVE  Ledger!Next
  BY DEF Ledger!ledger
<1>t. planned_orders \in [Orders -> PlannedOrder] /\ TypeOK
  BY DEF IInv, TypeOK
<1>o. RecordedOutcome = SingleOutcome /\ RecordedOutcome' = SingleOutcome'
  BY OutcomeIsSingle, NextOutcomeIsSingle, StepConsistent
<1>quiet. ~UNCHANGED <<planned_orders, virtual_trades, execution_orders>>
  BY KindKept, OutcomeKept
<1>1. PICK s \in Sessions : SessionStep(s)
  BY <1>quiet DEF Next, UpdateSystemSettings, Tick, UnchangedRows, vars
<1>status. ASSUME NEW o \in Orders, NEW status, status # "ABSENT", SetStatus(o, status),
                  planned_orders[o].status # "ABSENT"
           PROVE  PlannedKind' = PlannedKind
  <2>1. \A x \in Orders : /\ planned_orders'[x].trade_mode = planned_orders[x].trade_mode
                          /\ x # o => planned_orders'[x].status = planned_orders[x].status
    BY <1>t, <1>status DEF SetStatus, PlannedOrder
  <2>2. planned_orders'[o].status = status
    BY <1>t, <1>status DEF SetStatus, PlannedOrder
  <2> QED BY <1>status, <2>1, <2>2, KindKept
<1>c. SessionConsistent(s) /\ \A o \in Orders : OrderConsistent(o)
  BY DEF IInv
<1>2. CASE SaveOrders(s)
  BY <1>2, PlanMaps
<1>3. CASE Reject(s)
  <2>1. PICK o \in Orders : o = session[s].order /\ planned_orders[o].status \in ExecutionStatus
    BY <1>3, <1>c DEF Reject, AtStep, SessionConsistent, InCall
  <2>2. PlannedKind' = PlannedKind
    BY <1>3, <1>status, <2>1 DEF Reject, ExecutionStatus
  <2>3. RecordedOutcome' = RecordedOutcome
    BY <1>3, OutcomeKept DEF Reject
  <2> QED BY <2>2, <2>3
<1>4. CASE Simulate(s)
  <2>1. PICK o \in Orders : /\ o = session[s].order
                            /\ planned_orders[o].status \in ExecutionStatus
                            /\ planned_orders[o].trade_mode = "DRY_RUN"
    BY <1>4, <1>c DEF Simulate, AtStep, SessionConsistent, InCall
  <2>2. PlannedKind[o] = "virtual"
    BY <2>1 DEF PlannedKind, KindOf, ExecutionStatus
  <2>3. PlannedKind' = PlannedKind
    BY <1>4, <1>status, <2>1 DEF Simulate, ExecutionStatus
  <2>4. ~Traded(o) /\ ~Executed(o) /\ execution_orders' = execution_orders
        /\ virtual_trades' = virtual_trades
             \cup {NewVirtualTrade(s)}
    BY <1>4, <1>c, <2>1 DEF Simulate, OrderConsistent
  <2>5. RecordedOutcome[o] = "none"
    BY <1>o, <2>4 DEF SingleOutcome
  <2>6. \A x \in Orders : Traded(x)' <=> (Traded(x) \/ x = o)
    <3> DEFINE row == NewVirtualTrade(s)
    <3>1. row.planned_order = o /\ \A t : t \in virtual_trades' <=> t \in virtual_trades \/ t = row
      BY <1>t, <2>1, <2>4, NewRows
    <3> HIDE DEF row
    <3> QED BY <3>1 DEF Traded
  <2>7. \A x \in Orders : Executed(x)' <=> Executed(x)
    BY <2>4 DEF Executed
  <2>8. RecordedOutcome' = [RecordedOutcome EXCEPT ![o] = "virtual"]
    <3>1. \A x \in Orders : RecordedOutcome'[x] = IF x = o THEN "virtual" ELSE RecordedOutcome[x]
      BY <1>o, <2>6, <2>7 DEF SingleOutcome
    <3>2. RecordedOutcome' = [x \in Orders |-> RecordedOutcome'[x]] /\ RecordedOutcome = [x \in Orders |-> RecordedOutcome[x]]
      BY DEF RecordedOutcome
    <3> QED BY <3>1, <3>2
  <2> QED BY <2>2, <2>3, <2>5, <2>8, TradeMaps
<1>5. CASE SaveSandboxExecution(s)
  <2>1. PICK o \in Orders : /\ o = session[s].order
                            /\ planned_orders[o].status \in ExecutionStatus
                            /\ planned_orders[o].trade_mode = "SANDBOX"
    BY <1>5, <1>c DEF SaveSandboxExecution, AtStep, SessionConsistent, InCall
  <2>2. PlannedKind[o] = "sandbox"
    BY <2>1 DEF PlannedKind, KindOf, ExecutionStatus
  <2>3. PlannedKind' = PlannedKind
    BY <1>5, <1>status, <2>1 DEF SaveSandboxExecution, ExecutionStatus
  <2>4. ~Traded(o) /\ ~Executed(o) /\ virtual_trades' = virtual_trades
        /\ execution_orders' = execution_orders
             \cup {NewExecutionOrder(s)}
    BY <1>5, <1>c, <2>1 DEF SaveSandboxExecution, OrderConsistent
  <2>5. RecordedOutcome[o] = "none"
    BY <1>o, <2>4 DEF SingleOutcome
  <2>6. \A x \in Orders : Executed(x)' <=> (Executed(x) \/ x = o)
    <3> DEFINE row == NewExecutionOrder(s)
    <3>1. row.planned_order = o /\ \A e : e \in execution_orders' <=> e \in execution_orders \/ e = row
      BY <1>t, <2>1, <2>4, NewRows
    <3> HIDE DEF row
    <3> QED BY <3>1 DEF Executed
  <2>7. \A x \in Orders : Traded(x)' <=> Traded(x)
    BY <2>4 DEF Traded
  <2>8. RecordedOutcome' = [RecordedOutcome EXCEPT ![o] = "sandbox"]
    <3>1. \A x \in Orders : RecordedOutcome'[x] = IF x = o THEN "sandbox" ELSE RecordedOutcome[x]
      BY <1>o, <2>4, <2>6, <2>7 DEF SingleOutcome
    <3>2. RecordedOutcome' = [x \in Orders |-> RecordedOutcome'[x]] /\ RecordedOutcome = [x \in Orders |-> RecordedOutcome[x]]
      BY DEF RecordedOutcome
    <3> QED BY <3>1, <3>2
  <2> QED BY <2>2, <2>3, <2>5, <2>8, TradeMaps
<1>6. CASE SetConfirmationStatus(s)
  <2>1. PICK o \in Orders : o = session[s].order /\ planned_orders[o].status \in ManualStatus
    BY <1>6, <1>c DEF SetConfirmationStatus, SessionConsistent
  <2>2. PICK status \in {"APPROVED", "REJECTED"} : SetStatus(o, status)
    BY <1>6, <2>1 DEF SetConfirmationStatus
  <2>3. PlannedKind' = PlannedKind
    BY <1>status, <2>1, <2>2 DEF ManualStatus
  <2>4. RecordedOutcome' = RecordedOutcome
    BY <1>6, OutcomeKept DEF SetConfirmationStatus
  <2> QED BY <2>3, <2>4
<1> QED
  BY <1>1, <1>quiet, <1>2, <1>3, <1>4, <1>5, <1>6
     DEF SessionStep, UnchangedRows, BeginPlan, GetOrder, GetHeldOrder, Load, SkipExecutedOrder,
         HeldOrderConflict, EndCycle, ReadSettings, ReadLatestTrade, CountTrades, Evaluate,
         post_sandbox_order, IntegrityError, GetManualOrder, Fail

LEMMA InitMaps == Init => Ledger!Init
  BY DEF Init, Ledger!Init, PlannedKind, RecordedOutcome, Repeated, Traded, Executed

\* Whatever calls overlap, fail or retry, the component keeps the ledger's
\* promise: every step is a Plan, a Trade or leaves kinds and outcomes alone.
THEOREM Refinement == Spec => ImplementsLedger
<1>1. IInv /\ [Next]_vars => [Ledger!Next]_(Ledger!ledger)
  BY StepMaps
<1> QED BY InitMaps, Inductive, <1>1, PTL DEF Spec, ImplementsLedger, Ledger!Spec
============================================================================
