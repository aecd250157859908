----------------------------- MODULE Execution -----------------------------
(***************************************************************************)
(* The life of planned orders: app/execution (service, repository, planner,*)
(* risk) as it is called by concurrent HTTP requests of the admin API and  *)
(* by the worker's automation cycle.                                       *)
(*                                                                         *)
(* A session stands for one SQLAlchemy AsyncSession and the coroutine that *)
(* uses it.  A request's session is new for every call; a cycle's session  *)
(* lives for the whole cycle, and because sessions are made with           *)
(* expire_on_commit=False its identity map keeps the SystemSettings row and*)
(* the PlannedOrder rows it has loaded: later SELECTs return the objects   *)
(* with the attributes first read.  PostgreSQL runs READ COMMITTED, so a   *)
(* step below is one statement, or a group of statements no other session  *)
(* can tell apart, or one commit.                                          *)
(***************************************************************************)
EXTENDS Integers, FiniteSets

CONSTANTS
  Orders,            \* idempotency keys: plan, instrument and direction
  Plans,             \* rebalance plans
  Instruments,
  Directions,
  PlanOf,            \* Orders -> Plans
  InstrumentOf,      \* Orders -> Instruments
  DirectionOf,       \* Orders -> Directions
  Sessions,          \* database sessions that may be busy at the same time
  CycleSessions,     \* those that belong to an automation cycle
  Modes,             \* the trade modes the administrator switches between
  SandboxConfigured, \* BROKER_PROVIDER=tinvest and TINVEST_TARGET=sandbox
  MaxDailyTrades,    \* RiskProfile.max_daily_trades
  Cooldown,          \* RiskProfile.trade_cooldown_seconds, in clock ticks
  DayLength,         \* ticks from one midnight to the next
  MaxTime,           \* bound: last tick of the clock
  MaxCallTicks,      \* bound: ticks one execute call may last
  MaxPosts,          \* bound: posts of one order to the broker
  Failures,          \* whether a session may fail or crash at any step
  NoOrder, NoPlan

TradeModes ==
  {"OFF", "SIGNAL_ONLY", "DRY_RUN", "SANDBOX", "REAL_MANUAL_CONFIRM", "REAL_AUTO_SAFE"}

\* The modes in which an order may be executed, and those plan_orders accepts.
ExecutableModes == {"DRY_RUN", "SANDBOX"}
PlannableModes == ExecutableModes \cup {"REAL_MANUAL_CONFIRM"}

PlannedOrderStatus ==
  {"PLANNED", "RISK_REJECTED", "SIMULATED", "SUBMITTED",
   "WAITING_CONFIRMATION", "APPROVED", "REJECTED"}

Time == 0 .. MaxTime

ASSUME ExecutionAssumption ==
  /\ IsFiniteSet(Orders) /\ NoOrder \notin Orders /\ NoPlan \notin Plans
  /\ PlanOf \in [Orders -> Plans]
  /\ InstrumentOf \in [Orders -> Instruments]
  /\ DirectionOf \in [Orders -> Directions]
  /\ IsFiniteSet(Sessions) /\ CycleSessions \subseteq Sessions
  /\ Modes \subseteq TradeModes
  /\ SandboxConfigured \in BOOLEAN /\ Failures \in BOOLEAN
  /\ MaxDailyTrades \in Nat /\ Cooldown \in Nat
  /\ DayLength \in Nat \ {0}
  /\ MaxTime \in Nat /\ MaxCallTicks \in Nat /\ MaxPosts \in Nat

VARIABLES
  system_settings,   \* the row of table system_settings
  planned_orders,    \* table planned_orders, by idempotency key
  virtual_trades,    \* rows of table virtual_trades
  execution_orders,  \* rows of table execution_orders
  posts,             \* external: orders the broker received, by order_id
  lost,              \* history: posts of calls that then failed to record them
  session,           \* what each session is doing
  now,               \* the clock
  barred             \* history: calls during which trading was never allowed

vars == <<system_settings, planned_orders, virtual_trades, execution_orders,
          posts, lost, session, now, barred>>

SystemSettings == [kill_switch : BOOLEAN, trade_mode : TradeModes]

\* "ABSENT": the row has not been inserted.
PlannedOrder ==
  [status : PlannedOrderStatus \cup {"ABSENT"}, trade_mode : TradeModes]

\* executed_at and created_at default to now(), which is the time the
\* transaction began.  nr stands for the primary key, which tells two rows of
\* one order apart: 1 in an order's first row, 2 in any later one.
VirtualTrade == [planned_order : Orders, executed_at : Time, nr : {1, 2}]
ExecutionOrder == [planned_order : Orders, created_at : Time, nr : {1, 2}]

Steps ==
  {"idle", "planning", "looping", "loaded", "authorised", "dated", "counted",
   "allowed", "refused", "posted", "approving", "rejecting"}

InCall == {"loaded", "authorised", "dated", "counted", "allowed", "refused", "posted"}

\* held: the orders of the cycle still to execute, with the status they had
\* when the cycle's session loaded them; "ABSENT" for all other orders.
SessionState ==
  [pc : Steps, plan : Plans \cup {NoPlan}, order : Orders \cup {NoOrder},
   settings : SystemSettings, required : ExecutableModes,
   begun : Time, read_at : Time, cooldown_active : BOOLEAN, limit_reached : BOOLEAN,
   held : [Orders -> PlannedOrderStatus \cup {"ABSENT"}]]

SeedSettings == [kill_switch |-> TRUE, trade_mode |-> "OFF"]

IdleSession ==
  [pc |-> "idle", plan |-> NoPlan, order |-> NoOrder,
   settings |-> SeedSettings, required |-> "DRY_RUN",
   begun |-> 0, read_at |-> 0, cooldown_active |-> FALSE, limit_reached |-> FALSE,
   held |-> [o \in Orders |-> "ABSENT"]]

Init ==
  /\ system_settings = SeedSettings
  /\ planned_orders = [o \in Orders |-> [status |-> "ABSENT", trade_mode |-> "OFF"]]
  /\ virtual_trades = {}
  /\ execution_orders = {}
  /\ posts = [o \in Orders |-> 0]
  /\ lost = [o \in Orders |-> 0]
  /\ session = [s \in Sessions |-> IdleSession]
  /\ now = 0
  /\ barred = {}

----------------------------------------------------------------------------
(* Queries                                                                  *)

Traded(o) == \E t \in virtual_trades : t.planned_order = o
Executed(o) == \E e \in execution_orders : e.planned_order = o

midnight(t) == t - (t % DayLength)

\* Both tables, whatever the mode: count_trades_since.
count_trades_since(since) ==
  Cardinality({t \in virtual_trades : t.executed_at >= since})
    + Cardinality({e \in execution_orders : e.created_at >= since})

\* Mutant of CooldownActive: forgets the execution orders.
CooldownActiveVirtualOnly(i) ==
  \E t \in virtual_trades :
    InstrumentOf[t.planned_order] = i /\ now - t.executed_at < Cooldown

\* latest_trade_time is not None and now - latest_trade_time < cooldown.
CooldownActive(i) ==
  \/ \E t \in virtual_trades :
       InstrumentOf[t.planned_order] = i /\ now - t.executed_at < Cooldown
  \/ \E e \in execution_orders :
       InstrumentOf[e.planned_order] = i /\ now - e.created_at < Cooldown

has_duplicate_order(o) ==
  \E d \in Orders \ {o} :
    /\ InstrumentOf[d] = InstrumentOf[o] /\ DirectionOf[d] = DirectionOf[o]
    /\ planned_orders[d].status = "PLANNED"

\* What the code answers from an earlier call: the virtual trade or the
\* execution order of this order.
ExistingResult(o, required) ==
  IF required = "DRY_RUN" THEN Traded(o) ELSE Executed(o)

Permits(settings, required) ==
  ~settings.kill_switch /\ settings.trade_mode = required

\* What SELECT system_settings gives a session: a request reads the row, a cycle
\* gets the object that is in its identity map since it began.
get_settings(s) ==
  IF s \in CycleSessions THEN session[s].settings ELSE system_settings

KeptSettings(s) ==
  IF s \in CycleSessions THEN session[s].settings ELSE SeedSettings

\* Mutants of initial_order_status: a manual order is planned like any other,
\* or gets the status of another table.
initial_order_status_unconfirmed(mode) == "PLANNED"
initial_order_status_foreign(mode) == "PENDING"

initial_order_status(mode) ==
  IF mode = "REAL_MANUAL_CONFIRM" THEN "WAITING_CONFIRMATION" ELSE "PLANNED"

----------------------------------------------------------------------------
(* Helpers of the actions                                                   *)

AtStep(s, pc) == session[s].pc = pc

\* The session is closed: what it holds is gone, what it did not commit too.
CloseSession(s) ==
  /\ session' = [session EXCEPT ![s] = IdleSession]
  /\ barred' = barred \ {s}

\* The call of one order returns: a request is over, a cycle goes on with the
\* orders it still holds.
ReturnFromCall(s) ==
  /\ barred' = barred \ {s}
  /\ session' = [session EXCEPT ![s] =
       IF s \in CycleSessions
         THEN [IdleSession EXCEPT !.pc = "looping", !.settings = session[s].settings,
                 !.required = session[s].required,
                 !.held = [session[s].held EXCEPT ![session[s].order] = "ABSENT"]]
         ELSE IdleSession]

\* Mutant of SetStatus: the row is added without the status.
SetStatusForgotten(o, status) == planned_orders' = planned_orders

SetStatus(o, status) ==
  planned_orders' = [planned_orders EXCEPT ![o].status = status]

UnchangedRows ==
  UNCHANGED <<planned_orders, virtual_trades, execution_orders, posts, lost>>

----------------------------------------------------------------------------
(* Planning: POST /rebalance-plans/{plan_id}/execution-plan, and the cycle  *)

\* plan_orders up to the mode checks.  A cycle has passed its safety check on
\* the same settings row, which its session keeps.
BeginPlan(s, p) ==
  /\ AtStep(s, "idle")
  /\ system_settings.trade_mode \in PlannableModes
  /\ system_settings.trade_mode = "SANDBOX" => SandboxConfigured
  /\ s \in CycleSessions => ~system_settings.kill_switch
  /\ session' = [session EXCEPT ![s] =
       [IdleSession EXCEPT !.pc = "planning", !.plan = p, !.settings = system_settings]]
  /\ UNCHANGED <<system_settings, now, barred>> /\ UnchangedRows

\* save_orders: an order whose idempotency key exists is returned as it is,
\* the others are inserted; one commit.  The cycle then holds the returned
\* orders, unless the mode is manual confirmation, where it executes nothing.
SaveOrders(s) ==
  LET mode == session[s].settings.trade_mode
      planned == [o \in Orders |->
        IF PlanOf[o] = session[s].plan /\ planned_orders[o].status = "ABSENT"
          THEN [status |-> initial_order_status(mode), trade_mode |-> mode]
          ELSE planned_orders[o]]
      held == [o \in Orders |->
        IF PlanOf[o] = session[s].plan THEN planned[o].status ELSE "ABSENT"]
  IN /\ AtStep(s, "planning")
     /\ planned_orders' = planned
     /\ session' = [session EXCEPT ![s] =
          IF s \in CycleSessions /\ mode \in ExecutableModes
            THEN [IdleSession EXCEPT !.pc = "looping", !.settings = session[s].settings,
                    !.required = mode, !.held = held]
            ELSE IdleSession]
     /\ UNCHANGED <<system_settings, virtual_trades, execution_orders, posts, lost, now, barred>>

----------------------------------------------------------------------------
(* execute and execute_sandbox, up to the risk decision                     *)

\* The call goes on with an order that is PLANNED as far as this session
\* knows.  The transaction begins with this first statement.
Load(s, o, required) ==
  /\ session' = [session EXCEPT ![s] =
       [@ EXCEPT !.pc = "loaded", !.order = o, !.required = required, !.begun = now]]
  /\ barred' = IF Permits(system_settings, required) THEN barred ELSE barred \cup {s}
  /\ UNCHANGED <<system_settings, now>> /\ UnchangedRows

\* Mutant of GetOrder: a refused order may be executed again.
GetOrderRefused(s, o, required) ==
  /\ AtStep(s, "idle") /\ s \notin CycleSessions
  /\ required = "SANDBOX" => SandboxConfigured
  /\ ~ExistingResult(o, required)
  /\ planned_orders[o].status \in {"PLANNED", "RISK_REJECTED"}
  /\ Load(s, o, required)

\* A request.  With an existing result, or from another status, the call
\* returns or raises and changes nothing.
GetOrder(s, o, required) ==
  /\ AtStep(s, "idle") /\ s \notin CycleSessions
  /\ required = "SANDBOX" => SandboxConfigured
  /\ ~ExistingResult(o, required)
  /\ planned_orders[o].status = "PLANNED"
  /\ Load(s, o, required)

\* The cycle's next order.  virtual_trade and execution_orders are read from
\* the database, the status from the object the session holds.
GetHeldOrder(s, o) ==
  /\ AtStep(s, "looping") /\ session[s].held[o] = "PLANNED"
  /\ ~ExistingResult(o, session[s].required)
  /\ Load(s, o, session[s].required)

\* An order executed by someone else in the meantime is skipped.
SkipExecutedOrder(s, o) ==
  /\ AtStep(s, "looping") /\ session[s].held[o] # "ABSENT"
  /\ ExistingResult(o, session[s].required)
  /\ session' = [session EXCEPT ![s].held[o] = "ABSENT"]
  /\ UNCHANGED <<system_settings, now, barred>> /\ UnchangedRows

\* The conflict raised for an order of another status ends the cycle.
HeldOrderConflict(s, o) ==
  /\ AtStep(s, "looping") /\ session[s].held[o] \notin {"ABSENT", "PLANNED"}
  /\ ~ExistingResult(o, session[s].required)
  /\ CloseSession(s)
  /\ UNCHANGED <<system_settings, now>> /\ UnchangedRows

EndCycle(s) ==
  /\ AtStep(s, "looping") /\ \A o \in Orders : session[s].held[o] = "ABSENT"
  /\ CloseSession(s)
  /\ UNCHANGED <<system_settings, now>> /\ UnchangedRows

\* _build_risk_context begins with the settings.
ReadSettings(s) ==
  /\ AtStep(s, "loaded")
  /\ session' = [session EXCEPT ![s] =
       [@ EXCEPT !.pc = "authorised",
                 !.settings = get_settings(s)]]
  /\ UNCHANGED <<system_settings, now, barred>> /\ UnchangedRows

\* latest_trade_time of the instrument, then the clock.
ReadLatestTrade(s) ==
  /\ AtStep(s, "authorised")
  /\ session' = [session EXCEPT ![s] =
       [@ EXCEPT !.pc = "dated", !.read_at = now,
                 !.cooldown_active = CooldownActive(InstrumentOf[session[s].order])]]
  /\ UNCHANGED <<system_settings, now, barred>> /\ UnchangedRows

\* Mutant of CountTrades: > instead of >=.
CountTradesOffByOne(s) ==
  /\ AtStep(s, "dated")
  /\ session' = [session EXCEPT ![s] =
       [@ EXCEPT !.pc = "counted",
                 !.limit_reached =
                    count_trades_since(midnight(session[s].read_at)) > MaxDailyTrades]]
  /\ UNCHANGED <<system_settings, now, barred>> /\ UnchangedRows

\* count_trades_since the midnight before the clock reading.
CountTrades(s) ==
  /\ AtStep(s, "dated")
  /\ session' = [session EXCEPT ![s] =
       [@ EXCEPT !.pc = "counted",
                 !.limit_reached =
                    count_trades_since(midnight(session[s].read_at)) >= MaxDailyTrades]]
  /\ UNCHANGED <<system_settings, now, barred>> /\ UnchangedRows

\* Mutants of RiskAllows: the rule on the settings, or on the order's mode, is
\* missing.
RiskAllowsUnsafe(s) ==
  LET o == session[s].order IN
  /\ planned_orders[o].trade_mode = session[s].required
  /\ ~session[s].limit_reached
  /\ ~session[s].cooldown_active
  /\ ~has_duplicate_order(o)
RiskAllowsAnyMode(s) ==
  LET o == session[s].order IN
  /\ Permits(session[s].settings, session[s].required)
  /\ ~session[s].limit_reached
  /\ ~session[s].cooldown_active
  /\ ~has_duplicate_order(o)

\* RiskManager.evaluate on the context read so far.
RiskAllows(s) ==
  LET o == session[s].order IN
  /\ Permits(session[s].settings, session[s].required)
  /\ planned_orders[o].trade_mode = session[s].required
  /\ ~session[s].limit_reached
  /\ ~session[s].cooldown_active
  /\ ~has_duplicate_order(o)

\* has_duplicate_order completes the context.  The rules about the account,
\* the watchlist, the broker's answers and the amounts may refuse any order.
\* The context is dropped once the decision is made.
Evaluate(s) ==
  /\ AtStep(s, "counted")
  /\ \E pc \in {"allowed", "refused"} :
       /\ pc = "allowed" => RiskAllows(s)
       /\ session' = [session EXCEPT ![s] =
            [@ EXCEPT !.pc = pc, !.read_at = 0, !.cooldown_active = FALSE, !.limit_reached = FALSE,
                      !.settings = KeptSettings(s)]]
  /\ UNCHANGED <<system_settings, now, barred>> /\ UnchangedRows

----------------------------------------------------------------------------
(* The outcome of the call                                                  *)

NewVirtualTrade(s) ==
  [planned_order |-> session[s].order, executed_at |-> session[s].begun,
   nr |-> IF Traded(session[s].order) THEN 2 ELSE 1]

NewExecutionOrder(s) ==
  [planned_order |-> session[s].order, created_at |-> session[s].begun,
   nr |-> IF Executed(session[s].order) THEN 2 ELSE 1]

\* repository.reject writes the status whatever the row holds by now, and the
\* RiskRejectedError that follows ends the request or the whole cycle.
Reject(s) ==
  /\ AtStep(s, "refused")
  /\ SetStatus(session[s].order, "RISK_REJECTED")
  /\ CloseSession(s)
  /\ UNCHANGED <<system_settings, virtual_trades, execution_orders, posts, lost, now>>

\* Mutant of Simulate: without the unique index on planned_order_id.
SimulateTwice(s) ==
  LET o == session[s].order IN
  /\ AtStep(s, "allowed") /\ session[s].required = "DRY_RUN"
  /\ virtual_trades' = virtual_trades \cup {NewVirtualTrade(s)}
  /\ SetStatus(o, "SIMULATED")
  /\ ReturnFromCall(s)
  /\ UNCHANGED <<system_settings, execution_orders, posts, lost, now>>

\* repository.simulate: the virtual trade and the status in one commit.
Simulate(s) ==
  LET o == session[s].order IN
  /\ AtStep(s, "allowed") /\ session[s].required = "DRY_RUN"
  /\ ~Traded(o)
  /\ virtual_trades' = virtual_trades \cup {NewVirtualTrade(s)}
  /\ SetStatus(o, "SIMULATED")
  /\ ReturnFromCall(s)
  /\ UNCHANGED <<system_settings, execution_orders, posts, lost, now>>

\* The broker receives the order; the transaction stays open meanwhile.
post_sandbox_order(s) ==
  LET o == session[s].order IN
  /\ AtStep(s, "allowed") /\ session[s].required = "SANDBOX"
  /\ posts[o] < MaxPosts
  /\ posts' = [posts EXCEPT ![o] = @ + 1]
  /\ session' = [session EXCEPT ![s].pc = "posted"]
  /\ UNCHANGED <<system_settings, planned_orders, virtual_trades, execution_orders,
                 lost, now, barred>>

\* Mutant of SaveSandboxExecution: the session is closed without a commit.
SaveSandboxExecutionUncommitted(s) ==
  /\ AtStep(s, "posted")
  /\ ReturnFromCall(s)
  /\ UNCHANGED <<system_settings, now>> /\ UnchangedRows

\* repository.save_sandbox_execution: execution order and status, one commit.
SaveSandboxExecution(s) ==
  LET o == session[s].order IN
  /\ AtStep(s, "posted")
  /\ ~Executed(o)
  /\ execution_orders' = execution_orders \cup {NewExecutionOrder(s)}
  /\ SetStatus(o, "SUBMITTED")
  /\ ReturnFromCall(s)
  /\ UNCHANGED <<system_settings, virtual_trades, posts, lost, now>>

\* The unique index on planned_order_id refuses a second row: IntegrityError,
\* the transaction is rolled back and the status write with it.
RowExists(s) ==
  \/ AtStep(s, "allowed") /\ session[s].required = "DRY_RUN" /\ Traded(session[s].order)
  \/ AtStep(s, "posted") /\ Executed(session[s].order)

IntegrityError(s) ==
  /\ RowExists(s)
  /\ CloseSession(s)
  /\ UNCHANGED <<system_settings, now>> /\ UnchangedRows

\* A broker error, a timeout, a lost answer to the post, a cancelled job or a
\* crash at any await: the session goes away with what it had not committed.
\* The broker keeps what it was posted.
Fail(s) ==
  /\ Failures /\ ~AtStep(s, "idle")
  /\ CloseSession(s)
  /\ lost' = IF AtStep(s, "posted") THEN [lost EXCEPT ![session[s].order] = @ + 1] ELSE lost
  /\ UNCHANGED <<system_settings, planned_orders, virtual_trades, execution_orders, posts, now>>

----------------------------------------------------------------------------
(* Manual confirmation, and the administrator                               *)

Confirmable(pc) ==
  IF pc = "approving" THEN {"WAITING_CONFIRMATION"} ELSE {"WAITING_CONFIRMATION", "APPROVED"}

\* approve and reject up to their status check.
GetManualOrder(s, o, pc) ==
  /\ AtStep(s, "idle") /\ s \notin CycleSessions
  /\ planned_orders[o].trade_mode = "REAL_MANUAL_CONFIRM"
  /\ system_settings.trade_mode = "REAL_MANUAL_CONFIRM"
  /\ planned_orders[o].status \in Confirmable(pc)
  /\ session' = [session EXCEPT ![s] = [@ EXCEPT !.pc = pc, !.order = o]]
  /\ UNCHANGED <<system_settings, now, barred>> /\ UnchangedRows

\* set_confirmation_status writes what was decided on the status read before.
SetConfirmationStatus(s) ==
  /\ session[s].pc \in {"approving", "rejecting"}
  /\ SetStatus(session[s].order,
       IF AtStep(s, "approving") THEN "APPROVED" ELSE "REJECTED")
  /\ CloseSession(s)
  /\ UNCHANGED <<system_settings, virtual_trades, execution_orders, posts, lost, now>>

\* update_system_settings: the kill switch or the mode, in one commit.
UpdateSystemSettings(settings) ==
  /\ settings # system_settings
  /\ system_settings' = settings
  /\ barred' = {s \in barred : ~Permits(settings, session[s].required)}
  /\ UNCHANGED <<session, now>> /\ UnchangedRows

\* No call lasts longer than MaxCallTicks: its statements and broker reads
\* have deadlines.
Tick ==
  /\ now < MaxTime
  /\ \A s \in Sessions : session[s].pc \in InCall => now - session[s].begun < MaxCallTicks
  /\ now' = now + 1
  /\ UNCHANGED <<system_settings, session, barred>> /\ UnchangedRows

----------------------------------------------------------------------------
SessionStep(s) ==
  \/ \E p \in Plans : BeginPlan(s, p)
  \/ SaveOrders(s)
  \/ \E o \in Orders, required \in ExecutableModes : GetOrder(s, o, required)
  \/ \E o \in Orders : GetHeldOrder(s, o)
  \/ \E o \in Orders : SkipExecutedOrder(s, o)
  \/ \E o \in Orders : HeldOrderConflict(s, o)
  \/ EndCycle(s)
  \/ ReadSettings(s)
  \/ ReadLatestTrade(s)
  \/ CountTrades(s)
  \/ Evaluate(s)
  \/ Reject(s)
  \/ Simulate(s)
  \/ post_sandbox_order(s)
  \/ SaveSandboxExecution(s)
  \/ IntegrityError(s)
  \/ \E o \in Orders, pc \in {"approving", "rejecting"} : GetManualOrder(s, o, pc)
  \/ SetConfirmationStatus(s)
  \/ Fail(s)

Next ==
  \/ \E s \in Sessions : SessionStep(s)
  \/ \E kill_switch \in BOOLEAN, trade_mode \in Modes :
       UpdateSystemSettings([kill_switch |-> kill_switch, trade_mode |-> trade_mode])
  \/ Tick

Spec == Init /\ [][Next]_vars

----------------------------------------------------------------------------
(* Properties                                                               *)

\* Type invariant: every variable holds values of its table or record type.
TypeOK ==
  /\ system_settings \in SystemSettings
  /\ planned_orders \in [Orders -> PlannedOrder]
  /\ virtual_trades \subseteq VirtualTrade
  /\ execution_orders \subseteq ExecutionOrder
  /\ posts \in [Orders -> 0 .. MaxPosts]
  /\ lost \in [Orders -> Nat]
  /\ session \in [Sessions -> SessionState]
  /\ now \in Time
  /\ barred \subseteq Sessions

\* However calls interleave, status and rows of an order tell one story:
\* SIMULATED and SUBMITTED always have their row, and a row belongs to an order
\* of the row's mode that shows its outcome, or RISK_REJECTED when a concurrent
\* call's blind status write came last (repository.reject).
StatusAgreesWithRows ==
  \A o \in Orders :
    LET status == planned_orders[o].status
        mode == planned_orders[o].trade_mode
    IN /\ status = "SIMULATED" => Traded(o)
       /\ status = "SUBMITTED" => Executed(o)
       /\ Traded(o) => mode = "DRY_RUN" /\ status \in {"SIMULATED", "RISK_REJECTED"}
       /\ Executed(o) => mode = "SANDBOX" /\ status \in {"SUBMITTED", "RISK_REJECTED"}

\* An order yields at most one trade: one virtual trade or one execution order,
\* never both and never two, whoever calls execute or execute_sandbox.
OneRowPerOrder ==
  /\ \A t, u \in virtual_trades : t.planned_order = u.planned_order => t = u
  /\ \A e, f \in execution_orders : e.planned_order = f.planned_order => e = f
  /\ \A o \in Orders : ~(Traded(o) /\ Executed(o))

\* An order planned for manual confirmation never reaches the broker, a trade
\* or a risk decision, even when the mode is switched afterwards: approving it
\* changes its status and nothing else.
ManualOrdersNeverTrade ==
  \A o \in Orders :
    planned_orders[o].trade_mode = "REAL_MANUAL_CONFIRM" =>
      /\ posts[o] = 0 /\ ~Traded(o) /\ ~Executed(o)
      /\ planned_orders[o].status \in {"WAITING_CONFIRMATION", "APPROVED", "REJECTED"}

\* The final check of a request honours the kill switch and the mode: a request
\* during which the stored settings never permitted trading in its mode is not
\* allowed and posts nothing (_build_risk_context, RiskManager.evaluate).
RequestsRecheckSafety ==
  \A s \in barred \ CycleSessions : session[s].pc \notin {"allowed", "posted"}

\* "Dry-run executor перед каждой виртуальной сделкой повторно проверяет kill
\* switch, режим" (README.md:138): so does every call, a cycle's too.
SafetyRecheck ==
  \A s \in barred : session[s].pc \notin {"allowed", "posted"}

TradesOf(day) ==
  Cardinality({t \in virtual_trades : midnight(t.executed_at) = day})
    + Cardinality({e \in execution_orders : midnight(e.created_at) = day})

\* The daily limit is checked before the commit that uses it up, and a row is
\* dated by the start of its transaction, so a day can exceed the limit, but by
\* no more than two trades per concurrent session, less one: the calls in
\* flight when the limit is reached, and those in flight at midnight.
DailyOverrunBounded ==
  \A day \in {midnight(t) : t \in Time} :
    TradesOf(day) <= MaxDailyTrades + 2 * Cardinality(Sessions) - 1

RowTimes(i) ==
  {t.executed_at : t \in {u \in virtual_trades : InstrumentOf[u.planned_order] = i}}
    \cup {e.created_at : e \in {f \in execution_orders : InstrumentOf[f.planned_order] = i}}

Rows(i) ==
  Cardinality({t \in virtual_trades : InstrumentOf[t.planned_order] = i})
    + Cardinality({e \in execution_orders : InstrumentOf[e.planned_order] = i})

\* Calls made one after the other keep the cooldown: the trades recorded for an
\* instrument are Cooldown apart, less the length of one call, because a row
\* is dated by the start of its call and the cooldown is read later in it.
CooldownRespected ==
  \A i \in Instruments :
    /\ Cooldown > MaxCallTicks => Rows(i) = Cardinality(RowTimes(i))
    /\ \A t, u \in RowTimes(i) : t < u => u - t >= Cooldown - MaxCallTicks

Posting(o) == {s \in Sessions : AtStep(s, "posted") /\ session[s].order = o}

\* Every order the broker received is accounted for, whatever calls fail or
\* overlap: until an order is recorded, each of its posts is in the hands of a
\* call still to save it, or was lost by a call that failed after it; and a
\* recorded order has been posted once by every session at most, beside the
\* lost posts, for the look-up of execute_sandbox ends the repetition.
PostsAccounted ==
  \A o \in Orders :
    IF Executed(o) THEN posts[o] <= lost[o] + Cardinality(Sessions)
                   ELSE posts[o] = lost[o] + Cardinality(Posting(o))

\* No call on the order is under way and no cycle holds it as PLANNED.
Quiet(o) ==
  \A s \in Sessions :
    /\ session[s].pc \in InCall => session[s].order # o
    /\ session[s].held[o] # "PLANNED"

\* A refusal is final once the calls that overlapped it are over: no request,
\* cycle, new plan, mode switch or failure then brings the order back into a
\* call or gives it another status (execute's status check, save_orders).
RefusalIsFinal ==
  [][\A o \in Orders :
       planned_orders[o].status = "RISK_REJECTED" /\ Quiet(o)
         => planned_orders'[o].status = "RISK_REJECTED" /\ Quiet(o)']_vars

----------------------------------------------------------------------------
(* The promise this module keeps: OrderLedger, an order by its kind and its *)
(* outcome.                                                                 *)

KindOf(mode) ==
  CASE mode = "DRY_RUN" -> "virtual"
    [] mode = "SANDBOX" -> "sandbox"
    [] OTHER -> "manual"

PlannedKind ==
  [o \in Orders |-> IF planned_orders[o].status = "ABSENT" THEN "unplanned"
                   ELSE KindOf(planned_orders[o].trade_mode)]

\* The order has more than one row.
Repeated(o) ==
  \/ \E t, u \in virtual_trades : t # u /\ t.planned_order = o /\ u.planned_order = o
  \/ \E e, f \in execution_orders : e # f /\ e.planned_order = o /\ f.planned_order = o
  \/ Traded(o) /\ Executed(o)

RecordedOutcome ==
  [o \in Orders |->
     IF Repeated(o) THEN "several"
     ELSE IF Traded(o) THEN "virtual" ELSE IF Executed(o) THEN "sandbox" ELSE "none"]

Ledger == INSTANCE OrderLedger WITH kind <- PlannedKind, outcome <- RecordedOutcome

\* Execution implements the ledger: whatever calls overlap, fail or retry, an
\* order is planned once, its kind never changes, and it gets at most one
\* outcome, that of its kind.
ImplementsLedger == Ledger!Spec
============================================================================
