------------------------------ MODULE Rebalancing ------------------------------
(***************************************************************************)
(* A rebalance plan and what it is made from: the analysis that writes the *)
(* signals (app/signals/service.py), the optimizer, the planner and the    *)
(* service that runs them (app/portfolio/), against settings that an       *)
(* administrator changes meanwhile (AdminSettings).                        *)
(*                                                                         *)
(* A weight is in parts of Whole, an amount of money in parts of 1/Whole   *)
(* of a rouble: with the values of MCRebalancing every division is exact.  *)
(***************************************************************************)
EXTENDS AdminSettings, FiniteSets, FiniteSetsExt, SequencesExt

CONSTANTS
  Scores,      \* the final scores the signal engine gives
  Lot,         \* the lot of an instrument
  Portfolios,  \* external: what get_portfolio and get_last_prices may answer
  MaxPlans,    \* bound: plans created
  NoSignal, NoPlan, NotPlanning

ASSUME PlanAssumption ==
  /\ IsFiniteSet(Instruments)
  /\ Scores \subseteq Weights /\ NoSignal \notin Scores
  /\ Lot \in [Instruments -> Nat \ {0}]
  /\ MaxPlans \in Nat

\* Quantities and prices are whole numbers here; that they are of the right sign is left
\* to _validate.
ASSUME PortfolioAssumption ==
  Portfolios \subseteq [quantity : [Instruments -> Int], mark : [Instruments -> Int],
                       price : [Instruments -> Int], money : Int]

VARIABLES
  signals,  \* signals: the final score of the latest row of an instrument
  planning, \* the risk profile the create_plan in progress has read, or NotPlanning
  plan,     \* the last plan saved, with what it was computed from
  plans     \* history: how many were saved

vars == <<settings, signals, planning, plan, plans>>

\* A score below min_signal_score is taken as zero.
EligibleScore(i, item) == IF signals[i] >= item.min_signal_score THEN signals[i] ELSE 0

Asset(i, item, portfolio) ==
  [score |-> EligibleScore(i, item),
   value |-> portfolio.quantity[i] * portfolio.mark[i],
   lots |-> portfolio.quantity[i] \div Lot[i],
   price |-> portfolio.price[i],
   buy_enabled |-> item.buy_enabled, sell_enabled |-> item.sell_enabled,
   max_weight |-> item.max_weight, manual_target_weight |-> item.manual_target_weight,
   priority |-> item.priority]

AssetInput ==
  [score : Weights, value : Nat, lots : Nat, price : Nat, buy_enabled : BOOLEAN,
   sell_enabled : BOOLEAN, max_weight : Weights \cup {NoWeight},
   manual_target_weight : Weights \cup {NoWeight}, priority : Nat]

AllocationAction == {"BUY", "HOLD", "SELL"}

PlannedAllocation ==
  [action : AllocationAction, lots : Nat, target_weight : Weights]

TypeOK ==
  /\ SettingsTypeOK
  /\ signals \in [Instruments -> Scores \cup {NoSignal}]
  /\ planning \in RiskProfile \cup {NotPlanning}
  /\ plan # NoPlan =>
       /\ DOMAIN plan.assets \subseteq Instruments /\ DOMAIN plan.assets # {}
       /\ \A i \in DOMAIN plan.assets :
            plan.assets[i] \in AssetInput /\ plan.allocations[i] \in PlannedAllocation
       /\ plan.constraints \in RiskProfile
       /\ plan.cash_weight \in Weights
  /\ plans \in 0 .. MaxPlans

Init ==
  /\ SettingsInit
  /\ signals = [i \in Instruments |-> NoSignal]
  /\ planning = NotPlanning
  /\ plan = NoPlan
  /\ plans = 0

----------------------------------------------------------------------------
(* PortfolioOptimizer.optimize                                              *)

Least(a, b) == IF a <= b THEN a ELSE b
Most(a, b) == IF a >= b THEN a ELSE b

SumOf(f, S) == MapThenSumSet(LAMBDA i : f[i], S)

Investable(constraints) == Whole - constraints.min_cash_weight

\* Mutant of Cap: the position limit of the risk profile is forgotten.
CapOfItem(asset, constraints) ==
  IF asset.max_weight \in {NoWeight, 0} THEN Whole ELSE asset.max_weight

\* asset.max_weight or Decimal(1): a max_weight of zero is no limit either.
Cap(asset, constraints) ==
  Least(constraints.max_position_weight,
        IF asset.max_weight \in {NoWeight, 0} THEN Whole ELSE asset.max_weight)

Manual(assets) == {i \in DOMAIN assets : assets[i].manual_target_weight # NoWeight}

Candidates(assets) ==
  {i \in DOMAIN assets \ Manual(assets) : assets[i].buy_enabled /\ assets[i].score > 0}

\* Mutant of Valid: manual targets may add up to anything.
ValidAssets(assets, constraints) ==
  /\ constraints.max_position_weight > 0
  /\ \A i \in DOMAIN assets : assets[i].price > 0 /\ assets[i].value >= 0 /\ assets[i].lots >= 0

\* _validate: the conditions the settings and the broker's answers may fail.
Valid(assets, constraints) ==
  /\ constraints.max_position_weight > 0
  /\ \A i \in DOMAIN assets : assets[i].price > 0 /\ assets[i].value >= 0 /\ assets[i].lots >= 0
  /\ SumOf([i \in Manual(assets) |-> assets[i].manual_target_weight], Manual(assets))
       <= Investable(constraints)

\* Before the first round of the loop.
ManualWeights(assets, constraints) ==
  [i \in DOMAIN assets |->
     IF i \in Manual(assets)
     THEN Least(assets[i].manual_target_weight, Cap(assets[i], constraints)) ELSE 0]

\* What a round gives to the candidates below their cap: a share of what remains by
\* their scores, up to the cap.
Shares(weights, remaining, uncapped, assets, constraints) ==
  LET score_sum == SumOf([i \in uncapped |-> assets[i].score], uncapped)
      proposed(i) == (remaining * assets[i].score) \div score_sum
      capacity(i) == Cap(assets[i], constraints) - weights[i]
  IN [i \in uncapped |-> Least(proposed(i), Most(0, capacity(i)))]

\* Mutant of Uncapped: one round only, what the caps leave is not given to the others.
UncappedNone(weights, uncapped, assets, constraints) == {}

Uncapped(weights, uncapped, assets, constraints) ==
  {i \in uncapped : weights[i] < Cap(assets[i], constraints)}

\* The weights when the loop ends.
optimize(assets, constraints) ==
  LET manual == ManualWeights(assets, constraints)
      Distribution == [weights : [DOMAIN assets -> Nat], remaining : Int,
                       uncapped : SUBSET Candidates(assets)]
      Loop[d \in Distribution] ==
        LET share == Shares(d.weights, d.remaining, d.uncapped, assets, constraints)
            distributed == SumOf(share, d.uncapped)
            weights == [i \in DOMAIN assets |->
              d.weights[i] + IF i \in d.uncapped THEN share[i] ELSE 0]
        IN IF d.remaining <= 0 \/ d.uncapped = {} THEN d.weights
           ELSE IF distributed <= 0 THEN weights
           ELSE Loop[[weights |-> weights, remaining |-> d.remaining - distributed,
                      uncapped |-> Uncapped(weights, d.uncapped, assets, constraints)]]
  IN Loop[[weights |-> manual,
           remaining |-> Investable(constraints) - SumOf(manual, DOMAIN assets),
           uncapped |-> Candidates(assets)]]

CashWeight(weights) == Whole - SumOf(weights, DOMAIN weights)

----------------------------------------------------------------------------
(* RebalancePlanner.plan                                                    *)

\* sorted(..., reverse=True): the order of equal keys is that of the query, which
\* the database may choose.
Orders(assets, weights) ==
  LET Before(i, j) ==
        \/ assets[i].priority > assets[j].priority
        \/ assets[i].priority = assets[j].priority /\ weights[i] >= weights[j]
  IN {order \in SetToSeqs(DOMAIN assets) :
        \A m, n \in DOMAIN order : m < n => Before(order[m], order[n])}

Delta(asset, weight, total) == weight * total - asset.value * Whole

LotCost(i, asset) == asset.price * Lot[i]

\* Mutant of WholeLots: rounded up.
WholeLotsUp(amount, cost) == (amount + cost * Whole - 1) \div (cost * Whole)

\* to_integral_value(rounding=ROUND_FLOOR)
WholeLots(amount, cost) == amount \div (cost * Whole)

\* Mutant of Spend: the cash of an earlier buy is spent again.
SpendNothing(spendable, lots, cost) == spendable

Spend(spendable, lots, cost) == spendable - lots * cost * Whole

\* One target, with the cash that the targets before it have left.
Allocate(i, asset, weight, total, threshold, spendable) ==
  LET delta == Delta(asset, weight, total)
      cost == LotCost(i, asset)
      buy == WholeLots(Least(delta, spendable), cost)
      sell == Least(asset.lots, WholeLots(-delta, cost))
      beyond == Most(delta, -delta) >= threshold * total
      Action(action, lots) == [action |-> action, lots |-> lots, target_weight |-> weight]
  IN CASE beyond /\ delta > 0 /\ asset.buy_enabled /\ buy > 0 -> Action("BUY", buy)
       [] beyond /\ delta < 0 /\ asset.sell_enabled /\ sell > 0 -> Action("SELL", sell)
       [] OTHER -> Action("HOLD", 0)

\* The allocations of all targets, in an order.
Allocations(assets, weights, order, constraints, total, cash) ==
  LET Step(done, i) ==
        LET a == Allocate(i, assets[i], weights[i], total,
                          constraints.rebalance_threshold_percent, done.spendable)
        IN [spendable |-> IF a.action = "BUY"
                          THEN Spend(done.spendable, a.lots, LotCost(i, assets[i]))
                          ELSE done.spendable,
            allocations |-> [done.allocations EXCEPT ![i] = a]]
      first == [spendable |-> Most(0, cash * Whole - total * CashWeight(weights)),
                allocations |-> [i \in DOMAIN assets |->
                  [action |-> "HOLD", lots |-> 0, target_weight |-> weights[i]]]]
  IN FoldLeft(Step, first, order).allocations

----------------------------------------------------------------------------
(* The services                                                             *)

\* total_amount: every position and the money of the account.
Total(portfolio) ==
  portfolio.money
    + SumOf([i \in Instruments |-> portfolio.quantity[i] * portfolio.mark[i]], Instruments)

\* SignalAnalysisService.run: a score for every row of the watchlist, or, when one
\* cannot be computed, nothing.
AnalyzeWatchlist ==
  /\ Watched # {}
  /\ \E score \in [Watched -> Scores] :
       signals' = [i \in Instruments |-> IF i \in Watched THEN score[i] ELSE signals[i]]
  /\ UNCHANGED <<settings, planning, plan, plans>>

\* create_plan: the first read.
get_risk_profile ==
  /\ planning = NotPlanning
  /\ planning' = risk
  /\ UNCHANGED <<settings, signals, plan, plans>>

\* The plan, with what the properties compare it to.
save_plan(assets, constraints, portfolio, weights, allocations) ==
  /\ plan' = [assets |-> assets, constraints |-> constraints, portfolio |-> portfolio,
              cash_weight |-> CashWeight(weights), allocations |-> allocations]
  /\ plans' = plans + 1

\* The rest of it: the watchlist, the broker's answers, the signals, the optimizer,
\* the planner and save_plan.
create_plan ==
  /\ planning # NotPlanning
  /\ Watched # {}
  /\ \A i \in Watched : signals[i] # NoSignal
  /\ \E portfolio \in Portfolios :
       LET assets == [i \in Watched |-> Asset(i, watchlist[i], portfolio)]
           total == Total(portfolio)
           cash == Most(0, total - SumOf([i \in Watched |-> assets[i].value], Watched))
           weights == optimize(assets, planning)
       IN /\ total > 0
          /\ Valid(assets, planning)
          /\ \E order \in Orders(assets, weights) :
               save_plan(assets, planning, portfolio, weights,
                         Allocations(assets, weights, order, planning, total, cash))
  /\ planning' = NotPlanning
  /\ UNCHANGED <<settings, signals>>

\* No watchlist, a signal that is missing, a broker that fails, targets that do not
\* fit: create_plan raises and saves nothing.
RaisePlan ==
  /\ planning # NotPlanning
  /\ planning' = NotPlanning
  /\ UNCHANGED <<settings, signals, plan, plans>>

\* Nothing is looked at after the last plan.
Next ==
  /\ plans < MaxPlans
  /\ \/ SettingsNext /\ UNCHANGED <<signals, planning, plan, plans>>
     \/ AnalyzeWatchlist
     \/ get_risk_profile
     \/ create_plan
     \/ RaisePlan

Spec == Init /\ [][Next]_vars

----------------------------------------------------------------------------
WeightOf(i) == plan.allocations[i].target_weight
Targets == DOMAIN plan.assets
CapOf(i) == Cap(plan.assets[i], plan.constraints)

\* The cash reserve and both limits of a position are kept by every plan, and only
\* an administrator's own target or an eligible signal gives a weight: README.md:133-134
\* promises it of the optimizer.  A max_weight of zero is left out (Cap).
TargetsWithinLimits ==
  plan # NoPlan =>
    /\ plan.cash_weight >= plan.constraints.min_cash_weight
    /\ \A i \in Targets :
         /\ WeightOf(i) <= plan.constraints.max_position_weight
         /\ plan.assets[i].max_weight \notin {NoWeight, 0}
              => WeightOf(i) <= plan.assets[i].max_weight
         /\ WeightOf(i) > 0 =>
              i \in Manual(plan.assets) \cup Candidates(plan.assets)

\* What the rounds of the optimizer converge to: who is below its cap has at least the
\* share of its score in what any other candidate got, and while one is below
\* its cap all that may be invested is.
FairShares ==
  plan # NoPlan =>
    LET candidates == Candidates(plan.assets)
        below == {i \in candidates : WeightOf(i) < CapOf(i)}
    IN /\ \A i \in below, j \in candidates :
            WeightOf(j) * plan.assets[i].score <= WeightOf(i) * plan.assets[j].score
       /\ below # {} => plan.cash_weight = plan.constraints.min_cash_weight

Bought == {i \in Targets : plan.allocations[i].action = "BUY"}

\* All buys of a plan together leave the cash reserve in the account, and no sale is
\* of more than is held; the positions are all of the watchlist, as create_plan
\* takes the value of any other for cash.
PlanAffordable ==
  plan # NoPlan =>
    LET portfolio == plan.portfolio
        spent == SumOf([i \in Bought |->
                   plan.allocations[i].lots * LotCost(i, plan.assets[i])], Bought)
    IN /\ (Bought # {} /\ \A i \in Instruments \ Targets : portfolio.quantity[i] = 0)
            => (portfolio.money - spent) * Whole
                 >= Total(portfolio) * plan.constraints.min_cash_weight
       /\ \A i \in Targets : plan.allocations[i].action = "SELL"
            => plan.allocations[i].lots * Lot[i] <= portfolio.quantity[i]

\* The account when the orders of the plan were filled at the prices of the plan.
Filled ==
  LET sign(i) == CASE plan.allocations[i].action = "BUY" -> 1
                   [] plan.allocations[i].action = "SELL" -> -1
                   [] OTHER -> 0
      filled(i) == IF i \in Targets THEN sign(i) * plan.allocations[i].lots ELSE 0
  IN [i \in Instruments |-> plan.portfolio.quantity[i] + filled(i) * Lot[i]]

\* A plan that follows one whose orders were filled, at the same prices and settings,
\* never takes a trade back.
NoReversal ==
  (plan # NoPlan /\ plan.portfolio.mark = plan.portfolio.price) =>
    LET weights == [i \in Targets |-> WeightOf(i)]
        total == Total(plan.portfolio)
        next == [i \in Targets |->
          [plan.assets[i] EXCEPT !.value = Filled[i] * plan.portfolio.mark[i],
                                 !.lots = Filled[i] \div Lot[i]]]
        cash == Most(0, total - SumOf([i \in Targets |-> next[i].value], Targets))
    IN \A order \in Orders(next, weights) :
         LET again == Allocations(next, weights, order, plan.constraints, total, cash)
         IN \A i \in Targets :
              {plan.allocations[i].action, again[i].action} # {"BUY", "SELL"}
=============================================================================
