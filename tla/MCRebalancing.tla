---------------------------- MODULE MCRebalancing ----------------------------
(***************************************************************************)
(* Values for the model checker.  Weights are multiples of a tenth, which  *)
(* the scores 1, 2 of three candidates divide exactly.                     *)
(***************************************************************************)
EXTENDS Rebalancing

CONSTANTS stock, fund, bond

Tenth(n) == n * (Whole \div 10)

Item(max, manual, priority) ==
  [buy_enabled |-> TRUE, sell_enabled |-> TRUE, max_weight |-> max,
   manual_target_weight |-> manual, priority |-> priority, min_signal_score |-> 1]

Items ==
  {Item(NoWeight, NoWeight, 0), Item(Tenth(2), NoWeight, 1), Item(NoWeight, Tenth(5), 0),
   [Item(Tenth(6), Tenth(1), 0) EXCEPT !.buy_enabled = FALSE],
   [Item(0, NoWeight, 1) EXCEPT !.min_signal_score = 2, !.sell_enabled = FALSE]}

ItemBodies ==
  {[max_weight |-> Tenth(3)], [manual_target_weight |-> Tenth(5)],
   [manual_target_weight |-> NoWeight]}

RiskBodies ==
  {[max_position_weight |-> Tenth(8)],
   [max_position_weight |-> Tenth(3), min_cash_weight |-> Tenth(4)]}

DefaultRisk ==
  [max_position_weight |-> Tenth(5), min_cash_weight |-> Tenth(1),
   rebalance_threshold_percent |-> Tenth(1)]

LotSizes == [i \in Instruments |-> IF i = fund THEN 10 ELSE 1]

Prices == [i \in Instruments |-> CASE i = stock -> 100 [] i = fund -> 7 [] i = bond -> 130]

Account(qa, qb, qc, money, prices) ==
  [quantity |-> [i \in Instruments |-> CASE i = stock -> qa [] i = fund -> qb [] i = bond -> qc],
   mark |-> prices, price |-> Prices, money |-> money]

\* Money only; one position far too large; no money and a part of a lot; marks that
\* are not the last prices.
Accounts ==
  {Account(0, 0, 0, 1000, Prices), Account(7, 0, 0, 300, Prices),
   Account(3, 25, 4, 5, Prices), Account(2, 20, 1, 400, [Prices EXCEPT ![stock] = 60])}
=============================================================================
