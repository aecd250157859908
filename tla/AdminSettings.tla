----------------------------- MODULE AdminSettings -----------------------------
(***************************************************************************)
(* What an administrator may change of the watchlist and of the active     *)
(* risk profile: app/admin/service.py and app/admin/repository.py, behind  *)
(* app/api/admin.py.                                                       *)
(*                                                                         *)
(* A PATCH request reads its row, checks the row as it would become and    *)
(* writes, at its commit, the columns it changes: between the two steps    *)
(* other requests commit (READ COMMITTED, no lock and no version column).  *)
(* Weights are whole parts of Whole.                                       *)
(***************************************************************************)
EXTENDS Integers

CONSTANTS
  Instruments, \* instruments the broker knows
  Whole,       \* the weight 1
  NoWeight,    \* NULL in max_weight or manual_target_weight
  Creations,   \* the bodies of POST /watchlist
  ItemPatches, \* the bodies of PATCH /watchlist/{item_id}: the fields they set
  RiskPatches, \* the bodies of PATCH /risk-profile
  SeedRisk,    \* the risk profile of commands/seed.py
  Requests,    \* PATCH requests in progress at a time
  MaxEdits,    \* bound: requests that change something
  NoItem, NoUpdate, RISK_PROFILE

Weights == 0 .. Whole

WatchlistItem ==
  [buy_enabled : BOOLEAN, sell_enabled : BOOLEAN, max_weight : Weights \cup {NoWeight},
   manual_target_weight : Weights \cup {NoWeight}, priority : Nat, min_signal_score : Weights]

RiskProfile ==
  [max_position_weight : Weights, min_cash_weight : Weights,
   rebalance_threshold_percent : Weights]

\* WatchlistItemUpdate and RiskProfileUpdate: the fields a body may set.
ItemFields ==
  [buy_enabled |-> BOOLEAN, sell_enabled |-> BOOLEAN, max_weight |-> Weights \cup {NoWeight},
   manual_target_weight |-> Weights \cup {NoWeight}, priority |-> Nat,
   min_signal_score |-> Weights]

RiskFields ==
  [max_position_weight |-> Weights, min_cash_weight |-> Weights,
   rebalance_threshold_percent |-> Weights]

IsPatch(changes, fields) ==
  \A f \in DOMAIN changes : f \in DOMAIN fields /\ changes[f] \in fields[f]

\* The checks of two fields of one row: the validator of the POST body and
\* update_watchlist_item, and update_risk_profile.
TargetWithinMax(item) ==
  NoWeight \notin {item.max_weight, item.manual_target_weight}
    => item.manual_target_weight <= item.max_weight

WeightsFit(profile) == profile.max_position_weight + profile.min_cash_weight <= Whole

\* The row with the fields of a body set.
Patched(row, changes) ==
  [f \in DOMAIN row |-> IF f \in DOMAIN changes THEN changes[f] ELSE row[f]]

Rows == Instruments \cup {RISK_PROFILE}

\* deleted: the row it has read was deleted since.
Update ==
  [row : Rows, read : WatchlistItem \cup RiskProfile, changes : ItemPatches \cup RiskPatches,
   deleted : BOOLEAN]

ASSUME SettingsAssumption ==
  /\ Whole \in Nat \ {0}
  /\ NoWeight \notin Int
  /\ NoItem \notin WatchlistItem /\ NoUpdate \notin Update
  /\ RISK_PROFILE \notin Instruments
  /\ Creations \subseteq WatchlistItem
  /\ \A changes \in ItemPatches : IsPatch(changes, ItemFields)
  /\ SeedRisk \in RiskProfile /\ WeightsFit(SeedRisk)
  /\ \A changes \in RiskPatches : IsPatch(changes, RiskFields)
  /\ MaxEdits \in Nat

VARIABLES
  watchlist, \* watchlist_items: the row of an instrument, or NoItem
  risk,      \* risk_profiles: the active row
  updates,   \* the PATCH requests between their read and their commit
  raced,     \* history: rows written by a request that had read an older version
  edits      \* history: how many requests were accepted

settings == <<watchlist, risk, updates, raced, edits>>

SettingsTypeOK ==
  /\ watchlist \in [Instruments -> WatchlistItem \cup {NoItem}]
  /\ risk \in RiskProfile
  /\ updates \in [Requests -> Update \cup {NoUpdate}]
  /\ raced \subseteq Rows
  /\ edits \in 0 .. MaxEdits

\* seed_defaults: a risk profile and an empty watchlist.
SettingsInit ==
  /\ watchlist = [i \in Instruments |-> NoItem]
  /\ risk = SeedRisk
  /\ updates = [r \in Requests |-> NoUpdate]
  /\ raced = {}
  /\ edits = 0

Watched == {i \in Instruments : watchlist[i] # NoItem}

----------------------------------------------------------------------------
Edit == edits < MaxEdits /\ edits' = edits + 1

\* POST /watchlist: instrument_id is unique.
add_watchlist_item(i) ==
  /\ Edit
  /\ watchlist[i] = NoItem
  /\ \E values \in Creations :
       /\ TargetWithinMax(values)
       /\ watchlist' = [watchlist EXCEPT ![i] = values]
  /\ UNCHANGED <<risk, updates, raced>>

\* DELETE /watchlist/{item_id}.  A second delete of the row only warns.
remove_watchlist_item(i) ==
  /\ Edit
  /\ watchlist[i] # NoItem
  /\ watchlist' = [watchlist EXCEPT ![i] = NoItem]
  /\ updates' = [r \in Requests |->
       IF updates[r] # NoUpdate /\ updates[r].row = i
       THEN [updates[r] EXCEPT !.deleted = TRUE] ELSE updates[r]]
  /\ raced' = raced \ {i}
  /\ UNCHANGED risk

Start(r, row, read, changes) ==
  updates' = [updates EXCEPT ![r] =
    [row |-> row, read |-> read, changes |-> changes, deleted |-> FALSE]]

\* Mutant of CheckedItem: a field the body does not set is not looked at.
CheckedItemBodyOnly(item, changes) ==
  {"max_weight", "manual_target_weight"} \subseteq DOMAIN changes
    => TargetWithinMax(Patched(item, changes))

\* The check of the fields as they would become.
CheckedItem(item, changes) == TargetWithinMax(Patched(item, changes))

\* update_watchlist_item: the read of the row and the check.
ReadWatchlistItem(r, i) ==
  /\ Edit
  /\ updates[r] = NoUpdate
  /\ watchlist[i] # NoItem
  /\ \E changes \in ItemPatches :
       /\ CheckedItem(watchlist[i], changes)
       /\ Start(r, i, watchlist[i], changes)
  /\ UNCHANGED <<watchlist, risk, raced>>

\* update_risk_profile: the read of the row and the check.
ReadRiskProfile(r) ==
  /\ Edit
  /\ updates[r] = NoUpdate
  /\ \E changes \in RiskPatches :
       /\ WeightsFit(Patched(risk, changes))
       /\ Start(r, RISK_PROFILE, risk, changes)
  /\ UNCHANGED <<watchlist, risk, raced>>

\* apply_changes: a column is written when its value is another than the one read.
Written(u) == {f \in DOMAIN u.changes \cap DOMAIN u.read : u.changes[f] # u.read[f]}

Stored(row, u) == [f \in DOMAIN row |-> IF f \in Written(u) THEN u.changes[f] ELSE row[f]]

Finish(r, row) ==
  /\ updates' = [updates EXCEPT ![r] = NoUpdate]
  /\ raced' = IF row = updates[r].read \/ Written(updates[r]) = {} THEN raced
              ELSE raced \cup {updates[r].row}

\* The flush and the commit of update_watchlist_item.
WriteWatchlistItem(r) ==
  LET u == updates[r] IN
  /\ u # NoUpdate /\ u.row # RISK_PROFILE /\ ~u.deleted
  /\ watchlist' = [watchlist EXCEPT ![u.row] = Stored(@, u)]
  /\ Finish(r, watchlist[u.row])
  /\ UNCHANGED <<risk, edits>>

\* The flush and the commit of update_risk_profile.
WriteRiskProfile(r) ==
  LET u == updates[r] IN
  /\ u # NoUpdate /\ u.row = RISK_PROFILE
  /\ risk' = Stored(risk, u)
  /\ Finish(r, risk)
  /\ UNCHANGED <<watchlist, edits>>

\* The request writes nothing: the row is gone, or the connection or the process.
FailUpdate(r) ==
  /\ updates[r] # NoUpdate
  /\ updates' = [updates EXCEPT ![r] = NoUpdate]
  /\ UNCHANGED <<watchlist, risk, raced, edits>>

SettingsNext ==
  \/ \E i \in Instruments : add_watchlist_item(i) \/ remove_watchlist_item(i)
  \/ \E r \in Requests, i \in Instruments : ReadWatchlistItem(r, i)
  \/ \E r \in Requests :
       ReadRiskProfile(r) \/ WriteWatchlistItem(r) \/ WriteRiskProfile(r) \/ FailUpdate(r)

----------------------------------------------------------------------------
\* The two checks across fields hold of what is stored, whatever requests came in
\* whatever order, unless a request wrote a row that had changed since it read it:
\* admin/service.py checks the row it has read, never the one it writes to.
ChecksHold ==
  /\ \A i \in Watched \ raced : TargetWithinMax(watchlist[i])
  /\ RISK_PROFILE \notin raced => WeightsFit(risk)
=============================================================================
