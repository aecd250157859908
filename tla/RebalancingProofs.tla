--------------------------- MODULE RebalancingProofs ---------------------------
(***************************************************************************)
(* Proofs about what an administrator may store while plans are made, for  *)
(* every set of instruments, of bodies and of overlapping requests.        *)
(***************************************************************************)
EXTENDS Rebalancing, TLAPS

USE DEF Rows

----------------------------------------------------------------------------
(* The rows and their bodies                                                *)

\* A body leaves a row of the watchlist a row of the watchlist, whichever of its
\* fields are stored.
LEMMA StoredItem ==
  ASSUME NEW row \in WatchlistItem, NEW u, u.changes \in ItemPatches
  PROVE  Stored(row, u) \in WatchlistItem
<1>1. IsPatch(u.changes, ItemFields)
  BY SettingsAssumption
<1>2. DOMAIN row = DOMAIN ItemFields /\ \A f \in DOMAIN row : row[f] \in ItemFields[f]
  BY DEF WatchlistItem, ItemFields
<1>3. \A f \in DOMAIN row : Stored(row, u)[f] \in ItemFields[f]
  BY <1>1, <1>2 DEF Stored, Written, IsPatch
<1>4. DOMAIN Stored(row, u) = DOMAIN ItemFields
  BY <1>2 DEF Stored
<1>5. Stored(row, u) = [f \in DOMAIN ItemFields |-> Stored(row, u)[f]]
  BY <1>4 DEF Stored
<1> HIDE DEF Stored
<1> QED
  BY <1>2, <1>3, <1>4, <1>5 DEF WatchlistItem, ItemFields

LEMMA StoredRisk ==
  ASSUME NEW row \in RiskProfile, NEW u, u.changes \in RiskPatches
  PROVE  Stored(row, u) \in RiskProfile
<1>1. IsPatch(u.changes, RiskFields)
  BY SettingsAssumption
<1>2. DOMAIN row = DOMAIN RiskFields /\ \A f \in DOMAIN row : row[f] \in RiskFields[f]
  BY DEF RiskProfile, RiskFields
<1>3. \A f \in DOMAIN row : Stored(row, u)[f] \in RiskFields[f]
  BY <1>1, <1>2 DEF Stored, Written, IsPatch
<1>4. DOMAIN Stored(row, u) = DOMAIN RiskFields
  BY <1>2 DEF Stored
<1>5. Stored(row, u) = [f \in DOMAIN RiskFields |-> Stored(row, u)[f]]
  BY <1>4 DEF Stored
<1> HIDE DEF Stored
<1> QED
  BY <1>2, <1>3, <1>4, <1>5 DEF RiskProfile, RiskFields

\* Of the row it has read a request stores the row it has checked.
LEMMA StoredIsPatched ==
  ASSUME NEW u
  PROVE  Stored(u.read, u) = Patched(u.read, u.changes)
BY DEF Stored, Patched, Written

\* A request that writes no column leaves the row as it is.
LEMMA NothingWritten ==
  ASSUME NEW u, Written(u) = {}
  PROVE  /\ \A row \in WatchlistItem : Stored(row, u) = row
         /\ \A row \in RiskProfile : Stored(row, u) = row
BY DEF Stored, WatchlistItem, RiskProfile

----------------------------------------------------------------------------
(* The invariant                                                            *)

\* What a request in progress has read, and that what it will store was checked.
Checked(u) ==
  IF u.row = RISK_PROFILE
  THEN /\ u.read \in RiskProfile /\ u.changes \in RiskPatches
       /\ WeightsFit(Patched(u.read, u.changes))
  ELSE /\ u.read \in WatchlistItem /\ u.changes \in ItemPatches
       /\ TargetWithinMax(Patched(u.read, u.changes))
       /\ ~u.deleted => watchlist[u.row] # NoItem

SettingsInv ==
  /\ SettingsTypeOK
  /\ \A r \in Requests : updates[r] # NoUpdate => Checked(updates[r])
  /\ ChecksHold

LEMMA InitInv == Init => SettingsInv
<1> SUFFICES ASSUME Init PROVE SettingsInv
  OBVIOUS
<1>1. SettingsTypeOK
  BY SettingsAssumption DEF Init, SettingsInit, SettingsTypeOK
<1>2. ChecksHold
  BY SettingsAssumption DEF Init, SettingsInit, ChecksHold, Watched
<1>3. \A r \in Requests : updates[r] = NoUpdate
  BY DEF Init, SettingsInit
<1> QED BY <1>1, <1>2, <1>3 DEF SettingsInv

LEMMA AddKeepsInv ==
  ASSUME SettingsInv, NEW i \in Instruments, add_watchlist_item(i)
  PROVE  SettingsInv'
<1> PICK values \in Creations :
      TargetWithinMax(values) /\ watchlist' = [watchlist EXCEPT ![i] = values]
  BY DEF add_watchlist_item
<1>1. values \in WatchlistItem /\ values # NoItem
  BY SettingsAssumption
<1>2. SettingsTypeOK'
  BY <1>1, SettingsAssumption
     DEF SettingsInv, SettingsTypeOK, add_watchlist_item, Edit
<1>3. ChecksHold'
  BY <1>1 DEF SettingsInv, SettingsTypeOK, ChecksHold, Watched, add_watchlist_item
<1>4. \A r \in Requests : updates[r] # NoUpdate => Checked(updates[r])'
  BY <1>1 DEF SettingsInv, SettingsTypeOK, Checked, add_watchlist_item, Update
<1> QED BY <1>2, <1>3, <1>4 DEF SettingsInv, add_watchlist_item

LEMMA RemoveKeepsInv ==
  ASSUME SettingsInv, NEW i \in Instruments, remove_watchlist_item(i)
  PROVE  SettingsInv'
<1> DEFINE deleted(r) == [updates[r] EXCEPT !.deleted = TRUE]
<1>1. \A r \in Requests :
        updates'[r] = IF updates[r] # NoUpdate /\ updates[r].row = i
                      THEN deleted(r) ELSE updates[r]
  BY DEF remove_watchlist_item
<1>2. \A r \in Requests : updates[r] # NoUpdate =>
        /\ updates[r] \in Update
        /\ deleted(r) \in Update /\ deleted(r).row = updates[r].row
        /\ deleted(r).read = updates[r].read /\ deleted(r).changes = updates[r].changes
        /\ deleted(r).deleted
  BY DEF SettingsInv, SettingsTypeOK, Update
<1>3. watchlist' \in [Instruments -> WatchlistItem \cup {NoItem}]
  BY DEF SettingsInv, SettingsTypeOK, remove_watchlist_item
<1>4. updates' \in [Requests -> Update \cup {NoUpdate}]
  BY <1>1, <1>2 DEF SettingsInv, SettingsTypeOK, remove_watchlist_item
<1>5. SettingsTypeOK'
  BY <1>3, <1>4, SettingsAssumption
     DEF SettingsInv, SettingsTypeOK, remove_watchlist_item, Edit
<1>6. ChecksHold'
  BY SettingsAssumption
     DEF SettingsInv, SettingsTypeOK, ChecksHold, Watched, remove_watchlist_item
<1>7. ASSUME NEW r \in Requests, updates'[r] # NoUpdate
      PROVE  Checked(updates[r])'
  <2>1. updates[r] # NoUpdate /\ Checked(updates[r])
    BY <1>1, <1>7 DEF SettingsInv
  <2>2. CASE updates[r].row = i
    BY <1>1, <1>2, <2>1, <2>2, SettingsAssumption DEF Checked
  <2>3. CASE updates[r].row # i
    <3>1. updates'[r] = updates[r] /\ updates[r].row \in Rows
      BY <1>1, <1>2, <2>3 , <2>1 DEF Update
    <3>2. updates[r].row # RISK_PROFILE => watchlist'[updates[r].row] = watchlist[updates[r].row]
      BY <2>3, <3>1 DEF remove_watchlist_item, SettingsInv, SettingsTypeOK
    <3> QED BY <2>1, <3>1, <3>2 DEF Checked
  <2> QED BY <2>2, <2>3
<1> QED BY <1>5, <1>6, <1>7 DEF SettingsInv

\* A request that begins has checked what it read.
LEMMA ReadKeepsInv ==
  ASSUME SettingsInv, NEW r \in Requests,
         ReadRiskProfile(r) \/ \E i \in Instruments : ReadWatchlistItem(r, i)
  PROVE  SettingsInv'
<1>1. ASSUME NEW u \in Update, Checked(u), updates' = [updates EXCEPT ![r] = u], Edit,
             UNCHANGED <<watchlist, risk, raced>>
      PROVE  SettingsInv'
  <2>1. SettingsTypeOK'
    BY <1>1, SettingsAssumption DEF SettingsInv, SettingsTypeOK, Edit
  <2>2. ChecksHold'
    BY <1>1 DEF SettingsInv, ChecksHold, Watched
  <2>3. \A q \in Requests : updates'[q] = IF q = r THEN u ELSE updates[q]
    BY <1>1 DEF SettingsInv, SettingsTypeOK
  <2>4. \A q \in Requests : (updates[q] # NoUpdate => Checked(updates[q]))'
    BY <1>1, <2>3 DEF SettingsInv, Checked
  <2> QED BY <2>1, <2>2, <2>4 DEF SettingsInv
<1>2. CASE ReadRiskProfile(r)
  <2> PICK changes \in RiskPatches :
        WeightsFit(Patched(risk, changes)) /\ Start(r, RISK_PROFILE, risk, changes)
    BY <1>2 DEF ReadRiskProfile
  <2> DEFINE u == [row |-> RISK_PROFILE, read |-> risk, changes |-> changes, deleted |-> FALSE]
  <2>1. u \in Update /\ Checked(u)
    BY DEF Update, Checked, SettingsInv, SettingsTypeOK
  <2> QED BY <1>1, <1>2, <2>1 DEF ReadRiskProfile, Start
<1>3. ASSUME NEW i \in Instruments, ReadWatchlistItem(r, i)
      PROVE  SettingsInv'
  <2> PICK changes \in ItemPatches :
        CheckedItem(watchlist[i], changes) /\ Start(r, i, watchlist[i], changes)
    BY <1>3 DEF ReadWatchlistItem
  <2> DEFINE u == [row |-> i, read |-> watchlist[i], changes |-> changes, deleted |-> FALSE]
  <2>1. watchlist[i] \in WatchlistItem /\ watchlist[i] # NoItem
    BY <1>3 DEF ReadWatchlistItem, SettingsInv, SettingsTypeOK
  <2>2. u \in Update /\ Checked(u)
    BY <2>1, SettingsAssumption DEF Update, Checked, CheckedItem
  <2> QED BY <1>1, <1>3, <2>2 DEF ReadWatchlistItem, Start
<1> QED BY <1>2, <1>3

\* What a request stores is the row it has checked, the row as it is, or, when the row
\* has changed since, recorded in raced.
LEMMA WriteItemKeepsInv ==
  ASSUME SettingsInv, NEW r \in Requests, WriteWatchlistItem(r)
  PROVE  SettingsInv'
<1> DEFINE u == updates[r]
           i == u.row
<1>1. /\ u \in Update /\ Checked(u) /\ i \in Instruments /\ i # RISK_PROFILE
      /\ watchlist[i] \in WatchlistItem
  BY SettingsAssumption
     DEF SettingsInv, SettingsTypeOK, WriteWatchlistItem, Update, Checked
<1>2. u.changes \in ItemPatches /\ u.read \in WatchlistItem
  BY <1>1 DEF Checked
<1>3. Stored(watchlist[i], u) \in WatchlistItem
  BY <1>1, <1>2, StoredItem
<1>4. /\ watchlist' = [watchlist EXCEPT ![i] = Stored(watchlist[i], u)]
      /\ updates' = [updates EXCEPT ![r] = NoUpdate]
      /\ raced' = IF watchlist[i] = u.read \/ Written(u) = {} THEN raced ELSE raced \cup {i}
      /\ risk' = risk /\ edits' = edits
  BY DEF WriteWatchlistItem, Finish
<1>5. SettingsTypeOK'
  BY <1>1, <1>3, <1>4 DEF SettingsInv, SettingsTypeOK
<1>6. i \notin raced' => TargetWithinMax(Stored(watchlist[i], u))
  <2> SUFFICES ASSUME i \notin raced' PROVE TargetWithinMax(Stored(watchlist[i], u))
    OBVIOUS
  <2>1. CASE watchlist[i] = u.read
    BY <1>1, <2>1, StoredIsPatched DEF Checked
  <2>2. CASE Written(u) = {}
    <3>1. Stored(watchlist[i], u) = watchlist[i]
      BY <1>1, <2>2, NothingWritten
    <3>2. i \in Watched \ raced
      BY <1>1, <1>4, <2>2, SettingsAssumption DEF Watched
    <3> QED BY <3>1, <3>2 DEF SettingsInv, ChecksHold
  <2> QED BY <1>4, <2>1, <2>2
<1>7. ChecksHold'
  <2>1. \A j \in Instruments : watchlist'[j] =
          IF j = i THEN Stored(watchlist[i], u) ELSE watchlist[j]
    BY <1>4 DEF SettingsInv, SettingsTypeOK
  <2>2. raced \subseteq raced' /\ (RISK_PROFILE \in raced' => RISK_PROFILE \in raced)
    BY <1>1, <1>4
  <2> QED BY <1>4, <1>6, <2>1, <2>2 DEF SettingsInv, ChecksHold, Watched
<1>8. \A q \in Requests : (updates[q] # NoUpdate => Checked(updates[q]))'
  <2>1. \A q \in Requests : updates'[q] = IF q = r THEN NoUpdate ELSE updates[q]
    BY <1>4 DEF SettingsInv, SettingsTypeOK
  <2>2. \A j : watchlist[j] # NoItem => watchlist'[j] # NoItem
    BY <1>1, <1>3, <1>4, SettingsAssumption DEF SettingsInv, SettingsTypeOK
  <2> QED BY <2>1, <2>2 DEF SettingsInv, Checked
<1> QED BY <1>5, <1>7, <1>8 DEF SettingsInv

LEMMA WriteRiskKeepsInv ==
  ASSUME SettingsInv, NEW r \in Requests, WriteRiskProfile(r)
  PROVE  SettingsInv'
<1> DEFINE u == updates[r]
<1>1. /\ u \in Update /\ Checked(u) /\ u.row = RISK_PROFILE /\ risk \in RiskProfile
  BY DEF SettingsInv, SettingsTypeOK, WriteRiskProfile
<1>2. u.changes \in RiskPatches /\ u.read \in RiskProfile
  BY <1>1 DEF Checked
<1>3. Stored(risk, u) \in RiskProfile
  BY <1>1, <1>2, StoredRisk
<1>4. /\ risk' = Stored(risk, u)
      /\ updates' = [updates EXCEPT ![r] = NoUpdate]
      /\ raced' = IF risk = u.read \/ Written(u) = {} THEN raced ELSE raced \cup {RISK_PROFILE}
      /\ watchlist' = watchlist /\ edits' = edits
  BY <1>1 DEF WriteRiskProfile, Finish
<1>5. SettingsTypeOK'
  BY <1>1, <1>3, <1>4 DEF SettingsInv, SettingsTypeOK
<1>6. RISK_PROFILE \notin raced' => WeightsFit(Stored(risk, u))
  <2> SUFFICES ASSUME RISK_PROFILE \notin raced' PROVE WeightsFit(Stored(risk, u))
    OBVIOUS
  <2>1. CASE risk = u.read
    BY <1>1, <2>1, StoredIsPatched DEF Checked
  <2>2. CASE Written(u) = {}
    BY <1>1, <1>4, <2>2, NothingWritten DEF SettingsInv, ChecksHold
  <2> QED BY <1>4, <2>1, <2>2
<1>7. ChecksHold'
  BY <1>4, <1>6, SettingsAssumption DEF SettingsInv, ChecksHold, Watched
<1>8. \A q \in Requests : (updates[q] # NoUpdate => Checked(updates[q]))'
  <2>1. \A q \in Requests : updates'[q] = IF q = r THEN NoUpdate ELSE updates[q]
    BY <1>4 DEF SettingsInv, SettingsTypeOK
  <2> QED BY <1>4, <2>1 DEF SettingsInv, Checked
<1> QED BY <1>5, <1>7, <1>8 DEF SettingsInv

LEMMA FailKeepsInv ==
  ASSUME SettingsInv, NEW r \in Requests, FailUpdate(r)
  PROVE  SettingsInv'
<1>1. SettingsTypeOK'
  BY DEF SettingsInv, SettingsTypeOK, FailUpdate
<1>2. \A q \in Requests : updates'[q] = IF q = r THEN NoUpdate ELSE updates[q]
  BY DEF SettingsInv, SettingsTypeOK, FailUpdate
<1>3. \A q \in Requests : (updates[q] # NoUpdate => Checked(updates[q]))'
  BY <1>2 DEF SettingsInv, Checked, FailUpdate
<1> QED BY <1>1, <1>3 DEF SettingsInv, FailUpdate, ChecksHold, Watched

LEMMA UnchangedKeepsInv ==
  ASSUME SettingsInv, UNCHANGED settings
  PROVE  SettingsInv'
<1>1. SettingsTypeOK'
  BY DEF SettingsInv, SettingsTypeOK, settings
<1>2. \A q \in Requests : (updates[q] # NoUpdate => Checked(updates[q]))'
  BY DEF SettingsInv, Checked, settings
<1> QED BY <1>1, <1>2 DEF SettingsInv, ChecksHold, Watched, settings

LEMMA StepKeepsInv ==
  ASSUME SettingsInv, [Next]_vars
  PROVE  SettingsInv'
<1>1. CASE SettingsNext
  BY <1>1, AddKeepsInv, RemoveKeepsInv, ReadKeepsInv, WriteItemKeepsInv,
     WriteRiskKeepsInv, FailKeepsInv DEF SettingsNext
<1>2. CASE UNCHANGED settings
  BY <1>2, UnchangedKeepsInv
<1> QED
  BY <1>1, <1>2
     DEF Next, vars, AnalyzeWatchlist, get_risk_profile, create_plan, RaisePlan

----------------------------------------------------------------------------
\* However the requests of administrators, the analyses and the plans interleave, the
\* cross-field checks of admin/service.py hold of every row that no overlapping
\* request has written.
THEOREM ChecksKept == Spec => []ChecksHold
<1>1. Spec => []SettingsInv
  BY InitInv, StepKeepsInv, PTL DEF Spec
<1>2. SettingsInv => ChecksHold
  BY DEF SettingsInv
<1> QED BY <1>1, <1>2, PTL

\* The rows an administrator can store are rows the tables can hold.
THEOREM SettingsTypeCorrect == Spec => []SettingsTypeOK
<1>1. Spec => []SettingsInv
  BY InitInv, StepKeepsInv, PTL DEF Spec
<1>2. SettingsInv => SettingsTypeOK
  BY DEF SettingsInv
<1> QED BY <1>1, <1>2, PTL
=============================================================================
