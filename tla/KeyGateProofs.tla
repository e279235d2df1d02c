--------------------------- MODULE KeyGateProofs ---------------------------
(***************************************************************************)
(* Type correctness of the gate and the meter, that metering conserves     *)
(* requests, and that it implements the usage ledger, for any keys,        *)
(* targets, requests, operators, budgets and thresholds.                   *)
(***************************************************************************)
EXTENDS KeyGate, TLAPS

(***************************************************************************)
(* Type correctness: first what the helpers return.                        *)
(***************************************************************************)
LEMMA MonthsFacts == 0 \in Months /\ Months \subseteq Nat
BY GateAssumption DEF Months

LEMMA CachedKeys ==
  /\ NoUse \in [Targets -> Nat]
  /\ Absent \in CachedKey
  /\ Fresh \in CachedKey
BY DEF NoUse, Absent, Fresh, CachedKey

LEMMA SlotType == ASSUME NEW r \in Reqs PROVE Slot(r) \in Keys \X Targets
BY GateAssumption DEF Slot

(* Adding tokens to a cached key gives a cached key.                        *)
LEMMA AddTokensUsedType ==
  ASSUME NEW c \in CachedKey, NEW t \in Targets, NEW n \in Nat
  PROVE  AddTokensUsed(c, t, n) \in CachedKey
<1> DEFINE u == c.used + n
           b == [c.usedBy EXCEPT ![t] = @ + n]
           d == [c EXCEPT !.used = u, !.usedBy = b]
<1>1. u \in Nat /\ b \in [Targets -> Nat]
  BY DEF CachedKey
<1>2. AddTokensUsed(c, t, n) = IF c.known THEN d ELSE c
  BY DEF AddTokensUsed
<1> HIDE DEF u, b
<1>3. d \in CachedKey
  BY <1>1 DEF CachedKey
<1>4. QED BY <1>2, <1>3

LEMMA IncrUsageType ==
  ASSUME TypeOK, NEW k \in Keys, NEW t \in Targets, NEW S \in SUBSET Reqs,
         IncrUsage(k, t, S)
  PROVE  /\ usage' \in [Months -> [Keys -> Nat]]
         /\ usageBy' \in [Months -> [Keys -> [Targets -> Nat]]]
         /\ stored' \in SUBSET Reqs
<1>1. BatchTokens(S) \in Nat
  BY GateAssumption
<1>2. QED BY <1>1 DEF IncrUsage, TypeOK

LEMMA LoadedType ==
  ASSUME TypeOK, NEW k \in Keys
  PROVE  Loaded(k) \in CachedKey
BY CachedKeys DEF Loaded, TypeOK, CachedKey

LEMMA NoOpType == ASSUME NEW k \in Keys PROVE NoOp(k) \in Operation
BY CachedKeys, MonthsFacts DEF NoOp, Operation

(* One operator's locals change.                                            *)
LEMMA OpType ==
  ASSUME TypeOK, NEW a \in Admins, NEW o \in Operation, op' = [op EXCEPT ![a] = o]
  PROVE  op' \in [Admins -> Operation]
BY DEF TypeOK

LEMMA OpFields ==
  ASSUME NEW o \in Operation, NEW k \in Keys, NEW b \in BOOLEAN, NEW m \in Months
  PROVE  /\ [o EXCEPT !.key = k] \in Operation
         /\ [o EXCEPT !.reset = b, !.period = m] \in Operation
         /\ [o EXCEPT !.key = k, !.reset = b, !.period = m] \in Operation
BY DEF Operation

LEMMA CachedFields ==
  ASSUME NEW c \in CachedKey, NEW b \in BOOLEAN
  PROVE  /\ [c EXCEPT !.killed = b] \in CachedKey
         /\ [c EXCEPT !.used = 0] \in CachedKey
         /\ [c EXCEPT !.killed = FALSE, !.used = 0, !.usedBy = NoUse] \in CachedKey
BY CachedKeys DEF CachedKey

(* Reload's snapshot: listed, then filled key by key.                       *)
LEMMA ListType ==
  ASSUME NEW o \in Operation, NEW s \in [Keys -> CachedKey],
         NEW m \in Months, NEW K \in SUBSET Keys
  PROVE  [o EXCEPT !.period = m, !.todo = K, !.snap = s] \in Operation
BY DEF Operation

LEMMA SnapUsedType ==
  ASSUME NEW o \in Operation, NEW k \in Keys, NEW n \in Nat
  PROVE  [o EXCEPT !.key = k, !.snap[k].used = n] \in Operation
<1>1. ASSUME NEW c \in CachedKey PROVE [c EXCEPT !.used = n] \in CachedKey
  BY DEF CachedKey
<1>2. QED BY <1>1 DEF Operation

LEMMA SnapUsedByType ==
  ASSUME NEW o \in Operation, NEW k \in Keys, NEW b \in [Targets -> Nat],
         NEW K \in SUBSET Keys
  PROVE  [o EXCEPT !.todo = K, !.snap[k].usedBy = b] \in Operation
<1>1. ASSUME NEW c \in CachedKey PROVE [c EXCEPT !.usedBy = b] \in CachedKey
  BY DEF CachedKey
<1>2. QED BY <1>1 DEF Operation

LEMMA CacheType ==
  ASSUME TypeOK, NEW k \in Keys, NEW c \in CachedKey, cache' = [cache EXCEPT ![k] = c]
  PROVE  cache' \in [Keys -> CachedKey]
BY DEF TypeOK

LEMMA SupersedeType ==
  ASSUME TypeOK, NEW K, Supersede(K)
  PROVE  stale' \in SUBSET Reqs /\ old' \in [Reqs -> CachedKey]
BY GateAssumption DEF Supersede, TypeOK

LEMMA ReleaseType ==
  ASSUME TypeOK, NEW r \in Reqs, Release(r)
  PROVE  stale' \in SUBSET Reqs /\ old' \in [Reqs -> CachedKey]
BY CachedKeys DEF Release, TypeOK

LEMMA BeginKeyOpType ==
  ASSUME TypeOK, NEW p, NEW k \in Keys, BeginKeyOp(p, k)
  PROVE  dirty' \in [Keys -> BOOLEAN]
BY DEF BeginKeyOp, OtherKeyOp, TypeOK

LEMMA RowType ==
  ASSUME TypeOK, NEW k \in Keys, NEW on, SetKeyKilled(k, on)
  PROVE  row' \in [Keys -> Status]
BY DEF SetKeyKilled, Status, TypeOK

LEMMA InitTypeOK == Init => TypeOK
<1> SUFFICES ASSUME Init PROVE TypeOK
  OBVIOUS
<1>1. Months \subseteq Nat /\ 0 \in Months
  BY MonthsFacts
<1>2. usage \in [Months -> [Keys -> Nat]]
  BY DEF Init
<1>3. usageBy \in [Months -> [Keys -> [Targets -> Nat]]]
  BY CachedKeys DEF Init
<1>4. cache \in [Keys -> CachedKey]
  <2>1. ASSUME NEW k \in Keys PROVE Loaded(k) \in CachedKey
    BY <1>1, <1>2, <1>3, CachedKeys DEF Loaded, CachedKey, Init
  <2>2. QED BY <2>1 DEF Init
<1>5. op \in [Admins -> Operation]
  BY NoOpType DEF Init
<1>6. /\ pc \in [Procs -> ReqPC \cup AdminPC]
      /\ \A r \in Reqs : pc[r] \in ReqPC
      /\ \A a \in Admins : pc[a] \in AdminPC
  BY GateAssumption DEF Init, Procs, ReqPC, AdminPC
<1>7. /\ row \in [Keys -> Status]
      /\ old \in [Reqs -> CachedKey]
      /\ batch \in [Reqs -> SUBSET Reqs]
      /\ dirty \in [Keys -> BOOLEAN]
      /\ drift \in [Keys -> BOOLEAN]
      /\ hot \subseteq Keys \X Targets
      /\ stopping \in BOOLEAN
      /\ {stored, loop, rate, pending, stale, drain, drained, lost} \subseteq SUBSET Reqs
  BY CachedKeys DEF Init, Status
<1>8. month \in Months
  BY <1>1 DEF Init
<1>9. QED BY <1>2, <1>3, <1>4, <1>5, <1>6, <1>7, <1>8 DEF TypeOK

(* A step of a request that moves its pc, the windows and its view only.    *)
LEMMA GateTypeOK ==
  ASSUME TypeOK, NEW r \in Reqs, Gate(r)
  PROVE  TypeOK'
<1> USE DEF TypeOK, store, meter, ReqPC, AdminPC, Procs
<1>1. CASE Lookup(r)
  BY <1>1, GateAssumption DEF Lookup
<1>2. CASE RefuseKilled(r)
  BY <1>2, ReleaseType, GateAssumption DEF RefuseKilled
<1>3. CASE PassKillSwitch(r)
  BY <1>3, GateAssumption DEF PassKillSwitch
<1>4. CASE TripAutoKill(r)
  BY <1>4, ReleaseType, GateAssumption DEF TripAutoKill
<1>5. CASE PassLoopGuard(r)
  BY <1>5, GateAssumption DEF PassLoopGuard
<1>6. CASE RefuseBudget(r)
  BY <1>6, ReleaseType, GateAssumption DEF RefuseBudget
<1>7. CASE PassBudget(r)
  BY <1>7, GateAssumption DEF PassBudget
<1>8. CASE RefuseRate(r)
  BY <1>8, ReleaseType, GateAssumption DEF RefuseRate
<1>9. CASE PassRate(r)
  BY <1>9, GateAssumption DEF PassRate
<1>10. CASE Serve(r)
  BY <1>10, ReleaseType, GateAssumption DEF Serve
<1>11. CASE Unmetered(r)
  BY <1>11, ReleaseType, GateAssumption DEF Unmetered
<1>12. CASE AutoKill(r)
  BY <1>12, RowType, BeginKeyOpType, GateAssumption DEF AutoKill
<1>13. CASE AutoKillFail(r)
  BY <1>13, GateAssumption DEF AutoKillFail
<1>14. QED
  BY <1>1, <1>2, <1>3, <1>4, <1>5, <1>6, <1>7, <1>8, <1>9, <1>10, <1>11, <1>12, <1>13 DEF Gate

LEMMA MeteringTypeOK ==
  ASSUME TypeOK, NEW r \in Reqs, Metering(r)
  PROVE  TypeOK'
<1> USE DEF TypeOK, store, meter, ReqPC, AdminPC, Procs
<1>1. CASE RecordLater(r)
  BY <1>1, ReleaseType, GateAssumption DEF RecordLater
<1>2. CASE RecordFlush(r)
  <2>1. OfSlot(pending, Slot(r)) \in SUBSET Reqs
    BY DEF OfSlot
  <2>2. QED BY <1>2, <2>1, ReleaseType, SlotType, GateAssumption DEF RecordFlush
<1>3. CASE FlushStore(r)
  <2>1. /\ usage' \in [Months -> [Keys -> Nat]]
        /\ usageBy' \in [Months -> [Keys -> [Targets -> Nat]]]
        /\ stored' \in SUBSET Reqs
    BY <1>3, IncrUsageType, GateAssumption DEF FlushStore
  <2>2. drift' \in [Keys -> BOOLEAN]
    BY <1>3, GateAssumption DEF FlushStore, UsageOpOn, Reloading
  <2>3. QED BY <1>3, <2>1, <2>2, GateAssumption DEF FlushStore
<1>4. CASE FlushFail(r)
  BY <1>4, GateAssumption DEF FlushFail
<1>5. CASE FlushCache(r)
  <2>1. BatchTokens(batch[r]) \in Nat
    BY GateAssumption
  <2>2. AddTokensUsed(cache[KeyOf[r]], TargetOf[r], BatchTokens(batch[r])) \in CachedKey
    BY <2>1, AddTokensUsedType, GateAssumption
  <2>3. cache' \in [Keys -> CachedKey]
    BY <1>5, <2>2 DEF FlushCache
  <2>4. QED BY <1>5, <2>3, GateAssumption DEF FlushCache
<1>6. QED BY <1>1, <1>2, <1>3, <1>4, <1>5 DEF Metering

LEMMA EnvironmentTypeOK ==
  ASSUME TypeOK, Environment
  PROVE  TypeOK'
<1> USE DEF TypeOK, store, meter
<1>1. CASE FlushAll
  <2>1. {Slot(r) : r \in pending} \subseteq Keys \X Targets
    BY SlotType
  <2>2. QED BY <1>1, <2>1 DEF FlushAll
<1>2. ASSUME NEW s \in Keys \X Targets, DrainSlot(s) \/ DrainCache(s) PROVE TypeOK'
  <2>1. /\ OfSlot(drain, s) \in SUBSET Reqs
        /\ s[1] \in Keys /\ s[2] \in Targets
    BY DEF OfSlot
  <2>2. CASE DrainSlot(s)
    <3>1. /\ usage' \in [Months -> [Keys -> Nat]]
          /\ usageBy' \in [Months -> [Keys -> [Targets -> Nat]]]
          /\ stored' \in SUBSET Reqs
      BY <2>1, <2>2, IncrUsageType DEF DrainSlot
    <3>2. drift' \in [Keys -> BOOLEAN]
      BY <2>1, <2>2 DEF DrainSlot, UsageOpOn, Reloading
    <3>3. {drain', drained'} \subseteq SUBSET Reqs
      BY <2>1, <2>2 DEF DrainSlot
    <3>4. QED BY <2>2, <3>1, <3>2, <3>3 DEF DrainSlot
  <2>3. CASE DrainCache(s)
    <3>1. BatchTokens(drained) \in Nat
      BY GateAssumption
    <3>2. AddTokensUsed(cache[s[1]], s[2], BatchTokens(drained)) \in CachedKey
      BY <2>1, <3>1, AddTokensUsedType
    <3>3. cache' \in [Keys -> CachedKey]
      BY <2>1, <2>3, <3>2 DEF DrainCache
    <3>4. QED BY <2>3, <3>3 DEF DrainCache
  <2>4. QED BY <1>2, <2>2, <2>3
<1>3. CASE DrainFail
  BY <1>3 DEF DrainFail
<1>4. ASSUME NEW s \in Keys \X Targets, Cool(s) PROVE TypeOK'
  BY <1>4 DEF Cool
<1>5. ASSUME NEW r \in Reqs, Expire(r) PROVE TypeOK'
  BY <1>5 DEF Expire
<1>6. CASE NewMonth
  BY <1>6, GateAssumption DEF NewMonth, Months
<1>7. CASE Restart
  <2>1. cache' \in [Keys -> CachedKey]
    BY <1>7, LoadedType DEF Restart
  <2>2. op' \in [Admins -> Operation]
    <3>1. ASSUME NEW a \in Admins PROVE NoOp(op[a].key) \in Operation
      BY NoOpType DEF Operation
    <3>2. QED BY <1>7, <3>1 DEF Restart
  <2>3. /\ pc' \in [Procs -> ReqPC \cup AdminPC]
        /\ \A r \in Reqs : pc'[r] \in ReqPC
        /\ \A a \in Admins : pc'[a] \in AdminPC
    BY <1>7, GateAssumption DEF Restart, Procs, ReqPC, AdminPC
  <2>4. /\ lost' \in SUBSET Reqs
        /\ old' \in [Reqs -> CachedKey]
        /\ batch' \in [Reqs -> SUBSET Reqs]
        /\ dirty' \in [Keys -> BOOLEAN] /\ drift' \in [Keys -> BOOLEAN]
    BY <1>7, CachedKeys DEF Restart, InFlight
  <2>5. QED BY <1>7, <2>1, <2>2, <2>3, <2>4 DEF Restart
<1>8. QED BY <1>1, <1>2, <1>3, <1>4, <1>5, <1>6, <1>7 DEF Environment

LEMMA KillCacheTypeOK ==
  ASSUME TypeOK, NEW p \in Procs, KillCache(p)
  PROVE  TypeOK'
<1> DEFINE k == IF p \in Reqs THEN KeyOf[p] ELSE op[p].key
<1>1. k \in Keys
  BY GateAssumption DEF Procs, TypeOK, Operation
<1>2. cache[k].known \in BOOLEAN
  BY <1>1 DEF TypeOK, CachedKey
<1>3. cache' = [cache EXCEPT ![k] = [cache[k] EXCEPT !.killed = cache[k].known]]
  BY <1>1 DEF KillCache
<1> HIDE DEF k
<1>4. cache' \in [Keys -> CachedKey]
  <2>1. cache[k] \in CachedKey
    BY <1>1 DEF TypeOK
  <2>2. [cache[k] EXCEPT !.killed = cache[k].known] \in CachedKey
    BY <2>1, <1>2, CachedFields
  <2>3. QED BY <1>1, <1>3, <2>2, CacheType
<1>5. QED
  BY <1>4, GateAssumption DEF KillCache, TypeOK, store, meter, ReqPC, AdminPC, Procs

(* The un-kill steps.                                                       *)
LEMMA UnkillTypeOK ==
  ASSUME TypeOK, NEW a \in Admins,
         \/ \E k \in Keys, reset \in BOOLEAN : Unkill(a, k, reset)
         \/ UnkillReset(a) \/ UnkillFail(a) \/ UnkillZero(a)
         \/ UnkillCache(a) \/ UnkillClear(a)
  PROVE  TypeOK'
<1> USE DEF TypeOK, store, meter, ReqPC, AdminPC, Procs
<1>1. op[a].key \in Keys /\ op[a].period \in Months /\ op[a] \in Operation
  BY DEF Operation
<1>2. ASSUME NEW k \in Keys, NEW reset \in BOOLEAN, Unkill(a, k, reset)
      PROVE  TypeOK'
  <2>1. op' \in [Admins -> Operation]
    <3> DEFINE m == IF reset THEN month ELSE 0
    <3>1. m \in Months
      BY MonthsFacts
    <3>2. op' = [op EXCEPT ![a] = [op[a] EXCEPT !.key = k, !.reset = reset, !.period = m]]
      BY <1>2 DEF Unkill
    <3> HIDE DEF m
    <3>3. [op[a] EXCEPT !.key = k, !.reset = reset, !.period = m] \in Operation
      BY <1>1, <3>1, OpFields
    <3>4. QED BY <3>2, <3>3, OpType
  <2>2. drift' \in [Keys -> BOOLEAN]
    BY <1>2 DEF Unkill, UsageOpOn, Flushing, Reloading
  <2>3. row' \in [Keys -> Status] /\ dirty' \in [Keys -> BOOLEAN]
    BY <1>2, RowType, BeginKeyOpType DEF Unkill
  <2>4. QED BY <1>2, <2>1, <2>2, <2>3, GateAssumption DEF Unkill
<1>3. CASE UnkillReset(a)
  BY <1>1, <1>3, GateAssumption DEF UnkillReset, ResetUsagePeriod
<1>4. CASE UnkillFail(a)
  <2>1. op' \in [Admins -> Operation]
    <3>1. op' = [op EXCEPT ![a] = [op[a] EXCEPT !.reset = FALSE, !.period = 0]]
      BY <1>4 DEF UnkillFail
    <3>2. [op[a] EXCEPT !.reset = FALSE, !.period = 0] \in Operation
      BY <1>1, MonthsFacts, OpFields
    <3>3. QED BY <3>1, <3>2, OpType
  <2>2. QED BY <1>1, <1>4, <2>1, GateAssumption DEF UnkillFail
<1>5. CASE UnkillZero(a)
  <2>1. cache' \in [Keys -> CachedKey]
    <3> DEFINE c == cache[op[a].key]
    <3>1. cache' = [cache EXCEPT ![op[a].key] = [c EXCEPT !.used = 0]]
      BY <1>5 DEF UnkillZero
    <3>2. [c EXCEPT !.used = 0] \in CachedKey
      BY <1>1, CachedFields
    <3>3. QED BY <1>1, <3>1, <3>2, CacheType
  <2>2. QED BY <1>5, <2>1, GateAssumption DEF UnkillZero
<1>6. CASE UnkillCache(a)
  <2> DEFINE c == cache[op[a].key]
             d == IF op[a].reset
                  THEN [c EXCEPT !.killed = FALSE, !.used = 0, !.usedBy = NoUse]
                  ELSE [c EXCEPT !.killed = FALSE]
  <2>1. d \in CachedKey
    BY <1>1, CachedFields
  <2>2. cache' = [cache EXCEPT ![op[a].key] = d]
    BY <1>6 DEF UnkillCache
  <2> HIDE DEF d
  <2>3. cache' \in [Keys -> CachedKey]
    BY <1>1, <2>1, <2>2
  <2>4. QED BY <1>6, <2>3, GateAssumption DEF UnkillCache
<1>7. CASE UnkillClear(a)
  <2>1. op' \in [Admins -> Operation]
    <3>1. op' = [op EXCEPT ![a] = [op[a] EXCEPT !.reset = FALSE, !.period = 0]]
      BY <1>7 DEF UnkillClear
    <3>2. [op[a] EXCEPT !.reset = FALSE, !.period = 0] \in Operation
      BY <1>1, MonthsFacts, OpFields
    <3>3. QED BY <3>1, <3>2, OpType
  <2>2. loop' \in SUBSET Reqs /\ rate' \in SUBSET Reqs
    BY <1>7 DEF UnkillClear
  <2>3. QED BY <1>7, <2>1, <2>2, GateAssumption DEF UnkillClear
<1> HIDE DEF TypeOK
<1>8. QED BY <1>2, <1>3, <1>4, <1>5, <1>6, <1>7

(* Kill, createKey and deleteKey on the row; PutKey on the copy.            *)
LEMMA KeyOpTypeOK ==
  ASSUME TypeOK, NEW a \in Admins,
         \/ \E k \in Keys : Kill(a, k) \/ CreateKey(a, k) \/ DeleteKey(a, k)
         \/ PutKey(a)
  PROVE  TypeOK'
<1> USE DEF TypeOK, store, meter, ReqPC, AdminPC, Procs
<1>1. ASSUME NEW k \in Keys, op' = [op EXCEPT ![a].key = k]
      PROVE  op' \in [Admins -> Operation]
  <2>1. op' = [op EXCEPT ![a] = [op[a] EXCEPT !.key = k]]
    BY <1>1
  <2>2. op[a] \in Operation
    OBVIOUS
  <2>3. [op[a] EXCEPT !.key = k] \in Operation
    <3>1. 0 \in Months
      BY MonthsFacts
    <3>2. QED BY <2>2, <3>1, OpFields
  <2>4. QED BY <2>1, <2>3, OpType
<1>2. ASSUME NEW k \in Keys, Kill(a, k) PROVE TypeOK'
  BY <1>1, <1>2, RowType, BeginKeyOpType, GateAssumption DEF Kill
<1>3. ASSUME NEW k \in Keys, CreateKey(a, k) PROVE TypeOK'
  BY <1>1, <1>3, BeginKeyOpType, GateAssumption DEF CreateKey, Status
<1>4. ASSUME NEW k \in Keys, DeleteKey(a, k) PROVE TypeOK'
  BY <1>1, <1>4, BeginKeyOpType, GateAssumption DEF DeleteKey, Status
<1>5. CASE PutKey(a)
  <2>1. cache' \in [Keys -> CachedKey]
    BY <1>5, CachedKeys DEF PutKey
  <2>2. stale' \in SUBSET Reqs /\ old' \in [Reqs -> CachedKey]
    BY <1>5, SupersedeType DEF PutKey
  <2>3. QED BY <1>5, <2>1, <2>2, GateAssumption DEF PutKey
<1>6. QED BY <1>2, <1>3, <1>4, <1>5

LEMMA ReloadTypeOK ==
  ASSUME TypeOK, NEW a \in Admins,
         \/ ReloadList(a) \/ \E k \in Keys : ReloadUsage(a, k)
         \/ ReloadUsageBy(a) \/ ReloadSwap(a) \/ ReloadFail(a)
  PROVE  TypeOK'
<1> USE DEF TypeOK, store, meter, ReqPC, AdminPC, Procs
<1>1. op[a] \in Operation /\ op[a].key \in Keys /\ op[a].period \in Months
  BY DEF Operation
<1>2. CASE ReloadList(a)
  <2> DEFINE listed == {k \in Keys : Exists(k)}
             snap == [k \in Keys |-> IF Exists(k)
                        THEN [Fresh EXCEPT !.killed = (row[k] = "killed")] ELSE Absent]
  <2>1. snap \in [Keys -> CachedKey]
    <3>1. ASSUME NEW k \in Keys
          PROVE  [Fresh EXCEPT !.killed = (row[k] = "killed")] \in CachedKey
      BY CachedKeys DEF CachedKey
    <3>2. QED BY <3>1, CachedKeys
  <2>2. op' = [op EXCEPT ![a] = [op[a] EXCEPT !.period = month, !.todo = listed,
                                              !.snap = snap]]
    BY <1>2 DEF ReloadList
  <2>3. listed \in SUBSET Keys
    OBVIOUS
  <2> HIDE DEF listed, snap
  <2>4. op' \in [Admins -> Operation]
    <3>1. [op[a] EXCEPT !.period = month, !.todo = listed, !.snap = snap] \in Operation
      BY <1>1, <2>1, <2>3, ListType
    <3>2. QED BY <2>2, <3>1, OpType
  <2>5. dirty' \in [Keys -> BOOLEAN] /\ drift' \in [Keys -> BOOLEAN]
    BY <1>2 DEF ReloadList, OtherKeyOp, Flushing
  <2>6. QED BY <1>2, <2>4, <2>5, GateAssumption DEF ReloadList
<1>3. ASSUME NEW k \in Keys, ReloadUsage(a, k) PROVE TypeOK'
  <2> DEFINE n == usage[op[a].period][k]
  <2>1. n \in Nat
    BY <1>1
  <2>2. op' = [op EXCEPT ![a] = [op[a] EXCEPT !.key = k, !.snap[k].used = n]]
    BY <1>3 DEF ReloadUsage
  <2> HIDE DEF n
  <2>3. op' \in [Admins -> Operation]
    <3>1. [op[a] EXCEPT !.key = k, !.snap[k].used = n] \in Operation
      BY <1>1, <2>1, SnapUsedType
    <3>2. QED BY <2>2, <3>1, OpType
  <2>4. QED BY <1>3, <2>3, GateAssumption DEF ReloadUsage
<1>4. CASE ReloadUsageBy(a)
  <2> DEFINE k == op[a].key
             b == usageBy[op[a].period][k]
             rest == op[a].todo \ {k}
  <2>1. b \in [Targets -> Nat] /\ rest \in SUBSET Keys /\ k \in Keys
    BY <1>1 DEF Operation
  <2>2. op' = [op EXCEPT ![a] = [op[a] EXCEPT !.todo = rest, !.snap[k].usedBy = b]]
    BY <1>4 DEF ReloadUsageBy
  <2> HIDE DEF k, b, rest
  <2>3. op' \in [Admins -> Operation]
    <3>1. [op[a] EXCEPT !.todo = rest, !.snap[k].usedBy = b] \in Operation
      BY <1>1, <2>1, SnapUsedByType
    <3>2. QED BY <2>2, <3>1, OpType
  <2>4. QED BY <1>4, <2>3, GateAssumption DEF ReloadUsageBy
<1>5. CASE ReloadSwap(a)
  <2>1. cache' \in [Keys -> CachedKey]
    BY <1>1, <1>5 DEF ReloadSwap, Operation
  <2>2. stale' \in SUBSET Reqs /\ old' \in [Reqs -> CachedKey]
    BY <1>5, SupersedeType DEF ReloadSwap
  <2>3. op' \in [Admins -> Operation]
    BY <1>1, <1>5, NoOpType DEF ReloadSwap
  <2>4. QED BY <1>5, <2>1, <2>2, <2>3, GateAssumption DEF ReloadSwap
<1>6. CASE ReloadFail(a)
  <2>1. op' \in [Admins -> Operation]
    BY <1>1, <1>6, NoOpType DEF ReloadFail
  <2>2. QED BY <1>6, <2>1, GateAssumption DEF ReloadFail
<1>7. QED BY <1>2, <1>3, <1>4, <1>5, <1>6

LEMMA NextTypeOK == TypeOK /\ [Next]_vars => TypeOK'
<1> SUFFICES ASSUME TypeOK, [Next]_vars PROVE TypeOK'
  OBVIOUS
<1>1. ASSUME NEW r \in Reqs, Gate(r) \/ Metering(r) PROVE TypeOK'
  BY <1>1, GateTypeOK, MeteringTypeOK
<1>2. ASSUME NEW a \in Admins, Operate(a) PROVE TypeOK'
  BY <1>2, UnkillTypeOK, KeyOpTypeOK, ReloadTypeOK DEF Operate
<1>3. ASSUME NEW p \in Procs, KillCache(p) PROVE TypeOK'
  BY <1>3, KillCacheTypeOK
<1>4. CASE Environment
  BY <1>4, EnvironmentTypeOK
<1>5. CASE UNCHANGED vars
  BY <1>5 DEF TypeOK, vars, store, meter
<1>6. QED BY <1>1, <1>2, <1>3, <1>4, <1>5 DEF Next

(* Rows, copy, windows, pending usage and everybody's locals keep their     *)
(* types whatever the requests, the operators and the process do.           *)
THEOREM TypeCorrect == Spec => []TypeOK
BY InitTypeOK, NextTypeOK, PTL DEF Spec

(***************************************************************************)
(* Conservation of metered requests.  MeteredOnce is inductive under       *)
(* TypeOK.  A quiet step leaves everything it reads alone; each of the     *)
(* others is a step of the ledger.                                         *)
(***************************************************************************)
Buffered == pending \cup drain \cup InBatch

Quiet ==
  /\ UNCHANGED <<pending, drain, batch, stored, lost>>
  /\ Finished' = Finished
  /\ InFlight' = InFlight

LEMMA QuietKeeps ==
  ASSUME MeteredOnce, Quiet
  PROVE  MeteredOnce' /\ Buffered' = Buffered /\ UNCHANGED <<stored, lost>>
BY DEF Quiet, MeteredOnce, Buffered, InBatch, OfSlot, Slot

LEMMA GateQuiet ==
  ASSUME TypeOK, NEW r \in Reqs, Gate(r)
  PROVE  Quiet
<1>1. /\ UNCHANGED <<pending, drain, batch, stored, lost>>
      /\ \E v \in ReqPC \ {"flush", "bump", "done"} : pc' = [pc EXCEPT ![r] = v]
  BY DEF Gate, Lookup, RefuseKilled, PassKillSwitch, TripAutoKill, PassLoopGuard, RefuseBudget,
                PassBudget, RefuseRate, PassRate, Serve, Unmetered,
         AutoKill, AutoKillFail, store, meter, ReqPC
<1>2. pc[r] \notin {"flush", "bump", "done"}
  BY DEF Gate, Lookup, RefuseKilled, PassKillSwitch, TripAutoKill, PassLoopGuard, RefuseBudget,
                PassBudget, RefuseRate, PassRate, Serve, Unmetered,
         AutoKill, AutoKillFail
<1>3. QED BY <1>1, <1>2 DEF Quiet, Finished, InFlight, TypeOK, Procs

LEMMA OperateQuiet ==
  ASSUME TypeOK, NEW a \in Admins, Operate(a)
  PROVE  Quiet
<1>1. UNCHANGED <<pending, drain, batch, stored, lost>>
  BY DEF Operate, Kill, CreateKey, DeleteKey, Unkill, ReloadUsage, UnkillReset, UnkillFail,
         UnkillZero, UnkillCache, UnkillClear, PutKey, ReloadList, ReloadUsageBy,
         ReloadSwap, ReloadFail, store, meter
<1>2. \E v : pc' = [pc EXCEPT ![a] = v]
  BY DEF Operate, Kill, CreateKey, DeleteKey, Unkill, ReloadUsage, UnkillReset, UnkillFail,
         UnkillZero, UnkillCache, UnkillClear, PutKey, ReloadList, ReloadUsageBy,
         ReloadSwap, ReloadFail
<1>3. \A r \in Reqs : pc'[r] = pc[r]
  BY <1>2, GateAssumption DEF TypeOK, Procs
<1>4. QED BY <1>1, <1>3 DEF Quiet, Finished, InFlight

LEMMA KillCacheQuiet ==
  ASSUME TypeOK, NEW p \in Procs, KillCache(p)
  PROVE  Quiet
<1>1. /\ pc[p] = "killcache"
      /\ pc' = [pc EXCEPT ![p] = IF p \in Reqs THEN "refused" ELSE "idle"]
      /\ UNCHANGED <<pending, drain, batch, stored, lost>>
  BY DEF KillCache, store, meter
<1>2. QED BY <1>1 DEF Quiet, Finished, InFlight, TypeOK, Procs

LEMMA ClockQuiet ==
  ASSUME \/ \E s \in Keys \X Targets : Cool(s)
         \/ \E s \in Keys \X Targets : DrainCache(s)
         \/ \E r \in Reqs : Expire(r)
         \/ NewMonth
         \/ UNCHANGED vars
  PROVE  Quiet
BY DEF DrainCache, Cool, Expire, NewMonth, vars, store, meter, Quiet, Finished, InFlight

(* A request is recorded: it was nowhere, and is buffered now.              *)
LEMMA RecordStep ==
  ASSUME TypeOK, MeteredOnce, NEW r \in Reqs, RecordLater(r) \/ RecordFlush(r)
  PROVE  /\ MeteredOnce'
         /\ r \notin Buffered \cup stored \cup lost
         /\ Buffered' = Buffered \cup {r}
         /\ UNCHANGED <<stored, lost>>
<1>1. r \notin Finished
  BY DEF RecordLater, RecordFlush, Returned, Finished
<1>2. r \notin Buffered \cup stored \cup lost
  BY <1>1 DEF MeteredOnce, Buffered
<1>3. CASE RecordLater(r)
  <2>1. /\ pending' = pending \cup {r}
        /\ UNCHANGED <<drain, batch, stored, lost>>
    BY <1>3 DEF RecordLater, store
  <2>2. Finished' = Finished \cup {r} /\ InFlight' = InFlight
    BY <1>1, <1>3 DEF RecordLater, Returned, Finished, InFlight, TypeOK, Procs
  <2>3. InBatch' = InBatch
    BY <2>1, <2>2 DEF InBatch
  <2>4. MeteredOnce'
    BY <1>2, <2>1, <2>2, <2>3 DEF MeteredOnce, Buffered, OfSlot, Slot
  <2>5. QED BY <1>2, <2>1, <2>3, <2>4 DEF Buffered
<1>4. CASE RecordFlush(r)
  <2> DEFINE due == OfSlot(pending, Slot(r))
  <2>1. /\ pending' = pending \ due
        /\ batch' = [batch EXCEPT ![r] = due \cup {r}]
        /\ UNCHANGED <<drain, stored, lost>>
    BY <1>4 DEF RecordFlush, store
  <2>2. Finished' = Finished \cup {r} /\ InFlight' = InFlight \cup {r}
    BY <1>4 DEF RecordFlush, Finished, InFlight, TypeOK, Procs
  <2>3. r \notin InFlight
    BY <1>1 DEF Finished, InFlight
  <2>4. due \subseteq pending /\ due \cup {r} \subseteq OfSlot(Reqs, Slot(r))
    BY DEF OfSlot, TypeOK
  <2> HIDE DEF due
  <2>5. batch'[r] = due \cup {r} /\ \A q \in Reqs \ {r} : batch'[q] = batch[q]
    BY <2>1 DEF TypeOK
  <2>6. InFlight \subseteq Reqs
    BY DEF InFlight
  <2>7. InBatch' = InBatch \cup due \cup {r}
    BY <2>2, <2>3, <2>5, <2>6 DEF InBatch
  <2>8. MeteredOnce'
    <3>1. Finished' = (pending \cup drain \cup InBatch \cup stored \cup lost)'
      BY <2>1, <2>2, <2>4, <2>7 DEF MeteredOnce
    <3>2. \A x \in Reqs :
            /\ x \in pending' => x \notin (drain \cup InBatch \cup stored \cup lost)'
            /\ x \in drain' => x \notin (InBatch \cup stored \cup lost)'
            /\ x \in InBatch' => x \notin (stored \cup lost)'
            /\ x \in stored' => x \notin lost'
      BY <1>2, <2>1, <2>4, <2>7 DEF MeteredOnce, Buffered
    <3>3. ASSUME NEW q \in InFlight PROVE batch[q] \cap (due \cup {r}) = {}
      <4>1. batch[q] \subseteq InBatch
        BY <3>3 DEF InBatch
      <4>2. QED BY <4>1, <1>2, <2>4 DEF MeteredOnce, Buffered, TypeOK
    <3>4. \A x, q \in InFlight' : x # q => batch'[x] \cap batch'[q] = {}
      BY <2>2, <2>3, <2>5, <2>6, <3>3 DEF MeteredOnce
    <3>5. \A q \in Reqs : batch'[q] \subseteq OfSlot(Reqs, Slot(q))
      BY <2>4, <2>5 DEF MeteredOnce
    <3>6. QED BY <3>1, <3>2, <3>4, <3>5 DEF MeteredOnce, OfSlot, Slot
  <2>9. QED BY <1>2, <2>1, <2>4, <2>7, <2>8 DEF Buffered
<1>5. QED BY <1>2, <1>3, <1>4

(* A batch that leaves InFlight takes its requests out of InBatch, and them *)
(* alone.                                                                   *)
LEMMA BatchLeaves ==
  ASSUME TypeOK, MeteredOnce, NEW r \in InFlight,
         InFlight' = InFlight \ {r},
         \A q \in InFlight \ {r} : batch'[q] = batch[q]
  PROVE  InBatch' = InBatch \ batch[r] /\ batch[r] \subseteq InBatch
BY DEF InBatch, MeteredOnce

(* Committing a batch charges it.                                           *)
LEMMA FlushStoreStep ==
  ASSUME TypeOK, MeteredOnce, NEW r \in Reqs, FlushStore(r)
  PROVE  /\ MeteredOnce'
         /\ batch[r] \subseteq Buffered
         /\ Buffered' = Buffered \ batch[r]
         /\ stored' = stored \cup batch[r] /\ lost' = lost
<1>1. r \in InFlight
  BY DEF FlushStore, InFlight
<1>2. UNCHANGED <<pending, drain, batch, lost>> /\ stored' = stored \cup batch[r]
  BY DEF FlushStore, IncrUsage, meter
<1>3. Finished' = Finished /\ InFlight' = InFlight \ {r}
  BY DEF FlushStore, Finished, InFlight, TypeOK, Procs
<1>4. InBatch' = InBatch \ batch[r] /\ batch[r] \subseteq InBatch
  BY <1>1, <1>2, <1>3, BatchLeaves
<1>5. InBatch \subseteq Reqs
  BY DEF InBatch, InFlight, TypeOK
<1>6. MeteredOnce'
  BY <1>2, <1>3, <1>4, <1>5 DEF MeteredOnce, OfSlot, Slot
<1>7. batch[r] \cap (pending \cup drain) = {}
  BY <1>4, <1>5 DEF MeteredOnce
<1>8. QED BY <1>2, <1>4, <1>6, <1>7 DEF Buffered

(* A batch that could not be committed waits again.                         *)
LEMMA FlushFailStep ==
  ASSUME TypeOK, MeteredOnce, NEW r \in Reqs, FlushFail(r)
  PROVE  MeteredOnce' /\ Buffered' = Buffered /\ UNCHANGED <<stored, lost>>
<1>1. r \in InFlight
  BY DEF FlushFail, InFlight
<1>2. /\ pending' = pending \cup batch[r]
      /\ batch' = [batch EXCEPT ![r] = {}]
      /\ UNCHANGED <<drain, stored, lost>>
  BY DEF FlushFail, store
<1>3. Finished' = Finished /\ InFlight' = InFlight \ {r}
  BY DEF FlushFail, Finished, InFlight, TypeOK, Procs
<1>4. batch'[r] = {} /\ \A q \in Reqs \ {r} : batch'[q] = batch[q]
  BY <1>2 DEF TypeOK
<1>5. InBatch' = InBatch \ batch[r] /\ batch[r] \subseteq InBatch
  BY <1>1, <1>3, <1>4, BatchLeaves DEF InFlight
<1>6. InBatch \subseteq Reqs
  BY DEF InBatch, InFlight, TypeOK
<1>7. MeteredOnce'
  <2>1. Finished' = (pending \cup drain \cup InBatch \cup stored \cup lost)'
    BY <1>2, <1>3, <1>5 DEF MeteredOnce
  <2>2. \A x \in Reqs :
          /\ x \in pending' => x \notin (drain \cup InBatch \cup stored \cup lost)'
          /\ x \in drain' => x \notin (InBatch \cup stored \cup lost)'
          /\ x \in InBatch' => x \notin (stored \cup lost)'
          /\ x \in stored' => x \notin lost'
    BY <1>2, <1>5, <1>6 DEF MeteredOnce
  <2>3. \A x, q \in InFlight' : x # q => batch'[x] \cap batch'[q] = {}
    BY <1>3, <1>4 DEF MeteredOnce, InFlight
  <2>4. \A q \in Reqs : batch'[q] \subseteq OfSlot(Reqs, Slot(q))
    BY <1>4 DEF MeteredOnce
  <2>5. QED BY <2>1, <2>2, <2>3, <2>4 DEF MeteredOnce, OfSlot, Slot
<1>8. QED BY <1>2, <1>5, <1>7 DEF Buffered

(* Telling the copy is nothing to the ledger: the batch is out already.     *)
LEMMA FlushCacheStep ==
  ASSUME TypeOK, MeteredOnce, NEW r \in Reqs, FlushCache(r)
  PROVE  MeteredOnce' /\ Buffered' = Buffered /\ UNCHANGED <<stored, lost>>
<1>1. /\ batch' = [batch EXCEPT ![r] = {}]
      /\ UNCHANGED <<pending, drain, stored, lost>>
  BY DEF FlushCache, store
<1>2. Finished' = Finished /\ InFlight' = InFlight /\ r \notin InFlight
  BY DEF FlushCache, Finished, InFlight, TypeOK, Procs
<1>3. batch'[r] = {} /\ \A q \in Reqs \ {r} : batch'[q] = batch[q]
  BY <1>1 DEF TypeOK
<1>4. InBatch' = InBatch
  BY <1>2, <1>3 DEF InBatch, InFlight
<1>5. /\ \A x, q \in InFlight' : x # q => batch'[x] \cap batch'[q] = {}
      /\ \A q \in Reqs : batch'[q] \subseteq OfSlot(Reqs, Slot(q))
  BY <1>2, <1>3 DEF MeteredOnce, InFlight
<1>6. QED BY <1>1, <1>2, <1>4, <1>5 DEF MeteredOnce, Buffered, OfSlot, Slot

(* The shutdown flush: taking the snapshot, writing a slot, giving up.      *)
LEMMA FlushAllStep ==
  ASSUME TypeOK, MeteredOnce, FlushAll, drain = {}
  PROVE  MeteredOnce' /\ Buffered' = Buffered /\ UNCHANGED <<stored, lost>>
<1>1. /\ drain' = pending /\ pending' = {}
      /\ UNCHANGED <<batch, stored, lost, pc>>
  BY DEF FlushAll, store
<1>2. Finished' = Finished /\ InFlight' = InFlight /\ InBatch' = InBatch
  BY <1>1 DEF Finished, InFlight, InBatch
<1>3. QED BY <1>1, <1>2 DEF MeteredOnce, Buffered, OfSlot, Slot

LEMMA DrainSlotStep ==
  ASSUME TypeOK, MeteredOnce, NEW s \in Keys \X Targets, DrainSlot(s)
  PROVE  /\ MeteredOnce'
         /\ OfSlot(drain, s) \subseteq Buffered
         /\ Buffered' = Buffered \ OfSlot(drain, s)
         /\ stored' = stored \cup OfSlot(drain, s) /\ lost' = lost
<1> DEFINE due == OfSlot(drain, s)
<1>1. due \subseteq drain /\ drain \subseteq Reqs /\ InBatch \subseteq Reqs
  BY DEF OfSlot, TypeOK, InBatch, InFlight
<1>2. /\ drain' = drain \ due /\ stored' = stored \cup due
      /\ UNCHANGED <<pending, batch, lost, pc>>
  BY DEF DrainSlot, IncrUsage
<1> HIDE DEF due
<1>3. Finished' = Finished /\ InFlight' = InFlight /\ InBatch' = InBatch
  BY <1>2 DEF Finished, InFlight, InBatch
<1>4. MeteredOnce'
  BY <1>1, <1>2, <1>3 DEF MeteredOnce, OfSlot, Slot
<1>5. due \subseteq Buffered /\ Buffered' = Buffered \ due
  BY <1>1, <1>2, <1>3 DEF MeteredOnce, Buffered
<1>6. QED BY <1>2, <1>4, <1>5 DEF due

LEMMA DrainFailStep ==
  ASSUME TypeOK, MeteredOnce, DrainFail
  PROVE  /\ MeteredOnce'
         /\ Buffered' = Buffered \ drain
         /\ lost' = lost \cup drain /\ stored' = stored
<1>1. drain \subseteq Reqs /\ InBatch \subseteq Reqs
  BY DEF TypeOK, InBatch, InFlight
<1>2. /\ drain' = {} /\ lost' = lost \cup drain
      /\ UNCHANGED <<pending, batch, stored, pc>>
  BY DEF DrainFail, store
<1>3. Finished' = Finished /\ InFlight' = InFlight /\ InBatch' = InBatch
  BY <1>2 DEF Finished, InFlight, InBatch
<1>4. MeteredOnce'
  BY <1>1, <1>2, <1>3 DEF MeteredOnce, OfSlot, Slot
<1>5. Buffered' = Buffered \ drain
  BY <1>1, <1>2, <1>3 DEF MeteredOnce, Buffered
<1>6. QED BY <1>2, <1>4, <1>5

(* The process ends: what was buffered is lost.                             *)
LEMMA RestartStep ==
  ASSUME TypeOK, MeteredOnce, Restart
  PROVE  /\ MeteredOnce'
         /\ Buffered' = {}
         /\ lost' = lost \cup Buffered /\ stored' = stored
<1>1. /\ lost' = lost \cup Buffered /\ stored' = stored
      /\ pending' = {} /\ drain' = {}
      /\ batch' = [r \in Reqs |-> {}]
  BY DEF Restart, Buffered, InBatch, store
<1>2. \A r \in Reqs : /\ pc'[r] \in {"flush", "bump", "done"} <=> pc[r] \in {"flush", "bump", "done"}
                     /\ pc'[r] # "flush"
  BY GateAssumption DEF Restart, Procs
<1>3. Finished' = Finished /\ InFlight' = {}
  BY <1>2 DEF Finished, InFlight
<1>4. InBatch' = {}
  BY <1>3 DEF InBatch
<1>5. MeteredOnce'
  BY <1>1, <1>3, <1>4 DEF MeteredOnce, Buffered, OfSlot, Slot
<1>6. QED BY <1>1, <1>4, <1>5 DEF Buffered

(* MeteredOnce needs one more fact to be inductive: FlushAll overwrites the *)
(* drain, so it must be empty before the shutdown begins.                   *)
MeterInv == TypeOK /\ MeteredOnce /\ (drain # {} => stopping)

LEMMA InitMeter == Init => MeterInv
<1> SUFFICES ASSUME Init PROVE MeteredOnce /\ drain = {}
  BY InitTypeOK DEF MeterInv
<1>1. \A r \in Reqs : pc[r] = "new"
  BY DEF Init, Procs
<1>2. Finished = {} /\ InFlight = {}
  BY <1>1 DEF Finished, InFlight
<1>3. InBatch = {}
  BY <1>2 DEF InBatch
<1>4. QED BY <1>2, <1>3 DEF Init, MeteredOnce, OfSlot

(* The ledger step of every step.                                           *)
LedgerStep ==
  \/ Buffered' = Buffered /\ UNCHANGED <<stored, lost>>
  \/ \E r \in Reqs : /\ r \notin Buffered \cup stored \cup lost
                     /\ Buffered' = Buffered \cup {r}
                     /\ UNCHANGED <<stored, lost>>
  \/ \E S \in SUBSET Buffered :
       /\ Buffered' = Buffered \ S
       /\ \/ stored' = stored \cup S /\ lost' = lost
          \/ lost' = lost \cup S /\ stored' = stored

LEMMA MeterStep == MeterInv /\ [Next]_vars => MeteredOnce' /\ LedgerStep
<1> SUFFICES ASSUME MeterInv, [Next]_vars PROVE MeteredOnce' /\ LedgerStep
  OBVIOUS
<1>1. TypeOK /\ MeteredOnce
  BY DEF MeterInv
<1>2. CASE Quiet
  BY <1>1, <1>2, QuietKeeps DEF LedgerStep
<1>3. ASSUME NEW r \in Reqs, Metering(r) PROVE MeteredOnce' /\ LedgerStep
  <2>1. CASE RecordLater(r) \/ RecordFlush(r)
    BY <1>1, <2>1, RecordStep DEF LedgerStep
  <2>2. CASE FlushStore(r)
    BY <1>1, <2>2, FlushStoreStep DEF LedgerStep
  <2>3. CASE FlushFail(r)
    BY <1>1, <2>3, FlushFailStep DEF LedgerStep
  <2>4. CASE FlushCache(r)
    BY <1>1, <2>4, FlushCacheStep DEF LedgerStep
  <2>5. QED BY <1>3, <2>1, <2>2, <2>3, <2>4 DEF Metering
<1>4. CASE FlushAll
  <2>1. drain = {}
    BY <1>4 DEF FlushAll, MeterInv
  <2>2. QED BY <1>1, <1>4, <2>1, FlushAllStep DEF LedgerStep
<1>5. ASSUME NEW s \in Keys \X Targets, DrainSlot(s) PROVE MeteredOnce' /\ LedgerStep
  BY <1>1, <1>5, DrainSlotStep DEF LedgerStep
<1>6. CASE DrainFail
  <2>1. drain \subseteq Buffered
    BY DEF Buffered
  <2>2. QED BY <1>1, <1>6, <2>1, DrainFailStep DEF LedgerStep
<1>7. CASE Restart
  <2>1. Buffered' = Buffered \ Buffered
    BY <1>1, <1>7, RestartStep
  <2>2. QED BY <1>1, <1>7, <2>1, RestartStep DEF LedgerStep
<1>8. CASE \E r \in Reqs : Gate(r)
  BY <1>1, <1>2, <1>8, GateQuiet
<1>9. CASE \E a \in Admins : Operate(a)
  BY <1>1, <1>2, <1>9, OperateQuiet
<1>10. CASE \E p \in Procs : KillCache(p)
  BY <1>1, <1>2, <1>10, KillCacheQuiet
<1>11. CASE \/ \E s \in Keys \X Targets : Cool(s)
            \/ \E s \in Keys \X Targets : DrainCache(s)
            \/ \E r \in Reqs : Expire(r)
            \/ NewMonth
            \/ UNCHANGED vars
  BY <1>2, <1>11, ClockQuiet
<1>12. QED
  BY <1>3, <1>4, <1>5, <1>6, <1>7, <1>8, <1>9, <1>10, <1>11 DEF Next, Environment

LEMMA DrainStopping ==
  ASSUME MeterInv, [Next]_vars
  PROVE  (drain # {} => stopping)'
<1>1. CASE UNCHANGED <<drain, stopping>>
  BY <1>1 DEF MeterInv
<1>2. CASE FlushAll
  BY <1>2 DEF FlushAll
<1>3. CASE DrainFail \/ Restart
  BY <1>3 DEF DrainFail, Restart
<1>4. ASSUME NEW s \in Keys \X Targets, DrainSlot(s) PROVE (drain # {} => stopping)'
  BY <1>4 DEF DrainSlot, OfSlot, MeterInv
<1>5. ASSUME NEW r \in Reqs, Gate(r) PROVE UNCHANGED <<drain, stopping>>
  BY <1>5 DEF Gate, Lookup, RefuseKilled, PassKillSwitch, TripAutoKill, PassLoopGuard, RefuseBudget,
                PassBudget, RefuseRate, PassRate, Serve,
              Unmetered, AutoKill, AutoKillFail, meter
<1>6. ASSUME NEW r \in Reqs, Metering(r) PROVE UNCHANGED <<drain, stopping>>
  BY <1>6 DEF Metering, RecordLater, RecordFlush, FlushStore, FlushFail, FlushCache, meter
<1>7. ASSUME NEW a \in Admins, Operate(a) PROVE UNCHANGED <<drain, stopping>>
  BY <1>7 DEF Operate, Kill, CreateKey, DeleteKey, Unkill, ReloadUsage, UnkillReset,
              UnkillFail, UnkillZero, UnkillCache, UnkillClear, PutKey, ReloadList,
              ReloadUsageBy, ReloadSwap, ReloadFail, meter
<1>8. ASSUME NEW p \in Procs, KillCache(p) PROVE UNCHANGED <<drain, stopping>>
  BY <1>8 DEF KillCache, meter
<1>9. CASE \/ \E s \in Keys \X Targets : Cool(s)
           \/ \E s \in Keys \X Targets : DrainCache(s)
           \/ \E r \in Reqs : Expire(r)
           \/ NewMonth
           \/ UNCHANGED vars
  BY <1>1, <1>9 DEF DrainCache, Cool, Expire, NewMonth, vars, meter
<1>10. QED
  BY <1>1, <1>2, <1>3, <1>4, <1>5, <1>6, <1>7, <1>8, <1>9 DEF Next, Environment

LEMMA MeterInvariance == Spec => []MeterInv
<1>1. MeterInv /\ [Next]_vars => MeterInv'
  BY NextTypeOK, MeterStep, DrainStopping DEF MeterInv
<1>2. QED BY <1>1, InitMeter, PTL DEF Spec

(* Throttling, retries, concurrent flushes of one slot, the shutdown drain  *)
(* and restarts never charge a finished request twice and never lose one    *)
(* without counting it as lost.                                             *)
THEOREM MeteringConserves == Spec => []MeteredOnce
BY MeterInvariance, PTL DEF MeterInv

(* The gateway's metering implements the usage ledger.                      *)
THEOREM ImplementsLedger == Spec => LedgerSpec
<1>1. Init => Ledger!Init
  <2> SUFFICES ASSUME Init PROVE Ledger!Init
    OBVIOUS
  <2>1. Finished = {} /\ InFlight = {}
    BY DEF Init, Procs, Finished, InFlight
  <2>2. InBatch = {}
    BY <2>1 DEF InBatch
  <2>3. QED BY <2>2 DEF Init, Ledger!Init
<1>2. LedgerStep => [Ledger!Next]_(Ledger!ledger)
  BY DEF LedgerStep, Buffered, Ledger!Next, Ledger!Record, Ledger!Charge, Ledger!Lose,
         Ledger!ledger
<1>3. QED
  BY <1>1, <1>2, MeterStep, MeterInvariance, PTL DEF Spec, LedgerSpec, Ledger!Spec
=============================================================================
