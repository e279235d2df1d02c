------------------------- MODULE KeyGateKillProofs --------------------------
(* The kill switch and the two request windows, proved for any constants. *)
EXTENDS KeyGateProofs, FiniteSetTheorems

(***************************************************************************)
(* Agreement of the copy with the rows.  While key k is undisturbed at     *)
(* most one process is in the middle of an operation on it, and each phase *)
(* of such an operation knows what it will leave behind.                   *)
(***************************************************************************)
Known(k)  == cache[k].known <=> Exists(k)
Agreed(k) == Known(k) /\ (Exists(k) => (cache[k].killed <=> row[k] = "killed"))

SnapAgreed(s, k) ==
  /\ s.known <=> Exists(k)
  /\ Exists(k) => (s.killed <=> row[k] = "killed")

Phase(p, k) ==
  /\ pc[p] = "killcache" => row[k] = "killed" /\ Known(k)
  /\ pc[p] \in {"reset", "zero", "revive"} => row[k] = "live" /\ Known(k)
  /\ pc[p] = "clear" => Agreed(k)
  /\ pc[p] = "put" => row[k] = "live"
  /\ Reloading(p) => SnapAgreed(op[p].snap[k], k)

Undisturbed(k) ==
  /\ \A p, q \in Procs : KeyOpOn(p, k) /\ KeyOpOn(q, k) => p = q
  /\ (\A p \in Procs : ~KeyOpOn(p, k)) => Agreed(k)
  /\ \A p \in Procs : KeyOpOn(p, k) => Phase(p, k)

(* A request that holds the cache's own object holds that of a known key.   *)
HeldKnown == \A r \in Reqs : Holding(r) => cache[KeyOf[r]].known

KillInv == (\A k \in Keys : ~dirty[k] => Undisturbed(k)) /\ HeldKnown

OthersStay(p) ==
  \A q \in Procs \ {p} : pc'[q] = pc[q] /\ (q \in Admins => op'[q] = op[q])

SameFlags(k) ==
  /\ row'[k] = row[k]
  /\ cache'[k].known = cache[k].known
  /\ cache'[k].killed = cache[k].killed

LEMMA AddTokensUsedFlags ==
  ASSUME NEW c \in CachedKey, NEW t \in Targets, NEW n \in Nat
  PROVE  /\ AddTokensUsed(c, t, n).known = c.known
         /\ AddTokensUsed(c, t, n).killed = c.killed
<1> DEFINE u == c.used + n
           b == [c.usedBy EXCEPT ![t] = @ + n]
           d == [c EXCEPT !.used = u, !.usedBy = b]
<1>1. AddTokensUsed(c, t, n) = IF c.known THEN d ELSE c
  BY DEF AddTokensUsed
<1> HIDE DEF u, b
<1>2. d.known = c.known /\ d.killed = c.killed
  BY DEF CachedKey
<1>3. QED BY <1>1, <1>2

LEMMA OthersBusy ==
  ASSUME NEW p \in Procs, OthersStay(p), NEW q \in Procs \ {p}, NEW k
  PROVE  KeyOpOn(q, k)' <=> KeyOpOn(q, k)
BY DEF OthersStay, KeyOpOn, Reloading, Procs

(* p's step does not concern k.                                             *)
LEMMA Elsewhere ==
  ASSUME NEW p \in Procs, OthersStay(p), NEW k \in Keys,
         ~KeyOpOn(p, k), ~KeyOpOn(p, k)', SameFlags(k), Undisturbed(k)
  PROVE  Undisturbed(k)'
<1>1. \A q \in Procs : KeyOpOn(q, k)' <=> KeyOpOn(q, k)
  BY OthersBusy
<1>2. Exists(k)' = Exists(k) /\ Known(k)' = Known(k) /\ Agreed(k)' = Agreed(k)
  BY DEF SameFlags, Exists, Known, Agreed
<1>3. ASSUME NEW q \in Procs, KeyOpOn(q, k) PROVE Phase(q, k)'
  <2>1. q # p /\ Phase(q, k)
    BY <1>3 DEF Undisturbed
  <2>2. pc'[q] = pc[q] /\ Reloading(q)' = Reloading(q)
    BY <2>1 DEF OthersStay, Reloading
  <2>3. Reloading(q) => op'[q] = op[q]
    BY <1>3, <2>1, <2>2 DEF OthersStay, Reloading, Procs, KeyOpOn
  <2>4. Reloading(q)' => SnapAgreed(op[q].snap[k], k)' /\ op'[q] = op[q]
    <3>1. Reloading(q) => SnapAgreed(op[q].snap[k], k)
      BY <2>1 DEF Phase
    <3>2. QED BY <1>2, <2>2, <2>3, <3>1 DEF SnapAgreed, SameFlags
  <2>5. QED BY <1>2, <2>1, <2>2, <2>4 DEF Phase, SameFlags
<1>4. QED BY <1>1, <1>2, <1>3 DEF Undisturbed

(* Nobody but p is in the middle of an operation on k after its step.       *)
LEMMA Alone ==
  ASSUME NEW p \in Procs, OthersStay(p), NEW k \in Keys,
         ~OtherKeyOp(p, k),
         KeyOpOn(p, k)' => Phase(p, k)',
         ~KeyOpOn(p, k)' => Agreed(k)'
  PROVE  Undisturbed(k)'
<1>1. \A q \in Procs \ {p} : ~KeyOpOn(q, k)'
  BY OthersBusy DEF OtherKeyOp
<1>2. QED BY <1>1 DEF Undisturbed

(* A process in the middle of an operation on an undisturbed key is alone.  *)
LEMMA BusyAlone ==
  ASSUME NEW p \in Procs, NEW k, KeyOpOn(p, k), Undisturbed(k)
  PROVE  ~OtherKeyOp(p, k) /\ Phase(p, k)
BY DEF Undisturbed, OtherKeyOp

(* An operation on k begins and leaves k undisturbed: k was settled.        *)
LEMMA BeginAlone ==
  ASSUME TypeOK, NEW p \in Procs, NEW k \in Keys, BeginKeyOp(p, k), ~dirty'[k],
         ~KeyOpOn(p, k), ~dirty[k] => Undisturbed(k)
  PROVE  ~OtherKeyOp(p, k) /\ Agreed(k)
<1>1. dirty'[k] = (dirty[k] \/ OtherKeyOp(p, k))
  BY DEF BeginKeyOp, TypeOK
<1>2. ~dirty[k] /\ ~OtherKeyOp(p, k)
  BY <1>1
<1>3. QED BY <1>2 DEF Undisturbed, OtherKeyOp

(* A step that moves at most a request, and that request neither into nor   *)
(* out of killcache, and that changes counters at most.                     *)
LEMMA CalmStep ==
  ASSUME TypeOK, KillInv, NEW r \in Reqs,
         OthersStay(r), pc[r] # "killcache", pc'[r] # "killcache",
         dirty' = dirty, \A k \in Keys : SameFlags(k)
  PROVE  \A k \in Keys : ~dirty'[k] => Undisturbed(k)'
<1> TAKE k \in Keys
<1>1. ~KeyOpOn(r, k) /\ ~KeyOpOn(r, k)'
  BY DEF KeyOpOn
<1>2. r \in Procs
  BY DEF Procs
<1>3. QED BY <1>1, <1>2, Elsewhere DEF KillInv

Keeps == \A k \in Keys : ~dirty'[k] => Undisturbed(k)'

LEMMA MovesOnly ==
  ASSUME TypeOK, NEW p \in Procs, NEW v, pc' = [pc EXCEPT ![p] = v],
         \/ op' = op
         \/ p \in Admins /\ \E o : op' = [op EXCEPT ![p] = o]
  PROVE  OthersStay(p) /\ pc'[p] = v
BY DEF OthersStay, TypeOK, Procs

LEMMA SameRows ==
  ASSUME row' = row, cache' = cache
  PROVE  \A k \in Keys : SameFlags(k)
BY DEF SameFlags

LEMMA GateKeeps ==
  ASSUME TypeOK, KillInv, NEW r \in Reqs, Gate(r)
  PROVE  Keeps
<1>1. r \in Procs
  BY DEF Procs
<1>2. CASE ~AutoKill(r)
  <2>1. /\ row' = row /\ cache' = cache /\ dirty' = dirty /\ op' = op
        /\ \E v \in ReqPC \ {"killcache"} : pc' = [pc EXCEPT ![r] = v]
    BY <1>2 DEF Gate, Lookup, RefuseKilled, PassKillSwitch, TripAutoKill, PassLoopGuard, RefuseBudget,
                PassBudget, RefuseRate, PassRate, Serve,
                Unmetered, AutoKillFail, store, ReqPC
  <2>2. pc[r] # "killcache"
    BY <1>2 DEF Gate, Lookup, RefuseKilled, PassKillSwitch, TripAutoKill, PassLoopGuard, RefuseBudget,
                PassBudget, RefuseRate, PassRate, Serve,
                Unmetered, AutoKillFail
  <2>3. OthersStay(r) /\ pc'[r] # "killcache"
    BY <1>1, <2>1, MovesOnly
  <2>4. QED BY <2>1, <2>2, <2>3, SameRows, CalmStep DEF Keeps
<1>3. CASE AutoKill(r)
  <2> DEFINE key == KeyOf[r]
  <2>1. /\ row' = [row EXCEPT ![key] = "killed"] /\ Exists(key)
        /\ pc' = [pc EXCEPT ![r] = "killcache"] /\ pc[r] = "autokill"
        /\ cache' = cache /\ op' = op /\ BeginKeyOp(r, key)
    BY <1>3 DEF AutoKill, SetKeyKilled
  <2>2. key \in Keys
    BY GateAssumption
  <2>3. OthersStay(r) /\ pc'[r] = "killcache"
    BY <1>1, <2>1, MovesOnly
  <2> SUFFICES ASSUME NEW k \in Keys, ~dirty'[k] PROVE Undisturbed(k)'
    BY DEF Keeps
  <2>4. CASE k = key
    <3>1. ~KeyOpOn(r, k)
      BY <2>1 DEF KeyOpOn
    <3>2. ~OtherKeyOp(r, k) /\ Agreed(k)
      BY <1>1, <2>1, <2>4, <3>1, BeginAlone DEF KillInv
    <3>3. KeyOpOn(r, k)' /\ Phase(r, k)'
      BY <2>1, <2>2, <2>3, <2>4, <3>2
         DEF KeyOpOn, Phase, Agreed, Known, Exists, Reloading, TypeOK
    <3>4. QED BY <1>1, <2>3, <3>2, <3>3, Alone
  <2>5. CASE k # key
    <3>1. ~KeyOpOn(r, k) /\ ~KeyOpOn(r, k)'
      BY <2>5 DEF KeyOpOn
    <3>2. SameFlags(k) /\ dirty'[k] = dirty[k]
      BY <2>1, <2>2, <2>5 DEF SameFlags, BeginKeyOp, TypeOK
    <3>3. QED BY <1>1, <2>3, <3>1, <3>2, Elsewhere DEF KillInv
  <2>6. QED BY <2>4, <2>5
<1>4. QED BY <1>2, <1>3

LEMMA MeteringKeeps ==
  ASSUME TypeOK, KillInv, NEW r \in Reqs, Metering(r)
  PROVE  Keeps
<1>1. r \in Procs
  BY DEF Procs
<1>2. /\ row' = row /\ dirty' = dirty /\ op' = op
      /\ \E v \in {"flush", "bump", "done"} : pc' = [pc EXCEPT ![r] = v]
  BY DEF Metering, RecordLater, RecordFlush, FlushStore, FlushFail, FlushCache, store
<1>3. pc[r] # "killcache"
  BY DEF Metering, RecordLater, RecordFlush, FlushStore, FlushFail, FlushCache, Returned
<1>4. OthersStay(r) /\ pc'[r] # "killcache"
  BY <1>1, <1>2, MovesOnly
<1>5. \A k \in Keys : SameFlags(k)
  <2>1. CASE cache' = cache
    BY <1>2, <2>1, SameRows
  <2>2. CASE FlushCache(r)
    <3> DEFINE c == AddTokensUsed(cache[KeyOf[r]], TargetOf[r], BatchTokens(batch[r]))
    <3>1. BatchTokens(batch[r]) \in Nat /\ cache[KeyOf[r]] \in CachedKey
      BY GateAssumption DEF TypeOK
    <3>2. c.known = cache[KeyOf[r]].known /\ c.killed = cache[KeyOf[r]].killed
      BY <3>1, AddTokensUsedFlags, GateAssumption
    <3>3. cache' = [cache EXCEPT ![KeyOf[r]] = c]
      BY <2>2 DEF FlushCache
    <3> HIDE DEF c
    <3>4. QED BY <1>2, <3>2, <3>3 DEF SameFlags, TypeOK
  <2>3. QED BY <2>1, <2>2 DEF Metering, RecordLater, RecordFlush, FlushStore, FlushFail
<1>6. QED BY <1>2, <1>3, <1>4, <1>5, CalmStep DEF Keeps

LEMMA EnvironmentKeeps ==
  ASSUME TypeOK, KillInv, Environment \/ UNCHANGED vars
  PROVE  Keeps
<1>1. ASSUME UNCHANGED <<row, pc, op, dirty>>, \A k \in Keys : SameFlags(k)
      PROVE  Keeps
  <2> SUFFICES ASSUME NEW k \in Keys, ~dirty'[k] PROVE Undisturbed(k)'
    BY DEF Keeps
  <2>1. Undisturbed(k) /\ SameFlags(k)
    BY <1>1 DEF KillInv
  <2>2. /\ \A p \in Procs : KeyOpOn(p, k)' = KeyOpOn(p, k)
        /\ Exists(k)' = Exists(k) /\ Known(k)' = Known(k) /\ Agreed(k)' = Agreed(k)
    BY <1>1, <2>1 DEF KeyOpOn, Reloading, SameFlags, Exists, Known, Agreed
  <2>3. \A p \in Procs : Phase(p, k) => Phase(p, k)'
    BY <1>1, <2>2 DEF Phase, SnapAgreed, Reloading
  <2>4. QED BY <2>1, <2>2, <2>3 DEF Undisturbed
<1>2. CASE Restart
  <2> SUFFICES ASSUME NEW k \in Keys PROVE Undisturbed(k)'
    BY DEF Keeps
  <2>1. \A p \in Procs : ~KeyOpOn(p, k)'
    BY <1>2, GateAssumption DEF Restart, KeyOpOn, Reloading, Procs, TypeOK, ReqPC, AdminPC
  <2>2. cache'[k] = Loaded(k) /\ row' = row
    BY <1>2 DEF Restart, store
  <2>3. Agreed(k)'
    <3>1. CASE Exists(k)
      <4>1. cache'[k].known = TRUE /\ cache'[k].killed = (row[k] = "killed")
        BY <2>2, <3>1 DEF Loaded
      <4>2. QED BY <2>2, <3>1, <4>1, Zenon DEF Agreed, Known, Exists
    <3>2. CASE ~Exists(k)
      <4>1. cache'[k].known = FALSE
        BY <2>2, <3>2 DEF Loaded, Absent
      <4>2. QED BY <2>2, <3>2, <4>1, Zenon DEF Agreed, Known, Exists
    <3>3. QED BY <3>1, <3>2
  <2>4. QED BY <2>1, <2>3 DEF Undisturbed
<1>3. ASSUME NEW s \in Keys \X Targets, DrainCache(s) PROVE Keeps
  <2> DEFINE c == AddTokensUsed(cache[s[1]], s[2], BatchTokens(drained))
  <2>1. drained \in SUBSET Reqs /\ s[1] \in Keys /\ s[2] \in Targets
    BY DEF TypeOK
  <2>2. BatchTokens(drained) \in Nat /\ cache[s[1]] \in CachedKey
    BY <2>1, GateAssumption DEF TypeOK
  <2>3. c.known = cache[s[1]].known /\ c.killed = cache[s[1]].killed
    BY <2>1, <2>2, AddTokensUsedFlags
  <2>4. cache' = [cache EXCEPT ![s[1]] = c] /\ UNCHANGED <<row, pc, op, dirty>>
    BY <1>3 DEF DrainCache, store
  <2> HIDE DEF c
  <2>5. \A k \in Keys : SameFlags(k)
    BY <2>1, <2>3, <2>4 DEF SameFlags, TypeOK
  <2>6. QED BY <1>1, <2>4, <2>5
<1>4. CASE \/ FlushAll \/ DrainFail \/ NewMonth \/ UNCHANGED vars
           \/ \E s \in Keys \X Targets : DrainSlot(s) \/ Cool(s)
           \/ \E r \in Reqs : Expire(r)
  <2>1. UNCHANGED <<row, pc, op, dirty, cache>>
    BY <1>4 DEF FlushAll, DrainSlot, DrainFail, Cool, Expire, NewMonth, store, vars
  <2>2. QED BY <1>1, <2>1, SameRows
<1>5. QED BY <1>2, <1>3, <1>4 DEF Environment

(* The steps of kill, un-kill, createKey and deleteKey.                     *)
LEMMA KillCacheKeeps ==
  ASSUME TypeOK, KillInv, NEW p \in Procs, KillCache(p)
  PROVE  Keeps
<1> DEFINE key == IF p \in Reqs THEN KeyOf[p] ELSE op[p].key
<1>1. key \in Keys
  BY GateAssumption DEF Procs, TypeOK, Operation
<1>2. /\ pc[p] = "killcache"
      /\ cache' = [cache EXCEPT ![key] = [cache[key] EXCEPT !.killed = cache[key].known]]
      /\ pc' = [pc EXCEPT ![p] = IF p \in Reqs THEN "refused" ELSE "idle"]
      /\ row' = row /\ op' = op /\ dirty' = dirty
  BY DEF KillCache, store
<1>3. OthersStay(p) /\ pc'[p] \in {"refused", "idle"}
  BY <1>2, MovesOnly
<1>5. \A k \in Keys : KeyOpOn(p, k) <=> k = key
  <2>1. CASE p \in Reqs
    BY <1>2, <2>1 DEF KeyOpOn
  <2>2. CASE p \notin Reqs
    BY <1>2, <2>2 DEF KeyOpOn, Reloading
  <2>3. QED BY <2>1, <2>2
<1>6. \A k \in Keys : ~KeyOpOn(p, k)'
  <2>1. CASE p \in Reqs
    BY <1>3, <2>1 DEF KeyOpOn
  <2>2. CASE p \notin Reqs
    <3>1. pc'[p] = "idle"
      BY <1>2, <2>2 DEF TypeOK
    <3>2. QED BY <2>2, <3>1 DEF KeyOpOn, Reloading
  <2>3. QED BY <2>1, <2>2
<1> HIDE DEF key
<1> SUFFICES ASSUME NEW k \in Keys, ~dirty'[k] PROVE Undisturbed(k)'
  BY DEF Keeps
<1>7. Undisturbed(k)
  BY <1>2 DEF KillInv
<1>8. CASE k = key
  <2>1. ~OtherKeyOp(p, k) /\ Phase(p, k)
    BY <1>5, <1>7, <1>8, BusyAlone
  <2>2. row[k] = "killed" /\ Known(k)
    BY <1>2, <2>1 DEF Phase
  <2>3. cache[k] \in CachedKey
    BY DEF TypeOK
  <2>4. cache'[k] = [cache[k] EXCEPT !.killed = cache[k].known]
    BY <1>1, <1>2, <1>8 DEF TypeOK
  <2>5. cache'[k].known = cache[k].known /\ cache'[k].killed = cache[k].known
    BY <2>3, <2>4 DEF CachedKey
  <2>6. Agreed(k)'
    BY <1>2, <2>2, <2>5, Zenon DEF Agreed, Known, Exists
  <2>7. QED BY <1>3, <1>6, <2>1, <2>6, Alone
<1>9. CASE k # key
  <2>1. SameFlags(k)
    BY <1>1, <1>2, <1>9 DEF SameFlags, TypeOK
  <2>2. QED BY <1>3, <1>5, <1>6, <1>7, <1>9, <2>1, Elsewhere
<1>10. QED BY <1>8, <1>9

(* An operator begins: the row of k changes, k is marked, its pc moves.     *)
LEMMA BeginKeeps ==
  ASSUME TypeOK, KillInv, NEW a \in Admins, NEW key \in Keys,
         NEW v \in AdminPC \ {"idle", "read", "readby"}, NEW s,
         pc[a] = "idle", pc' = [pc EXCEPT ![a] = v],
         row' = [row EXCEPT ![key] = s], cache' = cache,
         BeginKeyOp(a, key),
         NEW o, op' = [op EXCEPT ![a] = o], o.key = key,
         Agreed(key) => Phase(a, key)'
  PROVE  Keeps
<1>1. a \in Procs /\ a \notin Reqs
  BY GateAssumption DEF Procs
<1>2. OthersStay(a) /\ pc'[a] = v
  BY <1>1, MovesOnly
<1>3. \A k \in Keys : ~KeyOpOn(a, k)
  BY <1>1 DEF KeyOpOn, Reloading
<1>4. op'[a].key = key
  BY DEF TypeOK
<1>5. \A k \in Keys : KeyOpOn(a, k)' <=> k = key
  BY <1>1, <1>2, <1>4 DEF KeyOpOn, Reloading
<1> SUFFICES ASSUME NEW k \in Keys, ~dirty'[k] PROVE Undisturbed(k)'
  BY DEF Keeps
<1>6. CASE k = key
  <2>1. ~OtherKeyOp(a, k) /\ Agreed(k)
    BY <1>1, <1>3, <1>6, BeginAlone DEF KillInv
  <2>2. QED BY <1>1, <1>2, <1>5, <1>6, <2>1, Alone
<1>7. CASE k # key
  <2>1. SameFlags(k) /\ dirty'[k] = dirty[k]
    BY <1>7 DEF SameFlags, BeginKeyOp, TypeOK
  <2>2. QED BY <1>1, <1>2, <1>3, <1>5, <1>7, <2>1, Elsewhere DEF KillInv
<1>8. QED BY <1>6, <1>7

(* An operator goes on with, or ends, what it does to its key.              *)
LEMMA ContinueKeeps ==
  ASSUME TypeOK, KillInv, NEW a \in Admins, NEW key \in Keys, op[a].key = key,
         pc[a] \notin {"idle", "read", "readby"}, pc'[a] \notin {"read", "readby"},
         OthersStay(a), op'[a].key = key,
         row' = row, dirty' = dirty,
         \A k \in Keys \ {key} : cache'[k] = cache[k],
         (Phase(a, key) /\ pc'[a] # "idle") => Phase(a, key)',
         (Phase(a, key) /\ pc'[a] = "idle") => Agreed(key)'
  PROVE  Keeps
<1>1. a \in Procs /\ a \notin Reqs
  BY GateAssumption DEF Procs
<1>2. \A k \in Keys : KeyOpOn(a, k) <=> k = key
  BY <1>1 DEF KeyOpOn, Reloading
<1>3. \A k \in Keys : KeyOpOn(a, k)' <=> (pc'[a] # "idle" /\ k = key)
  BY <1>1 DEF KeyOpOn, Reloading
<1> SUFFICES ASSUME NEW k \in Keys, ~dirty'[k] PROVE Undisturbed(k)'
  BY DEF Keeps
<1>4. Undisturbed(k)
  BY DEF KillInv
<1>5. CASE k = key
  <2>1. ~OtherKeyOp(a, k) /\ Phase(a, k)
    BY <1>1, <1>2, <1>4, <1>5, BusyAlone
  <2>2. QED BY <1>1, <1>3, <1>5, <2>1, Alone
<1>6. CASE k # key
  <2>1. SameFlags(k)
    BY <1>6 DEF SameFlags
  <2>2. QED BY <1>1, <1>2, <1>3, <1>4, <1>6, <2>1, Elsewhere
<1>7. QED BY <1>5, <1>6

LEMMA BeginSteps ==
  ASSUME TypeOK, KillInv, NEW a \in Admins, NEW k \in Keys, NEW reset \in BOOLEAN,
         Kill(a, k) \/ CreateKey(a, k) \/ DeleteKey(a, k) \/ Unkill(a, k, reset)
  PROVE  Keeps
<1>1. a \in Procs /\ row \in [Keys -> Status] /\ op[a] \in Operation
      /\ pc \in [Procs -> ReqPC \cup AdminPC]
  BY DEF TypeOK, Procs
<1> DEFINE o == [op[a] EXCEPT !.key = k]
<1>2. o.key = k
  BY <1>1 DEF Operation
<1>3. ASSUME op' = [op EXCEPT ![a].key = k] PROVE op' = [op EXCEPT ![a] = o]
  BY <1>3
<1> HIDE DEF o
<1>4. CASE Kill(a, k)
  <2>1. /\ row' = [row EXCEPT ![k] = "killed"] /\ Exists(k) /\ cache' = cache
        /\ pc[a] = "idle" /\ pc' = [pc EXCEPT ![a] = "killcache"]
        /\ op' = [op EXCEPT ![a] = o] /\ BeginKeyOp(a, k)
    BY <1>3, <1>4 DEF Kill, SetKeyKilled
  <2>2. row'[k] = "killed" /\ pc'[a] = "killcache"
    BY <1>1, <2>1
  <2>3. Agreed(k) => Phase(a, k)'
    BY <2>1, <2>2 DEF Agreed, Phase, Known, Exists, Reloading
  <2>4. QED BY <1>2, <2>1, <2>3, BeginKeeps DEF AdminPC
<1>5. CASE CreateKey(a, k)
  <2>1. /\ row' = [row EXCEPT ![k] = "live"] /\ cache' = cache
        /\ pc[a] = "idle" /\ pc' = [pc EXCEPT ![a] = "put"]
        /\ op' = [op EXCEPT ![a] = o] /\ BeginKeyOp(a, k)
    BY <1>3, <1>5 DEF CreateKey
  <2>2. row'[k] = "live" /\ pc'[a] = "put"
    BY <1>1, <2>1
  <2>3. Phase(a, k)'
    BY <2>2 DEF Phase, Reloading
  <2>4. QED BY <1>2, <2>1, <2>3, BeginKeeps DEF AdminPC
<1>6. CASE DeleteKey(a, k)
  <2>1. /\ row' = [row EXCEPT ![k] = "gone"] /\ cache' = cache
        /\ pc[a] = "idle" /\ pc' = [pc EXCEPT ![a] = "list"]
        /\ op' = [op EXCEPT ![a] = o] /\ BeginKeyOp(a, k)
    BY <1>3, <1>6 DEF DeleteKey
  <2>2. pc'[a] = "list"
    BY <1>1, <2>1
  <2>3. Phase(a, k)'
    BY <2>2 DEF Phase, Reloading
  <2>4. QED BY <1>2, <2>1, <2>3, BeginKeeps DEF AdminPC
<1>7. CASE Unkill(a, k, reset)
  <2> DEFINE v == IF reset THEN "reset" ELSE "revive"
             u == [op[a] EXCEPT !.key = k, !.reset = reset,
                                !.period = IF reset THEN month ELSE 0]
  <2>1. /\ row' = [row EXCEPT ![k] = "live"] /\ Exists(k) /\ cache' = cache
        /\ pc[a] = "idle" /\ pc' = [pc EXCEPT ![a] = v]
        /\ op' = [op EXCEPT ![a] = u] /\ BeginKeyOp(a, k)
    BY <1>7 DEF Unkill, SetKeyKilled
  <2>2. v \in {"reset", "revive"} /\ u.key = k
    BY <1>1 DEF Operation
  <2> HIDE DEF v, u
  <2>3. row'[k] = "live" /\ pc'[a] = v
    BY <1>1, <2>1
  <2>4. Agreed(k) => Phase(a, k)'
    BY <2>1, <2>2, <2>3 DEF Agreed, Phase, Known, Exists, Reloading
  <2>5. v \in AdminPC \ {"idle", "read", "readby"}
    BY <2>2 DEF AdminPC
  <2>6. QED BY <2>1, <2>2, <2>4, <2>5, BeginKeeps
<1>8. QED BY <1>4, <1>5, <1>6, <1>7

LEMMA ContinueSteps ==
  ASSUME TypeOK, KillInv, NEW a \in Admins,
         UnkillReset(a) \/ UnkillZero(a) \/ UnkillCache(a) \/ UnkillClear(a) \/ PutKey(a)
  PROVE  Keeps
<1>1. a \in Procs /\ op[a] \in Operation /\ op[a].key \in Keys
      /\ pc \in [Procs -> ReqPC \cup AdminPC] /\ cache \in [Keys -> CachedKey]
      /\ op \in [Admins -> Operation]
  BY DEF TypeOK, Procs, Operation
<1>2. PICK key \in Keys : key = op[a].key
  BY <1>1
<1>3. cache[key] \in CachedKey
  BY <1>1
<1>4. CASE UnkillReset(a)
  <2>1. /\ pc[a] = "reset" /\ pc' = [pc EXCEPT ![a] = "zero"]
        /\ UNCHANGED <<row, cache, op, dirty>>
    BY <1>4 DEF UnkillReset
  <2>2. OthersStay(a) /\ pc'[a] = "zero" /\ op'[a].key = key
    BY <1>1, <1>2, <2>1, MovesOnly
  <2>3. Phase(a, key) => Phase(a, key)'
    BY <2>1, <2>2 DEF Phase, Known, Exists, Reloading
  <2>4. QED BY <1>2, <2>1, <2>2, <2>3, ContinueKeeps
<1>5. CASE UnkillZero(a)
  <2> DEFINE c == [cache[key] EXCEPT !.used = 0]
  <2>1. /\ pc[a] = "zero" /\ pc' = [pc EXCEPT ![a] = "revive"]
        /\ cache' = [cache EXCEPT ![key] = c]
        /\ UNCHANGED <<row, op, dirty>>
    BY <1>2, <1>5 DEF UnkillZero, store
  <2>2. c.known = cache[key].known
    BY <1>3 DEF CachedKey
  <2> HIDE DEF c
  <2>3. /\ cache'[key].known = cache[key].known
        /\ \A k \in Keys \ {key} : cache'[k] = cache[k]
    BY <1>1, <2>1, <2>2
  <2>4. OthersStay(a) /\ pc'[a] = "revive" /\ op'[a].key = key
    BY <1>1, <1>2, <2>1, MovesOnly
  <2>5. Phase(a, key) => Phase(a, key)'
    BY <2>1, <2>3, <2>4 DEF Phase, Known, Exists, Reloading
  <2>6. QED BY <1>2, <2>1, <2>3, <2>4, <2>5, ContinueKeeps
<1>6. CASE UnkillCache(a)
  <2> DEFINE c == IF op[a].reset
                    THEN [cache[key] EXCEPT !.killed = FALSE, !.used = 0, !.usedBy = NoUse]
                    ELSE [cache[key] EXCEPT !.killed = FALSE]
  <2>1. /\ pc[a] = "revive" /\ pc' = [pc EXCEPT ![a] = "clear"]
        /\ cache' = [cache EXCEPT ![key] = c]
        /\ UNCHANGED <<row, op, dirty>>
    BY <1>1, <1>2, <1>6 DEF UnkillCache, store
  <2>2. c.known = cache[key].known /\ c.killed = FALSE
    BY <1>3 DEF CachedKey
  <2> HIDE DEF c
  <2>3. /\ cache'[key].known = cache[key].known /\ cache'[key].killed = FALSE
        /\ \A k \in Keys \ {key} : cache'[k] = cache[k]
    BY <1>1, <2>1, <2>2
  <2>4. OthersStay(a) /\ pc'[a] = "clear" /\ op'[a].key = key
    BY <1>1, <1>2, <2>1, MovesOnly
  <2>5. Phase(a, key) => Phase(a, key)'
    <3>1. Phase(a, key) => row[key] = "live" /\ Known(key)
      BY <2>1 DEF Phase
    <3>2. row[key] = "live" /\ Known(key) => Agreed(key)'
      BY <2>1, <2>3, Zenon DEF Agreed, Known, Exists
    <3>3. Agreed(key)' => Phase(a, key)'
      BY <2>4 DEF Phase, Reloading
    <3>4. QED BY <3>1, <3>2, <3>3
  <2>6. QED BY <1>2, <2>1, <2>3, <2>4, <2>5, ContinueKeeps
<1>7. CASE UnkillClear(a)
  <2> DEFINE o == [op[a] EXCEPT !.reset = FALSE, !.period = 0]
  <2>1. /\ pc[a] = "clear" /\ pc' = [pc EXCEPT ![a] = "idle"]
        /\ op' = [op EXCEPT ![a] = o] /\ UNCHANGED <<row, cache, dirty>>
    BY <1>7 DEF UnkillClear, store
  <2>2. o.key = key
    BY <1>1, <1>2 DEF Operation
  <2> HIDE DEF o
  <2>3. OthersStay(a) /\ pc'[a] = "idle" /\ op'[a].key = key
    BY <1>1, <2>1, <2>2, MovesOnly
  <2>4. Phase(a, key) => Agreed(key)'
    BY <2>1 DEF Phase, Agreed, Known, Exists
  <2>5. QED BY <1>2, <2>1, <2>3, <2>4, ContinueKeeps
<1>8. CASE PutKey(a)
  <2>1. /\ pc[a] = "put" /\ pc' = [pc EXCEPT ![a] = "idle"]
        /\ cache' = [cache EXCEPT ![key] = Fresh] /\ UNCHANGED <<row, op, dirty>>
    BY <1>2, <1>8 DEF PutKey, store
  <2>2. Fresh.known = TRUE /\ Fresh.killed = FALSE
    BY DEF Fresh, Absent
  <2>3. /\ cache'[key].known = TRUE /\ cache'[key].killed = FALSE
        /\ \A k \in Keys \ {key} : cache'[k] = cache[k]
    BY <1>1, <2>1, <2>2
  <2>4. OthersStay(a) /\ pc'[a] = "idle" /\ op'[a].key = key
    BY <1>1, <1>2, <2>1, MovesOnly
  <2>5. Phase(a, key) => row[key] = "live"
    BY <2>1 DEF Phase
  <2>6. row[key] = "live" => Agreed(key)'
    BY <2>1, <2>3, Zenon DEF Agreed, Known, Exists
  <2>7. QED BY <1>2, <2>1, <2>3, <2>4, <2>5, <2>6, ContinueKeeps
<1>9. QED BY <1>4, <1>5, <1>6, <1>7, <1>8

(* Steps that mark the keys they leave apart, and the steps of Reload.      *)
LEMMA UnkillFailKeeps ==
  ASSUME TypeOK, KillInv, NEW a \in Admins, UnkillFail(a)
  PROVE  Keeps
<1>1. a \in Procs /\ a \notin Reqs /\ op[a] \in Operation
  BY GateAssumption DEF TypeOK, Procs
<1> DEFINE o == [op[a] EXCEPT !.reset = FALSE, !.period = 0]
<1>2. /\ pc[a] = "reset" /\ pc' = [pc EXCEPT ![a] = "idle"]
      /\ op' = [op EXCEPT ![a] = o] /\ row' = row /\ cache' = cache
      /\ dirty' = [dirty EXCEPT ![op[a].key] = TRUE]
  BY DEF UnkillFail, store
<1> HIDE DEF o
<1>3. OthersStay(a) /\ pc'[a] = "idle"
  BY <1>1, <1>2, MovesOnly
<1> SUFFICES ASSUME NEW k \in Keys, ~dirty'[k] PROVE Undisturbed(k)'
  BY DEF Keeps
<1>4. k # op[a].key /\ ~dirty[k]
  BY <1>2 DEF TypeOK
<1>5. ~KeyOpOn(a, k) /\ ~KeyOpOn(a, k)'
  BY <1>1, <1>2, <1>3, <1>4 DEF KeyOpOn, Reloading
<1>6. SameFlags(k) /\ Undisturbed(k)
  BY <1>2, <1>4, SameRows DEF KillInv
<1>7. QED BY <1>1, <1>3, <1>5, <1>6, Elsewhere

LEMMA ReloadListKeeps ==
  ASSUME TypeOK, KillInv, NEW a \in Admins, ReloadList(a)
  PROVE  Keeps
<1>1. a \in Procs /\ a \notin Reqs /\ op[a] \in Operation
  BY GateAssumption DEF TypeOK, Procs
<1> DEFINE snap == [k \in Keys |->
                      IF Exists(k) THEN [Fresh EXCEPT !.killed = (row[k] = "killed")]
                                   ELSE Absent]
           o == [op[a] EXCEPT !.period = month, !.todo = {k \in Keys : Exists(k)},
                              !.snap = snap]
<1>2. /\ pc' = [pc EXCEPT ![a] = "read"] /\ op' = [op EXCEPT ![a] = o]
      /\ row' = row /\ cache' = cache /\ dirty' = [k \in Keys |-> OtherKeyOp(a, k)]
  BY DEF ReloadList, store
<1>3. o.snap = snap
  BY <1>1 DEF Operation
<1>4. \A k \in Keys : /\ snap[k].known <=> Exists(k)
                      /\ Exists(k) => (snap[k].killed <=> row[k] = "killed")
  <2> TAKE k \in Keys
  <2>1. CASE Exists(k)
    <3>1. snap[k] = [Fresh EXCEPT !.killed = (row[k] = "killed")]
      BY <2>1
    <3>2. snap[k].known = TRUE /\ snap[k].killed = (row[k] = "killed")
      BY <3>1 DEF Fresh, Absent
    <3> HIDE DEF snap
    <3>3. QED BY <2>1, <3>2, Zenon
  <2>2. CASE ~Exists(k)
    <3>1. snap[k].known = FALSE
      BY <2>2 DEF Absent
    <3> HIDE DEF snap
    <3>2. QED BY <2>2, <3>1, Zenon
  <2>3. QED BY <2>1, <2>2
<1> HIDE DEF o, snap
<1>5. OthersStay(a) /\ pc'[a] = "read" /\ op'[a].snap = snap
  BY <1>1, <1>2, <1>3, MovesOnly DEF TypeOK
<1> SUFFICES ASSUME NEW k \in Keys, ~dirty'[k] PROVE Undisturbed(k)'
  BY DEF Keeps
<1>6. ~OtherKeyOp(a, k)
  BY <1>2
<1>7. KeyOpOn(a, k)' /\ Phase(a, k)'
  <2>1. SnapAgreed(op[a].snap[k], k)'
    BY <1>2, <1>4, <1>5 DEF SnapAgreed, Exists
  <2>2. QED BY <1>1, <1>5, <2>1 DEF KeyOpOn, Reloading, Phase
<1>8. QED BY <1>1, <1>5, <1>6, <1>7, Alone

LEMMA ReloadReadKeeps ==
  ASSUME TypeOK, KillInv, NEW a \in Admins, NEW key \in Keys,
         ReloadUsage(a, key) \/ ReloadUsageBy(a)
  PROVE  Keeps
<1>1. /\ a \in Procs /\ a \notin Reqs /\ op[a] \in Operation /\ op \in [Admins -> Operation]
      /\ op[a].snap \in [Keys -> CachedKey] /\ op[a].key \in Keys
  BY GateAssumption DEF TypeOK, Procs, Operation
<1>2. PICK v \in {"read", "readby"}, o \in [key : Keys, reset : BOOLEAN, period : Months,
                                             todo : SUBSET Keys, snap : [Keys -> CachedKey]] :
        /\ pc[a] \in {"read", "readby"} /\ pc' = [pc EXCEPT ![a] = v]
        /\ op' = [op EXCEPT ![a] = o]
        /\ UNCHANGED <<row, cache, dirty>>
        /\ \A k \in Keys : o.snap[k].known = op[a].snap[k].known
                           /\ o.snap[k].killed = op[a].snap[k].killed
  <2>1. CASE ReloadUsage(a, key)
    <3> DEFINE n == usage[op[a].period][key]
               c == [op[a].snap[key] EXCEPT !.used = n]
               s == [op[a].snap EXCEPT ![key] = c]
               o == [op[a] EXCEPT !.key = key, !.snap = s]
    <3>1. n \in Nat /\ op[a].snap[key] \in CachedKey
      BY <1>1 DEF TypeOK, Operation
    <3>2. c \in CachedKey /\ c.known = op[a].snap[key].known
          /\ c.killed = op[a].snap[key].killed
      <4> HIDE DEF n
      <4>1. QED BY <3>1 DEF CachedKey
    <3>3. /\ pc[a] = "read" /\ pc' = [pc EXCEPT ![a] = "readby"]
          /\ op' = [op EXCEPT ![a] = o] /\ UNCHANGED <<row, cache, dirty>>
      BY <2>1 DEF ReloadUsage, store
    <3> HIDE DEF c
    <3>4. /\ s \in [Keys -> CachedKey]
          /\ \A k \in Keys : s[k].known = op[a].snap[k].known
                             /\ s[k].killed = op[a].snap[k].killed
      BY <1>1, <3>2
    <3> HIDE DEF s
    <3>5. o \in Operation /\ o.snap = s
      BY <1>1, <3>4 DEF Operation
    <3> HIDE DEF o
    <3>6. QED BY <3>3, <3>4, <3>5 DEF Operation
  <2>2. CASE ReloadUsageBy(a)
    <3> DEFINE k0 == op[a].key
               b == usageBy[op[a].period][k0]
               c == [op[a].snap[k0] EXCEPT !.usedBy = b]
               s == [op[a].snap EXCEPT ![k0] = c]
               o == [op[a] EXCEPT !.todo = op[a].todo \ {k0}, !.snap = s]
    <3>1. b \in [Targets -> Nat] /\ op[a].snap[k0] \in CachedKey
      BY <1>1 DEF TypeOK, Operation
    <3>2. c \in CachedKey /\ c.known = op[a].snap[k0].known
          /\ c.killed = op[a].snap[k0].killed
      <4> HIDE DEF b
      <4>1. QED BY <3>1 DEF CachedKey
    <3>3. /\ pc[a] = "readby" /\ pc' = [pc EXCEPT ![a] = "read"]
          /\ op' = [op EXCEPT ![a] = o] /\ UNCHANGED <<row, cache, dirty>>
      BY <2>2 DEF ReloadUsageBy, store
    <3> HIDE DEF c
    <3>4. /\ s \in [Keys -> CachedKey]
          /\ \A k \in Keys : s[k].known = op[a].snap[k].known
                             /\ s[k].killed = op[a].snap[k].killed
      BY <1>1, <3>2
    <3> HIDE DEF s
    <3>5. o \in Operation /\ o.snap = s
      BY <1>1, <3>4 DEF Operation
    <3> HIDE DEF o
    <3>6. QED BY <3>3, <3>4, <3>5 DEF Operation
  <2>3. QED BY <2>1, <2>2
<1>3. OthersStay(a) /\ pc'[a] = v /\ op'[a] = o
  BY <1>1, <1>2, MovesOnly
<1> SUFFICES ASSUME NEW k \in Keys, ~dirty'[k] PROVE Undisturbed(k)'
  BY DEF Keeps
<1>4. KeyOpOn(a, k) /\ KeyOpOn(a, k)'
  BY <1>1, <1>2, <1>3 DEF KeyOpOn, Reloading
<1>5. ~OtherKeyOp(a, k) /\ Phase(a, k)
  BY <1>1, <1>2, <1>4, BusyAlone DEF KillInv
<1>6. SnapAgreed(op[a].snap[k], k)
  BY <1>2, <1>5 DEF Phase, Reloading
<1>7. SnapAgreed(op[a].snap[k], k)'
  BY <1>2, <1>3, <1>6 DEF SnapAgreed, Exists
<1>8. Phase(a, k)'
  BY <1>3, <1>7 DEF Phase, Reloading
<1>9. QED BY <1>1, <1>3, <1>4, <1>5, <1>8, Alone

LEMMA ReloadEndKeeps ==
  ASSUME TypeOK, KillInv, NEW a \in Admins, ReloadSwap(a) \/ ReloadFail(a)
  PROVE  Keeps
<1>1. CASE ReloadSwap(a)
  <2> DEFINE o == NoOp(op[a].key)
  <2>1. /\ pc[a] = "read" /\ pc' = [pc EXCEPT ![a] = "idle"]
        /\ op' = [op EXCEPT ![a] = o] /\ cache' = op[a].snap
        /\ row' = row /\ dirty' = dirty
    BY <1>1 DEF ReloadSwap, store
  <2> HIDE DEF o
  <2>2. a \in Procs /\ a \notin Reqs
    BY GateAssumption DEF Procs
  <2>3. OthersStay(a) /\ pc'[a] = "idle"
    BY <2>1, <2>2, MovesOnly
  <2> SUFFICES ASSUME NEW k \in Keys, ~dirty'[k] PROVE Undisturbed(k)'
    BY DEF Keeps
  <2>4. KeyOpOn(a, k)
    BY <2>1, <2>2 DEF KeyOpOn, Reloading
  <2>5. ~OtherKeyOp(a, k) /\ Phase(a, k)
    BY <2>1, <2>2, <2>4, BusyAlone DEF KillInv
  <2>6. SnapAgreed(op[a].snap[k], k)
    BY <2>1, <2>5 DEF Phase, Reloading
  <2>7. Agreed(k)'
    BY <2>1, <2>6 DEF SnapAgreed, Agreed, Known, Exists
  <2>8. ~KeyOpOn(a, k)'
    BY <2>2, <2>3 DEF KeyOpOn, Reloading
  <2>9. QED BY <2>2, <2>3, <2>5, <2>7, <2>8, Alone
<1>2. CASE ReloadFail(a)
  BY <1>2 DEF ReloadFail, Keeps
<1>3. QED BY <1>1, <1>2

(* No step leaves a key undisturbed that is not.                            *)
LEMMA StepKeeps ==
  ASSUME TypeOK, KillInv, [Next]_vars
  PROVE  Keeps
<1>1. ASSUME NEW r \in Reqs, Gate(r) \/ Metering(r) PROVE Keeps
  BY <1>1, GateKeeps, MeteringKeeps
<1>2. ASSUME NEW a \in Admins, Operate(a) PROVE Keeps
  <2>1. ASSUME NEW k \in Keys,
               \/ Kill(a, k) \/ CreateKey(a, k) \/ DeleteKey(a, k)
               \/ \E reset \in BOOLEAN : Unkill(a, k, reset)
        PROVE  Keeps
    BY <2>1, BeginSteps
  <2>2. ASSUME NEW k \in Keys, ReloadUsage(a, k) PROVE Keeps
    BY <2>2, ReloadReadKeeps
  <2>3. CASE ReloadUsageBy(a)
    <3>1. PICK k \in Keys : k = op[a].key
      BY DEF TypeOK, Operation
    <3>2. QED BY <2>3, ReloadReadKeeps
  <2>4. CASE UnkillReset(a) \/ UnkillZero(a) \/ UnkillCache(a) \/ UnkillClear(a) \/ PutKey(a)
    BY <2>4, ContinueSteps
  <2>5. CASE UnkillFail(a) \/ ReloadList(a) \/ ReloadSwap(a) \/ ReloadFail(a)
    BY <2>5, UnkillFailKeeps, ReloadListKeeps, ReloadEndKeeps
  <2>6. QED BY <1>2, <2>1, <2>2, <2>3, <2>4, <2>5 DEF Operate
<1>3. ASSUME NEW p \in Procs, KillCache(p) PROVE Keeps
  BY <1>3, KillCacheKeeps
<1>4. CASE Environment \/ UNCHANGED vars
  BY <1>4, EnvironmentKeeps
<1>5. QED BY <1>1, <1>2, <1>3, <1>4 DEF Next

KnownStays == \A k \in Keys : cache'[k].known = cache[k].known

(* Where a request may hold the object its lookup returned.                *)
HoldPC == {"gate", "loop", "budget", "rate", "target"}

LEMMA HeldStays ==
  ASSUME HeldKnown, KnownStays,
         \A r \in Reqs : Holding(r)' => Holding(r) \/ cache[KeyOf[r]].known
  PROVE  HeldKnown'
BY GateAssumption DEF HeldKnown, KnownStays

(* Only Lookup hands out the cache's own object, and only of a known key;   *)
(* only PutKey and Reload's swap replace objects, and they supersede all.   *)
LEMMA StepHeld ==
  ASSUME TypeOK, HeldKnown, [Next]_vars
  PROVE  HeldKnown'
<1> USE DEF HoldPC
<1>1. ASSUME NEW r \in Reqs, Gate(r) \/ RecordLater(r) \/ RecordFlush(r)
      PROVE  HeldKnown'
  <2>1. /\ cache' = cache /\ stale \ {r} \subseteq stale'
        /\ \E v : pc' = [pc EXCEPT ![r] = v]
    BY <1>1 DEF Gate, Lookup, RefuseKilled, PassKillSwitch, TripAutoKill, PassLoopGuard, RefuseBudget,
                PassBudget, RefuseRate, PassRate, Serve,
                Unmetered, AutoKill, AutoKillFail, RecordLater, RecordFlush, Release
  <2>2. \A q \in Reqs \ {r} : pc'[q] = pc[q] /\ (q \in stale => q \in stale')
    BY <2>1
  <2>3. Holding(r)' => Holding(r) \/ cache[KeyOf[r]].known
    <3>1. CASE Lookup(r)
      BY <3>1 DEF Lookup, Holding, TypeOK, Procs
    <3>2. CASE PassKillSwitch(r) \/ PassLoopGuard(r) \/ PassBudget(r) \/ PassRate(r)
      BY <3>2 DEF PassKillSwitch, PassLoopGuard, PassBudget, PassRate, Holding
    <3>3. CASE ~Lookup(r) /\ ~PassKillSwitch(r) /\ ~PassLoopGuard(r) /\ ~PassBudget(r)
               /\ ~PassRate(r)
      <4>1. \E v \in ReqPC \ HoldPC : pc' = [pc EXCEPT ![r] = v]
        BY <1>1, <3>3 DEF Gate, RefuseKilled, TripAutoKill, RefuseBudget, RefuseRate, Serve,
                          Unmetered, AutoKill, AutoKillFail, RecordLater, RecordFlush,
                          ReqPC, HoldPC
      <4>2. QED BY <4>1 DEF Holding, HoldPC, TypeOK, Procs
    <3>4. QED BY <3>1, <3>2, <3>3
  <2>4. KnownStays
    BY <2>1 DEF KnownStays
  <2>5. \A q \in Reqs : Holding(q)' => Holding(q) \/ cache[KeyOf[q]].known
    BY <2>2, <2>3 DEF Holding
  <2>6. QED BY <2>4, <2>5, HeldStays
<1>2. ASSUME NEW p \in Procs, stale' = stale, KnownStays,
             NEW v \in (ReqPC \cup AdminPC) \ HoldPC,
             pc' = [pc EXCEPT ![p] = v]
      PROVE  HeldKnown'
  <2>1. \A q \in Reqs : Holding(q)' => Holding(q)
    BY <1>2 DEF Holding, TypeOK, Procs
  <2>2. QED BY <1>2, <2>1, HeldStays
<1>3. ASSUME pc' = pc, stale' = stale, KnownStays PROVE HeldKnown'
  BY <1>3, HeldStays DEF Holding
<1>4. ASSUME NEW r \in Reqs, FlushStore(r) \/ FlushFail(r) PROVE HeldKnown'
  <2>1. cache' = cache /\ stale' = stale
        /\ \E v \in {"bump", "done"} : pc' = [pc EXCEPT ![r] = v]
    BY <1>4 DEF FlushStore, FlushFail
  <2>2. QED BY <1>2, <2>1 DEF KnownStays, Procs, ReqPC
<1>5. ASSUME NEW k \in Keys, NEW t \in Targets, NEW S \in SUBSET Reqs,
             cache' = [cache EXCEPT ![k] = AddTokensUsed(@, t, BatchTokens(S))]
      PROVE  KnownStays
  <2> DEFINE c == AddTokensUsed(cache[k], t, BatchTokens(S))
  <2>0. cache[k] \in CachedKey /\ BatchTokens(S) \in Nat
    BY GateAssumption DEF TypeOK
  <2>1. c.known = cache[k].known
    BY <2>0, AddTokensUsedFlags
  <2>2. cache' = [cache EXCEPT ![k] = c]
    BY <1>5
  <2> HIDE DEF c
  <2>3. QED BY <2>1, <2>2 DEF KnownStays, TypeOK
<1>6. ASSUME NEW r \in Reqs, FlushCache(r) PROVE HeldKnown'
  <2>1. /\ stale' = stale /\ pc' = [pc EXCEPT ![r] = "done"]
        /\ cache' = [cache EXCEPT ![KeyOf[r]] =
                       AddTokensUsed(@, TargetOf[r], BatchTokens(batch[r]))]
    BY <1>6 DEF FlushCache
  <2>2. KnownStays
    BY <1>5, <2>1, GateAssumption DEF TypeOK
  <2>3. QED BY <1>2, <2>1, <2>2 DEF Procs, ReqPC
<1>7. ASSUME NEW p \in Procs, KillCache(p) PROVE HeldKnown'
  <2> DEFINE key == IF p \in Reqs THEN KeyOf[p] ELSE op[p].key
             c == [cache[key] EXCEPT !.killed = cache[key].known]
             v == IF p \in Reqs THEN "refused" ELSE "idle"
  <2>1. key \in Keys
    BY GateAssumption DEF Procs, TypeOK, Operation
  <2>2. cache' = [cache EXCEPT ![key] = c] /\ stale' = stale
        /\ pc' = [pc EXCEPT ![p] = v]
    BY <1>7 DEF KillCache
  <2>3. v \in (ReqPC \cup AdminPC) \ HoldPC
    BY DEF ReqPC, AdminPC
  <2> HIDE DEF key, v
  <2>4. c.known = cache[key].known
    BY <2>1 DEF TypeOK, CachedKey
  <2> HIDE DEF c
  <2>5. KnownStays
    BY <2>1, <2>2, <2>4 DEF KnownStays, TypeOK
  <2>6. QED BY <1>2, <2>2, <2>3, <2>5
<1>8. ASSUME NEW a \in Admins, Operate(a) PROVE HeldKnown'
  <2> DEFINE key == op[a].key
  <2>1. a \in Procs /\ a \notin Reqs /\ key \in Keys /\ cache[key] \in CachedKey
        /\ cache \in [Keys -> CachedKey]
    BY GateAssumption DEF Procs, TypeOK, Operation
  <2>2. ASSUME cache' = cache, stale' = stale, \E v \in AdminPC : pc' = [pc EXCEPT ![a] = v]
        PROVE  HeldKnown'
    <3>1. AdminPC \subseteq (ReqPC \cup AdminPC) \ HoldPC
      BY DEF AdminPC
    <3>2. KnownStays
      BY <2>2 DEF KnownStays
    <3>3. QED BY <1>2, <2>1, <2>2, <3>1, <3>2
  <2>3. ASSUME NEW k \in Keys,
               \/ Kill(a, k) \/ CreateKey(a, k) \/ DeleteKey(a, k)
               \/ \E reset \in BOOLEAN : Unkill(a, k, reset)
               \/ ReloadUsage(a, k)
        PROVE  HeldKnown'
    BY <2>2, <2>3 DEF Kill, CreateKey, DeleteKey, Unkill, ReloadUsage, AdminPC
  <2>4. CASE \/ UnkillReset(a) \/ UnkillFail(a) \/ UnkillClear(a)
             \/ ReloadList(a) \/ ReloadUsageBy(a) \/ ReloadFail(a)
    BY <2>2, <2>4 DEF UnkillReset, UnkillFail, UnkillClear, ReloadList, ReloadUsageBy,
                      ReloadFail, AdminPC
  <2>5. ASSUME NEW c, c.known = cache[key].known, cache' = [cache EXCEPT ![key] = c],
               stale' = stale, NEW v \in {"revive", "clear"}, pc' = [pc EXCEPT ![a] = v]
        PROVE  HeldKnown'
    <3>1. KnownStays
      BY <2>1, <2>5 DEF KnownStays
    <3>2. QED BY <1>2, <2>1, <2>5, <3>1 DEF AdminPC
  <2>6. CASE UnkillZero(a)
    <3> DEFINE c == [cache[key] EXCEPT !.used = 0]
    <3>1. c.known = cache[key].known
      BY <2>1 DEF CachedKey
    <3>2. cache' = [cache EXCEPT ![key] = c] /\ stale' = stale
          /\ pc' = [pc EXCEPT ![a] = "revive"]
      BY <2>6 DEF UnkillZero
    <3> HIDE DEF c
    <3>3. QED BY <2>5, <3>1, <3>2
  <2>7. CASE UnkillCache(a)
    <3> DEFINE c == IF op[a].reset
                      THEN [cache[key] EXCEPT !.killed = FALSE, !.used = 0, !.usedBy = NoUse]
                      ELSE [cache[key] EXCEPT !.killed = FALSE]
    <3>1. c.known = cache[key].known
      BY <2>1 DEF CachedKey
    <3>2. cache' = [cache EXCEPT ![key] = c] /\ stale' = stale
          /\ pc' = [pc EXCEPT ![a] = "clear"]
      BY <2>1, <2>7 DEF UnkillCache
    <3> HIDE DEF c
    <3>3. QED BY <2>5, <3>1, <3>2
  <2>8. ASSUME NEW K \in SUBSET Keys, Supersede(K), pc' = [pc EXCEPT ![a] = "idle"],
               \A k \in Keys \ K : cache'[k] = cache[k]
        PROVE  HeldKnown'
    <3> SUFFICES ASSUME NEW r \in Reqs, Holding(r)' PROVE cache'[KeyOf[r]].known
      BY DEF HeldKnown
    <3>1. pc'[r] = pc[r]
      BY <2>1, <2>8
    <3>2. r \notin stale /\ Holding(r) /\ KeyOf[r] \notin K
      BY <2>8, <3>1 DEF Holding, Supersede
    <3>3. QED BY <2>8, <3>2, GateAssumption DEF HeldKnown
  <2>9. CASE PutKey(a)
    <3>1. /\ Supersede({key}) /\ pc' = [pc EXCEPT ![a] = "idle"]
          /\ cache' = [cache EXCEPT ![key] = Fresh]
      BY <2>9 DEF PutKey
    <3>2. \A k \in Keys \ {key} : cache'[k] = cache[k]
      BY <2>1, <3>1
    <3>3. QED BY <2>1, <2>8, <3>1, <3>2
  <2>10. CASE ReloadSwap(a)
    BY <2>8, <2>10 DEF ReloadSwap
  <2>11. QED BY <1>8, <2>3, <2>4, <2>6, <2>7, <2>9, <2>10 DEF Operate
<1>9. CASE Restart
  <2>1. \A r \in Reqs : pc'[r] \notin HoldPC
    BY <1>9, GateAssumption DEF Restart, Procs
  <2>2. QED BY <2>1 DEF HeldKnown, Holding
<1>10. ASSUME NEW s \in Keys \X Targets, DrainCache(s) PROVE HeldKnown'
  <2>1. /\ pc' = pc /\ stale' = stale /\ s[1] \in Keys /\ s[2] \in Targets
        /\ drained \in SUBSET Reqs
        /\ cache' = [cache EXCEPT ![s[1]] = AddTokensUsed(@, s[2], BatchTokens(drained))]
    BY <1>10 DEF DrainCache, TypeOK
  <2>2. KnownStays
    BY <1>5, <2>1
  <2>3. QED BY <1>3, <2>1, <2>2
<1>11. CASE \/ FlushAll \/ DrainFail \/ NewMonth \/ UNCHANGED vars
            \/ \E s \in Keys \X Targets : DrainSlot(s) \/ Cool(s)
            \/ \E r \in Reqs : Expire(r)
  <2>1. UNCHANGED <<pc, stale, cache>>
    BY <1>11 DEF FlushAll, DrainSlot, DrainFail, Cool, Expire, NewMonth, vars
  <2>2. QED BY <1>3, <2>1 DEF KnownStays
<1>12. QED
  BY <1>1, <1>4, <1>6, <1>7, <1>8, <1>9, <1>10, <1>11 DEF Next, Metering, Environment

LEMMA KillInit == Init => KillInv
<1> SUFFICES ASSUME Init PROVE KillInv
  OBVIOUS
<1>1. \A p \in Procs : pc[p] \in {"new", "idle"} /\ (p \in Reqs <=> pc[p] = "new")
  BY GateAssumption DEF Init, Procs
<1>2. \A p \in Procs, k \in Keys : ~KeyOpOn(p, k)
  BY <1>1 DEF KeyOpOn, Reloading
<1>3. ASSUME NEW k \in Keys PROVE Agreed(k)
  <2>1. cache[k] = Loaded(k)
    BY DEF Init
  <2>2. CASE Exists(k)
    <3>1. cache[k].known = TRUE /\ cache[k].killed = (row[k] = "killed")
      BY <2>1, <2>2 DEF Loaded
    <3>2. QED BY <2>2, <3>1, Zenon DEF Agreed, Known
  <2>3. CASE ~Exists(k)
    <3>1. cache[k].known = FALSE
      BY <2>1, <2>3 DEF Loaded, Absent
    <3>2. QED BY <2>3, <3>1, Zenon DEF Agreed, Known
  <2>4. QED BY <2>2, <2>3
<1>4. HeldKnown
  BY <1>1 DEF HeldKnown, Holding, Procs
<1>5. QED BY <1>2, <1>3, <1>4 DEF KillInv, Undisturbed

LEMMA KillInvariance == Spec => []KillInv
<1>1. TypeOK /\ KillInv /\ [Next]_vars => KillInv'
  BY StepKeeps, StepHeld DEF KillInv, Keeps
<1>2. QED BY <1>1, KillInit, TypeCorrect, PTL DEF Spec

(* The copy agrees with the rows on every settled key, for any number of    *)
(* keys, requests and operators.                                            *)
THEOREM CopyAgrees == Spec => []KillAgrees
<1>1. KillInv => KillAgrees
  BY DEF KillInv, KillAgrees, Settled, Undisturbed, Agreed, Known
<1>2. QED BY <1>1, KillInvariance, PTL

(* Only PassKillSwitch lets a request past the kill switch.                 *)
LEMMA OnlyPassKillSwitch ==
  ASSUME TypeOK, [Next]_vars, NEW r \in Reqs, pc[r] = "gate", pc'[r] = "loop"
  PROVE  PassKillSwitch(r)
<1>1. r \in Procs /\ r \notin Admins
  BY GateAssumption DEF Procs
<1>2. ASSUME NEW q \in Reqs, Gate(q), ~PassKillSwitch(q) PROVE FALSE
  <2>1. \E v \in ReqPC \ {"loop"} : pc' = [pc EXCEPT ![q] = v]
    BY <1>2 DEF Gate, Lookup, RefuseKilled, TripAutoKill, PassLoopGuard, RefuseBudget,
                PassBudget, RefuseRate, PassRate, Serve, Unmetered,
                AutoKill, AutoKillFail, ReqPC
  <2>2. QED BY <1>1, <2>1 DEF TypeOK
<1>3. ASSUME NEW q \in Reqs, PassKillSwitch(q), q # r PROVE FALSE
  BY <1>1, <1>3 DEF PassKillSwitch
<1>4. ASSUME NEW q \in Reqs, Metering(q) PROVE FALSE
  <2>1. \E v \in {"flush", "bump", "done"} : pc' = [pc EXCEPT ![q] = v]
    BY <1>4 DEF Metering, RecordLater, RecordFlush, FlushStore, FlushFail, FlushCache
  <2>2. QED BY <1>1, <2>1 DEF TypeOK
<1>5. ASSUME NEW a \in Admins, Operate(a) PROVE FALSE
  <2>1. \E v : pc' = [pc EXCEPT ![a] = v]
    BY <1>5 DEF Operate, Kill, CreateKey, DeleteKey, Unkill, ReloadUsage, UnkillReset,
                UnkillFail, UnkillZero, UnkillCache, UnkillClear, PutKey, ReloadList,
                ReloadUsageBy, ReloadSwap, ReloadFail
  <2>2. QED BY <1>1, <2>1
<1>6. ASSUME NEW p \in Procs, KillCache(p) PROVE FALSE
  <2> DEFINE v == IF p \in Reqs THEN "refused" ELSE "idle"
  <2>1. pc' = [pc EXCEPT ![p] = v] /\ v # "loop"
    BY <1>6 DEF KillCache
  <2> HIDE DEF v
  <2>2. QED BY <1>1, <2>1 DEF TypeOK
<1>7. CASE Restart
  BY <1>1, <1>7 DEF Restart
<1>8. ASSUME NEW s \in Keys \X Targets, DrainSlot(s) \/ DrainCache(s) \/ Cool(s) PROVE FALSE
  BY <1>8 DEF DrainSlot, DrainCache, Cool
<1>9. CASE \/ FlushAll \/ DrainFail \/ NewMonth \/ UNCHANGED vars
           \/ \E q \in Reqs : Expire(q)
  BY <1>9 DEF FlushAll, DrainFail, Expire, NewMonth, vars
<1>10. QED
  BY <1>2, <1>3, <1>4, <1>5, <1>6, <1>7, <1>8, <1>9 DEF Next, Environment

(* No request that reads the cache's own object passes the kill switch for  *)
(* a settled key whose row is killed or gone.                               *)
THEOREM KillSwitchHolds == Spec => KilledKeyRefused
<1> DEFINE Refused ==
      \A r \in Reqs :
        (pc[r] = "gate" /\ pc'[r] = "loop" /\ r \notin stale /\ Settled(KeyOf[r]))
          => row[KeyOf[r]] = "live"
<1>1. TypeOK /\ KillInv /\ [Next]_vars => [Refused]_vars
  <2> SUFFICES ASSUME TypeOK, KillInv, [Next]_vars,
                      NEW r \in Reqs, pc[r] = "gate", pc'[r] = "loop",
                      r \notin stale, Settled(KeyOf[r])
               PROVE  row[KeyOf[r]] = "live"
    OBVIOUS
  <2>1. ~cache[KeyOf[r]].killed
    BY OnlyPassKillSwitch DEF PassKillSwitch, View
  <2>2. Agreed(KeyOf[r]) /\ cache[KeyOf[r]].known
    BY GateAssumption DEF KillInv, Undisturbed, Settled, HeldKnown, Holding
  <2>3. QED BY <2>1, <2>2, Zenon DEF Agreed, Known, Exists
<1>2. QED BY <1>1, KillInvariance, TypeCorrect, PTL DEF Spec, KilledKeyRefused

(***************************************************************************)
(* The windows.  A request enters a bound only by the step that counted    *)
(* the window it joins.                                                    *)
(***************************************************************************)
Through(k) == {r \in OfKey(loop, k) : Passed(r)}

LEMMA SubsetBound ==
  ASSUME NEW S \in SUBSET Reqs, NEW T \in SUBSET S, NEW n \in Nat, Cardinality(S) <= n
  PROVE  Cardinality(T) <= n
<1>1. IsFiniteSet(S)
  BY FS_Subset, GateAssumption
<1>2. Cardinality(T) <= Cardinality(S) /\ Cardinality(T) \in Nat /\ Cardinality(S) \in Nat
  BY <1>1, FS_Subset, FS_CardinalityType
<1>3. QED BY <1>2

LEMMA LoopShrinks ==
  ASSUME TypeOK, LoopBound, NEW k \in Keys, Through(k)' \subseteq Through(k)
  PROVE  Cardinality(Through(k)') <= LoopThreshold
<1>1. Through(k) \in SUBSET Reqs /\ Through(k)' \in SUBSET Through(k)
  BY DEF Through, OfKey, TypeOK
<1>2. Cardinality(Through(k)) <= LoopThreshold /\ LoopThreshold \in Nat
  BY GateAssumption DEF LoopBound, Through
<1>3. QED BY <1>1, <1>2, SubsetBound

(* A request of which neither stamp nor progress was gained.                *)
Unmoved(q) == q \in loop' /\ Passed(q)' => q \in loop /\ Passed(q)

LEMMA StepLoop ==
  ASSUME TypeOK, LoopBound, [Next]_vars
  PROVE  LoopBound'
<1>1. ASSUME \A q \in Reqs : Unmoved(q), loop' \subseteq Reqs
      PROVE  LoopBound'
  <2>1. \A k \in Keys : Through(k)' \subseteq Through(k)
    BY <1>1 DEF Through, OfKey, Unmoved
  <2>2. \A k \in Keys : Cardinality(Through(k)') <= LoopThreshold
    BY <2>1, LoopShrinks
  <2>3. QED BY <2>2 DEF LoopBound, Through
<1>2. ASSUME NEW r \in Reqs, PassLoopGuard(r) PROVE LoopBound'
  <2>1. /\ loop' = loop \cup {r} /\ pc' = [pc EXCEPT ![r] = "budget"]
        /\ Stamps(r) <= LoopThreshold
    <3>1. Stamps(r) \in Nat /\ LoopThreshold \in Nat
      <4>1. OfKey(loop \cup {r}, KeyOf[r]) \in SUBSET Reqs
        BY DEF OfKey, TypeOK
      <4>2. QED BY <4>1, FS_Subset, FS_CardinalityType, GateAssumption DEF Stamps
    <3>2. QED BY <1>2, <3>1 DEF PassLoopGuard, Trips
  <2> SUFFICES ASSUME NEW k \in Keys PROVE Cardinality(Through(k)') <= LoopThreshold
    BY DEF LoopBound, Through
  <2>2. CASE k = KeyOf[r]
    <3> DEFINE S == OfKey(loop \cup {r}, k)
    <3>1. S \in SUBSET Reqs /\ Through(k)' \in SUBSET S
      BY <2>1 DEF Through, OfKey, TypeOK
    <3>2. Cardinality(S) <= LoopThreshold
      BY <2>1, <2>2 DEF Stamps
    <3> HIDE DEF S
    <3>3. QED BY <3>1, <3>2, SubsetBound, GateAssumption
  <2>3. CASE k # KeyOf[r]
    <3>1. Through(k)' \subseteq Through(k)
      BY <2>1, <2>3 DEF Through, OfKey, Passed, TypeOK
    <3>2. QED BY <3>1, LoopShrinks
  <2>4. QED BY <2>2, <2>3
<1>3. ASSUME NEW r \in Reqs, Gate(r), ~PassLoopGuard(r) PROVE LoopBound'
  <2>1. CASE TripAutoKill(r)
    <3>1. loop' = loop \cup {r} /\ pc' = [pc EXCEPT ![r] = "autokill"]
      BY <2>1 DEF TripAutoKill
    <3>2. QED BY <1>1, <3>1 DEF Unmoved, Passed, TypeOK, Procs
  <2>2. CASE ~TripAutoKill(r)
    <3>1. /\ loop' = loop
          /\ \/ \E v \in ReqPC : pc' = [pc EXCEPT ![r] = v] /\ Passed(r)
             \/ \E v \in {"gate", "loop", "refused", "killcache"} :
                  pc' = [pc EXCEPT ![r] = v]
      BY <1>3, <2>2 DEF Gate, Lookup, RefuseKilled, PassKillSwitch, RefuseBudget, PassBudget,
                        RefuseRate, PassRate, Serve, Unmetered, AutoKill, AutoKillFail,
                        ReqPC, Passed
    <3>2. \A q \in Reqs : Unmoved(q)
      BY <3>1 DEF Unmoved, Passed, TypeOK, Procs
    <3>3. QED BY <1>1, <3>1, <3>2 DEF TypeOK
  <2>3. QED BY <2>1, <2>2
<1>4. ASSUME NEW r \in Reqs, Metering(r) PROVE LoopBound'
  <2>1. loop' = loop /\ Passed(r) /\ \E v \in ReqPC : pc' = [pc EXCEPT ![r] = v]
    BY <1>4 DEF Metering, RecordLater, RecordFlush, FlushStore, FlushFail, FlushCache,
                Returned, Passed, ReqPC
  <2>2. QED BY <1>1, <2>1 DEF Unmoved, Passed, TypeOK, Procs
<1>5. ASSUME NEW a \in Admins, Operate(a) PROVE LoopBound'
  <2>1. loop' \subseteq loop /\ \E v : pc' = [pc EXCEPT ![a] = v]
    BY <1>5 DEF Operate, Kill, CreateKey, DeleteKey, Unkill, ReloadUsage, UnkillReset,
                UnkillFail, UnkillZero, UnkillCache, UnkillClear, PutKey, ReloadList,
                ReloadUsageBy, ReloadSwap, ReloadFail
  <2>2. \A q \in Reqs : pc'[q] = pc[q]
    BY <2>1, GateAssumption
  <2>3. QED BY <1>1, <2>1, <2>2 DEF Unmoved, Passed, TypeOK
<1>6. ASSUME NEW p \in Procs, KillCache(p) PROVE LoopBound'
  <2> DEFINE v == IF p \in Reqs THEN "refused" ELSE "idle"
  <2>1. loop' = loop /\ pc' = [pc EXCEPT ![p] = v] /\ v \in {"refused", "idle"}
    BY <1>6 DEF KillCache
  <2> HIDE DEF v
  <2>2. QED BY <1>1, <2>1 DEF Unmoved, Passed, TypeOK, Procs
<1>7. CASE Restart
  <2>1. loop' = {}
    BY <1>7 DEF Restart
  <2>2. QED BY <1>1, <2>1 DEF Unmoved
<1>8. CASE \/ FlushAll \/ DrainFail \/ NewMonth \/ UNCHANGED vars
           \/ \E s \in Keys \X Targets : DrainSlot(s) \/ DrainCache(s) \/ Cool(s)
           \/ \E q \in Reqs : Expire(q)
  <2>1. loop' \subseteq loop /\ pc' = pc
    BY <1>8 DEF FlushAll, DrainFail, NewMonth, DrainSlot, DrainCache, Cool, Expire, vars
  <2>2. QED BY <1>1, <2>1 DEF Unmoved, Passed, TypeOK
<1>9. QED BY <1>2, <1>3, <1>4, <1>5, <1>6, <1>7, <1>8 DEF Next, Environment

(* What a key's loop window let through never exceeds the threshold, even   *)
(* when the kill that should follow cannot be persisted.                    *)
THEOREM LoopGuardBounds == Spec => []LoopBound
<1>1. Init => LoopBound
  <2> SUFFICES ASSUME Init PROVE LoopBound
    OBVIOUS
  <2>1. \A k \in Keys : {r \in OfKey(loop, k) : Passed(r)} = {}
    BY DEF Init, OfKey
  <2>2. QED BY <2>1, FS_EmptySet, GateAssumption DEF LoopBound
<1>2. QED BY <1>1, StepLoop, TypeCorrect, PTL DEF Spec

LEMMA StepRate ==
  ASSUME TypeOK, RateBound, [Next]_vars
  PROVE  RateBound'
<1> SUFFICES ASSUME RateLimitRPM > 0, NEW k \in Keys
             PROVE  Cardinality(OfKey(rate', k)) <= RateLimitRPM
  BY DEF RateBound, OfKey
<1>1. Cardinality(OfKey(rate, k)) <= RateLimitRPM /\ RateLimitRPM \in Nat
  BY GateAssumption DEF RateBound
<1>2. OfKey(rate, k) \in SUBSET Reqs /\ IsFiniteSet(OfKey(rate, k))
  <2>1. OfKey(rate, k) \in SUBSET Reqs
    BY DEF OfKey, TypeOK
  <2>2. QED BY <2>1, FS_Subset, GateAssumption
<1>3. ASSUME rate' \subseteq rate PROVE Cardinality(OfKey(rate', k)) <= RateLimitRPM
  <2>1. OfKey(rate', k) \in SUBSET OfKey(rate, k)
    BY <1>3 DEF OfKey
  <2>2. QED BY <1>1, <1>2, <2>1, SubsetBound
<1>4. ASSUME NEW r \in Reqs, PassRate(r)
      PROVE  Cardinality(OfKey(rate', k)) <= RateLimitRPM
  <2>1. rate' = rate \cup {r} /\ ~(Cardinality(OfKey(rate, KeyOf[r])) >= RateLimitRPM)
    BY <1>4 DEF PassRate, Limited
  <2>2. CASE k = KeyOf[r]
    <3>1. OfKey(rate', k) = OfKey(rate, k) \cup {r}
      BY <2>1, <2>2 DEF OfKey
    <3>2. /\ Cardinality(OfKey(rate, k)) \in Nat
          /\ Cardinality(OfKey(rate', k)) \in {Cardinality(OfKey(rate, k)),
                                               Cardinality(OfKey(rate, k)) + 1}
      BY <1>2, <3>1, FS_AddElement, FS_CardinalityType
    <3>3. QED BY <1>1, <2>1, <2>2, <3>2
  <2>3. CASE k # KeyOf[r]
    <3>1. OfKey(rate', k) = OfKey(rate, k)
      BY <2>1, <2>3 DEF OfKey
    <3>2. QED BY <1>1, <3>1
  <2>4. QED BY <2>2, <2>3
<1>5. ASSUME NEW r \in Reqs, Gate(r) \/ Metering(r), ~PassRate(r) PROVE rate' \subseteq rate
  BY <1>5 DEF Gate, Lookup, RefuseKilled, PassKillSwitch, TripAutoKill, PassLoopGuard,
              RefuseBudget, PassBudget, RefuseRate, Serve, Unmetered, AutoKill,
              AutoKillFail, Metering, RecordLater, RecordFlush, FlushStore, FlushFail,
              FlushCache
<1>6. ASSUME NEW a \in Admins, Operate(a) PROVE rate' \subseteq rate
  BY <1>6 DEF Operate, Kill, CreateKey, DeleteKey, Unkill, ReloadUsage, UnkillReset,
              UnkillFail, UnkillZero, UnkillCache, UnkillClear, PutKey, ReloadList,
              ReloadUsageBy, ReloadSwap, ReloadFail
<1>7. CASE \/ Environment \/ UNCHANGED vars \/ \E p \in Procs : KillCache(p)
  <2>1. rate' \subseteq rate
    BY <1>7 DEF Environment, FlushAll, DrainFail, NewMonth, DrainSlot, DrainCache, Cool, Expire,
                Restart, KillCache, vars
  <2>2. QED BY <1>3, <2>1
<1>8. QED BY <1>3, <1>4, <1>5, <1>6, <1>7 DEF Next

(* A key's rate window never holds more admissions than its limit.          *)
THEOREM RateGuardBounds == Spec => []RateBound
<1>1. Init => RateBound
  <2> SUFFICES ASSUME Init, RateLimitRPM > 0, NEW k \in Keys
               PROVE  Cardinality(OfKey(rate, k)) <= RateLimitRPM
    BY DEF RateBound
  <2>1. OfKey(rate, k) = {}
    BY DEF Init, OfKey
  <2>2. QED BY <2>1, FS_EmptySet, GateAssumption
<1>2. QED BY <1>1, StepRate, TypeCorrect, PTL DEF Spec
=============================================================================
