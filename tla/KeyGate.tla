------------------------------ MODULE KeyGate ------------------------------
(***************************************************************************)
(* The gateway-key gate and the meter of the request path.                 *)
(*                                                                         *)
(* auth.Validator keeps an in-memory copy of every API key (killed flag,   *)
(* tokens used this month in total and per target) beside the SQLite rows  *)
(* it was loaded from; its Middleware decides on the copy alone.           *)
(* proxy.Meter accumulates what finished requests used and writes it to    *)
(* SQLite at most once a second per key and target, then adds it to the    *)
(* copy.  Kill, Unkill, key creation, key deletion and the policy handlers *)
(* that end in Reload change the rows and the copy in separate steps.      *)
(*                                                                         *)
(* Every SQL statement or transaction is one step: the store opens one     *)
(* connection (SetMaxOpenConns(1)).  Every section under Validator.mu,     *)
(* rateMu or Meter.mu is one step.  Nothing else is atomic.                *)
(***************************************************************************)
EXTENDS Naturals, FiniteSets

CONSTANTS
  Keys,            \* key IDs
  Targets,         \* what a request is metered against: servers and providers
  Providers,       \* the targets that are LLM providers
  Reqs,            \* the requests the clients send, each of them once
  Admins,          \* concurrent operators: dashboard users, the /admin API
  KeyOf,           \* [Reqs -> Keys]: whose key the request carries
  TargetOf,        \* [Reqs -> Targets]: the server or provider it is for
  Disabled,        \* keys stored with enabled = 0 (no handler changes it)
  Budget,          \* monthly_budget of a key, 0 is unlimited
  TargetBudget,    \* per-server or per-provider budget, 0 is unlimited
  LoopThreshold,   \* requests per window beyond which a key is auto-killed
  RateLimitRPM,    \* rate_limit_rpm, 0 is unlimited
  MaxMonth,        \* bound: calendar months that begin during a behaviour
  BatchTokens(_)   \* tokens flushOne charges for a set of requests

ASSUME GateAssumption ==
  /\ Providers \subseteq Targets
  /\ Disabled \subseteq Keys
  /\ KeyOf \in [Reqs -> Keys]
  /\ TargetOf \in [Reqs -> Targets]
  /\ Reqs \cap Admins = {}
  /\ {Budget, TargetBudget, LoopThreshold, RateLimitRPM, MaxMonth} \subseteq Nat
  /\ IsFiniteSet(Reqs)
  /\ \A S \in SUBSET Reqs : BatchTokens(S) \in Nat

VARIABLES
  row,       \* [Keys -> status]: the api_keys row
  month,     \* the current calendar month
  usage,     \* [Months -> [Keys -> Nat]]: usage.tokens_used
  usageBy,   \* [Months -> [Keys -> [Targets -> Nat]]]: usage_by_server/_provider
  stored,    \* requests some usage_by_* row counts
  cache,     \* [Keys -> CachedKey]: what Validator.cache and byID hold
  loop,      \* requests with a stamp in their key's loop window
  rate,      \* requests with a stamp in their key's rate window
  pending,   \* requests in Meter.pending
  hot,       \* <<key, target>> flushed less than flushEvery ago
  pc,        \* where each request and each operator is
  stale,     \* requests whose *CachedKey is no longer the one in the cache
  old,       \* [Reqs -> CachedKey]: what that superseded object holds
  batch,     \* [Reqs -> SUBSET Reqs]: the snapshot record took to flush
  op,        \* [Admins -> [key, reset, period, todo, snap]]: operators' locals
  drain,     \* requests snapshotted by the shutdown Flush, not yet written
  drained,   \* requests it has written whose tokens the copy lacks yet
  stopping,  \* main has begun to shut down
  lost,      \* history: finished requests whose usage no longer exists
  dirty,     \* history: keys whose killed/known flags were disturbed
  drift      \* history: keys whose counters were disturbed

store == <<row, month, usage, usageBy, stored>>
meter == <<pending, hot, batch, drain, drained, stopping, lost>>
vars  == <<store, cache, loop, rate, meter, pc, stale, old, op, dirty, drift>>

Months    == 0 .. MaxMonth
Procs     == Reqs \cup Admins
Status    == {"none", "live", "killed", "gone"}
CachedKey == [known : BOOLEAN, killed : BOOLEAN, used : Nat,
              usedBy : [Targets -> Nat]]

Operation == [key : Keys, reset : BOOLEAN, period : Months,
              todo : SUBSET Keys, snap : [Keys -> CachedKey]]

NoUse  == [t \in Targets |-> 0]
Absent == [known |-> FALSE, killed |-> FALSE, used |-> 0, usedBy |-> NoUse]
Fresh  == [Absent EXCEPT !.known = TRUE]
NoOp(k) == [key |-> k, reset |-> FALSE, period |-> 0, todo |-> {},
            snap |-> [x \in Keys |-> Absent]]

ReqPC   == {"new", "gate", "loop", "budget", "rate", "target", "upstream", "flush", "bump", "done",
            "refused", "autokill", "killcache", "cut"}
AdminPC == {"idle", "killcache", "reset", "zero", "revive", "clear", "put",
            "list", "read", "readby"}

Exists(k) == row[k] \in {"live", "killed"}
OfKey(S, k) == {r \in S : KeyOf[r] = k}
Slot(r) == <<KeyOf[r], TargetOf[r]>>
OfSlot(S, s) == {r \in S : Slot(r) = s}

(***************************************************************************)
(* Who is in the middle of what: used only by the history variables and by *)
(* the properties.                                                         *)
(***************************************************************************)
Reloading(p) == pc[p] \in {"read", "readby"}
KeyOpOn(p, k) ==
  IF p \in Reqs THEN pc[p] = "killcache" /\ KeyOf[p] = k
                ELSE \/ Reloading(p)
                     \/ pc[p] # "idle" /\ op[p].key = k
UsageOpOn(a, k) ==
  \/ Reloading(a)
  \/ pc[a] \in {"reset", "zero", "revive"} /\ op[a].reset /\ op[a].key = k
OtherKeyOp(p, k) == \E q \in Procs \ {p} : KeyOpOn(q, k)
Flushing(k) == \E r \in Reqs : (pc[r] = "bump" \/ r \in drained) /\ KeyOf[r] = k

(* An operation on key k by p begins: if another is under way, k is dirty. *)
BeginKeyOp(p, k) == dirty' = [dirty EXCEPT ![k] = @ \/ OtherKeyOp(p, k)]
----------------------------------------------------------------------------
(* store.go: the rows. *)

SetKeyKilled(k, on) ==
  /\ Exists(k)
  /\ row' = [row EXCEPT ![k] = IF on THEN "killed" ELSE "live"]

ResetUsagePeriod(k, m) == usage' = [usage EXCEPT ![m][k] = 0]

(* One transaction on the key's row and the target's row. *)
IncrUsage(k, t, S) ==
  /\ usage' = [usage EXCEPT ![month][k] = @ + BatchTokens(S)]
  /\ usageBy' = [usageBy EXCEPT ![month][k][t] = @ + BatchTokens(S)]
  /\ stored' = stored \cup S
----------------------------------------------------------------------------
(* auth.Validator: the copy. *)

(* The object behind the *CachedKey a request got from its lookup. *)
View(r) == IF r \in stale THEN old[r] ELSE cache[KeyOf[r]]

Holding(r) ==
  pc[r] \in {"gate", "loop", "budget", "rate", "target"} /\ r \notin stale

(* New objects replace those of the keys in K: whoever holds one keeps it,  *)
(* and nobody updates it any more.                                         *)
Supersede(K) ==
  LET left == {r \in Reqs : Holding(r) /\ KeyOf[r] \in K}
  IN  /\ stale' = stale \cup left
      /\ old' = [r \in Reqs |-> IF r \in left THEN cache[KeyOf[r]] ELSE old[r]]

(* The request needs its object no more. *)
Release(r) == stale' = stale \ {r} /\ old' = [old EXCEPT ![r] = Absent]

(* Mutant: subtracts. *)
SubTokensUsed(c, t, n) ==
  IF c.known THEN [c EXCEPT !.used = @ - n, !.usedBy[t] = @ - n] ELSE c

AddTokensUsed(c, t, n) ==
  IF c.known THEN [c EXCEPT !.used = @ + n, !.usedBy[t] = @ + n] ELSE c

----------------------------------------------------------------------------
(* Middleware: one request against the copy. *)

(* Nobody holds the raw key before createKey has answered. *)
Issued(k) == ~\E a \in Admins : pc[a] = "put" /\ op[a].key = k

Lookup(r) ==
  /\ pc[r] = "new" /\ Issued(KeyOf[r])
  /\ pc' = [pc EXCEPT ![r] =
       IF cache[KeyOf[r]].known /\ KeyOf[r] \notin Disabled THEN "gate" ELSE "refused"]
  /\ UNCHANGED <<store, cache, loop, rate, meter, stale, old, op, dirty, drift>>

Stamps(r) == Cardinality(OfKey(loop \cup {r}, KeyOf[r]))
(* Mutant: the loop guard compares before it stamps. *)
TripsLate(r) == Cardinality(OfKey(loop, KeyOf[r])) > LoopThreshold

Trips(r) == Stamps(r) > LoopThreshold
Exhausted(r) == Budget > 0 /\ View(r).used >= Budget
(* Mutant: one admission too many. *)
LimitedLate(r) == Cardinality(OfKey(rate, KeyOf[r])) > RateLimitRPM

Limited(r) == Cardinality(OfKey(rate, KeyOf[r])) >= RateLimitRPM

(* Middleware reads its object and the windows one after the other: the     *)
(* killed flag, the loop guard under rateMu, the counter, the rate window   *)
(* under rateMu.                                                            *)
RefuseKilled(r) ==
  /\ pc[r] = "gate" /\ View(r).killed
  /\ pc' = [pc EXCEPT ![r] = "refused"]
  /\ Release(r)
  /\ UNCHANGED <<store, cache, loop, rate, meter, op, dirty, drift>>

(* Mutant: the kill flag is not looked at. *)
PassAnyway(r) ==
  /\ pc[r] = "gate"
  /\ pc' = [pc EXCEPT ![r] = "loop"]
  /\ UNCHANGED <<store, cache, loop, rate, meter, stale, old, op, dirty, drift>>

PassKillSwitch(r) ==
  /\ pc[r] = "gate" /\ ~View(r).killed
  /\ pc' = [pc EXCEPT ![r] = "loop"]
  /\ UNCHANGED <<store, cache, loop, rate, meter, stale, old, op, dirty, drift>>

TripAutoKill(r) ==
  /\ pc[r] = "loop" /\ Trips(r)
  /\ loop' = loop \cup {r}
  /\ pc' = [pc EXCEPT ![r] = "autokill"]
  /\ Release(r)
  /\ UNCHANGED <<store, cache, rate, meter, op, dirty, drift>>

PassLoopGuard(r) ==
  /\ pc[r] = "loop" /\ ~Trips(r)
  /\ loop' = loop \cup {r}
  /\ pc' = [pc EXCEPT ![r] = "budget"]
  /\ UNCHANGED <<store, cache, rate, meter, stale, old, op, dirty, drift>>

RefuseBudget(r) ==
  /\ pc[r] = "budget" /\ Exhausted(r)
  /\ pc' = [pc EXCEPT ![r] = "refused"]
  /\ Release(r)
  /\ UNCHANGED <<store, cache, loop, rate, meter, op, dirty, drift>>

PassBudget(r) ==
  /\ pc[r] = "budget" /\ ~Exhausted(r)
  /\ pc' = [pc EXCEPT ![r] = IF RateLimitRPM > 0 THEN "rate" ELSE "target"]
  /\ UNCHANGED <<store, cache, loop, rate, meter, stale, old, op, dirty, drift>>

RefuseRate(r) ==
  /\ pc[r] = "rate" /\ Limited(r)
  /\ pc' = [pc EXCEPT ![r] = "refused"]
  /\ Release(r)
  /\ UNCHANGED <<store, cache, loop, rate, meter, op, dirty, drift>>

PassRate(r) ==
  /\ pc[r] = "rate" /\ ~Limited(r)
  /\ rate' = rate \cup {r}
  /\ pc' = [pc EXCEPT ![r] = "target"]
  /\ UNCHANGED <<store, cache, loop, meter, stale, old, op, dirty, drift>>

OverTarget(r) == TargetBudget > 0 /\ View(r).usedBy[TargetOf[r]] >= TargetBudget

Serve(r) ==
  /\ pc[r] = "target" /\ ~OverTarget(r)
  /\ pc' = [pc EXCEPT ![r] = "upstream"]
  /\ Release(r)
  /\ UNCHANGED <<store, cache, loop, rate, meter, op, dirty, drift>>

(* Nothing is metered for an LLM call whose lane is exhausted or that no    *)
(* provider answers, nor for an MCP request whose copy to the client breaks *)
(* off (ReverseProxy panics past meteringAccessLog).                        *)
Unmetered(r) ==
  /\ \/ pc[r] = "upstream"
     \/ pc[r] = "target" /\ OverTarget(r) /\ TargetOf[r] \in Providers
  /\ pc' = [pc EXCEPT ![r] = "refused"]
  /\ Release(r)
  /\ UNCHANGED <<store, cache, loop, rate, meter, op, dirty, drift>>

(* The handler has returned: meteringAccessLog records what an MCP request  *)
(* moved, answered or refused by the handler; LLMHandler records an answer. *)
Returned(r) ==
  \/ pc[r] = "upstream"
  \/ pc[r] = "target" /\ OverTarget(r) /\ TargetOf[r] \notin Providers

----------------------------------------------------------------------------
(* Meter. *)

RecordLater(r) ==
  /\ Returned(r) /\ Slot(r) \in hot
  /\ pending' = pending \cup {r}
  /\ pc' = [pc EXCEPT ![r] = "done"]
  /\ Release(r)
  /\ UNCHANGED <<store, cache, loop, rate, hot, batch, drain, drained, stopping, lost, op, dirty, drift>>

(* Mutant: the slot is not emptied when its batch is taken. *)
RecordFlushKeep(r) ==
  /\ Returned(r) /\ Slot(r) \notin hot
  /\ batch' = [batch EXCEPT ![r] = OfSlot(pending, Slot(r)) \cup {r}]
  /\ hot' = hot \cup {Slot(r)}
  /\ pc' = [pc EXCEPT ![r] = "flush"]
  /\ Release(r)
  /\ UNCHANGED <<store, cache, loop, rate, pending, drain, drained, stopping, lost, op, dirty, drift>>

RecordFlush(r) ==
  LET due == OfSlot(pending, Slot(r)) IN
  /\ Returned(r) /\ Slot(r) \notin hot
  /\ batch' = [batch EXCEPT ![r] = due \cup {r}]
  /\ pending' = pending \ due
  /\ hot' = hot \cup {Slot(r)}
  /\ pc' = [pc EXCEPT ![r] = "flush"]
  /\ Release(r)
  /\ UNCHANGED <<store, cache, loop, rate, drain, drained, stopping, lost, op, dirty, drift>>

(* flushOne up to the commit. *)
FlushStore(r) ==
  LET k == KeyOf[r] IN
  /\ pc[r] = "flush"
  /\ IncrUsage(k, TargetOf[r], batch[r])
  /\ pc' = [pc EXCEPT ![r] = "bump"]
  /\ drift' = [drift EXCEPT ![k] = @ \/ \E a \in Admins : UsageOpOn(a, k)]
  /\ UNCHANGED <<row, month, cache, loop, rate, meter, stale, old, op, dirty>>

(* Mutant: a failed batch is dropped. *)
FlushFailDrop(r) ==
  /\ pc[r] = "flush"
  /\ batch' = [batch EXCEPT ![r] = {}]
  /\ hot' = hot \ {Slot(r)}
  /\ pc' = [pc EXCEPT ![r] = "done"]
  /\ UNCHANGED <<store, cache, loop, rate, pending, drain, drained, stopping, lost, stale, old, op, dirty, drift>>

(* The transaction failed: the batch goes back, to be flushed at once. *)
FlushFail(r) ==
  /\ pc[r] = "flush"
  /\ pending' = pending \cup batch[r]
  /\ batch' = [batch EXCEPT ![r] = {}]
  /\ hot' = hot \ {Slot(r)}
  /\ pc' = [pc EXCEPT ![r] = "done"]
  /\ UNCHANGED <<store, cache, loop, rate, drain, drained, stopping, lost, stale, old, op, dirty, drift>>

(* Mutant: the copy is not told of what was flushed. *)
FlushCacheSkip(r) ==
  /\ pc[r] = "bump"
  /\ batch' = [batch EXCEPT ![r] = {}]
  /\ pc' = [pc EXCEPT ![r] = "done"]
  /\ UNCHANGED <<store, cache, loop, rate, pending, hot, drain, drained, stopping, lost, stale, old, op, dirty, drift>>

(* flushOne after the commit: the copy follows. *)
FlushCache(r) ==
  LET k == KeyOf[r] IN
  /\ pc[r] = "bump"
  /\ cache' = [cache EXCEPT ![k] = AddTokensUsed(@, TargetOf[r], BatchTokens(batch[r]))]
  /\ batch' = [batch EXCEPT ![r] = {}]
  /\ pc' = [pc EXCEPT ![r] = "done"]
  /\ UNCHANGED <<store, loop, rate, pending, hot, drain, drained, stopping, lost, stale, old, op, dirty, drift>>

(* Meter.Flush at shutdown: everything pending is snapshotted, then written *)
(* slot by slot; the first error drops the rest.                            *)
FlushAll ==
  /\ ~stopping
  /\ stopping' = TRUE
  /\ drain' = pending
  /\ pending' = {}
  /\ hot' = hot \cup {Slot(r) : r \in pending}
  /\ UNCHANGED <<store, cache, loop, rate, batch, drained, lost, pc, stale, old, op, dirty, drift>>

DrainSlot(s) ==
  LET due == OfSlot(drain, s) IN
  /\ drained = {} /\ due # {}
  /\ IncrUsage(s[1], s[2], due)
  /\ drain' = drain \ due
  /\ drained' = due
  /\ drift' = [drift EXCEPT ![s[1]] = @ \/ \E a \in Admins : UsageOpOn(a, s[1])]
  /\ UNCHANGED <<row, month, cache, loop, rate, pending, hot, batch, stopping, lost, pc, stale, old, op, dirty>>

(* Mutant: the copy is charged for the slots still to be written, too. *)
DrainCacheAll(s) ==
  /\ drained # {} /\ drained = OfSlot(drained, s)
  /\ cache' = [cache EXCEPT ![s[1]] = AddTokensUsed(@, s[2], BatchTokens(drained \cup drain))]
  /\ drained' = {}
  /\ UNCHANGED <<store, loop, rate, pending, hot, batch, drain, stopping, lost, pc, stale, old, op, dirty, drift>>

DrainCache(s) ==
  /\ drained # {} /\ drained = OfSlot(drained, s)
  /\ cache' = [cache EXCEPT ![s[1]] = AddTokensUsed(@, s[2], BatchTokens(drained))]
  /\ drained' = {}
  /\ UNCHANGED <<store, loop, rate, pending, hot, batch, drain, stopping, lost, pc, stale, old, op, dirty, drift>>

DrainFail ==
  /\ drained = {} /\ drain # {}
  /\ lost' = lost \cup drain
  /\ drain' = {}
  /\ UNCHANGED <<store, cache, loop, rate, pending, hot, batch, drained, stopping, pc, stale, old, op, dirty, drift>>
----------------------------------------------------------------------------
(* Kill, Unkill, createKey, deleteKey, Reload. *)

Kill(a, k) ==
  /\ pc[a] = "idle"
  /\ SetKeyKilled(k, TRUE)
  /\ op' = [op EXCEPT ![a].key = k]
  /\ pc' = [pc EXCEPT ![a] = "killcache"]
  /\ BeginKeyOp(a, k)
  /\ UNCHANGED <<month, usage, usageBy, stored, cache, loop, rate, meter, stale, old, drift>>

AutoKill(r) ==
  /\ pc[r] = "autokill"
  /\ SetKeyKilled(KeyOf[r], TRUE)
  /\ pc' = [pc EXCEPT ![r] = "killcache"]
  /\ BeginKeyOp(r, KeyOf[r])
  /\ UNCHANGED <<month, usage, usageBy, stored, cache, loop, rate, meter, stale, old, op, drift>>

(* The kill could not be persisted: the request is refused, the key lives. *)
AutoKillFail(r) ==
  /\ pc[r] = "autokill"
  /\ pc' = [pc EXCEPT ![r] = "refused"]
  /\ UNCHANGED <<store, cache, loop, rate, meter, stale, old, op, dirty, drift>>

(* Mutant: only the row is killed. *)
KillRowOnly(p) ==
  /\ pc[p] = "killcache"
  /\ pc' = [pc EXCEPT ![p] = IF p \in Reqs THEN "refused" ELSE "idle"]
  /\ UNCHANGED <<store, cache, loop, rate, meter, stale, old, op, dirty, drift>>

KillCache(p) ==
  LET k == IF p \in Reqs THEN KeyOf[p] ELSE op[p].key IN
  /\ pc[p] = "killcache"
  /\ cache' = [cache EXCEPT ![k].killed = cache[k].known]
  /\ pc' = [pc EXCEPT ![p] = IF p \in Reqs THEN "refused" ELSE "idle"]
  /\ UNCHANGED <<store, loop, rate, meter, stale, old, op, dirty, drift>>

Unkill(a, k, reset) ==
  /\ pc[a] = "idle"
  /\ SetKeyKilled(k, FALSE)
  /\ op' = [op EXCEPT ![a].key = k, ![a].reset = reset, ![a].period = IF reset THEN month ELSE 0]
  /\ pc' = [pc EXCEPT ![a] = IF reset THEN "reset" ELSE "revive"]
  /\ BeginKeyOp(a, k)
  /\ drift' = [drift EXCEPT ![k] = @ \/ (reset /\ (Flushing(k) \/ \E b \in Admins : UsageOpOn(b, k)))]
  /\ UNCHANGED <<month, usage, usageBy, stored, cache, loop, rate, meter, stale, old>>

UnkillReset(a) ==
  /\ pc[a] = "reset"
  /\ ResetUsagePeriod(op[a].key, op[a].period)
  /\ pc' = [pc EXCEPT ![a] = "zero"]
  /\ UNCHANGED <<row, month, usageBy, stored, cache, loop, rate, meter, stale, old, op, dirty, drift>>

(* ResetUsagePeriod failed: the row is un-killed, the copy is not. *)
UnkillFail(a) ==
  /\ pc[a] = "reset"
  /\ pc' = [pc EXCEPT ![a] = "idle"]
  /\ dirty' = [dirty EXCEPT ![op[a].key] = TRUE]
  /\ op' = [op EXCEPT ![a].reset = FALSE, ![a].period = 0]
  /\ UNCHANGED <<store, cache, loop, rate, meter, stale, old, drift>>

UnkillZero(a) ==
  /\ pc[a] = "zero"
  /\ cache' = [cache EXCEPT ![op[a].key].used = 0]
  /\ pc' = [pc EXCEPT ![a] = "revive"]
  /\ UNCHANGED <<store, loop, rate, meter, stale, old, op, dirty, drift>>

UnkillCache(a) ==
  LET k == op[a].key IN
  /\ pc[a] = "revive"
  /\ cache' = [cache EXCEPT ![k] =
       IF op[a].reset THEN [@ EXCEPT !.killed = FALSE, !.used = 0, !.usedBy = NoUse]
                      ELSE [@ EXCEPT !.killed = FALSE]]
  /\ pc' = [pc EXCEPT ![a] = "clear"]
  /\ UNCHANGED <<store, loop, rate, meter, stale, old, op, dirty, drift>>

UnkillClear(a) ==
  /\ pc[a] = "clear"
  /\ loop' = loop \ OfKey(loop, op[a].key)
  /\ rate' = rate \ OfKey(rate, op[a].key)
  /\ pc' = [pc EXCEPT ![a] = "idle"]
  /\ op' = [op EXCEPT ![a].reset = FALSE, ![a].period = 0]
  /\ UNCHANGED <<store, cache, meter, stale, old, dirty, drift>>

CreateKey(a, k) ==
  /\ pc[a] = "idle" /\ row[k] = "none"
  /\ row' = [row EXCEPT ![k] = "live"]
  /\ op' = [op EXCEPT ![a].key = k]
  /\ pc' = [pc EXCEPT ![a] = "put"]
  /\ BeginKeyOp(a, k)
  /\ UNCHANGED <<month, usage, usageBy, stored, cache, loop, rate, meter, stale, old, drift>>

PutKey(a) ==
  /\ pc[a] = "put"
  /\ cache' = [cache EXCEPT ![op[a].key] = Fresh]
  /\ Supersede({op[a].key})
  /\ pc' = [pc EXCEPT ![a] = "idle"]
  /\ UNCHANGED <<store, loop, rate, meter, op, dirty, drift>>

DeleteKey(a, k) ==
  /\ pc[a] = "idle" /\ Exists(k)
  /\ row' = [row EXCEPT ![k] = "gone"]
  /\ op' = [op EXCEPT ![a].key = k]
  /\ pc' = [pc EXCEPT ![a] = "list"]
  /\ BeginKeyOp(a, k)
  /\ UNCHANGED <<month, usage, usageBy, stored, cache, loop, rate, meter, stale, old, drift>>

(* Reload, called by deleteKey and by the policy handlers, lists the rows,  *)
(* reads each key's counters and installs new objects.                     *)
ReloadList(a) ==
  /\ pc[a] \in {"idle", "list"}
  /\ op' = [op EXCEPT ![a].period = month,
                      ![a].todo = {k \in Keys : Exists(k)},
                      ![a].snap = [k \in Keys |->
                         IF Exists(k) THEN [Fresh EXCEPT !.killed = (row[k] = "killed")]
                                      ELSE Absent]]
  /\ pc' = [pc EXCEPT ![a] = "read"]
  /\ dirty' = [k \in Keys |-> OtherKeyOp(a, k)]
  /\ drift' = [k \in Keys |-> Flushing(k) \/ \E b \in Admins : UsageOpOn(b, k)]
  /\ UNCHANGED <<store, cache, loop, rate, meter, stale, old>>

ReloadUsage(a, k) ==
  /\ pc[a] = "read" /\ k \in op[a].todo
  /\ op' = [op EXCEPT ![a] = [@ EXCEPT !.key = k, !.snap[k].used = usage[op[a].period][k]]]
  /\ pc' = [pc EXCEPT ![a] = "readby"]
  /\ UNCHANGED <<store, cache, loop, rate, meter, stale, old, dirty, drift>>

ReloadUsageBy(a) ==
  LET k == op[a].key IN
  /\ pc[a] = "readby"
  /\ op' = [op EXCEPT ![a] = [@ EXCEPT !.todo = op[a].todo \ {k},
                                    !.snap[k].usedBy = usageBy[op[a].period][k]]]
  /\ pc' = [pc EXCEPT ![a] = "read"]
  /\ UNCHANGED <<store, cache, loop, rate, meter, stale, old, dirty, drift>>

ReloadSwap(a) ==
  /\ pc[a] = "read" /\ op[a].todo = {}
  /\ cache' = op[a].snap
  /\ Supersede(Keys)
  /\ op' = [op EXCEPT ![a] = NoOp(op[a].key)]
  /\ pc' = [pc EXCEPT ![a] = "idle"]
  /\ UNCHANGED <<store, loop, rate, meter, dirty, drift>>

(* A statement failed, or the operator's connection went away: every caller *)
(* drops Reload's error and the old objects stay.                           *)
ReloadFail(a) ==
  /\ pc[a] \in {"list", "read", "readby"}
  /\ op' = [op EXCEPT ![a] = NoOp(op[a].key)]
  /\ pc' = [pc EXCEPT ![a] = "idle"]
  /\ dirty' = [k \in Keys |-> TRUE]
  /\ drift' = [k \in Keys |-> TRUE]
  /\ UNCHANGED <<store, cache, loop, rate, meter, stale, old>>
----------------------------------------------------------------------------
(* The clock and the process. *)

(* flushEvery has passed since the slot was flushed. *)
Cool(s) ==
  /\ s \in hot
  /\ hot' = hot \ {s}
  /\ UNCHANGED <<store, cache, loop, rate, pending, batch, drain, drained, stopping, lost, pc, stale, old, op, dirty, drift>>

(* A stamp leaves its window. *)
Expire(r) ==
  /\ r \in loop \cup rate
  /\ \/ r \in loop /\ loop' = loop \ {r} /\ rate' = rate
     \/ r \in rate /\ rate' = rate \ {r} /\ loop' = loop
  /\ UNCHANGED <<store, cache, meter, pc, stale, old, op, dirty, drift>>

(* A month begins: PeriodStartUTC names new rows, the copy is not told. *)
NewMonth ==
  /\ month < MaxMonth
  /\ month' = month + 1
  /\ drift' = [k \in Keys |-> TRUE]
  /\ UNCHANGED <<row, usage, usageBy, stored, cache, loop, rate, meter, pc, stale, old, op, dirty>>

(* The process dies, or exits at the end of its shutdown, and a new one     *)
(* starts: NewValidator reloads before anything is served.                 *)
Loaded(k) ==
  IF Exists(k) THEN [known |-> TRUE, killed |-> row[k] = "killed",
                     used |-> usage[month][k], usedBy |-> usageBy[month][k]]
               ELSE Absent

InFlight == {r \in Reqs : pc[r] = "flush"}

Restart ==
  /\ cache' = [k \in Keys |-> Loaded(k)]
  /\ lost' = lost \cup pending \cup drain \cup UNION {batch[r] : r \in InFlight}
  /\ pending' = {} /\ drain' = {} /\ drained' = {} /\ hot' = {} /\ stopping' = FALSE
  /\ batch' = [r \in Reqs |-> {}]
  /\ loop' = {} /\ rate' = {}
  /\ pc' = [p \in Procs |->
       CASE p \in Admins -> "idle"
         [] p \in Reqs /\ pc[p] \in {"new", "done", "refused"} -> pc[p]
         [] p \in Reqs /\ pc[p] \in {"flush", "bump"} -> "done"
         [] OTHER -> "cut"]
  /\ stale' = {} /\ old' = [r \in Reqs |-> Absent]
  /\ op' = [a \in Admins |-> NoOp(op[a].key)]
  /\ dirty' = [k \in Keys |-> FALSE]
  /\ drift' = [k \in Keys |-> FALSE]
  /\ UNCHANGED store
----------------------------------------------------------------------------
Init ==
  /\ row \in [Keys -> {"none", "live"}]
  /\ month = 0
  /\ usage = [m \in Months |-> [k \in Keys |-> 0]]
  /\ usageBy = [m \in Months |-> [k \in Keys |-> NoUse]]
  /\ stored = {}
  /\ cache = [k \in Keys |-> Loaded(k)]
  /\ loop = {} /\ rate = {} /\ pending = {} /\ hot = {}
  /\ pc = [p \in Procs |-> IF p \in Reqs THEN "new" ELSE "idle"]
  /\ stale = {} /\ old = [r \in Reqs |-> Absent]
  /\ batch = [r \in Reqs |-> {}]
  /\ \E k \in Keys : op = [a \in Admins |-> NoOp(k)]
  /\ drain = {} /\ drained = {} /\ stopping = FALSE /\ lost = {}
  /\ dirty = [k \in Keys |-> FALSE]
  /\ drift = [k \in Keys |-> FALSE]

Gate(r) ==
  \/ Lookup(r)
  \/ RefuseKilled(r) \/ PassKillSwitch(r)
  \/ TripAutoKill(r) \/ PassLoopGuard(r)
  \/ RefuseBudget(r) \/ PassBudget(r)
  \/ RefuseRate(r) \/ PassRate(r)
  \/ Serve(r) \/ Unmetered(r)
  \/ AutoKill(r) \/ AutoKillFail(r)

Metering(r) ==
  \/ RecordLater(r) \/ RecordFlush(r)
  \/ FlushStore(r) \/ FlushFail(r) \/ FlushCache(r)

Operate(a) ==
  \/ \E k \in Keys : \/ Kill(a, k) \/ CreateKey(a, k) \/ DeleteKey(a, k)
                     \/ \E reset \in BOOLEAN : Unkill(a, k, reset)
                     \/ ReloadUsage(a, k)
  \/ UnkillReset(a) \/ UnkillFail(a) \/ UnkillZero(a) \/ UnkillCache(a) \/ UnkillClear(a)
  \/ PutKey(a)
  \/ ReloadList(a) \/ ReloadUsageBy(a) \/ ReloadSwap(a) \/ ReloadFail(a)

Environment ==
  \/ FlushAll \/ DrainFail \/ \E s \in Keys \X Targets : DrainSlot(s) \/ DrainCache(s) \/ Cool(s)
  \/ \E r \in Reqs : Expire(r)
  \/ NewMonth \/ Restart

Next ==
  \/ \E r \in Reqs : Gate(r) \/ Metering(r)
  \/ \E a \in Admins : Operate(a)
  \/ \E p \in Procs : KillCache(p)
  \/ Environment

Spec == Init /\ [][Next]_vars
----------------------------------------------------------------------------
TypeOK ==
  /\ row \in [Keys -> Status]
  /\ month \in Months
  /\ usage \in [Months -> [Keys -> Nat]]
  /\ usageBy \in [Months -> [Keys -> [Targets -> Nat]]]
  /\ cache \in [Keys -> CachedKey]
  /\ {stored, loop, rate, pending, stale, drain, drained, lost} \subseteq SUBSET Reqs
  /\ hot \subseteq Keys \X Targets
  /\ pc \in [Procs -> ReqPC \cup AdminPC]
  /\ \A r \in Reqs : pc[r] \in ReqPC
  /\ \A a \in Admins : pc[a] \in AdminPC
  /\ old \in [Reqs -> CachedKey]
  /\ batch \in [Reqs -> SUBSET Reqs]
  /\ op \in [Admins -> Operation]
  /\ stopping \in BOOLEAN
  /\ dirty \in [Keys -> BOOLEAN]
  /\ drift \in [Keys -> BOOLEAN]
Finished == {r \in Reqs : pc[r] \in {"flush", "bump", "done"}}
InBatch  == UNION {batch[r] : r \in InFlight}

(* Metering conserves usage: a request that was metered is, at every moment, *)
(* in exactly one of: the pending map, one batch on its way to SQLite, the   *)
(* shutdown drain, the rows, or what a restart lost; and a batch holds only  *)
(* requests of the key and target it is charged to.  Failed transactions,    *)
(* retries, throttling and concurrent flushes of one slot never lose a       *)
(* request nor charge it twice.                                              *)
MeteredOnce ==
  /\ Finished = pending \cup drain \cup InBatch \cup stored \cup lost
  /\ \A r \in Reqs :
       /\ r \in pending => r \notin drain \cup InBatch \cup stored \cup lost
       /\ r \in drain => r \notin InBatch \cup stored \cup lost
       /\ r \in InBatch => r \notin stored \cup lost
       /\ r \in stored => r \notin lost
  /\ \A r, q \in InFlight : r # q => batch[r] \cap batch[q] = {}
  /\ \A r \in Reqs : batch[r] \subseteq OfSlot(Reqs, Slot(r))

(* Metering as the ledger sees it: what waits in memory is in the pending    *)
(* map, in a batch that is not committed or in the shutdown drain.           *)
Ledger == INSTANCE UsageLedger WITH
            buffered <- pending \cup drain \cup InBatch, charged <- stored, lost <- lost

(* Every step of the gate, the meter, the operators and the process is a     *)
(* ledger step or leaves the ledger alone: no retry, restart or concurrent   *)
(* flush charges a request again that was charged or lost before, and none   *)
(* that was recorded disappears without being charged or counted as lost.    *)
LedgerSpec == Ledger!Spec

Settled(k) == ~dirty[k] /\ \A p \in Procs : ~KeyOpOn(p, k)

(* The copy agrees with the rows about who may come in: once every kill,     *)
(* un-kill, creation, deletion and reload that touches a key is over, and    *)
(* unless two of them overlapped or one failed half-way since the last       *)
(* undisturbed reload, the cache knows the key exactly when its row exists   *)
(* and holds it killed exactly when killed_at is set, whatever requests,     *)
(* auto-kills, flushes and restarts happened meanwhile.                      *)
KillAgrees ==
  \A k \in Keys : Settled(k) =>
    /\ cache[k].known <=> Exists(k)
    /\ Exists(k) => (cache[k].killed <=> row[k] = "killed")

(* The copy's token counter, which the budget gate reads, equals the current *)
(* month's usage row once no flush of the key is between its commit and its  *)
(* cache update and no reload or reset is under way, unless one of those     *)
(* overlapped another or a month began since the last undisturbed reload.    *)
UsageAgrees ==
  \A k \in Keys :
    (/\ ~drift[k] /\ ~Flushing(k) /\ cache[k].known
     /\ \A a \in Admins : ~UsageOpOn(a, k))
    => cache[k].used = usage[month][k]

Passed(r) == pc[r] \in {"budget", "rate", "target", "upstream", "flush", "bump", "done"}

(* The loop guard bounds what one window lets through even when the kill it  *)
(* triggers cannot be persisted: the requests that passed it and whose       *)
(* stamps are still in their key's window never exceed the threshold.        *)
LoopBound ==
  \A k \in Keys : Cardinality({r \in OfKey(loop, k) : Passed(r)}) <= LoopThreshold

(* At most RateLimitRPM admissions of a key have a stamp in its window.      *)
RateBound ==
  RateLimitRPM > 0 =>
    \A k \in Keys : Cardinality(OfKey(rate, k)) <= RateLimitRPM

(* The kill switch end to end: a request that reads the cache's own object   *)
(* never passes it for a settled key whose row is killed or deleted.         *)
KilledKeyRefused ==
  [][\A r \in Reqs :
       (pc[r] = "gate" /\ pc'[r] = "loop" /\ r \notin stale /\ Settled(KeyOf[r]))
         => row[KeyOf[r]] = "live"]_vars

(* README: "kill a key from the dashboard or /admin -> immediate 402 on the  *)
(* next request".  Once no operation on the key is under way, a request      *)
(* passes the kill switch only if the row is not killed.                     *)
KillIsImmediate ==
  [][\A r \in Reqs :
       (/\ pc[r] = "gate" /\ pc'[r] = "loop" /\ r \notin stale
        /\ \A p \in Procs : ~KeyOpOn(p, KeyOf[r]))
         => row[KeyOf[r]] # "killed"]_vars

(* Middleware's comment: "Pre-flight budget: current calendar-month Usage    *)
(* only".  A request is refused for its budget only if the month's usage row *)
(* has reached it.                                                           *)
BudgetIsMonthly ==
  [][\A r \in Reqs :
       (pc[r] = "budget" /\ pc'[r] = "refused")
         => usage[month][KeyOf[r]] >= Budget]_vars
=============================================================================
