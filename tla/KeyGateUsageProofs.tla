------------------------ MODULE KeyGateUsageProofs -------------------------
(***************************************************************************)
(* The copy's token counter and the month's usage row, for any constants:  *)
(* what the copy lacks is the sum of the batches that are committed and    *)
(* not yet added to it, and nothing once those are through.                *)
(***************************************************************************)
EXTENDS KeyGateProofs

(***************************************************************************)
(* Sums over sets of requests, without recursion: n is the sum of w over F *)
(* when it is in R[F] for every R that relates 0 to the empty set and is   *)
(* closed under adding one request.  Induction over F is then the choice   *)
(* of an R.                                                                *)
(***************************************************************************)
Totals(w) ==
  {R \in [SUBSET Reqs -> SUBSET Nat] :
     /\ 0 \in R[{}]
     /\ \A S \in SUBSET Reqs : \A r \in Reqs \ S : \A m \in R[S] :
          m + w[r] \in R[S \cup {r}]}

SumsTo(w, F, n) == \A R \in Totals(w) : n \in R[F]

LEMMA SumOfEmpty == \A w : SumsTo(w, {}, 0)
BY DEF SumsTo, Totals

(* Adding a request adds its weight.                                        *)
LEMMA SumAdd ==
  ASSUME NEW w \in [Reqs -> Nat], NEW F \in SUBSET Reqs, NEW r \in Reqs \ F,
         NEW n \in Nat, SumsTo(w, F, n)
  PROVE  SumsTo(w, F \cup {r}, n + w[r])
BY DEF SumsTo, Totals

(* The empty set sums to nothing else than 0.                               *)
LEMMA SumEmptyOnly ==
  ASSUME NEW w \in [Reqs -> Nat], NEW n \in Nat, SumsTo(w, {}, n)
  PROVE  n = 0
<1> DEFINE R == [S \in SUBSET Reqs |-> IF S = {} THEN {0} ELSE Nat]
<1>1. R \in [SUBSET Reqs -> SUBSET Nat] /\ 0 \in R[{}]
  OBVIOUS
<1>2. ASSUME NEW S \in SUBSET Reqs, NEW r \in Reqs \ S, NEW m \in R[S]
      PROVE  m + w[r] \in R[S \cup {r}]
  <2>1. m \in Nat /\ w[r] \in Nat /\ S \cup {r} # {} /\ S \cup {r} \in SUBSET Reqs
    BY <1>1
  <2>2. R[S \cup {r}] = Nat
    BY <2>1
  <2>3. QED BY <2>1, <2>2
<1>3. R[{}] = {0}
  OBVIOUS
<1> HIDE DEF R
<1>4. R \in Totals(w)
  BY <1>1, <1>2 DEF Totals
<1>5. n \in R[{}]
  BY <1>4 DEF SumsTo
<1>6. QED BY <1>3, <1>5

(* Taking a request out takes its weight out.                               *)
LEMMA SumRemove ==
  ASSUME NEW w \in [Reqs -> Nat], NEW F \in SUBSET Reqs, NEW r \in F,
         NEW n \in Nat, SumsTo(w, F, n)
  PROVE  n - w[r] \in Nat /\ SumsTo(w, F \ {r}, n - w[r])
<1> DEFINE P(S, m) == \A q \in S : m - w[q] \in Nat /\ SumsTo(w, S \ {q}, m - w[q])
           R == [S \in SUBSET Reqs |-> {m \in Nat : SumsTo(w, S, m) /\ P(S, m)}]
<1>1. R \in [SUBSET Reqs -> SUBSET Nat]
  OBVIOUS
<1>2. 0 \in R[{}]
  BY SumOfEmpty
<1>3. ASSUME NEW S \in SUBSET Reqs, NEW p \in Reqs \ S, NEW m \in R[S]
      PROVE  m + w[p] \in R[S \cup {p}]
  <2> DEFINE T == S \cup {p}
             u == m + w[p]
  <2>1. m \in Nat /\ SumsTo(w, S, m) /\ P(S, m) /\ w[p] \in Nat
    BY <1>1
  <2>2. T \in SUBSET Reqs /\ u \in Nat /\ SumsTo(w, T, u)
    <3>1. T \in SUBSET Reqs /\ u \in Nat
      BY <2>1
    <3>2. m \in Nat /\ SumsTo(w, S, m)
      BY <2>1
    <3> HIDE DEF R, P
    <3>3. SumsTo(w, S \cup {p}, m + w[p])
      BY <3>2, SumAdd
    <3>4. QED BY <3>1, <3>3
  <2>3. ASSUME NEW q \in T PROVE u - w[q] \in Nat /\ SumsTo(w, T \ {q}, u - w[q])
    <3>1. CASE q = p
      <4>1. T \ {q} = S /\ u - w[q] = m
        BY <2>1, <3>1
      <4>2. QED BY <2>1, <4>1
    <3>2. CASE q # p
      <4>1. q \in S /\ w[q] \in Nat
        BY <3>2
      <4>2. m - w[q] \in Nat /\ SumsTo(w, S \ {q}, m - w[q])
        BY <2>1, <4>1
      <4>3. p \in Reqs \ (S \ {q}) /\ S \ {q} \in SUBSET Reqs
        OBVIOUS
      <4>4. SumsTo(w, (S \ {q}) \cup {p}, (m - w[q]) + w[p])
        BY <4>2, <4>3, SumAdd
      <4>5. T \ {q} = (S \ {q}) \cup {p} /\ u - w[q] = (m - w[q]) + w[p]
        BY <2>1, <3>2, <4>1
      <4>6. u - w[q] \in Nat
        BY <2>1, <4>2, <4>5
      <4>7. QED BY <4>4, <4>5, <4>6
    <3>3. QED BY <3>1, <3>2
  <2>4. QED BY <2>2, <2>3
<1>4. R[F] = {m \in Nat : SumsTo(w, F, m) /\ P(F, m)}
  OBVIOUS
<1> HIDE DEF R
<1>5. R \in Totals(w)
  BY <1>1, <1>2, <1>3 DEF Totals
<1>6. n \in R[F]
  BY <1>5 DEF SumsTo
<1>7. QED BY <1>4, <1>6

(* Only the weights of the set count.                                       *)
LEMMA SumSame ==
  ASSUME NEW w \in [Reqs -> Nat], NEW v \in [Reqs -> Nat], NEW F \in SUBSET Reqs,
         NEW n, \A r \in F : w[r] = v[r], SumsTo(w, F, n)
  PROVE  SumsTo(v, F, n)
<1> DEFINE R == [S \in SUBSET Reqs |-> {m \in Nat : S \subseteq F => SumsTo(v, S, m)}]
<1>1. R \in [SUBSET Reqs -> SUBSET Nat]
  OBVIOUS
<1>2. 0 \in R[{}]
  BY SumOfEmpty
<1>3. ASSUME NEW S \in SUBSET Reqs, NEW p \in Reqs \ S, NEW m \in R[S]
      PROVE  m + w[p] \in R[S \cup {p}]
  <2>1. m \in Nat /\ m + w[p] \in Nat /\ S \cup {p} \in SUBSET Reqs
    BY <1>1
  <2>2. ASSUME S \cup {p} \subseteq F PROVE SumsTo(v, S \cup {p}, m + w[p])
    <3>1. SumsTo(v, S, m) /\ w[p] = v[p]
      BY <2>2
    <3>2. QED BY <2>1, <3>1, SumAdd
  <2>3. QED BY <2>1, <2>2
<1>4. R[F] = {m \in Nat : F \subseteq F => SumsTo(v, F, m)}
  OBVIOUS
<1> HIDE DEF R
<1>5. R \in Totals(w)
  BY <1>1, <1>2, <1>3 DEF Totals
<1>6. n \in R[F]
  BY <1>5 DEF SumsTo
<1>7. QED BY <1>4, <1>6

(***************************************************************************)
(* What the copy lacks.                                                    *)
(***************************************************************************)
Tokens == [r \in Reqs |-> BatchTokens(batch[r])]
Bumping(k) == {r \in Reqs : pc[r] = "bump" /\ KeyOf[r] = k}
DripOf(D, k) == IF \E r \in D : KeyOf[r] = k THEN BatchTokens(D) ELSE 0

(* A copy c that counts u once the batches of F, weighing w, and d more are *)
(* added to it.                                                            *)
LevelOf(c, F, w, d, u) ==
  c.known => \E n \in Nat : SumsTo(w, F, n) /\ c.used + n + d = u

Level(k) == LevelOf(cache[k], Bumping(k), Tokens, DripOf(drained, k), usage[month][k])

(***************************************************************************)
(* While the counters of k are undisturbed at most one operator is in the  *)
(* middle of a reset or a reload, no batch of k is between its commit and  *)
(* the copy meanwhile, and each phase of the operation knows what it will  *)
(* leave behind.  Without one, the copy lacks what is being flushed.       *)
(***************************************************************************)
ReadBy(a, k) == k \notin op[a].todo \/ (pc[a] = "readby" /\ op[a].key = k)

UPhase(a, k) ==
  /\ op[a].period = month
  /\ pc[a] = "reset" => Level(k)
  /\ pc[a] \in {"zero", "revive"} => usage[month][k] = 0
  /\ (Reloading(a) /\ op[a].snap[k].known /\ ReadBy(a, k)) =>
       op[a].snap[k].used = usage[month][k]

Counted(k) ==
  /\ \A a, b \in Admins : UsageOpOn(a, k) /\ UsageOpOn(b, k) => a = b
  /\ (\A a \in Admins : ~UsageOpOn(a, k)) => Level(k)
  /\ \A a \in Admins : UsageOpOn(a, k) => ~Flushing(k) /\ UPhase(a, k)

(* Nobody can have used a key that createKey has not answered for.          *)
NotYet(k) == row[k] = "none" \/ \E a \in Admins : pc[a] = "put" /\ op[a].key = k

Early(k) ==
  /\ NotYet(k) => /\ \A r \in Reqs : KeyOf[r] = k => pc[r] \in {"new", "refused"}
                  /\ \A m \in Months : usage[m][k] = 0
  /\ row[k] = "none" => ~cache[k].known /\ \A a \in Admins : ~op[a].snap[k].known

Locals ==
  \A a \in Admins : /\ pc[a] = "put" => row[op[a].key] # "none"
                    /\ pc[a] \in {"reset", "zero"} => op[a].reset

Counts   == \A k \in Keys : ~drift[k] => Counted(k)
UsageInv == /\ Counts
            /\ \A k \in Keys : Early(k)
            /\ Locals
            /\ drained \subseteq stored

LEMMA TokensType == ASSUME TypeOK PROVE Tokens \in [Reqs -> Nat]
BY GateAssumption DEF Tokens, TypeOK

(* Nothing outstanding: the copy and the row are equal.                     *)
LEMMA LevelNone ==
  ASSUME NEW c \in CachedKey, NEW w \in [Reqs -> Nat], NEW u \in Nat
  PROVE  LevelOf(c, {}, w, 0, u) <=> (c.known => c.used = u)
<1>1. c.used \in Nat
  BY DEF CachedKey
<1>2. ASSUME c.known, LevelOf(c, {}, w, 0, u) PROVE c.used = u
  <2>1. PICK n \in Nat : SumsTo(w, {}, n) /\ c.used + n + 0 = u
    BY <1>2 DEF LevelOf
  <2>2. n = 0
    BY <2>1, SumEmptyOnly
  <2>3. QED BY <1>1, <2>1, <2>2
<1>3. ASSUME c.known => c.used = u PROVE LevelOf(c, {}, w, 0, u)
  BY <1>1, <1>3, SumOfEmpty DEF LevelOf
<1>4. QED BY <1>2, <1>3

LEMMA NotFlushing ==
  ASSUME TypeOK, NEW k \in Keys, ~Flushing(k)
  PROVE  Bumping(k) = {} /\ DripOf(drained, k) = 0
BY DEF Flushing, Bumping, DripOf, TypeOK

LEMMA LevelClear ==
  ASSUME TypeOK', NEW k \in Keys, ~Flushing(k)',
         cache'[k].known => cache'[k].used = usage'[month'][k]
  PROVE  Level(k)'
<1>1. Bumping(k)' = {} /\ DripOf(drained', k) = 0
  BY DEF Flushing, Bumping, DripOf, TypeOK
<1>2. cache'[k] \in CachedKey /\ usage'[month'][k] \in Nat
  BY DEF TypeOK
<1>3. Tokens' \in [Reqs -> Nat]
  BY GateAssumption DEF Tokens, TypeOK
<1>4. LevelOf(cache'[k], {}, Tokens', 0, usage'[month'][k])
  BY <1>2, <1>3, LevelNone
<1>5. QED BY <1>1, <1>4 DEF Level

(* With nothing outstanding the level says that the counters are equal.     *)
LEMMA LevelEqual ==
  ASSUME TypeOK, NEW k \in Keys, ~Flushing(k), Level(k), cache[k].known
  PROVE  cache[k].used = usage[month][k]
<1>1. cache[k] \in CachedKey /\ usage[month][k] \in Nat
  BY DEF TypeOK
<1>2. LevelOf(cache[k], {}, Tokens, 0, usage[month][k])
  BY NotFlushing DEF Level
<1>3. QED BY <1>1, <1>2, TokensType, LevelNone

(* Nothing that the level of k reads has changed, but that the copy may     *)
(* have forgotten the key.                                                  *)
SameRow(k)  == month' = month /\ usage'[month][k] = usage[month][k]
SameCopy(k) == cache'[k].known => cache[k].known /\ cache'[k].used = cache[k].used
SameDue(k)  == /\ Bumping(k)' = Bumping(k)
               /\ \A r \in Bumping(k) : batch'[r] = batch[r]
               /\ DripOf(drained', k) = DripOf(drained, k)
               /\ Flushing(k)' => Flushing(k)
SameCounts(k) == SameRow(k) /\ SameCopy(k) /\ SameDue(k)

LEMMA LevelSame ==
  ASSUME TypeOK, TypeOK', NEW k \in Keys, SameCounts(k), Level(k)
  PROVE  Level(k)'
<1>1. Tokens \in [Reqs -> Nat] /\ Tokens' \in [Reqs -> Nat]
  BY GateAssumption DEF Tokens, TypeOK
<1>2. \A r \in Bumping(k) : Tokens[r] = Tokens'[r]
  BY DEF SameCounts, SameDue, Tokens, Bumping
<1>3. Bumping(k) \in SUBSET Reqs
  BY DEF Bumping
<1>4. SUFFICES ASSUME cache'[k].known
               PROVE  LevelOf(cache'[k], Bumping(k), Tokens', DripOf(drained, k), usage[month][k])
  BY DEF Level, LevelOf, SameCounts, SameRow, SameDue
<1>5. cache[k].known /\ cache'[k].used = cache[k].used
  BY <1>4 DEF SameCounts, SameCopy
<1>6. PICK n \in Nat : SumsTo(Tokens, Bumping(k), n)
                       /\ cache[k].used + n + DripOf(drained, k) = usage[month][k]
  BY <1>5 DEF Level, LevelOf
<1>7. SumsTo(Tokens', Bumping(k), n)
  BY <1>1, <1>2, <1>3, <1>6, SumSame
<1>8. QED BY <1>5, <1>6, <1>7 DEF LevelOf

(* No operator begins, ends or goes on with a reset or a reload of k.       *)
Apart(k) ==
  \A a \in Admins : \/ (pc'[a] = pc[a] /\ op'[a] = op[a])
                   \/ (~UsageOpOn(a, k) /\ ~UsageOpOn(a, k)')

LEMMA ApartSame ==
  ASSUME NEW k \in Keys, Apart(k), NEW a \in Admins
  PROVE  /\ UsageOpOn(a, k)' <=> UsageOpOn(a, k)
         /\ UsageOpOn(a, k) => pc'[a] = pc[a] /\ op'[a] = op[a]
<1>1. CASE pc'[a] = pc[a] /\ op'[a] = op[a]
  BY <1>1 DEF UsageOpOn, Reloading
<1>2. QED BY <1>1 DEF Apart

LEMMA CountedStays ==
  ASSUME NEW k \in Keys, Apart(k), SameRow(k), Flushing(k)' => Flushing(k),
         Level(k) => Level(k)', Counted(k)
  PROVE  Counted(k)'
<1>1. \A a \in Admins : UsageOpOn(a, k)' <=> UsageOpOn(a, k)
  BY ApartSame
<1>2. ASSUME NEW a \in Admins, UsageOpOn(a, k) PROVE ~Flushing(k)' /\ UPhase(a, k)'
  <2>1. ~Flushing(k) /\ UPhase(a, k) /\ pc'[a] = pc[a] /\ op'[a] = op[a]
    BY <1>2, ApartSame DEF Counted
  <2>2. QED BY <2>1 DEF UPhase, ReadBy, Reloading, SameRow
<1>3. QED BY <1>1, <1>2 DEF Counted

LEMMA CountedSame ==
  ASSUME TypeOK, TypeOK', NEW k \in Keys, Apart(k), SameCounts(k), Counted(k)
  PROVE  Counted(k)'
BY CountedStays, LevelSame DEF SameCounts, SameDue

(* An operator alone with k takes a step.                                   *)
LEMMA Sole ==
  ASSUME NEW k \in Keys, NEW a \in Admins,
         \A b \in Admins \ {a} : pc'[b] = pc[b] /\ op'[b] = op[b] /\ ~UsageOpOn(b, k),
         UsageOpOn(a, k)' => ~Flushing(k)' /\ UPhase(a, k)',
         ~UsageOpOn(a, k)' => Level(k)'
  PROVE  Counted(k)'
<1>1. \A b \in Admins \ {a} : ~UsageOpOn(b, k)'
  BY DEF UsageOpOn, Reloading
<1>2. QED BY <1>1 DEF Counted

LEMMA SoleOn ==
  ASSUME NEW k \in Keys, NEW a \in Admins, UsageOpOn(a, k), Counted(k)
  PROVE  /\ \A b \in Admins \ {a} : ~UsageOpOn(b, k)
         /\ ~Flushing(k) /\ UPhase(a, k)
BY DEF Counted

(***************************************************************************)
(* The steps: each leaves every key counted that is not disturbed.         *)
(***************************************************************************)
CountsNext == \A k \in Keys : ~drift'[k] => Counted(k)'

(* Steps that neither flush nor reset nor reload.                           *)
LEMMA CalmCounts ==
  ASSUME TypeOK, TypeOK', Counts, drift' = drift,
         \A k \in Keys : Apart(k) /\ SameCounts(k)
  PROVE  CountsNext
BY CountedSame DEF Counts, CountsNext

OperatorsStay == op' = op /\ \A a \in Admins : pc'[a] = pc[a]

LEMMA ApartStay == ASSUME OperatorsStay PROVE \A k : Apart(k)
BY DEF OperatorsStay, Apart

LEMMA RequestStays ==
  ASSUME TypeOK, NEW r \in Reqs, NEW v, pc' = [pc EXCEPT ![r] = v], op' = op
  PROVE  OperatorsStay /\ pc'[r] = v /\ \A q \in Reqs \ {r} : pc'[q] = pc[q]
BY GateAssumption DEF OperatorsStay, TypeOK, Procs

(* A request moves, but neither to nor from bump.                           *)
LEMMA SameDueMove ==
  ASSUME TypeOK, NEW k \in Keys, NEW r \in Reqs, pc[r] # "bump", pc'[r] # "bump",
         \A q \in Reqs \ {r} : pc'[q] = pc[q] /\ batch'[q] = batch[q],
         drained' = drained
  PROVE  SameDue(k)
<1>1. Bumping(k)' = Bumping(k) /\ r \notin Bumping(k)
  BY DEF Bumping
<1>2. QED BY <1>1 DEF SameDue, Flushing, Bumping

(* No request moves to or from bump.                                        *)
LEMMA SameDueStill ==
  ASSUME TypeOK, NEW k \in Keys, UNCHANGED <<batch, drained>>,
         \A q \in Reqs : pc'[q] = "bump" <=> pc[q] = "bump"
  PROVE  SameDue(k)
BY DEF SameDue, Flushing, Bumping

LEMMA GateCounts ==
  ASSUME TypeOK, TypeOK', Counts, NEW r \in Reqs, Gate(r)
  PROVE  CountsNext
<1>1. /\ UNCHANGED <<month, usage, cache, batch, drained, op, drift>>
      /\ \E v \in ReqPC \ {"bump"} : pc' = [pc EXCEPT ![r] = v]
      /\ pc[r] # "bump"
  BY DEF Gate, Lookup, RefuseKilled, PassKillSwitch, TripAutoKill, PassLoopGuard, RefuseBudget,
         PassBudget, RefuseRate, PassRate, Serve, Unmetered, AutoKill, AutoKillFail,
         store, meter, ReqPC
<1>2. OperatorsStay /\ pc'[r] # "bump" /\ \A q \in Reqs \ {r} : pc'[q] = pc[q]
  BY <1>1, RequestStays
<1>3. \A k \in Keys : SameDue(k)
  BY <1>1, <1>2, SameDueMove
<1>4. \A k \in Keys : SameRow(k) /\ SameCopy(k)
  BY <1>1 DEF SameRow, SameCopy
<1>5. QED BY <1>1, <1>2, <1>3, <1>4, ApartStay, CalmCounts DEF SameCounts

LEMMA KillCacheCounts ==
  ASSUME TypeOK, TypeOK', Counts, NEW p \in Procs, KillCache(p)
  PROVE  CountsNext
<1> DEFINE key == IF p \in Reqs THEN KeyOf[p] ELSE op[p].key
           c == [cache[key] EXCEPT !.killed = cache[key].known]
<1>1. key \in Keys
  BY GateAssumption DEF Procs, TypeOK, Operation
<1>2. /\ UNCHANGED <<month, usage, batch, drained, op, drift>>
      /\ pc[p] = "killcache" /\ pc' = [pc EXCEPT ![p] = IF p \in Reqs THEN "refused" ELSE "idle"]
      /\ cache' = [cache EXCEPT ![key] = c]
  BY DEF KillCache, store, meter
<1>3. cache[key] \in CachedKey
  BY <1>1 DEF TypeOK
<1> HIDE DEF key
<1>4. c.known = cache[key].known /\ c.used = cache[key].used
  BY <1>3 DEF CachedKey
<1> HIDE DEF c
<1>5. \A k \in Keys : SameRow(k) /\ SameCopy(k)
  BY <1>1, <1>2, <1>4 DEF SameRow, SameCopy, TypeOK
<1>6. /\ pc'[p] \in {"refused", "idle"} /\ \A q \in Procs \ {p} : pc'[q] = pc[q]
  BY <1>2 DEF TypeOK
<1>7. \A q \in Reqs : pc'[q] = "bump" <=> pc[q] = "bump"
  BY <1>2, <1>6 DEF Procs
<1>8. \A k \in Keys : Apart(k)
  BY <1>2, <1>6 DEF Apart, UsageOpOn, Reloading, Procs
<1>9. QED BY <1>2, <1>5, <1>7, <1>8, SameDueStill, CalmCounts DEF SameCounts

(* The batch is committed: the copy lacks it from here on.                  *)
LEMMA FlushStoreCounts ==
  ASSUME TypeOK, TypeOK', Counts, NEW r \in Reqs, FlushStore(r)
  PROVE  CountsNext
<1> DEFINE key == KeyOf[r]
           t == BatchTokens(batch[r])
<1>1. key \in Keys /\ t \in Nat /\ month \in Months /\ usage \in [Months -> [Keys -> Nat]]
  BY GateAssumption DEF TypeOK
<1>2. /\ UNCHANGED <<month, cache, batch, drained, op>>
      /\ pc[r] = "flush" /\ pc' = [pc EXCEPT ![r] = "bump"]
      /\ usage' = [usage EXCEPT ![month][key] = @ + t]
      /\ drift' = [drift EXCEPT ![key] = @ \/ \E a \in Admins : UsageOpOn(a, key)]
  BY DEF FlushStore, IncrUsage, meter
<1>3. OperatorsStay /\ pc'[r] = "bump" /\ \A q \in Reqs \ {r} : pc'[q] = pc[q]
  BY <1>2, RequestStays
<1>4. usage'[month][key] = usage[month][key] + t
      /\ \A k \in Keys \ {key} : usage'[month][k] = usage[month][k]
  BY <1>1, <1>2
<1>5. SUFFICES ASSUME NEW k \in Keys, ~drift'[k] PROVE Counted(k)'
  BY DEF CountsNext
<1>6. CASE k = key
  <2>1. ~drift[k] /\ \A a \in Admins : ~UsageOpOn(a, k)
    BY <1>2, <1>5, <1>6 DEF TypeOK
  <2>2. Level(k)
    BY <2>1 DEF Counts, Counted
  <2>3. \A a \in Admins : ~UsageOpOn(a, k)'
    BY <1>3, <2>1 DEF OperatorsStay, UsageOpOn, Reloading
  <2>4. Bumping(k)' = Bumping(k) \cup {r} /\ r \in Reqs \ Bumping(k) /\ Bumping(k) \in SUBSET Reqs
    BY <1>2, <1>3, <1>6 DEF Bumping
  <2>5. Tokens' = Tokens /\ Tokens[r] = t
    BY <1>2 DEF Tokens
  <2>6. LevelOf(cache[k], Bumping(k) \cup {r}, Tokens, DripOf(drained, k), usage[month][k] + t)
    <3>1. SUFFICES ASSUME cache[k].known
          PROVE \E n \in Nat : /\ SumsTo(Tokens, Bumping(k) \cup {r}, n)
                               /\ cache[k].used + n + DripOf(drained, k) = usage[month][k] + t
      BY DEF LevelOf
    <3>2. PICK n \in Nat : SumsTo(Tokens, Bumping(k), n)
                           /\ cache[k].used + n + DripOf(drained, k) = usage[month][k]
      BY <2>2, <3>1 DEF Level, LevelOf
    <3>3. SumsTo(Tokens, Bumping(k) \cup {r}, n + Tokens[r])
      BY <2>4, <3>2, TokensType, SumAdd
    <3>4. DripOf(drained, k) \in Nat /\ cache[k].used \in Nat
      BY GateAssumption DEF DripOf, TypeOK, CachedKey
    <3> HIDE DEF t
    <3>5. n + t \in Nat /\ cache[k].used + (n + t) + DripOf(drained, k) = usage[month][k] + t
      BY <1>1, <3>2, <3>4 DEF TypeOK
    <3>6. QED BY <2>5, <3>3, <3>5
  <2>7. Level(k)'
    BY <1>2, <1>4, <1>6, <2>4, <2>5, <2>6 DEF Level
  <2>8. QED BY <2>3, <2>7 DEF Counted
<1>7. CASE k # key
  <2>1. ~drift[k]
    BY <1>1, <1>2, <1>5, <1>7 DEF TypeOK
  <2>2. Bumping(k)' = Bumping(k)
    BY <1>2, <1>3, <1>7 DEF Bumping
  <2>3. SameDue(k)
    BY <1>2, <1>3, <1>7, <2>2 DEF SameDue, Flushing
  <2>4. SameRow(k) /\ SameCopy(k)
    BY <1>2, <1>4, <1>7 DEF SameRow, SameCopy
  <2>5. QED BY <1>3, <2>1, <2>3, <2>4, ApartStay, CountedSame DEF SameCounts, Counts
<1>8. QED BY <1>6, <1>7

LEMMA AddTokensUsedCount ==
  ASSUME NEW c \in CachedKey, NEW t \in Targets, NEW n \in Nat
  PROVE  /\ AddTokensUsed(c, t, n).known = c.known
         /\ c.known => AddTokensUsed(c, t, n).used = c.used + n
<1> DEFINE u == c.used + n
           b == [c.usedBy EXCEPT ![t] = @ + n]
           d == [c EXCEPT !.used = u, !.usedBy = b]
<1>1. AddTokensUsed(c, t, n) = IF c.known THEN d ELSE c
  BY DEF AddTokensUsed
<1> HIDE DEF u, b
<1>2. d.known = c.known /\ d.used = u
  BY DEF CachedKey
<1>3. QED BY <1>1, <1>2 DEF u

(* The copy follows the commit.                                             *)
LEMMA FlushCacheCounts ==
  ASSUME TypeOK, TypeOK', Counts, NEW r \in Reqs, FlushCache(r)
  PROVE  CountsNext
<1> DEFINE key == KeyOf[r]
           t == BatchTokens(batch[r])
           c == AddTokensUsed(cache[key], TargetOf[r], t)
<1>1. key \in Keys /\ t \in Nat /\ TargetOf[r] \in Targets /\ cache[key] \in CachedKey
  BY GateAssumption DEF TypeOK
<1>2. /\ UNCHANGED <<month, usage, drained, op, drift>>
      /\ pc[r] = "bump" /\ pc' = [pc EXCEPT ![r] = "done"]
      /\ cache' = [cache EXCEPT ![key] = c] /\ batch' = [batch EXCEPT ![r] = {}]
  BY DEF FlushCache, store
<1>3. c.known = cache[key].known /\ (c.known => c.used = cache[key].used + t)
  BY <1>1, AddTokensUsedCount
<1> HIDE DEF c
<1>4. OperatorsStay /\ pc'[r] = "done" /\ \A q \in Reqs \ {r} : pc'[q] = pc[q]
  BY <1>2, RequestStays
<1>5. cache'[key] = c /\ \A k \in Keys \ {key} : cache'[k] = cache[k]
  BY <1>2 DEF TypeOK
<1>6. \A q \in Reqs \ {r} : batch'[q] = batch[q]
  BY <1>2 DEF TypeOK
<1>7. SUFFICES ASSUME NEW k \in Keys, ~drift'[k] PROVE Counted(k)'
  BY DEF CountsNext
<1>8. CASE k = key
  <2>1. Counted(k) /\ Flushing(k)
    BY <1>2, <1>7, <1>8 DEF Counts, Flushing
  <2>2. Level(k) /\ \A a \in Admins : ~UsageOpOn(a, k)
    BY <2>1 DEF Counted
  <2>3. \A a \in Admins : ~UsageOpOn(a, k)'
    BY <1>4, <2>2 DEF OperatorsStay, UsageOpOn, Reloading
  <2>4. Bumping(k)' = Bumping(k) \ {r} /\ r \in Bumping(k) /\ Bumping(k) \in SUBSET Reqs
    BY <1>2, <1>4, <1>8 DEF Bumping
  <2>5. Tokens[r] = t /\ \A q \in Bumping(k) \ {r} : Tokens[q] = Tokens'[q]
    BY <1>6, <2>4 DEF Tokens
  <2>6. Tokens \in [Reqs -> Nat] /\ Tokens' \in [Reqs -> Nat]
    BY GateAssumption DEF Tokens, TypeOK
  <2>7. LevelOf(c, Bumping(k) \ {r}, Tokens', DripOf(drained, k), usage[month][k])
    <3>1. SUFFICES ASSUME c.known
          PROVE \E n \in Nat : /\ SumsTo(Tokens', Bumping(k) \ {r}, n)
                               /\ c.used + n + DripOf(drained, k) = usage[month][k]
      BY DEF LevelOf
    <3>2. PICK n \in Nat : SumsTo(Tokens, Bumping(k), n)
                           /\ cache[k].used + n + DripOf(drained, k) = usage[month][k]
      BY <1>3, <1>8, <2>2, <3>1 DEF Level, LevelOf
    <3>3. n - t \in Nat /\ SumsTo(Tokens, Bumping(k) \ {r}, n - t)
      BY <2>4, <2>5, <2>6, <3>2, SumRemove
    <3>4. Bumping(k) \ {r} \in SUBSET Reqs
      BY <2>4
    <3>5. SumsTo(Tokens', Bumping(k) \ {r}, n - t)
      BY <2>5, <2>6, <3>3, <3>4, SumSame
    <3>6. DripOf(drained, k) \in Nat /\ cache[k].used \in Nat
      BY GateAssumption DEF DripOf, TypeOK, CachedKey
    <3> HIDE DEF t
    <3>7. c.used + (n - t) + DripOf(drained, k) = usage[month][k]
      BY <1>1, <1>3, <1>8, <3>1, <3>2, <3>6
    <3>8. QED BY <3>3, <3>5, <3>7
  <2>8. Level(k)'
    BY <1>2, <1>5, <1>8, <2>4, <2>7 DEF Level
  <2>9. QED BY <2>3, <2>8 DEF Counted
<1>9. CASE k # key
  <2>1. Bumping(k)' = Bumping(k) /\ r \notin Bumping(k)
    BY <1>2, <1>4, <1>9 DEF Bumping
  <2>2. SameDue(k)
    BY <1>2, <1>4, <1>6, <1>9, <2>1 DEF SameDue, Flushing, Bumping
  <2>3. SameRow(k) /\ SameCopy(k)
    BY <1>2, <1>5, <1>9 DEF SameRow, SameCopy
  <2>4. QED BY <1>2, <1>4, <1>7, <2>2, <2>3, ApartStay, CountedSame DEF SameCounts, Counts
<1>10. QED BY <1>8, <1>9

LEMMA MeteringCounts ==
  ASSUME TypeOK, TypeOK', Counts, NEW r \in Reqs, Metering(r)
  PROVE  CountsNext
<1>1. CASE RecordLater(r) \/ RecordFlush(r) \/ FlushFail(r)
  <2>1. /\ UNCHANGED <<month, usage, cache, drained, op, drift>>
        /\ \E v \in {"done", "flush"} : pc' = [pc EXCEPT ![r] = v]
        /\ \E B : batch' = [batch EXCEPT ![r] = B]
        /\ pc[r] # "bump"
    <3>1. CASE RecordLater(r)
      <4>1. batch' = [batch EXCEPT ![r] = batch[r]]
        BY <3>1 DEF RecordLater, TypeOK
      <4>2. QED BY <3>1, <4>1 DEF RecordLater, Returned, store
    <3>2. CASE RecordFlush(r)
      BY <3>2 DEF RecordFlush, Returned, store
    <3>3. CASE FlushFail(r)
      BY <3>3 DEF FlushFail, store
    <3>4. QED BY <1>1, <3>1, <3>2, <3>3
  <2>2. OperatorsStay /\ pc'[r] # "bump" /\ \A q \in Reqs \ {r} : pc'[q] = pc[q]
    BY <2>1, RequestStays
  <2>3. \A q \in Reqs \ {r} : batch'[q] = batch[q]
    BY <2>1 DEF TypeOK
  <2>4. \A k \in Keys : SameDue(k)
    BY <2>1, <2>2, <2>3, SameDueMove
  <2>5. \A k \in Keys : SameRow(k) /\ SameCopy(k)
    BY <2>1 DEF SameRow, SameCopy
  <2>6. QED BY <2>1, <2>2, <2>4, <2>5, ApartStay, CalmCounts DEF SameCounts
<1>2. QED BY <1>1, FlushStoreCounts, FlushCacheCounts DEF Metering

(* The shutdown drain commits a slot.                                       *)
LEMMA DrainSlotCounts ==
  ASSUME TypeOK, TypeOK', Counts, NEW s \in Keys \X Targets, DrainSlot(s)
  PROVE  CountsNext
<1> DEFINE key == s[1]
           due == OfSlot(drain, s)
           t == BatchTokens(due)
<1>1. key \in Keys /\ due \in SUBSET Reqs /\ due # {} /\ \A r \in due : KeyOf[r] = key
  BY DEF OfSlot, Slot, DrainSlot, TypeOK
<1>2. t \in Nat /\ month \in Months /\ usage \in [Months -> [Keys -> Nat]]
  BY <1>1, GateAssumption DEF TypeOK
<1>3. /\ UNCHANGED <<month, cache, batch, op, pc>> /\ drained = {} /\ drained' = due
      /\ usage' = [usage EXCEPT ![month][key] = @ + t]
      /\ drift' = [drift EXCEPT ![key] = @ \/ \E a \in Admins : UsageOpOn(a, key)]
  BY DEF DrainSlot, IncrUsage
<1>4. DripOf(drained, key) = 0 /\ DripOf(drained', key) = t
      /\ \A k \in Keys \ {key} : DripOf(drained, k) = 0 /\ DripOf(drained', k) = 0
  BY <1>1, <1>3 DEF DripOf
<1> HIDE DEF due, t
<1>5. usage'[month][key] = usage[month][key] + t
      /\ \A k \in Keys \ {key} : usage'[month][k] = usage[month][k]
  BY <1>1, <1>2, <1>3
<1>6. OperatorsStay
  BY <1>3 DEF OperatorsStay
<1>7. \A k \in Keys : Bumping(k)' = Bumping(k)
  BY <1>3 DEF Bumping
<1>8. SUFFICES ASSUME NEW k \in Keys, ~drift'[k] PROVE Counted(k)'
  BY DEF CountsNext
<1>9. CASE k = key
  <2>1. ~drift[k] /\ \A a \in Admins : ~UsageOpOn(a, k)
    BY <1>3, <1>8, <1>9 DEF TypeOK
  <2>2. Level(k) /\ \A a \in Admins : ~UsageOpOn(a, k)'
    BY <1>6, <2>1 DEF Counts, Counted, OperatorsStay, UsageOpOn, Reloading
  <2>3. LevelOf(cache[k], Bumping(k), Tokens, t, usage[month][k] + t)
    <3>1. SUFFICES ASSUME cache[k].known
          PROVE \E n \in Nat : /\ SumsTo(Tokens, Bumping(k), n)
                               /\ cache[k].used + n + t = usage[month][k] + t
      BY DEF LevelOf
    <3>2. PICK n \in Nat : SumsTo(Tokens, Bumping(k), n)
                           /\ cache[k].used + n + 0 = usage[month][k]
      BY <1>4, <1>9, <2>2, <3>1 DEF Level, LevelOf
    <3>3. cache[k].used \in Nat
      BY DEF TypeOK, CachedKey
    <3>4. cache[k].used + n + t = usage[month][k] + t
      BY <1>2, <3>2, <3>3
    <3>5. QED BY <3>2, <3>4
  <2>4. Tokens' = Tokens
    BY <1>3 DEF Tokens
  <2>5. Level(k)'
    BY <1>3, <1>4, <1>5, <1>7, <1>9, <2>3, <2>4 DEF Level
  <2>6. QED BY <2>2, <2>5 DEF Counted
<1>10. CASE k # key
  <2>1. SameDue(k)
    BY <1>1, <1>3, <1>4, <1>7, <1>10 DEF SameDue, Flushing, due
  <2>2. SameRow(k) /\ SameCopy(k) /\ ~drift[k]
    BY <1>1, <1>3, <1>5, <1>8, <1>10 DEF SameRow, SameCopy, TypeOK
  <2>3. QED BY <1>6, <2>1, <2>2, ApartStay, CountedSame DEF SameCounts, Counts
<1>11. QED BY <1>9, <1>10

LEMMA DrainCacheCounts ==
  ASSUME TypeOK, TypeOK', Counts, NEW s \in Keys \X Targets, DrainCache(s)
  PROVE  CountsNext
<1> DEFINE key == s[1]
           t == BatchTokens(drained)
           c == AddTokensUsed(cache[key], s[2], t)
<1>1. key \in Keys /\ s[2] \in Targets /\ cache[key] \in CachedKey
      /\ drained # {} /\ drained \in SUBSET Reqs /\ \A r \in drained : KeyOf[r] = key
  BY DEF OfSlot, Slot, DrainCache, TypeOK
<1>2. t \in Nat
  BY <1>1, GateAssumption
<1>3. /\ UNCHANGED <<month, usage, batch, op, pc, drift>> /\ drained' = {}
      /\ cache' = [cache EXCEPT ![key] = c]
  BY DEF DrainCache, store
<1>4. DripOf(drained, key) = t /\ DripOf(drained', key) = 0
      /\ \A k \in Keys \ {key} : DripOf(drained, k) = 0 /\ DripOf(drained', k) = 0
  BY <1>1, <1>3 DEF DripOf
<1>5. c.known = cache[key].known /\ (c.known => c.used = cache[key].used + t)
  BY <1>1, <1>2, AddTokensUsedCount
<1> HIDE DEF c, t
<1>6. cache'[key] = c /\ \A k \in Keys \ {key} : cache'[k] = cache[k]
  BY <1>3 DEF TypeOK
<1>7. OperatorsStay /\ Tokens' = Tokens /\ \A k \in Keys : Bumping(k)' = Bumping(k)
  BY <1>3 DEF OperatorsStay, Bumping, Tokens
<1>8. SUFFICES ASSUME NEW k \in Keys, ~drift'[k] PROVE Counted(k)'
  BY DEF CountsNext
<1>9. CASE k = key
  <2>1. Counted(k) /\ Flushing(k)
    BY <1>1, <1>3, <1>8, <1>9 DEF Counts, Flushing
  <2>2. Level(k) /\ \A a \in Admins : ~UsageOpOn(a, k)'
    BY <1>7, <2>1 DEF Counted, OperatorsStay, UsageOpOn, Reloading
  <2>3. LevelOf(c, Bumping(k), Tokens, 0, usage[month][k])
    <3>1. SUFFICES ASSUME c.known
          PROVE \E n \in Nat : /\ SumsTo(Tokens, Bumping(k), n)
                               /\ c.used + n + 0 = usage[month][k]
      BY DEF LevelOf
    <3>2. PICK n \in Nat : SumsTo(Tokens, Bumping(k), n)
                           /\ cache[k].used + n + t = usage[month][k]
      BY <1>4, <1>5, <1>9, <2>2, <3>1 DEF Level, LevelOf
    <3>3. cache[k].used \in Nat
      BY DEF TypeOK, CachedKey
    <3>4. c.used + n + 0 = usage[month][k]
      BY <1>2, <1>5, <1>9, <3>1, <3>2, <3>3
    <3>5. QED BY <3>2, <3>4
  <2>4. Level(k)'
    BY <1>3, <1>4, <1>6, <1>7, <1>9, <2>3 DEF Level
  <2>5. QED BY <2>2, <2>4 DEF Counted
<1>10. CASE k # key
  <2>1. SameDue(k)
    BY <1>3, <1>4, <1>7, <1>10 DEF SameDue, Flushing
  <2>2. SameRow(k) /\ SameCopy(k) /\ ~drift[k]
    BY <1>3, <1>6, <1>8, <1>10 DEF SameRow, SameCopy
  <2>3. QED BY <1>7, <2>1, <2>2, ApartStay, CountedSame DEF SameCounts, Counts
<1>11. QED BY <1>9, <1>10

LEMMA EnvironmentCounts ==
  ASSUME TypeOK, TypeOK', Counts, Environment \/ UNCHANGED vars
  PROVE  CountsNext
<1>1. CASE \/ FlushAll \/ DrainFail \/ UNCHANGED vars
           \/ \E s \in Keys \X Targets : Cool(s)
           \/ \E r \in Reqs : Expire(r)
  <2>1. UNCHANGED <<month, usage, cache, batch, drained, op, pc, drift>>
    BY <1>1 DEF FlushAll, DrainFail, Cool, Expire, vars, store, meter
  <2>2. OperatorsStay /\ \A k \in Keys : SameDue(k) /\ SameRow(k) /\ SameCopy(k)
    BY <2>1, SameDueStill DEF OperatorsStay, SameRow, SameCopy
  <2>3. QED BY <2>1, <2>2, ApartStay, CalmCounts DEF SameCounts
<1>2. CASE NewMonth
  BY <1>2 DEF NewMonth, CountsNext
<1>3. CASE Restart
  <2>1. SUFFICES ASSUME NEW k \in Keys PROVE Counted(k)'
    BY DEF CountsNext
  <2>2. /\ \A a \in Admins : ~UsageOpOn(a, k)'
        /\ \A r \in Reqs : pc'[r] # "bump"
    BY <1>3, GateAssumption DEF Restart, UsageOpOn, Reloading, Procs
  <2>3. cache'[k] = Loaded(k) /\ drained' = {} /\ UNCHANGED <<month, usage>>
    BY <1>3 DEF Restart, store
  <2>4. ~Flushing(k)'
    BY <2>2, <2>3 DEF Flushing
  <2>5. Loaded(k).known => Loaded(k).used = usage[month][k]
    BY DEF Loaded, Absent
  <2>6. Level(k)'
    BY <2>3, <2>4, <2>5, LevelClear
  <2>7. QED BY <2>2, <2>6 DEF Counted
<1>4. QED BY <1>1, <1>2, <1>3, DrainSlotCounts, DrainCacheCounts DEF Environment

(* An operator takes a step: the others and the requests stay.              *)
Moves(a) == /\ \A b \in Admins \ {a} : pc'[b] = pc[b] /\ op'[b] = op[b]
            /\ \A k \in Keys : SameDue(k)
            /\ \A k \in Keys : Flushing(k)' <=> Flushing(k)
            /\ \A k \in Keys : Bumping(k)' = Bumping(k)
            /\ UNCHANGED <<batch, drained, month>>

LEMMA OperatorMoves ==
  ASSUME TypeOK, NEW a \in Admins, NEW v, pc' = [pc EXCEPT ![a] = v],
         op' = op \/ \E o : op' = [op EXCEPT ![a] = o],
         UNCHANGED <<batch, drained, month>>
  PROVE  Moves(a) /\ pc'[a] = v
<1>1. /\ pc'[a] = v /\ \A b \in Admins \ {a} : pc'[b] = pc[b] /\ op'[b] = op[b]
      /\ \A r \in Reqs : pc'[r] = pc[r]
  BY GateAssumption DEF TypeOK, Procs
<1>2. \A k \in Keys : SameDue(k) /\ Bumping(k)' = Bumping(k) /\ (Flushing(k)' <=> Flushing(k))
  BY <1>1, SameDueStill DEF Bumping, Flushing
<1>3. QED BY <1>1, <1>2 DEF Moves

(* A step of an operator that is no part of a reset or a reload of k.       *)
LEMMA Uninvolved ==
  ASSUME TypeOK, TypeOK', Counts, NEW a \in Admins, Moves(a), NEW k \in Keys,
         ~UsageOpOn(a, k), ~UsageOpOn(a, k)', SameRow(k), SameCopy(k), ~drift[k]
  PROVE  Counted(k)'
<1>1. Apart(k) /\ SameCounts(k)
  BY DEF Apart, Moves, SameCounts
<1>2. QED BY <1>1, CountedSame DEF Counts

(* Kill, createKey, deleteKey, un-kill without a reset, the last step of    *)
(* un-kill.                                                                 *)
LEMMA KeyOpCounts ==
  ASSUME TypeOK, TypeOK', Counts, NEW a \in Admins,
         \/ \E k \in Keys : Kill(a, k) \/ CreateKey(a, k) \/ DeleteKey(a, k) \/ Unkill(a, k, FALSE)
         \/ UnkillClear(a)
  PROVE  CountsNext
<1> DEFINE Began(v, o) ==
             /\ v \in {"killcache", "put", "list", "revive", "idle"}
             /\ pc[a] \in {"idle", "clear"} /\ pc' = [pc EXCEPT ![a] = v]
             /\ op' = [op EXCEPT ![a] = o] /\ (v = "revive" => ~o.reset)
             /\ UNCHANGED <<month, usage, cache, batch, drained>>
             /\ \A k \in Keys : drift'[k] = drift[k]
<1>0. \E v, o : Began(v, o)
  <2>1. op \in [Admins -> Operation] /\ op[a] \in Operation
    BY DEF TypeOK
  <2>2. ASSUME NEW k \in Keys, Kill(a, k) \/ CreateKey(a, k) \/ DeleteKey(a, k)
        PROVE  \E v, o : Began(v, o)
    <3> DEFINE o == [op[a] EXCEPT !.key = k]
    <3>1. CASE Kill(a, k)
      <4>1. Began("killcache", o)
        BY <3>1 DEF Kill, meter
      <4> HIDE DEF Began
      <4>2. QED BY <4>1
    <3>2. CASE CreateKey(a, k)
      <4>1. Began("put", o)
        BY <3>2 DEF CreateKey, meter
      <4> HIDE DEF Began
      <4>2. QED BY <4>1
    <3>3. CASE DeleteKey(a, k)
      <4>1. Began("list", o)
        BY <3>3 DEF DeleteKey, meter
      <4> HIDE DEF Began
      <4>2. QED BY <4>1
    <3>4. QED BY <2>2, <3>1, <3>2, <3>3
  <2>3. ASSUME NEW k \in Keys, Unkill(a, k, FALSE)
        PROVE  \E v, o : Began(v, o)
    <3> DEFINE o == [op[a] EXCEPT !.key = k, !.reset = FALSE, !.period = 0]
    <3>1. o.reset = FALSE
      BY <2>1 DEF Operation
    <3>2. op' = [op EXCEPT ![a] = o] /\ pc' = [pc EXCEPT ![a] = "revive"]
      BY <2>3 DEF Unkill
    <3> HIDE DEF o
    <3>3. drift' = [drift EXCEPT ![k] = @ \/ FALSE]
      BY <2>3 DEF Unkill
    <3>4. \A x \in Keys : drift'[x] = drift[x]
      BY <3>3 DEF TypeOK
    <3>5. pc[a] = "idle" /\ UNCHANGED <<month, usage, cache, batch, drained>>
      BY <2>3 DEF Unkill, meter
    <3>6. Began("revive", o)
      BY <3>1, <3>2, <3>4, <3>5
    <3> HIDE DEF Began
    <3>7. QED BY <3>6
  <2>4. CASE UnkillClear(a)
    <3>1. Began("idle", [op[a] EXCEPT !.reset = FALSE, !.period = 0])
      BY <2>4 DEF UnkillClear, store, meter
    <3> HIDE DEF Began
    <3>2. QED BY <3>1
  <2> HIDE DEF Began
  <2>5. QED BY <2>2, <2>3, <2>4
<1>1. PICK v, o : Began(v, o)
  BY <1>0
<1>2. Moves(a) /\ pc'[a] = v
  BY <1>1, OperatorMoves
<1>3. op'[a] = o
  BY <1>1 DEF TypeOK
<1>4. \A k \in Keys : ~UsageOpOn(a, k) /\ ~UsageOpOn(a, k)'
  BY <1>1, <1>2, <1>3 DEF UsageOpOn, Reloading
<1>5. \A k \in Keys : SameRow(k) /\ SameCopy(k)
  BY <1>1 DEF SameRow, SameCopy
<1>6. QED BY <1>1, <1>2, <1>4, <1>5, Uninvolved DEF CountsNext

(* Un-kill with a reset begins.                                             *)
LEMMA UnkillCounts ==
  ASSUME TypeOK, TypeOK', Counts, NEW a \in Admins, NEW key \in Keys, Unkill(a, key, TRUE)
  PROVE  CountsNext
<1> DEFINE o == [op[a] EXCEPT !.key = key, !.reset = TRUE, !.period = month]
<1>1. op[a] \in Operation /\ month \in Months
  BY DEF TypeOK
<1>2. o.key = key /\ o.reset = TRUE /\ o.period = month
  BY <1>1 DEF Operation
<1>3. /\ pc[a] = "idle" /\ pc' = [pc EXCEPT ![a] = "reset"]
      /\ op' = [op EXCEPT ![a] = o]
      /\ UNCHANGED <<month, usage, cache, batch, drained>>
      /\ drift' = [drift EXCEPT ![key] =
           @ \/ (TRUE /\ (Flushing(key) \/ \E b \in Admins : UsageOpOn(b, key)))]
  BY DEF Unkill, meter
<1> HIDE DEF o
<1>4. Moves(a) /\ pc'[a] = "reset"
  BY <1>3, OperatorMoves
<1>5. op'[a] = o
  BY <1>3 DEF TypeOK
<1>6. \A k \in Keys : SameRow(k) /\ SameCopy(k)
  BY <1>3 DEF SameRow, SameCopy
<1>7. SUFFICES ASSUME NEW k \in Keys, ~drift'[k] PROVE Counted(k)'
  BY DEF CountsNext
<1>8. CASE k = key
  <2>1. ~drift[k] /\ ~Flushing(k) /\ \A b \in Admins : ~UsageOpOn(b, k)
    BY <1>3, <1>7, <1>8 DEF TypeOK
  <2>2. Level(k)
    BY <2>1 DEF Counts, Counted
  <2>3. Level(k)'
    BY <1>4, <1>6, <2>2, LevelSame DEF SameCounts, Moves
  <2>4. ~Flushing(k)' /\ UPhase(a, k)'
    BY <1>2, <1>3, <1>4, <1>5, <2>1, <2>3 DEF UPhase, Reloading, Moves
  <2>5. UsageOpOn(a, k)'
    BY <1>2, <1>4, <1>5, <1>8 DEF UsageOpOn
  <2>6. QED BY <1>4, <2>1, <2>4, <2>5, Sole DEF Moves
<1>9. CASE k # key
  <2>1. ~UsageOpOn(a, k) /\ ~UsageOpOn(a, k)'
    BY <1>2, <1>3, <1>4, <1>5, <1>9 DEF UsageOpOn, Reloading
  <2>2. ~drift[k]
    BY <1>3, <1>7, <1>9 DEF TypeOK
  <2>3. QED BY <1>4, <1>6, <2>1, <2>2, Uninvolved
<1>10. QED BY <1>8, <1>9

LEMMA ResetCounts ==
  ASSUME TypeOK, TypeOK', Counts, Locals, NEW a \in Admins, UnkillReset(a) \/ UnkillFail(a)
  PROVE  CountsNext
<1> DEFINE key == op[a].key
<1>1. key \in Keys /\ op[a].period \in Months /\ op[a].reset
  BY DEF TypeOK, Operation, Locals, UnkillReset, UnkillFail
<1>2. /\ pc[a] = "reset" /\ UNCHANGED <<month, cache, batch, drained, drift>>
      /\ UsageOpOn(a, key) /\ ~Reloading(a)
  BY <1>1 DEF UnkillReset, UnkillFail, store, meter, UsageOpOn, Reloading
<1>3. SUFFICES ASSUME NEW k \in Keys, ~drift'[k] PROVE Counted(k)'
  BY DEF CountsNext
<1>4. Counted(k) /\ ~drift[k] /\ SameCopy(k)
  BY <1>2, <1>3 DEF Counts, SameCopy
<1>5. UsageOpOn(a, k) <=> k = key
  BY <1>2 DEF UsageOpOn
<1>6. CASE UnkillReset(a)
  <2>1. /\ pc' = [pc EXCEPT ![a] = "zero"] /\ op' = op
        /\ usage' = [usage EXCEPT ![op[a].period][key] = 0]
    BY <1>6 DEF UnkillReset, ResetUsagePeriod
  <2>2. Moves(a) /\ pc'[a] = "zero"
    BY <1>2, <2>1, OperatorMoves
  <2>3. CASE k = key
    <3>1. /\ ~Flushing(k) /\ UPhase(a, k) /\ \A b \in Admins \ {a} : ~UsageOpOn(b, k)
      BY <1>2, <1>4, <2>3, SoleOn
    <3>2. op[a].period = month
      BY <3>1 DEF UPhase
    <3>3. usage'[month][k] = 0
      BY <1>1, <2>1, <2>3, <3>2 DEF TypeOK
    <3>4. ~Flushing(k)' /\ UPhase(a, k)'
      BY <1>2, <2>1, <2>2, <3>1, <3>2, <3>3 DEF UPhase, Reloading, Moves
    <3>5. UsageOpOn(a, k)'
      BY <1>1, <2>1, <2>2, <2>3 DEF UsageOpOn
    <3>6. QED BY <2>2, <3>1, <3>4, <3>5, Sole DEF Moves
  <2>4. CASE k # key
    <3>1. SameRow(k)
      BY <1>1, <1>2, <2>1, <2>4 DEF SameRow, TypeOK
    <3>2. ~UsageOpOn(a, k)'
      BY <2>1, <2>2, <2>4 DEF UsageOpOn, Reloading
    <3>3. QED BY <1>4, <1>5, <2>2, <2>4, <3>1, <3>2, Uninvolved
  <2>5. QED BY <2>3, <2>4
<1>7. CASE UnkillFail(a)
  <2> DEFINE o == [op[a] EXCEPT !.reset = FALSE, !.period = 0]
  <2>1. pc' = [pc EXCEPT ![a] = "idle"] /\ op' = [op EXCEPT ![a] = o] /\ usage' = usage
    BY <1>7 DEF UnkillFail, store
  <2> HIDE DEF o
  <2>2. Moves(a) /\ pc'[a] = "idle"
    BY <1>2, <2>1, OperatorMoves
  <2>3. ~UsageOpOn(a, k)'
    BY <2>2 DEF UsageOpOn, Reloading
  <2>4. SameRow(k)
    BY <1>2, <2>1 DEF SameRow
  <2>5. CASE k = key
    <3>1. UPhase(a, k) /\ \A b \in Admins \ {a} : ~UsageOpOn(b, k)
      BY <1>2, <1>4, <2>5, SoleOn
    <3>2. Level(k)
      BY <1>2, <3>1 DEF UPhase
    <3>3. Level(k)'
      BY <1>4, <2>2, <2>4, <3>2, LevelSame DEF SameCounts, Moves
    <3>4. QED BY <2>2, <2>3, <3>1, <3>3, Sole DEF Moves
  <2>6. CASE k # key
    BY <1>4, <1>5, <2>2, <2>3, <2>4, <2>6, Uninvolved
  <2>7. QED BY <2>5, <2>6
<1>8. QED BY <1>6, <1>7

(* The copy's counter is zeroed.                                            *)
LEMMA ZeroCounts ==
  ASSUME TypeOK, TypeOK', Counts, Locals, NEW a \in Admins, UnkillZero(a) \/ UnkillCache(a)
  PROVE  CountsNext
<1> DEFINE key == op[a].key
           z == [cache[key] EXCEPT !.used = 0]
           zr == [cache[key] EXCEPT !.killed = FALSE, !.used = 0, !.usedBy = NoUse]
           kr == [cache[key] EXCEPT !.killed = FALSE]
<1>1. key \in Keys /\ cache[key] \in CachedKey
  BY DEF TypeOK, Operation
<1>2. /\ z.known = cache[key].known /\ z.used = 0
      /\ zr.known = cache[key].known /\ zr.used = 0
      /\ kr.known = cache[key].known /\ kr.used = cache[key].used
  BY <1>1 DEF CachedKey
<1>3. /\ UNCHANGED <<month, usage, batch, drained, drift, op>>
      /\ \/ /\ pc[a] = "zero" /\ pc' = [pc EXCEPT ![a] = "revive"]
            /\ cache' = [cache EXCEPT ![key] = z]
         \/ /\ pc[a] = "revive" /\ pc' = [pc EXCEPT ![a] = "clear"]
            /\ cache' = [cache EXCEPT ![key] = IF op[a].reset THEN zr ELSE kr]
  BY DEF UnkillZero, UnkillCache, store, meter
<1> HIDE DEF z, zr, kr
<1>4. Moves(a) /\ pc'[a] \in {"revive", "clear"}
      /\ (pc[a] = "zero" => pc'[a] = "revive") /\ (pc[a] = "revive" => pc'[a] = "clear")
  BY <1>3, OperatorMoves
<1>5. /\ \A k \in Keys \ {key} : cache'[k] = cache[k]
      /\ cache'[key].known = cache[key].known
      /\ op[a].reset => cache'[key].used = 0
      /\ ~op[a].reset => cache'[key].used = cache[key].used
  BY <1>1, <1>2, <1>3 DEF TypeOK, Locals
<1>6. ~Reloading(a) /\ ~Reloading(a)'
  BY <1>3, <1>4 DEF Reloading
<1>7. SUFFICES ASSUME NEW k \in Keys, ~drift'[k] PROVE Counted(k)'
  BY DEF CountsNext
<1>8. Counted(k) /\ ~drift[k] /\ SameRow(k)
  BY <1>3, <1>7 DEF Counts, SameRow
<1>9. CASE UsageOpOn(a, k)
  <2>1. k = key /\ op[a].reset
    BY <1>6, <1>9 DEF UsageOpOn
  <2>2. ~Flushing(k) /\ UPhase(a, k) /\ \A b \in Admins \ {a} : ~UsageOpOn(b, k)
    BY <1>8, <1>9, SoleOn
  <2>3. usage[month][k] = 0 /\ op[a].period = month
    BY <1>3, <2>2 DEF UPhase
  <2>4. ~Flushing(k)' /\ usage'[month'][k] = 0 /\ cache'[k].used = 0
    BY <1>4, <1>5, <1>8, <2>1, <2>2, <2>3 DEF Moves, SameRow
  <2>5. Level(k)'
    BY <2>4, LevelClear
  <2>6. UPhase(a, k)'
    BY <1>3, <1>6, <2>3, <2>4, <2>5 DEF UPhase
  <2>7. QED BY <1>4, <2>2, <2>4, <2>5, <2>6, Sole DEF Moves
<1>10. CASE ~UsageOpOn(a, k)
  <2>1. k # key \/ ~op[a].reset
    BY <1>3, <1>10 DEF UsageOpOn
  <2>2. SameCopy(k)
    BY <1>5, <2>1 DEF SameCopy
  <2>3. ~UsageOpOn(a, k)'
    BY <1>3, <1>6, <2>1 DEF UsageOpOn
  <2>4. QED BY <1>4, <1>8, <1>10, <2>2, <2>3, Uninvolved
<1>11. QED BY <1>9, <1>10

(* A key that nobody can have used is not being flushed.                    *)
LEMMA NotYetIdle ==
  ASSUME MeterInv, UsageInv, NEW k \in Keys, NotYet(k)
  PROVE  ~Flushing(k) /\ usage[month][k] = 0
<1>1. /\ \A r \in Reqs : KeyOf[r] = k => pc[r] \in {"new", "refused"}
      /\ \A m \in Months : usage[m][k] = 0
  BY DEF UsageInv, Early
<1>2. drained \subseteq Finished /\ month \in Months
  BY DEF UsageInv, MeterInv, MeteredOnce, TypeOK
<1>3. QED BY <1>1, <1>2 DEF Flushing, Finished

LEMMA PutKeyCounts ==
  ASSUME MeterInv, UsageInv, TypeOK', NEW a \in Admins, PutKey(a)
  PROVE  CountsNext
<1> DEFINE key == op[a].key
<1>1. TypeOK /\ Counts /\ key \in Keys
  BY DEF MeterInv, UsageInv, TypeOK, Operation
<1>2. /\ pc[a] = "put" /\ pc' = [pc EXCEPT ![a] = "idle"]
      /\ UNCHANGED <<month, usage, batch, drained, drift, op>>
      /\ cache' = [cache EXCEPT ![key] = Fresh]
  BY DEF PutKey, store, meter
<1>3. Moves(a) /\ pc'[a] = "idle"
  BY <1>1, <1>2, OperatorMoves
<1>4. SUFFICES ASSUME NEW k \in Keys, ~drift'[k] PROVE Counted(k)'
  BY DEF CountsNext
<1>5. Counted(k) /\ ~drift[k] /\ SameRow(k) /\ ~UsageOpOn(a, k) /\ ~UsageOpOn(a, k)'
  BY <1>1, <1>2, <1>3, <1>4 DEF Counts, SameRow, UsageOpOn, Reloading
<1>6. CASE k = key
  <2>1. ~Flushing(k) /\ usage[month][k] = 0
    BY <1>2, <1>6, NotYetIdle DEF NotYet
  <2>2. cache'[k].used = 0
    BY <1>1, <1>2, <1>6 DEF TypeOK, Fresh, Absent
  <2>3. Level(k)'
    BY <1>2, <1>3, <2>1, <2>2, LevelClear DEF Moves
  <2>4. Apart(k)
    BY <1>3, <1>5 DEF Apart, Moves
  <2>5. QED BY <1>3, <1>5, <2>3, <2>4, CountedStays DEF Moves
<1>7. CASE k # key
  <2>1. SameCopy(k)
    BY <1>1, <1>2, <1>7 DEF SameCopy, TypeOK
  <2>2. QED BY <1>1, <1>3, <1>5, <2>1, Uninvolved
<1>8. QED BY <1>6, <1>7

LEMMA ReloadListCounts ==
  ASSUME TypeOK, TypeOK', Counts, NEW a \in Admins, ReloadList(a)
  PROVE  CountsNext
<1> DEFINE snap == [k \in Keys |->
                      IF Exists(k) THEN [Fresh EXCEPT !.killed = (row[k] = "killed")]
                                   ELSE Absent]
           listed == {k \in Keys : Exists(k)}
           o == [op[a] EXCEPT !.period = month, !.todo = listed, !.snap = snap]
<1>1. op[a] \in Operation
  BY DEF TypeOK
<1>2. o.period = month /\ o.todo = listed /\ o.snap = snap
  BY <1>1 DEF Operation
<1>3. \A k \in Keys : snap[k].known => k \in listed
  BY DEF Absent
<1>4. /\ pc' = [pc EXCEPT ![a] = "read"] /\ op' = [op EXCEPT ![a] = o]
      /\ UNCHANGED <<month, usage, cache, batch, drained>>
      /\ drift' = [k \in Keys |-> Flushing(k) \/ \E b \in Admins : UsageOpOn(b, k)]
  BY DEF ReloadList, store, meter
<1> HIDE DEF o, snap, listed
<1>5. Moves(a) /\ pc'[a] = "read" /\ op'[a] = o
  BY <1>4, OperatorMoves DEF TypeOK
<1>6. SUFFICES ASSUME NEW k \in Keys, ~drift'[k] PROVE Counted(k)'
  BY DEF CountsNext
<1>7. ~Flushing(k) /\ \A b \in Admins : ~UsageOpOn(b, k)
  BY <1>4, <1>6
<1>8. UsageOpOn(a, k)' /\ ~Flushing(k)'
  BY <1>5, <1>7 DEF UsageOpOn, Reloading, Moves
<1>9. UPhase(a, k)'
  BY <1>2, <1>3, <1>4, <1>5 DEF UPhase, ReadBy, Reloading
<1>10. QED BY <1>5, <1>7, <1>8, <1>9, Sole DEF Moves

LEMMA ReloadUsageCounts ==
  ASSUME TypeOK, TypeOK', Counts, NEW a \in Admins, NEW key \in Keys, ReloadUsage(a, key)
  PROVE  CountsNext
<1> DEFINE n == usage[op[a].period][key]
           c == [op[a].snap[key] EXCEPT !.used = n]
           s == [op[a].snap EXCEPT ![key] = c]
           o == [op[a] EXCEPT !.key = key, !.snap = s]
<1>1. op[a] \in Operation /\ op[a].snap \in [Keys -> CachedKey]
  BY DEF TypeOK, Operation
<1>2. c.used = n
  BY <1>1 DEF CachedKey
<1>3. /\ pc[a] = "read" /\ pc' = [pc EXCEPT ![a] = "readby"]
      /\ op' = [op EXCEPT ![a] = o]
      /\ UNCHANGED <<month, usage, cache, batch, drained, drift>>
  BY DEF ReloadUsage, store, meter
<1> HIDE DEF c
<1>4. s[key] = c /\ \A k \in Keys \ {key} : s[k] = op[a].snap[k]
  BY <1>1
<1> HIDE DEF s
<1>5. o.key = key /\ o.snap = s /\ o.todo = op[a].todo /\ o.period = op[a].period
  BY <1>1 DEF Operation
<1> HIDE DEF o
<1>6. Moves(a) /\ pc'[a] = "readby" /\ op'[a] = o
  BY <1>3, OperatorMoves DEF TypeOK
<1>7. SUFFICES ASSUME NEW k \in Keys, ~drift'[k] PROVE Counted(k)'
  BY DEF CountsNext
<1>8. UsageOpOn(a, k) /\ UsageOpOn(a, k)' /\ Counted(k)
  BY <1>3, <1>6, <1>7 DEF UsageOpOn, Reloading, Counts
<1>9. ~Flushing(k) /\ UPhase(a, k) /\ \A b \in Admins \ {a} : ~UsageOpOn(b, k)
  BY <1>8, SoleOn
<1>10. op[a].period = month
  BY <1>9 DEF UPhase
<1>11. (o.snap[k].known /\ (k \notin o.todo \/ k = key)) => o.snap[k].used = usage[month][k]
  <2>1. CASE k = key
    BY <1>2, <1>4, <1>5, <1>10, <2>1
  <2>2. CASE k # key
    BY <1>3, <1>4, <1>5, <1>9, <2>2 DEF UPhase, ReadBy, Reloading
  <2>3. QED BY <2>1, <2>2
<1>12. UPhase(a, k)'
  BY <1>3, <1>5, <1>6, <1>10, <1>11 DEF UPhase, ReadBy, Reloading
<1>13. QED BY <1>6, <1>8, <1>9, <1>12, Sole DEF Moves

LEMMA ReloadUsageByCounts ==
  ASSUME TypeOK, TypeOK', Counts, NEW a \in Admins, ReloadUsageBy(a)
  PROVE  CountsNext
<1> DEFINE key == op[a].key
           b0 == usageBy[op[a].period][key]
           c == [op[a].snap[key] EXCEPT !.usedBy = b0]
           s == [op[a].snap EXCEPT ![key] = c]
           o == [op[a] EXCEPT !.todo = op[a].todo \ {key}, !.snap = s]
<1>1. op[a] \in Operation /\ op[a].snap \in [Keys -> CachedKey] /\ key \in Keys
  BY DEF TypeOK, Operation
<1>2. c.used = op[a].snap[key].used /\ c.known = op[a].snap[key].known
  BY <1>1 DEF CachedKey
<1>3. /\ pc[a] = "readby" /\ pc' = [pc EXCEPT ![a] = "read"]
      /\ op' = [op EXCEPT ![a] = o]
      /\ UNCHANGED <<month, usage, cache, batch, drained, drift>>
  BY DEF ReloadUsageBy, store, meter
<1> HIDE DEF c
<1>4. \A k \in Keys : /\ s[k].known = op[a].snap[k].known
                      /\ s[k].used = op[a].snap[k].used
  BY <1>1, <1>2
<1> HIDE DEF s
<1>5. o.key = key /\ o.snap = s /\ o.todo = op[a].todo \ {key} /\ o.period = op[a].period
  BY <1>1 DEF Operation
<1> HIDE DEF o
<1>6. Moves(a) /\ pc'[a] = "read" /\ op'[a] = o
  BY <1>3, OperatorMoves DEF TypeOK
<1>7. SUFFICES ASSUME NEW k \in Keys, ~drift'[k] PROVE Counted(k)'
  BY DEF CountsNext
<1>8. UsageOpOn(a, k) /\ UsageOpOn(a, k)' /\ Counted(k)
  BY <1>3, <1>6, <1>7 DEF UsageOpOn, Reloading, Counts
<1>9. ~Flushing(k) /\ UPhase(a, k) /\ \A b \in Admins \ {a} : ~UsageOpOn(b, k)
  BY <1>8, SoleOn
<1>10. (o.snap[k].known /\ k \notin o.todo) => o.snap[k].used = usage[month][k]
  BY <1>3, <1>4, <1>5, <1>9 DEF UPhase, ReadBy, Reloading
<1>11. UPhase(a, k)'
  BY <1>3, <1>5, <1>6, <1>9, <1>10 DEF UPhase, ReadBy, Reloading
<1>12. QED BY <1>6, <1>8, <1>9, <1>11, Sole DEF Moves

LEMMA ReloadEndCounts ==
  ASSUME TypeOK, TypeOK', Counts, NEW a \in Admins, ReloadSwap(a) \/ ReloadFail(a)
  PROVE  CountsNext
<1>1. CASE ReloadFail(a)
  BY <1>1 DEF ReloadFail, CountsNext
<1>2. CASE ReloadSwap(a)
  <2> DEFINE o == NoOp(op[a].key)
  <2>1. /\ pc[a] = "read" /\ op[a].todo = {} /\ pc' = [pc EXCEPT ![a] = "idle"]
        /\ op' = [op EXCEPT ![a] = o] /\ cache' = op[a].snap
        /\ UNCHANGED <<month, usage, batch, drained, drift>>
    BY <1>2 DEF ReloadSwap, store, meter
  <2> HIDE DEF o
  <2>2. Moves(a) /\ pc'[a] = "idle"
    BY <2>1, OperatorMoves
  <2>3. SUFFICES ASSUME NEW k \in Keys, ~drift'[k] PROVE Counted(k)'
    BY DEF CountsNext
  <2>4. UsageOpOn(a, k) /\ ~UsageOpOn(a, k)' /\ Counted(k)
    BY <2>1, <2>2, <2>3 DEF UsageOpOn, Reloading, Counts
  <2>5. ~Flushing(k) /\ UPhase(a, k) /\ \A b \in Admins \ {a} : ~UsageOpOn(b, k)
    BY <2>4, SoleOn
  <2>6. cache'[k].known => cache'[k].used = usage[month][k]
    BY <2>1, <2>5 DEF UPhase, ReadBy, Reloading
  <2>7. Level(k)'
    BY <2>1, <2>2, <2>5, <2>6, LevelClear DEF Moves
  <2>8. QED BY <2>2, <2>4, <2>5, <2>7, Sole DEF Moves
<1>3. QED BY <1>1, <1>2

LEMMA StepCounts ==
  ASSUME MeterInv, UsageInv, TypeOK', [Next]_vars
  PROVE  CountsNext
<1>1. TypeOK /\ Counts /\ Locals
  BY DEF MeterInv, UsageInv
<1>2. ASSUME NEW r \in Reqs, Gate(r) \/ Metering(r) PROVE CountsNext
  BY <1>1, <1>2, GateCounts, MeteringCounts
<1>3. ASSUME NEW a \in Admins, Operate(a) PROVE CountsNext
  <2>1. ASSUME NEW k \in Keys, NEW reset \in BOOLEAN, Unkill(a, k, reset) PROVE CountsNext
    BY <1>1, <2>1, UnkillCounts, KeyOpCounts
  <2>2. ASSUME NEW k \in Keys, Kill(a, k) \/ CreateKey(a, k) \/ DeleteKey(a, k) PROVE CountsNext
    BY <1>1, <2>2, KeyOpCounts
  <2>3. ASSUME NEW k \in Keys, ReloadUsage(a, k) PROVE CountsNext
    BY <1>1, <2>3, ReloadUsageCounts
  <2>4. CASE UnkillReset(a) \/ UnkillFail(a) \/ UnkillZero(a) \/ UnkillCache(a) \/ UnkillClear(a)
    BY <1>1, <2>4, ResetCounts, ZeroCounts, KeyOpCounts
  <2>5. CASE PutKey(a)
    BY <2>5, PutKeyCounts
  <2>6. CASE ReloadList(a) \/ ReloadUsageBy(a) \/ ReloadSwap(a) \/ ReloadFail(a)
    BY <1>1, <2>6, ReloadListCounts, ReloadUsageByCounts, ReloadEndCounts
  <2>7. QED BY <1>3, <2>1, <2>2, <2>3, <2>4, <2>5, <2>6 DEF Operate
<1>4. ASSUME NEW p \in Procs, KillCache(p) PROVE CountsNext
  BY <1>1, <1>4, KillCacheCounts
<1>5. CASE Environment \/ UNCHANGED vars
  BY <1>1, <1>5, EnvironmentCounts
<1>6. QED BY <1>2, <1>3, <1>4, <1>5 DEF Next

(***************************************************************************)
(* What nobody can have used, and the operators' locals.                   *)
(***************************************************************************)
EarlyNext == \A k \in Keys : Early(k)'

(* Rows and copy: no key becomes unused, none that has no row gets known.   *)
Unseen(k) == ~cache'[k].known /\ \A a \in Admins : ~op'[a].snap[k].known

LEMMA EarlyStays ==
  ASSUME NEW k \in Keys, Early(k), NotYet(k)' => NotYet(k),
         NotYet(k) => \A r \in Reqs : KeyOf[r] = k => pc'[r] \in {"new", "refused"},
         NotYet(k) => \A m \in Months : usage'[m][k] = 0,
         row'[k] = "none" => Unseen(k)
  PROVE  Early(k)'
BY DEF Early, Unseen

(* A request's step: it has no key that nobody can have used, unless it is  *)
(* the lookup, which refuses such a key.                                    *)
LEMMA GateEarly ==
  ASSUME TypeOK, UsageInv, NEW r \in Reqs, Gate(r)
  PROVE  EarlyNext
<1>1. /\ UNCHANGED <<usage, cache, op>>
      /\ \E v \in ReqPC : pc' = [pc EXCEPT ![r] = v]
      /\ \/ row' = row
         \/ row' = [row EXCEPT ![KeyOf[r]] = "killed"]
  BY DEF Gate, Lookup, RefuseKilled, PassKillSwitch, TripAutoKill, PassLoopGuard, RefuseBudget,
         PassBudget, RefuseRate, PassRate, Serve, Unmetered, AutoKill, AutoKillFail, SetKeyKilled,
         store, ReqPC
<1>2. OperatorsStay /\ \A q \in Reqs \ {r} : pc'[q] = pc[q]
  BY <1>1, RequestStays
<1>3. ASSUME NotYet(KeyOf[r]) PROVE pc'[r] = "refused"
  <2>1. pc[r] \in {"new", "refused"} /\ KeyOf[r] \in Keys
    BY <1>3, GateAssumption DEF UsageInv, Early
  <2>2. Lookup(r)
    BY <2>1 DEF Gate, RefuseKilled, PassKillSwitch, TripAutoKill, PassLoopGuard, RefuseBudget,
                PassBudget, RefuseRate, PassRate, Serve, Unmetered, AutoKill, AutoKillFail
  <2>3. ~cache[KeyOf[r]].known
    BY <1>3, <2>1, <2>2 DEF Lookup, Issued, NotYet, UsageInv, Early
  <2>4. pc' = [pc EXCEPT ![r] = "refused"]
    BY <2>2, <2>3 DEF Lookup
  <2>5. QED BY <2>4 DEF TypeOK, Procs
<1>4. SUFFICES ASSUME NEW k \in Keys PROVE Early(k)'
  BY DEF EarlyNext
<1>5. Early(k)
  BY DEF UsageInv
<1>6. row'[k] = "none" => row[k] = "none"
  BY <1>1, GateAssumption DEF TypeOK
<1>7. NotYet(k)' => NotYet(k)
  BY <1>2, <1>6 DEF NotYet, OperatorsStay
<1>8. NotYet(k) => \A q \in Reqs : KeyOf[q] = k => pc'[q] \in {"new", "refused"}
  BY <1>2, <1>3, <1>5 DEF Early
<1>9. row'[k] = "none" => Unseen(k)
  BY <1>1, <1>5, <1>6 DEF Early, Unseen
<1>10. NotYet(k) => \A m \in Months : usage'[m][k] = 0
  BY <1>1, <1>5 DEF Early
<1>11. QED BY <1>5, <1>7, <1>8, <1>9, <1>10, EarlyStays

LEMMA MeteringEarly ==
  ASSUME TypeOK, UsageInv, NEW r \in Reqs, Metering(r)
  PROVE  EarlyNext
<1> DEFINE key == KeyOf[r]
<1>1. key \in Keys
  BY GateAssumption
<1>2. /\ row' = row /\ op' = op
      /\ \E v \in ReqPC : pc' = [pc EXCEPT ![r] = v]
      /\ pc[r] \notin {"new", "refused"}
  BY DEF Metering, RecordLater, RecordFlush, FlushStore, FlushFail, FlushCache, Returned, store, ReqPC
<1>3. ~NotYet(key)
  BY <1>1, <1>2 DEF UsageInv, Early
<1>4. OperatorsStay /\ \A q \in Reqs \ {r} : pc'[q] = pc[q]
  BY <1>2, RequestStays
<1>5. \A m \in Months, k \in Keys \ {key} : usage'[m][k] = usage[m][k]
  <2>1. CASE FlushStore(r)
    BY <2>1 DEF FlushStore, IncrUsage, TypeOK
  <2>2. CASE usage' = usage
    BY <2>2
  <2>3. QED BY <2>1, <2>2 DEF Metering, RecordLater, RecordFlush, FlushFail, FlushCache, store
<1>6. \A k \in Keys \ {key} : cache'[k] = cache[k]
  <2>1. CASE FlushCache(r)
    BY <2>1 DEF FlushCache, TypeOK
  <2>2. CASE cache' = cache
    BY <2>2
  <2>3. QED BY <2>1, <2>2 DEF Metering, RecordLater, RecordFlush, FlushFail, FlushStore
<1>7. SUFFICES ASSUME NEW k \in Keys PROVE Early(k)'
  BY DEF EarlyNext
<1>8. Early(k) /\ (NotYet(k)' <=> NotYet(k))
  BY <1>2, <1>4 DEF UsageInv, NotYet, OperatorsStay
<1>9. CASE k = key
  BY <1>3, <1>8, <1>9, <1>2 DEF Early, NotYet
<1>10. CASE k # key
  <2>1. NotYet(k) => \A q \in Reqs : KeyOf[q] = k => pc'[q] \in {"new", "refused"}
    BY <1>4, <1>8, <1>10 DEF Early
  <2>2. NotYet(k) => \A m \in Months : usage'[m][k] = 0
    BY <1>5, <1>8, <1>10 DEF Early
  <2>3. row'[k] = "none" => Unseen(k)
    BY <1>2, <1>6, <1>8, <1>10 DEF Early, Unseen
  <2>4. QED BY <1>8, <2>1, <2>2, <2>3, EarlyStays
<1>11. QED BY <1>9, <1>10

LEMMA KillCacheEarly ==
  ASSUME TypeOK, UsageInv, NEW p \in Procs, KillCache(p)
  PROVE  EarlyNext
<1> DEFINE key == IF p \in Reqs THEN KeyOf[p] ELSE op[p].key
           c == [cache[key] EXCEPT !.killed = cache[key].known]
<1>1. key \in Keys
  BY GateAssumption DEF Procs, TypeOK, Operation
<1>2. /\ UNCHANGED <<row, usage, op>> /\ pc[p] = "killcache"
      /\ pc' = [pc EXCEPT ![p] = IF p \in Reqs THEN "refused" ELSE "idle"]
      /\ cache' = [cache EXCEPT ![key] = c]
  BY DEF KillCache, store
<1>3. cache[key] \in CachedKey
  BY <1>1 DEF TypeOK
<1> HIDE DEF key
<1>4. c.known = cache[key].known
  BY <1>3 DEF CachedKey
<1> HIDE DEF c
<1>5. \A k \in Keys : cache'[k].known = cache[k].known
  BY <1>2, <1>4 DEF TypeOK
<1>6. /\ \A r \in Reqs : pc[r] \in {"new", "refused"} => pc'[r] \in {"new", "refused"}
      /\ \A a \in Admins : pc'[a] = "put" => pc[a] = "put"
  BY <1>2 DEF TypeOK, Procs
<1>7. SUFFICES ASSUME NEW k \in Keys PROVE Early(k)'
  BY DEF EarlyNext
<1>8. Early(k) /\ (NotYet(k)' => NotYet(k))
  BY <1>2, <1>6 DEF UsageInv, NotYet
<1>9. QED BY <1>2, <1>5, <1>6, <1>8, EarlyStays DEF Early, Unseen

(* Reload's snapshots know no key that has no row.                          *)
LEMMA SnapsUnseen ==
  ASSUME TypeOK, NEW a \in Admins, Operate(a), NEW k \in Keys,
         row[k] = "none", ~op[a].snap[k].known
  PROVE  ~op'[a].snap[k].known
<1>1. /\ op \in [Admins -> Operation] /\ op[a] \in Operation
      /\ op[a].snap \in [Keys -> CachedKey] /\ op[a].key \in Keys
  BY DEF TypeOK, Operation
<1>2. ASSUME op' = op PROVE ~op'[a].snap[k].known
  BY <1>2
<1>3. ASSUME NEW o, op' = [op EXCEPT ![a] = o], ~o.snap[k].known
      PROVE  ~op'[a].snap[k].known
  BY <1>1, <1>3
<1>4. ASSUME NEW x \in Keys, NEW b \in BOOLEAN, NEW m,
             \/ op' = [op EXCEPT ![a] = [op[a] EXCEPT !.key = x]]
             \/ op' = [op EXCEPT ![a] = [op[a] EXCEPT !.key = x, !.reset = b, !.period = m]]
             \/ op' = [op EXCEPT ![a] = [op[a] EXCEPT !.reset = b, !.period = m]]
      PROVE  ~op'[a].snap[k].known
  <2> DEFINE o1 == [op[a] EXCEPT !.key = x]
             o2 == [op[a] EXCEPT !.key = x, !.reset = b, !.period = m]
             o3 == [op[a] EXCEPT !.reset = b, !.period = m]
  <2>1. o1.snap = op[a].snap /\ o2.snap = op[a].snap /\ o3.snap = op[a].snap
    BY <1>1 DEF Operation
  <2>2. op' = [op EXCEPT ![a] = o1] \/ op' = [op EXCEPT ![a] = o2] \/ op' = [op EXCEPT ![a] = o3]
    BY <1>4
  <2> HIDE DEF o1, o2, o3
  <2>3. QED BY <1>3, <2>1, <2>2
<1>5. ASSUME NEW x \in Keys, Kill(a, x) \/ CreateKey(a, x) \/ DeleteKey(a, x)
      PROVE  ~op'[a].snap[k].known
  BY <1>4, <1>5 DEF Kill, CreateKey, DeleteKey
<1>6. ASSUME NEW x \in Keys, NEW reset \in BOOLEAN, Unkill(a, x, reset)
      PROVE  ~op'[a].snap[k].known
  <2> DEFINE m == IF reset THEN month ELSE 0
  <2>1. op' = [op EXCEPT ![a] = [op[a] EXCEPT !.key = x, !.reset = reset, !.period = m]]
    BY <1>6 DEF Unkill
  <2> HIDE DEF m
  <2>2. QED BY <1>4, <2>1
<1>7. CASE UnkillReset(a) \/ UnkillZero(a) \/ UnkillCache(a) \/ PutKey(a)
  BY <1>2, <1>7 DEF UnkillReset, UnkillZero, UnkillCache, PutKey
<1>8. CASE UnkillFail(a) \/ UnkillClear(a)
  <2>1. op' = [op EXCEPT ![a] = [op[a] EXCEPT !.reset = FALSE, !.period = 0]]
    BY <1>8 DEF UnkillFail, UnkillClear
  <2>2. QED BY <1>1, <1>4, <2>1
<1>9. CASE ReloadList(a)
  <2> DEFINE snap == [x \in Keys |->
                        IF Exists(x) THEN [Fresh EXCEPT !.killed = (row[x] = "killed")]
                                     ELSE Absent]
             o == [op[a] EXCEPT !.period = month, !.todo = {x \in Keys : Exists(x)},
                                !.snap = snap]
  <2>1. o.snap = snap
    BY <1>1 DEF Operation
  <2>2. ~snap[k].known
    BY DEF Exists, Absent
  <2>3. op' = [op EXCEPT ![a] = o]
    BY <1>9 DEF ReloadList
  <2> HIDE DEF o, snap
  <2>4. QED BY <1>3, <2>1, <2>2, <2>3
<1>10. ASSUME NEW x \in Keys, ReloadUsage(a, x) PROVE ~op'[a].snap[k].known
  <2> DEFINE n == usage[op[a].period][x]
             c == [op[a].snap[x] EXCEPT !.used = n]
             s == [op[a].snap EXCEPT ![x] = c]
             o == [op[a] EXCEPT !.key = x, !.snap = s]
  <2>1. c.known = op[a].snap[x].known
    BY <1>1 DEF CachedKey
  <2>2. op' = [op EXCEPT ![a] = o]
    BY <1>10 DEF ReloadUsage
  <2> HIDE DEF c
  <2>3. s[k].known = op[a].snap[k].known
    BY <1>1, <2>1
  <2> HIDE DEF s
  <2>4. o.snap = s
    BY <1>1 DEF Operation
  <2> HIDE DEF o
  <2>5. QED BY <1>3, <2>2, <2>3, <2>4
<1>11. CASE ReloadUsageBy(a)
  <2> DEFINE x == op[a].key
             b == usageBy[op[a].period][x]
             c == [op[a].snap[x] EXCEPT !.usedBy = b]
             s == [op[a].snap EXCEPT ![x] = c]
             o == [op[a] EXCEPT !.todo = op[a].todo \ {x}, !.snap = s]
  <2>1. c.known = op[a].snap[x].known
    BY <1>1 DEF CachedKey
  <2>2. op' = [op EXCEPT ![a] = o]
    BY <1>11 DEF ReloadUsageBy
  <2> HIDE DEF c
  <2>3. s[k].known = op[a].snap[k].known
    BY <1>1, <2>1
  <2> HIDE DEF s
  <2>4. o.snap = s
    BY <1>1 DEF Operation
  <2> HIDE DEF o
  <2>5. QED BY <1>3, <2>2, <2>3, <2>4
<1>12. CASE ReloadSwap(a) \/ ReloadFail(a)
  <2> DEFINE o == NoOp(op[a].key)
  <2>1. ~o.snap[k].known
    BY DEF NoOp, Absent
  <2>2. op' = [op EXCEPT ![a] = o]
    BY <1>12 DEF ReloadSwap, ReloadFail
  <2> HIDE DEF o
  <2>3. QED BY <1>3, <2>1, <2>2
<1>13. QED
  BY <1>5, <1>6, <1>7, <1>8, <1>9, <1>10, <1>11, <1>12 DEF Operate

(* What an operator's step does to the rows, the usage and the others.      *)
LEMMA OperateFrame ==
  ASSUME TypeOK, NEW a \in Admins, Operate(a)
  PROVE  /\ \A r \in Reqs : pc'[r] = pc[r]
         /\ \A b \in Admins \ {a} : pc'[b] = pc[b] /\ op'[b] = op[b]
         /\ \A k \in Keys : row'[k] = "none" => row[k] = "none"
         /\ \A k \in Keys, m \in Months : usage'[m][k] \in {usage[m][k], 0}
         /\ UNCHANGED <<stored, drained>>
<1>1. /\ \E v : pc' = [pc EXCEPT ![a] = v]
      /\ op' = op \/ \E o : op' = [op EXCEPT ![a] = o]
      /\ row' = row \/ \E k \in Keys, s \in {"live", "killed", "gone"} : row' = [row EXCEPT ![k] = s]
      /\ usage' = usage \/ usage' = [usage EXCEPT ![op[a].period][op[a].key] = 0]
      /\ UNCHANGED <<stored, drained>>
  <2>1. CASE \E k \in Keys : \/ Kill(a, k) \/ CreateKey(a, k) \/ DeleteKey(a, k)
                             \/ \E reset \in BOOLEAN : Unkill(a, k, reset)
    <3>1. PICK k \in Keys : \/ Kill(a, k) \/ CreateKey(a, k) \/ DeleteKey(a, k)
                           \/ \E reset \in BOOLEAN : Unkill(a, k, reset)
      BY <2>1
    <3>2. \E v : pc' = [pc EXCEPT ![a] = v]
      BY <3>1 DEF Kill, CreateKey, DeleteKey, Unkill
    <3>3. \E o : op' = [op EXCEPT ![a] = o]
      BY <3>1 DEF Kill, CreateKey, DeleteKey, Unkill
    <3>4. \E s \in {"live", "killed", "gone"} : row' = [row EXCEPT ![k] = s]
      BY <3>1 DEF Kill, CreateKey, DeleteKey, Unkill, SetKeyKilled
    <3>5. usage' = usage /\ UNCHANGED <<stored, drained>>
      BY <3>1 DEF Kill, CreateKey, DeleteKey, Unkill, meter
    <3>6. QED BY <3>2, <3>3, <3>4, <3>5
  <2>2. CASE \/ UnkillReset(a) \/ UnkillFail(a) \/ UnkillZero(a) \/ UnkillCache(a)
             \/ UnkillClear(a) \/ PutKey(a)
    BY <2>2 DEF UnkillReset, ResetUsagePeriod, UnkillFail, UnkillZero, UnkillCache, UnkillClear,
                PutKey, store, meter
  <2>3. CASE \/ ReloadList(a) \/ ReloadUsageBy(a) \/ ReloadSwap(a) \/ ReloadFail(a)
             \/ \E k \in Keys : ReloadUsage(a, k)
    BY <2>3 DEF ReloadList, ReloadUsageBy, ReloadSwap, ReloadFail, ReloadUsage, store, meter
  <2>4. QED BY <2>1, <2>2, <2>3 DEF Operate
<1>2. \A r \in Reqs : pc'[r] = pc[r]
  BY <1>1, GateAssumption DEF TypeOK, Procs
<1>3. \A b \in Admins \ {a} : pc'[b] = pc[b] /\ op'[b] = op[b]
  BY <1>1 DEF TypeOK, Procs
<1>4. \A k \in Keys : row'[k] = "none" => row[k] = "none"
  BY <1>1 DEF TypeOK
<1>5. \A k \in Keys, m \in Months : usage'[m][k] \in {usage[m][k], 0}
  <2>1. ASSUME usage' = [usage EXCEPT ![op[a].period][op[a].key] = 0],
               NEW k \in Keys, NEW m \in Months
        PROVE  usage'[m][k] \in {usage[m][k], 0}
    BY <2>1 DEF TypeOK
  <2>2. QED BY <1>1, <2>1
<1>6. QED BY <1>1, <1>2, <1>3, <1>4, <1>5

LEMMA OperateLocals ==
  ASSUME TypeOK, UsageInv, NEW a \in Admins, Operate(a)
  PROVE  Locals'
<1>1. /\ op \in [Admins -> Operation] /\ op[a] \in Operation
      /\ pc \in [Procs -> ReqPC \cup AdminPC] /\ a \in Procs /\ row \in [Keys -> Status]
  BY DEF TypeOK, Procs
<1>2. SUFFICES /\ pc'[a] = "put" => row'[op'[a].key] # "none"
               /\ pc'[a] \in {"reset", "zero"} => op'[a].reset
  <2>1. ASSUME NEW b \in Admins \ {a}
        PROVE  /\ pc'[b] = "put" => row'[op'[b].key] # "none"
               /\ pc'[b] \in {"reset", "zero"} => op'[b].reset
    <3>1. pc'[b] = pc[b] /\ op'[b] = op[b] /\ op[b].key \in Keys
      BY OperateFrame DEF TypeOK, Operation
    <3>2. QED BY <3>1, OperateFrame DEF UsageInv, Locals
  <2>2. QED BY <1>2, <2>1 DEF Locals
<1>3. ASSUME NEW v \in AdminPC \ {"put", "reset", "zero"}, pc' = [pc EXCEPT ![a] = v]
      PROVE  pc'[a] \notin {"put", "reset", "zero"}
  BY <1>1, <1>3
<1>4. ASSUME NEW k \in Keys, CreateKey(a, k)
      PROVE  pc'[a] = "put" /\ row'[op'[a].key] # "none"
  <2> DEFINE o == [op[a] EXCEPT !.key = k]
  <2>1. op' = [op EXCEPT ![a] = o] /\ row' = [row EXCEPT ![k] = "live"]
        /\ pc' = [pc EXCEPT ![a] = "put"]
    BY <1>4 DEF CreateKey
  <2>2. o.key = k
    BY <1>1 DEF Operation
  <2> HIDE DEF o
  <2>3. QED BY <1>1, <2>1, <2>2
<1>5. ASSUME NEW k \in Keys, NEW reset \in BOOLEAN, Unkill(a, k, reset)
      PROVE  pc'[a] # "put" /\ (pc'[a] \in {"reset", "zero"} => op'[a].reset)
  <2> DEFINE m == IF reset THEN month ELSE 0
             o == [op[a] EXCEPT !.key = k, !.reset = reset, !.period = m]
  <2>1. op' = [op EXCEPT ![a] = o] /\ pc' = [pc EXCEPT ![a] = IF reset THEN "reset" ELSE "revive"]
    BY <1>5 DEF Unkill
  <2> HIDE DEF m
  <2>2. o.reset = reset
    BY <1>1 DEF Operation
  <2> HIDE DEF o
  <2>3. op'[a].reset = reset /\ pc'[a] = IF reset THEN "reset" ELSE "revive"
    BY <1>1, <2>1, <2>2
  <2>4. QED BY <2>3
<1>6. CASE UnkillReset(a)
  <2>1. pc[a] = "reset" /\ pc'[a] = "zero" /\ op' = op
    BY <1>1, <1>6 DEF UnkillReset
  <2>2. QED BY <2>1 DEF UsageInv, Locals
<1>7. CASE \/ UnkillFail(a) \/ UnkillZero(a) \/ UnkillCache(a) \/ UnkillClear(a) \/ PutKey(a)
  BY <1>3, <1>7 DEF UnkillFail, UnkillZero, UnkillCache, UnkillClear, PutKey, AdminPC
<1>8. CASE \/ ReloadList(a) \/ ReloadUsageBy(a) \/ ReloadSwap(a) \/ ReloadFail(a)
           \/ \E k \in Keys : ReloadUsage(a, k)
  BY <1>3, <1>8 DEF ReloadList, ReloadUsageBy, ReloadSwap, ReloadFail, ReloadUsage, AdminPC
<1>9. CASE \E k \in Keys : Kill(a, k) \/ DeleteKey(a, k)
  BY <1>3, <1>9 DEF Kill, DeleteKey, AdminPC
<1>10. QED BY <1>4, <1>5, <1>6, <1>7, <1>8, <1>9 DEF Operate

LEMMA OperateEarly ==
  ASSUME TypeOK, UsageInv, NEW a \in Admins, Operate(a)
  PROVE  EarlyNext
<1>1. SUFFICES ASSUME NEW k \in Keys PROVE Early(k)'
  BY DEF EarlyNext
<1>2. Early(k)
  BY DEF UsageInv
<1>3. NotYet(k)' => NotYet(k)
  <2>1. ASSUME row[k] # "none", pc'[a] = "put", op'[a].key = k PROVE pc[a] = "put" /\ op[a].key = k
    <3>1. PICK x \in Keys : CreateKey(a, x)
      BY <2>1 DEF Operate, Kill, DeleteKey, Unkill, UnkillReset, UnkillFail, UnkillZero, UnkillCache,
                  UnkillClear, PutKey, ReloadList, ReloadUsage, ReloadUsageBy, ReloadSwap,
                  ReloadFail, TypeOK, Procs
    <3> DEFINE o == [op[a] EXCEPT !.key = x]
    <3>2. o.key = x /\ row[x] = "none" /\ op' = [op EXCEPT ![a] = o]
      BY <3>1 DEF CreateKey, TypeOK, Operation
    <3> HIDE DEF o
    <3>3. op'[a].key = x
      BY <3>2 DEF TypeOK
    <3>4. QED BY <2>1, <3>2, <3>3
  <2>2. QED BY <2>1, OperateFrame DEF NotYet
<1>4. NotYet(k) => /\ \A r \in Reqs : KeyOf[r] = k => pc'[r] \in {"new", "refused"}
                  /\ \A m \in Months : usage'[m][k] = 0
  BY <1>2, OperateFrame DEF Early
<1>5. ASSUME row'[k] = "none" PROVE Unseen(k)
  <2>1. row[k] = "none" /\ ~cache[k].known /\ \A b \in Admins : ~op[b].snap[k].known
    BY <1>2, <1>5, OperateFrame DEF Early
  <2>2. \A b \in Admins : ~op'[b].snap[k].known
    BY <2>1, OperateFrame, SnapsUnseen
  <2>3. ~cache'[k].known
    <3>1. CASE UnkillZero(a) \/ UnkillCache(a)
      <4> DEFINE key == op[a].key
                 z == [cache[key] EXCEPT !.used = 0]
                 zr == [cache[key] EXCEPT !.killed = FALSE, !.used = 0, !.usedBy = NoUse]
                 kr == [cache[key] EXCEPT !.killed = FALSE]
      <4>1. key \in Keys /\ cache[key] \in CachedKey
        BY DEF TypeOK, Operation
      <4>2. z.known = cache[key].known /\ zr.known = cache[key].known /\ kr.known = cache[key].known
        BY <4>1 DEF CachedKey
      <4>3. \/ cache' = [cache EXCEPT ![key] = z]
            \/ cache' = [cache EXCEPT ![key] = IF op[a].reset THEN zr ELSE kr]
        BY <3>1 DEF UnkillZero, UnkillCache
      <4> HIDE DEF z, zr, kr
      <4>4. cache'[k].known = cache[k].known
        BY <4>1, <4>2, <4>3 DEF TypeOK
      <4>5. QED BY <2>1, <4>4
    <3>2. CASE PutKey(a)
      <4>1. op[a].key # k /\ cache' = [cache EXCEPT ![op[a].key] = Fresh]
        BY <2>1, <3>2 DEF PutKey, UsageInv, Locals
      <4>2. QED BY <2>1, <4>1 DEF TypeOK
    <3>3. CASE ReloadSwap(a)
      BY <2>1, <3>3 DEF ReloadSwap
    <3>4. CASE cache' = cache
      BY <2>1, <3>4
    <3>5. QED
      BY <3>1, <3>2, <3>3, <3>4 DEF Operate, Kill, CreateKey, DeleteKey, Unkill, UnkillReset, UnkillFail,
         UnkillClear, ReloadList, ReloadUsage, ReloadUsageBy, ReloadFail
  <2>4. QED BY <2>2, <2>3 DEF Unseen
<1>6. QED BY <1>2, <1>3, <1>4, <1>5, EarlyStays

LEMMA EnvironmentEarly ==
  ASSUME MeterInv, UsageInv, Environment \/ UNCHANGED vars
  PROVE  EarlyNext
<1> USE DEF EarlyNext
<1>1. TypeOK /\ MeteredOnce /\ \A k \in Keys : Early(k)
  BY DEF MeterInv, UsageInv
<1>2. CASE \/ FlushAll \/ DrainFail \/ NewMonth \/ UNCHANGED vars
           \/ \E s \in Keys \X Targets : Cool(s)
           \/ \E r \in Reqs : Expire(r)
  <2>1. UNCHANGED <<row, usage, cache, op, pc>>
    BY <1>2 DEF FlushAll, DrainFail, NewMonth, Cool, Expire, vars, store
  <2>2. QED BY <1>1, <2>1 DEF Early, NotYet
<1>3. ASSUME NEW s \in Keys \X Targets, DrainSlot(s), NEW k \in Keys PROVE Early(k)'
  <2> DEFINE key == s[1]
  <2>1. UNCHANGED <<row, cache, op, pc>> /\ \A x \in Keys \ {key}, m \in Months : usage'[m][x] = usage[m][x]
    BY <1>1, <1>3 DEF DrainSlot, IncrUsage, TypeOK
  <2>2. PICK r \in drain : KeyOf[r] = key
    BY <1>3 DEF DrainSlot, OfSlot, Slot
  <2>3. r \in Reqs /\ pc[r] \notin {"new", "refused"}
    BY <1>1, <2>2 DEF MeteredOnce, Finished
  <2>4. ~NotYet(key)
    BY <1>1, <2>2, <2>3 DEF Early
  <2>5. Early(k) /\ (NotYet(k)' <=> NotYet(k))
    BY <1>1, <2>1 DEF NotYet
  <2>6. NotYet(k) => \A m \in Months : usage'[m][k] = 0
    BY <2>1, <2>4, <2>5 DEF Early
  <2>7. QED BY <2>1, <2>5, <2>6 DEF Early
<1>4. ASSUME NEW s \in Keys \X Targets, DrainCache(s), NEW k \in Keys PROVE Early(k)'
  <2> DEFINE key == s[1]
             c == AddTokensUsed(cache[key], s[2], BatchTokens(drained))
  <2>1. drained \in SUBSET Reqs /\ key \in Keys /\ s[2] \in Targets /\ cache[key] \in CachedKey
    BY <1>1 DEF TypeOK
  <2>2. BatchTokens(drained) \in Nat
    BY <2>1, GateAssumption
  <2>3. c.known = cache[key].known
    BY <2>1, <2>2, AddTokensUsedCount
  <2>4. UNCHANGED <<row, usage, op, pc>> /\ cache' = [cache EXCEPT ![key] = c]
    BY <1>4 DEF DrainCache, store
  <2> HIDE DEF c
  <2>5. \A x \in Keys : cache'[x].known = cache[x].known
    BY <1>1, <2>3, <2>4 DEF TypeOK
  <2>6. QED BY <1>1, <2>4, <2>5 DEF Early, NotYet
<1>5. ASSUME Restart, NEW k \in Keys PROVE Early(k)'
  <2>1. /\ UNCHANGED <<row, usage>>
        /\ cache'[k] = Loaded(k)
        /\ \A a \in Admins : op'[a] = NoOp(op[a].key)
        /\ \A a \in Admins : pc'[a] = "idle"
        /\ \A r \in Reqs : pc[r] \in {"new", "refused"} => pc'[r] = pc[r]
    BY <1>5, GateAssumption DEF Restart, store, Procs
  <2>2. row[k] = "none" => ~Loaded(k).known
    BY DEF Loaded, Exists, Absent
  <2>3. \A a \in Admins : ~op'[a].snap[k].known
    <3>1. \A x : ~NoOp(x).snap[k].known
      BY DEF NoOp, Absent
    <3>2. QED BY <2>1, <3>1
  <2>4. NotYet(k)' => NotYet(k)
    BY <2>1 DEF NotYet
  <2>5. Early(k)
    BY <1>1
  <2>6. NotYet(k) => \A r \in Reqs : KeyOf[r] = k => pc'[r] \in {"new", "refused"}
    BY <2>1, <2>5 DEF Early
  <2>7. NotYet(k) => \A m \in Months : usage'[m][k] = 0
    BY <2>1, <2>5 DEF Early
  <2>8. row'[k] = "none" => Unseen(k)
    BY <2>1, <2>2, <2>3 DEF Unseen
  <2>9. QED BY <2>4, <2>5, <2>6, <2>7, <2>8, EarlyStays
<1>6. QED BY <1>2, <1>3, <1>4, <1>5 DEF Environment

LEMMA OthersLocals ==
  ASSUME TypeOK, Locals,
         \A a \in Admins : \/ pc'[a] = pc[a] /\ op'[a] = op[a]
                          \/ pc'[a] = "idle",
         \A k \in Keys : row'[k] = "none" => row[k] = "none"
  PROVE  Locals'
<1>1. \A a \in Admins : op[a].key \in Keys
  BY DEF TypeOK, Operation
<1>2. QED BY <1>1 DEF Locals

LEMMA StepLocals ==
  ASSUME MeterInv, UsageInv, [Next]_vars
  PROVE  Locals' /\ drained' \subseteq stored'
<1>1. TypeOK /\ Locals /\ drained \subseteq stored
  BY DEF MeterInv, UsageInv
<1>2. ASSUME NEW r \in Reqs, Gate(r) \/ Metering(r) PROVE Locals' /\ drained' \subseteq stored'
  <2>1. /\ op' = op /\ drained' = drained /\ (stored' = stored \/ stored' = stored \cup batch[r])
        /\ \E v \in ReqPC : pc' = [pc EXCEPT ![r] = v]
        /\ \/ row' = row
           \/ row' = [row EXCEPT ![KeyOf[r]] = "killed"]
    <3>1. CASE Gate(r)
      BY <3>1 DEF Gate, Lookup, RefuseKilled, PassKillSwitch, TripAutoKill, PassLoopGuard, RefuseBudget,
         PassBudget, RefuseRate, PassRate, Serve, Unmetered, AutoKill, AutoKillFail, SetKeyKilled,
         store, meter, ReqPC
    <3>2. CASE Metering(r)
      BY <3>2 DEF Metering, RecordLater, RecordFlush, FlushStore, FlushFail, FlushCache, IncrUsage,
         store, meter, ReqPC
    <3>3. QED BY <1>2, <3>1, <3>2
  <2>2. OperatorsStay
    BY <1>1, <2>1, RequestStays
  <2>3. \A k \in Keys : row'[k] = "none" => row[k] = "none"
    BY <1>1, <2>1, GateAssumption DEF TypeOK
  <2>4. QED BY <1>1, <2>1, <2>2, <2>3, OthersLocals DEF OperatorsStay
<1>3. ASSUME NEW a \in Admins, Operate(a) PROVE Locals' /\ drained' \subseteq stored'
  BY <1>1, <1>3, OperateLocals, OperateFrame
<1>4. ASSUME NEW p \in Procs, KillCache(p) PROVE Locals' /\ drained' \subseteq stored'
  <2>1. /\ UNCHANGED <<row, op, drained, stored>>
        /\ pc' = [pc EXCEPT ![p] = IF p \in Reqs THEN "refused" ELSE "idle"]
    BY <1>4 DEF KillCache, store, meter
  <2>2. \A a \in Admins : pc'[a] = pc[a] \/ pc'[a] = "idle"
    BY <1>1, <2>1, GateAssumption DEF TypeOK, Procs
  <2>3. QED BY <1>1, <2>1, <2>2, OthersLocals
<1>5. CASE Environment \/ UNCHANGED vars
  <2>1. CASE Restart
    <3>1. /\ \A a \in Admins : pc'[a] = "idle"
          /\ row' = row /\ drained' = {}
      BY <2>1, GateAssumption DEF Restart, store, Procs
    <3>2. QED BY <1>1, <3>1, OthersLocals
  <2>2. CASE ~Restart
    <3>1. UNCHANGED <<row, op, pc>>
          /\ \/ UNCHANGED <<drained, stored>>
             \/ drained' = {}
             \/ \E D : drained' = D /\ stored' = stored \cup D
      <4>1. ASSUME NEW s \in Keys \X Targets, DrainSlot(s)
            PROVE  UNCHANGED <<row, op, pc>> /\ \E D : drained' = D /\ stored' = stored \cup D
        BY <4>1 DEF DrainSlot, IncrUsage
      <4>2. ASSUME NEW s \in Keys \X Targets, DrainCache(s)
            PROVE  UNCHANGED <<row, op, pc>> /\ drained' = {}
        BY <4>2 DEF DrainCache, store
      <4>3. CASE \/ FlushAll \/ DrainFail \/ NewMonth \/ UNCHANGED vars
                 \/ \E s \in Keys \X Targets : Cool(s)
                 \/ \E r \in Reqs : Expire(r)
        BY <4>3 DEF FlushAll, DrainFail, NewMonth, Cool, Expire, vars, store, meter
      <4>4. QED BY <1>5, <2>2, <4>1, <4>2, <4>3 DEF Environment
    <3>2. QED BY <1>1, <3>1, OthersLocals
  <2>3. QED BY <2>1, <2>2
<1>6. QED BY <1>2, <1>3, <1>4, <1>5 DEF Next

LEMMA InitUsage == Init => UsageInv
<1> SUFFICES ASSUME Init PROVE UsageInv
  OBVIOUS
<1>1. TypeOK /\ 0 \in Months
  BY InitTypeOK, MonthsFacts
<1>2. /\ \A r \in Reqs : pc[r] = "new"
      /\ \A a \in Admins : pc[a] = "idle"
      /\ drained = {}
  BY GateAssumption DEF Init, Procs
<1>3. \A k \in Keys : cache[k] = Loaded(k) /\ \A m \in Months : usage[m][k] = 0
  BY DEF Init
<1>4. \A a \in Admins, k \in Keys : ~op[a].snap[k].known
  BY DEF Init, NoOp, Absent
<1>5. ASSUME NEW k \in Keys PROVE Counted(k)
  <2>1. ~Flushing(k) /\ \A a \in Admins : ~UsageOpOn(a, k)
    BY <1>2 DEF Flushing, UsageOpOn, Reloading
  <2>2. cache[k].known => cache[k].used = usage[month][k]
    <3>1. Loaded(k).known => Loaded(k).used = usage[month][k]
      BY DEF Loaded, Absent
    <3>2. QED BY <1>3, <3>1
  <2>3. cache[k] \in CachedKey /\ usage[month][k] \in Nat
    BY <1>1 DEF TypeOK
  <2>4. LevelOf(cache[k], {}, Tokens, 0, usage[month][k])
    BY <1>1, <2>2, <2>3, TokensType, LevelNone
  <2>5. Level(k)
    BY <1>1, <2>1, <2>4, NotFlushing DEF Level
  <2>6. QED BY <2>1, <2>5 DEF Counted
<1>6. ASSUME NEW k \in Keys PROVE Early(k)
  <2>1. row[k] = "none" => ~Loaded(k).known
    BY DEF Loaded, Exists, Absent
  <2>2. QED BY <1>2, <1>3, <1>4, <2>1 DEF Early
<1>7. QED BY <1>2, <1>5, <1>6 DEF UsageInv, Counts, Locals

LEMMA StepUsage == MeterInv /\ UsageInv /\ [Next]_vars => UsageInv'
<1> SUFFICES ASSUME MeterInv, UsageInv, [Next]_vars PROVE UsageInv'
  OBVIOUS
<1>1. TypeOK /\ TypeOK'
  BY NextTypeOK DEF MeterInv
<1>2. CountsNext
  BY <1>1, StepCounts
<1>3. EarlyNext
  BY <1>1, GateEarly, MeteringEarly, OperateEarly, KillCacheEarly, EnvironmentEarly DEF Next
<1>4. QED BY <1>2, <1>3, StepLocals DEF UsageInv, Counts, CountsNext, EarlyNext

(* The copy's token counter, which the budget gate reads, equals the usage  *)
(* row of the month once nothing of the key is between its commit and the   *)
(* copy and no reset or reload is under way: auth.Validator and proxy.Meter *)
(* agree whatever the requests, retries, drains, operators and restarts in  *)
(* between, unless two of them overlapped or a month began.                 *)
THEOREM UsageInAgreement == Spec => []UsageAgrees
<1>1. MeterInv /\ UsageInv => UsageAgrees
  <2> SUFFICES ASSUME MeterInv, UsageInv, NEW k \in Keys, ~drift[k], ~Flushing(k),
                      cache[k].known, \A a \in Admins : ~UsageOpOn(a, k)
               PROVE  cache[k].used = usage[month][k]
    BY DEF UsageAgrees
  <2>1. TypeOK /\ Level(k)
    BY DEF MeterInv, UsageInv, Counts, Counted
  <2>2. QED BY <2>1, LevelEqual
<1>2. QED BY <1>1, InitUsage, StepUsage, MeterInvariance, PTL DEF Spec
=============================================================================
