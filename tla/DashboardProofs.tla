-------------------------- MODULE DashboardProofs --------------------------
(***************************************************************************)
(* The dashboard, for any number of requests in flight, events, aliases,   *)
(* keys, users, invites, tickets and refresh tokens: the bell's badge, the *)
(* routes' fallbacks, and the composition - every behaviour of the         *)
(* dashboard is a behaviour of each of its pages.                          *)
(***************************************************************************)
EXTENDS Dashboard, AccountProofs, KeyServerProofs, FiniteSetTheorems

-----------------------------------------------------------------------------
(* The bell.                                                               *)

BellState == [open : BOOLEAN, events : SUBSET Events, unread : 0..Cardinality(Events),
              seen : SUBSET Events, known : SUBSET Events]
RefreshSlot == Slot({"refresh"}, {}, SUBSET Events)

(* A refresh is answered with events; an announced kill is known.           *)
BellInv ==
  /\ logged \subseteq Events /\ bell \in BellState
  /\ refreshes \in [Calls -> RefreshSlot]
  /\ \A c \in Calls : refreshes[c].at = "answered" => refreshes[c].ans \in SUBSET Events
  /\ toasts \in [AutoKills -> 0..2]
  /\ bell.unread = Cardinality(bell.events \ bell.seen)
  /\ \A e \in AutoKills : toasts[e] \in {0, 1} /\ (toasts[e] = 1 => e \in bell.known)

LEMMA CountsEvents ==
  ASSUME NEW S \in SUBSET Events
  PROVE  Cardinality(S) \in 0..Cardinality(Events)
<1>1. IsFiniteSet(S) /\ Cardinality(S) <= Cardinality(Events)
  BY BellAssumption, FS_Subset
<1>2. Cardinality(S) \in Nat /\ Cardinality(Events) \in Nat
  BY <1>1, BellAssumption, FS_CardinalityType
<1>3. QED BY <1>1, <1>2

LEMMA RefreshMoves ==
  ASSUME refreshes \in [Calls -> RefreshSlot], NEW c \in Calls
  PROVE  /\ Send(refreshes, c, "refresh", None) \in [Calls -> RefreshSlot]
         /\ \A list \in SUBSET Events : Answer(refreshes, c, list) \in [Calls -> RefreshSlot]
         /\ Reject(refreshes, c) \in [Calls -> RefreshSlot]
         /\ End(refreshes, c) \in [Calls -> RefreshSlot]
         /\ Send(refreshes, c, "refresh", None)[c].at = "sent"
         /\ \A list : Answer(refreshes, c, list)[c].ans = list
         /\ Reject(refreshes, c)[c].at = "failed"
         /\ End(refreshes, c)[c].at = "idle"
         /\ \A d \in Calls \ {c} :
              /\ Send(refreshes, c, "refresh", None)[d] = refreshes[d]
              /\ \A list : Answer(refreshes, c, list)[d] = refreshes[d]
              /\ Reject(refreshes, c)[d] = refreshes[d]
              /\ End(refreshes, c)[d] = refreshes[d]
BY DEF RefreshSlot, Slot, Places, Send, Answer, Reject, End, Idle

LEMMA BellInvariant == BellSpec => []BellInv
<1>1. BellInit => BellInv
  <2> SUFFICES ASSUME BellInit PROVE BellInv
    OBVIOUS
  <2>1. PICK seen \in SUBSET logged :
          bell = [open |-> FALSE, events |-> {}, unread |-> 0, seen |-> seen, known |-> {}]
    BY DEF BellInit
  <2>2. Cardinality({}) = 0 /\ {} \ seen = {} /\ 0 \in 0..Cardinality(Events)
    BY FS_EmptySet, BellAssumption, FS_CardinalityType
  <2>3. bell \in BellState /\ bell.unread = Cardinality(bell.events \ bell.seen)
    BY <2>1, <2>2 DEF BellState, BellInit
  <2>4. refreshes \in [Calls -> RefreshSlot] /\ \A c \in Calls : refreshes[c].at = "idle"
    BY DEF BellInit, RefreshSlot, Slot, Places, Idle
  <2>5. QED BY <2>3, <2>4 DEF BellInit, BellInv
<1>2. BellInv /\ [BellNext]_bellVars => BellInv'
  <2> SUFFICES ASSUME BellInv, [BellNext]_bellVars PROVE BellInv'
    OBVIOUS
  <2> USE DEF BellInv
  <2>1. ASSUME NEW e \in Events, Log(e) PROVE BellInv'
    BY <2>1 DEF Log
  <2>2. ASSUME NEW c \in Calls, Refresh(c) \/ BreakRefresh(c) \/ DropRefresh(c) PROVE BellInv'
    <3>1. UNCHANGED <<logged, bell, toasts>>
      BY <2>2 DEF Refresh, BreakRefresh, DropRefresh
    <3>2. \/ refreshes' = Send(refreshes, c, "refresh", None)
          \/ refreshes' = Reject(refreshes, c)
          \/ refreshes' = End(refreshes, c)
      BY <2>2 DEF Refresh, BreakRefresh, DropRefresh
    <3>3. refreshes' \in [Calls -> RefreshSlot]
      BY <3>2, RefreshMoves
    <3>4. \A d \in Calls : refreshes'[d].at = "answered" => refreshes'[d].ans \in SUBSET Events
      BY <3>2, RefreshMoves
    <3>5. QED BY <3>1, <3>3, <3>4
  <2>3. ASSUME NEW c \in Calls, ServeActivity(c) PROVE BellInv'
    BY <2>3, RefreshMoves DEF ServeActivity
  <2>4. ASSUME NEW c \in Calls, SettleRefresh(c) PROVE BellInv'
    <3> DEFINE list == refreshes[c].ans
    <3>1. list \in SUBSET Events
      BY <2>4 DEF SettleRefresh
    <3>2. Cardinality(list \ bell.seen) \in 0..Cardinality(Events)
      BY <3>1, CountsEvents
    <3>3. bell' = [bell EXCEPT !.events = list, !.unread = Cardinality(list \ bell.seen),
                               !.known = bell.known \cup list]
      BY <2>4 DEF SettleRefresh, Known
    <3>4. /\ bell' \in BellState /\ bell'.known = bell.known \cup list
          /\ bell'.unread = Cardinality(bell'.events \ bell'.seen)
      <4> HIDE DEF list
      <4>1. QED BY <3>1, <3>2, <3>3 DEF BellState
    <3>5. PICK news \in Announced(list) : toasts' = Toasted(news)
      BY <2>4 DEF SettleRefresh
    <3>6. news \subseteq list \ bell.known
      BY <3>5 DEF Announced
    <3>7. \A e \in AutoKills : toasts'[e] = IF e \in news /\ toasts[e] < 2 THEN toasts[e] + 1 ELSE toasts[e]
      BY <3>5 DEF Toasted
    <3>8. toasts' \in [AutoKills -> 0..2]
      BY <3>5 DEF Toasted
    <3>9. \A e \in AutoKills : toasts'[e] \in {0, 1} /\ (toasts'[e] = 1 => e \in bell'.known)
      BY <3>4, <3>6, <3>7
    <3>10. QED BY <2>4, <3>4, <3>8, <3>9, RefreshMoves DEF SettleRefresh
  <2>5. CASE ToggleBell
    <3>1. /\ bell' \in BellState /\ bell'.known = bell.known
          /\ bell'.unread = Cardinality(bell'.events \ bell'.seen)
      <4>1. CASE bell.open
        BY <2>5, <4>1 DEF ToggleBell, BellState
      <4>2. CASE ~bell.open
        <5>1. /\ bell' = [bell EXCEPT !.open = TRUE, !.seen = bell.seen \cup bell.events, !.unread = 0]
              /\ 0 \in 0..Cardinality(Events)
          BY <2>5, <4>2, BellAssumption, FS_CardinalityType DEF ToggleBell, BellState
        <5>2. bell'.events \ bell'.seen = {}
          BY <5>1 DEF BellState
        <5>3. QED BY <5>1, <5>2, FS_EmptySet DEF BellState
      <4>3. QED BY <4>1, <4>2
    <3>2. QED BY <2>5, <3>1 DEF ToggleBell
  <2>6. CASE UNCHANGED bellVars
    BY <2>6 DEF bellVars
  <2>7. QED BY <2>1, <2>2, <2>3, <2>4, <2>5, <2>6 DEF BellNext
<1>3. QED BY <1>1, <1>2, PTL DEF BellSpec

(* Whatever the order of the answers, the badge counts the unseen events and *)
(* no kill is announced twice.                                               *)
THEOREM BadgeIsRight == BellSpec => []BadgeAgrees
<1>1. BellInv => BadgeAgrees
  BY DEF BellInv, BadgeAgrees
<1>2. QED BY <1>1, BellInvariant, PTL

-----------------------------------------------------------------------------
(* Routes and their fallbacks.                                             *)

ProvidersState ==
  [dialogs : SUBSET {"provider", "route"}, saving : BOOLEAN, adding : BOOLEAN,
   todo : 0..(MaxNames - 1), errors : BOOLEAN]
ProvSlot == Slot(ProviderOps, Bodies, ModelRows)

RoutesTyped ==
  /\ provider \subseteq 1..MaxProviders
  /\ route \in [RouteIds -> ModelRows]
  /\ given \in [providers : 0..MaxProviders, routes : 0..MaxRoutes]
  /\ providersUI \in ProvidersState
  /\ provCalls \in [Calls -> ProvSlot]
  /\ unheard \subseteq Calls

(* The same words of any table t of routes, so that the one before a step    *)
(* and the one after it can be compared; n ids of routes have been given.    *)
LiveIn(t, r) == r \in RouteIds /\ t[r] # NoRoute
HopIn(t, r) == t[r].fallback
ShortIn(t, f) == LiveIn(t, f) /\ LiveIn(t, HopIn(t, f)) => ~LiveIn(t, HopIn(t, HopIn(t, f)))
ChainsEnd(t) == \A r \in RouteIds : LiveIn(t, r) => ShortIn(t, HopIn(t, r))

(* Nothing points at a route that has not been created.                      *)
OnlyGiven(t, n) == \A r \in RouteIds : t[r].fallback <= n /\ (r > n => t[r] = NoRoute)

(* What was checked of a fallback stays true until the route is inserted.    *)
BodyFits(t, n, s) ==
  s.op = "route" => /\ s.arg \in Bodies /\ s.arg.fallback <= n
                    /\ s.ans # None => s.ans.fallback <= n /\ ShortIn(t, s.ans.fallback)

RoutesInv ==
  /\ RoutesTyped
  /\ OnlyGiven(route, given.routes)
  /\ ChainsEnd(route)
  /\ \A c \in Calls : BodyFits(route, given.routes, provCalls[c])

(* A step that leaves the routes as they are and writes one slot at most.    *)
LEMMA RoutesStay ==
  ASSUME RoutesInv, RoutesTyped', route' = route, given'.routes = given.routes, NEW c \in Calls,
         \A d \in Calls \ {c} : provCalls'[d] = provCalls[d],
         BodyFits(route, given.routes, provCalls'[c])
  PROVE  RoutesInv'
<1>1. \A d \in Calls : BodyFits(route, given.routes, provCalls'[d])
  BY DEF RoutesInv
<1>2. QED BY <1>1 DEF RoutesInv

(* What happens to a slot.                                                   *)
LEMMA RequestSent ==
  ASSUME provCalls \in [Calls -> ProvSlot], NEW c \in Calls, NEW op \in ProviderOps,
         NEW body \in Bodies \cup {None}, provCalls' = Send(provCalls, c, op, body)
  PROVE  /\ provCalls' \in [Calls -> ProvSlot]
         /\ \A d \in Calls \ {c} : provCalls'[d] = provCalls[d]
         /\ provCalls'[c].op = op /\ provCalls'[c].arg = body /\ provCalls'[c].ans = None
BY DEF ProvSlot, Slot, Places, Send

LEMMA RequestEnded ==
  ASSUME provCalls \in [Calls -> ProvSlot], NEW c \in Calls, provCalls' = End(provCalls, c)
  PROVE  /\ provCalls' \in [Calls -> ProvSlot]
         /\ \A d \in Calls \ {c} : provCalls'[d] = provCalls[d]
         /\ provCalls'[c].op = None
BY DEF ProvSlot, Slot, Places, End, Idle

LEMMA RequestConcluded ==
  ASSUME RoutesTyped, NEW c \in Calls, NEW done \in BOOLEAN, Conclude(c, done)
  PROVE  /\ provCalls' \in [Calls -> ProvSlot] /\ unheard' \subseteq Calls
         /\ \A d \in Calls \ {c} : provCalls'[d] = provCalls[d]
         /\ \/ provCalls'[c].op = None
            \/ /\ provCalls'[c].op = provCalls[c].op /\ provCalls'[c].arg = provCalls[c].arg
               /\ provCalls'[c].ans = None
<1> USE DEF RoutesTyped
<1>1. unheard' \subseteq Calls
  BY DEF Conclude
<1>2. CASE provCalls' = End(provCalls, c)
  BY <1>1, <1>2, RequestEnded
<1>3. CASE provCalls' = Answer(provCalls, c, None)
  BY <1>1, <1>3 DEF Answer, ProvSlot, Slot, Places
<1>4. CASE provCalls' = Reject(provCalls, c)
  BY <1>1, <1>4 DEF Reject, ProvSlot, Slot, Places
<1>5. QED BY <1>2, <1>3, <1>4 DEF Conclude

(* A concluded request asks nothing more of the routes.                      *)
LEMMA ConcludedFits ==
  ASSUME RoutesInv, NEW c \in Calls, NEW done \in BOOLEAN, Conclude(c, done), NEW t
  PROVE  BodyFits(t, given.routes, provCalls'[c])
<1>1. RoutesTyped /\ BodyFits(route, given.routes, provCalls[c])
  BY DEF RoutesInv
<1>2. CASE provCalls'[c].op = None
  BY <1>2, RoutesAssumption DEF BodyFits, ProviderOps
<1>3. CASE provCalls'[c].op # None
  BY <1>1, <1>3, RequestConcluded DEF BodyFits
<1>4. QED BY <1>2, <1>3

(* The page's state after one of its buttons or awaits.                      *)
LEMMA ProvidersPageMoves ==
  ASSUME providersUI \in ProvidersState
  PROVE  /\ \A d \in {"provider", "route"} :
              /\ [providersUI EXCEPT !.dialogs = {d}] \in ProvidersState
              /\ [providersUI EXCEPT !.dialogs = @ \ {d}] \in ProvidersState
         /\ \A b \in BOOLEAN : /\ [providersUI EXCEPT !.saving = b] \in ProvidersState
                               /\ [providersUI EXCEPT !.adding = b] \in ProvidersState
         /\ \A n \in 1..MaxNames :
              [providersUI EXCEPT !.saving = TRUE, !.todo = n - 1] \in ProvidersState
         /\ [providersUI EXCEPT !.adding = FALSE, !.dialogs = @ \cup {"provider"}] \in ProvidersState
         /\ \A b \in BOOLEAN :
              /\ providersUI.todo > 0
                   => [providersUI EXCEPT !.todo = @ - 1, !.errors = b] \in ProvidersState
              /\ [providersUI EXCEPT !.errors = FALSE,
                                     !.dialogs = IF b THEN @ ELSE @ \ {"route"}] \in ProvidersState
<1>a. MaxNames \in Nat \ {0}
  BY ProvidersAssumption
<1>1. ASSUME NEW D \in SUBSET {"provider", "route"}
      PROVE  /\ [providersUI EXCEPT !.dialogs = D] \in ProvidersState
             /\ [providersUI EXCEPT !.errors = FALSE, !.dialogs = D] \in ProvidersState
             /\ [providersUI EXCEPT !.adding = FALSE, !.dialogs = D] \in ProvidersState
  BY DEF ProvidersState
<1>2. providersUI.dialogs \in SUBSET {"provider", "route"}
  BY DEF ProvidersState
<1>3. ASSUME NEW b \in BOOLEAN
      PROVE  /\ [providersUI EXCEPT !.saving = b] \in ProvidersState
             /\ [providersUI EXCEPT !.adding = b] \in ProvidersState
  BY DEF ProvidersState
<1>4. ASSUME NEW n \in 1..MaxNames
      PROVE  [providersUI EXCEPT !.saving = TRUE, !.todo = n - 1] \in ProvidersState
  <2>1. n - 1 \in 0..(MaxNames - 1)
    BY <1>a
  <2>2. QED BY <2>1 DEF ProvidersState
<1>5. ASSUME NEW b \in BOOLEAN, providersUI.todo > 0
      PROVE  [providersUI EXCEPT !.todo = @ - 1, !.errors = b] \in ProvidersState
  <2>1. providersUI.todo - 1 \in 0..(MaxNames - 1)
    BY <1>a, <1>5 DEF ProvidersState
  <2>2. QED BY <2>1 DEF ProvidersState
<1>6. ASSUME NEW d \in {"provider", "route"}
      PROVE  /\ [providersUI EXCEPT !.dialogs = {d}] \in ProvidersState
             /\ [providersUI EXCEPT !.dialogs = @ \ {d}] \in ProvidersState
  BY <1>1, <1>2
<1>7. ASSUME NEW b \in BOOLEAN
      PROVE  [providersUI EXCEPT !.errors = FALSE,
                                 !.dialogs = IF b THEN @ ELSE @ \ {"route"}] \in ProvidersState
  <2>1. (IF b THEN providersUI.dialogs ELSE providersUI.dialogs \ {"route"})
          \in SUBSET {"provider", "route"}
    BY <1>2
  <2>2. QED BY <1>1, <2>1
<1>8. [providersUI EXCEPT !.adding = FALSE, !.dialogs = @ \cup {"provider"}] \in ProvidersState
  BY <1>1, <1>2
<1>9. QED BY <1>3, <1>4, <1>5, <1>6, <1>7, <1>8

(* A request of either dashboard asks for what has been created.             *)
LEMMA AskedFits ==
  ASSUME RoutesInv, NEW c \in Calls,
         \/ Deletion(c) \/ RouteRequest(c) \/ Requested(c, "create", Body(0, 0, 0))
         \/ Requested(c, "addNow", Body(0, 0, 0))
  PROVE  /\ provCalls' \in [Calls -> ProvSlot]
         /\ \A d \in Calls \ {c} : provCalls'[d] = provCalls[d]
         /\ BodyFits(route, given.routes, provCalls'[c])
<1>a. /\ provCalls \in [Calls -> ProvSlot] /\ MaxProviders \in Nat /\ MaxRoutes \in Nat
      /\ given.providers \in 0..MaxProviders /\ given.routes \in 0..MaxRoutes
  BY ProvidersAssumption DEF RoutesInv, RoutesTyped
<1>b. Body(0, 0, 0) \in Bodies
  BY <1>a DEF Body, Bodies
<1>1. ASSUME NEW op \in ProviderOps \ {"route"}, NEW body \in Bodies, Requested(c, op, body)
      PROVE  /\ provCalls' \in [Calls -> ProvSlot]
             /\ \A d \in Calls \ {c} : provCalls'[d] = provCalls[d]
             /\ BodyFits(route, given.routes, provCalls'[c])
  BY <1>1, <1>a, RequestSent DEF Requested, BodyFits
<1>2. CASE Requested(c, "create", Body(0, 0, 0)) \/ Requested(c, "addNow", Body(0, 0, 0))
  BY <1>1, <1>2, <1>b DEF ProviderOps
<1>3. ASSUME NEW p \in KnownProviders, Requested(c, "drop", Body(0, p, 0))
      PROVE  /\ provCalls' \in [Calls -> ProvSlot]
             /\ \A d \in Calls \ {c} : provCalls'[d] = provCalls[d]
             /\ BodyFits(route, given.routes, provCalls'[c])
  <2>1. Body(0, p, 0) \in Bodies
    BY <1>3, <1>a DEF Body, Bodies, KnownProviders
  <2>2. QED BY <1>1, <1>3, <2>1 DEF ProviderOps
<1>4. ASSUME NEW r \in KnownRoutes, Requested(c, "dropRoute", Body(r, 0, 0))
      PROVE  /\ provCalls' \in [Calls -> ProvSlot]
             /\ \A d \in Calls \ {c} : provCalls'[d] = provCalls[d]
             /\ BodyFits(route, given.routes, provCalls'[c])
  <2>1. Body(r, 0, 0) \in Bodies
    BY <1>4, <1>a DEF Body, Bodies, KnownRoutes
  <2>2. QED BY <1>1, <1>4, <2>1 DEF ProviderOps
<1>5. ASSUME NEW p \in KnownProviders, NEW f \in KnownRoutes \cup {0},
             Requested(c, "route", Body(0, p, f))
      PROVE  /\ provCalls' \in [Calls -> ProvSlot]
             /\ \A d \in Calls \ {c} : provCalls'[d] = provCalls[d]
             /\ BodyFits(route, given.routes, provCalls'[c])
  <2>1. Body(0, p, f) \in Bodies /\ Body(0, p, f).fallback <= given.routes
    BY <1>5, <1>a DEF Body, Bodies, KnownProviders, KnownRoutes
  <2>2. provCalls' = Send(provCalls, c, "route", Body(0, p, f)) /\ "route" \in ProviderOps
    BY <1>5 DEF Requested, ProviderOps
  <2>3. QED BY <1>a, <2>1, <2>2, RequestSent DEF BodyFits
<1>6. QED BY <1>2, <1>3, <1>4, <1>5 DEF Deletion, RouteRequest

(* A deletion shortens chains: what lives lived before and points where it did. *)
LEMMA DeletionShortens ==
  ASSUME NEW t \in [RouteIds -> ModelRows], NEW u \in [RouteIds -> ModelRows],
         \A r \in RouteIds : LiveIn(u, r) => u[r] = t[r]
  PROVE  /\ \A f : ShortIn(t, f) => ShortIn(u, f)
         /\ ChainsEnd(t) => ChainsEnd(u)
<1>1. \A r : LiveIn(u, r) => LiveIn(t, r) /\ HopIn(u, r) = HopIn(t, r)
  BY DEF LiveIn, HopIn
<1>2. ASSUME NEW f, ShortIn(t, f) PROVE ShortIn(u, f)
  BY <1>1, <1>2 DEF ShortIn
<1>3. QED BY <1>1, <1>2 DEF ChainsEnd

(* A new route lengthens none: nothing points at it yet.                     *)
LEMMA InsertionEnds ==
  ASSUME NEW t \in [RouteIds -> ModelRows], NEW n \in Nat, n + 1 \in RouteIds,
         NEW row \in ModelRows, row.fallback <= n, ShortIn(t, row.fallback),
         OnlyGiven(t, n), ChainsEnd(t), NEW u, u[n + 1] = row, \A r \in RouteIds \ {n + 1} : u[r] = t[r]
  PROVE  /\ \A f \in 0..MaxRoutes : f <= n /\ ShortIn(t, f) => ShortIn(u, f)
         /\ OnlyGiven(u, n + 1)
         /\ ChainsEnd(u)
<1>a. MaxRoutes \in Nat /\ RouteIds \subseteq Nat /\ (\A r \in RouteIds : t[r].fallback \in 0..MaxRoutes)
      /\ row.fallback \in 0..MaxRoutes
  BY ProvidersAssumption DEF RouteIds, ModelRows
<1>1. u[n + 1] = row /\ \A r \in RouteIds \ {n + 1} : u[r] = t[r]
  OBVIOUS
<1>2. \A f \in 0..MaxRoutes : f <= n => f # n + 1
  BY <1>a
<1>3. \A f \in 0..MaxRoutes : f <= n => (LiveIn(u, f) <=> LiveIn(t, f))
  BY <1>1, <1>2 DEF LiveIn
<1>4. \A f \in 0..MaxRoutes : f <= n /\ LiveIn(t, f) =>
        HopIn(u, f) = HopIn(t, f) /\ HopIn(t, f) \in 0..MaxRoutes /\ HopIn(t, f) <= n
  BY <1>1, <1>2, <1>a DEF LiveIn, HopIn, OnlyGiven
<1>5. ASSUME NEW f \in 0..MaxRoutes, f <= n, ShortIn(t, f) PROVE ShortIn(u, f)
  <2>1. ASSUME LiveIn(u, f), LiveIn(u, HopIn(u, f)) PROVE ~LiveIn(u, HopIn(u, HopIn(u, f)))
    <3>1. LiveIn(t, f) /\ HopIn(u, f) = HopIn(t, f) /\ HopIn(t, f) \in 0..MaxRoutes /\ HopIn(t, f) <= n
      BY <2>1, <1>3, <1>4, <1>5
    <3>2. LiveIn(t, HopIn(t, f)) /\ HopIn(u, HopIn(u, f)) = HopIn(t, HopIn(t, f))
          /\ HopIn(t, HopIn(t, f)) \in 0..MaxRoutes /\ HopIn(t, HopIn(t, f)) <= n
      BY <2>1, <3>1, <1>3, <1>4
    <3>3. QED BY <3>1, <3>2, <1>3, <1>5 DEF ShortIn
  <2>2. QED BY <2>1 DEF ShortIn
<1>6. OnlyGiven(u, n + 1)
  BY <1>1, <1>a DEF OnlyGiven
<1>7. ASSUME NEW r \in RouteIds, LiveIn(u, r) PROVE ShortIn(u, HopIn(u, r))
  <2>1. CASE r = n + 1
    BY <2>1, <1>1, <1>5, <1>a DEF HopIn
  <2>2. CASE r # n + 1
    <3>1. LiveIn(t, r) /\ HopIn(u, r) = HopIn(t, r)
      BY <2>2, <1>1, <1>7 DEF LiveIn, HopIn
    <3>2. HopIn(t, r) \in 0..MaxRoutes /\ HopIn(t, r) <= n /\ ShortIn(t, HopIn(t, r))
      BY <3>1, <1>a DEF OnlyGiven, ChainsEnd, HopIn
    <3>3. QED BY <3>1, <3>2, <1>5
  <2>3. QED BY <2>1, <2>2
<1>8. ChainsEnd(u)
  BY <1>7 DEF ChainsEnd
<1>9. QED BY <1>5, <1>6, <1>8

(* ValidFallback is what the chain of a new route needs.                     *)
LEMMA CheckedFits ==
  ASSUME RoutesInv, NEW f \in 0..MaxRoutes, ValidFallback(f)
  PROVE  ShortIn(route, f)
<1>a. MaxRoutes \in Nat /\ 0 \notin RouteIds
  BY ProvidersAssumption DEF RouteIds
<1>1. CASE f = 0
  BY <1>1, <1>a DEF ShortIn, LiveIn
<1>2. CASE Live(f) /\ (Live(route[f].fallback) => route[route[f].fallback].fallback = 0)
  BY <1>2, <1>a DEF ShortIn, LiveIn, HopIn, Live
<1>3. QED BY <1>1, <1>2 DEF ValidFallback

LEMMA RoutesInvariant == ProvidersSpec => []RoutesInv
<1>1. ProvidersInit => RoutesInv
  <2> SUFFICES ASSUME ProvidersInit PROVE RoutesInv
    OBVIOUS
  <2> USE ProvidersAssumption DEF ProvidersInit
  <2>1. NoRoute \in ModelRows
    BY DEF NoRoute, ModelRows
  <2>2. provCalls \in [Calls -> ProvSlot]
    BY DEF ProvSlot, Slot, Places, Idle
  <2>3. RoutesTyped
    BY <2>1, <2>2 DEF RoutesTyped, ProvidersState
  <2>4. OnlyGiven(route, given.routes) /\ ChainsEnd(route)
    BY DEF OnlyGiven, ChainsEnd, LiveIn, NoRoute
  <2>5. \A c \in Calls : BodyFits(route, given.routes, provCalls[c])
    BY RoutesAssumption DEF BodyFits, Idle, ProviderOps
  <2>6. QED BY <2>3, <2>4, <2>5 DEF RoutesInv
<1>2. RoutesInv /\ [ProvidersNext]_providersVars => RoutesInv'
  <2> SUFFICES ASSUME RoutesInv, [ProvidersNext]_providersVars PROVE RoutesInv'
    OBVIOUS
  <2>a. RoutesTyped /\ providersUI \in ProvidersState /\ provCalls \in [Calls -> ProvSlot]
    BY DEF RoutesInv, RoutesTyped
  <2>b. MaxProviders \in Nat /\ MaxRoutes \in Nat /\ MaxNames \in Nat \ {0}
    BY ProvidersAssumption
  \* a step that leaves the rows as they are
  <2>c. ASSUME NEW c \in Calls, UNCHANGED LLMRows, unheard' \subseteq Calls,
               providersUI' \in ProvidersState, provCalls' \in [Calls -> ProvSlot],
               \A d \in Calls \ {c} : provCalls'[d] = provCalls[d],
               BodyFits(route, given.routes, provCalls'[c])
        PROVE  RoutesInv'
    <3>1. RoutesTyped' /\ route' = route /\ given' = given
      BY <2>a, <2>c DEF RoutesTyped, LLMRows
    <3>2. QED BY <2>c, <3>1, RoutesStay
  <2>d. \A op \in {None, "reload", "reloadAdded", "create", "addNow"} :
          \A s : s.op = op => BodyFits(route, given.routes, s)
    BY RoutesAssumption DEF BodyFits, ProviderOps
  <2>1. ASSUME NEW d \in {"provider", "route"}, OpenDialog(d) \/ CloseDialog(d)
        PROVE  RoutesInv'
    <3>1. providersUI' \in ProvidersState
      BY <2>1, <2>a, ProvidersPageMoves DEF OpenDialog, CloseDialog
    <3>2. QED
      BY <2>1, <2>a, <3>1
      DEF OpenDialog, CloseDialog, LLMRows, RoutesInv, RoutesTyped
  <2>2. ASSUME NEW c \in Calls, RowButton(c) \/ OtherDashboard(c) PROVE RoutesInv'
    <3>1. /\ provCalls' \in [Calls -> ProvSlot]
          /\ \A d \in Calls \ {c} : provCalls'[d] = provCalls[d]
          /\ BodyFits(route, given.routes, provCalls'[c])
      BY <2>2, AskedFits DEF RowButton, OtherDashboard
    <3>2. UNCHANGED LLMRows /\ unheard' \subseteq Calls /\ providersUI' \in ProvidersState
      BY <2>2, <2>a DEF RowButton, OtherDashboard, RoutesTyped
    <3>3. QED BY <2>c, <3>1, <3>2
  <2>3. ASSUME NEW c \in Calls, SubmitProvider(c) \/ AddProviderNow(c) \/ SubmitRoutes(c)
        PROVE  RoutesInv'
    <3>1. /\ provCalls' \in [Calls -> ProvSlot]
          /\ \A d \in Calls \ {c} : provCalls'[d] = provCalls[d]
          /\ BodyFits(route, given.routes, provCalls'[c])
      BY <2>3, AskedFits DEF SubmitProvider, AddProviderNow, SubmitRoutes
    <3>2. UNCHANGED LLMRows /\ unheard' \subseteq Calls
      BY <2>3, <2>a DEF SubmitProvider, AddProviderNow, SubmitRoutes, RoutesTyped
    <3>3. providersUI' \in ProvidersState
      BY <2>3, <2>a, ProvidersPageMoves DEF SubmitProvider, AddProviderNow, SubmitRoutes
    <3>4. QED BY <2>c, <3>1, <3>2, <3>3
  <2>4. ASSUME NEW c \in Calls, InsertProvider(c) PROVE RoutesInv'
    <3>1. BodyFits(route, given.routes, provCalls'[c])
      BY <2>4, ConcludedFits DEF InsertProvider
    <3>2. given' \in [providers : 0..MaxProviders, routes : 0..MaxRoutes]
          /\ given'.routes = given.routes /\ provider' \subseteq 1..MaxProviders
      BY <2>4, <2>a, <2>b DEF InsertProvider, RoutesTyped
    <3>3. RoutesTyped' /\ route' = route /\ \A d \in Calls \ {c} : provCalls'[d] = provCalls[d]
      BY <2>4, <2>a, <3>2, RequestConcluded DEF InsertProvider, RoutesTyped
    <3>4. QED BY <3>1, <3>2, <3>3, RoutesStay
  <2>5. ASSUME NEW c \in Calls, DeleteProvider(c) PROVE RoutesInv'
    <3>1. BodyFits(route, given.routes, provCalls'[c])
      BY <2>5, ConcludedFits DEF DeleteProvider
    <3>2. Conclude(c, TRUE) /\ route' = route /\ given' = given
          /\ providersUI' = providersUI /\ provider' \subseteq 1..MaxProviders
      BY <2>5, <2>a DEF DeleteProvider, RoutesTyped
    <3>3. /\ provCalls' \in [Calls -> ProvSlot] /\ unheard' \subseteq Calls
          /\ \A d \in Calls \ {c} : provCalls'[d] = provCalls[d]
      BY <2>a, <3>2, RequestConcluded
    <3>4. RoutesTyped'
      BY <2>a, <3>2, <3>3 DEF RoutesTyped
    <3>5. QED
      <4>1. BodyFits(route, given.routes, provCalls'[c]) /\ given'.routes = given.routes
        BY <3>1, <3>2
      <4>2. QED BY <3>2, <3>3, <3>4, <4>1, RoutesStay
  <2>6. ASSUME NEW c \in Calls, DeleteRoute(c) PROVE RoutesInv'
    <3>1. route' \in [RouteIds -> ModelRows] /\ given' = given
          /\ \A r \in RouteIds : route'[r] \in {route[r], NoRoute}
      <4>1. NoRoute \in ModelRows
        BY <2>b DEF NoRoute, ModelRows
      <4>2. route' = [route EXCEPT ![Target(c).id] = NoRoute] /\ given' = given
        BY <2>6 DEF DeleteRoute
      <4>3. QED BY <2>a, <4>1, <4>2 DEF RoutesTyped
    <3>2. \A r \in RouteIds : LiveIn(route', r) => route'[r] = route[r]
      BY <3>1 DEF LiveIn
    <3>3. /\ \A f : ShortIn(route, f) => ShortIn(route', f)
          /\ ChainsEnd(route')
      BY <2>a, <3>1, <3>2, DeletionShortens DEF RoutesInv, RoutesTyped
    <3>4. OnlyGiven(route', given'.routes)
      <4>1. given.routes \in Nat /\ NoRoute.fallback = 0 /\ OnlyGiven(route, given.routes)
        BY <2>b DEF RoutesInv, RoutesTyped, NoRoute
      <4>2. QED BY <3>1, <4>1 DEF OnlyGiven
    <3>5. BodyFits(route', given.routes, provCalls'[c])
      BY <2>6, ConcludedFits DEF DeleteRoute
    <3>6. RoutesTyped' /\ \A d \in Calls \ {c} : provCalls'[d] = provCalls[d]
      BY <2>6, <2>a, <3>1, RequestConcluded DEF DeleteRoute, RoutesTyped
    <3>7. ASSUME NEW d \in Calls PROVE BodyFits(route', given'.routes, provCalls'[d])
      <4>1. CASE d = c
        BY <3>1, <3>5, <4>1
      <4>2. CASE d # c
        <5>1. BodyFits(route, given.routes, provCalls[d]) /\ provCalls'[d] = provCalls[d]
          BY <3>6, <4>2 DEF RoutesInv
        <5>2. QED BY <3>1, <3>3, <5>1 DEF BodyFits
      <4>3. QED BY <4>1, <4>2
    <3>8. QED BY <3>3, <3>4, <3>6, <3>7 DEF RoutesInv
  <2>7. ASSUME NEW c \in Calls, CheckRoute(c) PROVE RoutesInv'
    <3>0. UNCHANGED LLMRows /\ providersUI' \in ProvidersState
      BY <2>7, <2>a DEF CheckRoute
    <3>1. CASE Target(c).to \in provider /\ ValidFallback(Target(c).fallback)
      <4> DEFINE row == [to |-> Target(c).to, fallback |-> Target(c).fallback]
      <4>1. provCalls[c].op = "route" /\ provCalls[c].arg \in Bodies
            /\ provCalls[c].arg.fallback <= given.routes
        BY <2>7 DEF CheckRoute, Serving, RoutesInv, BodyFits
      <4>2. row \in ModelRows /\ ShortIn(route, row.fallback)
        <5>1. Target(c).to \in 0..MaxProviders /\ Target(c).fallback \in 0..MaxRoutes
          BY <4>1 DEF Target, Bodies
        <5>2. QED BY <3>1, <5>1, CheckedFits DEF ModelRows
      <4>3. provCalls' = [provCalls EXCEPT ![c].ans = row] /\ unheard' \subseteq Calls
        BY <2>7, <3>1, <2>a DEF CheckRoute, RoutesTyped
      <4>4. provCalls' \in [Calls -> ProvSlot]
        BY <2>a, <4>2, <4>3 DEF ProvSlot, Slot, Places
      <4>5. provCalls'[c].arg = provCalls[c].arg /\ provCalls'[c].ans = row
            /\ \A d \in Calls \ {c} : provCalls'[d] = provCalls[d]
        BY <2>a, <4>3 DEF ProvSlot, Slot
      <4>6. BodyFits(route, given.routes, provCalls'[c])
        BY <4>1, <4>2, <4>5 DEF BodyFits, Target
      <4>7. QED BY <2>c, <3>0, <4>3, <4>4, <4>5, <4>6
    <3>2. CASE ~(Target(c).to \in provider /\ ValidFallback(Target(c).fallback))
      <4>1. Conclude(c, FALSE)
        BY <2>7, <3>2 DEF CheckRoute
      <4>2. BodyFits(route, given.routes, provCalls'[c])
        BY <4>1, ConcludedFits
      <4>3. QED BY <2>a, <2>c, <3>0, <4>1, <4>2, RequestConcluded
    <3>3. QED BY <3>1, <3>2
  <2>8. ASSUME NEW c \in Calls, InsertRoute(c) PROVE RoutesInv'
    <3>0. providersUI' = providersUI /\ provider' = provider
      BY <2>8 DEF InsertRoute
    <3>1. CASE Conclude(c, FALSE) /\ UNCHANGED <<route, given>>
      <4>1. UNCHANGED LLMRows /\ providersUI' \in ProvidersState
        BY <2>a, <3>0, <3>1 DEF LLMRows
      <4>2. BodyFits(route, given.routes, provCalls'[c])
        BY <3>1, ConcludedFits
      <4>3. QED BY <2>a, <2>c, <3>1, <4>1, <4>2, RequestConcluded
    <3>2. CASE /\ given.routes < MaxRoutes
               /\ given' = [given EXCEPT !.routes = @ + 1]
               /\ route' = [route EXCEPT ![given.routes + 1] = provCalls[c].ans]
               /\ Conclude(c, TRUE)
      <4> DEFINE n == given.routes
                 row == provCalls[c].ans
      <4>1. n \in 0..MaxRoutes /\ n + 1 \in RouteIds /\ given'.routes = n + 1
            /\ given' \in [providers : 0..MaxProviders, routes : 0..MaxRoutes]
        BY <2>a, <2>b, <3>2 DEF RoutesTyped, RouteIds
      <4>2. row \in ModelRows /\ row.fallback <= n /\ ShortIn(route, row.fallback)
        <5>1. provCalls[c].op = "route" /\ row # None
          BY <2>8 DEF InsertRoute, Serving
        <5>2. BodyFits(route, n, provCalls[c]) /\ row \in ModelRows \cup {None}
          BY <2>a DEF RoutesInv, ProvSlot, Slot
        <5>3. QED BY <5>1, <5>2 DEF BodyFits
      <4>3. route \in [RouteIds -> ModelRows] /\ OnlyGiven(route, n) /\ ChainsEnd(route)
        BY DEF RoutesInv, RoutesTyped
      <4>4. route'[n + 1] = row /\ \A r \in RouteIds \ {n + 1} : route'[r] = route[r]
        BY <3>2, <4>1, <4>3
      <4>a. n \in Nat
        BY <2>b, <4>1
      <4> HIDE DEF n, row
      <4>5. /\ \A f \in 0..MaxRoutes : f <= n /\ ShortIn(route, f) => ShortIn(route', f)
            /\ OnlyGiven(route', n + 1)
            /\ ChainsEnd(route')
        BY <4>a, <4>1, <4>2, <4>3, <4>4, InsertionEnds
      <4>6. route' \in [RouteIds -> ModelRows]
        BY <3>2, <4>1, <4>2, <4>3 DEF n, row
      <4>7. RoutesTyped' /\ \A d \in Calls \ {c} : provCalls'[d] = provCalls[d]
        BY <2>a, <3>0, <3>2, <4>1, <4>6, RequestConcluded DEF RoutesTyped
      <4>8. ASSUME NEW d \in Calls PROVE BodyFits(route', n + 1, provCalls'[d])
        <5>1. CASE d # c
          <6>1. BodyFits(route, n, provCalls[d]) /\ provCalls'[d] = provCalls[d]
                /\ provCalls[d].ans \in ModelRows \cup {None}
            BY <4>7, <5>1, <2>a DEF RoutesInv, n, ProvSlot, Slot
          <6>2. provCalls[d].ans # None => provCalls[d].ans.fallback \in 0..MaxRoutes
            BY <6>1 DEF ModelRows
          <6>3. provCalls[d].op = "route" => provCalls[d].arg.fallback \in 0..MaxRoutes
            BY <6>1 DEF BodyFits, Bodies
          <6>4. QED BY <2>b, <4>1, <4>5, <6>1, <6>2, <6>3 DEF BodyFits
        <5>2. CASE d = c
          <6>1. BodyFits(route, n, provCalls[c]) /\ provCalls[c].op = "route"
            BY <2>8 DEF RoutesInv, n, InsertRoute, Serving
          <6>2. provCalls[c].arg \in Bodies /\ provCalls[c].arg.fallback <= n + 1
            <7>1. provCalls[c].arg \in Bodies /\ provCalls[c].arg.fallback <= n
              BY <6>1 DEF BodyFits
            <7>2. QED BY <2>b, <4>1, <7>1 DEF Bodies
          <6>3. \/ provCalls'[c].op = None
                \/ provCalls'[c].arg = provCalls[c].arg /\ provCalls'[c].ans = None
            BY <2>a, <3>2, RequestConcluded
          <6>4. QED BY <5>2, <6>2, <6>3, <2>d, RoutesAssumption DEF BodyFits, ProviderOps
        <5>3. QED BY <5>1, <5>2
      <4>9. QED BY <4>1, <4>5, <4>7, <4>8 DEF RoutesInv
    <3>3. QED BY <2>8, <3>1, <3>2 DEF InsertRoute
  <2>9. ASSUME NEW c \in Calls, BreakProviderCall(c) PROVE RoutesInv'
    <3>1. UNCHANGED LLMRows /\ providersUI' \in ProvidersState /\ Conclude(c, FALSE)
      BY <2>9, <2>a DEF BreakProviderCall
    <3>2. BodyFits(route, given.routes, provCalls'[c])
      BY <3>1, ConcludedFits
    <3>3. QED BY <2>a, <2>c, <3>1, <3>2, RequestConcluded
  <2>10. ASSUME NEW c \in Calls, SettleReload(c) PROVE RoutesInv'
    <3>1. UNCHANGED LLMRows /\ unheard' \subseteq Calls /\ providersUI' \in ProvidersState
      BY <2>10, <2>a, ProvidersPageMoves DEF SettleReload, RoutesTyped
    <3>2. provCalls' = End(provCalls, c)
      BY <2>10 DEF SettleReload
    <3>3. QED BY <2>a, <2>c, <2>d, <3>1, <3>2, RequestEnded
  <2>11. ASSUME NEW c \in Calls, SettleProvider(c) \/ SettleAddNow(c) PROVE RoutesInv'
    <3>1. UNCHANGED LLMRows /\ unheard' \subseteq Calls
      BY <2>11, <2>a DEF SettleProvider, SettleAddNow, RoutesTyped
    <3>2. providersUI' \in ProvidersState
      BY <2>11, <2>a, ProvidersPageMoves DEF SettleProvider, SettleAddNow
    <3>3. \/ provCalls' = End(provCalls, c)
          \/ \E op \in {"reload", "reloadAdded"} : provCalls' = Send(provCalls, c, op, None)
      BY <2>11 DEF SettleProvider, SettleAddNow
    <3>4. /\ provCalls' \in [Calls -> ProvSlot]
          /\ \A d \in Calls \ {c} : provCalls'[d] = provCalls[d]
          /\ provCalls'[c].op \in {None, "reload", "reloadAdded"}
      BY <2>a, <3>3, RequestEnded, RequestSent DEF ProviderOps
    <3>5. QED BY <2>c, <2>d, <3>1, <3>2, <3>4
  <2>12. ASSUME NEW c \in Calls, SettleRoute(c) PROVE RoutesInv'
    <3>1. UNCHANGED LLMRows /\ unheard' \subseteq Calls
      BY <2>12, <2>a DEF SettleRoute, RoutesTyped
    <3>2. provCalls[c].op = "route" /\ Target(c) \in Bodies /\ Target(c).fallback <= given.routes
      BY <2>12 DEF SettleRoute, RoutesInv, BodyFits, Target
    <3>3. CASE providersUI.todo > 0
      <4>1. provCalls' = Send(provCalls, c, "route", Target(c)) /\ "route" \in ProviderOps
        BY <2>12, <3>3 DEF SettleRoute, ProviderOps
      <4>2. providersUI' \in ProvidersState
        <5>1. \E b \in BOOLEAN :
                providersUI' = [providersUI EXCEPT !.todo = @ - 1, !.errors = b]
          <6>1. (providersUI.errors \/ ~Worked(c)) \in BOOLEAN
            BY <2>a DEF ProvidersState
          <6>2. QED BY <2>12, <3>3, <6>1 DEF SettleRoute
        <5>2. QED BY <2>a, <3>3, <5>1, ProvidersPageMoves
      <4>3. QED BY <2>a, <2>c, <3>1, <3>2, <4>1, <4>2, RequestSent DEF BodyFits
    <3>4. CASE ~(providersUI.todo > 0)
      <4>1. provCalls' = Send(provCalls, c, "reload", None) /\ "reload" \in ProviderOps
        BY <2>12, <3>4 DEF SettleRoute, ProviderOps
      <4>2. providersUI' \in ProvidersState
        <5>1. \E b \in BOOLEAN :
                providersUI' = [providersUI EXCEPT !.errors = FALSE,
                                  !.dialogs = IF b THEN @ ELSE @ \ {"route"}]
          <6>1. (providersUI.errors \/ ~Worked(c)) \in BOOLEAN
            BY <2>a DEF ProvidersState
          <6>2. QED BY <2>12, <3>4, <6>1 DEF SettleRoute
        <5>2. QED BY <2>a, <5>1, ProvidersPageMoves
      <4>3. QED BY <2>a, <2>c, <2>d, <3>1, <4>1, <4>2, RequestSent
    <3>5. QED BY <3>3, <3>4
  <2>13. CASE UNCHANGED providersVars
    BY <2>13 DEF providersVars, RoutesInv, RoutesTyped
  <2>14. QED
    BY <2>1, <2>2, <2>3, <2>4, <2>5, <2>6, <2>7, <2>8, <2>9, <2>10, <2>11, <2>12, <2>13
    DEF ProvidersNext
<1>3. QED BY <1>1, <1>2, PTL DEF ProvidersSpec

(* A route's fallbacks, and those of a route about to be inserted, end after *)
(* two hops, however the submissions and the deletions of several dashboards *)
(* interleave, although a deletion takes nothing with it and the INSERT      *)
(* comes after the checks.                                                   *)
THEOREM FallbacksAreShort == ProvidersSpec => []FallbacksEnd
<1>1. ASSUME RoutesInv PROVE FallbacksEnd
  <2>1. \A f : ShortIn(route, f) => OneMore(f)
    BY DEF ShortIn, OneMore, LiveIn, HopIn, Live, Hop
  <2>2. ASSUME NEW r \in RouteIds, Live(r) PROVE OneMore(Hop(r))
    BY <1>1, <2>1, <2>2 DEF RoutesInv, ChainsEnd, LiveIn, HopIn, Live, Hop
  <2>3. ASSUME NEW c \in Calls, Serving(c, "route"), provCalls[c].ans # None
        PROVE  OneMore(provCalls[c].ans.fallback)
    BY <1>1, <2>1, <2>3 DEF RoutesInv, BodyFits, Serving
  <2>4. QED BY <2>2, <2>3 DEF FallbacksEnd
<1>2. QED BY <1>1, RoutesInvariant, PTL

-----------------------------------------------------------------------------
(* The first-run wizard.                                                    *)

WizardSteps == {"welcome", "server", "key", "client", "done", "left"}
PageOfWizard == [step : WizardSteps, server : Sites \cup {None}, key : WizardKeys \cup {None},
                 indexing : BOOLEAN, indexError : BOOLEAN, creatingKey : BOOLEAN,
                 finishing : BOOLEAN]

(* What an answer brings: a server is the one the request was for.          *)
WizardFits(s) ==
  /\ s.op = "reindex" => s.arg \in Sites
  /\ s.op \in Creations /\ s.at = "answered" => s.ans \in Sites /\ s.arg \in {None, s.ans}
  /\ s.op = "key" /\ s.at = "answered" => s.ans \in WizardKeys

AnyWizardSlot == Slot(WizardOps, Sites, Sites \cup WizardKeys)
WizardSlot == {s \in AnyWizardSlot : WizardFits(s)}

WizardTyped ==
  /\ made \in [Sites -> SiteStates]
  /\ keySite \in [WizardKeys -> Sites \cup {None}]
  /\ wizard \in PageOfWizard
  /\ wizCalls \in [Calls -> WizardSlot]
  /\ crossed \in BOOLEAN

InCatalog(s) == s \in Sites /\ made[s] = "indexed"
WorksAt(c) == wizCalls[c].op \in Working
OneWorks == \A c, d \in Calls : WorksAt(c) /\ WorksAt(d) => c = d

(* A request about the server is made before there is a step that needs one; *)
(* one about the key is for the server the wizard shows.                     *)
Timely(c) ==
  /\ wizCalls[c].op \in Creations \cup {"reindex"} =>
       /\ wizard.step \notin {"key", "client", "done"}
       /\ wizCalls[c].at = "answered" /\ wizCalls[c].arg # None /\ wizCalls[c].ans # None
            => InCatalog(wizCalls[c].arg)
  /\ wizCalls[c].op = "key" =>
       /\ wizCalls[c].arg = wizard.server /\ InCatalog(wizard.server)
       /\ wizCalls[c].at = "answered" => keySite[wizCalls[c].ans] = wizCalls[c].arg

(* What each step of the wizard has behind it.                               *)
Reached ==
  /\ wizard.step \in {"key", "client", "done"} => InCatalog(wizard.server)
  /\ wizard.step \in {"client", "done"} =>
       wizard.key \in WizardKeys /\ keySite[wizard.key] = wizard.server

InOrder == ~crossed => OneWorks /\ Reached /\ \A c \in Calls : Timely(c)

WizardInv == WizardTyped /\ InOrder

LEMMA WizardSlotMoves ==
  ASSUME wizCalls \in [Calls -> WizardSlot], NEW c \in Calls
  PROVE  /\ End(wizCalls, c) \in [Calls -> WizardSlot]
         /\ \A op \in WizardOps \ {"reindex"}, x \in Sites \cup {None} :
              Send(wizCalls, c, op, x) \in [Calls -> WizardSlot]
         /\ \A x \in Sites : Send(wizCalls, c, "reindex", x) \in [Calls -> WizardSlot]
         /\ Reject(wizCalls, c) \in [Calls -> WizardSlot]
         /\ wizCalls[c].op = "reindex" => \A x \in Sites \cup {None} :
              Answer(wizCalls, c, x) \in [Calls -> WizardSlot]
         /\ wizCalls[c].op = "key" => \A x \in WizardKeys :
              Answer(wizCalls, c, x) \in [Calls -> WizardSlot]
         /\ wizCalls[c].op \in {"finish", "skip"} => Answer(wizCalls, c, None) \in [Calls -> WizardSlot]
         /\ wizCalls[c].op \in Creations => \A s \in Sites, x \in Sites \cup {None} :
              x \in {None, s} => [wizCalls EXCEPT ![c].at = "answered", ![c].ans = s, ![c].arg = x]
                                    \in [Calls -> WizardSlot]
<1> USE DEF Slot, Places
<1>1. ASSUME NEW s \in WizardSlot PROVE [wizCalls EXCEPT ![c] = s] \in [Calls -> WizardSlot]
  BY <1>1
<1>2. Idle \in WizardSlot
  BY WizardAssumption DEF Idle, WizardSlot, AnyWizardSlot, WizardFits, WizardOps
<1>3. wizCalls[c] \in AnyWizardSlot /\ WizardFits(wizCalls[c])
  BY DEF WizardSlot
<1>4. ASSUME NEW op \in WizardOps, NEW x \in Sites \cup {None}, op = "reindex" => x \in Sites
      PROVE  [at |-> "sent", op |-> op, arg |-> x, ans |-> None] \in WizardSlot
  BY <1>4 DEF WizardSlot, AnyWizardSlot, WizardFits
<1>5. [wizCalls[c] EXCEPT !.at = "failed", !.ans = None] \in WizardSlot
  BY <1>3 DEF WizardSlot, AnyWizardSlot, WizardFits
<1>6. ASSUME NEW x \in Sites \cup WizardKeys \cup {None},
             \/ wizCalls[c].op = "reindex" \/ wizCalls[c].op \in {"finish", "skip"}
             \/ wizCalls[c].op = "key" /\ x \in WizardKeys
      PROVE  [wizCalls[c] EXCEPT !.at = "answered", !.ans = x] \in WizardSlot
  BY <1>3, <1>6 DEF WizardSlot, AnyWizardSlot, WizardFits, Creations
<1>7. ASSUME NEW s \in Sites, NEW x \in {None, s}, wizCalls[c].op \in Creations
      PROVE  [wizCalls[c] EXCEPT !.at = "answered", !.ans = s, !.arg = x] \in WizardSlot
  BY <1>3, <1>7 DEF WizardSlot, AnyWizardSlot, WizardFits, Creations
<1>8. End(wizCalls, c) \in [Calls -> WizardSlot]
  BY <1>1, <1>2 DEF End
<1>9. \A op \in WizardOps \ {"reindex"}, x \in Sites \cup {None} :
        Send(wizCalls, c, op, x) \in [Calls -> WizardSlot]
  BY <1>1, <1>4 DEF Send
<1>10. \A x \in Sites : Send(wizCalls, c, "reindex", x) \in [Calls -> WizardSlot]
  BY <1>1, <1>4 DEF Send, WizardOps
<1>11. Reject(wizCalls, c) \in [Calls -> WizardSlot]
  BY <1>1, <1>5 DEF Reject
<1>12. wizCalls[c].op = "reindex" => \A x \in Sites \cup {None} :
         Answer(wizCalls, c, x) \in [Calls -> WizardSlot]
  BY <1>1, <1>6 DEF Answer
<1>13. wizCalls[c].op = "key" => \A x \in WizardKeys : Answer(wizCalls, c, x) \in [Calls -> WizardSlot]
  BY <1>1, <1>6 DEF Answer
<1>14. wizCalls[c].op \in {"finish", "skip"} => Answer(wizCalls, c, None) \in [Calls -> WizardSlot]
  BY <1>1, <1>6 DEF Answer
<1>15. ASSUME NEW s \in Sites, NEW x \in Sites \cup {None}, x \in {None, s}, wizCalls[c].op \in Creations
       PROVE  [wizCalls EXCEPT ![c].at = "answered", ![c].ans = s, ![c].arg = x] \in [Calls -> WizardSlot]
  BY <1>1, <1>7, <1>15
<1>16. QED BY <1>8, <1>9, <1>10, <1>11, <1>12, <1>13, <1>14, <1>15

LEMMA WizardSlotHolds ==
  ASSUME wizCalls \in [Calls -> WizardSlot], NEW c \in Calls
  PROVE  /\ \A op, arg :
              /\ Send(wizCalls, c, op, arg)[c] = [at |-> "sent", op |-> op, arg |-> arg, ans |-> None]
              /\ \A d \in Calls \ {c} : Send(wizCalls, c, op, arg)[d] = wizCalls[d]
         /\ \A ans :
              /\ Answer(wizCalls, c, ans)[c].op = wizCalls[c].op
              /\ Answer(wizCalls, c, ans)[c].arg = wizCalls[c].arg
              /\ Answer(wizCalls, c, ans)[c].at = "answered"
              /\ Answer(wizCalls, c, ans)[c].ans = ans
              /\ \A d \in Calls \ {c} : Answer(wizCalls, c, ans)[d] = wizCalls[d]
         /\ Reject(wizCalls, c)[c].op = wizCalls[c].op
         /\ Reject(wizCalls, c)[c].arg = wizCalls[c].arg
         /\ Reject(wizCalls, c)[c].at = "failed"
         /\ \A d \in Calls \ {c} : Reject(wizCalls, c)[d] = wizCalls[d]
         /\ End(wizCalls, c)[c].op = None
         /\ \A d \in Calls \ {c} : End(wizCalls, c)[d] = wizCalls[d]
BY DEF WizardSlot, AnyWizardSlot, Slot, Send, Answer, Reject, End, Idle

LEMMA WizardTypeHolds ==
  ASSUME WizardTyped, [WizardNext]_wizardVars
  PROVE  WizardTyped'
<1>a. /\ made \in [Sites -> SiteStates] /\ keySite \in [WizardKeys -> Sites \cup {None}]
      /\ wizard \in PageOfWizard /\ wizCalls \in [Calls -> WizardSlot] /\ crossed \in BOOLEAN
      /\ \A c \in Calls : WizardFits(wizCalls[c]) /\ wizCalls[c] \in AnyWizardSlot
  BY DEF WizardTyped, WizardSlot
<1>b. ASSUME made' \in [Sites -> SiteStates], keySite' \in [WizardKeys -> Sites \cup {None}],
             wizard' \in PageOfWizard, wizCalls' \in [Calls -> WizardSlot], crossed' \in BOOLEAN
      PROVE  WizardTyped'
  BY <1>b DEF WizardTyped
<1>c. /\ {"server", "preset", "key", "finish", "skip"} \subseteq WizardOps \ {"reindex"}
      /\ {"none", "unindexed", "indexed"} \subseteq SiteStates
  BY DEF WizardOps, Creations, SiteStates
<1>1. CASE UNCHANGED wizardVars
  BY <1>1, <1>a, <1>b DEF wizardVars
<1>2. CASE Walk \/ RefusePreset
  <2>1. \A step \in WizardSteps : [wizard EXCEPT !.step = step] \in PageOfWizard
    BY <1>a DEF PageOfWizard
  <2>2. wizard' \in PageOfWizard
    BY <1>2, <2>1, <1>a DEF Walk, Goto, WizardSteps, RefusePreset, PageOfWizard
  <2>3. QED BY <1>2, <2>2, <1>a, <1>b DEF Walk, RefusePreset, Rows
<1>3. ASSUME NEW c \in Calls, SubmitServer(c) \/ AddPreset(c) \/ RetryIndex(c)
      PROVE  WizardTyped'
  <2>1. PICK op \in WizardOps, arg \in Sites \cup {None} :
               Indexing(c, op, arg) /\ (op = "reindex" => arg \in Sites)
    BY <1>3, <1>a DEF SubmitServer, AddPreset, RetryIndex, PageOfWizard, WizardOps, Creations
  <2>2. wizard' \in PageOfWizard
    BY <2>1, <1>a DEF Indexing, PageOfWizard
  <2>3. Send(wizCalls, c, op, arg) \in [Calls -> WizardSlot]
    BY <2>1, <1>a, WizardSlotMoves
  <2>4. crossed' \in BOOLEAN
    BY <2>1 DEF Indexing, Request
  <2>5. QED BY <2>1, <2>2, <2>3, <2>4, <1>a, <1>b DEF Indexing, Request, Rows
<1>4. ASSUME NEW c \in Calls, CreateWizardKey(c) \/ Finish(c) \/ Skip(c) PROVE WizardTyped'
  <2>1. PICK op \in {"key", "finish", "skip"}, arg \in Sites \cup {None} : Request(c, op, arg)
    BY <1>4, <1>a DEF CreateWizardKey, Finish, Skip, PageOfWizard
  <2>2. wizard' \in PageOfWizard
    BY <1>4, <1>a DEF CreateWizardKey, Finish, Skip, PageOfWizard
  <2>3. Send(wizCalls, c, op, arg) \in [Calls -> WizardSlot]
    BY <2>1, <1>a, <1>c, WizardSlotMoves
  <2>4. crossed' \in BOOLEAN
    BY <2>1 DEF Request
  <2>5. QED BY <2>1, <2>2, <2>3, <2>4, <1>a, <1>b DEF Request, Rows
<1>5. ASSUME NEW c \in Calls, ServeSite(c) PROVE WizardTyped'
  <2>1. PICK s \in Sites, state \in {"unindexed", "indexed"} :
          /\ made' = [made EXCEPT ![s] = state]
          /\ wizCalls' = [wizCalls EXCEPT ![c].at = "answered", ![c].ans = s,
                                          ![c].arg = IF state = "indexed" THEN s ELSE None]
    BY <1>5 DEF ServeSite
  <2> DEFINE arg == IF state = "indexed" THEN s ELSE None
  <2>2. arg \in Sites \cup {None} /\ arg \in {None, s}
    OBVIOUS
  <2>3. wizCalls' = [wizCalls EXCEPT ![c].at = "answered", ![c].ans = s, ![c].arg = arg]
    BY <2>1
  <2> HIDE DEF arg
  <2>4. wizCalls' \in [Calls -> WizardSlot]
    BY <1>5, <2>2, <2>3, <1>a, WizardSlotMoves DEF ServeSite
  <2>5. made' \in [Sites -> SiteStates]
    BY <2>1, <1>a, <1>c
  <2>6. QED BY <1>5, <2>4, <2>5, <1>a, <1>b DEF ServeSite
<1>6. ASSUME NEW c \in Calls, ServeReindex(c) PROVE WizardTyped'
  <2>1. wizCalls[c].op = "reindex" /\ wizCalls[c].arg \in Sites
    BY <1>6, <1>a DEF ServeReindex, WizardFits
  <2>2. /\ Answer(wizCalls, c, wizCalls[c].arg) \in [Calls -> WizardSlot]
        /\ Answer(wizCalls, c, None) \in [Calls -> WizardSlot]
    BY <2>1, <1>a, WizardSlotMoves
  <2>3. [made EXCEPT ![wizCalls[c].arg] = "indexed"] \in [Sites -> SiteStates]
    BY <2>1, <1>a, <1>c
  <2>4. QED BY <1>6, <2>2, <2>3, <1>a, <1>b DEF ServeReindex
<1>7. ASSUME NEW c \in Calls, ServeWizardKey(c) PROVE WizardTyped'
  <2>1. PICK k \in WizardKeys : /\ keySite' = [keySite EXCEPT ![k] = wizCalls[c].arg]
                                /\ wizCalls' = Answer(wizCalls, c, k)
    BY <1>7 DEF ServeWizardKey
  <2>2. Answer(wizCalls, c, k) \in [Calls -> WizardSlot]
    BY <1>7, <1>a, WizardSlotMoves DEF ServeWizardKey
  <2>3. wizCalls[c].arg \in Sites \cup {None}
    BY <1>a DEF AnyWizardSlot, Slot
  <2>4. keySite' \in [WizardKeys -> Sites \cup {None}]
    BY <2>1, <2>3, <1>a
  <2>5. QED BY <1>7, <2>1, <2>2, <2>4, <1>a, <1>b DEF ServeWizardKey
<1>8. ASSUME NEW c \in Calls, ServeDone(c) \/ BreakWizardCall(c) PROVE WizardTyped'
  <2>1. /\ wizCalls[c].op \in {"finish", "skip"} => Answer(wizCalls, c, None) \in [Calls -> WizardSlot]
        /\ Reject(wizCalls, c) \in [Calls -> WizardSlot]
    BY <1>a, WizardSlotMoves
  <2>2. QED BY <1>8, <2>1, <1>a, <1>b DEF ServeDone, BreakWizardCall, Rows
<1>9. ASSUME NEW c \in Calls, \/ SettleSite(c) \/ SettleReindex(c) \/ SettleWizardKey(c)
                              \/ SettleDone(c) \/ SettleFailure(c)
      PROVE  WizardTyped'
  <2>1. Moved("key") \in WizardSteps /\ Moved("client") \in WizardSteps /\ wizard.step \in WizardSteps
    BY <1>a DEF Moved, PageOfWizard, WizardSteps
  <2>2. wizard' \in PageOfWizard
    <3>1. CASE SettleSite(c)
      <4>1. wizCalls[c].ans \in Sites
        BY <3>1, <1>a DEF SettleSite, WizardFits
      <4>2. QED BY <3>1, <4>1, <2>1, <1>a DEF SettleSite, PageOfWizard
    <3>2. CASE SettleReindex(c)
      <4>1. wizCalls[c].arg \in Sites
        BY <3>2, <1>a DEF SettleReindex, WizardFits
      <4>2. QED BY <3>2, <4>1, <2>1, <1>a DEF SettleReindex, PageOfWizard
    <3>3. CASE SettleWizardKey(c)
      <4>1. wizCalls[c].ans \in WizardKeys
        BY <3>3, <1>a DEF SettleWizardKey, WizardFits
      <4>2. QED BY <3>3, <4>1, <2>1, <1>a DEF SettleWizardKey, PageOfWizard
    <3>4. CASE SettleDone(c) \/ SettleFailure(c)
      BY <3>4, <1>a DEF SettleDone, SettleFailure, Goto, PageOfWizard, WizardSteps
    <3>5. QED BY <1>9, <3>1, <3>2, <3>3, <3>4
  <2>3. Ends(c)
    BY <1>9 DEF SettleSite, SettleReindex, SettleWizardKey, SettleDone, SettleFailure
  <2>4. End(wizCalls, c) \in [Calls -> WizardSlot]
    BY <1>a, WizardSlotMoves
  <2>5. QED BY <2>2, <2>3, <2>4, <1>a, <1>b DEF Ends, Rows
<1>10. QED BY <1>1, <1>2, <1>3, <1>4, <1>5, <1>6, <1>7, <1>8, <1>9 DEF WizardNext

(* A request that ends, or that is about neither the server nor the key,     *)
(* and leaves the rows alone, leaves the others in order.                    *)
LEMMA OrderStays ==
  ASSUME WizardInv, ~crossed, NEW c \in Calls, ~WorksAt(c)',
         \A d \in Calls \ {c} : wizCalls'[d] = wizCalls[d],
         UNCHANGED <<made, keySite>>,
         Reached',
         \/ /\ wizard'.server = wizard.server
            /\ wizard'.step \in {"key", "client", "done"} => wizard.step \in {"key", "client", "done"}
         \/ \A d \in Calls \ {c} : ~WorksAt(d)
  PROVE  InOrder'
<1>1. OneWorks /\ \A d \in Calls : Timely(d)
  BY DEF WizardInv, InOrder
<1>2. \A d \in Calls \ {c} : WorksAt(d)' = WorksAt(d)
  BY DEF WorksAt
<1>3. \A s : InCatalog(s)' = InCatalog(s)
  BY DEF InCatalog
<1>4. OneWorks'
  BY <1>1, <1>2 DEF OneWorks
<1>5. ASSUME NEW d \in Calls PROVE Timely(d)'
  <2>1. CASE d = c \/ ~WorksAt(d)
    <3>1. ~WorksAt(d)'
      BY <1>2, <2>1
    <3>2. QED BY <3>1 DEF Timely, WorksAt, Working
  <2>2. CASE d # c /\ WorksAt(d)
    BY <2>2, <1>1 DEF Timely, InCatalog
  <2>3. QED BY <2>1, <2>2
<1>6. QED BY <1>4, <1>5 DEF InOrder

LEMMA OrderHolds ==
  ASSUME WizardInv, WizardTyped', [WizardNext]_wizardVars
  PROVE  InOrder'
<1> SUFFICES ASSUME ~crossed' PROVE InOrder'
  BY DEF InOrder
<1>a. /\ wizard \in PageOfWizard /\ wizCalls \in [Calls -> WizardSlot]
      /\ made \in [Sites -> SiteStates] /\ keySite \in [WizardKeys -> Sites \cup {None}]
      /\ \A c \in Calls : WizardFits(wizCalls[c]) /\ wizCalls[c] \in AnyWizardSlot
  BY DEF WizardInv, WizardTyped, WizardSlot
<1>b. ~crossed
  BY DEF WizardNext, wizardVars, Walk, RefusePreset, SubmitServer, AddPreset, RetryIndex, Indexing, CreateWizardKey,
    Finish, Skip, Request, ServeSite, ServeReindex, ServeWizardKey, ServeDone, BreakWizardCall,
    SettleSite, SettleReindex, SettleWizardKey, SettleDone, SettleFailure, Ends
<1>c. OneWorks /\ Reached /\ \A c \in Calls : Timely(c)
  BY <1>b DEF WizardInv, InOrder
<1>d. None \notin Working /\ None \notin Sites /\ None \notin WizardKeys
  BY WizardAssumption DEF WizardOps, Working
<1>e. ASSUME NEW c \in Calls, WorksAt(c) PROVE \A d \in Calls \ {c} : ~WorksAt(d)
  BY <1>e, <1>c DEF OneWorks
\* after a step about the only request in hand, that request alone is to be looked at
<1>f. ASSUME NEW c \in Calls, \A d \in Calls \ {c} : ~WorksAt(d) /\ wizCalls'[d] = wizCalls[d],
             Reached', Timely(c)'
      PROVE  InOrder'
  <2>1. \A d \in Calls \ {c} : ~WorksAt(d)'
    BY <1>f DEF WorksAt
  <2>2. OneWorks'
    BY <2>1 DEF OneWorks
  <2>3. \A d \in Calls \ {c} : Timely(d)'
    BY <2>1 DEF Timely, WorksAt, Working
  <2>4. QED BY <1>f, <2>2, <2>3 DEF InOrder
<1>1. CASE UNCHANGED wizardVars
  BY <1>1, <1>c DEF wizardVars, InOrder, OneWorks, Reached, Timely, WorksAt, InCatalog
<1>2. CASE Walk \/ RefusePreset
  <2>1. /\ wizard'.server = wizard.server /\ wizard'.key = wizard.key
        /\ wizard'.step \in {"key", "client", "done"} => wizard.step \in {"key", "client", "done"}
        /\ wizard'.step \in {"client", "done"} => wizard.step \in {"client", "done"}
    BY <1>2, <1>a DEF Walk, RefusePreset, Goto, AtStep, PageOfWizard
  <2>2. UNCHANGED <<made, keySite, wizCalls>>
    BY <1>2 DEF Walk, RefusePreset, Rows
  <2>3. OneWorks' /\ Reached'
    BY <2>1, <2>2, <1>c DEF OneWorks, WorksAt, Reached, InCatalog
  <2>4. ASSUME NEW c \in Calls PROVE Timely(c)'
    BY <2>1, <2>2, <1>c DEF Timely, InCatalog
  <2>5. QED BY <2>3, <2>4 DEF InOrder
<1>3. ASSUME NEW c \in Calls, SubmitServer(c) \/ AddPreset(c) \/ RetryIndex(c) PROVE InOrder'
  <2>1. PICK op \in Creations \cup {"reindex"}, arg \in Sites \cup {None} :
               AtStep("server") /\ Indexing(c, op, arg)
    BY <1>3, <1>a DEF SubmitServer, AddPreset, RetryIndex, PageOfWizard, Creations
  <2>2. wizard'.step = "server"
    BY <2>1, <1>a DEF Indexing, AtStep, PageOfWizard
  <2>3. \A d \in Calls : ~WorksAt(d)
    BY <2>1, <1>b DEF Indexing, Request, Flying, WorksAt, Working
  <2>4. /\ wizCalls'[c] = [at |-> "sent", op |-> op, arg |-> arg, ans |-> None]
        /\ \A d \in Calls \ {c} : wizCalls'[d] = wizCalls[d]
    BY <2>1, <1>a, WizardSlotHolds DEF Indexing, Request
  <2>5. Reached' /\ Timely(c)'
    BY <2>2, <2>4 DEF Reached, Timely, Creations
  <2>6. QED BY <2>3, <2>4, <2>5, <1>f
<1>4. ASSUME NEW c \in Calls, CreateWizardKey(c) PROVE InOrder'
  <2>1. AtStep("key") /\ Request(c, "key", wizard.server)
    BY <1>4 DEF CreateWizardKey
  <2>2. wizard'.step = wizard.step /\ wizard'.server = wizard.server /\ wizard'.key = wizard.key
    BY <1>4, <1>a DEF CreateWizardKey, PageOfWizard
  <2>3. \A d \in Calls : ~WorksAt(d)
    BY <2>1, <1>b DEF Request, Flying, WorksAt, Working
  <2>4. /\ wizCalls'[c] = [at |-> "sent", op |-> "key", arg |-> wizard.server, ans |-> None]
        /\ \A d \in Calls \ {c} : wizCalls'[d] = wizCalls[d]
        /\ UNCHANGED <<made, keySite>>
    BY <2>1, <1>a, WizardSlotHolds DEF Request, Rows
  <2>5. Reached' /\ InCatalog(wizard.server)'
    BY <2>1, <2>2, <2>4, <1>c DEF Reached, InCatalog, AtStep
  <2>6. Timely(c)'
    BY <2>2, <2>4, <2>5 DEF Timely, Creations, InCatalog
  <2>7. QED BY <2>3, <2>4, <2>5, <2>6, <1>f
<1>5. ASSUME NEW c \in Calls, Finish(c) \/ Skip(c) PROVE InOrder'
  <2>1. PICK op \in {"finish", "skip"} : Request(c, op, None)
    BY <1>5 DEF Finish, Skip
  <2>2. wizard'.step = wizard.step /\ wizard'.server = wizard.server /\ wizard'.key = wizard.key
    BY <1>5, <1>a DEF Finish, Skip, PageOfWizard
  <2>3. /\ wizCalls'[c].op = op
        /\ \A d \in Calls \ {c} : wizCalls'[d] = wizCalls[d]
        /\ UNCHANGED <<made, keySite>>
    <3>1. wizCalls' = Send(wizCalls, c, op, None) /\ UNCHANGED <<made, keySite>>
      BY <2>1 DEF Request, Rows
    <3>2. /\ Send(wizCalls, c, op, None)[c].op = op
          /\ \A d \in Calls \ {c} : Send(wizCalls, c, op, None)[d] = wizCalls[d]
      BY <1>a DEF Send
    <3>3. QED BY <3>1, <3>2
  <2>4. ~WorksAt(c)'
    BY <2>3 DEF WorksAt, Working, Creations
  <2>5. Reached'
    BY <2>2, <2>3, <1>c DEF Reached, InCatalog
  <2>6. QED BY <2>2, <2>3, <2>4, <2>5, <1>b, OrderStays
<1>6. ASSUME NEW c \in Calls, ServeSite(c) PROVE InOrder'
  <2>1. wizCalls[c].op \in Creations /\ wizard' = wizard /\ keySite' = keySite
    BY <1>6 DEF ServeSite
  <2>2. WorksAt(c) /\ wizard.step \notin {"key", "client", "done"}
    BY <2>1, <1>c DEF WorksAt, Working, Timely
  <2>3. PICK s \in Sites, state \in {"unindexed", "indexed"} :
          /\ made' = [made EXCEPT ![s] = state]
          /\ wizCalls' = [wizCalls EXCEPT ![c].at = "answered", ![c].ans = s,
                                          ![c].arg = IF state = "indexed" THEN s ELSE None]
    BY <1>6 DEF ServeSite
  <2>4. wizCalls'[c].op = wizCalls[c].op /\ (wizCalls[c].arg # None => InCatalog(wizCalls[c].arg))'
    <3>1. /\ wizCalls'[c].op = wizCalls[c].op
          /\ wizCalls'[c].arg = IF state = "indexed" THEN s ELSE None
      BY <2>3, <1>a DEF AnyWizardSlot, Slot
    <3>2. made'[s] = state
      BY <2>3, <1>a
    <3>3. QED BY <3>1, <3>2 DEF InCatalog
  <2>5. \A d \in Calls \ {c} : wizCalls'[d] = wizCalls[d]
    BY <2>3, <1>a
  <2>6. Reached'
    BY <2>1, <2>2 DEF Reached
  <2>7. Timely(c)'
    BY <2>1, <2>2, <2>4 DEF Timely, Creations
  <2>8. QED BY <2>2, <2>5, <2>6, <2>7, <1>e, <1>f
<1>7. ASSUME NEW c \in Calls, ServeReindex(c) PROVE InOrder'
  <2>1. /\ wizCalls[c].op = "reindex" /\ wizCalls[c].arg \in Sites
        /\ wizard' = wizard /\ keySite' = keySite
    BY <1>7, <1>a DEF ServeReindex, WizardFits
  <2>2. WorksAt(c) /\ wizard.step \notin {"key", "client", "done"}
    BY <2>1, <1>c DEF WorksAt, Working, Timely
  <2>3. \A d \in Calls \ {c} : wizCalls'[d] = wizCalls[d]
    BY <1>7, <1>a, WizardSlotHolds DEF ServeReindex
  <2>4. /\ wizCalls'[c].op = "reindex" /\ wizCalls'[c].arg = wizCalls[c].arg
        /\ wizCalls'[c].ans # None => made'[wizCalls[c].arg] = "indexed"
    BY <1>7, <2>1, <1>a, WizardSlotHolds DEF ServeReindex
  <2>5. Reached'
    BY <2>1, <2>2 DEF Reached
  <2>6. Timely(c)'
    BY <2>1, <2>2, <2>4 DEF Timely, InCatalog
  <2>7. QED BY <2>2, <2>3, <2>5, <2>6, <1>e, <1>f
<1>8. ASSUME NEW c \in Calls, ServeWizardKey(c) PROVE InOrder'
  <2>1. PICK k \in WizardKeys : /\ keySite[k] = None
                                /\ keySite' = [keySite EXCEPT ![k] = wizCalls[c].arg]
                                /\ wizCalls' = Answer(wizCalls, c, k)
    BY <1>8 DEF ServeWizardKey
  <2>2. wizCalls[c].op = "key" /\ wizard' = wizard /\ made' = made
    BY <1>8 DEF ServeWizardKey
  <2>3. /\ wizCalls'[c].op = "key" /\ wizCalls'[c].arg = wizCalls[c].arg /\ wizCalls'[c].ans = k
        /\ \A d \in Calls \ {c} : wizCalls'[d] = wizCalls[d]
    BY <2>1, <2>2, <1>a, WizardSlotHolds
  <2>4. WorksAt(c)
    BY <2>2 DEF WorksAt, Working
  <2>5. wizCalls[c].arg = wizard.server /\ InCatalog(wizard.server)
    BY <2>2, <1>c DEF Timely
  <2>6. wizard.step \in {"client", "done"} => wizard.key # k
    BY <2>1, <2>5, <1>c, <1>d DEF Reached, InCatalog
  <2>7. Reached'
    BY <2>1, <2>2, <2>6, <1>a, <1>c DEF Reached, InCatalog
  <2>8. keySite'[k] = wizCalls[c].arg
    BY <2>1, <1>a
  <2>9. Timely(c)'
    BY <2>2, <2>3, <2>5, <2>8 DEF Timely, Creations, InCatalog
  <2>10. QED BY <2>3, <2>4, <2>7, <2>9, <1>e, <1>f
<1>9. ASSUME NEW c \in Calls, ServeDone(c) \/ BreakWizardCall(c) PROVE InOrder'
  <2>1. /\ wizCalls'[c].op = wizCalls[c].op /\ wizCalls'[c].arg = wizCalls[c].arg
        /\ \A d \in Calls \ {c} : wizCalls'[d] = wizCalls[d]
        /\ WorksAt(c) => wizCalls'[c].at = "failed"
    BY <1>9, <1>a, WizardSlotHolds DEF ServeDone, BreakWizardCall, WorksAt, Working, Creations
  <2>2. UNCHANGED <<made, keySite, wizard>>
    BY <1>9 DEF ServeDone, BreakWizardCall, Rows
  <2>3. Reached'
    BY <2>2, <1>c DEF Reached, InCatalog
  <2>4. CASE WorksAt(c)
    <3>1. Timely(c)'
      BY <2>1, <2>2, <2>4, <1>c DEF Timely, InCatalog
    <3>2. QED BY <2>1, <2>3, <2>4, <3>1, <1>e, <1>f
  <2>5. CASE ~WorksAt(c)
    <3>1. ~WorksAt(c)'
      BY <2>1, <2>5 DEF WorksAt
    <3>2. QED BY <2>1, <2>2, <2>3, <3>1, <1>b, OrderStays
  <2>6. QED BY <2>4, <2>5
<1>10. ASSUME NEW c \in Calls, Ends(c)
       PROVE  /\ ~WorksAt(c)' /\ UNCHANGED <<made, keySite>>
              /\ \A d \in Calls \ {c} : wizCalls'[d] = wizCalls[d]
  BY <1>10, <1>a, <1>d, WizardSlotHolds DEF Ends, Rows, WorksAt
<1>11. ASSUME NEW c \in Calls, SettleSite(c) \/ SettleReindex(c) PROVE InOrder'
  <2>1. wizCalls[c].op \in Creations \cup {"reindex"} /\ wizCalls[c].at = "answered" /\ Ends(c)
    BY <1>11 DEF SettleSite, SettleReindex
  <2>2. WorksAt(c) /\ wizard.step \notin {"key", "client", "done"}
    BY <2>1, <1>c DEF WorksAt, Working, Timely
  <2>3. wizard'.step \notin {"client", "done"}
    BY <1>11, <2>2, <1>a DEF SettleSite, SettleReindex, Moved, AtStep, PageOfWizard
  <2>4. wizard'.step = "key" => InCatalog(wizard'.server)
    <3>1. CASE SettleSite(c)
      <4>1. wizCalls[c].arg # None => wizCalls[c].arg = wizCalls[c].ans /\ wizCalls[c].ans # None
        BY <3>1, <1>a, <1>d DEF SettleSite, WizardFits
      <4>2. wizCalls[c].arg # None => InCatalog(wizCalls[c].ans)
        BY <2>1, <4>1, <1>c DEF Timely
      <4>3. QED BY <3>1, <4>2, <2>2, <1>a DEF SettleSite, PageOfWizard
    <3>2. CASE SettleReindex(c)
      <4>1. wizCalls[c].arg # None
        BY <3>2, <1>a, <1>d DEF SettleReindex, WizardFits
      <4>2. wizCalls[c].ans # None => InCatalog(wizCalls[c].arg)
        BY <2>1, <4>1, <1>c DEF Timely
      <4>3. QED BY <3>2, <4>2, <2>2, <1>a DEF SettleReindex, PageOfWizard
    <3>3. QED BY <1>11, <3>1, <3>2
  <2>5. Reached'
    BY <2>1, <2>3, <2>4, <1>10 DEF Reached, InCatalog
  <2>6. QED BY <2>1, <2>2, <2>5, <1>b, <1>e, <1>10, OrderStays
<1>12. ASSUME NEW c \in Calls, SettleWizardKey(c) PROVE InOrder'
  <2>1. wizCalls[c].op = "key" /\ wizCalls[c].at = "answered" /\ Ends(c)
    BY <1>12 DEF SettleWizardKey
  <2>2. /\ WorksAt(c) /\ InCatalog(wizard.server) /\ wizCalls[c].ans \in WizardKeys
        /\ keySite[wizCalls[c].ans] = wizard.server
    BY <2>1, <1>a, <1>c DEF WorksAt, Working, Timely, WizardFits
  <2>3. wizard'.server = wizard.server /\ wizard'.key = wizCalls[c].ans
    BY <1>12, <1>a DEF SettleWizardKey, PageOfWizard
  <2>4. Reached'
    BY <2>1, <2>2, <2>3, <1>10 DEF Reached, InCatalog
  <2>5. QED BY <2>1, <2>2, <2>4, <1>b, <1>e, <1>10, OrderStays
<1>13. ASSUME NEW c \in Calls, SettleDone(c) \/ SettleFailure(c) PROVE InOrder'
  <2>1. Ends(c)
    BY <1>13 DEF SettleDone, SettleFailure
  <2>2. /\ wizard'.server = wizard.server /\ wizard'.key = wizard.key
        /\ wizard'.step = wizard.step \/ wizard'.step = "left"
    BY <1>13, <1>a DEF SettleDone, SettleFailure, Goto, PageOfWizard
  <2>3. Reached'
    BY <2>1, <2>2, <1>c, <1>10 DEF Reached, InCatalog
  <2>4. QED BY <2>1, <2>2, <2>3, <1>b, <1>10, OrderStays
<1>14. QED BY <1>1, <1>2, <1>3, <1>4, <1>5, <1>6, <1>7, <1>8, <1>9, <1>11, <1>12, <1>13
  DEF WizardNext

LEMMA WizardInvariant == WizardSpec => []WizardInv
<1>1. WizardInit => WizardInv
  <2> SUFFICES ASSUME WizardInit PROVE WizardInv
    OBVIOUS
  <2>1. Idle \in WizardSlot
    BY WizardAssumption
      DEF Idle, WizardSlot, AnyWizardSlot, WizardFits, WizardOps, Slot, Places
  <2>2. WizardTyped
    BY <2>1 DEF WizardInit, WizardTyped, PageOfWizard, WizardSteps, SiteStates
  <2>3. \A c \in Calls : ~WorksAt(c)
    BY WizardAssumption DEF WizardInit, Idle, WorksAt, Working, WizardOps
  <2>4. wizard.step = "welcome"
    BY DEF WizardInit
  <2>5. QED BY <2>2, <2>3, <2>4 DEF WizardInv, InOrder, OneWorks, Reached, Timely, WorksAt, Working
<1>2. WizardInv /\ [WizardNext]_wizardVars => WizardInv'
  <2> SUFFICES ASSUME WizardInv, [WizardNext]_wizardVars PROVE WizardInv'
    OBVIOUS
  <2>1. WizardTyped'
    BY WizardTypeHolds DEF WizardInv
  <2>2. QED BY <2>1, OrderHolds DEF WizardInv
<1>3. QED BY <1>1, <1>2, PTL DEF WizardSpec

(* Types of the rows, the wizard and its requests, for any servers, keys and *)
(* requests in flight.                                                       *)
THEOREM WizardTypeCorrect == WizardSpec => []WizardTypeOK
<1>1. WizardInv => WizardTypeOK
  BY DEF WizardInv, WizardTyped, WizardTypeOK, PageOfWizard, WizardSteps, WizardSlot, AnyWizardSlot
<1>2. QED BY <1>1, WizardInvariant, PTL

(* The configuration copied from the last steps opens the server shown       *)
(* there, for any servers, keys and requests in flight, unless two requests  *)
(* about them were made cross (SetupWizard.tsx).                             *)
THEOREM CopiedConfigurationWorks == WizardSpec => []ConfigurationWorks
<1>1. WizardInv => ConfigurationWorks
  BY WizardAssumption DEF WizardInv, InOrder, Reached, InCatalog, ConfigurationWorks
<1>2. QED BY <1>1, WizardInvariant, PTL

-----------------------------------------------------------------------------
(* The sign-in dialog.                                                      *)

SignPhases == {"idle", "pending", "connected", "expired"}
PageOfSignIn == [adding : BOOLEAN, server : Upstreams \cup {None}, phase : SignPhases,
                 code : UserCodes \cup {None}]
CredentialRow == [there : BOOLEAN, token : {"none", "connected"}, code : UserCodes \cup {None}]

AsksFor == {"connect", "reconnect"}
PollTells == UserCodes \cup {"connected", "over"}

(* What an answer brings; of a poll that failed nothing is left.             *)
SignFits(s) ==
  /\ s.op \in AsksFor \cup {"list", "status"} => s.arg \in Upstreams
  /\ s.op = "create" /\ s.at = "answered" => s.ans \in Upstreams
  /\ s.op \in AsksFor /\ s.at = "answered" => s.ans \in UserCodes
  /\ s.op = "status" => s.at # "failed" /\ (s.at = "answered" => s.ans \in PollTells)

AnySignSlot == Slot(SignOps, Upstreams, Upstreams \cup UserCodes \cup Told)
SignSlot == {s \in AnySignSlot : SignFits(s)}

SignTyped ==
  /\ credRow \in [Upstreams -> CredentialRow]
  /\ codeFor \in [UserCodes -> Upstreams \cup {None}]
  /\ signUI \in PageOfSignIn
  /\ signCalls \in [Calls -> SignSlot]
  /\ strayed \in BOOLEAN

(* A code, in a row or on its way, is of its server.                         *)
RowsCode(s) == credRow[s].code # None => codeFor[credRow[s].code] = s
CallsCode(c) ==
  InFlight(c, "status") \/ Asking(c) =>
    (signCalls[c].at = "answered" /\ signCalls[c].ans \in UserCodes
       => codeFor[signCalls[c].ans] = Upstream(c))
CodesAreTheirs == (\A s \in Upstreams : RowsCode(s)) /\ (\A c \in Calls : CallsCode(c))

(* The requests about the open dialog: one that asks for a code is alone.    *)
OfDialog(c) == Asking(c) \/ InFlight(c, "status")
AsksAlone == \A c, d \in Calls : Asking(c) /\ OfDialog(d) => c = d

NoneLater(k) == credRow[signUI.server].code \in {k, None}
HasToken == credRow[signUI.server].token = "connected"

(* They are for its server, and what they bring is still true.               *)
Faithful(c) ==
  /\ Upstream(c) = signUI.server
  /\ Asking(c) => signUI.phase = "pending" /\ signUI.code = None
  /\ signCalls[c].at = "answered" =>
       /\ signCalls[c].ans \in UserCodes => NoneLater(signCalls[c].ans)
       /\ signCalls[c].ans = "connected" => HasToken

ShownIsTrue ==
  /\ signUI.phase = "connected" => HasToken
  /\ signUI.code # None => codeFor[signUI.code] = signUI.server /\ NoneLater(signUI.code)

DialogSound ==
  signUI.server # None => ShownIsTrue /\ \A c \in Calls : OfDialog(c) => Faithful(c)

SignInv == SignTyped /\ CodesAreTheirs /\ (~strayed => AsksAlone /\ DialogSound)

LEMMA SignSlotMoves ==
  ASSUME signCalls \in [Calls -> SignSlot], NEW c \in Calls
  PROVE  /\ End(signCalls, c) \in [Calls -> SignSlot]
         /\ Send(signCalls, c, "create", None) \in [Calls -> SignSlot]
         /\ \A op \in AsksFor \cup {"list", "status"}, s \in Upstreams :
              Send(signCalls, c, op, s) \in [Calls -> SignSlot]
         /\ signCalls[c].op # "status" => Reject(signCalls, c) \in [Calls -> SignSlot]
         /\ signCalls[c].op = "create" => \A s \in Upstreams :
              Answer(signCalls, c, s) \in [Calls -> SignSlot]
         /\ signCalls[c].op \in AsksFor => \A k \in UserCodes :
              Answer(signCalls, c, k) \in [Calls -> SignSlot]
         /\ signCalls[c].op = "status" => \A x \in PollTells :
              Answer(signCalls, c, x) \in [Calls -> SignSlot]
         /\ signCalls[c].op = "reconnect" /\ signCalls[c].at = "sent" =>
              [signCalls EXCEPT ![c].ans = "cleared"] \in [Calls -> SignSlot]
<1> USE DEF Slot, Places, AsksFor
<1>1. ASSUME NEW s \in SignSlot PROVE [signCalls EXCEPT ![c] = s] \in [Calls -> SignSlot]
  BY <1>1
<1>2. Idle \in SignSlot
  BY SignAssumption DEF Idle, SignSlot, AnySignSlot, SignFits, SignOps
<1>3. signCalls[c] \in AnySignSlot /\ SignFits(signCalls[c])
  BY DEF SignSlot
<1>4. [at |-> "sent", op |-> "create", arg |-> None, ans |-> None] \in SignSlot
  BY DEF SignSlot, AnySignSlot, SignFits, SignOps
<1>5. ASSUME NEW op \in AsksFor \cup {"list", "status"}, NEW s \in Upstreams
      PROVE  [at |-> "sent", op |-> op, arg |-> s, ans |-> None] \in SignSlot
  BY <1>5 DEF SignSlot, AnySignSlot, SignFits, SignOps
<1>6. ASSUME signCalls[c].op # "status"
      PROVE  [signCalls[c] EXCEPT !.at = "failed", !.ans = None] \in SignSlot
  BY <1>3, <1>6 DEF SignSlot, AnySignSlot, SignFits
<1>7. ASSUME NEW x \in Upstreams \cup UserCodes \cup Told,
             \/ signCalls[c].op = "create" /\ x \in Upstreams
             \/ signCalls[c].op \in AsksFor /\ x \in UserCodes
             \/ signCalls[c].op = "status" /\ x \in PollTells
      PROVE  [signCalls[c] EXCEPT !.at = "answered", !.ans = x] \in SignSlot
  BY <1>3, <1>7 DEF SignSlot, AnySignSlot, SignFits
<1>8. ASSUME signCalls[c].op = "reconnect", signCalls[c].at = "sent"
      PROVE  [signCalls[c] EXCEPT !.ans = "cleared"] \in SignSlot
  BY <1>3, <1>8 DEF SignSlot, AnySignSlot, SignFits, Told
<1>9. PollTells \subseteq Upstreams \cup UserCodes \cup Told
  BY DEF PollTells, Told
<1>10. End(signCalls, c) \in [Calls -> SignSlot]
  BY <1>1, <1>2 DEF End
<1>11. Send(signCalls, c, "create", None) \in [Calls -> SignSlot]
  BY <1>1, <1>4 DEF Send
<1>12. \A op \in AsksFor \cup {"list", "status"}, s \in Upstreams :
         Send(signCalls, c, op, s) \in [Calls -> SignSlot]
  BY <1>1, <1>5 DEF Send
<1>13. signCalls[c].op # "status" => Reject(signCalls, c) \in [Calls -> SignSlot]
  BY <1>1, <1>6 DEF Reject
<1>14. signCalls[c].op = "create" => \A s \in Upstreams : Answer(signCalls, c, s) \in [Calls -> SignSlot]
  BY <1>1, <1>7 DEF Answer
<1>15. signCalls[c].op \in AsksFor => \A k \in UserCodes : Answer(signCalls, c, k) \in [Calls -> SignSlot]
  BY <1>1, <1>7 DEF Answer
<1>16. signCalls[c].op = "status" => \A x \in PollTells : Answer(signCalls, c, x) \in [Calls -> SignSlot]
  BY <1>1, <1>7, <1>9 DEF Answer
<1>17. signCalls[c].op = "reconnect" /\ signCalls[c].at = "sent" =>
         [signCalls EXCEPT ![c].ans = "cleared"] \in [Calls -> SignSlot]
  BY <1>1, <1>8
<1>18. QED BY <1>10, <1>11, <1>12, <1>13, <1>14, <1>15, <1>16, <1>17

LEMMA SignSlotHolds ==
  ASSUME signCalls \in [Calls -> SignSlot], NEW c \in Calls
  PROVE  /\ \A op, arg :
              /\ Send(signCalls, c, op, arg)[c].op = op
              /\ Send(signCalls, c, op, arg)[c].arg = arg
              /\ Send(signCalls, c, op, arg)[c].at = "sent"
              /\ \A d \in Calls \ {c} : Send(signCalls, c, op, arg)[d] = signCalls[d]
         /\ \A ans :
              /\ Answer(signCalls, c, ans)[c].op = signCalls[c].op
              /\ Answer(signCalls, c, ans)[c].arg = signCalls[c].arg
              /\ Answer(signCalls, c, ans)[c].at = "answered"
              /\ Answer(signCalls, c, ans)[c].ans = ans
              /\ \A d \in Calls \ {c} : Answer(signCalls, c, ans)[d] = signCalls[d]
         /\ Reject(signCalls, c)[c].op = signCalls[c].op
         /\ Reject(signCalls, c)[c].arg = signCalls[c].arg
         /\ Reject(signCalls, c)[c].at = "failed"
         /\ \A d \in Calls \ {c} : Reject(signCalls, c)[d] = signCalls[d]
         /\ End(signCalls, c)[c].op = None
         /\ \A d \in Calls \ {c} : End(signCalls, c)[d] = signCalls[d]
BY DEF SignSlot, AnySignSlot, Slot, Send, Answer, Reject, End, Idle

(* The three ways to ask for a code.                                         *)
LEMMA StartsAlike ==
  ASSUME SignTyped, NEW c \in Calls,
         \/ \E s \in Upstreams : ConnectRow(c, s, "connect") \/ ConnectRow(c, s, "reconnect")
         \/ RetryConnect(c) \/ SettleServerList(c)
  PROVE  \E what \in AsksFor, s \in Upstreams : StartConnect(c, what, s)
<1>1. signUI.server \in Upstreams \cup {None} /\ SignFits(signCalls[c])
  BY DEF SignTyped, PageOfSignIn, SignSlot
<1>2. ASSUME RetryConnect(c) PROVE \E s \in Upstreams : StartConnect(c, "reconnect", s)
  BY <1>1, <1>2 DEF RetryConnect
<1>3. ASSUME SettleServerList(c) PROVE \E s \in Upstreams : StartConnect(c, "connect", s)
  BY <1>1, <1>3 DEF SettleServerList, InFlight, Upstream, SignFits
<1>4. QED BY <1>2, <1>3 DEF ConnectRow, AsksFor

LEMMA SignTypeHolds ==
  ASSUME SignTyped, [SignInNext]_signVars
  PROVE  SignTyped'
<1>a. /\ credRow \in [Upstreams -> CredentialRow] /\ codeFor \in [UserCodes -> Upstreams \cup {None}]
      /\ signUI \in PageOfSignIn /\ signCalls \in [Calls -> SignSlot] /\ strayed \in BOOLEAN
      /\ \A c \in Calls : SignFits(signCalls[c]) /\ signCalls[c] \in AnySignSlot
  BY DEF SignTyped, SignSlot
<1>b. ASSUME credRow' \in [Upstreams -> CredentialRow],
             codeFor' \in [UserCodes -> Upstreams \cup {None}],
             signUI' \in PageOfSignIn, signCalls' \in [Calls -> SignSlot], strayed' \in BOOLEAN
      PROVE  SignTyped'
  BY <1>b DEF SignTyped
<1>1. CASE UNCHANGED signVars
  BY <1>1, <1>a, <1>b DEF signVars
<1>2. CASE OpenAdd \/ CloseAdd \/ CloseConnect
  <2>1. signUI' \in PageOfSignIn
    BY <1>2, <1>a DEF OpenAdd, CloseAdd, CloseConnect, PageOfSignIn, SignPhases
  <2>2. QED BY <1>2, <2>1, <1>a, <1>b DEF OpenAdd, CloseAdd, CloseConnect, credentials
<1>3. ASSUME NEW s \in Upstreams, Approved(s) \/ CodeRunsOut(s) PROVE SignTyped'
  <2>1. credRow' \in [Upstreams -> CredentialRow]
    BY <1>3, <1>a DEF Approved, CodeRunsOut, CredentialRow
  <2>2. QED BY <1>3, <2>1, <1>a, <1>b DEF Approved, CodeRunsOut
<1>4. ASSUME NEW c \in Calls, AddServer(c) PROVE SignTyped'
  <2>1. Send(signCalls, c, "create", None) \in [Calls -> SignSlot]
    BY <1>a, SignSlotMoves
  <2>2. QED BY <1>4, <2>1, <1>a, <1>b DEF AddServer, credentials
<1>5. ASSUME NEW c \in Calls, NEW what \in AsksFor, NEW s \in Upstreams, StartConnect(c, what, s)
      PROVE  SignTyped'
  <2>1. signUI' \in PageOfSignIn
    BY <1>5, <1>a DEF StartConnect, TurnedTo, PageOfSignIn, SignPhases
  <2>2. Send(signCalls, c, what, s) \in [Calls -> SignSlot]
    BY <1>5, <1>a, SignSlotMoves
  <2>3. strayed' \in BOOLEAN
    BY <1>5 DEF StartConnect
  <2>4. QED BY <1>5, <2>1, <2>2, <2>3, <1>a, <1>b DEF StartConnect, credentials
<1>6. ASSUME NEW c \in Calls, Poll(c) PROVE SignTyped'
  <2>1. signUI.server \in Upstreams
    BY <1>6, <1>a DEF Poll, PageOfSignIn
  <2>2. Send(signCalls, c, "status", signUI.server) \in [Calls -> SignSlot]
    BY <2>1, <1>a, SignSlotMoves
  <2>3. strayed' \in BOOLEAN
    BY <1>6 DEF Poll
  <2>4. QED BY <1>6, <2>2, <2>3, <1>a, <1>b DEF Poll, credentials
<1>7. ASSUME NEW c \in Calls, CreateServer(c) PROVE SignTyped'
  <2>1. PICK s \in Upstreams : /\ credRow' = [credRow EXCEPT ![s].there = TRUE]
                               /\ signCalls' = Answer(signCalls, c, s)
    BY <1>7 DEF CreateServer
  <2>2. Answer(signCalls, c, s) \in [Calls -> SignSlot]
    BY <1>7, <1>a, SignSlotMoves DEF CreateServer, Handles, InFlight
  <2>3. credRow' \in [Upstreams -> CredentialRow]
    BY <2>1, <1>a DEF CredentialRow
  <2>4. QED BY <1>7, <2>1, <2>2, <2>3, <1>a, <1>b DEF CreateServer
<1>8. ASSUME NEW c \in Calls, ClearCredentials(c) PROVE SignTyped'
  <2>1. signCalls[c].op = "reconnect" /\ signCalls[c].at = "sent"
    BY <1>8 DEF ClearCredentials, Handles, InFlight
  <2>2. [signCalls EXCEPT ![c].ans = "cleared"] \in [Calls -> SignSlot]
    BY <2>1, <1>a, SignSlotMoves
  <2>3. credRow' \in [Upstreams -> CredentialRow]
    BY <1>8, <1>a DEF ClearCredentials, CredentialRow
  <2>4. QED BY <1>8, <2>2, <2>3, <1>a, <1>b DEF ClearCredentials, Noted
<1>9. ASSUME NEW c \in Calls, BeginSignIn(c) PROVE SignTyped'
  <2>1. PICK k \in UserCodes : /\ codeFor' = [codeFor EXCEPT ![k] = Upstream(c)]
                               /\ credRow' = [credRow EXCEPT ![Upstream(c)].code = k]
                               /\ signCalls' = Answer(signCalls, c, k)
    BY <1>9 DEF BeginSignIn
  <2>2. signCalls[c].op \in AsksFor
    BY <1>9 DEF BeginSignIn, Handles, InFlight, AsksFor
  <2>3. Answer(signCalls, c, k) \in [Calls -> SignSlot]
    BY <2>2, <1>a, SignSlotMoves
  <2>4. Upstream(c) \in Upstreams
    BY <2>2, <1>a DEF SignFits, Upstream
  <2>5. /\ codeFor' \in [UserCodes -> Upstreams \cup {None}]
        /\ credRow' \in [Upstreams -> CredentialRow]
    BY <2>1, <2>4, <1>a DEF CredentialRow
  <2>6. QED BY <1>9, <2>1, <2>3, <2>5, <1>a, <1>b DEF BeginSignIn
<1>10. ASSUME NEW c \in Calls, ReadStatus(c) PROVE SignTyped'
  <2>1. signCalls[c].op = "status" /\ Upstream(c) \in Upstreams
    BY <1>10, <1>a DEF ReadStatus, Handles, InFlight, SignFits, Upstream
  <2>2. credRow[Upstream(c)].code \in UserCodes \cup {None}
    BY <2>1, <1>a DEF CredentialRow
  <2>3. \E x \in PollTells : signCalls' = Answer(signCalls, c, x)
    <3>1. CASE credRow[Upstream(c)].token = "connected"
      BY <1>10, <3>1 DEF ReadStatus, PollTells
    <3>2. CASE credRow[Upstream(c)].token # "connected"
      <4>1. PICK told \in {credRow[Upstream(c)].code, "over"} :
              signCalls' = Answer(signCalls, c, IF told = None THEN "over" ELSE told)
        BY <1>10, <3>2 DEF ReadStatus
      <4>2. (IF told = None THEN "over" ELSE told) \in PollTells
        BY <2>2 DEF PollTells
      <4>3. QED BY <4>1, <4>2
    <3>3. QED BY <3>1, <3>2
  <2>4. signCalls' \in [Calls -> SignSlot]
    <3>1. \A x \in PollTells : Answer(signCalls, c, x) \in [Calls -> SignSlot]
      BY <2>1, <1>a, SignSlotMoves
    <3>2. QED BY <2>3, <3>1
  <2>5. QED BY <1>10, <2>4, <1>a, <1>b DEF ReadStatus, credentials
<1>11. ASSUME NEW c \in Calls, BreakSignCall(c) PROVE SignTyped'
  <2>1. End(signCalls, c) \in [Calls -> SignSlot]
    BY <1>a, SignSlotMoves
  <2>2. signCalls[c].op # "status" => Reject(signCalls, c) \in [Calls -> SignSlot]
    BY <1>a, SignSlotMoves
  <2>3. QED BY <1>11, <2>1, <2>2, <1>a, <1>b
    DEF BreakSignCall, Fruitless, InFlight, credentials
<1>12. ASSUME NEW c \in Calls, SettleCreateServer(c) PROVE SignTyped'
  <2>1. signUI' \in PageOfSignIn
    BY <1>12, <1>a DEF SettleCreateServer, PageOfSignIn
  <2>2. End(signCalls, c) \in [Calls -> SignSlot]
    BY <1>a, SignSlotMoves
  <2>3. signCalls[c].at # "failed" => Send(signCalls, c, "list", signCalls[c].ans) \in [Calls -> SignSlot]
    <3>1. signCalls[c].at # "failed" => signCalls[c].ans \in Upstreams
      BY <1>12, <1>a DEF SettleCreateServer, Settled, InFlight, SignFits
    <3>2. QED BY <3>1, <1>a, SignSlotMoves
  <2>4. QED BY <1>12, <2>1, <2>2, <2>3, <1>a, <1>b DEF SettleCreateServer, credentials
<1>13. ASSUME NEW c \in Calls, SettleConnect(c) \/ SettleStatusPoll(c) PROVE SignTyped'
  <2>1. End(signCalls, c) \in [Calls -> SignSlot]
    BY <1>a, SignSlotMoves
  <2>2. signUI' \in PageOfSignIn
    <3>1. CASE SettleConnect(c)
      <4>1. signCalls[c].at = "answered" => signCalls[c].ans \in UserCodes
        BY <3>1, <1>a DEF SettleConnect, Asking, SignFits, AsksFor
      <4>2. QED BY <3>1, <4>1, <1>a DEF SettleConnect, PageOfSignIn, SignPhases
    <3>2. CASE SettleStatusPoll(c)
      BY <3>2, <1>a DEF SettleStatusPoll, PageOfSignIn, SignPhases
    <3>3. QED BY <1>13, <3>1, <3>2
  <2>3. QED BY <1>13, <2>1, <2>2, <1>a, <1>b DEF SettleConnect, SettleStatusPoll, credentials
<1>14. QED BY <1>1, <1>2, <1>3, <1>4, <1>5, <1>6, <1>7, <1>8, <1>9, <1>10, <1>11, <1>12, <1>13,
  StartsAlike DEF SignInNext

(* A code once given out stays its server's; the rows only lose codes.       *)
LEMMA CodesStayTheirs ==
  ASSUME SignTyped, CodesAreTheirs, NEW c \in Calls,
         \A k \in UserCodes : codeFor[k] # None => codeFor'[k] = codeFor[k],
         \A s \in Upstreams : credRow'[s].code \in {credRow[s].code, None},
         \A d \in Calls \ {c} : signCalls'[d] = signCalls[d],
         CallsCode(c)'
  PROVE  CodesAreTheirs'
<1>1. /\ \A s \in Upstreams : s # None /\ credRow[s].code \in UserCodes \cup {None}
      /\ \A d \in Calls : SignFits(signCalls[d])
  BY SignAssumption DEF SignTyped, CredentialRow, SignSlot
<1>2. ASSUME NEW s \in Upstreams PROVE RowsCode(s)'
  <2>1. CASE credRow'[s].code = None
    BY <2>1 DEF RowsCode
  <2>2. CASE credRow[s].code # None /\ credRow'[s].code = credRow[s].code
    BY <2>2, <1>1 DEF CodesAreTheirs, RowsCode
  <2>3. QED BY <2>1, <2>2
<1>3. ASSUME NEW d \in Calls \ {c} PROVE CallsCode(d)'
  <2>1. CallsCode(d)
    BY DEF CodesAreTheirs
  <2>2. OfDialog(d) => Upstream(d) # None
    BY <1>1, SignAssumption DEF OfDialog, Asking, InFlight, Upstream, SignFits, AsksFor
  <2>3. QED BY <2>1, <2>2 DEF CallsCode, OfDialog, Asking, InFlight, Upstream
<1>4. QED BY <1>2, <1>3 DEF CodesAreTheirs

LEMMA CodesHold ==
  ASSUME SignTyped, CodesAreTheirs, [SignInNext]_signVars
  PROVE  CodesAreTheirs'
<1>a. /\ credRow \in [Upstreams -> CredentialRow] /\ codeFor \in [UserCodes -> Upstreams \cup {None}]
      /\ signCalls \in [Calls -> SignSlot]
      /\ \A c \in Calls : SignFits(signCalls[c]) /\ signCalls[c] \in AnySignSlot
  BY DEF SignTyped, SignSlot
<1>b. None \notin SignOps /\ None \notin Upstreams /\ None \notin UserCodes
  BY SignAssumption
<1>1. CASE UNCHANGED <<credRow, codeFor, signCalls>>
  BY <1>1 DEF CodesAreTheirs, RowsCode, CallsCode, InFlight, Asking, Upstream
<1>2. CASE UNCHANGED signVars \/ OpenAdd \/ CloseAdd \/ CloseConnect
  BY <1>1, <1>2 DEF signVars, OpenAdd, CloseAdd, CloseConnect, credentials
<1>3. ASSUME NEW s \in Upstreams, Approved(s) \/ CodeRunsOut(s) PROVE CodesAreTheirs'
  <2>1. \A t \in Upstreams : credRow'[t].code \in {credRow[t].code, None}
    BY <1>3, <1>a DEF Approved, CodeRunsOut, CredentialRow
  <2>2. UNCHANGED <<codeFor, signCalls>>
    BY <1>3 DEF Approved, CodeRunsOut
  <2>3. \A t \in Upstreams : RowsCode(t)'
    BY <2>1, <2>2 DEF CodesAreTheirs, RowsCode
  <2>4. \A c \in Calls : CallsCode(c)'
    BY <2>2 DEF CodesAreTheirs, CallsCode, InFlight, Asking, Upstream
  <2>5. QED BY <2>3, <2>4 DEF CodesAreTheirs
\* a step that leaves the rows alone and answers nothing about the dialog
<1>4. ASSUME NEW c \in Calls, UNCHANGED credentials,
             \A d \in Calls \ {c} : signCalls'[d] = signCalls[d],
             signCalls'[c].at # "answered" \/ ~OfDialog(c)'
      PROVE  CodesAreTheirs'
  <2>1. CallsCode(c)'
    BY <1>4 DEF CallsCode, OfDialog
  <2>2. QED BY <1>4, <2>1, CodesStayTheirs DEF credentials
<1>5. ASSUME NEW c \in Calls, AddServer(c) \/ Poll(c)
      PROVE  CodesAreTheirs'
  <2>1. \E op, arg : signCalls' = Send(signCalls, c, op, arg)
    BY <1>5 DEF AddServer, Poll
  <2>2. signCalls'[c].at = "sent" /\ \A d \in Calls \ {c} : signCalls'[d] = signCalls[d]
    BY <2>1, <1>a, SignSlotHolds
  <2>3. QED BY <1>4, <1>5, <2>2 DEF AddServer, Poll
<1>6. ASSUME NEW c \in Calls, NEW what \in AsksFor, NEW s \in Upstreams, StartConnect(c, what, s)
      PROVE  CodesAreTheirs'
  <2>1. signCalls'[c].at = "sent" /\ \A d \in Calls \ {c} : signCalls'[d] = signCalls[d]
    BY <1>6, <1>a, SignSlotHolds DEF StartConnect
  <2>2. QED BY <1>4, <1>6, <2>1 DEF StartConnect
<1>7. ASSUME NEW c \in Calls, CreateServer(c) PROVE CodesAreTheirs'
  <2>1. PICK s \in Upstreams : /\ credRow' = [credRow EXCEPT ![s].there = TRUE]
                               /\ signCalls' = Answer(signCalls, c, s)
    BY <1>7 DEF CreateServer
  <2>2. \A t \in Upstreams : credRow'[t].code = credRow[t].code
    BY <2>1, <1>a DEF CredentialRow
  <2>3. signCalls'[c].op = "create" /\ \A d \in Calls \ {c} : signCalls'[d] = signCalls[d]
    BY <1>7, <2>1, <1>a, SignSlotHolds DEF CreateServer, Handles, InFlight
  <2>4. CallsCode(c)'
    BY <2>3 DEF CallsCode, InFlight, Asking
  <2>5. QED BY <1>7, <2>2, <2>3, <2>4, CodesStayTheirs DEF CreateServer
<1>8. ASSUME NEW c \in Calls, ClearCredentials(c) PROVE CodesAreTheirs'
  <2>1. /\ \A t \in Upstreams : credRow'[t].code \in {credRow[t].code, None}
        /\ codeFor' = codeFor
    BY <1>8, <1>a DEF ClearCredentials, CredentialRow
  <2>2. signCalls'[c].at = "sent" /\ \A d \in Calls \ {c} : signCalls'[d] = signCalls[d]
    BY <1>8, <1>a DEF ClearCredentials, Noted, Handles, AnySignSlot, Slot
  <2>3. CallsCode(c)'
    BY <2>2 DEF CallsCode
  <2>4. QED BY <2>1, <2>2, <2>3, CodesStayTheirs
<1>9. ASSUME NEW c \in Calls, BeginSignIn(c) PROVE CodesAreTheirs'
  <2>1. PICK k \in UserCodes : /\ codeFor[k] = None
                               /\ codeFor' = [codeFor EXCEPT ![k] = Upstream(c)]
                               /\ credRow' = [credRow EXCEPT ![Upstream(c)].code = k]
                               /\ signCalls' = Answer(signCalls, c, k)
    BY <1>9 DEF BeginSignIn
  <2>2. Upstream(c) \in Upstreams
    BY <1>9, <1>a DEF BeginSignIn, Handles, InFlight, SignFits, Upstream, AsksFor
  <2>3. codeFor'[k] = Upstream(c) /\ \A j \in UserCodes : codeFor[j] # None => codeFor'[j] = codeFor[j]
    BY <2>1, <1>a
  <2>4. /\ credRow'[Upstream(c)].code = k
        /\ \A t \in Upstreams \ {Upstream(c)} : credRow'[t] = credRow[t]
    BY <2>1, <2>2, <1>a DEF CredentialRow
  <2>5. /\ signCalls'[c].arg = Upstream(c) /\ signCalls'[c].ans = k
        /\ \A d \in Calls \ {c} : signCalls'[d] = signCalls[d]
    BY <2>1, <1>a, SignSlotHolds DEF Upstream
  <2>6. ASSUME NEW t \in Upstreams PROVE RowsCode(t)'
    <3>1. CASE t = Upstream(c)
      BY <2>3, <2>4, <3>1 DEF RowsCode
    <3>2. CASE t # Upstream(c)
      <4>1. credRow[t].code \in UserCodes \cup {None} /\ RowsCode(t) /\ t # None
        BY <1>a, <1>b DEF CredentialRow, CodesAreTheirs
      <4>2. QED BY <2>3, <2>4, <3>2, <4>1 DEF RowsCode
    <3>3. QED BY <3>1, <3>2
  <2>7. CallsCode(c)'
    BY <2>3, <2>5 DEF CallsCode, Upstream
  <2>8. ASSUME NEW d \in Calls \ {c} PROVE CallsCode(d)'
    <3>1. CallsCode(d) /\ (OfDialog(d) => Upstream(d) # None)
      BY <1>a, <1>b DEF CodesAreTheirs, OfDialog, Asking, InFlight, Upstream, SignFits, AsksFor
    <3>2. QED BY <2>3, <2>5, <3>1 DEF CallsCode, OfDialog, Asking, InFlight, Upstream
  <2>9. QED BY <2>6, <2>7, <2>8 DEF CodesAreTheirs
<1>10. ASSUME NEW c \in Calls, ReadStatus(c) PROVE CodesAreTheirs'
  <2>1. signCalls[c].op = "status" /\ Upstream(c) \in Upstreams /\ UNCHANGED credentials
    BY <1>10, <1>a DEF ReadStatus, Handles, InFlight, SignFits, Upstream
  <2>2. \E x \in {credRow[Upstream(c)].code, "connected", "over"} :
          signCalls' = Answer(signCalls, c, x) /\ (x \in UserCodes => x = credRow[Upstream(c)].code)
    <3>1. "connected" \notin UserCodes /\ "over" \notin UserCodes
      BY SignAssumption DEF Told
    <3>2. QED BY <1>10, <3>1 DEF ReadStatus
  <2>3. PICK x : signCalls' = Answer(signCalls, c, x) /\ (x \in UserCodes => x = credRow[Upstream(c)].code)
    BY <2>2
  <2>4. /\ signCalls'[c].arg = Upstream(c) /\ signCalls'[c].ans = x
        /\ \A d \in Calls \ {c} : signCalls'[d] = signCalls[d]
    BY <2>3, <1>a, SignSlotHolds DEF Upstream
  <2>5. x \in UserCodes => codeFor'[x] = Upstream(c)
    BY <2>1, <2>3, <1>b DEF CodesAreTheirs, RowsCode, credentials
  <2>6. CallsCode(c)'
    BY <2>4, <2>5 DEF CallsCode, Upstream
  <2>7. QED BY <2>1, <2>4, <2>6, CodesStayTheirs DEF credentials
<1>11. ASSUME NEW c \in Calls, BreakSignCall(c) PROVE CodesAreTheirs'
  <2>1. /\ signCalls'[c].at = "failed" \/ signCalls'[c].op = None
        /\ \A d \in Calls \ {c} : signCalls'[d] = signCalls[d]
    BY <1>11, <1>a, SignSlotHolds DEF BreakSignCall, Fruitless
  <2>2. signCalls'[c].at # "answered" \/ ~OfDialog(c)'
    BY <2>1, <1>b DEF OfDialog, Asking, InFlight, SignOps
  <2>3. QED BY <1>4, <1>11, <2>1, <2>2 DEF BreakSignCall
<1>12. ASSUME NEW c \in Calls, SettleCreateServer(c) PROVE CodesAreTheirs'
  <2>1. /\ signCalls'[c].op \in {"list", None}
        /\ \A d \in Calls \ {c} : signCalls'[d] = signCalls[d]
    BY <1>12, <1>a, SignSlotHolds DEF SettleCreateServer
  <2>2. ~OfDialog(c)'
    BY <2>1, <1>b DEF OfDialog, Asking, InFlight, SignOps
  <2>3. QED BY <1>4, <1>12, <2>1, <2>2 DEF SettleCreateServer
<1>13. ASSUME NEW c \in Calls, SettleConnect(c) \/ SettleStatusPoll(c) PROVE CodesAreTheirs'
  <2>1. signCalls' = End(signCalls, c) /\ UNCHANGED credentials
    BY <1>13 DEF SettleConnect, SettleStatusPoll, credentials
  <2>2. signCalls'[c].op = None /\ \A d \in Calls \ {c} : signCalls'[d] = signCalls[d]
    BY <2>1, <1>a, SignSlotHolds
  <2>3. ~OfDialog(c)'
    BY <2>2, <1>b DEF OfDialog, Asking, InFlight, SignOps
  <2>4. QED BY <1>4, <2>1, <2>2, <2>3
<1>14. QED BY <1>2, <1>3, <1>5, <1>6, <1>7, <1>8, <1>9, <1>10, <1>11, <1>12, <1>13, StartsAlike
  DEF SignInNext

(* A request that is not, or no more, about the dialog leaves it as it was.  *)
LEMMA DialogStays ==
  ASSUME AsksAlone, DialogSound, NEW c \in Calls, ~OfDialog(c)',
         \A d \in Calls \ {c} : signCalls'[d] = signCalls[d],
         UNCHANGED codeFor,
         signUI.server # None =>
           /\ credRow'[signUI.server].token = credRow[signUI.server].token
           /\ credRow'[signUI.server].code = credRow[signUI.server].code,
         signUI'.server = signUI.server,
         signUI.server # None => ShownIsTrue',
         \/ signUI'.phase = signUI.phase /\ signUI'.code = signUI.code
         \/ \A d \in Calls \ {c} : ~Asking(d)
  PROVE  AsksAlone' /\ DialogSound'
<1>1. \A d \in Calls \ {c} : OfDialog(d)' = OfDialog(d) /\ Asking(d)' = Asking(d)
  BY DEF OfDialog, Asking, InFlight
<1>2. AsksAlone'
  BY <1>1 DEF AsksAlone, OfDialog
<1>3. ASSUME NEW d \in Calls, signUI.server # None, OfDialog(d)' PROVE Faithful(d)'
  <2>1. d # c /\ Faithful(d)
    BY <1>1, <1>3 DEF DialogSound
  <2>2. QED BY <1>1, <1>3, <2>1 DEF Faithful, NoneLater, HasToken, Upstream
<1>4. QED BY <1>2, <1>3 DEF DialogSound

(* A step of a request about the dialog that goes on, the dialog unchanged.  *)
LEMMA RequestGoesOn ==
  ASSUME AsksAlone, DialogSound, NEW c \in Calls, OfDialog(c),
         signCalls'[c].op = signCalls[c].op, signCalls'[c].arg = signCalls[c].arg,
         \A d \in Calls \ {c} : signCalls'[d] = signCalls[d],
         UNCHANGED signUI,
         \/ Asking(c) /\ signUI.phase # "connected"
         \/ UNCHANGED <<credRow, codeFor>>,
         signUI.server # None => Faithful(c)'
  PROVE  AsksAlone' /\ DialogSound'
<1>1. \A d \in Calls : OfDialog(d)' = OfDialog(d) /\ Asking(d)' = Asking(d)
  BY DEF OfDialog, Asking, InFlight
<1>2. AsksAlone'
  BY <1>1 DEF AsksAlone
<1>3. ASSUME NEW d \in Calls \ {c}, signUI.server # None, OfDialog(d)' PROVE Faithful(d)'
  <2>1. Faithful(d) /\ ~Asking(c)
    BY <1>1, <1>3 DEF DialogSound, AsksAlone
  <2>2. QED BY <1>1, <2>1 DEF Faithful, NoneLater, HasToken, Upstream
<1>4. ASSUME signUI.server # None PROVE ShownIsTrue'
  <2>1. ShownIsTrue /\ Faithful(c)
    BY <1>4 DEF DialogSound
  <2>2. QED BY <2>1 DEF ShownIsTrue, Faithful, NoneLater, HasToken
<1>5. QED BY <1>1, <1>2, <1>3, <1>4 DEF DialogSound

LEMMA DialogHolds ==
  ASSUME SignInv, [SignInNext]_signVars, ~strayed'
  PROVE  AsksAlone' /\ DialogSound'
<1> DEFINE Goal == AsksAlone' /\ DialogSound'
<1>a. /\ credRow \in [Upstreams -> CredentialRow] /\ codeFor \in [UserCodes -> Upstreams \cup {None}]
      /\ signUI \in PageOfSignIn /\ signCalls \in [Calls -> SignSlot]
      /\ \A c \in Calls : SignFits(signCalls[c]) /\ signCalls[c] \in AnySignSlot
      /\ CodesAreTheirs
  BY DEF SignInv, SignTyped, SignSlot
<1>b. /\ None \notin SignOps /\ None \notin Upstreams /\ None \notin UserCodes
      /\ "connected" \notin UserCodes /\ "over" \notin UserCodes
  BY SignAssumption DEF Told
<1>c. ~strayed => AsksAlone /\ DialogSound
  BY DEF SignInv
<1>d. ASSUME NEW c \in Calls, signCalls'[c].op \in {"create", "list", None} PROVE ~OfDialog(c)'
  BY <1>b, <1>d DEF OfDialog, Asking, InFlight, SignOps
<1>1. CASE UNCHANGED signVars \/ OpenAdd \/ CloseAdd
  <2>1. /\ signUI'.server = signUI.server /\ signUI'.phase = signUI.phase /\ signUI'.code = signUI.code
        /\ UNCHANGED <<credRow, codeFor, signCalls, strayed>>
    BY <1>1, <1>a DEF signVars, OpenAdd, CloseAdd, credentials, PageOfSignIn
  <2>2. QED BY <2>1, <1>c DEF AsksAlone, DialogSound, ShownIsTrue, Faithful, HasToken, NoneLater,
    OfDialog, Asking, InFlight, Upstream
<1>2. CASE CloseConnect
  <2>1. signUI'.server = None /\ signCalls' = signCalls /\ strayed' = strayed
    BY <1>2, <1>a DEF CloseConnect, PageOfSignIn
  <2>2. QED BY <2>1, <1>c DEF AsksAlone, DialogSound, OfDialog, Asking, InFlight
<1>3. ASSUME NEW s \in Upstreams, Approved(s) \/ CodeRunsOut(s) PROVE Goal
  <2>1. /\ \A t \in Upstreams : /\ credRow'[t].code \in {credRow[t].code, None}
                                /\ credRow[t].token = "connected" => credRow'[t].token = "connected"
        /\ UNCHANGED <<codeFor, signUI, signCalls, strayed>>
    BY <1>3, <1>a DEF Approved, CodeRunsOut, CredentialRow
  <2>2. signUI.server # None => signUI.server \in Upstreams
    BY <1>a DEF PageOfSignIn
  <2>3. AsksAlone'
    BY <2>1, <1>c DEF AsksAlone, OfDialog, Asking, InFlight
  <2>4. DialogSound'
    BY <2>1, <2>2, <1>c DEF DialogSound, ShownIsTrue, Faithful, HasToken, NoneLater,
      OfDialog, Asking, InFlight, Upstream
  <2>5. QED BY <2>3, <2>4
<1>4. ASSUME NEW c \in Calls, NEW what \in AsksFor, NEW s \in Upstreams, StartConnect(c, what, s)
      PROVE  Goal
  <2>1. \A d \in Calls \ {c} : ~OfDialog(d)
    BY <1>4 DEF StartConnect, OfDialog
  <2>2. /\ signCalls'[c].op = what /\ signCalls'[c].arg = s /\ signCalls'[c].at = "sent"
        /\ \A d \in Calls \ {c} : signCalls'[d] = signCalls[d]
    BY <1>4, <1>a, SignSlotHolds DEF StartConnect
  <2>3. signUI'.server = s /\ signUI'.phase = "pending" /\ signUI'.code = None
    BY <1>4, <1>a DEF StartConnect, TurnedTo, PageOfSignIn
  <2>4. \A d \in Calls \ {c} : ~OfDialog(d)'
    BY <2>1, <2>2 DEF OfDialog, Asking, InFlight
  <2>5. AsksAlone'
    BY <2>4 DEF AsksAlone, OfDialog
  <2>6. ShownIsTrue' /\ Faithful(c)'
    BY <2>2, <2>3 DEF ShownIsTrue, Faithful, Upstream
  <2>7. QED BY <2>4, <2>5, <2>6 DEF DialogSound
<1>5. ASSUME NEW c \in Calls, Poll(c) PROVE Goal
  <2>1. /\ strayed' = (strayed \/ \E d \in Calls : Asking(d))
        /\ signUI' = signUI /\ UNCHANGED <<credRow, codeFor>>
    BY <1>5 DEF Poll, credentials
  <2>2. (\A d \in Calls : ~Asking(d)) /\ AsksAlone /\ DialogSound
    BY <2>1, <1>c
  <2>3. /\ signCalls'[c].op = "status" /\ signCalls'[c].arg = signUI.server
        /\ signCalls'[c].at = "sent" /\ \A d \in Calls \ {c} : signCalls'[d] = signCalls[d]
    BY <1>5, <1>a, SignSlotHolds DEF Poll
  <2>4. \A d \in Calls : ~Asking(d)'
    BY <2>2, <2>3 DEF Asking
  <2>5. AsksAlone'
    BY <2>4 DEF AsksAlone
  <2>6. Faithful(c)'
    BY <2>1, <2>3, <2>4 DEF Faithful, Upstream
  <2>7. ASSUME NEW d \in Calls \ {c}, signUI.server # None, OfDialog(d)' PROVE Faithful(d)'
    BY <2>1, <2>2, <2>3, <2>7
      DEF DialogSound, OfDialog, Asking, InFlight, Faithful, NoneLater, HasToken, Upstream
  <2>8. signUI.server # None => ShownIsTrue'
    BY <2>1, <2>2 DEF DialogSound, ShownIsTrue, NoneLater, HasToken
  <2>9. QED BY <2>1, <2>5, <2>6, <2>7, <2>8 DEF DialogSound
\* a request that is not about the dialog and leaves what it shows alone
<1>6. ASSUME NEW c \in Calls, AsksAlone, DialogSound, ~OfDialog(c)', UNCHANGED codeFor,
             \A d \in Calls \ {c} : signCalls'[d] = signCalls[d],
             \A s \in Upstreams : credRow'[s].token = credRow[s].token /\ credRow'[s].code = credRow[s].code,
             signUI'.server = signUI.server, signUI'.phase = signUI.phase, signUI'.code = signUI.code
      PROVE  Goal
  <2>1. signUI.server # None => signUI.server \in Upstreams
    BY <1>a DEF PageOfSignIn
  <2>2. signUI.server # None => ShownIsTrue'
    BY <1>6, <2>1 DEF DialogSound, ShownIsTrue, NoneLater, HasToken
  <2>3. QED BY <1>6, <2>1, <2>2, DialogStays
<1>7. ASSUME NEW c \in Calls, AddServer(c) \/ SettleCreateServer(c) PROVE Goal
  <2>1. UNCHANGED <<credRow, codeFor, strayed>>
    BY <1>7 DEF AddServer, SettleCreateServer, credentials
  <2>2. /\ signCalls'[c].op \in {"create", "list", None}
        /\ \A d \in Calls \ {c} : signCalls'[d] = signCalls[d]
    BY <1>7, <1>a, SignSlotHolds DEF AddServer, SettleCreateServer
  <2>3. signUI'.server = signUI.server /\ signUI'.phase = signUI.phase /\ signUI'.code = signUI.code
    BY <1>7, <1>a DEF AddServer, SettleCreateServer, PageOfSignIn
  <2>4. QED BY <2>1, <2>2, <2>3, <1>c, <1>d, <1>6
<1>8. ASSUME NEW c \in Calls, CreateServer(c) PROVE Goal
  <2>1. PICK s \in Upstreams : /\ credRow' = [credRow EXCEPT ![s].there = TRUE]
                               /\ signCalls' = Answer(signCalls, c, s)
    BY <1>8 DEF CreateServer
  <2>2. \A t \in Upstreams : credRow'[t].token = credRow[t].token /\ credRow'[t].code = credRow[t].code
    BY <2>1, <1>a DEF CredentialRow
  <2>3. signCalls'[c].op = "create" /\ \A d \in Calls \ {c} : signCalls'[d] = signCalls[d]
    BY <1>8, <2>1, <1>a, SignSlotHolds DEF CreateServer, Handles, InFlight
  <2>4. UNCHANGED <<codeFor, signUI, strayed>>
    BY <1>8 DEF CreateServer
  <2>5. QED BY <2>2, <2>3, <2>4, <1>c, <1>d, <1>6
\* a request for a code: alone about the dialog, which waits for it
<1>9. ASSUME NEW c \in Calls, Asking(c), AsksAlone, DialogSound
      PROVE  /\ \A d \in Calls \ {c} : ~OfDialog(d)
             /\ signUI.server # None => /\ Upstream(c) = signUI.server
                                        /\ signUI.phase = "pending" /\ signUI.code = None
  BY <1>9 DEF AsksAlone, DialogSound, OfDialog, Faithful
\* its step, the dialog unchanged
<1>10. ASSUME NEW c \in Calls, Asking(c), strayed' = strayed, UNCHANGED signUI,
              signCalls'[c].op = signCalls[c].op, signCalls'[c].arg = signCalls[c].arg,
              \A d \in Calls \ {c} : signCalls'[d] = signCalls[d],
              signUI.server = Upstream(c) /\ signCalls'[c].at = "answered" =>
                /\ signCalls'[c].ans # "connected"
                /\ credRow'[Upstream(c)].code = signCalls'[c].ans
       PROVE  Goal
  <2>1. AsksAlone /\ DialogSound
    BY <1>10, <1>c
  <2>2. \A d \in Calls \ {c} : ~OfDialog(d)'
    BY <2>1, <1>9, <1>10 DEF OfDialog, Asking, InFlight
  <2>3. AsksAlone'
    BY <2>2 DEF AsksAlone, OfDialog
  <2>4. signUI.server # None => ShownIsTrue' /\ Faithful(c)'
    BY <2>1, <1>9, <1>10 DEF ShownIsTrue, Faithful, NoneLater, HasToken, Upstream
  <2>5. QED BY <1>10, <2>2, <2>3, <2>4 DEF DialogSound
<1>11. ASSUME NEW c \in Calls, ClearCredentials(c) PROVE Goal
  <2>1. Asking(c) /\ strayed' = strayed /\ signUI' = signUI
    BY <1>11 DEF ClearCredentials, Handles, InFlight, Asking
  <2>2. /\ signCalls'[c].op = signCalls[c].op /\ signCalls'[c].arg = signCalls[c].arg
        /\ signCalls'[c].at = "sent" /\ \A d \in Calls \ {c} : signCalls'[d] = signCalls[d]
    BY <1>11, <1>a DEF ClearCredentials, Handles, Noted, AnySignSlot, Slot
  <2>3. QED BY <2>1, <2>2, <1>10
<1>12. ASSUME NEW c \in Calls, BeginSignIn(c) PROVE Goal
  <2>1. PICK k \in UserCodes : /\ credRow' = [credRow EXCEPT ![Upstream(c)].code = k]
                               /\ signCalls' = Answer(signCalls, c, k)
    BY <1>12 DEF BeginSignIn
  <2>2. Asking(c) /\ strayed' = strayed /\ signUI' = signUI
    BY <1>12 DEF BeginSignIn, Handles, InFlight, Asking
  <2>3. Upstream(c) \in Upstreams
    BY <2>2, <1>a DEF Asking, SignFits, Upstream, AsksFor
  <2>4. credRow'[Upstream(c)].code = k
    BY <2>1, <2>3, <1>a DEF CredentialRow
  <2>5. /\ signCalls'[c].op = signCalls[c].op /\ signCalls'[c].arg = signCalls[c].arg
        /\ signCalls'[c].ans = k /\ \A d \in Calls \ {c} : signCalls'[d] = signCalls[d]
    BY <2>1, <1>a, SignSlotHolds
  <2>6. k # "connected"
    BY <1>b
  <2>7. QED BY <2>2, <2>4, <2>5, <2>6, <1>10
<1>13. ASSUME NEW c \in Calls, ReadStatus(c) PROVE Goal
  <2>1. /\ InFlight(c, "status") /\ Upstream(c) \in Upstreams
        /\ UNCHANGED <<credRow, codeFor, signUI, strayed>>
    BY <1>13, <1>a DEF ReadStatus, Handles, InFlight, SignFits, Upstream, credentials
  <2>2. AsksAlone /\ DialogSound /\ OfDialog(c)
    BY <2>1, <1>c DEF OfDialog
  <2>3. \E x : /\ signCalls' = Answer(signCalls, c, x)
               /\ x \in UserCodes => x = credRow[Upstream(c)].code
               /\ x = "connected" => credRow[Upstream(c)].token = "connected"
    <3>1. credRow[Upstream(c)].code \in UserCodes \cup {None}
      BY <2>1, <1>a DEF CredentialRow
    <3>2. QED BY <1>13, <3>1, <1>b DEF ReadStatus
  <2>4. PICK x : /\ signCalls' = Answer(signCalls, c, x)
                 /\ x \in UserCodes => x = credRow[Upstream(c)].code
                 /\ x = "connected" => credRow[Upstream(c)].token = "connected"
    BY <2>3
  <2>5. /\ signCalls'[c].op = signCalls[c].op /\ signCalls'[c].arg = signCalls[c].arg
        /\ signCalls'[c].ans = x /\ \A d \in Calls \ {c} : signCalls'[d] = signCalls[d]
    BY <2>4, <1>a, SignSlotHolds
  <2>6. ASSUME signUI.server # None PROVE Faithful(c)'
    <3>1. Faithful(c) /\ ~Asking(c)
      BY <2>1, <2>2, <2>6 DEF DialogSound, Asking, InFlight
    <3>2. ~Asking(c)'
      BY <2>5, <3>1 DEF Asking
    <3>3. QED BY <2>1, <2>4, <2>5, <3>1, <3>2 DEF Faithful, NoneLater, HasToken, Upstream
  <2>7. QED BY <2>1, <2>2, <2>5, <2>6, RequestGoesOn
<1>14. ASSUME NEW c \in Calls, BreakSignCall(c) PROVE Goal
  <2>1. UNCHANGED <<credRow, codeFor, signUI, strayed>>
    BY <1>14 DEF BreakSignCall, credentials
  <2>2. CASE signCalls[c].op = "status"
    <3>1. signCalls'[c].op = None /\ \A d \in Calls \ {c} : signCalls'[d] = signCalls[d]
      BY <1>14, <2>2, <1>a, SignSlotHolds DEF BreakSignCall, Fruitless, InFlight
    <3>2. QED BY <2>1, <3>1, <1>c, <1>d, <1>6
  <2>3. ASSUME signCalls[c].op # "status"
        PROVE  /\ signCalls'[c].op = signCalls[c].op /\ signCalls'[c].arg = signCalls[c].arg
               /\ signCalls'[c].at = "failed" /\ \A d \in Calls \ {c} : signCalls'[d] = signCalls[d]
    BY <1>14, <2>3, <1>a, SignSlotHolds DEF BreakSignCall, InFlight
  <2>4. CASE Asking(c)
    <3>1. signCalls[c].op # "status"
      BY <2>4 DEF Asking
    <3>2. QED BY <2>1, <2>3, <2>4, <3>1, <1>10
  <2>5. CASE signCalls[c].op # "status" /\ ~Asking(c)
    <3>1. ~OfDialog(c)'
      BY <2>3, <2>5 DEF OfDialog, Asking, InFlight
    <3>2. QED BY <2>1, <2>3, <2>5, <3>1, <1>c, <1>6
  <2>6. QED BY <2>2, <2>4, <2>5
<1>15. ASSUME NEW c \in Calls, SettleConnect(c) PROVE Goal
  <2>1. /\ Asking(c) /\ signCalls[c].at \in {"answered", "failed"}
        /\ UNCHANGED <<credRow, codeFor, strayed>> /\ signCalls' = End(signCalls, c)
    BY <1>15 DEF SettleConnect, credentials
  <2>2. AsksAlone /\ DialogSound
    BY <2>1, <1>c
  <2>3. signCalls'[c].op = None /\ \A d \in Calls \ {c} : signCalls'[d] = signCalls[d]
    BY <2>1, <1>a, SignSlotHolds
  <2>4. /\ signUI'.server = signUI.server
        /\ signCalls[c].at = "answered" => signUI'.code = signCalls[c].ans /\ signUI'.phase = signUI.phase
        /\ signCalls[c].at = "failed" => signUI'.code = signUI.code /\ signUI'.phase = "expired"
    BY <1>15, <1>a DEF SettleConnect, PageOfSignIn
  <2>5. ASSUME signUI.server # None PROVE ShownIsTrue'
    <3>1. /\ Faithful(c) /\ CallsCode(c) /\ signUI.phase = "pending" /\ signUI.code = None
      BY <2>1, <2>2, <2>5, <1>9, <1>a DEF DialogSound, OfDialog, CodesAreTheirs
    <3>2. signCalls[c].at = "answered" => signCalls[c].ans \in UserCodes
      BY <2>1, <1>a DEF Asking, SignFits, AsksFor
    <3>3. CASE signCalls[c].at = "answered"
      <4>1. codeFor[signCalls[c].ans] = signUI.server /\ NoneLater(signCalls[c].ans)
        BY <2>1, <3>1, <3>2, <3>3 DEF Faithful, CallsCode
      <4>2. QED BY <2>1, <2>4, <3>1, <3>3, <4>1 DEF ShownIsTrue, NoneLater
    <3>4. CASE signCalls[c].at = "failed"
      BY <2>4, <3>1, <3>4 DEF ShownIsTrue
    <3>5. QED BY <2>1, <3>3, <3>4
  <2>6. \A d \in Calls \ {c} : ~Asking(d)
    BY <2>1, <2>2, <1>9 DEF OfDialog
  <2>7. QED BY <2>1, <2>2, <2>3, <2>4, <2>5, <2>6, <1>d, DialogStays
<1>16. ASSUME NEW c \in Calls, SettleStatusPoll(c) PROVE Goal
  <2>1. /\ InFlight(c, "status") /\ signCalls[c].at = "answered"
        /\ UNCHANGED <<credRow, codeFor, strayed>> /\ signCalls' = End(signCalls, c)
    BY <1>16, <1>a DEF SettleStatusPoll, Settled, InFlight, SignFits, credentials
  <2>2. AsksAlone /\ DialogSound /\ OfDialog(c)
    BY <2>1, <1>c DEF OfDialog
  <2>3. signCalls'[c].op = None /\ \A d \in Calls \ {c} : signCalls'[d] = signCalls[d]
    BY <2>1, <1>a, SignSlotHolds
  <2>4. signCalls[c].ans \in PollTells
    BY <2>1, <1>a DEF InFlight, SignFits
  <2>5. /\ signUI'.server = signUI.server
        /\ \/ signUI'.phase = "connected" /\ signCalls[c].ans = "connected" /\ signUI'.code = signUI.code
           \/ signUI'.phase = "expired" /\ signUI'.code = signUI.code
           \/ /\ signUI'.phase = signUI.phase
              /\ \/ signUI'.code = signUI.code
                 \/ signCalls[c].ans \in UserCodes /\ signUI'.code = signCalls[c].ans
    BY <1>16, <1>a, <1>b DEF SettleStatusPoll, PageOfSignIn
  <2>6. ASSUME signUI.server # None PROVE ShownIsTrue'
    <3>1. Faithful(c) /\ CallsCode(c) /\ ShownIsTrue
      BY <2>2, <2>6, <1>a DEF DialogSound, CodesAreTheirs
    <3>2. signCalls[c].ans = "connected" => HasToken
      BY <2>1, <3>1 DEF Faithful
    <3>3. signCalls[c].ans \in UserCodes =>
            codeFor[signCalls[c].ans] = signUI.server /\ NoneLater(signCalls[c].ans)
      BY <2>1, <3>1 DEF Faithful, CallsCode
    <3>4. HasToken' = HasToken /\ \A k : NoneLater(k)' = NoneLater(k)
      BY <2>1, <2>5 DEF HasToken, NoneLater
    <3>5. signUI'.phase = "connected" => HasToken
      BY <2>5, <3>1, <3>2 DEF ShownIsTrue
    <3>6. signUI'.code # None => codeFor[signUI'.code] = signUI.server /\ NoneLater(signUI'.code)
      BY <2>5, <3>1, <3>3 DEF ShownIsTrue
    <3>7. QED BY <2>1, <2>5, <3>4, <3>5, <3>6 DEF ShownIsTrue, HasToken, NoneLater
  <2>7. \A d \in Calls \ {c} : ~Asking(d)
    BY <2>2 DEF AsksAlone
  <2>8. QED BY <2>1, <2>2, <2>3, <2>5, <2>6, <2>7, <1>d, DialogStays
<1>17. QED BY <1>1, <1>2, <1>3, <1>4, <1>5, <1>7, <1>8, <1>11, <1>12, <1>13, <1>14, <1>15, <1>16,
  StartsAlike DEF SignInNext, SignInv

LEMMA SignInvariant == SignInSpec => []SignInv
<1>1. SignInInit => SignInv
  <2> SUFFICES ASSUME SignInInit PROVE SignInv
    OBVIOUS
  <2>1. Idle \in SignSlot
    BY SignAssumption
      DEF Idle, SignSlot, AnySignSlot, SignFits, AsksFor, SignOps, Slot, Places
  <2>2. SignTyped
    BY <2>1 DEF SignInInit, SignTyped, PageOfSignIn, SignPhases, CredentialRow, NoCredentials
  <2>3. /\ \A s \in Upstreams : credRow[s].code = None
        /\ \A c \in Calls : signCalls[c].at = "idle" /\ signCalls[c].op = None
        /\ signUI.server = None
    BY DEF SignInInit, NoCredentials, Idle
  <2>4. CodesAreTheirs
    BY <2>3 DEF CodesAreTheirs, RowsCode, CallsCode
  <2>5. AsksAlone /\ DialogSound
    BY <2>3, SignAssumption DEF AsksAlone, DialogSound, Asking, SignOps
  <2>6. QED BY <2>2, <2>4, <2>5 DEF SignInv
<1>2. SignInv /\ [SignInNext]_signVars => SignInv'
  <2> SUFFICES ASSUME SignInv, [SignInNext]_signVars PROVE SignInv'
    OBVIOUS
  <2>1. SignTyped' /\ CodesAreTheirs'
    BY SignTypeHolds, CodesHold DEF SignInv
  <2>2. ~strayed' => AsksAlone' /\ DialogSound'
    BY DialogHolds
  <2>3. QED BY <2>1, <2>2 DEF SignInv
<1>3. QED BY <1>1, <1>2, PTL DEF SignInSpec

(* Types of the credentials, the dialog and its requests, for any servers,   *)
(* codes and requests in flight.                                             *)
THEOREM SignInTypeCorrect == SignInSpec => []SignInTypeOK
<1>1. SignInv => SignInTypeOK
  BY DEF SignInv, SignTyped, SignInTypeOK, PageOfSignIn, SignPhases, CredentialRow, SignSlot,
    AnySignSlot
<1>2. QED BY <1>1, SignInvariant, PTL

(* The sign-in dialog tells the truth with any number of polls on the way,   *)
(* unless a request for a code met another one or a poll (ServersPage.tsx).  *)
THEOREM DialogTellsTruth == SignInSpec => []DialogIsTrue
<1>1. SignInv => DialogIsTrue
  BY DEF SignInv, DialogSound, ShownIsTrue, HasToken, NoneLater, DialogIsTrue
<1>2. QED BY <1>1, SignInvariant, PTL

-----------------------------------------------------------------------------
(* The composition.                                                        *)

LEMMA VisitsKeys == DashboardSpec => KeysSpec
<1>1. DashboardInit => KeysInit
  BY DEF DashboardInit
<1>2. [DashboardNext]_dashboardVars => [KeysNext]_keysVars
  BY DEF DashboardNext, dashboardVars
<1>3. QED BY <1>1, <1>2, PTL DEF DashboardSpec, KeysSpec

LEMMA VisitsLogin == DashboardSpec => LoginSpec
<1>1. DashboardInit => LoginInit
  BY DEF DashboardInit
<1>2. [DashboardNext]_dashboardVars => [LoginNext]_loginVars
  BY DEF DashboardNext, dashboardVars
<1>3. QED BY <1>1, <1>2, PTL DEF DashboardSpec, LoginSpec

LEMMA VisitsMembers == DashboardSpec => MembersSpec
<1>1. DashboardInit => MembersInit
  BY DEF DashboardInit
<1>2. [DashboardNext]_dashboardVars => [MembersNext]_membersVars
  BY DEF DashboardNext, dashboardVars
<1>3. QED BY <1>1, <1>2, PTL DEF DashboardSpec, MembersSpec

LEMMA VisitsJoin == DashboardSpec => JoinSpec
<1>1. DashboardInit => JoinInit
  BY DEF DashboardInit
<1>2. [DashboardNext]_dashboardVars => [JoinNext]_joinVars
  BY DEF DashboardNext, dashboardVars
<1>3. QED BY <1>1, <1>2, PTL DEF DashboardSpec, JoinSpec

LEMMA VisitsBell == DashboardSpec => BellSpec
<1>1. DashboardInit => BellInit
  BY DEF DashboardInit
<1>2. [DashboardNext]_dashboardVars => [BellNext]_bellVars
  BY DEF DashboardNext, dashboardVars
<1>3. QED BY <1>1, <1>2, PTL DEF DashboardSpec, BellSpec

LEMMA VisitsProviders == DashboardSpec => ProvidersSpec
<1>1. DashboardInit => ProvidersInit
  BY DEF DashboardInit
<1>2. [DashboardNext]_dashboardVars => [ProvidersNext]_providersVars
  BY DEF DashboardNext, dashboardVars
<1>3. QED BY <1>1, <1>2, PTL DEF DashboardSpec, ProvidersSpec

LEMMA VisitsOAuth == DashboardSpec => OAuthSpec
<1>1. DashboardInit => OAuthInit
  BY DEF DashboardInit
<1>2. [DashboardNext]_dashboardVars => [OAuthNext]_oauthVars
  BY DEF DashboardNext, dashboardVars
<1>3. QED BY <1>1, <1>2, PTL DEF DashboardSpec, OAuthSpec

LEMMA VisitsDrawer == DashboardSpec => DrawerSpec
<1>1. DashboardInit => DrawerInit
  BY DEF DashboardInit
<1>2. [DashboardNext]_dashboardVars => [DrawerNext]_drawerVars
  BY DEF DashboardNext, dashboardVars
<1>3. QED BY <1>1, <1>2, PTL DEF DashboardSpec, DrawerSpec

LEMMA VisitsTable == DashboardSpec => TableSpec
<1>1. DashboardInit => TableInit
  BY DEF DashboardInit
<1>2. [DashboardNext]_dashboardVars => [TableNext]_tableVars
  BY DEF DashboardNext, dashboardVars
<1>3. QED BY <1>1, <1>2, PTL DEF DashboardSpec, TableSpec

LEMMA VisitsSettings == DashboardSpec => SettingsSpec
<1>1. DashboardInit => SettingsInit
  BY DEF DashboardInit
<1>2. [DashboardNext]_dashboardVars => [SettingsNext]_settingsVars
  BY DEF DashboardNext, dashboardVars
<1>3. QED BY <1>1, <1>2, PTL DEF DashboardSpec, SettingsSpec

LEMMA VisitsWizard == DashboardSpec => WizardSpec
<1>1. DashboardInit => WizardInit
  BY DEF DashboardInit
<1>2. [DashboardNext]_dashboardVars => [WizardNext]_wizardVars
  BY DEF DashboardNext, dashboardVars
<1>3. QED BY <1>1, <1>2, PTL DEF DashboardSpec, WizardSpec

LEMMA VisitsSignIn == DashboardSpec => SignInSpec
<1>1. DashboardInit => SignInInit
  BY DEF DashboardInit
<1>2. [DashboardNext]_dashboardVars => [SignInNext]_signVars
  BY DEF DashboardNext, dashboardVars
<1>3. QED BY <1>1, <1>2, PTL DEF DashboardSpec, SignInSpec

(* What was proved of a page holds of the dashboard.                        *)
PagesAreSafe ==
  /\ TicketOpensOneSession /\ RecoveryCodeSpentOnce /\ ShownCodesOpen
  /\ InviteOpensOneSession /\ AdminRemains
  /\ BadgeAgrees /\ SaveRepairs /\ FallbacksEnd
  /\ TableAgrees /\ DialogIsTrue /\ ReplayOnlyAfterLoss /\ ConfigurationWorks

THEOREM DashboardIsSafe == DashboardSpec => []PagesAreSafe
<1>1. DashboardSpec => [](TicketOpensOneSession /\ RecoveryCodeSpentOnce /\ ShownCodesOpen)
  BY VisitsLogin, VisitsSettings, OneSessionPerTicket, RecoveryCodeOnce, CodesOpenAccount, PTL
<1>2. DashboardSpec => [](InviteOpensOneSession /\ AdminRemains)
  BY VisitsJoin, VisitsMembers, OneSessionPerInvite, AdminStays, PTL
<1>3. DashboardSpec => [](BadgeAgrees /\ SaveRepairs /\ FallbacksEnd)
  BY VisitsBell, VisitsDrawer, VisitsProviders, BadgeIsRight, OneSaveRepairs,
    FallbacksAreShort, PTL
<1>4. DashboardSpec => [](TableAgrees /\ DialogIsTrue)
  BY VisitsTable, VisitsSignIn, TableShowsRows, DialogTellsTruth, PTL
<1>5. DashboardSpec => [](ReplayOnlyAfterLoss /\ ConfigurationWorks)
  BY VisitsOAuth, VisitsWizard, NoReplay, CopiedConfigurationWorks, PTL
<1>6. QED BY <1>1, <1>2, <1>3, <1>4, <1>5, PTL DEF PagesAreSafe

(* Types of the page that is open, for any values of the constants.         *)
THEOREM DashboardTypeCorrect == DashboardSpec => []DashboardTypeOK
<1>1. DashboardSpec => [](page \in Pages)
  <2>1. DashboardInit => page \in Pages
    BY DEF DashboardInit
  <2>2. page \in Pages /\ [DashboardNext]_dashboardVars => (page \in Pages)'
    BY DEF DashboardNext, dashboardVars
  <2>3. QED BY <2>1, <2>2, PTL DEF DashboardSpec
<1>2. BellInv => BellTypeOK
  BY DEF BellInv, BellTypeOK, BellState, RefreshSlot
<1>3. RoutesInv => ProvidersTypeOK
  BY DEF RoutesInv, RoutesTyped, ProvidersTypeOK, ProvidersState, ProvSlot
<1>4. DashboardSpec => [](KeysTypeOK /\ DrawerTypeOK /\ TableTypeOK /\ SignInTypeOK)
  BY VisitsKeys, VisitsDrawer, VisitsTable, VisitsSignIn, KeysTypeCorrect, DrawerTypeCorrect,
    TableTypeCorrect, SignInTypeCorrect, PTL
<1>5. DashboardSpec => [](LoginTypeOK /\ MembersTypeOK /\ JoinTypeOK /\ SettingsTypeOK)
  BY VisitsLogin, VisitsMembers, VisitsJoin, VisitsSettings, LoginTypeCorrect,
    MembersTypeCorrect, JoinTypeCorrect, SettingsTypeCorrect, PTL
<1>6. DashboardSpec => [](WizardTypeOK /\ ProvidersTypeOK /\ BellTypeOK /\ OAuthTypeOK)
  BY <1>2, <1>3, VisitsWizard, VisitsProviders, VisitsBell, VisitsOAuth, WizardTypeCorrect,
    RoutesInvariant, BellInvariant, OAuthTypeCorrect, PTL
<1>7. /\ page \in Pages
      /\ KeysTypeOK /\ DrawerTypeOK /\ TableTypeOK /\ SignInTypeOK
      /\ LoginTypeOK /\ MembersTypeOK /\ JoinTypeOK /\ SettingsTypeOK
      /\ WizardTypeOK /\ ProvidersTypeOK /\ BellTypeOK /\ OAuthTypeOK
      => DashboardTypeOK
  BY DEF Pages, DashboardTypeOK
<1>8. QED BY <1>1, <1>4, <1>5, <1>6, <1>7, PTL

(* A new key's plaintext leaves the dashboard only after it was on screen.  *)
THEOREM DashboardRevealsKeys == DashboardSpec => RevealBeforeDiscard
BY VisitsKeys, KeyIsShown, PTL
=============================================================================
