--------------------------- MODULE ProvidersPage ---------------------------
(***************************************************************************)
(* The providers page (pages/ProvidersPage.tsx): LLM providers and the     *)
(* route aliases to them, and the handlers it calls (api/llm.go), which    *)
(* other dashboards call at the same time.                                 *)
(*                                                                         *)
(* A submitted route form becomes one createLLMModel per alias, one after  *)
(* the other, each with the provider and the fallback of the form.  The    *)
(* handler checks both and then inserts; nothing holds the rows still in   *)
(* between.  The schema declares provider_id and fallback_model_id as      *)
(* references, but the connection never turns SQLite's foreign keys on     *)
(* (store.go: Open): a deletion deletes its own row and nothing else, and  *)
(* what pointed at the row goes on pointing at an id nobody has.           *)
(*                                                                         *)
(* Ids are uuids and are never given twice: here they are numbers, given   *)
(* in order, 0 for none.  The lists the page shows are not kept: they may  *)
(* be old, so a form may name any id there ever was.  An alias only        *)
(* decides whether the INSERT is refused: it may be or it may not.         *)
(***************************************************************************)
EXTENDS Requests, Naturals

CONSTANTS
  MaxProviders, MaxRoutes,  \* bounds: the providers and the routes ever created
  MaxNames                  \* bound: the aliases of one form

ASSUME ProvidersAssumption == MaxProviders \in Nat /\ MaxRoutes \in Nat /\ MaxNames \in Nat \ {0}

VARIABLES
  provider,     \* the llm_providers rows there are
  route,        \* [RouteIds -> row]: the llm_models rows
  given,        \* how many ids of each have been given out
  providersUI,  \* the page's React state
  provCalls,    \* its requests
  unheard       \* requests of other dashboards: this page does not see the answer

providersVars == <<provider, route, given, providersUI, provCalls, unheard>>

RouteIds == 1..MaxRoutes
ModelRows == [to : 0..MaxProviders, fallback : 0..MaxRoutes]
NoRoute == [to |-> 0, fallback |-> 0]

\* load, the health checks and the power button leave what is kept here as it is,
\* and so does every reload but those a form or a preset waits for
ProviderOps == {"drop", "dropRoute", "create", "addNow", "route", "reload", "reloadAdded"}

\* what a request is about: a route, the provider and the fallback of its body
Bodies == [id : 0..MaxRoutes, to : 0..MaxProviders, fallback : 0..MaxRoutes]
Body(id, to, fallback) == [id |-> id, to |-> to, fallback |-> fallback]

ASSUME RoutesAssumption == None \notin ProviderOps \cup Bodies \cup ModelRows

ProvidersTypeOK ==
  /\ provider \subseteq 1..MaxProviders
  /\ route \in [RouteIds -> ModelRows]
  /\ given \in [providers : 0..MaxProviders, routes : 0..MaxRoutes]
  /\ providersUI \in [dialogs : SUBSET {"provider", "route"},  \* providerModal, modelModal
                      saving  : BOOLEAN,
                      adding  : BOOLEAN,                       \* addingId
                      todo    : 0..(MaxNames - 1),             \* createModel's names ahead
                      errors  : BOOLEAN]
  \* a handler's answer slot holds the row it has checked and is about to write
  /\ provCalls \in [Calls -> Slot(ProviderOps, Bodies, ModelRows)]
  /\ unheard \subseteq Calls

ProvidersInit ==
  /\ provider = {}
  /\ route = [r \in RouteIds |-> NoRoute]
  /\ given = [providers |-> 0, routes |-> 0]
  /\ providersUI = [dialogs |-> {}, saving |-> FALSE, adding |-> FALSE, todo |-> 0, errors |-> FALSE]
  /\ provCalls = [c \in Calls |-> Idle]
  /\ unheard = {}

LLMRows == <<provider, route, given>>
Requested(c, op, body) == provCalls[c].at = "idle" /\ provCalls' = Send(provCalls, c, op, body)
IsOpen(d) == d \in providersUI.dialogs
Live(r) == r \in RouteIds /\ route[r] # NoRoute
KnownProviders == 1..given.providers
KnownRoutes == 1..given.routes

-----------------------------------------------------------------------------
(* What the users do.                                                      *)

\* a delete button, after a browser confirm
Deletion(c) ==
  \/ \E p \in KnownProviders : Requested(c, "drop", Body(0, p, 0))
  \/ \E r \in KnownRoutes : Requested(c, "dropRoute", Body(r, 0, 0))

RowButton(c) ==
  /\ providersUI.dialogs = {}
  /\ Deletion(c)
  /\ UNCHANGED <<LLMRows, providersUI, unheard>>

OpenDialog(d) ==
  /\ providersUI.dialogs = {}
  /\ providersUI' = [providersUI EXCEPT !.dialogs = {d}]
  /\ UNCHANGED <<LLMRows, provCalls, unheard>>

CloseDialog(d) ==
  /\ IsOpen(d)
  /\ providersUI' = [providersUI EXCEPT !.dialogs = @ \ {d}]
  /\ UNCHANGED <<LLMRows, provCalls, unheard>>

\* createProvider: the custom form
SubmitProvider(c) ==
  /\ IsOpen("provider") /\ ~providersUI.saving
  /\ providersUI' = [providersUI EXCEPT !.saving = TRUE]
  /\ Requested(c, "create", Body(0, 0, 0))
  /\ UNCHANGED <<LLMRows, unheard>>

\* addProviderNow of a local preset, from the dialog or the empty page
AddProviderNow(c) ==
  /\ ~IsOpen("route") /\ ~providersUI.adding
  /\ providersUI' = [providersUI EXCEPT !.adding = TRUE]
  /\ Requested(c, "addNow", Body(0, 0, 0))
  /\ UNCHANGED <<LLMRows, unheard>>

\* the body of createLLMModel
RouteRequest(c) ==
  \E p \in KnownProviders, f \in KnownRoutes \cup {0} : Requested(c, "route", Body(0, p, f))

\* createModel: the provider and the fallback of the form, the first of its aliases
SubmitRoutes(c) ==
  /\ IsOpen("route") /\ ~providersUI.saving
  /\ \E names \in 1..MaxNames :
       providersUI' = [providersUI EXCEPT !.saving = TRUE, !.todo = names - 1]
  /\ RouteRequest(c)
  /\ UNCHANGED <<LLMRows, unheard>>

\* the same requests from another dashboard, where other dialogs are open
OtherDashboard(c) ==
  /\ \/ Deletion(c) /\ UNCHANGED unheard
     \/ /\ Requested(c, "create", Body(0, 0, 0)) \/ RouteRequest(c)
        /\ unheard' = unheard \cup {c}
  /\ UNCHANGED <<LLMRows, providersUI>>

-----------------------------------------------------------------------------
(* The handlers.                                                           *)

Serving(c, op) == provCalls[c].at = "sent" /\ provCalls[c].op = op
Target(c) == provCalls[c].arg

\* the answer: nobody waits for one to another dashboard, and of a deletion the
\* page only shows the error
Conclude(c, done) ==
  /\ provCalls' = CASE c \in unheard \/ provCalls[c].op \in {"drop", "dropRoute"} -> End(provCalls, c)
                    [] OTHER -> IF done THEN Answer(provCalls, c, None) ELSE Reject(provCalls, c)
  /\ unheard' = unheard \ {c}

\* createLLMProvider
InsertProvider(c) ==
  /\ Serving(c, "create") \/ Serving(c, "addNow")
  /\ given.providers < MaxProviders
  /\ given' = [given EXCEPT !.providers = @ + 1]
  /\ provider' = provider \cup {given.providers + 1}
  /\ Conclude(c, TRUE)
  /\ UNCHANGED <<route, providersUI>>

\* deleteLLMProvider: the routes to it stay
DeleteProvider(c) ==
  /\ Serving(c, "drop") /\ Target(c).to \in provider
  /\ provider' = provider \ {Target(c).to}
  /\ Conclude(c, TRUE)
  /\ UNCHANGED <<route, given, providersUI>>

\* deleteLLMModel: the fallbacks on it stay
DeleteRoute(c) ==
  /\ Serving(c, "dropRoute") /\ Live(Target(c).id)
  /\ route' = [route EXCEPT ![Target(c).id] = NoRoute]
  /\ Conclude(c, TRUE)
  /\ UNCHANGED <<provider, given, providersUI>>

(* Mutant: only the fallback itself is looked at. *)
AnyFallback(f) == f = 0 \/ Live(f)

\* ValidateFallbackChain: the fallback's own fallback must have none, not even one
\* that is gone
ValidFallback(f) ==
  \/ f = 0
  \/ /\ Live(f)
     /\ Live(route[f].fallback) => route[route[f].fallback].fallback = 0

\* createLLMModel, the checks
CheckRoute(c) ==
  /\ Serving(c, "route") /\ provCalls[c].ans = None
  /\ IF Target(c).to \in provider /\ ValidFallback(Target(c).fallback)
       THEN /\ provCalls' = [provCalls EXCEPT
                 ![c].ans = [to |-> Target(c).to, fallback |-> Target(c).fallback]]
            /\ UNCHANGED unheard
       ELSE Conclude(c, FALSE)
  /\ UNCHANGED <<LLMRows, providersUI>>

\* the INSERT looks at the alias, at neither the provider nor the fallback
InsertRoute(c) ==
  /\ Serving(c, "route") /\ provCalls[c].ans # None
  /\ \/ /\ given.routes < MaxRoutes
        /\ given' = [given EXCEPT !.routes = @ + 1]
        /\ route' = [route EXCEPT ![given.routes + 1] = provCalls[c].ans]
        /\ Conclude(c, TRUE)
     \/ Conclude(c, FALSE) /\ UNCHANGED <<route, given>>
  /\ UNCHANGED <<provider, providersUI>>

\* an error answer (a row that is not there), an expired session, a broken connection
BreakProviderCall(c) ==
  /\ CanBreak(provCalls, c) /\ provCalls[c].op \notin {"reload", "reloadAdded"}
  /\ Conclude(c, FALSE)
  /\ UNCHANGED <<LLMRows, providersUI>>

-----------------------------------------------------------------------------
(* After the await.                                                        *)

Ended(c) == provCalls[c].at \in {"answered", "failed"}
Worked(c) == provCalls[c].at = "answered"

\* load, awaited before the finally clears saving or addingId; it catches its errors
SettleReload(c) ==
  /\ \/ /\ provCalls[c].op = "reload"
        /\ providersUI' = [providersUI EXCEPT !.saving = FALSE]
     \/ /\ provCalls[c].op = "reloadAdded"
        /\ providersUI' = [providersUI EXCEPT !.adding = FALSE]
  /\ provCalls' = End(provCalls, c)
  /\ UNCHANGED <<LLMRows, unheard>>

\* createProvider: the dialog closes and the lists are awaited, or the error shows
SettleProvider(c) ==
  /\ Ended(c) /\ provCalls[c].op = "create"
  /\ IF Worked(c)
       THEN /\ provCalls' = Send(provCalls, c, "reload", None)
            /\ providersUI' = [providersUI EXCEPT !.dialogs = @ \ {"provider"}]
       ELSE /\ provCalls' = End(provCalls, c)
            /\ providersUI' = [providersUI EXCEPT !.saving = FALSE]
  /\ UNCHANGED <<LLMRows, unheard>>

\* addProviderNow: an error opens the form with the preset's values
SettleAddNow(c) ==
  /\ Ended(c) /\ provCalls[c].op = "addNow"
  /\ IF Worked(c)
       THEN /\ provCalls' = Send(provCalls, c, "reloadAdded", None)
            /\ providersUI' = [providersUI EXCEPT !.dialogs = @ \ {"provider"}]
       ELSE /\ provCalls' = End(provCalls, c)
            /\ providersUI' = [providersUI EXCEPT !.adding = FALSE, !.dialogs = @ \cup {"provider"}]
  /\ UNCHANGED <<LLMRows, unheard>>

\* createModel: the next alias, whether or not this one failed; at the end the
\* dialog closes if none did, and the lists are awaited
SettleRoute(c) ==
  /\ Ended(c) /\ provCalls[c].op = "route"
  /\ LET errors == providersUI.errors \/ ~Worked(c)
     IN  IF providersUI.todo > 0
           THEN /\ provCalls' = Send(provCalls, c, "route", Target(c))
                /\ providersUI' = [providersUI EXCEPT !.todo = @ - 1, !.errors = errors]
           ELSE /\ provCalls' = Send(provCalls, c, "reload", None)
                /\ providersUI' = [providersUI EXCEPT !.errors = FALSE,
                     !.dialogs = IF errors THEN @ ELSE @ \ {"route"}]
  /\ UNCHANGED <<LLMRows, unheard>>

-----------------------------------------------------------------------------
ProvidersNext ==
  \/ \E d \in {"provider", "route"} : OpenDialog(d) \/ CloseDialog(d)
  \/ \E c \in Calls :
       \/ RowButton(c) \/ SubmitProvider(c) \/ AddProviderNow(c) \/ SubmitRoutes(c) \/ OtherDashboard(c)
       \/ InsertProvider(c) \/ DeleteProvider(c)
       \/ DeleteRoute(c) \/ CheckRoute(c) \/ InsertRoute(c) \/ BreakProviderCall(c)
       \/ SettleReload(c) \/ SettleProvider(c) \/ SettleAddNow(c) \/ SettleRoute(c)

ProvidersSpec == ProvidersInit /\ [][ProvidersNext]_providersVars

Hop(r) == route[r].fallback
OneMore(f) == Live(f) /\ Live(Hop(f)) => ~Live(Hop(Hop(f)))

(* However the submissions and the deletions of several dashboards           *)
(* interleave, the fallbacks of a route end after two hops, and so will      *)
(* those of a route between its check and its INSERT.  The check looks ahead *)
(* of the new route only; it is enough because no dashboard changes the      *)
(* fallback of a route there is, and a deletion only shortens a chain.  Two  *)
(* hops are what the comment of ValidateFallbackChain (store/llm.go) takes   *)
(* for its depth 2; docs/LLM_ROUTING.md takes it for one hop.                *)
FallbacksEnd ==
  /\ \A r \in RouteIds : Live(r) => OneMore(Hop(r))
  /\ \A c \in Calls : Serving(c, "route") /\ provCalls[c].ans # None
                        => OneMore(provCalls[c].ans.fallback)
=============================================================================
