---------------------------- MODULE SetupWizard ----------------------------
(***************************************************************************)
(* The first-run wizard (components/SetupWizard.tsx): add a server, create *)
(* a key that opens it, copy the client's configuration, finish.           *)
(*                                                                         *)
(* Each of its requests sets the step when it ends, whatever step the user *)
(* went to meanwhile.  indexing keeps the form from being sent twice, not  *)
(* the presets from being added beside it; creatingKey keeps the key form. *)
(***************************************************************************)
EXTENDS Requests

CONSTANTS Sites,      \* servers that exist or can be created
          WizardKeys  \* keys that can be created

VARIABLES
  made,        \* [Sites -> state]: the servers rows and their catalog
  keySite,     \* [WizardKeys -> Sites]: the server each created key is for
  wizard,      \* the wizard's React state
  wizCalls,    \* its requests
  crossed      \* history: a request about the server or the key left beside another

wizardVars == <<made, keySite, wizard, wizCalls, crossed>>

SiteStates == {"none", "unindexed", "indexed"}
Creations == {"server", "preset"}
WizardOps == Creations \cup {"reindex", "key", "finish", "skip"}

ASSUME WizardAssumption == None \notin WizardOps \cup Sites \cup WizardKeys

WizardTypeOK ==
  /\ made \in [Sites -> SiteStates]
  /\ keySite \in [WizardKeys -> Sites \cup {None}]
  /\ wizard \in [step   : {"welcome", "server", "key", "client", "done", "left"},
                 server : Sites \cup {None},
                 key    : WizardKeys \cup {None},
                 indexing : BOOLEAN, indexError : BOOLEAN,
                 creatingKey : BOOLEAN,
                 finishing   : BOOLEAN]
  /\ wizCalls \in [Calls -> Slot(WizardOps, Sites, Sites \cup WizardKeys)]
  /\ crossed \in BOOLEAN

WizardInit ==
  /\ made = [s \in Sites |-> "none"]
  /\ keySite = [k \in WizardKeys |-> None]
  /\ wizard = [step |-> "welcome", server |-> None, key |-> None,
               indexing |-> FALSE, indexError |-> FALSE, creatingKey |-> FALSE, finishing |-> FALSE]
  /\ wizCalls = [c \in Calls |-> Idle]
  /\ crossed = FALSE

Rows == <<made, keySite>>
AtStep(step) == wizard.step = step
Goto(step) == wizard' = [wizard EXCEPT !.step = step]

-----------------------------------------------------------------------------
(* What the user does.                                                     *)

\* Back and Next; the last step has neither
Walk == /\ \/ AtStep("welcome") /\ Goto("server")
           \/ AtStep("server")  /\ Goto("welcome")
           \/ AtStep("key")     /\ Goto("server")
           \/ AtStep("client")  /\ (Goto("key") \/ Goto("done"))
        /\ UNCHANGED <<Rows, wizCalls, crossed>>

Working == Creations \cup {"reindex", "key"}

Request(c, op, arg) ==
  /\ wizCalls[c].at = "idle"
  /\ wizCalls' = Send(wizCalls, c, op, arg)
  /\ crossed' = (crossed \/ (op \in Working /\ \E o \in Working : Flying(wizCalls, o) # {}))
  /\ UNCHANGED Rows

Indexing(c, op, arg) ==
  /\ wizard' = [wizard EXCEPT !.indexing = TRUE, !.indexError = FALSE]
  /\ Request(c, op, arg)

\* submitServer: the form's button waits for indexing
SubmitServer(c) == AtStep("server") /\ ~wizard.indexing /\ Indexing(c, "server", None)

\* addPresetNow, from a tile of the guided list: it waits for nothing, and an
\* answer for one tile stops the wheel of another
AddPreset(c) == AtStep("server") /\ Indexing(c, "preset", None)

\* applyPreset of one that needs local settings: the error says where to add it,
\* and Retry stands beside it
RefusePreset ==
  /\ AtStep("server")
  /\ wizard' = [wizard EXCEPT !.indexError = TRUE]
  /\ UNCHANGED <<Rows, wizCalls, crossed>>

\* retryIndex: with a server it is indexed again, without one created
RetryIndex(c) ==
  /\ AtStep("server") /\ wizard.indexError /\ ~wizard.indexing
  /\ IF wizard.server = None THEN Indexing(c, "server", None)
                             ELSE Indexing(c, "reindex", wizard.server)

CreateWizardKey(c) ==
  /\ AtStep("key") /\ ~wizard.creatingKey
  /\ wizard' = [wizard EXCEPT !.creatingKey = TRUE]
  /\ Request(c, "key", wizard.server)

Finish(c) ==
  /\ AtStep("done") /\ ~wizard.finishing
  /\ wizard' = [wizard EXCEPT !.finishing = TRUE]
  /\ Request(c, "finish", None)

\* skip: at any step; once completeOnboarding has answered or failed, the
\* wizard is gone
Skip(c) ==
  /\ ~AtStep("left")
  /\ Request(c, "skip", None)
  /\ UNCHANGED wizard

-----------------------------------------------------------------------------
(* The handlers: createServer, reindexServer, createKey, completeOnboarding *)

\* the row is inserted; indexing it may fail, and the answer says so (arg)
ServeSite(c) ==
  /\ wizCalls[c].at = "sent" /\ wizCalls[c].op \in Creations
  /\ \E s \in Sites, state \in {"unindexed", "indexed"} :
       /\ made[s] = "none"
       /\ made' = [made EXCEPT ![s] = state]
       /\ wizCalls' = [wizCalls EXCEPT ![c].at = "answered", ![c].ans = s,
                                       ![c].arg = IF state = "indexed" THEN s ELSE None]
  /\ UNCHANGED <<keySite, wizard, crossed>>

\* a failed run leaves the catalog there was
ServeReindex(c) ==
  /\ wizCalls[c].at = "sent" /\ wizCalls[c].op = "reindex"
  /\ \/ /\ made' = [made EXCEPT ![wizCalls[c].arg] = "indexed"]
        /\ wizCalls' = Answer(wizCalls, c, wizCalls[c].arg)
     \/ UNCHANGED made /\ wizCalls' = Answer(wizCalls, c, None)
  /\ UNCHANGED <<keySite, wizard, crossed>>

ServeWizardKey(c) ==
  /\ wizCalls[c].at = "sent" /\ wizCalls[c].op = "key"
  /\ \E k \in WizardKeys :
       /\ keySite[k] = None
       /\ keySite' = [keySite EXCEPT ![k] = wizCalls[c].arg]
       /\ wizCalls' = Answer(wizCalls, c, k)
  /\ UNCHANGED <<made, wizard, crossed>>

ServeDone(c) ==
  /\ wizCalls[c].at = "sent" /\ wizCalls[c].op \in {"finish", "skip"}
  /\ wizCalls' = Answer(wizCalls, c, None)
  /\ UNCHANGED <<Rows, wizard, crossed>>

\* a plan limit, an error, a broken connection
BreakWizardCall(c) ==
  /\ CanBreak(wizCalls, c)
  /\ wizCalls' = Reject(wizCalls, c)
  /\ UNCHANGED <<Rows, wizard, crossed>>

-----------------------------------------------------------------------------
(* After the await.                                                        *)

Ends(c) == wizCalls' = End(wizCalls, c) /\ UNCHANGED <<Rows, crossed>>
Moved(step) == IF AtStep("left") THEN "left" ELSE step

(* Mutant: indexing_error is not looked at. *)
SettleSiteUnchecked(c) ==
  /\ wizCalls[c].at = "answered" /\ wizCalls[c].op \in Creations
  /\ wizard' = [wizard EXCEPT !.server = wizCalls[c].ans, !.indexing = FALSE,
                              !.step = Moved("key")]
  /\ Ends(c)

\* handleCreateResult: the server is kept even if it could not be indexed;
\* the step moves on only if it could
SettleSite(c) ==
  /\ wizCalls[c].at = "answered" /\ wizCalls[c].op \in Creations
  /\ LET kept == [wizard EXCEPT !.server = wizCalls[c].ans, !.indexing = FALSE]
     IN  wizard' = IF wizCalls[c].arg = None THEN [kept EXCEPT !.indexError = TRUE]
                                             ELSE [kept EXCEPT !.step = Moved("key")]
  /\ Ends(c)

\* retryIndex: the server it was asked for is put back
SettleReindex(c) ==
  /\ wizCalls[c].at = "answered" /\ wizCalls[c].op = "reindex"
  /\ wizard' = IF wizCalls[c].ans = None
       THEN [wizard EXCEPT !.indexing = FALSE, !.indexError = TRUE]
       ELSE [wizard EXCEPT !.indexing = FALSE, !.server = wizCalls[c].arg,
                           !.step = Moved("key")]
  /\ Ends(c)

SettleWizardKey(c) ==
  /\ wizCalls[c].at = "answered" /\ wizCalls[c].op = "key"
  /\ wizard' = [wizard EXCEPT !.key = wizCalls[c].ans, !.creatingKey = FALSE,
                              !.step = Moved("client")]
  /\ Ends(c)

\* finish: onDone unmounts the wizard; onSkipComplete does so after an error too
SettleDone(c) ==
  /\ \/ /\ wizCalls[c].op = "finish"
        /\ wizard' = [wizard EXCEPT !.finishing = FALSE,
                        !.step = IF wizCalls[c].at = "answered" THEN "left" ELSE @]
     \/ wizCalls[c].op = "skip" /\ Goto("left")
  /\ wizCalls[c].at \in {"answered", "failed"}
  /\ Ends(c)

\* an error is shown, in the form or in a toast
SettleFailure(c) ==
  /\ wizCalls[c].at = "failed" /\ wizCalls[c].op \notin {"finish", "skip"}
  /\ wizard' = IF wizCalls[c].op = "key" THEN [wizard EXCEPT !.creatingKey = FALSE]
                       ELSE [wizard EXCEPT !.indexing = FALSE, !.indexError = TRUE]
  /\ Ends(c)

-----------------------------------------------------------------------------
WizardNext ==
  \/ Walk \/ RefusePreset
  \/ \E c \in Calls :
       \/ SubmitServer(c) \/ AddPreset(c) \/ RetryIndex(c) \/ CreateWizardKey(c)
       \/ Finish(c) \/ Skip(c)
       \/ ServeSite(c) \/ ServeReindex(c) \/ ServeWizardKey(c) \/ ServeDone(c)
       \/ BreakWizardCall(c)
       \/ SettleSite(c) \/ SettleReindex(c) \/ SettleWizardKey(c) \/ SettleDone(c)
       \/ SettleFailure(c)

WizardSpec == WizardInit /\ [][WizardNext]_wizardVars

(* The configuration the wizard offers to copy works: its key was created    *)
(* for the server whose endpoint stands beside it, and that server is in the *)
(* catalog - unless the user made two requests about them cross, a tile      *)
(* beside the form or a step back while the key was being created            *)
(* (SetupWizard.tsx: the endpoint comes from server, the header from keyRes, *)
(* set by handlers that do not look at each other).                          *)
ConfigurationWorks ==
  wizard.step \in {"client", "done"} /\ ~crossed
    => /\ wizard.key # None
       /\ keySite[wizard.key] = wizard.server
       /\ made[wizard.server] = "indexed"
=============================================================================
