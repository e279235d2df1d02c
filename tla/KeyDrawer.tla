----------------------------- MODULE KeyDrawer -----------------------------
(***************************************************************************)
(* One key's access policy: the drawer that edits it                       *)
(* (components/KeyDetailDrawer.tsx), the handlers that store it            *)
(* (putKeyServers, putKeyProviders, putKeyTools) and the in-memory policy  *)
(* the request path decides by (policy.Cache).                             *)
(*                                                                         *)
(* A handler commits the new policy of one lane and then reloads the       *)
(* whole cache entry: InvalidateKey reads the tables one statement at a    *)
(* time and installs what it read under the lock.  A read can fail, and    *)
(* the handler does not look at the error.  Two handlers that overlap can  *)
(* install in the wrong order: the saving flag keeps the saves of one      *)
(* drawer apart, nothing those of two dashboards.                          *)
(***************************************************************************)
EXTENDS Requests

CONSTANTS
  Lanes,      \* "servers", "providers", "tools": mode, grants and budgets of each
  Choices,    \* the policies a lane can have
  All,        \* the choice of a new drawer: everything allowed
  Licensed    \* tool_policy of the plan

ASSUME DrawerAssumption ==
  /\ All \in Choices /\ Licensed \in BOOLEAN
  /\ None \notin Choices \cup [Lanes -> Choices]

VARIABLES
  laneRow,     \* [Lanes -> Choices]: the policy tables
  laneCache,   \* [Lanes -> Choices], or None: Cache.keys[id]
  drawerUI,    \* the drawer's React state
  drawerCalls, \* its requests
  orphans,     \* saves this drawer does not wait for: it closed, its fetch was
               \* rejected, or another dashboard sent them
  disturbed    \* history: the latest save met another one, or could not read a table

drawerVars == <<laneRow, laneCache, drawerUI, drawerCalls, orphans, disturbed>>

DrawerPlaces == Places \cup {"running"}   \* a save's handler, after its commit
DrawerOps == {"load", "loadAfterSave", "save"}
Policies == [Lanes -> Choices]
Readings == [Lanes -> Choices \cup {None}]
Unread == [l \in Lanes |-> None]

DrawerTypeOK ==
  /\ laneRow \in Policies
  /\ laneCache \in Policies \cup {None}
  /\ drawerUI \in [open : BOOLEAN, saving : BOOLEAN, draft : Policies]
  /\ drawerCalls \in [Calls -> [at : DrawerPlaces, op : DrawerOps \cup {None},
                                arg : (Lanes \X Choices) \cup {None},
                                ans : Readings \cup {None}]]
  /\ orphans \subseteq Calls
  /\ disturbed \in BOOLEAN

\* Warm has loaded the cache from the tables
DrawerInit ==
  /\ laneRow \in Policies
  /\ laneCache = laneRow
  /\ drawerUI = [open |-> FALSE, saving |-> FALSE, draft |-> [l \in Lanes |-> All]]
  /\ drawerCalls = [c \in Calls |-> Idle]
  /\ orphans = {}
  /\ disturbed = FALSE

SaveRunning == \E c \in Calls : drawerCalls[c].at = "running"

\* AllowedServer, ServerBudget and the others: no entry, no limits
Enforced == IF laneCache = None THEN [l \in Lanes |-> All] ELSE laneCache

Busy(c) == drawerCalls[c].at # "idle"
IsLoad(c) == drawerCalls[c].op \in {"load", "loadAfterSave"}

-----------------------------------------------------------------------------
(* The drawer.                                                             *)

OpenDrawer(c) ==
  /\ ~drawerUI.open /\ ~Busy(c)
  /\ drawerUI' = [open |-> TRUE, saving |-> FALSE, draft |-> [l \in Lanes |-> All]]
  /\ drawerCalls' = Send(drawerCalls, c, "load", None)
  /\ UNCHANGED <<laneRow, laneCache, orphans, disturbed>>

\* the cross or the backdrop, enabled also while a save is in flight: the state
\* goes, what the server still has to do stays
CloseDrawer ==
  /\ drawerUI.open
  /\ drawerUI' = [drawerUI EXCEPT !.open = FALSE]
  /\ orphans' = orphans \cup {c \in Flying(drawerCalls, "save") : drawerCalls[c].at \in {"sent", "running"}}
  /\ drawerCalls' = [c \in Calls |-> IF c \in orphans' THEN drawerCalls[c] ELSE Idle]
  /\ UNCHANGED <<laneRow, laneCache, disturbed>>

\* mode buttons, check boxes and caps: disabled without the licence
EditLane(l, v) ==
  /\ drawerUI.open /\ Licensed /\ drawerUI.draft[l] # v
  /\ drawerUI' = [drawerUI EXCEPT !.draft[l] = v]
  /\ UNCHANGED <<laneRow, laneCache, drawerCalls, orphans, disturbed>>

\* one saving flag for the three buttons
CanSave == drawerUI.open /\ Licensed /\ ~drawerUI.saving

\* saveServers, saveProviders, saveTools
SaveLane(c, l) ==
  /\ CanSave
  /\ ~Busy(c)
  /\ drawerUI' = [drawerUI EXCEPT !.saving = TRUE]
  /\ drawerCalls' = Send(drawerCalls, c, "save", <<l, drawerUI.draft[l]>>)
  /\ UNCHANGED <<laneRow, laneCache, orphans, disturbed>>

\* the drawer of another dashboard, or a client of the API
SaveElsewhere(c, l, v) ==
  /\ Licensed /\ ~Busy(c)
  /\ drawerCalls' = Send(drawerCalls, c, "save", <<l, v>>)
  /\ orphans' = orphans \cup {c}
  /\ UNCHANGED <<laneRow, laneCache, drawerUI, disturbed>>

\* load depends on the server picked in the tools tab: picking runs it again
PickToolServer(c) ==
  /\ drawerUI.open /\ ~Busy(c)
  /\ drawerCalls' = Send(drawerCalls, c, "load", None)
  /\ UNCHANGED <<laneRow, laneCache, drawerUI, orphans, disturbed>>

\* load: every draft is replaced by what was read, edited or not
SettleLoad(c) ==
  /\ IsLoad(c)
  /\ drawerCalls[c].at \in {"answered", "failed"}
  /\ drawerUI' = [drawerUI EXCEPT
       !.draft = IF drawerCalls[c].at = "answered" THEN drawerCalls[c].ans ELSE @,
       !.saving = @ /\ drawerCalls[c].op = "load"]
  /\ drawerCalls' = End(drawerCalls, c)
  /\ UNCHANGED <<laneRow, laneCache, orphans, disturbed>>

\* success awaits a load before the finally clears saving; failure clears it
SettleSave(c) ==
  /\ drawerCalls[c].op = "save"
  /\ \/ /\ drawerCalls[c].at = "answered"
        /\ drawerCalls' = Send(drawerCalls, c, "loadAfterSave", None)
        /\ UNCHANGED drawerUI
     \/ /\ drawerCalls[c].at = "failed"
        /\ drawerCalls' = End(drawerCalls, c)
        /\ drawerUI' = [drawerUI EXCEPT !.saving = FALSE]
  /\ UNCHANGED <<laneRow, laneCache, orphans, disturbed>>

-----------------------------------------------------------------------------
(* The server.  The answer to an orphan is heard by nobody.                *)

Close(c, answered) ==
  /\ drawerCalls' = CASE c \in orphans -> End(drawerCalls, c)
                      [] c \notin orphans /\ answered -> Answer(drawerCalls, c, None)
                      [] OTHER -> Reject(drawerCalls, c)
  /\ orphans' = orphans \ {c}

\* SetKeyServerAccess, SetKeyProviderAccess, SetKeyToolPolicy: one transaction
Commit(c) ==
  /\ drawerCalls[c].op = "save" /\ drawerCalls[c].at = "sent"
  /\ laneRow' = [laneRow EXCEPT ![drawerCalls[c].arg[1]] = drawerCalls[c].arg[2]]
  /\ drawerCalls' = [drawerCalls EXCEPT ![c].at = "running", ![c].ans = Unread]
  /\ disturbed' = SaveRunning
  /\ UNCHANGED <<laneCache, drawerUI, orphans>>

\* InvalidateKey's SELECTs
ReadLane(c, l) ==
  /\ drawerCalls[c].at = "running"
  /\ drawerCalls[c].ans[l] = None
  /\ drawerCalls' = [drawerCalls EXCEPT ![c].ans[l] = laneRow[l]]
  /\ UNCHANGED <<laneRow, laneCache, drawerUI, orphans, disturbed>>

AllRead(c) == \A l \in Lanes : drawerCalls[c].ans[l] # None

(* Mutant: the entry keeps the lanes the save is not about. *)
OneLane(c) ==
  [Enforced EXCEPT ![drawerCalls[c].arg[1]] = drawerCalls[c].ans[drawerCalls[c].arg[1]]]

\* the entry that is built from what was read
Entry(c) == drawerCalls[c].ans

\* InvalidateKey's last section
Install(c) ==
  /\ drawerCalls[c].at = "running" /\ AllRead(c)
  /\ laneCache' = Entry(c)
  /\ Close(c, TRUE)
  /\ UNCHANGED <<laneRow, drawerUI, disturbed>>

\* a load's three access requests; lanes are edited and saved one by one, so
\* reading them at once loses nothing
ServeLoad(c) ==
  /\ IsLoad(c) /\ drawerCalls[c].at = "sent"
  /\ drawerCalls' = Answer(drawerCalls, c, laneRow)
  /\ UNCHANGED <<laneRow, laneCache, drawerUI, orphans, disturbed>>

\* a read fails, on an error of the database or because the client has gone and
\* its context with it: a policy read drops the entry, a budget read leaves the
\* old one; the handler ignores the error and goes on to its answer
ReadFails(c) ==
  /\ drawerCalls[c].at = "running" /\ ~AllRead(c)
  /\ laneCache' \in {laneCache, None}
  /\ \E answered \in BOOLEAN : Close(c, answered)
  /\ disturbed' = TRUE
  /\ UNCHANGED <<laneRow, drawerUI>>

\* validation refuses the request, or the connection breaks outside the handler
BreakDrawerCall(c) ==
  /\ CanBreak(drawerCalls, c)
  /\ Close(c, FALSE)
  /\ UNCHANGED <<laneRow, laneCache, drawerUI, disturbed>>

\* the connection breaks when the handler runs or has yet to: the drawer sees a
\* failed save
CutSave(c) ==
  /\ drawerCalls[c].op = "save" /\ drawerCalls[c].at \in {"sent", "running"}
  /\ c \notin orphans
  /\ orphans' = orphans \cup {c}
  /\ drawerUI' = [drawerUI EXCEPT !.saving = FALSE]
  /\ UNCHANGED <<laneRow, laneCache, drawerCalls, disturbed>>

\* a crash or a restart at any point; Warm loads every policy
RestartServer ==
  /\ laneCache' = laneRow
  /\ drawerCalls' = [c \in Calls |->
       IF c \in orphans \/ ~Busy(c) THEN Idle
       ELSE [drawerCalls[c] EXCEPT !.at = "failed", !.ans = None]]
  /\ orphans' = {}
  /\ disturbed' = FALSE
  /\ UNCHANGED <<laneRow, drawerUI>>

-----------------------------------------------------------------------------
DrawerNext ==
  \/ CloseDrawer \/ RestartServer
  \/ \E l \in Lanes, v \in Choices : EditLane(l, v)
  \/ \E c \in Calls :
       \/ OpenDrawer(c) \/ PickToolServer(c)
       \/ SettleLoad(c) \/ SettleSave(c)
       \/ Commit(c) \/ Install(c) \/ ServeLoad(c) \/ ReadFails(c)
       \/ BreakDrawerCall(c) \/ CutSave(c)
       \/ \E l \in Lanes : SaveLane(c, l) \/ ReadLane(c, l)
       \/ \E l \in Lanes, v \in Choices : SaveElsewhere(c, l, v)

DrawerSpec == DrawerInit /\ [][DrawerNext]_drawerVars

(* One save repairs everything: whatever was overlapped, lost or left stale  *)
(* in any lane before, a save that meets no other save and reads every table *)
(* (putKeyServers and the like, InvalidateKey in cache.go) ends with the     *)
(* stored policy enforced in all lanes, and loads, closed drawers, broken    *)
(* connections and saves refused before their commit keep it so.             *)
SaveRepairs == ~disturbed /\ ~SaveRunning => Enforced = laneRow

(* Whenever no save is being handled, the stored policy is the enforced one: *)
(* "if server_policy=custom and the server is not granted -> HTTP 403"       *)
(* (docs/TOOL_POLICY.md).                                                    *)
PolicyEnforced == ~SaveRunning => Enforced = laneRow
=============================================================================
