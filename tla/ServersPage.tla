----------------------------- MODULE ServersPage -----------------------------
(***************************************************************************)
(* The table of the servers page (pages/ServersPage.tsx) and the handlers  *)
(* it calls.  The Enable button changes the table before the request is    *)
(* answered and takes the change back when it fails; nothing disables the  *)
(* buttons meanwhile.  Adding and connecting a server: see SignIn.         *)
(***************************************************************************)
EXTENDS Requests

CONSTANTS Servers    \* the servers that exist

VARIABLES
  serverRow,   \* [Servers -> state]: the mcp_servers rows, by their enabled flag
  tableUI,     \* the page's React state
  tableCalls,  \* its requests
  muddled      \* history: the servers whose requests overlapped each other or a
               \* reload, and those whose answer was lost after the handler ran

tableVars == <<serverRow, tableUI, tableCalls, muddled>>

Shown == {"none", "on", "off"}
RowOps == {"enable", "disable", "deleteServer"}
TableOps == RowOps \cup {"listServers", "reindex", "status"}

ASSUME TableAssumption == None \notin Servers \cup TableOps

TableTypeOK ==
  /\ serverRow \in [Servers -> Shown]
  /\ tableUI \in [rows : [Servers -> Shown], deleting : Servers \cup {None},
                  retesting : Servers \cup {None}]
  /\ tableCalls \in [Calls -> Slot(TableOps, Servers, [Servers -> Shown])]
  /\ muddled \subseteq Servers

TableInit ==
  /\ serverRow \in [Servers -> {"on", "off"}]
  /\ tableUI = [rows |-> [s \in Servers |-> "none"], deleting |-> None, retesting |-> None]
  /\ tableCalls = [c \in Calls |-> Idle]
  /\ muddled = {}

-----------------------------------------------------------------------------
(* What the user does.                                                     *)

Writing(s) == {c \in Calls : tableCalls[c].op \in RowOps /\ tableCalls[c].arg = s}
Reloading == Flying(tableCalls, "listServers")

SendRow(c, op, s) ==
  /\ tableCalls[c].at = "idle"
  /\ tableCalls' = Send(tableCalls, c, op, s)
  /\ muddled' = IF Writing(s) # {} \/ Reloading # {} THEN muddled \cup {s} ELSE muddled
  /\ UNCHANGED serverRow

\* load, on mount and from the error banner; a drawer's Retest ends in one too, and
\* may end while a deletion is being confirmed
ReloadServers(c) ==
  /\ tableCalls[c].at = "idle"
  /\ tableCalls' = Send(tableCalls, c, "listServers", None)
  /\ muddled' = muddled \cup {s \in Servers : Writing(s) # {}}
  /\ UNCHANGED <<serverRow, tableUI>>

\* toggleEnabled: the table changes at once
Toggle(c, s) ==
  /\ tableUI.deleting = None
  /\ \/ tableUI.rows[s] = "off" /\ SendRow(c, "enable", s)
        /\ tableUI' = [tableUI EXCEPT !.rows[s] = "on"]
     \/ tableUI.rows[s] = "on" /\ SendRow(c, "disable", s)
        /\ tableUI' = [tableUI EXCEPT !.rows[s] = "off"]

\* the Delete button opens a confirmation
AskDelete(s) ==
  /\ tableUI.deleting = None /\ tableUI.rows[s] # "none"
  /\ tableUI' = [tableUI EXCEPT !.deleting = s]
  /\ UNCHANGED <<serverRow, tableCalls, muddled>>

CancelDelete ==
  /\ tableUI.deleting # None
  /\ tableUI' = [tableUI EXCEPT !.deleting = None]
  /\ UNCHANGED <<serverRow, tableCalls, muddled>>

\* remove: the confirmation stays open, and its button works, until the answer
ConfirmDelete(c) ==
  /\ tableUI.deleting # None
  /\ SendRow(c, "deleteServer", tableUI.deleting)
  /\ UNCHANGED tableUI

\* retest: the button of a server that failed, disabled for the last one pressed
Retest(c, s) ==
  /\ tableUI.deleting = None /\ tableUI.rows[s] # "none" /\ tableUI.retesting # s
  /\ tableCalls[c].at = "idle"
  /\ tableCalls' = Send(tableCalls, c, "reindex", s)
  /\ tableUI' = [tableUI EXCEPT !.retesting = s]
  /\ UNCHANGED <<serverRow, muddled>>

-----------------------------------------------------------------------------
(* What the server does.                                                   *)

\* a failed list or delete only shows its message
Lost(c) == IF tableCalls[c].op \in {"listServers", "deleteServer"}
             THEN End(tableCalls, c) ELSE Reject(tableCalls, c)

ServeServers(c) ==
  /\ tableCalls[c].at = "sent" /\ tableCalls[c].op = "listServers"
  /\ tableCalls' = Answer(tableCalls, c, serverRow)
  /\ UNCHANGED <<serverRow, tableUI, muddled>>

Becomes == [enable |-> "on", disable |-> "off", deleteServer |-> "none"]

\* patchServer answers the row it wrote, which op tells; 404 without a row
ServeRow(c) ==
  /\ tableCalls[c].at = "sent" /\ tableCalls[c].op \in RowOps
  /\ IF serverRow[tableCalls[c].arg] = "none"
       THEN tableCalls' = Lost(c) /\ UNCHANGED serverRow
       ELSE /\ serverRow' = [serverRow EXCEPT ![tableCalls[c].arg] = Becomes[tableCalls[c].op]]
            /\ tableCalls' = Answer(tableCalls, c, None)
  /\ UNCHANGED <<tableUI, muddled>>

\* reindexServer, serverStatus: they read the upstream, not the flag
ServeProbe(c) ==
  /\ tableCalls[c].at = "sent" /\ tableCalls[c].op \in {"reindex", "status"}
  /\ tableCalls' = IF serverRow[tableCalls[c].arg] = "none" THEN Reject(tableCalls, c)
                   ELSE Answer(tableCalls, c, None)
  /\ UNCHANGED <<serverRow, tableUI, muddled>>

BreakTableCall(c) ==
  /\ CanBreak(tableCalls, c)
  /\ tableCalls' = Lost(c)
  /\ muddled' = IF tableCalls[c].at = "answered" /\ tableCalls[c].op \in RowOps
                  THEN muddled \cup {tableCalls[c].arg} ELSE muddled
  /\ UNCHANGED <<serverRow, tableUI>>

-----------------------------------------------------------------------------
(* What the page does when the answer arrives.                             *)

SettleServers(c) ==
  /\ tableCalls[c].op = "listServers" /\ tableCalls[c].at = "answered"
  /\ tableUI' = [tableUI EXCEPT !.rows = tableCalls[c].ans]
  /\ tableCalls' = End(tableCalls, c)
  /\ UNCHANGED <<serverRow, muddled>>

\* prev.map: a row that has left the table does not come back
Replaced(s, flag) == [tableUI.rows EXCEPT ![s] = IF @ = "none" THEN @ ELSE flag]

(* Mutant: a failed request leaves the table as the click made it. *)
KeepShown(s, op) == tableUI.rows

\* the catch of toggleEnabled: the flag the button showed when it was pressed
TakenBack(s, op) == Replaced(s, IF op = "enable" THEN "off" ELSE "on")

SettleToggle(c) ==
  /\ tableCalls[c].op \in {"enable", "disable"}
  /\ \/ /\ tableCalls[c].at = "answered"
        /\ tableUI' = [tableUI EXCEPT !.rows =
             Replaced(tableCalls[c].arg, Becomes[tableCalls[c].op])]
     \/ /\ tableCalls[c].at = "failed"
        /\ tableUI' = [tableUI EXCEPT !.rows = TakenBack(tableCalls[c].arg, tableCalls[c].op)]
  /\ tableCalls' = End(tableCalls, c)
  /\ UNCHANGED <<serverRow, muddled>>

\* whatever confirmation is open by now closes
SettleDelete(c) ==
  /\ tableCalls[c].op = "deleteServer" /\ tableCalls[c].at = "answered"
  /\ tableUI' = [tableUI EXCEPT !.rows[tableCalls[c].arg] = "none", !.deleting = None]
  /\ tableCalls' = End(tableCalls, c)
  /\ UNCHANGED <<serverRow, muddled>>

\* the reindex is followed by a status request; the finally clears retesting,
\* which may be another server's by now
SettleProbe(c) ==
  /\ tableCalls[c].op \in {"reindex", "status"} /\ tableCalls[c].at \in {"answered", "failed"}
  /\ IF tableCalls[c].op = "reindex" /\ tableCalls[c].at = "answered"
       THEN /\ tableCalls' = Send(tableCalls, c, "status", tableCalls[c].arg)
            /\ UNCHANGED tableUI
       ELSE /\ tableCalls' = End(tableCalls, c)
            /\ tableUI' = [tableUI EXCEPT !.retesting = None]
  /\ UNCHANGED <<serverRow, muddled>>

-----------------------------------------------------------------------------
TableNext ==
  \/ CancelDelete
  \/ \E s \in Servers : AskDelete(s)
  \/ \E c \in Calls :
       \/ ReloadServers(c) \/ ConfirmDelete(c)
       \/ \E s \in Servers : Toggle(c, s) \/ Retest(c, s)
       \/ ServeServers(c) \/ ServeRow(c) \/ ServeProbe(c) \/ BreakTableCall(c)
       \/ SettleServers(c) \/ SettleToggle(c) \/ SettleDelete(c) \/ SettleProbe(c)

TableSpec == TableInit /\ [][TableNext]_tableVars

(* With no request on a server in flight, a server the table shows is shown  *)
(* as its row is: the optimistic Enable, its answer, its rollback and the    *)
(* reloads agree, unless requests on that server overlapped or an answer was *)
(* lost after the handler ran (ServersPage.tsx: toggleEnabled, remove, load).*)
TableAgrees ==
  \A s \in Servers \ muddled :
    Writing(s) = {} /\ tableUI.rows[s] # "none" => tableUI.rows[s] = serverRow[s]
=============================================================================
