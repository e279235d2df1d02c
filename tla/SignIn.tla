------------------------------- MODULE SignIn -------------------------------
(***************************************************************************)
(* Adding an OAuth server and signing in to it: two dialogs of the servers *)
(* page (pages/ServersPage.tsx) and the handlers behind them (api/oauth.go)*)
(*                                                                         *)
(* A created OAuth server is connected at once: the page asks for a code,  *)
(* shows it, and polls every few seconds until a token is stored.  Nothing *)
(* cancels a request when its dialog closes or turns to another server,    *)
(* and nothing keeps two polls, or a poll and the request for the code,    *)
(* from overlapping.  The poller of each sign-in is UpstreamOAuth's, and   *)
(* so is a stored token that a failed refresh marks expired later on.      *)
(***************************************************************************)
EXTENDS Requests

CONSTANTS
  Upstreams,   \* OAuth servers that exist or can be created
  UserCodes    \* bound: verification codes the upstreams give out

VARIABLES
  credRow,     \* [Upstreams -> row]: the server, its token, its pending sign-in
  codeFor,     \* [UserCodes -> Upstreams]: the server each code was given out for
  signUI,      \* the page's React state
  signCalls,   \* its requests
  strayed      \* history: since the dialog was turned to its server, a request for
               \* a code or a poll was in flight beside a request for a code

signVars == <<credRow, codeFor, signUI, signCalls, strayed>>

SignOps == {"create", "list", "connect", "reconnect", "status"}
Told == {"connected", "over", "cleared"}

ASSUME SignAssumption ==
  None \notin SignOps \cup Upstreams \cup UserCodes /\ Told \cap UserCodes = {}

NoCredentials == [there |-> FALSE, token |-> "none", code |-> None]

SignInTypeOK ==
  /\ credRow \in [Upstreams -> [there : BOOLEAN, token : {"none", "connected"},
                                code : UserCodes \cup {None}]]
  /\ codeFor \in [UserCodes -> Upstreams \cup {None}]
  /\ signUI \in [adding : BOOLEAN,                           \* modalOpen
                 server : Upstreams \cup {None},             \* connectServerId
                 phase  : {"idle", "pending", "connected", "expired"},
                 code   : UserCodes \cup {None}]             \* connectSession
  /\ signCalls \in [Calls -> Slot(SignOps, Upstreams, Upstreams \cup UserCodes \cup Told)]
  /\ strayed \in BOOLEAN

SignInInit ==
  /\ credRow = [s \in Upstreams |-> NoCredentials]
  /\ codeFor = [k \in UserCodes |-> None]
  /\ signUI = [adding |-> FALSE, server |-> None, phase |-> "idle", code |-> None]
  /\ signCalls = [c \in Calls |-> Idle]
  /\ strayed = FALSE

credentials == <<credRow, codeFor>>
InFlight(c, what) == signCalls[c].op = what
Asking(c) == signCalls[c].op \in {"connect", "reconnect"}
Upstream(c) == signCalls[c].arg

-----------------------------------------------------------------------------
(* What the user and the timer do.                                         *)

\* openAddDialog
OpenAdd ==
  /\ ~signUI.adding /\ signUI.server = None
  /\ signUI' = [signUI EXCEPT !.adding = TRUE]
  /\ UNCHANGED <<credentials, signCalls, strayed>>

CloseAdd ==
  /\ signUI.adding
  /\ signUI' = [signUI EXCEPT !.adding = FALSE]
  /\ UNCHANGED <<credentials, signCalls, strayed>>

\* addNow of a preset's tile, onCreate of the form.  The form's button waits for
\* its last submission (saving), a tile for its own only: a server can be added
\* at any time
AddServer(c) ==
  /\ signUI.adding
  /\ signCalls[c].at = "idle"
  /\ signCalls' = Send(signCalls, c, "create", None)
  /\ UNCHANGED <<credentials, signUI, strayed>>

(* Mutant: the code of the last sign-in stays on the screen. *)
KeepShownCode(s) == [signUI EXCEPT !.server = s, !.phase = "pending"]

\* the dialog turns to s
TurnedTo(s) == [signUI EXCEPT !.server = s, !.phase = "pending", !.code = None]

\* startConnect: whichever dialog is open by now
StartConnect(c, what, s) ==
  /\ signUI' = TurnedTo(s)
  /\ signCalls' = Send(signCalls, c, what, s)
  /\ strayed' = \E d \in Calls \ {c} : Asking(d) \/ InFlight(d, "status")
  /\ UNCHANGED credentials

\* the Connect button of a row, whose status may be old
ConnectRow(c, s, what) ==
  /\ signUI.server = None /\ ~signUI.adding
  /\ credRow[s].there /\ signCalls[c].at = "idle"
  /\ StartConnect(c, what, s)

\* Retry in the dialog
RetryConnect(c) ==
  /\ signUI.server # None /\ signUI.phase = "expired"
  /\ signCalls[c].at = "idle"
  /\ StartConnect(c, "reconnect", signUI.server)

\* Close leaves the code where it is, the backdrop clears it
CloseConnect ==
  /\ signUI.server # None
  /\ \E code \in {signUI.code, None} :
       signUI' = [signUI EXCEPT !.server = None, !.phase = "idle", !.code = code]
  /\ UNCHANGED <<credentials, signCalls, strayed>>

\* the interval does not wait for the request for the code, nor for the last poll
Poll(c) ==
  /\ signUI.server # None /\ signUI.phase = "pending"
  /\ signCalls[c].at = "idle"
  /\ signCalls' = Send(signCalls, c, "status", signUI.server)
  /\ strayed' = (strayed \/ \E d \in Calls : Asking(d))
  /\ UNCHANGED <<credentials, signUI>>

-----------------------------------------------------------------------------
(* The handlers.                                                           *)

Handles(c, what) == InFlight(c, what) /\ signCalls[c].at = "sent"
\* nothing follows a poll that failed or says nothing new
Fruitless(c) == signCalls' = End(signCalls, c)
Noted(c, told) == signCalls' = [signCalls EXCEPT ![c].ans = told]

\* createServer: an OAuth server is not indexed, so there is no indexing error
CreateServer(c) ==
  /\ Handles(c, "create")
  /\ \E s \in Upstreams :
       /\ ~credRow[s].there
       /\ credRow' = [credRow EXCEPT ![s].there = TRUE]
       /\ signCalls' = Answer(signCalls, c, s)
  /\ UNCHANGED <<codeFor, signUI, strayed>>

\* reconnectServer deletes the token and the pending sign-in, then connects
ClearCredentials(c) ==
  /\ Handles(c, "reconnect") /\ signCalls[c].ans = None
  /\ credRow' = [credRow EXCEPT ![Upstream(c)].token = "none", ![Upstream(c)].code = None]
  /\ Noted(c, "cleared")
  /\ UNCHANGED <<codeFor, signUI, strayed>>

\* connectServer: the upstream gives out a code and the sign-in is saved
BeginSignIn(c) ==
  /\ Handles(c, "connect") \/ (Handles(c, "reconnect") /\ signCalls[c].ans = "cleared")
  /\ \E k \in UserCodes :
       /\ codeFor[k] = None
       /\ codeFor' = [codeFor EXCEPT ![k] = Upstream(c)]
       /\ credRow' = [credRow EXCEPT ![Upstream(c)].code = k]
       /\ signCalls' = Answer(signCalls, c, k)
  /\ UNCHANGED <<signUI, strayed>>

\* getConnectStatus reads the token, then the pending sign-in: "over" when there
\* is none, a token stored between the two included, or its time has run out
ReadStatus(c) ==
  /\ Handles(c, "status")
  /\ IF credRow[Upstream(c)].token = "connected"
       THEN signCalls' = Answer(signCalls, c, "connected")
       ELSE \E told \in {credRow[Upstream(c)].code, "over"} :
              signCalls' = Answer(signCalls, c, IF told = None THEN "over" ELSE told)
  /\ UNCHANGED <<credentials, signUI, strayed>>

\* the upstream cannot begin a sign-in, an expired session, a broken connection
BreakSignCall(c) ==
  /\ CanBreak(signCalls, c) /\ ~InFlight(c, "list")
  /\ IF InFlight(c, "status") THEN Fruitless(c) ELSE signCalls' = Reject(signCalls, c)
  /\ UNCHANGED <<credentials, signUI, strayed>>

\* pollDeviceUntilDone of any sign-in that was started, also a replaced one: the
\* token is stored, then the pending row deleted
Approved(s) ==
  /\ \E k \in UserCodes : codeFor[k] = s
  /\ credRow' = [credRow EXCEPT ![s].token = "connected", ![s].code = None]
  /\ UNCHANGED <<codeFor, signUI, signCalls, strayed>>

\* the sign-in has expired
CodeRunsOut(s) ==
  /\ credRow' = [credRow EXCEPT ![s].code = None]
  /\ UNCHANGED <<codeFor, signUI, signCalls, strayed>>

-----------------------------------------------------------------------------
(* After the await.                                                        *)

Settled(c, what) == InFlight(c, what) /\ signCalls[c].at \in {"answered", "failed"}

\* an error opens the form again; else the dialog closes, the list is awaited
\* and the server connected
SettleCreateServer(c) ==
  /\ Settled(c, "create")
  /\ IF signCalls[c].at = "failed"
       THEN /\ signUI' = [signUI EXCEPT !.adding = TRUE]
            /\ signCalls' = End(signCalls, c)
       ELSE /\ signUI' = [signUI EXCEPT !.adding = FALSE]
            /\ signCalls' = Send(signCalls, c, "list", signCalls[c].ans)
  /\ UNCHANGED <<credentials, strayed>>

\* load changes nothing here and catches its errors
SettleServerList(c) ==
  /\ InFlight(c, "list")
  /\ StartConnect(c, "connect", Upstream(c))

\* the code is shown in whatever dialog is open by now
SettleConnect(c) ==
  /\ Asking(c) /\ signCalls[c].at \in {"answered", "failed"}
  /\ signUI' = IF signCalls[c].at = "answered"
                  THEN [signUI EXCEPT !.code = signCalls[c].ans]
                  ELSE [signUI EXCEPT !.phase = "expired"]
  /\ signCalls' = End(signCalls, c)
  /\ UNCHANGED <<credentials, strayed>>

\* a poll's answer, whatever the dialog shows by now
SettleStatusPoll(c) ==
  /\ Settled(c, "status")
  /\ signUI' = CASE signCalls[c].ans = "connected" -> [signUI EXCEPT !.phase = "connected"]
                 [] signCalls[c].ans = "over"      -> [signUI EXCEPT !.phase = "expired"]
                 [] signCalls[c].ans \in UserCodes /\ signUI.code # None
                                                   -> [signUI EXCEPT !.code = signCalls[c].ans]
                 [] OTHER                          -> signUI
  /\ signCalls' = End(signCalls, c)
  /\ UNCHANGED <<credentials, strayed>>

-----------------------------------------------------------------------------
SignInNext ==
  \/ OpenAdd \/ CloseAdd \/ CloseConnect
  \/ \E s \in Upstreams : Approved(s) \/ CodeRunsOut(s)
  \/ \E c \in Calls :
       \/ AddServer(c)
       \/ \E s \in Upstreams : ConnectRow(c, s, "connect") \/ ConnectRow(c, s, "reconnect")
       \/ RetryConnect(c) \/ Poll(c)
       \/ CreateServer(c) \/ ClearCredentials(c) \/ BeginSignIn(c)
       \/ ReadStatus(c) \/ BreakSignCall(c)
       \/ SettleCreateServer(c) \/ SettleServerList(c) \/ SettleConnect(c) \/ SettleStatusPoll(c)

SignInSpec == SignInInit /\ [][SignInNext]_signVars

(* The sign-in dialog tells the truth: "connected" only when a token of the  *)
(* server it is open for is stored, and a code only if it was given out for  *)
(* that server and no later one replaced it - with any number of polls on    *)
(* the way, unless a request for a code met another one or a poll            *)
(* (ServersPage.tsx: startConnect and the interval).                         *)
DialogIsTrue ==
  signUI.server # None /\ ~strayed =>
    /\ signUI.phase = "connected" => credRow[signUI.server].token = "connected"
    /\ signUI.phase = "pending" /\ signUI.code # None =>
         /\ codeFor[signUI.code] = signUI.server
         /\ credRow[signUI.server].code \in {signUI.code, None}
=============================================================================
