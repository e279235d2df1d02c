---------------------------- MODULE SettingsPage ----------------------------
(***************************************************************************)
(* The settings page (pages/SettingsPage.tsx) in one tab: enrolling in     *)
(* two-factor authentication, and the admin's mail settings and templates. *)
(*                                                                         *)
(* The recovery codes exist in clear only in the answer of confirm2FA; the *)
(* row keeps their hashes.  confirm2FA reads the row, verifies, and writes *)
(* a new batch over whatever the row holds by then.  One busy flag is all  *)
(* that keeps the page from asking for two things at once; load alone does *)
(* not set it.                                                             *)
(***************************************************************************)
EXTENDS Requests

CONSTANTS
  Batches,    \* recovery-code batches: GenerateRecoveryCodes never repeats one
  Texts,      \* contents of the mail settings and of the templates
  Default     \* the content the form has before anything was loaded

Forms == {"smtp", "templates"}

VARIABLES
  totp,        \* the user's totp row
  mail,        \* [Forms -> Texts]: the settings rows
  settingsUI,  \* the page's React state
  setCalls     \* its requests

settingsVars == <<totp, mail, settingsUI, setCalls>>

\* no row; a row waiting for its confirmation; enabled, with the codes issued
Enrolments == {"absent", "pending"} \cup Batches
Loads == {"load", "loadSmtp", "loadTemplates"}
Reloads == {"reload", "reloadSmtp", "reloadTemplates"}   \* remove2FA awaits this one
SettingsOps == Loads \cup Reloads \cup {"setup", "confirm", "status", "remove",
                                         "smtp", "templates", "test"}

ASSUME SettingsAssumption == Default \in Texts /\ None \notin SettingsOps

\* what else an answer can be: get2FA's enabled, and a code found right
Readable == {"on", "off", "verified"}

SettingsTypeOK ==
  /\ totp \in Enrolments
  /\ mail \in [Forms -> Texts]
  /\ settingsUI \in [twoFA  : BOOLEAN,                     \* get2FA last said: enabled
                     form   : [Forms -> Texts],
                     busy   : {"setup", "confirm", "remove", "smtp", "templates", "test", None},
                     dialog : {"none", "qr", "code", "recovery", "remove", "gone"},
                     codes  : Batches \cup {None}]         \* recoveryCodes
  /\ setCalls \in [Calls -> Slot(SettingsOps, Texts, Batches \cup Texts \cup Readable)]

SettingsInit ==
  /\ totp \in Enrolments
  /\ mail \in [Forms -> Texts]
  /\ settingsUI = [twoFA |-> FALSE, form |-> [f \in Forms |-> Default], busy |-> None,
                   dialog |-> "none", codes |-> None]
  /\ setCalls = [c \in Calls |-> Idle]

\* "gone": a 401 cleared the session, and the browser left for /login
Leave == settingsUI' = [settingsUI EXCEPT !.dialog = "gone"]
Alone == UNCHANGED <<totp, mail>>
Open(dialog) == settingsUI' = [settingsUI EXCEPT !.dialog = dialog]

-----------------------------------------------------------------------------
(* What the user does.  A dialog covers the page.                          *)

\* load: on mount, on Retry, and when the recovery codes are dismissed
LoadSettings(c) ==
  /\ setCalls[c].at = "idle" /\ settingsUI.dialog = "none"
  /\ setCalls' = Send(setCalls, c, "load", None)
  /\ UNCHANGED settingsUI /\ Alone

(* Mutant: the buttons do not wait for busy. *)
FreeAlways(c, dialog) == settingsUI.dialog = dialog /\ setCalls[c].at = "idle"

\* the disabled={busy !== null} of every button that sends a request
Free(c, dialog) ==
  /\ settingsUI.dialog = dialog
  /\ settingsUI.busy = None
  /\ setCalls[c].at = "idle"

Begin(c, op, arg) ==
  /\ setCalls' = Send(setCalls, c, op, arg)
  /\ settingsUI' = [settingsUI EXCEPT !.busy = op,
                                      !.codes = IF op = "setup" THEN None ELSE @]

\* twoFA says not enrolled, or is not known yet; the row may say otherwise
StartSetup(c) == /\ Free(c, "none")
                 /\ ~settingsUI.twoFA
                 /\ Begin(c, "setup", None) /\ Alone

IScanned ==
  /\ settingsUI.dialog = "qr"
  /\ Open("code") /\ Alone /\ UNCHANGED setCalls

ConfirmSetup(c) == Free(c, "code") /\ Begin(c, "confirm", None) /\ Alone

\* Cancel, Escape, the backdrop: also while the request is in flight
CloseSetup ==
  /\ settingsUI.dialog \in {"qr", "code"}
  /\ settingsUI' = [settingsUI EXCEPT !.dialog = "none", !.codes = None]
  /\ UNCHANGED setCalls /\ Alone

\* Done, or closing the dialog at the codes
FinishSetup(c) ==
  /\ settingsUI.dialog = "recovery" /\ setCalls[c].at = "idle"
  /\ settingsUI' = [settingsUI EXCEPT !.dialog = "none", !.codes = None]
  /\ setCalls' = Send(setCalls, c, "load", None)
  /\ Alone

AskRemove2FA ==
  /\ settingsUI.dialog = "none" /\ settingsUI.busy = None
  /\ settingsUI.twoFA
  /\ Open("remove") /\ Alone /\ UNCHANGED setCalls

CancelRemove2FA ==
  /\ settingsUI.dialog = "remove"
  /\ Open("none") /\ Alone /\ UNCHANGED setCalls

Remove2FA(c) == Free(c, "remove") /\ Begin(c, "remove", None) /\ Alone

EditForm(f, x) ==
  /\ settingsUI.dialog = "none"
  /\ settingsUI' = [settingsUI EXCEPT !.form[f] = x]
  /\ UNCHANGED setCalls /\ Alone

\* saveSMTP, saveTemplates: the form as it is, loaded or not
SaveForm(c, f) == Free(c, "none") /\ Begin(c, f, settingsUI.form[f]) /\ Alone

SendTest(c) == Free(c, "none") /\ Begin(c, "test", None) /\ Alone

-----------------------------------------------------------------------------
(* The handlers.                                                           *)

Handling(c, op) == setCalls[c].at = "sent" /\ setCalls[c].op = op

\* me and get2FA, then getSMTP and getTemplates; testSMTP changes nothing
ServeRead(c) ==
  /\ setCalls[c].at = "sent"
  /\ \/ /\ setCalls[c].op \in {"load", "reload", "status"}
        /\ setCalls' = Answer(setCalls, c, IF totp \in Batches THEN "on" ELSE "off")
     \/ /\ setCalls[c].op \in {"loadSmtp", "reloadSmtp"}
        /\ setCalls' = Answer(setCalls, c, mail["smtp"])
     \/ /\ setCalls[c].op \in {"loadTemplates", "reloadTemplates"}
        /\ setCalls' = Answer(setCalls, c, mail["templates"])
     \/ Handling(c, "test") /\ setCalls' = Answer(setCalls, c, None)
  /\ UNCHANGED settingsUI /\ Alone

\* setup2FA: the secret is replaced and the enrolment disabled, whatever it was
ServeSetup(c) ==
  /\ Handling(c, "setup")
  /\ totp' = "pending"
  /\ setCalls' = Answer(setCalls, c, None)
  /\ UNCHANGED <<mail, settingsUI>>

\* confirm2FA, GetTOTP and Verify: enrolled already, no codes are issued;
\* without a row, and for a wrong code, the answer is 401
VerifyCode(c) ==
  /\ Handling(c, "confirm") /\ setCalls[c].ans = None
  /\ totp # "absent"
  /\ setCalls' = IF totp = "pending" THEN [setCalls EXCEPT ![c].ans = "verified"]
                                     ELSE Answer(setCalls, c, None)
  /\ UNCHANGED settingsUI /\ Alone

\* SetTOTPConfirmed, WHERE user_id: no row is an error
WriteBatch(c) ==
  /\ Handling(c, "confirm") /\ setCalls[c].ans = "verified"
  /\ IF totp = "absent"
       THEN setCalls' = Reject(setCalls, c) /\ UNCHANGED totp
       ELSE \E b \in Batches \ ({totp, settingsUI.codes} \cup {setCalls[d].ans : d \in Calls}) :
              totp' = b /\ setCalls' = Answer(setCalls, c, b)
  /\ UNCHANGED <<mail, settingsUI>>

ServeRemove(c) ==
  /\ Handling(c, "remove")
  /\ totp' = "absent"
  /\ setCalls' = Answer(setCalls, c, None)
  /\ UNCHANGED <<mail, settingsUI>>

\* putSMTP, putTemplates answer what they stored
ServeForm(c) ==
  /\ \E f \in Forms : Handling(c, f) /\ mail' = [mail EXCEPT ![f] = setCalls[c].arg]
  /\ setCalls' = Answer(setCalls, c, setCalls[c].arg)
  /\ UNCHANGED <<totp, settingsUI>>

\* a failed load shows an error and keeps what there was
BreakSettingsCall(c) ==
  /\ CanBreak(setCalls, c)
  /\ setCalls' = IF setCalls[c].op \in Loads THEN End(setCalls, c) ELSE Reject(setCalls, c)
  /\ UNCHANGED settingsUI /\ Alone

\* request() on 401: the token is cleared and the page left.  A wrong code
\* in the setup dialog is answered 401 like an expired session
Expel(c) ==
  /\ setCalls[c].at = "sent" /\ setCalls[c].ans = None
  /\ Leave /\ Alone
  /\ setCalls' = End(setCalls, c)

-----------------------------------------------------------------------------
(* After the await.                                                        *)

Unbusy(ui) == [ui EXCEPT !.busy = None]
Got(c, op) == setCalls[c].op = op /\ setCalls[c].at = "answered"

Then == [load   |-> "loadSmtp",   loadSmtp   |-> "loadTemplates",
         reload |-> "reloadSmtp", reloadSmtp |-> "reloadTemplates"]

\* a load ends: the one remove2FA waits for clears busy
LoadEnds(c, ui) ==
  /\ settingsUI' = IF setCalls[c].op \in Reloads THEN Unbusy(ui) ELSE ui
  /\ setCalls' = End(setCalls, c)

LoadGoesOn(c, ui, arg) ==
  settingsUI' = ui /\ setCalls' = Send(setCalls, c, Then[setCalls[c].op], arg)

\* load: the second half is the admin's; both forms are set, or none
SettleSettingsLoad(c) ==
  /\ \/ /\ Got(c, "load") \/ Got(c, "reload")
        /\ LET ui == [settingsUI EXCEPT !.twoFA = setCalls[c].ans = "on"]
           IN  LoadEnds(c, ui) \/ LoadGoesOn(c, ui, None)
     \/ /\ Got(c, "loadSmtp") \/ Got(c, "reloadSmtp")
        /\ LoadGoesOn(c, settingsUI, setCalls[c].ans)
     \/ /\ Got(c, "loadTemplates") \/ Got(c, "reloadTemplates")
        /\ LoadEnds(c, [settingsUI EXCEPT
             !.form = [smtp |-> setCalls[c].arg, templates |-> setCalls[c].ans]])
     \/ /\ setCalls[c].op \in Reloads /\ setCalls[c].at = "failed"
        /\ LoadEnds(c, settingsUI)
  /\ Alone

\* startSetup opens the dialog only with the answer
SettleSetup(c) ==
  /\ Got(c, "setup")
  /\ settingsUI' = [settingsUI EXCEPT !.busy = None,
                                      !.dialog = IF @ = "gone" THEN @ ELSE "qr"]
  /\ setCalls' = End(setCalls, c) /\ Alone

\* confirmSetup: an open dialog turns to the codes, a closed one stays closed;
\* then get2FA is awaited
SettleConfirm(c) ==
  /\ Got(c, "confirm")
  /\ settingsUI' = [settingsUI EXCEPT !.codes = setCalls[c].ans,
                                      !.dialog = IF @ = "code" THEN "recovery" ELSE @]
  /\ setCalls' = Send(setCalls, c, "status", None) /\ Alone

SettleStatus(c) ==
  /\ Got(c, "status")
  /\ settingsUI' = [settingsUI EXCEPT !.busy = None, !.twoFA = setCalls[c].ans = "on"]
  /\ setCalls' = End(setCalls, c) /\ Alone

\* remove2FA: busy is kept until the load after it
SettleRemove(c) ==
  /\ Got(c, "remove")
  /\ settingsUI' = [settingsUI EXCEPT !.twoFA = FALSE,
                                      !.dialog = IF @ = "remove" THEN "none" ELSE @]
  /\ setCalls' = Send(setCalls, c, "reload", None) /\ Alone

SettleForm(c) ==
  /\ \E f \in Forms : Got(c, f) /\ settingsUI' =
       [settingsUI EXCEPT !.busy = None, !.form[f] = setCalls[c].ans]
  /\ setCalls' = End(setCalls, c) /\ Alone

\* an error is shown; the finally clears busy
SettleOther(c) ==
  /\ Got(c, "test") \/ (setCalls[c].at = "failed" /\ setCalls[c].op \notin Reloads)
  /\ settingsUI' = Unbusy(settingsUI)
  /\ setCalls' = End(setCalls, c) /\ Alone

-----------------------------------------------------------------------------
SettingsNext ==
  \/ IScanned \/ CloseSetup \/ AskRemove2FA \/ CancelRemove2FA
  \/ \E f \in Forms, x \in Texts : EditForm(f, x)
  \/ \E c \in Calls :
       \/ LoadSettings(c) \/ StartSetup(c) \/ ConfirmSetup(c) \/ FinishSetup(c)
       \/ Remove2FA(c) \/ SendTest(c) \/ \E f \in Forms : SaveForm(c, f)
       \/ ServeRead(c) \/ ServeSetup(c) \/ VerifyCode(c) \/ WriteBatch(c)
       \/ ServeRemove(c) \/ ServeForm(c) \/ BreakSettingsCall(c) \/ Expel(c)
       \/ SettleSettingsLoad(c) \/ SettleSetup(c) \/ SettleConfirm(c) \/ SettleStatus(c)
       \/ SettleRemove(c) \/ SettleForm(c) \/ SettleOther(c)

SettingsSpec == SettingsInit /\ [][SettingsNext]_settingsVars

(* The recovery codes on the screen are the ones that open the account: no   *)
(* second confirmation, setup or removal replaces the row's batch while the  *)
(* user copies them (SettingsPage.tsx: busy).  With two tabs it can.         *)
ShownCodesOpen ==
  settingsUI.dialog = "recovery" /\ settingsUI.codes # None
    => totp = settingsUI.codes
=============================================================================
