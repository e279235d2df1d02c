------------------------------ MODULE KeysPage ------------------------------
(***************************************************************************)
(* The gateway-keys page (pages/KeysPage.tsx) and the key handlers it      *)
(* calls.  A key's plaintext is in the answer of createKey and nowhere     *)
(* else: the page has to show it before it lets go of it.                  *)
(***************************************************************************)
EXTENDS Requests

CONSTANTS
  Keys,       \* the keys that exist or can be created
  Editable    \* the keys of this user, all of them for an admin (canEdit)

VARIABLES
  keyRow,     \* [Keys -> row]: the api_keys rows
  keysUI,     \* the page's React state
  keyCalls    \* its requests

keysVars == <<keyRow, keysUI, keyCalls>>

Statuses == {"none", "active", "killed"}
KeyOps == {"create", "list", "listAfterCreate", "kill", "unkill", "delete"}
ASSUME KeysAssumption == None \notin KeyOps
NoDialog == [kind |-> "none", key |-> None]
Ask(kind, k) == [kind |-> kind, key |-> k]

KeysTypeOK ==
  /\ keyRow \in [Keys -> Statuses \cup {"deleted"}]
  /\ keysUI \in [rows    : [Keys -> Statuses],   \* keys: what the table shows
                 dialog  : [kind : {"none", "create", "kill", "delete"}, key : Keys \cup {None}],
                 created : Keys \cup {None},     \* the plaintext waiting to be copied
                 saving  : BOOLEAN]
  /\ keyCalls \in [Calls -> Slot(KeyOps, Keys, Keys \cup [Keys -> Statuses])]

KeysInit ==
  /\ keyRow \in [Keys -> {"none", "active"}]
  /\ keysUI = [rows |-> [k \in Keys |-> "none"], dialog |-> NoDialog,
               created |-> None, saving |-> FALSE]
  /\ keyCalls = [c \in Calls |-> Idle]

-----------------------------------------------------------------------------
(* What the user does.  One dialog is open at a time: each covers the page. *)

\* load: on mount, the Retry of the error banner, the drawer's onSaved
ReloadKeys(c) ==
  /\ keyCalls[c].at = "idle"
  /\ keyCalls' = Send(keyCalls, c, "list", None)
  /\ UNCHANGED <<keyRow, keysUI>>

\* the Generate button; a plaintext that arrived meanwhile is what it shows
OpenCreate ==
  /\ keysUI.dialog = NoDialog
  /\ keysUI' = [keysUI EXCEPT !.dialog = Ask("create", None)]
  /\ UNCHANGED <<keyRow, keyCalls>>

\* closeModal, from Cancel, Done, Escape or the backdrop
CloseCreate ==
  /\ keysUI.dialog.kind = "create"
  /\ keysUI' = [keysUI EXCEPT !.dialog = NoDialog, !.created = None]
  /\ UNCHANGED <<keyRow, keyCalls>>

(* Mutant: a second submission does not wait for the answer of the first. *)
CanSubmitAgain == keysUI.dialog.kind = "create" /\ keysUI.created = None

\* the form is there until a plaintext replaces it; saving disables its button
CanSubmit == /\ keysUI.dialog.kind = "create"
             /\ keysUI.created = None
             /\ ~keysUI.saving

SubmitKey(c) ==
  /\ CanSubmit
  /\ keyCalls[c].at = "idle"
  /\ keyCalls' = Send(keyCalls, c, "create", None)
  /\ keysUI' = [keysUI EXCEPT !.saving = TRUE]
  /\ UNCHANGED keyRow

\* the Kill and Delete buttons of a row open a confirmation
AskKey(kind, k) ==
  /\ keysUI.dialog = NoDialog
  /\ \/ kind = "kill" /\ keysUI.rows[k] = "active"
     \/ kind = "delete" /\ keysUI.rows[k] # "none" /\ k \in Editable
  /\ keysUI' = [keysUI EXCEPT !.dialog = Ask(kind, k)]
  /\ UNCHANGED <<keyRow, keyCalls>>

CancelAsk ==
  /\ keysUI.dialog.kind \in {"kill", "delete"}
  /\ keysUI' = [keysUI EXCEPT !.dialog = NoDialog]
  /\ UNCHANGED <<keyRow, keyCalls>>

\* confirmKill, remove: the dialog stays open until the answer, and nothing
\* disables its button: a second click sends the request again
ConfirmAsk(c) ==
  /\ keysUI.dialog.kind \in {"kill", "delete"}
  /\ keyCalls[c].at = "idle"
  /\ keyCalls' = Send(keyCalls, c, keysUI.dialog.kind, keysUI.dialog.key)
  /\ UNCHANGED <<keyRow, keysUI>>

\* the Re-enable button of a killed row, without a confirmation
Unkill(c, k) ==
  /\ keysUI.dialog = NoDialog
  /\ keysUI.rows[k] = "killed" /\ k \in Editable
  /\ keyCalls[c].at = "idle"
  /\ keyCalls' = Send(keyCalls, c, "unkill", k)
  /\ UNCHANGED <<keyRow, keysUI>>

-----------------------------------------------------------------------------
(* What the server does: createKey, listKeys, killKey, unkillKey, deleteKey *)

\* an error is only shown, except by onCreate, whose finally clears saving
Fails(c) == keyCalls' = IF keyCalls[c].op \in {"create", "listAfterCreate"}
                          THEN Reject(keyCalls, c) ELSE End(keyCalls, c)

Exists(k) == keyRow[k] \in {"active", "killed"}
Listed == [k \in Keys |-> IF Exists(k) THEN keyRow[k] ELSE "none"]

ServeCreate(c) ==
  /\ keyCalls[c].at = "sent" /\ keyCalls[c].op = "create"
  /\ \E k \in Keys :
       /\ keyRow[k] = "none"
       /\ keyRow' = [keyRow EXCEPT ![k] = "active"]
       /\ keyCalls' = Answer(keyCalls, c, k)
  /\ UNCHANGED keysUI

ServeList(c) ==
  /\ keyCalls[c].at = "sent" /\ keyCalls[c].op \in {"list", "listAfterCreate"}
  /\ keyCalls' = Answer(keyCalls, c, Listed)
  /\ UNCHANGED <<keyRow, keysUI>>

After == [kill |-> "killed", unkill |-> "active", delete |-> "deleted"]

ServeKey(c) ==
  /\ keyCalls[c].at = "sent" /\ keyCalls[c].op \in {"kill", "unkill", "delete"}
  /\ IF Exists(keyCalls[c].arg)
       THEN /\ keyRow' = [keyRow EXCEPT ![keyCalls[c].arg] = After[keyCalls[c].op]]
            /\ keyCalls' = Answer(keyCalls, c, None)
       ELSE Fails(c) /\ UNCHANGED keyRow   \* 404
  /\ UNCHANGED keysUI

\* the plan's key limit, an expired session, a broken connection
BreakKeyCall(c) ==
  /\ CanBreak(keyCalls, c)
  /\ Fails(c)
  /\ UNCHANGED <<keyRow, keysUI>>

-----------------------------------------------------------------------------
(* What the page does when the answer arrives.                             *)

\* onCreate: the plaintext is set whether or not the dialog is still open,
\* then load is awaited; saving is cleared in the finally
SettleCreate(c) ==
  /\ keyCalls[c].op = "create"
  /\ \/ /\ keyCalls[c].at = "answered"
        /\ keysUI' = [keysUI EXCEPT !.created = keyCalls[c].ans]
        /\ keyCalls' = Send(keyCalls, c, "listAfterCreate", None)
     \/ /\ keyCalls[c].at = "failed"
        /\ keysUI' = [keysUI EXCEPT !.saving = FALSE]
        /\ keyCalls' = End(keyCalls, c)
  /\ UNCHANGED keyRow

\* load: the list replaces the table, whatever happened since it was read
SettleList(c) ==
  /\ keyCalls[c].op \in {"list", "listAfterCreate"}
  /\ keyCalls[c].at \in {"answered", "failed"}
  /\ keysUI' = [keysUI EXCEPT
       !.rows = IF keyCalls[c].at = "answered" THEN keyCalls[c].ans ELSE @,
       !.saving = @ /\ keyCalls[c].op = "list"]
  /\ keyCalls' = End(keyCalls, c)
  /\ UNCHANGED keyRow

(* Mutant: a deleted row is patched like the others instead of taken out. *)
PatchedIn(k, op) == [keysUI.rows EXCEPT ![k] = After[op]]

\* the row is patched if the table still has it; the dialog of that kind closes,
\* also when it is open for another key by now
Patched(k, op) == [keysUI.rows EXCEPT ![k] =
  IF op = "delete" \/ @ = "none" THEN "none" ELSE After[op]]

SettleKey(c) ==
  /\ keyCalls[c].op \in {"kill", "unkill", "delete"}
  /\ keyCalls[c].at = "answered"
  /\ keysUI' = [keysUI EXCEPT
       !.rows = Patched(keyCalls[c].arg, keyCalls[c].op),
       !.dialog = IF @.kind = keyCalls[c].op THEN NoDialog ELSE @]
  /\ keyCalls' = End(keyCalls, c)
  /\ UNCHANGED keyRow

-----------------------------------------------------------------------------
KeysNext ==
  \/ OpenCreate \/ CloseCreate \/ CancelAsk
  \/ \E k \in Keys : AskKey("kill", k) \/ AskKey("delete", k)
  \/ \E c \in Calls :
       \/ ReloadKeys(c) \/ SubmitKey(c) \/ ConfirmAsk(c)
       \/ \E k \in Keys : Unkill(c, k)
       \/ ServeCreate(c) \/ ServeList(c) \/ ServeKey(c) \/ BreakKeyCall(c)
       \/ SettleCreate(c) \/ SettleList(c) \/ SettleKey(c)

KeysSpec == KeysInit /\ [][KeysNext]_keysVars

(* A plaintext key leaves the page only from the open dialog, that is, after *)
(* the user has seen it: closing the dialog while createKey is in flight,    *)
(* reopening it, or a second submission never makes the page drop or replace *)
(* a key nobody could copy (KeysPage.tsx: closeModal, onCreate and saving).  *)
RevealBeforeDiscard ==
  [][keysUI.created # None /\ keysUI'.created # keysUI.created
       => keysUI.dialog.kind = "create"]_keysVars
=============================================================================
