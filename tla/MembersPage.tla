---------------------------- MODULE MembersPage ----------------------------
(***************************************************************************)
(* The team: each admin's members page (pages/MembersPage.tsx) and the     *)
(* handlers that change a role or remove a user (patchUser, deleteUser).   *)
(*                                                                         *)
(* A page does one thing at a time: busy disables every button until the   *)
(* request and the reload after it have ended.  The handlers of two admins *)
(* interleave between their statements: they read the target, count the    *)
(* admins, then write.  An admin who was demoted or removed keeps the      *)
(* rights of the session token until it expires.                           *)
(***************************************************************************)
EXTENDS Requests

CONSTANTS
  Admins,    \* users who signed in as admin and have the page open
  Others     \* the other members

Users == Admins \cup Others

ASSUME MembersAssumption == Admins # {}

VARIABLES
  role,        \* [Users -> role]: the users rows
  membersUI,   \* [Admins -> page]: what each admin sees
  change,      \* [Admins -> job]: the request of each page and its handler
  overlapped   \* history: a role was written between the reads and the write of
               \* another handler

membersVars == <<role, membersUI, change, overlapped>>

Roles == {"admin", "member", "gone"}
Changes == {"demote", "promote", "remove"}
NoChange == [at |-> "idle", op |-> None, who |-> None]

MembersTypeOK ==
  /\ role \in [Users -> Roles]
  /\ membersUI \in [Admins -> [users : [Users -> Roles], busy : BOOLEAN, removing : Users \cup {None}]]
  /\ change \in [Admins -> [at : {"idle", "sent", "found", "checked", "answered", "failed"},
                            op : Changes \cup {None}, who : Users \cup {None}]]
  /\ overlapped \in BOOLEAN

MembersInit ==
  /\ role = [u \in Users |-> IF u \in Admins THEN "admin" ELSE "member"]
  /\ membersUI = [a \in Admins |-> [users |-> [u \in Users |-> "gone"],
                                    busy |-> FALSE, removing |-> None]]
  /\ change = [a \in Admins |-> NoChange]
  /\ overlapped = FALSE

-----------------------------------------------------------------------------
(* The page of admin a.                                                    *)

\* load: me, listUsers, listInvites; on mount and from the error banner
LoadMembers(a) ==
  /\ membersUI' = [membersUI EXCEPT ![a].users = role]
  /\ UNCHANGED <<role, change, overlapped>>

Sends(a, op, u) == change' = [change EXCEPT ![a] = [at |-> "sent", op |-> op, who |-> u]]

\* setRole: Promote on a member's row; Demote on an admin's, not one's own
ClickRole(a, u) ==
  /\ ~membersUI[a].busy /\ membersUI[a].removing = None
  /\ \/ membersUI[a].users[u] = "member" /\ Sends(a, "promote", u)
     \/ membersUI[a].users[u] = "admin" /\ u # a /\ Sends(a, "demote", u)
  /\ membersUI' = [membersUI EXCEPT ![a].busy = TRUE]
  /\ UNCHANGED <<role, overlapped>>

\* the Remove button, not on one's own row, opens the confirmation
AskRemove(a, u) ==
  /\ ~membersUI[a].busy /\ membersUI[a].removing = None
  /\ membersUI[a].users[u] # "gone" /\ u # a
  /\ membersUI' = [membersUI EXCEPT ![a].removing = u]
  /\ UNCHANGED <<role, change, overlapped>>

CancelRemove(a) ==
  /\ membersUI[a].removing # None
  /\ membersUI' = [membersUI EXCEPT ![a].removing = None]
  /\ UNCHANGED <<role, change, overlapped>>

ConfirmRemove(a) ==
  /\ ~membersUI[a].busy /\ membersUI[a].removing # None
  /\ Sends(a, "remove", membersUI[a].removing)
  /\ membersUI' = [membersUI EXCEPT ![a].busy = TRUE]
  /\ UNCHANGED <<role, overlapped>>

\* the answer: success reloads, which may fail; busy is cleared in the finally;
\* a removal that failed leaves its confirmation open
SettleChange(a) ==
  /\ change[a].at \in {"answered", "failed"}
  /\ \E users \in {membersUI[a].users} \cup (IF change[a].at = "answered" THEN {role} ELSE {}) :
       membersUI' = [membersUI EXCEPT ![a] =
         [users |-> users, busy |-> FALSE,
          removing |-> IF change[a].at = "answered" /\ change[a].op = "remove"
                         THEN None ELSE @.removing]]
  /\ change' = [change EXCEPT ![a] = NoChange]
  /\ UNCHANGED <<role, overlapped>>

-----------------------------------------------------------------------------
(* The handlers.  deleteUser also refuses the caller's own id.             *)

Goes(a, place) == change' = [change EXCEPT ![a].at = place]

(* Mutant: an admin is enough, as if the target were not counted. *)
OneAdmin == \E u \in Users : role[u] = "admin"

\* CountAdmins() > 1
TwoAdmins == \E u, v \in Users : u # v /\ role[u] = "admin" /\ role[v] = "admin"

\* GetUser; only an admin who would stop being one has to be counted
ReadTarget(a) ==
  /\ change[a].at = "sent"
  /\ Goes(a, CASE role[change[a].who] = "gone"                            -> "failed"
               [] change[a].op = "remove" /\ change[a].who = a            -> "failed"
               [] role[change[a].who] = "admin" /\ change[a].op # "promote" -> "found"
               [] OTHER                                                   -> "checked")
  /\ UNCHANGED <<role, membersUI, overlapped>>

\* CountAdmins: n <= 1 is a conflict
CountAdmins(a) ==
  /\ change[a].at = "found"
  /\ Goes(a, IF TwoAdmins THEN "checked" ELSE "failed")
  /\ UNCHANGED <<role, membersUI, overlapped>>

NewRole == [demote |-> "member", promote |-> "admin", remove |-> "gone"]

\* UpdateUserRole, DeleteUser: no row is an error
WriteRole(a) ==
  /\ change[a].at = "checked"
  /\ IF role[change[a].who] = "gone"
       THEN Goes(a, "failed") /\ UNCHANGED <<role, overlapped>>
       ELSE /\ role' = [role EXCEPT ![change[a].who] = NewRole[change[a].op]]
            /\ overlapped' = (overlapped \/
                 \E b \in Admins \ {a} : change[b].at \in {"found", "checked"})
            /\ Goes(a, "answered")
  /\ UNCHANGED membersUI

\* the request or its answer is lost, or the session has expired
BreakChange(a) ==
  /\ change[a].at \in {"sent", "answered"}
  /\ Goes(a, "failed")
  /\ UNCHANGED <<role, membersUI, overlapped>>

-----------------------------------------------------------------------------
MembersNext ==
  \E a \in Admins :
    \/ LoadMembers(a) \/ CancelRemove(a) \/ ConfirmRemove(a) \/ SettleChange(a)
    \/ \E u \in Users : ClickRole(a, u) \/ AskRemove(a, u)
    \/ ReadTarget(a) \/ CountAdmins(a) \/ WriteRole(a) \/ BreakChange(a)

MembersSpec == MembersInit /\ [][MembersNext]_membersVars

(* The team keeps an admin, as long as no two changes overlapped between the *)
(* reads and the write of one of them: with one page at work, whatever it    *)
(* shows and however old that is, the count in patchUser and deleteUser and  *)
(* the disabled buttons of one's own row are enough (users.go, the invariant *)
(* UpdateUserRole leaves to its caller).                                     *)
AdminRemains == overlapped \/ \E u \in Users : role[u] = "admin"
=============================================================================
