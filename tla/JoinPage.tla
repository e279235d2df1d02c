------------------------------ MODULE JoinPage ------------------------------
(***************************************************************************)
(* Invitations: the members page makes and revokes them, the join form     *)
(* (pages/RegisterPage.tsx with an invite code) uses them, the join        *)
(* handler turns one into a user and a session.                            *)
(*                                                                         *)
(* The handler reads the invite, counts the seats, inserts the user and    *)
(* only then claims the invite, with an UPDATE that succeeds once.         *)
(***************************************************************************)
EXTENDS Requests, Naturals, FiniteSets

CONSTANTS
  Invites,      \* bound: invites that can be created
  Joiners,      \* people, each with an email address and a browser
  Seats,        \* max_seats of the plan
  MaxPending    \* maxPendingInvites

ASSUME JoinAssumption == Seats \in Nat /\ MaxPending \in Nat /\ None \notin Invites

VARIABLES
  invite,     \* [Invites -> state]: the invites rows
  userOf,     \* [Joiners -> Invites]: whose invite made the joiner's users row
  session,    \* [Joiners -> Invites]: the invite whose answer carried a token
  joinUI,     \* [Joiners -> page]: the join form
  joining     \* [Joiners -> job]: its request and the handler

joinVars == <<invite, userOf, session, joinUI, joining>>

JoinTypeOK ==
  /\ invite \in [Invites -> {"none", "counted", "pending", "expired", "used", "revoked"}]
  /\ userOf \in [Joiners -> Invites \cup {None}]
  /\ session \in [Joiners -> Invites \cup {None}]
  /\ joinUI \in [Joiners -> [code : Invites \cup {None}, known : BOOLEAN, loading : BOOLEAN]]
  /\ joining \in [Joiners -> {"idle", "sent", "valid", "seated", "created", "answered", "failed"}]

JoinInit ==
  /\ invite = [i \in Invites |-> "none"]
  /\ userOf = [j \in Joiners |-> None]
  /\ session = [j \in Joiners |-> None]
  /\ joinUI = [j \in Joiners |-> [code |-> None, known |-> FALSE, loading |-> FALSE]]
  /\ joining = [j \in Joiners |-> "idle"]

Pending == {i \in Invites : invite[i] = "pending"}
UsersMade == {j \in Joiners : userOf[j] # None}
Code(j) == joinUI[j].code
Proceed(j, place) == joining' = [joining EXCEPT ![j] = place]

-----------------------------------------------------------------------------
(* The members page: createInviteLink, createInviteEmail, revoke.          *)

\* newInvite counts the invites that are pending: the row is not there yet
CountInvites(i) ==
  /\ invite[i] = "none"
  /\ Cardinality(Pending) < MaxPending
  /\ invite' = [invite EXCEPT ![i] = "counted"]
  /\ UNCHANGED <<userOf, session, joinUI, joining>>

\* and inserts, whatever came meanwhile; the page shows the answer and the admin
\* passes it on
CreateInvite(i) ==
  /\ invite[i] = "counted"
  /\ invite' = [invite EXCEPT ![i] = "pending"]
  /\ UNCHANGED <<userOf, session, joinUI, joining>>

\* the list may be old: DeleteInvite deletes the row only while it is unused
RevokeInvite(i) ==
  /\ invite[i] \in {"pending", "expired"}
  /\ invite' = [invite EXCEPT ![i] = "revoked"]
  /\ UNCHANGED <<userOf, session, joinUI, joining>>

\* seven days pass
ExpireInvite(i) ==
  /\ invite[i] = "pending"
  /\ invite' = [invite EXCEPT ![i] = "expired"]
  /\ UNCHANGED <<userOf, session, joinUI, joining>>

-----------------------------------------------------------------------------
(* The join form of joiner j.  Nothing says an invite is given to one only. *)

\* the link is opened, now or again; the code is looked up and, if it can be
\* used, the form is enabled
OpenLink(j, i) ==
  /\ invite[i] \notin {"none", "counted"} /\ session[j] = None /\ joining[j] = "idle"
  /\ joinUI' = [joinUI EXCEPT ![j] =
       [code |-> i, known |-> invite[i] = "pending", loading |-> FALSE]]
  /\ UNCHANGED <<invite, userOf, session, joining>>

\* onSubmit: the button waits for the lookup and for the last answer
SubmitJoin(j) ==
  /\ joinUI[j].known /\ ~joinUI[j].loading /\ session[j] = None
  /\ joinUI' = [joinUI EXCEPT ![j].loading = TRUE]
  /\ Proceed(j, "sent")
  /\ UNCHANGED <<invite, userOf, session>>

\* a token is kept and the dashboard opens; an error is shown on the form
SettleJoin(j) ==
  /\ joining[j] \in {"answered", "failed"}
  /\ session' = [session EXCEPT ![j] = IF joining[j] = "answered" THEN Code(j) ELSE @]
  /\ joinUI' = [joinUI EXCEPT ![j].loading = FALSE]
  /\ Proceed(j, "idle")
  /\ UNCHANGED <<invite, userOf>>

-----------------------------------------------------------------------------
(* The join handler.                                                       *)

CheckInvite(j) ==
  /\ joining[j] = "sent"
  /\ Proceed(j, IF invite[Code(j)] = "pending" THEN "valid" ELSE "failed")
  /\ UNCHANGED <<invite, userOf, session, joinUI>>

\* the admin who invites has a seat too
CountSeats(j) ==
  /\ joining[j] = "valid"
  /\ Proceed(j, IF 1 + Cardinality(UsersMade) < Seats THEN "seated" ELSE "failed")
  /\ UNCHANGED <<invite, userOf, session, joinUI>>

\* CreateUser: the email is unique
CreateUser(j) ==
  /\ joining[j] = "seated"
  /\ IF userOf[j] = None
       THEN userOf' = [userOf EXCEPT ![j] = Code(j)] /\ Proceed(j, "created")
       ELSE Proceed(j, "failed") /\ UNCHANGED userOf
  /\ UNCHANGED <<invite, session, joinUI>>

(* Mutant: the UPDATE has no WHERE used_at IS NULL. *)
UnclaimedAny(i) == invite[i] # "revoked"

Unclaimed(i) == invite[i] \in {"pending", "expired"}

\* MarkInviteUsed: one UPDATE ... WHERE used_at IS NULL; an invite that expired
\* since the check is claimed all the same
MarkInviteUsed(j) ==
  /\ joining[j] = "created"
  /\ IF Unclaimed(Code(j))
       THEN invite' = [invite EXCEPT ![Code(j)] = "used"] /\ Proceed(j, "answered")
       ELSE Proceed(j, "failed") /\ UNCHANGED invite
  /\ UNCHANGED <<userOf, session, joinUI>>

\* the connection breaks, or the server stops: what is committed stays
BreakJoin(j) ==
  /\ joining[j] \notin {"idle", "failed"}
  /\ Proceed(j, "failed")
  /\ UNCHANGED <<invite, userOf, session, joinUI>>

-----------------------------------------------------------------------------
JoinNext ==
  \/ \E i \in Invites : CountInvites(i) \/ CreateInvite(i) \/ RevokeInvite(i) \/ ExpireInvite(i)
  \/ \E j \in Joiners :
       \/ \E i \in Invites : OpenLink(j, i)
       \/ SubmitJoin(j) \/ SettleJoin(j)
       \/ CheckInvite(j) \/ CountSeats(j) \/ CreateUser(j) \/ MarkInviteUsed(j) \/ BreakJoin(j)

JoinSpec == JoinInit /\ [][JoinNext]_joinVars

SessionsOf(i) == {j \in Joiners : session[j] = i \/ (joining[j] = "answered" /\ Code(j) = i)}

(* However many people submit the same link at once, and whatever is lost,   *)
(* an invite opens at most one session, and a revoked one none: the claim in *)
(* MarkInviteUsed decides (users.go: join).                                  *)
InviteOpensOneSession ==
  \A i \in Invites :
    /\ \A j, k \in SessionsOf(i) : j = k
    /\ SessionsOf(i) # {} => invite[i] = "used"

(* docs/TEAM.md: "Code is single-use".  The users row comes before the claim *)
(* (users.go: join): whoever loses the race, or is cut off, has an account.  *)
InviteIsSingleUse ==
  \A j, k \in Joiners : userOf[j] # None /\ userOf[j] = userOf[k] => j = k
=============================================================================
