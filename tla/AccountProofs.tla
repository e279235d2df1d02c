--------------------------- MODULE AccountProofs ----------------------------
(***************************************************************************)
(* Accounts, for any number of admins, members, invites, tickets, codes    *)
(* and requests in flight: an invite and a sign-in ticket open one session *)
(* each, a recovery code is spent once, the team keeps an admin as long as *)
(* no two role changes overlap.                                            *)
(***************************************************************************)
EXTENDS JoinPage, MembersPage, LoginPage, SettingsPage, TLAPS

-----------------------------------------------------------------------------
(* Joining.                                                                *)

(* Types: whatever is lost on the way, the forms, the jobs of the join      *)
(* handler and the rows it writes keep their types.                         *)
THEOREM JoinTypeCorrect == JoinSpec => []JoinTypeOK
<1>1. JoinInit => JoinTypeOK
  BY DEF JoinInit, JoinTypeOK
<1>2. JoinTypeOK /\ [JoinNext]_joinVars => JoinTypeOK'
  <2> SUFFICES ASSUME JoinTypeOK, [JoinNext]_joinVars PROVE JoinTypeOK'
    OBVIOUS
  <2> USE DEF JoinTypeOK, Code, Proceed
  <2>1. ASSUME NEW i \in Invites, CountInvites(i) \/ CreateInvite(i) \/ RevokeInvite(i) \/ ExpireInvite(i)
        PROVE  JoinTypeOK'
    BY <2>1 DEF CountInvites, CreateInvite, RevokeInvite, ExpireInvite
  <2>2. ASSUME NEW j \in Joiners, NEW i \in Invites, OpenLink(j, i) PROVE JoinTypeOK'
    <3> DEFINE form == [code |-> i, known |-> invite[i] = "pending", loading |-> FALSE]
    <3>1. form \in [code : Invites \cup {None}, known : BOOLEAN, loading : BOOLEAN]
      OBVIOUS
    <3>2. joinUI' = [joinUI EXCEPT ![j] = form]
      BY <2>2 DEF OpenLink
    <3> HIDE DEF form
    <3>3. QED BY <2>2, <3>1, <3>2 DEF OpenLink
  <2>3. ASSUME NEW j \in Joiners, SubmitJoin(j) \/ SettleJoin(j) PROVE JoinTypeOK'
    <3>1. ASSUME NEW b \in BOOLEAN PROVE [joinUI[j] EXCEPT !.loading = b] \in
                 [code : Invites \cup {None}, known : BOOLEAN, loading : BOOLEAN]
      OBVIOUS
    <3>2. joinUI' \in [Joiners -> [code : Invites \cup {None}, known : BOOLEAN, loading : BOOLEAN]]
      BY <2>3, <3>1 DEF SubmitJoin, SettleJoin
    <3>3. session' \in [Joiners -> Invites \cup {None}]
      BY <2>3 DEF SubmitJoin, SettleJoin
    <3>4. QED BY <2>3, <3>2, <3>3 DEF SubmitJoin, SettleJoin
  <2>4. ASSUME NEW j \in Joiners, CheckInvite(j) \/ CountSeats(j) \/ BreakJoin(j) PROVE JoinTypeOK'
    BY <2>4 DEF CheckInvite, CountSeats, BreakJoin
  <2>5. ASSUME NEW j \in Joiners, CreateUser(j) PROVE JoinTypeOK'
    <3>1. userOf' \in [Joiners -> Invites \cup {None}]
      <4>1. Code(j) \in Invites \cup {None}
        BY DEF Code
      <4>2. userOf' = userOf \/ userOf' = [userOf EXCEPT ![j] = Code(j)]
        BY <2>5 DEF CreateUser
      <4>3. QED BY <4>1, <4>2
    <3>2. joining' = [joining EXCEPT ![j] = "created"] \/ joining' = [joining EXCEPT ![j] = "failed"]
      BY <2>5 DEF CreateUser, Proceed
    <3>3. joining' \in [Joiners -> {"idle", "sent", "valid", "seated", "created", "answered", "failed"}]
      BY <3>2
    <3>4. QED BY <2>5, <3>1, <3>3 DEF CreateUser
  <2>6. ASSUME NEW j \in Joiners, MarkInviteUsed(j) PROVE JoinTypeOK'
    <3>1. invite' = invite \/ invite' = [invite EXCEPT ![Code(j)] = "used"]
      BY <2>6 DEF MarkInviteUsed
    <3>2. invite' \in [Invites -> {"none", "counted", "pending", "expired", "used", "revoked"}]
      BY <3>1
    <3>3. joining' = [joining EXCEPT ![j] = "answered"] \/ joining' = [joining EXCEPT ![j] = "failed"]
      BY <2>6 DEF MarkInviteUsed
    <3>4. joining' \in [Joiners -> {"idle", "sent", "valid", "seated", "created", "answered", "failed"}]
      BY <3>3
    <3>5. QED BY <2>6, <3>2, <3>4 DEF MarkInviteUsed
  <2>7. CASE UNCHANGED joinVars
    BY <2>7 DEF joinVars
  <2>8. QED BY <2>1, <2>2, <2>3, <2>4, <2>5, <2>6, <2>7 DEF JoinNext
<1>3. QED BY <1>1, <1>2, PTL DEF JoinSpec

(* A request carries an invite, and whoever has a session, or its answer,   *)
(* has the invite used up for himself.                                      *)
Carries(j) ==
  /\ joinUI[j].known => Code(j) \in Invites
  /\ joining[j] # "idle" => Code(j) \in Invites

Claims ==
  /\ \A j \in Joiners : Carries(j)
  /\ InviteOpensOneSession

(* However many people submit one link at once and whatever is lost, an     *)
(* invite opens at most one session: the UPDATE of MarkInviteUsed decides.  *)
THEOREM OneSessionPerInvite == JoinSpec => []InviteOpensOneSession
<1>1. JoinInit => Claims
  BY JoinAssumption DEF JoinInit, Claims, Carries, InviteOpensOneSession, SessionsOf, Code
<1>2. JoinTypeOK /\ Claims /\ [JoinNext]_joinVars => Claims'
  <2> SUFFICES ASSUME JoinTypeOK, Claims, [JoinNext]_joinVars PROVE Claims'
    OBVIOUS
  <2> USE DEF JoinTypeOK, Code, Proceed
  <2>1. ASSUME NEW i \in Invites, invite[i] # "used", NEW v, invite' = [invite EXCEPT ![i] = v],
               UNCHANGED <<session, joinUI, joining>>
        PROVE  Claims'
    <3>1. SessionsOf(i) = {}
      BY <2>1 DEF Claims, InviteOpensOneSession
    <3>2. \A h \in Invites : SessionsOf(h)' = SessionsOf(h)
      BY <2>1 DEF SessionsOf
    <3>3. InviteOpensOneSession'
      BY <2>1, <3>1, <3>2 DEF Claims, InviteOpensOneSession
    <3>4. \A j \in Joiners : Carries(j)'
      BY <2>1 DEF Claims, Carries
    <3>5. QED BY <3>3, <3>4 DEF Claims
  <2>2. ASSUME \A i \in Invites : SessionsOf(i)' \subseteq SessionsOf(i),
               invite' = invite, \A j \in Joiners : Carries(j)'
        PROVE  Claims'
    BY <2>2 DEF Claims, InviteOpensOneSession
  <2>3. ASSUME NEW i \in Invites, CountInvites(i) \/ CreateInvite(i) \/ RevokeInvite(i) \/ ExpireInvite(i)
        PROVE  Claims'
    BY <2>1, <2>3 DEF CountInvites, CreateInvite, RevokeInvite, ExpireInvite
  <2>4. ASSUME NEW j \in Joiners, NEW i \in Invites, OpenLink(j, i) PROVE Claims'
    <3>1. \A h \in Invites : SessionsOf(h)' \subseteq SessionsOf(h)
      BY <2>4 DEF OpenLink, SessionsOf
    <3>2. \A k \in Joiners : Carries(k)'
      BY <2>4 DEF OpenLink, Carries, Claims
    <3>3. QED BY <2>2, <2>4, <3>1, <3>2 DEF OpenLink
  <2>5. ASSUME NEW j \in Joiners, SubmitJoin(j) PROVE Claims'
    <3>1. \A k \in Joiners : joinUI'[k].code = joinUI[k].code /\ joinUI'[k].known = joinUI[k].known
      BY <2>5 DEF SubmitJoin
    <3>2. \A h \in Invites : SessionsOf(h)' \subseteq SessionsOf(h)
      BY <2>5, <3>1 DEF SubmitJoin, SessionsOf
    <3>3. \A k \in Joiners : Carries(k)'
      BY <2>5, <3>1 DEF SubmitJoin, Carries, Claims
    <3>4. QED BY <2>2, <2>5, <3>2, <3>3 DEF SubmitJoin
  <2>6. ASSUME NEW j \in Joiners, SettleJoin(j) PROVE Claims'
    <3>1. \A k \in Joiners : joinUI'[k].code = joinUI[k].code /\ joinUI'[k].known = joinUI[k].known
      BY <2>6 DEF SettleJoin
    <3>2. \A h \in Invites : SessionsOf(h)' \subseteq SessionsOf(h)
      BY <2>6, <3>1 DEF SettleJoin, SessionsOf
    <3>3. \A k \in Joiners : Carries(k)'
      BY <2>6, <3>1 DEF SettleJoin, Carries, Claims
    <3>4. QED BY <2>2, <2>6, <3>2, <3>3 DEF SettleJoin
  <2>7. ASSUME NEW j \in Joiners,
               CheckInvite(j) \/ CountSeats(j) \/ CreateUser(j) \/ BreakJoin(j)
        PROVE  Claims'
    <3>1. /\ UNCHANGED <<invite, session, joinUI>>
          /\ joining[j] # "idle"
          /\ \E p \in {"valid", "seated", "created", "failed"} : joining' = [joining EXCEPT ![j] = p]
      BY <2>7 DEF CheckInvite, CountSeats, CreateUser, BreakJoin
    <3>2. \A h \in Invites : SessionsOf(h)' \subseteq SessionsOf(h)
      BY <3>1 DEF SessionsOf
    <3>3. \A k \in Joiners : Carries(k)'
      BY <3>1 DEF Carries, Claims
    <3>4. QED BY <2>2, <3>1, <3>2, <3>3
  <2>8. ASSUME NEW j \in Joiners, MarkInviteUsed(j) PROVE Claims'
    <3>1. Code(j) \in Invites
      BY <2>8 DEF Claims, Carries, MarkInviteUsed
    <3>2. \A k \in Joiners : Carries(k)'
      BY <2>8 DEF MarkInviteUsed, Carries, Claims
    <3>3. CASE Unclaimed(Code(j))
      <4>1. SessionsOf(Code(j)) = {}
        BY <3>1, <3>3 DEF Claims, InviteOpensOneSession, Unclaimed
      <4>2. \A h \in Invites : SessionsOf(h)' \subseteq
              (IF h = Code(j) THEN {j} ELSE SessionsOf(h))
        BY <2>8, <3>1, <3>3, <4>1 DEF MarkInviteUsed, SessionsOf
      <4>3. invite' = [invite EXCEPT ![Code(j)] = "used"]
        BY <2>8, <3>3 DEF MarkInviteUsed
      <4>4. InviteOpensOneSession'
        BY <3>1, <4>2, <4>3 DEF InviteOpensOneSession, Claims
      <4>5. QED BY <3>2, <4>4 DEF Claims
    <3>4. CASE ~Unclaimed(Code(j))
      <4>1. \A h \in Invites : SessionsOf(h)' \subseteq SessionsOf(h)
        BY <2>8, <3>4 DEF MarkInviteUsed, SessionsOf
      <4>2. QED BY <2>2, <2>8, <3>2, <3>4, <4>1 DEF MarkInviteUsed
    <3>5. QED BY <3>3, <3>4
  <2>9. CASE UNCHANGED joinVars
    BY <2>9 DEF joinVars, Claims, Carries, InviteOpensOneSession, SessionsOf
  <2>10. QED BY <2>3, <2>4, <2>5, <2>6, <2>7, <2>8, <2>9 DEF JoinNext
<1>3. Claims => InviteOpensOneSession
  BY DEF Claims
<1>4. QED BY <1>1, <1>2, <1>3, JoinTypeCorrect, PTL DEF JoinSpec

-----------------------------------------------------------------------------
(* Roles.                                                                  *)

View == [users : [Users -> Roles], busy : BOOLEAN, removing : Users \cup {None}]
Job == [at : {"idle", "sent", "found", "checked", "answered", "failed"},
        op : Changes \cup {None}, who : Users \cup {None}]

(* A handler moves on: the other fields of its job stay.                    *)
LEMMA JobMoves ==
  ASSUME MembersTypeOK, NEW a \in Admins, NEW p, Goes(a, p),
         p \in {"idle", "sent", "found", "checked", "answered", "failed"}
  PROVE  /\ change' \in [Admins -> Job]
         /\ \A b \in Admins : change'[b].op = change[b].op /\ change'[b].who = change[b].who
         /\ change'[a].at = p
         /\ \A b \in Admins \ {a} : change'[b].at = change[b].at
BY DEF MembersTypeOK, Goes, Job

(* A page changes its busy flag, its dialog or its list.                    *)
LEMMA ViewChanges ==
  ASSUME MembersTypeOK, NEW a \in Admins, NEW us \in [Users -> Roles], NEW b \in BOOLEAN,
         NEW u \in Users \cup {None}
  PROVE  /\ [membersUI EXCEPT ![a].users = us] \in [Admins -> View]
         /\ [membersUI EXCEPT ![a].busy = b] \in [Admins -> View]
         /\ [membersUI EXCEPT ![a].removing = u] \in [Admins -> View]
         /\ [membersUI EXCEPT ![a] = [users |-> us, busy |-> b, removing |-> u]] \in [Admins -> View]
BY DEF MembersTypeOK, View

(* A request says what is to change and for whom.                           *)
Asked(a) == change[a].at # "idle" => change[a].op \in Changes /\ change[a].who \in Users

MembersWellFormed == MembersTypeOK /\ \A a \in Admins : Asked(a)

LEMMA WellFormedMembers == MembersSpec => []MembersWellFormed
<1>1. MembersInit => MembersWellFormed
  <2> SUFFICES ASSUME MembersInit PROVE MembersWellFormed
    OBVIOUS
  <2>1. role \in [Users -> Roles]
    BY DEF MembersInit, Roles
  <2>2. membersUI \in [Admins -> View]
    BY DEF MembersInit, View, Roles
  <2>3. change \in [Admins -> Job] /\ \A a \in Admins : Asked(a)
    BY DEF MembersInit, NoChange, Job, Asked
  <2>4. QED BY <2>1, <2>2, <2>3 DEF MembersInit, MembersWellFormed, MembersTypeOK, View, Job
<1>2. MembersWellFormed /\ [MembersNext]_membersVars => MembersWellFormed'
  <2> SUFFICES ASSUME MembersWellFormed, [MembersNext]_membersVars PROVE MembersWellFormed'
    OBVIOUS
  <2> USE DEF MembersWellFormed
  <2>a. ASSUME change' \in [Admins -> Job], membersUI' \in [Admins -> View],
               role' \in [Users -> Roles], overlapped' \in BOOLEAN,
               \A a \in Admins : Asked(a)'
        PROVE  MembersWellFormed'
    BY <2>a DEF MembersTypeOK, View, Job
  <2>b. /\ change \in [Admins -> Job] /\ membersUI \in [Admins -> View]
        /\ role \in [Users -> Roles] /\ overlapped \in BOOLEAN
        /\ \A a \in Admins : Asked(a)
    BY DEF MembersTypeOK, View, Job
  <2>1. ASSUME NEW a \in Admins, LoadMembers(a) PROVE MembersWellFormed'
    BY <2>1, <2>a, <2>b DEF LoadMembers, View, Asked
  <2>2. ASSUME NEW a \in Admins, NEW u \in Users, NEW op \in Changes, Sends(a, op, u)
        PROVE  change' \in [Admins -> Job] /\ \A b \in Admins : Asked(b)'
    BY <2>2, <2>b DEF Sends, Job, Asked
  <2>3. ASSUME NEW a \in Admins, NEW u \in Users, ClickRole(a, u) PROVE MembersWellFormed'
    <3>1. change' \in [Admins -> Job] /\ \A b \in Admins : Asked(b)'
      BY <2>2, <2>3 DEF ClickRole, Changes
    <3>2. membersUI' \in [Admins -> View]
      BY <2>3, ViewChanges DEF ClickRole, MembersTypeOK
    <3>3. QED BY <2>3, <3>1, <3>2, <2>a, <2>b DEF ClickRole
  <2>4. ASSUME NEW a \in Admins, NEW u \in Users, AskRemove(a, u) PROVE MembersWellFormed'
    BY <2>4, <2>a, <2>b, ViewChanges DEF AskRemove, Asked
  <2>5. ASSUME NEW a \in Admins, CancelRemove(a) PROVE MembersWellFormed'
    BY <2>5, <2>a, <2>b, ViewChanges DEF CancelRemove, Asked
  <2>6. ASSUME NEW a \in Admins, ConfirmRemove(a) PROVE MembersWellFormed'
    <3>1. membersUI[a].removing \in Users
      BY <2>6, <2>b DEF ConfirmRemove, View
    <3>2. change' \in [Admins -> Job] /\ \A b \in Admins : Asked(b)'
      BY <2>2, <2>6, <3>1 DEF ConfirmRemove, Changes
    <3>3. membersUI' \in [Admins -> View]
      BY <2>6, <2>b DEF ConfirmRemove, View
    <3>4. UNCHANGED <<role, overlapped>>
      BY <2>6 DEF ConfirmRemove
    <3>5. QED BY <3>2, <3>3, <3>4, <2>a, <2>b
  <2>7. ASSUME NEW a \in Admins, SettleChange(a) PROVE MembersWellFormed'
    <3>1. PICK us \in [Users -> Roles], v \in Users \cup {None} :
            membersUI' = [membersUI EXCEPT ![a] = [users |-> us, busy |-> FALSE, removing |-> v]]
      <4> DEFINE v == IF change[a].at = "answered" /\ change[a].op = "remove"
                        THEN None ELSE membersUI[a].removing
      <4>1. v \in Users \cup {None} /\ membersUI[a].users \in [Users -> Roles]
        BY <2>b DEF View
      <4>2. \E us \in {membersUI[a].users} \cup (IF change[a].at = "answered" THEN {role} ELSE {}) :
              membersUI' = [membersUI EXCEPT ![a] = [users |-> us, busy |-> FALSE, removing |-> v]]
        BY <2>7 DEF SettleChange
      <4> HIDE DEF v
      <4>3. QED BY <4>1, <4>2, <2>b
    <3>2. membersUI' \in [Admins -> View]
      BY <3>1, ViewChanges
    <3>3. change' \in [Admins -> Job] /\ \A b \in Admins : Asked(b)'
      BY <2>7, <2>b DEF SettleChange, NoChange, Job, Asked
    <3>4. QED BY <2>7, <3>2, <3>3, <2>a, <2>b DEF SettleChange
  <2>8. ASSUME NEW a \in Admins, change[a].at # "idle",
               NEW p \in {"idle", "sent", "found", "checked", "answered", "failed"}, Goes(a, p)
        PROVE  change' \in [Admins -> Job] /\ \A b \in Admins : Asked(b)'
    <3>1. \A b \in Admins : change[b].at # "idle" \/ change'[b].at = change[b].at
      BY <2>8, JobMoves
    <3>2. QED BY <2>8, JobMoves, <3>1 DEF Asked
  <2>9. ASSUME NEW a \in Admins, ReadTarget(a) \/ CountAdmins(a) \/ BreakChange(a)
        PROVE  MembersWellFormed'
    <3>1. UNCHANGED <<role, membersUI, overlapped>>
      BY <2>9 DEF ReadTarget, CountAdmins, BreakChange
    <3>2. change' \in [Admins -> Job] /\ \A b \in Admins : Asked(b)'
      BY <2>8, <2>9 DEF ReadTarget, CountAdmins, BreakChange
    <3>3. QED BY <3>1, <3>2, <2>a, <2>b
  <2>10. ASSUME NEW a \in Admins, WriteRole(a) PROVE MembersWellFormed'
    <3>1. change' \in [Admins -> Job] /\ \A b \in Admins : Asked(b)'
      BY <2>8, <2>10 DEF WriteRole
    <3>2. change[a].op \in Changes
      BY <2>10 DEF WriteRole, Asked
    <3>3. NewRole[change[a].op] \in Roles
      BY <3>2 DEF NewRole, Changes, Roles
    <3>4. role' \in [Users -> Roles] /\ overlapped' \in BOOLEAN
      BY <2>10, <2>b, <3>3 DEF WriteRole
    <3>5. QED BY <2>10, <3>1, <3>4, <2>a, <2>b DEF WriteRole
  <2>11. CASE UNCHANGED membersVars
    BY <2>11, <2>a, <2>b DEF membersVars, Asked
  <2>12. QED BY <2>1, <2>3, <2>4, <2>5, <2>6, <2>7, <2>9, <2>10, <2>11 DEF MembersNext
<1>3. QED BY <1>1, <1>2, PTL DEF MembersSpec

(* Types, for any admins and members.                                       *)
THEOREM MembersTypeCorrect == MembersSpec => []MembersTypeOK
<1>1. MembersWellFormed => MembersTypeOK
  BY DEF MembersWellFormed
<1>2. QED BY <1>1, WellFormedMembers, PTL

(* A handler that is about to take the admin role away has counted another  *)
(* admin, and until a role is written under it the count stays true.        *)
Counted(a) ==
  change[a].at = "checked" /\ change[a].op # "promote"
    => role[change[a].who] # "admin" \/ TwoAdmins

CountHolds ==
  overlapped \/ ((\E u \in Users : role[u] = "admin") /\ \A a \in Admins : Counted(a))

(* As long as no role is written between the reads and the write of another *)
(* handler, the team keeps an admin.                                        *)
THEOREM AdminStays == MembersSpec => []AdminRemains
<1>1. MembersInit => CountHolds
  BY MembersAssumption DEF MembersInit, CountHolds, Counted, NoChange, Users
<1>2. MembersWellFormed /\ CountHolds /\ [MembersNext]_membersVars => CountHolds'
  <2> SUFFICES ASSUME MembersWellFormed, CountHolds, [MembersNext]_membersVars, ~overlapped'
               PROVE  CountHolds'
    BY DEF CountHolds
  <2> USE DEF MembersWellFormed
  <2>1. ASSUME role' = role, overlapped' = overlapped, \A a \in Admins : Counted(a)'
        PROVE  CountHolds'
    BY <2>1 DEF CountHolds
  <2>2. ASSUME NEW a \in Admins, LoadMembers(a) \/ CancelRemove(a) PROVE CountHolds'
    BY <2>1, <2>2 DEF LoadMembers, CancelRemove, CountHolds, Counted, TwoAdmins
  <2>3. ASSUME NEW a \in Admins, UNCHANGED <<role, overlapped>>, change'[a].at # "checked",
               \A b \in Admins \ {a} : change'[b] = change[b]
        PROVE  CountHolds'
    BY <2>1, <2>3 DEF CountHolds, Counted, TwoAdmins
  <2>4. ASSUME NEW a \in Admins, NEW u \in Users, ClickRole(a, u) \/ AskRemove(a, u)
        PROVE  CountHolds'
    <3>1. CASE ClickRole(a, u)
      BY <2>3, <3>1 DEF ClickRole, Sends, MembersTypeOK
    <3>2. CASE AskRemove(a, u)
      BY <2>1, <3>2 DEF AskRemove, CountHolds, Counted, TwoAdmins
    <3>3. QED BY <2>4, <3>1, <3>2
  <2>5. ASSUME NEW a \in Admins, ConfirmRemove(a) \/ SettleChange(a) \/ BreakChange(a)
        PROVE  CountHolds'
    BY <2>3, <2>5 DEF ConfirmRemove, SettleChange, BreakChange, Sends, Goes, NoChange, MembersTypeOK
  <2>6. ASSUME NEW a \in Admins, ReadTarget(a) PROVE CountHolds'
    <3>1. change[a].op \in Changes /\ change[a].who \in Users
      BY <2>6 DEF ReadTarget, Asked
    <3>2. PICK p \in {"failed", "found", "checked"} :
            Goes(a, p) /\ (p = "checked" => role[change[a].who] # "admin" \/ change[a].op = "promote")
      BY <2>6 DEF ReadTarget
    <3>3. \A b \in Admins : Counted(b)'
      BY <2>6, <3>2, JobMoves DEF ReadTarget, Counted, TwoAdmins, CountHolds
    <3>4. QED BY <2>1, <2>6, <3>3 DEF ReadTarget
  <2>7. ASSUME NEW a \in Admins, CountAdmins(a) PROVE CountHolds'
    <3>1. PICK p \in {"failed", "checked"} : Goes(a, p) /\ (p = "checked" => TwoAdmins)
      BY <2>7 DEF CountAdmins
    <3>2. \A b \in Admins : Counted(b)'
      BY <2>7, <3>1, JobMoves DEF CountAdmins, Counted, TwoAdmins, CountHolds
    <3>3. QED BY <2>1, <2>7, <3>2 DEF CountAdmins
  <2>8. ASSUME NEW a \in Admins, WriteRole(a) PROVE CountHolds'
    <3>1. CASE role[change[a].who] = "gone"
      BY <2>3, <2>8, <3>1 DEF WriteRole, Goes, MembersTypeOK
    <3>2. CASE role[change[a].who] # "gone"
      <4>1. /\ \A b \in Admins \ {a} : change[b].at \notin {"found", "checked"}
            /\ ~overlapped
            /\ role' = [role EXCEPT ![change[a].who] = NewRole[change[a].op]]
            /\ Goes(a, "answered") /\ change[a].at = "checked"
        BY <2>8, <3>2 DEF WriteRole
      <4>2. \A b \in Admins : Counted(b)'
        BY <4>1, JobMoves DEF Counted
      <4>3. change[a].op \in Changes /\ change[a].who \in Users
        BY <4>1 DEF Asked
      <4>4. \E u \in Users : role[u] = "admin"
        BY <4>1 DEF CountHolds
      <4>5. Counted(a)
        BY <4>1 DEF CountHolds
      <4>6. \A u \in Users \ {change[a].who} : role'[u] = role[u]
        BY <4>1, <4>3 DEF MembersTypeOK
      <4>7. CASE change[a].op = "promote"
        <5>1. role'[change[a].who] = "admin"
          BY <4>1, <4>3, <4>7 DEF NewRole, MembersTypeOK
        <5>2. QED BY <4>2, <4>3, <5>1 DEF CountHolds
      <4>8. CASE change[a].op # "promote" /\ role[change[a].who] # "admin"
        BY <4>2, <4>4, <4>6, <4>8 DEF CountHolds
      <4>9. CASE TwoAdmins
        BY <4>2, <4>6, <4>9 DEF CountHolds, TwoAdmins
      <4>10. QED BY <4>1, <4>5, <4>7, <4>8, <4>9 DEF Counted
    <3>3. QED BY <3>1, <3>2
  <2>9. CASE UNCHANGED membersVars
    BY <2>1, <2>9 DEF membersVars, CountHolds, Counted, TwoAdmins
  <2>10. QED BY <2>2, <2>4, <2>5, <2>6, <2>7, <2>8, <2>9 DEF MembersNext
<1>3. CountHolds => AdminRemains
  BY DEF CountHolds, AdminRemains
<1>4. QED BY <1>1, <1>2, <1>3, WellFormedMembers, PTL DEF MembersSpec

-----------------------------------------------------------------------------
(* Signing in.                                                             *)

MfaOps == {"mfa", "mfaElsewhere"}
Presented == Tickets \X Codes

(* A submission of a code carries its ticket and the code; a right password *)
(* is answered with a ticket; the codes are read for one of them.           *)
Fits(s) ==
  /\ s.at # "idle" /\ s.op \in MfaOps => s.arg \in Presented
  /\ s.at = "answered" /\ s.op = "login" => s.ans \in Tickets
  /\ s.at \in {"unused", "counted", "read", "verified"} => s.op \in MfaOps
  /\ s.at = "read" => s.ans \in SUBSET RecoveryCodes /\ s.arg[2] \in RecoveryCodes

Heard == Tickets \cup (SUBSET RecoveryCodes) \cup {None}
AnySlot == [at : LoginPlaces, op : {"login", "mfa", "mfaElsewhere", None},
            arg : Presented \cup {None}, ans : Heard]
LoginSlot == {s \in AnySlot : Fits(s)}
PageOfLogin == [ticket : Tickets \cup {None}, submitting : BOOLEAN, loading : BOOLEAN,
                waiting : BOOLEAN, signedIn : BOOLEAN]
Gates == [used : SUBSET Tickets, attempts : [Tickets -> 0..MaxAttempts]]

LoginInv ==
  /\ loginUI \in PageOfLogin /\ loginCalls \in [Calls -> LoginSlot]
  /\ valid \subseteq Tickets /\ gate \in Gates /\ codesLeft \subseteq RecoveryCodes
  /\ opened \in [Tickets -> Nat] /\ spent \in [RecoveryCodes -> 0..2] /\ raced \in BOOLEAN

(* How a slot goes on, from its fetch to the end of the code after its await. *)
LEMMA LoginSlotMoves ==
  ASSUME loginCalls \in [Calls -> LoginSlot], NEW c \in Calls
  PROVE  /\ End(loginCalls, c) \in [Calls -> LoginSlot]
         /\ Send(loginCalls, c, "login", None) \in [Calls -> LoginSlot]
         /\ \A op \in MfaOps, arg \in Presented :
              Send(loginCalls, c, op, arg) \in [Calls -> LoginSlot]
         /\ loginCalls[c].at # "idle" => Reject(loginCalls, c) \in [Calls -> LoginSlot]
         /\ loginCalls[c].at # "idle" /\ loginCalls[c].op = "login"
              => \A t \in Tickets : Answer(loginCalls, c, t) \in [Calls -> LoginSlot]
         /\ loginCalls[c].at # "idle" /\ loginCalls[c].op \in MfaOps
              => /\ Answer(loginCalls, c, None) \in [Calls -> LoginSlot]
                 /\ \A p \in {"unused", "counted", "verified", "limited"} :
                      [loginCalls EXCEPT ![c].at = p] \in [Calls -> LoginSlot]
<1> USE DEF LoginPlaces, Places
<1>0. None \in Heard /\ \A t \in Tickets : t \in Heard
  BY DEF Heard
<1>1. loginCalls[c] \in AnySlot /\ Fits(loginCalls[c])
  BY DEF LoginSlot
<1>2. ASSUME NEW s \in LoginSlot PROVE [loginCalls EXCEPT ![c] = s] \in [Calls -> LoginSlot]
  BY <1>2
<1>3. Idle \in LoginSlot
  BY <1>0 DEF Idle, LoginSlot, AnySlot, Fits
<1>4. [at |-> "sent", op |-> "login", arg |-> None, ans |-> None] \in LoginSlot
  BY <1>0 DEF LoginSlot, AnySlot, Fits, MfaOps
<1>5. ASSUME NEW op \in MfaOps, NEW arg \in Presented
      PROVE  [at |-> "sent", op |-> op, arg |-> arg, ans |-> None] \in LoginSlot
  BY <1>0 DEF LoginSlot, AnySlot, Fits, MfaOps
<1>6. ASSUME loginCalls[c].at # "idle"
      PROVE  [loginCalls[c] EXCEPT !.at = "failed", !.ans = None] \in LoginSlot
  BY <1>0, <1>1, <1>6 DEF LoginSlot, AnySlot, Fits
<1>7. ASSUME loginCalls[c].at # "idle", loginCalls[c].op = "login", NEW t \in Tickets
      PROVE  [loginCalls[c] EXCEPT !.at = "answered", !.ans = t] \in LoginSlot
  BY <1>0, <1>1, <1>7 DEF LoginSlot, AnySlot, Fits
<1>8. ASSUME loginCalls[c].at # "idle", loginCalls[c].op \in MfaOps
      PROVE  /\ [loginCalls[c] EXCEPT !.at = "answered", !.ans = None] \in LoginSlot
             /\ \A p \in {"unused", "counted", "verified", "limited"} :
                  [loginCalls[c] EXCEPT !.at = p] \in LoginSlot
  BY <1>0, <1>1, <1>8 DEF LoginSlot, AnySlot, Fits, MfaOps
<1>9. End(loginCalls, c) \in [Calls -> LoginSlot]
  BY <1>2, <1>3 DEF End
<1>10. Send(loginCalls, c, "login", None) \in [Calls -> LoginSlot]
  BY <1>2, <1>4 DEF Send
<1>11. \A op \in MfaOps, arg \in Presented :
         Send(loginCalls, c, op, arg) \in [Calls -> LoginSlot]
  BY <1>2, <1>5 DEF Send
<1>12. loginCalls[c].at # "idle" => Reject(loginCalls, c) \in [Calls -> LoginSlot]
  BY <1>2, <1>6 DEF Reject
<1>13. loginCalls[c].at # "idle" /\ loginCalls[c].op = "login"
         => \A t \in Tickets : Answer(loginCalls, c, t) \in [Calls -> LoginSlot]
  BY <1>2, <1>7 DEF Answer
<1>14. loginCalls[c].at # "idle" /\ loginCalls[c].op \in MfaOps
         => /\ Answer(loginCalls, c, None) \in [Calls -> LoginSlot]
            /\ \A p \in {"unused", "counted", "verified", "limited"} :
                 [loginCalls EXCEPT ![c].at = p] \in [Calls -> LoginSlot]
  BY <1>2, <1>8 DEF Answer
<1>15. QED BY <1>9, <1>10, <1>11, <1>12, <1>13, <1>14

LEMMA LoginInvariant == LoginSpec => []LoginInv
<1> USE LoginAssumption
<1>1. LoginInit => LoginInv
  <2> SUFFICES ASSUME LoginInit PROVE LoginInv
    OBVIOUS
  <2>1. Idle \in LoginSlot
    BY DEF Idle, LoginSlot, AnySlot, Heard, Fits, LoginPlaces, Places
  <2>2. gate \in Gates
    BY DEF LoginInit, FreshGate, Gates
  <2>3. loginUI \in PageOfLogin
    BY DEF LoginInit, FreshPage, PageOfLogin
  <2>4. loginCalls \in [Calls -> LoginSlot]
    BY <2>1 DEF LoginInit
  <2>5. spent \in [RecoveryCodes -> 0..2] /\ opened \in [Tickets -> Nat]
    BY DEF LoginInit
  <2>6. valid \subseteq Tickets /\ codesLeft \subseteq RecoveryCodes /\ raced \in BOOLEAN
    BY DEF LoginInit
  <2>7. QED BY <2>2, <2>3, <2>4, <2>5, <2>6 DEF LoginInv
<1>2. LoginInv /\ [LoginNext]_loginVars => LoginInv'
  <2> SUFFICES ASSUME LoginInv, [LoginNext]_loginVars PROVE LoginInv'
    OBVIOUS
  <2>a. /\ loginUI \in PageOfLogin /\ loginCalls \in [Calls -> LoginSlot]
        /\ valid \subseteq Tickets /\ gate \in Gates /\ codesLeft \subseteq RecoveryCodes
        /\ opened \in [Tickets -> Nat] /\ spent \in [RecoveryCodes -> 0..2] /\ raced \in BOOLEAN
    BY DEF LoginInv
  <2>b. ASSUME loginUI' \in PageOfLogin, loginCalls' \in [Calls -> LoginSlot], UNCHANGED pageOnly
        PROVE  LoginInv'
    BY <2>a, <2>b DEF LoginInv, pageOnly
  <2>c. \A c \in Calls : loginCalls[c] \in AnySlot /\ Fits(loginCalls[c])
    BY <2>a DEF LoginSlot
  <2>d. \A c \in Calls : TicketOf(c) = loginCalls[c].arg[1] /\ CodeOf(c) = loginCalls[c].arg[2]
    BY DEF TicketOf, CodeOf
  <2>e. ASSUME NEW c \in Calls, loginCalls[c].at # "idle", Refuse(c)
        PROVE  loginCalls' \in [Calls -> LoginSlot]
    BY <2>e, <2>a, LoginSlotMoves DEF Refuse
  <2>f. FreshPage \in PageOfLogin
    BY DEF FreshPage, PageOfLogin
  <2>g. ASSUME NEW c \in Calls, loginCalls[c].at \in {"unused", "counted", "read", "verified"}
        PROVE  /\ loginCalls[c].op \in MfaOps /\ loginCalls[c].arg \in Presented
               /\ TicketOf(c) \in Tickets
    BY <2>c, <2>g DEF Fits, Presented, TicketOf
  <2>h. ASSUME NEW c \in Calls, loginCalls[c].at # "idle", loginCalls[c].op \in MfaOps,
               NEW p \in {"unused", "counted", "verified", "limited"}, GoTo(c, p)
        PROVE  loginCalls' \in [Calls -> LoginSlot]
    BY <2>h, <2>a, LoginSlotMoves DEF GoTo
  <2>1. ASSUME NEW c \in Calls, SubmitPassword(c) PROVE LoginInv'
    <3>1. loginUI' \in PageOfLogin
      BY <2>1, <2>a DEF SubmitPassword, PageOfLogin
    <3>2. QED BY <2>1, <3>1, <2>a, <2>b, LoginSlotMoves DEF SubmitPassword
  <2>2. ASSUME NEW c \in Calls, SettlePassword(c) PROVE LoginInv'
    <3>1. loginCalls[c].at = "answered" => loginCalls[c].ans \in Tickets
      BY <2>2, <2>c DEF SettlePassword, Fits
    <3>2. loginUI' \in PageOfLogin
      BY <2>2, <3>1, <2>a, <2>f DEF SettlePassword, PageOfLogin, At
    <3>3. QED BY <2>2, <3>2, <2>a, <2>b, LoginSlotMoves DEF SettlePassword
  <2>3. ASSUME NEW c \in Calls, NEW code \in Codes, SubmitMFA(c, code) PROVE LoginInv'
    <3>1. loginUI' \in PageOfLogin
      BY <2>3, <2>a DEF SubmitMFA, PageOfLogin
    <3>2. loginUI.ticket \in Tickets
      BY <2>3, <2>a DEF SubmitMFA, PageOfLogin
    <3>3. <<loginUI.ticket, code>> \in Presented
      BY <3>2 DEF Presented
    <3>4. "mfa" \in MfaOps
      BY DEF MfaOps
    <3>5. QED BY <2>3, <3>1, <3>3, <3>4, <2>a, <2>b, LoginSlotMoves DEF SubmitMFA
  <2>4. ASSUME NEW c \in Calls, SettleMFA(c) PROVE LoginInv'
    <3>1. loginUI' \in PageOfLogin
      BY <2>4, <2>a, <2>f DEF SettleMFA, PageOfLogin, At
    <3>2. QED BY <2>4, <3>1, <2>a, <2>b, LoginSlotMoves DEF SettleMFA
  <2>5. CASE CancelMFA \/ CountDown \/ SignOut
    <3>1. loginUI' \in PageOfLogin
      BY <2>5, <2>a, <2>f DEF CancelMFA, CountDown, SignOut, PageOfLogin
    <3>2. QED BY <2>5, <3>1, <2>a, <2>b DEF CancelMFA, CountDown, SignOut
  <2>6. ASSUME NEW c \in Calls, NEW t \in Tickets, NEW code \in Codes, SubmitElsewhere(c, t, code)
        PROVE  LoginInv'
    <3>1. <<t, code>> \in Presented /\ "mfaElsewhere" \in MfaOps
      BY DEF Presented, MfaOps
    <3>2. QED BY <2>6, <3>1, <2>a, <2>b, LoginSlotMoves DEF SubmitElsewhere
  <2>7. ASSUME NEW c \in Calls, ServePassword(c) PROVE LoginInv'
    <3>1. PICK t \in Tickets : valid' = valid \cup {t} /\ loginCalls' = Answer(loginCalls, c, t)
      BY <2>7 DEF ServePassword
    <3>2. loginCalls' \in [Calls -> LoginSlot]
      BY <2>7, <3>1, <2>a, LoginSlotMoves DEF ServePassword, At
    <3>3. QED BY <2>7, <3>1, <3>2, <2>a DEF ServePassword, LoginInv
  <2>8. ASSUME NEW c \in Calls, BreakLoginCall(c) PROVE LoginInv'
    BY <2>8, <2>a, <2>b, <2>e DEF BreakLoginCall, CanBreak
  <2>9. ASSUME NEW c \in Calls, CheckTicket(c) PROVE LoginInv'
    <3>1. loginCalls' \in [Calls -> LoginSlot]
      BY <2>9, <2>e, <2>h DEF CheckTicket, At, MfaOps
    <3>2. QED BY <2>9, <3>1, <2>a, <2>b DEF CheckTicket
  <2>10. ASSUME NEW c \in Calls, CountAttempt(c) PROVE LoginInv'
    <3>1. loginCalls' \in [Calls -> LoginSlot]
      <4>1. loginCalls[c].at = "unused" /\ loginCalls[c].op \in MfaOps
        BY <2>10, <2>g DEF CountAttempt, At
      <4>2. GoTo(c, "counted") \/ GoTo(c, "limited") \/ Refuse(c)
        BY <2>10 DEF CountAttempt, Limit
      <4>3. QED BY <4>1, <4>2, <2>e, <2>h
    <3>2. gate' \in Gates
      BY <2>10, <2>a DEF CountAttempt, Gates
    <3>3. QED BY <2>10, <3>1, <3>2, <2>a DEF CountAttempt, LoginInv
  <2>11. ASSUME NEW c \in Calls, VerifyTotp(c) PROVE LoginInv'
    <3>1. loginCalls' \in [Calls -> LoginSlot]
      <4>1. loginCalls[c].at = "counted" /\ loginCalls[c].op \in MfaOps
        BY <2>11, <2>g DEF VerifyTotp, At
      <4>2. GoTo(c, "verified") \/ Refuse(c)
        BY <2>11 DEF VerifyTotp
      <4>3. QED BY <4>1, <4>2, <2>e, <2>h
    <3>2. QED BY <2>11, <3>1, <2>a, <2>b DEF VerifyTotp
  <2>12. ASSUME NEW c \in Calls, ReadCodes(c) PROVE LoginInv'
    <3>1. CASE CodeOf(c) \in codesLeft
      <4>1. [loginCalls[c] EXCEPT !.at = "read", !.ans = codesLeft] \in LoginSlot
        <5>1. loginCalls[c].op \in MfaOps /\ loginCalls[c].arg \in Presented
          BY <2>12, <2>g DEF ReadCodes, At
        <5>2. codesLeft \in Heard /\ codesLeft \in SUBSET RecoveryCodes
          BY <2>a DEF Heard
        <5>3. loginCalls[c].arg[2] \in RecoveryCodes
          BY <2>12 DEF ReadCodes, CodeOf
        <5>4. loginCalls[c] \in AnySlot
          BY <2>c
        <5>5. [loginCalls[c] EXCEPT !.at = "read", !.ans = codesLeft] \in AnySlot
          BY <5>2, <5>4 DEF AnySlot, LoginPlaces, Places
        <5>6. Fits([loginCalls[c] EXCEPT !.at = "read", !.ans = codesLeft])
          BY <5>1, <5>2, <5>3, <5>4 DEF Fits, AnySlot
        <5>7. QED BY <5>5, <5>6 DEF LoginSlot
      <4>2. loginCalls' = [loginCalls EXCEPT ![c] = [loginCalls[c] EXCEPT !.at = "read", !.ans = codesLeft]]
        BY <2>12, <3>1, <2>a DEF ReadCodes
      <4>3. loginCalls' \in [Calls -> LoginSlot]
        BY <4>1, <4>2, <2>a
      <4>4. QED BY <2>12, <4>3, <2>a, <2>b DEF ReadCodes
    <3>2. CASE CodeOf(c) \notin codesLeft
      BY <2>12, <3>2, <2>a, <2>b, <2>e DEF ReadCodes, At
    <3>3. QED BY <3>1, <3>2
  <2>13. ASSUME NEW c \in Calls, WriteCodes(c) PROVE LoginInv'
    <3>1. loginCalls[c].ans \in SUBSET RecoveryCodes /\ CodeOf(c) \in RecoveryCodes
      BY <2>13, <2>c DEF WriteCodes, At, Fits, CodeOf
    <3>2. [loginCalls[c] EXCEPT !.at = "verified", !.ans = None] \in LoginSlot
      <4>1. loginCalls[c].op \in MfaOps /\ loginCalls[c].arg \in Presented
        BY <2>13, <2>g DEF WriteCodes, At
      <4>2. loginCalls[c] \in AnySlot /\ None \in Heard
        BY <2>c DEF Heard
      <4>3. QED BY <4>1, <4>2 DEF LoginSlot, AnySlot, LoginPlaces, Places, Fits
    <3>3. loginCalls' = [loginCalls EXCEPT ![c] = [loginCalls[c] EXCEPT !.at = "verified", !.ans = None]]
      BY <2>13, <2>a DEF WriteCodes
    <3>4. loginCalls' \in [Calls -> LoginSlot]
      BY <3>2, <3>3, <2>a
    <3>5. codesLeft' \subseteq RecoveryCodes
      BY <2>13, <3>1 DEF WriteCodes, Remaining
    <3>6. spent' \in [RecoveryCodes -> 0..2]
      BY <2>13, <3>1, <2>a DEF WriteCodes
    <3>7. QED BY <2>13, <3>4, <3>5, <3>6, <2>a DEF WriteCodes, LoginInv
  <2>14. ASSUME NEW c \in Calls, MarkUsed(c) PROVE LoginInv'
    <3>1. loginCalls' \in [Calls -> LoginSlot]
      BY <2>14, <2>a, <2>e, <2>g, LoginSlotMoves DEF MarkUsed, At
    <3>2. gate' \in Gates /\ opened' \in [Tickets -> Nat]
      BY <2>14, <2>a, <2>g DEF MarkUsed, Gates, At
    <3>3. QED BY <2>14, <3>1, <3>2, <2>a DEF MarkUsed, LoginInv
  <2>15. ASSUME NEW t \in Tickets, ExpireTicket(t) PROVE LoginInv'
    <3>1. gate' \in Gates
      <4>1. gate.used \in SUBSET Tickets /\ gate.attempts \in [Tickets -> 0..MaxAttempts]
        BY <2>a DEF Gates
      <4>2. PICK n \in 0..MaxAttempts :
              gate' = [gate EXCEPT !.used = gate.used \ {t},
                                   !.attempts = [gate.attempts EXCEPT ![t] = n]]
        <5>1. gate.attempts[t] \in 0..MaxAttempts /\ 0 \in 0..MaxAttempts
          BY <4>1
        <5>2. QED BY <2>15, <2>a, <5>1 DEF ExpireTicket, Gates
      <4>3. [gate.attempts EXCEPT ![t] = n] \in [Tickets -> 0..MaxAttempts]
        BY <4>1
      <4>4. QED BY <4>1, <4>2, <4>3, <2>a DEF Gates
    <3>2. QED BY <2>15, <3>1, <2>a DEF ExpireTicket, LoginInv
  <2>16. CASE RestartLogin
    <3>1. gate' \in Gates /\ opened' \in [Tickets -> Nat]
      <4>1. FreshGate \in Gates
        BY DEF FreshGate, Gates
      <4>2. gate' = FreshGate /\ opened' = [t \in Tickets |-> 0]
        BY <2>16 DEF RestartLogin
      <4>3. QED BY <4>1, <4>2
    <3>2. ASSUME NEW c \in Calls
          PROVE  Idle \in LoginSlot /\ (loginCalls[c].at # "idle"
                   => [loginCalls[c] EXCEPT !.at = "failed", !.ans = None] \in LoginSlot)
      <4>1. Idle \in LoginSlot
        BY DEF Idle, LoginSlot, AnySlot, Heard, Fits, LoginPlaces, Places
      <4>2. loginCalls[c] \in AnySlot /\ Fits(loginCalls[c]) /\ None \in Heard
        BY <2>c DEF Heard
      <4>3. QED BY <4>1, <4>2 DEF LoginSlot, AnySlot, Fits, LoginPlaces, Places
    <3>3. loginCalls' \in [Calls -> LoginSlot]
      BY <2>16, <3>2, <2>a DEF RestartLogin, At
    <3>4. QED BY <2>16, <3>1, <3>3, <2>a DEF RestartLogin, LoginInv
  <2>17. CASE UNCHANGED loginVars
    BY <2>17, <2>a DEF loginVars, LoginInv
  <2>18. QED BY <2>1, <2>2, <2>3, <2>4, <2>5, <2>6, <2>7, <2>8, <2>9, <2>10, <2>11, <2>12,
                <2>13, <2>14, <2>15, <2>16, <2>17 DEF LoginNext
<1>3. QED BY <1>1, <1>2, PTL DEF LoginSpec

(* Types, for any tickets, recovery codes and requests in flight.           *)
THEOREM LoginTypeCorrect == LoginSpec => []LoginTypeOK
<1>1. LoginInv => LoginTypeOK
  <2> SUFFICES ASSUME LoginInv PROVE LoginTypeOK
    OBVIOUS
  <2>1. loginCalls \in [Calls -> AnySlot]
    BY DEF LoginInv, LoginSlot
  <2>2. QED BY <2>1 DEF LoginInv, LoginTypeOK, AnySlot, Presented, Heard, PageOfLogin, Gates
<1>2. QED BY <1>1, LoginInvariant, PTL

(* A ticket that has opened a session and can still be parsed is remembered. *)
Remembered(t) ==
  /\ opened[t] \in {0, 1}
  /\ opened[t] = 1 /\ t \in valid => t \in gate.used

(* However many submissions of a ticket overlap, and however it expires      *)
(* under them, it opens at most one session while the server runs.           *)
THEOREM OneSessionPerTicket == LoginSpec => []TicketOpensOneSession
<1> DEFINE Memory == \A t \in Tickets : Remembered(t)
<1>1. LoginInit => Memory
  BY DEF LoginInit, Remembered
<1>2. LoginInv /\ Memory /\ [LoginNext]_loginVars => Memory'
  <2> SUFFICES ASSUME LoginInv, Memory, [LoginNext]_loginVars, NEW t \in Tickets
               PROVE  Remembered(t)'
    OBVIOUS
  <2>a. Remembered(t) /\ opened \in [Tickets -> Nat] /\ gate \in Gates /\ valid \subseteq Tickets
    BY DEF LoginInv
  <2>1. ASSUME NEW c \in Calls, ServePassword(c) PROVE Remembered(t)'
    BY <2>1, <2>a DEF ServePassword, Unheard, Remembered
  <2>2. ASSUME NEW c \in Calls, CountAttempt(c) PROVE Remembered(t)'
    BY <2>2, <2>a DEF CountAttempt, Remembered, Gates
  <2>3. ASSUME NEW c \in Calls, MarkUsed(c) PROVE Remembered(t)'
    <3>1. CASE ~Claimable(TicketOf(c))
      BY <2>3, <3>1, <2>a DEF MarkUsed, Remembered
    <3>2. CASE Claimable(TicketOf(c))
      <4>1. /\ valid' = valid /\ gate'.used = gate.used \cup {TicketOf(c)}
            /\ opened' = [opened EXCEPT ![TicketOf(c)] = @ + 1]
        BY <2>3, <3>2, <2>a DEF MarkUsed, Gates
      <4>2. TicketOf(c) = t => opened[t] = 0
        BY <3>2, <2>a DEF Claimable, Remembered
      <4>3. QED BY <4>1, <4>2, <2>a DEF Remembered
    <3>3. QED BY <3>1, <3>2
  <2>4. ASSUME NEW u \in Tickets, ExpireTicket(u) PROVE Remembered(t)'
    BY <2>4, <2>a DEF ExpireTicket, Remembered, Gates
  <2>5. CASE RestartLogin
    <3>1. opened' = [u \in Tickets |-> 0]
      BY <2>5 DEF RestartLogin
    <3>2. opened'[t] = 0
      BY <3>1
    <3>3. QED BY <3>2 DEF Remembered
  <2>6. ASSUME UNCHANGED <<valid, gate, opened>> PROVE Remembered(t)'
    BY <2>6, <2>a DEF Remembered
  <2>7. QED BY <2>1, <2>2, <2>3, <2>4, <2>5, <2>6 DEF LoginNext, loginVars, pageOnly,
      CancelMFA, CountDown, SignOut, SubmitPassword, SettlePassword, SettleMFA, SubmitMFA,
      SubmitElsewhere, BreakLoginCall, CheckTicket, VerifyTotp, ReadCodes, WriteCodes
<1>3. Memory => TicketOpensOneSession
  BY DEF Remembered, TicketOpensOneSession
<1>4. QED BY <1>1, <1>2, <1>3, LoginInvariant, PTL DEF LoginSpec

(* Until two recoveries overlap, a handler between the read and the write    *)
(* holds the list as it is, with its code in it; a code in the list was      *)
(* never spent.                                                              *)
ListIsFresh ==
  raced \/
    /\ \A c \in Calls : At(c, "read") => loginCalls[c].ans = codesLeft /\ CodeOf(c) \in codesLeft
    /\ \A r \in RecoveryCodes : spent[r] \in {0, 1} /\ (r \in codesLeft => spent[r] = 0)

(* A recovery code signs in once, unless two recoveries overlap.             *)
THEOREM RecoveryCodeOnce == LoginSpec => []RecoveryCodeSpentOnce
<1>1. LoginInit => ListIsFresh
  BY DEF LoginInit, ListIsFresh, At, Idle
<1>2. LoginInv /\ ListIsFresh /\ [LoginNext]_loginVars => ListIsFresh'
  <2> SUFFICES ASSUME LoginInv, ListIsFresh, [LoginNext]_loginVars, ~raced'
               PROVE  ListIsFresh'
    BY DEF ListIsFresh
  <2>a. /\ loginCalls \in [Calls -> LoginSlot] /\ spent \in [RecoveryCodes -> 0..2]
        /\ codesLeft \subseteq RecoveryCodes
    BY DEF LoginInv
  <2>b. \A c \in Calls : loginCalls[c] \in AnySlot
    BY <2>a DEF LoginSlot
  <2>1. ASSUME UNCHANGED <<codesLeft, spent, raced>>,
               \A c \in Calls : loginCalls'[c].at = "read" => loginCalls'[c] = loginCalls[c]
        PROVE  ListIsFresh'
    BY <2>1 DEF ListIsFresh, At, CodeOf
  <2>2. ASSUME NEW c \in Calls, WriteCodes(c) PROVE ListIsFresh'
    <3>1. /\ ~raced /\ \A d \in Calls \ {c} : ~At(d, "read")
          /\ codesLeft' = Remaining(c)
          /\ spent' = [spent EXCEPT ![CodeOf(c)] = IF @ > 1 THEN @ ELSE @ + 1]
          /\ loginCalls' = [loginCalls EXCEPT ![c].at = "verified", ![c].ans = None]
          /\ At(c, "read")
      BY <2>2 DEF WriteCodes
    <3>2. loginCalls[c].ans = codesLeft /\ CodeOf(c) \in codesLeft
      BY <3>1 DEF ListIsFresh
    <3>3. \A r \in RecoveryCodes : spent[r] \in {0, 1} /\ (r \in codesLeft => spent[r] = 0)
      BY <3>1 DEF ListIsFresh
    <3>4. \A r \in RecoveryCodes : spent'[r] = IF r = CodeOf(c) THEN 1 ELSE spent[r]
      BY <3>1, <3>2, <3>3, <2>a
    <3>5. codesLeft' = codesLeft \ {CodeOf(c)}
      BY <3>1, <3>2 DEF Remaining
    <3>6. \A d \in Calls : loginCalls'[d].at # "read"
      BY <3>1, <2>a, <2>b DEF At, AnySlot
    <3>7. QED BY <3>3, <3>4, <3>5, <3>6 DEF ListIsFresh, At
  <2>3. ASSUME NEW c \in Calls, ReadCodes(c) PROVE ListIsFresh'
    <3>1. CASE CodeOf(c) \in codesLeft
      <4>1. /\ loginCalls' = [loginCalls EXCEPT ![c].at = "read", ![c].ans = codesLeft]
            /\ UNCHANGED <<codesLeft, spent, raced>>
        BY <2>3, <3>1 DEF ReadCodes, pageOnly
      <4>2. /\ loginCalls'[c].ans = codesLeft /\ loginCalls'[c].arg = loginCalls[c].arg
            /\ \A d \in Calls \ {c} : loginCalls'[d] = loginCalls[d]
        BY <4>1, <2>a, <2>b DEF AnySlot
      <4>3. QED BY <3>1, <4>1, <4>2 DEF ListIsFresh, At, CodeOf
    <3>2. CASE CodeOf(c) \notin codesLeft
      BY <2>1, <2>3, <3>2, <2>a, <2>b DEF ReadCodes, Refuse, End, Reject, Idle, pageOnly, AnySlot
    <3>3. QED BY <3>1, <3>2
  <2>4. ASSUME NEW c \in Calls, NEW p \in {"unused", "counted", "verified", "limited"},
               GoTo(c, p) \/ Refuse(c), UNCHANGED <<codesLeft, spent, raced>>
        PROVE  ListIsFresh'
    BY <2>1, <2>4, <2>a, <2>b DEF GoTo, Refuse, End, Reject, Idle, AnySlot
  <2>5. ASSUME NEW c \in Calls, CheckTicket(c) \/ CountAttempt(c) \/ VerifyTotp(c) \/ BreakLoginCall(c)
        PROVE  ListIsFresh'
    BY <2>4, <2>5 DEF CheckTicket, CountAttempt, Limit, VerifyTotp, BreakLoginCall, pageOnly
  <2>6. ASSUME NEW c \in Calls, MarkUsed(c) PROVE ListIsFresh'
    <3>1. /\ UNCHANGED <<codesLeft, spent, raced>>
          /\ loginCalls' = End(loginCalls, c) \/ loginCalls' = Answer(loginCalls, c, None)
             \/ Refuse(c)
      BY <2>6 DEF MarkUsed
    <3>2. QED BY <2>1, <3>1, <2>a, <2>b DEF Refuse, End, Answer, Reject, Idle, AnySlot
  <2>7. ASSUME NEW c \in Calls, ServePassword(c) \/ SettlePassword(c) \/ SettleMFA(c) \/ SubmitPassword(c)
        PROVE  ListIsFresh'
    <3>1. /\ UNCHANGED <<codesLeft, spent, raced>>
          /\ \/ loginCalls' = End(loginCalls, c)
             \/ \E t \in Tickets : loginCalls' = Answer(loginCalls, c, t)
             \/ loginCalls' = Send(loginCalls, c, "login", None)
      BY <2>7 DEF ServePassword, SettlePassword, SettleMFA, SubmitPassword, pageOnly
    <3>2. QED BY <2>1, <3>1, <2>a, <2>b DEF End, Answer, Send, Idle, AnySlot
  <2>8. ASSUME NEW c \in Calls, NEW op, NEW arg, loginCalls' = Send(loginCalls, c, op, arg),
               UNCHANGED <<codesLeft, spent, raced>>
        PROVE  ListIsFresh'
    BY <2>1, <2>8, <2>a, <2>b DEF Send, AnySlot
  <2>9. ASSUME NEW c \in Calls, NEW t \in Tickets, NEW code \in Codes,
               SubmitElsewhere(c, t, code)
        PROVE  ListIsFresh'
    BY <2>8, <2>9 DEF SubmitElsewhere, pageOnly
  <2>10. ASSUME NEW c \in Calls, NEW code \in Codes, SubmitMFA(c, code) PROVE ListIsFresh'
    BY <2>8, <2>10 DEF SubmitMFA, pageOnly
  <2>11. CASE RestartLogin
    BY <2>1, <2>11, <2>a, <2>b DEF RestartLogin, Idle, AnySlot
  <2>12. ASSUME UNCHANGED <<loginCalls, codesLeft, spent, raced>> PROVE ListIsFresh'
    BY <2>1, <2>12
  <2>13. CASE CancelMFA \/ CountDown \/ SignOut \/ (\E t \in Tickets : ExpireTicket(t))
              \/ UNCHANGED loginVars
    BY <2>12, <2>13 DEF CancelMFA, CountDown, SignOut, ExpireTicket, loginVars, pageOnly
  <2>14. QED BY <2>2, <2>3, <2>5, <2>6, <2>7, <2>9, <2>10, <2>11, <2>13 DEF LoginNext
<1>3. ListIsFresh => RecoveryCodeSpentOnce
  BY DEF ListIsFresh, RecoveryCodeSpentOnce
<1>4. QED BY <1>1, <1>2, <1>3, LoginInvariant, PTL DEF LoginSpec

-----------------------------------------------------------------------------
(* Two-factor enrolment on the settings page.                              *)

BusyWith == {"setup", "confirm", "remove", "smtp", "templates", "test", None}
SettingsDialogs == {"none", "qr", "code", "recovery", "remove", "gone"}
PageOfSettings == [twoFA : BOOLEAN, form : [Forms -> Texts], busy : BusyWith,
                   dialog : SettingsDialogs, codes : Batches \cup {None}]

(* What an answer brings; a load that fails leaves nothing behind.           *)
SettingsFits(s) ==
  /\ s.op \in Loads => s.at # "failed"
  /\ s.op \in {"loadSmtp", "reloadSmtp"} /\ s.at = "answered" => s.ans \in Texts
  /\ s.op \in {"loadTemplates", "reloadTemplates"} \cup Forms /\ s.at # "idle" =>
       s.arg \in Texts /\ (s.at = "answered" => s.ans \in Texts)
  /\ s.op = "confirm" /\ s.at = "answered" => s.ans \in Batches \cup {None}

AnySettingsSlot == Slot(SettingsOps, Texts, Batches \cup Texts \cup Readable)
SettingsSlot == {s \in AnySettingsSlot : SettingsFits(s)}

SettingsTyped ==
  /\ totp \in Enrolments
  /\ mail \in [Forms -> Texts]
  /\ settingsUI \in PageOfSettings
  /\ setCalls \in [Calls -> SettingsSlot]

(* A request some button waits for: all but the loads.                       *)
Pressed(c) == setCalls[c].at # "idle" /\ setCalls[c].op \notin Loads

BusyIsSet == \A c \in Calls : Pressed(c) => settingsUI.busy # None
OnePressed == \A c, d \in Calls : Pressed(c) /\ Pressed(d) => c = d

(* Beside the codes on the screen only the get2FA after them is in flight.   *)
CodesAreLast ==
  settingsUI.dialog = "recovery" => \A c \in Calls : Pressed(c) => setCalls[c].op = "status"

(* The batch on its way is the row's.                                        *)
BatchIsTrue ==
  \A c \in Calls : setCalls[c].op = "confirm" /\ setCalls[c].at = "answered"
                   /\ setCalls[c].ans # None => totp = setCalls[c].ans

SettingsInv ==
  SettingsTyped /\ BusyIsSet /\ OnePressed /\ CodesAreLast /\ BatchIsTrue /\ ShownCodesOpen

LEMMA SettingsSlotMoves ==
  ASSUME setCalls \in [Calls -> SettingsSlot], NEW c \in Calls
  PROVE  /\ End(setCalls, c) \in [Calls -> SettingsSlot]
         /\ \A op \in SettingsOps \ (Forms \cup {"loadTemplates", "reloadTemplates"}), x \in Texts \cup {None} :
              Send(setCalls, c, op, x) \in [Calls -> SettingsSlot]
         /\ \A op \in SettingsOps, x \in Texts : Send(setCalls, c, op, x) \in [Calls -> SettingsSlot]
         /\ setCalls[c].at # "idle" /\ setCalls[c].op \notin Loads
              => Reject(setCalls, c) \in [Calls -> SettingsSlot]
<1> USE DEF Slot, Places
<1>1. ASSUME NEW s \in SettingsSlot PROVE [setCalls EXCEPT ![c] = s] \in [Calls -> SettingsSlot]
  BY <1>1
<1>2. Idle \in SettingsSlot
  BY DEF Idle, SettingsSlot, AnySettingsSlot, SettingsFits
<1>3. ASSUME NEW op \in SettingsOps \ (Forms \cup {"loadTemplates", "reloadTemplates"}),
             NEW x \in Texts \cup {None}
      PROVE  [at |-> "sent", op |-> op, arg |-> x, ans |-> None] \in SettingsSlot
  BY <1>3 DEF SettingsSlot, AnySettingsSlot, SettingsFits
<1>4. ASSUME NEW op \in SettingsOps, NEW x \in Texts
      PROVE  [at |-> "sent", op |-> op, arg |-> x, ans |-> None] \in SettingsSlot
  BY <1>4 DEF SettingsSlot, AnySettingsSlot, SettingsFits
<1>5. ASSUME setCalls[c].at # "idle", setCalls[c].op \notin Loads
      PROVE  [setCalls[c] EXCEPT !.at = "failed", !.ans = None] \in SettingsSlot
  <2>1. setCalls[c] \in SettingsSlot
    OBVIOUS
  <2>2. QED BY <1>5, <2>1 DEF SettingsSlot, AnySettingsSlot, SettingsFits
<1>6. End(setCalls, c) \in [Calls -> SettingsSlot]
  BY <1>1, <1>2 DEF End
<1>7. \A op \in SettingsOps \ (Forms \cup {"loadTemplates", "reloadTemplates"}), x \in Texts \cup {None} :
        Send(setCalls, c, op, x) \in [Calls -> SettingsSlot]
  BY <1>1, <1>3 DEF Send
<1>8. \A op \in SettingsOps, x \in Texts : Send(setCalls, c, op, x) \in [Calls -> SettingsSlot]
  BY <1>1, <1>4 DEF Send
<1>9. setCalls[c].at # "idle" /\ setCalls[c].op \notin Loads
        => Reject(setCalls, c) \in [Calls -> SettingsSlot]
  BY <1>1, <1>5 DEF Reject
<1>10. QED BY <1>6, <1>7, <1>8, <1>9

(* What may be answered to a request.                                        *)
LEMMA SettingsAnswers ==
  ASSUME setCalls \in [Calls -> SettingsSlot], NEW c \in Calls, setCalls[c].at # "idle"
  PROVE  /\ \A x \in Texts : Answer(setCalls, c, x) \in [Calls -> SettingsSlot] \/ setCalls[c].op = "confirm"
         /\ setCalls[c].op = "confirm" => \A x \in Batches \cup {None} :
              Answer(setCalls, c, x) \in [Calls -> SettingsSlot]
         /\ setCalls[c].op \in {"load", "reload", "status", "setup", "remove", "test"} =>
              \A x \in Readable \cup {None} : Answer(setCalls, c, x) \in [Calls -> SettingsSlot]
         /\ setCalls[c].op = "confirm" /\ setCalls[c].at = "sent" =>
              [setCalls EXCEPT ![c].ans = "verified"] \in [Calls -> SettingsSlot]
<1> USE DEF Slot, Places
<1>1. ASSUME NEW s \in SettingsSlot PROVE [setCalls EXCEPT ![c] = s] \in [Calls -> SettingsSlot]
  BY <1>1
<1>2. setCalls[c] \in SettingsSlot
  OBVIOUS
<1>3. ASSUME NEW x \in Texts, setCalls[c].op # "confirm"
      PROVE  [setCalls[c] EXCEPT !.at = "answered", !.ans = x] \in SettingsSlot
  BY <1>2, <1>3 DEF SettingsSlot, AnySettingsSlot, SettingsFits
<1>4. ASSUME NEW x \in Batches \cup {None}, setCalls[c].op = "confirm"
      PROVE  [setCalls[c] EXCEPT !.at = "answered", !.ans = x] \in SettingsSlot
  BY <1>2, <1>4 DEF SettingsSlot, AnySettingsSlot, SettingsFits, Forms
<1>5. ASSUME NEW x \in Readable \cup {None},
             setCalls[c].op \in {"load", "reload", "status", "setup", "remove", "test"}
      PROVE  [setCalls[c] EXCEPT !.at = "answered", !.ans = x] \in SettingsSlot
  BY <1>2, <1>5 DEF SettingsSlot, AnySettingsSlot, SettingsFits, Forms
<1>6. ASSUME setCalls[c].op = "confirm", setCalls[c].at = "sent"
      PROVE  [setCalls[c] EXCEPT !.ans = "verified"] \in SettingsSlot
  BY <1>2, <1>6 DEF SettingsSlot, AnySettingsSlot, SettingsFits, Readable, Forms
<1>7. \A x \in Texts : Answer(setCalls, c, x) \in [Calls -> SettingsSlot] \/ setCalls[c].op = "confirm"
  BY <1>1, <1>3 DEF Answer
<1>8. setCalls[c].op = "confirm" => \A x \in Batches \cup {None} :
        Answer(setCalls, c, x) \in [Calls -> SettingsSlot]
  BY <1>1, <1>4 DEF Answer
<1>9. setCalls[c].op \in {"load", "reload", "status", "setup", "remove", "test"} =>
        \A x \in Readable \cup {None} : Answer(setCalls, c, x) \in [Calls -> SettingsSlot]
  BY <1>1, <1>5 DEF Answer
<1>10. setCalls[c].op = "confirm" /\ setCalls[c].at = "sent" =>
         [setCalls EXCEPT ![c].ans = "verified"] \in [Calls -> SettingsSlot]
  BY <1>1, <1>6
<1>11. QED BY <1>7, <1>8, <1>9, <1>10

LEMMA SettingsSlotHolds ==
  ASSUME setCalls \in [Calls -> SettingsSlot], NEW c \in Calls
  PROVE  /\ \A op, arg :
              /\ Send(setCalls, c, op, arg)[c].op = op
              /\ Send(setCalls, c, op, arg)[c].at = "sent"
              /\ \A d \in Calls \ {c} : Send(setCalls, c, op, arg)[d] = setCalls[d]
         /\ \A ans :
              /\ Answer(setCalls, c, ans)[c].op = setCalls[c].op
              /\ Answer(setCalls, c, ans)[c].at = "answered"
              /\ Answer(setCalls, c, ans)[c].ans = ans
              /\ \A d \in Calls \ {c} : Answer(setCalls, c, ans)[d] = setCalls[d]
         /\ Reject(setCalls, c)[c].op = setCalls[c].op
         /\ Reject(setCalls, c)[c].at = "failed"
         /\ \A d \in Calls \ {c} : Reject(setCalls, c)[d] = setCalls[d]
         /\ End(setCalls, c)[c].at = "idle"
         /\ \A d \in Calls \ {c} : End(setCalls, c)[d] = setCalls[d]
BY DEF SettingsSlot, AnySettingsSlot, Slot, Send, Answer, Reject, End, Idle

(* The page's state after some of its fields changed.                        *)
LEMMA SettingsPageMoves ==
  ASSUME settingsUI \in PageOfSettings
  PROVE  /\ \A d \in SettingsDialogs : [settingsUI EXCEPT !.dialog = d] \in PageOfSettings
         /\ \A b \in BusyWith, k \in Batches \cup {None} :
              [settingsUI EXCEPT !.busy = b, !.codes = k] \in PageOfSettings
         /\ \A d \in SettingsDialogs, k \in Batches \cup {None} :
              /\ [settingsUI EXCEPT !.dialog = d, !.codes = k] \in PageOfSettings
              /\ [settingsUI EXCEPT !.codes = k, !.dialog = d] \in PageOfSettings
         /\ \A d \in SettingsDialogs :
              /\ [settingsUI EXCEPT !.busy = None, !.dialog = d] \in PageOfSettings
              /\ \A b \in BOOLEAN : [settingsUI EXCEPT !.twoFA = b, !.dialog = d] \in PageOfSettings
         /\ \A b \in BOOLEAN : /\ [settingsUI EXCEPT !.twoFA = b] \in PageOfSettings
                               /\ [settingsUI EXCEPT !.busy = None, !.twoFA = b] \in PageOfSettings
         /\ \A f \in Forms, x \in Texts :
              /\ [settingsUI EXCEPT !.form[f] = x] \in PageOfSettings
              /\ [settingsUI EXCEPT !.busy = None, !.form[f] = x] \in PageOfSettings
         /\ \A x, y \in Texts :
              [settingsUI EXCEPT !.form = [smtp |-> x, templates |-> y]] \in PageOfSettings
         /\ [settingsUI EXCEPT !.busy = None] \in PageOfSettings
<1>1. \A d \in SettingsDialogs : [settingsUI EXCEPT !.dialog = d] \in PageOfSettings
  BY DEF PageOfSettings
<1>2. \A b \in BusyWith, k \in Batches \cup {None} :
        [settingsUI EXCEPT !.busy = b, !.codes = k] \in PageOfSettings
  BY DEF PageOfSettings
<1>3. \A d \in SettingsDialogs, k \in Batches \cup {None} :
        /\ [settingsUI EXCEPT !.dialog = d, !.codes = k] \in PageOfSettings
        /\ [settingsUI EXCEPT !.codes = k, !.dialog = d] \in PageOfSettings
  BY DEF PageOfSettings
<1>4. \A d \in SettingsDialogs :
        /\ [settingsUI EXCEPT !.busy = None, !.dialog = d] \in PageOfSettings
        /\ \A b \in BOOLEAN : [settingsUI EXCEPT !.twoFA = b, !.dialog = d] \in PageOfSettings
  BY DEF PageOfSettings, BusyWith
<1>5. \A b \in BOOLEAN : /\ [settingsUI EXCEPT !.twoFA = b] \in PageOfSettings
                         /\ [settingsUI EXCEPT !.busy = None, !.twoFA = b] \in PageOfSettings
  BY DEF PageOfSettings, BusyWith
<1>6. \A f \in Forms, x \in Texts :
        /\ [settingsUI EXCEPT !.form[f] = x] \in PageOfSettings
        /\ [settingsUI EXCEPT !.busy = None, !.form[f] = x] \in PageOfSettings
  BY DEF PageOfSettings, BusyWith
<1>7. ASSUME NEW x \in Texts, NEW y \in Texts
      PROVE  [settingsUI EXCEPT !.form = [smtp |-> x, templates |-> y]] \in PageOfSettings
  <2>1. [smtp |-> x, templates |-> y] \in [Forms -> Texts]
    BY DEF Forms
  <2>2. QED BY <2>1 DEF PageOfSettings
<1>8. [settingsUI EXCEPT !.busy = None] \in PageOfSettings
  BY DEF PageOfSettings, BusyWith
<1>9. QED BY <1>1, <1>2, <1>3, <1>4, <1>5, <1>6, <1>7, <1>8

LEMMA SettingsTypeHolds ==
  ASSUME SettingsTyped, [SettingsNext]_settingsVars
  PROVE  SettingsTyped'
<1>a. /\ totp \in Enrolments /\ mail \in [Forms -> Texts] /\ settingsUI \in PageOfSettings
      /\ setCalls \in [Calls -> SettingsSlot]
      /\ \A c \in Calls : SettingsFits(setCalls[c]) /\ setCalls[c] \in AnySettingsSlot
  BY DEF SettingsTyped, SettingsSlot
<1>b. ASSUME totp' \in Enrolments, mail' \in [Forms -> Texts], settingsUI' \in PageOfSettings,
             setCalls' \in [Calls -> SettingsSlot]
      PROVE  SettingsTyped'
  BY <1>b DEF SettingsTyped
<1>c. /\ {"load", "setup", "confirm", "status", "remove", "test", "reload", "loadSmtp", "reloadSmtp"}
           \subseteq SettingsOps \ (Forms \cup {"loadTemplates", "reloadTemplates"})
      /\ Forms \subseteq SettingsOps
      /\ {"setup", "confirm", "remove", "test"} \cup Forms \subseteq BusyWith
      /\ "loadTemplates" \in SettingsOps /\ "reloadTemplates" \in SettingsOps
  BY DEF SettingsOps, Forms, Loads, Reloads, BusyWith
<1>1. CASE UNCHANGED settingsVars
  BY <1>1, <1>a, <1>b DEF settingsVars
<1>2. CASE IScanned \/ CloseSetup \/ AskRemove2FA \/ CancelRemove2FA
  <2>1. \A d \in {"none", "code", "remove"} :
          /\ [settingsUI EXCEPT !.dialog = d] \in PageOfSettings
          /\ [settingsUI EXCEPT !.dialog = d, !.codes = None] \in PageOfSettings
    BY <1>a, SettingsPageMoves DEF SettingsDialogs
  <2>2. settingsUI' \in PageOfSettings
    BY <1>2, <2>1 DEF IScanned, CloseSetup, AskRemove2FA, CancelRemove2FA, Open
  <2>3. UNCHANGED <<totp, mail, setCalls>>
    BY <1>2 DEF IScanned, CloseSetup, AskRemove2FA, CancelRemove2FA, Alone
  <2>4. QED BY <2>2, <2>3, <1>a, <1>b
<1>3. CASE \E f \in Forms, x \in Texts : EditForm(f, x)
  <2>1. \A f \in Forms, x \in Texts : [settingsUI EXCEPT !.form[f] = x] \in PageOfSettings
    BY <1>a, SettingsPageMoves
  <2>2. settingsUI' \in PageOfSettings /\ UNCHANGED <<totp, mail, setCalls>>
    BY <1>3, <2>1 DEF EditForm, Alone
  <2>3. QED BY <2>2, <1>a, <1>b
<1>4. ASSUME NEW c \in Calls, LoadSettings(c) \/ FinishSetup(c) PROVE SettingsTyped'
  <2>1. Send(setCalls, c, "load", None) \in [Calls -> SettingsSlot]
    BY <1>a, <1>c, SettingsSlotMoves
  <2>2. [settingsUI EXCEPT !.dialog = "none", !.codes = None] \in PageOfSettings
    BY <1>a, SettingsPageMoves DEF SettingsDialogs
  <2>3. settingsUI' \in PageOfSettings
    BY <1>4, <1>a, <2>2 DEF LoadSettings, FinishSetup
  <2>4. QED BY <1>4, <1>a, <1>b, <2>1, <2>3 DEF LoadSettings, FinishSetup, Alone
<1>5. ASSUME NEW c \in Calls, StartSetup(c) \/ ConfirmSetup(c) \/ Remove2FA(c) \/ SendTest(c)
      PROVE  SettingsTyped'
  <2>1. PICK op \in {"setup", "confirm", "remove", "test"} : Begin(c, op, None) /\ Alone
    BY <1>5 DEF StartSetup, ConfirmSetup, Remove2FA, SendTest
  <2>2. setCalls' \in [Calls -> SettingsSlot]
    BY <2>1, <1>a, <1>c, SettingsSlotMoves DEF Begin
  <2> DEFINE k == IF op = "setup" THEN None ELSE settingsUI.codes
  <2>3. k \in Batches \cup {None} /\ op \in BusyWith
    BY <1>a, <1>c DEF PageOfSettings
  <2>4. settingsUI' = [settingsUI EXCEPT !.busy = op, !.codes = k]
    BY <2>1 DEF Begin
  <2> HIDE DEF k
  <2>5. settingsUI' \in PageOfSettings
    BY <2>3, <2>4, <1>a, SettingsPageMoves
  <2>6. QED BY <2>1, <2>2, <2>5, <1>a, <1>b DEF Alone
<1>6. ASSUME NEW c \in Calls, NEW f \in Forms, SaveForm(c, f) PROVE SettingsTyped'
  <2>1. settingsUI.form[f] \in Texts /\ f \in SettingsOps /\ f \in BusyWith /\ f # "setup"
    BY <1>a, <1>c DEF PageOfSettings, Forms
  <2>2. setCalls' \in [Calls -> SettingsSlot]
    BY <1>6, <2>1, <1>a, SettingsSlotMoves DEF SaveForm, Begin
  <2>3. settingsUI' = [settingsUI EXCEPT !.busy = f, !.codes = settingsUI.codes]
    BY <1>6, <2>1 DEF SaveForm, Begin
  <2>4. settingsUI.codes \in Batches \cup {None}
    BY <1>a DEF PageOfSettings
  <2>5. settingsUI' \in PageOfSettings
    BY <2>1, <2>3, <2>4, <1>a, SettingsPageMoves
  <2>6. QED BY <1>6, <2>2, <2>5, <1>a, <1>b DEF SaveForm, Alone
<1>7. ASSUME NEW c \in Calls, ServeRead(c) PROVE SettingsTyped'
  <2>1. setCalls[c].at # "idle"
    BY <1>7 DEF ServeRead
  <2>2. mail["smtp"] \in Texts /\ mail["templates"] \in Texts
    BY <1>a DEF Forms
  <2>3. setCalls' \in [Calls -> SettingsSlot]
    <3>1. CASE setCalls[c].op \in {"load", "reload", "status"}
               /\ setCalls' = Answer(setCalls, c, IF totp \in Batches THEN "on" ELSE "off")
      BY <3>1, <2>1, <1>a, SettingsAnswers DEF Readable
    <3>2. CASE /\ setCalls[c].op \in {"loadSmtp", "reloadSmtp", "loadTemplates", "reloadTemplates"}
               /\ \/ setCalls' = Answer(setCalls, c, mail["smtp"])
                  \/ setCalls' = Answer(setCalls, c, mail["templates"])
      <4>1. \A x \in Texts : Answer(setCalls, c, x) \in [Calls -> SettingsSlot]
        BY <3>2, <2>1, <1>a, SettingsAnswers
      <4>2. QED BY <3>2, <2>2, <4>1
    <3>3. CASE setCalls[c].op = "test" /\ setCalls' = Answer(setCalls, c, None)
      BY <3>3, <2>1, <1>a, SettingsAnswers
    <3>4. QED BY <1>7, <3>1, <3>2, <3>3 DEF ServeRead, Handling
  <2>4. QED BY <1>7, <2>3, <1>a, <1>b DEF ServeRead, Alone
<1>8. ASSUME NEW c \in Calls, ServeSetup(c) \/ ServeRemove(c) PROVE SettingsTyped'
  <2>1. setCalls[c].op \in {"setup", "remove"} /\ setCalls[c].at # "idle"
    BY <1>8 DEF ServeSetup, ServeRemove, Handling
  <2>2. Answer(setCalls, c, None) \in [Calls -> SettingsSlot]
    BY <2>1, <1>a, SettingsAnswers
  <2>3. QED BY <1>8, <2>2, <1>a, <1>b DEF ServeSetup, ServeRemove, Enrolments
<1>9. ASSUME NEW c \in Calls, VerifyCode(c) PROVE SettingsTyped'
  <2>1. setCalls' \in [Calls -> SettingsSlot]
    BY <1>9, <1>a, SettingsAnswers DEF VerifyCode, Handling
  <2>2. QED BY <1>9, <2>1, <1>a, <1>b DEF VerifyCode, Alone
<1>10. ASSUME NEW c \in Calls, WriteBatch(c) PROVE SettingsTyped'
  <2>1. setCalls[c].op = "confirm" /\ setCalls[c].at = "sent" /\ setCalls[c].op \notin Loads
    BY <1>10 DEF WriteBatch, Handling, Loads
  <2>2. CASE totp = "absent"
    BY <1>10, <2>1, <2>2, <1>a, <1>b, SettingsSlotMoves DEF WriteBatch
  <2>3. CASE totp # "absent"
    <3>1. PICK b \in Batches : totp' = b /\ setCalls' = Answer(setCalls, c, b)
      BY <1>10, <2>3 DEF WriteBatch
    <3>2. QED BY <1>10, <2>1, <3>1, <1>a, <1>b, SettingsAnswers DEF WriteBatch, Enrolments
  <2>4. QED BY <2>2, <2>3
<1>11. ASSUME NEW c \in Calls, ServeForm(c) PROVE SettingsTyped'
  <2>1. PICK f \in Forms : Handling(c, f) /\ mail' = [mail EXCEPT ![f] = setCalls[c].arg]
    BY <1>11 DEF ServeForm
  <2>2. setCalls[c].op = f /\ setCalls[c].at = "sent" /\ f # "confirm" /\ setCalls[c].arg \in Texts
    BY <2>1, <1>a DEF Handling, SettingsFits, Forms
  <2>3. setCalls' \in [Calls -> SettingsSlot]
    BY <1>11, <2>2, <1>a, SettingsAnswers DEF ServeForm
  <2>4. mail' \in [Forms -> Texts]
    BY <2>1, <2>2, <1>a
  <2>5. QED BY <1>11, <2>3, <2>4, <1>a, <1>b DEF ServeForm
<1>12. ASSUME NEW c \in Calls, BreakSettingsCall(c) PROVE SettingsTyped'
  <2>1. setCalls' \in [Calls -> SettingsSlot]
    BY <1>12, <1>a, SettingsSlotMoves DEF BreakSettingsCall, CanBreak
  <2>2. QED BY <1>12, <2>1, <1>a, <1>b DEF BreakSettingsCall, Alone
<1>13. ASSUME NEW c \in Calls, Expel(c) PROVE SettingsTyped'
  BY <1>13, <1>a, <1>b, SettingsSlotMoves, SettingsPageMoves
    DEF Expel, Leave, Alone, SettingsDialogs
<1>14. ASSUME NEW c \in Calls, SettleSettingsLoad(c) PROVE SettingsTyped'
  <2>1. ASSUME NEW ui \in PageOfSettings PROVE Unbusy(ui) \in PageOfSettings
    BY <2>1 DEF Unbusy, PageOfSettings, BusyWith
  <2>2. ASSUME NEW ui \in PageOfSettings, LoadEnds(c, ui)
        PROVE  settingsUI' \in PageOfSettings /\ setCalls' \in [Calls -> SettingsSlot]
    BY <2>1, <2>2, <1>a, SettingsSlotMoves DEF LoadEnds
  <2>3. CASE Got(c, "load") \/ Got(c, "reload")
    <3> DEFINE b == setCalls[c].ans = "on"
               ui == [settingsUI EXCEPT !.twoFA = b]
    <3>1. LoadEnds(c, ui) \/ LoadGoesOn(c, ui, None)
      BY <1>14, <2>3 DEF SettleSettingsLoad, Got, Reloads
    <3>2. b \in BOOLEAN
      OBVIOUS
    <3> HIDE DEF b
    <3>3. ui \in PageOfSettings
      BY <3>2, <1>a, SettingsPageMoves
    <3>4. Then[setCalls[c].op] \in SettingsOps \ (Forms \cup {"loadTemplates", "reloadTemplates"})
      BY <2>3, <1>c DEF Then, Got
    <3> HIDE DEF ui
    <3>5. Send(setCalls, c, Then[setCalls[c].op], None) \in [Calls -> SettingsSlot]
      BY <3>4, <1>a, SettingsSlotMoves
    <3>6. QED BY <1>14, <2>2, <3>1, <3>3, <3>5, <1>a, <1>b DEF LoadGoesOn, SettleSettingsLoad, Alone
  <2>4. CASE Got(c, "loadSmtp") \/ Got(c, "reloadSmtp")
    <3>1. LoadGoesOn(c, settingsUI, setCalls[c].ans)
      BY <1>14, <2>4 DEF SettleSettingsLoad, Got, Reloads
    <3>2. setCalls[c].ans \in Texts
      BY <2>4, <1>a DEF Got, SettingsFits
    <3>3. Then[setCalls[c].op] \in SettingsOps
      BY <2>4, <1>c DEF Then, Got
    <3>4. QED BY <1>14, <3>1, <3>2, <3>3, <1>a, <1>b, SettingsSlotMoves
      DEF LoadGoesOn, SettleSettingsLoad, Alone
  <2>5. CASE Got(c, "loadTemplates") \/ Got(c, "reloadTemplates")
    <3> DEFINE ui == [settingsUI EXCEPT !.form = [smtp |-> setCalls[c].arg, templates |-> setCalls[c].ans]]
    <3>1. LoadEnds(c, ui)
      BY <1>14, <2>5 DEF SettleSettingsLoad, Got, Reloads
    <3>2. setCalls[c].ans \in Texts /\ setCalls[c].arg \in Texts
      BY <2>5, <1>a DEF Got, SettingsFits
    <3>3. ui \in PageOfSettings
      BY <3>2, <1>a, SettingsPageMoves
    <3> HIDE DEF ui
    <3>4. QED BY <1>14, <2>2, <3>1, <3>3, <1>a, <1>b DEF SettleSettingsLoad, Alone
  <2>6. CASE LoadEnds(c, settingsUI)
    BY <1>14, <2>2, <2>6, <1>a, <1>b DEF SettleSettingsLoad, Alone
  <2>7. QED BY <1>14, <2>3, <2>4, <2>5, <2>6 DEF SettleSettingsLoad
<1>15. ASSUME NEW c \in Calls, SettleSetup(c) PROVE SettingsTyped'
  <2> DEFINE d == IF settingsUI.dialog = "gone" THEN settingsUI.dialog ELSE "qr"
  <2>1. d \in SettingsDialogs
    BY DEF SettingsDialogs
  <2>2. settingsUI' = [settingsUI EXCEPT !.busy = None, !.dialog = d]
    BY <1>15 DEF SettleSetup
  <2> HIDE DEF d
  <2>3. QED BY <1>15, <2>1, <2>2, <1>a, <1>b, SettingsSlotMoves, SettingsPageMoves DEF SettleSetup, Alone
<1>16. ASSUME NEW c \in Calls, SettleConfirm(c) PROVE SettingsTyped'
  <2> DEFINE d == IF settingsUI.dialog = "code" THEN "recovery" ELSE settingsUI.dialog
  <2>1. d \in SettingsDialogs /\ setCalls[c].ans \in Batches \cup {None}
    BY <1>16, <1>a DEF SettleConfirm, Got, SettingsFits, PageOfSettings, SettingsDialogs
  <2>2. settingsUI' = [settingsUI EXCEPT !.codes = setCalls[c].ans, !.dialog = d]
    BY <1>16 DEF SettleConfirm
  <2> HIDE DEF d
  <2>3. settingsUI' \in PageOfSettings
    BY <2>1, <2>2, <1>a, SettingsPageMoves
  <2>4. QED BY <1>16, <2>3, <1>a, <1>b, <1>c, SettingsSlotMoves DEF SettleConfirm, Alone
<1>17. ASSUME NEW c \in Calls, SettleStatus(c) PROVE SettingsTyped'
  <2> DEFINE b == setCalls[c].ans = "on"
  <2>1. b \in BOOLEAN /\ settingsUI' = [settingsUI EXCEPT !.busy = None, !.twoFA = b]
    BY <1>17 DEF SettleStatus
  <2> HIDE DEF b
  <2>2. QED BY <1>17, <2>1, <1>a, <1>b, SettingsSlotMoves, SettingsPageMoves DEF SettleStatus, Alone
<1>18. ASSUME NEW c \in Calls, SettleRemove(c) PROVE SettingsTyped'
  <2> DEFINE d == IF settingsUI.dialog = "remove" THEN "none" ELSE settingsUI.dialog
  <2>1. d \in SettingsDialogs
    BY <1>a DEF PageOfSettings, SettingsDialogs
  <2>2. settingsUI' = [settingsUI EXCEPT !.twoFA = FALSE, !.dialog = d]
    BY <1>18 DEF SettleRemove
  <2> HIDE DEF d
  <2>3. settingsUI' \in PageOfSettings
    BY <2>1, <2>2, <1>a, SettingsPageMoves
  <2>4. QED BY <1>18, <2>3, <1>a, <1>b, <1>c, SettingsSlotMoves DEF SettleRemove, Alone
<1>19. ASSUME NEW c \in Calls, SettleForm(c) PROVE SettingsTyped'
  <2>1. PICK f \in Forms : /\ Got(c, f)
                           /\ settingsUI' = [settingsUI EXCEPT !.busy = None, !.form[f] = setCalls[c].ans]
    BY <1>19 DEF SettleForm
  <2>2. setCalls[c].ans \in Texts
    BY <2>1, <1>a DEF Got, SettingsFits
  <2>3. QED BY <1>19, <2>1, <2>2, <1>a, <1>b, SettingsSlotMoves, SettingsPageMoves DEF SettleForm, Alone
<1>20. ASSUME NEW c \in Calls, SettleOther(c) PROVE SettingsTyped'
  BY <1>20, <1>a, <1>b, SettingsSlotMoves, SettingsPageMoves DEF SettleOther, Unbusy, Alone
<1>21. QED BY <1>1, <1>2, <1>3, <1>4, <1>5, <1>6, <1>7, <1>8, <1>9, <1>10, <1>11, <1>12, <1>13,
  <1>14, <1>15, <1>16, <1>17, <1>18, <1>19, <1>20 DEF SettingsNext

(* A step on one slot: a button pressed finds nothing else in flight, and    *)
(* busy is not cleared under another request.                                *)
LEMMA BusyMoves ==
  ASSUME SettingsInv, NEW c \in Calls,
         \A d \in Calls \ {c} : setCalls'[d] = setCalls[d],
         Pressed(c)' => /\ settingsUI'.busy # None
                        /\ Pressed(c) \/ \A d \in Calls : ~Pressed(d),
         settingsUI'.busy = settingsUI.busy \/ (\A d \in Calls \ {c} : ~Pressed(d))
  PROVE  BusyIsSet' /\ OnePressed'
<1>1. \A d \in Calls \ {c} : Pressed(d)' = Pressed(d)
  BY DEF Pressed
<1>2. QED BY <1>1 DEF SettingsInv, BusyIsSet, OnePressed

(* A step that leaves the row alone and opens no codes.                      *)
LEMMA CodesStay ==
  ASSUME SettingsInv, NEW c \in Calls, totp' = totp,
         \A d \in Calls \ {c} : setCalls'[d] = setCalls[d],
         settingsUI'.dialog = "recovery" =>
           /\ settingsUI.dialog = "recovery" /\ settingsUI'.codes = settingsUI.codes
           /\ Pressed(c)' => setCalls'[c].op = "status",
         setCalls'[c].op = "confirm" /\ setCalls'[c].at = "answered" /\ setCalls'[c].ans # None
           => totp = setCalls'[c].ans
  PROVE  CodesAreLast' /\ BatchIsTrue' /\ ShownCodesOpen'
<1>1. \A d \in Calls \ {c} : Pressed(d)' = Pressed(d)
  BY DEF Pressed
<1>2. QED BY <1>1 DEF SettingsInv, CodesAreLast, BatchIsTrue, ShownCodesOpen

LEMMA SettingsSafe ==
  ASSUME SettingsInv, SettingsTyped', [SettingsNext]_settingsVars
  PROVE  BusyIsSet' /\ OnePressed' /\ CodesAreLast' /\ BatchIsTrue' /\ ShownCodesOpen'
<1> DEFINE Goal == BusyIsSet' /\ OnePressed' /\ CodesAreLast' /\ BatchIsTrue' /\ ShownCodesOpen'
<1>a. /\ settingsUI \in PageOfSettings /\ setCalls \in [Calls -> SettingsSlot]
      /\ \A c \in Calls : SettingsFits(setCalls[c]) /\ setCalls[c] \in AnySettingsSlot
      /\ BusyIsSet /\ OnePressed /\ CodesAreLast /\ BatchIsTrue /\ ShownCodesOpen
  BY DEF SettingsInv, SettingsTyped, SettingsSlot
<1>b. ({"setup", "confirm", "status", "remove", "test"} \cup Forms \cup Reloads) \cap Loads = {}
  BY DEF Forms, Reloads, Loads
\* a request a button waits for is the only one, and no codes are shown but beside get2FA
<1>c. ASSUME NEW c \in Calls, Pressed(c)
      PROVE  /\ settingsUI.busy # None /\ \A d \in Calls \ {c} : ~Pressed(d)
             /\ setCalls[c].op # "status" => settingsUI.dialog # "recovery"
  BY <1>a, <1>c DEF BusyIsSet, OnePressed, CodesAreLast
<1>1. CASE UNCHANGED settingsVars
  BY <1>1, <1>a DEF settingsVars, BusyIsSet, OnePressed, CodesAreLast, BatchIsTrue, ShownCodesOpen,
    Pressed
<1>2. CASE \/ IScanned \/ CloseSetup \/ AskRemove2FA \/ CancelRemove2FA
           \/ \E f \in Forms, x \in Texts : EditForm(f, x)
  <2>1. /\ settingsUI'.busy = settingsUI.busy /\ settingsUI'.dialog # "recovery"
        /\ setCalls' = setCalls /\ totp' = totp
    BY <1>2, <1>a DEF IScanned, CloseSetup, AskRemove2FA, CancelRemove2FA, EditForm, Open, Alone,
      PageOfSettings
  <2>2. QED BY <2>1, <1>a DEF BusyIsSet, OnePressed, CodesAreLast, BatchIsTrue, ShownCodesOpen, Pressed
<1>3. ASSUME NEW c \in Calls, LoadSettings(c) \/ FinishSetup(c) PROVE Goal
  <2>1. /\ setCalls'[c].op = "load" /\ totp' = totp
        /\ \A d \in Calls \ {c} : setCalls'[d] = setCalls[d]
    BY <1>3, <1>a, SettingsSlotHolds DEF LoadSettings, FinishSetup, Alone
  <2>2. settingsUI'.busy = settingsUI.busy /\ settingsUI'.dialog = "none"
    BY <1>3, <1>a DEF LoadSettings, FinishSetup, PageOfSettings
  <2>3. ~Pressed(c)'
    BY <2>1 DEF Pressed, Loads
  <2>4. QED BY <2>1, <2>2, <2>3, BusyMoves, CodesStay
<1>4. ASSUME NEW c \in Calls, \/ StartSetup(c) \/ ConfirmSetup(c) \/ Remove2FA(c) \/ SendTest(c)
                              \/ \E f \in Forms : SaveForm(c, f)
      PROVE  Goal
  <2>1. PICK op \in {"setup", "confirm", "remove", "test"} \cup Forms, x \in Texts \cup {None},
             dialog \in {"none", "code", "remove"} :
               Begin(c, op, x) /\ Free(c, dialog) /\ Alone
    <3>1. \A f \in Forms : settingsUI.form[f] \in Texts
      BY <1>a DEF PageOfSettings
    <3>2. QED BY <1>4, <3>1 DEF StartSetup, ConfirmSetup, Remove2FA, SendTest, SaveForm
  <2>2. /\ setCalls'[c].op = op /\ setCalls'[c].at = "sent" /\ totp' = totp
        /\ \A d \in Calls \ {c} : setCalls'[d] = setCalls[d]
    BY <2>1, <1>a, SettingsSlotHolds DEF Begin, Alone
  <2>3. \A d \in Calls : ~Pressed(d)
    BY <2>1, <1>a DEF Free, BusyIsSet
  <2>4. settingsUI'.busy = op /\ settingsUI'.dialog = dialog
    BY <2>1, <1>a DEF Begin, Free, PageOfSettings
  <2>5. op # None
    BY SettingsAssumption DEF SettingsOps, Forms
  <2>6. QED BY <2>2, <2>3, <2>4, <2>5, BusyMoves, CodesStay
<1>5. ASSUME NEW c \in Calls, ServeRead(c) \/ ServeForm(c) PROVE Goal
  <2>1. /\ setCalls'[c].op = setCalls[c].op /\ setCalls[c].op # "confirm" /\ setCalls[c].at # "idle"
        /\ totp' = totp /\ settingsUI' = settingsUI
        /\ \A d \in Calls \ {c} : setCalls'[d] = setCalls[d]
    BY <1>5, <1>a, SettingsSlotHolds DEF ServeRead, ServeForm, Handling, Alone, Forms
  <2>2. Pressed(c)' => Pressed(c)
    BY <2>1 DEF Pressed
  <2>3. Pressed(c)' => /\ settingsUI'.busy # None
                       /\ settingsUI.dialog = "recovery" => setCalls'[c].op = "status"
    BY <2>1, <2>2, <1>c
  <2>4. QED BY <2>1, <2>2, <2>3, BusyMoves, CodesStay
<1>6. ASSUME NEW c \in Calls, ServeSetup(c) \/ ServeRemove(c) \/ WriteBatch(c) PROVE Goal
  <2>1. /\ setCalls[c].op \in {"setup", "remove", "confirm"} /\ setCalls[c].at = "sent"
        /\ settingsUI' = settingsUI
    BY <1>6 DEF ServeSetup, ServeRemove, WriteBatch, Handling
  <2>2. Pressed(c) /\ settingsUI.dialog # "recovery"
    BY <2>1, <1>b, <1>c DEF Pressed
  <2>3. /\ setCalls'[c].op = setCalls[c].op
        /\ \A d \in Calls \ {c} : setCalls'[d] = setCalls[d]
    BY <1>6, <1>a, SettingsSlotHolds DEF ServeSetup, ServeRemove, WriteBatch
  <2>4. setCalls'[c].op = "confirm" /\ setCalls'[c].at = "answered" => totp' = setCalls'[c].ans
    BY <1>6, <1>a, <2>1, <2>3, SettingsSlotHolds DEF ServeSetup, ServeRemove, WriteBatch, Handling
  <2>5. BusyIsSet' /\ OnePressed'
    BY <2>1, <2>2, <2>3, <1>c, BusyMoves
  <2>6. \A d \in Calls \ {c} : ~(setCalls'[d].op = "confirm" /\ setCalls'[d].at = "answered")
    BY <2>2, <2>3, <1>b, <1>c DEF Pressed
  <2>7. BatchIsTrue'
    BY <2>4, <2>6 DEF BatchIsTrue
  <2>8. CodesAreLast' /\ ShownCodesOpen'
    BY <2>1, <2>2 DEF CodesAreLast, ShownCodesOpen
  <2>9. QED BY <2>5, <2>7, <2>8
<1>7. ASSUME NEW c \in Calls, VerifyCode(c) PROVE Goal
  <2>1. /\ setCalls[c].op = "confirm" /\ setCalls[c].at = "sent"
        /\ totp' = totp /\ settingsUI' = settingsUI
    BY <1>7 DEF VerifyCode, Handling, Alone
  <2>2. Pressed(c) /\ settingsUI.dialog # "recovery"
    BY <2>1, <1>b, <1>c DEF Pressed
  <2>3. /\ \A d \in Calls \ {c} : setCalls'[d] = setCalls[d]
        /\ setCalls'[c].at = "answered" => setCalls'[c].ans = None
    <3>1. CASE totp = "pending"
      BY <1>7, <1>a, <2>1, <3>1 DEF VerifyCode, AnySettingsSlot, Slot
    <3>2. CASE totp # "pending"
      BY <1>7, <1>a, <3>2, SettingsSlotHolds DEF VerifyCode
    <3>3. QED BY <3>1, <3>2
  <2>4. QED BY <2>1, <2>2, <2>3, <1>c, BusyMoves, CodesStay
<1>8. ASSUME NEW c \in Calls, BreakSettingsCall(c) PROVE Goal
  <2>1. /\ setCalls[c].at # "idle" /\ totp' = totp /\ settingsUI' = settingsUI
        /\ setCalls'[c].at \in {"idle", "failed"}
        /\ setCalls'[c].at = "failed" => setCalls'[c].op = setCalls[c].op
        /\ \A d \in Calls \ {c} : setCalls'[d] = setCalls[d]
    BY <1>8, <1>a, SettingsSlotHolds DEF BreakSettingsCall, CanBreak, Alone
  <2>2. Pressed(c)' => Pressed(c) /\ setCalls'[c].op = setCalls[c].op
    BY <2>1 DEF Pressed
  <2>3. Pressed(c)' => /\ settingsUI'.busy # None
                       /\ settingsUI.dialog = "recovery" => setCalls'[c].op = "status"
    BY <2>1, <2>2, <1>c
  <2>4. QED BY <2>1, <2>2, <2>3, BusyMoves, CodesStay
<1>9. ASSUME NEW c \in Calls, Expel(c) PROVE Goal
  <2>1. /\ totp' = totp /\ setCalls'[c].at = "idle"
        /\ \A d \in Calls \ {c} : setCalls'[d] = setCalls[d]
        /\ settingsUI'.busy = settingsUI.busy /\ settingsUI'.dialog = "gone"
    BY <1>9, <1>a, SettingsSlotHolds DEF Expel, Leave, Alone, PageOfSettings
  <2>2. QED BY <2>1, BusyMoves, CodesStay DEF Pressed
<1>10. ASSUME NEW c \in Calls, SettleSettingsLoad(c) PROVE Goal
  <2>1. totp' = totp /\ setCalls[c].at # "idle" /\ setCalls[c].op \in Loads \cup Reloads
    BY <1>10 DEF SettleSettingsLoad, Alone, Got, Loads, Reloads
  <2>2. setCalls[c].op \in Reloads => Pressed(c)
    BY <2>1, <1>b DEF Pressed
  <2>3. /\ \A d \in Calls \ {c} : setCalls'[d] = setCalls[d]
        /\ \/ setCalls'[c].at = "idle"
           \/ setCalls[c].op \in Reloads /\ setCalls'[c].op \in Reloads /\ setCalls'[c].at = "sent"
           \/ setCalls'[c].op \in Loads
    BY <1>10, <1>a, SettingsSlotHolds
      DEF SettleSettingsLoad, LoadEnds, LoadGoesOn, Got, Then, Loads, Reloads
  <2>4. settingsUI'.dialog = settingsUI.dialog /\ settingsUI'.codes = settingsUI.codes
    BY <1>10, <1>a DEF SettleSettingsLoad, LoadEnds, LoadGoesOn, Unbusy, PageOfSettings
  <2>5. \/ settingsUI'.busy = settingsUI.busy
        \/ setCalls[c].op \in Reloads /\ setCalls'[c].at = "idle"
    BY <1>10, <1>a, SettingsSlotHolds DEF SettleSettingsLoad, LoadEnds, LoadGoesOn, PageOfSettings
  <2>6. Pressed(c)' => /\ setCalls[c].op \in Reloads /\ setCalls'[c].op \in Reloads
                       /\ Pressed(c) /\ settingsUI'.busy # None /\ settingsUI.dialog # "recovery"
    BY <2>2, <2>3, <2>5, <1>c DEF Pressed, Reloads
  <2>7. settingsUI'.busy = settingsUI.busy \/ (\A d \in Calls \ {c} : ~Pressed(d))
    BY <2>2, <2>5, <1>c
  <2>8. setCalls'[c].op = "confirm" => setCalls'[c].at # "answered"
    BY <2>3, <1>b DEF Reloads
  <2>9. QED BY <2>1, <2>3, <2>4, <2>6, <2>7, <2>8, BusyMoves, CodesStay
<1>11. ASSUME NEW c \in Calls, SettleSetup(c) PROVE Goal
  <2>1. setCalls[c].op = "setup" /\ setCalls[c].at = "answered" /\ totp' = totp
    BY <1>11 DEF SettleSetup, Got, Alone
  <2>2. \A d \in Calls \ {c} : ~Pressed(d)
    BY <2>1, <1>b, <1>c DEF Pressed
  <2>3. settingsUI'.dialog # "recovery"
    BY <1>11, <1>a DEF SettleSetup, PageOfSettings
  <2>4. setCalls'[c].at = "idle" /\ \A d \in Calls \ {c} : setCalls'[d] = setCalls[d]
    BY <1>11, <1>a, SettingsSlotHolds DEF SettleSetup
  <2>5. QED BY <2>1, <2>2, <2>3, <2>4, BusyMoves, CodesStay DEF Pressed
<1>12. ASSUME NEW c \in Calls, SettleConfirm(c) PROVE Goal
  <2>1. setCalls[c].op = "confirm" /\ setCalls[c].at = "answered" /\ totp' = totp
    BY <1>12 DEF SettleConfirm, Got, Alone
  <2>2. Pressed(c) /\ settingsUI.dialog # "recovery" /\ settingsUI.busy # None
        /\ \A d \in Calls \ {c} : ~Pressed(d)
    BY <2>1, <1>b, <1>c DEF Pressed
  <2>3. settingsUI'.busy = settingsUI.busy /\ settingsUI'.codes = setCalls[c].ans
    BY <1>12, <1>a DEF SettleConfirm, PageOfSettings
  <2>4. /\ setCalls'[c].op = "status" /\ setCalls'[c].at = "sent"
        /\ \A d \in Calls \ {c} : setCalls'[d] = setCalls[d]
    BY <1>12, <1>a, SettingsSlotHolds DEF SettleConfirm
  <2>5. BusyIsSet' /\ OnePressed'
    BY <2>2, <2>3, <2>4, BusyMoves
  <2>6. \A d \in Calls \ {c} : ~Pressed(d)'
    BY <2>2, <2>4 DEF Pressed
  <2>7. CodesAreLast'
    BY <2>4, <2>6 DEF CodesAreLast
  <2>8. BatchIsTrue'
    BY <2>4, <2>6, <1>b DEF BatchIsTrue, Pressed
  <2>9. ShownCodesOpen'
    BY <2>1, <2>3, <1>a DEF ShownCodesOpen, BatchIsTrue
  <2>10. QED BY <2>5, <2>7, <2>8, <2>9
<1>13. ASSUME NEW c \in Calls, SettleRemove(c) PROVE Goal
  <2>1. setCalls[c].op = "remove" /\ setCalls[c].at = "answered" /\ totp' = totp
    BY <1>13 DEF SettleRemove, Got, Alone
  <2>2. Pressed(c) /\ settingsUI.dialog # "recovery" /\ settingsUI.busy # None
    BY <2>1, <1>b, <1>c DEF Pressed
  <2>3. settingsUI'.busy = settingsUI.busy /\ settingsUI'.dialog # "recovery"
    BY <1>13, <2>2, <1>a DEF SettleRemove, PageOfSettings
  <2>4. /\ setCalls'[c].op = "reload"
        /\ \A d \in Calls \ {c} : setCalls'[d] = setCalls[d]
    BY <1>13, <1>a, SettingsSlotHolds DEF SettleRemove
  <2>5. QED BY <2>1, <2>2, <2>3, <2>4, BusyMoves, CodesStay
<1>14. ASSUME NEW c \in Calls, SettleStatus(c) \/ SettleForm(c) \/ SettleOther(c) PROVE Goal
  <2>1. setCalls[c].at \in {"answered", "failed"} /\ totp' = totp
    BY <1>14 DEF SettleStatus, SettleForm, SettleOther, Got, Alone
  <2>2. setCalls[c].op \notin Loads
    BY <1>14, <1>a, <1>b DEF SettleStatus, SettleForm, SettleOther, Got, SettingsFits
  <2>3. \A d \in Calls \ {c} : ~Pressed(d)
    BY <2>1, <2>2, <1>c DEF Pressed
  <2>4. settingsUI'.dialog = settingsUI.dialog /\ settingsUI'.codes = settingsUI.codes
    <3>1. CASE SettleForm(c)
      BY <1>a, <3>1 DEF SettleForm, PageOfSettings
    <3>2. CASE SettleStatus(c)
      BY <1>a, <3>2 DEF SettleStatus, PageOfSettings
    <3>3. CASE SettleOther(c)
      BY <1>a, <3>3 DEF SettleOther, Unbusy, PageOfSettings
    <3>4. QED BY <1>14, <3>1, <3>2, <3>3
  <2>5. setCalls' = End(setCalls, c)
    BY <1>14 DEF SettleStatus, SettleForm, SettleOther
  <2>6. setCalls'[c].at = "idle" /\ \A d \in Calls \ {c} : setCalls'[d] = setCalls[d]
    BY <2>5, <1>a, SettingsSlotHolds
  <2>7. QED BY <2>1, <2>3, <2>4, <2>6, BusyMoves, CodesStay DEF Pressed
<1>15. QED BY <1>1, <1>2, <1>3, <1>4, <1>5, <1>6, <1>7, <1>8, <1>9, <1>10, <1>11, <1>12, <1>13,
  <1>14 DEF SettingsNext

LEMMA SettingsInvariant == SettingsSpec => []SettingsInv
<1>1. SettingsInit => SettingsInv
  <2> SUFFICES ASSUME SettingsInit PROVE SettingsInv
    OBVIOUS
  <2>1. Idle \in SettingsSlot
    BY DEF Idle, SettingsSlot, AnySettingsSlot, SettingsFits, Slot, Places
  <2>2. SettingsTyped
    BY <2>1, SettingsAssumption
      DEF SettingsInit, SettingsTyped, PageOfSettings, BusyWith, SettingsDialogs
  <2>3. \A c \in Calls : setCalls[c].at = "idle"
    BY DEF SettingsInit, Idle
  <2>4. settingsUI.dialog = "none"
    BY DEF SettingsInit
  <2>5. QED BY <2>2, <2>3, <2>4 DEF SettingsInv, BusyIsSet, OnePressed, CodesAreLast, BatchIsTrue,
    ShownCodesOpen, Pressed
<1>2. SettingsInv /\ [SettingsNext]_settingsVars => SettingsInv'
  <2> SUFFICES ASSUME SettingsInv, [SettingsNext]_settingsVars PROVE SettingsInv'
    OBVIOUS
  <2>1. SettingsTyped'
    BY SettingsTypeHolds DEF SettingsInv
  <2>2. QED BY <2>1, SettingsSafe DEF SettingsInv
<1>3. QED BY <1>1, <1>2, PTL DEF SettingsSpec

(* Types of the enrolment, the mail settings, the page and its requests, for *)
(* any batches, texts and requests in flight.                                *)
THEOREM SettingsTypeCorrect == SettingsSpec => []SettingsTypeOK
<1>1. SettingsInv => SettingsTypeOK
  BY DEF SettingsInv, SettingsTyped, SettingsTypeOK, PageOfSettings, BusyWith, SettingsDialogs,
    SettingsSlot, AnySettingsSlot
<1>2. QED BY <1>1, SettingsInvariant, PTL

(* The busy flag of SettingsPage.tsx is enough: with any number of requests  *)
(* in flight, the recovery codes on the screen are the row's.                *)
THEOREM CodesOpenAccount == SettingsSpec => []ShownCodesOpen
<1>1. SettingsInv => ShownCodesOpen
  BY DEF SettingsInv
<1>2. QED BY <1>1, SettingsInvariant, PTL
=============================================================================
