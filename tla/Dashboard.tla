----------------------------- MODULE Dashboard -----------------------------
(***************************************************************************)
(* The dashboard: one page at a time is open, the others rest.  Pages have *)
(* no React state in common: each loads what it shows when it is mounted,  *)
(* so a visit to a page is a behaviour of its module, whatever was visited *)
(* before.  "oauth" is what goes on behind the servers page.               *)
(***************************************************************************)
EXTENDS KeysPage, KeyDrawer, LoginPage, MembersPage, JoinPage, SettingsPage,
        SetupWizard, ProvidersPage, ServersPage, SignIn, ActivityBell, UpstreamOAuth

VARIABLE page   \* the page that is open

Pages == {"keys", "drawer", "login", "members", "join", "settings", "wizard", "providers", "servers", "signin", "bell", "oauth"}

DashboardTypeOK ==
  CASE page = "keys" -> KeysTypeOK
    [] page = "drawer" -> DrawerTypeOK
    [] page = "login" -> LoginTypeOK
    [] page = "members" -> MembersTypeOK
    [] page = "join" -> JoinTypeOK
    [] page = "settings" -> SettingsTypeOK
    [] page = "wizard" -> WizardTypeOK
    [] page = "providers" -> ProvidersTypeOK
    [] page = "servers" -> TableTypeOK
    [] page = "signin" -> SignInTypeOK
    [] page = "bell" -> BellTypeOK
    [] page = "oauth" -> OAuthTypeOK

\* the rows behind a page that is not open are of no interest: any will do
DashboardInit ==
  /\ page \in Pages
  /\ KeysInit /\ (page = "keys" \/ keyRow = [k \in Keys |-> "none"])
  /\ DrawerInit /\ (page = "drawer" \/ laneRow = [l \in Lanes |-> All])
  /\ LoginInit
  /\ MembersInit
  /\ JoinInit
  /\ SettingsInit /\ (page = "settings" \/ (totp = "absent" /\ mail = [f \in Forms |-> Default]))
  /\ WizardInit
  /\ ProvidersInit
  /\ TableInit /\ (page = "servers" \/ serverRow = [s \in Servers |-> "on"])
  /\ SignInInit
  /\ BellInit /\ (page = "bell" \/ logged = {})
  /\ OAuthInit

DashboardNext ==
  /\ page' = page
  /\ IF page = "keys" THEN TRUE ELSE UNCHANGED keysVars
  /\ IF page = "drawer" THEN TRUE ELSE UNCHANGED drawerVars
  /\ IF page = "login" THEN TRUE ELSE UNCHANGED loginVars
  /\ IF page = "members" THEN TRUE ELSE UNCHANGED membersVars
  /\ IF page = "join" THEN TRUE ELSE UNCHANGED joinVars
  /\ IF page = "settings" THEN TRUE ELSE UNCHANGED settingsVars
  /\ IF page = "wizard" THEN TRUE ELSE UNCHANGED wizardVars
  /\ IF page = "providers" THEN TRUE ELSE UNCHANGED providersVars
  /\ IF page = "servers" THEN TRUE ELSE UNCHANGED tableVars
  /\ IF page = "signin" THEN TRUE ELSE UNCHANGED signVars
  /\ IF page = "bell" THEN TRUE ELSE UNCHANGED bellVars
  /\ IF page = "oauth" THEN TRUE ELSE UNCHANGED oauthVars
  /\ \/ page = "keys" /\ KeysNext
     \/ page = "drawer" /\ DrawerNext
     \/ page = "login" /\ LoginNext
     \/ page = "members" /\ MembersNext
     \/ page = "join" /\ JoinNext
     \/ page = "settings" /\ SettingsNext
     \/ page = "wizard" /\ WizardNext
     \/ page = "providers" /\ ProvidersNext
     \/ page = "servers" /\ TableNext
     \/ page = "signin" /\ SignInNext
     \/ page = "bell" /\ BellNext
     \/ page = "oauth" /\ OAuthNext

dashboardVars == <<page, keysVars, drawerVars, loginVars, membersVars, joinVars, settingsVars, wizardVars, providersVars, tableVars, signVars, bellVars, oauthVars>>

DashboardSpec == DashboardInit /\ [][DashboardNext]_dashboardVars
=============================================================================
