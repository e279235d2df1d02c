---------------------------- MODULE MCDashboard ----------------------------
EXTENDS Dashboard, TLC

CONSTANTS c1, c2,   \* slots
          x1, x2    \* a pair of anything

Slots == {c1, c2}
Pair == {x1, x2}

\* the view: what is kept of the pages that are not open never changes
OpenPage ==
  <<page, CASE page = "keys" -> keysVars
            [] page = "drawer" -> drawerVars
            [] page = "login" -> loginVars
            [] page = "members" -> membersVars
            [] page = "join" -> joinVars
            [] page = "settings" -> settingsVars
            [] page = "wizard" -> wizardVars
            [] page = "providers" -> providersVars
            [] page = "servers" -> tableVars
            [] page = "signin" -> signVars
            [] page = "bell" -> bellVars
            [] page = "oauth" -> oauthVars>>

Symmetry == Permutations(Slots) \cup Permutations(Pair)
=============================================================================
