SPECIFICATION DashboardSpec
CONSTANTS
  None = None
  Nil = Nil
  c1 = c1
  c2 = c2
  x1 = x1
  x2 = x2
  Calls <- Slots
  Keys <- Pair
  Editable <- Pair
  Lanes <- Pair
  Choices = {all, some}
  All = all
  Licensed = TRUE
  Tickets <- Pair
  RecoveryCodes = {r1}
  MaxAttempts = 2
  Admins <- Pair
  Others = {}
  Invites <- Pair
  Joiners <- Pair
  Seats = 3
  MaxPending = 2
  Batches <- Pair
  Texts = {t1, t2}
  Default = t1
  Sites <- Pair
  WizardKeys <- Pair
  MaxProviders = 1
  MaxRoutes = 3
  MaxNames = 2
  Servers <- Pair
  Upstreams <- Pair
  UserCodes <- Pair
  Events = {e1, e2, e3}
  AutoKills = {e1, e2}
  Callers <- Slots
  Signins <- Pair
  MaxTokens = 3
INVARIANTS
  DashboardTypeOK
  SaveRepairs
  TicketOpensOneSession
  RecoveryCodeSpentOnce
  AdminRemains
  InviteOpensOneSession
  ShownCodesOpen
  ConfigurationWorks
  FallbacksEnd
  TableAgrees
  DialogIsTrue
  BadgeAgrees
  ReplayOnlyAfterLoss
PROPERTY
  RevealBeforeDiscard
SYMMETRY Symmetry
VIEW OpenPage
CHECK_DEADLOCK FALSE
