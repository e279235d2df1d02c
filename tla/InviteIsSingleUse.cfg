SPECIFICATION JoinSpec
CONSTANTS
  None = None
  Calls = {c1}
  Invites = {i1}
  Joiners = {j1, j2}
  Seats = 3
  MaxPending = 1
INVARIANT InviteIsSingleUse
CHECK_DEADLOCK FALSE
