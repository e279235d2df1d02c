SPECIFICATION DrawerSpec
CONSTANTS
  None = None
  Calls = {c1, c2}
  Lanes = {servers, providers}
  Choices = {all, some}
  All = all
  Licensed = TRUE
INVARIANT PolicyEnforced
CHECK_DEADLOCK FALSE
