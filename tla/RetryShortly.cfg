CONSTANTS
  c1 = c1  c2 = c2  c3 = c3  c4 = c4
  Clients = {c1, c2}
  Threshold = 2
  OAuth = TRUE
SPECIFICATION Spec
PROPERTIES RetryShortly
