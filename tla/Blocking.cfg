SPECIFICATION BothSpec
CONSTANTS
  main = main
  other = other
  Worker = Worker
  Thread = {main, other}
  Kinds = {"recv", "connect"}
  Asks = {TRUE, FALSE}
  Working = TRUE
  MaxCount = 1
  h1 = h1
  h2 = h2
  Handle = {h1, h2}
  MaxLookups = 2
INVARIANTS BlockingWaits ModeKept
PROPERTIES CallsEnd LookupTold
CHECK_DEADLOCK FALSE
