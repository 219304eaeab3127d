SPECIFICATION BothSpec
CONSTANTS
  main = main
  other = other
  Worker = Worker
  Thread = {main}
  Kinds = {"recv"}
  Asks = {TRUE, FALSE}
  Working = FALSE
  MaxCount = 1
  h1 = h1
  h2 = h2
  Handle = {h1, h2}
  MaxLookups = 2
INVARIANTS ServerFree
CHECK_DEADLOCK FALSE
