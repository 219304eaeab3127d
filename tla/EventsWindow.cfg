SPECIFICATION Spec
CONSTANTS
  a = a
  main = main
  other = other
  event = event
  window = window
  NoTarget = NoTarget
  NoContext = NoContext
  Socket = {a}
  Thread = {main, other}
  Event = {}
  Window = {window}
  Roles = {"client"}
  Interest <- Mixed
  Backend = "zero-tier"
  Disciplined = TRUE
  Registers = TRUE
  Reuses = FALSE
  MaxCount = 1
INVARIANTS ConnectTruth NothingHeldBack
PROPERTIES ConnectionAnnounced
CHECK_DEADLOCK FALSE
