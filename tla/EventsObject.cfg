SPECIFICATION Spec
CONSTANTS
  a = a
  main = main
  other = other
  event = event
  window = window
  NoTarget = NoTarget
  NoContext = NoContext
  Socket = {a}
  Thread = {main}
  Event = {event}
  Window = {}
  Roles = {"listener", "peer"}
  Interest <- Mixed
  Backend = "ws2_32"
  Disciplined = TRUE
  Registers = FALSE
  Reuses = FALSE
  MaxCount = 3
PROPERTIES WaitingAnnounced
CHECK_DEADLOCK FALSE
