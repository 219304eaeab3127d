SPECIFICATION Spec
CONSTANTS
  game = game
  tool = tool
  main = main
  worker = worker
  other = other
  Process = {game, tool}
  Thread = {main, worker, other}
  ProcOf <- MCProcOf
  Size = {1}
  ParamSize = 1
  MaxSlots = 4
  NoSlot = NoSlot
  NoCall = NoCall
  MaxCalls = 1
  Requests = {"recvfrom"}
  MaxAbandon = 0
  MaxRestart = 0
PROPERTIES CallReturns
CHECK_DEADLOCK FALSE
