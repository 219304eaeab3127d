SPECIFICATION Spec
CONSTANTS
  game = game
  tool = tool
  main = main
  worker = worker
  other = other
  Process = {game}
  Thread = {main, worker}
  ProcOf <- MCProcOf
  Size = {1}
  ParamSize = 1
  MaxSlots = 5
  NoSlot = NoSlot
  NoCall = NoCall
  MaxCalls = 2
  Requests = {"select", "recvfrom"}
  MaxAbandon = 1
  MaxRestart = 0
INVARIANTS OwnAnswer
SYMMETRY Alike
CHECK_DEADLOCK FALSE
