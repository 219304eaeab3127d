SPECIFICATION Spec
CONSTANTS
  game = game
  tool = tool
  main = main
  worker = worker
  other = other
  Process = {game, tool}
  Thread = {main, worker, other}
  ProcOf <- MCProcOf
  Size = {1}
  ParamSize = 1
  MaxSlots = 4
  NoSlot = NoSlot
  NoCall = NoCall
  MaxCalls = 1
  Requests = {"sendto", "cleanup"}
  MaxAbandon = 1
  MaxRestart = 1
INVARIANTS OwnAnswer OwnParameters
SYMMETRY Alike
CHECK_DEADLOCK FALSE
