SPECIFICATION PoolSpec
CONSTANTS
  game = game
  main = main
  worker = worker
  Process = {game}
  Thread = {main, worker}
  ProcOf <- MCProcOf
  Size = {1, 2}
  ParamSize = 1
  MaxSlots = 9
  NoSlot = NoSlot
INVARIANTS ExclusiveSlots PoolBounded
PROPERTY FreshNames
