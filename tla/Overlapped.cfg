SPECIFICATION Spec
CONSTANTS
  s1 = s1
  o1 = o1
  o2 = o2
  NoSocket = NoSocket
  Socket = {s1}
  Overlapped = {o1, o2}
  Programs <- MCPrograms
  MaxOps = 3
  MaxData = 2
INVARIANTS ReadsInOrder ToldMeansDone
PROPERTIES OpsEnd
CHECK_DEADLOCK FALSE
