SPECIFICATION Spec
CONSTANTS
  s1 = s1
  s2 = s2
  main = main
  other = other
  p = p
  q = q
  Thread = {main, other}
  Socket = {s1, s2}
  Peer = {p}
  Fallback = {q}
  Programs <- MCPrograms
  Readiness <- MCReadiness
  NoThread = NoThread
  NoRequest = NoRequest
  NoAnswer = NoAnswer
  Failed = Failed
INVARIANTS NoSocketLost
PROPERTIES SelectKeepsContract OthersGetThrough
