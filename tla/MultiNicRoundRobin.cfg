CONSTANTS
  c1 = c1 c2 = c2 c3 = c3 k1 = k1 k2 = k2 a1 = a1 a2 = a2 lo = lo
  Conns = {c1, c2}
  Addresses = {a1, a2}
  Loopback = lo
  Machines <- OneMachine
  Stray = Stray
  Default = Default
  NoSocket = NoSocket
  MaxRead = 2
  NotString = NotString
  NoValue = NoValue
  Keys = {k1}
  KeyOf <- OneStore
  Files <- FiveFiles
  Envs <- ThreeEnvs
  NoCall = NoCall
  MaxSignals = 1
  Opening = {c1, c2}
SPECIFICATION Spec
CHECK_DEADLOCK FALSE
INVARIANT RoundRobinSelection
