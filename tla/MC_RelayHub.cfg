SPECIFICATION Spec
CONSTANTS
  i1 = i1
  i2 = i2
  a1 = a1
  a2 = a2
  m1 = m1
  None = 0
  Conns = {1, 2, 3}
  Ids = {i1, i2}
  Accounts = {a1, a2}
  Machines = {m1}
  Wrappers = {1, 2}
  Id <- MCId
  Account <- MCAccount
  Host <- MCHost
  Machine <- MCMachine
  MaxClients = 1
  MaxNamed = 1
  MaxCommands <- MCCommands
  MaxEvents = 2
INVARIANTS Bookkeeping NoHole WrapperKnown
PROPERTIES Fenced SlotsFreed
CHECK_DEADLOCK FALSE
