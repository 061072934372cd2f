\* Two processes; any call may fail and any process may be killed.
CONSTANTS
  a = a
  b = b
  p1 = p1
  p2 = p2
  Shorts = {a, b}
  Numbers = {1}
  Links <- NoLinks
  Procs = {p1, p2}
  Invocations <- FaultCmds
  MaxInvocations = 4
  Faults = TRUE
  Kills = TRUE
SPECIFICATION Spec
INVARIANTS TempOwned TempExclusive
PROPERTIES TempDiesWithOwner NoCollateral RemovalTried OkDespiteErrors
CHECK_DEADLOCK FALSE
