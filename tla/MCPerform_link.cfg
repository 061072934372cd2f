\* A linked container answers for its stopped parent.
CONSTANTS
  a = a
  b = b
  p1 = p1
  p2 = p2
  Shorts = {a, b}
  Numbers = {1}
  Links <- BLinksA
  Procs = {p1}
  Invocations <- LinkedCmds
  MaxInvocations = 3
  Faults = FALSE
  Kills = FALSE
SPECIFICATION Spec
INVARIANTS LookupIsExact
CHECK_DEADLOCK FALSE
