\* An update detaches the data container.
CONSTANTS
  a = a
  b = b
  p1 = p1
  p2 = p2
  Shorts = {a, b}
  Numbers = {1}
  Links <- NoLinks
  Procs = {p1}
  Invocations <- UpdateCmds
  MaxInvocations = 3
  Faults = FALSE
  Kills = FALSE
SPECIFICATION Spec
PROPERTIES UpdateSparesData
CHECK_DEADLOCK FALSE
