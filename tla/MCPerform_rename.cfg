\* Renaming a data container.
CONSTANTS
  a = a
  b = b
  p1 = p1
  p2 = p2
  Shorts = {a, b}
  Numbers = {1}
  Links <- NoLinks
  Procs = {p1}
  Invocations <- DataRenameCmds
  MaxInvocations = 2
  Faults = FALSE
  Kills = FALSE
SPECIFICATION Spec
PROPERTIES RenameKeepsVolumes
CHECK_DEADLOCK FALSE
