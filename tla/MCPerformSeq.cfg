\* One process, every kind of command, no disturbance.
CONSTANTS
  a = a
  b = b
  p1 = p1
  Shorts = {a, b}
  Numbers = {1}
  Links <- NoLinks
  Procs = {p1}
  Invocations <- AllCmds
  MaxInvocations = 5
  Faults = FALSE
  Kills = FALSE
  Volumes <- ManyVolumes
SPECIFICATION SeqSpec
PROPERTY ImplementsLifecycle
CHECK_DEADLOCK FALSE
