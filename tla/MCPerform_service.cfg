\* Two processes on a service and its data, and a bystander.
CONSTANTS
  a = a
  b = b
  p1 = p1
  p2 = p2
  Shorts = {a, b}
  Numbers = {1}
  Links <- NoLinks
  Procs = {p1, p2}
  Invocations <- ServiceCmds
  MaxInvocations = 4
  Faults = FALSE
  Kills = FALSE
SPECIFICATION Spec
INVARIANTS TypeOK TempHasOwner
PROPERTIES OkIsTrue DataKept StaysAttached
CHECK_DEADLOCK FALSE
