\* One process, killed at any point, that starts its service again.
CONSTANTS
  a = a
  b = b
  p1 = p1
  p2 = p2
  Shorts = {a, b}
  Numbers = {1}
  Links <- NoLinks
  Procs = {p1}
  Invocations <- KillCmds
  MaxInvocations = 4
  Faults = FALSE
  Kills = TRUE
SPECIFICATION FairSpec
PROPERTIES StartRecovers CommandsEnd
CHECK_DEADLOCK FALSE
