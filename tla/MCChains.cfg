\* One process on chains alpha and beta, another on chain gamma and the HEAD file.
CONSTANTS
  alpha = alpha
  beta = beta
  gamma = gamma
  p1 = p1
  p2 = p2
  Default = default
  Keys = keys
  ChainNames = {alpha, beta, gamma, default}
  Shorts = {alpha, beta, gamma, default, keys}
  Numbers = {1}
  Links <- LinksToKeys
  Procs = {p1, p2}
  Commands <- TwoProcesses
  MaxCommands = 3
  MaxHead = 2
SPECIFICATION Spec
INVARIANTS TypeOK Reachable HeadBounded
PROPERTIES NewAllOrNothing RenameMoves ChainsIndependent GenesisSparesRunning OkIsTrue
CHECK_DEADLOCK FALSE
