\* One process, which makes a chain.
CONSTANTS
  alpha = alpha
  beta = beta
  gamma = gamma
  p1 = p1
  p2 = p2
  Default = default
  Keys = keys
  ChainNames = {alpha, beta, gamma, default}
  Shorts = {alpha, beta, gamma, default, keys}
  Numbers = {1}
  Links <- LinksToKeys
  Procs = {p1}
  Commands <- NewOnly
  MaxCommands = 3
  MaxHead = 2
SPECIFICATION Spec
PROPERTY NewCleansUp
CHECK_DEADLOCK FALSE
