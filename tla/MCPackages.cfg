\* Services, packages and actions by one process; another works on the HEAD file.
CONSTANTS
  keys = keys
  api = api
  web = web
  net = net
  old = old
  t1 = t1
  p1 = p1
  p2 = p2
  Keys = keys
  App = app
  ServiceNames = {keys, api, web}
  ChainNames = {net, old, t1}
  KnownChains = {net}
  ThrowAways = {t1}
  Shorts = {keys, api, web, net, old, t1, app}
  Numbers = {1}
  Links <- NoLinks
  InitDefs <- FirstDefs
  Drafts <- SomeDrafts
  Procs = {p1, p2}
  Commands <- TwoProcesses
  MaxCommands = 3
  MaxDepth = 4
SPECIFICATION Spec
INVARIANTS TypeOK GroupInOrder ChainsFirst ContainersKnown
PROPERTIES OverflowOnCycle ServiceOkIsTrue OthersAlone CleanUpSparesOthers RunningSpared ThrowAwayGone
CHECK_DEADLOCK FALSE
