\* One interactive exec.
CONSTANTS
  temp = temp
  data = data
  chain = chain
  other = other
  git = git
  keys = keys
  ipfs = ipfs
  spare = spare
  default = default
  settings = settings
  head = head
  mine = mine
  Boxes = {temp, data, chain, other}
  Labelled = {temp, data, chain}
  Temp = temp
  Kept = data
  Files = {git, keys, ipfs, spare, default, settings, head, mine}
  Git = git
  KeysFile = keys
  IpfsFile = ipfs
  SpareFile = spare
  DefaultFile = default
  ChainDir = settings
  HeadFile = head
  Homes <- ThreeHomes
  Payload <- Archive
  InitOptions <- SomeInit
  CleanOptions <- SomeClean
  MaxOutput = 1
  MaxCommands = 1
SPECIFICATION FairSpec
PROPERTY SignalDropsOut
CHECK_DEADLOCK FALSE
