\* Two commands in a row, killed anywhere, from three different homes.
CONSTANTS
  temp = temp
  data = data
  chain = chain
  other = other
  git = git
  keys = keys
  ipfs = ipfs
  spare = spare
  default = default
  settings = settings
  head = head
  mine = mine
  Boxes = {temp, data, chain, other}
  Labelled = {temp, data, chain}
  Temp = temp
  Kept = data
  Files = {git, keys, ipfs, spare, default, settings, head, mine}
  Git = git
  KeysFile = keys
  IpfsFile = ipfs
  SpareFile = spare
  DefaultFile = default
  ChainDir = settings
  HeadFile = head
  Homes <- ThreeHomes
  Payload <- Archive
  InitOptions <- SomeInit
  CleanOptions <- SomeClean
  MaxOutput = 1
  MaxCommands = 2
SPECIFICATION FairSpec
INVARIANTS TypeOK CopyAfterStart
PROPERTIES InterruptEnds ExportWhole ExportEnds MigrationKeepsFiles SetupOkIsTrue CleanInOrder
CHECK_DEADLOCK FALSE
