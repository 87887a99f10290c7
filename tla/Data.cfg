SPECIFICATION DataSpec
CONSTANTS
  Vars <- MCVars
  Devs = {"com1"}
  Unit <- MCUnit
  Places <- MCPlaces
  RegMod = 8
  MaxSize = 4
  Slaves = 1
  MaxOps = 2
  Lines = 2
  Limit = 2
  DelNum = 1
  MaxItems = 5
  NVars = 3
  Nids = {1, 2}
  FrameSize = 1
INVARIANTS TransactionKnown CloseKeeps ChainCovers PortExclusive
PROPERTIES Durable ImplementsLog PassComplete EngineCollects RoundComplete
CHECK_DEADLOCK FALSE
