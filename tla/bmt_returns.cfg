SPECIFICATION FairSpec
CONSTANTS
  SystemBlockCount = 1
  BmtBlockCount = 3
  PagePerBlock = 1
  Data = {d1}
  FF = FF
  CountModulus = 256
  FaultKinds = {"program", "erase"}
  CutAt <- Anywhere
  MaxFaults = 1
  FaultCost = 0
  MaxCuts = 1
  MaxFactoryBad = 1
INVARIANTS TypeOK
PROPERTIES Returns
