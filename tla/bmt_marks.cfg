SPECIFICATION Spec
CONSTANTS
  SystemBlockCount = 3
  BmtBlockCount = 2
  PagePerBlock = 1
  Data = {d1, d2}
  FF = FF
  CountModulus = 256
  FaultKinds = {"program", "erase", "mark"}
  CutAt <- Anywhere
  MaxFaults = 2
  FaultCost = 1
  MaxCuts = 1
  MaxFactoryBad = 1
SYMMETRY Symmetry
INVARIANTS IInv PoolDisjoint TableFits
