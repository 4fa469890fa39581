SPECIFICATION Spec
CONSTANTS
  SystemBlockCount = 2
  BmtBlockCount = 3
  PagePerBlock = 1
  Data = {d1, d2}
  FF = FF
  CountModulus = 256
  FaultKinds = {"mark"}
  CutAt <- Anywhere
  MaxFaults = 2
  FaultCost = 1
  MaxCuts = 3
  MaxFactoryBad = 1
SYMMETRY Symmetry
INVARIANTS PowerInv
PROPERTIES StoreSpec
