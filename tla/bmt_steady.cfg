SPECIFICATION Spec
CONSTANTS
  SystemBlockCount = 2
  BmtBlockCount = 3
  PagePerBlock = 1
  Data = {d1, d2}
  FF = FF
  CountModulus = 256
  FaultKinds = {"program", "erase"}
  CutAt = {}
  MaxFaults = 3
  FaultCost = 1
  MaxCuts = 0
  MaxFactoryBad = 1
SYMMETRY Symmetry
INVARIANTS SteadyInv
PROPERTIES StoreSpec
