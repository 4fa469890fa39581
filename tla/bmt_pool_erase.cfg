SPECIFICATION Spec
CONSTANTS
  SystemBlockCount = 1
  BmtBlockCount = 3
  PagePerBlock = 1
  Data = {d1, d2}
  FF = FF
  CountModulus = 256
  FaultKinds = {"program", "erase"}
  CutAt <- Anywhere
  MaxFaults = 1
  FaultCost = 1
  MaxCuts = 1
  MaxFactoryBad = 0
SYMMETRY Symmetry
PROPERTIES PoolEraseSparesBmt
