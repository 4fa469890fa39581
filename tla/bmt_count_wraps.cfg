SPECIFICATION Spec
CONSTANTS
  SystemBlockCount = 3
  BmtBlockCount = 4
  PagePerBlock = 1
  Data = {d1, d2}
  FF = FF
  CountModulus = 2
  FaultKinds = {"program", "erase"}
  CutAt <- Anywhere
  MaxFaults = 3
  FaultCost = 1
  MaxCuts = 0
  MaxFactoryBad = 0
SYMMETRY Symmetry
PROPERTIES CountGrows
