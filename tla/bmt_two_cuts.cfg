SPECIFICATION Spec
CONSTANTS
  SystemBlockCount = 2
  BmtBlockCount = 4
  PagePerBlock = 1
  Data = {d1, d2}
  FF = FF
  CountModulus = 256
  FaultKinds = {"program", "erase"}
  CutAt <- Anywhere
  MaxFaults = 2
  FaultCost = 1
  MaxCuts = 2
  MaxFactoryBad = 0
SYMMETRY Symmetry
INVARIANTS StoredTablesDisjoint BmtBlockGood
PROPERTIES StoreSpec
