\* mtk_mmc.c:90-96: block 0 is taken for read when its command timed out.
CONSTANTS
  NBlks = 16
  MaxBlks = 8
  TuneSteps = 2
  BlockFaults = 2
  Starts = {0}
  Counts = {1}
SPECIFICATION BlockSpec
INVARIANTS FirstBlockRead
