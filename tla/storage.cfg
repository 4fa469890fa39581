\* One part at a time.  The card: two delays, one retry at each level, two
\* faults of a transfer or of the initialisation.  The SPI flash: three sectors;
\* each fault is one command, wait or change of mode, or a
\* reset.  The partition table: two faults of the flash, two losses of power.
\* Deadlock is not checked: once U-Boot has its partition table nothing is left.
SPECIFICATION StorageSpec
CONSTANTS
  Delays = 2
  CmdRetries = 1
  AppRetries = 1
  Faults = 1
  NBlks = 16
  MaxBlks = 8
  TuneSteps = 2
  BlockFaults = 2
  Starts = {0, 16}
  Counts = {1, 12}
  InitFaults = 2
  CardTypes <- MCCardTypes
  Total = 6
  Sec = 2
  Buf = 2
  NorCalls <- MCNorCalls
  NorFaults = 2
  P = 4
  RETRY_TIMES = 2
  Tables <- MCTables
  Compiled <- MCCompiled
  Flashes <- MCFlashes
  PmtFaults = 2
  PmtCuts = 2
INVARIANTS StorageTypeOK CommandTruth CallsTellTruth InitAgrees CallsAreDone TableIsNewest TableIsStored
PROPERTIES KeepsWhatWorks RestartRecovers OthersStay CopiesSurvive StorageReturns
CHECK_DEADLOCK FALSE
