SPECIFICATION FairSpec
CONSTANTS
  NumPages = 2
  PagesPerBlock = 1
  Data = {d1, d2}
  Blank = Blank
  Spoiled = Spoiled
  Marked = Marked
  RetryCnt = 3
  Beyond = {1}
  use_randomizer = TRUE
  Families = {"MICRON", "SANDISK_19NM", "TOSHIBA"}
INVARIANTS SettingsRestored StatisticsTellFailure
PROPERTIES PageSpec ReadReturns
CHECK_DEADLOCK FALSE
