\* Two calls for a pin; three turns of the timer's counter; one access to the
\* switch and two commands to the card fail; two sectors of spare area.
\* Deadlock is not checked: a part that has made its calls stops.
SPECIFICATION BoardSpec
CONSTANTS
  GpioCalls = 1
  GptSpan = 96
  Count = 32
  UsTick = 2
  MsTick = 6
  Pause = 3
  LaneCount = 2
  Taps = 16
  CkSteps <- MCSteps
  CkEnd = 12
  Skip = 2
  Windows <- MCWindows
  Bauds = {1200, 9600, 38400, 57600, 115200, 230400, 460800, 921600}
  UartRoom = 2
  MaxSecs = 3
  Pages = {0, 1}
  Half = {0, 1}
  Junk = Junk
  Writes <- MCWrites
  LostMdio = 1
  NandSectors = 2
  RegFaults = 1
  BlkSizes = {0, 1, 3, 4}
  ImgSizes = {1, 2, 4, 7, 15}
  Modulus = 16
INVARIANTS AccessesTrue NetworkInv NandInv FiguresRight BoardPartsInv BootInv
PROPERTIES StepsAllowed BoardReturns
CHECK_DEADLOCK FALSE
