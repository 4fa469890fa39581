SPECIFICATION FairSpec
CONSTANTS
  NumRxDesc = 3
  NumTxDesc = 2
  MaxRetry = 1
  Lengths = {60}
PROPERTIES SendReturns FramesAreRead
