SPECIFICATION Spec
CONSTANTS
  NumRxDesc = 3
  NumTxDesc = 3
  MaxRetry = 1
  Lengths = {60}
PROPERTIES TransmitsTheStacksPacket
