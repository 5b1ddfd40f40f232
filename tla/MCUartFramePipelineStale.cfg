CONSTANTS
  Octet = {1, 2}
  IsFrame <- MCIsFrame
  Answer <- MCAnswer
  MAX_FRAME_BYTES = 2
  RX_FIFO_DEPTH = 2
  TX_FIFO_DEPTH = 2
  BYTE_CYCLES = 3
  LINE_CYCLES = 2
  COUNTER_MODULUS = 100
  MaxCount = 20
  Frames <- MCFrames
  MaxFrames = 0
  MaxOutstanding = 3
SPECIFICATION HSpec
INVARIANTS PartialFrameDiscarded
