CONSTANTS
  BYTE = 3
  FRAME_SOF_0 = 1
  FRAME_SOF_1 = 2
  FRAME_VERSION = 0
  MAX_PAYLOAD_BYTES = 2
  Crc <- MCCrc
  CRC_INITIAL = 0
  CrcStep <- MCCrcStep
  CrcBytes <- MCCrcBytes
  IDLE_TIMEOUT_CYCLES = 2
  COUNTER_MODULUS = 2
  Offered <- MCOffered
SPECIFICATION MCSpec
INVARIANTS ResultOwned FaithfulFrame DiscardsOnlyBadFrames EncodingSent
PROPERTIES DiscardsCounted FramesEnd
