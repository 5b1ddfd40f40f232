CONSTANTS
  BYTE = 5
  FRAME_SOF_0 = 1
  FRAME_SOF_1 = 2
  FRAME_VERSION = 0
  MAX_PAYLOAD_BYTES = 2
  Crc <- MCCrc
  CRC_INITIAL = 0
  CrcStep <- MCCrcStep
  CrcBytes <- MCCrcBytes
  PING = 0
  PONG = 1
  TOKEN_REQUEST = 2
  ERROR_RESPONSE = 4
  IDLE_TIMEOUT_CYCLES = 0
  COUNTER_MODULUS = 4
  Replies <- MCReplies
  MalformedReply <- MCMalformedReply
  Sendable <- MCSendable
  MaxFrames = 3
SPECIFICATION FairWSpec
INVARIANTS RoutingAgrees ResponsesInOrder RefusalsCounted
PROPERTIES ImplementsFrameService ResponsesLeave
