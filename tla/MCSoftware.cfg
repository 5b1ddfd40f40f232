CONSTANTS
  BYTE = 6
  FRAME_SOF_0 = 4
  FRAME_SOF_1 = 5
  FRAME_VERSION = 0
  MAX_PAYLOAD_BYTES = 20
  Crc <- MCCrc
  CRC_INITIAL = 0
  CrcStep <- MCCrcStep
  CrcBytes <- MCCrcBytes
  TIMEOUT = 2
  VectorFiles <- MCVectorFiles
  Answers <- MCAnswers
  Stale <- MCStale
  StatusFlags <- MCStatusFlags
  Undecodable <- MCUndecodable
  LongestPayload = 65
  MaxCommands = 2
  MaxFaults = 1
  Prompts = {0, 1, 3}
  Limits = {None, 0, 3}
  None = None
  Modes = {"", "offline", "disabled"}
  BaseUrls = {"host", "no host", "malformed"}
  MaxStarts = 2
  MaxReplaced = 1
  ContextSize = 3
SPECIFICATION MCSpec
INVARIANTS
  BufferBounded OwnAnswers ArtifactsTruthful EvaluationSound VectorVerdicts
  RunTruthful ConfigSuffices
PROPERTIES FindsEveryFrame TrackingHarmless ProgramsEnd
CHECK_DEADLOCK FALSE
