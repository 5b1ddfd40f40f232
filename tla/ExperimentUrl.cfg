CONSTANTS
  Prompts = {1}
  Limits = {None}
  None = None
  Modes = {"", "offline"}
  BaseUrls = {"host", "no host", "malformed"}
  MaxStarts = 2
  MaxReplaced = 0
  ContextSize = 3
SPECIFICATION ExperimentSpec
PROPERTIES TrackingNeverStops
CHECK_DEADLOCK FALSE
