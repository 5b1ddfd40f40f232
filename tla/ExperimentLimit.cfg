CONSTANTS
  Prompts = {1}
  Limits = {None, 3}
  None = None
  Modes = {"offline"}
  BaseUrls = {"host"}
  MaxStarts = 2
  MaxReplaced = 0
  ContextSize = 3
SPECIFICATION ExperimentSpec
INVARIANTS LimitRecorded
CHECK_DEADLOCK FALSE
