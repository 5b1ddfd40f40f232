CONSTANTS
  Data = {a, b, c}
  DEPTH = 3
SPECIFICATION MCSpec
INVARIANTS WordsKept CodedWordsKept CodecsAgree
PROPERTIES ImplementsQueue
