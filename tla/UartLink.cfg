CONSTANTS
  CLKS_PER_BIT = 23
  CLOCKS_PER_BIT = 24
  MAX_LAG = 2
  Bytes <- SampleBytes
SPECIFICATION FairLinkSpec
INVARIANTS BytesRead BytesAccounted
PROPERTIES ImplementsSender BytesEnd
