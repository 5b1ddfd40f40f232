CONSTANTS
  CLOCKS_PER_BIT = 4
  MaxEdges = 5
  CLKS_PER_BIT = 4
  MAX_LAG = 0
  Bytes <- SampleBytes
SPECIFICATION WSpec
INVARIANTS Resynchronises BreakReported
