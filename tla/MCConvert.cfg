CONSTANTS
  Programs = {"numbers"}
  Entries <- MCEntries
  Prios = {0, 1}
  Addresses = {1, 2, 3, 4, 5, 6, 7, 8}
  Malloc <- MCMalloc
  MaxNodes = 4
  MaxShared = 3
  VecImpls = {"vec_1", "basic"}
  ElemKinds = {"plain", "copies", "moveonly"}
  Elems = {1, 2}
  MaxCap = 2
  MaxBlocks = 3
  Functors = {1, 2}
  MaxCallables = 3
  Parsers = {"convert"}
  IntMax = 127
  Limit = 100
  Digits = {0, 1, 2, 7, 8, 9}
  Beyond = 1000
  Benches = {"rdtsc", "rdtscp", "alt", "work", "user"}
  Word = 256
  Loops = 2
  Stats = 3
  Deltas <- MCDeltas
  HeaderLen = 2
  WireLen = 2
  PayloadLens = {0, 1, 2, 3}
  MaxFrames = 3
  MaxPiece = 5
  Prices = {1, 2, 3}
  Qtys = {0, 1}
  Depth = 1
  MaxChanged = 2
  TickSize = 1
  MaxMoves = 4
  LineLens = {0, 1, 2}
  MaxLines = 3
  Payload = 3
  Modes = {"RELAXED", "ACQ_REL", "SEQ_CST"}
  MaxIters = 5
  ChurnThreads = {t1, t2}
  Requested <- MCRequested
  DefaultLive = 2
  DefaultBatch = 1
SPECIFICATION ProgramsSpec
CHECK_DEADLOCK FALSE
INVARIANT
  ConvertAsDocumented
