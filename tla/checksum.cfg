SPECIFICATION Spec
CONSTANTS
  Null = Null
  Wild = Wild
  NoSum = NoSum
  Node = {n1, n2}
  Core = {c1, c2}
  Block = {2, 5}
  MaxSize = 2
  AddrSpace = 8
  Byte = {0, 1}
  MayFail = {}
  Calls = {"init", "malloc", "make_empty", "set_ptr", "write", "overwrite_checksum", "check_mem", "move_ptr", "memcpy"}
  NullArg = {}
  Sizes = {2}
  FlagSets = {{}, {"checksum"}}
  Moves = {1}
  Steps = {}
  UIntSpace = 8
  Lens = {1}
  Garbage <- MCGarbageSums
INVARIANT SumsStandForCrc
PROPERTY StaleOnlyByWrite
PROPERTY MemcpyExact
VIEW TrackView
SYMMETRY MCSym
