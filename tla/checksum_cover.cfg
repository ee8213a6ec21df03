SPECIFICATION Spec
CONSTANTS
  Null = Null
  Wild = Wild
  NoSum = NoSum
  Node = {n1, n2}
  Core = {c1, c2}
  Block = {2, 4}
  MaxSize = 1
  AddrSpace = 8
  Byte = {0}
  MayFail = {}
  Calls = {"init", "malloc", "set_ptr", "overwrite_checksum"}
  NullArg = {}
  Sizes = {1}
  FlagSets = {{}}
  Moves = {}
  Steps = {}
  UIntSpace = 8
  Lens = {}
  Garbage <- MCGarbage
PROPERTY ChecksumCoversMemory
