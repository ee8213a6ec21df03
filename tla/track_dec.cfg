SPECIFICATION Spec
CONSTANTS
  Null = Null
  Wild = Wild
  NoSum = NoSum
  Node = {n1, n2}
  Core = {c1, c2}
  Block = {3}
  MaxSize = 3
  AddrSpace = 16
  Byte = {0}
  MayFail = {}
  Calls = {"init", "malloc", "move_ptr"}
  NullArg = {}
  Sizes = {3}
  FlagSets = {{}}
  Moves = {}
  Steps = {1}
  UIntSpace = 8
  Lens = {}
  Garbage <- MCGarbage
PROPERTY DecMovesBack
