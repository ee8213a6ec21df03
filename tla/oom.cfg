SPECIFICATION Spec
CONSTANTS
  Null = Null
  Wild = Wild
  NoSum = NoSum
  Node = {n1, n2}
  Core = {c1, c2}
  Block = {2}
  MaxSize = 1
  AddrSpace = 8
  Byte = {0}
  MayFail = {"memory", "core", "block", "list", "link", "handle", "node"}
  Calls = {"init", "malloc", "make_empty", "set_ptr", "free", "write", "destroy"}
  NullArg = {}
  Sizes = {1}
  FlagSets = {{}}
  Moves = {}
  Steps = {}
  UIntSpace = 8
  Lens = {}
  Garbage <- MCGarbageWild
INVARIANT TypeOK
INVARIANT CountsExact
INVARIANT LinksAgree
INVARIANT HandlesListed
PROPERTY FailuresExplained
PROPERTY FailuresLeaveNoTrace
INVARIANT RemovalsReturn
PROPERTY CountedKeepsBlock
PROPERTY DestroyEnds
