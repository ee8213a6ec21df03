SPECIFICATION Spec
CONSTANTS
  Null = Null
  Wild = Wild
  NoSum = NoSum
  Node = {n1, n2}
  Core = {c1, c2}
  Block = {6}
  MaxSize = 4
  AddrSpace = 16
  Byte = {0, 1}
  MayFail = {}
  Calls = {"init", "last_error", "malloc", "make_empty", "move_ptr", "memcpy", "set_ptr"}
  NullArg = {Null}
  Sizes = {0, 4}
  FlagSets = {{}, {"checksum"}}
  Moves <- MCMoves
  Steps = {1}
  UIntSpace = 8
  Lens = {0, 1, 2, 9}
  Garbage <- MCGarbageWild
INVARIANT TrackersBacked
INVARIANT ChainsKeepSafe
 
PROPERTY FailuresLeaveNoTrace
PROPERTY MoveStaysInRange
PROPERTY MemcpyExact
PROPERTY ImplementsTrackers
VIEW TrackView
SYMMETRY MCSym
