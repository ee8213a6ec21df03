SPECIFICATION Spec
CONSTANTS
  Null = Null
  Node = {n1, n2, n3, n4}
  Item = {d1, d2}
INVARIANT CountExact
INVARIANT SearchFinds
PROPERTY ChainNeverFaults
PROPERTY ImplementsNodeSeq
SYMMETRY MCSym
