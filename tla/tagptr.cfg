SPECIFICATION Spec
CONSTANTS
  Chunk = {k1, k2}
  Null = Null
  SizeSpace = 5
  Sizes = {0, 1, 2, 4}
  Counts = {1, 2, 3}
  Byte = {0, 1}
INVARIANT TypeOK
INVARIANT TagsIntact
PROPERTY CallocZeroes
PROPERTY ReallocKeeps
SYMMETRY MCSym
