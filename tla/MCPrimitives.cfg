\* Four-bit words: every helper of bounds.asm is called with every tuple, so sums
\* and products both fit and overflow.  Four-byte pages: a slice can end at the
\* last byte of the mapping, an aligned offset can carry, and an alignment may
\* be zero, a power of two, or neither.
CONSTANTS
  WordMax = 15
  PageSize = 4
  Bases = {4, 8}
  Sizes = {0, 3, 4, 11}
  Aligns = {0, 3, 4, 8}
SPECIFICATION PrimitivesSpec
INVARIANTS
  RangesExact
  TablesExact
  SlicesSeparate
PROPERTY
  AllocationsExact
