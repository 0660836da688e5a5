\* A size that is not a multiple of 8: add() accepts ids up to the end of the last byte.
CONSTANTS
  m1 = m1  m2 = m2  m3 = m3
  Maps <- MCMaps
  Ids <- MCIds
  Sizes = {10}
  AllowSelfAssign = FALSE
SPECIFICATION Spec
SYMMETRY Symmetry
INVARIANT BitsWithinCapacity
