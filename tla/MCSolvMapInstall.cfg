\* One pool generation: every SolvMap is built with the pool's 16 solvables.
CONSTANTS
  m1 = m1  m2 = m2  m3 = m3
  RESULT = RESULT  FULL = FULL  QUERY = QUERY  p1 = p1  p2 = p2  p3 = p3
  Maps <- MCMaps
  Ids <- MCIds
  Sizes = {16}
  AllowSelfAssign = FALSE
SPECIFICATION ComposedSpec
SYMMETRY Symmetry
INVARIANT LookupTableCorrect
INVARIANT SizeMatchesContents
PROPERTY BitSetSpec
INVARIANT TransactionHoldsEveryMatch
INVARIANT TransactionItemsAlive
