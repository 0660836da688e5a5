\* Guard move-assignment: the target guard forgets the WeakPtrs it had registered.
CONSTANTS
  h1 = h1  h2 = h2  h3 = h3
  g1 = g1  g2 = g2
  r1 = r1  r2 = r2  r3 = r3
  NULL = NULL
  Handles <- MCHandles
  Guards <- MCGuards
  Resources <- MCResources
  PtrOwner = TRUE
  AllowSelfAssign = FALSE
SPECIFICATION GuardMoveSpec
INVARIANT RegistryConsistent
