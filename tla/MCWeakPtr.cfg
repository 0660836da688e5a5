\* Owning WeakPtr, every call except self-assignment and guard move-assignment.
CONSTANTS
  h1 = h1  h2 = h2  h3 = h3
  g1 = g1  g2 = g2
  r1 = r1  r2 = r2  r3 = r3
  NULL = NULL
  Handles <- MCHandles
  Guards <- MCGuards
  Resources <- MCResources
  PtrOwner = TRUE
  AllowSelfAssign = FALSE
SPECIFICATION Spec
INVARIANT RegistryConsistent
INVARIANT NoUseAfterFree
INVARIANT ExclusiveOwnership
PROPERTY WeakHandleSpec
