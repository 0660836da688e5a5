\* getModulePackage called with an Id that has no module.
CONSTANTS
  n1 = n1  n2 = n2  s1 = s1  s2 = s2  p1 = p1  p2 = p2
  NoDefault = NoDefault  ABSENT = ABSENT  NULLPTR = NULLPTR
  MaxPool <- MCMaxPool
  InitPool = 8
  Ids <- MCIds
  ModIds <- MCModIds
  SystemIds <- MCSystemIds
  Names <- MCNames
  Streams <- MCStreams
  ModName <- MCModName
  ModStream <- MCModStream
  Pkgs <- MCPkgs
  Artifacts <- MCArtifacts
  AllowUnknownLookup = TRUE
  AllowUnresolvedQuery = FALSE
  AllowStaleQuery = FALSE
SPECIFICATION Spec
INVARIANT NoUndefinedBehaviour
