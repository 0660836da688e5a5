\* Callers that look up known Ids only and query only a current resolution.
CONSTANTS
  n1 = n1  n2 = n2  s1 = s1  s2 = s2  p1 = p1  p2 = p2
  NoDefault = NoDefault  ABSENT = ABSENT  NULLPTR = NULLPTR
  MaxPool <- MCMaxPool
  InitPool = 8
  Ids <- MCIds
  ModIds <- MCModIds
  SystemIds <- MCSystemIds
  Names <- MCNames
  Streams <- MCStreams
  ModName <- MCModName
  ModStream <- MCModStream
  Pkgs <- MCPkgs
  Artifacts <- MCArtifacts
  AllowUnknownLookup = FALSE
  AllowUnresolvedQuery = FALSE
  AllowStaleQuery = FALSE
SPECIFICATION Spec
INVARIANT ActivationIsLastSolution
PROPERTY RequiredAreActiveWithArtifacts
