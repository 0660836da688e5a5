\* Byte-valued options set from strings: 2G does not fit the int str_to_bytes returns.
CONSTANTS
  d1 = d1  f1 = f1  f2 = f2  bad = bad  vd1 = vd1  vd2 = vd2
  Priorities = {10, 70}
  DEFAULT = 10
  OptionStrings <- MCOptionStrings
  DefaultProtected <- MCDefaultProtected
  GlobMatch <- MCGlobMatch
  Dirs = {d1}
  Unreadable = {bad}
  FileLines <- MCFileLines
  VarDirPaths = {vd1, vd2}
  VarDirs <- MCVarDirs
  Envs <- MCEnvs
  BytesStrings <- MCBytesStrings
  ThrottleStrings <- MCThrottleStrings
  LimitStrings <- MCLimitStrings
SPECIFICATION BytesSpec
INVARIANT BytesOptionsHoldTheirValue
