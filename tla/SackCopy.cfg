\* The compiler-generated copy constructor of Sack is used.
CONSTANTS
  sk1 = sk1  sk2 = sk2  o1 = o1  o2 = o2  q1 = q1
  NONE = NONE
  Sacks <- MCSacks
  Objs <- MCObjs
  Queries <- MCQueries
  Values <- MCValues
  AllowQueryOutliveSack = FALSE
SPECIFICATION CopySpec
INVARIANT NoUndefinedBehaviour
