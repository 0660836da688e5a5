\* Sacks never copied; queries dropped before their Sack is destroyed.
CONSTANTS
  sk1 = sk1  sk2 = sk2  o1 = o1  o2 = o2  q1 = q1
  NONE = NONE
  Sacks <- MCSacks
  Objs <- MCObjs
  Queries <- MCQueries
  Values <- MCValues
  AllowQueryOutliveSack = FALSE
SPECIFICATION Spec
INVARIANT NoUndefinedBehaviour
