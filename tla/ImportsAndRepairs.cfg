SPECIFICATION Spec
CONSTANTS
  t1 = t1
  t2 = t2
  p = p
  q = q
  n = n
  r1 = r1
  r2 = r2
  r3 = r3
  Tabs = {t1, t2}
  People = {p, q, n}
  Records = {r1, r2, r3}
  Files <- MCFiles
  Inherited <- MCInherited
  Hasty = FALSE
  Nobody = Nobody
  MaxMoves = 3
INVARIANTS TypeOK 
PROPERTIES ReplaceEnds
CHECK_DEADLOCK FALSE
