SPECIFICATION Spec
CONSTANTS
  p = p
  q = q
  b = b
  c = c
  n = n
  m = m
  NoRow = NoRow
  Persons = {p, q}
  Subjects = {p}
  Births = {b, c}
  Names = {n, m}
  NameIn <- MCNameIn
  MaxRequests = 2
  MaxOutages = 1
  MaxActs = 2
  MaxDays = 1
INVARIANTS TypeOK OneChart NothingDangling
PROPERTIES ReanchorKeepsRows RequestsSettle
CHECK_DEADLOCK FALSE
