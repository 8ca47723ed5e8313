SPECIFICATION Spec
CONSTANTS
  t1 = t1
  t2 = t2
  a = a
  b = b
  c = c
  Tabs = {t1, t2}
  Callers = {a, b, c}
  TabOf <- MCTabOf
  Rows = {r}
  Items = {x}
  MaxTransactionAttempts = 2
  MaxCalls = 3
INVARIANTS TypeOK BusyMeansContended
PROPERTIES LooksAtomic CallSettles
CHECK_DEADLOCK FALSE
