SPECIFICATION Spec
CONSTANTS
  t = t
  u = u
  p = p
  q = q
  m = m
  n = n
  NoTab = NoTab
  Tabs = {t, u}
  Front = {t}
  Persons = {p}
  Messages = {m}
  Owner <- MCOwner
  Early = {}
  File = {m}
  MaxGenerations = 1
  MaxReloads = 1
INVARIANTS TypeOK 
PROPERTIES AnswersAreCurrent WaitsEnd
CHECK_DEADLOCK FALSE
