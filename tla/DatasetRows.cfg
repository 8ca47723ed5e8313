SPECIFICATION Spec
CONSTANTS
 Tabs = {t1, t2}
 Owners = {1, 2}
 Inherited <- MCInherited
 None = None
 LastId = 2
 MaxMoves = 4
 MaxPending = 1
 MaxFailures = 2
 MaxRetries = 1
INVARIANTS
 TypeOK
 RowIsConsistent
 DiscardIsHonest
PROPERTIES
 RowAddsUp
 ChoiceStays
SYMMETRY TabSymmetry
CHECK_DEADLOCK FALSE
