SPECIFICATION Spec
CONSTANTS
 Tabs = {t1, t2}
 Owners = {1, 2}
 Inherited <- MCFresh
 None = None
 LastId = 0
 MaxMoves = 2
 MaxPending = 1
 MaxFailures = 0
 MaxRetries = 1
PROPERTIES
 ListChangesSurvive
CHECK_DEADLOCK FALSE
