SPECIFICATION OpenTabsSpec
CONSTANTS
 Realm = {t1, t2}
 p = p
 q = q
 a = a
 b = b
 Item <- MCItem
 Owner <- MCOwner
 InitialItems <- Family
 Backups <- OneBackup
 Kinds <- DeletesAndRestores
 WebLocks = TRUE
 Wakes = FALSE
 MaxOps = 2
 MaxQueue = 1
 MaxReloads = 0
INVARIANTS
 TypeOK
 
SYMMETRY TabSymmetry
CHECK_DEADLOCK FALSE
