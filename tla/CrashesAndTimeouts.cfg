SPECIFICATION Spec
CONSTANTS
 Realm = {t1, t2}
 p = p
 q = q
 a = a
 b = b
 Item <- MCItem
 Owner <- MCOwner
 InitialItems <- TwoPersons
 Backups <- ResetOnly
 Kinds <- DeletesAndRestores
 WebLocks = FALSE
 Wakes = TRUE
 MaxOps = 2
 MaxQueue = 0
 MaxReloads = 1
INVARIANTS
 OneOwnerPerLease
 SettledLedgerIsClean
 DatasetIsReadable
PROPERTIES
 ImplementsDataset
SYMMETRY TabSymmetry
CHECK_DEADLOCK FALSE
