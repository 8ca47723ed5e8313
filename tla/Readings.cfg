SPECIFICATION Spec
CONSTANTS
  a = a
  b = b
  NoChart = NoChart
  Charts = {a, b}
  Library = {a}
  MaxClicks = 2
  MaxUpsets = 2
INVARIANTS TypeOK ShownIsSaved
PROPERTIES NoLateResult UnreadableKept 
CHECK_DEADLOCK FALSE
