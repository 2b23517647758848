SPECIFICATION Spec
CONSTANTS
  l1 = l1
  l2 = l2
  l3 = l3
  l4 = l4
  Logs = {l1, l2, l3, l4}
  None = None
  Legacy = 1
  Page = 2
  MaxTime = 2
  MaxDamage = 1
SYMMETRY Symmetry
INVARIANTS NoFalseAlarm NoFalseOk
CHECK_DEADLOCK FALSE
