SPECIFICATION Spec
CONSTANTS
  Checks = {c1, c2}
  MaxBalance = 3
  Rounding <- MCRounding
  Threshold = 0
INVARIANTS TypeOK NoFalseAlarm
PROPERTY LowIsReported
