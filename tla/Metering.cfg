CONSTANTS
  Events = {e1, x}
  Bad = {x}
  Workers = {w1, w2}
  MaxSends = 2
  MaxLosses = 1
  MaxPresses = 1
  MaxCrashes = 1
  None = None
SPECIFICATION Spec
PROPERTY
  Handled
CHECK_DEADLOCK FALSE
