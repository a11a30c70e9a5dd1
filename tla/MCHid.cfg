CONSTANTS
  MAX_KEYS = 2
  Scancodes = {4, 5, 6}
  Buttons = {5, 6}
  Points = {0}
  QueueMax = 2
SPECIFICATION Spec
INVARIANTS TypeOK SlotsShowKeys FlagsShowMouse
PROPERTY ReleasedKeyLeaves
CHECK_DEADLOCK FALSE
