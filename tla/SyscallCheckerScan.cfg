CONSTANTS
  TableLen = 3
  Handlers = {1, 2}
  GuestWrites = {0, 2}
SPECIFICATION Spec
INVARIANTS
  TypeOK
  ScanWithinCopy
  NoFalseAlarm
PROPERTIES
  HookRepaired
  StopReturns
