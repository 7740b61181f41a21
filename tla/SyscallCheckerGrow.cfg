CONSTANTS
  TableLen = 2
  Handlers = {1, 2}
  GuestWrites = {0, 1, 2}
SPECIFICATION Spec
INVARIANT ScanInBounds
