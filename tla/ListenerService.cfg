CONSTANTS
  LastFd = 4
  Clients = {c1, c2}
  MaxBacklog = 2
SPECIFICATION Spec
INVARIANTS
  TypeOK
  PortFreeAfterStop
PROPERTIES
  ClientAnswered
  StopReturns
  OnlyStopStrands
