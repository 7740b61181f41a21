CONSTANTS
  LastFd = 4
  Clients = {c1}
  MaxBacklog = 2
SPECIFICATION Spec
PROPERTY ClosesOwnSocket
