CONSTANTS
  Procs = {p1, p2, p3}
  main = p1
  Vcpus = {v1, v2}
  Servers = 1
  Bufs = {b1, b2, b3, b4, b5, b6}
  NULL = NULL
  Zero = Zero
  MaxLoads = 1
SPECIFICATION Spec
INVARIANTS
  TypeOK
  RoundTrip
  OwnData
  BuffersPrivate
  NoCodeAfterUnload
PROPERTIES
  ProgramEnds
