CONSTANTS
  Vcpus = {v1, v2}
  PoolSize = 2
  Jobs = {j1, j2}
  NULL = NULL
  Requests = {"KVM_ENCRYPTION"}
  MaxJobId = 0
  MaxCalls = 2
  MaxLoads = 2
SPECIFICATION Spec
PROPERTIES
  ImplementsService
  UnloadCompletes
INVARIANT NoKthreadAfterUnload
