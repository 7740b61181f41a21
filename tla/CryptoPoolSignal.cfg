CONSTANTS
  Vcpus = {v1}
  PoolSize = 1
  Jobs = {j1}
  NULL = NULL
  Requests = {"KVM_ENCRYPTION"}
  MaxJobId = 0
  MaxCalls = 1
  MaxLoads = 1
SPECIFICATION SignalSpec
INVARIANT ResultDelivered
