CONSTANTS
  Vcpus = {v1, v2, v3}
  PoolSize = 2
  Jobs = {j1, j2, j3}
  NULL = NULL
  Requests = {"KVM_DECRYPTION"}
  MaxJobId = 0
  MaxCalls = 3
  MaxLoads = 1
SPECIFICATION Spec
SYMMETRY PoolSymmetry
INVARIANTS
  TypeOK
  JobOwnership
  ResultDelivered
  ServedAlone
  QueueWellFormed
  NoLostWakeup
PROPERTY WritesOnlyLiveJobs
