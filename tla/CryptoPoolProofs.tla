-------------------------- MODULE CryptoPoolProofs --------------------------
(***************************************************************************)
(* Proofs about CryptoPool for any number of vCPUs, kthreads and jobs: who *)
(* owns a job, which kthreads there are, that the linked list cq is well   *)
(* formed and every job is served alone, that nobody sleeps through the    *)
(* event it waits for, and what the hypercall delivers.                    *)
(***************************************************************************)
EXTENDS CryptoPool, TLAPS

\* A thread that has passed the allocation has a job: the dereferences of j
\* in crypto_produce_job are of a real job.
JobHeld == \A v \in Vcpus : ppc[v] \in HasJob => jv[v] # NULL

TypeInv == TypeOK /\ JobHeld

\* What the provers need to know about the constants.
USE DEF KVM_ENCRYPTION, KVM_DECRYPTION, KVM_HC_CRYPTO, KVM_EPERM

\* The contents the code writes into buffers are contents.
LEMMA ContentsType ==
  /\ Zero \in Contents
  /\ Stale \in Contents
  /\ \A v \in Vcpus : Input(v) \in Contents
  /\ \A op \in Operations : \A i, o \in Contents : Crypt(op, i, o) \in Contents
<1>1. Zero \in Contents /\ Stale \in Contents
  BY DEF Zero, Stale, Contents
<1>2. \A v \in Vcpus : Input(v) \in Contents
  BY DEF Input, Contents
<1>3. \A op \in Operations : \A i, o \in Contents : Crypt(op, i, o) \in Contents
  BY DEF Crypt, Contents, Operations
<1>4. QED
  BY <1>1, <1>2, <1>3

\* Free memory has the type of a job.
LEMMA UnallocatedType == Unallocated \in JobRecord
  BY PoolAssumption, ContentsType DEF Unallocated, JobRecord, Operations

\* Assigning one field of a job leaves a job.
LEMMA JobUpdate ==
  ASSUME NEW f \in [Jobs -> JobRecord], NEW j
  PROVE  /\ \A n \in Jobs \cup {NULL} : [f EXCEPT ![j].next = n] \in [Jobs -> JobRecord]
         /\ \A s \in {0, 1} : [f EXCEPT ![j].status = s] \in [Jobs -> JobRecord]
         /\ \A o \in Contents : [f EXCEPT ![j].output = o] \in [Jobs -> JobRecord]
         /\ j \notin Jobs => \A o : [f EXCEPT ![j].output = o] = f
<1>1. ASSUME NEW r \in JobRecord
      PROVE  /\ \A n \in Jobs \cup {NULL} : [r EXCEPT !.next = n] \in JobRecord
             /\ \A s \in {0, 1} : [r EXCEPT !.status = s] \in JobRecord
             /\ \A o \in Contents : [r EXCEPT !.output = o] \in JobRecord
  BY DEF JobRecord
<1>2. QED
  BY ZenonT(30), <1>1

\* The fields of a job.
LEMMA JobFields ==
  ASSUME NEW r \in JobRecord
  PROVE  /\ r.job_id \in Nat
         /\ r.operation \in Operations
         /\ r.input \in Contents
         /\ r.output \in Contents
         /\ r.status \in {0, 1}
         /\ r.next \in Jobs \cup {NULL}
  BY DEF JobRecord

\* The fields of the queue, and assigning them.
LEMMA QueueFields ==
  ASSUME NEW q \in CryptoQueue
  PROVE  /\ q.head \in Jobs \cup {NULL}
         /\ q.tail \in Jobs \cup {NULL}
         /\ q.num \in Nat
         /\ q.stop \in {0, 1}
         /\ [q EXCEPT !.num = q.num + 1] \in CryptoQueue
  BY DEF CryptoQueue

\* Assigning head, num and tail leaves a queue.
LEMMA QueueUpdate ==
  ASSUME NEW q \in CryptoQueue, NEW h \in Jobs \cup {NULL}, NEW n \in Nat,
         NEW t \in Jobs \cup {NULL}
  PROVE  [q EXCEPT !.head = h, !.num = n, !.tail = t] \in CryptoQueue
  BY ZenonT(30) DEF CryptoQueue

\* The types are right before the module is loaded.
LEMMA TypeInit == Init => TypeInv
<1> SUFFICES ASSUME Init PROVE TypeInv
  OBVIOUS
<1>1. job \in [Jobs -> JobRecord]
  BY UnallocatedType DEF Init
<1>2. cq \in CryptoQueue
  BY DEF Init, EmptyQueue, CryptoQueue
<1>3. gout \in [Vcpus -> Contents]
  BY ContentsType DEF Init
<1>4. JobHeld
  BY DEF Init, JobHeld, HasJob, Queued
<1>5. /\ ki \in Kthreads /\ loads \in 0..MaxLoads /\ global_job_id \in Nat
      /\ reg \in [Vcpus -> Nat \cup {Saturated}] /\ calls \in 0..MaxCalls
  BY PoolAssumption DEF Init, Kthreads
<1>6. /\ ppc \in [Vcpus -> HasJob \cup {"closed", "guest", "alloc", "out"}]
      /\ jv \in [Vcpus -> Jobs \cup {NULL}] /\ req \in [Vcpus -> Operations]
      /\ hc_ret \in [Vcpus -> {0, 1}]
      /\ rax \in [Vcpus -> {KVM_HC_CRYPTO, 0, 1, -KVM_EPERM}]
  BY PoolAssumption DEF Init, Operations
<1>7. /\ kpc \in [Kthreads -> {"none", "wait", "asleep", "take", "process", "finish",
                               "wake", "loop", "dead"}]
      /\ nj \in [Kthreads -> Jobs \cup {NULL}]
  BY DEF Init
<1>8. mod = "unloaded" /\ mutex = NULL /\ alloc = {}
  BY SMTT(30) DEF Init
<1>9. QED
  BY Zenon, <1>1, <1>2, <1>3, <1>4, <1>5, <1>6, <1>7, <1>8 DEF TypeInv, TypeOK

\* Every step keeps the types.
LEMMA TypeNext == TypeInv /\ [Next]_vars => TypeInv'
<1> SUFFICES ASSUME TypeInv, [Next]_vars PROVE TypeInv'
  OBVIOUS
<1> USE DEF TypeInv, TypeOK, JobHeld, HasJob, Queued, Kthreads, modVars, prodVars,
            consVars
<1>1. CASE Register
  <2>1. cq' \in CryptoQueue
    BY <1>1 DEF Register, EmptyQueue, CryptoQueue
  <2>2. QED
    BY <1>1, <2>1, PoolAssumption DEF Register
<1>2. CASE PoolInit
  <2>1. cq' \in CryptoQueue
    BY <1>2 DEF PoolInit, EmptyQueue, CryptoQueue
  <2>2. QED
    BY <1>2, <2>1, PoolAssumption DEF PoolInit
<1>3. CASE StartKthread
  BY <1>3, PoolAssumption DEF StartKthread
<1>4. CASE PoolReclaim
  <2>1. cq' \in CryptoQueue
    BY ZenonT(30), <1>4 DEF PoolReclaim, CryptoQueue
  <2>2. job' \in [Jobs -> JobRecord]
    BY <1>4, UnallocatedType DEF PoolReclaim, KFree
  <2>3. QED
    BY <1>4, <2>1, <2>2 DEF PoolReclaim
<1>5. CASE SetStop
  <2>1. cq' \in CryptoQueue
    BY ZenonT(30), <1>5 DEF SetStop, CryptoQueue
  <2>2. QED
    BY <1>5, <2>1, PoolAssumption DEF SetStop
<1>6. CASE StopKthread
  BY <1>6 DEF StopKthread, WakeConsumers
<1>7. CASE JoinKthread
  BY <1>7, PoolAssumption DEF JoinKthread
<1>8. ASSUME NEW v \in Vcpus, OpenVm(v) PROVE TypeInv'
  BY <1>8 DEF OpenVm
<1>9. ASSUME NEW v \in Vcpus, CloseVm(v) PROVE TypeInv'
  BY <1>9 DEF CloseVm
<1>10. ASSUME NEW v \in Vcpus, HypercallDenied(v) PROVE TypeInv'
  <2>1. calls' \in 0..MaxCalls
    BY <1>10, PoolAssumption DEF HypercallDenied
  <2>2. rax' \in [Vcpus -> {KVM_HC_CRYPTO, 0, 1, -KVM_EPERM}]
    BY <1>10 DEF HypercallDenied
  <2>3. QED
    BY <1>10, <2>1, <2>2 DEF HypercallDenied
<1>11. ASSUME NEW v \in Vcpus, AllocJob(v) PROVE TypeInv'
  <2>1. reg' \in [Vcpus -> Nat \cup {Saturated}]
    BY ZenonT(30), <1>11 DEF AllocJob
  <2>2. ppc' \in [Vcpus -> HasJob \cup {"closed", "guest", "alloc", "out"}]
    BY <1>11 DEF AllocJob
  <2>3. PICK j \in Jobs : alloc' = alloc \cup {j} /\ jv' = [jv EXCEPT ![v] = j]
    BY ZenonT(30), <1>11 DEF AllocJob
  <2>4. alloc' \subseteq Jobs /\ jv' \in [Vcpus -> Jobs \cup {NULL}]
    BY <2>3
  <2>5. \A w \in Vcpus : w # v => ppc'[w] = ppc[w] /\ jv'[w] = jv[w]
    BY <1>11, <2>3 DEF AllocJob
  <2>6. JobHeld'
    <3>1. jv'[v] # NULL
      BY <2>3, PoolAssumption
    <3>2. QED
      BY <2>5, <3>1 DEF JobHeld
  <2>7. QED
    BY ZenonT(30), <1>11, <2>1, <2>2, <2>4, <2>6 DEF AllocJob
<1>12. ASSUME NEW v \in Vcpus, InitJob(v) PROVE TypeInv'
  <2>0. reg[v] \in Nat \/ reg[v] = Saturated
    BY ZenonT(30)
  <2>1. [job_id |-> IF reg[v] = Saturated THEN 0 ELSE reg[v], operation |-> req[v],
         input |-> Input(v), output |-> Zero, status |-> 0, next |-> NULL] \in JobRecord
    BY <2>0, ContentsType, PoolAssumption DEF JobRecord
  <2>2. job' \in [Jobs -> JobRecord]
    BY <1>12, <2>1 DEF InitJob
  <2>3. global_job_id' \in Nat /\ reg' \in [Vcpus -> Nat \cup {Saturated}]
    BY <1>12, <2>0 DEF InitJob
  <2>4. QED
    BY <1>12, <2>2, <2>3 DEF InitJob
<1>n. ASSUME NEW v \in Vcpus, NumberJob(v) PROVE TypeInv'
  BY <1>n DEF NumberJob
<1>13. ASSUME NEW v \in Vcpus, LinkJob(v) PROVE TypeInv'
  <2>1. cq' \in CryptoQueue
    BY ZenonT(30), <1>13 DEF LinkJob, CryptoQueue
  <2>2. job' \in [Jobs -> JobRecord]
    <3>1. CASE cq.num = 0
      BY <1>13, <3>1 DEF LinkJob
    <3>2. CASE cq.num # 0
      <4>1. job' = [job EXCEPT ![cq.tail].next = jv[v]]
        BY <1>13, <3>2 DEF LinkJob
      <4>2. jv[v] \in Jobs \cup {NULL}
        OBVIOUS
      <4>3. QED
        BY ZenonT(30), <4>1, <4>2, JobUpdate
    <3>3. QED
      BY <3>1, <3>2
  <2>3. QED
    BY <1>13, <2>1, <2>2 DEF LinkJob
<1>14. ASSUME NEW v \in Vcpus, CountJob(v) PROVE TypeInv'
  <2>1. cq' \in CryptoQueue
    BY <1>14, QueueFields DEF CountJob
  <2>2. QED
    BY <1>14, <2>1 DEF CountJob
<1>15. ASSUME NEW v \in Vcpus, NotifyConsumers(v) PROVE TypeInv'
  BY <1>15 DEF NotifyConsumers, WakeConsumers
<1>16. ASSUME NEW v \in Vcpus, AwaitJob(v) PROVE TypeInv'
  BY <1>16 DEF AwaitJob
<1>17. ASSUME NEW v \in Vcpus, WriteBack(v) PROVE TypeInv'
  BY ZenonT(30), <1>17 DEF WriteBack, JobRecord
<1>18. ASSUME NEW v \in Vcpus, Return(v) PROVE TypeInv'
  BY <1>18, UnallocatedType DEF Return, KFree
<1>19. ASSUME NEW v \in Vcpus, NEW op \in Requests, ProduceJob(v, op) PROVE TypeInv'
  <2>1. calls' \in 0..MaxCalls
    BY <1>19, PoolAssumption DEF ProduceJob
  <2>2. req' \in [Vcpus -> Operations]
    BY <1>19, PoolAssumption DEF ProduceJob
  <2>3. gout' \in [Vcpus -> Contents]
    BY <1>19, ContentsType DEF ProduceJob
  <2>4. rax' \in [Vcpus -> {KVM_HC_CRYPTO, 0, 1, -KVM_EPERM}]
    BY <1>19 DEF ProduceJob
  <2>5. ppc' \in [Vcpus -> HasJob \cup {"closed", "guest", "alloc", "out"}]
    BY SMTT(30), <1>19 DEF ProduceJob
  <2>6. QED
    BY ZenonT(30), <1>19, <2>1, <2>2, <2>3, <2>4, <2>5 DEF ProduceJob
<1>20. ASSUME NEW k \in Kthreads, KWait(k) PROVE TypeInv'
  BY <1>20 DEF KWait
<1>21. ASSUME NEW k \in Kthreads, KTake(k) PROVE TypeInv'
  <2>1. cq' \in CryptoQueue
    <3>1. CASE cq.num > 0
      <4>1. job[cq.head].next \in Jobs \cup {NULL}
        BY ZenonT(30), <1>21, <3>1, QueueFields, JobFields DEF KTake
      <4>2. cq.num - 1 \in Nat
        <5>1. cq.num \in Nat
          BY ZenonT(30), QueueFields
        <5>2. QED
          BY <3>1, <5>1
      <4>3. (IF cq.num = 1 THEN NULL ELSE cq.tail) \in Jobs \cup {NULL}
        BY ZenonT(30), QueueFields
      <4>4. cq' = [cq EXCEPT !.head = job[cq.head].next, !.num = cq.num - 1,
                             !.tail = IF cq.num = 1 THEN NULL ELSE cq.tail]
        BY <1>21, <3>1 DEF KTake
      <4>5. QED
        BY ZenonT(30), <4>1, <4>2, <4>3, <4>4, QueueUpdate
    <3>2. CASE ~(cq.num > 0)
      BY <1>21, <3>2 DEF KTake
    <3>3. QED
      BY <3>1, <3>2
  <2>2. job' \in [Jobs -> JobRecord]
    <3>1. job' = job \/ job' = [job EXCEPT ![cq.head].next = NULL]
      BY <1>21 DEF KTake
    <3>2. [job EXCEPT ![cq.head].next = NULL] \in [Jobs -> JobRecord]
      BY ZenonT(30), JobUpdate
    <3>3. QED
      BY ZenonT(30), <3>1, <3>2
  <2>3. nj' \in [Kthreads -> Jobs \cup {NULL}]
    BY ZenonT(30), <1>21 DEF KTake, CryptoQueue
  <2>4. QED
    BY ZenonT(30), <1>21, <2>1, <2>2, <2>3 DEF KTake
<1>22. ASSUME NEW k \in Kthreads, KProcess(k) PROVE TypeInv'
  <2>1. job' \in [Jobs -> JobRecord]
    <3>1. CASE nj[k] \in Jobs
      <4>1. Crypt(job[nj[k]].operation, job[nj[k]].input, job[nj[k]].output) \in Contents
        BY <3>1, ContentsType, JobFields
      <4>2. QED
        BY ZenonT(30), <1>22, <4>1, JobUpdate DEF KProcess
    <3>2. CASE nj[k] \notin Jobs
      BY ZenonT(30), <1>22, <3>2 DEF KProcess
    <3>3. QED
      BY <3>1, <3>2
  <2>2. QED
    BY <1>22, <2>1 DEF KProcess
<1>23. ASSUME NEW k \in Kthreads, KFinish(k) PROVE TypeInv'
  <2>1. job' \in [Jobs -> JobRecord]
    BY ZenonT(30), <1>23, JobUpdate DEF KFinish
  <2>2. QED
    BY <1>23, <2>1 DEF KFinish
<1>24. ASSUME NEW k \in Kthreads, KWake(k) PROVE TypeInv'
  BY <1>24 DEF KWake, WakeProducers
<1>25. ASSUME NEW k \in Kthreads, KLoop(k) PROVE TypeInv'
  BY <1>25 DEF KLoop
<1>26. CASE UNCHANGED vars
  BY <1>26 DEF vars
<1>27. QED
  BY ZenonT(30), <1>1, <1>2, <1>3, <1>4, <1>5, <1>6, <1>7, <1>8, <1>9, <1>10, <1>11,
     <1>12, <1>13, <1>14, <1>15, <1>16, <1>17, <1>18, <1>19, <1>20, <1>21, <1>22, <1>23,
     <1>24, <1>25, <1>26, <1>n
  DEF Next, ModuleNext, ProducerNext, ProducerStep, ConsumerNext, Finished

\* All variables of the crypto pool keep their types, and no thread that uses
\* its job j has a NULL one.
THEOREM TypeCorrect == Spec => []TypeOK
<1>1. Init => TypeInv
  BY TypeInit
<1>2. TypeInv /\ [Next]_vars => TypeInv'
  BY TypeNext
<1>3. TypeInv => TypeOK
  BY DEF TypeInv
<1>4. QED
  BY <1>1, <1>2, <1>3, PTL DEF Spec

-----------------------------------------------------------------------------
(* Ownership of jobs.                                                      *)

\* A thread outside crypto_produce_job, or before its allocation, has no job.
IdleHasNoJob ==
  \A v \in Vcpus : ppc[v] \in {"closed", "guest", "alloc"} => jv[v] = NULL

\* The module reference: unless the pool is up, no VM is open.
ModuleInUse ==
  mod \notin {"starting", "live"} => \A v \in Vcpus : ppc[v] = "closed"

OwnInv == TypeInv /\ JobOwnership /\ IdleHasNoJob /\ ModuleInUse

\* No job is allocated at first.
LEMMA OwnInit == Init => OwnInv
<1> SUFFICES ASSUME Init PROVE OwnInv
  OBVIOUS
<1>1. TypeInv
  BY TypeInit
<1>2. QED
  BY <1>1 DEF Init, OwnInv, JobOwnership, IdleHasNoJob, ModuleInUse, HasJob, Queued

\* Steps that leave alone who holds which job.
LEMMA OwnSame ==
  ASSUME OwnInv, TypeInv', UNCHANGED <<mod, alloc, jv>>,
         \A v \in Vcpus :
           /\ ppc'[v] \in {"closed", "guest", "alloc"}
                => ppc[v] \in {"closed", "guest", "alloc"}
           /\ mod \notin {"starting", "live"} /\ ppc[v] = "closed"
                => ppc'[v] = "closed"
  PROVE  OwnInv'
  BY DEF OwnInv, JobOwnership, IdleHasNoJob, ModuleInUse, TypeInv, JobHeld

\* Every step of vCPU threads, kthreads and module thread keeps the ownership.
LEMMA OwnNext == OwnInv /\ [Next]_vars => OwnInv'
<1> SUFFICES ASSUME OwnInv, [Next]_vars PROVE OwnInv'
  OBVIOUS
<1>0. TypeInv'
  BY TypeNext DEF OwnInv
<1>t. /\ ppc \in [Vcpus -> HasJob \cup {"closed", "guest", "alloc", "out"}]
      /\ jv \in [Vcpus -> Jobs \cup {NULL}]
  BY DEF OwnInv, TypeInv, TypeOK
<1>1. CASE Register \/ PoolInit \/ SetStop \/ StopKthread
  BY <1>0, <1>1
  DEF Register, PoolInit, SetStop, StopKthread, OwnInv, JobOwnership, IdleHasNoJob,
      ModuleInUse, TypeInv, JobHeld, prodVars
<1>2. CASE StartKthread \/ JoinKthread
  BY <1>0, <1>2
  DEF StartKthread, JoinKthread, OwnInv, JobOwnership, IdleHasNoJob, ModuleInUse,
      TypeInv, JobHeld, prodVars
<1>3. CASE PoolReclaim
  <2>1. alloc = {}
    BY <1>3 DEF PoolReclaim, OwnInv, JobOwnership, IdleHasNoJob
  <2>2. QED
    BY <1>0, <1>3, <2>1
    DEF PoolReclaim, OwnInv, JobOwnership, IdleHasNoJob, ModuleInUse, TypeInv,
        JobHeld, prodVars
<1>4. ASSUME NEW v \in Vcpus, OpenVm(v) \/ CloseVm(v) PROVE OwnInv'
  BY <1>0, <1>t, <1>4
  DEF OpenVm, CloseVm, OwnInv, JobOwnership, IdleHasNoJob, ModuleInUse, TypeInv,
      JobHeld, modVars
<1>5. ASSUME NEW v \in Vcpus, HypercallDenied(v) PROVE OwnInv'
  BY <1>0, <1>5, OwnSame DEF HypercallDenied, modVars
<1>6. ASSUME NEW v \in Vcpus, NEW op \in Requests, ProduceJob(v, op) PROVE OwnInv'
  BY <1>0, <1>t, <1>6, OwnSame DEF ProduceJob, modVars
<1>7. ASSUME NEW v \in Vcpus, AllocJob(v) PROVE OwnInv'
  <2>1. PICK j \in Jobs \ alloc : alloc' = alloc \cup {j} /\ jv' = [jv EXCEPT ![v] = j]
    BY ZenonT(30), <1>7 DEF AllocJob
  <2>2. jv[v] = NULL /\ mod \in {"starting", "live"} /\ j # NULL
    BY <1>7, PoolAssumption DEF AllocJob, OwnInv, IdleHasNoJob, ModuleInUse
  <2>3. \A w \in Vcpus : jv[w] # j
    BY <2>1, <2>2 DEF OwnInv, JobOwnership
  <2>4. alloc' = {jv'[w] : w \in Vcpus} \ {NULL}
    BY <1>t, <2>1, <2>2 DEF OwnInv, JobOwnership
  <2>5. \A u, w \in Vcpus : jv'[u] # NULL /\ jv'[u] = jv'[w] => u = w
    BY <1>t, <2>1, <2>3 DEF OwnInv, JobOwnership
  <2>6. IdleHasNoJob' /\ ModuleInUse' /\ mod' = mod
    BY <1>t, <1>7, <2>1, <2>2 DEF AllocJob, OwnInv, IdleHasNoJob, ModuleInUse, modVars
  <2>7. QED
    BY <1>0, <2>2, <2>4, <2>5, <2>6 DEF OwnInv, JobOwnership, TypeInv, JobHeld
<1>8. ASSUME NEW v \in Vcpus,
             NumberJob(v) \/ InitJob(v) \/ LinkJob(v) \/ CountJob(v)
               \/ NotifyConsumers(v) \/ AwaitJob(v) \/ WriteBack(v)
      PROVE  OwnInv'
  <2>1. /\ UNCHANGED <<mod, alloc, jv>>
        /\ ppc[v] # "closed"
        /\ \E c \in HasJob \cup {"out"} : ppc' = [ppc EXCEPT ![v] = c]
    BY <1>8
    DEF NumberJob, InitJob, LinkJob, CountJob, NotifyConsumers, AwaitJob, WriteBack,
        modVars,
        HasJob, Queued
  <2>2. QED
    BY <1>0, <1>t, <2>1, OwnSame DEF HasJob, Queued
<1>9. ASSUME NEW v \in Vcpus, Return(v) PROVE OwnInv'
  <2>1. /\ alloc' = alloc \ {jv[v]}
        /\ jv' = [jv EXCEPT ![v] = NULL]
        /\ ppc' = [ppc EXCEPT ![v] = "guest"]
        /\ mod' = mod
        /\ ppc[v] = "out"
    BY <1>9 DEF Return, modVars
  <2>2. alloc' = {jv'[w] : w \in Vcpus} \ {NULL}
    BY <1>t, <2>1 DEF OwnInv, JobOwnership
  <2>3. \A u, w \in Vcpus : jv'[u] # NULL /\ jv'[u] = jv'[w] => u = w
    BY <1>t, <2>1 DEF OwnInv, JobOwnership
  <2>4. mod \in {"starting", "live"}
    BY <2>1 DEF OwnInv, ModuleInUse
  <2>5. QED
    BY <1>0, <1>t, <2>1, <2>2, <2>3, <2>4
    DEF OwnInv, JobOwnership, IdleHasNoJob, ModuleInUse, TypeInv, JobHeld
<1>10. ASSUME NEW k \in Kthreads,
              KWait(k) \/ KTake(k) \/ KProcess(k) \/ KFinish(k) \/ KLoop(k)
       PROVE  OwnInv'
  <2>1. UNCHANGED <<mod, alloc, jv, ppc>>
    BY <1>10 DEF KWait, KTake, KProcess, KFinish, KLoop, modVars, prodVars
  <2>2. QED
    BY <1>0, <2>1, OwnSame
<1>11. ASSUME NEW k \in Kthreads, KWake(k) PROVE OwnInv'
  BY <1>0, <1>11, OwnSame DEF KWake, WakeProducers, modVars
<1>12. CASE UNCHANGED vars
  BY <1>0, <1>12, OwnSame DEF vars, modVars, prodVars
<1>13. QED
  BY <1>1, <1>2, <1>3, <1>4, <1>5, <1>6, <1>7, <1>8, <1>9, <1>10, <1>11, <1>12
  DEF Next, ModuleNext, ProducerNext, ProducerStep, ConsumerNext, Finished

\* kfree at out neither leaks nor frees twice, for any number of vCPUs, and
\* the reclaim at unload finds nothing allocated.
THEOREM Ownership == Spec => []JobOwnership
<1>1. OwnInv => JobOwnership
  BY DEF OwnInv
<1>2. QED
  BY <1>1, OwnInit, OwnNext, PTL DEF Spec

HIDE DEF KVM_ENCRYPTION, KVM_DECRYPTION, KVM_HC_CRYPTO, KVM_EPERM

\* The order in which the provers are tried from here on.
USE ZenonT(10), SMTT(10)

-----------------------------------------------------------------------------
(* The life of the kthreads.                                               *)

\* The kthreads the module thread has not started yet, or has joined, are none.
KthreadLife ==
  /\ mod \in {"unloaded", "registered"} => \A k \in Kthreads : kpc[k] = "none"
  /\ mod = "starting" => \A k \in Kthreads : k >= ki => kpc[k] = "none"
  /\ mod \in {"stopping", "join"} => \A k \in Kthreads : k < ki => kpc[k] = "none"

LifeInv == TypeInv /\ KthreadLife

\* Every step keeps what LifeInv says of the kthreads.
LEMMA LifeNext == LifeInv /\ [Next]_vars => LifeInv'
<1> SUFFICES ASSUME LifeInv, [Next]_vars PROVE LifeInv'
  OBVIOUS
<1>0. TypeInv'
  BY TypeNext DEF LifeInv
<1>t. /\ kpc \in [Kthreads -> {"none", "wait", "asleep", "take", "process",
                               "finish", "wake", "loop", "dead"}]
      /\ ki \in 1..PoolSize
  BY DEF LifeInv, TypeInv, TypeOK, Kthreads
<1> USE DEF LifeInv, KthreadLife
<1>1. CASE Register \/ PoolInit \/ PoolReclaim \/ SetStop
  BY SMTT(10), <1>0, <1>1, PoolAssumption
  DEF Register, PoolInit, PoolReclaim, SetStop, consVars, Kthreads
<1>2. CASE StartKthread
  BY SMTT(10), <1>0, <1>t, <1>2, PoolAssumption DEF StartKthread, Kthreads
<1>3. CASE StopKthread
  BY <1>0, <1>t, <1>3 DEF StopKthread, WakeConsumers
<1>4. CASE JoinKthread
  BY SMTT(10), <1>0, <1>t, <1>4, PoolAssumption DEF JoinKthread, Kthreads
<1>5. CASE UNCHANGED <<mod, ki, kpc>>
  BY <1>0, <1>5
<1>6. ASSUME NEW v \in Vcpus, ProducerNext(v), kpc' # kpc PROVE LifeInv'
  <2>1. NotifyConsumers(v)
    BY <1>6
    DEF ProducerNext, ProducerStep, OpenVm, CloseVm, HypercallDenied, ProduceJob,
        AllocJob, NumberJob, InitJob, LinkJob, CountJob, AwaitJob, WriteBack, Return, consVars
  <2>2. QED
    BY <1>0, <1>t, <2>1 DEF NotifyConsumers, WakeConsumers, modVars
<1>7. ASSUME NEW v \in Vcpus, ProducerNext(v) PROVE UNCHANGED <<mod, ki>>
  BY <1>7
  DEF ProducerNext, ProducerStep, OpenVm, CloseVm, HypercallDenied, ProduceJob,
      AllocJob, NumberJob, InitJob, LinkJob, CountJob, NotifyConsumers, AwaitJob, WriteBack,
      Return, modVars
<1>8. ASSUME NEW k \in Kthreads, ConsumerNext(k) PROVE LifeInv'
  <2>1. /\ UNCHANGED <<mod, ki>>
        /\ kpc[k] # "none"
        /\ \E c : kpc' = [kpc EXCEPT ![k] = c]
    BY <1>8
    DEF ConsumerNext, KWait, KTake, KProcess, KFinish, KWake, KLoop, modVars
  <2>2. QED
    BY <1>0, <1>t, <2>1
<1>9. CASE UNCHANGED vars
  BY <1>5, <1>9 DEF vars, modVars, consVars
<1>10. QED
  BY <1>1, <1>2, <1>3, <1>4, <1>5, <1>6, <1>7, <1>8, <1>9
  DEF Next, ModuleNext, Finished

\* There is no kthread at first.
LEMMA LifeInit == Init => LifeInv
  BY TypeInit DEF Init, LifeInv, KthreadLife

\* When kvm_exit has returned, no kthread is left, whatever the pool's size.
THEOREM KthreadsGone == Spec => []NoKthreadAfterUnload
<1>1. LifeInv => NoKthreadAfterUnload
  BY DEF LifeInv, KthreadLife, NoKthreadAfterUnload
<1>2. QED
  BY <1>1, LifeInit, LifeNext, PTL DEF Spec

-----------------------------------------------------------------------------
(* The queue.                                                              *)

\* cq_mutex is held exactly by the vCPU inside the producer's critical section.
MutexHeld ==
  \A v \in Vcpus : mutex = v <=> ppc[v] \in {"count", "notify"}

\* A job that is not yet announced to the consumers is pending, and before the
\* insertion it points nowhere.
FreshJob ==
  \A v \in Vcpus :
    /\ ppc[v] \in {"lock", "count", "notify"} => job[jv[v]].status = 0
    /\ ppc[v] = "lock" => job[jv[v]].next = NULL

QInv ==
  /\ OwnInv
  /\ LifeInv
  /\ MutexHeld
  /\ FreshJob
  /\ ServedAlone
  /\ QueueWellFormed

\* A step that neither links nor takes a job and that leaves status and next
\* of the jobs in the pool alone keeps the queue and the service intact.
LEMMA Undisturbed ==
  ASSUME ServedAlone, QueueWellFormed,
         Serving' = Serving,
         \A k \in Serving : nj'[k] = nj[k],
         \A v \in Vcpus :
           ppc[v] \in Queued /\ job[jv[v]].status = 0 =>
             /\ ppc'[v] \in Queued
             /\ ppc[v] \in {"wait", "asleep"} => ppc'[v] \in {"wait", "asleep"}
             /\ jv'[v] = jv[v]
             /\ job'[jv[v]].status = 0
             /\ job'[jv[v]].next = job[jv[v]].next,
         \A v \in Vcpus :
           ppc'[v] \in Queued /\ job'[jv'[v]].status = 0 =>
             ppc[v] \in Queued /\ job[jv[v]].status = 0,
         Length' = Length, cq'.head = cq.head, cq'.tail = cq.tail
  PROVE  ServedAlone' /\ QueueWellFormed'
<1>1. ServedAlone'
  BY SMTT(10) DEF ServedAlone, Queued
<1>2. Unserved' = Unserved
  BY SMTT(10) DEF Unserved
<1>3. \A j \in Unserved : job'[j].next = job[j].next
  BY SMTT(10) DEF Unserved
<1>4. QueueWellFormed'
  <2>1. PICK q \in [1..Length -> Jobs] : ListIs(q)
    BY DEF QueueWellFormed
  <2>2. \A a \in 1..Length :
          job'[q[a]].next = IF a = Length THEN NULL ELSE q[a + 1]
    BY ZenonT(30), <1>3, <2>1 DEF ListIs
  <2>3. ListIs(q)'
    BY <1>2, <2>1, <2>2 DEF ListIs
  <2>4. QED
    BY <2>3 DEF QueueWellFormed, ListIs
<1>5. QED
  BY <1>1, <1>4

\* With no VM open the pool is idle.
LEMMA IdlePool ==
  ASSUME ServedAlone, \A v \in Vcpus : ppc[v] = "closed"
  PROVE  Serving = {} /\ Unserved = {}
  BY DEF ServedAlone, Unserved, Queued

\* The empty queue is well formed when there is nothing to serve.
LEMMA EmptyWellFormed ==
  ASSUME Unserved = {}, cq.num = 0, cq.head = NULL, cq.tail = NULL,
         \A v \in Vcpus : ppc[v] # "count"
  PROVE  QueueWellFormed
<1>1. Length = 0
  BY DEF Length
<1>2. ListIs([a \in 1..0 |-> NULL])
  BY SMTT(10), <1>1 DEF ListIs
<1>3. QED
  BY <1>1, <1>2 DEF QueueWellFormed, ListIs

\* Only the holder of the mutex is in the critical section, after every step too.
LEMMA MutexNext == TypeInv /\ MutexHeld /\ [Next]_vars => MutexHeld'
<1> SUFFICES ASSUME TypeInv, MutexHeld, [Next]_vars PROVE MutexHeld'
  OBVIOUS
<1>t. /\ ppc \in [Vcpus -> HasJob \cup {"closed", "guest", "alloc", "out"}]
      /\ NULL \notin Vcpus
  BY PoolAssumption DEF TypeInv, TypeOK
<1>1. CASE ModuleNext
  BY <1>1
  DEF ModuleNext, Register, PoolInit, StartKthread, PoolReclaim, SetStop, StopKthread,
      JoinKthread, prodVars, MutexHeld
<1>2. ASSUME NEW v \in Vcpus, ProducerNext(v) PROVE MutexHeld'
  <2>1. CASE LinkJob(v)
    BY <1>t, <2>1 DEF LinkJob, MutexHeld
  <2>2. CASE NotifyConsumers(v)
    BY <1>t, <2>2 DEF NotifyConsumers, MutexHeld
  <2>3. CASE CountJob(v)
    BY <1>t, <2>3 DEF CountJob, MutexHeld
  <2>4. CASE /\ mutex' = mutex
             /\ ppc[v] \notin {"count", "notify"}
             /\ \E c : /\ ppc' = [ppc EXCEPT ![v] = c]
                       /\ c \notin {"count", "notify"}
    BY <1>t, <2>4 DEF MutexHeld
  <2>5. CASE HypercallDenied(v)
    BY <2>5 DEF HypercallDenied, MutexHeld
  <2>6. CASE OpenVm(v) \/ CloseVm(v) \/ \E op \in Requests : ProduceJob(v, op)
    BY ZenonT(30), <2>4, <2>6 DEF OpenVm, CloseVm, ProduceJob
  <2>7. CASE NumberJob(v) \/ InitJob(v)
    BY ZenonT(30), <2>4, <2>7 DEF NumberJob, InitJob
  <2>a. CASE AllocJob(v)
    <3>1. /\ mutex' = mutex
          /\ ppc[v] = "alloc"
          /\ \E c \in {"number", "init"} : ppc' = [ppc EXCEPT ![v] = c]
      BY <2>a DEF AllocJob
    <3>2. QED
      BY <2>4, <3>1
  <2>8. CASE AwaitJob(v) \/ WriteBack(v) \/ Return(v)
    BY ZenonT(30), <2>4, <2>8 DEF AwaitJob, WriteBack, Return
  <2>9. QED
    BY <1>2, <2>1, <2>2, <2>3, <2>5, <2>6, <2>7, <2>8, <2>a DEF ProducerNext, ProducerStep
<1>3. ASSUME NEW k \in Kthreads, ConsumerNext(k) PROVE MutexHeld'
  BY <1>t, <1>3
  DEF ConsumerNext, KWait, KTake, KProcess, KFinish, KWake, KLoop, WakeProducers,
      prodVars, MutexHeld
<1>4. CASE UNCHANGED vars
  BY <1>4 DEF vars, prodVars, MutexHeld
<1>5. QED
  BY <1>1, <1>2, <1>3, <1>4 DEF Next, Finished

\* A job not yet linked stays as crypto_init_job left it.
LEMMA FreshNext ==
  OwnInv /\ FreshJob /\ MutexHeld /\ ServedAlone /\ QueueWellFormed /\ [Next]_vars => FreshJob'
<1> SUFFICES ASSUME OwnInv, FreshJob, MutexHeld, ServedAlone, QueueWellFormed, [Next]_vars
             PROVE  FreshJob'
  OBVIOUS
<1>t. /\ ppc \in [Vcpus -> HasJob \cup {"closed", "guest", "alloc", "out"}]
      /\ jv \in [Vcpus -> Jobs \cup {NULL}]
      /\ job \in [Jobs -> JobRecord]
      /\ \A v \in Vcpus : ppc[v] \in HasJob => jv[v] \in Jobs
      /\ \A v, w \in Vcpus : jv[v] \in Jobs /\ jv[v] = jv[w] => v = w
      /\ NULL \notin Jobs
  BY ZenonT(30), PoolAssumption DEF OwnInv, JobOwnership, TypeInv, TypeOK, JobHeld
<1> USE DEF FreshJob
<1>1. CASE Register \/ PoolInit \/ StartKthread \/ SetStop \/ StopKthread \/ JoinKthread
  BY <1>1 DEF Register, PoolInit, StartKthread, SetStop, StopKthread, JoinKthread, prodVars
<1>2. CASE PoolReclaim
  BY <1>2 DEF PoolReclaim, prodVars
<1>3. ASSUME NEW v \in Vcpus, NEW op \in Requests, ProduceJob(v, op) PROVE FreshJob'
  BY ZenonT(30), <1>t, <1>3 DEF ProduceJob
<1>4. ASSUME NEW v \in Vcpus,
             OpenVm(v) \/ CloseVm(v) \/ HypercallDenied(v) \/ NumberJob(v)
               \/ CountJob(v) \/ NotifyConsumers(v) \/ AwaitJob(v) \/ WriteBack(v)
      PROVE  FreshJob'
  BY ZenonT(30), <1>t, <1>4
  DEF OpenVm, CloseVm, HypercallDenied, NumberJob, CountJob, NotifyConsumers, AwaitJob,
      WriteBack
<1>5. ASSUME NEW v \in Vcpus, AllocJob(v) PROVE FreshJob'
  BY <1>t, <1>5 DEF AllocJob
<1>6. ASSUME NEW v \in Vcpus, InitJob(v) PROVE FreshJob'
  BY <1>t, <1>6 DEF InitJob, HasJob, Queued
<1>7. ASSUME NEW v \in Vcpus, LinkJob(v) PROVE FreshJob'
  <2>1. ASSUME NEW w \in Vcpus, ppc'[w] \in {"lock", "count", "notify"}
        PROVE  job'[jv'[w]].status = 0
    BY SMTT(10), <1>t, <1>7, <2>1 DEF LinkJob, HasJob, Queued, JobRecord
  <2>2. ASSUME NEW w \in Vcpus, ppc'[w] = "lock"
        PROVE  job'[jv'[w]].next = NULL
    <3>1. w # v /\ ppc[w] = "lock" /\ jv' = jv /\ jv[w] \in Jobs /\ job[jv[w]].next = NULL
      BY <1>t, <1>7, <2>2 DEF LinkJob, HasJob
    <3>2. cq.num # 0 => cq.tail # jv[w]
      <4>1. SUFFICES ASSUME cq.num # 0 PROVE cq.tail # jv[w]
        OBVIOUS
      <4>2. PICK q \in [1..Length -> Jobs] : ListIs(q)
        BY DEF QueueWellFormed
      <4>3. Length \in Nat \ {0}
        <5>1. cq.num \in Nat
          BY QueueFields DEF OwnInv, TypeInv, TypeOK
        <5>2. QED
          BY <4>1, <5>1 DEF Length
      <4>4. cq.tail \in Unserved
        BY SMTT(10), <4>2, <4>3 DEF ListIs
      <4>5. QED
        <5>1. PICK u \in Vcpus : ppc[u] \in Queued /\ jv[u] = cq.tail
          BY <4>4 DEF Unserved
        <5>2. u # w
          BY <3>1, <5>1 DEF Queued
        <5>3. QED
          BY <1>t, <3>1, <5>1, <5>2
    <3>3. QED
      BY ZenonT(30), <1>t, <1>7, <3>1, <3>2 DEF LinkJob
  <2>3. QED
    BY <2>1, <2>2
<1>8. ASSUME NEW v \in Vcpus, Return(v) PROVE FreshJob'
  <2>1. ASSUME NEW w \in Vcpus, ppc'[w] \in {"lock", "count", "notify"}
        PROVE  /\ ppc'[w] = ppc[w] /\ jv'[w] = jv[w] /\ jv[w] \in Jobs
               /\ w # v
    BY <1>t, <1>8, <2>1 DEF Return, HasJob, Queued
  <2>2. \A j \in Jobs : j # jv[v] => job'[j] = job[j]
    BY <1>8 DEF Return, KFree
  <2>3. QED
    BY SMTT(10), <1>t, <2>1, <2>2
<1>9. ASSUME NEW k \in Kthreads, KWait(k) \/ KLoop(k) \/ KWake(k) PROVE FreshJob'
  <2>1. CASE KWait(k) \/ KLoop(k)
    BY <2>1 DEF KWait, KLoop, prodVars
  <2>2. CASE KWake(k)
    BY <1>t, <2>2 DEF KWake, WakeProducers
  <2>3. QED
    BY <1>9, <2>1, <2>2
<1>10. ASSUME NEW k \in Kthreads, KTake(k) PROVE FreshJob'
  <2>1. job' = job \/ job' = [job EXCEPT ![cq.head].next = NULL]
    BY <1>10 DEF KTake
  <2>2. \A j \in Jobs : /\ job'[j].status = job[j].status
                        /\ job[j].next = NULL => job'[j].next = NULL
    BY SMTT(10), <1>t, <2>1 DEF JobRecord
  <2>3. QED
    BY <1>t, <1>10, <2>2 DEF KTake, prodVars, HasJob, Queued
<1>11. ASSUME NEW k \in Kthreads, KProcess(k) \/ KFinish(k) PROVE FreshJob'
  <2>1. k \in Serving
    BY <1>11 DEF KProcess, KFinish, Serving
  <2>2. \A w \in Vcpus : ppc[w] \in {"lock", "count", "notify"} => jv[w] # nj[k]
    <3>1. PICK u \in Vcpus : ppc[u] \in {"wait", "asleep"} /\ jv[u] = nj[k]
      BY <2>1 DEF ServedAlone
    <3>2. jv[u] \in Jobs
      BY <1>t, <3>1 DEF HasJob, Queued
    <3>3. QED
      BY <1>t, <3>1, <3>2
  <2>3. \A j \in Jobs : j # nj[k] => job'[j] = job[j]
    BY <1>t, <1>11 DEF KProcess, KFinish
  <2>4. QED
    BY SMTT(10), <1>t, <1>11, <2>2, <2>3 DEF KProcess, KFinish, prodVars, HasJob, Queued
<1>12. CASE UNCHANGED vars
  BY <1>12 DEF vars, prodVars
<1>13. QED
  BY <1>1, <1>2, <1>3, <1>4, <1>5, <1>6, <1>7, <1>8, <1>9, <1>10, <1>11, <1>12
  DEF Next, ModuleNext, ProducerNext, ProducerStep, ConsumerNext, Finished

\* The facts about types and ownership that the steps below use.
LEMMA PoolFacts ==
  ASSUME OwnInv
  PROVE  /\ ppc \in [Vcpus -> HasJob \cup {"closed", "guest", "alloc", "out"}]
         /\ jv \in [Vcpus -> Jobs \cup {NULL}]
         /\ job \in [Jobs -> JobRecord]
         /\ \A j \in Jobs : job[j].status \in {0, 1}
         /\ kpc \in [Kthreads -> {"none", "wait", "asleep", "take", "process",
                                  "finish", "wake", "loop", "dead"}]
         /\ nj \in [Kthreads -> Jobs \cup {NULL}]
         /\ cq \in CryptoQueue
         /\ cq.num \in Nat
         /\ \A v \in Vcpus : ppc[v] \in HasJob => jv[v] \in Jobs
         /\ \A v, w \in Vcpus : jv[v] \in Jobs /\ jv[v] = jv[w] => v = w
         /\ NULL \notin Jobs
<1>1. /\ TypeOK
      /\ NULL \notin Jobs
  BY PoolAssumption DEF OwnInv, TypeInv
<1>2. \A j \in Jobs : job[j].status \in {0, 1}
  BY <1>1, JobFields DEF TypeOK
<1>3. cq.num \in Nat
  BY <1>1, QueueFields DEF TypeOK
<1>4. QED
  BY <1>1, <1>2, <1>3 DEF OwnInv, JobOwnership, TypeInv, TypeOK, JobHeld

\* The place after one that is not the last.
LEMMA NextInRange ==
  ASSUME NEW n \in Nat, NEW a \in 1..(n - 1), a # n - 1
  PROVE  a + 1 \in 1..(n - 1)
  OBVIOUS

\* Assigning a next field leaves everything else of the jobs alone.
LEMMA NextOnly ==
  ASSUME NEW f \in [Jobs -> JobRecord], NEW j, NEW n
  PROVE  /\ \A i \in Jobs : /\ [f EXCEPT ![j].next = n][i].status = f[i].status
                            /\ i # j => [f EXCEPT ![j].next = n][i] = f[i]
         /\ j \in Jobs => [f EXCEPT ![j].next = n][j].next = n
  BY DEF JobRecord

\* crypto_produce_job's insertion appends its job to the list.
LEMMA LinkQueue ==
  ASSUME QInv, NEW v \in Vcpus, LinkJob(v)
  PROVE  ServedAlone' /\ QueueWellFormed'
<1>t. OwnInv
  BY DEF QInv
<1> USE PoolFacts, <1>t
<1>1. /\ ppc[v] = "lock" /\ mutex = NULL
      /\ ppc' = [ppc EXCEPT ![v] = "count"]
      /\ UNCHANGED <<jv, kpc, nj>>
      /\ jv[v] \in Jobs
      /\ job[jv[v]].status = 0 /\ job[jv[v]].next = NULL
  BY DEF LinkJob, consVars, QInv, FreshJob, HasJob
<1>2. \A w \in Vcpus : ppc[w] \notin {"count", "notify"}
  BY <1>1, PoolAssumption DEF QInv, MutexHeld
<1>3. Length = cq.num /\ Length' = cq.num + 1 /\ cq'.num = cq.num
  <2>1. cq'.num = cq.num
    BY ZenonT(30) DEF LinkJob, CryptoQueue
  <2>2. QED
    BY SMTT(10), <1>1, <1>2, <2>1 DEF Length
<1>4. PICK q \in [1..Length -> Jobs] : ListIs(q)
  BY DEF QInv, QueueWellFormed
<1>5. \A j \in Jobs : job'[j].status = job[j].status
  <2>1. job' = job \/ job' = [job EXCEPT ![cq.tail].next = jv[v]]
    BY DEF LinkJob
  <2>2. \A j \in Jobs : [job EXCEPT ![cq.tail].next = jv[v]][j].status = job[j].status
    BY SMTT(10), NextOnly
  <2>3. QED
    BY <2>1, <2>2
<1>6. Serving' = Serving
  BY <1>1 DEF Serving
<1>7. \A k \in Serving : nj[k] # jv[v]
  <2>1. SUFFICES ASSUME NEW k \in Serving, nj[k] = jv[v] PROVE FALSE
    OBVIOUS
  <2>2. PICK w \in Vcpus : ppc[w] \in {"wait", "asleep"} /\ jv[w] = nj[k]
    BY DEF QInv, ServedAlone
  <2>3. w = v
    BY <1>1, <2>1, <2>2
  <2>4. QED
    BY <1>1, <2>2, <2>3
<1>8. ServedAlone'
  <2>1. SUFFICES ASSUME NEW k \in Serving
                 PROVE /\ \E w \in Vcpus : /\ ppc'[w] \in {"wait", "asleep"}
                                           /\ jv[w] = nj[k]
                                           /\ job'[nj[k]].status = 0
                       /\ \A l \in Serving : nj[l] = nj[k] => l = k
    BY SMTT(10), <1>1, <1>6 DEF ServedAlone
  <2>2. PICK w \in Vcpus : /\ ppc[w] \in {"wait", "asleep"} /\ jv[w] = nj[k]
                           /\ job[nj[k]].status = 0
    BY DEF QInv, ServedAlone
  <2>3. w # v /\ jv[w] \in Jobs
    BY <1>1, <2>2 DEF HasJob, Queued
  <2>4. ppc'[w] = ppc[w]
    BY ZenonT(30), <1>1, <2>3
  <2>5. QED
    BY ZenonT(30), <1>5, <2>2, <2>3, <2>4 DEF QInv, ServedAlone
<1>9. Unserved' = Unserved \cup {jv[v]}
  <2>1. \A w \in Vcpus : ppc[w] \in Queued => jv[w] \in Jobs
    BY ZenonT(30) DEF HasJob
  <2>2. {u \in Vcpus : ppc'[u] \in Queued /\ job'[jv'[u]].status = 0}
          = {u \in Vcpus : ppc[u] \in Queued /\ job[jv[u]].status = 0} \cup {v}
    BY SMTT(10), <1>1, <1>5, <2>1 DEF Queued
  <2>3. QED
    BY SMTT(10), <1>1, <1>6, <1>7, <2>2 DEF Unserved
<1>10. jv[v] \notin Unserved
  <2>1. SUFFICES ASSUME jv[v] \in Unserved PROVE FALSE
    OBVIOUS
  <2>2. PICK u \in Vcpus : ppc[u] \in Queued /\ jv[u] = jv[v]
    BY <2>1 DEF Unserved
  <2>3. u = v
    BY <1>1, <2>2
  <2>4. QED
    BY <1>1, <2>2, <2>3 DEF Queued
<1>p. PICK p \in [1..(cq.num + 1) -> Jobs] :
        /\ p[cq.num + 1] = jv[v]
        /\ \A a \in 1..cq.num : p[a] = q[a]
  <2> DEFINE r == [a \in 1..(cq.num + 1) |-> IF a = cq.num + 1 THEN jv[v] ELSE q[a]]
  <2>1. r \in [1..(cq.num + 1) -> Jobs]
    BY SMTT(10), <1>1, <1>3
  <2>2. r[cq.num + 1] = jv[v]
    BY SMTT(10)
  <2>3. \A a \in 1..cq.num : r[a] = q[a]
    BY SMTT(10)
  <2> HIDE DEF r
  <2>4. QED
    BY ZenonT(30), <2>1, <2>2, <2>3
<1>11. ListIs(p)'
  <2>2. \A a \in 1..cq.num : q[a] \in Unserved /\ q[a] # jv[v]
    BY SMTT(10), <1>3, <1>4, <1>10 DEF ListIs
  <2>3. \A a, b \in 1..(cq.num + 1) : p[a] = p[b] => a = b
    BY SMTT(10), <1>3, <1>4, <1>p, <2>2 DEF ListIs
  <2>4. cq'.tail = jv[v] /\ cq'.head = p[1]
    <3>1. CASE cq.num = 0
      <4>1. p[1] = jv[v]
        BY SMTT(10), <1>p, <3>1
      <4>2. cq' = [cq EXCEPT !.head = jv[v], !.tail = jv[v]]
        BY <3>1 DEF LinkJob
      <4>3. QED
        BY <4>1, <4>2 DEF CryptoQueue
    <3>2. CASE cq.num # 0
      <4>1. cq.head = q[1]
        BY <1>3, <1>4, <3>2 DEF ListIs
      <4>2. QED
        BY SMTT(10), <1>p, <3>2, <4>1 DEF LinkJob, CryptoQueue
    <3>3. QED
      BY <3>1, <3>2
  <2>5. \A a \in 1..(cq.num + 1) :
          job'[p[a]].next = IF a = cq.num + 1 THEN NULL ELSE p[a + 1]
    <3>1. CASE cq.num = 0
      BY SMTT(10), <1>1, <1>p, <3>1 DEF LinkJob
    <3>2. CASE cq.num # 0
      <4>1. cq.tail = q[cq.num] /\ job' = [job EXCEPT ![cq.tail].next = jv[v]]
        BY <1>3, <1>4, <3>2 DEF ListIs, LinkJob
      <4>2. job'[jv[v]].next = NULL
        BY SMTT(10), <1>1, <2>2, <3>2, <4>1
      <4>3. job'[q[cq.num]].next = jv[v]
        BY SMTT(10), <1>3, <3>2, <4>1, NextOnly
      <4>4. \A a \in 1..(cq.num - 1) : job'[q[a]] = job[q[a]]
        BY SMTT(10), <1>3, <1>4, <3>2, <4>1 DEF ListIs
      <4>5. \A a \in 1..(cq.num - 1) : job[q[a]].next = q[a + 1]
        BY SMTT(10), <1>3, <1>4, <3>2 DEF ListIs
      <4>6. QED
        <5>1. SUFFICES ASSUME NEW a \in 1..(cq.num + 1)
                       PROVE job'[p[a]].next = IF a = cq.num + 1 THEN NULL ELSE p[a + 1]
          OBVIOUS
        <5>2. CASE a = cq.num + 1
          BY <1>p, <4>2, <5>2
        <5>3. CASE a = cq.num
          BY SMTT(10), <1>p, <3>2, <4>3, <5>3
        <5>4. CASE a \in 1..(cq.num - 1)
          <6>1. a \in 1..cq.num /\ a + 1 \in 1..cq.num /\ a # cq.num + 1
            BY SMTT(10), <5>4
          <6>2. p[a] = q[a] /\ p[a + 1] = q[a + 1]
            BY <1>p, <6>1
          <6>3. QED
            BY ZenonT(30), <4>4, <4>5, <5>4, <6>1, <6>2
        <5>5. QED
          BY SMTT(30), <3>2, <5>2, <5>3, <5>4
    <3>3. QED
      BY <3>1, <3>2
  <2>6. {p[a] : a \in 1..(cq.num + 1)} = Unserved'
    <3>1. {q[a] : a \in 1..cq.num} = Unserved
      BY <1>3, <1>4 DEF ListIs
    <3>2. {p[a] : a \in 1..(cq.num + 1)} = {q[a] : a \in 1..cq.num} \cup {jv[v]}
      <4>1. 1..(cq.num + 1) = 1..cq.num \cup {cq.num + 1}
        BY SMTT(10)
      <4>2. {p[a] : a \in 1..(cq.num + 1)}
              = {p[a] : a \in 1..cq.num} \cup {p[cq.num + 1]}
        BY SMTT(10), <4>1
      <4>3. {p[a] : a \in 1..cq.num} = {q[a] : a \in 1..cq.num}
        <5>1. \A a \in 1..cq.num : p[a] = q[a]
          BY <1>p
        <5>2. \A x : x \in {p[a] : a \in 1..cq.num} <=> x \in {q[a] : a \in 1..cq.num}
          BY SMTT(30), <5>1
        <5>3. QED
          BY <5>2
      <4>4. QED
        BY <1>p, <4>2, <4>3
    <3>3. QED
      BY <1>9, <3>1, <3>2
  <2>7. QED
    <3>1. Length' = cq.num + 1 /\ Length' # 0 /\ p[Length'] = jv[v]
      BY SMTT(30), <1>3, <1>p
    <3>2. QED
      BY <1>p, <2>3, <2>4, <2>5, <2>6, <3>1 DEF ListIs
<1>12. QueueWellFormed'
  BY <1>11 DEF QueueWellFormed, ListIs
<1>13. QED
  BY <1>8, <1>12

\* crypto_consume_job's removal takes the first job of the list, whose vCPU is
\* waiting, and no other kthread has it.
LEMMA TakeQueue ==
  ASSUME QInv, NEW k \in Kthreads, KTake(k), cq.num > 0
  PROVE  ServedAlone' /\ QueueWellFormed'
<1>t. OwnInv
  BY DEF QInv
<1> USE PoolFacts, <1>t
<1>1. /\ kpc[k] = "take" /\ mutex = NULL /\ cq.head # NULL
      /\ nj' = [nj EXCEPT ![k] = cq.head]
      /\ kpc' = [kpc EXCEPT ![k] = "process"]
      /\ job' = [job EXCEPT ![cq.head].next = NULL]
      /\ cq' = [cq EXCEPT !.head = job[cq.head].next, !.num = cq.num - 1,
                          !.tail = IF cq.num = 1 THEN NULL ELSE cq.tail]
      /\ UNCHANGED <<ppc, jv>>
  BY DEF KTake, prodVars
<1>2. \A w \in Vcpus : ppc[w] \notin {"count", "notify"}
  BY <1>1, PoolAssumption DEF QInv, MutexHeld
<1>3. /\ Length = cq.num /\ Length' = cq.num - 1
      /\ cq'.num = cq.num - 1 /\ cq'.head = job[cq.head].next
      /\ cq'.tail = IF cq.num = 1 THEN NULL ELSE cq.tail
  <2>1. /\ cq'.num = cq.num - 1 /\ cq'.head = job[cq.head].next
        /\ cq'.tail = IF cq.num = 1 THEN NULL ELSE cq.tail
    BY <1>1 DEF CryptoQueue
  <2>2. QED
    BY SMTT(10), <1>1, <1>2, <2>1 DEF Length
<1>n. cq.num \in Nat /\ cq.num > 0
  OBVIOUS
<1>4. PICK q \in [1..cq.num -> Jobs] : ListIs(q)
  BY <1>3 DEF QInv, QueueWellFormed
<1>5. /\ cq.head = q[1]
      /\ q[1] \in Unserved
      /\ q[1] \in Jobs
  BY SMTT(10), <1>3, <1>4 DEF ListIs
<1>6. PICK u \in Vcpus : /\ ppc[u] \in {"wait", "asleep"} /\ jv[u] = q[1]
                         /\ job[q[1]].status = 0
  BY <1>2, <1>5 DEF Unserved, Queued
<1>7. \A l \in Serving : nj[l] # q[1]
  BY <1>5 DEF Unserved
<1>8. \A j \in Jobs : /\ job'[j].status = job[j].status
                      /\ j # q[1] => job'[j] = job[j]
  BY SMTT(10), <1>1, <1>5, NextOnly
<1>9. Serving' = Serving \cup {k} /\ k \notin Serving /\ nj'[k] = q[1]
  BY SMTT(10), <1>1, <1>5 DEF Serving
<1>10. \A l \in Serving : nj'[l] = nj[l]
  BY ZenonT(30), <1>1, <1>9 DEF Serving
<1>11. ServedAlone'
  <2>1. ASSUME NEW l \in Serving
        PROVE  \E v \in Vcpus : /\ ppc'[v] \in {"wait", "asleep"} /\ jv'[v] = nj'[l]
                                /\ job'[nj'[l]].status = 0
    <3>1. PICK v \in Vcpus : /\ ppc[v] \in {"wait", "asleep"} /\ jv[v] = nj[l]
                             /\ job[nj[l]].status = 0
      BY DEF QInv, ServedAlone
    <3>2. jv[v] \in Jobs
      BY <3>1 DEF HasJob, Queued
    <3>3. QED
      BY SMTT(10), <1>1, <1>8, <1>10, <3>1, <3>2
  <2>2. \E v \in Vcpus : /\ ppc'[v] \in {"wait", "asleep"} /\ jv'[v] = nj'[k]
                         /\ job'[nj'[k]].status = 0
    BY SMTT(10), <1>1, <1>5, <1>6, <1>8, <1>9
  <2>3. \A l, m \in Serving' : nj'[l] = nj'[m] => l = m
    BY SMTT(10), <1>7, <1>9, <1>10 DEF QInv, ServedAlone
  <2>4. QED
    BY ZenonT(30), <1>9, <2>1, <2>2, <2>3 DEF ServedAlone
<1>12. Unserved' = Unserved \ {q[1]}
  <2>1. \A w \in Vcpus : ppc[w] \in Queued => jv[w] \in Jobs
    BY DEF HasJob
  <2>2. {w \in Vcpus : ppc'[w] \in Queued /\ job'[jv'[w]].status = 0}
          = {w \in Vcpus : ppc[w] \in Queued /\ job[jv[w]].status = 0}
    BY SMTT(10), <1>1, <1>8, <2>1
  <2> DEFINE Waits(x)  == \E w \in Vcpus : ppc[w] \in Queued /\ job[jv[w]].status = 0
                                              /\ x = jv[w]
             Waits2(x) == \E w \in Vcpus : ppc'[w] \in Queued /\ job'[jv'[w]].status = 0
                                              /\ x = jv'[w]
             Free(x)   == \A l \in Serving : x # nj[l]
             Free2(x)  == \A l \in Serving' : x # nj'[l]
  <2>3. \A x : x \in Unserved <=> Waits(x) /\ Free(x)
    BY DEF Unserved
  <2>4. \A x : x \in Unserved' <=> Waits2(x) /\ Free2(x)
    BY DEF Unserved
  <2>5. \A x : Free2(x) <=> Free(x) /\ x # q[1]
    BY <1>9, <1>10
  <2>6. \A x : Waits2(x) <=> Waits(x)
    BY ZenonT(30), <1>1, <2>2
  <2> HIDE DEF Waits, Waits2, Free, Free2
  <2>7. \A x : x \in Unserved' <=> x \in Unserved /\ x # q[1]
    BY <2>3, <2>4, <2>5, <2>6
  <2>8. QED
    BY <2>7
<1>p. PICK p \in [1..(cq.num - 1) -> Jobs] : \A a \in 1..(cq.num - 1) : p[a] = q[a + 1]
  <2> DEFINE r == [a \in 1..(cq.num - 1) |-> q[a + 1]]
  <2>1. r \in [1..(cq.num - 1) -> Jobs]
    BY SMTT(10)
  <2>2. \A a \in 1..(cq.num - 1) : r[a] = q[a + 1]
    OBVIOUS
  <2> HIDE DEF r
  <2>3. QED
    BY <2>1, <2>2
<1>13. ListIs(p)'
  <2>0. \A a \in 1..(cq.num - 1) : a \in 1..cq.num /\ a + 1 \in 1..cq.num
    BY SMTT(10)
  <2>1. \A a, b \in 1..(cq.num - 1) : p[a] = p[b] => a = b
    <3>1. \A a, b \in 1..cq.num : q[a] = q[b] => a = b
      BY <1>3, <1>4 DEF ListIs
    <3>2. QED
      BY SMTT(10), <1>p, <2>0, <3>1
  <2>2. \A a \in 1..cq.num : job[q[a]].next = IF a = cq.num THEN NULL ELSE q[a + 1]
    BY <1>3, <1>4 DEF ListIs
  <2>3. \A a \in 1..(cq.num - 1) : p[a] # q[1]
    <3>1. \A a, b \in 1..cq.num : q[a] = q[b] => a = b
      BY <1>3, <1>4 DEF ListIs
    <3>2. QED
      BY SMTT(10), <1>p, <2>0, <3>1
  <2>4. cq'.head = IF cq.num - 1 = 0 THEN NULL ELSE p[1]
    <3>1. job[q[1]].next = IF 1 = cq.num THEN NULL ELSE q[2]
      <4>1. 1 \in 1..cq.num /\ 1 + 1 = 2
        BY SMTT(10), <1>n
      <4>2. QED
        BY <2>2, <4>1
    <3>2. cq.num # 1 => p[1] = q[2]
      BY SMTT(10), <1>p
    <3>3. QED
      BY SMTT(10), <1>3, <1>5, <3>1, <3>2
  <2>5. cq'.tail = IF cq.num - 1 = 0 THEN NULL ELSE p[cq.num - 1]
    <3>1. cq.tail = q[cq.num]
      BY SMTT(10), <1>3, <1>4 DEF ListIs
    <3>2. cq.num # 1 => p[cq.num - 1] = q[cq.num]
      BY SMTT(10), <1>p
    <3>3. QED
      BY SMTT(10), <1>3, <3>1, <3>2
  <2>6. \A a \in 1..(cq.num - 1) :
          job'[p[a]].next = IF a = cq.num - 1 THEN NULL ELSE p[a + 1]
    <3>1. SUFFICES ASSUME NEW a \in 1..(cq.num - 1)
                   PROVE job'[p[a]].next = IF a = cq.num - 1 THEN NULL ELSE p[a + 1]
      BY ZenonT(30)
    <3>2. job'[p[a]].next = job[q[a + 1]].next
      BY SMTT(10), <1>p, <1>8, <2>3
    <3>3. job[q[a + 1]].next = IF a + 1 = cq.num THEN NULL ELSE q[(a + 1) + 1]
      BY <2>0, <2>2
    <3>4. a # cq.num - 1 => a + 1 \in 1..(cq.num - 1)
      BY <1>n, NextInRange
    <3>5. a # cq.num - 1 => p[a + 1] = q[(a + 1) + 1]
      BY <1>p, <3>4
    <3>6. QED
      BY SMTT(10), <3>2, <3>3, <3>5
  <2>7. {p[a] : a \in 1..(cq.num - 1)} = Unserved'
    <3>1. {q[a] : a \in 1..cq.num} = Unserved
      BY <1>3, <1>4 DEF ListIs
    <3>2. ASSUME NEW a \in 1..(cq.num - 1) PROVE p[a] \in Unserved \ {q[1]}
      BY SMTT(10), <1>p, <2>0, <2>3, <3>1
    <3>3. ASSUME NEW x \in Unserved \ {q[1]} PROVE \E a \in 1..(cq.num - 1) : x = p[a]
      <4>1. PICK b \in 1..cq.num : x = q[b]
        BY <3>1, <3>3
      <4>2. b - 1 \in 1..(cq.num - 1) /\ (b - 1) + 1 = b
        BY SMTT(10), <4>1, <3>3
      <4>3. p[b - 1] = q[b]
        BY <1>p, <4>2
      <4>4. QED
        BY <4>1, <4>2, <4>3
    <3>4. QED
      BY SMTT(10), <1>12, <3>2, <3>3
  <2>8. QED
    BY <1>3, <1>p, <2>1, <2>4, <2>5, <2>6, <2>7 DEF ListIs
<1>14. QueueWellFormed'
  BY <1>13 DEF QueueWellFormed, ListIs
<1>15. QED
  BY <1>11, <1>14

\* Steps of the module thread.
LEMMA ModuleQueue == QInv /\ ModuleNext => ServedAlone' /\ QueueWellFormed'
<1> SUFFICES ASSUME QInv, ModuleNext PROVE ServedAlone' /\ QueueWellFormed'
  OBVIOUS
<1>t. OwnInv /\ LifeInv /\ ServedAlone /\ QueueWellFormed
  BY DEF QInv
<1> USE PoolFacts, <1>t
<1>1. CASE /\ \A v \in Vcpus : ppc[v] = "closed"
           /\ UNCHANGED <<ppc, jv, kpc, nj>>
           /\ cq'.num = 0 /\ cq'.head = NULL /\ cq'.tail = NULL
  <2>1. Serving = {} /\ Serving' = {}
    BY <1>1, IdlePool DEF Serving
  <2>2. Unserved' = {}
    BY ZenonT(30), <1>1 DEF Unserved, Queued
  <2>3. Length' = 0
    BY SMTT(10), <1>1 DEF Length
  <2>4. ListIs([a \in 1..0 |-> NULL])'
    BY SMTT(10), <1>1, <2>2, <2>3 DEF ListIs
  <2>5. QED
    BY ZenonT(30), <2>1, <2>3, <2>4 DEF ServedAlone, QueueWellFormed, ListIs
<1>2. CASE /\ UNCHANGED <<ppc, jv, job, nj>>
           /\ Serving' = Serving
           /\ cq'.num = cq.num /\ cq'.head = cq.head /\ cq'.tail = cq.tail
  <2>1. Length' = Length
    BY <1>2 DEF Length
  <2>2. QED
    BY <1>2, <2>1, Undisturbed
<1>3. CASE Register
  <2>1. CASE cq' = cq
    BY <1>2, <1>3, <2>1 DEF Register, prodVars, consVars, Serving
  <2>2. CASE cq' = EmptyQueue
    <3>1. \A v \in Vcpus : ppc[v] = "closed"
      BY <1>3 DEF Register, OwnInv, ModuleInUse
    <3>2. QED
      BY <1>1, <1>3, <2>2, <3>1 DEF Register, prodVars, consVars, EmptyQueue
  <2>3. QED
    BY <1>3, <2>1, <2>2 DEF Register
<1>4. CASE PoolInit
  <2>1. \A v \in Vcpus : ppc[v] = "closed"
    BY <1>4 DEF PoolInit, OwnInv, ModuleInUse
  <2>2. QED
    BY <1>1, <1>4, <2>1 DEF PoolInit, prodVars, consVars, EmptyQueue
<1>5. CASE StartKthread
  <2>1. kpc[ki] = "none" /\ ki \in Kthreads
    BY SMTT(10), <1>5 DEF StartKthread, LifeInv, KthreadLife, TypeInv, TypeOK, Kthreads
  <2>2. Serving' = Serving
    BY <1>5, <2>1 DEF StartKthread, Serving
  <2>3. QED
    BY <1>2, <1>5, <2>2 DEF StartKthread, prodVars
<1>6. CASE PoolReclaim
  <2>1. cq'.num = 0 /\ cq'.head = NULL /\ cq'.tail = NULL
    BY <1>6 DEF PoolReclaim, CryptoQueue
  <2>2. QED
    BY <1>1, <1>6, <2>1 DEF PoolReclaim, prodVars, consVars
<1>7. CASE SetStop
  <2>1. cq'.num = cq.num /\ cq'.head = cq.head /\ cq'.tail = cq.tail
    BY <1>7 DEF SetStop, CryptoQueue
  <2>2. QED
    BY <1>2, <1>7, <2>1 DEF SetStop, prodVars, consVars, Serving
<1>8. CASE StopKthread
  <2>1. Serving' = Serving
    BY <1>8 DEF StopKthread, WakeConsumers, Serving
  <2>2. QED
    BY <1>2, <1>8, <2>1 DEF StopKthread, prodVars
<1>9. CASE JoinKthread
  <2>1. Serving' = Serving
    BY <1>9 DEF JoinKthread, Serving
  <2>2. QED
    BY <1>2, <1>9, <2>1 DEF JoinKthread, prodVars
<1>10. QED
  BY <1>3, <1>4, <1>5, <1>6, <1>7, <1>8, <1>9 DEF ModuleNext

\* Steps of a vCPU thread.
LEMMA ProducerQueue ==
  ASSUME QInv, NEW v \in Vcpus, ProducerNext(v)
  PROVE  ServedAlone' /\ QueueWellFormed'
<1>t. OwnInv /\ ServedAlone /\ QueueWellFormed
  BY DEF QInv
<1> USE PoolFacts, <1>t
\* Outside the queue a vCPU disturbs nothing, whatever it does to its own job.
<1>1. CASE /\ ppc[v] \notin Queued
           /\ \E c \in {"guest", "closed", "alloc", "number", "init", "lock", "out"} :
                ppc' = [ppc EXCEPT ![v] = c]
           /\ \A w \in Vcpus : w # v => jv'[w] = jv[w]
           /\ \A j \in Jobs : j # jv[v] => job'[j] = job[j]
           /\ UNCHANGED <<kpc, nj, cq>>
  <2>1. PICK c : ppc' = [ppc EXCEPT ![v] = c] /\ c \notin Queued
    BY <1>1 DEF Queued
  <2>2. \A w \in Vcpus : ppc[w] \in Queued =>
          /\ w # v /\ ppc'[w] = ppc[w] /\ jv'[w] = jv[w] /\ jv[w] \in Jobs
          /\ jv[w] # jv[v] /\ job'[jv[w]] = job[jv[w]]
    BY ZenonT(30), <1>1, <2>1 DEF HasJob
  <2>3. \A w \in Vcpus : ppc'[w] \in Queued => ppc[w] \in Queued
    BY <1>1, <2>1
  <2>4. Serving' = Serving
    BY <1>1 DEF Serving
  <2>5. Length' = Length
    BY <1>1, <2>1 DEF Length, Queued
  <2>6. QED
    BY ZenonT(30), <1>1, <2>2, <2>3, <2>4, <2>5, Undisturbed
<1>2. CASE OpenVm(v) \/ CloseVm(v) \/ \E op \in Requests : ProduceJob(v, op)
  <2>1. /\ ppc[v] \in {"closed", "guest"}
        /\ \E c \in {"guest", "closed", "alloc", "out"} : ppc' = [ppc EXCEPT ![v] = c]
        /\ UNCHANGED <<jv, job, kpc, nj, cq>>
    BY <1>2 DEF OpenVm, CloseVm, ProduceJob, consVars
  <2>2. QED
    BY <1>1, <2>1 DEF Queued
<1>3. CASE HypercallDenied(v)
  <2>1. UNCHANGED <<ppc, jv, job, kpc, nj, cq>>
    BY <1>3 DEF HypercallDenied, consVars
  <2>2. Serving' = Serving /\ Length' = Length
    BY <2>1 DEF Serving, Length
  <2>3. QED
    BY <2>1, <2>2, Undisturbed
<1>4. CASE AllocJob(v)
  <2>1. PICK j \in Jobs \ alloc : jv' = [jv EXCEPT ![v] = j]
    BY <1>4 DEF AllocJob
  <2>2. \A w \in Vcpus : w # v => jv'[w] = jv[w]
    BY <2>1
  <2>3. QED
    <3>1. /\ ppc[v] = "alloc"
          /\ \E c \in {"number", "init"} : ppc' = [ppc EXCEPT ![v] = c]
          /\ UNCHANGED <<job, kpc, nj, cq>>
      BY <1>4 DEF AllocJob, consVars
    <3>2. QED
      BY <1>1, <2>2, <3>1 DEF Queued
<1>n. CASE NumberJob(v)
  <2>1. ppc[v] = "number" /\ ppc' = [ppc EXCEPT ![v] = "init"]
        /\ UNCHANGED <<jv, job, kpc, nj, cq>>
    BY <1>n DEF NumberJob, consVars
  <2>2. QED
    BY <1>1, <2>1 DEF Queued
<1>5. CASE InitJob(v)
  <2>1. \A j \in Jobs : j # jv[v] => job'[j] = job[j]
    BY <1>5 DEF InitJob
  <2>2. QED
    <3>1. ppc[v] = "init" /\ ppc' = [ppc EXCEPT ![v] = "lock"]
          /\ UNCHANGED <<jv, kpc, nj, cq>>
      BY <1>5 DEF InitJob, consVars
    <3>2. QED
      BY <1>1, <2>1, <3>1 DEF Queued
<1>6. CASE LinkJob(v)
  BY <1>6, LinkQueue
<1>7. CASE WriteBack(v)
  <2>1. ppc[v] = "copy" /\ ppc' = [ppc EXCEPT ![v] = "out"]
        /\ UNCHANGED <<jv, job, kpc, nj, cq>>
    BY <1>7 DEF WriteBack, consVars
  <2>2. QED
    BY <1>1, <2>1 DEF Queued
<1>8. CASE Return(v)
  <2>1. \A j \in Jobs : j # jv[v] => job'[j] = job[j]
    BY <1>8 DEF Return, KFree
  <2>2. \A w \in Vcpus : w # v => jv'[w] = jv[w]
    BY <1>8 DEF Return
  <2>3. QED
    <3>1. ppc[v] = "out" /\ ppc' = [ppc EXCEPT ![v] = "guest"]
          /\ UNCHANGED <<kpc, nj, cq>>
      BY <1>8 DEF Return, consVars
    <3>2. QED
      BY <1>1, <2>1, <2>2, <3>1 DEF Queued
<1>9. CASE CountJob(v)
  <2>1. /\ ppc[v] = "count" /\ ppc' = [ppc EXCEPT ![v] = "notify"]
        /\ UNCHANGED <<jv, job, kpc, nj>>
    BY <1>9 DEF CountJob, consVars
  <2>2. cq'.num = cq.num + 1 /\ cq'.head = cq.head /\ cq'.tail = cq.tail
    BY <1>9 DEF CountJob, CryptoQueue
  <2>3. \A w \in Vcpus : ppc[w] = "count" => w = v
    BY <2>1 DEF QInv, MutexHeld
  <2>4. Length = cq.num + 1
    BY <2>1 DEF Length
  <2>5. \A w \in Vcpus : ppc'[w] # "count"
    BY <2>1, <2>3
  <2>6. Length' = cq.num + 1
    BY SMTT(10), <2>2, <2>5 DEF Length
  <2>7. Serving' = Serving
    BY <2>1 DEF Serving
  <2>8. \A w \in Vcpus : /\ ppc'[w] \in Queued <=> ppc[w] \in Queued
                         /\ ppc[w] \in {"wait", "asleep"} => ppc'[w] = ppc[w]
    BY <2>1 DEF Queued
  <2>9. QED
    BY <2>1, <2>2, <2>4, <2>6, <2>7, <2>8, Undisturbed
<1>10. CASE NotifyConsumers(v)
  <2>1. /\ ppc[v] = "notify" /\ ppc' = [ppc EXCEPT ![v] = "wait"]
        /\ UNCHANGED <<jv, job, nj, cq>>
        /\ kpc' = WakeConsumers
    BY <1>10 DEF NotifyConsumers
  <2>2. Serving' = Serving
    BY <2>1 DEF Serving, WakeConsumers
  <2>3. Length' = Length
    BY <2>1 DEF Length
  <2>4. \A w \in Vcpus : /\ ppc'[w] \in Queued <=> ppc[w] \in Queued
                         /\ ppc[w] \in {"wait", "asleep"} => ppc'[w] = ppc[w]
    BY <2>1 DEF Queued
  <2>5. QED
    BY <2>1, <2>2, <2>3, <2>4, Undisturbed
<1>11. CASE AwaitJob(v)
  <2>1. /\ ppc[v] = "wait"
        /\ ppc' = [ppc EXCEPT ![v] = IF job[jv[v]].status = 1 THEN "copy" ELSE "asleep"]
        /\ UNCHANGED <<jv, job, kpc, nj, cq>>
    BY <1>11 DEF AwaitJob, consVars
  <2>2. Serving' = Serving
    BY <2>1 DEF Serving
  <2>3. Length' = Length
    BY <2>1 DEF Length
  <2>4. \A w \in Vcpus :
          /\ ppc'[w] \in Queued => ppc[w] \in Queued
          /\ ppc[w] \in Queued /\ job[jv[w]].status = 0
               => /\ ppc'[w] \in Queued
                  /\ ppc[w] \in {"wait", "asleep"} => ppc'[w] \in {"wait", "asleep"}
    BY SMTT(10), <2>1 DEF Queued
  <2>5. QED
    BY <2>1, <2>2, <2>3, <2>4, Undisturbed
<1>12. QED
  BY <1>2, <1>3, <1>4, <1>n, <1>5, <1>6, <1>7, <1>8, <1>9, <1>10, <1>11
  DEF ProducerNext, ProducerStep

\* nj->status = 1: the finished job leaves the set of pending jobs, to which
\* it did not count as unserved before.
LEMMA FinishQueue ==
  ASSUME QInv, NEW k \in Kthreads, KFinish(k)
  PROVE  ServedAlone' /\ QueueWellFormed'
<1>t. OwnInv /\ ServedAlone /\ QueueWellFormed
  BY DEF QInv
<1> USE PoolFacts, <1>t
<1>1. /\ kpc[k] = "finish" /\ k \in Serving
      /\ job' = [job EXCEPT ![nj[k]].status = 1]
      /\ kpc' = [kpc EXCEPT ![k] = "wake"]
      /\ UNCHANGED <<ppc, jv, nj, cq>>
  BY DEF KFinish, prodVars, Serving
<1>2. nj[k] \in Jobs
  <2>1. PICK w \in Vcpus : ppc[w] \in {"wait", "asleep"} /\ jv[w] = nj[k]
    BY <1>1 DEF ServedAlone
  <2>2. QED
    BY <2>1 DEF HasJob, Queued
<1>3. /\ \A j \in Jobs : j # nj[k] => job'[j] = job[j]
      /\ job'[nj[k]].status = 1
      /\ job'[nj[k]].next = job[nj[k]].next
  BY SMTT(10), <1>1, <1>2 DEF JobRecord
<1>4. Serving' = Serving \ {k}
  BY <1>1 DEF Serving
<1>5. \A l \in Serving' : l \in Serving /\ nj[l] # nj[k]
  BY <1>1, <1>4 DEF ServedAlone
<1>6. ServedAlone'
  <2>1. ASSUME NEW l \in Serving'
        PROVE  \E v \in Vcpus : /\ ppc'[v] \in {"wait", "asleep"} /\ jv'[v] = nj'[l]
                                /\ job'[nj'[l]].status = 0
    <3>1. PICK v \in Vcpus : /\ ppc[v] \in {"wait", "asleep"} /\ jv[v] = nj[l]
                             /\ job[nj[l]].status = 0
      BY <1>5 DEF ServedAlone
    <3>2. jv[v] \in Jobs
      BY <3>1 DEF HasJob, Queued
    <3>3. job'[nj[l]] = job[nj[l]]
      BY <1>3, <1>5, <3>1, <3>2
    <3>4. QED
      BY <1>1, <3>1, <3>3
  <2>2. \A l, m \in Serving' : nj'[l] = nj'[m] => l = m
    BY ZenonT(30), <1>1, <1>5 DEF ServedAlone
  <2>3. QED
    BY <2>1, <2>2 DEF ServedAlone
<1>7. Unserved' = Unserved
  <2> DEFINE Waits(x)  == \E w \in Vcpus : ppc[w] \in Queued /\ job[jv[w]].status = 0
                                              /\ x = jv[w]
             Waits2(x) == \E w \in Vcpus : ppc'[w] \in Queued /\ job'[jv'[w]].status = 0
                                              /\ x = jv'[w]
             Free(x)   == \A l \in Serving : x # nj[l]
             Free2(x)  == \A l \in Serving' : x # nj'[l]
  <2>1. \A x : x \in Unserved <=> Waits(x) /\ Free(x)
    BY DEF Unserved
  <2>2. \A x : x \in Unserved' <=> Waits2(x) /\ Free2(x)
    BY DEF Unserved
  <2>3. \A x : Free(x) <=> Free2(x) /\ x # nj[k]
    BY <1>1, <1>4
  <2>4. \A x : Waits2(x) <=> Waits(x) /\ x # nj[k]
    <3>1. \A w \in Vcpus : ppc[w] \in Queued => jv[w] \in Jobs
      BY DEF HasJob
    <3>2. QED
      BY SMTT(10), <1>1, <1>3, <3>1
  <2> HIDE DEF Waits, Waits2, Free, Free2
  <2>5. \A x : x \in Unserved' <=> x \in Unserved
    BY <2>1, <2>2, <2>3, <2>4
  <2>6. QED
    BY <2>5
<1>8. PICK q \in [1..Length -> Jobs] : ListIs(q)
  BY DEF QueueWellFormed
<1>9. Length' = Length
  BY <1>1 DEF Length
<1>10. \A a \in 1..Length : job'[q[a]].next = job[q[a]].next
  BY <1>3, <1>8
<1>11. ListIs(q)'
  BY ZenonT(30), <1>1, <1>7, <1>8, <1>9, <1>10 DEF ListIs
<1>12. QueueWellFormed'
  BY <1>11 DEF QueueWellFormed, ListIs
<1>13. QED
  BY <1>6, <1>12

\* Steps of a kthread.
LEMMA ConsumerQueue ==
  ASSUME QInv, NEW k \in Kthreads, ConsumerNext(k)
  PROVE  ServedAlone' /\ QueueWellFormed'
<1>t. OwnInv /\ ServedAlone /\ QueueWellFormed
  BY DEF QInv
<1> USE PoolFacts, <1>t
<1>1. CASE /\ UNCHANGED <<ppc, jv, job, cq>>
           /\ Serving' = Serving
           /\ \A l \in Serving : nj'[l] = nj[l]
  <2>1. Length' = Length
    BY <1>1 DEF Length
  <2>2. QED
    BY <1>1, <2>1, Undisturbed
<1>2. CASE KWait(k) \/ KLoop(k)
  <2>1. Serving' = Serving
    BY <1>2 DEF KWait, KLoop, Serving
  <2>2. QED
    BY <1>1, <1>2, <2>1 DEF KWait, KLoop, prodVars
<1>3. CASE KTake(k) /\ cq.num > 0
  BY <1>3, TakeQueue
<1>4. CASE KTake(k) /\ ~(cq.num > 0)
  <2>1. Serving' = Serving /\ \A l \in Serving : nj'[l] = nj[l]
    BY <1>4 DEF KTake, Serving
  <2>2. QED
    BY <1>1, <1>4, <2>1 DEF KTake, prodVars
<1>5. CASE KProcess(k)
  <2>1. \A j \in Jobs : job'[j].status = job[j].status /\ job'[j].next = job[j].next
    BY SMTT(10), <1>5 DEF KProcess, JobRecord
  <2>2. Serving' = Serving
    BY <1>5 DEF KProcess, Serving
  <2>3. UNCHANGED <<ppc, jv, nj, cq>>
    BY <1>5 DEF KProcess, prodVars
  <2>4. Length' = Length
    BY <2>3 DEF Length
  <2>5. \A w \in Vcpus : ppc[w] \in Queued => jv[w] \in Jobs
    BY DEF HasJob
  <2>6. QED
    BY <2>1, <2>2, <2>3, <2>4, <2>5, Undisturbed
<1>6. CASE KWake(k)
  <2>1. /\ ppc' = WakeProducers
        /\ UNCHANGED <<jv, job, nj, cq>>
    BY <1>6 DEF KWake
  <2>2. Serving' = Serving
    BY <1>6 DEF KWake, Serving
  <2>3. \A w \in Vcpus : /\ ppc'[w] \in Queued <=> ppc[w] \in Queued
                         /\ ppc[w] \in {"wait", "asleep"} => ppc'[w] \in {"wait", "asleep"}
                         /\ ppc'[w] = "count" <=> ppc[w] = "count"
    BY <2>1 DEF WakeProducers, Queued
  <2>4. Length' = Length
    BY <2>1, <2>3 DEF Length
  <2>5. QED
    BY <2>1, <2>2, <2>3, <2>4, Undisturbed
<1>7. CASE KFinish(k)
  BY <1>7, FinishQueue
<1>8. QED
  BY <1>2, <1>3, <1>4, <1>5, <1>6, <1>7 DEF ConsumerNext

\* Every step keeps QInv.
LEMMA QNext == QInv /\ [Next]_vars => QInv'
<1> SUFFICES ASSUME QInv, [Next]_vars PROVE QInv'
  OBVIOUS
<1>1. OwnInv' /\ LifeInv' /\ MutexHeld' /\ FreshJob'
  BY OwnNext, LifeNext, MutexNext, FreshNext DEF QInv, OwnInv
<1>2. ServedAlone' /\ QueueWellFormed'
  <2>1. CASE UNCHANGED vars
    <3>1. /\ UNCHANGED <<ppc, jv, job, cq, nj>>
          /\ Serving' = Serving /\ Length' = Length
      BY <2>1 DEF vars, prodVars, consVars, Serving, Length
    <3>2. QED
      BY <3>1, Undisturbed DEF QInv
  <2>2. QED
    BY <2>1, ModuleQueue, ProducerQueue, ConsumerQueue DEF Next, Finished
<1>3. QED
  BY <1>1, <1>2 DEF QInv

\* The queue is empty at first.
LEMMA QInit == Init => QInv
<1> SUFFICES ASSUME Init PROVE QInv
  OBVIOUS
<1>1. OwnInv /\ LifeInv
  BY OwnInit, LifeInit
<1>2. MutexHeld /\ FreshJob
  BY PoolAssumption DEF Init, MutexHeld, FreshJob
<1>3. ServedAlone
  BY DEF Init, ServedAlone, Serving
<1>4. Unserved = {}
  BY DEF Init, Unserved, Queued
<1>5. QueueWellFormed
  BY <1>4, EmptyWellFormed DEF Init, EmptyQueue
<1>6. QED
  BY <1>1, <1>2, <1>3, <1>5 DEF QInv

\* head, tail, num and the next fields always describe one list of exactly the
\* jobs still to be served, whatever the vCPU threads, the kthreads and the
\* module thread do.
THEOREM QueueCorrect == Spec => []QueueWellFormed
<1>1. QInv => QueueWellFormed
  BY DEF QInv
<1>2. QED
  BY <1>1, QInit, QNext, PTL DEF Spec

\* No two kthreads work on one job, and no kthread works on a job whose vCPU
\* has stopped waiting for it.
THEOREM ServiceExclusive == Spec => []ServedAlone
<1>1. QInv => ServedAlone
  BY DEF QInv
<1>2. QED
  BY <1>1, QInit, QNext, PTL DEF Spec

-----------------------------------------------------------------------------
(* Nobody sleeps through the event it waits for, and what is delivered.    *)

\* Linking and unlinking touch the next fields only.
LEMMA NextKeeps ==
  ASSUME OwnInv,
         \/ \E v \in Vcpus : LinkJob(v)
         \/ \E k \in Kthreads : KTake(k)
  PROVE  \A j \in Jobs : /\ job'[j].operation = job[j].operation
                         /\ job'[j].input = job[j].input
                         /\ job'[j].output = job[j].output
                         /\ job'[j].status = job[j].status
<1>1. job \in [Jobs -> JobRecord]
  BY PoolFacts
<1>2. CASE \E v \in Vcpus : LinkJob(v)
  <2>1. PICK v \in Vcpus : LinkJob(v)
    BY <1>2
  <2>2. job' = job \/ job' = [job EXCEPT ![cq.tail].next = jv[v]]
    BY <2>1 DEF LinkJob
  <2>3. QED
    BY SMTT(10), <1>1, <2>2 DEF JobRecord
<1>3. CASE \E k \in Kthreads : KTake(k)
  <2>1. job' = job \/ job' = [job EXCEPT ![cq.head].next = NULL]
    BY <1>3 DEF KTake
  <2>2. QED
    BY SMTT(10), <1>1, <2>1 DEF JobRecord
<1>4. QED
  BY <1>2, <1>3

-----------------------------------------------------------------------------
(* Wake-ups.                                                               *)

\* The two halves of NoLostWakeup: the sleepers on finish_wq and on cq_wq.
ProducersWoken ==
  \A v \in Vcpus : ppc[v] = "asleep" /\ job[jv[v]].status = 1
    => \E k \in Kthreads : kpc[k] = "wake"

ConsumersWoken ==
  \A k \in Kthreads : kpc[k] = "asleep" =>
    /\ cq.num > 0 => \E v \in Vcpus : ppc[v] = "notify"
    /\ cq.stop = 1 => mod = "stopping" /\ ki = 1

\* The steps of the module thread.  StartKthread must not overwrite a kthread
\* that is about to wake somebody: it starts one that is not there yet.
LEMMA WakeupModule ==
  ASSUME OwnInv, LifeInv, ProducersWoken, ConsumersWoken, ModuleNext
  PROVE  ProducersWoken' /\ ConsumersWoken'
<1> USE PoolFacts DEF ProducersWoken, ConsumersWoken, prodVars, consVars
<1>1. CASE Register \/ PoolInit
  BY SMTT(10), <1>1 DEF Register, PoolInit, EmptyQueue
<1>2. CASE StartKthread
  <2>1. ki \in Kthreads /\ kpc[ki] = "none"
    BY SMTT(10), <1>2 DEF StartKthread, LifeInv, KthreadLife, TypeInv, TypeOK, Kthreads
  <2>2. QED
    BY ZenonT(30), <1>2, <2>1 DEF StartKthread
<1>3. CASE PoolReclaim
  BY SMTT(10), <1>3 DEF PoolReclaim, CryptoQueue
<1>4. CASE SetStop
  BY <1>4 DEF SetStop, CryptoQueue
<1>5. CASE StopKthread
  BY <1>5 DEF StopKthread, WakeConsumers
<1>6. CASE JoinKthread
  BY ZenonT(30), <1>6 DEF JoinKthread
<1>7. QED
  BY ZenonT(30), <1>1, <1>2, <1>3, <1>4, <1>5, <1>6 DEF ModuleNext

\* The steps of a vCPU thread.
LEMMA WakeupProducer ==
  ASSUME OwnInv, ProducersWoken, ConsumersWoken, NEW v \in Vcpus, ProducerNext(v)
  PROVE  ProducersWoken' /\ ConsumersWoken'
<1> USE PoolFacts DEF ProducersWoken, ConsumersWoken, modVars, consVars
<1>1. CASE \/ OpenVm(v) \/ CloseVm(v) \/ HypercallDenied(v)
           \/ \E op \in Requests : ProduceJob(v, op)
  BY SMTT(30), <1>1 DEF OpenVm, CloseVm, HypercallDenied, ProduceJob
<1>2. CASE AllocJob(v) \/ NumberJob(v)
  BY ZenonT(30), <1>2 DEF AllocJob, NumberJob
<1>3. CASE InitJob(v)
  <2>1. \A w \in Vcpus : ppc'[w] = "asleep" => jv[w] # jv[v] /\ ppc[w] = "asleep"
    BY <1>3 DEF InitJob, HasJob, Queued
  <2>2. \A w \in Vcpus : ppc'[w] = "asleep" => job'[jv'[w]] = job[jv[w]]
    BY <1>3, <2>1 DEF InitJob, HasJob, Queued
  <2>3. QED
    BY ZenonT(30), <1>3, <2>1, <2>2 DEF InitJob
<1>4. CASE LinkJob(v)
  <2>1. \A j \in Jobs : job'[j].status = job[j].status
    BY <1>4, NextKeeps
  <2>2. cq'.num = cq.num /\ cq'.stop = cq.stop
    BY ZenonT(30), <1>4 DEF LinkJob, CryptoQueue
  <2>3. \A w \in Vcpus : ppc'[w] = "asleep" => ppc[w] = "asleep" /\ jv[w] \in Jobs
    BY <1>4 DEF LinkJob, HasJob, Queued
  <2>4. QED
    BY SMTT(10), <1>4, <2>1, <2>2, <2>3 DEF LinkJob
<1>5. CASE CountJob(v)
  <2>1. ppc'[v] = "notify" /\ cq'.stop = cq.stop
    BY ZenonT(30), <1>5 DEF CountJob, CryptoQueue
  <2>2. QED
    BY <1>5, <2>1 DEF CountJob
<1>6. CASE NotifyConsumers(v)
  BY <1>6 DEF NotifyConsumers, WakeConsumers
<1>7. CASE AwaitJob(v) \/ WriteBack(v)
  BY ZenonT(30), <1>7 DEF AwaitJob, WriteBack
<1>8. CASE Return(v)
  <2>1. \A j \in Jobs : job'[j].status = 1 => job[j].status = 1
    BY <1>8 DEF Return, KFree, Unallocated
  <2>2. \A w \in Vcpus : ppc'[w] = "asleep" =>
           ppc[w] = "asleep" /\ jv[w] \in Jobs /\ jv'[w] = jv[w]
    BY <1>8 DEF Return, HasJob, Queued
  <2>3. QED
    BY ZenonT(30), <1>8, <2>1, <2>2 DEF Return
<1>9. QED
  BY <1>1, <1>2, <1>3, <1>4, <1>5, <1>6, <1>7, <1>8 DEF ProducerNext, ProducerStep

\* The steps of a kthread.
LEMMA WakeupConsumer ==
  ASSUME OwnInv, ProducersWoken, ConsumersWoken, NEW k \in Kthreads,
         ConsumerNext(k)
  PROVE  ProducersWoken' /\ ConsumersWoken'
<1> USE PoolFacts DEF ProducersWoken, ConsumersWoken, modVars, prodVars
<1>1. CASE KWait(k) \/ KLoop(k)
  BY ZenonT(30), <1>1 DEF KWait, KLoop
<1>2. CASE KTake(k)
  <2>1. \A j \in Jobs : job'[j].status = job[j].status
    BY <1>2, NextKeeps
  <2>2. (cq'.num > 0 => cq.num > 0) /\ cq'.stop = cq.stop
    BY ZenonT(30), <1>2 DEF KTake, CryptoQueue
  <2>3. \A w \in Vcpus : ppc[w] = "asleep" => jv[w] \in Jobs
    BY DEF HasJob, Queued
  <2>4. QED
    BY SMTT(10), <1>2, <2>1, <2>2, <2>3 DEF KTake
<1>3. CASE KProcess(k)
  <2>1. \A j \in Jobs : job'[j].status = job[j].status
    BY SMTT(10), <1>3 DEF KProcess, JobRecord
  <2>2. \A w \in Vcpus : ppc[w] = "asleep" => jv[w] \in Jobs
    BY DEF HasJob, Queued
  <2>3. QED
    BY ZenonT(30), <1>3, <2>1, <2>2 DEF KProcess
<1>4. CASE KFinish(k)
  BY <1>4 DEF KFinish
<1>5. CASE KWake(k)
  BY <1>5 DEF KWake, WakeProducers
<1>6. QED
  BY <1>1, <1>2, <1>3, <1>4, <1>5 DEF ConsumerNext

\* Nobody sleeps through the event it waits for: the vCPUs on finish_wq, the
\* kthreads on cq_wq, during service and during unload (kvm_crypto.c's
\* wait_event and wake_up calls).
THEOREM NobodyForgotten == Spec => []NoLostWakeup
<1> DEFINE WInv == OwnInv /\ LifeInv /\ ProducersWoken /\ ConsumersWoken
<1>1. Init => WInv
  BY OwnInit, LifeInit DEF Init, ProducersWoken, ConsumersWoken
<1>2. WInv /\ [Next]_vars => WInv'
  <2> SUFFICES ASSUME WInv, [Next]_vars PROVE WInv'
    OBVIOUS
  <2>1. OwnInv' /\ LifeInv'
    BY OwnNext, LifeNext
  <2>2. CASE UNCHANGED vars
    BY <2>1, <2>2
    DEF ProducersWoken, ConsumersWoken, vars, modVars, prodVars, consVars
  <2>3. QED
    BY <2>1, <2>2, WakeupModule, WakeupProducer, WakeupConsumer DEF Next, Finished
<1>3. WInv => NoLostWakeup
  BY DEF ProducersWoken, ConsumersWoken, NoLostWakeup
<1>4. QED
  BY <1>1, <1>2, <1>3, PTL DEF Spec

-----------------------------------------------------------------------------
(* Memory safety of the jobs.                                              *)

\* Free memory is as kfree left it.
Blank == \A j \in Jobs \ alloc : job[j] = Unallocated

\* What the pointers a thread writes through point to.
LEMMA PointersLive ==
  ASSUME QInv
  PROVE  /\ \A v \in Vcpus : jv[v] \in Jobs => jv[v] \in alloc
         /\ \A k \in Serving : nj[k] \in alloc
         /\ mutex = NULL /\ cq.num > 0 => cq.head \in alloc /\ cq.tail \in alloc
<1>t. OwnInv /\ MutexHeld /\ ServedAlone /\ QueueWellFormed
  BY DEF QInv
<1> USE PoolFacts, <1>t
<1>1. \A v \in Vcpus : jv[v] \in Jobs => jv[v] \in alloc
  BY DEF OwnInv, JobOwnership
<1>2. \A k \in Serving : nj[k] \in alloc
  <2> SUFFICES ASSUME NEW k \in Serving PROVE nj[k] \in alloc
    OBVIOUS
  <2>1. PICK v \in Vcpus : ppc[v] \in {"wait", "asleep"} /\ jv[v] = nj[k]
    BY DEF ServedAlone
  <2>2. QED
    BY <1>1, <2>1 DEF HasJob, Queued
<1>3. ASSUME mutex = NULL, cq.num > 0 PROVE cq.head \in alloc /\ cq.tail \in alloc
  <2>1. PICK q \in [1..Length -> Jobs] : ListIs(q)
    BY DEF QueueWellFormed
  <2>2. Length = cq.num
    BY SMTT(10), <1>3, PoolAssumption DEF Length, MutexHeld
  <2>3. 1 \in 1..Length /\ Length \in 1..Length
    BY SMTT(10), <1>3, <2>2
  <2>4. Unserved \subseteq alloc
    BY SMTT(10), <1>1 DEF Unserved, HasJob
  <2>5. q[1] \in Unserved /\ q[Length] \in Unserved
    BY ZenonT(30), <2>1, <2>3 DEF ListIs
  <2>6. cq.head = q[1] /\ cq.tail = q[Length]
    BY SMTT(10), <1>3, <2>1, <2>2 DEF ListIs
  <2>7. QED
    BY <2>4, <2>5, <2>6
<1>4. QED
  BY <1>1, <1>2, <1>3

\* A step writes to no job but an allocated one.
LEMMA LiveWrites ==
  ASSUME QInv, Blank, [Next]_vars
  PROVE  \A j \in Jobs : job'[j] # job[j] => j \in alloc
<1>t. OwnInv
  BY DEF QInv
<1> USE PoolFacts, <1>t
<1>1. CASE UNCHANGED job
  BY <1>1
<1>2. CASE PoolReclaim
  BY <1>2 DEF PoolReclaim, KFree, Blank
<1>3. ASSUME NEW v \in Vcpus, ProducerNext(v), job' # job
      PROVE  \A j \in Jobs : job'[j] # job[j] => j \in alloc
  <2>1. InitJob(v) \/ LinkJob(v) \/ Return(v)
    BY <1>3
    DEF ProducerNext, ProducerStep, OpenVm, CloseVm, HypercallDenied, ProduceJob,
        AllocJob, NumberJob, CountJob, NotifyConsumers, AwaitJob, WriteBack
  <2>2. CASE InitJob(v)
    BY <2>2, PointersLive DEF InitJob, HasJob
  <2>3. CASE LinkJob(v)
    <3>1. job' = [job EXCEPT ![cq.tail].next = jv[v]] /\ cq.tail \in alloc
      BY SMTT(10), <1>3, <2>3, PointersLive DEF LinkJob
    <3>2. QED
      BY <3>1
  <2>4. CASE Return(v)
    <3>1. job' = KFree({jv[v]})
      BY <2>4 DEF Return
    <3>2. QED
      BY <3>1, PointersLive DEF KFree
  <2>5. QED
    BY <2>1, <2>2, <2>3, <2>4
<1>4. ASSUME NEW k \in Kthreads, ConsumerNext(k), job' # job
      PROVE  \A j \in Jobs : job'[j] # job[j] => j \in alloc
  <2>1. KTake(k) \/ KProcess(k) \/ KFinish(k)
    BY <1>4 DEF ConsumerNext, KWait, KWake, KLoop
  <2>2. CASE KTake(k)
    <3>1. job' = [job EXCEPT ![cq.head].next = NULL] /\ cq.head \in alloc
      BY <1>4, <2>2, PointersLive DEF KTake
    <3>2. QED
      BY <3>1
  <2>3. CASE KProcess(k) \/ KFinish(k)
    <3>1. nj[k] \in alloc
      BY <2>3, PointersLive DEF KProcess, KFinish, Serving
    <3>2. \A j \in Jobs : j # nj[k] => job'[j] = job[j]
      BY <2>3 DEF KProcess, KFinish
    <3>3. QED
      BY <3>1, <3>2
  <2>4. QED
    BY <2>1, <2>2, <2>3
<1>5. CASE ModuleNext /\ ~PoolReclaim
  BY <1>1, <1>5
  DEF ModuleNext, Register, PoolInit, StartKthread, SetStop, StopKthread, JoinKthread
<1>6. QED
  BY <1>1, <1>2, <1>3, <1>4, <1>5 DEF Next, Finished, vars

\* Free memory stays as kfree left it.
LEMMA BlankNext == QInv /\ Blank /\ [Next]_vars => Blank'
<1> SUFFICES ASSUME QInv, Blank, [Next]_vars PROVE Blank'
  OBVIOUS
<1>1. CASE alloc \subseteq alloc'
  BY <1>1, LiveWrites DEF Blank
<1>2. CASE PoolReclaim
  BY <1>2 DEF PoolReclaim, KFree, Blank
<1>3. ASSUME NEW v \in Vcpus, Return(v) PROVE Blank'
  BY <1>3 DEF Return, KFree, Blank
<1>4. ASSUME NEW v \in Vcpus, ProducerNext(v), ~Return(v) PROVE alloc \subseteq alloc'
  BY <1>4
  DEF ProducerNext, ProducerStep, OpenVm, CloseVm, HypercallDenied, ProduceJob,
      AllocJob, NumberJob, InitJob, LinkJob, CountJob, NotifyConsumers, AwaitJob, WriteBack
<1>5. ASSUME NEW k \in Kthreads, ConsumerNext(k) PROVE alloc \subseteq alloc'
  BY <1>5 DEF ConsumerNext, KWait, KTake, KProcess, KFinish, KWake, KLoop
<1>6. CASE ModuleNext /\ ~PoolReclaim
  BY <1>1, <1>6
  DEF ModuleNext, Register, PoolInit, StartKthread, SetStop, StopKthread, JoinKthread
<1>7. QED
  BY <1>1, <1>2, <1>3, <1>4, <1>5, <1>6 DEF Next, Finished, vars

\* The writes through cq.tail, cq.head, nj and j all hit allocated jobs: no
\* thread of kvm_crypto.c writes into a job that was freed.
THEOREM WritesSafe == Spec => WritesOnlyLiveJobs
<1>1. Init => QInv /\ Blank
  BY SMTT(10), QInit DEF Init, Blank
<1>2. QInv /\ Blank /\ [Next]_vars => QInv' /\ Blank'
  BY QNext, BlankNext
<1>3. QInv /\ Blank /\ [Next]_vars
        => [\A j \in Jobs : job'[j] # job[j] => j \in alloc]_vars
  BY LiveWrites
<1>4. QED
  BY <1>1, <1>2, <1>3, PTL DEF Spec, WritesOnlyLiveJobs

-----------------------------------------------------------------------------
(* The result.                                                             *)

\* What vCPU v asked for.
Want(v) == Crypt(req[v], Input(v), Zero)

\* From crypto_produce_job's initialisation to its kfree, the job of v holds
\* v's request and, once its status is 1, v's result.
Carries(v) ==
  ppc[v] \in {"lock", "copy"} \cup Queued =>
    /\ job[jv[v]].operation = req[v]
    /\ job[jv[v]].input = Input(v)
    /\ job[jv[v]].output \in {Zero, Want(v)}
    /\ job[jv[v]].status = 1 => job[jv[v]].output = Want(v)

\* From the copy back on, the guest's buffer holds it if nothing failed.
Delivers(v) ==
  /\ ppc[v] = "copy" => job[jv[v]].status = 1
  /\ ppc[v] = "out" /\ hc_ret[v] = 0 => gout[v] = Want(v)
  /\ ppc[v] \in {"closed", "guest"} /\ rax[v] = 0 => gout[v] = Want(v)

\* A kthread about to set the status has filled the output.
Filled ==
  \A k \in Kthreads : kpc[k] = "finish" =>
    job[nj[k]].output = Crypt(job[nj[k]].operation, job[nj[k]].input, Zero)

DataInv == Filled /\ \A v \in Vcpus : Carries(v) /\ Delivers(v)

\* A step after which v has no job on its way, and no result to show.
LEMMA NothingOwed ==
  ASSUME NEW v, ppc'[v] \in {"alloc", "number", "init", "out"}, ppc'[v] = "out" => hc_ret'[v] = 1
  PROVE  Carries(v)' /\ Delivers(v)'
<1>1. ppc'[v] \notin {"lock", "copy"} \cup Queued /\ ppc'[v] \notin {"closed", "guest"}
  BY DEF Queued
<1>2. ~(ppc'[v] = "out" /\ hc_ret'[v] = 0)
  OBVIOUS
<1> QED
  BY <1>1, <1>2 DEF Carries, Delivers

\* A step after which the job of v holds v's request.
LEMMA RequestHeld ==
  ASSUME NEW v, ppc'[v] = "lock", jv' = jv, req' = req,
         job'[jv[v]].operation = req[v], job'[jv[v]].input = Input(v),
         job'[jv[v]].output = Zero, job'[jv[v]].status = 0
  PROVE  Carries(v)' /\ Delivers(v)'
<1>1. job'[jv[v]].status # 1
  OBVIOUS
<1>2. Delivers(v)'
  BY DEF Delivers
<1> QED
  BY <1>1, <1>2 DEF Carries

\* A step that leaves alone what a vCPU, or a serving kthread, relies on.
LEMMA DataSame ==
  ASSUME NEW v, Carries(v), Delivers(v),
         ppc'[v] = ppc[v], jv'[v] = jv[v], req'[v] = req[v],
         hc_ret'[v] = hc_ret[v], rax'[v] = rax[v], gout'[v] = gout[v],
         ppc[v] \in {"lock", "copy"} \cup Queued =>
           /\ job'[jv[v]].operation = job[jv[v]].operation
           /\ job'[jv[v]].input = job[jv[v]].input
           /\ job'[jv[v]].output = job[jv[v]].output
           /\ job'[jv[v]].status = job[jv[v]].status
  PROVE  \A w : w = v => Carries(w)' /\ Delivers(w)'
  BY ZenonT(30) DEF Carries, Delivers, Want

\* Loading and unloading the module leave the requests and results alone.
LEMMA DataModule == ASSUME QInv, DataInv, ModuleNext PROVE DataInv'
<1>t. OwnInv /\ LifeInv /\ ServedAlone
  BY DEF QInv
<1> USE PoolFacts, <1>t
<1>1. UNCHANGED prodVars /\ nj' = nj
  BY DEF ModuleNext, Register, PoolInit, StartKthread, PoolReclaim, SetStop,
         StopKthread, JoinKthread, consVars
<1>2. CASE PoolReclaim
  <2>1. \A v \in Vcpus : ppc[v] = "closed"
    BY <1>2 DEF PoolReclaim
  <2>2. \A v \in Vcpus : Carries(v)' /\ Delivers(v)'
    BY <1>1, <2>1 DEF DataInv, Carries, Delivers, Want, Queued, prodVars
  <2>3. \A k \in Kthreads : kpc'[k] # "finish"
    BY <1>2, <2>1 DEF PoolReclaim, ServedAlone, Serving, consVars
  <2>4. QED
    BY <2>2, <2>3 DEF DataInv, Filled
<1>3. CASE job' = job
  <2>1. \A v \in Vcpus : Carries(v)' /\ Delivers(v)'
    BY <1>1, <1>3 DEF DataInv, Carries, Delivers, Want, prodVars
  <2>2. \A k \in Kthreads : kpc'[k] = "finish" => kpc[k] = "finish"
    BY ZenonT(30), <1>3
    DEF ModuleNext, Register, PoolInit, StartKthread, PoolReclaim, SetStop,
        StopKthread, JoinKthread, consVars, WakeConsumers
  <2>3. QED
    BY <1>1, <1>3, <2>1, <2>2 DEF DataInv, Filled
<1>4. QED
  BY <1>2, <1>3
  DEF ModuleNext, Register, PoolInit, StartKthread, SetStop, StopKthread, JoinKthread

\* Results filled in stay, while the jobs they are in do.
LEMMA FilledSame ==
  ASSUME Filled,
         \A k \in Kthreads : kpc'[k] = "finish" =>
           /\ kpc[k] = "finish" /\ nj'[k] = nj[k]
           /\ job'[nj[k]].operation = job[nj[k]].operation
           /\ job'[nj[k]].input = job[nj[k]].input
           /\ job'[nj[k]].output = job[nj[k]].output
  PROVE  Filled'
  BY SMTT(10) DEF Filled

\* The steps of a vCPU thread: of its own data, and of everybody else's.
LEMMA DataProducer ==
  ASSUME QInv, DataInv, NEW v \in Vcpus, ProducerNext(v) PROVE DataInv'
<1>t. OwnInv /\ ServedAlone /\ Filled /\ Carries(v) /\ Delivers(v)
  BY DEF QInv, DataInv
<1>f. /\ req \in [Vcpus -> Operations] /\ hc_ret \in [Vcpus -> {0, 1}]
      /\ rax \in [Vcpus -> {KVM_HC_CRYPTO, 0, 1, -KVM_EPERM}]
      /\ gout \in [Vcpus -> Contents]
  BY <1>t DEF OwnInv, TypeInv, TypeOK
<1> USE PoolFacts, <1>t, <1>f
<1> DEFINE Kept(j) == /\ job'[j].operation = job[j].operation
                      /\ job'[j].input = job[j].input
                      /\ job'[j].output = job[j].output
                      /\ job'[j].status = job[j].status
<1>1. nj' = nj /\ \A k \in Kthreads : kpc'[k] = "finish" => kpc[k] = "finish"
  BY ZenonT(30) DEF ProducerNext, ProducerStep, OpenVm, CloseVm, HypercallDenied,
     ProduceJob,
         AllocJob, NumberJob, InitJob, LinkJob, CountJob, NotifyConsumers, AwaitJob, WriteBack,
         Return, consVars, WakeConsumers
<1>2. \A w \in Vcpus \ {v} :
        /\ ppc'[w] = ppc[w] /\ jv'[w] = jv[w] /\ req'[w] = req[w]
        /\ hc_ret'[w] = hc_ret[w] /\ rax'[w] = rax[w] /\ gout'[w] = gout[w]
  <2> SUFFICES ASSUME NEW w \in Vcpus \ {v}
               PROVE  /\ ppc'[w] = ppc[w] /\ jv'[w] = jv[w] /\ req'[w] = req[w]
                      /\ hc_ret'[w] = hc_ret[w] /\ rax'[w] = rax[w] /\ gout'[w] = gout[w]
    BY ZenonT(30)
  <2>1. CASE OpenVm(v)
    BY <2>1, SMTT(10) DEF OpenVm
  <2>2. CASE CloseVm(v)
    BY <2>2, SMTT(10) DEF CloseVm
  <2>3. CASE HypercallDenied(v)
    BY <2>3, SMTT(10) DEF HypercallDenied
  <2>4. CASE \E op \in Requests : ProduceJob(v, op)
    BY <2>4, SMTT(10) DEF ProduceJob
  <2>5. CASE AllocJob(v)
    BY <2>5, SMTT(30) DEF AllocJob
  <2>n. CASE NumberJob(v)
    BY <2>n, SMTT(10) DEF NumberJob
  <2>6. CASE InitJob(v)
    BY <2>6, SMTT(10) DEF InitJob
  <2>7. CASE LinkJob(v)
    BY <2>7, SMTT(10) DEF LinkJob
  <2>8. CASE CountJob(v)
    BY <2>8, SMTT(10) DEF CountJob
  <2>9. CASE NotifyConsumers(v)
    BY <2>9, SMTT(30) DEF NotifyConsumers
  <2>10. CASE AwaitJob(v)
    BY <2>10, SMTT(10) DEF AwaitJob
  <2>11. CASE WriteBack(v)
    BY <2>11, SMTT(10) DEF WriteBack
  <2>12. CASE Return(v)
    BY <2>12, SMTT(10) DEF Return
  <2> QED
    BY ZenonT(30), <2>1, <2>2, <2>3, <2>4, <2>5, <2>n, <2>6, <2>7, <2>8, <2>9, <2>10,
       <2>11, <2>12
    DEF ProducerNext, ProducerStep
<1>3. \A j \in Jobs : j # jv[v] => Kept(j)
  <2>1. CASE job' = job
    BY <2>1
  <2>2. CASE InitJob(v)
    BY <2>2 DEF InitJob
  <2>3. CASE LinkJob(v)
    BY <2>3, NextKeeps
  <2>4. CASE Return(v)
    BY <2>4 DEF Return, KFree
  <2>5. QED
    BY <2>1, <2>2, <2>3, <2>4
    DEF ProducerNext, ProducerStep, OpenVm, CloseVm, HypercallDenied, ProduceJob,
        AllocJob, NumberJob, CountJob, NotifyConsumers, AwaitJob, WriteBack
<1>4. ASSUME NEW w \in Vcpus, w # v PROVE Carries(w)' /\ Delivers(w)'
  <2>1. ppc[w] \in {"lock", "copy"} \cup Queued => Kept(jv[w])
    BY ZenonT(30), <1>3, <1>4 DEF HasJob
  <2>2. Carries(w) /\ Delivers(w)
    BY DEF DataInv
  <2>3. QED
    BY ZenonT(30), <1>2, <1>4, <2>1, <2>2, DataSame
<1>5. Filled'
  <2>1. ppc[v] \in {"wait", "asleep"} => job' = job
    BY DEF ProducerNext, ProducerStep, OpenVm, CloseVm, HypercallDenied, ProduceJob,
           AllocJob, NumberJob, InitJob, LinkJob, CountJob, NotifyConsumers, AwaitJob, WriteBack,
           Return
  <2>2. ASSUME NEW k \in Kthreads, kpc[k] = "finish" PROVE Kept(nj[k])
    <3>1. PICK u \in Vcpus : ppc[u] \in {"wait", "asleep"} /\ jv[u] = nj[k]
      BY <2>2 DEF ServedAlone, Serving
    <3>2. jv[u] \in Jobs
      BY <3>1 DEF HasJob, Queued
    <3>3. QED
      BY ZenonT(30), <1>3, <2>1, <3>1, <3>2
  <2>3. QED
    BY <1>1, <2>2, FilledSame
<1>6. Carries(v)' /\ Delivers(v)'
  <2>p. /\ ppc \in [Vcpus -> HasJob \cup {"closed", "guest", "alloc", "out"}]
        /\ jv \in [Vcpus -> Jobs \cup {NULL}]
        /\ job \in [Jobs -> JobRecord]
        /\ ppc[v] \in HasJob => jv[v] \in Jobs
    OBVIOUS
  <2> HIDE PoolFacts, <1>t, <1>f
  <2>0. CASE \E op \in Requests : ProduceJob(v, op)
    <3>1. /\ ppc'[v] \in {"alloc", "out"}
          /\ ppc'[v] = "out" => hc_ret'[v] = 1
      BY <1>f, <2>p, <2>0 DEF ProduceJob
    <3>2. QED
      BY <3>1, NothingOwed
  <2>1. CASE OpenVm(v) \/ CloseVm(v) \/ HypercallDenied(v)
    <3>1. /\ ppc[v] \in {"closed", "guest"} /\ ppc'[v] \in {"closed", "guest"}
          /\ rax'[v] = 0 => rax[v] = 0
          /\ UNCHANGED <<req, gout>>
      BY SMTT(30), <1>f, <2>p, <2>1 DEF OpenVm, CloseVm, HypercallDenied, KVM_EPERM
    <3>2. QED
      BY <1>t, <3>1 DEF Carries, Delivers, Want, Queued
  <2>2. CASE AllocJob(v) \/ NumberJob(v)
    <3>1. ppc'[v] \in {"number", "init"}
      BY <2>p, <2>2 DEF AllocJob, NumberJob
    <3>2. QED
      BY <3>1, NothingOwed
  <2>3. CASE InitJob(v)
    <3>1. /\ ppc'[v] = "lock" /\ jv' = jv /\ req' = req
          /\ job'[jv[v]].operation = req[v] /\ job'[jv[v]].input = Input(v)
          /\ job'[jv[v]].output = Zero /\ job'[jv[v]].status = 0
      BY <1>f, <2>p, <2>3 DEF InitJob, HasJob
    <3>2. QED
      BY <3>1, RequestHeld
  <2>4. CASE LinkJob(v)
    <3>1. jv[v] \in Jobs /\ Kept(jv[v])
      BY <1>t, <2>p, <2>4, NextKeeps DEF LinkJob, HasJob
    <3>2. QED
      BY <1>t, <1>f, <2>p, <2>4, <3>1 DEF LinkJob, Carries, Delivers, Want, Queued
  <2>5. CASE CountJob(v) \/ NotifyConsumers(v) \/ AwaitJob(v)
    BY ZenonT(30), <1>t, <1>f, <2>p, <2>5
    DEF CountJob, NotifyConsumers, AwaitJob, Carries, Delivers, Want, Queued
  <2>6. CASE WriteBack(v)
    BY SMTT(30), <1>t, <1>f, <2>p, <2>6 DEF WriteBack, Carries, Delivers, Want, Queued
  <2>7. CASE Return(v)
    BY <1>t, <1>f, <2>p, <2>7 DEF Return, Carries, Delivers, Want, Queued
  <2>8. QED
    BY <2>0, <2>1, <2>2, <2>3, <2>4, <2>5, <2>6, <2>7 DEF ProducerNext, ProducerStep
<1>7. QED
  BY <1>4, <1>5, <1>6 DEF DataInv

\* The steps of a kthread.
LEMMA DataConsumer ==
  ASSUME QInv, DataInv, NEW k \in Kthreads, ConsumerNext(k) PROVE DataInv'
<1>t. OwnInv /\ ServedAlone /\ Filled /\ \A v \in Vcpus : Carries(v) /\ Delivers(v)
  BY DEF QInv, DataInv
<1> USE PoolFacts, <1>t
<1>0. UNCHANGED <<jv, req, hc_ret, rax, gout>>
  BY DEF ConsumerNext, KWait, KTake, KProcess, KFinish, KWake, KLoop, prodVars
<1>1. CASE KWait(k) \/ KTake(k) \/ KLoop(k)
  <2>1. \A j \in Jobs : /\ job'[j].operation = job[j].operation
                        /\ job'[j].input = job[j].input
                        /\ job'[j].output = job[j].output
                        /\ job'[j].status = job[j].status
    BY <1>1, NextKeeps DEF KWait, KLoop
  <2>2. /\ ppc' = ppc
        /\ \A l \in Kthreads : kpc'[l] = "finish" => kpc[l] = "finish" /\ nj'[l] = nj[l]
    BY ZenonT(30), <1>1 DEF KWait, KTake, KLoop, prodVars
  <2>3. \A v \in Vcpus : Carries(v)' /\ Delivers(v)'
    <3> SUFFICES ASSUME NEW v \in Vcpus PROVE Carries(v)' /\ Delivers(v)'
      OBVIOUS
    <3>1. ppc[v] \in {"lock", "copy"} \cup Queued => jv[v] \in Jobs
      BY DEF HasJob
    <3>2. QED
      BY <1>0, <2>1, <2>2, <3>1, DataSame
  <2>4. \A l \in Kthreads : kpc[l] = "finish" => nj[l] \in Jobs
    BY DEF ServedAlone, Serving, HasJob, Queued
  <2>5. Filled'
    BY <2>1, <2>2, <2>4, FilledSame
  <2>6. QED
    BY <2>3, <2>5 DEF DataInv
<1>2. CASE KWake(k)
  <2>1. /\ job' = job /\ nj' = nj /\ ppc' = WakeProducers
        /\ \A l \in Kthreads : kpc'[l] = "finish" => kpc[l] = "finish"
    BY <1>2 DEF KWake
  <2>2. \A v \in Vcpus : Carries(v)' /\ Delivers(v)'
    BY ZenonT(30), <1>0, <2>1 DEF WakeProducers, Carries, Delivers, Want, Queued
  <2>3. Filled'
    BY <2>1, FilledSame
  <2>4. QED
    BY <2>2, <2>3 DEF DataInv
<1>3. CASE KProcess(k) \/ KFinish(k)
  <2>1. k \in Serving /\ UNCHANGED <<ppc, nj>>
    BY <1>3 DEF KProcess, KFinish, Serving, prodVars
  <2>2. PICK u \in Vcpus : /\ ppc[u] \in {"wait", "asleep"}
                           /\ jv[u] = nj[k]
                           /\ job[nj[k]].status = 0
    BY <2>1 DEF ServedAlone
  <2>3. nj[k] \in Jobs
    BY <2>2 DEF HasJob, Queued
  <2>4. \A j \in Jobs : j # nj[k] => job'[j] = job[j]
    BY <1>3 DEF KProcess, KFinish
  <2>5. /\ job'[nj[k]].operation = job[nj[k]].operation
        /\ job'[nj[k]].input = job[nj[k]].input
    BY SMTT(10), <1>3, <2>3 DEF KProcess, KFinish, JobRecord
  <2>6. /\ job[nj[k]].operation = req[u] /\ job[nj[k]].input = Input(u)
        /\ job[nj[k]].output \in {Zero, Want(u)}
    BY <2>2 DEF Carries, Queued
  <2>7. ASSUME NEW v \in Vcpus, v # u PROVE Carries(v)' /\ Delivers(v)'
    <3>1. ppc[v] \in {"lock", "copy"} \cup Queued => jv[v] \in Jobs /\ jv[v] # nj[k]
      BY <2>2, <2>7 DEF HasJob
    <3>2. QED
      BY <1>0, <2>1, <2>4, <3>1, DataSame
  <2>8. \A l \in Kthreads : kpc[l] = "finish" /\ l # k => nj[l] \in Jobs /\ nj[l] # nj[k]
    BY <2>1 DEF ServedAlone, Serving, HasJob, Queued
  <2>9. CASE KProcess(k)
    <3>1. /\ job'[nj[k]].output = Crypt(req[u], Input(u), job[nj[k]].output)
          /\ job'[nj[k]].status = 0
      BY SMTT(10), <2>2, <2>3, <2>6, <2>9 DEF KProcess, JobRecord
    <3>2. job'[nj[k]].output = Want(u)
      BY <2>6, <3>1 DEF Want, Crypt
    <3>3. Carries(u)' /\ Delivers(u)'
      BY <1>0, <2>1, <2>2, <2>5, <2>6, <3>1, <3>2 DEF Carries, Delivers, Want
    <3>4. \A l \in Kthreads \ {k} : kpc'[l] = kpc[l]
      BY <2>9 DEF KProcess
    <3>5. Filled'
      BY ZenonT(30), <2>1, <2>4, <2>5, <2>6, <2>8, <3>2, <3>4 DEF Filled, Want
    <3>6. QED
      BY <2>7, <3>3, <3>5 DEF DataInv
  <2>10. CASE KFinish(k)
    <3>1. /\ job'[nj[k]].output = job[nj[k]].output
          /\ job'[nj[k]].status = 1
      BY SMTT(10), <2>3, <2>10 DEF KFinish, JobRecord
    <3>2. job[nj[k]].output = Want(u)
      BY <2>6, <2>10 DEF KFinish, Filled, Want
    <3>3. Carries(u)' /\ Delivers(u)'
      BY <1>0, <2>1, <2>2, <2>5, <2>6, <3>1, <3>2 DEF Carries, Delivers, Want
    <3>4. \A l \in Kthreads : kpc'[l] = "finish" => kpc[l] = "finish" /\ l # k
      BY <2>10 DEF KFinish
    <3>5. Filled'
      BY <2>1, <2>4, <2>8, <3>4, FilledSame
    <3>6. QED
      BY <2>7, <3>3, <3>5 DEF DataInv
  <2>11. QED
    BY <1>3, <2>9, <2>10
<1>4. QED
  BY <1>1, <1>2, <1>3 DEF ConsumerNext

\* Nothing is requested at first.
LEMMA DataInit == Init => QInv /\ DataInv
<1> SUFFICES ASSUME Init PROVE DataInv
  BY QInit
<1>1. \A v \in Vcpus : ppc[v] = "closed" /\ rax[v] # 0
  BY DEF Init, KVM_HC_CRYPTO
<1>2. \A k \in Kthreads : kpc[k] = "none"
  BY DEF Init
<1>3. QED
  BY <1>1, <1>2 DEF DataInv, Filled, Carries, Delivers, Queued

\* Every step keeps DataInv.
LEMMA DataNext == QInv /\ DataInv /\ [Next]_vars => QInv' /\ DataInv'
<1> SUFFICES ASSUME QInv, DataInv, [Next]_vars PROVE QInv' /\ DataInv'
  OBVIOUS
<1>1. QInv'
  BY QNext
<1>2. CASE UNCHANGED vars
  BY <1>1, <1>2
  DEF DataInv, Filled, Carries, Delivers, Want, vars, prodVars, consVars
<1>3. QED
  BY <1>1, <1>2, DataModule, DataProducer, DataConsumer DEF Next, Finished

\* A hypercall that returns 0 has delivered the requested operation on that
\* guest's own input, whatever the other vCPUs and the kthreads do.
THEOREM ResultCorrect == Spec => []ResultDelivered
<1>1. DataInv => ResultDelivered
  BY DEF DataInv, Delivers, ResultDelivered, Want
<1>2. QED
  BY <1>1, DataInit, DataNext, PTL DEF Spec

=============================================================================
