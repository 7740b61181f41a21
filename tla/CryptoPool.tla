----------------------------- MODULE CryptoPool -----------------------------
(***************************************************************************)
(* The encryption service of the modified KVM: kvm-kmod's kvm_crypto.c,    *)
(* the hypercall that reaches it (x86.c) and the module load and unload    *)
(* that start and stop it (kvm_main.c).                                    *)
(*                                                                         *)
(* A vCPU thread executes crypto_produce_job on behalf of the guest: it    *)
(* copies the request in, links a crypto_job into the queue cq, sleeps on  *)
(* finish_wq until the job's status is 1, copies the result out and frees  *)
(* the job.  A pool of kernel threads executes crypto_consume_job.  The    *)
(* module thread executes crypto_pool_initialization at the end of         *)
(* kvm_init and crypto_pool_reclaim at the start of kvm_exit.              *)
(*                                                                         *)
(* The queue is the code's linked list: head, tail, num and a next field   *)
(* in every job.  cq_mutex is held from LinkJob to NotifyConsumers, the     *)
(* three parts of the producer's critical section; the other critical sections  *)
(* are single steps that need the mutex free.  The unlocked reads of       *)
(* cq.num and cq.stop in the consumer's wait condition, and the two of     *)
(* global_job_id, are steps of their own.                                  *)
(***************************************************************************)
EXTENDS Integers, FiniteSets

CONSTANTS
  Vcpus,      \* vCPU threads of all the guests
  PoolSize,   \* KTHREAD_POOL_SIZE
  Jobs,       \* addresses kmalloc may return for a struct crypto_job
  NULL,
  Requests,   \* operations the guests ask for
  MaxJobId,   \* MAX_JOB_ID
  MaxCalls,   \* bound: hypercalls made by all vCPUs together
  MaxLoads    \* bound: times the module is loaded

VARIABLES
  mod,            \* where the module thread is in kvm_init / kvm_exit
  ki,             \* its loop index i over the kthreads, counted from 1
  loads,          \* how often the module was loaded
  cq,             \* struct crypto_queue
  mutex,          \* cq_mutex: the vCPU that holds it, or NULL
  global_job_id,
  alloc,          \* the crypto_job objects that are allocated
  job,            \* their contents
  ppc,            \* where each vCPU thread is in crypto_produce_job
  jv,             \* its local j
  req,            \* vjob_hva->operation
  reg,            \* the value of global_job_id that its ++ works on
  hc_ret,         \* its local hc_ret
  rax,            \* the guest's RAX: hypercall number, then result
  gout,           \* contents of the guest's output buffer
  calls,          \* hypercalls made
  kpc,            \* where each kthread is in crypto_consume_job
  nj              \* its local nj

modVars  == <<mod, ki, loads>>
prodVars == <<ppc, jv, req, reg, hc_ret, rax, gout, calls>>
consVars == <<kpc, nj>>
vars == <<modVars, cq, mutex, global_job_id, alloc, job, prodVars, consVars>>

Kthreads == 1..PoolSize

-----------------------------------------------------------------------------
(* Buffers.  A buffer's contents are a tag and the vCPU whose plaintext it *)
(* derives from: what the properties tell apart is whose data, under which *)
(* operation, ended up where.                                              *)

KVM_ENCRYPTION == "KVM_ENCRYPTION"
KVM_DECRYPTION == "KVM_DECRYPTION"
KVM_HC_CRYPTO  == 15
KVM_EPERM      == 1
Operations == {KVM_ENCRYPTION, KVM_DECRYPTION, "unknown"}

ASSUME PoolAssumption ==
  /\ PoolSize \in Nat \ {0}
  /\ Requests \subseteq Operations
  /\ MaxJobId \in Nat
  /\ MaxCalls \in Nat
  /\ MaxLoads \in Nat
  /\ NULL \notin Jobs \cup Vcpus

Zero  == <<"zero", NULL>>     \* memset(obuf, 0, len)
Stale == <<"stale", NULL>>    \* whatever the guest had in its output buffer
Input(v) == <<"input", v>>    \* the guest's input buffer
Contents ==
  ({"zero", "stale", "input"} \cup Operations) \X (Vcpus \cup {NULL})

\* The consumer's if/else over nj->operation: what is left in nj->output.
\* An unknown operation leaves the zeroed buffer alone.
Crypt(op, input, output) ==
  IF op \in {KVM_ENCRYPTION, KVM_DECRYPTION} THEN <<op, input[2]>> ELSE output

JobRecord ==
  [job_id : Nat, operation : Operations, input : Contents,
   output : Contents, status : {0, 1}, next : Jobs \cup {NULL}]

\* What free memory holds: nothing may depend on it.
Unallocated ==
  [job_id |-> 0, operation |-> "unknown", input |-> Zero, output |-> Zero,
   status |-> 0, next |-> NULL]

\* The memory after kfree of the jobs in set freed.
KFree(freed) == [j \in Jobs |-> IF j \in freed THEN Unallocated ELSE job[j]]

CryptoQueue ==
  [head : Jobs \cup {NULL}, tail : Jobs \cup {NULL}, num : Nat, stop : {0, 1}]

EmptyQueue == [head |-> NULL, tail |-> NULL, num |-> 0, stop |-> 0]

\* The job cell i steps from the head of the list, or NULL.
Cell[i \in Nat] ==
  IF i = 0 THEN cq.head
  ELSE IF Cell[i - 1] = NULL THEN NULL ELSE job[Cell[i - 1]].next

\* Every job on the list, whatever cq.num says.
Linked == {Cell[i] : i \in 0..Cardinality(Jobs)} \ {NULL}

\* wake_up_interruptible(&cq_wq): no kthread stays asleep on cq_wq.
WakeConsumers == [k \in Kthreads |-> IF kpc[k] = "asleep" THEN "wait" ELSE kpc[k]]

\* wake_up_interruptible(&finish_wq): no vCPU stays asleep on finish_wq.
WakeProducers == [v \in Vcpus |-> IF ppc[v] = "asleep" THEN "wait" ELSE ppc[v]]

\* kthread_should_stop() for kthread k: kthread_stop(ckt_ptr[k]) was called.
ShouldStop(k) == \/ mod = "join" /\ k <= ki
                 \/ mod = "stopping" /\ k < ki

-----------------------------------------------------------------------------
Init ==
  /\ mod = "unloaded"
  /\ ki = 1
  /\ loads = 0
  /\ cq = EmptyQueue
  /\ mutex = NULL
  /\ global_job_id = 0
  /\ alloc = {}
  /\ job = [j \in Jobs |-> Unallocated]
  /\ ppc = [v \in Vcpus |-> "closed"]
  /\ jv = [v \in Vcpus |-> NULL]
  /\ req = [v \in Vcpus |-> "unknown"]
  /\ reg = [v \in Vcpus |-> 0]
  /\ hc_ret = [v \in Vcpus |-> 0]
  /\ rax = [v \in Vcpus |-> KVM_HC_CRYPTO]
  /\ gout = [v \in Vcpus |-> Stale]
  /\ calls = 0
  /\ kpc = [k \in Kthreads |-> "none"]
  /\ nj = [k \in Kthreads |-> NULL]

-----------------------------------------------------------------------------
(* The module thread.                                                      *)

\* kvm_init up to misc_register: /dev/kvm exists.  kvm_init is called when
\* kvm-intel or kvm-amd is loaded; the statics of kvm.ko keep their values
\* from the last time unless kvm.ko was reloaded too.
Register ==
  /\ mod = "unloaded"
  /\ loads < MaxLoads
  /\ mod' = "registered"
  /\ loads' = loads + 1
  /\ \/ UNCHANGED <<cq, global_job_id>>
     \/ cq' = EmptyQueue /\ global_job_id' = 0
  /\ UNCHANGED <<ki, mutex, alloc, job, prodVars, consVars>>

\* crypto_pool_initialization: the queue's fields are assigned, unlocked.
PoolInit ==
  /\ mod = "registered"
  /\ mod' = "starting"
  /\ ki' = 1
  /\ cq' = EmptyQueue
  /\ UNCHANGED <<loads, mutex, global_job_id, alloc, job, prodVars, consVars>>

\* One round of its loop: ckt_ptr[i] = kthread_run(crypto_consume_job, ...).
StartKthread ==
  /\ mod = "starting"
  /\ kpc' = [kpc EXCEPT ![ki] = "wait"]
  /\ IF ki = PoolSize
       THEN mod' = "live" /\ UNCHANGED ki
       ELSE ki' = ki + 1 /\ UNCHANGED mod
  /\ UNCHANGED <<loads, cq, mutex, global_job_id, alloc, job, prodVars, nj>>

\* kvm_exit runs when nothing holds a reference on the module, that is, when
\* no vCPU file is open.  crypto_pool_reclaim: under the mutex, free the jobs
\* still linked and empty the queue.
PoolReclaim ==
  /\ mod = "live"
  /\ \A v \in Vcpus : ppc[v] = "closed"
  /\ mutex = NULL
  /\ mod' = "reclaimed"
  /\ alloc' = alloc \ Linked
  /\ job' = KFree(Linked)
  /\ cq' = [cq EXCEPT !.head = NULL, !.tail = NULL, !.num = 0]
  /\ UNCHANGED <<ki, loads, mutex, global_job_id, prodVars, consVars>>

\* Mutant: cq.stop is not set, kthread_stop is relied on alone.
SetStopForgotten ==
  /\ mod = "reclaimed"
  /\ mod' = "stopping"
  /\ ki' = 1
  /\ UNCHANGED <<loads, cq, mutex, global_job_id, alloc, job, prodVars, consVars>>

\* cq.stop = 1, after the unlock.
SetStop ==
  /\ mod = "reclaimed"
  /\ mod' = "stopping"
  /\ ki' = 1
  /\ cq' = [cq EXCEPT !.stop = 1]
  /\ UNCHANGED <<loads, mutex, global_job_id, alloc, job, prodVars, consVars>>

\* One round of the stop loop up to kthread_stop's wait.
StopKthread ==
  /\ mod = "stopping"
  /\ mod' = "join"
  /\ kpc' = WakeConsumers
  /\ UNCHANGED <<ki, loads, cq, mutex, global_job_id, alloc, job, prodVars, nj>>

\* Mutant: the kthreads are told to stop but not waited for.
JoinKthreadNoWait ==
  /\ mod = "join"
  /\ kpc' = [kpc EXCEPT ![ki] = IF @ = "dead" THEN "none" ELSE @]
  /\ IF ki = PoolSize
       THEN mod' = "unloaded" /\ UNCHANGED ki
       ELSE mod' = "stopping" /\ ki' = ki + 1
  /\ UNCHANGED <<loads, cq, mutex, global_job_id, alloc, job, prodVars, nj>>

\* kthread_stop returns once the thread has left its function.  After the
\* last one the module is gone.
JoinKthread ==
  /\ mod = "join"
  /\ kpc[ki] = "dead"
  /\ kpc' = [kpc EXCEPT ![ki] = "none"]
  /\ IF ki = PoolSize
       THEN mod' = "unloaded" /\ UNCHANGED ki
       ELSE mod' = "stopping" /\ ki' = ki + 1
  /\ UNCHANGED <<loads, cq, mutex, global_job_id, alloc, job, prodVars, nj>>

ModuleNext ==
  \/ Register \/ PoolInit \/ StartKthread
  \/ PoolReclaim \/ SetStop \/ StopKthread \/ JoinKthread

-----------------------------------------------------------------------------
(* A vCPU thread.  It holds the VM's file open, and through it the module, *)
(* from OpenVm to CloseVm.                                                 *)

OpenVm(v) ==
  /\ ppc[v] = "closed"
  /\ mod \in {"starting", "live"}
  /\ ppc' = [ppc EXCEPT ![v] = "guest"]
  /\ UNCHANGED <<modVars, cq, mutex, global_job_id, alloc, job, jv, req, reg,
                 hc_ret, rax, gout, calls, consVars>>

CloseVm(v) ==
  /\ ppc[v] = "guest"
  /\ ppc' = [ppc EXCEPT ![v] = "closed"]
  /\ UNCHANGED <<modVars, cq, mutex, global_job_id, alloc, job, jv, req, reg,
                 hc_ret, rax, gout, calls, consVars>>

\* kvm_emulate_hypercall refuses a hypercall from guest user mode.
HypercallDenied(v) ==
  /\ ppc[v] = "guest"
  /\ calls < MaxCalls
  /\ calls' = calls + 1
  /\ rax' = [rax EXCEPT ![v] = -KVM_EPERM]
  /\ UNCHANGED <<modVars, cq, mutex, global_job_id, alloc, job, ppc, jv, req,
                 reg, hc_ret, gout, consVars>>

\* The hypercall enters crypto_produce_job for operation op.  Either the
\* request and the input buffer are copied in, or one of the copies or the
\* first kmalloc fails and it goes to out with hc_ret 1 and no job.
ProduceJob(v, op) ==
  /\ ppc[v] = "guest"
  /\ calls < MaxCalls
  /\ calls' = calls + 1
  /\ req' = [req EXCEPT ![v] = op]
  /\ rax' = [rax EXCEPT ![v] = KVM_HC_CRYPTO]
  /\ gout' = [gout EXCEPT ![v] = Stale]
  /\ \/ /\ ppc' = [ppc EXCEPT ![v] = "alloc"]
        /\ hc_ret' = [hc_ret EXCEPT ![v] = 0]
     \/ /\ ppc' = [ppc EXCEPT ![v] = "out"]
        /\ hc_ret' = [hc_ret EXCEPT ![v] = 1]
  /\ UNCHANGED <<modVars, cq, mutex, global_job_id, alloc, job, jv, reg,
                 consVars>>

\* reg of a vCPU that found global_job_id beyond MAX_JOB_ID and takes id 0.
Saturated == -1

\* j = kmalloc(...), and global_job_id > MAX_JOB_ID, the first of line 141's two
\* loads of the counter.  No lock is held there.
AllocJob(v) ==
  /\ ppc[v] = "alloc"
  /\ \E j \in Jobs \ alloc :
       /\ alloc' = alloc \cup {j}
       /\ jv' = [jv EXCEPT ![v] = j]
  /\ IF global_job_id > MaxJobId
       THEN /\ reg' = [reg EXCEPT ![v] = Saturated]
            /\ ppc' = [ppc EXCEPT ![v] = "init"]
       ELSE /\ ppc' = [ppc EXCEPT ![v] = "number"]
            /\ UNCHANGED reg
  /\ UNCHANGED <<modVars, cq, mutex, global_job_id, job, req, hc_ret, rax, gout,
                 calls, consVars>>

\* The second load, of global_job_id++: other vCPUs may have stored since the
\* test.  A compiler that loads once makes the two steps one after the other.
NumberJob(v) ==
  /\ ppc[v] = "number"
  /\ reg' = [reg EXCEPT ![v] = global_job_id]
  /\ ppc' = [ppc EXCEPT ![v] = "init"]
  /\ UNCHANGED <<modVars, cq, mutex, global_job_id, alloc, job, jv, req, hc_ret,
                 rax, gout, calls, consVars>>

\* The store of global_job_id++, and the fields of the job.
InitJob(v) ==
  /\ ppc[v] = "init"
  /\ job' = [job EXCEPT ![jv[v]] =
               [job_id |-> IF reg[v] = Saturated THEN 0 ELSE reg[v],
                operation |-> req[v], input |-> Input(v), output |-> Zero,
                status |-> 0, next |-> NULL]]
  /\ global_job_id' = IF reg[v] = Saturated THEN global_job_id ELSE reg[v] + 1
  /\ reg' = [reg EXCEPT ![v] = 0]
  /\ ppc' = [ppc EXCEPT ![v] = "lock"]
  /\ UNCHANGED <<modVars, cq, mutex, alloc, jv, req, hc_ret, rax, gout, calls,
                 consVars>>

\* Mutant: the job is inserted at the head.
LinkJobAtHead(v) ==
  /\ ppc[v] = "lock"
  /\ mutex = NULL
  /\ mutex' = v
  /\ cq' = [cq EXCEPT !.head = jv[v], !.tail = IF cq.num = 0 THEN jv[v] ELSE @]
  /\ job' = [job EXCEPT ![jv[v]].next = cq.head]
  /\ ppc' = [ppc EXCEPT ![v] = "count"]
  /\ UNCHANGED <<modVars, global_job_id, alloc, jv, req, reg, hc_ret, rax, gout,
                 calls, consVars>>

\* mutex_lock, and the insertion at the tail.
LinkJob(v) ==
  /\ ppc[v] = "lock"
  /\ mutex = NULL
  /\ mutex' = v
  /\ IF cq.num = 0
       THEN /\ cq' = [cq EXCEPT !.head = jv[v], !.tail = jv[v]]
            /\ UNCHANGED job
       ELSE /\ cq' = [cq EXCEPT !.tail = jv[v]]
            /\ job' = [job EXCEPT ![cq.tail].next = jv[v]]
  /\ ppc' = [ppc EXCEPT ![v] = "count"]
  /\ UNCHANGED <<modVars, global_job_id, alloc, jv, req, reg, hc_ret, rax, gout,
                 calls, consVars>>

\* cq.num++: from here on the consumers' wait condition is true.
CountJob(v) ==
  /\ ppc[v] = "count"
  /\ cq' = [cq EXCEPT !.num = @ + 1]
  /\ ppc' = [ppc EXCEPT ![v] = "notify"]
  /\ UNCHANGED <<modVars, mutex, global_job_id, alloc, job, jv, req, reg, hc_ret,
                 rax, gout, calls, consVars>>

\* wake_up_interruptible(&cq_wq), mutex_unlock.
NotifyConsumers(v) ==
  /\ ppc[v] = "notify"
  /\ kpc' = WakeConsumers
  /\ mutex' = NULL
  /\ ppc' = [ppc EXCEPT ![v] = "wait"]
  /\ UNCHANGED <<modVars, cq, global_job_id, alloc, job, jv, req, reg, hc_ret,
                 rax, gout, calls, nj>>

\* One evaluation of wait_event_interruptible's condition.  The thread is on
\* finish_wq before it evaluates, so no wake-up falls between the two.
AwaitJob(v) ==
  /\ ppc[v] = "wait"
  /\ ppc' = [ppc EXCEPT ![v] =
               IF job[jv[v]].status = 1 THEN "copy" ELSE "asleep"]
  /\ UNCHANGED <<modVars, cq, mutex, global_job_id, alloc, job, jv, req, reg,
                 hc_ret, rax, gout, calls, consVars>>

\* Mutant: a failure is reported as kvm_write_guest's own result, -EFAULT.
WriteBackErrno(v) ==
  /\ ppc[v] = "copy"
  /\ \/ /\ gout' = [gout EXCEPT ![v] = job[jv[v]].output]
        /\ UNCHANGED hc_ret
     \/ /\ hc_ret' = [hc_ret EXCEPT ![v] = -14]
        /\ UNCHANGED gout
  /\ ppc' = [ppc EXCEPT ![v] = "out"]
  /\ UNCHANGED <<modVars, cq, mutex, global_job_id, alloc, job, jv, req, reg,
                 rax, calls, consVars>>

\* kvm_write_guest of the output buffer, which may fail.
WriteBack(v) ==
  /\ ppc[v] = "copy"
  /\ \/ /\ gout' = [gout EXCEPT ![v] = job[jv[v]].output]
        /\ UNCHANGED hc_ret
     \/ /\ hc_ret' = [hc_ret EXCEPT ![v] = 1]
        /\ UNCHANGED gout
  /\ ppc' = [ppc EXCEPT ![v] = "out"]
  /\ UNCHANGED <<modVars, cq, mutex, global_job_id, alloc, job, jv, req, reg,
                 rax, calls, consVars>>

\* Mutant: out does not free the job.
ReturnLeaking(v) ==
  /\ ppc[v] = "out"
  /\ jv' = [jv EXCEPT ![v] = NULL]
  /\ rax' = [rax EXCEPT ![v] = hc_ret[v]]
  /\ ppc' = [ppc EXCEPT ![v] = "guest"]
  /\ UNCHANGED <<modVars, cq, mutex, global_job_id, alloc, job, req, reg, hc_ret,
                 gout, calls, consVars>>

\* out: free everything, and kvm_emulate_hypercall stores hc_ret in RAX.
Return(v) ==
  /\ ppc[v] = "out"
  /\ alloc' = alloc \ {jv[v]}
  /\ job' = KFree({jv[v]})
  /\ jv' = [jv EXCEPT ![v] = NULL]
  /\ rax' = [rax EXCEPT ![v] = hc_ret[v]]
  /\ ppc' = [ppc EXCEPT ![v] = "guest"]
  /\ UNCHANGED <<modVars, cq, mutex, global_job_id, req, reg, hc_ret, gout,
                 calls, consVars>>

\* The steps of crypto_produce_job after its entry.
ProducerStep(v) ==
  \/ AllocJob(v) \/ NumberJob(v) \/ InitJob(v) \/ LinkJob(v) \/ CountJob(v)
  \/ NotifyConsumers(v) \/ AwaitJob(v) \/ WriteBack(v) \/ Return(v)

ProducerNext(v) ==
  \/ OpenVm(v) \/ CloseVm(v) \/ HypercallDenied(v)
  \/ \E op \in Requests : ProduceJob(v, op)
  \/ ProducerStep(v)

-----------------------------------------------------------------------------
(* A kthread of the pool: crypto_consume_job.                              *)

\* One unlocked evaluation of cq.num > 0 || cq.stop == 1.
KWait(k) ==
  /\ kpc[k] = "wait"
  /\ kpc' = [kpc EXCEPT ![k] =
               IF cq.num > 0 \/ cq.stop = 1 THEN "take" ELSE "asleep"]
  /\ UNCHANGED <<modVars, cq, mutex, global_job_id, alloc, job, prodVars, nj>>

\* Mutant: the consumer does not take the mutex.
KTakeUnlocked(k) ==
  /\ kpc[k] = "take"
  /\ IF cq.num > 0
       THEN /\ nj' = [nj EXCEPT ![k] = cq.head]
            /\ cq' = [cq EXCEPT !.head = job[cq.head].next,
                                !.num = @ - 1,
                                !.tail = IF cq.num = 1 THEN NULL ELSE @]
            /\ job' = [job EXCEPT ![cq.head].next = NULL]
            /\ kpc' = [kpc EXCEPT ![k] = "process"]
       ELSE /\ nj' = [nj EXCEPT ![k] = NULL]
            /\ kpc' = [kpc EXCEPT ![k] = "loop"]
            /\ UNCHANGED <<cq, job>>
  /\ UNCHANGED <<modVars, mutex, global_job_id, alloc, prodVars>>

\* The consumer's critical section.  Another kthread may have emptied the
\* queue since KWait, and then nj stays NULL and the rest is skipped.  With
\* cq.num > 0 a NULL cq.head would be dereferenced: the thread's last step.
KTake(k) ==
  /\ kpc[k] = "take"
  /\ mutex = NULL
  /\ IF cq.num > 0
       THEN /\ cq.head # NULL
            /\ nj' = [nj EXCEPT ![k] = cq.head]
            /\ cq' = [cq EXCEPT !.head = job[cq.head].next,
                                !.num = @ - 1,
                                !.tail = IF cq.num = 1 THEN NULL ELSE @]
            /\ job' = [job EXCEPT ![cq.head].next = NULL]
            /\ kpc' = [kpc EXCEPT ![k] = "process"]
       ELSE /\ nj' = [nj EXCEPT ![k] = NULL]
            /\ kpc' = [kpc EXCEPT ![k] = "loop"]
            /\ UNCHANGED <<cq, job>>
  /\ UNCHANGED <<modVars, mutex, global_job_id, alloc, prodVars>>

KProcess(k) ==
  /\ kpc[k] = "process"
  /\ job' = [job EXCEPT ![nj[k]].output =
               Crypt(job[nj[k]].operation, job[nj[k]].input, @)]
  /\ kpc' = [kpc EXCEPT ![k] = "finish"]
  /\ UNCHANGED <<modVars, cq, mutex, global_job_id, alloc, prodVars, nj>>

\* Mutant: the waiting vCPUs are not woken.
KFinishNoWake(k) ==
  /\ kpc[k] = "finish"
  /\ job' = [job EXCEPT ![nj[k]].status = 1]
  /\ kpc' = [kpc EXCEPT ![k] = "loop"]
  /\ UNCHANGED <<modVars, cq, mutex, global_job_id, alloc, prodVars, nj>>

\* nj->status = 1.  From here on the vCPU may free the job at any time.
KFinish(k) ==
  /\ kpc[k] = "finish"
  /\ job' = [job EXCEPT ![nj[k]].status = 1]
  /\ kpc' = [kpc EXCEPT ![k] = "wake"]
  /\ UNCHANGED <<modVars, cq, mutex, global_job_id, alloc, prodVars, nj>>

\* Mutant: a woken vCPU goes on without evaluating its condition again.
KWakeUnchecked(k) ==
  /\ kpc[k] = "wake"
  /\ ppc' = [v \in Vcpus |-> IF ppc[v] = "asleep" THEN "copy" ELSE ppc[v]]
  /\ kpc' = [kpc EXCEPT ![k] = "loop"]
  /\ UNCHANGED <<modVars, cq, mutex, global_job_id, alloc, job, jv, req, reg,
                 hc_ret, rax, gout, calls, nj>>

\* wake_up_interruptible(&finish_wq), then schedule().
KWake(k) ==
  /\ kpc[k] = "wake"
  /\ ppc' = WakeProducers
  /\ kpc' = [kpc EXCEPT ![k] = "loop"]
  /\ UNCHANGED <<modVars, cq, mutex, global_job_id, alloc, job, jv, req, reg,
                 hc_ret, rax, gout, calls, nj>>

\* The loop's condition: !kthread_should_stop() && cq.stop != 1.
KLoop(k) ==
  /\ kpc[k] = "loop"
  /\ kpc' = [kpc EXCEPT ![k] =
               IF ShouldStop(k) \/ cq.stop = 1 THEN "dead" ELSE "wait"]
  /\ UNCHANGED <<modVars, cq, mutex, global_job_id, alloc, job, prodVars, nj>>

ConsumerNext(k) ==
  KWait(k) \/ KTake(k) \/ KProcess(k) \/ KFinish(k) \/ KWake(k) \/ KLoop(k)

\* The module has been unloaded for the last time the bound allows.
Finished ==
  /\ mod = "unloaded"
  /\ loads = MaxLoads
  /\ UNCHANGED vars

Next ==
  \/ ModuleNext
  \/ \E v \in Vcpus : ProducerNext(v)
  \/ \E k \in Kthreads : ConsumerNext(k)
  \/ Finished

\* The scheduler runs every runnable thread again and again, so a thread
\* that stays inside kvm_crypto.c and is not blocked makes a step.  When a
\* guest makes a hypercall, or closes its VM, is nobody's promise.
Fairness ==
  /\ WF_vars(PoolInit \/ StartKthread \/ SetStop \/ StopKthread \/ JoinKthread)
  /\ \A v \in Vcpus : WF_vars(ProducerStep(v))
  /\ \A k \in Kthreads : WF_vars(ConsumerNext(k))

Spec == Init /\ [][Next]_vars /\ Fairness

-----------------------------------------------------------------------------
(* Two things the code does not exclude, kept out of Next so that what     *)
(* holds without them can be stated.                                       *)

\* A signal ends wait_event_interruptible early.  Its result is ignored, so
\* the thread goes on as if the job were done.
Interrupted(v) ==
  /\ ppc[v] = "asleep"
  /\ ppc' = [ppc EXCEPT ![v] = "copy"]
  /\ UNCHANGED <<modVars, cq, mutex, global_job_id, alloc, job, jv, req, reg,
                 hc_ret, rax, gout, calls, consVars>>

SignalNext == Next \/ \E v \in Vcpus : Interrupted(v)
SignalSpec == Init /\ [][SignalNext]_vars /\ Fairness

\* /dev/kvm is opened between misc_register and crypto_pool_initialization.
OpenEarly(v) ==
  /\ ppc[v] = "closed"
  /\ mod = "registered"
  /\ ppc' = [ppc EXCEPT ![v] = "guest"]
  /\ UNCHANGED <<modVars, cq, mutex, global_job_id, alloc, job, jv, req, reg,
                 hc_ret, rax, gout, calls, consVars>>

EarlyNext == Next \/ \E v \in Vcpus : OpenEarly(v)
EarlySpec == Init /\ [][EarlyNext]_vars /\ Fairness

-----------------------------------------------------------------------------
(* Properties.                                                             *)

Queued  == {"count", "notify", "wait", "asleep"}   \* after the insertion
HasJob  == Queued \cup {"number", "init", "lock", "copy"}   \* j is not NULL
Serving == {k \in Kthreads : kpc[k] \in {"process", "finish"}}

\* Every variable stays in its set: the queue's pointers, the job records,
\* the program counters of vCPU threads, kthreads and the module thread.  Job
\* ids have no upper bound: MAX_JOB_ID is tested before the counter is loaded
\* again and stored, so that several vCPUs take it further.
TypeOK ==
  /\ mod \in {"unloaded", "registered", "starting", "live", "reclaimed",
              "stopping", "join"}
  /\ ki \in Kthreads
  /\ loads \in 0..MaxLoads
  /\ cq \in CryptoQueue
  /\ mutex \in Vcpus \cup {NULL}
  /\ global_job_id \in Nat
  /\ alloc \in SUBSET Jobs
  /\ job \in [Jobs -> JobRecord]
  /\ ppc \in [Vcpus -> HasJob \cup {"closed", "guest", "alloc", "out"}]
  /\ jv \in [Vcpus -> Jobs \cup {NULL}]
  /\ req \in [Vcpus -> Operations]
  /\ reg \in [Vcpus -> Nat \cup {Saturated}]
  /\ hc_ret \in [Vcpus -> {0, 1}]
  /\ rax \in [Vcpus -> {KVM_HC_CRYPTO, 0, 1, -KVM_EPERM}]
  /\ gout \in [Vcpus -> Contents]
  /\ calls \in 0..MaxCalls
  /\ kpc \in [Kthreads -> {"none", "wait", "asleep", "take", "process", "finish",
                           "wake", "loop", "dead"}]
  /\ nj \in [Kthreads -> Jobs \cup {NULL}]

\* Every allocated job belongs to exactly one vCPU inside crypto_produce_job,
\* and nothing else is allocated: kfree at out neither leaks nor frees twice,
\* and crypto_pool_reclaim finds nothing left to free.
JobOwnership ==
  /\ alloc = {jv[v] : v \in Vcpus} \ {NULL}
  /\ \A v, w \in Vcpus : jv[v] # NULL /\ jv[v] = jv[w] => v = w
  /\ \A v \in Vcpus : ppc[v] \in HasJob => jv[v] # NULL
  /\ mod \in {"reclaimed", "stopping", "join", "unloaded"} => alloc = {}

\* A kthread that works on a job holds it alone, and the job's vCPU is still
\* waiting for it: the buffers nj points to cannot have been freed.
ServedAlone ==
  \A k \in Serving :
    /\ \E v \in Vcpus : /\ ppc[v] \in {"wait", "asleep"}
                        /\ jv[v] = nj[k]
                        /\ job[nj[k]].status = 0
    /\ \A l \in Serving : nj[l] = nj[k] => l = k

\* The jobs that are linked and that no kthread has taken.
Unserved ==
  {jv[v] : v \in {u \in Vcpus : ppc[u] \in Queued /\ job[jv[u]].status = 0}}
    \ {nj[k] : k \in Serving}

\* cq.num, plus the job that LinkJob has linked and CountJob not counted yet.
Length == cq.num + (IF \E v \in Vcpus : ppc[v] = "count" THEN 1 ELSE 0)

\* The list from head to tail is q.
ListIs(q) ==
  /\ q \in [1..Length -> Jobs]
  /\ \A a, b \in 1..Length : q[a] = q[b] => a = b
  /\ cq.head = IF Length = 0 THEN NULL ELSE q[1]
  /\ cq.tail = IF Length = 0 THEN NULL ELSE q[Length]
  /\ \A a \in 1..Length :
       job[q[a]].next = IF a = Length THEN NULL ELSE q[a + 1]
  /\ {q[a] : a \in 1..Length} = Unserved

\* head, tail, num and the next fields describe one finite list without
\* repetition, and it holds exactly the jobs still to be served.
QueueWellFormed == \E q \in [1..Length -> Jobs] : ListIs(q)

\* Nobody sleeps through the event it waits for.  A vCPU asleep on a finished
\* job has a kthread about to wake it; a kthread asleep on a non-empty queue
\* has a vCPU about to wake it; and one asleep although cq.stop is set has the
\* module thread about to wake it.
NoLostWakeup ==
  /\ \A v \in Vcpus :
       ppc[v] = "asleep" /\ job[jv[v]].status = 1
         => \E k \in Kthreads : kpc[k] = "wake"
  /\ \A k \in Kthreads :
       kpc[k] = "asleep" =>
         /\ cq.num > 0 => \E v \in Vcpus : ppc[v] = "notify"
         /\ cq.stop = 1 => mod = "stopping" /\ ki = 1

\* A hypercall that returns 0 has put into the guest's output buffer the
\* result of the requested operation on that guest's own input.
ResultDelivered ==
  \A v \in Vcpus :
    ppc[v] = "guest" /\ rax[v] = 0 => gout[v] = Crypt(req[v], Input(v), Zero)

\* When kvm_exit is through, no kthread is left to run the module's code.
NoKthreadAfterUnload ==
  mod = "unloaded" => \A k \in Kthreads : kpc[k] = "none"

\* No thread writes into a job that is not allocated: neither the producer
\* that links behind cq.tail, nor the consumer that unlinks cq.head and fills
\* the output.
WritesOnlyLiveJobs ==
  [][\A j \in Jobs : job'[j] # job[j] => j \in alloc]_vars

\* Every hypercall that got its request in returns to the guest.
HypercallReturns == \A v \in Vcpus : ppc[v] = "alloc" ~> ppc[v] = "guest"

\* crypto_pool_reclaim terminates: every kthread_stop returns.
UnloadCompletes == mod = "reclaimed" ~> mod = "unloaded"

=============================================================================
