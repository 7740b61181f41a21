----------------------------- MODULE GuestDriver -----------------------------
(***************************************************************************)
(* The guest's side of the crypto service: the kernel module kvm-crypto    *)
(* (main.c), submit_job with its hypercall (crypto.c) and the program that *)
(* uses it (user.c), on top of what the host promises (CryptoService, which *)
(* the pool implements).                                                   *)
(*                                                                         *)
(* Processes take turns on the vCPUs, except in the hypercall: a vCPU that *)
(* executes vmcall is the host's until it returns.  Data is whose text it  *)
(* is and how often it has been encrypted; the cipher and its inverse move *)
(* that count up and down.                                                 *)
(***************************************************************************)
EXTENDS Integers, Sequences, FiniteSets

CONSTANTS
  Procs,      \* the processes of user.c
  main,       \* the first of them, which forks the others
  Vcpus,
  Servers,    \* kthreads of the host's pool
  Bufs,       \* the guest kernel's memory, for kmalloc
  NULL,
  Zero,       \* whose text zeroed memory is
  MaxLoads    \* bound: insmod commands

VARIABLES
  loads,      \* how often insmod was run
  loaded,     \* the module is in the kernel
  device,     \* its character device is there
  opened,     \* processes that hold the device open
  pc,         \* where each process is
  request,    \* the ioctl it is at
  user,       \* its three buffers
  bufs,       \* vjob_gva, input_gva, output_gva of submit_job
  mem,        \* the contents of what kmalloc gave out
  leaked,     \* buffers nobody will free: their process died in the kernel
  on,         \* the vCPU whose vmcall a process is in
  job,        \* the host's copy of each vCPU's job
  failed,     \* ghost: processes that had a hypercall fail
  phase, operation, queue, answer   \* the host: see CryptoService

host == <<phase, operation, queue, answer>>
moduleVars == <<loads, loaded, device>>
program == <<opened, pc, request, user>>
vars == <<moduleVars, program, bufs, mem, leaked, on, job, failed, host>>

Operations == {"KVM_ENCRYPTION", "KVM_DECRYPTION"}
Jobs == [input_gpa : Bufs, output_gpa : Bufs, operation : Operations]
Data == [of : Procs \cup {Zero}, level : -1..1]
Zeros == [of |-> Zero, level |-> 0]
Plain(p) == [of |-> p, level |-> 0]

\* The cipher: one operation undoes the other.
Crypt(op, data) ==
  [data EXCEPT !.level = IF op = "KVM_ENCRYPTION" THEN @ + 1 ELSE @ - 1]

NoText == [input |-> Zeros, output |-> Zeros, output2 |-> Zeros]
NoBufs == [vjob |-> NULL, input |-> NULL, output |-> NULL]
Held(p) == {bufs[p].vjob, bufs[p].input, bufs[p].output} \ {NULL}
FreeBufs == {b \in Bufs : mem[b] = NULL}

\* kmalloc, when the buffers in S are in use too.  What is free is all alike, so
\* that it does not matter which of them it gives out.
Kmalloc(S) == IF FreeBufs \subseteq S THEN NULL ELSE CHOOSE b \in FreeBufs \ S : TRUE

ASSUME DriverAssumption ==
  /\ main \in Procs
  /\ MaxLoads \in Nat
  /\ Zero \notin Procs
  /\ NULL \notin Bufs \cup Procs \cup Vcpus \cup Data \cup Jobs

HostResult(v, op) == <<v, op>>

\* What the host promises.  The data of a result is filled in by HostReply.
Host == INSTANCE CryptoService
          WITH Requests <- Operations, Stale <- Zero, request <- operation,
               Result <- HostResult

Init ==
  /\ loads = 0 /\ loaded = FALSE /\ device = FALSE
  /\ opened = {}
  /\ pc = [p \in Procs |-> IF p = main THEN "fork" ELSE "unborn"]
  /\ request = [p \in Procs |-> "KC_IOENC"]
  /\ user = [p \in Procs |-> NoText]
  /\ bufs = [p \in Procs |-> NoBufs]
  /\ mem = [b \in Bufs |-> NULL]
  /\ leaked = {}
  /\ on = [p \in Procs |-> NULL]
  /\ job = [v \in Vcpus |-> NULL]
  /\ failed = {}
  /\ Host!Init

-----------------------------------------------------------------------------
(* main.c: the module.                                                     *)

\* ioctl_dev_install: the number may be taken; cdev_add may fail unnoticed.
Install ==
  /\ ~loaded
  /\ loads < MaxLoads
  /\ loads' = loads + 1
  /\ \/ UNCHANGED <<loaded, device>>
     \/ loaded' = TRUE /\ device' \in BOOLEAN
  /\ UNCHANGED <<program, bufs, mem, leaked, on, job, failed, host>>

\* Mutant: the file operations have no owner, so open files do not count.
UninstallUncounted ==
  /\ loaded
  /\ loaded' = FALSE
  /\ device' = FALSE
  /\ UNCHANGED <<loads, program, bufs, mem, leaked, on, job, failed, host>>

\* ioctl_dev_uninstall: rmmod waits for open files, by owner: THIS_MODULE.
Uninstall ==
  /\ loaded
  /\ opened = {}
  /\ loaded' = FALSE
  /\ device' = FALSE
  /\ UNCHANGED <<loads, program, bufs, mem, leaked, on, job, failed, host>>

-----------------------------------------------------------------------------
(* user.c, and submit_job.                                                 *)

\* A process is gone, with its memory and its open file.
Exit(p) ==
  /\ pc' = [pc EXCEPT ![p] = "ended"]
  /\ opened' = opened \ {p}
  /\ request' = [request EXCEPT ![p] = "KC_IOENC"]
  /\ user' = [user EXCEPT ![p] = NoText]
  /\ failed' = failed \ {p}

\* The fork loop of main: a child leaves it, main goes on; main gives up when
\* fork fails.
Fork ==
  /\ pc[main] = "fork"
  /\ \/ \E c \in Procs \ {main} : pc[c] = "unborn" /\ pc' = [pc EXCEPT ![c] = "open"]
     \/ pc' = [pc EXCEPT ![main] = "ended"]
     \/ /\ \A c \in Procs : pc[c] # "unborn"
        /\ pc' = [pc EXCEPT ![main] = "open"]
  /\ UNCHANGED <<moduleVars, opened, request, user, bufs, mem, leaked, on, job, failed, host>>

\* open, and the buffers; without the device the program ends.
Open(p) ==
  /\ pc[p] = "open"
  /\ IF device
       THEN /\ opened' = opened \cup {p}
            /\ user' = [user EXCEPT ![p].input = Plain(p)]
            /\ pc' = [pc EXCEPT ![p] = "ioctl"]
       ELSE pc' = [pc EXCEPT ![p] = "ended"] /\ UNCHANGED <<opened, user>>
  /\ UNCHANGED <<moduleVars, request, bufs, mem, leaked, on, job, failed, host>>

\* js->input of the ioctl a process is at.
Source(p) == IF request[p] = "KC_IOENC" THEN user[p].input ELSE user[p].output

\* Mutant: the switch falls through to KC_IODEC.
OperationFallThrough(p) == "KVM_DECRYPTION"

OperationOf(p) == IF request[p] = "KC_IOENC" THEN "KVM_ENCRYPTION" ELSE "KVM_DECRYPTION"

\* ioctl_dev_ioctl, submit_job up to the hypercall: three buffers, the output one
\* holding old, the input copied, the job described.
Prepare(p, old) ==
  /\ pc[p] = "ioctl"
  /\ LET vjob   == Kmalloc({})
         input  == Kmalloc({vjob})
         output == Kmalloc({vjob, input})
     IN  /\ output # NULL
         /\ bufs' = [bufs EXCEPT ![p] = [vjob |-> vjob, input |-> input, output |-> output]]
         /\ mem' = [mem EXCEPT ![vjob] = [input_gpa |-> input, output_gpa |-> output,
                                          operation |-> OperationOf(p)],
                               ![input] = Source(p),
                               ![output] = old]
  /\ pc' = [pc EXCEPT ![p] = "vmcall"]
  /\ UNCHANGED <<moduleVars, opened, request, user, leaked, on, job, failed, host>>

\* Mutant: no memset, and the memory holds what somebody left there.
SubmitJobNoMemset(p) == \E q \in Procs : Prepare(p, Plain(q))

\* memset(output_gva, 0, js->len).
SubmitJob(p) == Prepare(p, Zeros)

\* kmalloc returns NULL, and memset or the first store goes there: the process
\* dies in the kernel, with what it had allocated.
SubmitOops(p) ==
  /\ pc[p] = "ioctl"
  /\ \E S \in {{}, {Kmalloc({})}, {Kmalloc({}), Kmalloc({Kmalloc({})})}} :
       /\ S \subseteq FreeBufs
       /\ leaked' = leaked \cup S
       /\ mem' = [b \in Bufs |-> IF b \in S THEN Zeros ELSE mem[b]]
  /\ Exit(p)
  /\ UNCHANGED <<moduleVars, bufs, on, job, host>>

\* vmcall: the vCPU is the host's from here on.
Vmcall(p, v) ==
  /\ pc[p] = "vmcall"
  /\ \A q \in Procs : on[q] # v
  /\ Host!Ask(v, mem[bufs[p].vjob].operation)
  /\ on' = [on EXCEPT ![p] = v]
  /\ pc' = [pc EXCEPT ![p] = "host"]
  /\ UNCHANGED <<moduleVars, opened, request, user, bufs, mem, leaked, job, failed>>

\* The rest of submit_job: the output goes to the buffer named field, the memory
\* to the kernel, and the process to where.
LeaveSubmit(p, field, freed, where) ==
  /\ pc[p] = "copyout"
  /\ user' = [user EXCEPT ![p][field] = mem[bufs[p].output]]
  /\ mem' = [b \in Bufs |-> IF b \in freed THEN NULL ELSE mem[b]]
  /\ bufs' = [bufs EXCEPT ![p] = NoBufs]
  /\ request' = [request EXCEPT ![p] = "KC_IODEC"]
  /\ pc' = [pc EXCEPT ![p] = where]
  /\ UNCHANGED <<moduleVars, opened, leaked, on, job, failed, host>>

Target(p) == IF request[p] = "KC_IOENC" THEN "output" ELSE "output2"
AfterIoctl(p) == IF request[p] = "KC_IOENC" THEN "ioctl" ELSE "close"

\* Mutants: the output of both ioctls goes to one buffer; the job description is
\* not freed; a failed request is made again and again.
CopyOutWrong(p) == LeaveSubmit(p, "output", Held(p), AfterIoctl(p))
CopyOutLeaking(p) == LeaveSubmit(p, Target(p), Held(p) \ {bufs[p].vjob}, AfterIoctl(p))
CopyOutRetry(p) ==
  LeaveSubmit(p, Target(p), Held(p), IF p \in failed THEN "ioctl" ELSE AfterIoctl(p))

\* copy_to_user and kfree, whatever the hypercall returned; the ioctl returns 0
\* and the program goes on to the next.
CopyOut(p) == LeaveSubmit(p, Target(p), Held(p), AfterIoctl(p))

\* close, and the end of the program.
Close(p) ==
  /\ pc[p] = "close"
  /\ Exit(p)
  /\ UNCHANGED <<moduleVars, bufs, mem, leaked, on, job, host>>

\* A signal ends the process, in user mode; its files are closed.
Kill(p) ==
  /\ pc[p] \in {"fork", "open", "ioctl", "close"}
  /\ Exit(p)
  /\ UNCHANGED <<moduleVars, bufs, mem, leaked, on, job, host>>

-----------------------------------------------------------------------------
(* The host.                                                               *)

\* vmcall returns on v: the process in it goes on.
Return(v) ==
  LET p == CHOOSE q \in Procs : on[q] = v
  IN  /\ on' = [on EXCEPT ![p] = NULL]
      /\ pc' = [pc EXCEPT ![p] = "copyout"]
      /\ failed' = IF answer'[v][1] = Host!Success THEN failed ELSE failed \cup {p}

\* The job cannot be read.
HostRefuse(v) ==
  /\ Host!Refuse(v)
  /\ Return(v)
  /\ UNCHANGED <<moduleVars, opened, request, user, bufs, mem, leaked, job>>

\* The job and its input are read, and queued.
HostEnqueue(v) ==
  /\ Host!Enqueue(v)
  /\ \E p \in Procs :
       /\ on[p] = v
       /\ LET vjob == mem[bufs[p].vjob]
          IN  job' = [job EXCEPT ![v] = [data |-> mem[vjob.input_gpa],
                                         output_gpa |-> vjob.output_gpa]]
  /\ UNCHANGED <<moduleVars, program, bufs, mem, leaked, on, failed>>

HostServe(v) ==
  /\ Host!Serve(v) \/ Host!Complete(v)
  /\ UNCHANGED <<moduleVars, program, bufs, mem, leaked, on, job, failed>>

\* The result is written to the output buffer, if the answer is success.
HostReply(v) ==
  /\ Host!Reply(v)
  /\ Return(v)
  /\ mem' = IF answer'[v][1] = Host!Success
              THEN [mem EXCEPT ![job[v].output_gpa] = Crypt(operation[v], job[v].data)]
              ELSE mem
  /\ job' = [job EXCEPT ![v] = NULL]
  /\ UNCHANGED <<moduleVars, opened, request, user, bufs, leaked>>

HostNext(v) == HostRefuse(v) \/ HostEnqueue(v) \/ HostServe(v) \/ HostReply(v)

ProcNext(p) ==
  \/ p = main /\ Fork
  \/ Open(p)
  \/ SubmitJob(p) \/ SubmitOops(p)
  \/ \E v \in Vcpus : Vmcall(p, v)
  \/ CopyOut(p)
  \/ Close(p)

Dead == {"ended", "unborn"}

\* Every process is gone.
Finished == (\A p \in Procs : pc[p] \in Dead) /\ UNCHANGED vars

Next ==
  \/ Install \/ Uninstall
  \/ \E p \in Procs : ProcNext(p) \/ Kill(p)
  \/ \E v \in Vcpus : HostNext(v)
  \/ Finished

\* The guest runs some process as long as one can run, and the host goes on with
\* some request as long as there is one.
Spec ==
  /\ Init /\ [][Next]_vars
  /\ WF_vars(\E p \in Procs : ProcNext(p))
  /\ WF_vars(\E v \in Vcpus : HostNext(v))

-----------------------------------------------------------------------------
(* Properties.                                                             *)

\* Every variable stays in its set.
TypeOK ==
  /\ loads \in 0..MaxLoads /\ loaded \in BOOLEAN /\ device \in BOOLEAN
  /\ opened \subseteq Procs
  /\ pc \in [Procs -> {"fork", "open", "ioctl", "vmcall", "host", "copyout",
                       "close"} \cup Dead]
  /\ request \in [Procs -> {"KC_IOENC", "KC_IODEC"}]
  /\ user \in [Procs -> [input : Data, output : Data, output2 : Data]]
  /\ \A p \in Procs : Held(p) \subseteq Bufs
  /\ mem \in [Bufs -> Data \cup Jobs \cup {NULL}]
  /\ leaked \subseteq Bufs
  /\ on \in [Procs -> Vcpus \cup {NULL}]
  /\ job \in [Vcpus -> [data : Data, output_gpa : Bufs] \cup {NULL}]
  /\ failed \subseteq Procs

\* What a process has printed at the end: its text, the text encrypted, and the
\* text again, if both hypercalls succeeded.
RoundTrip ==
  \A p \in Procs : pc[p] = "close" /\ p \notin failed =>
    /\ user[p].output = Crypt("KVM_ENCRYPTION", user[p].input)
    /\ user[p].output2 = user[p].input

\* No process is ever given what belongs to another, even when hypercalls fail
\* and buffers go from one process to the next: its buffers hold its own text,
\* encrypted or decrypted, or zeros that the cipher may have been run on.
OwnData ==
  \A p \in Procs : {user[p].output.of, user[p].output2.of} \subseteq {p, Zero}

\* Kernel memory: a buffer is held by one process at most, and every buffer that
\* is allocated is held by a process in submit_job or lost to an oops.
BuffersPrivate ==
  /\ \A p, q \in Procs : p # q => Held(p) \cap Held(q) = {}
  /\ Bufs \ FreeBufs = leaked \cup UNION {Held(p) : p \in Procs}
  /\ \A p \in Procs : Held(p) # {} => pc[p] \in {"vmcall", "host", "copyout"}

\* No process is in the code of the module after rmmod.
NoCodeAfterUnload ==
  \A p \in Procs : pc[p] \in {"vmcall", "host", "copyout"} => loaded

\* The program ends, with all its processes: no hypercall keeps its vCPU for good,
\* and no process waits for a vCPU for ever.
ProgramEnds == <>(\A p \in Procs : pc[p] \in Dead)

=============================================================================
