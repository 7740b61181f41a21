-------------------------- MODULE GuestDriverProofs --------------------------
(***************************************************************************)
(* Proofs about GuestDriver, for any number of processes, vCPUs, kthreads  *)
(* and buffers: what the program prints is right, given what the host      *)
(* promises.                                                               *)
(***************************************************************************)
EXTENDS GuestDriver, TLAPS

USE ZenonT(5), SMTT(10)

Inside(p) == pc[p] \in {"vmcall", "host", "copyout"}
Active(p) == pc[p] \in {"ioctl", "vmcall", "host", "copyout", "close"}

Cipher(p) == [of |-> p, level |-> 1]
Garbage   == [of |-> Zero, level |-> -1]

\* Types of what TypeOK leaves open, and of the host.
Types ==
  /\ TypeOK
  /\ bufs \in [Procs -> [vjob : Bufs \cup {NULL}, input : Bufs \cup {NULL},
                         output : Bufs \cup {NULL}]]
  /\ phase \in [Vcpus -> {"idle", "asked", "queued", "serving", "served"}]
  /\ operation \in [Vcpus -> Operations \cup {"unknown"}]
  /\ queue \in Seq(Vcpus)
  /\ answer = [v \in Vcpus |-> answer[v]]

\* The module is there for every process that has the device open.
ModuleInv ==
  /\ device => loaded
  /\ opened # {} => loaded
  /\ \A p \in Procs : Active(p) => p \in opened

\* Every process in submit_job holds three buffers of its own.
BufferInv ==
  /\ \A p \in Procs : Inside(p) =>
       /\ {bufs[p].vjob, bufs[p].input, bufs[p].output} \subseteq Bufs \ (FreeBufs \cup leaked)
       /\ bufs[p].vjob # bufs[p].input /\ bufs[p].vjob # bufs[p].output
       /\ bufs[p].input # bufs[p].output
  /\ \A p \in Procs : ~Inside(p) => bufs[p] = NoBufs
  /\ \A p, q \in Procs : p # q => Held(p) \cap Held(q) = {}
  /\ leaked \subseteq Bufs \ FreeBufs
  /\ \A b \in Bufs : mem[b] # NULL => b \in leaked \/ \E p \in Procs : b \in Held(p)

\* What is in them.
ContentInv ==
  \A p \in Procs : Inside(p) =>
    /\ mem[bufs[p].vjob] = [input_gpa |-> bufs[p].input, output_gpa |-> bufs[p].output,
                            operation |-> OperationOf(p)]
    /\ mem[bufs[p].input] = Source(p)
    /\ pc[p] # "copyout" => mem[bufs[p].output] = Zeros
    /\ pc[p] = "copyout" =>
         \/ mem[bufs[p].output] = Crypt(OperationOf(p), Source(p))
         \/ p \in failed /\ mem[bufs[p].output] = Zeros

\* A vCPU in the host has one process, and the host has that process's job.
HostInv ==
  /\ \A p \in Procs : pc[p] = "host" <=> on[p] # NULL
  /\ \A p, q \in Procs : on[p] # NULL /\ on[p] = on[q] => p = q
  /\ \A v \in Vcpus : phase[v] # "idle" => \E p \in Procs : on[p] = v
  /\ \A p \in Procs : on[p] # NULL =>
       /\ phase[on[p]] # "idle"
       /\ operation[on[p]] = OperationOf(p)
       /\ phase[on[p]] # "asked" =>
            job[on[p]] = [data |-> Source(p), output_gpa |-> bufs[p].output]
  /\ \A i \in 1..Len(queue) : phase[queue[i]] = "queued"
  /\ \A i, j \in 1..Len(queue) : queue[i] = queue[j] => i = j

\* What a process has in its own buffers.
UserInv ==
  \A p \in Procs :
    /\ user[p].output \in {Zeros, Cipher(p)}
    /\ user[p].output2 \in {Zeros, Plain(p), Garbage}
    /\ Active(p) => user[p].input = Plain(p)
    /\ Active(p) /\ request[p] = "KC_IODEC" /\ p \notin failed => user[p].output = Cipher(p)
    /\ pc[p] = "close" => request[p] = "KC_IODEC"
    /\ ~Active(p) => request[p] = "KC_IOENC"
    /\ pc[p] = "close" /\ p \notin failed => user[p].output2 = Plain(p)

IInv == Types /\ ModuleInv /\ BufferInv /\ ContentInv /\ HostInv /\ UserInv

-----------------------------------------------------------------------------
\* The data that can turn up, and what the cipher makes of it.
LEMMA DataFacts ==
  /\ Zeros \in Data /\ Garbage \in Data
  /\ \A p \in Procs : Plain(p) \in Data /\ Cipher(p) \in Data
  /\ \A p \in Procs : Crypt("KVM_ENCRYPTION", Plain(p)) = Cipher(p)
  /\ \A p \in Procs : Crypt("KVM_DECRYPTION", Cipher(p)) = Plain(p)
  /\ Crypt("KVM_DECRYPTION", Zeros) = Garbage
  /\ NULL \notin Data
BY SMTT(30), DriverAssumption DEF Zeros, Garbage, Plain, Cipher, Data, Crypt

\* What kmalloc gives out is free, and not among what is excluded.
LEMMA KmallocFacts ==
  ASSUME NEW S PROVE Kmalloc(S) = NULL \/ (Kmalloc(S) \in FreeBufs /\ Kmalloc(S) \notin S)
BY DEF Kmalloc

\* Where a process with a job takes its text from, and what it asks for.
LEMMA SourceFacts ==
  ASSUME Types, UserInv, NEW p \in Procs, Active(p)
  PROVE  /\ Source(p) \in Data /\ OperationOf(p) \in Operations
         /\ Crypt(OperationOf(p), Source(p)) \in Data
         /\ request[p] = "KC_IOENC" => Crypt(OperationOf(p), Source(p)) = Cipher(p)
         /\ request[p] = "KC_IODEC" =>
              \/ Crypt(OperationOf(p), Source(p)) = Plain(p)
              \/ p \in failed /\ Crypt(OperationOf(p), Source(p)) = Garbage
<1>1. CASE request[p] = "KC_IOENC"
  <2>1. Source(p) = Plain(p) /\ OperationOf(p) = "KVM_ENCRYPTION"
    BY <1>1 DEF Source, OperationOf, UserInv
  <2> QED
    BY <1>1, <2>1, DataFacts DEF Operations
<1>2. CASE request[p] = "KC_IODEC"
  <2>1. Source(p) = user[p].output /\ OperationOf(p) = "KVM_DECRYPTION"
    BY <1>2 DEF Source, OperationOf
  <2>2. user[p].output = Cipher(p) \/ (p \in failed /\ user[p].output = Zeros)
    BY <1>2 DEF UserInv
  <2> QED
    BY <1>2, <2>1, <2>2, DataFacts DEF Operations
<1> QED
  BY <1>1, <1>2 DEF Types, TypeOK

\* A process in submit_job holds its three buffers, and they are in use.
LEMMA HeldFacts ==
  ASSUME BufferInv, NEW p \in Procs, Inside(p)
  PROVE  /\ Held(p) = {bufs[p].vjob, bufs[p].input, bufs[p].output}
         /\ Held(p) \subseteq Bufs \ (FreeBufs \cup leaked)
<1>1. {bufs[p].vjob, bufs[p].input, bufs[p].output} \subseteq Bufs \ (FreeBufs \cup leaked)
  BY DEF BufferInv
<1> QED
  BY <1>1, DriverAssumption DEF Held

\* No buffer of one process is a buffer of another.
LEMMA BuffersApart ==
  ASSUME BufferInv, NEW p \in Procs, NEW q \in Procs, p # q, Inside(p), Inside(q)
  PROVE  /\ bufs[q].vjob # bufs[p].output /\ bufs[q].input # bufs[p].output
         /\ bufs[q].output # bufs[p].output
<1>1. Held(p) \cap Held(q) = {}
  BY DEF BufferInv
<1> QED
  BY <1>1, HeldFacts

SameProc(q) ==
  /\ pc'[q] = pc[q] /\ request'[q] = request[q] /\ user'[q] = user[q]
  /\ q \in failed' <=> q \in failed

\* A step outside submit_job that leaves the host as it is.
LEMMA HostOutside ==
  ASSUME IInv, UNCHANGED <<bufs, on, job, host>>,
         \A q \in Procs : SameProc(q) \/ (~Inside(q) /\ ~Inside(q)')
  PROVE  HostInv'
<1>1. \A q \in Procs : pc'[q] = "host" <=> pc[q] = "host"
  BY DEF Inside, SameProc
<1>2. \A q \in Procs : on[q] # NULL => Source(q)' = Source(q) /\ OperationOf(q)' = OperationOf(q)
  BY ZenonT(30) DEF IInv, HostInv, Inside, SameProc, Source, OperationOf
<1> QED
  BY SMTT(30), <1>1, <1>2 DEF IInv, HostInv, host

\* The same when it leaves memory as it is, too.
LEMMA Outside ==
  ASSUME IInv, UNCHANGED <<bufs, mem, leaked, on, job, host>>,
         \A q \in Procs : SameProc(q) \/ (~Inside(q) /\ ~Inside(q)')
  PROVE  BufferInv' /\ ContentInv' /\ HostInv'
<1>1. FreeBufs' = FreeBufs /\ \A q \in Procs : Held(q)' = Held(q) /\ (Inside(q)' <=> Inside(q))
  BY DEF Held, Inside, SameProc, FreeBufs
<1>2. \A q \in Procs : Inside(q) =>
        SameProc(q) /\ Source(q)' = Source(q) /\ OperationOf(q)' = OperationOf(q)
  BY DEF SameProc, Source, OperationOf
<1>3. BufferInv'
  BY SMTT(30), <1>1 DEF IInv, BufferInv
<1>4. ContentInv'
  BY SMTT(30), <1>1, <1>2 DEF IInv, ContentInv, SameProc
<1>5. HostInv'
  BY HostOutside
<1> QED
  BY <1>3, <1>4, <1>5

\* insmod and rmmod.
LEMMA ModuleStep == ASSUME IInv, Install \/ Uninstall PROVE IInv'
<1>1. /\ UNCHANGED <<program, bufs, mem, leaked, on, job, failed, host>>
      /\ loaded' \in BOOLEAN /\ device' \in BOOLEAN /\ loads' \in 0..MaxLoads
  <2>1. loads \in 0..MaxLoads /\ loaded \in BOOLEAN /\ device \in BOOLEAN /\ MaxLoads \in Nat
    BY DriverAssumption DEF IInv, Types, TypeOK
  <2>2. loads' \in 0..MaxLoads
    BY <2>1 DEF Install, Uninstall
  <2>3. loaded' \in BOOLEAN /\ device' \in BOOLEAN
    BY <2>1, Zenon DEF Install, Uninstall
  <2>4. UNCHANGED <<program, bufs, mem, leaked, on, job, failed, host>>
    BY DEF Install, Uninstall
  <2> QED
    BY <2>2, <2>3, <2>4
<1>2. ModuleInv'
  BY DEF Install, Uninstall, IInv, ModuleInv, Active, program
<1>3. BufferInv' /\ ContentInv' /\ HostInv'
  BY <1>1, Outside DEF SameProc, program
<1>4. UserInv'
  BY <1>1 DEF IInv, UserInv, Active, program
<1>5. Types'
  BY <1>1 DEF IInv, Types, TypeOK, Held, program, host
<1> QED
  BY <1>2, <1>3, <1>4, <1>5 DEF IInv

\* The end of a process.
LEMMA ExitStep ==
  ASSUME IInv, NEW p \in Procs, ~Inside(p), Exit(p),
         UNCHANGED <<moduleVars, bufs, on, job, host>>
  PROVE  /\ ModuleInv' /\ UserInv' /\ \A q \in Procs : SameProc(q) \/ (~Inside(q) /\ ~Inside(q)')
         /\ mem' \in [Bufs -> Data \cup Jobs \cup {NULL}] /\ leaked' \subseteq Bufs => Types'
<1> USE DEF IInv
<1>1. /\ pc' = [pc EXCEPT ![p] = "ended"] /\ request' = [request EXCEPT ![p] = "KC_IOENC"]
      /\ user' = [user EXCEPT ![p] = NoText] /\ failed' = failed \ {p} /\ opened' = opened \ {p}
  BY DEF Exit
<1>2. \A q \in Procs : q # p => SameProc(q)
  BY <1>1 DEF SameProc, Types, TypeOK
<1>3. /\ pc'[p] = "ended" /\ request'[p] = "KC_IOENC" /\ user'[p] = NoText
      /\ ~Inside(p)' /\ ~Active(p)'
  BY <1>1 DEF Types, TypeOK, Inside, Active
<1>4. ModuleInv'
  BY <1>1, <1>2, <1>3 DEF ModuleInv, Active, SameProc, moduleVars
<1>5. UserInv'
  <2>1. \A q \in Procs : q # p => (Active(q)' <=> Active(q))
    BY <1>2 DEF Active, SameProc
  <2> QED
    BY SMTT(30), <1>2, <1>3, <2>1 DEF UserInv, SameProc, NoText
<1>6. ASSUME mem' \in [Bufs -> Data \cup Jobs \cup {NULL}], leaked' \subseteq Bufs PROVE Types'
  <2>1. NoText \in [input : Data, output : Data, output2 : Data]
    BY DataFacts DEF NoText
  <2>2. user' \in [Procs -> [input : Data, output : Data, output2 : Data]]
    BY <1>1, <2>1 DEF Types, TypeOK
  <2>3. pc' \in [Procs -> {"fork", "open", "ioctl", "vmcall", "host", "copyout", "close"} \cup Dead]
    BY <1>1 DEF Types, TypeOK, Dead
  <2> QED
    BY <1>1, <1>6, <2>2, <2>3 DEF Types, TypeOK, Held, host, moduleVars
<1> QED
  BY <1>2, <1>3, <1>4, <1>5, <1>6

\* close, and signals.
LEMMA CloseStep == ASSUME IInv, NEW p \in Procs, Close(p) \/ Kill(p) PROVE IInv'
<1>1. /\ ~Inside(p) /\ Exit(p) /\ UNCHANGED <<moduleVars, bufs, mem, leaked, on, job, host>>
  BY DEF Close, Kill, Inside
<1> QED
  BY <1>1, ExitStep, Outside DEF IInv, Types, TypeOK

\* The fork loop and open.
LEMMA StartStep == ASSUME IInv, NEW p \in Procs, Fork \/ Open(p) PROVE IInv'
<1> USE DEF IInv
<1>1. CASE Fork
  <2>1. PICK c \in Procs, w \in {"open", "ended"} :
          pc[c] \in {"fork", "unborn"} /\ pc' = [pc EXCEPT ![c] = w]
    BY <1>1, DriverAssumption DEF Fork
  <2>2. UNCHANGED <<moduleVars, opened, request, user, bufs, mem, leaked, on, job, failed, host>>
    BY <1>1 DEF Fork
  <2>3. \A q \in Procs : q # c => SameProc(q)
    BY <2>1, <2>2 DEF SameProc, Types, TypeOK
  <2>4. ~Inside(c) /\ ~Inside(c)' /\ ~Active(c) /\ ~Active(c)' /\ pc'[c] \in {"open", "ended"}
    BY <2>1 DEF Inside, Active, Types, TypeOK
  <2>5. ModuleInv'
    BY <2>2, <2>3, <2>4 DEF ModuleInv, Active, SameProc, moduleVars
  <2>6. UserInv'
    <3>1. \A q \in Procs : q # c => (Active(q)' <=> Active(q)) /\ pc'[q] = pc[q]
      BY <2>3 DEF Active, SameProc
    <3> QED
      BY <2>2, <2>4, <3>1 DEF UserInv
  <2>7. Types'
    <3>1. pc' \in [Procs -> {"fork", "open", "ioctl", "vmcall", "host", "copyout", "close"} \cup Dead]
      BY <2>1 DEF Types, TypeOK, Dead
    <3> QED
      BY <2>2, <3>1 DEF Types, TypeOK, Held, host, moduleVars
  <2> QED
    BY <2>2, <2>3, <2>4, <2>5, <2>6, <2>7, Outside
<1>2. CASE Open(p)
  <2>1. UNCHANGED <<moduleVars, request, bufs, mem, leaked, on, job, failed, host>> /\ pc[p] = "open"
    BY <1>2 DEF Open
  <2>2. /\ pc' = [pc EXCEPT ![p] = IF device THEN "ioctl" ELSE "ended"]
        /\ user' = [user EXCEPT ![p].input = IF device THEN Plain(p) ELSE @]
        /\ opened' = IF device THEN opened \cup {p} ELSE opened
    BY SMTT(30), <1>2 DEF Open, Types, TypeOK
  <2>3. \A q \in Procs : q # p => SameProc(q)
    BY <2>1, <2>2 DEF SameProc, Types, TypeOK
  <2>4. /\ ~Inside(p) /\ ~Inside(p)' /\ pc'[p] \in {"ioctl", "ended"}
        /\ Active(p)' => device /\ user'[p].input = Plain(p)
        /\ user'[p].output = user[p].output /\ user'[p].output2 = user[p].output2
    BY SMTT(30), <2>1, <2>2 DEF Inside, Active, Types, TypeOK
  <2>5. ModuleInv'
    BY <2>1, <2>2, <2>3, <2>4 DEF ModuleInv, Active, SameProc, moduleVars
  <2>6. request[p] = "KC_IOENC"
    BY <2>1 DEF UserInv, Active
  <2>7. UserInv'
    <3>1. \A q \in Procs : q # p => (Active(q)' <=> Active(q)) /\ pc'[q] = pc[q] /\ user'[q] = user[q]
      BY <2>3 DEF Active, SameProc
    <3> QED
      BY ZenonT(30), <2>1, <2>4, <2>6, <3>1 DEF UserInv
  <2>8. Types'
    <3>1. pc' \in [Procs -> {"fork", "open", "ioctl", "vmcall", "host", "copyout", "close"} \cup Dead]
      BY <2>2 DEF Types, TypeOK, Dead
    <3>2. user' \in [Procs -> [input : Data, output : Data, output2 : Data]]
      BY SMTT(30), <2>2, DataFacts DEF Types, TypeOK
    <3> QED
      BY <2>1, <2>2, <3>1, <3>2 DEF Types, TypeOK, Held, host, moduleVars
  <2> QED
    BY <2>1, <2>3, <2>4, <2>5, <2>7, <2>8, Outside
<1> QED
  BY <1>1, <1>2

\* submit_job up to the hypercall: three free buffers become the process's own.
LEMMA SubmitStep == ASSUME IInv, NEW p \in Procs, SubmitJob(p) PROVE IInv'
<1> USE DEF IInv
<1>1. PICK x, y, z :
        /\ x = Kmalloc({}) /\ y = Kmalloc({x}) /\ z = Kmalloc({x, y}) /\ z # NULL
        /\ bufs' = [bufs EXCEPT ![p] = [vjob |-> x, input |-> y, output |-> z]]
        /\ mem' = [mem EXCEPT ![x] = [input_gpa |-> y, output_gpa |-> z, operation |-> OperationOf(p)],
                              ![y] = Source(p), ![z] = Zeros]
  BY DEF SubmitJob, Prepare
<1>2. /\ pc[p] = "ioctl" /\ pc' = [pc EXCEPT ![p] = "vmcall"]
      /\ UNCHANGED <<moduleVars, opened, request, user, leaked, on, job, failed, host>>
  BY DEF SubmitJob, Prepare
<1>3. /\ x \in FreeBufs /\ y \in FreeBufs /\ z \in FreeBufs /\ x # y /\ x # z /\ y # z
  <2>1. z \in FreeBufs /\ z \notin {x, y}
    BY <1>1, KmallocFacts
  <2>2. y # NULL
    BY SMTT(30), <1>1, <2>1 DEF Kmalloc
  <2>3. x # NULL
    BY SMTT(30), <1>1, <2>1 DEF Kmalloc
  <2> QED
    BY <1>1, <2>1, <2>2, <2>3, KmallocFacts
<1>4. Active(p) /\ Source(p) \in Data /\ OperationOf(p) \in Operations
  BY <1>2, SourceFacts DEF Active
<1> DEFINE J == [input_gpa |-> y, output_gpa |-> z, operation |-> OperationOf(p)]
<1>5. /\ x \in Bufs /\ y \in Bufs /\ z \in Bufs /\ J \in Jobs /\ J # NULL
      /\ mem[x] = NULL /\ mem[y] = NULL /\ mem[z] = NULL
  BY SMTT(30), <1>3, <1>4, DriverAssumption DEF FreeBufs, Jobs
<1>6. /\ mem' \in [Bufs -> Data \cup Jobs \cup {NULL}]
      /\ mem'[x] = J /\ mem'[y] = Source(p) /\ mem'[z] = Zeros
      /\ \A b \in Bufs \ {x, y, z} : mem'[b] = mem[b]
  <2> HIDE DEF J
  <2>1. mem' = [mem EXCEPT ![x] = J, ![y] = Source(p), ![z] = Zeros]
    BY <1>1 DEF J
  <2> QED
    BY ZenonT(30), <1>3, <1>4, <1>5, <2>1, DataFacts DEF Types, TypeOK
<1>7. /\ bufs'[p] = [vjob |-> x, input |-> y, output |-> z]
      /\ \A q \in Procs : q # p => bufs'[q] = bufs[q]
      /\ bufs' \in [Procs -> [vjob : Bufs \cup {NULL}, input : Bufs \cup {NULL},
                              output : Bufs \cup {NULL}]]
  BY <1>1, <1>5 DEF Types
<1>8. /\ pc'[p] = "vmcall" /\ \A q \in Procs : q # p => pc'[q] = pc[q]
      /\ pc' \in [Procs -> {"fork", "open", "ioctl", "vmcall", "host", "copyout", "close"} \cup Dead]
  BY <1>2 DEF Types, TypeOK
<1>9. /\ Held(p)' = {x, y, z} /\ Held(p) = {} /\ ~Inside(p) /\ Inside(p)'
      /\ \A q \in Procs : q # p => Held(q)' = Held(q) /\ (Inside(q)' <=> Inside(q))
      /\ FreeBufs' = FreeBufs \ {x, y, z}
  <2>1. ~Inside(p) /\ bufs[p] = NoBufs
    BY <1>2 DEF Inside, BufferInv
  <2>2. Held(p) = {} /\ Held(p)' = {x, y, z}
    BY SMTT(30), <1>5, <1>7, <2>1, DriverAssumption DEF Held, NoBufs
  <2>3. FreeBufs' = FreeBufs \ {x, y, z}
    BY <1>4, <1>5, <1>6, DataFacts DEF FreeBufs
  <2> QED
    BY <1>7, <1>8, <2>1, <2>2, <2>3 DEF Held, Inside
<1>10. \A q \in Procs : Source(q)' = Source(q) /\ OperationOf(q)' = OperationOf(q)
  BY <1>2 DEF Source, OperationOf
<1>11. \A q \in Procs : Held(q) \cap {x, y, z} = {} /\ Held(q) \subseteq Bufs
  BY SMTT(30), <1>3 DEF BufferInv, Held, NoBufs, Types, TypeOK
<1>12. ModuleInv'
  BY <1>2, <1>8 DEF ModuleInv, Active, moduleVars
<1>13. UserInv'
  <2>1. \A q \in Procs : (Active(q)' <=> Active(q)) /\ (pc'[q] = "close" => pc[q] = "close")
    BY <1>2, <1>8 DEF Active
  <2> QED
    BY <1>2, <2>1 DEF UserInv
<1>14. Types'
  <2>1. \A q \in Procs : Held(q)' \subseteq Bufs
    BY SMTT(30), <1>5, <1>9, <1>11
  <2> QED
    BY <1>2, <1>6, <1>7, <1>8, <2>1 DEF Types, TypeOK, host, moduleVars
<1>15. BufferInv'
  <2>1. \A q \in Procs : Inside(q)' =>
          /\ {bufs[q].vjob, bufs[q].input, bufs[q].output}' \subseteq Bufs \ (FreeBufs \cup leaked)'
          /\ bufs'[q].vjob # bufs'[q].input /\ bufs'[q].vjob # bufs'[q].output
          /\ bufs'[q].input # bufs'[q].output
    <3> SUFFICES ASSUME NEW q \in Procs, Inside(q)'
                 PROVE  /\ {bufs[q].vjob, bufs[q].input, bufs[q].output}' \subseteq Bufs \ (FreeBufs \cup leaked)'
                        /\ bufs'[q].vjob # bufs'[q].input /\ bufs'[q].vjob # bufs'[q].output
                        /\ bufs'[q].input # bufs'[q].output
      OBVIOUS
    <3>1. CASE q = p
      BY SMTT(30), <1>2, <1>3, <1>5, <1>7, <1>9, <3>1 DEF BufferInv
    <3>2. CASE q # p
      BY SMTT(30), <1>2, <1>7, <1>9, <3>2 DEF BufferInv
    <3> QED
      BY <3>1, <3>2
  <2>2. \A q \in Procs : ~Inside(q)' => bufs'[q] = NoBufs
    BY <1>7, <1>9 DEF BufferInv
  <2>3. \A q, r \in Procs : q # r => Held(q)' \cap Held(r)' = {}
    BY SMTT(30), <1>9, <1>11 DEF BufferInv
  <2>4. leaked' \subseteq Bufs \ FreeBufs'
    BY <1>2, <1>9 DEF BufferInv
  <2>5. \A b \in Bufs : mem'[b] # NULL => b \in leaked' \/ \E q \in Procs : b \in Held(q)'
    <3> SUFFICES ASSUME NEW b \in Bufs, mem'[b] # NULL
                 PROVE  b \in leaked' \/ \E q \in Procs : b \in Held(q)'
      OBVIOUS
    <3>1. CASE b \in {x, y, z}
      BY <1>9, <3>1
    <3>2. CASE b \notin {x, y, z}
      BY SMTT(30), <1>2, <1>6, <1>9, <3>2 DEF BufferInv
    <3> QED
      BY <3>1, <3>2
  <2> QED
    BY <2>1, <2>2, <2>3, <2>4, <2>5 DEF BufferInv
<1>16. ContentInv'
  <2> SUFFICES ASSUME NEW q \in Procs, Inside(q)'
               PROVE  /\ mem'[bufs'[q].vjob] = [input_gpa |-> bufs'[q].input, output_gpa |-> bufs'[q].output,
                                                operation |-> OperationOf(q)']
                      /\ mem'[bufs'[q].input] = Source(q)'
                      /\ pc'[q] # "copyout" => mem'[bufs'[q].output] = Zeros
                      /\ pc'[q] = "copyout" =>
                           \/ mem'[bufs'[q].output] = Crypt(OperationOf(q)', Source(q)')
                           \/ q \in failed' /\ mem'[bufs'[q].output] = Zeros
    BY DEF ContentInv
  <2>1. CASE q = p
    BY SMTT(30), <1>6, <1>7, <1>8, <1>10, <2>1
  <2>2. CASE q # p
    <3>1. Inside(q) /\ bufs'[q] = bufs[q] /\ pc'[q] = pc[q]
      BY <1>7, <1>8, <1>9, <2>2
    <3>2. {bufs[q].vjob, bufs[q].input, bufs[q].output} \subseteq Bufs \ {x, y, z}
      BY ZenonT(30), <1>3, <3>1 DEF BufferInv
    <3> QED
      BY SMTT(30), <1>2, <1>6, <1>10, <3>1, <3>2 DEF ContentInv
  <2> QED
    BY <2>1, <2>2
<1>17. HostInv'
  <2>1. on[p] = NULL
    BY <1>2 DEF HostInv
  <2>2. \A q \in Procs : on[q] # NULL => bufs'[q] = bufs[q]
    BY <1>7, <2>1
  <2>3. \A q \in Procs : pc'[q] = "host" <=> pc[q] = "host"
    BY <1>2, <1>8
  <2> QED
    BY SMTT(30), <1>2, <1>10, <2>1, <2>2, <2>3 DEF HostInv, host
<1> QED
  BY <1>12, <1>13, <1>14, <1>15, <1>16, <1>17

\* kmalloc failed: the buffers the process had got are nobody's from now on.
LEMMA OopsStep == ASSUME IInv, NEW p \in Procs, SubmitOops(p) PROVE IInv'
<1> USE DEF IInv
<1>1. PICK S \in SUBSET FreeBufs :
        /\ leaked' = leaked \cup S
        /\ mem' = [b \in Bufs |-> IF b \in S THEN Zeros ELSE mem[b]]
  BY DEF SubmitOops
<1>2. /\ ~Inside(p) /\ Exit(p) /\ UNCHANGED <<moduleVars, bufs, on, job, host>>
  BY DEF SubmitOops, Inside
<1>3. \A q \in Procs : SameProc(q) \/ (~Inside(q) /\ ~Inside(q)')
  BY <1>2, ExitStep
<1>4. FreeBufs' = FreeBufs \ S /\ S \subseteq Bufs
  BY <1>1, DataFacts DEF FreeBufs
<1>5. \A q \in Procs : Held(q)' = Held(q) /\ bufs'[q] = bufs[q] /\ (Inside(q)' <=> Inside(q))
  BY <1>2, <1>3 DEF Held, Inside, SameProc
<1>6. Types' /\ ModuleInv' /\ UserInv' /\ HostInv'
  <2>1. mem' \in [Bufs -> Data \cup Jobs \cup {NULL}] /\ leaked' \subseteq Bufs
    BY <1>1, <1>4, DataFacts DEF Types, TypeOK
  <2> QED
    BY <1>2, <1>3, <2>1, ExitStep, HostOutside
<1>7. BufferInv'
  <2>1. \A q \in Procs : Inside(q) =>
          {bufs[q].vjob, bufs[q].input, bufs[q].output} \subseteq Bufs \ (FreeBufs' \cup leaked')
    BY ZenonT(30), <1>1, <1>4 DEF BufferInv
  <2>2. leaked' \subseteq Bufs \ FreeBufs'
    BY <1>1, <1>4 DEF BufferInv
  <2>3. \A b \in Bufs : mem'[b] # NULL => b \in leaked' \/ \E q \in Procs : b \in Held(q)'
    BY SMTT(30), <1>1, <1>5 DEF BufferInv
  <2> QED
    BY SMTT(30), <1>5, <2>1, <2>2, <2>3 DEF BufferInv
<1>8. ContentInv'
  <2> SUFFICES ASSUME NEW q \in Procs, Inside(q)'
               PROVE  /\ mem'[bufs'[q].vjob] = [input_gpa |-> bufs'[q].input, output_gpa |-> bufs'[q].output,
                                                operation |-> OperationOf(q)']
                      /\ mem'[bufs'[q].input] = Source(q)'
                      /\ pc'[q] # "copyout" => mem'[bufs'[q].output] = Zeros
                      /\ pc'[q] = "copyout" =>
                           \/ mem'[bufs'[q].output] = Crypt(OperationOf(q)', Source(q)')
                           \/ q \in failed' /\ mem'[bufs'[q].output] = Zeros
    BY DEF ContentInv
  <2>1. Inside(q) /\ SameProc(q) /\ Source(q)' = Source(q) /\ OperationOf(q)' = OperationOf(q)
    BY <1>3, <1>5 DEF SameProc, Source, OperationOf
  <2>2. {bufs[q].vjob, bufs[q].input, bufs[q].output} \subseteq Bufs \ S
    BY <2>1 DEF BufferInv
  <2>3. \A b \in Bufs \ S : mem'[b] = mem[b]
    BY <1>1
  <2> QED
    BY SMTT(30), <1>5, <2>1, <2>2, <2>3 DEF ContentInv, SameProc
<1> QED
  BY <1>6, <1>7, <1>8

\* vmcall: an idle vCPU gets the request of the job the process has prepared.
LEMMA VmcallStep == ASSUME IInv, NEW p \in Procs, NEW v \in Vcpus, Vmcall(p, v) PROVE IInv'
<1> USE DEF IInv
<1>1. mem[bufs[p].vjob].operation = OperationOf(p)
  <2>1. Inside(p)
    BY DEF Vmcall, Inside
  <2>2. mem[bufs[p].vjob] = [input_gpa |-> bufs[p].input, output_gpa |-> bufs[p].output,
                             operation |-> OperationOf(p)]
    BY <2>1 DEF ContentInv
  <2> QED
    BY <2>2
<1>2. /\ pc[p] = "vmcall" /\ phase[v] = "idle" /\ \A q \in Procs : on[q] # v
      /\ phase' = [phase EXCEPT ![v] = "asked"]
      /\ operation' = [operation EXCEPT ![v] = OperationOf(p)]
      /\ answer' = [answer EXCEPT ![v] = Host!Pending] /\ queue' = queue
      /\ on' = [on EXCEPT ![p] = v] /\ pc' = [pc EXCEPT ![p] = "host"]
      /\ UNCHANGED <<moduleVars, opened, request, user, bufs, mem, leaked, job, failed>>
  BY <1>1 DEF Vmcall, Host!Ask
<1>3. /\ pc'[p] = "host" /\ on'[p] = v /\ phase'[v] = "asked" /\ operation'[v] = OperationOf(p)
      /\ \A q \in Procs : q # p => pc'[q] = pc[q] /\ on'[q] = on[q]
      /\ \A w \in Vcpus : w # v => phase'[w] = phase[w] /\ operation'[w] = operation[w]
  BY ZenonT(30), <1>2 DEF Types, TypeOK
<1>4. /\ FreeBufs' = FreeBufs
      /\ \A q \in Procs :
           /\ (Inside(q)' <=> Inside(q)) /\ (Active(q)' <=> Active(q)) /\ Held(q)' = Held(q)
           /\ Source(q)' = Source(q) /\ OperationOf(q)' = OperationOf(q)
           /\ (pc'[q] = "close" <=> pc[q] = "close") /\ (pc'[q] = "copyout" <=> pc[q] = "copyout")
  BY <1>2, <1>3 DEF FreeBufs, Inside, Active, Held, Source, OperationOf
<1>5. ModuleInv' /\ UserInv'
  BY <1>2, <1>4 DEF ModuleInv, UserInv, moduleVars
<1>6. BufferInv' /\ ContentInv'
  BY SMTT(30), <1>2, <1>4 DEF BufferInv, ContentInv
<1>7. Types'
  <2>1. pc' \in [Procs -> {"fork", "open", "ioctl", "vmcall", "host", "copyout", "close"} \cup Dead]
    BY <1>2 DEF Types, TypeOK
  <2>2. on' \in [Procs -> Vcpus \cup {NULL}]
    BY <1>2 DEF Types, TypeOK
  <2>3. phase' \in [Vcpus -> {"idle", "asked", "queued", "serving", "served"}]
    BY <1>2 DEF Types
  <2>4. operation' \in [Vcpus -> Operations \cup {"unknown"}]
    BY <1>2 DEF Types, OperationOf, Operations
  <2>5. answer' = [w \in Vcpus |-> answer'[w]]
    BY <1>2 DEF Types
  <2> QED
    BY SMTT(30), <1>2, <1>4, <2>1, <2>2, <2>3, <2>4, <2>5 DEF Types, TypeOK, moduleVars
<1>8. HostInv'
  <2>1. v # NULL /\ on[p] = NULL
    BY <1>2, DriverAssumption DEF HostInv
  <2>2. \A q \in Procs : q # p /\ on[q] # NULL => on[q] \in Vcpus /\ on[q] # v
    BY ZenonT(30), <1>2 DEF Types, TypeOK
  <2>3. \A q \in Procs : pc'[q] = "host" <=> on'[q] # NULL
    BY SMTT(30), <1>3, <2>1 DEF HostInv
  <2>4. \A q, r \in Procs : on'[q] # NULL /\ on'[q] = on'[r] => q = r
    BY SMTT(30), <1>3, <2>1, <2>2 DEF HostInv
  <2>5. \A w \in Vcpus : phase'[w] # "idle" => \E q \in Procs : on'[q] = w
    <3> SUFFICES ASSUME NEW w \in Vcpus, phase'[w] # "idle" PROVE \E q \in Procs : on'[q] = w
      OBVIOUS
    <3>1. CASE w = v
      BY <1>3, <3>1
    <3>2. CASE w # v
      <4>1. PICK q \in Procs : on[q] = w
        BY SMTT(30), <1>3, <3>2 DEF HostInv
      <4>2. q # p
        BY <2>1, <4>1, DriverAssumption
      <4> QED
        BY <1>3, <4>1, <4>2
    <3> QED
      BY <3>1, <3>2
  <2>6. \A q \in Procs : on'[q] # NULL =>
          /\ phase'[on'[q]] # "idle"
          /\ operation'[on'[q]] = OperationOf(q)'
          /\ phase'[on'[q]] # "asked" =>
               job'[on'[q]] = [data |-> Source(q)', output_gpa |-> bufs'[q].output]
    BY SMTT(30), <1>2, <1>3, <1>4, <2>1, <2>2 DEF HostInv
  <2>7. \A i \in 1..Len(queue') : phase'[queue'[i]] = "queued"
    BY SMTT(30), <1>2, <1>3 DEF HostInv, Types
  <2> QED
    BY SMTT(30), <1>2, <2>3, <2>4, <2>5, <2>6, <2>7 DEF HostInv
<1> QED
  BY <1>5, <1>6, <1>7, <1>8

\* vmcall returns: the output buffer holds the result, or the call has failed.
LEMMA ReturnStep ==
  ASSUME IInv, NEW v \in Vcpus, NEW p \in Procs, on[p] = v,
         phase' = [phase EXCEPT ![v] = "idle"], phase[v] # "queued",
         answer' = [w \in Vcpus |-> answer'[w]],
         on' = [on EXCEPT ![p] = NULL], pc' = [pc EXCEPT ![p] = "copyout"],
         \/ failed' = failed \cup {p} /\ mem' = mem
         \/ /\ failed' = failed
            /\ mem' = [mem EXCEPT ![bufs[p].output] = Crypt(OperationOf(p), Source(p))],
         job' = job \/ job' = [job EXCEPT ![v] = NULL],
         UNCHANGED <<moduleVars, opened, request, user, bufs, leaked, operation, queue>>
  PROVE  IInv'
<1> USE DEF IInv
<1>1. v # NULL /\ pc[p] = "host" /\ Inside(p) /\ Active(p)
  BY DriverAssumption DEF HostInv, Inside, Active
<1>2. /\ pc'[p] = "copyout" /\ on'[p] = NULL /\ phase'[v] = "idle"
      /\ \A q \in Procs : q # p => pc'[q] = pc[q] /\ on'[q] = on[q] /\ on[q] # v
      /\ \A w \in Vcpus : w # v => phase'[w] = phase[w] /\ job'[w] = job[w]
  BY SMTT(30), <1>1 DEF Types, TypeOK, HostInv
<1>3. /\ bufs[p].output \in Bufs /\ mem[bufs[p].output] = Zeros
      /\ Crypt(OperationOf(p), Source(p)) \in Data
  BY <1>1, SourceFacts DEF BufferInv, ContentInv
<1>4. /\ FreeBufs' = FreeBufs
      /\ \A b \in Bufs : mem'[b] # NULL <=> mem[b] # NULL
      /\ \A b \in Bufs : b # bufs[p].output => mem'[b] = mem[b]
      /\ mem' \in [Bufs -> Data \cup Jobs \cup {NULL}]
  <2>1. CASE mem' = mem
    BY ZenonT(30), <2>1 DEF FreeBufs, Types, TypeOK
  <2>2. CASE mem' = [mem EXCEPT ![bufs[p].output] = Crypt(OperationOf(p), Source(p))]
    <3>1. /\ mem' \in [Bufs -> Data \cup Jobs \cup {NULL}]
          /\ \A b \in Bufs : b # bufs[p].output => mem'[b] = mem[b]
      BY <1>3, <2>2 DEF Types, TypeOK
    <3>2. mem'[bufs[p].output] # NULL /\ mem[bufs[p].output] # NULL
      BY <1>3, <2>2, DataFacts DEF Types, TypeOK
    <3>3. \A b \in Bufs : mem'[b] # NULL <=> mem[b] # NULL
      BY <3>1, <3>2
    <3> QED
      BY <3>1, <3>3 DEF FreeBufs
  <2> QED
    BY <2>1, <2>2
<1>5. \A q \in Procs :
        /\ (Inside(q)' <=> Inside(q)) /\ (Active(q)' <=> Active(q)) /\ Held(q)' = Held(q)
        /\ Source(q)' = Source(q) /\ OperationOf(q)' = OperationOf(q)
        /\ (pc'[q] = "close" <=> pc[q] = "close") /\ (q \in failed => q \in failed')
  BY <1>1, <1>2 DEF Inside, Active, Held, Source, OperationOf
<1>6. ModuleInv' /\ UserInv'
  BY <1>5 DEF ModuleInv, UserInv, moduleVars
<1>7. BufferInv'
  BY SMTT(30), <1>4, <1>5 DEF BufferInv
<1>8. ContentInv'
  <2> SUFFICES ASSUME NEW q \in Procs, Inside(q)
               PROVE  /\ mem'[bufs[q].vjob] = [input_gpa |-> bufs[q].input, output_gpa |-> bufs[q].output,
                                               operation |-> OperationOf(q)]
                      /\ mem'[bufs[q].input] = Source(q)
                      /\ pc'[q] # "copyout" => mem'[bufs[q].output] = Zeros
                      /\ pc'[q] = "copyout" =>
                           \/ mem'[bufs[q].output] = Crypt(OperationOf(q), Source(q))
                           \/ q \in failed' /\ mem'[bufs[q].output] = Zeros
    BY ZenonT(30), <1>5 DEF ContentInv
  <2>1. {bufs[q].vjob, bufs[q].input, bufs[q].output} \subseteq Bufs
    BY DEF BufferInv
  <2>2. bufs[q].vjob # bufs[p].output /\ bufs[q].input # bufs[p].output
    <3>1. CASE q = p
      BY <1>1, <3>1 DEF BufferInv
    <3>2. CASE q # p
      BY ZenonT(30), <1>1, <3>2, BuffersApart
    <3> QED
      BY <3>1, <3>2
  <2>3. CASE q = p
    <3>1. \/ mem'[bufs[q].output] = Crypt(OperationOf(q), Source(q))
          \/ q \in failed' /\ mem'[bufs[q].output] = Zeros
      BY <1>3, <2>3 DEF Types, TypeOK
    <3> QED
      BY ZenonT(30), <1>2, <1>4, <2>1, <2>2, <2>3, <3>1 DEF ContentInv
  <2>4. CASE q # p
    <3>1. bufs[q].output # bufs[p].output
      BY <1>1, <2>4, BuffersApart
    <3> QED
      BY SMTT(30), <1>2, <1>4, <1>5, <2>1, <2>2, <2>4, <3>1 DEF ContentInv
  <2> QED
    BY <2>3, <2>4
<1>9. Types'
  <2>1. pc' \in [Procs -> {"fork", "open", "ioctl", "vmcall", "host", "copyout", "close"} \cup Dead]
    BY DEF Types, TypeOK
  <2>2. on' \in [Procs -> Vcpus \cup {NULL}]
    BY DEF Types, TypeOK
  <2>3. phase' \in [Vcpus -> {"idle", "asked", "queued", "serving", "served"}]
    BY DEF Types
  <2>4. job' \in [Vcpus -> [data : Data, output_gpa : Bufs] \cup {NULL}] /\ failed' \subseteq Procs
    BY DEF Types, TypeOK
  <2> QED
    BY SMTT(30), <1>4, <1>5, <2>1, <2>2, <2>3, <2>4 DEF Types, TypeOK, moduleVars
<1>10. HostInv'
  <2>1. \A q \in Procs : pc'[q] = "host" <=> on'[q] # NULL
    BY SMTT(30), <1>2 DEF HostInv
  <2>2. \A q, r \in Procs : on'[q] # NULL /\ on'[q] = on'[r] => q = r
    BY SMTT(30), <1>2 DEF HostInv
  <2>3. \A w \in Vcpus : phase'[w] # "idle" => \E q \in Procs : on'[q] = w
    BY SMTT(30), <1>2 DEF HostInv
  <2>4. \A q \in Procs : on'[q] # NULL =>
          /\ phase'[on'[q]] # "idle"
          /\ operation'[on'[q]] = OperationOf(q)'
          /\ phase'[on'[q]] # "asked" =>
               job'[on'[q]] = [data |-> Source(q)', output_gpa |-> bufs'[q].output]
    <3> SUFFICES ASSUME NEW q \in Procs, on'[q] # NULL
                 PROVE  /\ phase'[on'[q]] # "idle"
                        /\ operation'[on'[q]] = OperationOf(q)'
                        /\ phase'[on'[q]] # "asked" =>
                             job'[on'[q]] = [data |-> Source(q)', output_gpa |-> bufs'[q].output]
      OBVIOUS
    <3>1. q # p /\ on'[q] = on[q] /\ on[q] # v /\ on[q] \in Vcpus
      BY SMTT(30), <1>2 DEF Types, TypeOK
    <3>2. phase'[on[q]] = phase[on[q]] /\ job'[on[q]] = job[on[q]]
      BY <1>2, <3>1
    <3> QED
      BY SMTT(30), <1>5, <3>1, <3>2 DEF HostInv
  <2>5. \A i \in 1..Len(queue') : phase'[queue'[i]] = "queued"
    BY SMTT(30), <1>2 DEF HostInv, Types
  <2> QED
    BY SMTT(30), <2>1, <2>2, <2>3, <2>4, <2>5 DEF HostInv
<1> QED
  BY <1>6, <1>7, <1>8, <1>9, <1>10

\* The host answers, with a failure or after it has written the result.
LEMMA AnswerStep == ASSUME IInv, NEW v \in Vcpus, HostRefuse(v) \/ HostReply(v) PROVE IInv'
<1> USE DEF IInv
<1>1. PICK p \in Procs : on[p] = v /\ p = CHOOSE q \in Procs : on[q] = v
  <2>1. \E q \in Procs : on[q] = v
    BY DEF HostRefuse, HostReply, Host!Refuse, Host!Reply, HostInv
  <2> QED
    BY <2>1
<1>2. /\ on' = [on EXCEPT ![p] = NULL] /\ pc' = [pc EXCEPT ![p] = "copyout"]
      /\ failed' = IF answer'[v][1] = 0 THEN failed ELSE failed \cup {p}
  BY <1>1 DEF HostRefuse, HostReply, Return, Host!Success
<1>3. /\ phase' = [phase EXCEPT ![v] = "idle"] /\ phase[v] \in {"asked", "served"}
      /\ UNCHANGED <<moduleVars, opened, request, user, bufs, leaked, operation, queue>>
  BY DEF HostRefuse, HostReply, Host!Refuse, Host!Reply
<1>4. CASE HostRefuse(v)
  <2>1. answer' = [answer EXCEPT ![v] = <<1, Zero>>] /\ UNCHANGED <<mem, job>>
    BY <1>4 DEF HostRefuse, Host!Refuse, Host!Failed
  <2>2. answer' = [w \in Vcpus |-> answer'[w]] /\ answer'[v] = <<1, Zero>>
    BY <2>1 DEF Types
  <2>3. answer'[v][1] # 0
    BY <2>2
  <2>4. failed' = failed \cup {p}
    BY <1>2, <2>3
  <2> QED
    BY <1>1, <1>2, <1>3, <2>1, <2>2, <2>4, ReturnStep
<1>5. CASE HostReply(v)
  <2>1. /\ phase[v] = "served" /\ job' = [job EXCEPT ![v] = NULL]
        /\ mem' = IF answer'[v][1] = 0
                    THEN [mem EXCEPT ![job[v].output_gpa] = Crypt(operation[v], job[v].data)]
                    ELSE mem
    BY <1>5 DEF HostReply, Host!Reply, Host!Success
  <2>2. answer' = [w \in Vcpus |-> answer'[w]]
    <3>1. PICK a : answer' = [answer EXCEPT ![v] = a]
      BY <1>5 DEF HostReply, Host!Reply
    <3> QED
      BY <3>1 DEF Types
  <2>3. /\ operation[v] = OperationOf(p)
        /\ job[v] = [data |-> Source(p), output_gpa |-> bufs[p].output]
    BY <1>1, <2>1, DriverAssumption DEF HostInv
  <2>4. job[v].data = Source(p) /\ job[v].output_gpa = bufs[p].output
    BY <2>3
  <2>5. \/ failed' = failed \cup {p} /\ mem' = mem
        \/ /\ failed' = failed
           /\ mem' = [mem EXCEPT ![bufs[p].output] = Crypt(OperationOf(p), Source(p))]
    BY <1>2, <2>1, <2>3, <2>4
  <2> QED
    BY <1>1, <1>2, <1>3, <2>1, <2>2, <2>5, ReturnStep
<1> QED
  BY <1>4, <1>5

\* A step of the host that touches nothing of the guest.
LEMMA HostOnly ==
  ASSUME IInv, UNCHANGED <<moduleVars, program, bufs, mem, leaked, on, failed, operation, answer>>,
         job' \in [Vcpus -> [data : Data, output_gpa : Bufs] \cup {NULL}],
         phase' \in [Vcpus -> {"idle", "asked", "queued", "serving", "served"}],
         queue' \in Seq(Vcpus)
  PROVE  Types' /\ ModuleInv' /\ BufferInv' /\ ContentInv' /\ UserInv'
<1>1. FreeBufs' = FreeBufs /\ \A q \in Procs :
        /\ (Inside(q)' <=> Inside(q)) /\ (Active(q)' <=> Active(q)) /\ Held(q)' = Held(q)
        /\ Source(q)' = Source(q) /\ OperationOf(q)' = OperationOf(q)
  BY DEF FreeBufs, Inside, Active, Held, Source, OperationOf, program
<1>2. ModuleInv' /\ UserInv'
  BY <1>1 DEF IInv, ModuleInv, UserInv, moduleVars, program
<1>3. BufferInv' /\ ContentInv'
  BY SMTT(30), <1>1 DEF IInv, BufferInv, ContentInv, program
<1>4. Types'
  BY ZenonT(30), <1>1 DEF IInv, Types, TypeOK, moduleVars, program
<1> QED
  BY <1>2, <1>3, <1>4

\* The host reads the job and its input, as the process left them, and queues it.
LEMMA EnqueueStep == ASSUME IInv, NEW v \in Vcpus, HostEnqueue(v) PROVE IInv'
<1> USE DEF IInv
<1>1. PICK p \in Procs : on[p] = v /\
        job' = [job EXCEPT ![v] = [data |-> mem[mem[bufs[p].vjob].input_gpa],
                                   output_gpa |-> mem[bufs[p].vjob].output_gpa]]
  BY DEF HostEnqueue
<1>2. /\ phase[v] = "asked" /\ phase' = [phase EXCEPT ![v] = "queued"]
      /\ queue' = Append(queue, v)
      /\ UNCHANGED <<moduleVars, program, bufs, mem, leaked, on, failed, operation, answer>>
  BY DEF HostEnqueue, Host!Enqueue
<1>3. Inside(p) /\ Active(p) /\ v # NULL
  BY <1>1, DriverAssumption DEF HostInv, Inside, Active
<1>4. mem[bufs[p].vjob] = [input_gpa |-> bufs[p].input, output_gpa |-> bufs[p].output,
                           operation |-> OperationOf(p)]
  BY <1>3 DEF ContentInv
<1>5. /\ mem[bufs[p].vjob].input_gpa = bufs[p].input
      /\ mem[bufs[p].vjob].output_gpa = bufs[p].output
      /\ mem[bufs[p].input] = Source(p)
  BY SMTT(30), <1>3, <1>4 DEF ContentInv
<1>6. job' = [job EXCEPT ![v] = [data |-> Source(p), output_gpa |-> bufs[p].output]]
  BY <1>1, <1>5
<1>7. Source(p) \in Data /\ bufs[p].output \in Bufs
  BY <1>3, SourceFacts DEF BufferInv
<1>8. /\ job' \in [Vcpus -> [data : Data, output_gpa : Bufs] \cup {NULL}]
      /\ phase' \in [Vcpus -> {"idle", "asked", "queued", "serving", "served"}]
      /\ queue' \in Seq(Vcpus)
  BY SMTT(30), <1>2, <1>6, <1>7 DEF Types, TypeOK
<1>9. /\ phase'[v] = "queued" /\ job'[v] = [data |-> Source(p), output_gpa |-> bufs[p].output]
      /\ \A w \in Vcpus : w # v => phase'[w] = phase[w] /\ job'[w] = job[w]
  BY <1>2, <1>6 DEF Types, TypeOK
<1>10. \A q \in Procs : Source(q)' = Source(q) /\ OperationOf(q)' = OperationOf(q) /\ pc'[q] = pc[q]
  BY <1>2 DEF Source, OperationOf, program
<1>11. HostInv'
  <2>1. \A i \in 1..Len(queue) : queue[i] \in Vcpus /\ queue[i] # v
    BY SMTT(30), <1>2 DEF HostInv, Types
  <2>2. /\ Len(queue') = Len(queue) + 1 /\ queue'[Len(queue) + 1] = v /\ Len(queue) \in Nat
        /\ \A i \in 1..Len(queue) : queue'[i] = queue[i]
    BY SMTT(30), <1>2 DEF Types
  <2>0. /\ \A i \in 1..Len(queue) : phase[queue[i]] = "queued"
        /\ \A i, j \in 1..Len(queue) : queue[i] = queue[j] => i = j
    BY DEF HostInv
  <2>a. \A i \in 1..Len(queue') : i \in 1..Len(queue) \/ i = Len(queue) + 1
    BY SMTT(30), <2>2
  <2>3. \A i \in 1..Len(queue') : phase'[queue'[i]] = "queued"
    <3> HIDE DEF IInv
    <3> QED
      BY SMTT(30), <1>9, <2>0, <2>1, <2>2, <2>a
  <2>4. \A i, j \in 1..Len(queue') : queue'[i] = queue'[j] => i = j
    <3> HIDE DEF IInv
    <3> QED
      BY SMTT(30), <2>0, <2>1, <2>2, <2>a
  <2>5. \A w \in Vcpus : phase'[w] # "idle" => \E q \in Procs : on'[q] = w
    BY SMTT(30), <1>1, <1>2, <1>9 DEF HostInv
  <2>6. \A q \in Procs : on[q] # NULL =>
          /\ phase'[on[q]] # "idle"
          /\ operation[on[q]] = OperationOf(q)
          /\ phase'[on[q]] # "asked" =>
               job'[on[q]] = [data |-> Source(q), output_gpa |-> bufs[q].output]
    <3> SUFFICES ASSUME NEW q \in Procs, on[q] # NULL
                 PROVE  /\ phase'[on[q]] # "idle"
                        /\ operation[on[q]] = OperationOf(q)
                        /\ phase'[on[q]] # "asked" =>
                             job'[on[q]] = [data |-> Source(q), output_gpa |-> bufs[q].output]
      OBVIOUS
    <3>1. CASE q = p
      BY <1>1, <1>9, <3>1 DEF HostInv
    <3>2. CASE q # p
      <4>1. on[q] \in Vcpus /\ on[q] # v
        BY SMTT(30), <1>1, <3>2 DEF HostInv, Types, TypeOK
      <4>2. phase'[on[q]] = phase[on[q]] /\ job'[on[q]] = job[on[q]]
        BY <1>9, <4>1
      <4> QED
        BY <4>2 DEF HostInv
    <3> QED
      BY <3>1, <3>2
  <2> QED
    BY SMTT(30), <1>2, <1>10, <2>3, <2>4, <2>5, <2>6 DEF HostInv
<1> QED
  BY <1>2, <1>8, <1>11, HostOnly

\* A kthread takes the oldest job, or completes one.
LEMMA ServeStep == ASSUME IInv, NEW v \in Vcpus, HostServe(v) PROVE IInv'
<1> USE DEF IInv
<1>1. UNCHANGED <<moduleVars, program, bufs, mem, leaked, on, job, failed, operation, answer>>
  BY DEF HostServe, Host!Serve, Host!Complete
<1>2. /\ phase[v] \in {"queued", "serving"} /\ phase'[v] \in {"serving", "served"}
      /\ \A w \in Vcpus : w # v => phase'[w] = phase[w]
      /\ phase' \in [Vcpus -> {"idle", "asked", "queued", "serving", "served"}]
      /\ queue' \in Seq(Vcpus)
      /\ \A i \in 1..Len(queue') : phase[queue'[i]] = "queued" /\ queue'[i] # v
      /\ \A i, j \in 1..Len(queue') : queue'[i] = queue'[j] => i = j
  <2>1. CASE Host!Serve(v)
    <3>1. /\ queue # <<>> /\ v = Head(queue) /\ queue' = Tail(queue) /\ queue \in Seq(Vcpus)
          /\ phase' = [phase EXCEPT ![v] = "serving"]
      BY <2>1 DEF Host!Serve, Types
    <3>2. /\ Len(queue) \in Nat \ {0} /\ v = queue[1] /\ Len(queue') = Len(queue) - 1
          /\ \A i \in 1..Len(queue') : queue'[i] = queue[i + 1] /\ i + 1 \in 1..Len(queue)
          /\ queue' \in Seq(Vcpus)
      BY SMTT(30), <3>1
    <3>3. /\ phase[v] = "queued"
          /\ \A i \in 1..Len(queue') : phase[queue'[i]] = "queued" /\ queue'[i] # v
      BY SMTT(30), <3>2 DEF HostInv
    <3>4. \A i, j \in 1..Len(queue') : queue'[i] = queue'[j] => i = j
      BY SMTT(30), <3>2 DEF HostInv
    <3>5. /\ phase'[v] = "serving" /\ \A w \in Vcpus : w # v => phase'[w] = phase[w]
          /\ phase' \in [Vcpus -> {"idle", "asked", "queued", "serving", "served"}]
      BY <3>1 DEF Types
    <3> QED
      BY <3>2, <3>3, <3>4, <3>5
  <2>2. CASE Host!Complete(v)
    <3>1. phase[v] = "serving" /\ queue' = queue /\ phase' = [phase EXCEPT ![v] = "served"]
      BY <2>2 DEF Host!Complete
    <3>2. /\ phase'[v] = "served" /\ \A w \in Vcpus : w # v => phase'[w] = phase[w]
          /\ phase' \in [Vcpus -> {"idle", "asked", "queued", "serving", "served"}]
      BY <3>1 DEF Types
    <3> QED
      BY SMTT(30), <3>1, <3>2 DEF HostInv, Types
  <2> QED
    BY <2>1, <2>2 DEF HostServe
<1>3. \A q \in Procs : Source(q)' = Source(q) /\ OperationOf(q)' = OperationOf(q) /\ pc'[q] = pc[q]
  BY <1>1 DEF Source, OperationOf, program
<1>4. HostInv'
  <2>0. HostInv /\ Types
    OBVIOUS
  <2> HIDE DEF IInv
  <2>1. \A i \in 1..Len(queue') : phase'[queue'[i]] = "queued"
    <3> SUFFICES ASSUME NEW i \in 1..Len(queue') PROVE phase'[queue'[i]] = "queued"
      OBVIOUS
    <3>1. queue'[i] \in Vcpus
      BY SMTT(30), <1>2
    <3> QED
      BY <1>2, <3>1
  <2>2. \A w \in Vcpus : (phase'[w] = "idle" <=> phase[w] = "idle") /\ (phase'[w] = "asked" <=> phase[w] = "asked")
    BY <1>2
  <2>3. \A q \in Procs : on'[q] = on[q] /\ (on[q] # NULL => on[q] \in Vcpus)
    BY <1>1, <2>0 DEF Types, TypeOK
  <2>4. \A w \in Vcpus : phase'[w] # "idle" => \E q \in Procs : on'[q] = w
    BY SMTT(30), <2>0, <2>2, <2>3 DEF HostInv
  <2>5. \A q \in Procs : on[q] # NULL =>
          /\ phase'[on[q]] # "idle"
          /\ operation[on[q]] = OperationOf(q)
          /\ phase'[on[q]] # "asked" =>
               job[on[q]] = [data |-> Source(q), output_gpa |-> bufs[q].output]
    BY <2>0, <2>2, <2>3 DEF HostInv
  <2>6. \A q \in Procs : on'[q] # NULL =>
          /\ phase'[on'[q]] # "idle"
          /\ operation'[on'[q]] = OperationOf(q)'
          /\ phase'[on'[q]] # "asked" =>
               job'[on'[q]] = [data |-> Source(q)', output_gpa |-> bufs'[q].output]
    BY <1>1, <1>3, <2>3, <2>5
  <2>7. /\ \A q \in Procs : pc'[q] = "host" <=> on'[q] # NULL
        /\ \A q, r \in Procs : on'[q] # NULL /\ on'[q] = on'[r] => q = r
    BY SMTT(30), <1>3, <2>0, <2>3 DEF HostInv
  <2>8. \A i, j \in 1..Len(queue') : queue'[i] = queue'[j] => i = j
    BY <1>2
  <2> QED
    BY <2>1, <2>4, <2>6, <2>7, <2>8 DEF HostInv
<1>5. job' \in [Vcpus -> [data : Data, output_gpa : Bufs] \cup {NULL}]
  BY <1>1 DEF Types, TypeOK
<1> QED
  BY <1>1, <1>2, <1>4, <1>5, HostOnly

\* The end of submit_job: the output is copied, the three buffers are free again.
LEMMA CopyOutStep == ASSUME IInv, NEW p \in Procs, CopyOut(p) PROVE IInv'
<1> USE DEF IInv
<1>1. /\ pc[p] = "copyout" /\ user' = [user EXCEPT ![p][Target(p)] = mem[bufs[p].output]]
      /\ mem' = [b \in Bufs |-> IF b \in Held(p) THEN NULL ELSE mem[b]]
      /\ bufs' = [bufs EXCEPT ![p] = NoBufs] /\ request' = [request EXCEPT ![p] = "KC_IODEC"]
      /\ pc' = [pc EXCEPT ![p] = AfterIoctl(p)]
      /\ UNCHANGED <<moduleVars, opened, leaked, on, job, failed, host>>
  BY DEF CopyOut, LeaveSubmit
<1>2. /\ Inside(p) /\ Active(p) /\ on[p] = NULL /\ AfterIoctl(p) \in {"ioctl", "close"}
      /\ pc'[p] = AfterIoctl(p) /\ ~Inside(p)' /\ Active(p)' /\ bufs'[p] = NoBufs
      /\ request'[p] = "KC_IODEC"
  BY SMTT(30), <1>1 DEF Inside, Active, AfterIoctl, HostInv, Types, TypeOK
<1>3. \A q \in Procs : q # p =>
        /\ SameProc(q) /\ bufs'[q] = bufs[q] /\ Held(q)' = Held(q)
        /\ Source(q)' = Source(q) /\ OperationOf(q)' = OperationOf(q)
        /\ (Inside(q)' <=> Inside(q)) /\ (Active(q)' <=> Active(q))
  <2>1. \A q \in Procs : q # p => SameProc(q) /\ bufs'[q] = bufs[q]
    BY <1>1 DEF SameProc, Types, TypeOK
  <2> QED
    BY <2>1 DEF SameProc, Held, Source, OperationOf, Inside, Active
<1>4. Held(p)' = {} /\ FreeBufs' = FreeBufs \cup Held(p) /\ Held(p) \subseteq Bufs \ leaked
  <2>1. Held(p)' = {}
    BY SMTT(30), <1>2 DEF Held, NoBufs
  <2>2. Held(p) \subseteq Bufs \ leaked
    BY ZenonT(30), <1>2, HeldFacts
  <2>3. FreeBufs' = FreeBufs \cup Held(p)
    BY <1>1, <2>2 DEF FreeBufs
  <2> QED
    BY <2>1, <2>2, <2>3
<1>5. \/ mem[bufs[p].output] = Crypt(OperationOf(p), Source(p))
      \/ p \in failed /\ mem[bufs[p].output] = Zeros
  BY <1>1, <1>2 DEF ContentInv
<1>6. mem[bufs[p].output] \in Data
  BY <1>2, <1>5, SourceFacts, DataFacts
<1>7. /\ request[p] = "KC_IOENC" =>
           /\ user'[p].output = mem[bufs[p].output] /\ user'[p].output2 = user[p].output2
           /\ pc'[p] = "ioctl"
      /\ request[p] = "KC_IODEC" =>
           /\ user'[p].output2 = mem[bufs[p].output] /\ user'[p].output = user[p].output
           /\ pc'[p] = "close"
      /\ user'[p].input = user[p].input
      /\ user' \in [Procs -> [input : Data, output : Data, output2 : Data]]
  <2>1. user \in [Procs -> [input : Data, output : Data, output2 : Data]]
    BY DEF Types, TypeOK
  <2>2. CASE request[p] = "KC_IOENC"
    <3>1. user' = [user EXCEPT ![p]["output"] = mem[bufs[p].output]] /\ pc'[p] = "ioctl"
      BY <1>1, <1>2, <2>2 DEF Target, AfterIoctl
    <3>2. user'[p] = [user[p] EXCEPT !["output"] = mem[bufs[p].output]]
      BY <2>1, <3>1
    <3>3. user'[p] \in [input : Data, output : Data, output2 : Data]
      BY <1>6, <2>1, <3>2
    <3> QED
      BY <2>1, <2>2, <3>1, <3>2, <3>3
  <2>3. CASE request[p] = "KC_IODEC"
    <3>1. user' = [user EXCEPT ![p]["output2"] = mem[bufs[p].output]] /\ pc'[p] = "close"
      BY <1>1, <1>2, <2>3 DEF Target, AfterIoctl
    <3>2. user'[p] = [user[p] EXCEPT !["output2"] = mem[bufs[p].output]]
      BY <2>1, <3>1
    <3>3. user'[p] \in [input : Data, output : Data, output2 : Data]
      BY <1>6, <2>1, <3>2
    <3> QED
      BY <2>1, <2>3, <3>1, <3>2, <3>3
  <2> QED
    BY <2>2, <2>3 DEF Types, TypeOK
<1>8. UserInv'
  <2>1. ASSUME NEW q \in Procs, q # p
        PROVE  UserInv!(q)'
    BY SMTT(30), <1>1, <1>3, <2>1 DEF UserInv, SameProc
  <2>2. UserInv!(p)'
    <3>1. CASE request[p] = "KC_IOENC"
      BY <1>1, <1>2, <1>5, <1>7, <3>1, SourceFacts DEF UserInv
    <3>2. CASE request[p] = "KC_IODEC"
      BY <1>1, <1>2, <1>5, <1>7, <3>2, SourceFacts DEF UserInv
    <3> QED
      BY <3>1, <3>2 DEF Types, TypeOK
  <2> QED
    BY <2>1, <2>2 DEF UserInv
<1>9. ModuleInv'
  BY <1>1, <1>2, <1>3 DEF ModuleInv, moduleVars
<1>10. Types'
  <2>1. pc' \in [Procs -> {"fork", "open", "ioctl", "vmcall", "host", "copyout", "close"} \cup Dead]
    BY <1>1, <1>2 DEF Types, TypeOK
  <2>2. bufs' \in [Procs -> [vjob : Bufs \cup {NULL}, input : Bufs \cup {NULL},
                            output : Bufs \cup {NULL}]]
    BY <1>1 DEF Types, NoBufs
  <2>3. mem' \in [Bufs -> Data \cup Jobs \cup {NULL}]
    BY <1>1 DEF Types, TypeOK
  <2>4. request' \in [Procs -> {"KC_IOENC", "KC_IODEC"}]
    BY <1>1 DEF Types, TypeOK
  <2>5. \A q \in Procs : Held(q)' \subseteq Bufs
    BY ZenonT(30), <1>3, <1>4 DEF Types, TypeOK
  <2> QED
    BY <1>1, <1>7, <2>1, <2>2, <2>3, <2>4, <2>5 DEF Types, TypeOK, host, moduleVars
<1>11. BufferInv'
  <2>1. \A q \in Procs : Inside(q)' =>
          /\ {bufs[q].vjob, bufs[q].input, bufs[q].output}' \subseteq Bufs \ (FreeBufs \cup leaked)'
          /\ bufs'[q].vjob # bufs'[q].input /\ bufs'[q].vjob # bufs'[q].output
          /\ bufs'[q].input # bufs'[q].output
    <3> SUFFICES ASSUME NEW q \in Procs, Inside(q)'
                 PROVE  /\ {bufs[q].vjob, bufs[q].input, bufs[q].output}' \subseteq Bufs \ (FreeBufs \cup leaked)'
                        /\ bufs'[q].vjob # bufs'[q].input /\ bufs'[q].vjob # bufs'[q].output
                        /\ bufs'[q].input # bufs'[q].output
      OBVIOUS
    <3>1. q # p /\ Inside(q) /\ bufs'[q] = bufs[q]
      BY <1>2, <1>3
    <3>2. /\ {bufs[q].vjob, bufs[q].input, bufs[q].output} \subseteq Bufs \ (FreeBufs \cup leaked)
          /\ Held(q) \cap Held(p) = {}
      BY <3>1 DEF BufferInv
    <3>3. {bufs[q].vjob, bufs[q].input, bufs[q].output} = Held(q)
      BY <3>2, DriverAssumption DEF Held
    <3> QED
      BY SMTT(30), <1>1, <1>4, <3>1, <3>2, <3>3 DEF BufferInv
  <2>2. \A q \in Procs : ~Inside(q)' => bufs'[q] = NoBufs
    BY <1>2, <1>3 DEF BufferInv
  <2>3. \A q, r \in Procs : q # r => Held(q)' \cap Held(r)' = {}
    BY <1>3, <1>4 DEF BufferInv
  <2>4. leaked' \subseteq Bufs \ FreeBufs'
    BY <1>1, <1>4 DEF BufferInv
  <2>5. \A b \in Bufs : mem'[b] # NULL => b \in leaked' \/ \E q \in Procs : b \in Held(q)'
    <3> SUFFICES ASSUME NEW b \in Bufs, mem'[b] # NULL
                 PROVE  b \in leaked' \/ \E q \in Procs : b \in Held(q)'
      OBVIOUS
    <3>1. mem[b] # NULL /\ b \notin Held(p)
      BY <1>1
    <3> QED
      BY SMTT(30), <1>1, <1>3, <3>1 DEF BufferInv
  <2> QED
    BY <2>1, <2>2, <2>3, <2>4, <2>5 DEF BufferInv
<1>12. ContentInv'
  <2> SUFFICES ASSUME NEW q \in Procs, Inside(q)'
               PROVE  ContentInv!(q)!2'
    BY DEF ContentInv
  <2>1. q # p /\ Inside(q) /\ bufs'[q] = bufs[q]
    BY <1>2, <1>3
  <2>2. {bufs[q].vjob, bufs[q].input, bufs[q].output} \subseteq Bufs \ Held(p)
    <3>1. /\ {bufs[q].vjob, bufs[q].input, bufs[q].output} \subseteq Bufs
          /\ Held(q) \cap Held(p) = {}
      BY <2>1 DEF BufferInv
    <3>2. {bufs[q].vjob, bufs[q].input, bufs[q].output} = Held(q)
      BY <3>1, DriverAssumption DEF Held
    <3> QED
      BY <3>1, <3>2
  <2>3. \A b \in Bufs \ Held(p) : mem'[b] = mem[b]
    BY <1>1
  <2>4. /\ mem'[bufs'[q].vjob] = mem[bufs[q].vjob] /\ mem'[bufs'[q].input] = mem[bufs[q].input]
        /\ mem'[bufs'[q].output] = mem[bufs[q].output]
    BY <2>1, <2>2, <2>3
  <2>5. /\ Source(q)' = Source(q) /\ OperationOf(q)' = OperationOf(q)
        /\ pc'[q] = pc[q] /\ (q \in failed' <=> q \in failed)
    BY <1>3, <2>1 DEF SameProc
  <2>6. ContentInv!(q)!2
    BY <2>1 DEF ContentInv
  <2> HIDE DEF IInv
  <2> QED
    BY <2>1, <2>4, <2>5, <2>6
<1>13. HostInv'
  <2>1. \A q \in Procs : on[q] # NULL => q # p
    BY <1>2
  <2>2. \A q \in Procs : pc'[q] = "host" <=> pc[q] = "host"
    BY <1>1, <1>2, <1>3 DEF SameProc
  <2> QED
    BY SMTT(30), <1>1, <1>3, <2>1, <2>2 DEF HostInv, host
<1> QED
  BY <1>8, <1>9, <1>10, <1>11, <1>12, <1>13

-----------------------------------------------------------------------------
\* Nothing is loaded, nobody has asked.
LEMMA InvInit == Init => IInv
<1> SUFFICES ASSUME Init PROVE IInv
  OBVIOUS
<1> USE DEF Init
<1>1. \A p \in Procs : /\ ~Inside(p) /\ ~Active(p) /\ Held(p) = {} /\ user[p] = NoText
                       /\ bufs[p] = NoBufs /\ on[p] = NULL /\ pc[p] # "host" /\ pc[p] # "close"
  BY DEF Inside, Active, Held, NoBufs
<1>2. FreeBufs = Bufs
  BY DEF FreeBufs
<1>3. /\ phase = [v \in Vcpus |-> "idle"] /\ operation = [v \in Vcpus |-> "unknown"]
      /\ queue = <<>> /\ answer = [v \in Vcpus |-> answer[v]]
  BY DEF Host!Init
<1>4. Types
  <2>1. NoText \in [input : Data, output : Data, output2 : Data]
    BY DataFacts DEF NoText
  <2>2. user \in [Procs -> [input : Data, output : Data, output2 : Data]]
    BY <2>1
  <2>3. pc \in [Procs -> {"fork", "open", "ioctl", "vmcall", "host", "copyout", "close"} \cup Dead]
    BY DEF Dead
  <2>4. loads \in 0..MaxLoads
    BY DriverAssumption
  <2>5. loaded \in BOOLEAN /\ device \in BOOLEAN
    BY Zenon
  <2>6. TypeOK
    BY <1>1, <2>2, <2>3, <2>4, <2>5 DEF TypeOK
  <2> QED
    BY <1>3, <2>6 DEF Types, NoBufs
<1>5. ModuleInv /\ BufferInv /\ ContentInv
  BY <1>1, <1>2 DEF ModuleInv, BufferInv, ContentInv
<1>6. HostInv
  BY SMTT(30), <1>1, <1>3 DEF HostInv
<1>7. UserInv
  BY <1>1 DEF UserInv, NoText
<1> QED
  BY <1>4, <1>5, <1>6, <1>7 DEF IInv

\* Every step keeps the invariant.
LEMMA InvNext == IInv /\ [Next]_vars => IInv'
<1> SUFFICES ASSUME IInv, [Next]_vars PROVE IInv'
  OBVIOUS
<1>1. CASE Install \/ Uninstall
  BY <1>1, ModuleStep
<1>2. ASSUME NEW p \in Procs, ProcNext(p) \/ Kill(p) PROVE IInv'
  BY <1>2, StartStep, SubmitStep, OopsStep, VmcallStep, CopyOutStep, CloseStep DEF ProcNext
<1>3. ASSUME NEW v \in Vcpus, HostNext(v) PROVE IInv'
  BY <1>3, AnswerStep, EnqueueStep, ServeStep DEF HostNext
<1>4. CASE UNCHANGED vars
  <2>1. UNCHANGED <<moduleVars, program, bufs, mem, leaked, on, job, failed, host>>
    BY <1>4 DEF vars
  <2>2. BufferInv' /\ ContentInv' /\ HostInv'
    BY <2>1, Outside DEF SameProc, program
  <2>3. ModuleInv' /\ UserInv'
    BY <2>1 DEF IInv, ModuleInv, UserInv, Active, program, moduleVars
  <2>4. Types'
    BY <2>1 DEF IInv, Types, TypeOK, Held, program, host, moduleVars
  <2> QED
    BY <2>2, <2>3, <2>4 DEF IInv
<1> QED
  BY <1>1, <1>2, <1>3, <1>4 DEF Next, Finished

\* The invariant holds throughout.
LEMMA Invariant == Spec => []IInv
  BY InvInit, InvNext, PTL DEF Spec

\* Every variable stays in its set, whatever the sets of processes, vCPUs and
\* buffers are.
THEOREM TypeCorrect == Spec => []TypeOK
<1>1. IInv => TypeOK
  BY DEF IInv, Types
<1> QED
  BY <1>1, Invariant, PTL

\* What user.c prints when its two ioctls worked: its text encrypted, and its text.
THEOREM ProgramRight == Spec => []RoundTrip
<1>1. IInv => RoundTrip
  <2> SUFFICES ASSUME IInv, NEW p \in Procs, pc[p] = "close", p \notin failed
               PROVE  /\ user[p].output = Crypt("KVM_ENCRYPTION", user[p].input)
                      /\ user[p].output2 = user[p].input
    BY DEF RoundTrip
  <2>1. /\ user[p].input = Plain(p) /\ user[p].output = Cipher(p) /\ user[p].output2 = Plain(p)
    BY DEF IInv, UserInv, Active
  <2> QED
    BY <2>1, DataFacts
<1> QED
  BY <1>1, Invariant, PTL

\* submit_job gives no process another one's text, whatever fails on the way.
THEOREM Isolation == Spec => []OwnData
<1>1. IInv => OwnData
  <2> SUFFICES ASSUME IInv, NEW p \in Procs
               PROVE  user[p].output.of \in {p, Zero} /\ user[p].output2.of \in {p, Zero}
    BY DEF OwnData
  <2>1. /\ Zeros.of = Zero /\ Garbage.of = Zero /\ Cipher(p).of = p /\ Plain(p).of = p
    BY DEF Zeros, Cipher, Plain, Garbage
  <2>2. user[p].output \in {Zeros, Cipher(p)} /\ user[p].output2 \in {Zeros, Plain(p), Garbage}
    BY DEF IInv, UserInv
  <2> QED
    BY <2>1, <2>2
<1> QED
  BY <1>1, Invariant, PTL

\* submit_job frees what it allocates, and no two calls of it share a buffer.
THEOREM BuffersCorrect == Spec => []BuffersPrivate
<1>1. IInv => BuffersPrivate
  <2> SUFFICES ASSUME IInv PROVE BuffersPrivate
    OBVIOUS
  <2>1. \A p \in Procs : Held(p) # {} => Inside(p)
    BY SMTT(30) DEF IInv, BufferInv, Held, NoBufs
  <2>2. \A p \in Procs : Held(p) \subseteq Bufs \ FreeBufs
    BY SMTT(30), <2>1 DEF IInv, BufferInv, Held
  <2>3. Bufs \ FreeBufs = leaked \cup UNION {Held(p) : p \in Procs}
    BY SMTT(30), <2>2 DEF IInv, BufferInv, FreeBufs
  <2> QED
    BY <2>1, <2>3 DEF BuffersPrivate, IInv, BufferInv, Inside
<1> QED
  BY <1>1, Invariant, PTL

\* rmmod never takes the code away under a process that is in it.
THEOREM UnloadSafe == Spec => []NoCodeAfterUnload
<1>1. IInv => NoCodeAfterUnload
  BY DEF IInv, ModuleInv, NoCodeAfterUnload, Active
<1> QED
  BY <1>1, Invariant, PTL

=============================================================================
