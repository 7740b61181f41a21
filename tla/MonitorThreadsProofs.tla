------------------------ MODULE MonitorThreadsProofs ------------------------
(***************************************************************************)
(* Proofs about the listener, for any number of descriptors and clients,   *)
(* and about top, for any number of CPUs and samples.                      *)
(***************************************************************************)
EXTENDS Listener, CpuUsage, MemUsageProofs

-----------------------------------------------------------------------------
(* The listener: stopped, it holds no socket; running, it leaves none open. *)

Sockets == {"socket", "listening"}

\* The inductive invariant: the only socket to listen on that can be open is
\* the one in listenfd, and only after this thread has made it; without the
\* flag there is no thread and no command under way.  The thread holds a client's
\* connection only while it serves the client, and a file while it uses the file.
IInv ==
  /\ TypeOK
  /\ \A f \in Fds : fds[f] \in Sockets =>
       f = listenfd /\ lpc \notin {"none", "announce", "print", "socket"}
  /\ is_listener_started = 0 => lpc = "none" /\ mpc = "idle"
  /\ lpc \notin Serving \cup {"crashed"} => connfd = NoFd
  /\ lpc \notin {"saving", "read", "reread"} => xmlfd = NoFd

\* The invariant holds before the first command.
LEMMA IInit == Init => IInv
<1> SUFFICES ASSUME Init PROVE IInv
  OBVIOUS
<1>1. backlog \in Seq(Clients) /\ Len(backlog) = 0
  BY DEF Init
<1>2. fds \in [Fds -> Uses] /\ \A f \in Fds : fds[f] \notin Sockets
  BY ListenerAssumption DEF Init, Uses, Sockets
<1>3. TypeOK
  <2>1. Len(backlog) <= MaxBacklog /\ 0 \in Fds
    BY <1>1, ListenerAssumption DEF Fds
  <2>2. QED
    BY <1>1, <1>2, <2>1 DEF Init, TypeOK
<1>4. QED
  BY <1>2, <1>3 DEF Init, IInv

\* What a call that opens a descriptor for u does to the table.
LEMMA OpensEffect ==
  ASSUME TypeOK, NEW u \in Uses, NEW fd, Opens(u, fd, fds)
  PROVE  /\ fds' \in [Fds -> Uses]
         /\ \A f \in Fds : f # fd => fds'[f] = fds[f]
         /\ fd \in Fds => fds'[fd] = u
<1>1. NoFd \notin Fds
  BY ListenerAssumption DEF NoFd, Fds
<1>2. fds \in [Fds -> Uses]
  BY DEF TypeOK
<1>3. CASE fd \in Fds /\ fds' = [fds EXCEPT ![fd] = u]
  BY <1>2, <1>3
<1>4. CASE fd = NoFd /\ fds' = fds
  BY <1>1, <1>2, <1>4
<1>5. QED
  BY <1>3, <1>4 DEF Opens

\* What close does to the table and the backlog.
LEMMA ClosesEffect ==
  ASSUME TypeOK, NEW fd, Closes(fd)
  PROVE  /\ fds' \in [Fds -> Uses]
         /\ \A f \in Fds : fds'[f] = IF f = fd THEN "free" ELSE fds[f]
         /\ backlog' \in Seq(Clients) /\ Len(backlog') <= MaxBacklog
<1>1. backlog' \in {<<>>, backlog}
  BY DEF Closes
<1>2. <<>> \in Seq(Clients) /\ Len(<<>>) = 0
  OBVIOUS
<1>3. QED
  BY <1>1, <1>2, ListenerAssumption DEF TypeOK, Closes, Uses

\* Every step of the monitor, the thread and the clients keeps it.
LEMMA INext == IInv /\ [Next]_vars => IInv'
<1> SUFFICES ASSUME IInv, [Next]_vars PROVE IInv'
  OBVIOUS
<1>t. TypeOK /\ {"free", "qemu", "ifreq", "socket", "listening", "xml"} \subseteq Uses
  BY DEF IInv, Uses
<1> USE <1>t DEF IInv, Sockets, Serving
<1>1. CASE QemuOpen
  <2>1. PICK fd \in Fds : Opens("qemu", fd, fds)
    BY <1>1 DEF QemuOpen
  <2>2. QED
    BY <1>1, <2>1, OpensEffect DEF QemuOpen, TypeOK
<1>2. CASE QemuClose
  <2>1. PICK fd \in Fds : Closes(fd)
    BY <1>2 DEF QemuClose
  <2>2. QED
    BY <1>2, <2>1, ClosesEffect DEF QemuClose, TypeOK
<1>3. ASSUME NEW c \in Clients, Connect(c) PROVE IInv'
  <2>1. backlog' \in Seq(Clients) /\ Len(backlog') <= MaxBacklog
    BY <1>3, ListenerAssumption DEF Connect, TypeOK
  <2>2. QED
    BY <1>3, <2>1 DEF Connect, TypeOK
<1>4. CASE Start
  <2>1. is_listener_started = 0 /\ lpc = "none"
    BY <1>4 DEF Start
  <2>2. \A f \in Fds : fds[f] \notin Sockets
    BY <2>1
  <2>3. TypeOK'
    BY ZenonT(30), <1>4 DEF Start, TypeOK
  <2>4. QED
    BY <1>4, <2>2, <2>3 DEF Start
<1>5. CASE StopCancel
  BY <1>5 DEF StopCancel, TypeOK
<1>6. CASE StopJoin
  BY <1>6, ClosesEffect DEF StopJoin, TypeOK
<1>7. CASE Announce
  <2>1. PICK fd \in Fds \cup {NoFd} : Opens("ifreq", fd, fds)
    BY <1>7 DEF Announce
  <2>2. QED
    BY <1>7, <2>1, OpensEffect DEF Announce, TypeOK
<1>8. CASE MakeSocket
  <2>1. PICK fd \in Fds \cup {NoFd} :
          /\ Opens("socket", fd, fds)
          /\ listenfd' = fd
          /\ lpc' = IF fd = NoFd THEN "exited" ELSE "bind"
    BY <1>8 DEF MakeSocket
  <2>2. QED
    BY <1>8, <2>1, OpensEffect DEF MakeSocket, TypeOK
<1>9. CASE Bind
  BY <1>9 DEF Bind, TypeOK
<1>10. CASE Accept
  <2>1. PICK fd \in Fds \cup {NoFd} :
          /\ Opens(Head(backlog), fd, fds)
          /\ connfd' = fd
          /\ backlog' = IF fd = NoFd THEN backlog ELSE Tail(backlog)
    BY <1>10 DEF Accept
  <2>2. Head(backlog) \in Clients
    BY <1>10 DEF Accept, TypeOK
  <2>3. Head(backlog) \in Uses /\ Head(backlog) \notin Sockets
    BY <2>2, ListenerAssumption DEF Uses
  <2>4. backlog' \in Seq(Clients) /\ Len(backlog') <= MaxBacklog
    BY <1>10, <2>1, ListenerAssumption DEF Accept, TypeOK
  <2>5. QED
    BY <1>10, <2>1, <2>3, <2>4, OpensEffect DEF Accept, TypeOK
<1>11. CASE WriteReply
  BY <1>11, ClosesEffect DEF WriteReply, TypeOK
<1>12. CASE PrintAddress \/ GenXml \/ Cancel
  BY <1>12 DEF PrintAddress, GenXml, Cancel, TypeOK
<1>15. CASE SaveXml
  <2>1. CASE lpc' = "reopen" /\ UNCHANGED <<fds, xmlfd>>
    BY <1>15, <2>1 DEF SaveXml, TypeOK
  <2>2. ASSUME NEW fd \in Fds \cup {NoFd}, Opens("xml", fd, fds), xmlfd' = fd,
               lpc' = IF fd = NoFd THEN "reopen" ELSE "saving"
        PROVE  IInv'
    BY <1>15, <2>2, OpensEffect DEF SaveXml, TypeOK
  <2>3. QED
    BY <1>15, <2>1, <2>2 DEF SaveXml
<1>16. CASE OpenXml
  <2>1. CASE lpc' = "crashed" /\ UNCHANGED <<fds, xmlfd>>
    BY <1>16, <2>1 DEF OpenXml, TypeOK
  <2>2. ASSUME NEW fd \in Fds \cup {NoFd}, Opens("xml", fd, fds), xmlfd' = fd,
               lpc' = CASE fd = NoFd -> "crashed"
                        [] fd # NoFd /\ lpc = "open" -> "read"
                        [] fd # NoFd /\ lpc = "reopen" -> "reread"
        PROVE  IInv'
    <3>1. /\ lpc' \in {"crashed", "read", "reread"} /\ lpc \in {"open", "reopen"}
          /\ lpc' = "crashed" => xmlfd' = NoFd
      BY ZenonT(30), <1>16, <2>2 DEF OpenXml
    <3>2. QED
      BY <1>16, <2>2, <3>1, OpensEffect DEF OpenXml, TypeOK
  <2>3. QED
    BY <1>16, <2>1, <2>2 DEF OpenXml
<1>17. CASE CloseSaved \/ ReadXml
  BY <1>17, ClosesEffect DEF CloseSaved, ReadXml, TypeOK
<1>13. CASE UNCHANGED vars
  BY <1>13 DEF vars, TypeOK
<1>14. QED
  BY <1>1, <1>2, <1>3, <1>4, <1>5, <1>6, <1>7, <1>8, <1>9, <1>10, <1>11, <1>12, <1>13,
     <1>15, <1>16, <1>17
  DEF Next, MonitorNext, ListenerNext, Refused, Crashed

\* Every variable stays in its set: listenfd and connfd are descriptors or -1, and
\* the kernel's backlog keeps to its limit.
THEOREM TypeCorrect == Spec => []TypeOK
<1>1. IInv => TypeOK
  BY DEF IInv
<1>2. QED
  BY <1>1, IInit, INext, PTL DEF Spec

\* When listener_stop has run to its end, whatever listener_service was doing
\* when it was cancelled, no socket of the listener is left open.
THEOREM StopReleasesPort == Spec => []PortFreeAfterStop
<1>1. IInv => PortFreeAfterStop
  BY DEF IInv, PortFreeAfterStop, Sockets
<1>2. QED
  BY <1>1, IInit, INext, PTL DEF Spec

\* A step that opens a descriptor for a use that is no client's and no file's, or
\* that the thread then holds, or that closes one, strands none.
LEMMA Unstranded ==
  ASSUME IInv, fds' \in [Fds -> Uses],
         \A f \in Fds : fds'[f] # fds[f] =>
           fds'[f] \notin Clients \cup {"xml"} \/ f \in {connfd', xmlfd'},
         connfd' = connfd \/ connfd \notin Fds \/ fds'[connfd] = "free",
         xmlfd' = xmlfd \/ xmlfd \notin Fds \/ fds'[xmlfd] = "free"
  PROVE  Stranded' \subseteq Stranded
<1>1. "free" \notin Clients \cup {"xml"}
  BY ListenerAssumption
<1> SUFFICES ASSUME NEW f \in Fds, fds'[f] \in Clients \cup {"xml"}, f \notin {connfd', xmlfd'}
             PROVE  fds[f] \in Clients \cup {"xml"} /\ f \notin {connfd, xmlfd}
  BY DEF Stranded
<1>2. fds'[f] = fds[f]
  OBVIOUS
<1> QED
  BY <1>1, <1>2

\* listener_service leaves no connection and no temporary file open, whichever of
\* its calls fails: only the cancellation by listener_stop does.
THEOREM ServingStrandsNone == Spec => OnlyStopStrands
<1>1. ASSUME IInv, [Next]_vars
      PROVE  [Stranded' \subseteq Stranded \/ (cancelled /\ lpc' = "exited")]_vars
  <2>t. /\ TypeOK /\ fds \in [Fds -> Uses] /\ NoFd \notin Fds
        /\ {"free", "qemu", "ifreq", "socket", "listening", "xml"} \subseteq Uses
        /\ {"free", "qemu", "ifreq", "socket", "listening"} \cap (Clients \cup {"xml"}) = {}
    BY <1>1, ListenerAssumption DEF IInv, TypeOK, Uses, NoFd, Fds
  <2> USE <1>1, <2>t
  <2>1. CASE Cancel
    BY <2>1 DEF Cancel
  <2>2. CASE UNCHANGED <<fds, connfd, xmlfd>>
    BY <2>2 DEF Stranded
  <2>3. ASSUME NEW u \in Uses \ (Clients \cup {"xml"}), NEW fd, Opens(u, fd, fds),
               UNCHANGED <<connfd, xmlfd>>
        PROVE  Stranded' \subseteq Stranded
    BY <2>3, OpensEffect, Unstranded
  <2>4. ASSUME NEW fd, Closes(fd),
               connfd' = connfd \/ connfd = fd, xmlfd' = xmlfd \/ xmlfd = fd
        PROVE  Stranded' \subseteq Stranded
    <3>1. /\ fds' \in [Fds -> Uses]
          /\ \A f \in Fds : fds'[f] = IF f = fd THEN "free" ELSE fds[f]
      BY <2>4, ClosesEffect
    <3>2. QED
      BY <2>4, <3>1, Unstranded
  <2>5. CASE QemuOpen \/ Announce \/ MakeSocket
    BY <2>3, <2>5 DEF QemuOpen, Announce, MakeSocket
  <2>6. CASE QemuClose \/ StopJoin \/ CloseSaved \/ ReadXml \/ WriteReply
    BY <2>4, <2>6 DEF QemuClose, StopJoin, CloseSaved, ReadXml, WriteReply
  <2>7. CASE Bind
    BY <2>7, Unstranded DEF Bind
  <2>8. CASE Accept
    <3>1. PICK fd \in Fds \cup {NoFd} : Opens(Head(backlog), fd, fds) /\ connfd' = fd
      BY <2>8 DEF Accept
    <3>2. Head(backlog) \in Uses
      BY <2>8 DEF Accept, TypeOK, Uses
    <3>3. connfd = NoFd /\ xmlfd' = xmlfd
      BY <2>8 DEF Accept, IInv, Serving
    <3>4. QED
      BY <3>1, <3>2, <3>3, OpensEffect, Unstranded
  <2>9. CASE SaveXml \/ OpenXml
    <3>1. xmlfd = NoFd /\ connfd' = connfd
      BY <2>9 DEF SaveXml, OpenXml, IInv
    <3>2. ASSUME NEW fd \in Fds \cup {NoFd}, Opens("xml", fd, fds), xmlfd' = fd
          PROVE  Stranded' \subseteq Stranded
      BY <3>1, <3>2, OpensEffect, Unstranded
    <3>3. QED
      BY <2>2, <2>9, <3>1, <3>2 DEF SaveXml, OpenXml
  <2>10. CASE \/ StopCancel \/ Start \/ PrintAddress \/ GenXml \/ Refused \/ Crashed
              \/ \E c \in Clients : Connect(c)
    BY <2>2, <2>10 DEF StopCancel, Start, PrintAddress, GenXml, Refused, Crashed, Connect,
       vars
  <2> QED
    BY ZenonT(30), <2>1, <2>2, <2>5, <2>6, <2>7, <2>8, <2>9, <2>10
    DEF Next, MonitorNext, ListenerNext, vars
<1> QED
  BY <1>1, IInit, INext, PTL DEF Spec, OnlyStopStrands

-----------------------------------------------------------------------------
(* top: the lines it prints are the ones it computed.                      *)

\* A set of CPUs has a highest one.
LEMMA Highest ==
  ASSUME NEW S \in SUBSET Cpus, S # {}
  PROVE  Max(S) \in S /\ \A d \in S : Max(S) >= d
<1> DEFINE T == {MaxCpus - c : c \in S}
<1>1. T \in SUBSET Nat /\ T # {}
  <2>1. \A c \in Cpus : MaxCpus - c \in Nat
    BY CpuAssumption DEF Cpus
  <2> QED
    BY <2>1, Zenon
<1>2. PICK m \in T : \A k \in T : m <= k
  BY ZenonT(30), <1>1, Least
<1>3. PICK c \in S : m = MaxCpus - c
  BY <1>2
<1>4. ASSUME NEW d \in S PROVE c >= d
  <2>1. c \in Int /\ d \in Int /\ MaxCpus \in Int
    BY CpuAssumption DEF Cpus
  <2>2. MaxCpus - c <= MaxCpus - d
    BY <1>2, <1>3
  <2> QED
    BY <2>1, <2>2
<1> QED
  BY <1>4 DEF Max

\* The CPUs a command counts are CPUs the guest can have.
LEMMA CpuBelow == ASSUME NEW n \in 0..MaxCpus PROVE \A c \in 0..(n - 1) : c \in Cpus
BY CpuAssumption, WordAssumption DEF Cpus

\* get_cpu_num counts no more CPUs than the guest can have.
LEMMA CpuNumType == ASSUME mask \in SUBSET Cpus PROVE get_cpu_num \in 0..MaxCpus
<1>1. CASE mask = {}
  BY <1>1, CpuAssumption DEF get_cpu_num
<1>2. CASE mask # {}
  <2>1. Max(mask) \in Cpus
    BY <1>2, Highest
  <2>2. Max(mask) + 1 \in 0..MaxCpus
    BY <2>1, CpuAssumption DEF Cpus
  <2> QED
    BY <1>2, <2>2 DEF get_cpu_num
<1> QED
  BY <1>1, <1>2

\* With a CPU more in the mask it counts no fewer.
LEMMA CpuNumGrows ==
  ASSUME mask \in SUBSET Cpus, NEW c \in Cpus, mask' = mask \cup {c}
  PROVE  get_cpu_num <= get_cpu_num'
<1>0. \A d \in Cpus : d \in Nat
  BY CpuAssumption DEF Cpus
<1>1. mask' \in SUBSET Cpus /\ mask' # {}
  OBVIOUS
<1>2. Max(mask') \in mask' /\ \A d \in mask' : Max(mask') >= d
  BY <1>1, Highest
<1>3. Max(mask') \in Nat /\ get_cpu_num' = Max(mask') + 1
  BY <1>0, <1>1, <1>2 DEF get_cpu_num
<1>4. CASE mask = {}
  BY <1>3, <1>4 DEF get_cpu_num
<1>5. CASE mask # {}
  <2>1. Max(mask) \in mask
    BY <1>5, Highest
  <2>2. Max(mask) \in Nat /\ Max(mask') >= Max(mask)
    BY <1>0, <1>2, <2>1
  <2>3. get_cpu_num = Max(mask) + 1
    BY <1>5 DEF get_cpu_num
  <2> QED
    BY <1>3, <2>2, <2>3
<1> QED
  BY <1>4, <1>5

\* The inductive invariant: the mask only grows, so that comp_cpu_usage counts no
\* fewer CPUs than its caller did; and where it counts more it does not return.
RowsInv ==
  /\ mask \in SUBSET Cpus
  /\ tpc \notin {"none", "failed", "rows"} => rows \in Int /\ rows <= get_cpu_num
  /\ tpc \notin {"none", "failed", "rows", "num"} => num \in Int /\ rows <= num
  /\ tpc = "print" => num = rows

\* The invariant holds before the first command.
LEMMA RowsInit == CpuInit => RowsInv
BY DEF CpuInit, RowsInv

\* Every step of the guest and of the thread keeps it.
LEMMA RowsNext == RowsInv /\ [CpuNext]_cpuVars => RowsInv'
<1> SUFFICES ASSUME RowsInv, [CpuNext]_cpuVars PROVE RowsInv'
  OBVIOUS
<1>0. get_cpu_num \in Int /\ (mask' = mask => get_cpu_num' = get_cpu_num)
  <2>1. get_cpu_num \in 0..MaxCpus
    BY CpuNumType DEF RowsInv
  <2> QED
    BY <2>1, CpuAssumption DEF get_cpu_num
<1>2. CASE SetPossible
  <2>1. PICK c \in Cpus \ mask : mask' = mask \cup {c}
    BY <1>2 DEF SetPossible
  <2>2. mask' \in SUBSET Cpus /\ get_cpu_num <= get_cpu_num'
    BY <2>1, CpuNumGrows DEF RowsInv
  <2>3. get_cpu_num' \in Int
    <3>1. (mask \in SUBSET Cpus => get_cpu_num \in 0..MaxCpus)'
      BY CpuNumType, PTL
    <3> QED
      BY <2>2, <3>1, CpuAssumption
  <2>4. tpc' = tpc /\ rows' = rows /\ num' = num
    BY <1>2 DEF SetPossible
  <2> QED
    BY <1>0, <2>2, <2>3, <2>4 DEF RowsInv
<1>3. CASE Tick \/ LoadCounter \/ Overrun \/ UNCHANGED cpuVars
  <2>1. mask' = mask /\ tpc' = tpc /\ rows' = rows /\ num' = num
    <3>1. CASE Tick
      BY <3>1 DEF Tick
    <3>2. CASE LoadCounter
      BY <3>2 DEF LoadCounter, LoadFrom, guestCpu
    <3>3. CASE Overrun \/ UNCHANGED cpuVars
      BY <3>3 DEF Overrun, cpuVars, guestCpu
    <3> QED
      BY <1>3, <3>1, <3>2, <3>3
  <2> QED
    BY <1>0, <2>1 DEF RowsInv
<1>4. CASE cpu_usage_handle
  BY <1>4 DEF cpu_usage_handle, guestCpu, RowsInv
<1>5. CASE SizeStat
  BY <1>0, <1>5 DEF SizeStat, guestCpu, RowsInv
<1>6. CASE CountCpus
  BY <1>0, <1>6 DEF CountCpus, guestCpu, RowsInv
<1>7. CASE EndSample
  BY <1>0, <1>7 DEF EndSample, guestCpu, RowsInv
<1>8. CASE Wake
  BY <1>0, <1>8 DEF Wake, guestCpu, RowsInv
<1>9. CASE Compute
  <2>1. /\ mask' = mask /\ rows' = rows /\ num' = num /\ tpc = "comp"
        /\ tpc' = IF num > rows THEN "overrun" ELSE "print"
    BY <1>9 DEF Compute, guestCpu
  <2> QED
    BY <1>0, <2>1 DEF RowsInv
<1>10. CASE PrintUsage
  BY <1>10 DEF PrintUsage, guestCpu, RowsInv
<1> QED
  BY <1>2, <1>3, <1>4, <1>5, <1>6, <1>7, <1>8, <1>9, <1>10 DEF CpuNext

-----------------------------------------------------------------------------
(* Sums over CPUs.                                                         *)

\* From here on most leaves are arithmetic.
USE ZenonT(5), SMTT(20)

\* Sums of natural numbers grow with what is summed.
LEMMA SumLe ==
  ASSUME NEW N \in Nat, NEW f, NEW g,
         \A j \in 0..(N - 1) : f[j] \in Nat /\ g[j] \in Nat /\ f[j] <= g[j]
  PROVE  \A n \in 0..N : /\ SumBelow(f)[n] \in Nat /\ SumBelow(g)[n] \in Nat
                         /\ SumBelow(f)[n] <= SumBelow(g)[n]
<1> DEFINE P(n) == /\ SumBelow(f)[n] \in Nat /\ SumBelow(g)[n] \in Nat
                   /\ SumBelow(f)[n] <= SumBelow(g)[n]
           S == {n \in Nat : n <= N => P(n)}
<1>1. 0 \in S
  <2>1. SumBelow(f)[0] = 0 /\ SumBelow(g)[0] = 0
    BY SumIs
  <2> QED
    BY SMTT(30), <2>1
<1>2. ASSUME NEW n \in Nat, n \in S PROVE n + 1 \in S
  <2> SUFFICES ASSUME n + 1 <= N PROVE P(n + 1)
    BY SMTT(30)
  <2>1. n \in 0..(N - 1) /\ n <= N
    BY SMTT(30)
  <2>2. P(n) /\ f[n] \in Nat /\ g[n] \in Nat /\ f[n] <= g[n]
    BY <1>2, <2>1
  <2>3. SumBelow(f)[n + 1] = SumBelow(f)[n] + f[n] /\ SumBelow(g)[n + 1] = SumBelow(g)[n] + g[n]
    BY SumIs
  <2> QED
    BY SMTT(30), <2>2, <2>3
<1> HIDE DEF S, P
<1>3. \A n \in Nat : n \in S
  BY <1>1, <1>2, Induct
<1>4. \A n \in 0..N : n \in Nat /\ n <= N
  OBVIOUS
<1>5. \A n \in 0..N : P(n)
  BY <1>3, <1>4 DEF S
<1> QED
  BY <1>5 DEF P

\* A part of a sum of natural numbers is at most the whole.
LEMMA SumPart ==
  ASSUME NEW N \in Nat, NEW f, \A j \in 0..(N - 1) : f[j] \in Nat
  PROVE  /\ SumBelow(f)[N] \in Nat
         /\ \A n \in 0..N : SumBelow(f)[n] <= SumBelow(f)[N]
         /\ \A j \in 0..(N - 1) : f[j] <= SumBelow(f)[N]
<1>1. \A n \in 0..N : SumBelow(f)[n] \in Nat
  <2>1. \A j \in 0..(N - 1) : f[j] \in Nat /\ f[j] <= f[j]
    OBVIOUS
  <2> QED
    BY <2>1, SumLe
<1> DEFINE S == {m \in Nat : m <= N => SumBelow(f)[N - m] <= SumBelow(f)[N]}
<1>2. N \in 0..N /\ N - 0 = N
  OBVIOUS
<1>3. 0 \in S
  BY SMTT(30), <1>1, <1>2
<1>4. ASSUME NEW m \in Nat, m \in S PROVE m + 1 \in S
  <2> SUFFICES ASSUME m + 1 <= N PROVE SumBelow(f)[N - (m + 1)] <= SumBelow(f)[N]
    BY SMTT(30)
  <2> DEFINE n == N - (m + 1)
  <2>1. /\ n \in Nat /\ n \in 0..N /\ n \in 0..(N - 1)
        /\ n + 1 = N - m /\ n + 1 \in 0..N /\ m <= N
    BY SMTT(30)
  <2> HIDE DEF n
  <2>2. SumBelow(f)[n + 1] = SumBelow(f)[n] + f[n]
    BY <2>1, SumIs
  <2>3. SumBelow(f)[n] \in Nat /\ f[n] \in Nat /\ SumBelow(f)[N] \in Nat
    BY <1>1, <1>2, <2>1
  <2>4. SumBelow(f)[n + 1] <= SumBelow(f)[N]
    BY <1>4, <2>1
  <2>5. SumBelow(f)[n] <= SumBelow(f)[N]
    BY SMTT(30), <2>2, <2>3, <2>4
  <2> QED
    BY <2>5 DEF n
<1> HIDE DEF S
<1>5. \A m \in Nat : m \in S
  BY <1>3, <1>4, Induct
<1>6. ASSUME NEW n \in 0..N PROVE SumBelow(f)[n] <= SumBelow(f)[N]
  <2>1. N - n \in Nat /\ N - n <= N /\ N - (N - n) = n
    OBVIOUS
  <2>2. SumBelow(f)[N - (N - n)] <= SumBelow(f)[N]
    BY <1>5, <2>1 DEF S
  <2> QED
    BY <2>1, <2>2
<1>7. ASSUME NEW j \in 0..(N - 1) PROVE f[j] <= SumBelow(f)[N]
  <2>1. j \in Nat /\ j \in 0..N /\ j + 1 \in 0..N
    BY SMTT(30)
  <2>2. SumBelow(f)[j + 1] = SumBelow(f)[j] + f[j]
    BY <2>1, SumIs
  <2>3. SumBelow(f)[j] \in Nat /\ f[j] \in Nat /\ SumBelow(f)[N] \in Nat
    BY <1>1, <1>2, <2>1
  <2>4. SumBelow(f)[j + 1] <= SumBelow(f)[N]
    BY <1>6, <2>1
  <2> QED
    BY SMTT(30), <2>2, <2>3, <2>4
<1> QED
  BY <1>1, <1>2, <1>6, <1>7

Alike(N, f, g) == \A j \in 0..(N - 1) : f[j] = g[j]

\* The sum depends on what is summed only.
LEMMA SumSame ==
  ASSUME NEW N \in Nat, NEW f, NEW g, Alike(N, f, g)
  PROVE  \A n \in 0..N : SumBelow(f)[n] = SumBelow(g)[n]
<1> DEFINE S == {n \in Nat : n <= N => SumBelow(f)[n] = SumBelow(g)[n]}
<1>1. 0 \in S
  BY SumIs
<1>2. ASSUME NEW n \in Nat, n \in S PROVE n + 1 \in S
  <2> SUFFICES ASSUME n + 1 <= N PROVE SumBelow(f)[n + 1] = SumBelow(g)[n + 1]
    OBVIOUS
  <2>1. n \in 0..(N - 1) /\ n <= N
    OBVIOUS
  <2>2. SumBelow(f)[n] = SumBelow(g)[n] /\ f[n] = g[n]
    BY <1>2, <2>1 DEF Alike
  <2>3. SumBelow(f)[n + 1] = SumBelow(f)[n] + f[n] /\ SumBelow(g)[n + 1] = SumBelow(g)[n] + g[n]
    BY SumIs
  <2> QED
    BY <2>2, <2>3
<1> HIDE DEF S
<1>3. \A n \in Nat : n \in S
  BY <1>1, <1>2, Induct
<1>4. \A n \in 0..N : n \in Nat /\ n <= N
  OBVIOUS
<1> QED
  BY <1>3, <1>4 DEF S

\* One more in one place is one more in the sum.
LEMMA SumOneMore ==
  ASSUME NEW N \in Nat, NEW f, NEW g, NEW c \in 0..(N - 1),
         \A j \in 0..(N - 1) : f[j] \in Int /\ g[j] = IF j = c THEN f[j] + 1 ELSE f[j]
  PROVE  SumBelow(g)[N] = SumBelow(f)[N] + 1
<1> DEFINE S == {n \in Nat : n <= N => SumBelow(g)[n] = SumBelow(f)[n] + (IF n <= c THEN 0 ELSE 1)}
<1>1. 0 \in S
  <2>1. SumBelow(f)[0] = 0 /\ SumBelow(g)[0] = 0
    BY SumIs
  <2> QED
    BY SMTT(30), <2>1
<1>2. ASSUME NEW n \in Nat, n \in S PROVE n + 1 \in S
  <2> SUFFICES ASSUME n + 1 <= N
               PROVE  SumBelow(g)[n + 1] = SumBelow(f)[n + 1] + (IF n + 1 <= c THEN 0 ELSE 1)
    OBVIOUS
  <2>1. n \in 0..(N - 1) /\ n <= N /\ n \in 0..N
    BY SMTT(30)
  <2>2. /\ SumBelow(g)[n] = SumBelow(f)[n] + (IF n <= c THEN 0 ELSE 1)
        /\ f[n] \in Int /\ g[n] = IF n = c THEN f[n] + 1 ELSE f[n]
    BY <1>2, <2>1
  <2>3. SumBelow(f)[n + 1] = SumBelow(f)[n] + f[n] /\ SumBelow(g)[n + 1] = SumBelow(g)[n] + g[n]
    BY SumIs
  <2>4. SumBelow(f)[n] \in Int
    BY <2>1, SumInt
  <2> QED
    BY SMTT(30), <2>2, <2>3, <2>4
<1> HIDE DEF S
<1>3. \A n \in Nat : n \in S
  BY <1>1, <1>2, Induct
<1>4. N <= N /\ ~(N <= c)
  OBVIOUS
<1> QED
  BY <1>3, <1>4 DEF S

\* The sum of nothing is nothing.
LEMMA SumZero ==
  ASSUME NEW N \in Nat, NEW f, \A j \in 0..(N - 1) : f[j] = 0
  PROVE  SumBelow(f)[N] = 0
<1> DEFINE S == {n \in Nat : n <= N => SumBelow(f)[n] = 0}
<1>1. 0 \in S
  BY SumIs
<1>2. ASSUME NEW n \in Nat, n \in S PROVE n + 1 \in S
  <2> SUFFICES ASSUME n + 1 <= N PROVE SumBelow(f)[n + 1] = 0
    OBVIOUS
  <2>1. n \in 0..(N - 1) /\ n <= N
    OBVIOUS
  <2>2. SumBelow(f)[n] = 0 /\ f[n] = 0
    BY <1>2, <2>1
  <2>3. SumBelow(f)[n + 1] = SumBelow(f)[n] + f[n]
    BY SumIs
  <2> QED
    BY SMTT(30), <2>2, <2>3
<1> HIDE DEF S
<1>3. \A n \in Nat : n \in S
  BY <1>1, <1>2, Induct
<1>4. N <= N
  BY SMTT(30)
<1> QED
  BY <1>3, <1>4 DEF S

-----------------------------------------------------------------------------
(* Ticks and the counters that show them.                                  *)

\* What a counter shows after s ticks.
Shown(s) == (Word - 1 + s) % Word

\* The difference of two loads is the number of ticks in between.
LEMMA LoadsDiffer ==
  ASSUME NEW x \in Nat, NEW y \in Nat, x <= y, y < Word
  PROVE  /\ Shown(x) \in 0..(Word - 1) /\ Shown(y) \in 0..(Word - 1)
         /\ Minus(Shown(y), Shown(x)) = y - x
<1> DEFINE a == Word - 1 + x
           b == Word - 1 + y
<1>1. a \in Int /\ b \in Int /\ b - a = y - x /\ y - x \in 0..(Word - 1) /\ y - x \in Int
  BY SMTT(30), WordType
<1>2. \A z \in 0..(Word - 1) : z \in Int
  BY SMTT(30), WordType
<1> HIDE DEF a, b
<1> DEFINE u == a % Word
           v == b % Word
<1>3. u \in 0..(Word - 1) /\ Cong(u, a) /\ v \in 0..(Word - 1) /\ Cong(v, b)
  BY <1>1, CongMod
<1> HIDE DEF u, v
<1>4. u \in Int /\ v \in Int /\ v - u \in Int
  <2>1. u \in Int /\ v \in Int
    BY <1>2, <1>3
  <2> QED
    BY SMTT(30), <2>1
<1>5. Cong(v - u, b - a)
  BY <1>1, <1>3, <1>4, CongSub
<1>6. Cong(v - u, y - x)
  BY <1>1, <1>5
<1>7. (v - u) % Word = y - x
  BY <1>1, <1>4, <1>6, ModFit
<1>8. u = Shown(x) /\ v = Shown(y)
  BY DEF Shown, u, v, a, b
<1> QED
  BY <1>3, <1>7, <1>8 DEF Minus

\* Sums of differences.
LEMMA SumDiff ==
  ASSUME NEW N \in Nat, NEW f, NEW g, NEW h,
         \A j \in 0..(N - 1) : /\ f[j] \in Int /\ g[j] \in Int /\ h[j] \in Int
                               /\ Cong(h[j], g[j] - f[j])
  PROVE  \A n \in 0..N : Cong(SumBelow(h)[n], SumBelow(g)[n] - SumBelow(f)[n])
<1> DEFINE S == {n \in Nat : n <= N => Cong(SumBelow(h)[n], SumBelow(g)[n] - SumBelow(f)[n])}
<1>1. 0 \in S
  <2>1. SumBelow(f)[0] = 0 /\ SumBelow(g)[0] = 0 /\ SumBelow(h)[0] = 0
    BY SumIs
  <2>2. Cong(0, 0) /\ 0 - 0 = 0
    BY SMTT(30), CongEquiv
  <2> QED
    BY <2>1, <2>2
<1>2. ASSUME NEW n \in Nat, n \in S PROVE n + 1 \in S
  <2> SUFFICES ASSUME n + 1 <= N
               PROVE  Cong(SumBelow(h)[n + 1], SumBelow(g)[n + 1] - SumBelow(f)[n + 1])
    OBVIOUS
  <2>1. n \in 0..(N - 1) /\ n <= N /\ n \in 0..N
    BY SMTT(30)
  <2> DEFINE a == SumBelow(f)[n]
             b == SumBelow(g)[n]
             d == SumBelow(h)[n]
  <2>2. Cong(d, b - a) /\ Cong(h[n], g[n] - f[n])
    BY <1>2, <2>1
  <2>3. a \in Int /\ b \in Int /\ d \in Int
    BY <2>1, SumInt
  <2>4. f[n] \in Int /\ g[n] \in Int /\ h[n] \in Int
    BY <2>1
  <2>5. /\ SumBelow(f)[n + 1] = a + f[n] /\ SumBelow(g)[n + 1] = b + g[n]
        /\ SumBelow(h)[n + 1] = d + h[n]
    BY SumIs
  <2> HIDE DEF a, b, d
  <2>6. /\ b - a \in Int /\ g[n] - f[n] \in Int
        /\ (b + g[n]) - (a + f[n]) = (b - a) + (g[n] - f[n])
    BY SMTT(30), <2>3, <2>4
  <2>7. Cong(d + h[n], (b - a) + (g[n] - f[n]))
    BY <2>2, <2>3, <2>4, <2>6, CongSub
  <2> QED
    BY <2>5, <2>6, <2>7
<1> HIDE DEF S
<1>3. \A n \in Nat : n \in S
  BY <1>1, <1>2, Induct
<1>4. \A n \in 0..N : n \in Nat /\ n <= N
  BY SMTT(30)
<1> QED
  BY <1>3, <1>4 DEF S

\* The counters that get_cpustat loads.
LEMMA KindsAre ==
  Kinds = {"USER", "NICE", "SYSTEM", "IDLE", "IOWAIT", "IRQ", "SOFTIRQ", "STEAL"}
<1>1. 1..8 = {1, 2, 3, 4, 5, 6, 7, 8}
  OBVIOUS
<1>2. /\ Stats[1] = "USER" /\ Stats[2] = "NICE" /\ Stats[3] = "SYSTEM" /\ Stats[4] = "IDLE"
      /\ Stats[5] = "IOWAIT" /\ Stats[6] = "IRQ" /\ Stats[7] = "SOFTIRQ" /\ Stats[8] = "STEAL"
  BY DEF Stats
<1>3. Kinds = {Stats[n] : n \in {1, 2, 3, 4, 5, 6, 7, 8}}
  BY <1>1 DEF Kinds
<1> QED
  BY ZenonT(30), <1>2, <1>3

\* The total of a difference is the difference of the totals.
LEMMA TotalDiff ==
  ASSUME NEW r, NEW s, NEW d,
         \A k \in Kinds : /\ r[k] \in Int /\ s[k] \in Int /\ d[k] \in Int
                          /\ Cong(d[k], s[k] - r[k])
  PROVE  Cong(Total(d), Total(s) - Total(r))
<1>1. PICK q \in [Kinds -> Int] : \A k \in Kinds : d[k] = s[k] - r[k] + q[k] * Word
  <2> DEFINE Q(k) == CHOOSE m \in Int : d[k] = s[k] - r[k] + m * Word
  <2>1. \A k \in Kinds : Q(k) \in Int /\ d[k] = s[k] - r[k] + Q(k) * Word
    BY DEF Cong
  <2> HIDE DEF Q
  <2> DEFINE p == [k \in Kinds |-> Q(k)]
  <2>2. p \in [Kinds -> Int] /\ \A k \in Kinds : d[k] = s[k] - r[k] + p[k] * Word
    BY <2>1
  <2> QED
    BY <2>2
<1> DEFINE e == [k \in Kinds |-> q[k] * Word]
<1>2. \A k \in Kinds : e[k] \in Int /\ e[k] = q[k] * Word
  <2>1. \A k \in Kinds : q[k] \in Int
    OBVIOUS
  <2>2. \A m \in Int : m * Word \in Int
    BY SMTT(30), WordType
  <2> QED
    BY <2>1, <2>2
<1>3. \A k \in Kinds : d[k] = s[k] - r[k] + e[k]
  BY <1>1
<1> HIDE DEF e
<1>4. Total(d) = Total(s) - Total(r) + Total(e)
  <2>1. /\ d["USER"] \in Int /\ d["NICE"] \in Int /\ d["SYSTEM"] \in Int
        /\ d["IDLE"] \in Int /\ d["IOWAIT"] \in Int /\ d["IRQ"] \in Int
        /\ d["SOFTIRQ"] \in Int /\ d["STEAL"] \in Int
        /\ s["USER"] \in Int /\ s["NICE"] \in Int /\ s["SYSTEM"] \in Int
        /\ s["IDLE"] \in Int /\ s["IOWAIT"] \in Int /\ s["IRQ"] \in Int
        /\ s["SOFTIRQ"] \in Int /\ s["STEAL"] \in Int
        /\ r["USER"] \in Int /\ r["NICE"] \in Int /\ r["SYSTEM"] \in Int
        /\ r["IDLE"] \in Int /\ r["IOWAIT"] \in Int /\ r["IRQ"] \in Int
        /\ r["SOFTIRQ"] \in Int /\ r["STEAL"] \in Int
        /\ e["USER"] \in Int /\ e["NICE"] \in Int /\ e["SYSTEM"] \in Int
        /\ e["IDLE"] \in Int /\ e["IOWAIT"] \in Int /\ e["IRQ"] \in Int
        /\ e["SOFTIRQ"] \in Int /\ e["STEAL"] \in Int
    BY <1>2, KindsAre
  <2>2. /\ d["USER"] = s["USER"] - r["USER"] + e["USER"]
        /\ d["NICE"] = s["NICE"] - r["NICE"] + e["NICE"]
        /\ d["SYSTEM"] = s["SYSTEM"] - r["SYSTEM"] + e["SYSTEM"]
        /\ d["IDLE"] = s["IDLE"] - r["IDLE"] + e["IDLE"]
        /\ d["IOWAIT"] = s["IOWAIT"] - r["IOWAIT"] + e["IOWAIT"]
        /\ d["IRQ"] = s["IRQ"] - r["IRQ"] + e["IRQ"]
        /\ d["SOFTIRQ"] = s["SOFTIRQ"] - r["SOFTIRQ"] + e["SOFTIRQ"]
        /\ d["STEAL"] = s["STEAL"] - r["STEAL"] + e["STEAL"]
    BY <1>3, KindsAre
  <2> DEFINE A(x) == x["USER"] + x["NICE"] + x["SYSTEM"] + x["IDLE"]
             B(x) == x["IOWAIT"] + x["IRQ"] + x["SOFTIRQ"] + x["STEAL"]
  <2>3. A(d) = A(s) - A(r) + A(e)
    BY SMTT(30), <2>1, <2>2
  <2>4. B(d) = B(s) - B(r) + B(e)
    BY SMTT(30), <2>1, <2>2
  <2>5. /\ A(d) \in Int /\ A(s) \in Int /\ A(r) \in Int /\ A(e) \in Int
        /\ B(d) \in Int /\ B(s) \in Int /\ B(r) \in Int /\ B(e) \in Int
    BY SMTT(30), <2>1
  <2>6. /\ Total(d) = A(d) + B(d) /\ Total(s) = A(s) + B(s)
        /\ Total(r) = A(r) + B(r) /\ Total(e) = A(e) + B(e)
    BY SMTT(30), <2>1 DEF Total
  <2> HIDE DEF A, B
  <2> QED
    BY SMTT(30), <2>3, <2>4, <2>5, <2>6
<1>5. Total(q) * Word = Total(e) /\ Total(q) \in Int
  <2>1. /\ q["USER"] \in Int /\ q["NICE"] \in Int /\ q["SYSTEM"] \in Int /\ q["IDLE"] \in Int
        /\ q["IOWAIT"] \in Int /\ q["IRQ"] \in Int /\ q["SOFTIRQ"] \in Int
        /\ q["STEAL"] \in Int
    BY KindsAre
  <2>2. /\ e["USER"] = q["USER"] * Word /\ e["NICE"] = q["NICE"] * Word
        /\ e["SYSTEM"] = q["SYSTEM"] * Word /\ e["IDLE"] = q["IDLE"] * Word
        /\ e["IOWAIT"] = q["IOWAIT"] * Word /\ e["IRQ"] = q["IRQ"] * Word
        /\ e["SOFTIRQ"] = q["SOFTIRQ"] * Word /\ e["STEAL"] = q["STEAL"] * Word
    BY <1>2, KindsAre
  <2> DEFINE A == q["USER"] + q["NICE"] + q["SYSTEM"] + q["IDLE"]
             B == q["IOWAIT"] + q["IRQ"] + q["SOFTIRQ"] + q["STEAL"]
  <2>3. /\ A * Word = q["USER"] * Word + q["NICE"] * Word + q["SYSTEM"] * Word
                        + q["IDLE"] * Word
        /\ B * Word = q["IOWAIT"] * Word + q["IRQ"] * Word + q["SOFTIRQ"] * Word
                        + q["STEAL"] * Word
    BY SMTT(30), <2>1, WordType
  <2>4. A * Word = e["USER"] + e["NICE"] + e["SYSTEM"] + e["IDLE"]
    BY <2>2, <2>3, Zenon
  <2>5. B * Word = e["IOWAIT"] + e["IRQ"] + e["SOFTIRQ"] + e["STEAL"]
    BY <2>2, <2>3, Zenon
  <2>6. A \in Int /\ B \in Int /\ Total(q) = A + B
    BY SMTT(30), <2>1 DEF Total
  <2>7. \A k \in Kinds : e[k] \in Int
    BY <1>2
  <2>8. Total(e) = (e["USER"] + e["NICE"] + e["SYSTEM"] + e["IDLE"])
                      + (e["IOWAIT"] + e["IRQ"] + e["SOFTIRQ"] + e["STEAL"])
    BY SMTT(30), <2>7, KindsAre DEF Total
  <2> HIDE DEF A, B
  <2>9. (A + B) * Word = A * Word + B * Word
    BY SMTT(30), <2>6, WordType
  <2> QED
    BY SMTT(30), <2>4, <2>5, <2>6, <2>8, <2>9
<1> QED
  BY <1>4, <1>5 DEF Cong

\* t holds the totals of the rows of R, and C its columns.
Columns(N, R, t, C) ==
  /\ \A j \in 0..(N - 1) : t[j] = Total(R[j]) /\ \A k \in Kinds : R[j][k] \in Int
  /\ \A k \in Kinds : \A j \in 0..(N - 1) : C[k][j] = R[j][k]

\* The sum of the totals is the total of the sums.
LEMMA SumTotal ==
  ASSUME NEW N \in Nat, NEW R, NEW t, NEW C,
         Columns(N, R, t, C)
  PROVE  \A n \in 0..N : SumBelow(t)[n] = Total([k \in Kinds |-> SumBelow(C[k])[n]])
<1> DEFINE Z(n) == [k \in Kinds |-> SumBelow(C[k])[n]]
           S == {n \in Nat : n <= N => SumBelow(t)[n] = Total(Z(n))}
<1>1. 0 \in S
  <2>1. SumBelow(t)[0] = 0 /\ \A k \in Kinds : Z(0)[k] = 0
    BY SumIs
  <2> HIDE DEF Z
  <2>2. Total(Z(0)) = 0
    BY SMTT(30), <2>1, KindsAre DEF Total
  <2> QED
    BY <2>1, <2>2
<1>2. ASSUME NEW n \in Nat, n \in S PROVE n + 1 \in S
  <2> SUFFICES ASSUME n + 1 <= N PROVE SumBelow(t)[n + 1] = Total(Z(n + 1))
    BY SMTT(30)
  <2>1. n \in 0..(N - 1) /\ n <= N /\ n \in 0..N
    BY SMTT(30)
  <2>2. SumBelow(t)[n + 1] = Total(Z(n)) + Total(R[n])
    <3>1. SumBelow(t)[n] = Total(Z(n)) /\ t[n] = Total(R[n])
      BY <1>2, <2>1 DEF Columns
    <3> QED
      BY <3>1, SumIs
  <2>3. ASSUME NEW k \in Kinds
        PROVE  Z(n)[k] \in Int /\ R[n][k] \in Int /\ Z(n + 1)[k] = Z(n)[k] + R[n][k]
    <3>1. \A j \in 0..(N - 1) : C[k][j] = R[j][k] /\ C[k][j] \in Int
      BY DEF Columns
    <3>2. SumBelow(C[k])[n] \in Int /\ SumBelow(C[k])[n + 1] = SumBelow(C[k])[n] + C[k][n]
      BY <2>1, <3>1, SumInt, SumIs
    <3> QED
      BY <2>1, <3>1, <3>2
  <2> HIDE DEF Z
  <2>4. Total(Z(n + 1)) = Total(Z(n)) + Total(R[n])
    BY SMTT(30), <2>3, KindsAre DEF Total
  <2> QED
    BY <2>2, <2>4
<1> HIDE DEF S
<1>3. \A n \in Nat : n \in S
  BY ZenonT(30), <1>1, <1>2, Induct
<1>4. \A n \in 0..N : n \in Nat /\ n <= N
  OBVIOUS
<1> QED
  BY <1>3, <1>4 DEF S

\* ... in particular to the end.
LEMMA SumTotalAll ==
  ASSUME NEW N \in Nat, NEW R, NEW t, NEW C, Columns(N, R, t, C)
  PROVE  SumBelow(t)[N] = Total([k \in Kinds |-> SumBelow(C[k])[N]])
<1>1. N \in 0..N
  OBVIOUS
<1> QED
  BY SMTT(30), <1>1, SumTotal

\* Totals are numbers.
LEMMA TotalInt == ASSUME NEW r, \A k \in Kinds : r[k] \in Int PROVE Total(r) \in Int
<1>1. /\ r["USER"] \in Int /\ r["NICE"] \in Int /\ r["SYSTEM"] \in Int /\ r["IDLE"] \in Int
      /\ r["IOWAIT"] \in Int /\ r["IRQ"] \in Int /\ r["SOFTIRQ"] \in Int /\ r["STEAL"] \in Int
  BY KindsAre
<1> QED
  BY <1>1 DEF Total

\* A counter that ticks is one more in the total.
LEMMA TotalOneMore ==
  ASSUME NEW r, NEW s, NEW k \in Kinds, \A l \in Kinds : r[l] \in Nat,
         s[k] = r[k] + 1, \A l \in Kinds : l # k => s[l] = r[l]
  PROVE  Total(s) = Total(r) + 1
<1>1. /\ r["USER"] \in Nat /\ r["NICE"] \in Nat /\ r["SYSTEM"] \in Nat /\ r["IDLE"] \in Nat
      /\ r["IOWAIT"] \in Nat /\ r["IRQ"] \in Nat /\ r["SOFTIRQ"] \in Nat /\ r["STEAL"] \in Nat
  BY KindsAre
<1>2. CASE k = "USER"
  <2>1. /\ s["USER"] = r["USER"] + 1
        /\ s["NICE"] = r["NICE"] /\ s["SYSTEM"] = r["SYSTEM"] /\ s["IDLE"] = r["IDLE"]
        /\ s["IOWAIT"] = r["IOWAIT"] /\ s["IRQ"] = r["IRQ"]
        /\ s["SOFTIRQ"] = r["SOFTIRQ"] /\ s["STEAL"] = r["STEAL"]
    BY <1>2, KindsAre
  <2> QED
    BY SMTT(30), <1>1, <2>1 DEF Total
<1>3. CASE k = "NICE"
  <2>1. /\ s["NICE"] = r["NICE"] + 1
        /\ s["USER"] = r["USER"] /\ s["SYSTEM"] = r["SYSTEM"] /\ s["IDLE"] = r["IDLE"]
        /\ s["IOWAIT"] = r["IOWAIT"] /\ s["IRQ"] = r["IRQ"]
        /\ s["SOFTIRQ"] = r["SOFTIRQ"] /\ s["STEAL"] = r["STEAL"]
    BY <1>3, KindsAre
  <2> QED
    BY SMTT(30), <1>1, <2>1 DEF Total
<1>4. CASE k = "SYSTEM"
  <2>1. /\ s["SYSTEM"] = r["SYSTEM"] + 1
        /\ s["USER"] = r["USER"] /\ s["NICE"] = r["NICE"] /\ s["IDLE"] = r["IDLE"]
        /\ s["IOWAIT"] = r["IOWAIT"] /\ s["IRQ"] = r["IRQ"]
        /\ s["SOFTIRQ"] = r["SOFTIRQ"] /\ s["STEAL"] = r["STEAL"]
    BY <1>4, KindsAre
  <2> QED
    BY SMTT(30), <1>1, <2>1 DEF Total
<1>5. CASE k = "IDLE"
  <2>1. /\ s["IDLE"] = r["IDLE"] + 1
        /\ s["USER"] = r["USER"] /\ s["NICE"] = r["NICE"] /\ s["SYSTEM"] = r["SYSTEM"]
        /\ s["IOWAIT"] = r["IOWAIT"] /\ s["IRQ"] = r["IRQ"]
        /\ s["SOFTIRQ"] = r["SOFTIRQ"] /\ s["STEAL"] = r["STEAL"]
    BY <1>5, KindsAre
  <2> QED
    BY SMTT(30), <1>1, <2>1 DEF Total
<1>6. CASE k = "IOWAIT"
  <2>1. /\ s["IOWAIT"] = r["IOWAIT"] + 1
        /\ s["USER"] = r["USER"] /\ s["NICE"] = r["NICE"] /\ s["SYSTEM"] = r["SYSTEM"]
        /\ s["IDLE"] = r["IDLE"] /\ s["IRQ"] = r["IRQ"]
        /\ s["SOFTIRQ"] = r["SOFTIRQ"] /\ s["STEAL"] = r["STEAL"]
    BY <1>6, KindsAre
  <2> QED
    BY SMTT(30), <1>1, <2>1 DEF Total
<1>7. CASE k = "IRQ"
  <2>1. /\ s["IRQ"] = r["IRQ"] + 1
        /\ s["USER"] = r["USER"] /\ s["NICE"] = r["NICE"] /\ s["SYSTEM"] = r["SYSTEM"]
        /\ s["IDLE"] = r["IDLE"] /\ s["IOWAIT"] = r["IOWAIT"]
        /\ s["SOFTIRQ"] = r["SOFTIRQ"] /\ s["STEAL"] = r["STEAL"]
    BY <1>7, KindsAre
  <2> QED
    BY SMTT(30), <1>1, <2>1 DEF Total
<1>8. CASE k = "SOFTIRQ"
  <2>1. /\ s["SOFTIRQ"] = r["SOFTIRQ"] + 1
        /\ s["USER"] = r["USER"] /\ s["NICE"] = r["NICE"] /\ s["SYSTEM"] = r["SYSTEM"]
        /\ s["IDLE"] = r["IDLE"] /\ s["IOWAIT"] = r["IOWAIT"]
        /\ s["IRQ"] = r["IRQ"] /\ s["STEAL"] = r["STEAL"]
    BY <1>8, KindsAre
  <2> QED
    BY SMTT(30), <1>1, <2>1 DEF Total
<1>9. CASE k = "STEAL"
  <2>1. /\ s["STEAL"] = r["STEAL"] + 1
        /\ s["USER"] = r["USER"] /\ s["NICE"] = r["NICE"] /\ s["SYSTEM"] = r["SYSTEM"]
        /\ s["IDLE"] = r["IDLE"] /\ s["IOWAIT"] = r["IOWAIT"]
        /\ s["IRQ"] = r["IRQ"] /\ s["SOFTIRQ"] = r["SOFTIRQ"]
    BY <1>9, KindsAre
  <2> QED
    BY SMTT(30), <1>1, <2>1 DEF Total
<1> QED
  BY ZenonT(30), <1>2, <1>3, <1>4, <1>5, <1>6, <1>7, <1>8, <1>9, KindsAre

-----------------------------------------------------------------------------
(* Two samples and their difference.                                       *)

Row == [NR_STATS -> 0..(Word - 1)]
Ticks == [Cpus -> [Kinds -> Nat]]
Le(a, b) == \A c \in Cpus, k \in Kinds : a[c][k] <= b[c][k]

\* v is what a counter shows after some number of ticks from lo to hi.
Within(v, lo, hi) == \E s \in lo..hi : v = Shown(s)

\* st is a sample of n CPUs of which the first m are complete: every counter of
\* theirs was loaded when it had ticked lo to hi times, and row n is their sum.
Complete(st, m, lo, hi) ==
  \A c \in 0..(m - 1) :
    /\ \A k \in Kinds : Within(st[c][k], lo[c][k], hi[c][k])
    /\ st[c]["TOTAL"] = Total(st[c]) % Word
SumRow(st, n, m) ==
  \A k \in NR_STATS : Cong(st[n][k], SumBelow([c \in 0..n |-> st[c][k]])[m])
Sampled(st, n, m, lo, hi) == Complete(st, m, lo, hi) /\ SumRow(st, n, m)

\* d is right: its totals add up, its rows are between what ticked from t1 to t2
\* and what ticked from t0 to t3, and row n is their sum.
Right(d, n, t0, t1, t2, t3) ==
  /\ d \in [0..n -> [NR_STATS -> Nat]]
  /\ \A c \in 0..n : d[c]["TOTAL"] = Total(d[c]) /\ d[c]["TOTAL"] < Word
  /\ \A c \in 0..(n - 1), k \in Kinds :
       d[c][k] \in (t2[c][k] - t1[c][k])..(t3[c][k] - t0[c][k])
  /\ \A k \in Kinds : d[n][k] = SumBelow([c \in 0..(n - 1) |-> d[c][k]])[n]

\* Totals of natural numbers.
LEMMA TotalNat ==
  ASSUME NEW r, \A k \in Kinds : r[k] \in Nat
  PROVE  Total(r) \in Nat /\ \A k \in Kinds : r[k] <= Total(r)
<1>1. /\ r["USER"] \in Nat /\ r["NICE"] \in Nat /\ r["SYSTEM"] \in Nat /\ r["IDLE"] \in Nat
      /\ r["IOWAIT"] \in Nat /\ r["IRQ"] \in Nat /\ r["SOFTIRQ"] \in Nat /\ r["STEAL"] \in Nat
  BY KindsAre
<1>2. Total(r) \in Nat
  BY SMTT(30), <1>1 DEF Total
<1>3. /\ r["USER"] <= Total(r) /\ r["NICE"] <= Total(r) /\ r["SYSTEM"] <= Total(r)
      /\ r["IDLE"] <= Total(r) /\ r["IOWAIT"] <= Total(r) /\ r["IRQ"] <= Total(r)
      /\ r["SOFTIRQ"] <= Total(r) /\ r["STEAL"] <= Total(r)
  BY SMTT(30), <1>1 DEF Total
<1> QED
  BY <1>2, <1>3, KindsAre

\* Totals grow with the counters.
LEMMA TotalLe ==
  ASSUME NEW r, NEW s, \A k \in Kinds : r[k] \in Nat /\ s[k] \in Nat /\ r[k] <= s[k]
  PROVE  Total(r) <= Total(s)
<1>1. /\ r["USER"] \in Nat /\ r["NICE"] \in Nat /\ r["SYSTEM"] \in Nat /\ r["IDLE"] \in Nat
      /\ r["IOWAIT"] \in Nat /\ r["IRQ"] \in Nat /\ r["SOFTIRQ"] \in Nat /\ r["STEAL"] \in Nat
  BY KindsAre
<1>2. /\ s["USER"] \in Nat /\ s["NICE"] \in Nat /\ s["SYSTEM"] \in Nat /\ s["IDLE"] \in Nat
      /\ s["IOWAIT"] \in Nat /\ s["IRQ"] \in Nat /\ s["SOFTIRQ"] \in Nat /\ s["STEAL"] \in Nat
  BY KindsAre
<1>3. /\ r["USER"] <= s["USER"] /\ r["NICE"] <= s["NICE"] /\ r["SYSTEM"] <= s["SYSTEM"]
      /\ r["IDLE"] <= s["IDLE"] /\ r["IOWAIT"] <= s["IOWAIT"] /\ r["IRQ"] <= s["IRQ"]
      /\ r["SOFTIRQ"] <= s["SOFTIRQ"] /\ r["STEAL"] <= s["STEAL"]
  BY KindsAre
<1> QED
  BY SMTT(30), <1>1, <1>2, <1>3 DEF Total

\* No counter, no CPU and no group of CPUs has ticked as often as a counter wraps.
LEMMA TicksFit ==
  ASSUME NEW t \in Ticks, SumBelow([c \in Cpus |-> Total(t[c])])[MaxCpus] <= MaxTicks
  PROVE  /\ \A c \in Cpus : /\ Total(t[c]) \in Nat
                            /\ \A k \in Kinds : t[c][k] \in Nat /\ t[c][k] <= Total(t[c])
                            /\ Total(t[c]) < Word
         /\ \A n \in 0..MaxCpus : /\ SumBelow([c \in Cpus |-> Total(t[c])])[n] \in Nat
                                  /\ SumBelow([c \in Cpus |-> Total(t[c])])[n] < Word
<1> DEFINE f == [c \in Cpus |-> Total(t[c])]
<1>1. \A c \in Cpus : \A k \in Kinds : t[c][k] \in Nat
  BY DEF Ticks
<1>2. \A c \in Cpus : Total(t[c]) \in Nat /\ \A k \in Kinds : t[c][k] <= Total(t[c])
  BY <1>1, TotalNat
<1>3. \A c \in 0..(MaxCpus - 1) : f[c] \in Nat /\ f[c] = Total(t[c]) /\ f[c] <= f[c]
  BY SMTT(30), <1>2 DEF Cpus
<1>4. SumBelow(f)[MaxCpus] <= MaxTicks
  OBVIOUS
<1> HIDE DEF f
<1>5. MaxCpus \in Nat /\ MaxTicks \in Nat /\ MaxTicks < Word /\ Word \in Nat
  BY CpuAssumption, WordAssumption
<1>6. /\ SumBelow(f)[MaxCpus] \in Nat
      /\ \A n \in 0..MaxCpus : SumBelow(f)[n] <= SumBelow(f)[MaxCpus]
      /\ \A c \in 0..(MaxCpus - 1) : f[c] <= SumBelow(f)[MaxCpus]
  BY <1>3, <1>5, SumPart
<1>7. \A n \in 0..MaxCpus : SumBelow(f)[n] \in Nat
  BY <1>3, <1>5, SumLe
<1>8. \A c \in Cpus : Total(t[c]) < Word
  BY SMTT(30), <1>2, <1>3, <1>4, <1>5, <1>6 DEF Cpus
<1>9. \A n \in 0..MaxCpus : SumBelow(f)[n] < Word
  BY SMTT(30), <1>4, <1>5, <1>6, <1>7
<1> QED
  BY <1>1, <1>2, <1>7, <1>8, <1>9 DEF f

\* The columns are the counters and their total.
LEMMA StatsAre == NR_STATS = Kinds \cup {"TOTAL"} /\ "TOTAL" \notin Kinds
BY KindsAre DEF NR_STATS

\* comp_cpu_usage gets it right.
LEMMA DiffRight ==
  ASSUME NEW n \in 0..MaxCpus, NEW a \in [0..n -> Row], NEW b \in [0..n -> Row],
         NEW t0 \in Ticks, NEW t1 \in Ticks, NEW t2 \in Ticks, NEW t3 \in Ticks,
         Le(t1, t2), SumBelow([c \in Cpus |-> Total(t3[c])])[MaxCpus] <= MaxTicks,
         Sampled(a, n, n, t0, t1), Sampled(b, n, n, t2, t3)
  PROVE  Right([c \in 0..n |-> [k \in NR_STATS |-> Minus(b[c][k], a[c][k])]],
               n, t0, t1, t2, t3)
<1> DEFINE d == [c \in 0..n |-> [k \in NR_STATS |-> Minus(b[c][k], a[c][k])]]
           all == [c \in Cpus |-> Total(t3[c])]
<1>n. n \in Nat /\ MaxCpus \in Nat /\ n <= MaxCpus
  BY SMTT(30), CpuAssumption, WordAssumption
<1>c. \A c \in 0..(n - 1) : c \in Cpus /\ c \in 0..n
  BY SMTT(30), <1>n DEF Cpus
<1>t. \A c \in Cpus : \A k \in Kinds :
        /\ t0[c][k] \in Nat /\ t1[c][k] \in Nat /\ t2[c][k] \in Nat /\ t3[c][k] \in Nat
        /\ t1[c][k] <= t2[c][k]
  BY ZenonT(30) DEF Ticks, Le
<1>f. /\ \A c \in Cpus : /\ all[c] \in Nat /\ all[c] = Total(t3[c]) /\ all[c] < Word
                         /\ \A k \in Kinds : t3[c][k] <= all[c]
      /\ SumBelow(all)[n] \in Nat /\ SumBelow(all)[n] < Word
  BY TicksFit
<1> HIDE DEF all
<1>w. \A z \in 0..(Word - 1) : z \in Int
  BY SMTT(30), WordType
<1>r. \A c \in 0..n : \A k \in NR_STATS : a[c][k] \in Int /\ b[c][k] \in Int
  BY <1>w DEF Row
<1>1. ASSUME NEW c \in 0..n, NEW k \in NR_STATS
      PROVE  /\ d[c][k] = Minus(b[c][k], a[c][k])
             /\ d[c][k] \in 0..(Word - 1) /\ Cong(d[c][k], b[c][k] - a[c][k])
  <2>1. a[c][k] \in Int /\ b[c][k] \in Int
    BY <1>r
  <2>2. b[c][k] - a[c][k] \in Int
    BY SMTT(30), <2>1
  <2>3. d[c][k] = (b[c][k] - a[c][k]) % Word
    BY DEF Minus
  <2> QED
    BY <2>2, <2>3, CongMod DEF Minus
<1>2. d \in [0..n -> [NR_STATS -> Nat]]
  <2>1. \A z \in 0..(Word - 1) : z \in Nat
    BY SMTT(30), WordType
  <2> QED
    BY <1>1, <2>1
<1>d. d = [c \in 0..n |-> [k \in NR_STATS |-> Minus(b[c][k], a[c][k])]]
  OBVIOUS
<1> HIDE DEF d
<1>3. ASSUME NEW c \in 0..(n - 1), NEW k \in Kinds
      PROVE  /\ d[c][k] \in (t2[c][k] - t1[c][k])..(t3[c][k] - t0[c][k])
             /\ d[c][k] \in Nat /\ d[c][k] <= t3[c][k]
  <2>1. PICK s \in t0[c][k]..t1[c][k] : a[c][k] = Shown(s)
    BY DEF Sampled, Complete, SumRow, Within
  <2>2. PICK r \in t2[c][k]..t3[c][k] : b[c][k] = Shown(r)
    BY DEF Sampled, Complete, SumRow, Within
  <2>3. /\ t0[c][k] \in Nat /\ t1[c][k] \in Nat /\ t2[c][k] \in Nat /\ t3[c][k] \in Nat
        /\ t1[c][k] <= t2[c][k] /\ t3[c][k] < Word
    <3>1. c \in Cpus /\ all[c] \in Nat /\ all[c] < Word /\ t3[c][k] <= all[c]
      BY <1>c, <1>f
    <3>2. t3[c][k] \in Nat
      BY <1>t, <3>1
    <3>3. t3[c][k] < Word
      BY SMTT(30), <3>1, <3>2, WordType
    <3> QED
      BY <1>t, <3>1, <3>3
  <2> DEFINE x0 == t0[c][k]
             x1 == t1[c][k]
             x2 == t2[c][k]
             x3 == t3[c][k]
  <2>4. /\ x0 \in Nat /\ x1 \in Nat /\ x2 \in Nat /\ x3 \in Nat /\ x1 <= x2 /\ x3 < Word
        /\ s \in x0..x1 /\ r \in x2..x3
    BY ZenonT(30), <2>3
  <2> HIDE DEF x0, x1, x2, x3
  <2>5. /\ s \in Nat /\ r \in Nat /\ s <= r /\ r < Word
        /\ r - s \in (x2 - x1)..(x3 - x0) /\ r - s \in Nat /\ r - s <= x3
    BY SMTT(30), <2>4, WordType
  <2>6. Minus(Shown(r), Shown(s)) = r - s
    BY <2>5, LoadsDiffer
  <2>7. d[c][k] = r - s
    <3>1. c \in 0..n /\ k \in NR_STATS
      BY <1>c, StatsAre
    <3> QED
      BY ZenonT(30), <1>1, <2>1, <2>2, <2>6, <3>1
  <2> QED
    BY <2>5, <2>7 DEF x0, x1, x2, x3
<1>4. ASSUME NEW c \in 0..(n - 1)
      PROVE  /\ d[c]["TOTAL"] = Total(d[c]) /\ Total(d[c]) \in Nat /\ Total(d[c]) <= all[c]
             /\ \A k \in Kinds : d[c][k] <= Total(d[c])
  <2>1. c \in Cpus /\ c \in 0..n /\ "TOTAL" \in NR_STATS /\ \A k \in Kinds : k \in NR_STATS
    BY <1>c, StatsAre
  <2>2. \A k \in Kinds : d[c][k] \in Nat /\ t3[c][k] \in Nat /\ d[c][k] <= t3[c][k]
    BY ZenonT(30), <1>3, <1>t, <2>1
  <2>3. Total(d[c]) \in Nat /\ \A k \in Kinds : d[c][k] <= Total(d[c])
    BY <2>2, TotalNat
  <2>4. Total(d[c]) <= Total(t3[c])
    BY <2>2, TotalLe
  <2>5. all[c] = Total(t3[c]) /\ all[c] \in Nat /\ all[c] < Word
    BY <1>f, <2>1
  <2>6. Total(d[c]) \in 0..(Word - 1)
    BY SMTT(30), <2>3, <2>4, <2>5, WordType
  <2>7. \A k \in Kinds : /\ a[c][k] \in Int /\ b[c][k] \in Int /\ d[c][k] \in Int
                         /\ Cong(d[c][k], b[c][k] - a[c][k])
    BY <1>1, <1>r, <1>w, <2>1
  <2>8. Cong(Total(d[c]), Total(b[c]) - Total(a[c]))
    BY <2>7, TotalDiff
  <2> DEFINE A == Total(a[c])
             B == Total(b[c])
             D == Total(d[c])
  <2>9. A \in Int /\ B \in Int
    BY <2>7, TotalInt
  <2>10. a[c]["TOTAL"] = A % Word /\ b[c]["TOTAL"] = B % Word
    BY DEF Sampled, Complete, SumRow
  <2> DEFINE p == A % Word
             q == B % Word
  <2>11. p \in Int /\ q \in Int /\ Cong(p, A) /\ Cong(q, B)
    BY <1>w, <2>9, CongMod
  <2>12. d[c]["TOTAL"] \in 0..(Word - 1) /\ Cong(d[c]["TOTAL"], q - p)
    BY ZenonT(30), <1>1, <2>1, <2>10
  <2>13. D \in 0..(Word - 1) /\ Cong(D, B - A)
    BY <2>6, <2>8
  <2> HIDE DEF A, B, D, p, q
  <2>14. Cong(q - p, B - A)
    BY <2>9, <2>11, CongSub
  <2>15. q - p \in Int /\ B - A \in Int
    BY SMTT(30), <2>9, <2>11
  <2>16. d[c]["TOTAL"] \in Int /\ D \in Int
    BY <1>w, <2>12, <2>13
  <2>17. Cong(d[c]["TOTAL"], B - A)
    BY <2>12, <2>14, <2>15, <2>16, CongEquiv
  <2>18. Cong(B - A, D)
    BY <2>13, <2>15, <2>16, CongEquiv
  <2>19. Cong(d[c]["TOTAL"], D)
    BY <2>15, <2>16, <2>17, <2>18, CongEquiv
  <2>20. d[c]["TOTAL"] = D
    BY ZenonT(30), <2>12, <2>13, <2>19, CongFit
  <2> QED
    BY <2>3, <2>4, <2>5, <2>20 DEF D
<1>5. ASSUME NEW k \in NR_STATS
      PROVE  /\ d[n][k] = SumBelow([c \in 0..(n - 1) |-> d[c][k]])[n]
             /\ d[n][k] \in 0..(Word - 1)
  <2> DEFINE e == [c \in 0..(n - 1) |-> d[c][k]]
             f == [c \in 0..n |-> a[c][k]]
             g == [c \in 0..n |-> b[c][k]]
  <2>0. n \in 0..n
    BY SMTT(30), <1>n
  <2>1. \A c \in 0..(n - 1) : /\ f[c] \in Int /\ g[c] \in Int /\ e[c] \in Int
                              /\ Cong(e[c], g[c] - f[c])
    BY <1>1, <1>r, <1>w, <1>c
  <2>2. \A c \in 0..(n - 1) : e[c] \in Nat /\ all[c] \in Nat /\ e[c] <= all[c]
    <3>1. ASSUME NEW c \in 0..(n - 1) PROVE e[c] \in Nat /\ all[c] \in Nat /\ e[c] <= all[c]
      <4>1. all[c] \in Nat /\ e[c] = d[c][k]
        BY <1>c, <1>f
      <4>2. Total(d[c]) \in Nat /\ Total(d[c]) <= all[c]
        BY <1>4
      <4>3. d[c][k] \in Nat /\ d[c][k] <= Total(d[c])
        <5>1. CASE k \in Kinds
          BY <1>3, <1>4, <5>1
        <5>2. CASE k = "TOTAL"
          <6>1. d[c][k] = Total(d[c])
            BY ZenonT(30), <1>4, <5>2
          <6>2. \A z \in Nat : z <= z
            OBVIOUS
          <6> QED
            BY ZenonT(30), <4>2, <6>1, <6>2
        <5> QED
          BY <5>1, <5>2, StatsAre
      <4> QED
        BY SMTT(30), <4>1, <4>2, <4>3
    <3> QED
      BY <3>1
  <2>3. Cong(a[n][k], SumBelow(f)[n]) /\ Cong(b[n][k], SumBelow(g)[n])
    BY DEF Sampled, Complete, SumRow
  <2>4. d[n][k] \in 0..(Word - 1) /\ Cong(d[n][k], b[n][k] - a[n][k])
    BY <1>1, <2>0
  <2>5. a[n][k] \in Int /\ b[n][k] \in Int /\ d[n][k] \in Int
    BY <1>r, <1>w, <2>0, <2>4
  <2> HIDE DEF e, f, g
  <2> DEFINE E == SumBelow(e)[n]
             F == SumBelow(f)[n]
             G == SumBelow(g)[n]
             x == a[n][k]
             y == b[n][k]
             z == d[n][k]
  <2>6. E \in Nat /\ E <= SumBelow(all)[n]
    BY <1>n, <2>0, <2>2, SumLe
  <2>7. F \in Int /\ G \in Int
    BY <1>n, <2>0, <2>1, SumInt
  <2>8. Cong(E, G - F)
    BY ZenonT(30), <1>n, <2>0, <2>1, SumDiff
  <2>9. E \in 0..(Word - 1) /\ E \in Int
    BY SMTT(30), <1>f, <2>6, WordType
  <2>10. /\ x \in Int /\ y \in Int /\ z \in Int /\ Cong(x, F) /\ Cong(y, G) /\ Cong(z, y - x)
         /\ z \in 0..(Word - 1)
    BY ZenonT(30), <2>3, <2>4, <2>5
  <2> HIDE DEF E, F, G, x, y, z
  <2>11. Cong(y - x, G - F)
    BY <2>7, <2>10, CongSub
  <2>12. y - x \in Int /\ G - F \in Int
    BY SMTT(30), <2>7, <2>10
  <2>13. Cong(z, G - F)
    BY <2>10, <2>11, <2>12, CongEquiv
  <2>14. Cong(G - F, E)
    BY <2>8, <2>9, <2>12, CongEquiv
  <2>15. Cong(z, E)
    BY <2>9, <2>10, <2>12, <2>13, <2>14, CongEquiv
  <2>16. z = E
    BY ZenonT(30), <2>9, <2>10, <2>15, CongFit
  <2> QED
    BY <2>10, <2>16 DEF E, e, z
<1>6. d[n]["TOTAL"] = Total(d[n])
  <2> DEFINE t == [c \in 0..(n - 1) |-> d[c]["TOTAL"]]
             C == [k \in Kinds |-> [c \in 0..(n - 1) |-> d[c][k]]]
             z == [k \in Kinds |-> SumBelow(C[k])[n]]
  <2>1. \A c \in 0..(n - 1) : t[c] = Total(d[c]) /\ \A k \in Kinds : d[c][k] \in Int
    <3>1. \A y \in Nat : y \in Int
      BY SMTT(30)
    <3>2. \A c \in 0..(n - 1) : \A k \in Kinds : d[c][k] \in Int
      BY ZenonT(30), <1>3, <3>1
    <3>3. \A c \in 0..(n - 1) : t[c] = Total(d[c])
      BY ZenonT(30), <1>4
    <3> QED
      BY ZenonT(30), <3>2, <3>3
  <2>2. \A k \in Kinds : \A c \in 0..(n - 1) : C[k][c] = d[c][k]
    OBVIOUS
  <2>3. d[n]["TOTAL"] = SumBelow(t)[n]
    BY <1>5, StatsAre
  <2>4. \A k \in Kinds : z[k] = d[n][k]
    BY <1>5, StatsAre
  <2> HIDE DEF t, C
  <2>c. Columns(n, d, t, C)
    BY <2>1, <2>2 DEF Columns
  <2>5. SumBelow(t)[n] = Total(z)
    BY ZenonT(30), <1>n, <2>c, SumTotalAll
  <2> HIDE DEF z
  <2>6. Total(z) = Total(d[n])
    BY <2>4, KindsAre DEF Total
  <2> QED
    BY <2>3, <2>5, <2>6
<1>7. \A c \in 0..n : d[c]["TOTAL"] = Total(d[c]) /\ d[c]["TOTAL"] < Word
  <2>1. ASSUME NEW c \in 0..n PROVE d[c]["TOTAL"] = Total(d[c])
    <3>1. c \in 0..(n - 1) \/ c = n
      BY SMTT(30), <1>n
    <3> QED
      BY <1>4, <1>6, <3>1
  <2>2. \A c \in 0..n : d[c]["TOTAL"] \in 0..(Word - 1)
    BY <1>1, StatsAre
  <2>3. \A z \in 0..(Word - 1) : z < Word
    BY SMTT(30), WordType
  <2> QED
    BY <2>1, <2>2, <2>3
<1>8. \A k \in Kinds : d[n][k] = SumBelow([c \in 0..(n - 1) |-> d[c][k]])[n]
  BY <1>5, StatsAre
<1>9. Right(d, n, t0, t1, t2, t3)
  BY ZenonT(30), <1>2, <1>3, <1>7, <1>8 DEF Right
<1> QED
  BY <1>9, <1>d

-----------------------------------------------------------------------------
(* Loading a sample.                                                       *)

\* The first j - 1 counters of CPU c were loaded.
Partial(st, c, j, lo, hi) ==
  \A x \in 1..(j - 1) : Within(st[c][Stats[x]], lo[c][Stats[x]], hi[c][Stats[x]])

\* The rows that get_cpustat makes: a counter of CPU c is loaded, the total is
\* formed, and the row is added to the one for the average.
LoadRow(st, c, j, hi) == [st[c] EXCEPT ![Stats[j]] = Shown(hi[c][Stats[j]])]
WithTotal(row) == [row EXCEPT !["TOTAL"] = Total(row) % Word]
WithSum(st, n, c, all) ==
  [st EXCEPT ![c] = all, ![n] = [k \in NR_STATS |-> (st[n][k] + all[k]) % Word]]

\* What a counter shows fits it.
LEMMA ShownType == \A s \in Nat : Shown(s) \in 0..(Word - 1)
<1> SUFFICES ASSUME NEW s \in Nat PROVE (Word - 1 + s) % Word \in 0..(Word - 1)
  BY DEF Shown
<1>1. Word - 1 + s \in Int
  BY SMTT(30), WordType
<1> QED
  BY <1>1, CongMod

\* Every load is of a counter.
LEMMA StatsType == \A j \in 1..8 : Stats[j] \in Kinds /\ Stats[j] \in NR_STATS
BY StatsAre DEF Kinds

\* One more counter: what was loaded before stays, and the load is of hi.
LEMMA OneLoad ==
  ASSUME NEW old \in Row, NEW lo \in [Kinds -> Nat], NEW hi \in [Kinds -> Nat],
         \A k \in Kinds : lo[k] <= hi[k], NEW j \in 1..8,
         \A x \in 1..(j - 1) : Within(old[Stats[x]], lo[Stats[x]], hi[Stats[x]]),
         NEW row, row = [old EXCEPT ![Stats[j]] = Shown(hi[Stats[j]])]
  PROVE  row \in Row /\ \A x \in 1..j : Within(row[Stats[x]], lo[Stats[x]], hi[Stats[x]])
<1>1. Stats[j] \in Kinds /\ Stats[j] \in NR_STATS
  BY StatsType
<1>2. hi[Stats[j]] \in Nat /\ lo[Stats[j]] \in Nat /\ lo[Stats[j]] <= hi[Stats[j]]
  BY <1>1
<1>3. Shown(hi[Stats[j]]) \in 0..(Word - 1)
  BY <1>2, ShownType
<1>4. row \in Row
  BY <1>3 DEF Row
<1>5. row[Stats[j]] = Shown(hi[Stats[j]])
  BY <1>1 DEF Row
<1>6. hi[Stats[j]] \in lo[Stats[j]]..hi[Stats[j]]
  BY SMTT(30), <1>2
<1>7. Within(row[Stats[j]], lo[Stats[j]], hi[Stats[j]])
  BY <1>5, <1>6 DEF Within
<1>8. ASSUME NEW x \in 1..j PROVE Within(row[Stats[x]], lo[Stats[x]], hi[Stats[x]])
  <2>1. CASE Stats[x] = Stats[j]
    BY <1>7, <2>1
  <2>2. CASE Stats[x] # Stats[j]
    <3>1. x \in 1..(j - 1) /\ x \in 1..8
      BY SMTT(30), <2>2
    <3>2. Stats[x] \in NR_STATS
      BY <3>1, StatsType
    <3>3. row[Stats[x]] = old[Stats[x]]
      BY <2>2, <3>2 DEF Row
    <3> QED
      BY <3>1, <3>3
  <2> QED
    BY <2>1, <2>2
<1> QED
  BY <1>4, <1>8

\* A load that is not the last one of its CPU.
LEMMA LoadMore ==
  ASSUME NEW n \in 0..MaxCpus, NEW st \in [0..n -> Row], NEW c \in 0..(n - 1), NEW j \in 1..8,
         NEW lo \in Ticks, NEW hi \in Ticks, Le(lo, hi),
         Sampled(st, n, c, lo, hi), Partial(st, c, j, lo, hi),
         NEW s, s = [st EXCEPT ![c] = LoadRow(st, c, j, hi)]
  PROVE  s \in [0..n -> Row] /\ Sampled(s, n, c, lo, hi) /\ Partial(s, c, j + 1, lo, hi)
<1> DEFINE row == LoadRow(st, c, j, hi)
<1>row. row = [st[c] EXCEPT ![Stats[j]] = Shown(hi[c][Stats[j]])]
  BY DEF LoadRow
<1>s. s = [st EXCEPT ![c] = row]
  OBVIOUS
<1> HIDE DEF row
<1>n. n \in Nat /\ MaxCpus \in Nat /\ n <= MaxCpus
  BY SMTT(30), CpuAssumption, WordAssumption
<1>c. c \in Cpus /\ c \in 0..n /\ c # n /\ n \in 0..n /\ c \in Nat
      /\ \A x \in 0..(c - 1) : x \in 0..n /\ x # c
  BY SMTT(30), <1>n DEF Cpus
<1>1. st[c] \in Row /\ lo[c] \in [Kinds -> Nat] /\ hi[c] \in [Kinds -> Nat]
  BY <1>c DEF Ticks
<1>2. \A k \in Kinds : lo[c][k] <= hi[c][k]
  BY <1>c DEF Le
<1>3. \A x \in 1..(j - 1) : Within(st[c][Stats[x]], lo[c][Stats[x]], hi[c][Stats[x]])
  BY DEF Partial
<1>4. row \in Row /\ \A x \in 1..j : Within(row[Stats[x]], lo[c][Stats[x]], hi[c][Stats[x]])
  BY <1>1, <1>2, <1>3, <1>row, OneLoad
<1>5. s \in [0..n -> Row] /\ s[c] = row /\ \A x \in 0..n : x # c => s[x] = st[x]
  BY <1>4, <1>c, <1>s
<1>6. j + 1 - 1 = j
  BY SMTT(30)
<1>7. Partial(s, c, j + 1, lo, hi)
  BY SMTT(30), <1>4, <1>5, <1>6 DEF Partial
<1>8. ASSUME NEW k \in NR_STATS PROVE Cong(s[n][k], SumBelow([x \in 0..n |-> s[x][k]])[c])
  <2> DEFINE f == [x \in 0..n |-> st[x][k]]
             g == [x \in 0..n |-> s[x][k]]
  <2>1. Cong(st[n][k], SumBelow(f)[c])
    BY DEF Sampled, Complete, SumRow
  <2>2. \A x \in 0..(c - 1) : f[x] = g[x]
    BY <1>5, <1>c
  <2>3. c \in 0..c
    BY SMTT(30), <1>c
  <2> HIDE DEF f, g
  <2>4. SumBelow(f)[c] = SumBelow(g)[c]
    <3>1. c \in Nat
      BY <1>c
    <3>2. Alike(c, f, g)
      BY <2>2 DEF Alike
    <3>3. \A x \in 0..c : SumBelow(f)[x] = SumBelow(g)[x]
      BY SMTT(30), <3>1, <3>2, SumSame
    <3> QED
      BY <2>3, <3>3
  <2>5. s[n] = st[n]
    BY <1>5, <1>c
  <2> QED
    BY <2>1, <2>4, <2>5 DEF g
<1>9. \A x \in 0..(c - 1) : s[x] = st[x]
  BY <1>5, <1>c
<1>10. Sampled(s, n, c, lo, hi)
  BY <1>8, <1>9 DEF Sampled, Complete, SumRow
<1> QED
  BY <1>5, <1>7, <1>10

\* The last load of a CPU, with which get_cpustat forms the total of the CPU and
\* adds its row to the one for the average.
LEMMA LoadLast ==
  ASSUME NEW n \in 0..MaxCpus, NEW st \in [0..n -> Row], NEW c \in 0..(n - 1),
         NEW lo \in Ticks, NEW hi \in Ticks, Le(lo, hi),
         Sampled(st, n, c, lo, hi), Partial(st, c, 8, lo, hi)
  PROVE  /\ WithSum(st, n, c, WithTotal(LoadRow(st, c, 8, hi))) \in [0..n -> Row]
         /\ Sampled(WithSum(st, n, c, WithTotal(LoadRow(st, c, 8, hi))), n, c + 1, lo, hi)
<1> DEFINE row == LoadRow(st, c, 8, hi)
           all == WithTotal(row)
           sum == [k \in NR_STATS |-> (st[n][k] + all[k]) % Word]
           s == WithSum(st, n, c, all)
<1>row. row = [st[c] EXCEPT ![Stats[8]] = Shown(hi[c][Stats[8]])]
  BY DEF LoadRow
<1>all. all = [row EXCEPT !["TOTAL"] = Total(row) % Word]
  BY DEF WithTotal
<1>sum. \A k \in NR_STATS : sum[k] = (st[n][k] + all[k]) % Word
  OBVIOUS
<1>s. sum = [k \in NR_STATS |-> sum[k]] /\ s = [st EXCEPT ![c] = all, ![n] = sum]
  BY DEF WithSum
<1> HIDE DEF row, all, sum, s
<1>n. n \in Nat /\ MaxCpus \in Nat /\ n <= MaxCpus
  BY SMTT(30), CpuAssumption, WordAssumption
<1>c. c \in Cpus /\ c \in 0..n /\ c # n /\ n \in 0..n /\ c \in Nat
      /\ \A x \in 0..(c - 1) : x \in 0..n /\ x # c /\ x # n
  BY SMTT(30), <1>n DEF Cpus
<1>w. \A z \in 0..(Word - 1) : z \in Int
  BY SMTT(30), WordType
<1>1. st[c] \in Row /\ lo[c] \in [Kinds -> Nat] /\ hi[c] \in [Kinds -> Nat]
  BY <1>c DEF Ticks
<1>2. \A k \in Kinds : lo[c][k] <= hi[c][k]
  BY <1>c DEF Le
<1>3. \A x \in 1..(8 - 1) : Within(st[c][Stats[x]], lo[c][Stats[x]], hi[c][Stats[x]])
  BY DEF Partial
<1>e. 8 \in 1..8
  BY SMTT(30)
<1>4. row \in Row /\ \A x \in 1..8 : Within(row[Stats[x]], lo[c][Stats[x]], hi[c][Stats[x]])
  BY <1>1, <1>2, <1>3, <1>e, <1>row, OneLoad
<1>5. \A k \in Kinds : Within(row[k], lo[c][k], hi[c][k])
  BY <1>4 DEF Kinds
<1>6. Total(row) % Word \in 0..(Word - 1)
  <2>1. \A k \in Kinds : row[k] \in Int
    BY ZenonT(30), <1>4, <1>w, StatsAre DEF Row
  <2>2. Total(row) \in Int
    BY <2>1, TotalInt
  <2> QED
    BY <2>2, CongMod
<1>7. /\ all \in Row /\ all["TOTAL"] = Total(row) % Word
      /\ \A k \in Kinds : all[k] = row[k]
  BY ZenonT(30), <1>4, <1>6, <1>all, StatsAre DEF Row
<1>8. Total(all) = Total(row)
  BY <1>7, KindsAre DEF Total
<1>9. \A k \in NR_STATS : st[n][k] \in Int /\ all[k] \in Int
  <2>1. st[n] \in Row /\ all \in Row
    BY <1>7, <1>c
  <2>2. ASSUME NEW r \in Row, NEW k \in NR_STATS PROVE r[k] \in Int
    <3>1. r[k] \in 0..(Word - 1)
      BY DEF Row
    <3> QED
      BY <1>w, <3>1
  <2> QED
    BY <2>1, <2>2
<1>10. ASSUME NEW k \in NR_STATS
       PROVE  /\ sum[k] \in 0..(Word - 1) /\ Cong(sum[k], st[n][k] + all[k])
  <2>1. st[n][k] \in Int /\ all[k] \in Int
    BY <1>9
  <2>2. \A x, y \in Int : x + y \in Int
    BY SMTT(30)
  <2>3. st[n][k] + all[k] \in Int
    BY <2>1, <2>2
  <2> QED
    BY ZenonT(30), <1>sum, <2>3, CongMod
<1>11. sum \in Row
  BY <1>10, <1>s DEF Row
<1>12. /\ s \in [0..n -> Row] /\ s[c] = all /\ s[n] = sum
       /\ \A x \in 0..n : x # c /\ x # n => s[x] = st[x]
  BY <1>7, <1>11, <1>c, <1>s
<1>13. ASSUME NEW k \in NR_STATS PROVE Cong(s[n][k], SumBelow([x \in 0..n |-> s[x][k]])[c + 1])
  <2> DEFINE f == [x \in 0..n |-> st[x][k]]
             g == [x \in 0..n |-> s[x][k]]
  <2>1. Cong(st[n][k], SumBelow(f)[c])
    BY DEF Sampled, Complete, SumRow
  <2>2. ASSUME NEW x \in 0..(c - 1) PROVE f[x] = g[x] /\ f[x] \in Int
    <3>1. x \in 0..n /\ s[x] = st[x] /\ st[x] \in Row
      BY <1>12, <1>c
    <3>2. st[x][k] \in 0..(Word - 1)
      BY <3>1 DEF Row
    <3> QED
      BY ZenonT(30), <1>w, <3>1, <3>2
  <2>3. c \in 0..c
    BY SMTT(30), <1>c
  <2>4. g[c] = all[k]
    BY <1>12, <1>c
  <2> HIDE DEF f, g
  <2>5. SumBelow(f)[c] = SumBelow(g)[c] /\ SumBelow(f)[c] \in Int
    <3>1. c \in Nat
      BY <1>c
    <3>2. Alike(c, f, g)
      BY <2>2 DEF Alike
    <3>3. \A x \in 0..c : SumBelow(f)[x] = SumBelow(g)[x]
      BY SMTT(30), <3>1, <3>2, SumSame
    <3>4. \A x \in 0..c : SumBelow(f)[x] \in Int
      BY <2>2, <3>1, SumInt
    <3> QED
      BY <2>3, <3>3, <3>4
  <2>6. SumBelow(g)[c + 1] = SumBelow(f)[c] + all[k]
    BY SMTT(30), <1>c, <2>4, <2>5, SumIs
  <2> DEFINE x == st[n][k]
             y == all[k]
             z == sum[k]
             F == SumBelow(f)[c]
  <2>7. /\ x \in Int /\ y \in Int /\ z \in Int /\ F \in Int
        /\ Cong(x, F) /\ Cong(z, x + y)
    BY <1>9, <1>10, <1>w, <2>1, <2>5
  <2>8. s[n][k] = z /\ SumBelow(g)[c + 1] = F + y
    BY <1>12, <2>6
  <2> HIDE DEF x, y, z, F
  <2>9. Cong(y, y)
    BY <2>7, CongEquiv
  <2>10. Cong(x + y, F + y)
    BY ZenonT(30), <2>7, <2>9, CongSub
  <2>11. x + y \in Int /\ F + y \in Int
    BY SMTT(30), <2>7
  <2>12. Cong(z, F + y)
    BY <2>7, <2>10, <2>11, CongEquiv
  <2> QED
    BY <2>8, <2>12 DEF g
<1>14. ASSUME NEW x \in 0..c
       PROVE  /\ \A k \in Kinds : Within(s[x][k], lo[x][k], hi[x][k])
              /\ s[x]["TOTAL"] = Total(s[x]) % Word
  <2>1. CASE x = c
    BY <1>5, <1>7, <1>8, <1>12, <2>1
  <2>2. CASE x # c
    <3>1. x \in 0..(c - 1)
      BY SMTT(30), <1>c, <2>2
    <3>2. s[x] = st[x]
      BY <1>12, <1>c, <3>1
    <3> QED
      BY <3>1, <3>2 DEF Sampled, Complete, SumRow
  <2> QED
    BY <2>1, <2>2
<1>15. c + 1 - 1 = c
  BY SMTT(30), <1>c
<1>16. Sampled(s, n, c + 1, lo, hi)
  <2> DEFINE m == c + 1
  <2>1. \A x \in 0..(m - 1) : x \in 0..c
    BY SMTT(30), <1>15
  <2>2. SumRow(s, n, m)
    BY <1>13, Zenon DEF SumRow
  <2> HIDE DEF m
  <2>3. \A x \in 0..(m - 1) : /\ \A k \in Kinds : Within(s[x][k], lo[x][k], hi[x][k])
                             /\ s[x]["TOTAL"] = Total(s[x]) % Word
    BY <1>14, <2>1
  <2>4. Complete(s, m, lo, hi)
    BY <2>3 DEF Complete
  <2> QED
    BY <2>2, <2>4 DEF Sampled, m
<1> QED
  BY <1>12, <1>16 DEF s, all, row

\* More ticks make the bounds wider.
LEMMA WithinMore ==
  ASSUME NEW v, NEW a \in Nat, NEW b \in Nat, NEW c \in Nat, b <= c, Within(v, a, b)
  PROVE  Within(v, a, c)
<1>1. \A s \in a..b : s \in a..c
  BY SMTT(30)
<1> QED
  BY <1>1 DEF Within

\* More ticks leave the complete rows right.
LEMMA SampledMore ==
  ASSUME NEW n \in 0..MaxCpus, NEW m \in 0..n, NEW st,
         NEW lo \in Ticks, NEW hi \in Ticks, NEW up \in Ticks,
         Le(hi, up), Sampled(st, n, m, lo, hi)
  PROVE  Sampled(st, n, m, lo, up)
<1>1. \A c \in 0..(m - 1) : c \in Cpus
  BY SMTT(30), CpuAssumption, WordAssumption DEF Cpus
<1>2. ASSUME NEW c \in 0..(m - 1), NEW k \in Kinds PROVE Within(st[c][k], lo[c][k], up[c][k])
  <2>1. /\ lo[c][k] \in Nat /\ hi[c][k] \in Nat /\ up[c][k] \in Nat /\ hi[c][k] <= up[c][k]
    BY <1>1 DEF Ticks, Le
  <2>2. Within(st[c][k], lo[c][k], hi[c][k])
    BY DEF Sampled, Complete, SumRow
  <2> QED
    BY <2>1, <2>2, WithinMore
<1> QED
  BY <1>2 DEF Sampled, Complete, SumRow

\* More ticks leave the row being loaded right.
LEMMA PartialMore ==
  ASSUME NEW c \in Cpus, NEW j \in 1..8, NEW st,
         NEW lo \in Ticks, NEW hi \in Ticks, NEW up \in Ticks,
         Le(hi, up), Partial(st, c, j, lo, hi)
  PROVE  Partial(st, c, j, lo, up)
<1> SUFFICES ASSUME NEW x \in 1..(j - 1)
             PROVE  Within(st[c][Stats[x]], lo[c][Stats[x]], up[c][Stats[x]])
  BY DEF Partial
<1>1. x \in 1..8
  BY SMTT(30)
<1>2. Stats[x] \in Kinds
  BY <1>1, StatsType
<1>3. /\ lo[c][Stats[x]] \in Nat /\ hi[c][Stats[x]] \in Nat /\ up[c][Stats[x]] \in Nat
      /\ hi[c][Stats[x]] <= up[c][Stats[x]]
  BY <1>2 DEF Ticks, Le
<1>4. Within(st[c][Stats[x]], lo[c][Stats[x]], hi[c][Stats[x]])
  BY DEF Partial
<1> QED
  BY ZenonT(30), <1>3, <1>4, WithinMore

\* A row none of whose counters has been loaded.
LEMMA PartialNone == ASSUME NEW st, NEW c, NEW lo, NEW hi PROVE Partial(st, c, 1, lo, hi)
<1>1. 1..(1 - 1) = {}
  BY SMTT(30)
<1> QED
  BY <1>1 DEF Partial

\* A sample none of whose CPUs has been loaded.
LEMMA SampledNone ==
  ASSUME NEW n \in 0..MaxCpus, NEW lo, NEW hi
  PROVE  Sampled([c \in 0..n |-> ZeroRow], n, 0, lo, hi)
<1>1. n \in 0..n
  BY SMTT(30), CpuAssumption, WordAssumption
<1>2. \A f : SumBelow(f)[0] = 0
  BY SumIs
<1>3. Cong(0, 0)
  BY SMTT(30), CongEquiv
<1>4. 0..(0 - 1) = {}
  OBVIOUS
<1> DEFINE st == [c \in 0..n |-> ZeroRow]
<1>5. \A k \in NR_STATS : st[n][k] = 0
  BY <1>1 DEF ZeroRow
<1> HIDE DEF st
<1>6. Sampled(st, n, 0, lo, hi)
  BY <1>2, <1>3, <1>4, <1>5 DEF Sampled, Complete, SumRow
<1> QED
  BY <1>6 DEF st

\* The shares of a difference whose total is right add up.
LEMMA SharesRight ==
  ASSUME NEW d \in [NR_STATS -> Nat], d["TOTAL"] = Total(d), d["TOTAL"] < Word
  PROVE  LET u == Shares(d)
         IN  /\ u["USER"] + u["SYSTEM"] + u["IDLE"] + u["IOWAIT"] + u["STEAL"] = u["TOTAL"]
             /\ u["NICE"] <= u["USER"] /\ u["IRQ"] + u["SOFTIRQ"] <= u["SYSTEM"]
<1> DEFINE u == Shares(d)
<1>1. CASE d["TOTAL"] = 0
  <2>1. /\ u["USER"] = 0 /\ u["SYSTEM"] = 0 /\ u["IDLE"] = 1 /\ u["IOWAIT"] = 0
        /\ u["STEAL"] = 0 /\ u["TOTAL"] = 1 /\ u["NICE"] = 0 /\ u["IRQ"] = 0 /\ u["SOFTIRQ"] = 0
    BY ZenonT(30), <1>1, StatsAre, KindsAre DEF Shares, ZeroRow
  <2> QED
    BY SMTT(30), <2>1
<1>2. CASE d["TOTAL"] # 0
  <2> DEFINE a == d["USER"] + d["NICE"]
             b == d["SYSTEM"] + d["IRQ"] + d["SOFTIRQ"]
  <2>1. /\ d["USER"] \in Nat /\ d["NICE"] \in Nat /\ d["SYSTEM"] \in Nat /\ d["IDLE"] \in Nat
        /\ d["IOWAIT"] \in Nat /\ d["IRQ"] \in Nat /\ d["SOFTIRQ"] \in Nat /\ d["STEAL"] \in Nat
    BY ZenonT(30), StatsAre, KindsAre
  <2>2. /\ a \in 0..(Word - 1) /\ b \in 0..(Word - 1)
        /\ a + b + d["IDLE"] + d["IOWAIT"] + d["STEAL"] = d["TOTAL"]
        /\ d["NICE"] <= a /\ d["IRQ"] + d["SOFTIRQ"] <= b
    BY SMTT(30), <2>1, WordType DEF Total
  <2>3. /\ u["USER"] = a % Word /\ u["SYSTEM"] = b % Word /\ u["IDLE"] = d["IDLE"]
        /\ u["IOWAIT"] = d["IOWAIT"] /\ u["STEAL"] = d["STEAL"] /\ u["TOTAL"] = d["TOTAL"]
        /\ u["NICE"] = d["NICE"] /\ u["IRQ"] = d["IRQ"] /\ u["SOFTIRQ"] = d["SOFTIRQ"]
    BY ZenonT(30), <1>2, StatsAre, KindsAre DEF Shares
  <2> HIDE DEF a, b
  <2>4. \A z \in 0..(Word - 1) : z % Word = z
    <3> SUFFICES ASSUME NEW z \in 0..(Word - 1) PROVE z % Word = z
      OBVIOUS
    <3>1. z \in Int
      BY SMTT(30), WordType
    <3> QED
      BY ZenonT(30), <3>1, CongEquiv, ModFit
  <2>5. u["USER"] = a /\ u["SYSTEM"] = b
    BY <2>2, <2>3, <2>4
  <2> HIDE DEF u
  <2>6. /\ u["USER"] + u["SYSTEM"] + u["IDLE"] + u["IOWAIT"] + u["STEAL"] = u["TOTAL"]
        /\ u["NICE"] <= u["USER"] /\ u["IRQ"] + u["SOFTIRQ"] <= u["SYSTEM"]
    BY ZenonT(30), <2>2, <2>3, <2>5
  <2> QED
    BY <2>6 DEF u
<1> QED
  BY <1>1, <1>2

\* Ticks only grow.
LEMMA LeTrans ==
  ASSUME NEW a \in Ticks, NEW b \in Ticks, NEW c \in Ticks, Le(a, b), Le(b, c) PROVE Le(a, c)
<1> SUFFICES ASSUME NEW x \in Cpus, NEW k \in Kinds PROVE a[x][k] <= c[x][k]
  BY DEF Le
<1>1. a[x][k] \in Nat /\ b[x][k] \in Nat /\ c[x][k] \in Nat
  BY DEF Ticks
<1>2. a[x][k] <= b[x][k] /\ b[x][k] <= c[x][k]
  BY DEF Le
<1> QED
  BY SMTT(30), <1>1, <1>2

\* Ticks are bounds of themselves.
LEMMA LeSame == ASSUME NEW a \in Ticks PROVE Le(a, a)
<1>1. \A x \in Cpus, k \in Kinds : a[x][k] \in Nat
  BY DEF Ticks
<1>2. \A z \in Nat : z <= z
  BY SMTT(30)
<1> QED
  BY <1>1, <1>2 DEF Le

\* A difference that was right stays so while the guest runs.
LEMMA RightMore ==
  ASSUME NEW n \in 0..MaxCpus, NEW d, NEW t0 \in Ticks, NEW t1, NEW t2,
         NEW t3 \in Ticks, NEW up \in Ticks, Le(t3, up), Right(d, n, t0, t1, t2, t3),
         t1 \in Ticks, t2 \in Ticks
  PROVE  Right(d, n, t0, t1, t2, up)
<1>1. \A c \in 0..(n - 1) : c \in Cpus
  BY CpuBelow
<1>2. ASSUME NEW c \in 0..(n - 1), NEW k \in Kinds
      PROVE  d[c][k] \in (t2[c][k] - t1[c][k])..(up[c][k] - t0[c][k])
  <2>1. /\ t0[c][k] \in Nat /\ t1[c][k] \in Nat /\ t2[c][k] \in Nat
        /\ t3[c][k] \in Nat /\ up[c][k] \in Nat /\ t3[c][k] <= up[c][k]
    BY SMTT(30), <1>1 DEF Ticks, Le
  <2>2. d[c][k] \in (t2[c][k] - t1[c][k])..(t3[c][k] - t0[c][k])
    BY DEF Right
  <2> QED
    BY SMTT(30), <2>1, <2>2
<1> QED
  BY <1>2, Zenon DEF Right

\* Nothing but ticks of the guest, one at a time, up to the bound.
LEMMA TickGrows ==
  ASSUME ticks \in Ticks, Ticked <= MaxTicks, mask \in SUBSET Cpus, Tick
  PROVE  ticks' \in Ticks /\ Ticked' <= MaxTicks /\ Le(ticks, ticks')
<1>1. PICK c \in mask, k \in Kinds : ticks' = [ticks EXCEPT ![c][k] = @ + 1]
  BY DEF Tick
<1>2. c \in Cpus /\ ticks[c] \in [Kinds -> Nat] /\ ticks[c][k] \in Nat /\ ticks[c][k] + 1 \in Nat
  BY SMTT(30) DEF Ticks
<1>3. ticks' \in Ticks
  BY ZenonT(30), <1>1, <1>2 DEF Ticks
<1>4. /\ ticks'[c][k] = ticks[c][k] + 1
      /\ \A l \in Kinds : l # k => ticks'[c][l] = ticks[c][l]
      /\ \A x \in Cpus : x # c => ticks'[x] = ticks[x]
  BY ZenonT(30), <1>1, <1>2 DEF Ticks
<1>t. \A x \in Cpus, l \in Kinds : ticks[x][l] \in Nat
  BY DEF Ticks
<1>5. Le(ticks, ticks')
  <2> SUFFICES ASSUME NEW x \in Cpus, NEW l \in Kinds PROVE ticks[x][l] <= ticks'[x][l]
    BY ZenonT(30) DEF Le
  <2>1. ticks'[x][l] = ticks[x][l] \/ ticks'[x][l] = ticks[x][l] + 1
    BY <1>4
  <2>2. ticks[x][l] \in Nat
    BY <1>t
  <2> QED
    BY SMTT(30), <2>1, <2>2
<1>6. Total(ticks'[c]) = Total(ticks[c]) + 1
  <2> DEFINE r == ticks[c]
             s == ticks'[c]
  <2>1. \A l \in Kinds : r[l] \in Nat
    BY <1>2, <1>t
  <2>2. s[k] = r[k] + 1 /\ \A l \in Kinds : l # k => s[l] = r[l]
    BY <1>4
  <2> HIDE DEF r, s
  <2>3. Total(s) = Total(r) + 1
    BY ZenonT(30), <2>1, <2>2, TotalOneMore
  <2> QED
    BY <2>3 DEF r, s
<1> DEFINE f == [x \in Cpus |-> Total(ticks[x])]
           g == [x \in Cpus |-> Total(ticks'[x])]
<1>7. \A x \in 0..(MaxCpus - 1) : f[x] \in Int /\ g[x] = IF x = c THEN f[x] + 1 ELSE f[x]
  <2>1. \A x \in Cpus : Total(ticks[x]) \in Nat
    BY ZenonT(30), <1>t, TotalNat
  <2> QED
    BY SMTT(30), <1>4, <1>6, <2>1 DEF Cpus
<1>8. Ticked = SumBelow(f)[MaxCpus] /\ Ticked' = SumBelow(g)[MaxCpus]
  BY DEF Ticked
<1> HIDE DEF f, g
<1>9. MaxCpus \in Nat /\ c \in 0..(MaxCpus - 1) /\ MaxCpus \in 0..MaxCpus
  BY SMTT(30), <1>2, CpuAssumption, WordAssumption DEF Cpus
<1>10. SumBelow(g)[MaxCpus] = SumBelow(f)[MaxCpus] + 1
  BY <1>7, <1>9, SumOneMore
<1>11. SumBelow(f)[MaxCpus] \in Int
  BY ZenonT(30), <1>7, <1>9, SumInt
<1>12. Ticked < MaxTicks
  BY DEF Tick
<1>13. Ticked' <= MaxTicks
  BY SMTT(30), <1>8, <1>10, <1>11, <1>12, CpuAssumption, WordAssumption
<1> QED
  BY <1>3, <1>5, <1>13

-----------------------------------------------------------------------------
(* The inductive invariant of top.                                         *)

First == Sampled(cpustat[1], num, num, seen.start, seen.slept)
Loading(lo) == /\ Sampled(cpustat[pass], num, cpu, lo, ticks)
               /\ Partial(cpustat[pass], cpu, i, lo, ticks)

BaseInv ==
  /\ mask \in SUBSET Cpus /\ ticks \in Ticks /\ Ticked <= MaxTicks /\ num \in 0..MaxCpus
  /\ tpc \in {"none", "failed", "rows", "num", "sample", "sleep", "comp", "print", "overrun"}
  /\ seen \in [start : Ticks, slept : Ticks, woken : Ticks]
  /\ tpc \notin {"none", "failed"} => Le(seen.start, ticks)
  /\ tpc \in {"none", "failed", "rows", "num"} => pass = 1 /\ cpu = 0 /\ i = 1
  /\ tpc \in {"sample", "sleep", "comp"} => cpustat \in [1..2 -> [0..num -> Row]]
  /\ tpc = "sample" =>
       pass \in 1..2 /\ cpu \in 0..num /\ i \in 1..8 /\ (cpu = num => i = 1)
  /\ tpc = "sleep" => pass = 1
  /\ tpc \notin {"print", "overrun"} => usage = <<>>

\* In every phase of comp_cpu_usage, what has been loaded was loaded when it had
\* to be; in the end the differences are right.
PhaseInv ==
  /\ tpc = "sleep" \/ (tpc = "sample" /\ pass = 1) =>
       cpustat[2] = [c \in 0..num |-> ZeroRow]
  /\ tpc = "sample" /\ pass = 1 => Loading(seen.start)
  /\ tpc \in {"sleep", "comp"} \/ (tpc = "sample" /\ pass = 2) => First
  /\ tpc = "sleep" => Le(seen.slept, ticks)
  /\ tpc = "comp" \/ (tpc = "sample" /\ pass = 2) =>
       Le(seen.slept, seen.woken) /\ Le(seen.woken, ticks)
  /\ tpc = "sample" /\ pass = 2 => Loading(seen.woken)
  /\ tpc = "comp" => Sampled(cpustat[2], num, num, seen.woken, ticks)
  /\ tpc \in {"print", "overrun"} =>
       /\ Right(diff, num, seen.start, seen.slept, seen.woken, ticks)
       /\ usage = [c \in 0..num |-> Shares(diff[c])]

SampleInv == BaseInv /\ PhaseInv

\* The ticks at the start.
LEMMA NoTicksType == NoTicks \in Ticks
BY DEF NoTicks, Ticks

\* The invariant holds before the first command.
LEMMA SampleInit == CpuInit => SampleInv
<1> SUFFICES ASSUME CpuInit PROVE SampleInv
  OBVIOUS
<1>1. PhaseInv
  BY DEF PhaseInv, CpuInit
<1>2. Ticked <= MaxTicks
  <2> DEFINE f == [c \in Cpus |-> Total(ticks[c])]
             z == [c \in Cpus |-> 0]
  <2>1. \A c \in 0..(MaxCpus - 1) : f[c] \in Nat /\ z[c] \in Nat /\ f[c] <= z[c] /\ z[c] = 0
    <3>1. \A c \in Cpus : \A k \in Kinds : ticks[c][k] = 0
      BY DEF CpuInit, NoTicks
    <3>2. \A c \in Cpus : Total(ticks[c]) = 0
      BY SMTT(30), <3>1, KindsAre DEF Total
    <3> QED
      BY SMTT(30), <3>2 DEF Cpus
  <2>2. MaxCpus \in Nat /\ MaxCpus \in 0..MaxCpus /\ MaxTicks \in Nat
    BY SMTT(30), CpuAssumption, WordAssumption
  <2>3. Ticked = SumBelow(f)[MaxCpus]
    BY DEF Ticked
  <2> HIDE DEF f, z
  <2>4. /\ SumBelow(f)[MaxCpus] \in Nat /\ SumBelow(z)[MaxCpus] \in Nat
        /\ SumBelow(f)[MaxCpus] <= SumBelow(z)[MaxCpus]
    BY ZenonT(30), <2>1, <2>2, SumLe
  <2>5. SumBelow(z)[MaxCpus] = 0
    BY ZenonT(30), <2>1, <2>2, SumZero
  <2> QED
    BY SMTT(30), <2>2, <2>3, <2>4, <2>5
<1>3. 0 \in 0..MaxCpus
  BY SMTT(30), CpuAssumption, WordAssumption
<1>4. BaseInv
  BY <1>2, <1>3, NoTicksType DEF BaseInv, CpuInit, NotSeen
<1> QED
  BY ZenonT(30), <1>1, <1>4 DEF SampleInv

\* After the last counter the loop of get_cpustat is at the first one again.
LEMMA LoopStep ==
  ASSUME NEW x \in 1..8
  PROVE  \/ x < 8 /\ (x % 8) + 1 = x + 1 /\ x + 1 \in 1..8
         \/ x = 8 /\ ~(8 < 8) /\ (x % 8) + 1 = 1
<1>1. CASE x < 8
  <2>1. x % 8 = x
    BY SMTT(30), <1>1
  <2>2. x + 1 \in 1..8
    BY SMTT(30), <1>1
  <2> QED
    BY ZenonT(30), <1>1, <2>1, <2>2
<1>2. CASE x = 8
  <2>1. 8 % 8 = 0 /\ 0 + 1 = 1 /\ ~(8 < 8)
    BY SMTT(30)
  <2> QED
    BY ZenonT(30), <1>2, <2>1
<1>3. x < 8 \/ x = 8
  OBVIOUS
<1> QED
  BY ZenonT(30), <1>1, <1>2, <1>3

\* A load keeps what has been loaded in its pass right.
LEMMA LoadStep ==
  ASSUME BaseInv, LoadCounter, Loading(IF pass = 1 THEN seen.start ELSE seen.woken),
         Le(IF pass = 1 THEN seen.start ELSE seen.woken, ticks)
  PROVE  /\ cpustat' \in [1..2 -> [0..num -> Row]]
         /\ \A p \in 1..2 : p # pass => cpustat'[p] = cpustat[p]
         /\ cpu' \in 0..num /\ i' \in 1..8 /\ (cpu' = num => i' = 1)
         /\ Loading(IF pass = 1 THEN seen.start ELSE seen.woken)'
<1> DEFINE lo == IF pass = 1 THEN seen.start ELSE seen.woken
           st == cpustat[pass]
           new == IF i < 8 THEN [st EXCEPT ![cpu] = LoadRow(st, cpu, i, ticks)]
                           ELSE WithSum(st, num, cpu, WithTotal(LoadRow(st, cpu, i, ticks)))
<1>1. /\ tpc = "sample" /\ cpu < num /\ cpustat' = [cpustat EXCEPT ![pass] = new]
      /\ i' = (i % 8) + 1 /\ cpu' = (IF i < 8 THEN cpu ELSE cpu + 1)
      /\ ticks' = ticks /\ num' = num /\ pass' = pass /\ seen' = seen
  BY ZenonT(30), Zenon DEF LoadCounter, LoadFrom, guestCpu, LoadRow, WithTotal, WithSum,
     Shown, Counter
<1>2. /\ num \in 0..MaxCpus /\ pass \in 1..2 /\ cpu \in 0..num /\ i \in 1..8
      /\ cpustat \in [1..2 -> [0..num -> Row]] /\ ticks \in Ticks
      /\ seen.start \in Ticks /\ seen.woken \in Ticks
  BY <1>1 DEF BaseInv
<1>3. st \in [0..num -> Row] /\ lo \in Ticks
  BY <1>2
<1>4. cpu \in 0..(num - 1) /\ num \in Nat
  <2>1. cpu < num /\ cpu \in 0..num /\ num \in 0..MaxCpus
    BY <1>1, <1>2
  <2> QED
    BY SMTT(30), <2>1, CpuAssumption, WordAssumption
<1>5. /\ Sampled(st, num, cpu, lo, ticks) /\ Partial(st, cpu, i, lo, ticks) /\ Le(lo, ticks)
  BY DEF Loading
<1>6. lo' = lo
  BY <1>1
<1>i. \/ /\ i < 8 /\ (i % 8) + 1 = i + 1 /\ i + 1 \in 1..8
      \/ /\ i = 8 /\ ~(8 < 8) /\ (i % 8) + 1 = 1
  BY <1>2, LoopStep
<1>j. cpu # num /\ cpu + 1 \in 0..num
  BY <1>4, SMTT(20)
<1> HIDE DEF lo, st
<1>7. CASE i < 8
  <2>1. /\ new \in [0..num -> Row] /\ Sampled(new, num, cpu, lo, ticks)
        /\ Partial(new, cpu, i + 1, lo, ticks)
    BY ZenonT(30), <1>2, <1>3, <1>4, <1>5, <1>7, LoadMore
  <2>2. i' = i + 1 /\ i + 1 \in 1..8 /\ cpu' = cpu /\ cpu \in 0..num /\ cpu # num
    BY ZenonT(30), <1>1, <1>2, <1>7, <1>i, <1>j
  <2> HIDE DEF new
  <2>3. cpustat' \in [1..2 -> [0..num -> Row]] /\ cpustat'[pass] = new
        /\ \A p \in 1..2 : p # pass => cpustat'[p] = cpustat[p]
    BY ZenonT(30), <1>1, <1>2, <2>1
  <2>4. Sampled(cpustat'[pass'], num', cpu', lo', ticks')
        /\ Partial(cpustat'[pass'], cpu', i', lo', ticks')
    BY ZenonT(30), <1>1, <1>6, <2>1, <2>2, <2>3
  <2> QED
    BY ZenonT(30), <2>2, <2>3, <2>4 DEF Loading, lo
<1>8. CASE i = 8
  <2>0. ~(8 < 8) /\ (i % 8) + 1 = 1
    BY SMTT(30), <1>8, <1>i
  <2>1. new = WithSum(st, num, cpu, WithTotal(LoadRow(st, cpu, 8, ticks)))
    BY <1>8, <2>0
  <2> DEFINE last == WithSum(st, num, cpu, WithTotal(LoadRow(st, cpu, 8, ticks)))
  <2>p. Partial(st, cpu, 8, lo, ticks)
    BY ZenonT(30), <1>5, <1>8
  <2>l. last \in [0..num -> Row] /\ Sampled(last, num, cpu + 1, lo, ticks)
    BY ZenonT(30), <1>2, <1>3, <1>4, <1>5, <2>p, LoadLast
  <2>2. new \in [0..num -> Row] /\ Sampled(new, num, cpu + 1, lo, ticks)
    BY ZenonT(30), <2>1, <2>l
  <2>3. i' = 1 /\ cpu' = cpu + 1 /\ cpu + 1 \in 0..num
    BY ZenonT(30), <1>1, <1>8, <1>j, <2>0
  <2> HIDE DEF new
  <2>4. cpustat' \in [1..2 -> [0..num -> Row]] /\ cpustat'[pass] = new
        /\ \A p \in 1..2 : p # pass => cpustat'[p] = cpustat[p]
    BY ZenonT(30), <1>1, <1>2, <2>2
  <2>5. Sampled(cpustat'[pass'], num', cpu', lo', ticks')
    BY ZenonT(30), <1>1, <1>6, <2>2, <2>3, <2>4
  <2>6. Partial(cpustat'[pass'], cpu', i', lo', ticks')
    BY ZenonT(30), <2>3, PartialNone
  <2>7. i' \in 1..8
    BY SMTT(30), <2>3
  <2> QED
    BY ZenonT(30), <2>3, <2>4, <2>5, <2>6, <2>7 DEF Loading, lo
<1> QED
  BY SMTT(30), <1>2, <1>7, <1>8

\* More ticks of the guest leave what has been loaded right.
LEMMA LoadingMore ==
  ASSUME BaseInv, tpc = "sample", NEW lo \in Ticks, NEW up \in Ticks, Le(ticks, up), Loading(lo)
  PROVE  Sampled(cpustat[pass], num, cpu, lo, up) /\ Partial(cpustat[pass], cpu, i, lo, up)
<1>1. num \in 0..MaxCpus /\ cpu \in 0..num /\ i \in 1..8 /\ (cpu = num => i = 1) /\ ticks \in Ticks
  BY DEF BaseInv
<1>2. Sampled(cpustat[pass], num, cpu, lo, ticks) /\ Partial(cpustat[pass], cpu, i, lo, ticks)
  BY DEF Loading
<1>3. Sampled(cpustat[pass], num, cpu, lo, up)
  BY ZenonT(30), <1>1, <1>2, SampledMore
<1>4. CASE cpu = num
  BY ZenonT(30), <1>1, <1>3, <1>4, PartialNone
<1>5. CASE cpu # num
  <2>1. cpu \in Cpus
    BY SMTT(30), <1>1, <1>5, CpuAssumption, WordAssumption DEF Cpus
  <2>2. Partial(cpustat[pass], cpu, i, lo, up)
    BY <1>1, <1>2, <2>1, PartialMore
  <2> QED
    BY ZenonT(30), <1>3, <2>2
<1> QED
  BY <1>4, <1>5

\* A tick of the guest keeps the invariant.
LEMMA SampleTick == SampleInv /\ Tick => SampleInv'
<1> SUFFICES ASSUME SampleInv, Tick PROVE SampleInv'
  OBVIOUS
<1>b. BaseInv /\ PhaseInv
  BY DEF SampleInv
<1>0. /\ mask' = mask /\ tpc' = tpc /\ num' = num /\ pass' = pass /\ cpu' = cpu /\ i' = i
      /\ cpustat' = cpustat /\ diff' = diff /\ usage' = usage /\ seen' = seen
  BY DEF Tick, sampling
<1>1. /\ ticks \in Ticks /\ ticks' \in Ticks /\ Ticked' <= MaxTicks /\ Le(ticks, ticks')
      /\ num \in 0..MaxCpus
      /\ seen.start \in Ticks /\ seen.slept \in Ticks /\ seen.woken \in Ticks
  <2>1. /\ ticks \in Ticks /\ Ticked <= MaxTicks /\ mask \in SUBSET Cpus /\ num \in 0..MaxCpus
        /\ seen.start \in Ticks /\ seen.slept \in Ticks /\ seen.woken \in Ticks
    BY <1>b DEF BaseInv
  <2> QED
    BY ZenonT(30), <2>1, TickGrows
<1>2. tpc \notin {"none", "failed"} => Le(seen.start, ticks')
  BY ZenonT(30), <1>1, <1>b, LeTrans DEF BaseInv
<1>3. BaseInv'
  BY ZenonT(30), <1>0, <1>1, <1>2, <1>b DEF BaseInv
<1>4. ASSUME tpc = "sample", pass = 1 PROVE Loading(seen.start)'
  <2>1. Loading(seen.start)
    BY ZenonT(30), <1>4, <1>b DEF PhaseInv
  <2>2. /\ Sampled(cpustat[pass], num, cpu, seen.start, ticks')
        /\ Partial(cpustat[pass], cpu, i, seen.start, ticks')
    BY ZenonT(30), <1>1, <1>4, <1>b, <2>1, LoadingMore
  <2> QED
    BY ZenonT(30), <1>0, <2>2 DEF Loading
<1>5. ASSUME tpc = "sample", pass = 2 PROVE Loading(seen.woken)'
  <2>1. Loading(seen.woken)
    BY <1>5, <1>b DEF PhaseInv
  <2>2. /\ Sampled(cpustat[pass], num, cpu, seen.woken, ticks')
        /\ Partial(cpustat[pass], cpu, i, seen.woken, ticks')
    BY ZenonT(30), <1>1, <1>5, <1>b, <2>1, LoadingMore
  <2> QED
    BY ZenonT(30), <1>0, <2>2 DEF Loading
<1>6. tpc = "sleep" => Le(seen.slept, ticks')
  BY ZenonT(30), <1>1, <1>b, LeTrans DEF PhaseInv
<1>7. tpc = "comp" \/ (tpc = "sample" /\ pass = 2) => Le(seen.woken, ticks')
  BY ZenonT(30), <1>1, <1>b, LeTrans DEF PhaseInv
<1>8. tpc = "comp" => Sampled(cpustat[2], num, num, seen.woken, ticks')
  <2> SUFFICES ASSUME tpc = "comp" PROVE Sampled(cpustat[2], num, num, seen.woken, ticks')
    OBVIOUS
  <2>1. Sampled(cpustat[2], num, num, seen.woken, ticks)
    BY <1>b DEF PhaseInv
  <2>2. num \in 0..num
    BY SMTT(30), <1>1, CpuAssumption, WordAssumption
  <2> QED
    BY ZenonT(30), <1>1, <2>1, <2>2, SampledMore
<1>9. tpc \in {"print", "overrun"} => Right(diff, num, seen.start, seen.slept, seen.woken, ticks')
  <2> SUFFICES ASSUME tpc \in {"print", "overrun"}
               PROVE  Right(diff, num, seen.start, seen.slept, seen.woken, ticks')
    OBVIOUS
  <2>1. Right(diff, num, seen.start, seen.slept, seen.woken, ticks)
    BY <1>b DEF PhaseInv
  <2> QED
    BY <1>1, <2>1, RightMore
<1>10. First' <=> First
  BY ZenonT(30), <1>0 DEF First
<1>11. PhaseInv'
  BY ZenonT(30), <1>0, <1>4, <1>5, <1>6, <1>7, <1>8, <1>9, <1>10, <1>b DEF PhaseInv
<1> QED
  BY <1>3, <1>11 DEF SampleInv

\* Steps that neither sample nor compute.
LEMMA SampleKept ==
  ASSUME SampleInv, ticks' = ticks, mask' \in SUBSET Cpus, num' = num, pass' = pass, cpu' = cpu,
         i' = i, cpustat' = cpustat, diff' = diff, usage' = usage,
         \/ tpc' = tpc /\ seen' = seen
         \/ /\ tpc \in {"none", "failed"} /\ tpc' = "rows"
            /\ seen' = [seen EXCEPT !.start = ticks]
         \/ tpc \in {"none", "failed"} /\ tpc' = "failed" /\ seen' = seen
         \/ tpc = "rows" /\ tpc' = "num" /\ seen' = seen
  PROVE  SampleInv'
<1>b. BaseInv /\ PhaseInv
  BY DEF SampleInv
<1>1. Ticked' = Ticked
  BY DEF Ticked
<1>2. CASE tpc' = tpc /\ seen' = seen
  <2>1. BaseInv'
    BY ZenonT(30), <1>1, <1>2, <1>b DEF BaseInv
  <2>2. /\ Loading(seen.start)' <=> Loading(seen.start)
        /\ Loading(seen.woken)' <=> Loading(seen.woken)
        /\ First' <=> First
    BY ZenonT(30), <1>2 DEF Loading, First
  <2>3. PhaseInv'
    BY ZenonT(30), <1>2, <1>b, <2>2 DEF PhaseInv
  <2> QED
    BY ZenonT(30), <2>1, <2>3 DEF SampleInv
<1>3. CASE tpc \in {"none", "failed", "rows"} /\ tpc' \in {"rows", "failed", "num"}
  <2>1. PhaseInv'
    BY <1>3 DEF PhaseInv
  <2>2. ticks \in Ticks /\ Le(ticks, ticks)
    BY ZenonT(30), <1>b, LeSame DEF BaseInv
  <2>3. seen' \in [start : Ticks, slept : Ticks, woken : Ticks]
    BY ZenonT(30), <1>3, <1>b, <2>2 DEF BaseInv
  <2>4. tpc' \notin {"none", "failed"} => Le(seen'.start, ticks')
    BY ZenonT(30), <1>3, <1>b, <2>2 DEF BaseInv
  <2>5. BaseInv'
    BY ZenonT(30), <1>1, <1>3, <1>b, <2>2, <2>3, <2>4 DEF BaseInv
  <2> QED
    BY ZenonT(30), <2>1, <2>5 DEF SampleInv
<1> QED
  BY ZenonT(30), <1>2, <1>3

\* What the invariant says while a sample is taken.
LEMMA PhaseReads ==
  ASSUME PhaseInv, tpc = "sample"
  PROVE  /\ pass = 1 => cpustat[2] = [c \in 0..num |-> ZeroRow] /\ Loading(seen.start)
         /\ pass = 2 => /\ First /\ Loading(seen.woken)
                        /\ Le(seen.slept, seen.woken) /\ Le(seen.woken, ticks)
<1>1. pass = 1 => cpustat[2] = [c \in 0..num |-> ZeroRow] /\ Loading(seen.start)
  BY DEF PhaseInv
<1>2. pass = 2 => First /\ Loading(seen.woken)
  BY DEF PhaseInv
<1>3. pass = 2 => Le(seen.slept, seen.woken) /\ Le(seen.woken, ticks)
  BY DEF PhaseInv
<1> QED
  BY ZenonT(30), <1>1, <1>2, <1>3

\* What a step has to leave in the first pass.
LEMMA PhaseOne ==
  ASSUME tpc' = "sample", pass' = 1, cpustat'[2] = [c \in 0..num' |-> ZeroRow],
         Loading(seen.start)'
  PROVE  PhaseInv'
<1>1. pass' # 2 /\ tpc' \notin {"sleep", "comp", "print", "overrun"}
  BY SMTT(30)
<1> QED
  BY <1>1 DEF PhaseInv

\* What it has to leave in the second.
LEMMA PhaseTwo ==
  ASSUME tpc' = "sample", pass' = 2, First', Loading(seen.woken)',
         Le(seen.slept, seen.woken)', Le(seen.woken, ticks)'
  PROVE  PhaseInv'
<1>1. pass' # 1 /\ tpc' \notin {"sleep", "comp", "print", "overrun"}
  BY SMTT(30)
<1> QED
  BY <1>1 DEF PhaseInv

\* comp_cpu_usage starts with samples of zeros.
LEMMA SampleCount == SampleInv /\ CountCpus => SampleInv'
<1> SUFFICES ASSUME SampleInv, CountCpus PROVE SampleInv'
  OBVIOUS
<1>b. BaseInv
  BY DEF SampleInv
<1>0. /\ mask' = mask /\ ticks' = ticks /\ pass' = pass /\ cpu' = cpu /\ i' = i
      /\ usage' = usage /\ seen' = seen /\ tpc = "num" /\ tpc' = "sample" /\ num' = get_cpu_num
      /\ cpustat' = [n \in 1..2 |-> [c \in 0..num' |-> ZeroRow]]
  BY DEF CountCpus, guestCpu, sampling
<1>1. Ticked' = Ticked
  BY <1>0 DEF Ticked
<1>2. num' \in 0..MaxCpus /\ pass = 1 /\ cpu = 0 /\ i = 1 /\ usage = <<>>
  BY ZenonT(30), <1>0, <1>b, CpuNumType DEF BaseInv
<1>3. ZeroRow \in Row
  <2>1. 0 \in 0..(Word - 1)
    BY SMTT(30), WordType
  <2> QED
    BY <2>1 DEF ZeroRow, Row
<1>4. cpustat' \in [1..2 -> [0..num' -> Row]]
  BY <1>0, <1>3
<1>5. \A p \in 1..2 : cpustat'[p] = [c \in 0..num' |-> ZeroRow]
  BY <1>0
<1>6. 0 \in 0..num' /\ 1 \in 1..2 /\ 2 \in 1..2 /\ 1 \in 1..8
  BY SMTT(30), <1>2, CpuAssumption, WordAssumption
<1>7. BaseInv'
  BY <1>0, <1>1, <1>2, <1>4, <1>6, <1>b DEF BaseInv
<1>8. Sampled([c \in 0..num' |-> ZeroRow], num', 0, seen.start, ticks)
  BY <1>2, SampledNone
<1>9. Partial(cpustat'[1], 0, 1, seen.start, ticks)
  BY PartialNone
<1>10. Loading(seen.start)'
  BY ZenonT(30), <1>0, <1>2, <1>5, <1>6, <1>8, <1>9 DEF Loading
<1>11. PhaseInv'
  <2>1. pass' = 1 /\ cpustat'[2] = [c \in 0..num' |-> ZeroRow]
    BY ZenonT(30), <1>0, <1>2, <1>5, <1>6
  <2>2. tpc' = "sample"
    BY <1>0
  <2> QED
    BY ZenonT(30), <1>10, <2>1, <2>2, PhaseOne
<1> QED
  BY <1>7, <1>11 DEF SampleInv

\* A load of either pass keeps the invariant.
LEMMA SampleLoad == SampleInv /\ LoadCounter => SampleInv'
<1> SUFFICES ASSUME SampleInv, LoadCounter PROVE SampleInv'
  OBVIOUS
<1> DEFINE lo == IF pass = 1 THEN seen.start ELSE seen.woken
<1>b. BaseInv /\ PhaseInv
  BY DEF SampleInv
<1>0. /\ mask' = mask /\ ticks' = ticks /\ tpc = "sample" /\ tpc' = tpc /\ num' = num
      /\ pass' = pass /\ usage' = usage /\ seen' = seen
  BY DEF LoadCounter, LoadFrom, guestCpu
<1>1. Ticked' = Ticked
  BY <1>0 DEF Ticked
<1>2. pass \in {1, 2}
  BY SMTT(30), <1>0, <1>b DEF BaseInv
<1>3. Loading(lo) /\ Le(lo, ticks)
  <2>0. PhaseInv /\ tpc = "sample"
    BY <1>0, <1>b
  <2>1. CASE pass = 1
    <3>1. Loading(seen.start)
      BY <2>0, <2>1, PhaseReads
    <3>2. Le(seen.start, ticks)
      BY ZenonT(30), <1>b, <2>0 DEF BaseInv
    <3> QED
      BY <2>1, <3>1, <3>2
  <2>2. CASE pass = 2
    <3>1. Loading(seen.woken) /\ Le(seen.woken, ticks)
      BY ZenonT(30), <2>0, <2>2, PhaseReads
    <3>2. pass # 1
      BY SMTT(30), <2>2
    <3> QED
      BY <3>1, <3>2
  <2> QED
    BY <1>2, <2>1, <2>2
<1>4. /\ cpustat' \in [1..2 -> [0..num -> Row]]
      /\ \A p \in 1..2 : p # pass => cpustat'[p] = cpustat[p]
      /\ cpu' \in 0..num /\ i' \in 1..8 /\ (cpu' = num => i' = 1)
      /\ Loading(lo)'
  BY <1>3, <1>b, LoadStep
<1>5. BaseInv'
  BY ZenonT(30), <1>0, <1>1, <1>4, <1>b DEF BaseInv
<1>6. CASE pass = 1
  <2>0. cpustat[2] = [c \in 0..num |-> ZeroRow]
    BY ZenonT(30), <1>0, <1>6, <1>b, PhaseReads
  <2>1. cpustat'[2] = cpustat[2]
    <3>1. 2 \in 1..2 /\ 2 # pass
      BY SMTT(30), <1>6
    <3> QED
      BY ZenonT(30), <1>4, <3>1
  <2>2. lo' = seen'.start
    BY <1>0, <1>6
  <2>3. Loading(seen.start)'
    BY ZenonT(30), <1>4, <2>2 DEF Loading
  <2>4. PhaseInv'
    <3>1. tpc' = "sample" /\ pass' = 1 /\ cpustat'[2] = [c \in 0..num' |-> ZeroRow]
      BY ZenonT(30), <1>0, <1>6, <2>0, <2>1
    <3> QED
      BY ZenonT(30), <2>3, <3>1, PhaseOne
  <2> QED
    BY <1>5, <2>4 DEF SampleInv
<1>7. CASE pass = 2
  <2>0. First
    BY ZenonT(30), <1>0, <1>7, <1>b, PhaseReads
  <2>1. cpustat'[1] = cpustat[1]
    <3>1. 1 \in 1..2 /\ 1 # pass
      BY SMTT(30), <1>7
    <3> QED
      BY ZenonT(30), <1>4, <3>1
  <2>2. lo' = seen'.woken
    <3>1. pass' # 1
      BY SMTT(30), <1>0, <1>7
    <3> QED
      BY <3>1
  <2>3. Loading(seen.woken)'
    BY <1>4, <2>2 DEF Loading
  <2>4. First'
    BY ZenonT(30), <1>0, <2>0, <2>1 DEF First
  <2>5. Le(seen.slept, seen.woken) /\ Le(seen.woken, ticks)
    BY ZenonT(30), <1>0, <1>7, <1>b, PhaseReads
  <2>6. PhaseInv'
    <3>1. tpc' = "sample" /\ pass' = 2
      BY <1>0, <1>7
    <3>2. Le(seen.slept, seen.woken)' /\ Le(seen.woken, ticks)'
      BY <1>0, <2>5
    <3> QED
      BY ZenonT(30), <2>3, <2>4, <3>1, <3>2, PhaseTwo
  <2> QED
    BY <1>5, <2>6 DEF SampleInv
<1> QED
  BY ZenonT(30), <1>2, <1>6, <1>7

\* The end of a pass: what was loaded is bounded by the ticks so far.
LEMMA SampleEnd == SampleInv /\ EndSample => SampleInv'
<1> SUFFICES ASSUME SampleInv, EndSample PROVE SampleInv'
  OBVIOUS
<1>b. BaseInv /\ PhaseInv
  BY DEF SampleInv
<1>0. /\ mask' = mask /\ ticks' = ticks /\ tpc = "sample" /\ num' = num /\ pass' = pass
      /\ cpu' = cpu /\ i' = i /\ cpustat' = cpustat /\ usage' = usage /\ cpu = num
      /\ tpc' = (IF pass = 1 THEN "sleep" ELSE "comp")
      /\ seen' = IF pass = 1 THEN [seen EXCEPT !.slept = ticks] ELSE seen
  BY DEF EndSample, guestCpu, sampling
<1>1. Ticked' = Ticked
  BY <1>0 DEF Ticked
<1>2. /\ seen \in [start : Ticks, slept : Ticks, woken : Ticks]
      /\ ticks \in Ticks /\ Le(ticks, ticks) /\ pass \in {1, 2}
  BY SMTT(30), <1>0, <1>b, LeSame DEF BaseInv
<1>3. CASE pass = 1
  <2>1. /\ seen' \in [start : Ticks, slept : Ticks, woken : Ticks]
        /\ seen'.start = seen.start /\ seen'.slept = ticks /\ tpc' = "sleep"
    BY <1>0, <1>2, <1>3
  <2>2. BaseInv'
    BY <1>0, <1>1, <1>3, <1>b, <2>1 DEF BaseInv
  <2>3. First'
    BY ZenonT(30), <1>0, <1>3, <1>b, <2>1 DEF First, PhaseInv, Loading
  <2>4. PhaseInv'
    BY ZenonT(30), <1>0, <1>2, <1>3, <1>b, <2>1, <2>3 DEF PhaseInv
  <2> QED
    BY <2>2, <2>4 DEF SampleInv
<1>4. CASE pass = 2
  <2>1. seen' = seen /\ tpc' = "comp"
    BY SMTT(30), <1>0, <1>4
  <2>2. BaseInv'
    BY <1>0, <1>1, <1>4, <1>b, <2>1 DEF BaseInv
  <2>3. First'
    BY ZenonT(30), <1>0, <1>4, <1>b, <2>1 DEF First, PhaseInv
  <2>4. Sampled(cpustat[2], num, num, seen.woken, ticks)
    BY ZenonT(30), <1>0, <1>4, <1>b DEF PhaseInv, Loading
  <2>5. Le(seen.slept, seen.woken) /\ Le(seen.woken, ticks)
    BY ZenonT(30), <1>0, <1>4, <1>b DEF PhaseInv
  <2>6. PhaseInv'
    BY ZenonT(30), <1>0, <2>1, <2>3, <2>4, <2>5 DEF PhaseInv
  <2> QED
    BY <2>2, <2>6 DEF SampleInv
<1> QED
  BY ZenonT(30), <1>2, <1>3, <1>4

\* The second pass starts after the sleep.
LEMMA SampleWake == SampleInv /\ Wake => SampleInv'
<1> SUFFICES ASSUME SampleInv, Wake PROVE SampleInv'
  OBVIOUS
<1>b. BaseInv /\ PhaseInv
  BY DEF SampleInv
<1>0. /\ mask' = mask /\ ticks' = ticks /\ tpc = "sleep" /\ tpc' = "sample" /\ num' = num
      /\ pass' = 2 /\ cpu' = 0 /\ i' = 1 /\ cpustat' = cpustat /\ usage' = usage
      /\ seen' = [seen EXCEPT !.woken = ticks]
  BY DEF Wake, guestCpu
<1>1. Ticked' = Ticked
  BY <1>0 DEF Ticked
<1>2. /\ seen \in [start : Ticks, slept : Ticks, woken : Ticks]
      /\ ticks \in Ticks /\ Le(ticks, ticks) /\ num \in 0..MaxCpus
  BY ZenonT(30), <1>b, LeSame DEF BaseInv
<1>3. /\ seen' \in [start : Ticks, slept : Ticks, woken : Ticks]
      /\ seen'.start = seen.start /\ seen'.slept = seen.slept /\ seen'.woken = ticks
  BY ZenonT(30), <1>0, <1>2
<1>4. 0 \in 0..num /\ 2 \in 1..2 /\ 1 \in 1..8
  BY SMTT(30), <1>2, CpuAssumption, WordAssumption
<1>5. BaseInv'
  BY <1>0, <1>1, <1>3, <1>4, <1>b DEF BaseInv
<1>6. First'
  BY ZenonT(30), <1>0, <1>3, <1>b DEF First, PhaseInv
<1>7. Loading(seen.woken)'
  <2>1. Sampled(cpustat[2], num, 0, ticks, ticks)
    <3>1. cpustat[2] = [c \in 0..num |-> ZeroRow]
      BY <1>0, <1>b DEF PhaseInv
    <3> QED
      BY ZenonT(30), <1>2, <3>1, SampledNone
  <2>2. Partial(cpustat[2], 0, 1, ticks, ticks)
    BY PartialNone
  <2> QED
    BY ZenonT(30), <1>0, <1>3, <2>1, <2>2 DEF Loading
<1>8. PhaseInv'
  BY SMTT(30), <1>0, <1>2, <1>3, <1>6, <1>7, <1>b DEF PhaseInv
<1> QED
  BY <1>5, <1>8 DEF SampleInv

\* The differences are computed from two complete samples.
LEMMA SampleCompute == SampleInv /\ Compute => SampleInv'
<1> SUFFICES ASSUME SampleInv, Compute PROVE SampleInv'
  OBVIOUS
<1>b. BaseInv /\ PhaseInv
  BY DEF SampleInv
<1>0. /\ mask' = mask /\ ticks' = ticks /\ tpc = "comp" /\ tpc' \in {"print", "overrun"}
      /\ num' = num /\ seen' = seen /\ usage' = [c \in 0..num |-> Shares(diff'[c])]
      /\ diff' = [c \in 0..num |-> [k \in NR_STATS |->
                                      Minus(cpustat[2][c][k], cpustat[1][c][k])]]
  BY DEF Compute, guestCpu
<1>1. Ticked' = Ticked
  BY <1>0 DEF Ticked
<1>2. /\ num \in 0..MaxCpus /\ cpustat[1] \in [0..num -> Row] /\ cpustat[2] \in [0..num -> Row]
      /\ ticks \in Ticks /\ seen.start \in Ticks /\ seen.slept \in Ticks /\ seen.woken \in Ticks
      /\ SumBelow([c \in Cpus |-> Total(ticks[c])])[MaxCpus] <= MaxTicks
  <2>1. /\ num \in 0..MaxCpus /\ ticks \in Ticks /\ Ticked <= MaxTicks
        /\ cpustat \in [1..2 -> [0..num -> Row]]
        /\ seen \in [start : Ticks, slept : Ticks, woken : Ticks]
    BY ZenonT(30), <1>0, <1>b DEF BaseInv
  <2>s. 1 \in 1..2 /\ 2 \in 1..2
    BY SMTT(30)
  <2>2. cpustat[1] \in [0..num -> Row] /\ cpustat[2] \in [0..num -> Row]
    BY <2>1, <2>s
  <2>3. seen.start \in Ticks /\ seen.slept \in Ticks /\ seen.woken \in Ticks
    BY <2>1
  <2>4. SumBelow([c \in Cpus |-> Total(ticks[c])])[MaxCpus] <= MaxTicks
    BY <2>1 DEF Ticked
  <2> QED
    BY ZenonT(30), <2>1, <2>2, <2>3, <2>4
<1>3. /\ Le(seen.slept, seen.woken)
      /\ Sampled(cpustat[1], num, num, seen.start, seen.slept)
      /\ Sampled(cpustat[2], num, num, seen.woken, ticks)
  BY <1>0, <1>b DEF PhaseInv, First
<1>4. Right(diff', num, seen.start, seen.slept, seen.woken, ticks)
  BY ZenonT(30), <1>0, <1>2, <1>3, DiffRight
<1>5. BaseInv'
  BY ZenonT(30), <1>0, <1>1, <1>b DEF BaseInv
<1>6. PhaseInv'
  BY ZenonT(30), <1>0, <1>4 DEF PhaseInv
<1> QED
  BY <1>5, <1>6 DEF SampleInv

\* The thread ends, and nothing is left of its samples.
LEMMA SamplePrint == SampleInv /\ PrintUsage => SampleInv'
<1> SUFFICES ASSUME SampleInv, PrintUsage PROVE SampleInv'
  OBVIOUS
<1>b. BaseInv
  BY DEF SampleInv
<1>0. /\ mask' = mask /\ ticks' = ticks /\ tpc' = "none" /\ num' = 0 /\ pass' = 1 /\ cpu' = 0
      /\ i' = 1 /\ usage' = <<>> /\ seen' = NotSeen
  BY DEF PrintUsage, guestCpu
<1>1. Ticked' = Ticked
  BY <1>0 DEF Ticked
<1>2. 0 \in 0..MaxCpus
  BY SMTT(30), CpuAssumption, WordAssumption
<1>3. NotSeen \in [start : Ticks, slept : Ticks, woken : Ticks]
  BY NoTicksType DEF NotSeen
<1>4. BaseInv'
  BY ZenonT(30), <1>0, <1>1, <1>2, <1>3, <1>b DEF BaseInv
<1>5. PhaseInv'
  BY <1>0 DEF PhaseInv
<1> QED
  BY <1>4, <1>5 DEF SampleInv

\* Every step of the guest and of the thread keeps the invariant.
LEMMA SampleNext == SampleInv /\ [CpuNext]_cpuVars => SampleInv'
<1> SUFFICES ASSUME SampleInv, [CpuNext]_cpuVars PROVE SampleInv'
  OBVIOUS
<1>1. mask \in SUBSET Cpus
  BY DEF SampleInv, BaseInv
<1>2. CASE SetPossible
  BY ZenonT(30), <1>1, <1>2, SampleKept DEF SetPossible, sampling
<1>3. CASE cpu_usage_handle
  BY ZenonT(30), <1>1, <1>3, SampleKept DEF cpu_usage_handle, guestCpu, sampling
<1>4. CASE SizeStat
  BY ZenonT(30), <1>1, <1>4, SampleKept DEF SizeStat, guestCpu, sampling
<1>5. CASE Overrun \/ UNCHANGED cpuVars
  BY ZenonT(30), <1>1, <1>5, SampleKept DEF Overrun, cpuVars, guestCpu, sampling
<1> QED
  BY ZenonT(30), <1>2, <1>3, <1>4, <1>5, SampleTick, SampleCount, SampleLoad, SampleEnd,
     SampleWake,
     SampleCompute, SamplePrint DEF CpuNext

\* What top prints for a CPU covers all ticks of the sleep and none from outside
\* the command, and the line cpu_usage_thread takes for the average covers the
\* CPUs of the other lines, for any number of CPUs and however the guest ticks
\* between the loads.
THEOREM SamplesBounded == CpuInit /\ [][CpuNext]_cpuVars => []SampleBounds
<1>1. SampleInv /\ RowsInv => SampleBounds
  <2> SUFFICES ASSUME SampleInv, RowsInv, tpc = "print" PROVE SampleBounds
    BY DEF SampleBounds
  <2>1. Right(diff, num, seen.start, seen.slept, seen.woken, ticks)
    BY ZenonT(30) DEF SampleInv, PhaseInv
  <2>2. num = rows
    BY DEF RowsInv
  <2> QED
    BY ZenonT(30), <2>1, <2>2 DEF Right, SampleBounds
<1> QED
  BY <1>1, SampleInit, SampleNext, RowsInit, RowsNext, PTL

\* The shares of every line of top add up to 100%, whichever counters wrapped.
THEOREM SharesSum == CpuInit /\ [][CpuNext]_cpuVars => []SharesAddUp
<1>1. SampleInv => SharesAddUp
  <2> SUFFICES ASSUME SampleInv, NEW c \in DOMAIN usage
               PROVE  LET u == usage[c]
                      IN  /\ u["USER"] + u["SYSTEM"] + u["IDLE"] + u["IOWAIT"] + u["STEAL"]
                               = u["TOTAL"]
                          /\ u["NICE"] <= u["USER"] /\ u["IRQ"] + u["SOFTIRQ"] <= u["SYSTEM"]
    BY DEF SharesAddUp
  <2>1. CASE usage = <<>>
    BY SMTT(30), <2>1
  <2>2. CASE tpc \in {"print", "overrun"}
    <3>1. /\ Right(diff, num, seen.start, seen.slept, seen.woken, ticks)
          /\ usage = [x \in 0..num |-> Shares(diff[x])]
      BY <2>2 DEF SampleInv, PhaseInv
    <3>2. c \in 0..num /\ usage[c] = Shares(diff[c])
      BY <3>1
    <3>3. diff[c] \in [NR_STATS -> Nat] /\ diff[c]["TOTAL"] = Total(diff[c])
          /\ diff[c]["TOTAL"] < Word
      BY <3>1, <3>2 DEF Right
    <3> QED
      BY <3>2, <3>3, SharesRight
  <2> QED
    BY ZenonT(30), <2>1, <2>2 DEF SampleInv, BaseInv
<1> QED
  BY <1>1, SampleInit, SampleNext, PTL

=============================================================================
