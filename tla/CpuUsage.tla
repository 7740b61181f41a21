------------------------------- MODULE CpuUsage -------------------------------
(***************************************************************************)
(* The command top: a thread reads every CPU's time counters out of guest  *)
(* memory, sleeps, reads them again and prints what the time went to.      *)
(* Nothing stops the guest: a counter may tick between any two loads, and  *)
(* a guest that boots may still be announcing CPUs.                        *)
(*                                                                         *)
(* Threads of several commands have everything on their own stacks, so one *)
(* thread is enough.  A percentage is its numerator and denominator.       *)
(***************************************************************************)
EXTENDS Words, FiniteSetsExt

CONSTANTS
  MaxCpus,    \* bound: CPUs of the guest
  MaxTicks    \* bound: ticks of the guest, over all counters

ASSUME CpuAssumption ==
  MaxCpus \in Nat \ {0} /\ MaxTicks \in Nat /\ MaxTicks < Word

VARIABLES
  mask,       \* cpu_possible_mask, as a set of bits
  ticks,      \* how often each counter of each CPU has ticked
  tpc,        \* where the thread is
  rows,       \* num_cpu of cpu_usage_thread: the size of stat, less one
  num,        \* num_cpu of comp_cpu_usage
  pass,       \* which of cpustat1 and cpustat2 is being filled
  cpu, i,     \* the loop of get_cpustat, and the counter it is at
  cpustat,    \* cpustat1 and cpustat2
  diff,       \* cpustat_diff
  usage,      \* stat, the result
  seen        \* ghost: ticks at the start, before and after the sleep

guestCpu == <<mask, ticks>>
sampling == <<pass, cpu, i>>
cpuVars == <<guestCpu, tpc, rows, num, sampling, cpustat, diff, usage, seen>>

\* The counters, in the order of the loads in get_cpustat.
Stats == <<"USER", "NICE", "SYSTEM", "IDLE", "IOWAIT", "IRQ", "SOFTIRQ", "STEAL">>
Kinds == {Stats[n] : n \in 1..8}
NR_STATS == Kinds \cup {"TOTAL"}
Cpus == 0..(MaxCpus - 1)

\* Every counter is about to wrap.
Counter(c, k) == (Word - 1 + ticks[c][k]) % Word

ZeroRow == [k \in NR_STATS |-> 0]
Total(row) == row["USER"] + row["NICE"] + row["SYSTEM"] + row["IDLE"]
                + row["IOWAIT"] + row["IRQ"] + row["SOFTIRQ"] + row["STEAL"]

NoTicks == [c \in Cpus |-> [k \in Kinds |-> 0]]
Ticked == SumBelow([c \in Cpus |-> Total(ticks[c])])[MaxCpus]
NotSeen == [start |-> NoTicks, slept |-> NoTicks, woken |-> NoTicks]

CpuInit ==
  /\ mask = {} /\ ticks = NoTicks /\ tpc = "none"
  /\ rows = 0 /\ num = 0 /\ pass = 1 /\ cpu = 0 /\ i = 1
  /\ cpustat = <<<<>>, <<>>>> /\ diff = <<>> /\ usage = <<>> /\ seen = NotSeen

-----------------------------------------------------------------------------
(* The guest.                                                              *)

\* A booting guest announces a CPU.
SetPossible ==
  /\ \E c \in Cpus \ mask : mask' = mask \cup {c}
  /\ UNCHANGED <<ticks, tpc, rows, num, sampling, cpustat, diff, usage, seen>>

\* A timer interrupt accounts for the time a CPU has spent.
Tick ==
  /\ Ticked < MaxTicks
  /\ \E c \in mask, k \in Kinds : ticks' = [ticks EXCEPT ![c][k] = @ + 1]
  /\ UNCHANGED <<mask, tpc, rows, num, sampling, cpustat, diff, usage, seen>>

-----------------------------------------------------------------------------
(* The thread.                                                             *)

\* get_cpu_num shifts the mask until nothing is left: the highest bit counts.
get_cpu_num == IF mask = {} THEN 0 ELSE Max(mask) + 1

\* cpu_usage_handle: the thread may not come into being.
cpu_usage_handle ==
  /\ tpc \in {"none", "failed"}
  /\ tpc' \in {"rows", "failed"}
  /\ seen' = IF tpc' = "rows" THEN [seen EXCEPT !.start = ticks] ELSE seen
  /\ UNCHANGED <<guestCpu, rows, num, sampling, cpustat, diff, usage>>

\* cpu_usage_thread makes room for the result.
SizeStat ==
  /\ tpc = "rows"
  /\ rows' = get_cpu_num
  /\ tpc' = "num"
  /\ UNCHANGED <<guestCpu, num, sampling, cpustat, diff, usage, seen>>

\* comp_cpu_usage counts the CPUs again, for its own arrays.
CountCpus ==
  /\ tpc = "num"
  /\ num' = get_cpu_num
  /\ cpustat' = [n \in 1..2 |-> [c \in 0..num' |-> ZeroRow]]
  /\ tpc' = "sample"
  /\ UNCHANGED <<guestCpu, rows, sampling, diff, usage, seen>>

\* A counter of CPU cpu is loaded, from CPU from; with the last one the total is
\* formed, and all of it added to the row for the average.
LoadFrom(from) ==
  /\ tpc = "sample"
  /\ cpu < num
  /\ LET row == [cpustat[pass][cpu] EXCEPT ![Stats[i]] = Counter(from, Stats[i])]
         all == [row EXCEPT !["TOTAL"] = Total(row) % Word]
         sum == [k \in NR_STATS |-> (cpustat[pass][num][k] + all[k]) % Word]
     IN  cpustat' = [cpustat EXCEPT ![pass] = IF i < 8 THEN [@ EXCEPT ![cpu] = row]
                                              ELSE [@ EXCEPT ![cpu] = all, ![num] = sum]]
  /\ i' = (i % 8) + 1
  /\ cpu' = IF i < 8 THEN cpu ELSE cpu + 1
  /\ UNCHANGED <<guestCpu, tpc, rows, num, pass, diff, usage, seen>>

\* Mutant: __per_cpu_offset is not indexed.
LoadCounterFirstCpu == LoadFrom(0)

LoadCounter == LoadFrom(cpu)

\* get_cpustat returns: the thread sleeps, or has both samples.
EndSample ==
  /\ tpc = "sample"
  /\ cpu = num
  /\ tpc' = IF pass = 1 THEN "sleep" ELSE "comp"
  /\ seen' = IF pass = 1 THEN [seen EXCEPT !.slept = ticks] ELSE seen
  /\ UNCHANGED <<guestCpu, rows, num, sampling, cpustat, diff, usage>>

Wake ==
  /\ tpc = "sleep"
  /\ tpc' = "sample" /\ pass' = 2 /\ cpu' = 0 /\ i' = 1
  /\ seen' = [seen EXCEPT !.woken = ticks]
  /\ UNCHANGED <<guestCpu, rows, num, cpustat, diff, usage>>

Minus(a, b) == (a - b) % Word

\* Mutant: time in interrupts is left out of %sy.
SharesNoIrq(d) ==
  IF d["TOTAL"] = 0 THEN [ZeroRow EXCEPT !["IDLE"] = 1, !["TOTAL"] = 1]
  ELSE [d EXCEPT !["USER"] = (@ + d["NICE"]) % Word]

\* What the time went to, over "TOTAL": %us includes %ni, %sy both kinds of
\* interrupts; time that did not pass was idle.
Shares(d) ==
  IF d["TOTAL"] = 0 THEN [ZeroRow EXCEPT !["IDLE"] = 1, !["TOTAL"] = 1]
  ELSE [d EXCEPT !["USER"] = (@ + d["NICE"]) % Word,
                 !["SYSTEM"] = (@ + d["IRQ"] + d["SOFTIRQ"]) % Word]

\* The rest of comp_cpu_usage.  With more rows than stat has room for, it writes
\* past the end of stat, over the stack of its caller.
Compute ==
  /\ tpc = "comp"
  /\ diff' = [c \in 0..num |-> [k \in NR_STATS |-> Minus(cpustat[2][c][k], cpustat[1][c][k])]]
  /\ usage' = [c \in 0..num |-> Shares(diff'[c])]
  /\ tpc' = IF num > rows THEN "overrun" ELSE "print"
  /\ UNCHANGED <<guestCpu, rows, num, sampling, cpustat, seen>>

\* The lines are printed, and the thread ends.
PrintUsage ==
  /\ tpc = "print"
  /\ tpc' = "none"
  /\ rows' = 0 /\ num' = 0 /\ pass' = 1 /\ cpu' = 0 /\ i' = 1
  /\ cpustat' = <<<<>>, <<>>>> /\ diff' = <<>> /\ usage' = <<>> /\ seen' = NotSeen
  /\ UNCHANGED guestCpu

\* QEMU is in an undefined state.
Overrun == tpc = "overrun" /\ UNCHANGED cpuVars

CpuNext ==
  \/ SetPossible \/ Tick
  \/ cpu_usage_handle \/ SizeStat \/ CountCpus
  \/ LoadCounter \/ EndSample \/ Wake
  \/ Compute \/ PrintUsage \/ Overrun

-----------------------------------------------------------------------------
(* Properties.                                                             *)

\* The shares of every line comp_cpu_usage computes, that of the average
\* included, add up to 100%, whatever ticked between the loads and whichever
\* counters wrapped; %ni is part of %us, and %hi and %si are parts of %sy.
SharesAddUp ==
  \A c \in DOMAIN usage :
    LET u == usage[c]
    IN  /\ u["USER"] + u["SYSTEM"] + u["IDLE"] + u["IOWAIT"] + u["STEAL"] = u["TOTAL"]
        /\ u["NICE"] <= u["USER"] /\ u["IRQ"] + u["SOFTIRQ"] <= u["SYSTEM"]

\* What is printed: the line for a CPU covers all ticks of the sleep and none from
\* outside the command, and the line taken for the average, which cpu_usage_thread
\* picks by its own count of the CPUs, covers the CPUs of the other lines.
SampleBounds ==
  tpc = "print" =>
    /\ \A c \in 0..(rows - 1), k \in Kinds :
         diff[c][k] \in (seen.woken[c][k] - seen.slept[c][k])..(ticks[c][k] - seen.start[c][k])
    /\ \A k \in Kinds : diff[rows][k] = SumBelow([c \in 0..(rows - 1) |-> diff[c][k]])[rows]

=============================================================================
