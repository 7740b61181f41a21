-------------------------------- MODULE MCUsage --------------------------------
(***************************************************************************)
(* Model of top and free.  The two share nothing, so that a behaviour is   *)
(* about one of them.                                                      *)
(***************************************************************************)
EXTENDS CpuUsage, MemUsage

VARIABLE command

MCBdevs == <<"sda", "sdb">>
MCSwaps == <<"swap0", "swap1">>

Init == CpuInit /\ MemInit /\ command \in {"top", "free"}

Next ==
  \/ command = "top" /\ CpuNext /\ UNCHANGED <<memVars, command>>
  \/ command = "free" /\ MemNext /\ UNCHANGED <<cpuVars, command>>

Spec == Init /\ [][Next]_<<cpuVars, memVars, command>>

=============================================================================
