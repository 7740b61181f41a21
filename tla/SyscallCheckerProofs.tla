------------------------ MODULE SyscallCheckerProofs ------------------------
(***************************************************************************)
(* What bounds the checker's scan, and that it raises no false alarm, for  *)
(* tables of any length and whatever the guest stores in them; and, as     *)
(* long as the guest only replaces handlers by handlers, that the scan     *)
(* stays within the copy.                                                  *)
(***************************************************************************)
EXTENDS SyscallChecker, TLAPS

\* Entry i of the copy differs from the guest's only if the guest stored to it
\* later.
CopyExplained(i) ==
  syscall_table_hva[i] # syscall_table_shadow[i] => i \in touched

\* The thread has compared an entry, or is about to, behind the copy.
PastCopy ==
  \/ cpc = "scan" /\ sys_num > syscall_table_size
  \/ /\ cpc \in {"compare", "alert", "repair", "prompt"}
     /\ sys_num >= syscall_table_size

\* The inductive invariant.  The entry the count ended at is zero unless the
\* guest stored to it; the copy is complete when the thread is created; and
\* the thread exists only after that.
IInv ==
  /\ TypeOK
  /\ syscall_table_hva[TableLen] = 0
  /\ mpc \in {"size", "copy", "create"} => is_check_started = 0
  /\ cpc # "none" => is_check_started = 1
  /\ mpc \in {"copy", "create"} \/ cpc # "none" =>
       syscall_table_hva[syscall_table_size] = 0 \/ syscall_table_size \in touched
  /\ mpc = "copy" => \A i \in Entries : i < n => CopyExplained(i)
  /\ mpc = "create" \/ cpc # "none" =>
       \A i \in Entries : i < syscall_table_size => CopyExplained(i)
  /\ cpc \in {"compare", "alert", "repair", "prompt"} => sys_num < TableLen
  /\ PastCopy => syscall_table_size \in touched
  /\ cpc \in {"alert", "repair"} /\ sys_num < syscall_table_size => sys_num \in touched

\* The invariant holds before the first command.
LEMMA IInit == Init => IInv
<1> SUFFICES ASSUME Init PROVE IInv
  OBVIOUS
<1>1. TypeOK
  <2>1. 0 \in Slots /\ syscall_table_shadow \in [Slots -> Words]
    BY TableAssumption DEF Init, Slots, Words
  <2>2. QED
    BY ZenonT(30), <2>1 DEF Init, TypeOK
<1>2. syscall_table_hva[TableLen] = 0
  BY TableAssumption DEF Init, Slots
<1>3. QED
  BY <1>1, <1>2 DEF Init, IInv, PastCopy

\* Every step keeps it.
LEMMA INext == IInv /\ [Next]_vars => IInv'
<1> SUFFICES ASSUME IInv, [Next]_vars PROVE IInv'
  OBVIOUS
<1> USE TableAssumption DEF IInv, TypeOK, Slots, Entries, Words, CopyExplained, PastCopy,
                            guestVars, backupVars
<1>1. ASSUME NEW i \in Entries, NEW w \in GuestWrites, GuestStore(i, w)
      PROVE  IInv'
  BY <1>1 DEF GuestStore
<1>2. CASE StartCommand
  BY <1>2 DEF StartCommand
<1>3. CASE StartSize
  <2>1. mpc = "size" /\ cpc = "none" /\ n \in Slots
    BY <1>3 DEF StartSize
  <2>2. CASE syscall_table_hva[n] # 0
    <3>1. n' = n + 1 /\ n' \in Slots
          /\ UNCHANGED <<guestVars, backupVars, is_check_started, mpc, cpc, sys_num, cancelled>>
      BY <1>3, <2>1, <2>2 DEF StartSize
    <3>2. QED
      BY <2>1, <3>1
  <2>3. CASE syscall_table_hva[n] = 0
    <3>1. /\ n' = 0 /\ mpc' = "copy" /\ syscall_table_size' = n /\ touched' = touched \ {n}
          /\ UNCHANGED <<syscall_table_hva, syscall_table_shadow, is_check_started, cpc,
                         sys_num, cancelled>>
      BY <1>3, <2>3 DEF StartSize
    <3>2. QED
      BY <2>1, <2>3, <3>1
  <2>4. QED
    BY <2>2, <2>3
<1>4. CASE StartCopy
  <2>1. CASE n < syscall_table_size
    <3>1. n \in Entries /\ mpc = "copy" /\ cpc = "none"
      BY <1>4, <2>1 DEF StartCopy
    <3>2. /\ syscall_table_shadow' =
               [syscall_table_shadow EXCEPT ![n] = syscall_table_hva[n]]
          /\ touched' = touched \ {n}
          /\ n' = n + 1
          /\ UNCHANGED <<syscall_table_hva, syscall_table_size, is_check_started,
                         mpc, cpc, sys_num, cancelled>>
      BY <1>4, <2>1 DEF StartCopy
    <3>3. \A i \in Entries : i < n' => CopyExplained(i)'
      BY <3>1, <3>2
    <3>4. TypeOK'
      BY <3>1, <3>2
    <3>5. syscall_table_hva[syscall_table_size] = 0 \/ syscall_table_size \in touched'
      BY <2>1, <3>1, <3>2
    <3>6. QED
      BY <3>1, <3>2, <3>3, <3>4, <3>5
  <2>2. CASE ~(n < syscall_table_size)
    <3>1. /\ mpc = "copy" /\ mpc' = "create" /\ cpc = "none"
          /\ UNCHANGED <<guestVars, backupVars, is_check_started, n, cpc, sys_num,
                         cancelled>>
      BY <1>4, <2>2 DEF StartCopy
    <3>2. \A i \in Entries : i < syscall_table_size => CopyExplained(i)
      BY <2>2, <3>1
    <3>3. QED
      BY <3>1, <3>2
  <2>3. QED
    BY <2>1, <2>2
<1>5. CASE StartCreate
  BY <1>5 DEF StartCreate
<1>6. CASE StopCancel \/ StopDangling \/ StopJoin
  BY ZenonT(30), <1>6 DEF StopCancel, StopDangling, StopJoin, vars
<1>7. CASE Wake \/ Alert \/ Prompt \/ Cancel
  <2>1. CASE Wake
    BY <2>1 DEF Wake
  <2>2. CASE Alert
    BY <2>2 DEF Alert
  <2>3. CASE Prompt
    BY <2>3 DEF Prompt
  <2>4. CASE Cancel
    BY <2>4 DEF Cancel
  <2>5. QED
    BY <1>7, <2>1, <2>2, <2>3, <2>4
<1>8. CASE Scan
  BY <1>8 DEF Scan
<1>9. CASE Compare
  BY <1>9 DEF Compare, ShadowLoad
<1>10. CASE Repair
  BY <1>10 DEF Repair, ShadowLoad
<1>11. CASE UNCHANGED vars
  BY <1>11 DEF vars
<1>12. QED
  BY <1>1, <1>2, <1>3, <1>4, <1>5, <1>6, <1>7, <1>8, <1>9, <1>10, <1>11
  DEF Next, MonitorNext, MonitorStep, CheckerNext, StartRefused, StopRefused

\* Every variable stays in its set; the loops of syscall_checker_start and of
\* thread_func stay within the table and the zero behind it.
THEOREM TypeCorrect == Spec => []TypeOK
<1>1. IInv => TypeOK
  BY DEF IInv
<1>2. QED
  BY <1>1, INext, IInit, PTL DEF Spec

\* The loop of thread_func, which ends only at a zero, compares with and
\* restores from memory behind the copy only after the guest has stored to the
\* entry that was zero when syscall_checker_start counted.
THEOREM ScanConfined == Spec => []ScanWithinCopy
<1>1. IInv => ScanWithinCopy
  BY TableAssumption DEF IInv, TypeOK, Slots, PastCopy, ScanWithinCopy
<1>2. QED
  BY <1>1, INext, IInit, PTL DEF Spec

\* Every alert of thread_func about an entry it has a copy of is about one the
\* guest has stored to.
THEOREM AlarmsTrue == Spec => []NoFalseAlarm
<1>1. IInv => NoFalseAlarm
  BY DEF IInv, NoFalseAlarm
<1>2. QED
  BY <1>1, INext, IInit, PTL DEF Spec

-----------------------------------------------------------------------------
(* A guest that stores no zero.                                            *)

\* The guest's table ends where it always ended, so the size the start command
\* counted is the true one, and the copy holds no zero either.
Full ==
  /\ \A i \in Entries : syscall_table_hva[i] # 0
  /\ mpc \in {"copy", "create"} \/ cpc # "none" => syscall_table_size = TableLen
  /\ mpc = "copy" => \A i \in Entries : i < n => syscall_table_shadow[i] # 0
  /\ mpc = "create" \/ cpc # "none" => \A i \in Entries : syscall_table_shadow[i] # 0

\* Every step keeps that.
LEMMA FullNext ==
  ASSUME 0 \notin GuestWrites, IInv, Full, [Next]_vars
  PROVE  Full'
<1> USE TableAssumption DEF Full, IInv, TypeOK, Slots, Entries, Words
<1>1. CASE \E i \in Entries, w \in GuestWrites : GuestStore(i, w)
  BY <1>1 DEF GuestStore, backupVars
<1>2. CASE StartCommand \/ StartCreate \/ StopCancel \/ StopDangling \/ StopJoin
  BY <1>2 DEF StartCommand, StartCreate, StopCancel, StopDangling, StopJoin, guestVars,
     backupVars, vars
<1>3. CASE StartSize
  BY <1>3 DEF StartSize
<1>4. CASE StartCopy
  BY <1>4 DEF StartCopy
<1>5. CASE Wake \/ Scan \/ Compare \/ Alert \/ Prompt \/ Cancel
  BY <1>5 DEF Wake, Scan, Compare, Alert, Prompt, Cancel, guestVars, backupVars
<1>6. CASE Repair
  BY <1>6 DEF Repair, ShadowLoad, backupVars
<1>7. CASE UNCHANGED vars
  BY <1>7 DEF vars, guestVars, backupVars
<1>8. QED
  BY <1>1, <1>2, <1>3, <1>4, <1>5, <1>6, <1>7
  DEF Next, MonitorNext, MonitorStep, CheckerNext, StartRefused, StopRefused

\* If the guest never stores a zero in its table, thread_func compares with and
\* restores from copied entries only, which is what the comment above the
\* allocation of the copy says.
THEOREM ScanBounded ==
  ASSUME 0 \notin GuestWrites
  PROVE  Spec => []ScanInBounds
<1>1. Init => Full
  BY TableAssumption DEF Init, Full, Slots, Entries
<1>2. IInv /\ Full /\ [Next]_vars => Full'
  BY FullNext
<1>3. IInv /\ Full => ScanInBounds
  BY DEF IInv, Full, ScanInBounds
<1>4. QED
  BY <1>1, <1>2, <1>3, IInit, INext, PTL DEF Spec

=============================================================================
