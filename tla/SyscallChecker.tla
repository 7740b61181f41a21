--------------------------- MODULE SyscallChecker ---------------------------
(***************************************************************************)
(* The system call table checker of QEMU's plugin, syscall_checker.c.      *)
(*                                                                         *)
(* Three parties touch the guest's table: the guest, the monitor thread    *)
(* that copies it when the command "check_syscall start" is given, and the *)
(* checker thread that compares it with the copy every few seconds and     *)
(* puts differing entries back.  Nothing is locked.  "check_syscall stop"  *)
(* cancels the checker thread, which takes effect at a cancellation point: *)
(* in sleep, or where monitor_printf writes.                               *)
(***************************************************************************)
EXTENDS Integers

CONSTANTS
  TableLen,     \* entries of the guest's system call table
  Handlers,     \* addresses of system call handlers
  GuestWrites   \* what the guest stores in the table while it runs

ASSUME TableAssumption ==
  /\ TableLen \in Nat \ {0}
  /\ 0 \notin Handlers
  /\ GuestWrites \subseteq Handlers \cup {0}

VARIABLES
  syscall_table_hva,     \* the guest's memory from the table on
  touched,               \* entries the guest stored to since they were copied,
                         \* and since it was found zero, the one behind them
  syscall_table_shadow,  \* the copy
  syscall_table_size,    \* its length in entries
  is_check_started,
  mpc,                   \* where the monitor thread is
  n,                     \* its loop index
  cpc,                   \* where the checker thread is
  sys_num,               \* its loop index
  cancelled              \* pthread_cancel was called for the checker thread

guestVars  == <<syscall_table_hva, touched>>
backupVars == <<syscall_table_shadow, syscall_table_size>>
vars == <<guestVars, backupVars, is_check_started, mpc, n, cpc, sys_num,
          cancelled>>

Entries == 0..(TableLen - 1)
Slots   == 0..TableLen          \* the table and the zero behind it
Words   == Handlers \cup {0}

Init ==
  /\ syscall_table_hva \in [Slots -> Words]
  /\ \A i \in Slots : syscall_table_hva[i] = 0 <=> i = TableLen
  /\ touched = {}
  /\ syscall_table_shadow = [i \in Slots |-> 0]
  /\ syscall_table_size = 0
  /\ is_check_started = 0
  /\ mpc = "idle"
  /\ n = 0
  /\ cpc = "none"
  /\ sys_num = 0
  /\ cancelled = FALSE

-----------------------------------------------------------------------------
(* The guest.                                                              *)

GuestStore(i, w) ==
  /\ syscall_table_hva' = [syscall_table_hva EXCEPT ![i] = w]
  /\ touched' = touched \cup {i}
  /\ UNCHANGED <<backupVars, is_check_started, mpc, n, cpc, sys_num, cancelled>>

-----------------------------------------------------------------------------
(* The monitor thread.                                                     *)

StartRefused ==
  /\ mpc = "idle"
  /\ is_check_started = 1
  /\ UNCHANGED vars

StartCommand ==
  /\ mpc = "idle"
  /\ is_check_started = 0
  /\ mpc' = "size"
  /\ n' = 0
  /\ UNCHANGED <<guestVars, backupVars, is_check_started, cpc, sys_num,
                 cancelled>>

\* Mutant: the size is kept in bytes, as the code's variable is later on.
StartSizeBytes ==
  /\ mpc = "size"
  /\ IF syscall_table_hva[n] # 0
       THEN n' = n + 1 /\ UNCHANGED <<mpc, syscall_table_size, touched>>
       ELSE /\ n' = 0
            /\ mpc' = "copy"
            /\ syscall_table_size' = n * 8
            /\ touched' = touched \ {n}
  /\ UNCHANGED <<syscall_table_hva, syscall_table_shadow, is_check_started, cpc,
                 sys_num, cancelled>>

\* One round of the loop that counts the entries up to the first zero.
StartSize ==
  /\ mpc = "size"
  /\ IF syscall_table_hva[n] # 0
       THEN n' = n + 1 /\ UNCHANGED <<mpc, syscall_table_size, touched>>
       ELSE /\ n' = 0
            /\ mpc' = "copy"
            /\ syscall_table_size' = n
            /\ touched' = touched \ {n}
  /\ UNCHANGED <<syscall_table_hva, syscall_table_shadow, is_check_started, cpc,
                 sys_num, cancelled>>

\* Mutant: the copy is one entry short.
StartCopyShort ==
  /\ mpc = "copy"
  /\ IF n < syscall_table_size
       THEN /\ syscall_table_shadow' =
                 IF n < syscall_table_size - 1
                   THEN [syscall_table_shadow EXCEPT ![n] = syscall_table_hva[n]]
                   ELSE syscall_table_shadow
            /\ touched' = touched \ {n}
            /\ n' = n + 1
            /\ UNCHANGED mpc
       ELSE mpc' = "create" /\ UNCHANGED <<syscall_table_shadow, touched, n>>
  /\ UNCHANGED <<syscall_table_hva, syscall_table_size, is_check_started, cpc,
                 sys_num, cancelled>>

\* memcpy, entry by entry.
StartCopy ==
  /\ mpc = "copy"
  /\ IF n < syscall_table_size
       THEN /\ syscall_table_shadow' =
                 [syscall_table_shadow EXCEPT ![n] = syscall_table_hva[n]]
            /\ touched' = touched \ {n}
            /\ n' = n + 1
            /\ UNCHANGED mpc
       ELSE mpc' = "create" /\ UNCHANGED <<syscall_table_shadow, touched, n>>
  /\ UNCHANGED <<syscall_table_hva, syscall_table_size, is_check_started, cpc,
                 sys_num, cancelled>>

\* pthread_create, which may fail; is_check_started is set when it did not.
StartCreate ==
  /\ mpc = "create"
  /\ mpc' = "idle"
  /\ \/ is_check_started' = 1 /\ cpc' = "sleep"
     \/ UNCHANGED <<is_check_started, cpc>>
  /\ UNCHANGED <<guestVars, backupVars, n, sys_num, cancelled>>

StopRefused ==
  /\ mpc = "idle"
  /\ is_check_started = 0
  /\ UNCHANGED vars

\* pthread_cancel(tid).
StopCancel ==
  /\ mpc = "idle"
  /\ is_check_started = 1
  /\ cpc # "none"
  /\ cancelled' = TRUE
  /\ mpc' = "join"
  /\ UNCHANGED <<guestVars, backupVars, is_check_started, n, cpc, sys_num>>

\* pthread_cancel(tid) after the thread was joined: tid is dangling.  The call
\* fails and the command returns, or tid now names another thread of QEMU,
\* which is cancelled and joined instead; nothing of the checker changes.
StopDangling ==
  /\ mpc = "idle"
  /\ is_check_started = 1
  /\ cpc = "none"
  /\ UNCHANGED vars

\* pthread_join returns; is_check_started stays as it is.
StopJoin ==
  /\ mpc = "join"
  /\ cpc = "exited"
  /\ mpc' = "idle"
  /\ cpc' = "none"
  /\ cancelled' = FALSE
  /\ UNCHANGED <<guestVars, backupVars, is_check_started, n, sys_num>>

MonitorStep == StartSize \/ StartCopy \/ StartCreate \/ StopJoin
MonitorNext == \/ StartRefused \/ StartCommand \/ StopRefused
               \/ StopCancel \/ StopDangling
               \/ MonitorStep

-----------------------------------------------------------------------------
(* The checker thread, thread_func.                                        *)

\* Mutant: the scan starts at entry 1.
WakeAtOne ==
  /\ cpc = "sleep"
  /\ ~cancelled
  /\ cpc' = "scan"
  /\ sys_num' = 1
  /\ UNCHANGED <<guestVars, backupVars, is_check_started, mpc, n, cancelled>>

\* sleep returns and sys_num is 0.
Wake ==
  /\ cpc = "sleep"
  /\ ~cancelled
  /\ cpc' = "scan"
  /\ sys_num' = 0
  /\ UNCHANGED <<guestVars, backupVars, is_check_started, mpc, n, cancelled>>

\* Mutant: the loop looks at one entry more than there are.
ScanPastEnd ==
  /\ cpc = "scan"
  /\ cpc' = IF sys_num <= TableLen THEN "compare" ELSE "sleep"
  /\ UNCHANGED <<guestVars, backupVars, is_check_started, mpc, n, sys_num,
                 cancelled>>

\* The loop condition: the first load of the entry.
Scan ==
  /\ cpc = "scan"
  /\ cpc' = IF syscall_table_hva[sys_num] # 0 THEN "compare" ELSE "sleep"
  /\ UNCHANGED <<guestVars, backupVars, is_check_started, mpc, n, sys_num,
                 cancelled>>

\* What a load of shadow entry i may give: beyond the end, anything.
ShadowLoad(i) ==
  IF i < syscall_table_size THEN {syscall_table_shadow[i]} ELSE Words

\* The comparison: the second load of the entry.
Compare ==
  /\ cpc = "compare"
  /\ \E w \in ShadowLoad(sys_num) :
       IF syscall_table_hva[sys_num] # w
         THEN cpc' = "alert" /\ UNCHANGED sys_num
         ELSE cpc' = "scan" /\ sys_num' = sys_num + 1
  /\ UNCHANGED <<guestVars, backupVars, is_check_started, mpc, n, cancelled>>

Alert ==
  /\ cpc = "alert"
  /\ cpc' = "repair"
  /\ UNCHANGED <<guestVars, backupVars, is_check_started, mpc, n, sys_num,
                 cancelled>>

Repair ==
  /\ cpc = "repair"
  /\ \E w \in ShadowLoad(sys_num) :
       syscall_table_hva' = [syscall_table_hva EXCEPT ![sys_num] = w]
  /\ cpc' = "prompt"
  /\ UNCHANGED <<touched, backupVars, is_check_started, mpc, n, sys_num,
                 cancelled>>

\* The prompt is printed again; sys_num++.
Prompt ==
  /\ cpc = "prompt"
  /\ cpc' = "scan"
  /\ sys_num' = sys_num + 1
  /\ UNCHANGED <<guestVars, backupVars, is_check_started, mpc, n, cancelled>>

\* Mutant: the thread is never at a cancellation point.
CancelIgnored ==
  /\ cpc = "sleep"
  /\ cancelled
  /\ cpc' = "scan"
  /\ sys_num' = 0
  /\ UNCHANGED <<guestVars, backupVars, is_check_started, mpc, n, cancelled>>

\* A pending cancellation takes effect.
Cancel ==
  /\ cpc \in {"sleep", "alert", "prompt"}
  /\ cancelled
  /\ cpc' = "exited"
  /\ UNCHANGED <<guestVars, backupVars, is_check_started, mpc, n, sys_num,
                 cancelled>>

CheckerNext == Wake \/ Scan \/ Compare \/ Alert \/ Repair \/ Prompt \/ Cancel

-----------------------------------------------------------------------------
Next ==
  \/ \E i \in Entries, w \in GuestWrites : GuestStore(i, w)
  \/ MonitorNext
  \/ CheckerNext

\* The host schedules both threads; a command once begun runs on.
Fairness == WF_vars(MonitorStep) /\ WF_vars(CheckerNext)

Spec == Init /\ [][Next]_vars /\ Fairness

-----------------------------------------------------------------------------
(* Properties.                                                             *)

\* Every variable stays in its set; in particular both loop indices stay
\* within the guest's table and the zero behind it.
TypeOK ==
  /\ syscall_table_hva \in [Slots -> Words]
  /\ touched \subseteq Entries
  /\ syscall_table_shadow \in [Slots -> Words]
  /\ syscall_table_size \in Slots
  /\ is_check_started \in {0, 1}
  /\ mpc \in {"idle", "size", "copy", "create", "join"}
  /\ n \in Slots
  /\ cpc \in {"none", "sleep", "scan", "compare", "alert", "repair", "prompt",
              "exited"}
  /\ sys_num \in Slots
  /\ cancelled \in BOOLEAN

\* "The thread created later would periodically compare entries from both
\* table": a comparison, and a repair, uses an entry that was backed up.  The
\* scan itself is bounded by the guest's table alone.
ScanInBounds ==
  cpc \in {"compare", "alert", "repair", "prompt"} => sys_num < syscall_table_size

\* What bounds the scan instead: it compares, and repairs, behind the end of
\* the copy only where the guest has since stored to the entry that was found
\* zero when the copy was sized.
ScanWithinCopy ==
  cpc \in {"compare", "alert", "repair", "prompt"} =>
    sys_num < syscall_table_size \/ syscall_table_size \in touched

\* An alert about an entry that was copied is only raised if the guest has
\* stored to it since, however the copy and the scan interleave with the
\* guest's stores.
NoFalseAlarm ==
  cpc \in {"alert", "repair"} /\ sys_num < syscall_table_size => sys_num \in touched

\* A copied entry that differs from its copy while the checker runs is put
\* back, unless the checker is stopped, or a zero shows in the table at the
\* entry or before it.  The scan ends at the first zero, so a zeroed entry is
\* never put back, and while it is zero no entry behind it is.
HookRepaired ==
  \A i \in Entries :
    (/\ cpc # "none"
     /\ i < syscall_table_size
     /\ syscall_table_hva[i] # syscall_table_shadow[i])
      ~> (\/ syscall_table_hva[i] = syscall_table_shadow[i]
          \/ cancelled
          \/ \E z \in 0..i : syscall_table_hva[z] = 0)

\* "check_syscall stop" comes back: the cancelled thread reaches a
\* cancellation point even if every entry is being modified meanwhile.
StopReturns == mpc = "join" ~> mpc = "idle"

=============================================================================
