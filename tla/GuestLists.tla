----------------------------- MODULE GuestLists -----------------------------
(***************************************************************************)
(* The commands that follow the guest kernel's linked lists: list_tasks    *)
(* (tasks.c), list_modules (module.c), print_hostname (configuration.c)    *)
(* and print_net_device (net.c), with the host list they build and free    *)
(* (list.h).                                                               *)
(*                                                                         *)
(* The guest runs meanwhile.  It links tasks, modules and devices, unlinks *)
(* them, which leaves the next field of what is unlinked as it was, frees  *)
(* them and reuses the memory.  Every load of a command from guest memory  *)
(* is a step.  What a load from freed memory, or of a value never set,     *)
(* leads to is pc = "wild": anything may follow.                           *)
(*                                                                         *)
(* A task's page table is named by the task.  Host entries are numbered in *)
(* the order they are allocated; 0 is the list head.                       *)
(***************************************************************************)
EXTENDS Integers, Sequences

CONSTANTS
  Tasks, Mods, Devs,      \* addresses of task_struct, module, net_device
  init_task, modules, dev_base_head, \* init_task.tasks, modules, dev_base_head
  NULL,
  Junk,                   \* an old value found in freed memory
  MaxBirths,              \* bound: objects the guest links
  MaxItems                \* bound: rounds of one walk

VARIABLES
  gnext,    \* the guest's next fields
  linked,   \* what is on a guest list
  freed,    \* memory the guest has freed
  user,     \* tasks with an mm_struct: processes, not kernel threads
  births,   \* how many objects the guest has linked
  cmd,      \* the command that runs
  pc,       \* where it is
  whead,    \* the guest list it follows
  cur,      \* *_gva: where it is on that list
  cr3v,     \* the local cr3 of traverse_tasks
  cr3,      \* the cr3 of traverse_modules and get_hostname
  item,     \* what it has read: node and cr3, by entry number
  hnext,    \* the next fields of the host list
  hprev,    \* the prev fields
  live,     \* host entries allocated and not freed
  pos,      \* the cursor of list_for_each_entry
  since,    \* ghost: linked all the time since the walk began
  ever,     \* ghost: linked at some time since the walk began
  steady,   \* ghost: processes all the time since the command began
  exited,   \* ghost: some page table has gone since the command began
  reused    \* ghost: memory in ever was linked a second time

guestVars == <<gnext, linked, freed, user, births>>
hostVars  == <<hnext, hprev, live, pos>>
ghostVars == <<since, ever, steady, exited, reused>>
vars == <<guestVars, cmd, pc, whead, cur, cr3v, cr3, item, hostVars, ghostVars>>

Nodes == Tasks \cup Mods \cup Devs
Heads == {init_task, modules, dev_base_head}
HeadOf(n) == IF n \in Tasks THEN init_task ELSE IF n \in Mods THEN modules ELSE dev_base_head
Entries == 1..MaxItems
Cells   == 0..MaxItems
Commands == {"list_tasks", "list_modules", "hostname", "ifconfig"}

ASSUME ListAssumption ==
  /\ MaxBirths \in Nat /\ MaxItems \in Nat
  /\ init_task # modules /\ init_task # dev_base_head /\ modules # dev_base_head
  /\ Heads \cap Nodes = {}
  /\ Tasks \cap Mods = {} /\ Tasks \cap Devs = {} /\ Mods \cap Devs = {}
  /\ NULL \notin Nodes \cup Heads \cup Commands
  /\ Junk \notin Nodes \cup Heads \cup {NULL}

OnList(h) == {n \in linked : HeadOf(n) = h}

Walking == pc \in {"mm", "pgd", "trans", "add", "next"}

Init ==
  /\ gnext = [n \in Nodes \cup Heads |-> IF n \in Heads THEN n ELSE NULL]
  /\ linked = {} /\ freed = Nodes /\ user = {} /\ births = 0
  /\ cmd = NULL /\ pc = "idle"
  /\ whead = init_task /\ cur = init_task /\ cr3v = NULL /\ cr3 = NULL /\ item = <<>>
  /\ hnext = [c \in Cells |-> 0] /\ hprev = [c \in Cells |-> 0]
  /\ live = {} /\ pos = 0
  /\ since = {} /\ ever = {} /\ steady = {} /\ exited = FALSE /\ reused = FALSE

\* The command ends, its locals with it; nothing is known after "wild".
Leave(p) ==
  /\ pc' = p
  /\ cmd' = NULL
  /\ whead' = init_task /\ cur' = init_task /\ cr3v' = NULL /\ cr3' = NULL /\ item' = <<>>
  /\ hnext' = [c \in Cells |-> 0] /\ hprev' = [c \in Cells |-> 0] /\ pos' = 0
  /\ live' = IF p = "wild" THEN {} ELSE live
  /\ since' = {} /\ ever' = {} /\ steady' = {} /\ exited' = FALSE /\ reused' = FALSE
  /\ UNCHANGED guestVars

-----------------------------------------------------------------------------
(* The guest.                                                              *)

\* fork, device registration: list_add_tail_rcu of memory that is free.  Module
\* load: list_add_rcu, at the head.  A new task is a process or a kernel thread.
Link(n) ==
  /\ n \in freed
  /\ births < MaxBirths
  /\ births' = births + 1
  /\ freed' = freed \ {n}
  /\ linked' = linked \cup {n}
  /\ user' \in {user, user \cup ({n} \cap Tasks)}
  /\ \E prev \in OnList(HeadOf(n)) \cup {HeadOf(n)} :
       /\ IF n \in Mods THEN prev = modules ELSE gnext[prev] = HeadOf(n)
       /\ gnext' = [gnext EXCEPT ![prev] = n, ![n] = gnext[prev]]
  /\ ever' = IF Walking /\ whead = HeadOf(n) THEN ever \cup {n} ELSE ever
  /\ reused' = (reused \/ (Walking /\ n \in ever))
  /\ UNCHANGED <<cmd, pc, whead, cur, cr3v, cr3, item, hostVars, since, steady,
                 exited>>

\* exit_mm: the page table goes away before the task does.
ExitMm(t) ==
  /\ t \in user
  /\ user' = user \ {t}
  /\ steady' = steady \ {t}
  /\ exited' = (pc # "idle")
  /\ UNCHANGED <<gnext, linked, freed, births, cmd, pc, whead, cur, cr3v, cr3, item,
                 hostVars, since, ever, reused>>

\* list_del_rcu: readers on n still find their way.
Unlink(n) ==
  /\ n \in linked \ user
  /\ linked' = linked \ {n}
  /\ since' = since \ {n}
  /\ \E prev \in OnList(HeadOf(n)) \cup {HeadOf(n)} :
       /\ gnext[prev] = n
       /\ gnext' = [gnext EXCEPT ![prev] = gnext[n]]
  /\ UNCHANGED <<freed, user, births, cmd, pc, whead, cur, cr3v, cr3, item, hostVars,
                 ever, steady, exited, reused>>

\* The guest's own readers are through; the host is not waited for.
Free(n) ==
  /\ n \in Nodes \ (linked \cup freed)
  /\ freed' = freed \cup {n}
  /\ UNCHANGED <<gnext, linked, user, births, cmd, pc, whead, cur, cr3v, cr3, item,
                 hostVars, ghostVars>>

GuestNext == \E n \in Nodes : Link(n) \/ ExitMm(n) \/ Unlink(n) \/ Free(n)

-----------------------------------------------------------------------------
(* list.h.                                                                 *)

\* __list_add(new, prev, next).
list_add_between(new, prev, next) ==
  /\ hprev' = [hprev EXCEPT ![next] = new, ![new] = prev]
  /\ hnext' = [hnext EXCEPT ![new] = next, ![prev] = new]

\* Mutant: list_add, at the head.
list_add(new, head) == list_add_between(new, head, hnext[head])

list_add_tail(new, head) == list_add_between(new, hprev[head], head)

\* __list_del(entry->prev, entry->next): the entry keeps its own fields.
list_del(entry) ==
  /\ hprev' = [hprev EXCEPT ![hnext[entry]] = hprev[entry]]
  /\ hnext' = [hnext EXCEPT ![hprev[entry]] = hnext[entry]]

INIT_LIST_HEAD ==
  /\ hnext' = [hnext EXCEPT ![0] = 0]
  /\ hprev' = [hprev EXCEPT ![0] = 0]

-----------------------------------------------------------------------------
(* Following a guest list.                                                 *)

\* The ghosts of a walk of list h that begins now.
BeginWalk(h) ==
  /\ whead' = h
  /\ item' = <<>>
  /\ since' = OnList(h)
  /\ ever' = OnList(h)
  /\ reused' = FALSE

\* list_tasks, list_modules, print_hostname: traverse_tasks comes first, and
\* begins with init_task itself.
StartTraverse(c) ==
  /\ pc = "idle"
  /\ cmd' = c
  /\ BeginWalk(init_task)
  /\ INIT_LIST_HEAD
  /\ cur' = init_task
  /\ cr3v' = NULL
  /\ cr3' = NULL
  /\ steady' = user
  /\ exited' = FALSE
  /\ pc' = "mm"
  /\ UNCHANGED <<guestVars, live, pos>>

\* print_net_device: the first load.
StartDevices ==
  /\ pc = "idle"
  /\ gnext[dev_base_head] # dev_base_head
  /\ cmd' = "ifconfig"
  /\ BeginWalk(dev_base_head)
  /\ cur' = gnext[dev_base_head]
  /\ pc' = "add"
  /\ UNCHANGED <<guestVars, cr3v, cr3, hostVars, steady, exited>>

\* A load from memory that the guest has freed.
ReadFreed ==
  /\ pc \in {"mm", "add", "next"}
  /\ cur \in freed
  /\ Leave("wild")

\* Mutant: the mm of a kernel thread is followed.
LoadMmUnchecked ==
  /\ pc = "mm"
  /\ pc' = "pgd"
  /\ cr3v' = NULL
  /\ UNCHANGED <<guestVars, cmd, whead, cur, cr3, item, hostVars, ghostVars>>

\* task_struct.mm; NULL means kernel thread.
LoadMm ==
  /\ pc = "mm"
  /\ pc' = IF cur \in user THEN "pgd" ELSE "add"
  /\ cr3v' = NULL
  /\ UNCHANGED <<guestVars, cmd, whead, cur, cr3, item, hostVars, ghostVars>>

\* mm_struct.pgd; the mm_struct may have been freed since.
LoadPgd ==
  /\ pc = "pgd"
  /\ cr3v' \in IF cur \in user THEN {cur} ELSE {cur, Junk}
  /\ pc' = "add"
  /\ UNCHANGED <<guestVars, cmd, whead, cur, cr3, item, hostVars, ghostVars>>

\* trans_addr(mem, mod_list_gva, cr3).  A page table or a module that is gone
\* leads anywhere.
TransModule ==
  /\ pc = "trans"
  /\ \/ /\ pc' = "add"
        /\ UNCHANGED <<guestVars, cmd, whead, cur, cr3v, cr3, item, hostVars, ghostVars>>
     \/ (cr3 \notin user \/ cur \notin linked) /\ Leave("wild")

\* Read the node and add it to the host list; print_net_device prints it.
AddItem ==
  /\ pc = "add"
  /\ Len(item) < MaxItems
  /\ pc' = "next"
  /\ item' = Append(item, [node |-> cur, cr3 |-> cr3v])
  /\ IF cmd = "ifconfig"
       THEN UNCHANGED <<hnext, hprev, live>>
       ELSE /\ list_add_tail(Len(item'), 0)
            /\ live' = live \cup {Len(item')}
  /\ UNCHANGED <<guestVars, cmd, whead, cur, cr3v, cr3, pos, ghostVars>>

\* What follows a completed walk: the list of tasks is printed or searched for a
\* page table, the list of modules is printed, the devices have been printed.
WalkDone ==
  /\ pos' = hnext[0]
  /\ pc' = IF whead = init_task /\ cmd # "list_tasks" THEN "find" ELSE "print"

\* Mutant: the walk stops in front of the last node.
LoadNextShort ==
  /\ pc = "next"
  /\ cur' = gnext[cur]
  /\ IF cur' \in Heads \/ gnext[cur'] = whead
       THEN WalkDone
       ELSE /\ pc' = CASE whead = init_task -> "mm"
                       [] whead = modules -> "trans"
                       [] whead = dev_base_head -> "add"
            /\ UNCHANGED pos
  /\ UNCHANGED <<guestVars, cmd, whead, cr3v, cr3, item, hnext, hprev, live, ghostVars>>

\* Mutant: the walk stops at NULL, and the list is a circle.
LoadNextToNull ==
  /\ pc = "next"
  /\ cur' = gnext[cur]
  /\ pc' = IF whead = init_task THEN "mm" ELSE IF whead = modules THEN "trans" ELSE "add"
  /\ UNCHANGED <<guestVars, cmd, whead, cr3v, cr3, item, hostVars, ghostVars>>

\* The next field of the node: the walk is through when it is the head.
LoadNext ==
  /\ pc = "next"
  /\ cur' = gnext[cur]
  /\ IF cur' = whead
       THEN WalkDone
       ELSE /\ pc' = CASE whead = init_task -> "mm"
                       [] whead = modules -> "trans"
                       [] whead = dev_base_head -> "add"
            /\ UNCHANGED pos
  /\ UNCHANGED <<guestVars, cmd, whead, cr3v, cr3, item, hnext, hprev, live, ghostVars>>

WalkNext == ReadFreed \/ LoadMm \/ LoadPgd \/ TransModule \/ AddItem \/ LoadNext

-----------------------------------------------------------------------------
(* Using and freeing the host list.                                        *)

\* The walk is no longer of interest, its result is.
EndWalk == since' = {} /\ ever' = {} /\ UNCHANGED <<steady, exited, reused>>

\* The printing loop, which changes nothing; the devices have been printed.
PrintItems ==
  /\ pc = "print"
  /\ pc' = "free"
  /\ pos' = hnext[0]
  /\ EndWalk
  /\ UNCHANGED <<guestVars, cmd, whead, cur, cr3v, cr3, item, hnext, hprev, live>>

\* Mutant: only the first entry is looked at.
FindCr3First ==
  /\ pc = "find"
  /\ cr3' = item[pos].cr3
  /\ pc' = "free"
  /\ pos' = hnext[0]
  /\ EndWalk
  /\ UNCHANGED <<guestVars, cmd, whead, cur, cr3v, item, hnext, hprev, live>>

\* Mutant: the freeing loop goes on from where the search stopped.
FindCr3NoRestart ==
  /\ pc = "find"
  /\ IF pos # 0 /\ item[pos].cr3 = NULL
       THEN pos' = hnext[pos] /\ UNCHANGED <<pc, cr3, ghostVars>>
       ELSE /\ cr3' = IF pos = 0 THEN cr3 ELSE item[pos].cr3
            /\ pc' = "free"
            /\ EndWalk
            /\ UNCHANGED pos
  /\ UNCHANGED <<guestVars, cmd, whead, cur, cr3v, item, hnext, hprev, live>>

\* One round of the search for a page table: break at the first one.
FindCr3 ==
  /\ pc = "find"
  /\ IF pos # 0 /\ item[pos].cr3 = NULL
       THEN pos' = hnext[pos] /\ UNCHANGED <<pc, cr3, ghostVars>>
       ELSE /\ cr3' = IF pos = 0 THEN cr3 ELSE item[pos].cr3
            /\ pc' = "free"
            /\ pos' = hnext[0]
            /\ EndWalk
  /\ UNCHANGED <<guestVars, cmd, whead, cur, cr3v, item, hnext, hprev, live>>

\* One round of the freeing loop: list_del, free, and next is read from the
\* entry just freed.  It is as it was, unless another thread of QEMU has been
\* given that memory in between.
FreeItem ==
  /\ pc = "free"
  /\ pos # 0
  /\ \/ /\ list_del(pos)
        /\ live' = live \ {pos}
        /\ pos' = hnext[pos]
        /\ UNCHANGED <<guestVars, cmd, pc, whead, cur, cr3v, cr3, item, ghostVars>>
     \/ Leave("wild")

\* The end of the freeing loop: the command is done, or goes on with cr3.
FreeDone ==
  /\ pc = "free"
  /\ pos = 0
  /\ IF whead = init_task /\ cmd # "list_tasks"
       THEN /\ pc' = "use"
            /\ UNCHANGED <<guestVars, cmd, whead, cur, cr3v, cr3, item, hostVars, ghostVars>>
       ELSE Leave("idle")

\* Mutant: a page table is taken for granted.
UseCr3Unchecked ==
  /\ pc = "use"
  /\ IF cmd = "hostname"
       THEN Leave("idle")
       ELSE /\ BeginWalk(modules)
            /\ INIT_LIST_HEAD
            /\ cur' = gnext[modules]
            /\ cr3v' = NULL
            /\ pc' = IF cur' = modules THEN "print" ELSE "trans"
            /\ pos' = 0
            /\ steady' = {}
            /\ UNCHANGED <<guestVars, cmd, cr3, live, exited>>

\* With a page table, print_hostname reads init_task's uts_namespace and
\* list_modules starts on the modules.  Without one, nothing more is read from the
\* guest, and print_hostname prints a stat that get_hostname has not filled in.
UseCr3 ==
  /\ pc = "use"
  /\ \/ (cr3 = NULL \/ cmd = "hostname") /\ Leave("idle")
     \/ cr3 = NULL /\ cmd = "hostname" /\ Leave("wild")
     \/ /\ cr3 # NULL /\ cmd # "hostname"
        /\ BeginWalk(modules)
        /\ INIT_LIST_HEAD
        /\ cur' = gnext[modules]
        /\ cr3v' = NULL
        /\ pc' = IF cur' = modules THEN "print" ELSE "trans"
        /\ pos' = 0
        /\ steady' = {}
        /\ UNCHANGED <<guestVars, cmd, cr3, live, exited>>

ListNext == PrintItems \/ FindCr3 \/ FreeItem \/ FreeDone \/ UseCr3

HostNext == WalkNext \/ ListNext

\* Nothing is known of what follows, or the bound on guest steps is reached.
Stopped == pc \in {"wild", "idle"} /\ UNCHANGED vars

Next ==
  \/ pc # "wild" /\ GuestNext
  \/ \E c \in Commands \ {"ifconfig"} : StartTraverse(c)
  \/ StartDevices
  \/ HostNext
  \/ Stopped

Spec == Init /\ [][Next]_vars

-----------------------------------------------------------------------------
(* Properties.                                                             *)

\* Every variable stays in its set.
TypeOK ==
  /\ gnext \in [Nodes \cup Heads -> Nodes \cup Heads \cup {NULL}]
  /\ linked \subseteq Nodes /\ freed \subseteq Nodes /\ user \subseteq Tasks
  /\ births \in 0..MaxBirths
  /\ cmd \in Commands \cup {NULL}
  /\ pc \in {"idle", "mm", "pgd", "trans", "add", "next", "print", "find", "free",
             "use", "wild"}
  /\ whead \in Heads
  /\ cur \in Nodes \cup Heads
  /\ cr3v \in Tasks \cup {NULL, Junk} /\ cr3 \in Tasks \cup {NULL, Junk}
  /\ item \in Seq([node : Nodes \cup Heads, cr3 : Tasks \cup {NULL, Junk}])
  /\ hnext \in [Cells -> Cells] /\ hprev \in [Cells -> Cells]
  /\ live \subseteq Entries
  /\ pos \in Cells
  /\ since \subseteq Nodes /\ ever \subseteq Nodes /\ steady \subseteq Tasks
  /\ exited \in BOOLEAN /\ reused \in BOOLEAN

\* A walk has come to its end and its list has not been put to use.
Complete == pc \in {"print", "find"}

Listed == {item[i].node : i \in 1..Len(item)}

\* What a completed walk has listed: every object that was on the guest's list
\* all the time, only objects that were on it at some time (and init_task), and
\* none twice, although the list changed under the walk; unless the guest put
\* memory of the list to use again meanwhile.
ListedRight ==
  Complete /\ ~reused =>
    /\ since \subseteq Listed
    /\ Listed \subseteq ever \cup {init_task}
    /\ \A i, j \in 1..Len(item) : item[i].node = item[j].node => i = j

\* print_hostname and list_modules have found a page table if some process has
\* been there since the command began.
PageTableFound ==
  pc = "use" /\ ~reused /\ steady # {} => cr3 # NULL

\* The host list: next and prev agree, and the list runs through exactly the
\* entries that are allocated, in the order they were added.  The freeing loop
\* keeps it so after each list_del.
HostListIntact ==
  /\ \A c \in live \cup {0} : /\ hnext[c] \in live \cup {0} /\ hprev[hnext[c]] = c
                              /\ hprev[c] \in live \cup {0} /\ hnext[hprev[c]] = c
  /\ \A c \in live : hnext[c] # 0 => c < hnext[c]

\* Every entry is freed exactly once: the cursor is always on an entry that is
\* still allocated, and at the end none is left.
FreedOnce ==
  /\ pc = "free" /\ pos # 0 => pos \in live
  /\ pc \in {"idle", "use"} => live = {}

\* "obtain valid cr3 value": traverse_modules translates with the page table of
\* a process that exists, unless a process has exited since the command began;
\* the code holds on to the value without looking again.
ValidCr3 == pc = "trans" /\ ~exited => cr3 \in user

\* A walk of the tasks or devices makes no more rounds than the guest has ever
\* linked objects, whatever it unlinks, frees and links again under the walk: it
\* cannot run in circles.
WalkBounded == whead # modules => Len(item) <= births + 1

=============================================================================
