# A TLA+ verification of qemu-vmi

qemu-vmi is QEMU 2.0 and kvm-kmod 3.16 with two additions of its own: a pool of
kernel threads in KVM that encrypts and decrypts on behalf of guests (reached by
a hypercall), and a plugin of QEMU monitor commands that inspects a running
Linux guest by reading its memory. This directory specifies those additions in
TLA+, checks them with TLC on small instances and proves some of the results with
TLAPS. The upstream code around them is not modelled, except for the lines the
additions were hooked into.

## The system

| part | state | operations | hard behaviour |
|---|---|---|---|
| crypto pool, `kvm_crypto.c` | `cq` (head, tail, num, stop), `cq_mutex`, `cq_wq`, `finish_wq`, `global_job_id`, jobs | `crypto_produce_job` by vCPU threads, `crypto_consume_job` by four kthreads, `crypto_pool_initialization`, `crypto_pool_reclaim` by the module thread | unlocked reads, shared wait queue, job freed by one thread while another has just finished it, signals, load and unload |
| hypercall, `x86.c`, `kvm_main.c` | guest RAX | `kvm_emulate_hypercall`, `kvm_init`, `kvm_exit` | device registered before the pool exists |
| guest driver, `programs/kvm_crypto_mod` | two buffers and a job per call | `submit_job`, `ioctl_dev_ioctl`, the test program `user.c` | result of the hypercall dropped |
| system call checker, `syscall_checker.c` | `is_check_started`, `tid`, shadow table | start, stop, periodic scan | guest writes the table during a scan, restart, cancellation |
| listener, `daemon.c` | `is_listener_started`, `listenfd`, `tid` | start, stop, service loop, `gen_xml` | thread dies before it listens, stop races with it, one temporary file |
| CPU usage, `cpu_usage.c` | two samples per CPU | `comp_cpu_usage`, the sampling thread | samples a second apart, counter arithmetic |
| memory usage, `mem_usage.c` | none | `get_mem_usage` | several reads of a moving guest |
| process, module and device lists, `tasks.c`, `module.c`, `net.c`, `configuration.c`, `list.h` | host copy of a guest list | walks of guest lists | the guest changes the list under the walk |
| address translation, `linux-x86_64.c`, `memory.c` | guest page tables | `virt_to_phys`, `__va`, `trans_addr` | address arithmetic modulo 2^64, non-present and large pages |
| monitor commands, `extra_hmp.c` | none | dispatch to the above | output from several threads into one monitor buffer |
| symbol dump, `programs/gos-info` | none | prints offsets of kernel structures | none |

The plugin's commands run in QEMU's main loop. Three of them leave threads behind:
`check_syscall start`, `listen start` and `top`. Those threads take no lock; they share
guest memory, the monitor's output buffer and the process's descriptors with the rest
of QEMU, and two of them end by `pthread_cancel`. The pool lives in the host kernel:
vCPU threads enter it from a VM exit, four kthreads serve it, and module load and
unload start and stop it. Guest driver and pool meet only in the hypercall.

What each part has to get right, and where that stands:

| part | what has to hold | state |
|---|---|---|
| crypto pool | own result on success, one list, exclusive service, no lost wake-up, no write to a freed job, unload completes, a first-come-first-served service | checked; the safety part proved, that of the refinement included |
| guest driver | the program gets its own text back, never another's; no buffer lost or shared; no code after rmmod; the program ends | checked; the safety part proved |
| system call checker | the scan stays within the copy, true alarms, hooks repaired, stop returns | checked, repair up to the first zero in the table; the safety part proved; a growing table refuted |
| listener | clients answered, port free after stop, no descriptor left open, stop returns, only its own descriptor closed | checked, open descriptors but for a stop; the safety part proved; early stops refuted |
| address translation | `virt_to_phys` inverts both kernel mappings, the walk agrees with the architecture and stays in RAM | checked and proved |
| list walks | what is listed, the host list and its freeing loop, a valid page table, bounded walks | checked and proved |
| CPU and memory usage | shares that add up, lines that cover the sleep, errors no larger than what moved | checked and proved |
| monitor output | | not modelled |

## Modules

| module | stands for |
|---|---|
| `CryptoPool` | `kvm_crypto.c`, the crypto case of `kvm_emulate_hypercall`, the calls in `kvm_init` and `kvm_exit` |
| `MCCryptoPool` | symmetry for the safety runs of `CryptoPool` |
| `CryptoService` | what the hypercall promises, without threads or memory |
| `CryptoPoolRefinement` | the mapping from `CryptoPool` to `CryptoService` |
| `CryptoPoolProofs` | theorems about `CryptoPool` |
| `CryptoPoolRefinementProofs` | that `CryptoPool` implements the safety part of `CryptoService` |
| `SyscallChecker`, `SyscallCheckerProofs` | `syscall_checker.c` |
| `Listener` | `daemon.c` |
| `AddrTranslation`, `AddrTranslationProofs` | `linux-x86_64.c`, `trans_addr` in `memory.c`, the macros of `memory.h` |
| `GuestLists`, `GuestListsProofs` | `tasks.c`, `module.c`, `configuration.c`, `net.c`, `list.h` |
| `MCGuestLists` | symmetry for the run of `GuestLists` |
| `GuestDriver`, `GuestDriverProofs` | `programs/kvm_crypto_mod`, on top of `CryptoService` |
| `Words` | the host's `unsigned long` and sums, for the next two |
| `CpuUsage`, `MemUsage` | `cpu_usage.c`, `mem_usage.c` |
| `MCUsage` | the two of them for TLC |
| `MemUsageProofs` | theorems about `MemUsage`, with the lemmas on sums and on numbers modulo the word |
| `MonitorThreadsProofs` | theorems about `Listener` and `CpuUsage` |

### CryptoPool

Threads have program counters: `ppc` for a vCPU in `crypto_produce_job`, `kpc` for a
kthread in `crypto_consume_job`, `mod` for the thread that loads and unloads. A step is
the longest stretch no other thread can tell from an atomic one:

* The producer's critical section is three steps (`LinkJob`, `CountJob`,
  `NotifyConsumers`), because `cq.num` is read without the mutex in the consumers' wait
  condition. Between the first and the last `mutex` is the vCPU. The consumer's and
  reclaim's critical sections are one step each, with the mutex free as their guard.
* A wait is an evaluation of its condition (`AwaitJob`, `KWait`) that goes on or falls
  asleep, and a wake-up that makes every sleeper evaluate again. `wait_event` puts the
  thread on the queue before it evaluates, so evaluating and falling asleep are one step.
* The line that numbers a job reads `global_job_id` twice, for the test and for the
  increment, and stores it: three steps, `AllocJob`, `NumberJob` and `InitJob`, with other
  vCPUs in between. (A compiler that reads once gives the behaviours in which nobody gets
  in between the first two.) `Saturated` is a test that found the counter past
  `MAX_JOB_ID`.
* `kmalloc` returns any address not in use, so addresses are reused at once, and `kfree`
  puts the memory in a fixed state no live job depends on.

A buffer's contents are a tag and the vCPU whose data it derives from. `Crypt` says what
the if/else over the operation leaves in the output, the unknown operation included.
`ProduceJob` covers the checked failures before a job exists (one `kmalloc`, two
`kvm_read_guest`), `WriteBack` the one after. The unchecked allocations are taken to
succeed.

`Next` leaves out two things the code does not exclude, so that what holds without them
can be stated: a signal that ends the interruptible wait (`Interrupted`, in `SignalSpec`)
and an open of `/dev/kvm` between `misc_register` and `crypto_pool_initialization`
(`OpenEarly`, in `EarlySpec`). With either, a property fails; see the findings.

`Register` lets the statics of `kvm.ko` survive from an earlier load or start from zero,
since `kvm_init` is called by `kvm-intel` and `kvm-amd`, which come and go without
`kvm.ko`. `PoolReclaim` is possible only when no VM is open, which is what the module's
reference count means.

### CryptoService and the refinement

The service is a FIFO of vCPUs: ask, be refused or enqueued, be served by at most
`PoolSize` servers, reply once. In the mapping a request is queued from `cq.num++` on, is
being served while some kthread holds its job and is served once `status` is 1; the queue
is the first `cq.num` cells of the linked list, each named by its owner. The refinement
includes the service's fairness: every request is answered.

### SyscallChecker

`syscall_table_hva` is the guest's memory from the table on, up to the zero that ends it.
The guest stores single entries (`GuestStore`); `touched` records which ones it stored to
since they were copied, or since the measuring stopped at them, and exists for
`NoFalseAlarm` and `ScanWithinCopy` only. Measuring, copying and
scanning go entry by entry, and the scan loads an entry up to three times (`Scan`,
`Compare`, `Repair`), as the code does. A load beyond the copy (`ShadowLoad`) gives
anything. `GuestWrites` is what the guest may store, 0 included in both runs. A zero is
what the scan stops at: the guest that stores one hides that entry and all behind it for as
long as it stays, and the guest that replaces the one the copy was measured by takes the
scan past the copy. `HookRepaired` and `ScanWithinCopy` say so, and `ScanInBounds`, which
does not, is what `checker_grow` refutes.

Cancellation is deferred: it takes effect in `sleep` or where the alert and the prompt
are written. After `StopJoin` the flag stays 1, as in the code, so that only
`StartRefused` and `StopDangling` remain; cancelling a thread that reuses the dangling id
happens outside this module.

### Listener

`fds` is the descriptor table of the process, shared with the rest of QEMU, which opens
and closes descriptors of its own at any time. New descriptors are the lowest free ones.
`backlog` is the kernel's queue of connections. `Refused` stands for the commands the
flag turns down, for a failed `pthread_create` and for a `pthread_cancel` that fails on a
thread that has already returned: none of them changes anything. `gen_xml` is
`GenXml`, the samples with their two seconds of sleep, `SaveXml` and `CloseSaved`, in which
libxml opens, writes and closes the temporary file, `OpenXml` and `ReadXml`. `xmlfd` is the
file they have open. Any of them may be where a cancellation takes effect: those that are
cancellation points for certain do not complete with one pending, libxml's may do either.
Without a file or a descriptor `gen_xml` returns NULL and `strlen(NULL)` ends the process,
which is the state "crashed". After a failed save the size is -1, and the buffer has no
bytes: an old file may still be there to be opened ("reopen", "reread"), and `strlen` finds
what lies behind the buffer. When a stop closes a descriptor of QEMU, QEMU's own later
close of that number is not modelled.

### AddrTranslation

Addresses count words of eight bytes, so that an index is an offset, and a table fills a
page. `Plus` and `Minus` wrap at `Word`; `virt_to_phys` is the source's expression with
its comparison, `table_offset` stands for `pud_offset`, `pmd_offset` and
`pte_offset_kernel`, which differ in nothing but the index. An entry is its frame number
and what the two bits say that the code never looks at. The guest stores any entry
between any two of the four loads. A load outside RAM ends the walk in "fault".

`Pgd` to `Pte` and `Mapped4K` are the architecture's definition of where the guest's own
access goes. `TranslationRight` compares with it at the moment of the last load; it and
`WalkInRam` need the entries already followed to be what they were (`moved`), and the
address to be mapped by a page of the smallest size. Without the first no walk of several
loads could be right; the second is what the code gives up by ignoring the present and
the page size bits.

### GuestLists

One command runs at a time, in the main loop, and the guest runs with it. A load is a
step: `LoadMm`, `LoadPgd`, `AddItem` (the node's own fields), `LoadNext`. The guest links
objects as Linux does (tasks and devices at the tail, modules at the head), unlinks them
leaving their `next` as it was, frees and reuses them. A load from freed memory may give
the old value or anything at all; the latter is "wild", where nothing is said any more.
The host list is `hnext` and `hprev` over numbered entries, changed by `list_add_tail` and
`list_del` assignment by assignment. `FreeItem` reads `next` from the entry it has just
freed, as the source does; another thread of QEMU may have got that memory, and then the
outcome is "wild" too.

`list_modules` and `print_hostname` first walk the tasks and take the first page table
that is not zero (`FindCr3`). Without one `list_modules` lists nothing, but `print_hostname`
prints its local `stat`, which nobody has set: `UseCr3` ends in "idle" or in "wild" then. The ghosts `since` and `ever` say what was on the list
throughout and at some time, `steady` and `exited` the same of processes; `reused` says
that memory of the list was linked a second time during the walk, which can lead a walk
past or twice over an object. A bound on the rounds of a module walk does not hold then:
modules are added at the head.

The `list_head` itself, which `traverse_tasks` and `traverse_modules` allocate, is freed
nowhere in the code; entries are what `FreedOnce` is about.

### GuestDriver

A composition: the guest's kernel module and its program, over an instance of
`CryptoService`, which `CryptoPool` is shown to implement. A process of `user.c` goes
through fork, open, two ioctls and close; a process in the ioctl prepares three buffers,
executes `vmcall` on a vCPU that nobody else can use until the host answers, copies the
output and frees the buffers. The host's actions are the service's with the guest memory
they read and write. Allocations fail (`SubmitOops`: none of the three is checked),
requests are refused or fail in the host, processes are killed in user mode, the module is
loaded and unloaded.

`submit_job` ignores what the hypercall returns and `ioctl_dev_ioctl` returns 0 always,
so `user.c` cannot print its "Failed to use ioctl" for a failed request. `CopyOut` has
this: the process goes on with whatever is in the output buffer. `OwnData` shows that the
`memset` makes that harmless for other processes.

### CpuUsage, MemUsage

Both are sequences of loads from a guest that does not stop. `CpuUsage` starts all
counters just below the word's end, so that they wrap. A percentage is a numerator with
"TOTAL" as its denominator, the special case for a total of 0 included; `float` rounding
is left out. `get_cpu_num` is the position of the highest bit of the mask, and is taken
twice, for `stat` and for the arrays of `comp_cpu_usage`. When the second is larger, which
takes a guest that announces a CPU meanwhile, during its boot, the result is written past
the end of `stat` ("overrun"). `SampleBounds` is about what is printed otherwise: which line
is taken for the average is decided by the first count, what is in it by the second.

`MemUsage` has the loads of `get_mem_usage` as a sequence, in the order of the source, of
what is counted and which variable it is added to; `getBuffers` occurs in it twice, as in
the source. `Cached` and `UsedMem` are the two equations, with the 32 bits of
`swapcache_size`. `MemErrorBounded` relates what is printed to what was true when the
command began, modulo the word: a utilization far above 100% is possible, but only when
the true one is within a few pages of zero. `Truncated` is what those 32 bits lose, nothing
below 4 TB of swap cache; `Cached` is too large by it and `UsedMem` too small.

## Runs

| run | checks | instance |
|---|---|---|
| `pool_safety` | `TypeOK`, `JobOwnership`, `ResultDelivered`, `ServedAlone`, `QueueWellFormed`, `NoLostWakeup`, `WritesOnlyLiveJobs` | 3 vCPUs, 2 kthreads, 3 calls; 1,065,288 states |
| `pool_service` | `ImplementsService`, `NoKthreadAfterUnload`, `UnloadCompletes` | 2 vCPUs, 2 kthreads, 2 calls, 2 loads, no symmetry; 247,633 states |
| `pool_signal` | `ResultDelivered` is violated | a signal during the wait |
| `pool_early_open` | `HypercallReturns` is violated | a VM opened before the pool is there |
| `checker_scan` | `TypeOK`, `ScanWithinCopy`, `NoFalseAlarm`, `HookRepaired`, `StopReturns` | 3 entries, 2 handlers, the guest stores one of them or 0; 264,812 states |
| `checker_grow` | `ScanInBounds` is violated | the guest replaces a 0 by a handler |
| `listener_service` | `TypeOK`, `PortFreeAfterStop`, `ClientAnswered`, `StopReturns`, `OnlyStopStrands` | 5 descriptors, 2 clients; 426,889 states |
| `listener_stale_fd` | `ClosesOwnSocket` is violated | stop before the socket exists |
| `translation` | `TypeOK`, `MappingsInvert`, `TranslationRight`, `WalkInRam` | 6 pages of RAM, tables of 2 entries, 2 stores; 460,136 states |
| `guest_lists` | `TypeOK`, `ListedRight`, `PageTableFound`, `HostListIntact`, `FreedOnce`, `ValidCr3`, `WalkBounded` | 2 tasks, 2 modules, 1 device, 4 births; 992,926 states |
| `driver` | `TypeOK`, `RoundTrip`, `OwnData`, `BuffersPrivate`, `NoCodeAfterUnload`, `ProgramEnds` | 3 processes, 2 vCPUs, 6 buffers; 337,684 states |
| `usage` | `SharesAddUp`, `SampleBounds`, `MemErrorBounded` | 2 CPUs, 2 ticks; 3 pages, 2 moves; 512,482 states |

Bounds. Two vCPUs contend for everything two threads can contend for; the third in
`pool_safety` makes the list longer than the pool and gives it an inner element. Three
calls let a vCPU reuse an address another thread has just let go of. `MaxJobId` is 0,
so that the id counter reaches its limit and passes it. `MaxCalls` and `MaxLoads` bound the guest and
the administrator, not the code; two loads let state survive from the first into the
second. Three table entries have a first, an inner and a last one. Five descriptors are
enough for a leak to use them up. `AddrTranslation` scales the word to 64 addresses with
both mappings in it; two stores can move an entry behind the walk and one ahead of it, and
frame 7 lies outside RAM. Four births let an address of the lists be linked, freed and
linked again under a walk of two more; six items leave every walk room to its end. Three
processes outnumber the vCPUs, and six buffers are too few for all of them. Two ticks
reach two counters or one counter twice, and take a counter over the word's end; two moves
can make a load too large and another too small. `Uint` is 8 kB, which two pages of swap
cache reach. Symmetry is used in safety runs only.

Fairness. A kernel or host thread that can run is run again and again: weak fairness of
each vCPU's steps inside `crypto_produce_job`, of each kthread, of the module thread once
it is past its guard, of checker and listener threads and of a command once begun. In
`GuestDriver` it is weaker still: some process runs while one can, and the host goes on
with some request while there is one. There is none for guests' stores, clients,
administrators or the rest of QEMU. Weak fairness is enough for the mutex: it is held over
three steps that are always enabled, and the number of calls is bounded, so no thread is
overtaken for ever; with unbounded calls this would rest on the kernel mutex being fair.
`AddrTranslation`, `GuestLists` and the usage modules state no fairness: their commands
are loops whose length is what is checked.

## Findings

1. `pool_signal`: the result of `wait_event_interruptible` in `crypto_produce_job` is
   ignored, so that a signal makes the hypercall succeed with the zeroed buffer, and the
   job is freed while it is queued or processed.
2. `pool_early_open`: a job queued before `crypto_pool_initialization` is wiped and its
   vCPU never returns.
3. `checker_grow`: the scan is bounded by the guest's table and not by the copy.
4. `listener_stale_fd`: `listener_stop` closes `listenfd` even if it was never assigned.

Other things are visible in the modules and have no run of their own:

* job ids repeat and exceed `MAX_JOB_ID`, because `global_job_id` is tested, read again and
  stored outside the mutex (`NumberJob`, `InitJob`); since a store may also be late and put
  an old value back, only the number of calls bounds an id. Ids occur in kernel messages and
  nowhere else;
* a hook behind a zero in the table, or the zero itself, is not seen by the checker (`Scan`);
* a listener whose `bind` failed still counts as started (`Bind`);
* a stop during a report leaves the client's connection open for ever, since only the
  cancelled thread knew it, and in `gen_xml` perhaps the temporary file (`Cancel` in
  `Listener`; `ClientAnswered` excepts it, `OnlyStopStrands` says it is the only cause);
* a report that cannot be saved is read into a buffer of no bytes (`ReadXml`);
* `print_hostname` prints an unset structure for a guest without processes (`UseCr3`);
* `syscall_checker_stop` does not reset `is_check_started`, as `listener_stop` does its
  flag: after one stop every start is refused and every stop acts on a thread id that has
  been joined (`StopJoin`, `StopDangling`);
* the guest driver reports no failure to its program (`CopyOut`), and dies in the kernel
  if an allocation fails (`SubmitOops`);
* `trans_addr` follows entries that are not present or map large pages (`LoadTable`);
* `top` can write past its result if the guest announces a CPU meanwhile (`Compute`).

## Proofs

The theorems hold for any number of vCPUs, kthreads, jobs, table entries, descriptors,
clients, guest objects, CPUs, devices and pages. They use the assumptions named in the
modules (`PoolAssumption`: a pool of at least one thread, known operations, NULL is no
address; `TableAssumption`, `ListenerAssumption`, `LayoutAssumption` and the like) and
nothing about fairness.

CryptoPool, in layers. Every invariant is inductive together with those before it.

* `CryptoPoolProofs`. `TypeInv` is the type invariant with "a vCPU past the allocation
  has a job", without which `InitJob` could not be typed. `OwnInv` adds `JobOwnership`,
  "a vCPU outside has no job" and "the module is in use while a VM is open", which makes
  reclaim find no owner. Theorems `TypeCorrect` and `Ownership`. `LifeInv` describes which
  kthreads exist at each point of load and unload. `QInv` adds `MutexHeld` (only the holder is inside the critical section),
  `FreshJob` (a job not yet linked has status 0 and next NULL), `ServedAlone` and
  `QueueWellFormed`. The last two need each other: that the head is not being served
  comes from the list holding exactly the unserved jobs, and that a finished job is not
  on the list comes from its server being alone. `QueueWellFormed` says that a sequence
  describing the list exists; each proof names the sequence after the step (one longer
  for `LinkJob`, shifted by one for `KTake`, the same otherwise). Theorems
  `KthreadsGone`, `QueueCorrect`, `ServiceExclusive`.
* The second half of `CryptoPoolProofs`. `NoLostWakeup` is inductive over `OwnInv` and `LifeInv`: the
  latter is what keeps `StartKthread` from overwriting a kthread about to wake somebody.
  `WritesOnlyLiveJobs` follows from `QInv` and "free memory is as kfree left it".
  `DataInv` says that a job carries its owner's request and, once finished, its owner's
  result, and follows it to the guest's buffer. Theorems `NobodyForgotten`, `WritesSafe`,
  `ResultCorrect`.
* `CryptoPoolRefinementProofs`, theorem `PoolServes`: the initial state is one of
  `CryptoService`, and every step is a step of it or changes nothing it sees.
  `CountJob` is the service's `Enqueue`, `KTake` of a job `Serve`, `KFinish` `Complete`,
  `Return` `Refuse` or `Reply`. `AnswerInv` is added to `QInv` and `DataInv`: what a vCPU
  inside will answer if it fails, and that the job about to be counted is the last of the
  list. The queue of the service is read off `Cell`, a recursive
  function along the `next` fields; `CellIs` shows that it gives the sequence of
  `QueueWellFormed`, `ChainsAgree` that two lists which start and continue alike are
  equal, by the least place where they differ. `RoomToServe` counts: requests in service
  are at most the kthreads other than the one about to take a job, because a serving
  kthread has one job and a job one vCPU.

SyscallChecker: `TypeCorrect`, `ScanConfined` and `AlarmsTrue` hold for whatever the guest
stores. The invariant says that the entries copied so far, and the one that ended the
measuring, are as they were unless the guest has stored to them since, and that counting and
scan stop at the zero behind the table. `ScanBounded` assumes `0 \notin GuestWrites`, the
condition `checker_grow` shows to be needed; then counting, copy and scan see the same
length (`Full`).

Listener: `StopReleasesPort` rests on the invariant that the only descriptor used as a
listener socket is `listenfd`, and only while the thread is between making it and being
joined. `ServingStrandsNone` is `OnlyStopStrands`, an action property: the invariant has that
the thread holds a connection only while it serves a client, and a file only between the
calls that open and close it, so that no call that opens one overwrites another.

AddrTranslation: `LinearMappings` is arithmetic from `LayoutAssumption` (the direct
mapping lies below that of the image, and holds every frame an entry can name) and, for
the entries the guest has stored, from their type. The invariant says that, unless an entry already followed has changed, the walk is about to
load the entry that the architecture's own walk of the present tables reaches at that
level; `WalkCorrect` and `WalkBounded` follow at the last load and at a fault.

GuestLists: `IInv` has six parts. `OrderInv` says that there is a numbering of the objects
that grows along every guest list, the unlinked objects a walk may still be on included;
what the walk has listed lies at or before its place and what remains of `since` after it.
The numbering is not part of the model: each proof of a link names the new one. What it
leaves at the end of a walk is `ListedRight`, the fourth part. `HostInv` describes the ring
at every point of filling, searching and freeing; `SteadyInv` and `Cr3Inv` follow a page
table from the task list into `cr3`. `TypeInv` has in it that next fields lead to objects
with a next field.

GuestDriver: `IInv` says who may be in the module's code (`ModuleInv`), that buffers have
one holder (`BufferInv`), what they and the host's copies contain (`ContentInv`), how the
service's phases match the processes in a hypercall (`HostInv`), and what a process has in
its own buffers (`UserInv`). The contents need the ownership: a reply writes to the
output buffer of the process that asked only because nobody else holds it.

`WalkBounded` (theorem `WalkShort`) is proved from `BoundInv`: there is a numbering of the
objects by the time they were last linked, `next` always leads to a higher number, and a
walk has made no more rounds than the number it has come to.

CpuUsage: `SamplesBounded` and `SharesSum` have the invariant `SampleInv`, in two parts. `BaseInv`
has the types, and that all ticks together are at most `MaxTicks`. `PhaseInv` says of each
phase of `comp_cpu_usage` what the rows loaded so far hold: every counter is a value the
guest's counter had, modulo the word, between the ticks recorded when the pass began and
the present ones, the total of a finished row is the sum of its counters and the last row
is the sum of the finished ones. At the end `Right` takes the difference of the two
samples. Differences are congruent to the ticks that passed, and equal to them because
those are fewer than `Word`: this is where `CpuAssumption` (`MaxTicks < Word`) is needed,
that is fewer than 2^64 ticks. That the totals need no carry is the same argument over
the sum of all counters. `RowsInv` adds that the second count of the CPUs is never below the
first, because the mask only grows: what is printed without an overrun is what was computed.

MemUsage: `MemoryRight` has the invariant `MemInv`. There are integers `x`, one for each
variable of the command, such that each variable is its integer in kB, wrapped. When the
loads still to come are added as they would read now (`Rest`), the five figures printed
are off by at most `moves` pages. A load adds to `x` what it takes from `Rest` (`RestStep`).
A page move changes what is to come by the weights of its two uses (`RestMove`), and for
the moves a guest makes the two differ by at most one in every figure (`MoveOff`): this is where the order of the
loads matters, since the cached pages are a difference of three loads and the used ones of
all of them. `MemAssumption` says that the devices and swap areas have names of their own.
What the 32 bits lose is a multiple of them that the two equations carry through with
opposite signs (`CongShift`).

What the two share is in `MemUsageProofs`: `Induct` (induction over the naturals, from the
least element of a set, since the library's theorem cannot be instantiated), `SumIs` (what
`SumBelow` computes), and `Cong`, congruence modulo the word.

Only model-checked, and why:

* `UnloadCompletes`, `HookRepaired`, `StopReturns`, `ClientAnswered`, `ProgramEnds` and the
  fairness of `ImplementsService`: liveness under fairness, which TLAPS does not prove.
* The violation runs, which are counterexamples.

## Not modelled

* QEMU and KVM apart from the lines above are upstream code: 1.7 million lines, against
  which the additions modelled here are a few thousand at most. The models cover the
  additions nearly completely and a negligible share of the tree. Modelling device
  emulation or the MMU of KVM would be a project about another program.
* Monitor output. `monitor_printf` and `monitor_flush` are called by the plugin's threads
  and by the main loop on one `QString` with no synchronisation. Operations that overlap
  are undefined behaviour on the buffer's length and storage, so that a model could say
  no more than that they may overlap.
* `gos-info` prints addresses once, `read_data` prints guest memory, `mem_logger` issues
  one ioctl: they have no state.
* The bytes of messages and reports, the AES block loop and the lengths of buffers,
  unchecked allocations of the host kernel and of QEMU, `kthread_stop` on a task that has
  been released, a thread id used after it was joined, `float` rounding.
* Changes of the list of block devices while `free` follows it; `GuestLists` is about
  such walks.
* Weakly ordered memory: accesses outside the mutex are taken to happen in program order,
  which holds on the x86 hosts this code is for.
