------------------------------- MODULE MemUsage -------------------------------
(***************************************************************************)
(* The command free: the monitor reads counters of the guest's memory      *)
(* management one by one, while the guest goes on using its memory, and    *)
(* computes Cached and the utilization from them.                          *)
(*                                                                         *)
(* The guest's memory is how many pages have which use.  Its list of block *)
(* devices stays the same (GuestLists is about lists that change).         *)
(***************************************************************************)
EXTENDS Words, Sequences, Functions

CONSTANTS
  Bdevs,      \* block devices, in the order of all_bdevs
  Swaps,      \* swap areas, in the order of swapper_spaces
  Pages,      \* pages of the guest, ballooned ones included
  MaxMoves,   \* bound: page moves during one command
  PAGE_KB,
  Uint        \* 2^32 in the code

MainUses == {"balloon", "free", "anon", "file"}
Totals   == {"totalram_pages", "NR_FILE_PAGES"}

ASSUME MemAssumption ==
  /\ Bdevs \in Seq(STRING) /\ IsInjective(Bdevs)
  /\ Swaps \in Seq(STRING) /\ IsInjective(Swaps)
  /\ Range(Bdevs) \cap Range(Swaps) = {}
  /\ (MainUses \cup Totals) \cap (Range(Bdevs) \cup Range(Swaps)) = {}
  /\ Pages \in Nat /\ MaxMoves \in Nat /\ PAGE_KB \in Nat /\ Uint \in Nat \ {0}

VARIABLES
  count,      \* pages of each use
  step,       \* how many loads the command has done; -1 without a command
  stat,       \* the local variables
  moves,      \* ghost: page moves since the command started
  before      \* ghost: count when it started

memVars == <<count, step, stat, moves, before>>

PageUses == MainUses \cup Range(Bdevs) \cup Range(Swaps)

\* Pages used by the first k devices of a list.
FirstPages(n, seq, k) == SumBelow([j \in 0..(Len(seq) - 1) |-> n[seq[j + 1]]])[k]

BufferPages(n) == FirstPages(n, Bdevs, Len(Bdevs))
SwapPages(n)   == FirstPages(n, Swaps, Len(Swaps))

\* The counters of the guest: totalram_pages, NR_FILE_PAGES, and pages of one use.
FilePages(n) == n["file"] + BufferPages(n) + SwapPages(n)
RamPages(n)  == n["free"] + n["anon"] + FilePages(n)
PagesOf(n, counter) ==
  CASE counter = "totalram_pages" -> RamPages(n)
    [] counter = "NR_FILE_PAGES" -> FilePages(n)
    [] OTHER -> n[counter]

-----------------------------------------------------------------------------
(* The loads of the command, in order: which counter, and which variable   *)
(* the number is added to.                                                 *)

LoadOf(counter, variable) == <<[of |-> counter, to |-> variable]>>
LoadEach(seq, variable) == [n \in DOMAIN seq |-> [of |-> seq[n], to |-> variable]]

getMemTotal == LoadOf("totalram_pages", "MemTotal")
getMemFree == LoadOf("free", "MemFree")
getBuffers(variable) == LoadEach(Bdevs, variable)
getMemFile == LoadOf("NR_FILE_PAGES", "file_size")
getMemSwapCache == LoadEach(Swaps, "swapcache_size")
getCached == getMemFile \o getMemSwapCache \o getBuffers("bufferram")
get_mem_usage == getMemTotal \o getMemFree \o getBuffers("Buffers") \o getCached

Variables == {"MemTotal", "MemFree", "Buffers", "file_size", "swapcache_size", "bufferram"}
NoStat == [x \in Variables |-> 0]

Unsigned(x) == x % Word

\* Mutant: the swap cache counts as cached.
CachedWithSwap == Unsigned(stat.file_size - stat.bufferram)

\* The equation of getCached, where the swap cache has become 32 bits wide.
Cached == Unsigned(stat.file_size - (stat.swapcache_size % Uint) - stat.bufferram)

\* The equation of get_mem_usage, as a share of MemTotal.
UsedMem == Unsigned(stat.MemTotal - stat.MemFree - stat.Buffers - Cached)

-----------------------------------------------------------------------------
MemInit ==
  /\ count = [u \in PageUses |-> IF u = "free" THEN Pages ELSE 0]
  /\ step = -1 /\ stat = NoStat /\ moves = 0 /\ before = count

\* The guest allocates or frees a page, the balloon takes or returns one, or an
\* anonymous page enters or leaves the swap cache.
MovePage ==
  /\ step >= 0 => moves < MaxMoves
  /\ \E u, w \in PageUses :
       /\ u # w /\ count[u] > 0
       /\ "free" \in {u, w} \/ ("anon" \in {u, w} /\ {u, w} \cap Range(Swaps) # {})
       /\ count' = [count EXCEPT ![u] = @ - 1, ![w] = @ + 1]
  /\ IF step >= 0 THEN moves' = moves + 1 /\ UNCHANGED before
                  ELSE moves' = 0 /\ before' = count'
  /\ UNCHANGED <<step, stat>>

\* mem_usage_handle starts.
mem_usage_handle ==
  /\ step = -1
  /\ step' = 0
  /\ UNCHANGED <<count, stat, moves, before>>

\* The next load.
LoadCount ==
  /\ step \in 0..(Len(get_mem_usage) - 1)
  /\ LET load == get_mem_usage[step + 1]
     IN  stat' = [stat EXCEPT ![load.to] = Unsigned(@ + PAGE_KB * PagesOf(count, load.of))]
  /\ step' = step + 1
  /\ UNCHANGED <<count, moves, before>>

\* The lines are printed, and the command ends.
PrintMemory ==
  /\ step = Len(get_mem_usage)
  /\ step' = -1 /\ stat' = NoStat /\ moves' = 0 /\ before' = count
  /\ UNCHANGED count

MemNext == MovePage \/ mem_usage_handle \/ LoadCount \/ PrintMemory

-----------------------------------------------------------------------------
(* Properties.                                                             *)

\* x is a number of pages, in kB, that is at most moves off.
Near(x, pages) == \E e \in -moves..moves : x = (PAGE_KB * (pages + e)) % Word

\* What getMemSwapCache loses of the swap cache when it returns 32 bits.
Truncated == stat.swapcache_size - (stat.swapcache_size % Uint)

\* However the loads and the guest's page moves interleave, every number printed
\* is off by at most one page for each page the guest moved during the command:
\* exact when the guest was quiet, and a wrapped around one (a utilization far
\* above 100%) only when the truth was as close to zero as that.  Cached is
\* moreover too large, and the memory in use too small, by what the 32 bits lose
\* of the swap cache: nothing below 4 TB of it, and whole multiples of 4 TB above.
MemErrorBounded ==
  step = Len(get_mem_usage) =>
    /\ Near(stat.MemTotal, RamPages(before))
    /\ Near(stat.MemFree, before["free"])
    /\ Near(stat.Buffers, BufferPages(before))
    /\ Near(Unsigned(Cached - Truncated), before["file"])
    /\ Near(Unsigned(UsedMem + Truncated), before["anon"] + SwapPages(before))

=============================================================================
