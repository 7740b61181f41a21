-------------------------- MODULE AddrTranslation --------------------------
(***************************************************************************)
(* How the plugin finds guest data in host memory: virt_to_phys and __va   *)
(* (linux-x86_64.c) for the kernel's two linear mappings, and trans_addr   *)
(* (memory.c, memory.h), which walks the guest's page tables for any other *)
(* address.                                                                *)
(*                                                                         *)
(* The guest runs while trans_addr walks: each of its four loads is a step *)
(* and the guest may store to any table in between.  Addresses count words *)
(* of sizeof(unsigned long), so an index is an offset; a table fills a     *)
(* page.  A page table entry is the page frame number that PTE_PFN_MASK    *)
(* selects and what the two bits the code does not look at say: present,   *)
(* and whether a present entry above the last level maps a large page.     *)
(***************************************************************************)
EXTENDS Integers

CONSTANTS
  Word,               \* number of addresses: 2^64, in words
  START_KERNEL_map,   \* where the kernel image is mapped
  PAGE_OFFSET,        \* where all of RAM is mapped
  Ptrs,               \* PTRS_PER_PGD, _PUD, _PMD, _PTE: entries of a table
  RamPages,           \* pages of the guest's RAM
  LastPfn,            \* largest page frame number an entry can hold
  Roots,              \* pages that hold a top level table
  Gvas,               \* addresses that are asked for
  StorePfns,          \* frame numbers the guest stores
  MaxStores           \* bound: stores of the guest to its tables

VARIABLES
  ram,      \* the guest's memory as the walk reads it: entries
  stores,   \* how many stores the guest has made
  pc,       \* where trans_addr is
  addr,     \* its parameter addr
  root,     \* the table its parameter cr3 points to
  hva,      \* offset in RAM of the entry to load next
  gpa,      \* its result
  seen,     \* ghost: the entries this walk has loaded
  moved     \* ghost: the guest has changed one of those since

walkVars == <<pc, addr, root, hva, gpa>>
vars == <<ram, stores, walkVars, seen, moved>>

Ram   == 0..(RamPages * Ptrs - 1)
Addrs == 0..(Word - 1)
Flags == {"none", "table", "large"}
Entry == [pfn : 0..LastPfn, flags : Flags]

ASSUME LayoutAssumption ==
  /\ Word \in Nat /\ START_KERNEL_map \in Nat /\ PAGE_OFFSET \in Nat
  /\ 0 < PAGE_OFFSET /\ PAGE_OFFSET < START_KERNEL_map /\ START_KERNEL_map < Word
  /\ Ptrs \in Nat \ {0} /\ RamPages \in Nat \ {0} /\ LastPfn \in Nat
  /\ RamPages <= LastPfn
  /\ (LastPfn + 1) * Ptrs <= START_KERNEL_map - PAGE_OFFSET
  /\ Roots \subseteq 0..(RamPages - 1)
  /\ Gvas \subseteq Addrs
  /\ StorePfns \subseteq 0..LastPfn
  /\ MaxStores \in Nat

-----------------------------------------------------------------------------
(* Unsigned arithmetic, and the conversions.                               *)

Plus(x, y) == IF x + y < Word THEN x + y ELSE x + y - Word

\* Mutant: the difference is signed.
MinusSigned(x, y) == x - y

Minus(x, y) == IF x < y THEN x - y + Word ELSE x - y

__va(x) == Plus(x, PAGE_OFFSET)

\* Mutant: the comparison is the wrong way round.
virt_to_phys_swapped(x) ==
  LET y == Minus(x, START_KERNEL_map)
  IN  Plus(y, IF x > y THEN Minus(START_KERNEL_map, PAGE_OFFSET) ELSE 0)

\* The difference is the physical address of the image mapping; it exceeds x
\* exactly if the subtraction wrapped, that is, for the mapping of RAM.
virt_to_phys(x) ==
  LET y == Minus(x, START_KERNEL_map)
  IN  Plus(y, IF x > y THEN 0 ELSE Minus(START_KERNEL_map, PAGE_OFFSET))

pgd_index(a) == (a \div (Ptrs * Ptrs * Ptrs * Ptrs)) % Ptrs
pud_index(a) == (a \div (Ptrs * Ptrs * Ptrs)) % Ptrs
pmd_index(a) == (a \div (Ptrs * Ptrs)) % Ptrs
pte_index(a) == (a \div Ptrs) % Ptrs
page_offset(a) == a % Ptrs

Page(pfn) == pfn * Ptrs

\* pgd_offset: cr3 is the kernel's pointer to the table.
pgd_offset(page, a) == Plus(__va(Page(page)), pgd_index(a))

\* Mutant: the masked entry is not turned into a virtual address.
table_offset_physical(entry, index) == Plus(Page(entry.pfn), index)

\* pud_offset, pmd_offset, pte_offset_kernel: __va of the masked entry, plus
\* the index.
table_offset(entry, index) == Plus(__va(Page(entry.pfn)), index)

-----------------------------------------------------------------------------
(* The architecture: where the guest's own accesses go.                    *)

Pgd(a) == ram[Page(root) + pgd_index(a)]
Pud(a) == ram[Page(Pgd(a).pfn) + pud_index(a)]
Pmd(a) == ram[Page(Pud(a).pfn) + pmd_index(a)]
Pte(a) == ram[Page(Pmd(a).pfn) + pte_index(a)]

\* An entry that leads to a table in RAM.
LeadsOn(entry) == entry.flags = "table" /\ entry.pfn < RamPages

\* Address a is mapped, by a page of the smallest size.
Mapped4K(a) ==
  /\ LeadsOn(Pgd(a))
  /\ LeadsOn(Pud(a))
  /\ LeadsOn(Pmd(a))
  /\ Pte(a).flags # "none"

-----------------------------------------------------------------------------
\* The guest has built tables: every entry leads to the page behind its own.
Init ==
  /\ ram = [w \in Ram |-> [pfn |-> (w \div Ptrs) + 1, flags |-> "table"]]
  /\ stores = 0
  /\ pc = "idle"
  /\ addr = 0
  /\ root = 0
  /\ hva = 0
  /\ gpa = 0
  /\ seen = {}
  /\ moved = FALSE

\* The guest stores to a word of a table: it maps, unmaps, frees or reuses.
GuestStore(w) ==
  /\ stores < MaxStores
  /\ stores' = stores + 1
  /\ \E p \in StorePfns, f \in Flags : ram' = [ram EXCEPT ![w] = [pfn |-> p, flags |-> f]]
  /\ moved' = (moved \/ (w \in seen /\ ram'[w] # ram[w]))
  /\ UNCHANGED <<walkVars, seen>>

\* trans_addr(mem, a, cr3), called by hmp_trans_addr and traverse_modules,
\* up to the address of the first entry.
TransAddr(a, r) ==
  /\ pc \in {"idle", "done"}
  /\ pc' = "pgd"
  /\ addr' = a
  /\ root' = r
  /\ hva' = virt_to_phys(pgd_offset(r, a))
  /\ seen' = {}
  /\ moved' = FALSE
  /\ UNCHANGED <<ram, stores, gpa>>

\* A load from *_hva, and the address of the next entry.  Outside of RAM
\* there may be nothing mapped, and the process ends.
LoadTable(here, there, index) ==
  /\ pc = here
  /\ IF hva \in Ram
       THEN /\ pc' = there
            /\ hva' = virt_to_phys(table_offset(ram[hva], index))
            /\ seen' = seen \cup {hva}
       ELSE pc' = "fault" /\ UNCHANGED <<hva, seen>>
  /\ UNCHANGED <<ram, stores, addr, root, gpa, moved>>

LoadPgd == LoadTable("pgd", "pud", pud_index(addr))
LoadPud == LoadTable("pud", "pmd", pmd_index(addr))

\* Mutant: the index of the level above is used again.
LoadPmdWrongIndex == LoadTable("pmd", "pte", pmd_index(addr))

LoadPmd == LoadTable("pmd", "pte", pte_index(addr))

\* The last load: pte_pfn << PAGE_SHIFT, with the offset in the page.
LoadPte ==
  /\ pc = "pte"
  /\ IF hva \in Ram
       THEN /\ pc' = "done"
            /\ gpa' = Page(ram[hva].pfn) + page_offset(addr)
            /\ seen' = seen \cup {hva}
       ELSE pc' = "fault" /\ UNCHANGED <<gpa, seen>>
  /\ UNCHANGED <<ram, stores, addr, root, hva, moved>>

WalkNext == LoadPgd \/ LoadPud \/ LoadPmd \/ LoadPte

\* After the fault nothing happens.
Faulted == pc = "fault" /\ UNCHANGED vars

Next ==
  \/ \E w \in Ram : pc # "fault" /\ GuestStore(w)
  \/ \E a \in Gvas, r \in Roots : TransAddr(a, r)
  \/ WalkNext
  \/ Faulted

Spec == Init /\ [][Next]_vars

-----------------------------------------------------------------------------
(* Properties.                                                             *)

\* Every variable stays in its set; the entry the walk is about to load may
\* lie anywhere in the address space.
TypeOK ==
  /\ ram \in [Ram -> Entry]
  /\ stores \in 0..MaxStores
  /\ pc \in {"idle", "pgd", "pud", "pmd", "pte", "done", "fault"}
  /\ addr \in Addrs
  /\ root \in 0..(RamPages - 1)
  /\ hva \in Addrs
  /\ gpa \in Nat
  /\ seen \in SUBSET Ram
  /\ moved \in BOOLEAN

\* virt_to_phys undoes both of the kernel's linear mappings, whatever the
\* subtraction wraps to: RAM through __va, and the kernel image.  So whatever
\* the guest stores in its tables, an entry is followed to the page it names.
MappingsInvert ==
  /\ \A p \in 0..(START_KERNEL_map - PAGE_OFFSET - 1) : virt_to_phys(__va(p)) = p
  /\ \A p \in 0..(Word - START_KERNEL_map - 1) : virt_to_phys(START_KERNEL_map + p) = p
  /\ \A w \in Ram, n \in 0..(Ptrs - 1) :
       virt_to_phys(table_offset(ram[w], n)) = Page(ram[w].pfn) + n

\* trans_addr gives what the guest's own access to addr would give at the time
\* of its last load, although the guest may have changed the tables meanwhile:
\* it is enough that addr is then mapped by a small page and that the entries
\* already followed are still what they were.
TranslationRight ==
  [][pc = "pte" /\ pc' = "done" /\ ~moved /\ Mapped4K(addr)
       => gpa' = Page(Pte(addr).pfn) + page_offset(addr)]_vars

\* The walk leaves the guest's RAM only if addr is not mapped by a small page
\* at that moment, or an entry already followed has been changed.
WalkInRam ==
  [][pc # "fault" /\ pc' = "fault" => moved \/ ~Mapped4K(addr)]_vars

=============================================================================
