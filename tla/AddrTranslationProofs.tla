----------------------- MODULE AddrTranslationProofs -----------------------
(***************************************************************************)
(* virt_to_phys and trans_addr for every memory layout, table size and     *)
(* number of guest stores.                                                 *)
(***************************************************************************)
EXTENDS AddrTranslation, TLAPS

\* The part of the address space that is mapped linearly.
Physical == 0..(START_KERNEL_map - PAGE_OFFSET - 1)

\* Below START_KERNEL_map the subtraction wraps, and the result is the distance
\* from PAGE_OFFSET.
LEMMA DirectMapping ==
  ASSUME NEW p \in Physical
  PROVE  virt_to_phys(__va(p)) = p
BY LayoutAssumption DEF Physical, virt_to_phys, __va, Plus, Minus

\* Above it does not.
LEMMA ImageMapping ==
  ASSUME NEW p \in 0..(Word - START_KERNEL_map - 1)
  PROVE  virt_to_phys(START_KERNEL_map + p) = p
BY LayoutAssumption DEF virt_to_phys, Plus, Minus

\* An index into a table, and an offset into a page.
LEMMA IndexRange ==
  ASSUME NEW a \in Addrs
  PROVE  /\ pgd_index(a) \in 0..(Ptrs - 1)
         /\ pud_index(a) \in 0..(Ptrs - 1)
         /\ pmd_index(a) \in 0..(Ptrs - 1)
         /\ pte_index(a) \in 0..(Ptrs - 1)
         /\ page_offset(a) \in 0..(Ptrs - 1)
<1>1. \A n \in Int : n % Ptrs \in 0..(Ptrs - 1)
  BY LayoutAssumption
<1>2. /\ Ptrs * Ptrs \in Nat \ {0}
      /\ Ptrs * Ptrs * Ptrs \in Nat \ {0}
      /\ Ptrs * Ptrs * Ptrs * Ptrs \in Nat \ {0}
  BY LayoutAssumption
<1>3. \A d \in Nat \ {0} : a \div d \in Int
  BY LayoutAssumption DEF Addrs
<1>4. QED
  BY <1>1, <1>2, <1>3, LayoutAssumption
  DEF Addrs, pgd_index, pud_index, pmd_index, pte_index, page_offset

\* A word of page n lies in RAM if n does, and in the linear mapping if n is
\* a frame number an entry can hold.
LEMMA WordOfPage ==
  ASSUME NEW n \in 0..LastPfn, NEW i \in 0..(Ptrs - 1)
  PROVE  /\ Page(n) + i \in Physical
         /\ Page(n) + i \in Addrs
         /\ n < RamPages => Page(n) + i \in Ram
<1>1. Page(n) \in Nat
  BY LayoutAssumption DEF Page
<1>2. \A m \in Nat : n < m => n * Ptrs + Ptrs <= m * Ptrs
  <2> TAKE m \in Nat
  <2> HAVE n < m
  <2>1. PICK k \in Nat : m = n + 1 + k
    <3> WITNESS m - n - 1 \in Nat
    <3> QED OBVIOUS
  <2>2. m * Ptrs = n * Ptrs + Ptrs + k * Ptrs /\ k * Ptrs \in Nat
    BY <2>1, LayoutAssumption
  <2>3. QED
    BY <2>2, <1>1, LayoutAssumption DEF Page
<1>3. Page(n) + i < (LastPfn + 1) * Ptrs
  BY <1>1, <1>2, LayoutAssumption DEF Page
<1>4. n < RamPages => Page(n) + i < RamPages * Ptrs
  BY <1>1, <1>2, LayoutAssumption DEF Page
<1>5. QED
  BY <1>1, <1>3, <1>4, LayoutAssumption DEF Physical, Addrs, Ram

\* The entry trans_addr loads next is the one it means to load.
LEMMA EntryAddress ==
  ASSUME NEW n \in 0..LastPfn, NEW i \in 0..(Ptrs - 1)
  PROVE  virt_to_phys(Plus(__va(Page(n)), i)) = Page(n) + i
<1>1. Page(n) + i \in Physical /\ Page(n) \in Nat
  BY WordOfPage, LayoutAssumption DEF Page
<1>2. Plus(__va(Page(n)), i) = __va(Page(n) + i)
  BY <1>1, LayoutAssumption DEF Physical, Plus, __va
<1>3. QED
  BY <1>1, <1>2, DirectMapping

-----------------------------------------------------------------------------
(* The walk.                                                               *)

PgdAt(a) == Page(root) + pgd_index(a)
PudAt(a) == Page(Pgd(a).pfn) + pud_index(a)
PmdAt(a) == Page(Pud(a).pfn) + pmd_index(a)
PteAt(a) == Page(Pmd(a).pfn) + pte_index(a)

\* The inductive invariant: as long as the guest has not changed an entry the
\* walk has followed, the walk is where the architecture's own walk of the
\* present tables would be, and the entries that lead there are noted.
IInv ==
  /\ TypeOK
  /\ ~moved =>
       /\ pc = "pgd" => hva = PgdAt(addr)
       /\ pc \in {"pud", "pmd", "pte"} => PgdAt(addr) \in seen
       /\ pc = "pud" => hva = PudAt(addr)
       /\ pc \in {"pmd", "pte"} => PudAt(addr) \in seen
       /\ pc = "pmd" => hva = PmdAt(addr)
       /\ pc = "pte" => PmdAt(addr) \in seen /\ hva = PteAt(addr)

\* The invariant holds before the first command.
LEMMA IInit == Init => IInv
<1> SUFFICES ASSUME Init PROVE IInv
  OBVIOUS
<1>1. ASSUME NEW w \in Ram PROVE w \div Ptrs + 1 \in 0..LastPfn
  <2>1. w \in Nat /\ w < RamPages * Ptrs
    BY LayoutAssumption DEF Ram
  <2>2. w \div Ptrs \in Nat /\ w \div Ptrs < RamPages
    BY <2>1, LayoutAssumption
  <2>3. QED
    BY <2>2, LayoutAssumption
<1>2. ram \in [Ram -> Entry]
  BY <1>1 DEF Init, Entry, Flags
<1>3. /\ stores = 0 /\ pc = "idle" /\ addr = 0 /\ root = 0 /\ hva = 0
      /\ gpa = 0 /\ seen = {} /\ moved = FALSE
  BY DEF Init
<1>4. TypeOK
  <2>1. 0 \in 0..(Word - 1) /\ 0 \in 0..(RamPages - 1) /\ 0 \in 0..MaxStores
    BY LayoutAssumption
  <2>2. QED
    BY ZenonT(30), <1>2, <1>3, <2>1 DEF TypeOK, Addrs
<1>5. QED
  BY <1>3, <1>4 DEF IInv

\* One load of a table that is in RAM: the next address.
LEMMA NextEntry ==
  ASSUME TypeOK, hva \in Ram, NEW i \in 0..(Ptrs - 1)
  PROVE  /\ virt_to_phys(table_offset(ram[hva], i)) = Page(ram[hva].pfn) + i
         /\ virt_to_phys(table_offset(ram[hva], i)) \in Addrs
<1>1. ram[hva].pfn \in 0..LastPfn
  BY DEF TypeOK, Entry
<1>2. QED
  BY <1>1, EntryAddress, WordOfPage DEF table_offset

\* Every load of the walk and every store of the guest keeps it.
LEMMA INext == IInv /\ [Next]_vars => IInv'
<1> SUFFICES ASSUME IInv, [Next]_vars PROVE IInv'
  OBVIOUS
<1>t. TypeOK
  BY DEF IInv
<1>i. ASSUME NEW a \in Addrs
      PROVE  /\ pgd_index(a) \in 0..(Ptrs - 1) /\ pud_index(a) \in 0..(Ptrs - 1)
             /\ pmd_index(a) \in 0..(Ptrs - 1) /\ pte_index(a) \in 0..(Ptrs - 1)
  BY ZenonT(30), IndexRange
<1>1. ASSUME NEW w \in Ram, GuestStore(w) PROVE IInv'
  <2>1. PICK p \in StorePfns, f \in Flags :
          ram' = [ram EXCEPT ![w] = [pfn |-> p, flags |-> f]]
    BY ZenonT(30), <1>1 DEF GuestStore
  <2>2. ram' \in [Ram -> Entry]
    BY <2>1, <1>t, LayoutAssumption DEF TypeOK, Entry
  <2>3. /\ stores' \in 0..MaxStores /\ UNCHANGED <<pc, addr, root, hva, gpa, seen>>
        /\ moved' = (moved \/ (w \in seen /\ ram'[w] # ram[w]))
    BY <1>1, <1>t, LayoutAssumption DEF GuestStore, walkVars, TypeOK
  <2>4. TypeOK'
    BY <2>2, <2>3, <1>t DEF TypeOK
  <2>5. ASSUME ~moved' PROVE ~moved /\ \A s \in seen : ram'[s] = ram[s]
    BY ZenonT(30), <2>1, <2>3, <2>5, <1>t DEF TypeOK
  <2>6. QED
    BY <2>3, <2>4, <2>5 DEF IInv, PgdAt, PudAt, PmdAt, PteAt, Pgd, Pud, Pmd
<1>2. ASSUME NEW a \in Gvas, NEW r \in Roots, TransAddr(a, r) PROVE IInv'
  <2>1. a \in Addrs /\ r \in 0..LastPfn /\ r < RamPages /\ r \in 0..(RamPages - 1)
    BY LayoutAssumption
  <2>2. hva' = Page(r) + pgd_index(a) /\ hva' \in Addrs
    BY <1>2, <1>i, <2>1, EntryAddress, WordOfPage DEF TransAddr, pgd_offset
  <2>3. /\ pc' = "pgd" /\ addr' = a /\ root' = r /\ seen' = {} /\ moved' = FALSE
        /\ UNCHANGED <<ram, stores, gpa>>
    BY <1>2 DEF TransAddr
  <2>4. TypeOK'
    BY ZenonT(30), <2>1, <2>2, <2>3, <1>t DEF TypeOK
  <2>5. QED
    BY <2>2, <2>3, <2>4 DEF IInv, PgdAt
<1>3. ASSUME NEW here, NEW there \in {"pud", "pmd", "pte"}, NEW i \in 0..(Ptrs - 1),
             LoadTable(here, there, i)
      PROVE  /\ TypeOK'
             /\ \/ pc' = "fault"
                \/ /\ hva \in Ram /\ pc' = there /\ seen' = seen \cup {hva}
                   /\ hva' = Page(ram[hva].pfn) + i
             /\ UNCHANGED <<ram, addr, root, moved>>
  <2>1. CASE hva \in Ram
    <3>1. /\ pc' = there /\ seen' = seen \cup {hva}
          /\ hva' = virt_to_phys(table_offset(ram[hva], i))
          /\ UNCHANGED <<ram, stores, addr, root, gpa, moved>>
      BY <1>3, <2>1 DEF LoadTable
    <3>2. hva' = Page(ram[hva].pfn) + i /\ hva' \in Addrs
      BY <3>1, <2>1, <1>t, NextEntry
    <3>3. TypeOK'
      BY <3>1, <3>2, <2>1, <1>t DEF TypeOK
    <3>4. QED
      BY <3>1, <3>2, <3>3, <2>1
  <2>2. CASE hva \notin Ram
    BY <1>3, <2>2, <1>t DEF LoadTable, TypeOK
  <2>3. QED
    BY <2>1, <2>2
<1>a. addr \in Addrs
  BY <1>t DEF TypeOK
<1>4. CASE LoadPgd
  <2>1. pc = "pgd" /\ LoadTable("pgd", "pud", pud_index(addr))
    BY <1>4 DEF LoadPgd, LoadTable
  <2>2. QED
    BY ZenonT(30), <2>1, <1>3, <1>i, <1>a DEF IInv, PgdAt, PudAt, Pgd
<1>5. CASE LoadPud
  <2>1. pc = "pud" /\ LoadTable("pud", "pmd", pmd_index(addr))
    BY <1>5 DEF LoadPud, LoadTable
  <2>2. /\ TypeOK'
        /\ \/ pc' = "fault"
           \/ /\ hva \in Ram /\ pc' = "pmd" /\ seen' = seen \cup {hva}
              /\ hva' = Page(ram[hva].pfn) + pmd_index(addr)
        /\ UNCHANGED <<ram, addr, root, moved>>
    BY ZenonT(30), <2>1, <1>3, <1>i, <1>a
  <2>3. ~moved => hva = PudAt(addr) /\ PgdAt(addr) \in seen
    BY <2>1 DEF IInv
  <2>4. /\ PgdAt(addr)' = PgdAt(addr) /\ PudAt(addr)' = PudAt(addr)
        /\ PmdAt(addr)' = PmdAt(addr)
    BY <2>2 DEF PgdAt, PudAt, PmdAt, Pgd, Pud
  <2>5. hva = PudAt(addr) => Page(ram[hva].pfn) + pmd_index(addr) = PmdAt(addr)
    BY DEF PudAt, PmdAt, Pud
  <2>6. QED
    BY <2>2, <2>3, <2>4, <2>5 DEF IInv
<1>6. CASE LoadPmd
  <2>1. pc = "pmd" /\ LoadTable("pmd", "pte", pte_index(addr))
    BY <1>6 DEF LoadPmd, LoadTable
  <2>2. /\ TypeOK'
        /\ \/ pc' = "fault"
           \/ /\ hva \in Ram /\ pc' = "pte" /\ seen' = seen \cup {hva}
              /\ hva' = Page(ram[hva].pfn) + pte_index(addr)
        /\ UNCHANGED <<ram, addr, root, moved>>
    BY ZenonT(30), <2>1, <1>3, <1>i, <1>a
  <2>3. ~moved => hva = PmdAt(addr) /\ PgdAt(addr) \in seen /\ PudAt(addr) \in seen
    BY <2>1 DEF IInv
  <2>4. /\ PgdAt(addr)' = PgdAt(addr) /\ PudAt(addr)' = PudAt(addr)
        /\ PmdAt(addr)' = PmdAt(addr) /\ PteAt(addr)' = PteAt(addr)
    BY <2>2 DEF PgdAt, PudAt, PmdAt, PteAt, Pgd, Pud, Pmd
  <2>5. hva = PmdAt(addr) => Page(ram[hva].pfn) + pte_index(addr) = PteAt(addr)
    BY DEF PmdAt, PteAt, Pmd
  <2>6. QED
    BY <2>2, <2>3, <2>4, <2>5 DEF IInv
<1>7. CASE LoadPte
  <2>1. page_offset(addr) \in Nat
    BY <1>a, IndexRange
  <2>2. hva \in Ram => Page(ram[hva].pfn) + page_offset(addr) \in Nat
    <3>1. hva \in Ram => ram[hva].pfn \in 0..LastPfn
      BY <1>t DEF TypeOK, Entry
    <3>2. ASSUME NEW n \in 0..LastPfn PROVE n * Ptrs \in Nat
      BY LayoutAssumption
    <3>3. hva \in Ram => Page(ram[hva].pfn) \in Nat
      BY ZenonT(30), <3>1, <3>2 DEF Page
    <3>4. QED
      BY <2>1, <3>3
  <2>3. QED
    BY <2>2, <1>7, <1>t DEF LoadPte, TypeOK, IInv
<1>8. CASE UNCHANGED vars
  BY <1>8, <1>t DEF vars, walkVars, IInv, TypeOK, PgdAt, PudAt, PmdAt, PteAt, Pgd, Pud, Pmd
<1>9. QED
  BY <1>1, <1>2, <1>4, <1>5, <1>6, <1>7, <1>8 DEF Next, WalkNext, Faulted

\* All variables keep their types, whatever the guest stores.
THEOREM TypeCorrect == Spec => []TypeOK
<1>1. IInv => TypeOK
  BY DEF IInv
<1>2. QED
  BY <1>1, IInit, INext, PTL DEF Spec

\* virt_to_phys undoes __va and the mapping of the kernel image, for every
\* address of either mapping and every layout the assumptions allow, and the
\* plugin follows every entry the guest has stored to the page it names.
THEOREM LinearMappings == Spec => []MappingsInvert
<1>1. ASSUME TypeOK, NEW w \in Ram, NEW n \in 0..(Ptrs - 1)
      PROVE  virt_to_phys(table_offset(ram[w], n)) = Page(ram[w].pfn) + n
  <2>1. ram[w].pfn \in 0..LastPfn
    BY <1>1 DEF TypeOK, Entry
  <2>2. QED
    BY <2>1, EntryAddress DEF table_offset
<1>2. \A p \in 0..(START_KERNEL_map - PAGE_OFFSET - 1) : virt_to_phys(__va(p)) = p
  BY DirectMapping DEF Physical
<1>3. \A p \in 0..(Word - START_KERNEL_map - 1) : virt_to_phys(START_KERNEL_map + p) = p
  BY ImageMapping
<1>4. TypeOK => MappingsInvert
  BY <1>1, <1>2, <1>3 DEF MappingsInvert
<1>5. QED
  BY <1>4, TypeCorrect, PTL

\* trans_addr agrees with the architecture on addresses mapped by small pages,
\* for tables of any size, unless an entry it has followed is changed under it.
THEOREM WalkCorrect == Spec => TranslationRight
<1>1. ASSUME IInv, [Next]_vars, pc = "pte", pc' = "done", ~moved, Mapped4K(addr)
      PROVE  gpa' = Page(Pte(addr).pfn) + page_offset(addr)
  <2>1. LoadPte
    BY <1>1 DEF Next, GuestStore, TransAddr, WalkNext, LoadPgd, LoadPud, LoadPmd,
                LoadTable, Faulted, vars, walkVars
  <2>2. hva = PteAt(addr)
    BY <1>1 DEF IInv
  <2>3. gpa' = Page(ram[hva].pfn) + page_offset(addr)
    BY <1>1, <2>1 DEF LoadPte
  <2>4. QED
    BY <2>2, <2>3 DEF PteAt, Pte
<1>2. IInv /\ [Next]_vars =>
        [pc = "pte" /\ pc' = "done" /\ ~moved /\ Mapped4K(addr)
           => gpa' = Page(Pte(addr).pfn) + page_offset(addr)]_vars
  BY <1>1
<1>3. QED
  BY <1>2, IInit, INext, PTL DEF Spec, TranslationRight

\* An address mapped by a small page never makes trans_addr read outside the
\* guest's RAM, unless an entry it has followed is changed under it.
THEOREM WalkBounded == Spec => WalkInRam
<1>1. ASSUME IInv, [Next]_vars, pc # "fault", pc' = "fault", ~moved, Mapped4K(addr)
      PROVE  FALSE
  <2>1. hva \notin Ram /\ pc \in {"pgd", "pud", "pmd", "pte"}
    BY <1>1 DEF Next, GuestStore, TransAddr, WalkNext, LoadPgd, LoadPud, LoadPmd,
                LoadPte, LoadTable, Faulted, vars, walkVars
  <2>2. TypeOK /\ addr \in Addrs /\ root \in 0..LastPfn /\ root < RamPages
    BY <1>1, LayoutAssumption DEF IInv, TypeOK
  <2>3. PgdAt(addr) \in Ram
    BY <2>2, IndexRange, WordOfPage DEF PgdAt
  <2>4. PudAt(addr) \in Ram
    <3>1. Pgd(addr).pfn \in 0..LastPfn /\ Pgd(addr).pfn < RamPages
      BY <1>1, <2>2, <2>3 DEF Mapped4K, LeadsOn, PgdAt, Pgd, TypeOK, Entry
    <3>2. QED
      BY <3>1, <2>2, IndexRange, WordOfPage DEF PudAt
  <2>5. PmdAt(addr) \in Ram
    <3>1. Pud(addr).pfn \in 0..LastPfn /\ Pud(addr).pfn < RamPages
      BY <1>1, <2>2, <2>4 DEF Mapped4K, LeadsOn, PudAt, Pud, TypeOK, Entry
    <3>2. QED
      BY <3>1, <2>2, IndexRange, WordOfPage DEF PmdAt
  <2>6. PteAt(addr) \in Ram
    <3>1. Pmd(addr).pfn \in 0..LastPfn /\ Pmd(addr).pfn < RamPages
      BY <1>1, <2>2, <2>5 DEF Mapped4K, LeadsOn, PmdAt, Pmd, TypeOK, Entry
    <3>2. QED
      BY <3>1, <2>2, IndexRange, WordOfPage DEF PteAt
  <2>7. QED
    BY <1>1, <2>1, <2>3, <2>4, <2>5, <2>6 DEF IInv
<1>2. IInv /\ [Next]_vars =>
        [pc # "fault" /\ pc' = "fault" => moved \/ ~Mapped4K(addr)]_vars
  BY <1>1
<1>3. QED
  BY <1>2, IInit, INext, PTL DEF Spec, WalkInRam

=============================================================================
