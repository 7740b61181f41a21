-------------------------- MODULE GuestListsProofs --------------------------
(***************************************************************************)
(* Proofs about GuestLists, for any number of tasks, modules and devices   *)
(* and any number of changes of the guest.                                 *)
(***************************************************************************)
EXTENDS GuestLists, TLAPS

\* Most steps are first-order reasoning about sets and functions, which Zenon
\* does; the arithmetic is left to SMT.
USE ZenonT(5), SMTT(10)

-----------------------------------------------------------------------------
(* Types.  What has ever been linked has a next field, and what that field *)
(* names has one too, so that a walk never leaves the guest's lists.       *)

\* Every variable keeps its type, and a walk is on an object with a next field.
TypeInv ==
  /\ TypeOK
  /\ linked \cap freed = {}
  /\ \A n \in linked \cup Heads : gnext[n] # NULL
  /\ \A n \in Nodes \cup Heads : gnext[n] # NULL => gnext[gnext[n]] # NULL
  /\ gnext[cur] # NULL
  /\ pc = "pgd" => cur \in Tasks

\* The cells of the host list: the head and one for every entry.
LEMMA CellFacts == 0 \in Cells /\ Cells \subseteq Nat /\ Entries \subseteq Cells /\ 0 \notin Entries
BY ListAssumption DEF Cells, Entries

\* Assigning two cells of the list.
LEMMA CellUpdate ==
  ASSUME NEW f \in [Cells -> Cells], NEW a, NEW b, NEW x \in Cells, NEW y \in Cells
  PROVE  [f EXCEPT ![a] = x, ![b] = y] \in [Cells -> Cells]
OBVIOUS

\* An entry of a sequence that has got one more.
LEMMA AppendAt ==
  ASSUME NEW R, NEW s \in Seq(R), NEW e
  PROVE  \A i \in 1..Len(Append(s, e)) :
           \/ i \in 1..Len(s) /\ Append(s, e)[i] = s[i]
           \/ Append(s, e)[i] = e
OBVIOUS

\* A sequence that has got one more entry.
LEMMA AppendIs ==
  ASSUME NEW R, NEW s \in Seq(R), NEW e
  PROVE  /\ Len(s) \in Nat /\ Len(Append(s, e)) = Len(s) + 1 /\ Append(s, e)[Len(s) + 1] = e
         /\ \A i \in 1..Len(s) : Append(s, e)[i] = s[i]
OBVIOUS

\* The types that the order of a walk rests on.
LEMMA Typed ==
  ASSUME TypeInv
  PROVE  /\ births \in Nat /\ whead \in Heads /\ cur \in Nodes \cup Heads
         /\ linked \subseteq Nodes /\ ever \subseteq Nodes
         /\ gnext \in [Nodes \cup Heads -> Nodes \cup Heads \cup {NULL}]
         /\ item \in Seq([node : Nodes \cup Heads, cr3 : Tasks \cup {NULL, Junk}])
         /\ Len(item) \in Nat
<1>1. /\ births \in 0..MaxBirths /\ whead \in Heads /\ cur \in Nodes \cup Heads
      /\ linked \subseteq Nodes /\ ever \subseteq Nodes
      /\ gnext \in [Nodes \cup Heads -> Nodes \cup Heads \cup {NULL}]
      /\ item \in Seq([node : Nodes \cup Heads, cr3 : Tasks \cup {NULL, Junk}])
  BY DEF TypeInv, TypeOK
<1>2. births \in Nat
  BY SMTT(30), <1>1, ListAssumption
<1>3. Len(item) \in Nat
  BY <1>1, AppendIs
<1> QED
  BY <1>1, <1>2, <1>3

\* add_item lengthens the list by one entry.
LEMMA AddItemIs ==
  ASSUME TypeInv, AddItem
  PROVE  pc = "add" /\ pc' = "next" /\ UNCHANGED <<whead, cur>> /\ Len(item') = Len(item) + 1
<1>1. /\ pc = "add" /\ pc' = "next" /\ item' = Append(item, [node |-> cur, cr3 |-> cr3v])
      /\ UNCHANGED <<whead, cur>>
  BY DEF AddItem
<1>2. item \in Seq([node : Nodes \cup Heads, cr3 : Tasks \cup {NULL, Junk}])
  BY Typed
<1> QED
  BY <1>1, <1>2, AppendIs

\* Init gives the types.
LEMMA TypeInit == Init => TypeInv
<1> SUFFICES ASSUME Init PROVE TypeInv
  OBVIOUS
<1> USE ListAssumption, CellFacts DEF Init, Heads
<1>1. /\ gnext \in [Nodes \cup Heads -> Nodes \cup Heads \cup {NULL}]
      /\ \A n \in linked \cup Heads : gnext[n] # NULL
      /\ \A n \in Nodes \cup Heads : gnext[n] # NULL => gnext[gnext[n]] # NULL
      /\ gnext[cur] # NULL
  OBVIOUS
<1>2. hnext \in [Cells -> Cells] /\ hprev \in [Cells -> Cells]
  OBVIOUS
<1>3. item \in Seq([node : Nodes \cup Heads, cr3 : Tasks \cup {NULL, Junk}])
  OBVIOUS
<1>4. births \in 0..MaxBirths /\ pos \in Cells /\ live \subseteq Entries
  OBVIOUS
<1>5. /\ linked = {} /\ freed = Nodes /\ user = {} /\ cmd = NULL /\ pc = "idle"
      /\ whead = init_task /\ cur = init_task /\ init_task \in Heads /\ cr3v = NULL /\ cr3 = NULL
      /\ since = {} /\ ever = {} /\ steady = {} /\ exited = FALSE /\ reused = FALSE
  OBVIOUS
<1> HIDE ListAssumption, CellFacts DEF Init, Heads
<1> QED
  BY <1>1, <1>2, <1>3, <1>4, <1>5 DEF TypeInv, TypeOK

\* Leaving a command keeps the types.
LEMMA TypeLeave ==
  ASSUME TypeInv, NEW p \in {"idle", "wild"}, Leave(p) PROVE TypeInv'
<1> USE ListAssumption, CellFacts DEF TypeInv, TypeOK, Heads
<1>1. hnext' \in [Cells -> Cells] /\ hprev' \in [Cells -> Cells] /\ live' \subseteq Entries
  BY ZenonT(30) DEF Leave
<1>2. item' \in Seq([node : Nodes \cup Heads, cr3 : Tasks \cup {NULL, Junk}])
  BY SMTT(30) DEF Leave
<1> QED
  BY <1>1, <1>2 DEF Leave, guestVars

\* The guest's steps keep the types.
LEMMA TypeGuest ==
  ASSUME TypeInv, NEW n \in Nodes, Link(n) \/ ExitMm(n) \/ Unlink(n) \/ Free(n)
  PROVE  TypeInv'
<1> USE ListAssumption DEF TypeInv, TypeOK
<1>1. CASE Link(n)
  <2>1. PICK prev \in OnList(HeadOf(n)) \cup {HeadOf(n)} :
          gnext' = [gnext EXCEPT ![prev] = n, ![n] = gnext[prev]]
    BY <1>1 DEF Link
  <2>2. prev \in linked \cup Heads /\ prev \in Nodes \cup Heads /\ gnext[prev] # NULL
    BY DEF OnList, HeadOf, Heads
  <2>3. /\ gnext' \in [Nodes \cup Heads -> Nodes \cup Heads \cup {NULL}]
        /\ \A m \in Nodes \cup Heads :
             gnext'[m] = IF m = n THEN gnext[prev] ELSE IF m = prev THEN n ELSE gnext[m]
    BY <2>1, <2>2
  <2>4. \A m \in (linked \cup Heads)' : gnext'[m] # NULL
    BY SMTT(30), <1>1, <2>2, <2>3 DEF Link, Heads
  <2>5. \A m \in Nodes \cup Heads : gnext'[m] # NULL => gnext'[gnext'[m]] # NULL
    BY SMTT(30), <2>2, <2>3
  <2>6. gnext'[cur'] # NULL
    BY SMTT(30), <1>1, <2>2, <2>3 DEF Link
  <2>7. TypeOK'
    <3>1. births' \in 0..MaxBirths
      BY SMTT(30), <1>1 DEF Link
    <3>2. user' \subseteq Tasks /\ linked' \subseteq Nodes /\ freed' \subseteq Nodes /\ ever' \subseteq Nodes
      BY SMTT(30), <1>1 DEF Link
    <3> QED
      BY ZenonT(30), <1>1, <2>3, <3>1, <3>2 DEF Link, hostVars
  <2>8. (linked \cap freed = {})' /\ (pc' = "pgd" => cur' \in Tasks)
    BY SMTT(30), <1>1 DEF Link
  <2> HIDE ListAssumption DEF TypeOK
  <2> QED
    BY <2>4, <2>5, <2>6, <2>7, <2>8 DEF Heads, Nodes
<1>2. CASE ExitMm(n)
  BY SMTT(30), <1>2 DEF ExitMm, hostVars, Nodes, Heads
<1>3. CASE Unlink(n)
  <2>1. PICK prev \in OnList(HeadOf(n)) \cup {HeadOf(n)} :
          gnext[prev] = n /\ gnext' = [gnext EXCEPT ![prev] = gnext[n]]
    BY <1>3 DEF Unlink
  <2>2. prev \in Nodes \cup Heads /\ gnext[n] # NULL
    BY <1>3 DEF OnList, HeadOf, Heads, Unlink
  <2>3. /\ gnext' \in [Nodes \cup Heads -> Nodes \cup Heads \cup {NULL}]
        /\ \A m \in Nodes \cup Heads :
             gnext'[m] = IF m = prev THEN gnext[n] ELSE gnext[m]
    BY <2>1, <2>2
  <2>4. TypeOK'
    BY SMTT(30), <1>3, <2>3 DEF Unlink, hostVars
  <2> QED
    BY SMTT(30), <1>3, <2>1, <2>2, <2>3, <2>4 DEF Unlink, Heads, Nodes
<1>4. CASE Free(n)
  BY SMTT(30), <1>4 DEF Free, hostVars, ghostVars, Nodes, Heads
<1> QED
  BY <1>1, <1>2, <1>3, <1>4

\* Every step keeps the types; that the search for a page table looks at
\* entries of the list is proved further down.
LEMMA TypeNext ==
  ASSUME TypeInv, [Next]_vars, pc = "find" /\ pos # 0 => pos \in 1..Len(item)
  PROVE  TypeInv'
<1> USE ListAssumption, CellFacts DEF TypeInv, TypeOK, Commands, guestVars, hostVars, ghostVars
<1>1. CASE \E n \in Nodes : Link(n) \/ ExitMm(n) \/ Unlink(n) \/ Free(n)
  BY <1>1, TypeGuest
<1>2. CASE \E c \in Commands \ {"ifconfig"} : StartTraverse(c)
  <2> PICK c \in Commands \ {"ifconfig"} : StartTraverse(c)
    BY <1>2
  <2>1. hnext' \in [Cells -> Cells] /\ hprev' \in [Cells -> Cells]
    BY DEF StartTraverse, INIT_LIST_HEAD
  <2>2. since' \subseteq Nodes /\ ever' \subseteq Nodes
    BY DEF StartTraverse, BeginWalk, OnList
  <2>3. item' \in Seq([node : Nodes \cup Heads, cr3 : Tasks \cup {NULL, Junk}])
    BY SMTT(30) DEF StartTraverse, BeginWalk
  <2> QED
    BY <2>1, <2>2, <2>3 DEF StartTraverse, BeginWalk, Heads
<1>3. CASE StartDevices
  <2>1. since' \subseteq Nodes /\ ever' \subseteq Nodes
    BY <1>3 DEF StartDevices, BeginWalk, OnList
  <2>2. item' \in Seq([node : Nodes \cup Heads, cr3 : Tasks \cup {NULL, Junk}])
    BY SMTT(30), <1>3 DEF StartDevices, BeginWalk
  <2>3. gnext[dev_base_head] \in Nodes \cup Heads /\ gnext[gnext[dev_base_head]] # NULL
    BY DEF Heads
  <2> QED
    BY <1>3, <2>1, <2>2, <2>3 DEF StartDevices, BeginWalk, Heads
<1>4. CASE Leave("idle") \/ Leave("wild")
  BY <1>4, TypeLeave
<1>5. CASE LoadMm
  <2>1. /\ pc' = (IF cur \in user THEN "pgd" ELSE "add") /\ cr3v' = NULL
        /\ UNCHANGED <<guestVars, cmd, whead, cur, cr3, item, hostVars, ghostVars>>
    BY <1>5 DEF LoadMm
  <2> HIDE ListAssumption, CellFacts
  <2> QED
    BY SMTT(30), <2>1
<1>6. CASE LoadPgd
  <2> HIDE ListAssumption, CellFacts
  <2>1. /\ cr3v' \in {cur, Junk} /\ pc = "pgd" /\ pc' = "add"
        /\ UNCHANGED <<guestVars, cmd, whead, cur, cr3, item, hostVars, ghostVars>>
    BY <1>6 DEF LoadPgd
  <2>2. cr3v' \in Tasks \cup {NULL, Junk}
    BY <2>1
  <2> QED
    BY <2>1, <2>2
<1>7. CASE TransModule
  <2>1. CASE Leave("wild")
    BY <1>4, <2>1
  <2>2. CASE ~Leave("wild")
    <3>1. pc' = "add" /\ UNCHANGED <<guestVars, cmd, whead, cur, cr3v, cr3, item, hostVars, ghostVars>>
      BY <1>7, <2>2 DEF TransModule
    <3> HIDE ListAssumption, CellFacts
    <3> QED
      BY <3>1
  <2> QED
    BY <2>1, <2>2
<1>8. CASE AddItem
  <2>1. /\ item' \in Seq([node : Nodes \cup Heads, cr3 : Tasks \cup {NULL, Junk}])
        /\ Len(item') = Len(item) + 1 /\ Len(item) \in Nat
    BY SMTT(30), <1>8 DEF AddItem
  <2>2. Len(item') \in Entries
    BY SMTT(30), <1>8, <2>1 DEF AddItem, Entries
  <2>3. hnext' \in [Cells -> Cells] /\ hprev' \in [Cells -> Cells] /\ live' \subseteq Entries
    <3>1. CASE cmd = "ifconfig"
      <4>1. UNCHANGED <<hnext, hprev, live>>
        BY <1>8, <3>1 DEF AddItem
      <4> QED
        BY <4>1
    <3>2. CASE cmd # "ifconfig"
      <4>1. list_add_tail(Len(item'), 0) /\ live' = live \cup {Len(item')}
        BY <1>8, <3>2 DEF AddItem
      <4>2. Len(item') \in Cells /\ hprev[0] \in Cells /\ 0 \in Cells
        BY <2>2
      <4>3. /\ hprev' = [hprev EXCEPT ![0] = Len(item'), ![Len(item')] = hprev[0]]
            /\ hnext' = [hnext EXCEPT ![Len(item')] = 0, ![hprev[0]] = Len(item')]
        BY <4>1 DEF list_add_tail, list_add_between
      <4>4. hprev' \in [Cells -> Cells] /\ hnext' \in [Cells -> Cells]
        <5>1. hprev \in [Cells -> Cells] /\ hnext \in [Cells -> Cells]
          OBVIOUS
        <5> HIDE ListAssumption, CellFacts DEF TypeInv, TypeOK
        <5> QED
          BY <4>2, <4>3, <5>1, CellUpdate
      <4> QED
        BY <2>2, <4>1, <4>4
    <3> QED
      BY <3>1, <3>2
  <2> QED
    BY ZenonT(30), <1>8, <2>1, <2>3 DEF AddItem
<1>9. CASE LoadNext
  <2>1. cur' = gnext[cur] /\ cur' \in Nodes \cup Heads /\ gnext[cur'] # NULL
    BY <1>9 DEF LoadNext
  <2>2. pos' \in Cells /\ pc' \in {"mm", "trans", "add", "print", "find"}
    BY SMTT(30), <1>9 DEF LoadNext, WalkDone, Heads
  <2>3. UNCHANGED <<guestVars, cmd, whead, cr3v, cr3, item, hnext, hprev, live, ghostVars>>
    BY <1>9 DEF LoadNext
  <2> HIDE ListAssumption, CellFacts
  <2> QED
    BY SMTT(30), <2>1, <2>2, <2>3
<1>10. CASE PrintItems
  <2>1. pos' \in Cells
    BY <1>10 DEF PrintItems
  <2> QED
    BY ZenonT(30), <1>10, <2>1 DEF PrintItems, EndWalk
<1>11. CASE FindCr3
  <2>1. pos # 0 => item[pos].cr3 \in Tasks \cup {NULL, Junk}
    <3> SUFFICES ASSUME pos # 0 PROVE item[pos].cr3 \in Tasks \cup {NULL, Junk}
      OBVIOUS
    <3> DEFINE R == [node : Nodes \cup Heads, cr3 : Tasks \cup {NULL, Junk}]
    <3>1. item \in Seq(R) /\ pos \in 1..Len(item)
      BY <1>11 DEF FindCr3
    <3>2. item[pos] \in R
      <4> HIDE DEF R
      <4> QED
        BY SMTT(30), <3>1
    <3> QED
      BY <3>2
  <2>2. pos' \in Cells /\ cr3' \in Tasks \cup {NULL, Junk} /\ pc' \in {"find", "free"}
    BY SMTT(30), <1>11, <2>1 DEF FindCr3
  <2>3. since' \subseteq Nodes /\ ever' \subseteq Nodes /\ UNCHANGED <<steady, exited, reused>>
    BY <1>11 DEF FindCr3, EndWalk
  <2> QED
    BY <1>11, <2>2, <2>3 DEF FindCr3
<1>12. CASE FreeItem
  <2>1. CASE Leave("wild")
    BY <1>4, <2>1
  <2>2. CASE ~Leave("wild")
    <3>1. /\ list_del(pos) /\ live' = live \ {pos} /\ pos' = hnext[pos]
          /\ UNCHANGED <<guestVars, cmd, pc, whead, cur, cr3v, cr3, item, ghostVars>>
      BY <1>12, <2>2 DEF FreeItem
    <3>2. hnext' \in [Cells -> Cells] /\ hprev' \in [Cells -> Cells] /\ pos' \in Cells
      BY <3>1 DEF list_del
    <3> HIDE ListAssumption, CellFacts
    <3> QED
      BY SMTT(30), <3>1, <3>2
  <2> QED
    BY <2>1, <2>2
<1>13. CASE FreeDone
  <2>1. CASE Leave("idle")
    BY <1>4, <2>1
  <2>2. CASE ~Leave("idle")
    <3>1. pc' = "use" /\ UNCHANGED <<guestVars, cmd, whead, cur, cr3v, cr3, item, hostVars, ghostVars>>
      BY <1>13, <2>2 DEF FreeDone
    <3> QED
      BY <3>1
  <2> QED
    BY <2>1, <2>2
<1>14. CASE UseCr3
  <2>1. CASE Leave("idle") \/ Leave("wild")
    BY <1>4, <2>1
  <2>2. CASE ~Leave("idle") /\ ~Leave("wild")
    <3>1. /\ BeginWalk(modules) /\ INIT_LIST_HEAD
          /\ cur' = gnext[modules] /\ cr3v' = NULL /\ pc' \in {"print", "trans"}
          /\ pos' = 0 /\ steady' = {} /\ UNCHANGED <<guestVars, cmd, cr3, live, exited>>
      BY <1>14, <2>2 DEF UseCr3
    <3>2. hnext' \in [Cells -> Cells] /\ hprev' \in [Cells -> Cells]
      BY <3>1 DEF INIT_LIST_HEAD
    <3>3. since' \subseteq Nodes /\ ever' \subseteq Nodes
      BY <3>1 DEF BeginWalk, OnList
    <3>4. /\ whead' \in Heads /\ reused' = FALSE
          /\ item' \in Seq([node : Nodes \cup Heads, cr3 : Tasks \cup {NULL, Junk}])
      BY SMTT(30), <3>1 DEF BeginWalk, Heads
    <3>5. gnext[modules] \in Nodes \cup Heads /\ gnext[gnext[modules]] # NULL
      BY DEF Heads
    <3> QED
      BY <3>1, <3>2, <3>3, <3>4, <3>5
  <2> QED
    BY <2>1, <2>2
<1>15. CASE UNCHANGED vars
  BY SMTT(30), <1>15 DEF vars
<1> QED
  BY <1>1, <1>2, <1>3, <1>4, <1>5, <1>6, <1>7, <1>8, <1>9, <1>10, <1>11, <1>12, <1>13,
     <1>14, <1>15 DEF Next, GuestNext, HostNext, WalkNext, ListNext, ReadFreed, Stopped


-----------------------------------------------------------------------------
(* The host list.  Entries are added in ascending order and freed in the   *)
(* same order, so at every moment the list is a run of numbers: next is    *)
(* one up, prev one down, and the head joins the two ends.                 *)

\* The list runs from entry a to the last one made.
Chain(a) ==
  /\ a \in 1..Len(item) /\ Len(item) <= MaxItems
  /\ live = a..Len(item)
  /\ hnext[0] = a /\ hprev[0] = Len(item)
  /\ \A c \in a..Len(item) : /\ hnext[c] = IF c = Len(item) THEN 0 ELSE c + 1
                             /\ hprev[c] = IF c = a THEN 0 ELSE c - 1

EmptyList == live = {} /\ hnext[0] = 0 /\ hprev[0] = 0

\* The shape of the host list in every phase of a command.
HostInv ==
  /\ pc \in {"idle", "use", "wild"} => EmptyList
  /\ cmd = "ifconfig" =>
       /\ EmptyList /\ whead = dev_base_head
       /\ pc \in {"add", "next", "print", "free"}
       /\ pc = "free" => pos = 0
  /\ cmd # "ifconfig" /\ (Walking \/ Complete) =>
       IF item = <<>> THEN EmptyList ELSE Chain(1)
  /\ cmd # "ifconfig" /\ pc = "free" =>
       IF pos = 0 THEN EmptyList ELSE Chain(pos)
  /\ pc = "find" => pos \in 0..Len(item)

\* There is no list at first.
LEMMA HostInit == Init => HostInv
<1> SUFFICES ASSUME Init PROVE HostInv
  OBVIOUS
<1>1. EmptyList
  BY CellFacts DEF Init, EmptyList
<1>2. cmd # "ifconfig" /\ pc = "idle"
  BY ListAssumption DEF Init, Commands
<1> QED
  BY <1>1, <1>2 DEF HostInv, Walking, Complete

\* Adding at the tail makes the run one longer.
LEMMA AddsAtTail ==
  ASSUME TypeInv, IF item = <<>> THEN EmptyList ELSE Chain(1),
         Len(item') = Len(item) + 1, Len(item') \in Entries,
         list_add_tail(Len(item'), 0), live' = live \cup {Len(item')}
  PROVE  Chain(1)'
<1> DEFINE k == Len(item)
<1>1. k \in Nat /\ k + 1 <= MaxItems /\ Len(item') = k + 1
  BY SMTT(30) DEF TypeInv, TypeOK, Entries
<1>2. /\ hnext \in [Cells -> Cells] /\ hprev \in [Cells -> Cells]
      /\ \A c \in 0..(k + 1) : c \in Cells
  <2>1. \A c \in 0..(k + 1) : c \in Cells
    <3> HIDE DEF k
    <3> QED
      BY <1>1, ListAssumption DEF Cells
  <2> QED
    BY <2>1 DEF TypeInv, TypeOK
<1>3. item = <<>> <=> k = 0
  BY SMTT(30) DEF TypeInv, TypeOK
<1>4. hprev[0] = k /\ (k = 0 => hnext[0] = 0) /\ (k # 0 => hnext[0] = 1)
      /\ live = 1..k
      /\ \A c \in 1..k : /\ hnext[c] = IF c = k THEN 0 ELSE c + 1
                         /\ hprev[c] = IF c = 1 THEN 0 ELSE c - 1
  <2>1. CASE k = 0
    BY <1>3, <2>1 DEF EmptyList
  <2>2. CASE k # 0
    BY <1>1, <1>3, <2>2 DEF Chain
  <2> QED
    BY <2>1, <2>2
<1>5. /\ hprev' = [hprev EXCEPT ![0] = k + 1, ![k + 1] = k]
      /\ hnext' = [hnext EXCEPT ![k + 1] = 0, ![k] = k + 1]
  BY <1>1, <1>4 DEF list_add_tail, list_add_between
<1> HIDE DEF k
<1>6. /\ hprev'[0] = k + 1 /\ hprev'[k + 1] = k
      /\ hnext'[k + 1] = 0 /\ hnext'[k] = k + 1
      /\ \A c \in 0..k : (c # 0 => hprev'[c] = hprev[c]) /\ (c # k => hnext'[c] = hnext[c])
  BY SMTT(30), <1>1, <1>2, <1>5
<1>7. hnext'[0] = 1
  BY SMTT(30), <1>1, <1>4, <1>6
<1>8. live' = 1..(k + 1)
  BY SMTT(30), <1>1, <1>4
<1>9. \A c \in 1..(k + 1) : /\ hnext'[c] = IF c = k + 1 THEN 0 ELSE c + 1
                            /\ hprev'[c] = IF c = 1 THEN 0 ELSE c - 1
  BY SMTT(30), <1>1, <1>4, <1>6
<1> QED
  BY SMTT(30), <1>1, <1>6, <1>7, <1>8, <1>9 DEF Chain

\* Freeing the first entry of the run makes it one shorter.
LEMMA FreesFirst ==
  ASSUME TypeInv, pos # 0, Chain(pos), list_del(pos), live' = live \ {pos},
         pos' = hnext[pos], item' = item
  PROVE  IF pos' = 0 THEN EmptyList' ELSE Chain(pos)'
<1> DEFINE k == Len(item)
<1>1. k \in Nat /\ k <= MaxItems /\ pos \in 1..k /\ MaxItems \in Nat
  BY SMTT(30), ListAssumption DEF TypeInv, TypeOK, Chain
<1>2. /\ hnext \in [Cells -> Cells] /\ hprev \in [Cells -> Cells]
      /\ \A c \in 0..k : c \in Cells
  <2>1. \A c \in 0..k : c \in Cells
    <3> HIDE DEF k
    <3> QED
      BY <1>1, ListAssumption DEF Cells
  <2> QED
    BY <2>1 DEF TypeInv, TypeOK
<1>3. /\ live = pos..k /\ hnext[0] = pos /\ hprev[0] = k
      /\ \A c \in pos..k : /\ hnext[c] = IF c = k THEN 0 ELSE c + 1
                           /\ hprev[c] = IF c = pos THEN 0 ELSE c - 1
  BY DEF Chain
<1>4. hprev[pos] = 0 /\ pos' = IF pos = k THEN 0 ELSE pos + 1
  BY SMTT(30), <1>1, <1>3
<1>5. hprev' = [hprev EXCEPT ![pos'] = 0] /\ hnext' = [hnext EXCEPT ![0] = pos']
  BY <1>4 DEF list_del
<1>6. Len(item') = k
  OBVIOUS
<1> HIDE DEF k
<1>7. CASE pos = k
  <2>1. pos' = 0 /\ live' = {} /\ hprev'[0] = 0 /\ hnext'[0] = 0
    BY SMTT(30), <1>1, <1>2, <1>3, <1>4, <1>5, <1>7
  <2> QED
    BY <2>1 DEF EmptyList
<1>8. CASE pos # k
  <2>1. pos' = pos + 1 /\ pos' \in 1..k
    BY <1>1, <1>4, <1>8
  <2>2. live' = pos'..k
    BY SMTT(30), <1>1, <1>3, <2>1
  <2>3. hnext'[0] = pos' /\ hprev'[0] = k /\ hprev'[pos'] = 0
    BY SMTT(30), <1>1, <1>2, <1>3, <1>5, <2>1
  <2>4. \A c \in pos'..k : /\ hnext'[c] = IF c = k THEN 0 ELSE c + 1
                           /\ hprev'[c] = IF c = pos' THEN 0 ELSE c - 1
    BY SMTT(30), <1>1, <1>2, <1>3, <1>5, <2>1
  <2> QED
    BY SMTT(30), <1>1, <1>6, <2>1, <2>2, <2>3, <2>4 DEF Chain
<1> QED
  BY <1>7, <1>8

\* Every step keeps the shape of the host list.
LEMMA HostNextInv ==
  ASSUME TypeInv, HostInv, [Next]_vars PROVE HostInv'
<1> USE ListAssumption, CellFacts DEF HostInv, Walking, Complete
<1> DEFINE Same == UNCHANGED <<item, hnext, hprev, live>>
<1>1. ASSUME Same, UNCHANGED <<pos, pc, cmd, whead>> PROVE HostInv'
  BY <1>1 DEF EmptyList, Chain
<1>2. CASE \E n \in Nodes : Link(n) \/ ExitMm(n) \/ Unlink(n) \/ Free(n)
  BY <1>1, <1>2 DEF Link, ExitMm, Unlink, Free, hostVars
<1>3. ASSUME NEW p \in {"idle", "wild"}, Leave(p), p = "wild" \/ live = {} PROVE HostInv'
  BY SMTT(30), <1>3 DEF Leave, EmptyList
<1>4. CASE \E c \in Commands \ {"ifconfig"} : StartTraverse(c)
  <2>1. EmptyList'
    BY ZenonT(30), <1>4 DEF StartTraverse, INIT_LIST_HEAD, EmptyList, TypeInv, TypeOK
  <2> QED
    BY <1>4, <2>1 DEF StartTraverse, BeginWalk
<1>5. CASE StartDevices
  BY <1>5 DEF StartDevices, BeginWalk, hostVars, EmptyList
<1>6. CASE LoadMm \/ LoadPgd \/ (TransModule /\ ~Leave("wild"))
  BY <1>6 DEF LoadMm, LoadPgd, TransModule, hostVars, EmptyList, Chain
<1>7. CASE AddItem
  <2>1. CASE cmd = "ifconfig"
    BY <1>7, <2>1 DEF AddItem, EmptyList
  <2>2. CASE cmd # "ifconfig"
    <3>1. /\ list_add_tail(Len(item'), 0) /\ live' = live \cup {Len(item')}
          /\ item' = Append(item, [node |-> cur, cr3 |-> cr3v])
          /\ pc' = "next" /\ cmd' = cmd /\ Len(item) < MaxItems
      BY <1>7, <2>2 DEF AddItem
    <3>2. Len(item') = Len(item) + 1 /\ item' # <<>> /\ Len(item') \in Entries
      BY SMTT(30), <3>1 DEF TypeInv, TypeOK, Entries
    <3>3. IF item = <<>> THEN EmptyList ELSE Chain(1)
      BY <1>7, <2>2 DEF AddItem
    <3>4. Chain(1)'
      BY <3>1, <3>2, <3>3, AddsAtTail
    <3> QED
      BY <2>2, <3>1, <3>2, <3>4
  <2> QED
    BY <2>1, <2>2
<1>8. CASE LoadNext
  <2>1. Same /\ cmd' = cmd /\ whead' = whead
    BY <1>8 DEF LoadNext
  <2>2. pc' \in {"mm", "trans", "add", "print", "find"}
    BY <1>8 DEF LoadNext, WalkDone, Heads, TypeInv, TypeOK
  <2>3. cmd = "ifconfig" => pc' \in {"add", "print"}
    BY <1>8 DEF LoadNext, WalkDone
  <2>4. pc' = "find" => pos' = hnext[0] /\ cmd # "ifconfig"
    BY <1>8 DEF LoadNext, WalkDone, Heads, TypeInv, TypeOK
  <2>5. cmd # "ifconfig" => hnext[0] \in 0..Len(item)
    <3>1. Len(item) \in Nat
      BY SMTT(30) DEF TypeInv, TypeOK
    <3> QED
      BY SMTT(30), <1>8, <3>1 DEF LoadNext, EmptyList, Chain
  <2> QED
    BY <1>8, <2>1, <2>2, <2>3, <2>4, <2>5 DEF LoadNext, EmptyList, Chain
<1>9. CASE PrintItems \/ (FindCr3 /\ pc' = "free")
  <2>1. Same /\ cmd' = cmd /\ whead' = whead /\ pc' = "free" /\ pos' = hnext[0]
        /\ pc \in {"print", "find"}
    BY <1>9 DEF PrintItems, FindCr3
  <2> QED
    BY SMTT(30), <2>1 DEF EmptyList, Chain
<1>10. CASE FindCr3 /\ pc' # "free"
  <2>1. /\ Same /\ cmd' = cmd /\ whead' = whead /\ pc' = "find" /\ pos' = hnext[pos]
        /\ pc = "find" /\ pos # 0
    BY <1>10 DEF FindCr3
  <2>2. Len(item) \in Nat /\ pos \in 1..Len(item)
    BY SMTT(30), <2>1 DEF TypeInv, TypeOK
  <2>3. cmd # "ifconfig" /\ Chain(1)
    BY SMTT(30), <2>1, <2>2
  <2>4. pos' \in 0..Len(item)
    BY SMTT(30), <2>1, <2>2, <2>3 DEF Chain
  <2> QED
    BY <2>1, <2>3, <2>4 DEF EmptyList, Chain
<1>11. CASE FreeItem /\ ~Leave("wild")
  <2>1. /\ pc = "free" /\ pos # 0 /\ cmd # "ifconfig" /\ Chain(pos) /\ list_del(pos)
        /\ live' = live \ {pos} /\ pos' = hnext[pos] /\ UNCHANGED <<item, pc, cmd, whead>>
    BY <1>11 DEF FreeItem
  <2>2. IF pos' = 0 THEN EmptyList' ELSE Chain(pos)'
    BY <2>1, FreesFirst
  <2> QED
    BY <2>1, <2>2
<1>12. CASE FreeDone
  <2>1. EmptyList
    BY <1>12 DEF FreeDone
  <2>2. CASE Leave("idle")
    BY <1>3, <2>1, <2>2 DEF EmptyList
  <2>3. CASE ~Leave("idle")
    <3>1. /\ Same /\ pc' = "use" /\ cmd' = cmd /\ whead' = whead /\ whead = init_task
      BY <1>12, <2>3 DEF FreeDone, hostVars
    <3> QED
      BY <2>1, <3>1 DEF EmptyList
  <2> QED
    BY <2>2, <2>3
<1>13. CASE UseCr3
  <2>1. EmptyList
    BY <1>13 DEF UseCr3
  <2>2. CASE Leave("idle") \/ Leave("wild")
    BY <1>3, <2>1, <2>2 DEF EmptyList
  <2>3. CASE ~Leave("idle") /\ ~Leave("wild")
    <3>1. /\ INIT_LIST_HEAD /\ item' = <<>> /\ UNCHANGED <<live, cmd>>
          /\ pc' \in {"print", "trans"} /\ cmd # "ifconfig"
      BY <1>13, <2>3 DEF UseCr3, BeginWalk
    <3>2. EmptyList'
      BY ZenonT(30), <2>1, <3>1 DEF INIT_LIST_HEAD, EmptyList, TypeInv, TypeOK
    <3> QED
      BY <3>1, <3>2
  <2> QED
    BY <2>2, <2>3
<1>14. CASE Leave("wild")
  BY <1>3, <1>14
<1>15. CASE UNCHANGED vars
  BY <1>1, <1>15 DEF vars, hostVars
<1> QED
  BY <1>2, <1>4, <1>5, <1>6, <1>7, <1>8, <1>9, <1>10, <1>11, <1>12, <1>13, <1>14, <1>15
     DEF Next, GuestNext, HostNext, WalkNext, ListNext, ReadFreed, Stopped


-----------------------------------------------------------------------------
(* The guest's lists.  There is a numbering of the objects that ascends    *)
(* along every list and that no change of a list disturbs.  The next field *)
(* of what has been unlinked skips nothing that was there all the time, so *)
(* a walk through such objects does not miss any of them either.           *)

LH(n) == IF n \in Heads THEN n ELSE HeadOf(n)

\* ord ascends along the lists, and next leads to the nearest object ahead.
Ordered(ord) ==
  /\ \A n \in linked \cup Heads :
       gnext[n] = LH(n) \/ (gnext[n] \in linked /\ HeadOf(gnext[n]) = LH(n))
  /\ \A n \in linked : gnext[n] \in linked => ord[n] < ord[gnext[n]]
  /\ \A x, y \in linked :
       HeadOf(x) = HeadOf(y) /\ ord[x] < ord[y] =>
         gnext[x] \in linked /\ ord[gnext[x]] <= ord[y]
  /\ \A y \in linked : gnext[HeadOf(y)] \in linked /\ ord[gnext[HeadOf(y)]] <= ord[y]
  /\ \A x, y \in linked : HeadOf(x) = HeadOf(y) /\ ord[x] = ord[y] => x = y
  /\ \A n \in linked : -births <= ord[n] /\ ord[n] <= births

\* What has been on the walk's list since it began keeps its number; what was
\* unlinked still leads ahead, and past nothing that was there all the time.
Remembered(ord) ==
  /\ since \subseteq ever /\ since \subseteq linked
  /\ \A n \in linked : HeadOf(n) = whead => n \in ever
  /\ \A n \in ever : HeadOf(n) = whead /\ -births <= ord[n] /\ ord[n] <= births
  /\ \A x, y \in ever : ord[x] = ord[y] => x = y
  /\ \A x \in ever \ linked :
       gnext[x] = whead \/ (gnext[x] \in ever /\ ord[x] < ord[gnext[x]])
  /\ \A x \in ever \ linked, y \in since :
       ord[x] < ord[y] => gnext[x] # whead /\ ord[gnext[x]] <= ord[y]

\* How far the walk has come: the items ascend; of what was there all the time,
\* everything behind cur has been listed.
Progress(ord) ==
  /\ cur \in ever \cup {whead}
  /\ cur = whead => whead = init_task
  /\ \A i \in 1..Len(item) :
       item[i].node \in ever \/ (item[i].node = init_task /\ i = 1)
  /\ \A i, j \in 1..Len(item) :
       i < j => /\ item[j].node \in ever
                /\ item[i].node \in ever => ord[item[i].node] < ord[item[j].node]
  /\ pc # "next" =>
       /\ cur = whead => item = <<>>
       /\ cur \in ever =>
            /\ \A i \in 1..Len(item) : item[i].node \in ever => ord[item[i].node] < ord[cur]
            /\ \A y \in since : y \in Listed \/ ord[cur] <= ord[y]
  /\ pc = "next" =>
       /\ cur = whead => Len(item) = 1 /\ item[1].node = whead
       /\ cur \in ever =>
            /\ \A i \in 1..Len(item) : item[i].node \in ever => ord[item[i].node] <= ord[cur]
            /\ \A y \in since : y \in Listed \/ ord[cur] < ord[y]

\* The inductive invariant of the walk.
OrderInv ==
  \E ord \in [Nodes -> Int] :
    /\ Ordered(ord)
    /\ Walking /\ ~reused => Remembered(ord) /\ Progress(ord)

\* Objects and list heads are apart.
LEMMA HeadsAndNodes ==
  /\ \A n \in Nodes : n \notin Heads /\ HeadOf(n) \in Heads /\ LH(n) = HeadOf(n)
  /\ \A h \in Heads : LH(h) = h /\ h \notin Nodes
BY ListAssumption DEF LH, HeadOf, Heads

\* A step of the guest that numbers what has been linked since the walk began
\* as before leaves the walk as far as it is.
LEMMA ProgressKept ==
  ASSUME NEW o, NEW p, Progress(o), UNCHANGED <<whead, cur, item>>,
         pc' = "next" <=> pc = "next",
         since' \subseteq since, since \subseteq ever, \A m \in ever : p[m] = o[m],
         cur \in ever' <=> cur \in ever,
         \A i \in 1..Len(item) : item[i].node \in ever' <=> item[i].node \in ever
  PROVE  Progress(p)'
<1>1. Listed' = Listed
  BY DEF Listed
<1>2. /\ cur' \in (ever \cup {whead})'
      /\ (cur = whead => whead = init_task)'
      /\ \A i \in 1..Len(item') :
           item'[i].node \in ever' \/ (item'[i].node = init_task /\ i = 1)
  BY DEF Progress
<1>3. \A i, j \in 1..Len(item') :
        i < j => /\ item'[j].node \in ever'
                 /\ item'[i].node \in ever' => p[item'[i].node] < p[item'[j].node]
  BY SMTT(30) DEF Progress
<1>4. pc' # "next" =>
        /\ cur' = whead' => item' = <<>>
        /\ cur' \in ever' =>
             /\ \A i \in 1..Len(item') : item'[i].node \in ever' => p[item'[i].node] < p[cur']
             /\ \A y \in since' : y \in Listed' \/ p[cur'] <= p[y]
  BY <1>1 DEF Progress
<1>5. pc' = "next" =>
        /\ cur' = whead' => Len(item') = 1 /\ item'[1].node = whead'
        /\ cur' \in ever' =>
             /\ \A i \in 1..Len(item') : item'[i].node \in ever' => p[item'[i].node] <= p[cur']
             /\ \A y \in since' : y \in Listed' \/ p[cur'] < p[y]
  BY <1>1 DEF Progress
<1> QED
  BY <1>2, <1>3, <1>4, <1>5 DEF Progress

\* A step that is not about the walk.
LEMMA OrderSame ==
  ASSUME OrderInv,
         UNCHANGED <<gnext, linked, births, pc, whead, cur, item, since, ever, reused>>
  PROVE  OrderInv'
<1> PICK o \in [Nodes -> Int] : Ordered(o) /\ (Walking /\ ~reused => Remembered(o) /\ Progress(o))
  BY DEF OrderInv
<1>1. Ordered(o)'
  BY DEF Ordered
<1>2. Walking' <=> Walking
  BY DEF Walking
<1>3. ASSUME Remembered(o), Progress(o) PROVE Remembered(o)' /\ Progress(o)'
  <2>1. Remembered(o)'
    BY <1>3 DEF Remembered
  <2>2. since \subseteq ever
    BY <1>3 DEF Remembered
  <2>3. Progress(o)'
    BY <1>3, <2>2, ProgressKept
  <2> QED
    BY <2>1, <2>3
<1> QED
  BY <1>1, <1>2, <1>3 DEF OrderInv

\* A step that is not about what has been listed.
LEMMA ListedSame ==
  ASSUME ListedRight, UNCHANGED item,
         ~Complete' \/ (Complete /\ UNCHANGED <<since, ever, reused>>)
  PROVE  ListedRight'
<1>1. Listed' = Listed
  BY DEF Listed
<1>2. CASE ~Complete'
  BY <1>2 DEF ListedRight
<1>3. CASE Complete /\ UNCHANGED <<since, ever, reused>>
  BY <1>1, <1>3 DEF ListedRight
<1> QED
  BY <1>2, <1>3

\* Empty lists are in order.
LEMMA OrderInit == Init => OrderInv
<1> SUFFICES ASSUME Init PROVE OrderInv
  OBVIOUS
<1> DEFINE o == [n \in Nodes |-> 0]
<1>1. o \in [Nodes -> Int]
  OBVIOUS
<1>2. Ordered(o)
  BY HeadsAndNodes DEF Init, Ordered
<1>3. ~Walking
  BY DEF Init, Walking
<1> QED
  BY <1>1, <1>2, <1>3 DEF OrderInv

\* Linking at an end of a list extends the numbering at that end.
LEMMA OrderLink == ASSUME TypeInv, OrderInv, NEW n \in Nodes, Link(n) PROVE OrderInv'
<1> PICK o \in [Nodes -> Int] : Ordered(o) /\ (Walking /\ ~reused => Remembered(o) /\ Progress(o))
  BY DEF OrderInv
<1> DEFINE h == HeadOf(n)
<1>1. /\ n \notin linked /\ linked' = linked \cup {n} /\ births' = births + 1 /\ births \in Nat
      /\ UNCHANGED <<pc, whead, cur, item, since>>
      /\ linked \subseteq Nodes /\ ever \subseteq Nodes /\ h \in Heads /\ n \notin Heads
  BY SMTT(30), HeadsAndNodes DEF Link, TypeInv, TypeOK
<1>2. PICK prev \in OnList(h) \cup {h} :
        /\ IF n \in Mods THEN prev = modules ELSE gnext[prev] = h
        /\ gnext' = [gnext EXCEPT ![prev] = n, ![n] = gnext[prev]]
  BY DEF Link
<1>3. PICK b \in Int : b = IF n \in Mods THEN -(births + 1) ELSE births + 1
  BY SMTT(30), <1>1
<1> DEFINE p == [o EXCEPT ![n] = b]
<1>4. /\ prev \in linked \cup Heads /\ prev # n /\ LH(prev) = h
      /\ prev \in Heads <=> prev = h
  BY <1>1, HeadsAndNodes DEF OnList
<1>5. \A m \in Nodes \cup Heads :
        gnext'[m] = IF m = n THEN gnext[prev] ELSE IF m = prev THEN n ELSE gnext[m]
  BY <1>1, <1>2, <1>4 DEF TypeInv, TypeOK
<1>6. /\ p \in [Nodes -> Int] /\ p[n] = b
      /\ \A m \in Nodes : m # n => p[m] = o[m]
  OBVIOUS
<1>7. \A m \in linked : HeadOf(m) = h => IF n \in Mods THEN b < o[m] ELSE o[m] < b
  BY SMTT(30), <1>1, <1>3 DEF Ordered
<1>8. n \in Mods => prev = h
  BY <1>2, ListAssumption DEF HeadOf
<1>9. n \notin Mods => \A m \in linked : HeadOf(m) = h /\ m # prev => gnext[m] # h /\ prev # h
  <2> SUFFICES ASSUME n \notin Mods, NEW m \in linked, HeadOf(m) = h, m # prev
               PROVE  gnext[m] # h /\ prev # h
    OBVIOUS
  <2>1. gnext[prev] = h /\ h \notin linked
    BY <1>1, <1>2, HeadsAndNodes
  <2>2. prev # h
    BY SMTT(30), <2>1 DEF Ordered
  <2>3. prev \in linked /\ HeadOf(prev) = h
    BY <1>4, <2>2, HeadsAndNodes DEF OnList
  <2>4. o[m] # o[prev]
    BY <2>3 DEF Ordered
  <2>5. ~(o[prev] < o[m])
    BY <2>1, <2>3 DEF Ordered
  <2>6. o[m] < o[prev]
    BY SMTT(30), <1>1, <2>3, <2>4, <2>5
  <2> QED
    BY <2>1, <2>2, <2>3, <2>6 DEF Ordered
<1> HIDE DEF h, p
<1>10. Ordered(p)'
  <2>1. /\ \A m \in linked' : m = n \/ (m \in linked /\ m \in Nodes /\ m # n)
        /\ h = HeadOf(n) /\ n \in linked'
    BY <1>1 DEF h
  <2>2. \A m \in linked \cup Heads :
          gnext[m] = LH(m) \/ (gnext[m] \in linked /\ HeadOf(gnext[m]) = LH(m))
    BY DEF Ordered
  <2>3. \A m \in (linked \cup Heads)' :
          gnext'[m] = LH(m) \/ (gnext'[m] \in linked' /\ HeadOf(gnext'[m]) = LH(m))
    BY SMTT(30), <1>1, <1>4, <1>5, <2>1, <2>2, HeadsAndNodes
  <2>4. \A m \in linked' : gnext'[m] \in linked' => p[m] < p[gnext'[m]]
    <3> SUFFICES ASSUME NEW m \in linked', gnext'[m] \in linked' PROVE p[m] < p[gnext'[m]]
      OBVIOUS
    <3>1. CASE m = n
      <4>1. gnext'[m] = gnext[prev] /\ gnext[prev] \in linked
        BY ZenonT(30), <1>1, <1>4, <1>5, <2>1, <2>2, <3>1, HeadsAndNodes
      <4>2. n \in Mods /\ HeadOf(gnext[prev]) = h
        BY SMTT(30), <1>1, <1>2, <1>4, <2>2, <4>1, HeadsAndNodes
      <4> QED
        BY <1>1, <1>6, <1>7, <3>1, <4>1, <4>2
    <3>2. CASE m = prev
      <4>1. gnext'[m] = n /\ m \in linked /\ HeadOf(m) = h /\ n \notin Mods
        BY <1>1, <1>4, <1>5, <1>8, <2>1, <3>2, HeadsAndNodes
      <4> QED
        BY <1>1, <1>6, <1>7, <2>1, <4>1
    <3>3. CASE m # n /\ m # prev
      <4>1. m \in linked /\ gnext'[m] = gnext[m]
        BY <1>1, <1>5, <2>1, <3>3
      <4>2. gnext[m] \in linked
        BY SMTT(30), <1>1, <2>2, <4>1, HeadsAndNodes
      <4> QED
        BY <1>1, <1>6, <2>1, <4>1, <4>2 DEF Ordered
    <3> QED
      BY <3>1, <3>2, <3>3
  <2>5. \A x, y \in linked' :
          HeadOf(x) = HeadOf(y) /\ p[x] < p[y] =>
            gnext'[x] \in linked' /\ p[gnext'[x]] <= p[y]
    <3> SUFFICES ASSUME NEW x \in linked', NEW y \in linked', HeadOf(x) = HeadOf(y), p[x] < p[y]
                 PROVE  gnext'[x] \in linked' /\ p[gnext'[x]] <= p[y]
      OBVIOUS
    <3>1. CASE x = n
      <4>1. y \in linked /\ n \in Mods /\ prev = h /\ HeadOf(y) = h
        BY SMTT(30), <1>1, <1>6, <1>7, <1>8, <2>1, <3>1
      <4>2. gnext[h] \in linked /\ o[gnext[h]] <= o[y]
        BY <4>1 DEF Ordered
      <4> QED
        BY ZenonT(30), <1>1, <1>5, <1>6, <2>1, <3>1, <4>1, <4>2
    <3>2. CASE x = prev
      <4>1. gnext'[x] = n /\ x \in linked /\ HeadOf(x) = h /\ n \notin Mods
        BY <1>1, <1>4, <1>5, <1>8, <2>1, <3>2, HeadsAndNodes
      <4>2. CASE y = n
        BY SMTT(30), <1>1, <1>6, <4>1, <4>2
      <4>3. CASE y # n
        <5>1. gnext[x] \in linked
          BY <1>1, <1>6, <2>1, <4>1, <4>3 DEF Ordered
        <5> QED
          BY ZenonT(30), <1>1, <1>2, <3>2, <4>1, <5>1, HeadsAndNodes
      <4> QED
        BY <4>2, <4>3
    <3>3. CASE x # n /\ x # prev
      <4>1. x \in linked /\ gnext'[x] = gnext[x]
        BY <1>1, <1>5, <2>1, <3>3
      <4>2. CASE y = n
        <5>1. n \notin Mods /\ HeadOf(x) = h
          BY SMTT(30), <1>1, <1>6, <1>7, <2>1, <4>1, <4>2
        <5>2. gnext[x] # h
          BY <1>9, <3>3, <4>1, <5>1
        <5>3. gnext[x] \in linked /\ HeadOf(gnext[x]) = h
          BY <1>1, <2>2, <4>1, <5>1, <5>2, HeadsAndNodes
        <5> QED
          BY SMTT(30), <1>1, <1>6, <1>7, <2>1, <4>1, <4>2, <5>1, <5>3
      <4>3. CASE y # n
        <5>1. gnext[x] \in linked /\ o[gnext[x]] <= o[y]
          BY <1>1, <1>6, <2>1, <4>1, <4>3, <3>3 DEF Ordered
        <5> QED
          BY SMTT(30), <1>1, <1>6, <2>1, <4>1, <4>3, <5>1
      <4> QED
        BY <4>2, <4>3
    <3> QED
      BY <3>1, <3>2, <3>3
  <2>6. \A y \in linked' :
          gnext'[HeadOf(y)] \in linked' /\ p[gnext'[HeadOf(y)]] <= p[y]
    <3> SUFFICES ASSUME NEW y \in linked'
                 PROVE  gnext'[HeadOf(y)] \in linked' /\ p[gnext'[HeadOf(y)]] <= p[y]
      OBVIOUS
    <3>0. HeadOf(y) \in Heads /\ HeadOf(y) # n
      BY <1>1, <2>1, HeadsAndNodes
    <3>1. CASE prev = HeadOf(y)
      <4>1. gnext'[HeadOf(y)] = n /\ HeadOf(y) = h
        BY <1>4, <1>5, <3>0, <3>1
      <4>2. CASE y = n
        BY SMTT(30), <1>1, <1>6, <4>1, <4>2
      <4>3. CASE y # n
        <5>0. y \in linked
          BY <2>1, <4>3
        <5>1. y \in linked /\ n \in Mods
          BY <1>9, <3>1, <4>1, <5>0, <3>0, <1>1, HeadsAndNodes
        <5> QED
          BY SMTT(30), <1>1, <1>6, <1>7, <2>1, <4>1, <5>1
      <4> QED
        BY <4>2, <4>3
    <3>2. CASE prev # HeadOf(y)
      <4>1. gnext'[HeadOf(y)] = gnext[HeadOf(y)]
        BY <1>5, <3>0, <3>2
      <4>2. CASE y = n
        <5>1. n \notin Mods /\ prev \in linked /\ HeadOf(prev) = h /\ HeadOf(y) = h
          BY <1>4, <1>8, <2>1, <3>2, <4>2, <1>1, HeadsAndNodes
        <5>2. gnext[h] \in linked /\ HeadOf(gnext[h]) = h
          BY <1>1, <2>2, <5>1, HeadsAndNodes DEF Ordered
        <5> QED
          BY SMTT(30), <1>1, <1>6, <1>7, <2>1, <4>1, <4>2, <5>1, <5>2
      <4>3. CASE y # n
        <5>1. gnext[HeadOf(y)] \in linked /\ o[gnext[HeadOf(y)]] <= o[y]
          BY <2>1, <4>3 DEF Ordered
        <5> QED
          BY SMTT(30), <1>1, <1>6, <2>1, <4>1, <4>3, <5>1
      <4> QED
        BY <4>2, <4>3
    <3> QED
      BY <3>1, <3>2
  <2>7. \A x, y \in linked' : HeadOf(x) = HeadOf(y) /\ p[x] = p[y] => x = y
    BY SMTT(30), <1>1, <1>3, <1>6, <1>7, <2>1 DEF Ordered
  <2>8. \A m \in linked' : -births' <= p[m] /\ p[m] <= births'
    BY SMTT(30), <1>1, <1>3, <1>6, <2>1 DEF Ordered
  <2> QED
    BY <2>3, <2>4, <2>5, <2>6, <2>7, <2>8 DEF Ordered
<1>11. ASSUME Walking', ~reused' PROVE Remembered(p)' /\ Progress(p)'
  <2>1. /\ Walking /\ ~reused /\ n \notin ever
        /\ ever' = IF whead = h THEN ever \cup {n} ELSE ever
    BY <1>11 DEF Link, Walking, h
  <2>2. Remembered(o) /\ Progress(o)
    BY <2>1
  <2>3. \A m \in ever : p[m] = o[m] /\ m # n
    BY <1>1, <1>6, <2>1
  <2>4. \A m \in ever \ linked : m # prev /\ m \notin Heads /\ m \in Nodes /\ gnext'[m] = gnext[m]
    BY <1>1, <1>4, <1>5, <2>1, HeadsAndNodes
  <2>5. /\ since' \subseteq ever' /\ since' \subseteq linked'
        /\ \A m \in linked' : HeadOf(m) = whead' => m \in ever'
        /\ \A m \in ever' : HeadOf(m) = whead' /\ -births' <= p[m] /\ p[m] <= births'
    BY SMTT(30), <1>1, <1>3, <1>6, <2>1, <2>2, <2>3 DEF Remembered, h
  <2>6. \A x, y \in ever' : p[x] = p[y] => x = y
    BY SMTT(30), <1>1, <1>3, <1>6, <2>1, <2>2, <2>3 DEF Remembered
  <2>a. /\ \A x \in ever \ linked :
             gnext[x] = whead \/ (gnext[x] \in ever /\ o[x] < o[gnext[x]])
        /\ \A x \in ever \ linked, y \in since :
             o[x] < o[y] => gnext[x] # whead /\ o[gnext[x]] <= o[y]
        /\ since \subseteq ever
    BY <2>2 DEF Remembered
  <2>b. (ever \ linked)' \subseteq ever \ linked /\ ever \subseteq ever' /\ whead' = whead
    BY <1>1, <2>1
  <2>7. \A x \in (ever \ linked)' :
          gnext'[x] = whead' \/ (gnext'[x] \in ever' /\ p[x] < p[gnext'[x]])
    BY <2>3, <2>4, <2>a, <2>b
  <2>8. \A x \in (ever \ linked)', y \in since' :
          p[x] < p[y] => gnext'[x] # whead' /\ p[gnext'[x]] <= p[y]
    <3> SUFFICES ASSUME NEW x \in ever \ linked, NEW y \in since, p[x] < p[y]
                 PROVE  gnext'[x] # whead /\ p[gnext'[x]] <= p[y]
      BY <1>1, <2>b
    <3>1. gnext[x] # whead /\ o[gnext[x]] <= o[y]
      BY <2>3, <2>a
    <3>2. gnext[x] \in ever
      BY <2>a, <3>1
    <3> QED
      BY <2>3, <2>4, <2>a, <3>1, <3>2
  <2>9. Remembered(p)'
    BY <2>5, <2>6, <2>7, <2>8 DEF Remembered
  <2>10. /\ whead \in Heads /\ init_task \in Heads /\ n \notin Heads
         /\ \A i \in 1..Len(item) : item[i].node # n
         /\ cur # n
    <3>1. whead \in Heads /\ init_task \in Heads /\ n \notin Heads
      BY <1>1, Typed, HeadsAndNodes DEF Heads
    <3>2. /\ \A i \in 1..Len(item) : item[i].node \in ever \cup {init_task}
          /\ cur \in ever \cup {whead}
      BY <2>2 DEF Progress
    <3> QED
      BY <2>1, <3>1, <3>2
  <2>11. \A m : m # n => (m \in ever' <=> m \in ever)
    BY <2>1
  <2>12. \A i \in 1..Len(item) : item[i].node \in ever' <=> item[i].node \in ever
    BY <2>10, <2>11
  <2>13. cur \in ever' <=> cur \in ever
    BY <2>10, <2>11
  <2>14. since \subseteq ever
    BY <2>2 DEF Remembered
  <2>15. Progress(p)'
    BY <1>1, <2>2, <2>3, <2>12, <2>13, <2>14, ProgressKept
  <2> QED
    BY <2>9, <2>15
<1> QED
  BY <1>6, <1>10, <1>11 DEF OrderInv

\* Unlinking takes an object out of the order of its list; where it leads to
\* is where its predecessor leads to from now on.
LEMMA OrderUnlink == ASSUME TypeInv, OrderInv, NEW n \in Nodes, Unlink(n) PROVE OrderInv'
<1> PICK o \in [Nodes -> Int] : Ordered(o) /\ (Walking /\ ~reused => Remembered(o) /\ Progress(o))
  BY DEF OrderInv
<1> DEFINE h == HeadOf(n)
<1>1. /\ n \in linked /\ linked' = linked \ {n} /\ since' = since \ {n}
      /\ UNCHANGED <<births, pc, whead, cur, item, ever, reused>>
      /\ linked \subseteq Nodes /\ ever \subseteq Nodes /\ h \in Heads /\ n \notin Heads
  BY HeadsAndNodes DEF Unlink, TypeInv, TypeOK
<1>2. PICK prev \in OnList(h) \cup {h} :
        gnext[prev] = n /\ gnext' = [gnext EXCEPT ![prev] = gnext[n]]
  BY DEF Unlink
<1>3. /\ prev \in linked \cup Heads /\ LH(prev) = h
      /\ prev \in Heads <=> prev = h
      /\ prev \in linked => HeadOf(prev) = h /\ o[prev] < o[n]
  BY <1>1, <1>2, HeadsAndNodes DEF OnList, Ordered
<1>4. \A m \in Nodes \cup Heads : gnext'[m] = IF m = prev THEN gnext[n] ELSE gnext[m]
  BY <1>1, <1>2, <1>3 DEF TypeInv, TypeOK
<1>5. prev # n
  BY SMTT(30), <1>1, <1>3
<1>6. \A m \in linked \cup Heads : gnext[m] = n => m = prev
  <2> SUFFICES ASSUME NEW m \in linked \cup Heads, gnext[m] = n, m # prev PROVE FALSE
    OBVIOUS
  <2>1. LH(m) = h
    BY SMTT(30), <1>1, HeadsAndNodes DEF Ordered
  <2>2. CASE m \in Heads
    <3>1. m = h /\ prev \in linked /\ HeadOf(prev) = h
      BY <1>3, <2>1, <2>2, HeadsAndNodes
    <3>2. o[gnext[h]] <= o[prev]
      BY <3>1 DEF Ordered
    <3> QED
      BY SMTT(30), <1>1, <1>3, <3>1, <3>2
  <2>3. CASE m \in linked
    <3>1. HeadOf(m) = h /\ o[m] < o[n]
      BY <1>1, <2>1, <2>3, HeadsAndNodes DEF Ordered
    <3>2. CASE prev = h
      <4>1. o[gnext[h]] <= o[m]
        BY <2>3, <3>1 DEF Ordered
      <4> QED
        BY SMTT(30), <1>1, <1>2, <2>3, <3>1, <3>2, <4>1
    <3>3. CASE prev \in linked
      <4>1. o[m] # o[prev]
        BY <1>3, <2>3, <3>1, <3>3 DEF Ordered
      <4>2. ~(o[m] < o[prev])
        <5>1. o[m] < o[prev] => o[gnext[m]] <= o[prev]
          BY <1>3, <2>3, <3>1, <3>3 DEF Ordered
        <5> QED
          BY SMTT(30), <1>1, <1>3, <3>3, <5>1
      <4>3. ~(o[prev] < o[m])
        <5>1. o[prev] < o[m] => o[gnext[prev]] <= o[m]
          BY <1>3, <2>3, <3>1, <3>3 DEF Ordered
        <5> QED
          BY SMTT(30), <1>1, <1>2, <2>3, <3>1, <3>3, <5>1
      <4> QED
        BY SMTT(30), <1>1, <2>3, <3>3, <4>1, <4>2, <4>3
    <3> QED
      BY <1>3, <3>2, <3>3
  <2> QED
    BY <2>2, <2>3
<1> HIDE DEF h
<1>7. Ordered(o)'
  <2>1. \A m \in linked \cup Heads :
          gnext[m] = LH(m) \/ (gnext[m] \in linked /\ HeadOf(gnext[m]) = LH(m))
    BY DEF Ordered
  <2>2. /\ LH(n) = h /\ gnext[n] # n
        /\ gnext[n] \in linked => o[n] < o[gnext[n]]
    <3>1. gnext[n] \in linked => o[n] < o[gnext[n]]
      BY <1>1 DEF Ordered
    <3> QED
      BY SMTT(30), <1>1, <3>1, HeadsAndNodes DEF h
  <2>3. \A m \in (linked \cup Heads)' :
          gnext'[m] = LH(m) \/ (gnext'[m] \in linked' /\ HeadOf(gnext'[m]) = LH(m))
    BY <1>1, <1>3, <1>4, <1>6, <2>1, <2>2
  <2>4. \A m \in linked' : gnext'[m] \in linked' => o[m] < o[gnext'[m]]
    <3> SUFFICES ASSUME NEW m \in linked', gnext'[m] \in linked' PROVE o[m] < o[gnext'[m]]
      OBVIOUS
    <3>1. CASE m = prev
      <4>1. gnext'[m] = gnext[n] /\ m \in linked /\ gnext[n] \in linked
        BY <1>1, <1>4, <3>1
      <4>2. o[m] < o[n] /\ o[n] < o[gnext[n]]
        BY <1>3, <2>2, <3>1, <4>1
      <4>3. o[m] \in Int /\ o[n] \in Int /\ o[gnext[n]] \in Int
        BY <1>1, <4>1
      <4> QED
        BY <4>1, <4>2, <4>3
    <3>2. CASE m # prev
      BY <1>1, <1>4, <3>2 DEF Ordered
    <3> QED
      BY <3>1, <3>2
  <2>5. \A x, y \in linked' :
          HeadOf(x) = HeadOf(y) /\ o[x] < o[y] =>
            gnext'[x] \in linked' /\ o[gnext'[x]] <= o[y]
    <3> SUFFICES ASSUME NEW x \in linked', NEW y \in linked', HeadOf(x) = HeadOf(y), o[x] < o[y]
                 PROVE  gnext'[x] \in linked' /\ o[gnext'[x]] <= o[y]
      OBVIOUS
    <3>0. x \in linked /\ y \in linked /\ x # n /\ y # n
      BY <1>1
    <3>1. gnext[x] \in linked /\ o[gnext[x]] <= o[y]
      BY <3>0 DEF Ordered
    <3>2. CASE x # prev
      BY <1>1, <1>4, <1>6, <3>0, <3>1, <3>2
    <3>3. CASE x = prev
      <4>1. HeadOf(y) = HeadOf(n) /\ o[n] <= o[y]
        BY <1>2, <1>3, <3>0, <3>1, <3>3 DEF h
      <4>2. o[n] # o[y]
        BY <1>1, <3>0, <4>1 DEF Ordered
      <4>3. gnext[n] \in linked /\ o[gnext[n]] <= o[y]
        <5>1. o[n] < o[y]
          BY SMTT(30), <1>1, <3>0, <4>1, <4>2
        <5> QED
          BY <1>1, <3>0, <4>1, <5>1 DEF Ordered
      <4> QED
        BY <1>1, <1>4, <2>2, <3>0, <3>3, <4>3
    <3> QED
      BY <3>2, <3>3
  <2>6. \A y \in linked' :
          gnext'[HeadOf(y)] \in linked' /\ o[gnext'[HeadOf(y)]] <= o[y]
    <3> SUFFICES ASSUME NEW y \in linked'
                 PROVE  gnext'[HeadOf(y)] \in linked' /\ o[gnext'[HeadOf(y)]] <= o[y]
      OBVIOUS
    <3>0. y \in linked /\ y # n /\ y \in Nodes /\ HeadOf(y) \in Heads
      BY <1>1, HeadsAndNodes
    <3>1. gnext[HeadOf(y)] \in linked /\ o[gnext[HeadOf(y)]] <= o[y]
      BY <3>0 DEF Ordered
    <3>2. CASE HeadOf(y) # prev
      BY <1>1, <1>4, <1>6, <3>0, <3>1, <3>2
    <3>3. CASE HeadOf(y) = prev
      <4>1. HeadOf(y) = HeadOf(n) /\ o[n] <= o[y]
        BY <1>2, <1>3, <3>0, <3>1, <3>3 DEF h
      <4>2. o[n] # o[y]
        BY <1>1, <3>0, <4>1 DEF Ordered
      <4>3. gnext[n] \in linked /\ o[gnext[n]] <= o[y]
        <5>1. o[n] < o[y]
          BY SMTT(30), <1>1, <3>0, <4>1, <4>2
        <5> QED
          BY <1>1, <3>0, <4>1, <5>1 DEF Ordered
      <4> QED
        BY <1>1, <1>4, <2>2, <3>0, <3>3, <4>3
    <3> QED
      BY <3>2, <3>3
  <2>7. /\ \A x, y \in linked' : HeadOf(x) = HeadOf(y) /\ o[x] = o[y] => x = y
        /\ \A m \in linked' : -births' <= o[m] /\ o[m] <= births'
    BY <1>1 DEF Ordered
  <2> QED
    BY <2>3, <2>4, <2>5, <2>6, <2>7 DEF Ordered
<1>8. ASSUME Walking', ~reused' PROVE Remembered(o)' /\ Progress(o)'
  <2>1. Remembered(o) /\ Progress(o) /\ Walking
    BY <1>1, <1>8 DEF Walking
  <2>2. \A m \in ever \ linked : m # prev /\ m # n /\ m \in Nodes /\ gnext'[m] = gnext[m]
    BY <1>1, <1>3, <1>4, HeadsAndNodes
  <2>3. n \in ever =>
          /\ h = whead /\ gnext'[n] = gnext[n]
          /\ gnext[n] = whead \/ (gnext[n] \in ever /\ o[n] < o[gnext[n]])
    <3>1. SUFFICES ASSUME n \in ever
                   PROVE  /\ h = whead /\ gnext'[n] = gnext[n]
                          /\ gnext[n] = whead \/ (gnext[n] \in ever /\ o[n] < o[gnext[n]])
      OBVIOUS
    <3>2. h = whead /\ gnext'[n] = gnext[n]
      BY <1>1, <1>4, <1>5, <2>1, <3>1 DEF Remembered, h
    <3>3. gnext[n] = h \/ (gnext[n] \in linked /\ HeadOf(gnext[n]) = h /\ o[n] < o[gnext[n]])
      BY <1>1, HeadsAndNodes DEF Ordered, h
    <3> QED
      BY <2>1, <3>2, <3>3 DEF Remembered
  <2>4. n \in ever => \A y \in since' : o[n] < o[y] => gnext[n] # whead /\ o[gnext[n]] <= o[y]
    <3> SUFFICES ASSUME n \in ever, NEW y \in since', o[n] < o[y]
                 PROVE  gnext[n] # whead /\ o[gnext[n]] <= o[y]
      OBVIOUS
    <3>1. y \in linked /\ HeadOf(y) = HeadOf(n)
      BY <1>1, <2>1 DEF Remembered
    <3>2. gnext[n] \in linked /\ o[gnext[n]] <= o[y]
      BY <1>1, <3>1 DEF Ordered
    <3>3. whead \notin linked
      BY <1>1, HeadsAndNodes DEF TypeInv, TypeOK
    <3> QED
      BY <3>2, <3>3
  <2>5. \A x \in (ever \ linked)' : x = n \/ x \in ever \ linked
    BY <1>1
  <2>6. Remembered(o)'
    <3>1. /\ since' \subseteq ever' /\ since' \subseteq linked'
          /\ \A m \in linked' : HeadOf(m) = whead' => m \in ever'
          /\ \A m \in ever' : HeadOf(m) = whead' /\ -births' <= o[m] /\ o[m] <= births'
          /\ \A x, y \in ever' : o[x] = o[y] => x = y
      BY <1>1, <2>1 DEF Remembered
    <3>2. \A x \in (ever \ linked)' :
            gnext'[x] = whead' \/ (gnext'[x] \in ever' /\ o[x] < o[gnext'[x]])
      <4> SUFFICES ASSUME NEW x \in (ever \ linked)'
                   PROVE  gnext'[x] = whead \/ (gnext'[x] \in ever /\ o[x] < o[gnext'[x]])
        BY <1>1
      <4>1. CASE x = n
        <5>1. n \in ever
          BY <1>1, <4>1
        <5>2. gnext'[n] = gnext[n] /\ (gnext[n] = whead \/ (gnext[n] \in ever /\ o[n] < o[gnext[n]]))
          BY <2>3, <5>1
        <5> QED
          BY <4>1, <5>2
      <4>2. CASE x # n
        BY <2>1, <2>2, <2>5, <4>2 DEF Remembered
      <4> QED
        BY <4>1, <4>2
    <3>3. \A x \in (ever \ linked)', y \in since' :
            o[x] < o[y] => gnext'[x] # whead' /\ o[gnext'[x]] <= o[y]
      <4> SUFFICES ASSUME NEW x \in (ever \ linked)', NEW y \in since', o[x] < o[y]
                   PROVE  gnext'[x] # whead /\ o[gnext'[x]] <= o[y]
        BY <1>1
      <4>1. CASE x = n
        <5>1. n \in ever
          BY <1>1, <4>1
        <5>2. gnext'[n] = gnext[n] /\ gnext[n] # whead /\ o[gnext[n]] <= o[y]
          BY <2>3, <2>4, <4>1, <5>1
        <5> QED
          BY <4>1, <5>2
      <4>2. CASE x # n
        <5>1. x \in ever \ linked /\ y \in since
          BY <1>1, <2>5, <4>2
        <5> QED
          BY <2>1, <2>2, <5>1 DEF Remembered
      <4> QED
        BY <4>1, <4>2
    <3> QED
      BY <3>1, <3>2, <3>3 DEF Remembered
  <2>7. Progress(o)'
    <3>1. since \subseteq ever
      BY <2>1 DEF Remembered
    <3>2. since' \subseteq since /\ UNCHANGED <<pc, whead, cur, item, ever>>
      BY <1>1
    <3> QED
      BY <2>1, <3>1, <3>2, ProgressKept
  <2> QED
    BY <2>6, <2>7
<1> QED
  BY <1>7, <1>8 DEF OrderInv

\* A walk that begins has everything before it.
LEMMA OrderBegin ==
  ASSUME TypeInv, OrderInv, NEW h \in Heads, BeginWalk(h), UNCHANGED guestVars,
         (cur' = h /\ h = init_task) \/ (cur' = gnext[h] /\ gnext[h] # h),
         pc' # "next"
  PROVE  OrderInv'
<1> PICK o \in [Nodes -> Int] : Ordered(o)
  BY DEF OrderInv
<1>1. /\ whead' = h /\ item' = <<>> /\ Len(item') = 0 /\ UNCHANGED <<gnext, linked, births>>
      /\ since' = OnList(h) /\ ever' = OnList(h) /\ OnList(h) \subseteq linked
      /\ \A n \in OnList(h) : HeadOf(n) = h /\ n \notin Heads /\ n \in Nodes
  BY HeadsAndNodes DEF BeginWalk, OnList, guestVars, TypeInv, TypeOK
<1>2. Ordered(o)'
  BY <1>1 DEF Ordered
<1>3. Remembered(o)'
  BY SMTT(30), <1>1 DEF Remembered, Ordered, OnList
<1>4. cur' \in OnList(h) \cup {h} /\ (cur' = h => h = init_task)
  BY SMTT(30), <1>1, HeadsAndNodes DEF Ordered, OnList
<1>5. cur' \in OnList(h) => \A y \in OnList(h) : o[cur'] <= o[y]
  BY <1>1 DEF Ordered, OnList
<1>6. Progress(o)'
  BY SMTT(30), <1>1, <1>4, <1>5 DEF Progress
<1> QED
  BY <1>2, <1>3, <1>6 DEF OrderInv

\* Adding the object the walk is on.
LEMMA OrderAdd ==
  ASSUME TypeInv, OrderInv, AddItem PROVE OrderInv'
<1> PICK o \in [Nodes -> Int] : Ordered(o) /\ (Walking /\ ~reused => Remembered(o) /\ Progress(o))
  BY DEF OrderInv
<1>1. /\ pc = "add" /\ pc' = "next" /\ item' = Append(item, [node |-> cur, cr3 |-> cr3v])
      /\ UNCHANGED <<gnext, linked, births, whead, cur, since, ever, reused>>
  BY DEF AddItem, guestVars, ghostVars
<1> DEFINE k == Len(item)
<1>2. /\ k \in Nat /\ Len(item') = k + 1 /\ item'[k + 1].node = cur
      /\ \A i \in 1..k : item'[i] = item[i]
  <2>1. item \in Seq([node : Nodes \cup Heads, cr3 : Tasks \cup {NULL, Junk}])
    BY Typed
  <2> QED
    BY SMTT(30), <1>1, <2>1, AppendIs
<1>3. Ordered(o)'
  BY <1>1 DEF Ordered
<1>4. ASSUME ~reused' PROVE Remembered(o)' /\ Progress(o)'
  <2>1. Remembered(o) /\ Progress(o)
    BY <1>1, <1>4 DEF Walking
  <2>2. Remembered(o)'
    BY <1>1, <2>1 DEF Remembered
  <2>3. cur \in ever \cup {whead} /\ (cur = whead => whead = init_task /\ item = <<>>)
    BY <1>1, <2>1 DEF Progress
  <2>4. /\ whead \notin Nodes /\ ever \subseteq Nodes /\ init_task \notin Nodes
    BY HeadsAndNodes DEF TypeInv, TypeOK, Heads
  <2>5. cur = whead => k = 0
    BY <2>3
  <2> HIDE DEF k
  <2>6. \A i \in 1..(k + 1) : i = k + 1 \/ (i \in 1..k /\ item'[i] = item[i])
    BY <1>2
  <2>7. \A i \in 1..k :
          /\ item[i].node \in ever \/ (item[i].node = init_task /\ i = 1)
          /\ cur \in ever /\ item[i].node \in ever => o[item[i].node] < o[cur]
    BY <1>1, <2>1 DEF Progress, k
  <2>8. \A i, j \in 1..k :
          i < j => /\ item[j].node \in ever
                   /\ item[i].node \in ever => o[item[i].node] < o[item[j].node]
    BY <2>1 DEF Progress, k
  <2>9. \A i \in 1..(k + 1) :
          item'[i].node \in ever \/ (item'[i].node = init_task /\ i = 1)
    <3> SUFFICES ASSUME NEW i \in 1..(k + 1)
                 PROVE  item'[i].node \in ever \/ (item'[i].node = init_task /\ i = 1)
      OBVIOUS
    <3>1. CASE i = k + 1
      BY <1>2, <2>3, <2>5, <3>1
    <3>2. CASE i # k + 1
      BY <2>6, <2>7, <3>2
    <3> QED
      BY <3>1, <3>2
  <2>10. \A i, j \in 1..(k + 1) :
          i < j => /\ item'[j].node \in ever
                   /\ item'[i].node \in ever => o[item'[i].node] < o[item'[j].node]
    <3> SUFFICES ASSUME NEW i \in 1..(k + 1), NEW j \in 1..(k + 1), i < j
                 PROVE  /\ item'[j].node \in ever
                        /\ item'[i].node \in ever => o[item'[i].node] < o[item'[j].node]
      OBVIOUS
    <3>1. i \in 1..k /\ item'[i] = item[i]
      BY SMTT(30), <1>2
    <3>2. CASE j = k + 1
      BY SMTT(30), <1>2, <2>3, <2>5, <2>7, <3>1, <3>2
    <3>3. CASE j # k + 1
      BY <1>2, <2>6, <2>8, <3>1, <3>3
    <3> QED
      BY <3>2, <3>3
  <2>11. cur \in ever => \A i \in 1..(k + 1) : item'[i].node \in ever => o[item'[i].node] <= o[cur]
    <3> SUFFICES ASSUME cur \in ever, NEW i \in 1..(k + 1), item'[i].node \in ever
                 PROVE  o[item'[i].node] <= o[cur]
      OBVIOUS
    <3>1. o[cur] \in Int /\ o[item'[i].node] \in Int
      BY <2>4
    <3>2. CASE i = k + 1
      BY <1>2, <3>1, <3>2
    <3>3. CASE i # k + 1
      <4>1. i \in 1..k /\ item'[i] = item[i]
        BY <2>6, <3>3
      <4>2. o[item[i].node] < o[cur]
        BY <2>7, <4>1
      <4> QED
        BY SMTT(30), <3>1, <4>1, <4>2
    <3> QED
      BY <3>2, <3>3
  <2>12. \A y : y \in Listed' <=> (y \in Listed \/ y = cur)
    BY SMTT(30), <1>2, <2>6 DEF Listed, k
  <2>13. cur \in ever => \A y \in since : y \in Listed' \/ o[cur] < o[y]
    <3> SUFFICES ASSUME cur \in ever, NEW y \in since, y \notin Listed' PROVE o[cur] < o[y]
      OBVIOUS
    <3>1. y \in ever /\ y # cur /\ y \notin Listed
      BY <2>1, <2>12 DEF Remembered
    <3>2. o[cur] <= o[y]
      BY <1>1, <2>1, <3>1 DEF Progress
    <3>3. o[cur] # o[y]
      BY <2>1, <3>1 DEF Remembered
    <3> QED
      BY SMTT(30), <2>4, <3>1, <3>2, <3>3
  <2>14. cur = whead => Len(item') = 1 /\ item'[1].node = whead
    BY SMTT(30), <1>2, <2>5
  <2>15. Progress(o)'
    BY <1>1, <1>2, <2>3, <2>9, <2>10, <2>11, <2>13, <2>14 DEF Progress
  <2> QED
    BY <2>2, <2>15
<1> QED
  BY <1>3, <1>4 DEF OrderInv

\* The next object is the nearest ahead; at the end nothing is missing.
LEMMA OrderLoadNext ==
  ASSUME TypeInv, OrderInv, LoadNext PROVE OrderInv' /\ ListedRight'
<1> PICK o \in [Nodes -> Int] : Ordered(o) /\ (Walking /\ ~reused => Remembered(o) /\ Progress(o))
  BY DEF OrderInv
<1>1. /\ pc = "next" /\ cur' = gnext[cur]
      /\ UNCHANGED <<gnext, linked, births, whead, item, since, ever, reused>>
      /\ IF cur' = whead THEN pc' \in {"print", "find"} ELSE pc' \in {"mm", "trans", "add"}
  BY DEF LoadNext, WalkDone, guestVars, ghostVars, TypeInv, TypeOK, Heads
<1>2. Ordered(o)'
  BY <1>1 DEF Ordered
<1>3. CASE reused
  BY <1>1, <1>2, <1>3 DEF OrderInv, ListedRight
<1>4. CASE ~reused
  <2>1. Remembered(o) /\ Progress(o)
    BY <1>1, <1>4 DEF Walking
  <2>2. /\ whead \in Heads /\ whead \notin Nodes /\ init_task \notin Nodes
        /\ linked \subseteq Nodes /\ ever \subseteq Nodes /\ LH(whead) = whead
        /\ Len(item) \in Nat
    BY SMTT(30), HeadsAndNodes DEF TypeInv, TypeOK, Heads
  <2>3. cur \in ever \/ (cur = whead /\ whead = init_task)
    BY <2>1 DEF Progress
  \* Where next leads, and what it does not skip.
  <2>4. /\ cur' = whead \/ cur' \in ever
        /\ cur \in ever /\ cur' # whead => o[cur] < o[cur']
    <3>1. CASE cur \in linked
      <4>0. cur \in Nodes /\ cur # whead /\ cur \in ever
        BY <2>2, <2>3, <3>1
      <4>a. HeadOf(cur) = whead
        BY <2>1, <4>0 DEF Remembered
      <4>1. HeadOf(cur) = whead /\ LH(cur) = whead /\ cur # whead
        BY <4>0, <4>a, HeadsAndNodes
      <4>2. gnext[cur] = whead \/ (gnext[cur] \in linked /\ HeadOf(gnext[cur]) = whead)
        BY <3>1, <4>1 DEF Ordered
      <4>3. gnext[cur] \in linked => o[cur] < o[gnext[cur]]
        BY <3>1 DEF Ordered
      <4> QED
        BY <1>1, <2>1, <4>2, <4>3 DEF Remembered
    <3>2. CASE cur \in ever \ linked
      BY <1>1, <2>1, <3>2 DEF Remembered
    <3>3. CASE cur = whead
      <4>1. gnext[whead] = whead \/ (gnext[whead] \in linked /\ HeadOf(gnext[whead]) = whead)
        BY <2>2 DEF Ordered
      <4> QED
        BY <1>1, <2>1, <2>2, <3>3, <4>1 DEF Remembered
    <3> QED
      BY <2>3, <3>1, <3>2, <3>3
  <2>5. \A y \in since : y \in Listed \/ (cur' # whead /\ o[cur'] <= o[y])
    <3> SUFFICES ASSUME NEW y \in since, y \notin Listed
                 PROVE  cur' # whead /\ o[cur'] <= o[y]
      OBVIOUS
    <3>1. y \in linked /\ y \in ever /\ HeadOf(y) = whead
      BY <2>1 DEF Remembered
    <3>2. cur \in ever => o[cur] < o[y]
      BY <1>1, <2>1 DEF Progress
    <3>3. CASE cur \in linked
      <4>0. cur \in ever
        BY <2>2, <2>3, <3>3
      <4>1. cur \in ever /\ HeadOf(cur) = whead
        BY <2>1, <4>0 DEF Remembered
      <4>2. gnext[cur] \in linked /\ o[gnext[cur]] <= o[y]
        BY <3>1, <3>2, <3>3, <4>1 DEF Ordered
      <4> QED
        BY <1>1, <2>2, <4>2
    <3>4. CASE cur \in ever \ linked
      BY <1>1, <2>1, <3>2, <3>4 DEF Remembered
    <3>5. CASE cur = whead
      <4>1. gnext[whead] \in linked /\ o[gnext[whead]] <= o[y]
        BY <3>1 DEF Ordered
      <4> QED
        BY <1>1, <2>2, <3>5, <4>1
    <3> QED
      BY <2>3, <3>3, <3>4, <3>5
  <2>6. \A i \in 1..Len(item) :
          item[i].node \in ever \/ (item[i].node = init_task /\ i = 1)
    BY <2>1 DEF Progress
  <2>7. \A i, j \in 1..Len(item) :
          i < j => /\ item[j].node \in ever
                   /\ item[i].node \in ever => o[item[i].node] < o[item[j].node]
    BY <2>1 DEF Progress
  <2>8. CASE cur' = whead
    <3>1. pc' \in {"print", "find"} /\ ~Walking'
      BY <1>1, <2>8 DEF Walking
    <3>2. since \subseteq Listed /\ Listed \subseteq ever \cup {init_task}
      BY <2>5, <2>6, <2>8 DEF Listed
    <3>3. \A i, j \in 1..Len(item) : item[i].node = item[j].node => i = j
      <4>1. \A i, j \in 1..Len(item) : i < j => item[i].node # item[j].node
        BY SMTT(30), <2>2, <2>6, <2>7
      <4> QED
        BY SMTT(30), <2>2, <4>1
    <3>4. ListedRight'
      BY <1>1, <3>2, <3>3 DEF ListedRight, Listed
    <3> QED
      BY <1>2, <3>1, <3>4 DEF OrderInv
  <2>9. CASE cur' # whead
    <3>1. pc' \in {"mm", "trans", "add"}
      BY <1>1, <2>9
    <3>2. ListedRight'
      BY <3>1 DEF ListedRight, Complete
    <3>3. cur' \in ever
      BY <2>4, <2>9
    <3>4. \A i \in 1..Len(item) : item[i].node \in ever => o[item[i].node] < o[cur']
      <4> SUFFICES ASSUME NEW i \in 1..Len(item), item[i].node \in ever
                   PROVE  o[item[i].node] < o[cur']
        OBVIOUS
      <4>1. CASE cur \in ever
        <5>1. o[item[i].node] <= o[cur] /\ o[cur] < o[cur']
          BY <1>1, <2>1, <2>4, <2>9, <4>1 DEF Progress
        <5>2. o[item[i].node] \in Int /\ o[cur] \in Int /\ o[cur'] \in Int
          BY <2>2, <3>3, <4>1
        <5> QED
          BY <5>1, <5>2
      <4>2. CASE cur = whead
        <5>1. Len(item) = 1 /\ item[1].node = whead
          BY <1>1, <2>1, <4>2 DEF Progress
        <5> QED
          BY SMTT(30), <2>2, <5>1
      <4> QED
        BY <2>3, <4>1, <4>2
    <3>5. Remembered(o)'
      BY <1>1, <2>1 DEF Remembered
    <3>6. Listed' = Listed /\ pc' # "next"
      BY <1>1, <3>1 DEF Listed
    <3>7. Progress(o)'
      <4>1. /\ cur' \in ever' \cup {whead'} /\ cur' # whead'
            /\ pc' # "next" /\ item' = item /\ ever' = ever /\ since' = since
        BY <1>1, <2>9, <3>3, <3>6
      <4>2. \A i \in 1..Len(item') :
              item'[i].node \in ever' \/ (item'[i].node = init_task /\ i = 1)
        BY <2>6, <4>1
      <4>3. \A i, j \in 1..Len(item') :
              i < j => /\ item'[j].node \in ever'
                       /\ item'[i].node \in ever' => o[item'[i].node] < o[item'[j].node]
        BY <2>7, <4>1
      <4>4. \A i \in 1..Len(item') : item'[i].node \in ever' => o[item'[i].node] < o[cur']
        BY <3>4, <4>1
      <4>5. \A y \in since' : y \in Listed' \/ o[cur'] <= o[y]
        BY <2>5, <3>6, <4>1
      <4> QED
        BY <4>1, <4>2, <4>3, <4>4, <4>5 DEF Progress
    <3> QED
      BY <1>2, <3>2, <3>5, <3>7 DEF OrderInv
  <2> QED
    BY <2>8, <2>9
<1> QED
  BY <1>3, <1>4

\* Every step keeps the order and what a completed walk has listed.
LEMMA OrderNext ==
  ASSUME TypeInv, OrderInv, ListedRight, [Next]_vars PROVE OrderInv' /\ ListedRight'
<1> USE DEF guestVars, hostVars, ghostVars
\* A step that leaves the walk alone.
<1>1. ASSUME UNCHANGED <<gnext, linked, births>>, ~Walking' \/ (Walking /\ pc # "next" /\ pc' # "next"
                 /\ UNCHANGED <<whead, cur, item, since, ever, reused>>)
      PROVE OrderInv'
  <2> PICK o \in [Nodes -> Int] : Ordered(o) /\ (Walking /\ ~reused => Remembered(o) /\ Progress(o))
    BY DEF OrderInv
  <2>1. Ordered(o)'
    BY <1>1 DEF Ordered
  <2>2. ASSUME Walking', ~reused' PROVE Remembered(o)' /\ Progress(o)'
    <3>1. /\ UNCHANGED <<gnext, linked, births, whead, cur, item, since, ever>>
          /\ Remembered(o) /\ Progress(o) /\ (pc' = "next" <=> pc = "next")
      BY <1>1, <2>2
    <3>2. Remembered(o)' /\ since \subseteq ever
      BY <3>1 DEF Remembered
    <3> QED
      BY <3>1, <3>2, ProgressKept
  <2> QED
    BY <2>1, <2>2 DEF OrderInv
<1>2. ASSUME NEW n \in Nodes, Link(n) \/ Unlink(n) PROVE OrderInv' /\ ListedRight'
  <2>1. OrderInv'
    BY <1>2, OrderLink, OrderUnlink
  <2>2. /\ since' \subseteq since /\ UNCHANGED <<pc, item>>
        /\ ever \subseteq ever' /\ (reused => reused')
    <3>1. CASE Link(n)
      BY <3>1 DEF Link
    <3>2. CASE Unlink(n)
      BY <3>2 DEF Unlink
    <3> QED
      BY <1>2, <3>1, <3>2
  <2>3. ListedRight'
    BY <2>2 DEF ListedRight, Complete, Listed
  <2> QED
    BY <2>1, <2>3
<1>3. ASSUME NEW n \in Nodes, ExitMm(n) \/ Free(n) PROVE OrderInv' /\ ListedRight'
  <2>1. /\ UNCHANGED <<gnext, linked, births, pc, whead, cur, item, since, ever, reused>>
    BY <1>3 DEF ExitMm, Free
  <2>2. OrderInv'
    BY <2>1, OrderSame
  <2>3. ListedRight'
    BY <2>1, ListedSame DEF Complete
  <2> QED
    BY <2>2, <2>3
<1>4. ASSUME NEW c, StartTraverse(c) PROVE OrderInv' /\ ListedRight'
  <2>1. /\ BeginWalk(init_task) /\ UNCHANGED guestVars /\ cur' = init_task /\ pc' = "mm"
        /\ init_task \in Heads
    BY <1>4 DEF StartTraverse, Heads
  <2>2. OrderInv'
    BY <2>1, OrderBegin
  <2> QED
    BY <2>1, <2>2 DEF ListedRight, Complete
<1>5. CASE StartDevices
  <2>1. /\ BeginWalk(dev_base_head) /\ UNCHANGED guestVars /\ cur' = gnext[dev_base_head]
        /\ gnext[dev_base_head] # dev_base_head /\ pc' = "add" /\ dev_base_head \in Heads
    BY <1>5 DEF StartDevices, Heads
  <2>2. OrderInv'
    BY <2>1, OrderBegin
  <2> QED
    BY <2>1, <2>2 DEF ListedRight, Complete
<1>6. ASSUME NEW p \in {"idle", "wild"}, Leave(p) PROVE OrderInv' /\ ListedRight'
  <2>1. OrderInv'
    BY <1>1, <1>6 DEF Leave, Walking
  <2> QED
    BY <1>6, <2>1 DEF Leave, ListedRight, Complete
<1>7. CASE LoadMm \/ LoadPgd \/ (TransModule /\ ~Leave("wild"))
  <2>1. /\ Walking /\ pc # "next" /\ pc' \in {"pgd", "add"}
        /\ UNCHANGED <<gnext, linked, births, whead, cur, item, since, ever, reused>>
    BY <1>7 DEF LoadMm, LoadPgd, TransModule, Walking
  <2>2. OrderInv'
    BY <1>1, <2>1
  <2> QED
    BY <2>1, <2>2 DEF ListedRight, Complete
<1>8. CASE AddItem
  <2>1. ListedRight'
    BY <1>8 DEF AddItem, ListedRight, Complete
  <2> QED
    BY <1>8, <2>1, OrderAdd
<1>9. CASE LoadNext
  BY <1>9, OrderLoadNext
<1>10. CASE PrintItems \/ FindCr3 \/ (FreeItem /\ ~Leave("wild")) \/ (FreeDone /\ ~Leave("idle"))
  <2>1. /\ ~Walking' /\ UNCHANGED <<gnext, linked, births, item>>
        /\ ~Complete' \/ (Complete /\ UNCHANGED <<since, ever, reused>>)
    BY <1>10 DEF PrintItems, FindCr3, FreeItem, FreeDone, Walking, Complete
  <2>2. OrderInv'
    BY <1>1, <2>1
  <2>3. ListedRight'
    BY <2>1, ListedSame
  <2> QED
    BY <2>2, <2>3
<1>11. CASE UseCr3 /\ ~Leave("idle") /\ ~Leave("wild")
  <2>1. /\ BeginWalk(modules) /\ UNCHANGED guestVars /\ cur' = gnext[modules]
        /\ pc' = (IF cur' = modules THEN "print" ELSE "trans") /\ modules \in Heads
    BY <1>11 DEF UseCr3, Heads
  <2>2. CASE gnext[modules] # modules
    <3>1. pc' = "trans"
      BY <2>1, <2>2
    <3>2. OrderInv'
      BY <2>1, <2>2, <3>1, OrderBegin
    <3> QED
      BY <3>1, <3>2 DEF ListedRight, Complete
  <2>3. CASE gnext[modules] = modules
    <3>1. OrderInv'
      BY <1>1, <2>1, <2>3 DEF Walking
    <3>2. PICK o \in [Nodes -> Int] : Ordered(o)
      BY DEF OrderInv
    <3>3. OnList(modules) = {}
      <4>1. modules \notin linked
        BY <2>1, HeadsAndNodes DEF TypeInv, TypeOK
      <4> QED
        BY SMTT(30), <2>3, <3>2, <4>1 DEF OnList, Ordered
    <3>4. since' = {} /\ item' = <<>>
      BY <2>1, <3>3 DEF BeginWalk
    <3>5. ListedRight'
      <4>1. Len(item') = 0 /\ Listed' = {}
        BY <3>4 DEF Listed
      <4> QED
        BY SMTT(30), <3>4, <4>1 DEF ListedRight
    <3> QED
      BY <3>1, <3>5
  <2> QED
    BY <2>2, <2>3
<1>12. CASE UNCHANGED vars
  <2>1. /\ UNCHANGED <<gnext, linked, births, pc, whead, cur, item, since, ever, reused>>
    BY <1>12 DEF vars
  <2>2. OrderInv'
    BY <2>1, OrderSame
  <2>3. ListedRight'
    BY <2>1, ListedSame DEF Complete
  <2> QED
    BY <2>2, <2>3
<1> QED
  BY <1>2, <1>3, <1>4, <1>5, <1>6, <1>7, <1>8, <1>9, <1>10, <1>11, <1>12
     DEF Next, GuestNext, HostNext, WalkNext, ListNext, ReadFreed, Stopped, TransModule, FreeItem,
         FreeDone, UseCr3

-----------------------------------------------------------------------------
(* The page table.  What the walk of the tasks has read of a process that  *)
(* stays is its page table, and the search stops at the first one; what it *)
(* has read at all is a process's page table as long as none exits.        *)

\* A process that stays is on the list all the time and listed with its page
\* table, and what the search has passed had none.
SteadyInv ==
  /\ user \subseteq linked
  /\ steady \subseteq user
  /\ whead = init_task =>
       /\ Walking \/ Complete => steady \subseteq since
       /\ pc = "add" /\ cur \in steady => cr3v # NULL
       /\ \A i \in 1..Len(item) : item[i].node \in steady => item[i].cr3 # NULL
       /\ Walking => cr3 = NULL
  /\ pc = "find" =>
       /\ whead = init_task /\ cmd # "list_tasks" /\ cr3 = NULL
       /\ \A i \in 1..Len(item) : pos = 0 \/ i < pos => item[i].cr3 = NULL
  /\ pc = "print" => whead # init_task \/ cmd = "list_tasks"
  /\ pc = "trans" => whead # init_task
  /\ pc = "use" => whead = init_task /\ cmd # "list_tasks"
  /\ pc \in {"free", "use"} /\ whead = init_task /\ cmd # "list_tasks" /\ ~reused
       /\ steady # {} => cr3 # NULL

\* Every page table a command holds is that of a process, until one exits.
Cr3Inv ==
  /\ pc = "idle" => cr3v = NULL /\ cr3 = NULL /\ item = <<>> /\ ~exited
  /\ ~exited => /\ cr3v \in user \cup {NULL} /\ cr3 \in user \cup {NULL}
                /\ \A i \in 1..Len(item) : item[i].cr3 \in user \cup {NULL}
                /\ pc = "pgd" => cur \in user
  /\ Walking /\ whead = modules => cr3 # NULL
  /\ pc = "trans" => whead = modules

\* Every step keeps the page tables of the processes that stay.
LEMMA SteadyNext ==
  ASSUME TypeInv, HostInv, ListedRight, SteadyInv, [Next]_vars PROVE SteadyInv'
<1> USE ListAssumption DEF guestVars, hostVars, ghostVars
<1>1. \A t \in Tasks : HeadOf(t) = init_task /\ t # NULL /\ t \in Nodes
  BY DEF HeadOf, Nodes
<1>2. ASSUME NEW n \in Nodes, Link(n) PROVE SteadyInv'
  <2>1. user' \subseteq linked' /\ user \subseteq user'
    BY <1>2 DEF Link, SteadyInv
  <2>2. UNCHANGED <<cmd, pc, whead, cur, cr3v, cr3, item, pos, since, steady>> /\ (reused => reused')
    BY <1>2 DEF Link
  <2> QED
    BY <2>1, <2>2 DEF SteadyInv, Walking, Complete
<1>3. ASSUME NEW n \in Nodes, ExitMm(n) \/ Unlink(n) \/ Free(n) PROVE SteadyInv'
  <2>1. UNCHANGED <<cmd, pc, whead, cur, cr3v, cr3, item, pos, reused>> /\ steady' \subseteq steady
    BY <1>3 DEF ExitMm, Unlink, Free
  <2>2. user' \subseteq linked' /\ steady' \subseteq user'
    BY <1>3 DEF ExitMm, Unlink, Free, SteadyInv
  <2>3. steady \subseteq since => steady' \subseteq since'
    BY <1>3 DEF ExitMm, Unlink, Free, SteadyInv
  <2> QED
    BY <2>1, <2>2, <2>3 DEF SteadyInv, Walking, Complete
<1>4. ASSUME NEW p \in {"idle", "wild"}, Leave(p) PROVE SteadyInv'
  BY <1>4 DEF Leave, SteadyInv, Walking, Complete
<1>5. ASSUME NEW c, StartTraverse(c) PROVE SteadyInv'
  <2>1. /\ pc' = "mm" /\ steady' = user /\ since' = OnList(init_task) /\ item' = <<>>
        /\ cr3' = NULL /\ UNCHANGED <<user, linked>>
    BY <1>5 DEF StartTraverse, BeginWalk
  <2>2. user \subseteq OnList(init_task)
    BY <1>1 DEF OnList, SteadyInv, TypeInv, TypeOK
  <2>3. user \subseteq linked /\ \A i \in 1..Len(item') : FALSE
    BY <2>1 DEF SteadyInv
  <2> HIDE ListAssumption
  <2> QED
    BY <2>1, <2>2, <2>3 DEF SteadyInv, Walking, Complete
<1>6. CASE StartDevices
  BY <1>6 DEF StartDevices, BeginWalk, SteadyInv
<1>7. CASE LoadMm
  BY ZenonT(30), <1>7 DEF LoadMm, SteadyInv, Walking, Complete
<1>8. CASE LoadPgd
  <2>1. cr3v' # NULL
    BY <1>1, <1>8 DEF LoadPgd, TypeInv
  <2> QED
    BY <1>8, <2>1 DEF LoadPgd, SteadyInv, Walking, Complete
<1>9. CASE TransModule /\ ~Leave("wild")
  <2>1. whead # init_task
    BY <1>9 DEF TransModule, SteadyInv
  <2> QED
    BY <1>9, <2>1 DEF TransModule, SteadyInv, Walking, Complete
<1>10. CASE AddItem
  <2>1. /\ pc = "add" /\ pc' = "next" /\ item' = Append(item, [node |-> cur, cr3 |-> cr3v])
        /\ UNCHANGED <<user, linked, whead, cr3, since, steady>>
    BY <1>10 DEF AddItem
  <2>2. \A i \in 1..Len(item') :
          \/ i \in 1..Len(item) /\ item'[i] = item[i]
          \/ item'[i] = [node |-> cur, cr3 |-> cr3v]
    <3>1. item \in Seq([node : Nodes \cup Heads, cr3 : Tasks \cup {NULL, Junk}])
      BY DEF TypeInv, TypeOK
    <3> HIDE ListAssumption
    <3> QED
      BY SMTT(30), <2>1, <3>1, AppendAt
  <2>3. whead = init_task =>
          \A i \in 1..Len(item') : item'[i].node \in steady => item'[i].cr3 # NULL
    <3>1. whead = init_task =>
            /\ cur \in steady => cr3v # NULL
            /\ \A i \in 1..Len(item) : item[i].node \in steady => item[i].cr3 # NULL
      BY <2>1 DEF SteadyInv
    <3> HIDE ListAssumption
    <3> QED
      BY <2>2, <3>1
  <2> QED
    BY <2>1, <2>3 DEF SteadyInv, Walking, Complete
<1>11. CASE LoadNext
  <2>1. /\ pc = "next" /\ UNCHANGED <<user, linked, cmd, whead, cr3, item, since, steady>>
        /\ pc' \in {"mm", "trans", "print", "find"} \/ (pc' = "add" /\ whead # init_task)
        /\ pc' = "find" => whead = init_task /\ cmd # "list_tasks" /\ pos' = hnext[0]
        /\ pc' = "print" => whead # init_task \/ cmd = "list_tasks"
        /\ pc' = "trans" => whead # init_task
    BY <1>11 DEF LoadNext, WalkDone, TypeInv, TypeOK, Heads
  <2>2. ASSUME pc' = "find" PROVE \A i \in 1..Len(item) : pos' # 0 /\ ~(i < pos')
    <3>1. cmd # "ifconfig" /\ Walking /\ Len(item) \in Nat
      BY SMTT(30), <2>1, <2>2 DEF HostInv, Walking, TypeInv, TypeOK
    <3>2. CASE item = <<>>
      BY <3>2
    <3>3. CASE item # <<>>
      <4>1. hnext[0] = 1
        BY <3>1, <3>3 DEF HostInv, Chain
      <4> QED
        BY SMTT(30), <2>1, <2>2, <3>1, <4>1
    <3> QED
      BY <3>2, <3>3
  <2>3. Walking
    BY <2>1 DEF Walking
  <2> QED
    BY <2>1, <2>2, <2>3 DEF SteadyInv, Walking, Complete
<1>12. CASE PrintItems
  BY <1>12 DEF PrintItems, EndWalk, SteadyInv, Walking, Complete
<1>13. CASE FindCr3
  <2>1. /\ pc = "find" /\ UNCHANGED <<user, linked, cmd, whead, item, steady>> /\ cr3 = NULL
        /\ cmd # "ifconfig" /\ pos \in 0..Len(item) /\ Len(item) \in Nat
        /\ whead = init_task /\ cmd # "list_tasks"
    <3>1. pc = "find" /\ UNCHANGED <<user, linked, cmd, whead, item>>
      BY <1>13 DEF FindCr3
    <3>2. steady' = steady
      BY <1>13 DEF FindCr3, EndWalk
    <3>3. cmd # "ifconfig" /\ pos \in 0..Len(item) /\ Len(item) \in Nat
      BY SMTT(30), <3>1 DEF HostInv, TypeInv, TypeOK
    <3> QED
      BY <3>1, <3>2, <3>3 DEF SteadyInv
  <2>2. CASE pos # 0 /\ item[pos].cr3 = NULL
    <3>1. pc' = "find" /\ pos' = hnext[pos] /\ UNCHANGED <<cr3, since, reused>>
      BY <1>13, <2>2 DEF FindCr3
    <3>2. hnext[pos] = IF pos = Len(item) THEN 0 ELSE pos + 1
      <4>1. item # <<>> /\ Complete
        BY SMTT(30), <2>1, <2>2 DEF Complete
      <4> QED
        BY SMTT(30), <2>1, <2>2, <4>1 DEF HostInv, Chain
    <3>3. \A i \in 1..Len(item) : pos' = 0 \/ i < pos' => item[i].cr3 = NULL
      <4>1. \A i \in 1..Len(item) : i < pos => item[i].cr3 = NULL
        BY <2>1 DEF SteadyInv
      <4> QED
        BY SMTT(30), <2>1, <2>2, <3>1, <3>2, <4>1
    <3> QED
      BY <2>1, <3>1, <3>3 DEF SteadyInv, Walking, Complete
  <2>3. CASE ~(pos # 0 /\ item[pos].cr3 = NULL)
    <3>1. /\ pc' = "free" /\ cr3' = (IF pos = 0 THEN cr3 ELSE item[pos].cr3)
          /\ UNCHANGED reused
      BY <1>13, <2>3 DEF FindCr3, EndWalk
    <3>2. ASSUME ~reused, steady # {}, pos = 0 PROVE FALSE
      <4>1. PICK t \in steady : t \in Listed
        BY <2>1, <3>2 DEF ListedRight, Complete, SteadyInv
      <4>2. PICK i \in 1..Len(item) : item[i].node = t
        BY <4>1 DEF Listed
      <4> QED
        BY <2>1, <3>2, <4>1, <4>2 DEF SteadyInv
    <3> QED
      BY <2>1, <2>3, <3>1, <3>2 DEF SteadyInv, Walking, Complete
  <2> QED
    BY <2>2, <2>3
<1>14. CASE FreeItem /\ ~Leave("wild")
  BY SMTT(30), <1>14 DEF FreeItem, SteadyInv, Walking, Complete
<1>15. CASE FreeDone /\ ~Leave("idle")
  BY <1>15 DEF FreeDone, SteadyInv, Walking, Complete
<1>16. CASE UseCr3 /\ ~Leave("idle") /\ ~Leave("wild")
  BY <1>16 DEF UseCr3, BeginWalk, SteadyInv, Walking, Complete
<1>17. CASE UNCHANGED vars
  BY <1>17 DEF vars, SteadyInv, Walking, Complete
<1> QED
  BY <1>2, <1>3, <1>4, <1>5, <1>6, <1>7, <1>8, <1>9, <1>10, <1>11, <1>12, <1>13, <1>14,
     <1>15,
     <1>16, <1>17
     DEF Next, GuestNext, HostNext, WalkNext, ListNext, ReadFreed, Stopped

\* Leaving a command, or starting one, leaves no page table behind.
LEMMA Cr3Fresh ==
  ASSUME cr3v' = NULL, cr3' = NULL, item' = <<>>, exited' = FALSE,
         pc' \in {"idle", "wild", "mm"}, whead' # modules
  PROVE  Cr3Inv'
<1>1. \A i \in 1..Len(item') : FALSE
  OBVIOUS
<1> QED
  BY <1>1 DEF Cr3Inv

\* Every step keeps what is known of the page tables a command holds.
LEMMA Cr3Next ==
  ASSUME TypeInv, HostInv, Cr3Inv, [Next]_vars PROVE Cr3Inv'
<1> USE DEF guestVars, hostVars, ghostVars
<1>1. ASSUME NEW n \in Nodes, Link(n) \/ Unlink(n) \/ Free(n) PROVE Cr3Inv'
  <2>1. user \subseteq user' /\ UNCHANGED <<pc, whead, cur, cr3v, cr3, item, exited>>
    BY <1>1 DEF Link, Unlink, Free
  <2> QED
    BY <2>1 DEF Cr3Inv, Walking
<1>2. ASSUME NEW n \in Nodes, ExitMm(n) PROVE Cr3Inv'
  <2>1. UNCHANGED <<pc, whead, cur, cr3v, cr3, item>> /\ exited' = (pc # "idle")
    BY <1>2 DEF ExitMm
  <2>2. CASE pc = "idle"
    <3>1. pc' = "idle" /\ cr3v' = NULL /\ cr3' = NULL /\ item' = <<>> /\ exited' = FALSE
      BY <2>1, <2>2 DEF Cr3Inv
    <3>2. \A i \in 1..Len(item') : FALSE
      BY <3>1
    <3> QED
      BY <3>1, <3>2 DEF Cr3Inv, Walking
  <2>3. CASE pc # "idle"
    <3>1. exited'
      BY <2>1, <2>3
    <3> QED
      BY <2>1, <2>3, <3>1 DEF Cr3Inv, Walking
  <2> QED
    BY <2>2, <2>3
<1>3. ASSUME NEW p \in {"idle", "wild"}, Leave(p) PROVE Cr3Inv'
  BY <1>3, Cr3Fresh, ListAssumption DEF Leave
<1>4. ASSUME NEW c, StartTraverse(c) PROVE Cr3Inv'
  BY <1>4, Cr3Fresh, ListAssumption DEF StartTraverse, BeginWalk
<1>5. CASE StartDevices
  BY <1>5, ListAssumption DEF StartDevices, BeginWalk, Cr3Inv, Walking
<1>6. CASE LoadMm
  BY <1>6 DEF LoadMm, Cr3Inv, Walking
<1>7. CASE LoadPgd
  BY <1>7 DEF LoadPgd, Cr3Inv, Walking
<1>8. CASE TransModule /\ ~Leave("wild")
  BY <1>8 DEF TransModule, Cr3Inv, Walking
<1>9. CASE AddItem
  <2>1. /\ pc = "add" /\ pc' = "next" /\ item' = Append(item, [node |-> cur, cr3 |-> cr3v])
        /\ UNCHANGED <<user, whead, cur, cr3v, cr3, exited>>
    BY <1>9 DEF AddItem
  <2>2. \A i \in 1..Len(item') :
          \/ i \in 1..Len(item) /\ item'[i] = item[i]
          \/ item'[i] = [node |-> cur, cr3 |-> cr3v]
    <3>1. item \in Seq([node : Nodes \cup Heads, cr3 : Tasks \cup {NULL, Junk}])
      BY DEF TypeInv, TypeOK
    <3> QED
      BY SMTT(30), <2>1, <3>1, AppendAt
  <2>3. ~exited => \A i \in 1..Len(item') : item'[i].cr3 \in user \cup {NULL}
    BY SMTT(30), <2>1, <2>2 DEF Cr3Inv
  <2> QED
    BY <2>1, <2>3 DEF Cr3Inv, Walking
<1>10. CASE LoadNext
  <2>1. /\ pc = "next" /\ UNCHANGED <<user, whead, cr3v, cr3, item, exited>>
        /\ pc' \notin {"idle", "pgd"} /\ (pc' = "trans" => whead = modules)
    BY <1>10 DEF LoadNext, WalkDone, TypeInv, TypeOK, Heads
  <2> QED
    BY <2>1 DEF Cr3Inv, Walking
<1>11. CASE PrintItems
  BY <1>11 DEF PrintItems, EndWalk, Cr3Inv, Walking
<1>12. CASE FindCr3
  <2>1. /\ pc = "find" /\ pc' \in {"find", "free"}
        /\ UNCHANGED <<user, whead, cur, cr3v, item, exited>>
        /\ pos \in 0..Len(item) /\ Len(item) \in Nat
    BY SMTT(30), <1>12 DEF FindCr3, EndWalk, HostInv, TypeInv, TypeOK
  <2>2. cr3' = cr3 \/ (pos # 0 /\ cr3' = item[pos].cr3)
    BY <1>12 DEF FindCr3
  <2> QED
    BY SMTT(30), <2>1, <2>2 DEF Cr3Inv, Walking
<1>13. CASE FreeItem /\ ~Leave("wild")
  BY SMTT(30), <1>13 DEF FreeItem, Cr3Inv, Walking
<1>14. CASE FreeDone /\ ~Leave("idle")
  BY <1>14 DEF FreeDone, Cr3Inv, Walking
<1>15. CASE UseCr3 /\ ~Leave("idle") /\ ~Leave("wild")
  BY SMTT(30), <1>15 DEF UseCr3, BeginWalk, Cr3Inv, Walking
<1>16. CASE UNCHANGED vars
  BY <1>16 DEF vars, Cr3Inv, Walking
<1> QED
  BY ZenonT(30), <1>1, <1>2, <1>3, <1>4, <1>5, <1>6, <1>7, <1>8, <1>9, <1>10, <1>11,
     <1>12, <1>13, <1>14,
     <1>15, <1>16
     DEF Next, GuestNext, HostNext, WalkNext, ListNext, ReadFreed, Stopped

-----------------------------------------------------------------------------
(* The length of a walk.  Every object that is linked at a tail gets a     *)
(* number higher than all before, a new one each time.  So next leads to a *)
(* higher number from whatever object and whenever it is loaded, be that   *)
(* object unlinked, and the one it leads to linked for the second time.    *)

\* Where a walk is: the heads come before every object.
Place(ord, n) == IF n \in Heads THEN 0 ELSE ord[n]

\* next stays on its list and leads ahead.
Ahead(ord) ==
  /\ \A n \in Nodes : ord[n] <= births
  /\ \A n \in Nodes \cup Heads : gnext[n] # NULL => LH(gnext[n]) = LH(n)
  /\ \A n \in Nodes \cup Heads :
       gnext[n] \in Nodes \ Mods => Place(ord, n) < ord[gnext[n]]

\* A walk has made no more rounds than the number it has come to.
Rounds(ord) ==
  whead # modules =>
    /\ Walking => LH(cur) = whead
    /\ Walking /\ pc # "next" => Len(item) <= Place(ord, cur)
    /\ pc = "next" => Len(item) <= Place(ord, cur) + 1
    /\ Len(item) <= births + 1

BoundInv == \E ord \in [Nodes -> Nat] : Ahead(ord) /\ Rounds(ord)

\* The lists of the modules and of the others are apart.
LEMMA ListsApart ==
  /\ \A n \in Nodes : LH(n) = modules <=> n \in Mods
  /\ \A n \in Nodes \cup Heads : LH(n) \in Heads /\ (n = LH(n) <=> n \in Heads)
BY HeadsAndNodes, ListAssumption DEF HeadOf, Nodes, Heads

\* Linking gives the object the highest number.
LEMMA AheadLink ==
  ASSUME TypeInv, NEW n \in Nodes, Link(n), NEW o \in [Nodes -> Nat], Ahead(o),
         NEW b \in Nat, b = births + 1
  PROVE  Ahead([o EXCEPT ![n] = b])'
<1> DEFINE p == [o EXCEPT ![n] = b]
<1>1. PICK prev \in OnList(HeadOf(n)) \cup {HeadOf(n)} :
        /\ IF n \in Mods THEN prev = modules ELSE gnext[prev] = HeadOf(n)
        /\ gnext' = [gnext EXCEPT ![prev] = n, ![n] = gnext[prev]]
  BY DEF Link
<1>2. /\ n \notin linked /\ births' = births + 1 /\ births \in Nat
      /\ linked \subseteq Nodes
      /\ gnext \in [Nodes \cup Heads -> Nodes \cup Heads \cup {NULL}]
  <2>1. n \notin linked /\ births' = births + 1
    BY DEF Link, TypeInv
  <2> QED
    BY <2>1, Typed
<1>3. /\ prev \in Nodes \cup Heads /\ prev # n /\ LH(prev) = HeadOf(n) /\ LH(n) = HeadOf(n)
      /\ HeadOf(n) \in Heads /\ prev \in linked \cup Heads
  BY <1>2, HeadsAndNodes DEF OnList
<1>4. gnext[prev] # NULL
  BY <1>3 DEF TypeInv
<1>5. \A m \in Nodes \cup Heads :
        gnext'[m] = IF m = n THEN gnext[prev] ELSE IF m = prev THEN n ELSE gnext[m]
  BY <1>1, <1>2, <1>3
<1>6. \A m \in Nodes : p[m] \in Nat /\ p[m] = IF m = n THEN births + 1 ELSE o[m]
  OBVIOUS
<1>7. \A m \in Nodes : o[m] <= births /\ o[m] \in Nat
  BY DEF Ahead
<1> HIDE DEF p
<1>8. \A m \in Nodes : p[m] <= births'
  BY SMTT(30), <1>2, <1>6, <1>7
<1>9. \A m \in Nodes \cup Heads : gnext[m] # NULL => LH(gnext[m]) = LH(m)
  BY DEF Ahead
<1>10. \A m \in Nodes \cup Heads : gnext'[m] # NULL => LH(gnext'[m]) = LH(m)
  BY <1>3, <1>4, <1>5, <1>9
<1>11. ASSUME NEW m \in Nodes \cup Heads, gnext'[m] \in Nodes \ Mods
       PROVE  Place(p, m) < p[gnext'[m]]
  <2>1. CASE gnext'[m] = n
    <3>1. m # n
      <4>1. gnext'[n] = gnext[prev] /\ (n \notin Mods => gnext[prev] = HeadOf(n))
        BY <1>1, <1>5
      <4>2. n \notin Mods => HeadOf(n) # n
        BY <1>3, HeadsAndNodes
      <4> QED
        BY <1>11, <2>1, <4>1, <4>2
    <3>2. p[n] = births + 1
      BY <1>6
    <3>3. m \notin Heads => m \in Nodes /\ p[m] = o[m]
      BY <1>6, <3>1
    <3> QED
      BY SMTT(30), <1>2, <1>7, <2>1, <3>2, <3>3 DEF Place
  <2>2. CASE gnext'[m] # n
    <3>1. m # n
      <4>1. LH(gnext'[m]) # modules
        BY <1>11, ListsApart
      <4>2. m = n => n \notin Mods
        BY <1>3, <1>4, <1>5, <1>9, <4>1, ListsApart
      <4>3. HeadOf(n) \notin Nodes
        BY HeadsAndNodes
      <4> QED
        BY <1>1, <1>5, <1>11, <4>2, <4>3
    <3>2. m # prev /\ gnext'[m] = gnext[m]
      BY <1>5, <2>2, <3>1
    <3>3. Place(o, m) < o[gnext[m]]
      BY <1>11, <3>2 DEF Ahead
    <3>4. Place(p, m) = Place(o, m) /\ p[gnext[m]] = o[gnext[m]]
      BY <1>6, <1>11, <2>2, <3>1, <3>2 DEF Place
    <3> QED
      BY <3>2, <3>3, <3>4
  <2> QED
    BY <2>1, <2>2
<1>12. Ahead(p)'
  BY <1>8, <1>10, <1>11 DEF Ahead, Heads, Nodes
<1> QED
  BY <1>12 DEF p

\* Unlinking leads past an object, to a yet higher number.
LEMMA AheadUnlink ==
  ASSUME TypeInv, NEW n \in Nodes, Unlink(n), NEW o \in [Nodes -> Nat], Ahead(o)
  PROVE  Ahead(o)'
<1>1. PICK prev \in OnList(HeadOf(n)) \cup {HeadOf(n)} :
        gnext[prev] = n /\ gnext' = [gnext EXCEPT ![prev] = gnext[n]]
  BY DEF Unlink
<1>2. /\ births' = births /\ n \in linked /\ linked \subseteq Nodes
      /\ gnext \in [Nodes \cup Heads -> Nodes \cup Heads \cup {NULL}]
  BY DEF Unlink, TypeInv, TypeOK
<1>3. /\ prev \in Nodes \cup Heads /\ LH(n) = HeadOf(n) /\ n \notin Heads
      /\ gnext[n] # NULL /\ n # NULL
  <2>1. gnext[n] # NULL
    BY <1>2 DEF TypeInv
  <2>2. n # NULL
    BY ListAssumption
  <2> QED
    BY ZenonT(30), <1>2, <2>1, <2>2, HeadsAndNodes DEF OnList
<1>4. \A m \in Nodes \cup Heads : gnext'[m] = IF m = prev THEN gnext[n] ELSE gnext[m]
  BY <1>1, <1>2, <1>3
<1>5. /\ \A m \in Nodes : o[m] <= births
      /\ \A m \in Nodes \cup Heads : gnext[m] # NULL => LH(gnext[m]) = LH(m)
      /\ \A m \in Nodes \cup Heads :
           gnext[m] \in Nodes \ Mods => Place(o, m) < o[gnext[m]]
  BY DEF Ahead
<1>6. LH(gnext[n]) = LH(n) /\ LH(prev) = LH(n)
  BY <1>1, <1>3, <1>5
<1>7. \A m \in Nodes \cup Heads : gnext'[m] # NULL => LH(gnext'[m]) = LH(m)
  BY <1>4, <1>5, <1>6
<1>8. gnext[n] \in Nodes \ Mods => Place(o, prev) < o[gnext[n]]
  <2> SUFFICES ASSUME gnext[n] \in Nodes \ Mods PROVE Place(o, prev) < o[gnext[n]]
    OBVIOUS
  <2>1. n \in Nodes \ Mods
    BY <1>6, ListsApart
  <2>2. Place(o, prev) < o[n] /\ Place(o, n) < o[gnext[n]]
    BY <1>1, <1>3, <1>5, <2>1
  <2>3. Place(o, n) = o[n]
    BY <1>3 DEF Place
  <2>4. Place(o, prev) \in Nat /\ o[n] \in Nat /\ o[gnext[n]] \in Nat
    BY <1>3 DEF Place
  <2> QED
    BY SMTT(30), <2>2, <2>3, <2>4
<1>9. \A m \in Nodes \cup Heads :
        gnext'[m] \in Nodes \ Mods => Place(o, m) < o[gnext'[m]]
  BY <1>4, <1>5, <1>8
<1> QED
  BY <1>2, <1>5, <1>7, <1>9 DEF Ahead, Heads, Nodes

\* The guest's steps do not move the walk, and its place not down.
LEMMA RoundsGuest ==
  ASSUME NEW o \in [Nodes -> Nat], NEW p \in [Nodes -> Nat], Rounds(o),
         \A m \in Nodes : o[m] <= p[m],
         births \in Nat, births' \in Nat, births <= births',
         Len(item) \in Nat, cur \in Nodes \cup Heads,
         UNCHANGED <<whead, pc, cur, item>>
  PROVE  Rounds(p)'
<1>1. Place(o, cur) \in Nat /\ Place(p, cur) \in Nat /\ Place(o, cur) <= Place(p, cur)
  BY DEF Place
<1>2. Walking' <=> Walking
  BY DEF Walking
<1>3. ASSUME whead # modules
      PROVE  /\ Walking => LH(cur) = whead
             /\ Walking /\ pc # "next" => Len(item) <= Place(p, cur)
             /\ pc = "next" => Len(item) <= Place(p, cur) + 1
             /\ Len(item) <= births' + 1
  <2>1. /\ Walking => LH(cur) = whead
        /\ Walking /\ pc # "next" => Len(item) <= Place(o, cur)
        /\ pc = "next" => Len(item) <= Place(o, cur) + 1
        /\ Len(item) <= births + 1
    BY <1>3 DEF Rounds
  <2> QED
    BY <1>1, <2>1
<1> QED
  BY <1>1, <1>2, <1>3 DEF Rounds, Place, Heads

\* At first nothing is linked.
LEMMA BoundInit == Init => BoundInv
<1> SUFFICES ASSUME Init PROVE BoundInv
  OBVIOUS
<1> DEFINE o == [n \in Nodes |-> 0]
<1>1. o \in [Nodes -> Nat]
  OBVIOUS
<1>2. \A n \in Nodes \cup Heads : gnext[n] = IF n \in Heads THEN n ELSE NULL
  BY DEF Init
<1>3. Ahead(o)
  <2>1. \A n \in Nodes \cup Heads : gnext[n] # NULL => LH(gnext[n]) = LH(n) /\ gnext[n] \notin Nodes
    BY ZenonT(30), <1>2, HeadsAndNodes
  <2>2. births = 0
    BY DEF Init
  <2> QED
    BY <1>2, <2>1, <2>2, ListAssumption DEF Ahead
<1>4. Rounds(o)
  <2>1. ~Walking /\ pc # "next" /\ item = <<>> /\ births = 0
    BY DEF Init, Walking
  <2>2. Len(item) <= births + 1
    BY <2>1
  <2> QED
    BY <2>1, <2>2 DEF Rounds
<1> QED
  BY <1>1, <1>3, <1>4 DEF BoundInv

\* The steps of the commands.
LEMMA RoundsHost ==
  ASSUME TypeInv, NEW o \in [Nodes -> Nat], Ahead(o), Rounds(o), UNCHANGED <<gnext, births>>,
         \/ whead' = modules
         \/ item' = <<>> /\ ~Walking' /\ pc' # "next"
         \/ item' = <<>> /\ LH(cur') = whead' /\ pc' # "next" /\ cur' \in Nodes \cup Heads
         \/ UNCHANGED <<whead, item>> /\ ~Walking' /\ pc' # "next"
         \/ UNCHANGED <<whead, cur, item>> /\ Walking /\ pc # "next" /\ pc' # "next"
         \/ AddItem
         \/ LoadNext
  PROVE  Rounds(o)'
<1> DEFINE P(n) == Place(o, n)
<1>1. births \in Nat /\ cur \in Nodes \cup Heads /\ Len(item) \in Nat
  BY Typed
<1>2. \A n \in Nodes \cup Heads : P(n) \in Nat /\ P(n) <= births
  BY SMTT(30), <1>1 DEF Ahead, Place
<1> HIDE DEF P
<1> SUFFICES ASSUME whead' # modules
             PROVE  /\ Walking' => LH(cur') = whead'
                    /\ Walking' /\ pc' # "next" => Len(item') <= P(cur')
                    /\ pc' = "next" => Len(item') <= P(cur') + 1
                    /\ Len(item') <= births + 1
  BY DEF Rounds, P, Place, LH, HeadOf, Heads
<1>3. CASE item' = <<>> /\ ~Walking' /\ pc' # "next"
  BY <1>1, <1>3
<1>4. CASE item' = <<>> /\ LH(cur') = whead' /\ pc' # "next" /\ cur' \in Nodes \cup Heads
  <2>1. Len(item') = 0 /\ P(cur') \in Nat
    BY <1>2, <1>4
  <2> QED
    BY SMTT(30), <1>1, <1>4, <2>1
<1>5. ASSUME whead' = whead
      PROVE  /\ Walking => LH(cur) = whead
             /\ Walking /\ pc # "next" => Len(item) <= P(cur)
             /\ pc = "next" => Len(item) <= P(cur) + 1
             /\ Len(item) <= births + 1
  BY <1>5 DEF Rounds, P
<1>6. CASE UNCHANGED <<whead, item>> /\ ~Walking' /\ pc' # "next"
  BY <1>5, <1>6
<1>7. CASE UNCHANGED <<whead, cur, item>> /\ Walking /\ pc # "next" /\ pc' # "next"
  BY <1>5, <1>7
<1>8. CASE AddItem
  <2>1. pc = "add" /\ pc' = "next" /\ UNCHANGED <<whead, cur>> /\ Len(item') = Len(item) + 1
    BY <1>8, AddItemIs
  <2>2. Walking
    BY <2>1 DEF Walking
  <2>3. LH(cur) = whead /\ Len(item) <= P(cur) /\ P(cur) <= births /\ P(cur) \in Nat
    BY <1>1, <1>2, <1>5, <2>1, <2>2
  <2> QED
    BY SMTT(30), <1>1, <2>1, <2>3
<1>9. CASE LoadNext
  <2>1. pc = "next" /\ cur' = gnext[cur] /\ UNCHANGED <<whead, item>>
    BY <1>9 DEF LoadNext
  <2>2. Walking
    BY <2>1 DEF Walking
  <2>3. LH(cur) = whead /\ Len(item) <= P(cur) + 1 /\ Len(item) <= births + 1
    BY <1>5, <2>1, <2>2
  <2>4. cur' \in Nodes \cup Heads /\ LH(cur') = whead
    BY <1>1, <2>1, <2>3 DEF TypeInv, TypeOK, Ahead
  <2>5. CASE cur' = whead
    <3>1. ~Walking' /\ pc' # "next"
      BY <1>9, <2>5 DEF LoadNext, WalkDone, Walking
    <3> QED
      BY <2>1, <2>3, <3>1
  <2>6. CASE cur' # whead
    <3>1. cur' \in Nodes \ Mods /\ cur' \notin Heads
      BY <2>1, <2>4, <2>6, ListsApart
    <3>2. P(cur) < P(cur')
      BY <1>1, <2>1, <3>1 DEF Ahead, P, Place
    <3>3. P(cur) \in Nat /\ P(cur') \in Nat
      BY <1>1, <1>2, <2>4
    <3>4. Len(item) <= P(cur')
      BY SMTT(30), <1>1, <2>3, <3>2, <3>3
    <3>5. pc' # "next"
      BY <1>9, <2>1, <2>6 DEF LoadNext, TypeInv, TypeOK, Heads
    <3> QED
      BY <2>1, <2>3, <2>4, <3>4, <3>5
  <2> QED
    BY <2>5, <2>6
<1> QED
  BY <1>3, <1>4, <1>6, <1>7, <1>8, <1>9

\* Every step of a command is one of these.
LEMMA BoundHost ==
  ASSUME TypeInv, NEW o \in [Nodes -> Nat], Ahead(o), Rounds(o),
         \/ \E c \in Commands \ {"ifconfig"} : StartTraverse(c)
         \/ StartDevices
         \/ HostNext
  PROVE  Ahead(o)' /\ Rounds(o)'
<1> DEFINE Kind == \/ whead' = modules
                   \/ item' = <<>> /\ ~Walking' /\ pc' # "next"
                   \/ /\ item' = <<>> /\ LH(cur') = whead' /\ pc' # "next"
                      /\ cur' \in Nodes \cup Heads
                   \/ UNCHANGED <<whead, item>> /\ ~Walking' /\ pc' # "next"
                   \/ UNCHANGED <<whead, cur, item>> /\ Walking /\ pc # "next" /\ pc' # "next"
                   \/ AddItem
                   \/ LoadNext
<1>1. ASSUME NEW c \in Commands, StartTraverse(c) PROVE UNCHANGED <<gnext, births>> /\ Kind
  <2>1. /\ UNCHANGED <<gnext, births>> /\ item' = <<>> /\ cur' = init_task
        /\ whead' = init_task /\ pc' = "mm"
    BY <1>1 DEF StartTraverse, BeginWalk, guestVars
  <2>2. init_task \in Heads /\ LH(init_task) = init_task
    BY HeadsAndNodes DEF Heads
  <2> QED
    BY <2>1, <2>2
<1>2. ASSUME StartDevices PROVE UNCHANGED <<gnext, births>> /\ Kind
  <2>1. /\ UNCHANGED <<gnext, births>> /\ item' = <<>> /\ cur' = gnext[dev_base_head]
        /\ whead' = dev_base_head /\ pc' = "add"
    BY <1>2 DEF StartDevices, BeginWalk, guestVars
  <2>2. dev_base_head \in Heads /\ LH(dev_base_head) = dev_base_head
    BY HeadsAndNodes DEF Heads
  <2>3. gnext[dev_base_head] # NULL
    BY <2>2 DEF TypeInv
  <2>4. gnext[dev_base_head] \in Nodes \cup Heads
    BY <2>2, <2>3 DEF TypeInv, TypeOK
  <2>5. LH(gnext[dev_base_head]) = dev_base_head
    BY <2>2, <2>3 DEF Ahead
  <2> QED
    BY <2>1, <2>4, <2>5
<1>3. ASSUME NEW p \in {"idle", "wild"}, Leave(p)
      PROVE  UNCHANGED <<gnext, births>> /\ Kind
  BY <1>3 DEF Leave, guestVars, Walking
<1>4. ASSUME WalkNext PROVE UNCHANGED <<gnext, births>> /\ Kind
  <2>1. CASE ReadFreed
    BY <1>3, <2>1 DEF ReadFreed
  <2>2. CASE LoadMm
    BY <2>2 DEF LoadMm, guestVars, Walking
  <2>3. CASE LoadPgd
    BY <2>3 DEF LoadPgd, guestVars, Walking
  <2>4. CASE TransModule
    <3>1. CASE Leave("wild")
      BY <1>3, <3>1
    <3>2. CASE ~Leave("wild")
      BY <2>4, <3>2 DEF TransModule, guestVars, Walking
    <3> QED
      BY <3>1, <3>2
  <2>5. CASE AddItem
    BY <2>5 DEF AddItem, guestVars
  <2>6. CASE LoadNext
    BY <2>6 DEF LoadNext, guestVars
  <2> QED
    BY <1>4, <2>1, <2>2, <2>3, <2>4, <2>5, <2>6 DEF WalkNext
<1>5. ASSUME ListNext PROVE UNCHANGED <<gnext, births>> /\ Kind
  <2>1. CASE PrintItems
    BY <2>1 DEF PrintItems, guestVars, Walking
  <2>2. CASE FindCr3
    BY <2>2 DEF FindCr3, guestVars, Walking
  <2>3. CASE FreeItem
    <3>1. CASE Leave("wild")
      BY <1>3, <3>1
    <3>2. CASE ~Leave("wild")
      BY <2>3, <3>2 DEF FreeItem, guestVars, Walking
    <3> QED
      BY <3>1, <3>2
  <2>4. CASE FreeDone
    <3>1. CASE Leave("idle")
      BY <1>3, <3>1
    <3>2. CASE ~Leave("idle")
      BY <2>4, <3>2 DEF FreeDone, guestVars, Walking
    <3> QED
      BY <3>1, <3>2
  <2>5. CASE UseCr3
    <3>1. CASE Leave("idle") \/ Leave("wild")
      BY <1>3, <3>1
    <3>2. CASE ~Leave("idle") /\ ~Leave("wild")
      BY <2>5, <3>2 DEF UseCr3, BeginWalk, guestVars
    <3> QED
      BY <3>1, <3>2
  <2> QED
    BY <1>5, <2>1, <2>2, <2>3, <2>4, <2>5 DEF ListNext
<1>6. UNCHANGED <<gnext, births>> /\ Kind
  <2> HIDE DEF Kind
  <2>1. ASSUME \E c \in Commands \ {"ifconfig"} : StartTraverse(c)
        PROVE  UNCHANGED <<gnext, births>> /\ Kind
    <3>1. PICK c \in Commands : StartTraverse(c)
      BY <2>1
    <3> QED
      BY <1>1, <3>1
  <2> QED
    BY <1>2, <1>4, <1>5, <2>1 DEF HostNext
<1>7. Rounds(o)'
  BY <1>6, RoundsHost
<1>8. Ahead(o)'
  BY <1>6 DEF Ahead, Heads, Nodes
<1> QED
  BY <1>7, <1>8

\* Every step keeps some numbering.
LEMMA BoundNext == ASSUME TypeInv, TypeInv', BoundInv, [Next]_vars PROVE BoundInv'
<1>1. PICK o \in [Nodes -> Nat] : Ahead(o) /\ Rounds(o)
  BY DEF BoundInv
<1>2. births \in Nat /\ births' \in Nat /\ Len(item) \in Nat /\ cur \in Nodes \cup Heads
  <2>1. births \in Nat /\ Len(item) \in Nat /\ cur \in Nodes \cup Heads
    BY Typed
  <2>2. births' \in Nat
    BY SMTT(30) DEF TypeInv, TypeOK
  <2> QED
    BY <2>1, <2>2
<1>3. SUFFICES \E p \in [Nodes -> Nat] : Ahead(p)' /\ Rounds(p)'
  BY DEF BoundInv, Nodes
<1>4. ASSUME NEW n \in Nodes, Link(n) PROVE \E p \in [Nodes -> Nat] : Ahead(p)' /\ Rounds(p)'
  <2>1. PICK b \in Nat : b = births + 1
    BY <1>2
  <2> DEFINE p == [o EXCEPT ![n] = b]
  <2>2. Ahead(p)'
    BY <1>1, <1>4, <2>1, AheadLink
  <2>3. p \in [Nodes -> Nat] /\ \A m \in Nodes : o[m] <= p[m]
    <3>1. o[n] <= births
      BY <1>1 DEF Ahead
    <3> QED
      BY SMTT(30), <1>2, <2>1, <3>1
  <2>4. births <= births' /\ UNCHANGED <<whead, pc, cur, item>>
    BY SMTT(30), <1>2, <1>4 DEF Link, hostVars, vars
  <2> HIDE DEF p
  <2>5. Rounds(p)'
    BY <1>1, <1>2, <2>3, <2>4, RoundsGuest
  <2> QED
    BY <2>2, <2>3, <2>5
<1>5. ASSUME UNCHANGED <<births, whead, pc, cur, item>>, Ahead(o)'
      PROVE  \E p \in [Nodes -> Nat] : Ahead(p)' /\ Rounds(p)'
  <2>1. births <= births' /\ \A m \in Nodes : o[m] <= o[m]
    BY <1>2, <1>5
  <2>2. Rounds(o)'
    BY <1>1, <1>2, <1>5, <2>1, RoundsGuest
  <2> QED
    BY <1>5, <2>2
<1>6. ASSUME UNCHANGED gnext, UNCHANGED births PROVE Ahead(o)'
  BY <1>1, <1>6 DEF Ahead, Heads, Nodes
<1>7. CASE pc # "wild" /\ GuestNext
  <2>1. PICK n \in Nodes : Link(n) \/ ExitMm(n) \/ Unlink(n) \/ Free(n)
    BY <1>7 DEF GuestNext
  <2>2. CASE Link(n)
    BY <1>4, <2>2
  <2>3. CASE ExitMm(n)
    BY <1>5, <1>6, <2>3 DEF ExitMm
  <2>4. CASE Unlink(n)
    <3>1. Ahead(o)'
      BY <1>1, <2>4, AheadUnlink
    <3> QED
      BY <1>5, <2>4, <3>1 DEF Unlink
  <2>5. CASE Free(n)
    BY <1>5, <1>6, <2>5 DEF Free
  <2> QED
    BY <2>1, <2>2, <2>3, <2>4, <2>5
<1>8. CASE UNCHANGED vars
  BY <1>5, <1>6, <1>8 DEF vars, guestVars
<1>9. CASE \/ \E c \in Commands \ {"ifconfig"} : StartTraverse(c)
           \/ StartDevices
           \/ HostNext
  BY <1>1, <1>9, BoundHost
<1> QED
  BY <1>7, <1>8, <1>9 DEF Next, Stopped

-----------------------------------------------------------------------------
(* The theorems.                                                           *)

\* The inductive invariant.
IInv ==
  /\ TypeInv
  /\ HostInv
  /\ OrderInv
  /\ ListedRight
  /\ SteadyInv
  /\ Cr3Inv

\* The initial state has it.
LEMMA InvInit == Init => IInv
<1> SUFFICES ASSUME Init PROVE IInv
  OBVIOUS
<1>1. ListedRight /\ SteadyInv /\ Cr3Inv
  BY SMTT(30) DEF Init, ListedRight, SteadyInv, Cr3Inv, Walking, Complete
<1> QED
  BY <1>1, TypeInit, HostInit, OrderInit DEF IInv

\* Every step of the guest and of a command keeps it.
LEMMA InvNext == ASSUME IInv, [Next]_vars PROVE IInv'
<1>1. pc = "find" /\ pos # 0 => pos \in 1..Len(item)
  <2>1. Len(item) \in Nat
    BY SMTT(30) DEF IInv, TypeInv, TypeOK
  <2> QED
    BY SMTT(30), <2>1 DEF IInv, HostInv
<1> QED
  BY <1>1, TypeNext, HostNextInv, OrderNext, SteadyNext, Cr3Next DEF IInv

\* It holds always.
LEMMA InvAlways == Spec => []IInv
BY InvInit, InvNext, PTL DEF Spec

\* No load or list operation of the commands takes a variable out of its set: in
\* particular no walk follows a NULL next field, however the guest's lists change.
THEOREM TypeCorrect == Spec => []TypeOK
<1>1. IInv => TypeOK
  BY DEF IInv, TypeInv
<1> QED
  BY <1>1, InvAlways, PTL

\* traverse_tasks, traverse_modules and print_net_device list what was on the
\* guest's list all the time, nothing that never was, and nothing twice.
THEOREM WalkComplete == Spec => []ListedRight
<1>1. IInv => ListedRight
  BY DEF IInv
<1> QED
  BY <1>1, InvAlways, PTL

\* traverse_tasks and print_net_device list no more than the objects that have
\* ever been linked and the head: objects linked behind the walk do not keep it
\* going for ever, and those it has passed are not met again.
THEOREM WalkShort == Spec => []WalkBounded
<1>1. ASSUME IInv, BoundInv PROVE WalkBounded
  BY <1>1 DEF BoundInv, Rounds, WalkBounded
<1>2. ASSUME IInv, IInv', BoundInv, [Next]_vars PROVE BoundInv'
  BY <1>2, BoundNext DEF IInv
<1>3. Spec => []BoundInv
  BY <1>2, BoundInit, InvAlways, PTL DEF Spec
<1> QED
  BY <1>1, <1>3, InvAlways, PTL

\* list_add_tail and list_del keep the host list a ring through the allocated
\* entries, in the order they were added.
THEOREM HostListCorrect == Spec => []HostListIntact
<1>1. IInv => HostListIntact
  <2> SUFFICES ASSUME IInv PROVE HostListIntact
    OBVIOUS
  <2>1. ASSUME EmptyList PROVE HostListIntact
    BY <2>1 DEF EmptyList, HostListIntact
  <2>2. ASSUME NEW a \in Nat, Chain(a) PROVE HostListIntact
    <3>1. /\ Len(item) \in Nat /\ a \in 1..Len(item) /\ live = a..Len(item)
      BY SMTT(30), <2>2 DEF Chain, IInv, TypeInv, TypeOK
    <3>2. /\ hnext[0] = a /\ hprev[0] = Len(item)
          /\ \A c \in a..Len(item) : /\ hnext[c] = IF c = Len(item) THEN 0 ELSE c + 1
                                     /\ hprev[c] = IF c = a THEN 0 ELSE c - 1
      BY <2>2 DEF Chain
    <3> DEFINE k == Len(item)
    <3> HIDE DEF k
    <3>3. \A c \in (a..k) \cup {0} :
            /\ hnext[c] \in (a..k) \cup {0} /\ hprev[hnext[c]] = c
            /\ hprev[c] \in (a..k) \cup {0} /\ hnext[hprev[c]] = c
      BY SMTT(30), <3>1, <3>2 DEF k
    <3>4. \A c \in a..k : hnext[c] # 0 => c < hnext[c]
      BY SMTT(30), <3>1, <3>2 DEF k
    <3> QED
      BY <3>1, <3>3, <3>4 DEF k, HostListIntact
  <2>3. pos \in Nat
    BY CellFacts DEF IInv, TypeInv, TypeOK
  <2>4. pc \in {"idle", "use", "wild", "free"} \/ Walking \/ Complete
    BY DEF IInv, TypeInv, TypeOK, Walking, Complete
  <2> QED
    BY <2>1, <2>2, <2>3, <2>4 DEF IInv, HostInv
<1> QED
  BY <1>1, InvAlways, PTL

\* The freeing loops of list_tasks, list_modules and get_hostname free every entry
\* of their list once, and none is left when they are through.
THEOREM FreeingCorrect == Spec => []FreedOnce
<1>1. IInv => FreedOnce
  <2> SUFFICES ASSUME IInv PROVE FreedOnce
    OBVIOUS
  <2>1. pc \in {"idle", "use"} => live = {}
    BY DEF IInv, HostInv, EmptyList
  <2>2. ASSUME pc = "free", pos # 0 PROVE pos \in live
    <3>1. cmd # "ifconfig" /\ Chain(pos) /\ Len(item) \in Nat
      BY SMTT(30), <2>2 DEF IInv, HostInv, TypeInv, TypeOK
    <3> QED
      BY SMTT(30), <3>1 DEF Chain
  <2> QED
    BY <2>1, <2>2 DEF FreedOnce
<1> QED
  BY <1>1, InvAlways, PTL

\* traverse_modules and get_hostname find a page table whenever some process has
\* been there all the time.
THEOREM PageTableCorrect == Spec => []PageTableFound
<1>1. IInv => PageTableFound
  <2> SUFFICES ASSUME IInv, pc = "use", ~reused, steady # {} PROVE cr3 # NULL
    BY DEF PageTableFound
  <2>1. whead = init_task /\ cmd # "list_tasks"
    BY DEF IInv, SteadyInv
  <2> QED
    BY <2>1 DEF IInv, SteadyInv
<1> QED
  BY <1>1, InvAlways, PTL

\* traverse_modules translates with the page table of an existing process, unless
\* a process has exited since the command began.
THEOREM Cr3Correct == Spec => []ValidCr3
<1>1. IInv => ValidCr3
  BY DEF IInv, Cr3Inv, ValidCr3, Walking
<1> QED
  BY <1>1, InvAlways, PTL

=============================================================================
