--------------------- MODULE CryptoPoolRefinementProofs ---------------------
(***************************************************************************)
(* The pool implements the safety part of CryptoService: every step of     *)
(* vCPU threads, kthreads and module thread is a step of the service or    *)
(* leaves it alone, for any number of vCPUs, kthreads and jobs.            *)
(***************************************************************************)
EXTENDS CryptoPoolRefinement, CryptoPoolProofs, Sequences, FiniteSetTheorems

USE ZenonT(10), SMTT(10)

-----------------------------------------------------------------------------
(* The list as a sequence.                                                 *)

\* A non-empty set of natural numbers has a least element.
LEMMA Least ==
  ASSUME NEW T \in SUBSET Nat, T # {}
  PROVE  \E m \in T : \A k \in T : m <= k
<1> DEFINE R == OpToRel(<, Nat)
<1>1. IsWellFoundedOn(R, Nat)
  BY NatLessThanWellFounded
<1>2. \A x, y \in Nat : <<y, x>> \in R <=> y < x
  BY DEF OpToRel
<1> HIDE DEF R
<1>3. PICK m \in T : \A k \in T : ~(<<k, m>> \in R)
  BY <1>1, WFMin
<1>4. \A k \in T : ~(k < m)
  BY <1>2, <1>3
<1>5. \A k \in T : m <= k
  BY SMTT(30), <1>4
<1> QED
  BY <1>5

\* Two chains that start with the same job and continue alike are the same.
LEMMA ChainsAgree ==
  ASSUME NEW n \in Nat, NEW q, NEW r,
         n > 0 => q[1] = r[1],
         \A i \in 1..(n - 1) : q[i] = r[i] => q[i + 1] = r[i + 1]
  PROVE  \A i \in 1..n : q[i] = r[i]
<1> DEFINE T == {i \in 1..n : q[i] # r[i]}
<1> SUFFICES ASSUME T # {} PROVE FALSE
  OBVIOUS
<1>1. T \in SUBSET Nat
  BY SMTT(10)
<1> HIDE DEF T
<1>2. PICK m \in T : \A k \in T : m <= k
  BY <1>1, Least
<1>3. m \in 1..n /\ q[m] # r[m]
  BY DEF T
<1>4. m # 1
  BY SMTT(30), <1>3
<1>5. m - 1 \in 1..(n - 1) /\ (m - 1) + 1 = m
  BY <1>3, <1>4
<1>6. m - 1 \notin T
  BY SMTT(30), <1>2, <1>5
<1>7. q[m - 1] = r[m - 1]
  BY SMTT(30), <1>5, <1>6 DEF T
<1> QED
  BY <1>3, <1>5, <1>7

\* A sequence is a function on an initial part of the naturals.
LEMMA SeqFunction == ASSUME NEW S, NEW s \in Seq(S) PROVE s \in [1..Len(s) -> S]
OBVIOUS

\* Functions on an initial part of the naturals as sequences.
LEMMA AppendIs ==
  ASSUME NEW S, NEW n \in Nat, NEW f \in [1..n -> S], NEW x \in S
  PROVE  Append(f, x) = [i \in 1..(n + 1) |-> IF i = n + 1 THEN x ELSE f[i]]
<1>1. f \in Seq(S) /\ Len(f) = n
  OBVIOUS
<1>2. Append(f, x) \in Seq(S) /\ Len(Append(f, x)) = n + 1
  BY <1>1
<1>3. \A i \in 1..(n + 1) : Append(f, x)[i] = IF i = n + 1 THEN x ELSE f[i]
  BY SMTT(30), <1>1
<1>4. Append(f, x) = [i \in 1..(n + 1) |-> Append(f, x)[i]]
  <2>1. Append(f, x) \in [1..(n + 1) -> S]
    BY <1>2, SeqFunction
  <2> QED
    BY <2>1
<1> QED
  BY <1>3, <1>4

\* The same for Head and Tail.
LEMMA TailIs ==
  \A S : \A n \in Nat : \A f \in [1..n -> S] : n > 0 =>
    f # <<>> /\ Head(f) = f[1] /\ Tail(f) = [i \in 1..(n - 1) |-> f[i + 1]]
<1> SUFFICES ASSUME NEW S, NEW n \in Nat, NEW f \in [1..n -> S], n > 0
             PROVE  /\ f # <<>> /\ Head(f) = f[1]
                    /\ Tail(f) = [i \in 1..(n - 1) |-> f[i + 1]]
  OBVIOUS
<1>1. f \in Seq(S) /\ Len(f) = n
  BY SMTT(30)
<1>2. f # <<>> /\ Head(f) = f[1]
  BY <1>1
<1>3. Tail(f) \in Seq(S) /\ Len(Tail(f)) = n - 1
  BY SMTT(30), <1>1, <1>2
<1>4. \A i \in 1..(n - 1) : Tail(f)[i] = f[i + 1]
  BY SMTT(30), <1>1, <1>2
<1>5. Tail(f) = [i \in 1..(n - 1) |-> Tail(f)[i]]
  <2>1. Tail(f) \in [1..(n - 1) -> S]
    BY <1>3, SeqFunction
  <2> QED
    BY <2>1
<1> QED
  BY <1>2, <1>4, <1>5

\* Cell follows the next fields.
LEMMA CellIs ==
  ASSUME NEW q, ListIs(q), Length \in Nat, NULL \notin Jobs
  PROVE  \A i \in 1..Length : Cell[i - 1] = q[i]
<1> DEFINE Follows(f) == f = [i \in Nat |-> IF i = 0 THEN cq.head
                                            ELSE IF f[i - 1] = NULL THEN NULL
                                                 ELSE job[f[i - 1]].next]
           g == [i \in Nat |-> IF i < Length THEN q[i + 1] ELSE NULL]
           c == [i \in 1..Length |-> Cell[i - 1]]
<1>1. Cell = CHOOSE f : Follows(f)
  BY DEF Cell
<1>2. Follows(g)
  <2>1. ASSUME NEW i \in Nat
        PROVE  g[i] = IF i = 0 THEN cq.head
                      ELSE IF g[i - 1] = NULL THEN NULL ELSE job[g[i - 1]].next
    BY SMTT(10), <2>1 DEF ListIs
  <2> QED
    BY <2>1
<1>3. Follows(Cell)
  <2> HIDE DEF Follows, g
  <2> QED
    BY ZenonT(30), <1>1, <1>2
<1>4. /\ Length > 0 => c[1] = q[1]
      /\ \A i \in 1..(Length - 1) : c[i] = q[i] => c[i + 1] = q[i + 1]
  BY SMTT(10), <1>3 DEF ListIs
<1>5. \A i \in 1..Length : c[i] = q[i]
  <2> DEFINE n == Length
  <2> HIDE DEF n, c
  <2>1. /\ n \in Nat /\ (n > 0 => c[1] = q[1])
        /\ \A i \in 1..(n - 1) : c[i] = q[i] => c[i + 1] = q[i + 1]
    BY <1>4 DEF n
  <2>2. \A i \in 1..n : c[i] = q[i]
    BY SMTT(10), <2>1, ChainsAgree
  <2> QED
    BY <2>2 DEF n
<1> QED
  BY <1>5

\* A job that a vCPU has belongs to it.
LEMMA OwnerIs ==
  OwnInv => \A v \in Vcpus : jv[v] \in Jobs => Owner(jv[v]) = v
<1> SUFFICES ASSUME OwnInv, NEW v \in Vcpus, jv[v] \in Jobs PROVE Owner(jv[v]) = v
  OBVIOUS
<1>1. \A w \in Vcpus : jv[w] = jv[v] => w = v
  BY PoolFacts
<1> QED
  BY <1>1 DEF Owner

\* What the list holds, and how many of its jobs are counted.
LEMMA ListFacts ==
  QInv => /\ cq.num \in Nat /\ Length \in Nat /\ cq.num <= Length
          /\ (\A v \in Vcpus : ppc[v] # "count") => Length = cq.num
          /\ (\E v \in Vcpus : ppc[v] = "count") => Length = cq.num + 1
          /\ \E q : ListIs(q)
<1> SUFFICES ASSUME QInv
             PROVE  /\ cq.num \in Nat /\ Length \in Nat /\ cq.num <= Length
                    /\ (\A v \in Vcpus : ppc[v] # "count") => Length = cq.num
                    /\ (\E v \in Vcpus : ppc[v] = "count") => Length = cq.num + 1
                    /\ \E q : ListIs(q)
  OBVIOUS
<1>1. cq.num \in Nat
  BY PoolFacts DEF QInv
<1>2. \E q : ListIs(q)
  BY DEF QInv, QueueWellFormed
<1> QED
  BY SMTT(30), <1>1, <1>2 DEF Length

\* The queue of the service, read off the list.
LEMMA QueueIs ==
  QInv => \A q : ListIs(q) =>
            /\ AbsQueue = [i \in 1..cq.num |-> Owner(q[i])]
            /\ \A i \in 1..Length :
                 /\ q[i] \in Jobs
                 /\ \E v \in Vcpus : jv[v] = q[i] /\ ppc[v] \in Queued /\ Owner(q[i]) = v
<1> SUFFICES ASSUME QInv, NEW q, ListIs(q)
             PROVE  /\ AbsQueue = [i \in 1..cq.num |-> Owner(q[i])]
                    /\ \A i \in 1..Length :
                         /\ q[i] \in Jobs
                         /\ \E v \in Vcpus : /\ jv[v] = q[i] /\ ppc[v] \in Queued
                                              /\ Owner(q[i]) = v
  OBVIOUS
<1>1. cq.num \in Nat /\ Length \in Nat /\ cq.num <= Length /\ NULL \notin Jobs
  BY ListFacts, PoolAssumption
<1>2. \A i \in 1..Length : Cell[i - 1] = q[i]
  BY <1>1, CellIs
<1>3. AbsQueue = [i \in 1..cq.num |-> Owner(q[i])]
  BY SMTT(30), <1>1, <1>2 DEF AbsQueue
<1>4. \A i \in 1..Length : q[i] \in Jobs /\ q[i] \in Unserved
  BY DEF ListIs
<1>5. \A j \in Unserved : \E v \in Vcpus : jv[v] = j /\ ppc[v] \in Queued
  BY DEF Unserved
<1>6. \A v \in Vcpus : jv[v] \in Jobs => Owner(jv[v]) = v
  BY OwnerIs DEF QInv
<1>7. \A i \in 1..Length :
        \E v \in Vcpus : jv[v] = q[i] /\ ppc[v] \in Queued /\ Owner(q[i]) = v
  BY ZenonT(30), <1>4, <1>5, <1>6
<1> QED
  BY ZenonT(30), <1>3, <1>4, <1>7

\* The list after a step is r.
NewListIs(r) ==
  /\ AbsQueue' = [i \in 1..cq'.num |-> Owner(r[i])']
  /\ \A i \in 1..Length' : r[i] \in Jobs
  /\ Length' > 0 => cq'.head = r[1]
  /\ \A i \in 1..(Length' - 1) : job'[r[i]].next = r[i + 1]

\* There is one.
LEMMA NewList ==
  ASSUME QInv'
  PROVE  /\ cq'.num \in Nat /\ Length' \in Nat /\ cq'.num <= Length'
         /\ \E r : NewListIs(r)
<1>1. (QInv => /\ cq.num \in Nat /\ Length \in Nat /\ cq.num <= Length
               /\ \E q : ListIs(q))'
  BY ListFacts, PTL
<1>2. (QInv => \A q : ListIs(q) =>
            /\ AbsQueue = [i \in 1..cq.num |-> Owner(q[i])]
            /\ \A i \in 1..Length :
                 /\ q[i] \in Jobs
                 /\ \E v \in Vcpus : jv[v] = q[i] /\ ppc[v] \in Queued /\ Owner(q[i]) = v)'
  BY QueueIs, PTL
<1>3. PICK r : ListIs(r)'
  BY <1>1
<1>4. /\ AbsQueue' = [i \in 1..cq'.num |-> Owner(r[i])']
      /\ \A i \in 1..Length' : r[i] \in Jobs
  BY <1>2, <1>3
<1>5. /\ Length' > 0 => cq'.head = r[1]
      /\ \A i \in 1..(Length' - 1) : job'[r[i]].next = r[i + 1]
  BY SMTT(10), <1>1, <1>3 DEF ListIs
<1>6. NewListIs(r)
  BY <1>4, <1>5 DEF NewListIs
<1> QED
  BY <1>1, <1>6

\* Places that are not the last of two lists.
LEMMA Inside ==
  ASSUME NEW n \in Nat, NEW a \in Nat, NEW b \in Nat, n <= a, n <= b,
         NEW i \in 1..(n - 1)
  PROVE  i \in 1..a /\ i + 1 \in 1..a /\ i # a /\ i \in 1..(b - 1)
BY SMTT(30)

\* Places behind the first one.
LEMMA Behind ==
  ASSUME NEW m \in Nat, NEW b \in Nat, m - 1 <= b, NEW i \in 1..(m - 1 - 1)
  PROVE  /\ i \in 1..(m - 1) /\ i + 1 \in 1..(m - 1) /\ i \in 1..(b - 1)
         /\ i + 1 \in 1..m /\ i + 1 # m /\ i + 1 # 1 /\ 1 \in 1..m
OBVIOUS

\* A step that neither counts nor takes a job.
KeepsList ==
  /\ cq'.num = cq.num
  /\ cq.num > 0 => cq'.head = cq.head
  /\ \A j \in Unserved : job[j].next # NULL => job'[j].next = job[j].next
  /\ \A v \in Vcpus : ppc[v] \in Queued => jv'[v] = jv[v]

\* It leaves the queue alone.
LEMMA QueueSame == ASSUME QInv, QInv', KeepsList PROVE AbsQueue' = AbsQueue
<1>1. cq.num \in Nat /\ Length \in Nat /\ cq.num <= Length /\ NULL \notin Jobs
  BY ListFacts, PoolAssumption
<1>2. PICK q : ListIs(q)
  BY ListFacts
<1>3. /\ AbsQueue = [i \in 1..cq.num |-> Owner(q[i])]
      /\ \A i \in 1..Length :
           /\ q[i] \in Jobs
           /\ \E v \in Vcpus : jv[v] = q[i] /\ ppc[v] \in Queued /\ Owner(q[i]) = v
  BY <1>2, QueueIs
<1>4. PICK r : NewListIs(r)
  BY NewList
<1>5. Length' \in Nat /\ cq.num <= Length' /\ cq'.num = cq.num
  BY NewList DEF KeepsList
<1> DEFINE n == cq.num
<1>6. /\ n \in Nat
      /\ n > 0 => q[1] = r[1]
      /\ \A i \in 1..(n - 1) : q[i] = r[i] => q[i + 1] = r[i + 1]
  <2>1. n > 0 => q[1] = r[1]
    BY SMTT(10), <1>1, <1>2, <1>4, <1>5 DEF ListIs, KeepsList, NewListIs
  <2>2. ASSUME NEW i \in 1..(n - 1), q[i] = r[i] PROVE q[i + 1] = r[i + 1]
    <3>1. i \in 1..Length /\ i + 1 \in 1..Length /\ i # Length /\ i \in 1..(Length' - 1)
      BY ZenonT(30), <1>1, <1>5, Inside
    <3>2. job[q[i]].next = q[i + 1] /\ q[i] \in Unserved
      BY <1>2, <3>1 DEF ListIs
    <3>3. q[i + 1] # NULL /\ q[i] \in Jobs
      BY ZenonT(30), <1>1, <1>3, <3>1
    <3>4. job'[q[i]].next = q[i + 1]
      BY ZenonT(30), <3>2, <3>3 DEF KeepsList
    <3> QED
      BY ZenonT(30), <1>4, <2>2, <3>1, <3>4 DEF NewListIs
  <2> QED
    BY ZenonT(30), <1>1, <2>1, <2>2
<1> HIDE DEF n
<1>7. \A i \in 1..n : q[i] = r[i]
  BY SMTT(10), <1>6, ChainsAgree
<1>8. (OwnInv => \A v \in Vcpus : jv[v] \in Jobs => Owner(jv[v]) = v)'
  BY OwnerIs, PTL
<1>9. ASSUME NEW i \in 1..n PROVE Owner(r[i])' = Owner(q[i])
  <2>1. i \in 1..Length
    BY SMTT(30), <1>1 DEF n
  <2>2. PICK v \in Vcpus : jv[v] = q[i] /\ ppc[v] \in Queued /\ Owner(q[i]) = v
    BY <1>3, <2>1
  <2>3. jv'[v] = q[i] /\ q[i] \in Jobs /\ r[i] = q[i]
    BY ZenonT(30), <1>3, <1>7, <2>1, <2>2 DEF KeepsList
  <2>4. Owner(jv[v])' = v
    BY <1>8, <2>3 DEF QInv
  <2> QED
    BY <2>2, <2>3, <2>4 DEF Owner
<1> QED
  BY ZenonT(30), <1>3, <1>4, <1>5, <1>9 DEF n, NewListIs

\* cq.num++ appends the job that has just been linked.
LEMMA QueueAppended ==
  ASSUME QInv, QInv', NEW v \in Vcpus, CountJob(v), cq.tail = jv[v]
  PROVE  AbsQueue' = Append(AbsQueue, v)
<1>1. /\ ppc[v] = "count" /\ cq'.num = cq.num + 1 /\ cq'.head = cq.head
      /\ job' = job /\ jv' = jv
  BY PoolFacts DEF CountJob, QInv, CryptoQueue
<1>2. cq.num \in Nat /\ Length \in Nat /\ Length = cq.num + 1 /\ NULL \notin Jobs
  BY <1>1, ListFacts, PoolAssumption
<1>3. PICK q : ListIs(q)
  BY ListFacts
<1>4. /\ AbsQueue = [i \in 1..cq.num |-> Owner(q[i])]
      /\ \A i \in 1..Length :
           /\ q[i] \in Jobs
           /\ \E w \in Vcpus : jv[w] = q[i] /\ ppc[w] \in Queued /\ Owner(q[i]) = w
  BY <1>3, QueueIs
<1>5. PICK r : NewListIs(r)
  BY NewList
<1>6. Length' \in Nat /\ cq.num + 1 <= Length'
  BY <1>1, NewList
<1> DEFINE n == cq.num + 1
<1>7. /\ n \in Nat
      /\ n > 0 => q[1] = r[1]
      /\ \A i \in 1..(n - 1) : q[i] = r[i] => q[i + 1] = r[i + 1]
  <2>1. cq.head = q[1] /\ cq'.head = r[1]
    BY SMTT(30), <1>2, <1>3, <1>5, <1>6 DEF ListIs, NewListIs
  <2>2. ASSUME NEW i \in 1..(n - 1), q[i] = r[i] PROVE q[i + 1] = r[i + 1]
    <3>1. n \in Nat /\ n <= Length /\ n <= Length'
      BY SMTT(30), <1>2, <1>6
    <3>2. i \in 1..Length /\ i # Length /\ i \in 1..(Length' - 1)
      <4> DEFINE a == Length
                 b == Length'
      <4>1. n \in Nat /\ a \in Nat /\ b \in Nat /\ n <= a /\ n <= b /\ i \in 1..(n - 1)
        BY ZenonT(30), <1>2, <1>6, <3>1
      <4> HIDE DEF a, b, n
      <4>2. i \in 1..a /\ i # a /\ i \in 1..(b - 1)
        BY <4>1, Inside
      <4> QED
        BY <4>2 DEF a, b
    <3>3. job[q[i]].next = q[i + 1]
      BY <1>3, <3>2 DEF ListIs
    <3>4. job'[r[i]].next = r[i + 1]
      BY <1>5, <3>2 DEF NewListIs
    <3> QED
      BY ZenonT(30), <1>1, <2>2, <3>3, <3>4
  <2> QED
    BY ZenonT(30), <1>1, <1>2, <2>1, <2>2
<1>8. \A i \in 1..n : q[i] = r[i]
  <2> HIDE DEF n
  <2> QED
    BY SMTT(10), <1>7, ChainsAgree
<1>9. \A j : Owner(j)' = Owner(j)
  BY <1>1 DEF Owner
<1>10. AbsQueue' = [i \in 1..n |-> Owner(q[i])]
  BY ZenonT(30), <1>1, <1>5, <1>8, <1>9 DEF NewListIs
<1>11. Owner(q[n]) = v
  <2>1. q[n] = jv[v]
    BY SMTT(10), <1>2, <1>3 DEF ListIs
  <2>2. jv[v] \in Jobs
    BY SMTT(30), <1>2, <1>4, <2>1
  <2> QED
    BY ZenonT(30), <2>1, <2>2, OwnerIs DEF QInv
<1>12. AbsQueue \in [1..cq.num -> Vcpus]
  <2>1. \A i \in 1..cq.num : Owner(q[i]) \in Vcpus
    BY SMTT(30), <1>2, <1>4
  <2> QED
    BY <1>4, <2>1
<1>13. Append(AbsQueue, v) = [i \in 1..n |-> IF i = n THEN v ELSE AbsQueue[i]]
  BY SMTT(30), <1>2, <1>12, AppendIs
<1>14. \A i \in 1..n : Owner(q[i]) = IF i = n THEN v ELSE AbsQueue[i]
  <2>1. \A i \in 1..n : i # n => i \in 1..cq.num
    BY SMTT(30), <1>2
  <2> QED
    BY <1>4, <1>11, <2>1
<1> QED
  BY ZenonT(30), <1>10, <1>13, <1>14

\* The consumer takes the oldest request.
LEMMA QueueTaken ==
  ASSUME QInv, QInv', NEW k \in Kthreads, KTake(k), cq.num > 0
  PROVE  /\ AbsQueue # <<>>
         /\ Head(AbsQueue) \in Vcpus
         /\ jv[Head(AbsQueue)] = cq.head /\ cq.head \in Unserved
         /\ AbsQueue' = Tail(AbsQueue)
<1>1. /\ mutex = NULL /\ jv' = jv
      /\ cq'.num = cq.num - 1 /\ cq'.head = job[cq.head].next
      /\ job' = [job EXCEPT ![cq.head].next = NULL]
  BY ZenonT(30), PoolFacts DEF KTake, QInv, CryptoQueue, prodVars
<1>2. \A v \in Vcpus : ppc[v] # "count"
  BY <1>1, PoolAssumption DEF QInv, MutexHeld
<1>3. cq.num \in Nat /\ Length = cq.num
  BY <1>2, ListFacts
<1>4. PICK q : ListIs(q)
  BY ListFacts
<1>5. /\ AbsQueue = [i \in 1..cq.num |-> Owner(q[i])]
      /\ \A i \in 1..Length :
           /\ q[i] \in Jobs
           /\ \E w \in Vcpus : jv[w] = q[i] /\ ppc[w] \in Queued /\ Owner(q[i]) = w
  BY <1>4, QueueIs
<1>6. PICK r : NewListIs(r)
  BY NewList
<1>7. Length' \in Nat /\ cq.num - 1 <= Length'
  BY ZenonT(30), <1>1, NewList
<1>8. /\ \A a, b \in 1..cq.num : q[a] = q[b] => a = b
      /\ cq.head = q[1]
      /\ \A a \in 1..cq.num : a # cq.num => job[q[a]].next = q[a + 1]
      /\ \A a \in 1..cq.num : q[a] \in Unserved
  BY SMTT(10), <1>3, <1>4 DEF ListIs
<1> DEFINE n == cq.num - 1
           p == [i \in 1..n |-> q[i + 1]]
<1>9. /\ n \in Nat
      /\ n > 0 => p[1] = r[1]
      /\ \A i \in 1..(n - 1) : p[i] = r[i] => p[i + 1] = r[i + 1]
  <2>1. n \in Nat
    BY SMTT(30), <1>3
  <2>2. ASSUME n > 0 PROVE p[1] = r[1]
    <3>1. 1 \in 1..cq.num /\ 1 # cq.num /\ 1 \in 1..n /\ Length' > 0
      BY SMTT(30), <1>3, <1>7, <2>2
    <3>2. job[q[1]].next = q[1 + 1]
      BY <1>8, <3>1
    <3>3. cq'.head = r[1]
      BY <1>6, <3>1 DEF NewListIs
    <3> QED
      BY <1>1, <1>8, <3>1, <3>2, <3>3
  <2>3. ASSUME NEW i \in 1..(n - 1), p[i] = r[i] PROVE p[i + 1] = r[i + 1]
    <3>1. /\ i \in 1..n /\ i + 1 \in 1..n /\ i \in 1..(Length' - 1)
          /\ i + 1 \in 1..cq.num /\ i + 1 # cq.num /\ i + 1 # 1 /\ 1 \in 1..cq.num
      BY ZenonT(30), <1>3, <1>7, Behind
    <3>2. q[i + 1] # q[1]
      BY <1>8, <3>1
    <3>3. job'[q[i + 1]] = job[q[i + 1]]
      BY ZenonT(30), <1>1, <1>3, <1>5, <1>8, <3>1, <3>2, PoolFacts, NextOnly DEF QInv
    <3>4. job[q[i + 1]].next = q[i + 1 + 1]
      BY <1>8, <3>1
    <3>5. job'[r[i]].next = r[i + 1]
      BY <1>6, <3>1 DEF NewListIs
    <3>6. p[i] = q[i + 1] /\ p[i + 1] = q[i + 1 + 1]
      BY <3>1
    <3> QED
      BY ZenonT(30), <2>3, <3>3, <3>4, <3>5, <3>6
  <2> QED
    BY <2>1, <2>2, <2>3
<1>10. \A i \in 1..n : p[i] = r[i]
  <2> HIDE DEF n, p
  <2> QED
    BY SMTT(10), <1>9, ChainsAgree
<1>11. \A j : Owner(j)' = Owner(j)
  BY <1>1 DEF Owner
<1>12. AbsQueue' = [i \in 1..n |-> Owner(q[i + 1])]
  BY ZenonT(30), <1>1, <1>6, <1>10, <1>11 DEF NewListIs
<1>13. AbsQueue \in [1..cq.num -> Vcpus]
  <2>1. \A i \in 1..cq.num : Owner(q[i]) \in Vcpus
    BY <1>3, <1>5
  <2> QED
    BY ZenonT(30), <1>5, <2>1
<1>14. /\ AbsQueue # <<>> /\ Head(AbsQueue) = AbsQueue[1]
       /\ Tail(AbsQueue) = [i \in 1..n |-> AbsQueue[i + 1]]
  <2> DEFINE s == AbsQueue
             m == cq.num
  <2>1. m \in Nat /\ m > 0 /\ s \in [1..m -> Vcpus]
    BY <1>3, <1>13
  <2> HIDE DEF s, m
  <2>2. s # <<>> /\ Head(s) = s[1] /\ Tail(s) = [i \in 1..(m - 1) |-> s[i + 1]]
    BY ZenonT(30), <2>1, TailIs
  <2> QED
    BY <2>2 DEF s, m
<1>15. \A i \in 1..n : AbsQueue[i + 1] = Owner(q[i + 1])
  <2>1. \A i \in 1..n : i + 1 \in 1..cq.num
    BY SMTT(30), <1>3
  <2> QED
    BY <1>5, <2>1
<1>16. 1 \in 1..cq.num /\ AbsQueue[1] = Owner(q[1])
  BY SMTT(10), <1>3, <1>5
<1>17. jv[Owner(q[1])] = q[1] /\ Owner(q[1]) \in Vcpus /\ q[1] \in Unserved
  BY ZenonT(30), <1>3, <1>5, <1>8, <1>16
<1> QED
  BY ZenonT(30), <1>8, <1>12, <1>14, <1>15, <1>16, <1>17

-----------------------------------------------------------------------------
(* What the service's answers rest on.                                     *)

\* Until the copy back the guest's buffer is untouched and nothing has failed;
\* a call without a job has failed, and a failed one has written nothing.  The
\* job that is linked and not yet counted is the last one.
AnswerOf(v) ==
  /\ ppc[v] \in HasJob \cup {"alloc"} => gout[v] = Stale /\ hc_ret[v] = 0
  /\ ppc[v] = "out" /\ hc_ret[v] = 1 => gout[v] = Stale
  /\ ppc[v] = "out" /\ jv[v] = NULL => hc_ret[v] = 1
  /\ ppc[v] = "count" => cq.tail = jv[v]

AnswerInv == \A v \in Vcpus : AnswerOf(v)

\* A step that leaves alone what this says of vCPU w.
KeepsAnswer(w) ==
  /\ \/ ppc'[w] = ppc[w]
     \/ ppc[w] \in {"wait", "asleep"} /\ ppc'[w] \in {"wait", "asleep"}
  /\ jv'[w] = jv[w] /\ hc_ret'[w] = hc_ret[w] /\ gout'[w] = gout[w]
  /\ ppc[w] = "count" => cq'.tail = cq.tail

\* A thread that keeps what its answer depends on keeps its answer.
LEMMA AnswerSame == ASSUME NEW w, AnswerOf(w), KeepsAnswer(w) PROVE AnswerOf(w)'
BY DEF AnswerOf, KeepsAnswer, HasJob, Queued

\* The steps of a vCPU thread.
LEMMA AnswerProducer ==
  ASSUME OwnInv, MutexHeld, AnswerInv, NEW v \in Vcpus, ProducerNext(v)
  PROVE  AnswerInv'
<1>1. /\ ppc \in [Vcpus -> HasJob \cup {"closed", "guest", "alloc", "out"}]
      /\ jv \in [Vcpus -> Jobs \cup {NULL}]
      /\ \A w \in Vcpus : ppc[w] \in HasJob => jv[w] \in Jobs
      /\ NULL \notin Jobs /\ NULL \notin Vcpus
  BY PoolFacts, PoolAssumption
<1>2. hc_ret \in [Vcpus -> {0, 1}] /\ gout \in [Vcpus -> Contents]
  BY DEF OwnInv, TypeInv, TypeOK
<1>3. ASSUME NEW w \in Vcpus, w # v PROVE AnswerOf(w)'
  <2>1. AnswerOf(w)
    BY DEF AnswerInv
  <2>2. ppc'[w] = ppc[w] /\ jv'[w] = jv[w]
    BY ZenonT(30), <1>1, <1>3
    DEF ProducerNext, ProducerStep, OpenVm, CloseVm, HypercallDenied, ProduceJob,
        AllocJob, NumberJob, InitJob, LinkJob, CountJob, NotifyConsumers, AwaitJob, WriteBack, Return
  <2>3. hc_ret'[w] = hc_ret[w] /\ gout'[w] = gout[w]
    BY ZenonT(30), <1>2, <1>3
    DEF ProducerNext, ProducerStep, OpenVm, CloseVm, HypercallDenied, ProduceJob,
        AllocJob, NumberJob, InitJob, LinkJob, CountJob, NotifyConsumers, AwaitJob, WriteBack, Return
  <2>4. ppc[w] = "count" => cq'.tail = cq.tail
    <3>1. CASE LinkJob(v)
      BY <1>1, <3>1 DEF LinkJob, MutexHeld
    <3>2. CASE CountJob(v)
      BY <3>2, PoolFacts DEF CountJob, CryptoQueue
    <3>3. CASE UNCHANGED cq
      BY <3>3
    <3> QED
      BY ZenonT(30), <3>1, <3>2, <3>3
      DEF ProducerNext, ProducerStep, OpenVm, CloseVm, HypercallDenied, ProduceJob,
          AllocJob, NumberJob, InitJob, NotifyConsumers, AwaitJob, WriteBack, Return
  <2> QED
    BY ZenonT(30), <2>1, <2>2, <2>3, <2>4, AnswerSame DEF KeepsAnswer
<1>4. AnswerOf(v)
  BY DEF AnswerInv
<1>5. AnswerOf(v)'
  <2>1. CASE OpenVm(v) \/ CloseVm(v) \/ HypercallDenied(v)
    BY ZenonT(30), <1>1, <2>1 DEF OpenVm, CloseVm, HypercallDenied, AnswerOf, HasJob, Queued
  <2>2. CASE \E op \in Requests : ProduceJob(v, op)
    <3>1. /\ ppc'[v] \in {"alloc", "out"} /\ gout'[v] = Stale /\ jv'[v] = jv[v]
          /\ ppc'[v] = "alloc" => hc_ret'[v] = 0
          /\ ppc'[v] = "out" => hc_ret'[v] = 1
      BY ZenonT(30), <1>1, <1>2, <2>2 DEF ProduceJob
    <3> QED
      BY <3>1 DEF AnswerOf, HasJob, Queued
  <2>3. CASE AllocJob(v) \/ NumberJob(v) \/ InitJob(v) \/ NotifyConsumers(v) \/ AwaitJob(v)
    <3>1. /\ ppc[v] \in HasJob \cup {"alloc"}
          /\ ppc'[v] \in HasJob /\ ppc'[v] # "count"
          /\ UNCHANGED <<gout, hc_ret>>
      BY ZenonT(30), <1>1, <2>3 DEF AllocJob, NumberJob, InitJob, NotifyConsumers,
         AwaitJob, HasJob,
         Queued
    <3> QED
      BY <1>4, <3>1 DEF AnswerOf, HasJob, Queued
  <2>4. CASE LinkJob(v) \/ CountJob(v)
    <3>1. /\ ppc[v] \in HasJob /\ ppc'[v] \in {"count", "notify"}
          /\ UNCHANGED <<gout, hc_ret, jv>>
          /\ ppc'[v] = "count" => LinkJob(v)
      BY <1>1, <2>4 DEF LinkJob, CountJob, HasJob, Queued
    <3>2. ppc'[v] = "count" => cq'.tail = jv[v]
      BY <3>1, PoolFacts DEF LinkJob, CryptoQueue
    <3> QED
      BY ZenonT(30), <1>4, <3>1, <3>2 DEF AnswerOf, HasJob, Queued
  <2>5. CASE WriteBack(v)
    <3>1. /\ ppc[v] = "copy" /\ ppc'[v] = "out" /\ jv'[v] = jv[v] /\ jv[v] # NULL
          /\ hc_ret'[v] = 1 => gout'[v] = gout[v] \/ hc_ret[v] = 1
      BY <1>1, <1>2, <2>5 DEF WriteBack, HasJob, Queued
    <3> QED
      BY SMTT(30), <1>4, <3>1 DEF AnswerOf, HasJob, Queued
  <2>6. CASE Return(v)
    BY <1>1, <2>6 DEF Return, AnswerOf, HasJob, Queued
  <2> QED
    BY ZenonT(30), <2>1, <2>2, <2>3, <2>4, <2>5, <2>6 DEF ProducerNext, ProducerStep
<1> QED
  BY <1>3, <1>5 DEF AnswerInv

\* It holds always.
LEMMA AnswerNext ==
  ASSUME OwnInv, MutexHeld, AnswerInv, [Next]_vars PROVE AnswerInv'
<1>1. /\ ppc \in [Vcpus -> HasJob \cup {"closed", "guest", "alloc", "out"}]
      /\ NULL \notin Vcpus
  BY ZenonT(30), PoolFacts, PoolAssumption
<1>2. ASSUME \A w \in Vcpus : KeepsAnswer(w) PROVE AnswerInv'
  <2>1. ASSUME NEW w \in Vcpus PROVE AnswerOf(w)'
    BY <1>2, AnswerSame DEF AnswerInv
  <2> QED
    BY <2>1 DEF AnswerInv
<1>3. CASE ModuleNext
  <2>1. UNCHANGED prodVars
    BY <1>3 DEF ModuleNext, Register, PoolInit, StartKthread, PoolReclaim, SetStop,
                StopKthread, JoinKthread
  <2>2. \A w \in Vcpus : ppc[w] = "count" => cq'.tail = cq.tail
    <3>1. CASE Register \/ PoolInit \/ PoolReclaim
      <4>1. \A w \in Vcpus : ppc[w] = "closed"
        BY ZenonT(30), <3>1 DEF Register, PoolInit, PoolReclaim, OwnInv, ModuleInUse
      <4> QED
        BY <4>1
    <3>2. CASE SetStop
      BY ZenonT(30), <3>2, PoolFacts DEF SetStop, CryptoQueue
    <3>3. CASE StartKthread \/ StopKthread \/ JoinKthread
      BY ZenonT(30), <3>3 DEF StartKthread, StopKthread, JoinKthread
    <3> QED
      BY ZenonT(30), <1>3, <3>1, <3>2, <3>3 DEF ModuleNext
  <2>3. UNCHANGED <<ppc, jv, hc_ret, gout>>
    BY <2>1 DEF prodVars
  <2>4. \A w \in Vcpus : KeepsAnswer(w)
    BY <2>2, <2>3 DEF KeepsAnswer
  <2> QED
    BY <1>2, <2>4
<1>4. ASSUME NEW k \in Kthreads, ConsumerNext(k) PROVE AnswerInv'
  <2>1. /\ UNCHANGED <<jv, hc_ret, gout>>
        /\ \A w \in Vcpus :
             \/ ppc'[w] = ppc[w]
             \/ ppc[w] \in {"wait", "asleep"} /\ ppc'[w] \in {"wait", "asleep"}
    BY ZenonT(30), <1>1, <1>4
    DEF ConsumerNext, KWait, KTake, KProcess, KFinish, KWake, KLoop, prodVars,
        WakeProducers
  <2>2. \A w \in Vcpus : ppc[w] = "count" => cq'.tail = cq.tail
    BY ZenonT(30), <1>1, <1>4
    DEF ConsumerNext, KWait, KTake, KProcess, KFinish, KWake, KLoop, MutexHeld
  <2>3. \A w \in Vcpus : KeepsAnswer(w)
    BY ZenonT(30), <2>1, <2>2 DEF KeepsAnswer
  <2> QED
    BY <1>2, <2>3
<1>5. CASE UNCHANGED vars
  <2>1. \A w \in Vcpus : KeepsAnswer(w)
    BY <1>5 DEF vars, prodVars, KeepsAnswer
  <2> QED
    BY <1>2, <2>1
<1> QED
  BY ZenonT(30), <1>3, <1>4, <1>5, AnswerProducer DEF Next, Finished

-----------------------------------------------------------------------------
(* The phases of the requests.                                             *)

\* A kthread works on the job of v.
InService(v) == \E k \in Serving : nj[k] = jv[v]

\* The phases, one by one.
LEMMA PhaseIs ==
  \A v \in Vcpus :
    /\ ppc[v] \in {"closed", "guest"} => PhaseOf(v) = "idle"
    /\ ppc[v] \in {"alloc", "number", "init", "lock", "count"} => PhaseOf(v) = "asked"
    /\ ppc[v] \in {"notify", "wait", "asleep"} =>
         PhaseOf(v) = IF job[jv[v]].status = 1 THEN "served"
                      ELSE IF InService(v) THEN "serving" ELSE "queued"
    /\ ppc[v] = "copy" => PhaseOf(v) = "served"
    /\ ppc[v] = "out" => PhaseOf(v) = IF jv[v] = NULL THEN "asked" ELSE "served"
BY ZenonT(30) DEF PhaseOf, InService

\* A step that leaves the request of vCPU w in its phase.
KeepsPhase(w) ==
  /\ \/ ppc'[w] = ppc[w]
     \/ ppc[w] \in {"notify", "wait", "asleep"} /\ ppc'[w] \in {"notify", "wait", "asleep"}
  /\ jv'[w] = jv[w]
  /\ ppc[w] \in {"notify", "wait", "asleep"} =>
       /\ job'[jv[w]].status = job[jv[w]].status
       /\ InService(w)' = InService(w)

\* And what its phase depends on, its phase.
LEMMA PhaseSame ==
  ASSUME OwnInv, NEW w \in Vcpus, KeepsPhase(w) PROVE PhaseOf(w)' = PhaseOf(w)
<1>1. ppc[w] \in HasJob \cup {"closed", "guest", "alloc", "out"}
  BY PoolFacts
<1>2. (\A v \in Vcpus :
    /\ ppc[v] \in {"closed", "guest"} => PhaseOf(v) = "idle"
    /\ ppc[v] \in {"alloc", "number", "init", "lock", "count"} => PhaseOf(v) = "asked"
    /\ ppc[v] \in {"notify", "wait", "asleep"} =>
         PhaseOf(v) = IF job[jv[v]].status = 1 THEN "served"
                      ELSE IF InService(v) THEN "serving" ELSE "queued"
    /\ ppc[v] = "copy" => PhaseOf(v) = "served"
    /\ ppc[v] = "out" => PhaseOf(v) = IF jv[v] = NULL THEN "asked" ELSE "served")'
  BY PhaseIs, PTL
<1>3. CASE ppc[w] \in {"notify", "wait", "asleep"}
  <2>1. PhaseOf(w) = IF job[jv[w]].status = 1 THEN "served"
                     ELSE IF InService(w) THEN "serving" ELSE "queued"
    BY <1>3, PhaseIs
  <2>2. ppc'[w] \in {"notify", "wait", "asleep"}
    BY <1>3 DEF KeepsPhase
  <2>3. PhaseOf(w)' = IF job'[jv'[w]].status = 1 THEN "served"
                      ELSE IF InService(w)' THEN "serving" ELSE "queued"
    BY <1>2, <2>2
  <2>4. /\ job'[jv'[w]].status = job[jv[w]].status
        /\ InService(w)' = InService(w)
    BY <1>3 DEF KeepsPhase
  <2> QED
    BY SMTT(30), <2>1, <2>3, <2>4
<1>4. CASE ppc[w] \notin {"notify", "wait", "asleep"}
  <2>1. ppc'[w] = ppc[w] /\ jv'[w] = jv[w]
    BY <1>4 DEF KeepsPhase
  <2>2. CASE ppc[w] \in {"closed", "guest"}
    BY ZenonT(30), <1>2, <2>1, <2>2, PhaseIs
  <2>3. CASE ppc[w] \in {"alloc", "number", "init", "lock", "count"}
    BY ZenonT(30), <1>2, <2>1, <2>3, PhaseIs
  <2>4. CASE ppc[w] \in {"copy", "out"}
    BY ZenonT(30), <1>2, <2>1, <2>4, PhaseIs
  <2> QED
    BY ZenonT(30), <1>1, <1>4, <2>2, <2>3, <2>4 DEF HasJob, Queued
<1> QED
  BY <1>3, <1>4

\* A vCPU's steps leave the requests of the others alone, and the kthreads.
LEMMA OthersSame ==
  ASSUME QInv, NEW v \in Vcpus, ProducerNext(v)
  PROVE  /\ Serving' = Serving /\ nj' = nj
         /\ \A w \in Vcpus : w # v => /\ KeepsPhase(w)
                                     /\ ppc'[w] = ppc[w]
                                     /\ rax'[w] = rax[w]
                                     /\ gout'[w] = gout[w]
<1>t. OwnInv
  BY DEF QInv
<1>1. /\ ppc \in [Vcpus -> HasJob \cup {"closed", "guest", "alloc", "out"}]
      /\ jv \in [Vcpus -> Jobs \cup {NULL}]
      /\ job \in [Jobs -> JobRecord]
      /\ kpc \in [Kthreads -> {"none", "wait", "asleep", "take", "process",
                               "finish", "wake", "loop", "dead"}]
      /\ \A w \in Vcpus : ppc[w] \in HasJob => jv[w] \in Jobs
      /\ \A u, w \in Vcpus : jv[u] \in Jobs /\ jv[u] = jv[w] => u = w
  BY ZenonT(30), <1>t, PoolFacts
<1>2. /\ rax \in [Vcpus -> {KVM_HC_CRYPTO, 0, 1, -KVM_EPERM}]
      /\ gout \in [Vcpus -> Contents]
  BY <1>t DEF OwnInv, TypeInv, TypeOK
<1>3. Serving' = Serving /\ nj' = nj
  <2>1. kpc' = kpc \/ kpc' = WakeConsumers
    BY DEF ProducerNext, ProducerStep, OpenVm, CloseVm, HypercallDenied, ProduceJob,
           AllocJob, NumberJob, InitJob, LinkJob, CountJob, NotifyConsumers, AwaitJob, WriteBack,
           Return, consVars
  <2>2. nj' = nj
    BY DEF ProducerNext, ProducerStep, OpenVm, CloseVm, HypercallDenied, ProduceJob,
           AllocJob, NumberJob, InitJob, LinkJob, CountJob, NotifyConsumers, AwaitJob, WriteBack,
           Return, consVars
  <2>3. Serving' = Serving
    BY ZenonT(30), <1>1, <2>1 DEF Serving, WakeConsumers
  <2> QED
    BY ZenonT(30), <2>2, <2>3
<1>4. ASSUME NEW w \in Vcpus, w # v
      PROVE  ppc'[w] = ppc[w] /\ jv'[w] = jv[w]
  BY ZenonT(30), <1>1, <1>4
  DEF ProducerNext, ProducerStep, OpenVm, CloseVm, HypercallDenied, ProduceJob,
      AllocJob, NumberJob, InitJob, LinkJob, CountJob, NotifyConsumers, AwaitJob, WriteBack, Return
<1>5. ASSUME NEW w \in Vcpus, w # v
      PROVE  rax'[w] = rax[w] /\ gout'[w] = gout[w]
  BY ZenonT(30), <1>2, <1>5
  DEF ProducerNext, ProducerStep, OpenVm, CloseVm, HypercallDenied, ProduceJob,
      AllocJob, NumberJob, InitJob, LinkJob, CountJob, NotifyConsumers, AwaitJob, WriteBack, Return
<1>6. ASSUME NEW w \in Vcpus, w # v, ppc[w] \in {"notify", "wait", "asleep"}
      PROVE  job'[jv[w]].status = job[jv[w]].status
  <2>1. jv[w] \in Jobs /\ jv[w] # jv[v]
    BY ZenonT(30), <1>1, <1>6 DEF HasJob, Queued
  <2>2. CASE LinkJob(v)
    BY ZenonT(30), <1>t, <2>1, <2>2, NextKeeps
  <2>3. CASE InitJob(v)
    BY ZenonT(30), <1>1, <2>1, <2>3 DEF InitJob
  <2>4. CASE Return(v)
    BY ZenonT(30), <2>1, <2>4 DEF Return, KFree
  <2>5. CASE UNCHANGED job
    BY <2>5
  <2> QED
    BY ZenonT(30), <2>2, <2>3, <2>4, <2>5
    DEF ProducerNext, ProducerStep, OpenVm, CloseVm, HypercallDenied, ProduceJob,
        AllocJob, NumberJob, CountJob, NotifyConsumers, AwaitJob, WriteBack
<1>7. ASSUME NEW w \in Vcpus, w # v PROVE InService(w)' = InService(w)
  BY ZenonT(30), <1>3, <1>4, <1>7 DEF InService
<1>8. ASSUME NEW w \in Vcpus, w # v PROVE KeepsPhase(w)
  BY ZenonT(30), <1>4, <1>6, <1>7, <1>8 DEF KeepsPhase
<1> QED
  BY ZenonT(30), <1>3, <1>4, <1>5, <1>8

\* What a vCPU's step changes is its own phase and answer.
LEMMA OwnChange ==
  ASSUME QInv, NEW v \in Vcpus, ProducerNext(v)
  PROVE  /\ AbsPhase' = [AbsPhase EXCEPT ![v] = PhaseOf(v)']
         /\ AbsAnswer' = [AbsAnswer EXCEPT ![v] = AbsAnswer'[v]]
<1>1. \A w \in Vcpus : w # v => PhaseOf(w)' = PhaseOf(w)
  BY OthersSame, PhaseSame DEF QInv
<1>2. \A w \in Vcpus : w # v => AbsAnswer'[w] = AbsAnswer[w]
  BY OthersSame DEF AbsAnswer
<1>3. AbsPhase' = [AbsPhase EXCEPT ![v] = PhaseOf(v)']
  BY <1>1 DEF AbsPhase
<1>4. AbsAnswer' = [w \in Vcpus |-> AbsAnswer'[w]]
  BY DEF AbsAnswer
<1>5. AbsAnswer = [w \in Vcpus |-> AbsAnswer[w]]
  BY DEF AbsAnswer
<1>6. AbsAnswer' = [AbsAnswer EXCEPT ![v] = AbsAnswer'[v]]
  BY ZenonT(30), <1>2, <1>4, <1>5
<1> QED
  BY <1>3, <1>6

\* A vCPU that has not linked its job, or that has it back, is not on the list.
LEMMA OffList ==
  ASSUME OwnInv, NEW v \in Vcpus, ppc[v] \notin Queued
  PROVE  jv[v] \notin Unserved
<1> SUFFICES ASSUME jv[v] \in Unserved PROVE FALSE
  OBVIOUS
<1>1. PICK u \in Vcpus : ppc[u] \in Queued /\ jv[u] = jv[v]
  BY DEF Unserved
<1>2. jv[u] \in Jobs
  BY ZenonT(30), <1>1, PoolFacts DEF HasJob
<1>3. u = v
  BY ZenonT(30), <1>1, <1>2, PoolFacts
<1> QED
  BY <1>1, <1>3

\* Only cq.num++ changes the queue.
LEMMA ProducerKeeps ==
  ASSUME QInv, NEW v \in Vcpus, ProducerNext(v), ~CountJob(v) PROVE KeepsList
<1>t. OwnInv
  BY DEF QInv
<1>1. /\ ppc \in [Vcpus -> HasJob \cup {"closed", "guest", "alloc", "out"}]
      /\ jv \in [Vcpus -> Jobs \cup {NULL}]
      /\ job \in [Jobs -> JobRecord] /\ cq \in CryptoQueue
  BY <1>t, PoolFacts
<1>2. \A j \in Unserved : j \in Jobs
  <2>1. \A w \in Vcpus : ppc[w] \in Queued => jv[w] \in Jobs
    BY <1>t, PoolFacts DEF HasJob
  <2> QED
    BY <2>1 DEF Unserved
<1>3. CASE LinkJob(v)
  <2>1. jv' = jv /\ cq'.num = cq.num /\ (cq.num > 0 => cq'.head = cq.head)
    <3>1. jv' = jv /\ cq'.num = cq.num
      BY <1>1, <1>3 DEF LinkJob, CryptoQueue
    <3>2. cq.num # 0 => cq'.head = cq.head
      BY <1>1, <1>3 DEF LinkJob, CryptoQueue
    <3>3. cq.num > 0 => cq.num # 0
      BY SMTT(30)
    <3> QED
      BY ZenonT(30), <3>1, <3>2, <3>3
  <2>2. job' = job \/ (cq.num # 0 /\ job' = [job EXCEPT ![cq.tail].next = jv[v]])
    BY <1>3 DEF LinkJob
  <2>3. cq.num # 0 => job[cq.tail].next = NULL
    <3>1. cq.num \in Nat /\ Length \in Nat /\ cq.num <= Length
      BY ListFacts
    <3>2. PICK q : ListIs(q)
      BY ListFacts
    <3> QED
      BY SMTT(30), <3>1, <3>2 DEF ListIs
  <2>4. \A j \in Unserved : job[j].next # NULL => job'[j].next = job[j].next
    BY ZenonT(30), <1>1, <1>2, <2>2, <2>3, NextOnly
  <2> QED
    BY <2>1, <2>4 DEF KeepsList
<1>4. CASE InitJob(v)
  <2>1. jv[v] \notin Unserved
    BY ZenonT(30), <1>t, <1>4, OffList DEF InitJob, Queued
  <2>2. cq' = cq /\ jv' = jv /\ \A j \in Jobs : j # jv[v] => job'[j] = job[j]
    BY <1>1, <1>4 DEF InitJob
  <2> QED
    BY ZenonT(30), <1>2, <2>1, <2>2 DEF KeepsList
<1>5. CASE Return(v)
  <2>1. jv[v] \notin Unserved /\ ppc[v] \notin Queued
    BY ZenonT(30), <1>t, <1>5, OffList DEF Return, Queued
  <2>2. /\ cq' = cq /\ \A j \in Jobs : j # jv[v] => job'[j] = job[j]
        /\ \A w \in Vcpus : w # v => jv'[w] = jv[w]
    BY ZenonT(30), <1>1, <1>5 DEF Return, KFree
  <2> QED
    BY ZenonT(30), <1>2, <2>1, <2>2 DEF KeepsList
<1>6. CASE AllocJob(v)
  <2>1. ppc[v] = "alloc" /\ UNCHANGED <<cq, job>> /\ \A w \in Vcpus : w # v => jv'[w] = jv[w]
    BY ZenonT(30), <1>1, <1>6 DEF AllocJob
  <2> QED
    BY <2>1 DEF KeepsList, Queued
<1>7. CASE UNCHANGED <<cq, job, jv>>
  BY <1>7 DEF KeepsList
<1> QED
  BY ZenonT(30), <1>3, <1>4, <1>5, <1>6, <1>7
  DEF ProducerNext, ProducerStep, OpenVm, CloseVm, HypercallDenied, ProduceJob,
      NumberJob, NotifyConsumers, AwaitJob, WriteBack

-----------------------------------------------------------------------------
(* The steps.                                                              *)

\* A step that the service does not see.
LEMMA Unseen ==
  ASSUME AbsPhase' = AbsPhase, req' = req, AbsQueue' = AbsQueue, AbsAnswer' = AbsAnswer
  PROVE  [Service!Next]_(Service!svars)
BY DEF Service!svars

\* Those steps of a vCPU.
LEMMA UnseenProducer ==
  ASSUME QInv, QInv', NEW v \in Vcpus, ProducerNext(v), ~CountJob(v),
         PhaseOf(v)' = PhaseOf(v), req' = req, AbsAnswer'[v] = AbsAnswer[v]
  PROVE  [Service!Next]_(Service!svars)
<1>1. AbsQueue' = AbsQueue
  BY ProducerKeeps, QueueSame
<1>2. AbsPhase' = AbsPhase
  <2>1. AbsPhase' = [AbsPhase EXCEPT ![v] = PhaseOf(v)]
    BY OwnChange
  <2> QED
    BY <2>1 DEF AbsPhase
<1>3. AbsAnswer' = AbsAnswer
  <2>1. AbsAnswer' = [AbsAnswer EXCEPT ![v] = AbsAnswer[v]]
    BY OwnChange
  <2> QED
    BY <2>1 DEF AbsAnswer
<1> QED
  BY ZenonT(30), <1>1, <1>2, <1>3, Unseen

\* The phases after a step.
LEMMA NewPhase ==
  \A v \in Vcpus :
    /\ ppc'[v] \in {"closed", "guest"} => PhaseOf(v)' = "idle"
    /\ ppc'[v] \in {"alloc", "number", "init", "lock", "count"} => PhaseOf(v)' = "asked"
    /\ ppc'[v] \in {"notify", "wait", "asleep"} =>
         PhaseOf(v)' = IF job'[jv'[v]].status = 1 THEN "served"
                       ELSE IF InService(v)' THEN "serving" ELSE "queued"
    /\ ppc'[v] = "copy" => PhaseOf(v)' = "served"
    /\ ppc'[v] = "out" => PhaseOf(v)' = IF jv'[v] = NULL THEN "asked" ELSE "served"
<1>1. (\A v \in Vcpus :
         /\ ppc[v] \in {"closed", "guest"} => PhaseOf(v) = "idle"
         /\ ppc[v] \in {"alloc", "number", "init", "lock", "count"} => PhaseOf(v) = "asked"
         /\ ppc[v] \in {"notify", "wait", "asleep"} =>
              PhaseOf(v) = IF job[jv[v]].status = 1 THEN "served"
                           ELSE IF InService(v) THEN "serving" ELSE "queued"
         /\ ppc[v] = "copy" => PhaseOf(v) = "served"
         /\ ppc[v] = "out" => PhaseOf(v) = IF jv[v] = NULL THEN "asked" ELSE "served")'
  BY PhaseIs, PTL
<1> QED
  BY <1>1

\* crypto_produce_job up to the insertion, and from the wait to out.
LEMMA ProducerUnseen ==
  ASSUME QInv, QInv', DataInv, NEW v \in Vcpus,
         \/ OpenVm(v) \/ CloseVm(v)
         \/ AllocJob(v) \/ NumberJob(v) \/ InitJob(v) \/ LinkJob(v)
         \/ NotifyConsumers(v) \/ AwaitJob(v) \/ WriteBack(v)
  PROVE  [Service!Next]_(Service!svars)
<1>t. OwnInv
  BY DEF QInv
<1>1. /\ ppc \in [Vcpus -> HasJob \cup {"closed", "guest", "alloc", "out"}]
      /\ jv \in [Vcpus -> Jobs \cup {NULL}]
      /\ ppc[v] \in HasJob => jv[v] \in Jobs
      /\ NULL \notin Jobs
  BY <1>t, PoolFacts
<1>2. ProducerNext(v) /\ ~CountJob(v) /\ req' = req
  <2>1. ProducerNext(v) /\ req' = req
    BY DEF ProducerNext, ProducerStep, OpenVm, CloseVm, AllocJob, NumberJob, InitJob,
       LinkJob,
           NotifyConsumers, AwaitJob, WriteBack
  <2>2. ppc[v] # "count"
    BY DEF OpenVm, CloseVm, AllocJob, NumberJob, InitJob, LinkJob, NotifyConsumers,
       AwaitJob, WriteBack
  <2> QED
    BY ZenonT(30), <2>1, <2>2 DEF CountJob
<1>3. CASE OpenVm(v) \/ CloseVm(v)
  <2>1. /\ ppc[v] \in {"closed", "guest"} /\ ppc'[v] \in {"closed", "guest"}
        /\ UNCHANGED <<rax, gout>>
    BY ZenonT(30), <1>1, <1>3 DEF OpenVm, CloseVm
  <2>2. PhaseOf(v)' = PhaseOf(v)
    BY ZenonT(30), <2>1, NewPhase, PhaseIs
  <2>3. AbsAnswer'[v] = AbsAnswer[v]
    BY <2>1 DEF AbsAnswer
  <2> QED
    BY ZenonT(30), <1>2, <2>2, <2>3, UnseenProducer
<1>4. ASSUME ppc[v] \notin {"closed", "guest"}, ppc'[v] \notin {"closed", "guest"},
             PhaseOf(v)' = PhaseOf(v)
      PROVE  [Service!Next]_(Service!svars)
  <2>1. AbsAnswer'[v] = AbsAnswer[v]
    BY <1>4 DEF AbsAnswer
  <2> QED
    BY ZenonT(30), <1>2, <1>4, <2>1, UnseenProducer
<1>5. CASE AllocJob(v) \/ NumberJob(v) \/ InitJob(v) \/ LinkJob(v)
  <2>1. /\ ppc[v] \in {"alloc", "number", "init", "lock", "count"}
        /\ ppc'[v] \in {"alloc", "number", "init", "lock", "count"}
    BY ZenonT(30), <1>1, <1>5 DEF AllocJob, NumberJob, InitJob, LinkJob
  <2>2. PhaseOf(v)' = PhaseOf(v)
    BY ZenonT(30), <2>1, NewPhase, PhaseIs
  <2> QED
    BY ZenonT(30), <1>4, <2>1, <2>2
<1>6. CASE NotifyConsumers(v) \/ AwaitJob(v)
  <2>1. /\ ppc[v] \in {"notify", "wait"} /\ UNCHANGED <<jv, job>>
        /\ \/ ppc'[v] \in {"wait", "asleep"}
           \/ ppc'[v] = "copy" /\ job[jv[v]].status = 1
    BY ZenonT(30), <1>1, <1>6 DEF NotifyConsumers, AwaitJob
  <2>2. InService(v)' = InService(v)
    BY ZenonT(30), <1>2, <2>1, OthersSame DEF InService
  <2>3. PhaseOf(v) = IF job[jv[v]].status = 1 THEN "served"
                     ELSE IF InService(v) THEN "serving" ELSE "queued"
    BY ZenonT(30), <2>1, PhaseIs
  <2>4. CASE ppc'[v] \in {"wait", "asleep"}
    <3>1. PhaseOf(v)' = IF job'[jv'[v]].status = 1 THEN "served"
                        ELSE IF InService(v)' THEN "serving" ELSE "queued"
      BY ZenonT(30), <2>4, NewPhase
    <3>2. PhaseOf(v)' = PhaseOf(v)
      BY ZenonT(30), <2>1, <2>2, <2>3, <3>1
    <3> QED
      BY ZenonT(30), <1>4, <2>1, <2>4, <3>2
  <2>5. CASE ppc'[v] = "copy" /\ job[jv[v]].status = 1
    <3>1. PhaseOf(v)' = PhaseOf(v)
      BY ZenonT(30), <2>3, <2>5, NewPhase
    <3> QED
      BY ZenonT(30), <1>4, <2>1, <2>5, <3>1
  <2> QED
    BY ZenonT(30), <2>1, <2>4, <2>5
<1>7. CASE WriteBack(v)
  <2>1. ppc[v] = "copy" /\ ppc'[v] = "out" /\ jv'[v] # NULL
    BY ZenonT(30), <1>1, <1>7 DEF WriteBack, HasJob, Queued
  <2>2. PhaseOf(v)' = PhaseOf(v)
    BY ZenonT(30), <2>1, NewPhase, PhaseIs
  <2> QED
    BY ZenonT(30), <1>4, <2>1, <2>2
<1> QED
  BY ZenonT(30), <1>3, <1>5, <1>6, <1>7

\* A step of the service is a step of it.
LEMMA Seen ==
  ASSUME NEW v \in Vcpus,
         \/ \E op \in Requests : Service!Ask(v, op)
         \/ Service!Deny(v) \/ Service!Refuse(v) \/ Service!Enqueue(v)
         \/ Service!Serve(v) \/ Service!Complete(v) \/ Service!Reply(v)
  PROVE  [Service!Next]_(Service!svars)
BY DEF Service!Next, Service!Progress

\* Assigning the first component of a pair.
LEMMA FirstOfPair == \A a, b, c : [<<a, b>> EXCEPT ![1] = c] = <<c, b>>
BY SMTT(10)

\* kvm_emulate_hypercall's refusal.
LEMMA DeniedRefines ==
  ASSUME QInv, QInv', NEW v \in Vcpus, HypercallDenied(v)
  PROVE  Service!Deny(v)
<1>1. /\ ppc[v] = "guest" /\ UNCHANGED <<ppc, req, gout, jv>>
      /\ rax' = [rax EXCEPT ![v] = -KVM_EPERM]
  BY DEF HypercallDenied
<1>2. ProducerNext(v) /\ ~CountJob(v)
  BY <1>1 DEF ProducerNext, CountJob
<1>3. rax \in [Vcpus -> {KVM_HC_CRYPTO, 0, 1, -KVM_EPERM}]
  BY DEF QInv, OwnInv, TypeInv, TypeOK
<1>4. AbsPhase[v] = "idle" /\ PhaseOf(v)' = "idle"
  BY ZenonT(30), <1>1, PhaseIs, NewPhase DEF AbsPhase
<1>5. AbsPhase' = AbsPhase
  <2>1. AbsPhase' = [AbsPhase EXCEPT ![v] = "idle"]
    BY ZenonT(30), <1>2, <1>4, OwnChange
  <2> QED
    BY ZenonT(30), <1>4, <2>1 DEF AbsPhase
<1>6. AbsQueue' = AbsQueue
  BY ZenonT(30), <1>2, ProducerKeeps, QueueSame
<1>7. AbsAnswer[v] = <<rax[v], gout[v]>> /\ AbsAnswer'[v] = <<-1, gout[v]>>
  <2>1. rax'[v] = -1
    BY ZenonT(30), <1>1, <1>3 DEF KVM_EPERM
  <2> QED
    BY ZenonT(30), <1>1, <2>1 DEF AbsAnswer
<1>8. AbsAnswer' = [AbsAnswer EXCEPT ![v][1] = -1]
  <2>1. AbsAnswer' = [AbsAnswer EXCEPT ![v] = <<-1, gout[v]>>]
    BY ZenonT(30), <1>2, <1>7, OwnChange
  <2>2. [AbsAnswer EXCEPT ![v][1] = -1] = [AbsAnswer EXCEPT ![v] = <<-1, gout[v]>>]
    <3>1. [AbsAnswer[v] EXCEPT ![1] = -1] = <<-1, gout[v]>>
      BY SMTT(10), <1>7, FirstOfPair
    <3> QED
      BY <3>1
  <2> QED
    BY ZenonT(30), <2>1, <2>2
<1> QED
  BY ZenonT(30), <1>1, <1>4, <1>5, <1>6, <1>8 DEF Service!Deny, Service!Denied

\* The entry of crypto_produce_job.
LEMMA ProduceRefines ==
  ASSUME QInv, QInv', NEW v \in Vcpus, NEW op \in Requests, ProduceJob(v, op)
  PROVE  Service!Ask(v, op)
<1>t. OwnInv
  BY DEF QInv
<1>1. /\ ppc[v] = "guest" /\ ppc'[v] \in {"alloc", "out"} /\ jv' = jv
      /\ req' = [req EXCEPT ![v] = op]
  BY <1>t, PoolFacts DEF ProduceJob
<1>2. ProducerNext(v) /\ ~CountJob(v)
  BY <1>1 DEF ProducerNext, CountJob
<1>3. jv[v] = NULL
  BY ZenonT(30), <1>t, <1>1 DEF OwnInv, IdleHasNoJob
<1>4. AbsPhase[v] = "idle" /\ PhaseOf(v)' = "asked"
  BY ZenonT(30), <1>1, <1>3, PhaseIs, NewPhase DEF AbsPhase
<1>5. AbsPhase' = [AbsPhase EXCEPT ![v] = "asked"]
  BY ZenonT(30), <1>2, <1>4, OwnChange
<1>6. AbsQueue' = AbsQueue
  BY ZenonT(30), <1>2, ProducerKeeps, QueueSame
<1>7. AbsAnswer'[v] = <<15, Stale>>
  BY <1>1 DEF AbsAnswer, KVM_HC_CRYPTO
<1>8. AbsAnswer' = [AbsAnswer EXCEPT ![v] = <<15, Stale>>]
  BY ZenonT(30), <1>2, <1>7, OwnChange
<1> QED
  BY ZenonT(30), <1>1, <1>4, <1>5, <1>6, <1>8 DEF Service!Ask, Service!Pending

\* cq.num++.
LEMMA CountRefines ==
  ASSUME QInv, QInv', AnswerInv, NEW v \in Vcpus, CountJob(v)
  PROVE  Service!Enqueue(v)
<1>t. OwnInv
  BY DEF QInv
<1>1. /\ ppc[v] = "count" /\ ppc'[v] = "notify" /\ UNCHANGED <<jv, job, req>>
  BY ZenonT(30), <1>t, PoolFacts DEF CountJob
<1>2. ProducerNext(v)
  BY DEF ProducerNext, ProducerStep
<1>3. cq.tail = jv[v]
  BY <1>1 DEF AnswerInv, AnswerOf
<1>4. AbsQueue' = Append(AbsQueue, v)
  BY ZenonT(30), <1>3, QueueAppended
<1>5. job[jv[v]].status = 0
  BY <1>1 DEF QInv, FreshJob
<1>6. ~InService(v)
  <2> SUFFICES ASSUME NEW k \in Serving, nj[k] = jv[v] PROVE FALSE
    BY DEF InService
  <2>1. PICK u \in Vcpus : ppc[u] \in {"wait", "asleep"} /\ jv[u] = nj[k]
    BY DEF QInv, ServedAlone
  <2>2. jv[v] \in Jobs
    BY ZenonT(30), <1>t, <1>1, PoolFacts DEF HasJob, Queued
  <2>3. u = v
    BY ZenonT(30), <1>t, <2>1, <2>2, PoolFacts
  <2> QED
    BY ZenonT(30), <1>1, <2>1, <2>3
<1>7. ~InService(v)'
  BY ZenonT(30), <1>1, <1>2, <1>6, OthersSame DEF InService
<1>8. AbsPhase[v] = "asked"
  BY ZenonT(30), <1>1, PhaseIs DEF AbsPhase
<1>9. PhaseOf(v)' = "queued"
  <2>1. PhaseOf(v)' = IF job'[jv'[v]].status = 1 THEN "served"
                      ELSE IF InService(v)' THEN "serving" ELSE "queued"
    BY ZenonT(30), <1>1, NewPhase
  <2>2. job'[jv'[v]].status # 1
    BY SMTT(30), <1>1, <1>5
  <2> QED
    BY ZenonT(30), <1>7, <2>1, <2>2
<1>10. AbsPhase' = [AbsPhase EXCEPT ![v] = "queued"]
  BY <1>2, <1>9, OwnChange
<1>11. AbsAnswer' = AbsAnswer
  <2>1. AbsAnswer'[v] = AbsAnswer[v]
    BY <1>1 DEF AbsAnswer
  <2>2. AbsAnswer' = [AbsAnswer EXCEPT ![v] = AbsAnswer[v]]
    BY ZenonT(30), <1>2, <2>1, OwnChange
  <2> QED
    BY <2>2 DEF AbsAnswer
<1> QED
  BY ZenonT(30), <1>1, <1>4, <1>8, <1>10, <1>11 DEF Service!Enqueue

\* out, without a job or with one.
LEMMA ReturnRefines ==
  ASSUME QInv, QInv', DataInv, AnswerInv, NEW v \in Vcpus, Return(v)
  PROVE  Service!Refuse(v) \/ Service!Reply(v)
<1>t. OwnInv
  BY DEF QInv
<1>1. /\ ppc[v] = "out" /\ ppc'[v] = "guest" /\ UNCHANGED <<req, gout>>
      /\ rax'[v] = hc_ret[v] /\ hc_ret[v] \in {0, 1}
  BY <1>t DEF Return, OwnInv, TypeInv, TypeOK
<1>2. ProducerNext(v) /\ ~CountJob(v)
  BY <1>1 DEF ProducerNext, ProducerStep, CountJob
<1>3. PhaseOf(v)' = "idle"
  BY <1>1, NewPhase
<1>4. AbsPhase' = [AbsPhase EXCEPT ![v] = "idle"]
  BY ZenonT(30), <1>2, <1>3, OwnChange
<1>5. AbsQueue' = AbsQueue
  BY ZenonT(30), <1>2, ProducerKeeps, QueueSame
<1>6. AbsAnswer'[v] = <<hc_ret[v], gout[v]>>
  BY <1>1 DEF AbsAnswer
<1>7. AbsAnswer' = [AbsAnswer EXCEPT ![v] = <<hc_ret[v], gout[v]>>]
  BY ZenonT(30), <1>2, <1>6, OwnChange
<1>8. /\ hc_ret[v] = 1 => gout[v] = Stale
      /\ jv[v] = NULL => hc_ret[v] = 1
      /\ hc_ret[v] = 0 => gout[v] = AbsResult(v, req[v])
  BY ZenonT(30), <1>1 DEF AnswerInv, AnswerOf, DataInv, Delivers, Want, AbsResult
<1>9. CASE jv[v] = NULL
  <2>1. AbsPhase[v] = "asked"
    BY ZenonT(30), <1>1, <1>9, PhaseIs DEF AbsPhase
  <2>2. AbsAnswer' = [AbsAnswer EXCEPT ![v] = <<1, Stale>>]
    BY ZenonT(30), <1>7, <1>8, <1>9
  <2> QED
    BY ZenonT(30), <1>1, <1>4, <1>5, <2>1, <2>2 DEF Service!Refuse, Service!Failed
<1>10. CASE jv[v] # NULL
  <2>1. AbsPhase[v] = "served"
    BY ZenonT(30), <1>1, <1>10, PhaseIs DEF AbsPhase
  <2>2. \/ AbsAnswer' = [AbsAnswer EXCEPT ![v] = <<0, AbsResult(v, req[v])>>]
        \/ AbsAnswer' = [AbsAnswer EXCEPT ![v] = <<1, Stale>>]
    BY ZenonT(30), <1>1, <1>7, <1>8
  <2> QED
    BY ZenonT(30), <1>1, <1>4, <1>5, <2>1, <2>2 DEF Service!Reply, Service!Failed,
       Service!Success
<1> QED
  BY ZenonT(30), <1>9, <1>10

\* A step that leaves every phase alone, the list, and what the guests see.
LEMMA AllUnseen ==
  ASSUME QInv, QInv', KeepsList, \A w \in Vcpus : KeepsPhase(w),
         UNCHANGED <<req, rax, gout>>,
         \A w \in Vcpus : ppc'[w] \in {"closed", "guest"} <=> ppc[w] \in {"closed", "guest"}
  PROVE  [Service!Next]_(Service!svars)
<1>1. AbsQueue' = AbsQueue
  BY QueueSame
<1>2. \A w \in Vcpus : PhaseOf(w)' = PhaseOf(w)
  BY PhaseSame DEF QInv
<1>3. AbsPhase' = AbsPhase
  BY <1>2 DEF AbsPhase
<1>4. AbsAnswer' = AbsAnswer
  BY DEF AbsAnswer
<1> QED
  BY ZenonT(30), <1>1, <1>3, <1>4, Unseen

\* The steps of the module thread.
LEMMA ModuleRefines ==
  ASSUME QInv, QInv', ModuleNext PROVE [Service!Next]_(Service!svars)
<1>t. OwnInv /\ LifeInv /\ ServedAlone
  BY DEF QInv
<1>1. UNCHANGED prodVars /\ nj' = nj
  BY DEF ModuleNext, Register, PoolInit, StartKthread, PoolReclaim, SetStop, StopKthread,
         JoinKthread, consVars
<1>2. UNCHANGED <<ppc, jv, req, rax, gout>>
  BY <1>1 DEF prodVars
<1>3. CASE Register \/ PoolInit \/ PoolReclaim
  <2>1. \A w \in Vcpus : ppc[w] = "closed"
    BY ZenonT(30), <1>t, <1>3 DEF Register, PoolInit, PoolReclaim, OwnInv, ModuleInUse
  <2>2. Unserved = {}
    BY ZenonT(30), <1>t, <2>1, IdlePool
  <2>3. cq.num = 0
    <3>1. cq.num \in Nat /\ Length \in Nat /\ cq.num <= Length
      BY ListFacts
    <3>2. PICK q : ListIs(q)
      BY ListFacts
    <3>3. Length = 0
      BY SMTT(30), <2>2, <3>1, <3>2 DEF ListIs
    <3> QED
      BY SMTT(30), <3>1, <3>3
  <2>4. cq'.num = cq.num
    <3>1. cq' = cq \/ cq' = EmptyQueue \/ cq' = [cq EXCEPT !.head = NULL, !.tail = NULL, !.num = 0]
      BY <1>3 DEF Register, PoolInit, PoolReclaim
    <3>2. EmptyQueue.num = 0
      BY DEF EmptyQueue
    <3>3. [cq EXCEPT !.head = NULL, !.tail = NULL, !.num = 0].num = 0
      BY ZenonT(30), <1>t, PoolFacts DEF CryptoQueue
    <3> QED
      BY ZenonT(30), <2>3, <3>1, <3>2, <3>3
  <2>5. KeepsList
    <3>1. ~(cq.num > 0)
      BY SMTT(30), <2>3
    <3> QED
      BY ZenonT(30), <1>2, <2>2, <2>4, <3>1 DEF KeepsList
  <2>6. \A w \in Vcpus : KeepsPhase(w)
    BY <1>2, <2>1 DEF KeepsPhase
  <2> QED
    BY ZenonT(30), <1>2, <2>5, <2>6, AllUnseen
<1>4. CASE SetStop \/ StartKthread \/ StopKthread \/ JoinKthread
  <2>1. job' = job /\ cq'.num = cq.num /\ cq'.head = cq.head
    BY ZenonT(30), <1>t, <1>4, PoolFacts DEF SetStop, StartKthread, StopKthread,
       JoinKthread, CryptoQueue
  <2>2. KeepsList
    BY ZenonT(30), <1>2, <2>1 DEF KeepsList
  <2>3. Serving' = Serving
    <3>1. kpc \in [Kthreads -> {"none", "wait", "asleep", "take", "process",
                                "finish", "wake", "loop", "dead"}]
      BY ZenonT(30), <1>t, PoolFacts
    <3>2. CASE StartKthread
      <4>1. ki \in Kthreads /\ kpc[ki] = "none"
        BY SMTT(30), <1>t, <3>2 DEF StartKthread, LifeInv, KthreadLife, TypeInv, TypeOK,
           Kthreads
      <4> QED
        BY ZenonT(30), <3>1, <3>2, <4>1 DEF StartKthread, Serving
    <3>3. CASE JoinKthread
      BY ZenonT(30), <3>1, <3>3 DEF JoinKthread, Serving
    <3>4. CASE StopKthread
      BY ZenonT(30), <3>1, <3>4 DEF StopKthread, WakeConsumers, Serving
    <3>5. CASE SetStop
      BY ZenonT(30), <3>5 DEF SetStop, consVars, Serving
    <3> QED
      BY ZenonT(30), <1>4, <3>2, <3>3, <3>4, <3>5
  <2>4. \A w \in Vcpus : InService(w)' = InService(w)
    BY ZenonT(30), <1>1, <1>2, <2>3 DEF InService
  <2>5. \A w \in Vcpus : KeepsPhase(w)
    BY ZenonT(30), <1>2, <2>1, <2>4 DEF KeepsPhase
  <2> QED
    BY <1>2, <2>2, <2>5, AllUnseen
<1> QED
  BY ZenonT(30), <1>3, <1>4 DEF ModuleNext

\* The steps of a kthread, but for taking and finishing a job.
LEMMA ConsumerUnseen ==
  ASSUME QInv, QInv', NEW k \in Kthreads,
         \/ KWait(k) \/ KProcess(k) \/ KWake(k) \/ KLoop(k)
         \/ KTake(k) /\ ~(cq.num > 0)
  PROVE  [Service!Next]_(Service!svars)
<1>t. OwnInv
  BY DEF QInv
<1>1. /\ ppc \in [Vcpus -> HasJob \cup {"closed", "guest", "alloc", "out"}]
      /\ job \in [Jobs -> JobRecord]
      /\ kpc \in [Kthreads -> {"none", "wait", "asleep", "take", "process",
                               "finish", "wake", "loop", "dead"}]
      /\ nj \in [Kthreads -> Jobs \cup {NULL}]
      /\ \A w \in Vcpus : ppc[w] \in HasJob => jv[w] \in Jobs
  BY ZenonT(30), <1>t, PoolFacts
<1>2. UNCHANGED <<jv, req, rax, gout, cq>>
  BY DEF KWait, KProcess, KWake, KLoop, KTake, prodVars
<1>3. \A w \in Vcpus : ppc'[w] = ppc[w] \/ (ppc[w] = "asleep" /\ ppc'[w] = "wait")
  BY ZenonT(30), <1>1 DEF KWait, KProcess, KWake, KLoop, KTake, prodVars, WakeProducers
<1>4. \A j \in Jobs : job'[j].status = job[j].status /\ job'[j].next = job[j].next
  <2>1. CASE KProcess(k)
    <3>1. \A o : \A j \in Jobs : /\ [job EXCEPT ![nj[k]].output = o][j].status = job[j].status
                                 /\ [job EXCEPT ![nj[k]].output = o][j].next = job[j].next
      BY ZenonT(30), <1>1 DEF JobRecord
    <3> QED
      BY ZenonT(30), <2>1, <3>1 DEF KProcess
  <2>2. CASE UNCHANGED job
    BY <2>2
  <2> QED
    BY ZenonT(30), <2>1, <2>2 DEF KWait, KWake, KLoop, KTake
<1>5. Serving' = Serving
  BY ZenonT(30), <1>1 DEF KWait, KProcess, KWake, KLoop, KTake, Serving
<1>6. \A l \in Serving : nj'[l] = nj[l]
  BY ZenonT(30), <1>1 DEF KWait, KProcess, KWake, KLoop, KTake, Serving
<1>7. \A w \in Vcpus : InService(w)' = InService(w)
  BY ZenonT(30), <1>2, <1>5, <1>6 DEF InService
<1>8. \A w \in Vcpus : KeepsPhase(w)
  <2>1. \A w \in Vcpus : ppc[w] \in {"notify", "wait", "asleep"} =>
          job'[jv[w]].status = job[jv[w]].status
    BY ZenonT(30), <1>1, <1>4 DEF HasJob, Queued
  <2> QED
    BY ZenonT(30), <1>2, <1>3, <1>7, <2>1 DEF KeepsPhase
<1>9. KeepsList
  <2>1. \A j \in Unserved : j \in Jobs
    BY ZenonT(30), <1>1 DEF Unserved, HasJob
  <2> QED
    BY ZenonT(30), <1>2, <1>4, <2>1 DEF KeepsList
<1>10. \A w \in Vcpus : ppc'[w] \in {"closed", "guest"} <=> ppc[w] \in {"closed", "guest"}
  BY <1>3
<1> QED
  BY ZenonT(30), <1>2, <1>8, <1>9, <1>10, AllUnseen

\* Fewer requests are in service than there are kthreads, when kthread k
\* serves none.
LEMMA RoomToServe ==
  ASSUME QInv, NEW k \in Kthreads, k \notin Serving
  PROVE  Cardinality({w \in Vcpus : AbsPhase[w] = "serving"}) < PoolSize
<1> DEFINE S == {w \in Vcpus : AbsPhase[w] = "serving"}
           f == [w \in S |-> CHOOSE l \in Serving : nj[l] = jv[w]]
<1>1. \A w \in S : jv[w] \in Jobs /\ InService(w)
  <2> SUFFICES ASSUME NEW w \in Vcpus, PhaseOf(w) = "serving"
               PROVE  jv[w] \in Jobs /\ InService(w)
    BY DEF AbsPhase
  <2>1. ppc[w] \in HasJob \cup {"closed", "guest", "alloc", "out"}
    BY ZenonT(30), PoolFacts DEF QInv
  <2>2. ppc[w] \in {"notify", "wait", "asleep"} /\ InService(w)
    BY ZenonT(30), <2>1, PhaseIs DEF HasJob, Queued
  <2> QED
    BY ZenonT(30), <2>2, PoolFacts DEF QInv, HasJob, Queued
<1>2. \A w \in S : f[w] \in Serving /\ nj[f[w]] = jv[w]
  BY ZenonT(30), <1>1 DEF InService
<1>3. \A w \in S : f[w] \in Kthreads \ {k}
  BY ZenonT(30), <1>2 DEF Serving
<1>4. \A w, u \in S : f[w] = f[u] => w = u
  <2> SUFFICES ASSUME NEW w \in S, NEW u \in S, f[w] = f[u] PROVE w = u
    OBVIOUS
  <2>1. jv[w] = jv[u] /\ jv[w] \in Jobs /\ w \in Vcpus /\ u \in Vcpus
    BY ZenonT(30), <1>1, <1>2
  <2> QED
    BY ZenonT(30), <2>1, PoolFacts DEF QInv
<1>5. f \in [S -> Kthreads \ {k}] /\ DOMAIN f = S
  BY <1>3
<1>6. IsFiniteSet(Kthreads) /\ Cardinality(Kthreads) = PoolSize
  BY SMTT(30), FS_Interval, PoolAssumption DEF Kthreads
<1>7. IsFiniteSet(Kthreads \ {k}) /\ Cardinality(Kthreads \ {k}) = PoolSize - 1
  BY <1>6, FS_RemoveElement
<1> HIDE DEF S, f
<1>8. f \in Injection(S, Kthreads \ {k})
  BY ZenonT(30), <1>4, <1>5 DEF Injection, IsInjective
<1>9. IsFiniteSet(S) /\ Cardinality(S) <= PoolSize - 1
  BY SMTT(30), <1>7, <1>8, FS_Injection
<1>10. Cardinality(S) \in Nat
  BY ZenonT(30), <1>9, FS_CardinalityType
<1>11. Cardinality(S) < PoolSize
  BY SMTT(30), <1>9, <1>10, PoolAssumption
<1> QED
  BY <1>11 DEF S

\* A kthread's step leaves every vCPU's phase alone but that of the job it
\* takes or finishes.
LEMMA OthersKeep ==
  ASSUME QInv, NEW k \in Kthreads, NEW v \in Vcpus, jv[v] \in Jobs,
         UNCHANGED <<ppc, jv>>,
         \A j \in Jobs : j # jv[v] => job'[j].status = job[j].status,
         Serving' \cup {k} = Serving \cup {k},
         nj'[k] = jv[v],
         k \in Serving => nj[k] = jv[v],
         \A l \in Kthreads : l # k => nj'[l] = nj[l]
  PROVE  \A w \in Vcpus : w # v => PhaseOf(w)' = PhaseOf(w)
<1> SUFFICES ASSUME NEW w \in Vcpus, w # v PROVE PhaseOf(w)' = PhaseOf(w)
  OBVIOUS
<1>t. OwnInv
  BY DEF QInv
<1>1. jv[w] # jv[v]
  BY ZenonT(30), <1>t, PoolFacts
<1>2. InService(w)' = InService(w)
  <2>1. \A l \in Kthreads : (l \in Serving' /\ nj'[l] = jv[w]) <=> (l \in Serving /\ nj[l] = jv[w])
    BY <1>1
  <2>2. Serving \subseteq Kthreads /\ Serving' \subseteq Kthreads
    BY DEF Serving
  <2> QED
    BY ZenonT(30), <2>1, <2>2 DEF InService
<1>3. ppc[w] \in {"notify", "wait", "asleep"} => job'[jv[w]].status = job[jv[w]].status
  BY ZenonT(30), <1>t, <1>1, PoolFacts DEF HasJob, Queued
<1> QED
  BY <1>t, <1>2, <1>3, PhaseSame DEF KeepsPhase

\* crypto_consume_job takes the job at the head of the list: the oldest
\* request is served.
LEMMA TakeRefines ==
  ASSUME QInv, QInv', NEW k \in Kthreads, KTake(k), cq.num > 0
  PROVE  Head(AbsQueue) \in Vcpus /\ Service!Serve(Head(AbsQueue))
<1>t. OwnInv
  BY DEF QInv
<1>1. /\ kpc[k] = "take" /\ mutex = NULL
      /\ UNCHANGED <<ppc, jv, req, rax, gout>>
      /\ nj' = [nj EXCEPT ![k] = cq.head]
      /\ job' = [job EXCEPT ![cq.head].next = NULL]
      /\ kpc' = [kpc EXCEPT ![k] = "process"]
  BY DEF KTake, prodVars
<1>2. PICK v \in Vcpus : v = Head(AbsQueue) /\ jv[v] = cq.head
  BY QueueTaken
<1>3. AbsQueue # <<>> /\ AbsQueue' = Tail(AbsQueue) /\ cq.head \in Unserved
  BY QueueTaken
<1>4. k \notin Serving /\ Serving' = Serving \cup {k}
  BY ZenonT(30), <1>t, <1>1, PoolFacts DEF Serving
<1>5. jv[v] \in Jobs /\ ppc[v] \in {"wait", "asleep"} /\ job[jv[v]].status = 0
  <2>1. PICK u \in Vcpus : jv[u] = cq.head /\ ppc[u] \in Queued /\ job[jv[u]].status = 0
    BY <1>3 DEF Unserved
  <2>2. jv[u] \in Jobs
    BY ZenonT(30), <1>t, <2>1, PoolFacts DEF HasJob
  <2>3. u = v
    BY ZenonT(30), <1>t, <1>2, <2>1, <2>2, PoolFacts
  <2>4. ppc[v] \notin {"count", "notify"}
    BY ZenonT(30), <1>1, PoolAssumption DEF QInv, MutexHeld
  <2> QED
    BY <2>1, <2>2, <2>3, <2>4 DEF Queued
<1>6. /\ nj'[k] = jv[v]
      /\ \A l \in Kthreads : l # k => nj'[l] = nj[l]
  BY ZenonT(30), <1>t, <1>1, <1>2, PoolFacts
<1>7. \A j \in Jobs : job'[j].status = job[j].status
  BY SMTT(30), <1>t, <1>1, PoolFacts DEF JobRecord
<1>8. \A w \in Vcpus : w # v => PhaseOf(w)' = PhaseOf(w)
  BY ZenonT(30), <1>1, <1>4, <1>5, <1>6, <1>7, OthersKeep
<1>9. InService(v)'
  BY ZenonT(30), <1>1, <1>4, <1>6 DEF InService
<1>10. PhaseOf(v)' = "serving"
  <2>1. PhaseOf(v)' = IF job'[jv'[v]].status = 1 THEN "served"
                      ELSE IF InService(v)' THEN "serving" ELSE "queued"
    BY ZenonT(30), <1>1, <1>5, NewPhase
  <2>2. job'[jv'[v]].status # 1
    BY SMTT(30), <1>1, <1>5, <1>7
  <2> QED
    BY ZenonT(30), <1>9, <2>1, <2>2
<1>11. AbsPhase' = [AbsPhase EXCEPT ![v] = "serving"]
  BY ZenonT(30), <1>8, <1>10 DEF AbsPhase
<1>12. AbsAnswer' = AbsAnswer
  BY <1>1 DEF AbsAnswer
<1>13. Cardinality({w \in Vcpus : AbsPhase[w] = "serving"}) < PoolSize
  BY ZenonT(30), <1>4, RoomToServe
<1>14. Service!Serve(v)
  <2>1. v = Head(AbsQueue) /\ req' = req
    BY ZenonT(30), <1>1, <1>2
  <2>2. \A S : Service!Cardinality(S) = Cardinality(S)
    BY DEF Service!Cardinality, Cardinality
  <2> QED
    BY ZenonT(30), <1>3, <1>11, <1>12, <1>13, <2>1, <2>2 DEF Service!Serve
<1> QED
  BY ZenonT(30), <1>2, <1>14

\* nj->status = 1: the request of the vCPU that waits for it is served.
LEMMA FinishRefines ==
  ASSUME QInv, QInv', NEW k \in Kthreads, KFinish(k)
  PROVE  \E v \in Vcpus : Service!Complete(v)
<1>t. OwnInv
  BY DEF QInv
<1>1. /\ kpc[k] = "finish" /\ k \in Serving
      /\ UNCHANGED <<ppc, jv, req, rax, gout, nj, cq>>
      /\ job' = [job EXCEPT ![nj[k]].status = 1]
      /\ kpc' = [kpc EXCEPT ![k] = "wake"]
  BY DEF KFinish, prodVars, Serving
<1>2. PICK v \in Vcpus : /\ ppc[v] \in {"wait", "asleep"} /\ jv[v] = nj[k]
                         /\ job[nj[k]].status = 0
  BY ZenonT(30), <1>1 DEF QInv, ServedAlone
<1>3. jv[v] \in Jobs
  BY <1>t, <1>2, PoolFacts DEF HasJob, Queued
<1>4. /\ \A j \in Jobs : job'[j].next = job[j].next
      /\ \A j \in Jobs : j # jv[v] => job'[j].status = job[j].status
      /\ job'[jv[v]].status = 1
  BY SMTT(30), <1>t, <1>1, <1>2, <1>3, PoolFacts DEF JobRecord
<1>5. Serving' = Serving \ {k}
  BY ZenonT(30), <1>t, <1>1, PoolFacts DEF Serving
<1>6. \A w \in Vcpus : w # v => PhaseOf(w)' = PhaseOf(w)
  BY ZenonT(30), <1>1, <1>2, <1>3, <1>4, <1>5, OthersKeep
<1>7. AbsPhase[v] = "serving"
  <2>1. InService(v)
    BY <1>1, <1>2 DEF InService
  <2> QED
    BY SMTT(30), <1>2, <2>1, PhaseIs DEF AbsPhase
<1>8. PhaseOf(v)' = "served"
  BY <1>1, <1>2, <1>4, NewPhase
<1>9. AbsPhase' = [AbsPhase EXCEPT ![v] = "served"]
  BY <1>6, <1>8 DEF AbsPhase
<1>10. AbsQueue' = AbsQueue
  <2>1. \A j \in Unserved : j \in Jobs
    BY ZenonT(30), <1>t, PoolFacts DEF Unserved, HasJob
  <2>2. KeepsList
    BY ZenonT(30), <1>1, <1>4, <2>1 DEF KeepsList
  <2> QED
    BY ZenonT(30), <2>2, QueueSame
<1>11. AbsAnswer' = AbsAnswer
  BY <1>1 DEF AbsAnswer
<1>12. Service!Complete(v)
  BY ZenonT(30), <1>1, <1>7, <1>9, <1>10, <1>11 DEF Service!Complete
<1> QED
  BY ZenonT(30), <1>12

-----------------------------------------------------------------------------
(* The refinement.                                                         *)

RInv == QInv /\ DataInv /\ AnswerInv

\* Every step keeps the invariant the refinement needs.
LEMMA RNext == RInv /\ [Next]_vars => RInv'
<1> SUFFICES ASSUME RInv, [Next]_vars PROVE RInv'
  OBVIOUS
<1>1. QInv' /\ DataInv'
  BY DataNext DEF RInv
<1>2. AnswerInv'
  BY AnswerNext DEF RInv, QInv
<1> QED
  BY ZenonT(30), <1>1, <1>2 DEF RInv

\* The invariant the refinement needs holds at first.
LEMMA RInit == Init => RInv
<1> SUFFICES ASSUME Init PROVE AnswerInv
  BY DataInit DEF RInv
<1>1. \A v \in Vcpus : ppc[v] = "closed"
  BY DEF Init
<1> QED
  BY <1>1 DEF AnswerInv, AnswerOf, HasJob, Queued

\* No request, an empty queue.
LEMMA StartsIdle == Init => Service!Init
<1> SUFFICES ASSUME Init PROVE Service!Init
  OBVIOUS
<1>1. /\ \A v \in Vcpus : ppc[v] = "closed"
      /\ rax = [v \in Vcpus |-> KVM_HC_CRYPTO] /\ gout = [v \in Vcpus |-> Stale]
      /\ req = [v \in Vcpus |-> "unknown"]
  BY DEF Init
<1>2. cq.num = 0
  BY DEF Init, EmptyQueue
<1>3. AbsPhase = [v \in Vcpus |-> "idle"]
  BY ZenonT(30), <1>1, PhaseIs DEF AbsPhase
<1>4. AbsQueue = <<>>
  <2>1. \A S : S = {} => [i \in S |-> Owner(Cell[i - 1])] = <<>>
    BY SMTT(30)
  <2>2. 1..cq.num = {}
    BY SMTT(30), <1>2
  <2> QED
    BY ZenonT(30), <2>1, <2>2 DEF AbsQueue
<1>5. AbsAnswer = [v \in Vcpus |-> <<15, Stale>>]
  BY <1>1 DEF AbsAnswer, KVM_HC_CRYPTO
<1> QED
  BY ZenonT(30), <1>1, <1>3, <1>4, <1>5 DEF Service!Init, Service!Pending

\* A step of a vCPU thread is one of the service, or changes nothing it sees.
LEMMA ProducerRefines ==
  ASSUME RInv, QInv', NEW v \in Vcpus, ProducerNext(v)
  PROVE  [Service!Next]_(Service!svars)
<1>t. QInv /\ DataInv /\ AnswerInv
  BY DEF RInv
<1>1. CASE \/ OpenVm(v) \/ CloseVm(v)
           \/ AllocJob(v) \/ NumberJob(v) \/ InitJob(v) \/ LinkJob(v)
           \/ NotifyConsumers(v) \/ AwaitJob(v) \/ WriteBack(v)
  BY ZenonT(30), <1>t, <1>1, ProducerUnseen
<1>2. CASE HypercallDenied(v)
  <2>1. Service!Deny(v)
    BY ZenonT(30), <1>t, <1>2, DeniedRefines
  <2> QED
    BY <2>1, Seen
<1>3. ASSUME NEW op \in Requests, ProduceJob(v, op)
      PROVE  [Service!Next]_(Service!svars)
  <2>1. Service!Ask(v, op)
    BY ZenonT(30), <1>t, <1>3, ProduceRefines
  <2> QED
    BY <2>1, Seen
<1>4. CASE CountJob(v)
  <2>1. Service!Enqueue(v)
    BY ZenonT(30), <1>t, <1>4, CountRefines
  <2> QED
    BY <2>1, Seen
<1>5. CASE Return(v)
  <2>1. Service!Refuse(v) \/ Service!Reply(v)
    BY ZenonT(30), <1>t, <1>5, ReturnRefines
  <2> QED
    BY ZenonT(30), <2>1, Seen
<1> QED
  BY ZenonT(30), <1>1, <1>2, <1>3, <1>4, <1>5 DEF ProducerNext, ProducerStep

\* So is a step of a kthread.
LEMMA ConsumerRefines ==
  ASSUME RInv, QInv', NEW k \in Kthreads, ConsumerNext(k)
  PROVE  [Service!Next]_(Service!svars)
<1>t. QInv
  BY DEF RInv
<1>1. CASE KTake(k) /\ cq.num > 0
  <2>1. PICK v \in Vcpus : Service!Serve(v)
    BY ZenonT(30), <1>t, <1>1, TakeRefines
  <2> QED
    BY <2>1, Seen
<1>2. CASE KFinish(k)
  <2>1. PICK v \in Vcpus : Service!Complete(v)
    BY ZenonT(30), <1>t, <1>2, FinishRefines
  <2> QED
    BY ZenonT(30), <2>1, Seen
<1>3. CASE \/ KWait(k) \/ KProcess(k) \/ KWake(k) \/ KLoop(k)
           \/ KTake(k) /\ ~(cq.num > 0)
  BY ZenonT(30), <1>t, <1>3, ConsumerUnseen
<1> QED
  BY ZenonT(30), <1>1, <1>2, <1>3 DEF ConsumerNext

\* So is every step of the pool.
LEMMA StepRefines ==
  ASSUME RInv, RInv', [Next]_vars PROVE [Service!Next]_(Service!svars)
<1>t. QInv /\ QInv'
  BY DEF RInv
<1>1. CASE UNCHANGED vars
  <2>1. UNCHANGED <<ppc, jv, req, rax, gout, job, cq, kpc, nj>>
    BY <1>1 DEF vars, prodVars, consVars
  <2>2. KeepsList
    BY <2>1 DEF KeepsList
  <2>3. \A w \in Vcpus : KeepsPhase(w)
    BY <2>1 DEF KeepsPhase, InService, Serving
  <2> QED
    BY ZenonT(30), <1>t, <2>1, <2>2, <2>3, AllUnseen
<1>2. CASE ModuleNext
  BY ZenonT(30), <1>t, <1>2, ModuleRefines
<1>3. CASE \E v \in Vcpus : ProducerNext(v)
  BY ZenonT(30), <1>t, <1>3, ProducerRefines
<1>4. CASE \E k \in Kthreads : ConsumerNext(k)
  BY ZenonT(30), <1>t, <1>4, ConsumerRefines
<1> QED
  BY ZenonT(30), <1>1, <1>2, <1>3, <1>4 DEF Next, Finished

\* crypto_produce_job and crypto_consume_job do what CryptoService allows and
\* nothing else: requests are served in the order of cq.num++, by at most one
\* kthread each, and answered once, with the caller's own result.
THEOREM PoolServes == Spec => ServiceSafety
<1>1. RInv /\ [Next]_vars => [Service!Next]_(Service!svars)
  BY RNext, StepRefines
<1> QED
  BY <1>1, RInit, RNext, StartsIdle, PTL DEF Spec, ServiceSafety

=============================================================================
