--------------------------- MODULE MemUsageProofs ---------------------------
(***************************************************************************)
(* Proofs about free, for any number of block devices, swap areas, pages   *)
(* and page moves.  First what is proved about sums over tables and about  *)
(* counters that wrap, which the proofs about top use as well.             *)
(***************************************************************************)
EXTENDS MemUsage, WellFoundedInduction, TLAPS

-----------------------------------------------------------------------------
(* Sums.                                                                   *)

\* A non-empty set of natural numbers has a least element.
LEMMA Least ==
  ASSUME NEW T \in SUBSET Nat, T # {}
  PROVE  \E m \in T : \A k \in T : m <= k
<1> DEFINE R == OpToRel(<, Nat)
<1>1. IsWellFoundedOn(R, Nat)
  BY NatLessThanWellFounded
<1>2. \A x, y \in Nat : <<y, x>> \in R <=> y < x
  BY DEF OpToRel
<1> HIDE DEF R
<1>3. PICK m \in T : \A k \in T : ~(<<k, m>> \in R)
  BY ZenonT(30), <1>1, WFMin
<1>4. \A k \in T : ~(k < m)
  BY ZenonT(30), <1>2, <1>3
<1>5. \A k \in T : m <= k
  BY <1>4
<1> QED
  BY <1>5

\* Most leaves are arithmetic.
USE ZenonT(5), SMTT(20)

\* Induction, with the property given as a set.
LEMMA Induct ==
  ASSUME NEW S, 0 \in S, \A n \in Nat : n \in S => n + 1 \in S
  PROVE  \A n \in Nat : n \in S
<1> DEFINE T == {n \in Nat : n \notin S}
<1> SUFFICES ASSUME T # {} PROVE FALSE
  OBVIOUS
<1>1. PICK m \in T : \A k \in T : m <= k
  BY Least
<1>2. m \in Nat /\ m # 0 /\ m \notin S
  OBVIOUS
<1>3. m - 1 \in Nat /\ m - 1 + 1 = m /\ ~(m <= m - 1)
  BY <1>2
<1> QED
  BY <1>1, <1>2, <1>3

\* g holds the sums of f over the numbers below 0, 1, ..., n.
Sums(f, g, n) == g[0] = 0 /\ \A m \in 0..(n - 1) : g[m + 1] = g[m] + f[m]

\* There are such sums, however many.
LEMMA SumsExist == ASSUME NEW f PROVE \A n \in Nat : \E g : Sums(f, g, n)
<1> DEFINE S == {n \in Nat : \E g : Sums(f, g, n)}
<1>1. 0 \in S
  <2>1. Sums(f, [m \in {0} |-> 0], 0)
    BY DEF Sums
  <2> QED
    BY <2>1
<1>2. ASSUME NEW n \in Nat, n \in S PROVE n + 1 \in S
  <2>1. PICK g : Sums(f, g, n)
    BY <1>2
  <2> DEFINE h == [m \in 0..(n + 1) |-> IF m = n + 1 THEN g[n] + f[n] ELSE g[m]]
  <2>2. h[0] = 0
    BY SMTT(30), <2>1 DEF Sums
  <2>3. ASSUME NEW m \in 0..n PROVE h[m + 1] = h[m] + f[m]
    <3>1. CASE m = n
      BY <3>1
    <3>2. CASE m # n
      <4>1. m \in 0..(n - 1) /\ m + 1 # n + 1 /\ m # n + 1 /\ m + 1 \in 0..(n + 1)
        BY <3>2
      <4> QED
        BY SMTT(30), <2>1, <4>1 DEF Sums
    <3> QED
      BY <3>1, <3>2
  <2>4. n + 1 - 1 = n
    OBVIOUS
  <2> HIDE DEF h
  <2>5. Sums(f, h, n + 1)
    BY SMTT(30), <2>2, <2>3, <2>4 DEF Sums
  <2> QED
    BY <2>5
<1> HIDE DEF S
<1>3. \A n \in Nat : n \in S
  BY <1>1, <1>2, Induct
<1> QED
  BY <1>3 DEF S

\* There is one such sum only.
LEMMA SumsAgree ==
  ASSUME NEW f, NEW g, NEW h, NEW n \in Nat, Sums(f, g, n), Sums(f, h, n)
  PROVE  g[n] = h[n]
<1> DEFINE S == {m \in Nat : m <= n => g[m] = h[m]}
<1>1. 0 \in S
  BY DEF Sums
<1>2. ASSUME NEW m \in Nat, m \in S PROVE m + 1 \in S
  <2> SUFFICES ASSUME m + 1 <= n PROVE g[m + 1] = h[m + 1]
    OBVIOUS
  <2>1. m \in 0..(n - 1) /\ m <= n
    OBVIOUS
  <2>2. g[m] = h[m]
    BY <1>2, <2>1
  <2> QED
    BY <2>1, <2>2 DEF Sums
<1> HIDE DEF S
<1>3. \A m \in Nat : m \in S
  BY <1>1, <1>2, Induct
<1> QED
  BY <1>3 DEF S

\* What SumBelow computes.
LEMMA SumIs ==
  ASSUME NEW f
  PROVE  SumBelow(f)[0] = 0 /\ \A n \in Nat : SumBelow(f)[n + 1] = SumBelow(f)[n] + f[n]
<1> DEFINE P(n) == CHOOSE g : Sums(f, g, n)
           G == [n \in Nat |-> P(n)[n]]
           Eq(s) == s = [n \in Nat |-> IF n = 0 THEN 0 ELSE s[n - 1] + f[n - 1]]
<1>1. \A n \in Nat : Sums(f, P(n), n)
  BY SumsExist
<1> HIDE DEF P
<1>2. G[0] = 0
  BY <1>1 DEF Sums
<1>3. ASSUME NEW n \in Nat PROVE G[n + 1] = G[n] + f[n]
  <2>1. n + 1 \in Nat /\ n \in 0..(n + 1 - 1) /\ \A m \in 0..(n - 1) : m \in 0..(n + 1 - 1)
    OBVIOUS
  <2>2. Sums(f, P(n + 1), n + 1)
    BY <1>1, <2>1
  <2>3. Sums(f, P(n + 1), n)
    BY SMTT(30), <2>1, <2>2 DEF Sums
  <2>4. P(n + 1)[n] = P(n)[n]
    BY SMTT(30), <1>1, <2>3, SumsAgree
  <2>5. P(n + 1)[n + 1] = P(n + 1)[n] + f[n]
    BY SMTT(30), <2>1, <2>2 DEF Sums
  <2> QED
    BY <2>1, <2>4, <2>5
<1> HIDE DEF G
<1>4. Eq(G)
  <2>1. G = [n \in Nat |-> G[n]]
    BY DEF G
  <2>2. \A n \in Nat : G[n] = IF n = 0 THEN 0 ELSE G[n - 1] + f[n - 1]
    <3> SUFFICES ASSUME NEW n \in Nat, n # 0 PROVE G[n] = G[n - 1] + f[n - 1]
      BY <1>2
    <3>1. n - 1 \in Nat /\ n - 1 + 1 = n
      OBVIOUS
    <3> QED
      BY <1>3, <3>1
  <2> QED
    BY <2>1, <2>2, Zenon
<1>5. SumBelow(f) = CHOOSE s : Eq(s)
  BY DEF SumBelow
<1>6. Eq(SumBelow(f))
  BY <1>4, <1>5, Zenon
<1>7. \A n \in Nat : n + 1 \in Nat /\ n + 1 # 0 /\ n + 1 - 1 = n
  OBVIOUS
<1> DEFINE c == SumBelow(f)
<1>8. c = [n \in Nat |-> IF n = 0 THEN 0 ELSE c[n - 1] + f[n - 1]]
  BY <1>6
<1> HIDE DEF c
<1>9. c[0] = 0 /\ \A n \in Nat : c[n + 1] = c[n] + f[n]
  BY SMTT(30), <1>7, <1>8
<1> QED
  BY <1>9 DEF c

\* Sums of integers are integers.
LEMMA SumInt ==
  ASSUME NEW N \in Nat, NEW f, \A j \in 0..(N - 1) : f[j] \in Int
  PROVE  \A n \in 0..N : SumBelow(f)[n] \in Int
<1> DEFINE S == {n \in Nat : n <= N => SumBelow(f)[n] \in Int}
<1>1. 0 \in S
  BY SMTT(30), SumIs
<1>2. ASSUME NEW n \in Nat, n \in S PROVE n + 1 \in S
  <2> SUFFICES ASSUME n + 1 <= N PROVE SumBelow(f)[n + 1] \in Int
    OBVIOUS
  <2>1. n \in 0..(N - 1) /\ n <= N
    OBVIOUS
  <2>2. SumBelow(f)[n] \in Int /\ f[n] \in Int
    BY <1>2, <2>1
  <2>3. SumBelow(f)[n + 1] = SumBelow(f)[n] + f[n]
    BY SumIs
  <2> QED
    BY <2>2, <2>3
<1> HIDE DEF S
<1>3. \A n \in Nat : n \in S
  BY <1>1, <1>2, Induct
<1>4. \A n \in 0..N : n \in Nat /\ n <= N
  OBVIOUS
<1> QED
  BY <1>3, <1>4 DEF S

-----------------------------------------------------------------------------
(* Arithmetic of the counters, which wrap.                                 *)

\* Equal but for wrapping.
Cong(a, b) == \E q \in Int : a = b + q * Word

\* Counters have room for more ticks than the guest makes.
LEMMA WordType == Word \in Nat /\ Word > 0
BY WordAssumption

\* What is stored in a counter is what was meant but for wrapping.
LEMMA CongMod == ASSUME NEW x \in Int PROVE x % Word \in 0..(Word - 1) /\ Cong(x % Word, x)
<1> DEFINE w == Word
<1>1. w \in Nat /\ w > 0
  BY WordType
<1> HIDE DEF w
<1>2. x % w \in 0..(w - 1) /\ x \div w \in Int
  BY <1>1
<1>3. x % w = x - w * (x \div w)
  BY <1>1
<1>4. \A d, m \in Int : m = x - w * d => m = x + (-d) * w /\ -d \in Int
  BY <1>1
<1>5. \A m \in 0..(w - 1) : m \in Int
  BY <1>1
<1>6. -(x \div w) \in Int /\ x % w = x + (-(x \div w)) * w
  BY <1>2, <1>3, <1>4, <1>5
<1> QED
  BY <1>2, <1>6 DEF Cong, w

\* Wrapping may be left until after an addition or a subtraction.
LEMMA CongSub ==
  ASSUME NEW a \in Int, NEW b \in Int, NEW c \in Int, NEW d \in Int, Cong(a, b), Cong(c, d)
  PROVE  Cong(a + c, b + d) /\ Cong(a - c, b - d)
<1>1. PICK q \in Int : a = b + q * Word
  BY DEF Cong
<1>2. PICK r \in Int : c = d + r * Word
  BY DEF Cong
<1>3. a + c = (b + d) + (q + r) * Word /\ a - c = (b - d) + (q - r) * Word
  BY <1>1, <1>2, WordType
<1>4. q + r \in Int /\ q - r \in Int
  OBVIOUS
<1> QED
  BY <1>3, <1>4 DEF Cong

\* Being equal but for wrapping is an equivalence.
LEMMA CongEquiv ==
  ASSUME NEW a \in Int, NEW b \in Int, NEW c \in Int
  PROVE  /\ Cong(a, a)
         /\ Cong(a, b) => Cong(b, a)
         /\ Cong(a, b) /\ Cong(b, c) => Cong(a, c)
<1>1. Cong(a, a)
  <2>1. a = a + 0 * Word
    BY WordType
  <2> QED
    BY <2>1 DEF Cong
<1>2. ASSUME Cong(a, b) PROVE Cong(b, a)
  <2>1. PICK q \in Int : a = b + q * Word
    BY <1>2 DEF Cong
  <2>2. -q \in Int /\ b = a + (-q) * Word
    BY <2>1, WordType
  <2> QED
    BY <2>2 DEF Cong
<1>3. ASSUME Cong(a, b), Cong(b, c) PROVE Cong(a, c)
  <2>1. PICK q \in Int : a = b + q * Word
    BY <1>3 DEF Cong
  <2>2. PICK r \in Int : b = c + r * Word
    BY <1>3 DEF Cong
  <2>3. q + r \in Int /\ a = c + (q + r) * Word
    BY <2>1, <2>2, WordType
  <2> QED
    BY <2>3 DEF Cong
<1> QED
  BY <1>1, <1>2, <1>3

\* Numbers that fit a counter are equal if they are but for wrapping.
LEMMA CongFit ==
  ASSUME NEW a \in 0..(Word - 1), NEW b \in 0..(Word - 1), Cong(a, b)
  PROVE  a = b
<1>1. PICK q \in Int : a = b + q * Word
  BY DEF Cong
<1>2. a \in Int /\ b \in Int /\ -Word < a - b /\ a - b < Word /\ a - b = q * Word
  BY <1>1, WordType
<1>3. ~(q >= 1)
  <2> SUFFICES ASSUME q >= 1 PROVE q * Word >= Word
    BY <1>2, WordType
  <2> QED
    BY WordType
<1>4. ~(q <= -1)
  <2> SUFFICES ASSUME q <= -1 PROVE q * Word <= -Word
    BY <1>2, WordType
  <2> QED
    BY WordType
<1>5. q = 0
  BY <1>3, <1>4
<1> QED
  BY <1>1, <1>2, <1>5, WordType

\* What fits a counter is what the counter shows.
LEMMA ModFit ==
  ASSUME NEW x \in Int, NEW y \in 0..(Word - 1), Cong(x, y)
  PROVE  x % Word = y
<1>1. x % Word \in 0..(Word - 1) /\ Cong(x % Word, x)
  BY CongMod
<1>2. \A z \in 0..(Word - 1) : z \in Int
  BY WordType
<1>3. Cong(x % Word, y)
  BY <1>1, <1>2, CongEquiv
<1> QED
  BY <1>1, <1>3, CongFit

-----------------------------------------------------------------------------
(* free: the figures are off by no more than what moved meanwhile.         *)

\* Wrapping may be left until the end of a sum.
LEMMA ModCong == ASSUME NEW x \in Int, NEW y \in Int, Cong(x, y) PROVE x % Word = y % Word
<1>1. y % Word \in 0..(Word - 1) /\ Cong(y % Word, y)
  BY CongMod
<1>2. \A z \in 0..(Word - 1) : z \in Int
  BY WordType
<1>3. Cong(x, y % Word)
  BY <1>1, <1>2, CongEquiv
<1> QED
  BY <1>1, <1>3, ModFit

\* One of the lists of devices: all different, and not of the main uses.
Devices(seq) == seq \in {Bdevs, Swaps}

\* 1 for one of the first k devices of a list, and 0 for any other use.
In(u, seq, k) == IF \E j \in 1..k : seq[j] = u THEN 1 ELSE 0

\* What the lists of devices have in common.
LEMMA DevicesAre ==
  ASSUME NEW seq, Devices(seq)
  PROVE  /\ Len(seq) \in Nat /\ DOMAIN seq = 1..Len(seq)
         /\ \A j \in 1..Len(seq) : seq[j] \in PageUses /\ seq[j] \notin MainUses \cup Totals
         /\ \A j, l \in 1..Len(seq) : seq[j] = seq[l] => j = l
<1>1. seq \in Seq(STRING) /\ IsInjective(seq) /\ Range(seq) \subseteq PageUses
  BY MemAssumption DEF Devices, PageUses
<1>2. (MainUses \cup Totals) \cap Range(seq) = {}
  BY MemAssumption DEF Devices
<1>3. Len(seq) \in Nat /\ DOMAIN seq = 1..Len(seq)
  BY <1>1
<1>4. \A j \in 1..Len(seq) : seq[j] \in Range(seq)
  BY <1>3 DEF Range
<1>5. \A j, l \in 1..Len(seq) : seq[j] = seq[l] => j = l
  BY <1>1, <1>3 DEF IsInjective
<1> QED
  BY <1>1, <1>2, <1>3, <1>4, <1>5

\* No device is on both lists.
LEMMA DevicesDiffer ==
  \A j \in 1..Len(Bdevs), l \in 1..Len(Swaps) : Bdevs[j] # Swaps[l]
<1>1. /\ Bdevs \in Seq(STRING) /\ Swaps \in Seq(STRING)
      /\ Range(Bdevs) \cap Range(Swaps) = {}
  BY MemAssumption
<1>2. /\ \A j \in 1..Len(Bdevs) : Bdevs[j] \in Range(Bdevs)
      /\ \A j \in 1..Len(Swaps) : Swaps[j] \in Range(Swaps)
  BY SMTT(30), <1>1 DEF Range
<1> QED
  BY <1>1, <1>2

\* Pages of devices are integers, and each device adds its own.
LEMMA FirstIs ==
  ASSUME NEW seq, Devices(seq), NEW n \in [PageUses -> Int]
  PROVE  /\ FirstPages(n, seq, 0) = 0
         /\ \A k \in 0..Len(seq) : FirstPages(n, seq, k) \in Int
         /\ \A k \in 0..(Len(seq) - 1) :
              FirstPages(n, seq, k + 1) = FirstPages(n, seq, k) + n[seq[k + 1]]
<1> DEFINE f == [j \in 0..(Len(seq) - 1) |-> n[seq[j + 1]]]
<1>1. Len(seq) \in Nat /\ \A j \in 1..Len(seq) : seq[j] \in PageUses
  BY DevicesAre
<1>2. \A j \in 0..(Len(seq) - 1) : j + 1 \in 1..Len(seq) /\ j \in Nat
  BY <1>1
<1>3. \A j \in 0..(Len(seq) - 1) : f[j] = n[seq[j + 1]] /\ f[j] \in Int
  BY <1>1, <1>2
<1>4. \A k : FirstPages(n, seq, k) = SumBelow(f)[k]
  BY DEF FirstPages
<1> HIDE DEF f
<1>5. SumBelow(f)[0] = 0 /\ \A k \in Nat : SumBelow(f)[k + 1] = SumBelow(f)[k] + f[k]
  BY SumIs
<1>6. \A k \in 0..Len(seq) : SumBelow(f)[k] \in Int
  BY <1>1, <1>3, SumInt
<1> QED
  BY <1>2, <1>3, <1>4, <1>5, <1>6

\* A page of use u gets use w.
Moved(n, u, w) == [n EXCEPT ![u] = @ - 1, ![w] = @ + 1]

\* When a page moves from u to w, the first k devices have one page less if u
\* is one of them, and one more if w is.
LEMMA FirstMove ==
  ASSUME NEW seq, Devices(seq), NEW n \in [PageUses -> Int], NEW u \in PageUses,
         NEW w \in PageUses, u # w, NEW m, m = Moved(n, u, w)
  PROVE  \A k \in 0..Len(seq) :
           FirstPages(m, seq, k) = FirstPages(n, seq, k) - In(u, seq, k) + In(w, seq, k)
<1> DEFINE P(k) == FirstPages(m, seq, k) = FirstPages(n, seq, k) - In(u, seq, k) + In(w, seq, k)
           S == {k \in Nat : k <= Len(seq) => P(k)}
<1>1. /\ Len(seq) \in Nat /\ \A j \in 1..Len(seq) : seq[j] \in PageUses
      /\ \A j, l \in 1..Len(seq) : seq[j] = seq[l] => j = l
  BY DevicesAre
<1>2. m \in [PageUses -> Int]
  BY SMTT(30) DEF Moved
<1>3. /\ FirstPages(n, seq, 0) = 0 /\ FirstPages(m, seq, 0) = 0
      /\ \A k \in 0..Len(seq) : FirstPages(n, seq, k) \in Int /\ FirstPages(m, seq, k) \in Int
      /\ \A k \in 0..(Len(seq) - 1) :
           /\ FirstPages(n, seq, k + 1) = FirstPages(n, seq, k) + n[seq[k + 1]]
           /\ FirstPages(m, seq, k + 1) = FirstPages(m, seq, k) + m[seq[k + 1]]
  BY <1>2, FirstIs
<1>4. P(0)
  <2>1. In(u, seq, 0) = 0 /\ In(w, seq, 0) = 0
    BY DEF In
  <2> QED
    BY <1>3, <2>1
<1>5. ASSUME NEW k \in Nat, k + 1 <= Len(seq), P(k) PROVE P(k + 1)
  <2>1. k \in 0..(Len(seq) - 1) /\ k + 1 \in 1..Len(seq) /\ k \in 0..Len(seq)
    BY SMTT(30), <1>1, <1>5
  <2>2. /\ m[seq[k + 1]] \in Int /\ n[seq[k + 1]] \in Int
        /\ m[seq[k + 1]] = IF seq[k + 1] = u THEN n[seq[k + 1]] - 1
                           ELSE IF seq[k + 1] = w THEN n[seq[k + 1]] + 1 ELSE n[seq[k + 1]]
    BY <1>1, <1>2, <2>1 DEF Moved
  <2>3. ASSUME NEW x
        PROVE  /\ In(x, seq, k) \in Int
               /\ In(x, seq, k + 1) = IF seq[k + 1] = x THEN In(x, seq, k) + 1 ELSE In(x, seq, k)
    <3>1. \A j \in 1..k : j \in 1..Len(seq) /\ j # k + 1 /\ j \in 1..(k + 1)
      BY SMTT(30), <1>1, <2>1
    <3>2. \A j \in 1..(k + 1) : j \in 1..k \/ j = k + 1
      OBVIOUS
    <3>3. k + 1 \in 1..(k + 1)
      OBVIOUS
    <3>4. seq[k + 1] = x => ~\E j \in 1..k : seq[j] = x
      BY <1>1, <2>1, <3>1
    <3>5. (\E j \in 1..(k + 1) : seq[j] = x) <=> (seq[k + 1] = x \/ \E j \in 1..k : seq[j] = x)
      BY <3>1, <3>2, <3>3
    <3> QED
      BY <3>4, <3>5 DEF In
  <2>4. /\ In(u, seq, k) \in Int /\ In(w, seq, k) \in Int
        /\ In(u, seq, k + 1) = IF seq[k + 1] = u THEN In(u, seq, k) + 1 ELSE In(u, seq, k)
        /\ In(w, seq, k + 1) = IF seq[k + 1] = w THEN In(w, seq, k) + 1 ELSE In(w, seq, k)
    BY <2>3
  <2>5. /\ FirstPages(n, seq, k) \in Int /\ FirstPages(m, seq, k) \in Int
        /\ FirstPages(n, seq, k + 1) = FirstPages(n, seq, k) + n[seq[k + 1]]
        /\ FirstPages(m, seq, k + 1) = FirstPages(m, seq, k) + m[seq[k + 1]]
    BY <1>3, <2>1
  <2> DEFINE a == FirstPages(n, seq, k)
             b == FirstPages(m, seq, k)
             c == n[seq[k + 1]]
             d == m[seq[k + 1]]
             p == In(u, seq, k)
             q == In(w, seq, k)
             p1 == In(u, seq, k + 1)
             q1 == In(w, seq, k + 1)
  <2>6. /\ a \in Int /\ b \in Int /\ c \in Int /\ d \in Int /\ p \in Int /\ q \in Int
        /\ b = a - p + q
        /\ \/ p1 = p + 1 /\ q1 = q /\ d = c - 1
           \/ p1 = p /\ q1 = q + 1 /\ d = c + 1
           \/ p1 = p /\ q1 = q /\ d = c
    BY <1>5, <2>2, <2>4, <2>5, u # w
  <2> HIDE DEF a, b, c, d, p, q, p1, q1
  <2>7. b + d = (a + c) - p1 + q1
    BY <2>6
  <2> QED
    BY <2>5, <2>7 DEF a, b, c, d, p1, q1
<1> HIDE DEF P
<1>6. 0 \in S /\ \A k \in Nat : k \in S => k + 1 \in S
  <2>1. \A k \in Nat : k + 1 \in Nat /\ (k + 1 <= Len(seq) => k <= Len(seq))
    BY SMTT(30), <1>1
  <2> QED
    BY <1>4, <1>5, <2>1
<1> HIDE DEF S
<1>7. \A k \in Nat : k \in S
  BY <1>6, Induct
<1>8. \A k \in 0..Len(seq) : k \in Nat /\ k <= Len(seq)
  BY SMTT(30), <1>1
<1> QED
  BY <1>7, <1>8 DEF S, P

\* How many of len loads that begin after the first ones have been done.
Done(at, first, len) ==
  IF at <= first THEN 0 ELSE IF at - first >= len THEN len ELSE at - first

\* Where the loops of getBuffers and getMemSwapCache begin in the loads.
FileAt == 2 + Len(Bdevs)
SwapAt == FileAt + 1
LastAt == SwapAt + Len(Swaps)

\* The pages n still to be counted after the first loads, for each variable.
Left(n, seq, at, first) == FirstPages(n, seq, Len(seq)) - FirstPages(n, seq, Done(at, first, Len(seq)))
Rest(n, at) ==
  [MemTotal       |-> IF at < 1 THEN RamPages(n) ELSE 0,
   MemFree        |-> IF at < 2 THEN n["free"] ELSE 0,
   Buffers        |-> Left(n, Bdevs, at, 2),
   file_size      |-> IF at < SwapAt THEN FilePages(n) ELSE 0,
   swapcache_size |-> Left(n, Swaps, at, SwapAt),
   bufferram      |-> Left(n, Bdevs, at, LastAt)]

\* What free will show if the guest moves no further page: x has been loaded,
\* and r is left.
Will(x, r) == [v \in Variables |-> x[v] + r[v]]
WillCached(y) == y.file_size - y.swapcache_size - y.bufferram
WillUsed(y) == y.MemTotal - y.MemFree - y.Buffers - WillCached(y)

\* y is at most m pages off what n says.
Off(a, b, m) == b - m <= a /\ a <= b + m
AllOff(y, n, m) ==
  /\ Off(y.MemTotal, RamPages(n), m)
  /\ Off(y.MemFree, n["free"], m)
  /\ Off(y.Buffers, BufferPages(n), m)
  /\ Off(WillCached(y), n["file"], m)
  /\ Off(WillUsed(y), n["anon"] + SwapPages(n), m)

\* The inductive invariant: the variables hold, but for wrapping, numbers of
\* pages which with what is left to load are as little off as moves says.
MemInvAt(n, begun, m, at, st) ==
  /\ n \in [PageUses -> Int] /\ begun \in [PageUses -> Int] /\ m \in Nat
  /\ at \in -1..Len(get_mem_usage)
  /\ at = -1 => st = NoStat /\ m = 0 /\ begun = n
  /\ \E x \in [Variables -> Int] :
       /\ st = [v \in Variables |-> Unsigned(PAGE_KB * x[v])]
       /\ AllOff(Will(x, Rest(n, at)), begun, m)
MemInv == MemInvAt(count, before, moves, step, stat)

\* Loads of counters into variables.
Counters == PageUses \cup Totals
Loads == [of : Counters, to : Variables]

\* A sequence given by its elements.
LEMMA SeqMade ==
  ASSUME NEW X, NEW n \in Nat, NEW f \in [1..n -> X]
  PROVE  f \in Seq(X) /\ Len(f) = n /\ \A j \in 1..n : f[j] \in X
OBVIOUS

\* A loop loads the counters of its devices in their order.
LEMMA EachIs ==
  ASSUME NEW seq \in Seq(Counters), NEW v \in Variables
  PROVE  /\ LoadEach(seq, v) \in Seq(Loads) /\ Len(LoadEach(seq, v)) = Len(seq)
         /\ \A j \in 1..Len(seq) : LoadEach(seq, v)[j] = [of |-> seq[j], to |-> v]
<1>1. Len(seq) \in Nat /\ DOMAIN seq = 1..Len(seq) /\ \A j \in 1..Len(seq) : seq[j] \in Counters
  OBVIOUS
<1>2. /\ LoadEach(seq, v) \in [1..Len(seq) -> Loads]
      /\ \A j \in 1..Len(seq) : LoadEach(seq, v)[j] = [of |-> seq[j], to |-> v]
  BY <1>1 DEF LoadEach, Loads
<1> QED
  BY <1>1, <1>2, SeqMade

\* A single load.
LEMMA OneIs ==
  ASSUME NEW c \in Counters, NEW v \in Variables
  PROVE  /\ LoadOf(c, v) \in Seq(Loads) /\ Len(LoadOf(c, v)) = 1
         /\ LoadOf(c, v)[1] = [of |-> c, to |-> v]
<1>1. [of |-> c, to |-> v] \in Loads
  BY DEF Loads
<1>2. \A x \in Loads : <<x>> \in Seq(Loads) /\ Len(<<x>>) = 1 /\ <<x>>[1] = x
  OBVIOUS
<1> QED
  BY <1>1, <1>2 DEF LoadOf

\* One sequence after another.
LEMMA JoinIs ==
  ASSUME NEW X, NEW s \in Seq(X), NEW t \in Seq(X)
  PROVE  /\ s \o t \in Seq(X) /\ Len(s \o t) = Len(s) + Len(t) /\ Len(s) \in Nat /\ Len(t) \in Nat
         /\ \A j \in 1..Len(s) : (s \o t)[j] = s[j]
         /\ \A j \in 1..Len(t) : (s \o t)[Len(s) + j] = t[j]
OBVIOUS

\* The loads of free, by their places.
LEMMA LoadsAre ==
  /\ Len(get_mem_usage) = LastAt + Len(Bdevs) /\ Len(Bdevs) \in Nat /\ Len(Swaps) \in Nat
  /\ get_mem_usage[1] = [of |-> "totalram_pages", to |-> "MemTotal"]
  /\ get_mem_usage[2] = [of |-> "free", to |-> "MemFree"]
  /\ \A j \in 1..Len(Bdevs) : get_mem_usage[2 + j] = [of |-> Bdevs[j], to |-> "Buffers"]
  /\ get_mem_usage[FileAt + 1] = [of |-> "NR_FILE_PAGES", to |-> "file_size"]
  /\ \A j \in 1..Len(Swaps) : get_mem_usage[SwapAt + j] = [of |-> Swaps[j], to |-> "swapcache_size"]
  /\ \A j \in 1..Len(Bdevs) : get_mem_usage[LastAt + j] = [of |-> Bdevs[j], to |-> "bufferram"]
<1> DEFINE b == Len(Bdevs)
           s == Len(Swaps)
           T == getMemTotal
           R == getMemFree
           B == getBuffers("Buffers")
           F == getMemFile
           S == getMemSwapCache
           C == getBuffers("bufferram")
           P == T \o R
           Q == P \o B
           U == F \o S
           V == U \o C
<1>1. Bdevs \in Seq(Counters) /\ Swaps \in Seq(Counters)
  <2>1. ASSUME NEW seq, Devices(seq) PROVE seq \in Seq(Counters)
    <3>1. seq \in Seq(STRING)
      BY <2>1, MemAssumption DEF Devices
    <3>2. Len(seq) \in Nat /\ DOMAIN seq = 1..Len(seq) /\ \A j \in 1..Len(seq) : seq[j] \in Counters
      BY <2>1, DevicesAre DEF Counters
    <3>3. seq \in [1..Len(seq) -> Counters]
      BY SMTT(30), <3>1, <3>2
    <3> QED
      BY <3>2, <3>3, SeqMade
  <2> QED
    BY <2>1 DEF Devices
<1>2. b \in Nat /\ s \in Nat
  BY <1>1
<1>0. "totalram_pages" \in Counters /\ "free" \in Counters /\ "NR_FILE_PAGES" \in Counters
  BY DEF Counters, PageUses, MainUses, Totals
<1>v. /\ "MemTotal" \in Variables /\ "MemFree" \in Variables /\ "Buffers" \in Variables
      /\ "file_size" \in Variables /\ "swapcache_size" \in Variables
      /\ "bufferram" \in Variables
  BY DEF Variables
<1>3. B \in Seq(Loads) /\ Len(B) = b /\ \A j \in 1..b : B[j] = [of |-> Bdevs[j], to |-> "Buffers"]
  BY <1>0, <1>1, <1>v, EachIs DEF getBuffers
<1>4. /\ S \in Seq(Loads) /\ Len(S) = s
      /\ \A j \in 1..s : S[j] = [of |-> Swaps[j], to |-> "swapcache_size"]
  BY <1>0, <1>1, <1>v, EachIs DEF getMemSwapCache
<1>5. C \in Seq(Loads) /\ Len(C) = b /\ \A j \in 1..b : C[j] = [of |-> Bdevs[j], to |-> "bufferram"]
  BY <1>0, <1>1, <1>v, EachIs DEF getBuffers
<1>6. T \in Seq(Loads) /\ Len(T) = 1 /\ T[1] = [of |-> "totalram_pages", to |-> "MemTotal"]
  BY <1>0, <1>v, OneIs DEF getMemTotal
<1>7. R \in Seq(Loads) /\ Len(R) = 1 /\ R[1] = [of |-> "free", to |-> "MemFree"]
  BY <1>0, <1>v, OneIs DEF getMemFree
<1>8. F \in Seq(Loads) /\ Len(F) = 1 /\ F[1] = [of |-> "NR_FILE_PAGES", to |-> "file_size"]
  BY <1>0, <1>v, OneIs DEF getMemFile
<1>9. get_mem_usage = Q \o V
  BY DEF get_mem_usage, getCached
<1> HIDE DEF T, R, B, F, S, C
<1>10. P \in Seq(Loads) /\ Len(P) = 2 /\ P[1] = T[1] /\ P[2] = R[1]
  <2>1. 1 \in 1..1 /\ 1 + 1 = 2
    OBVIOUS
  <2> QED
    BY SMTT(30), <1>6, <1>7, <2>1, JoinIs
<1> HIDE DEF P
<1>11. /\ Q \in Seq(Loads) /\ Len(Q) = 2 + b /\ Q[1] = P[1] /\ Q[2] = P[2]
       /\ \A j \in 1..b : Q[2 + j] = B[j]
  <2>1. 1 \in 1..2 /\ 2 \in 1..2
    OBVIOUS
  <2>2. /\ Q \in Seq(Loads) /\ Len(Q) = Len(P) + Len(B)
        /\ \A j \in 1..Len(P) : Q[j] = P[j]
        /\ \A j \in 1..Len(B) : Q[Len(P) + j] = B[j]
    <3>1. P \in Seq(Loads) /\ B \in Seq(Loads)
      BY <1>3, <1>10
    <3> QED
      BY SMTT(30), <3>1, JoinIs
  <2> HIDE DEF Q
  <2> QED
    BY <1>3, <1>10, <2>1, <2>2
<1>12. /\ U \in Seq(Loads) /\ Len(U) = 1 + s /\ U[1] = F[1]
       /\ \A j \in 1..s : U[1 + j] = S[j]
  <2>1. 1 \in 1..1
    OBVIOUS
  <2> QED
    BY SMTT(30), <1>4, <1>8, <2>1, JoinIs
<1> HIDE DEF Q, U
<1>13. /\ V \in Seq(Loads) /\ Len(V) = (1 + s) + b /\ \A j \in 1..(1 + s) : V[j] = U[j]
       /\ \A j \in 1..b : V[(1 + s) + j] = C[j]
  <2>1. /\ V \in Seq(Loads) /\ Len(V) = Len(U) + Len(C)
        /\ \A j \in 1..Len(U) : V[j] = U[j]
        /\ \A j \in 1..Len(C) : V[Len(U) + j] = C[j]
    <3>1. U \in Seq(Loads) /\ C \in Seq(Loads)
      BY <1>5, <1>12
    <3> QED
      BY SMTT(30), <3>1, JoinIs
  <2> HIDE DEF V
  <2> QED
    BY <1>5, <1>12, <2>1
<1> HIDE DEF V
<1>14. /\ Len(get_mem_usage) = (2 + b) + ((1 + s) + b)
       /\ \A j \in 1..(2 + b) : get_mem_usage[j] = Q[j]
       /\ \A j \in 1..((1 + s) + b) : get_mem_usage[(2 + b) + j] = V[j]
  <2>1. /\ Len(Q \o V) = Len(Q) + Len(V)
        /\ \A j \in 1..Len(Q) : (Q \o V)[j] = Q[j]
        /\ \A j \in 1..Len(V) : (Q \o V)[Len(Q) + j] = V[j]
    <3>1. Q \in Seq(Loads) /\ V \in Seq(Loads)
      BY <1>11, <1>13
    <3> QED
      BY SMTT(30), <3>1, JoinIs
  <2> QED
    BY <1>9, <1>11, <1>13, <2>1
<1>15. /\ 1 \in 1..(2 + b) /\ 2 \in 1..(2 + b) /\ \A j \in 1..b : 2 + j \in 1..(2 + b)
       /\ 1 \in 1..(1 + s) /\ \A j \in 1..s : 1 + j \in 1..(1 + s)
       /\ \A j \in 1..(1 + s) : j \in 1..((1 + s) + b)
       /\ \A j \in 1..b : (1 + s) + j \in 1..((1 + s) + b)
  BY <1>2
<1>16. /\ Len(get_mem_usage) = LastAt + b /\ FileAt + 1 = (2 + b) + 1
       /\ \A j \in 1..s : SwapAt + j = (2 + b) + (1 + j)
       /\ \A j \in 1..b : LastAt + j = (2 + b) + ((1 + s) + j)
  BY <1>2, <1>14 DEF FileAt, SwapAt, LastAt
<1>17. get_mem_usage[1] = T[1] /\ get_mem_usage[2] = R[1]
  BY <1>10, <1>11, <1>14, <1>15
<1>18. \A j \in 1..b : get_mem_usage[2 + j] = B[j]
  BY <1>11, <1>14, <1>15
<1>19. get_mem_usage[FileAt + 1] = F[1]
  BY <1>12, <1>13, <1>14, <1>15, <1>16
<1>20. \A j \in 1..s : get_mem_usage[SwapAt + j] = S[j]
  <2>1. \A j \in 1..s : get_mem_usage[(2 + b) + (1 + j)] = V[1 + j]
    BY <1>14, <1>15
  <2>2. \A j \in 1..s : V[1 + j] = U[1 + j]
    BY <1>13, <1>15
  <2> QED
    BY ZenonT(30), <1>12, <1>16, <2>1, <2>2
<1>21. \A j \in 1..b : get_mem_usage[LastAt + j] = C[j]
  BY ZenonT(30), <1>13, <1>14, <1>15, <1>16
<1> QED
  BY <1>2, <1>3, <1>4, <1>5, <1>6, <1>7, <1>8, <1>16, <1>17, <1>18, <1>19, <1>20, <1>21

\* How far a loop has come.
LEMMA DoneIs ==
  ASSUME NEW at \in Int, NEW first \in Nat, NEW len \in Nat
  PROVE  /\ Done(at, first, len) \in 0..len
         /\ at <= first => Done(at, first, len) = 0 /\ (at < first => Done(at + 1, first, len) = 0)
         /\ at >= first + len => Done(at, first, len) = len /\ Done(at + 1, first, len) = len
         /\ at >= first /\ at < first + len =>
              Done(at, first, len) = at - first /\ Done(at + 1, first, len) = at - first + 1
BY DEF Done

\* A load of a loop takes its device from what is left; other loads leave it.
LEMMA LeftStep ==
  ASSUME NEW seq, Devices(seq), NEW n \in [PageUses -> Int], NEW at \in Int, NEW first \in Nat
  PROVE  /\ Left(n, seq, at, first) \in Int
         /\ at < first \/ at >= first + Len(seq) =>
              Left(n, seq, at, first) = Left(n, seq, at + 1, first)
         /\ at >= first /\ at < first + Len(seq) =>
              Left(n, seq, at, first) = Left(n, seq, at + 1, first) + n[seq[at - first + 1]]
<1> DEFINE len == Len(seq)
           F(k) == FirstPages(n, seq, k)
<1>1. len \in Nat /\ \A j \in 1..len : seq[j] \in PageUses
  BY DevicesAre
<1>2. /\ \A k \in 0..len : F(k) \in Int
      /\ \A k \in 0..(len - 1) : F(k + 1) = F(k) + n[seq[k + 1]]
  BY FirstIs
<1>3. \A a : Left(n, seq, a, first) = F(len) - F(Done(a, first, len))
  BY DEF Left
<1> HIDE DEF F
<1>d. /\ Done(at, first, len) \in 0..len
      /\ at <= first => Done(at, first, len) = 0 /\ (at < first => Done(at + 1, first, len) = 0)
      /\ at >= first + len => Done(at, first, len) = len /\ Done(at + 1, first, len) = len
  BY <1>1, DoneIs
<1>4. len \in 0..len
  BY <1>1
<1>5. Left(n, seq, at, first) \in Int
  BY <1>2, <1>3, <1>4, <1>d
<1>6. ASSUME at < first \/ at >= first + len
      PROVE  Left(n, seq, at, first) = Left(n, seq, at + 1, first)
  <2>1. Done(at, first, len) = Done(at + 1, first, len)
    <3>1. at < first => at <= first
      OBVIOUS
    <3> QED
      BY <1>6, <1>d, <3>1
  <2> QED
    BY <1>3, <2>1
<1>7. ASSUME at >= first, at < first + len
      PROVE  Left(n, seq, at, first) = Left(n, seq, at + 1, first) + n[seq[at - first + 1]]
  <2> DEFINE k == at - first
  <2>1. Done(at, first, len) = k /\ Done(at + 1, first, len) = k + 1
    BY <1>1, <1>7, DoneIs
  <2>2. k \in 0..(len - 1) /\ k \in 0..len /\ k + 1 \in 0..len /\ k + 1 \in 1..len
    BY <1>1, <1>7
  <2> HIDE DEF k, len
  <2>3. /\ F(len) \in Int /\ F(k) \in Int /\ F(k + 1) \in Int /\ n[seq[k + 1]] \in Int
        /\ F(k + 1) = F(k) + n[seq[k + 1]]
    BY <1>1, <1>2, <1>4, <2>2
  <2>4. F(len) - F(k) = F(len) - F(k + 1) + n[seq[k + 1]]
    BY <2>3
  <2>5. Left(n, seq, at, first) = Left(n, seq, at + 1, first) + n[seq[k + 1]]
    BY <1>3, <2>1, <2>4
  <2> QED
    BY <2>5 DEF k
<1> QED
  BY <1>5, <1>6, <1>7

\* Counters of pages are integers.
LEMMA PagesInt ==
  ASSUME NEW n \in [PageUses -> Int]
  PROVE  /\ n["free"] \in Int /\ n["anon"] \in Int /\ n["file"] \in Int
         /\ BufferPages(n) \in Int /\ SwapPages(n) \in Int
         /\ FilePages(n) \in Int /\ RamPages(n) \in Int
<1>1. n["free"] \in Int /\ n["anon"] \in Int /\ n["file"] \in Int
  BY DEF PageUses, MainUses
<1>2. Devices(Bdevs) /\ Devices(Swaps)
  BY DEF Devices
<1>3. Len(Bdevs) \in 0..Len(Bdevs) /\ Len(Swaps) \in 0..Len(Swaps)
  BY LoadsAre
<1>4. BufferPages(n) \in Int /\ SwapPages(n) \in Int
  BY <1>2, <1>3, FirstIs DEF BufferPages, SwapPages
<1>5. FilePages(n) \in Int
  BY <1>1, <1>4 DEF FilePages
<1>6. RamPages(n) \in Int
  BY <1>1, <1>5 DEF RamPages
<1> QED
  BY <1>1, <1>4, <1>5, <1>6

\* What is left is a number for each variable, ...
LEMMA RestInt ==
  ASSUME NEW n \in [PageUses -> Int], NEW at \in Int
  PROVE  \A v \in Variables : Rest(n, at)[v] \in Int
<1>1. Devices(Bdevs) /\ Devices(Swaps)
  BY DEF Devices
<1>2. SwapAt \in Nat /\ LastAt \in Nat /\ 2 \in Nat
  BY SMTT(30), LoadsAre DEF FileAt, SwapAt, LastAt
<1>3. /\ Left(n, Bdevs, at, 2) \in Int /\ Left(n, Swaps, at, SwapAt) \in Int
      /\ Left(n, Bdevs, at, LastAt) \in Int
  BY <1>1, <1>2, LeftStep
<1>4. n["free"] \in Int /\ FilePages(n) \in Int /\ RamPages(n) \in Int
  BY PagesInt
<1> QED
  BY SMTT(30), <1>3, <1>4 DEF Rest, Variables

\* What a load of c into variable x adds to v.
Share(v, x, c) == IF v = x THEN c ELSE 0

\* ... and a load takes from it what it adds to its variable.
LEMMA RestStep ==
  ASSUME NEW n \in [PageUses -> Int], NEW at \in 0..(Len(get_mem_usage) - 1), NEW load,
         load = get_mem_usage[at + 1]
  PROVE  /\ load.to \in Variables /\ PagesOf(n, load.of) \in Int
         /\ \A v \in Variables :
              Rest(n, at)[v] = Rest(n, at + 1)[v] + Share(v, load.to, PagesOf(n, load.of))
<1> DEFINE b == Len(Bdevs)
           s == Len(Swaps)
           r == Rest(n, at)
           q == Rest(n, at + 1)
<1>1. Devices(Bdevs) /\ Devices(Swaps)
  BY DEF Devices
<1>2. b \in Nat /\ s \in Nat /\ FileAt = 2 + b /\ SwapAt = 3 + b /\ LastAt = 3 + b + s
  BY SMTT(30), LoadsAre DEF FileAt, SwapAt, LastAt
<1>3. at \in Int /\ at + 1 \in Int /\ SwapAt \in Nat /\ LastAt \in Nat /\ 2 \in Nat
  BY <1>2
<1>4. /\ n["free"] \in Int /\ FilePages(n) \in Int /\ RamPages(n) \in Int
      /\ PagesOf(n, "totalram_pages") = RamPages(n) /\ PagesOf(n, "NR_FILE_PAGES") = FilePages(n)
      /\ PagesOf(n, "free") = n["free"]
  BY PagesInt DEF PagesOf
<1>5. ASSUME NEW seq, Devices(seq), NEW j \in 1..Len(seq)
      PROVE  PagesOf(n, seq[j]) = n[seq[j]] /\ n[seq[j]] \in Int
  <2>1. seq[j] \in PageUses /\ seq[j] \notin MainUses \cup Totals
    BY <1>5, DevicesAre
  <2> QED
    BY <2>1 DEF PagesOf, Totals
<1>6. /\ r.MemTotal = IF at < 1 THEN RamPages(n) ELSE 0
      /\ q.MemTotal = IF at + 1 < 1 THEN RamPages(n) ELSE 0
      /\ r.MemFree = IF at < 2 THEN n["free"] ELSE 0
      /\ q.MemFree = IF at + 1 < 2 THEN n["free"] ELSE 0
      /\ r.file_size = IF at < SwapAt THEN FilePages(n) ELSE 0
      /\ q.file_size = IF at + 1 < SwapAt THEN FilePages(n) ELSE 0
      /\ r.Buffers = Left(n, Bdevs, at, 2) /\ q.Buffers = Left(n, Bdevs, at + 1, 2)
      /\ r.swapcache_size = Left(n, Swaps, at, SwapAt)
      /\ q.swapcache_size = Left(n, Swaps, at + 1, SwapAt)
      /\ r.bufferram = Left(n, Bdevs, at, LastAt) /\ q.bufferram = Left(n, Bdevs, at + 1, LastAt)
  BY DEF Rest
<1>7. \A v \in Variables : r[v] \in Int /\ q[v] \in Int
  BY <1>3, RestInt
<1> HIDE DEF r, q
<1>8. /\ \A d \in Int : d = d + 0
      /\ \A d, e \in Int : d = 0 => e = d + e
  OBVIOUS
<1>9. /\ at # 0 => r.MemTotal = q.MemTotal
      /\ at # 1 => r.MemFree = q.MemFree
      /\ at # FileAt => r.file_size = q.file_size
  BY <1>2, <1>3, <1>6
<1>20. /\ at < 2 \/ at >= 2 + b => Left(n, Bdevs, at, 2) = Left(n, Bdevs, at + 1, 2)
       /\ at >= 2 /\ at < 2 + b =>
            Left(n, Bdevs, at, 2) = Left(n, Bdevs, at + 1, 2) + n[Bdevs[at - 2 + 1]]
  BY ZenonT(30), <1>1, <1>3, LeftStep
<1>21. /\ at < SwapAt \/ at >= SwapAt + s => Left(n, Swaps, at, SwapAt) = Left(n, Swaps, at + 1, SwapAt)
       /\ at >= SwapAt /\ at < SwapAt + s =>
            Left(n, Swaps, at, SwapAt) = Left(n, Swaps, at + 1, SwapAt) + n[Swaps[at - SwapAt + 1]]
  BY ZenonT(30), <1>1, <1>3, LeftStep
<1>22. /\ at < LastAt \/ at >= LastAt + b => Left(n, Bdevs, at, LastAt) = Left(n, Bdevs, at + 1, LastAt)
       /\ at >= LastAt /\ at < LastAt + b =>
            Left(n, Bdevs, at, LastAt) = Left(n, Bdevs, at + 1, LastAt) + n[Bdevs[at - LastAt + 1]]
  BY ZenonT(30), <1>1, <1>3, LeftStep
<1>10. /\ at < 2 \/ at >= FileAt => r.Buffers = q.Buffers
       /\ at < SwapAt \/ at >= LastAt => r.swapcache_size = q.swapcache_size
       /\ at < LastAt => r.bufferram = q.bufferram
  BY <1>2, <1>6, <1>20, <1>21, <1>22
<1> DEFINE Goal(c, x) ==
             /\ x \in Variables /\ c \in Int
             /\ \A v \in Variables : r[v] = q[v] + Share(v, x, c)
<1>11. ASSUME NEW c \in Int, NEW x \in Variables, r[x] = q[x] + c,
              \A v \in Variables \ {x} : r[v] = q[v]
       PROVE  Goal(c, x)
  BY <1>7, <1>8, <1>11 DEF Share
<1> HIDE DEF Goal
<1>12. CASE at = 0
  <2>1. load = [of |-> "totalram_pages", to |-> "MemTotal"]
    BY SMTT(30), <1>12, LoadsAre
  <2>2. r.MemTotal = q.MemTotal + RamPages(n)
    BY <1>4, <1>6, <1>12
  <2>3. \A v \in Variables \ {"MemTotal"} : r[v] = q[v]
    BY <1>2, <1>9, <1>10, <1>12 DEF Variables
  <2>4. Goal(RamPages(n), "MemTotal")
    BY <1>4, <1>11, <2>2, <2>3 DEF Variables
  <2> QED
    BY SMTT(30), <1>4, <2>1, <2>4 DEF Goal, r, q
<1>13. CASE at = 1
  <2>1. load = [of |-> "free", to |-> "MemFree"]
    BY SMTT(30), <1>13, LoadsAre
  <2>2. r.MemFree = q.MemFree + n["free"]
    BY SMTT(30), <1>4, <1>6, <1>13
  <2>3. \A v \in Variables \ {"MemFree"} : r[v] = q[v]
    BY SMTT(30), <1>2, <1>9, <1>10, <1>13 DEF Variables
  <2>4. Goal(n["free"], "MemFree")
    BY <1>4, <1>11, <2>2, <2>3 DEF Variables
  <2> QED
    BY SMTT(30), <1>4, <2>1, <2>4 DEF Goal, r, q
<1>14. CASE at >= 2 /\ at < FileAt
  <2> DEFINE j == at - 2 + 1
  <2>1. j \in 1..b /\ at + 1 = 2 + j
    BY <1>2, <1>3, <1>14
  <2>2. load = [of |-> Bdevs[j], to |-> "Buffers"]
    BY <2>1, LoadsAre
  <2>3. r.Buffers = q.Buffers + n[Bdevs[j]]
    BY <1>2, <1>6, <1>14, <1>20
  <2>4. \A v \in Variables \ {"Buffers"} : r[v] = q[v]
    BY SMTT(30), <1>2, <1>3, <1>9, <1>10, <1>14 DEF Variables
  <2> HIDE DEF j
  <2>5. PagesOf(n, Bdevs[j]) = n[Bdevs[j]] /\ n[Bdevs[j]] \in Int
    BY <1>1, <1>5, <2>1
  <2>6. Goal(n[Bdevs[j]], "Buffers")
    BY <1>11, <2>3, <2>4, <2>5 DEF Variables
  <2> QED
    BY SMTT(30), <2>2, <2>5, <2>6 DEF Goal, r, q
<1>15. CASE at = FileAt
  <2>1. load = [of |-> "NR_FILE_PAGES", to |-> "file_size"]
    BY <1>15, LoadsAre
  <2>2. r.file_size = q.file_size + FilePages(n)
    BY SMTT(30), <1>2, <1>4, <1>6, <1>15
  <2>3. \A v \in Variables \ {"file_size"} : r[v] = q[v]
    BY SMTT(30), <1>2, <1>9, <1>10, <1>15 DEF Variables
  <2>4. Goal(FilePages(n), "file_size")
    BY <1>4, <1>11, <2>2, <2>3 DEF Variables
  <2> QED
    BY SMTT(30), <1>4, <2>1, <2>4 DEF Goal, r, q
<1>16. CASE at >= SwapAt /\ at < LastAt
  <2> DEFINE j == at - SwapAt + 1
  <2>1. j \in 1..s /\ at + 1 = SwapAt + j
    BY <1>2, <1>3, <1>16
  <2>2. load = [of |-> Swaps[j], to |-> "swapcache_size"]
    BY <2>1, LoadsAre
  <2>3. r.swapcache_size = q.swapcache_size + n[Swaps[j]]
    BY <1>2, <1>6, <1>16, <1>21
  <2>4. \A v \in Variables \ {"swapcache_size"} : r[v] = q[v]
    BY SMTT(30), <1>2, <1>3, <1>9, <1>10, <1>16 DEF Variables
  <2> HIDE DEF j
  <2>5. PagesOf(n, Swaps[j]) = n[Swaps[j]] /\ n[Swaps[j]] \in Int
    BY <1>1, <1>5, <2>1
  <2>6. Goal(n[Swaps[j]], "swapcache_size")
    BY <1>11, <2>3, <2>4, <2>5 DEF Variables
  <2> QED
    BY SMTT(30), <2>2, <2>5, <2>6 DEF Goal, r, q
<1>17. CASE at >= LastAt
  <2> DEFINE j == at - LastAt + 1
  <2>1. j \in 1..b /\ at + 1 = LastAt + j /\ at < LastAt + b
    <3>0. Len(get_mem_usage) = LastAt + b
      BY LoadsAre
    <3>1. at <= LastAt + b - 1
      BY <1>2, <1>3, <3>0
    <3> QED
      BY SMTT(30), <1>2, <1>3, <1>17, <3>1
  <2>2. load = [of |-> Bdevs[j], to |-> "bufferram"]
    BY <2>1, LoadsAre
  <2>3. r.bufferram = q.bufferram + n[Bdevs[j]]
    BY <1>6, <1>17, <1>22, <2>1
  <2>4. \A v \in Variables \ {"bufferram"} : r[v] = q[v]
    BY SMTT(30), <1>2, <1>3, <1>9, <1>10, <1>17 DEF Variables
  <2> HIDE DEF j
  <2>5. PagesOf(n, Bdevs[j]) = n[Bdevs[j]] /\ n[Bdevs[j]] \in Int
    BY <1>1, <1>5, <2>1
  <2>6. Goal(n[Bdevs[j]], "bufferram")
    BY <1>11, <2>3, <2>4, <2>5 DEF Variables
  <2> QED
    BY SMTT(30), <2>2, <2>5, <2>6 DEF Goal, r, q
<1>18. at = 0 \/ at = 1 \/ (at >= 2 /\ at < FileAt) \/ at = FileAt
         \/ (at >= SwapAt /\ at < LastAt) \/ at >= LastAt
  BY <1>2, <1>3
<1> QED
  BY <1>12, <1>13, <1>14, <1>15, <1>16, <1>17, <1>18

\* What a page of use u counts for in what is left.
Weight(u, at) ==
  [MemTotal       |-> IF at < 1 /\ u # "balloon" THEN 1 ELSE 0,
   MemFree        |-> IF at < 2 /\ u = "free" THEN 1 ELSE 0,
   Buffers        |-> In(u, Bdevs, Len(Bdevs)) - In(u, Bdevs, Done(at, 2, Len(Bdevs))),
   file_size      |-> IF at < SwapAt /\ u \notin {"balloon", "free", "anon"} THEN 1 ELSE 0,
   swapcache_size |-> In(u, Swaps, Len(Swaps)) - In(u, Swaps, Done(at, SwapAt, Len(Swaps))),
   bufferram      |-> In(u, Bdevs, Len(Bdevs)) - In(u, Bdevs, Done(at, LastAt, Len(Bdevs)))]

\* A page has a main use or belongs to a device of one of the lists.
LEMMA UsesAre ==
  ASSUME NEW u \in PageUses
  PROVE  /\ \A seq, k : In(u, seq, k) \in {0, 1} /\ In(u, seq, 0) = 0
         /\ \/ u \in MainUses /\ In(u, Bdevs, Len(Bdevs)) = 0 /\ In(u, Swaps, Len(Swaps)) = 0
            \/ u \notin MainUses /\ In(u, Bdevs, Len(Bdevs)) = 1 /\ In(u, Swaps, Len(Swaps)) = 0
            \/ u \notin MainUses /\ In(u, Bdevs, Len(Bdevs)) = 0 /\ In(u, Swaps, Len(Swaps)) = 1
         /\ u \in Range(Swaps) <=> In(u, Swaps, Len(Swaps)) = 1
<1>1. Devices(Bdevs) /\ Devices(Swaps)
  BY DEF Devices
<1>2. /\ \A j \in 1..Len(Bdevs) : Bdevs[j] \notin MainUses
      /\ \A j \in 1..Len(Swaps) : Swaps[j] \notin MainUses
  BY <1>1, DevicesAre
<1>3. DOMAIN Bdevs = 1..Len(Bdevs) /\ DOMAIN Swaps = 1..Len(Swaps)
  BY <1>1, DevicesAre
<1>4. /\ u \in Range(Bdevs) <=> \E j \in 1..Len(Bdevs) : Bdevs[j] = u
      /\ u \in Range(Swaps) <=> \E j \in 1..Len(Swaps) : Swaps[j] = u
  BY <1>3 DEF Range
<1>5. u \in MainUses \/ u \in Range(Bdevs) \/ u \in Range(Swaps)
  BY DEF PageUses
<1>6. ~(u \in Range(Bdevs) /\ u \in Range(Swaps))
  BY <1>4, DevicesDiffer
<1>7. u \in MainUses => u \notin Range(Bdevs) /\ u \notin Range(Swaps)
  BY <1>2, <1>4
<1>8. /\ In(u, Bdevs, Len(Bdevs)) = IF u \in Range(Bdevs) THEN 1 ELSE 0
      /\ In(u, Swaps, Len(Swaps)) = IF u \in Range(Swaps) THEN 1 ELSE 0
  BY <1>4 DEF In
<1>9. \A seq, k : In(u, seq, k) \in {0, 1} /\ In(u, seq, 0) = 0
  <2>1. ~\E j \in 1..0 : TRUE
    OBVIOUS
  <2> QED
    BY <2>1 DEF In
<1>10. 0 # 1
  OBVIOUS
<1> QED
  BY <1>5, <1>6, <1>7, <1>8, <1>9, <1>10

\* A move of a page changes what is left by the weights of its two uses.
LEMMA RestMove ==
  ASSUME NEW n \in [PageUses -> Int], NEW at \in Int, NEW u \in PageUses, NEW w \in PageUses,
         u # w, NEW m, m = Moved(n, u, w)
  PROVE  \A v \in Variables :
           /\ Weight(u, at)[v] \in Int /\ Weight(w, at)[v] \in Int
           /\ Rest(m, at)[v] = Rest(n, at)[v] - Weight(u, at)[v] + Weight(w, at)[v]
<1> DEFINE b == Len(Bdevs)
           s == Len(Swaps)
           One(x, y) == IF x = y THEN 1 ELSE 0
<1>1. Devices(Bdevs) /\ Devices(Swaps)
  BY DEF Devices
<1>2. b \in Nat /\ s \in Nat /\ SwapAt \in Nat /\ LastAt \in Nat /\ 2 \in Nat
  BY SMTT(30), LoadsAre DEF FileAt, SwapAt, LastAt
<1>3. m \in [PageUses -> Int]
  BY SMTT(30) DEF Moved
<1>4. \A x \in {"free", "anon", "file"} : m[x] = n[x] - One(u, x) + One(w, x) /\ n[x] \in Int
  <2>1. {"free", "anon", "file"} \subseteq PageUses
    BY DEF PageUses, MainUses
  <2> QED
    BY <2>1 DEF Moved
<1>5. /\ \A k \in 0..b :
           /\ FirstPages(n, Bdevs, k) \in Int
           /\ FirstPages(m, Bdevs, k) = FirstPages(n, Bdevs, k) - In(u, Bdevs, k) + In(w, Bdevs, k)
      /\ \A k \in 0..s :
           /\ FirstPages(n, Swaps, k) \in Int
           /\ FirstPages(m, Swaps, k) = FirstPages(n, Swaps, k) - In(u, Swaps, k) + In(w, Swaps, k)
  <2>1. /\ \A k \in 0..b : FirstPages(n, Bdevs, k) \in Int
        /\ \A k \in 0..s : FirstPages(n, Swaps, k) \in Int
    BY <1>1, FirstIs
  <2>2. \A k \in 0..b :
          FirstPages(m, Bdevs, k) = FirstPages(n, Bdevs, k) - In(u, Bdevs, k) + In(w, Bdevs, k)
    BY SMTT(30), <1>1, FirstMove
  <2>3. \A k \in 0..s :
          FirstPages(m, Swaps, k) = FirstPages(n, Swaps, k) - In(u, Swaps, k) + In(w, Swaps, k)
    BY SMTT(30), <1>1, FirstMove
  <2> QED
    BY <2>1, <2>2, <2>3
<1>6. b \in 0..b /\ s \in 0..s
  BY <1>2
<1>7. /\ Done(at, 2, b) \in 0..b /\ Done(at, SwapAt, s) \in 0..s /\ Done(at, LastAt, b) \in 0..b
  BY <1>2, DoneIs
<1>8. \A seq, k : In(u, seq, k) \in Int /\ In(w, seq, k) \in Int
  BY DEF In
<1>9. ASSUME NEW seq \in {Bdevs, Swaps}, NEW first \in {2, SwapAt, LastAt},
             Done(at, first, Len(seq)) \in 0..Len(seq)
      PROVE  Left(m, seq, at, first) = Left(n, seq, at, first)
               - (In(u, seq, Len(seq)) - In(u, seq, Done(at, first, Len(seq))))
               + (In(w, seq, Len(seq)) - In(w, seq, Done(at, first, Len(seq))))
  <2> DEFINE d == Done(at, first, Len(seq))
             l == Len(seq)
  <2>1. /\ FirstPages(n, seq, l) \in Int /\ FirstPages(n, seq, d) \in Int
        /\ FirstPages(m, seq, l) = FirstPages(n, seq, l) - In(u, seq, l) + In(w, seq, l)
        /\ FirstPages(m, seq, d) = FirstPages(n, seq, d) - In(u, seq, d) + In(w, seq, d)
    BY <1>5, <1>6, <1>9
  <2>2. /\ Left(m, seq, at, first) = FirstPages(m, seq, l) - FirstPages(m, seq, d)
        /\ Left(n, seq, at, first) = FirstPages(n, seq, l) - FirstPages(n, seq, d)
    BY DEF Left
  <2> HIDE DEF d, l
  <2>3. /\ In(u, seq, l) \in Int /\ In(u, seq, d) \in Int
        /\ In(w, seq, l) \in Int /\ In(w, seq, d) \in Int
    BY <1>8
  <2>4. Left(m, seq, at, first)
          = Left(n, seq, at, first) - (In(u, seq, l) - In(u, seq, d)) + (In(w, seq, l) - In(w, seq, d))
    BY <2>1, <2>2, <2>3
  <2> QED
    BY <2>4 DEF d, l
<1>10. /\ BufferPages(m) = BufferPages(n) - In(u, Bdevs, b) + In(w, Bdevs, b)
       /\ SwapPages(m) = SwapPages(n) - In(u, Swaps, s) + In(w, Swaps, s)
  BY <1>5, <1>6 DEF BufferPages, SwapPages
<1> DEFINE Filed(x) == IF x \in {"balloon", "free", "anon"} THEN 0 ELSE 1
           Ram(x) == IF x = "balloon" THEN 0 ELSE 1
<1>11. ASSUME NEW x \in {u, w}
       PROVE  /\ Filed(x) = One(x, "file") + In(x, Bdevs, b) + In(x, Swaps, s)
              /\ Ram(x) = One(x, "free") + One(x, "anon") + Filed(x)
  BY SMTT(30), UsesAre DEF MainUses
<1>12. FilePages(m) = FilePages(n) - Filed(u) + Filed(w)
  <2>1. /\ n["file"] \in Int /\ BufferPages(n) \in Int /\ SwapPages(n) \in Int
        /\ m["file"] = n["file"] - One(u, "file") + One(w, "file")
    BY <1>4, PagesInt
  <2>2. /\ In(u, Bdevs, b) \in Int /\ In(u, Swaps, s) \in Int /\ In(w, Bdevs, b) \in Int
        /\ In(w, Swaps, s) \in Int /\ One(u, "file") \in Int /\ One(w, "file") \in Int
    BY <1>8
  <2>3. /\ Filed(u) = One(u, "file") + In(u, Bdevs, b) + In(u, Swaps, s)
        /\ Filed(w) = One(w, "file") + In(w, Bdevs, b) + In(w, Swaps, s)
    BY <1>11
  <2> DEFINE ub == In(u, Bdevs, b)
             us == In(u, Swaps, s)
             wb == In(w, Bdevs, b)
             ws == In(w, Swaps, s)
             B == BufferPages(n)
             S == SwapPages(n)
  <2>4. /\ FilePages(n) = n["file"] + B + S
        /\ FilePages(m) = (n["file"] - One(u, "file") + One(w, "file")) + (B - ub + wb) + (S - us + ws)
    BY <1>10, <2>1 DEF FilePages
  <2> HIDE DEF One, Filed, ub, us, wb, ws, B, S
  <2>5. /\ Filed(u) = One(u, "file") + ub + us /\ Filed(w) = One(w, "file") + wb + ws
        /\ ub \in Int /\ us \in Int /\ wb \in Int /\ ws \in Int /\ B \in Int /\ S \in Int
    BY <2>1, <2>2, <2>3 DEF ub, us, wb, ws, B, S
  <2>6. \A f, o, p \in Int : (f - o + p) + (B - ub + wb) + (S - us + ws)
                             = (f + B + S) - (o + ub + us) + (p + wb + ws)
    BY <2>5
  <2>7. n["file"] \in Int /\ One(u, "file") \in Int /\ One(w, "file") \in Int
    BY <2>1, <2>2
  <2> QED
    BY SMTT(30), <2>4, <2>5, <2>6, <2>7
<1>13. RamPages(m) = RamPages(n) - Ram(u) + Ram(w)
  <2>1. /\ n["free"] \in Int /\ n["anon"] \in Int /\ FilePages(n) \in Int
        /\ m["free"] = n["free"] - One(u, "free") + One(w, "free")
        /\ m["anon"] = n["anon"] - One(u, "anon") + One(w, "anon")
    BY <1>4, PagesInt
  <2>2. /\ One(u, "free") \in Int /\ One(w, "free") \in Int /\ One(u, "anon") \in Int
        /\ One(w, "anon") \in Int /\ Filed(u) \in Int /\ Filed(w) \in Int
    OBVIOUS
  <2>3. /\ Ram(u) = One(u, "free") + One(u, "anon") + Filed(u)
        /\ Ram(w) = One(w, "free") + One(w, "anon") + Filed(w)
    BY <1>11
  <2> HIDE DEF One, Filed, Ram
  <2> QED
    BY SMTT(30), <1>12, <2>1, <2>2, <2>3 DEF RamPages
<1>14. \A v \in Variables : Weight(u, at)[v] \in Int /\ Weight(w, at)[v] \in Int
  <2>1. ASSUME NEW x \in {u, w}
        PROVE  /\ Weight(x, at).MemTotal \in Int /\ Weight(x, at).MemFree \in Int
               /\ Weight(x, at).Buffers \in Int /\ Weight(x, at).file_size \in Int
               /\ Weight(x, at).swapcache_size \in Int /\ Weight(x, at).bufferram \in Int
    <3>1. \A seq, k : In(x, seq, k) \in Int
      BY <1>8
    <3> QED
      BY SMTT(30), <3>1 DEF Weight
  <2> QED
    BY <2>1 DEF Variables
<1>15. /\ Rest(m, at).MemTotal = Rest(n, at).MemTotal - Weight(u, at).MemTotal + Weight(w, at).MemTotal
       /\ Rest(m, at).MemFree = Rest(n, at).MemFree - Weight(u, at).MemFree + Weight(w, at).MemFree
       /\ Rest(m, at).file_size = Rest(n, at).file_size - Weight(u, at).file_size + Weight(w, at).file_size
  <2>1. RamPages(n) \in Int /\ FilePages(n) \in Int /\ n["free"] \in Int
    BY PagesInt
  <2>2. m["free"] = n["free"] - One(u, "free") + One(w, "free")
    BY <1>4
  <2> QED
    BY <1>12, <1>13, <2>1, <2>2 DEF Rest, Weight
<1>16. /\ Rest(m, at).Buffers = Rest(n, at).Buffers - Weight(u, at).Buffers + Weight(w, at).Buffers
       /\ Rest(m, at).swapcache_size
            = Rest(n, at).swapcache_size - Weight(u, at).swapcache_size + Weight(w, at).swapcache_size
       /\ Rest(m, at).bufferram = Rest(n, at).bufferram - Weight(u, at).bufferram + Weight(w, at).bufferram
  BY <1>7, <1>9 DEF Rest, Weight
<1> QED
  BY <1>14, <1>15, <1>16 DEF Variables

\* A page counts for at most one page in every figure shown, and how it counts
\* depends on its use.
LEMMA WeightIs ==
  ASSUME NEW u \in PageUses, NEW at \in Int
  PROVE  LET p == Weight(u, at)
             c == WillCached(p)
             d == WillUsed(p)
         IN  /\ p.MemTotal \in 0..1 /\ p.MemFree \in 0..1 /\ p.Buffers \in 0..1
             /\ c \in -1..1 /\ d \in -1..1 /\ (at < 1 => d >= 0) /\ (at = 1 => d <= 0)
             /\ u = "free" => c = 0 /\ d = IF at = 1 THEN -1 ELSE 0
             /\ u = "anon" => c = 0 /\ d = IF at < 1 THEN 1 ELSE 0
             /\ u \in Range(Swaps) => c <= 0 /\ d >= 0 /\ (at < 1 => d = 1)
<1> DEFINE b == Len(Bdevs)
           s == Len(Swaps)
           B == In(u, Bdevs, b)
           S == In(u, Swaps, s)
           B1 == In(u, Bdevs, Done(at, 2, b))
           S2 == In(u, Swaps, Done(at, SwapAt, s))
           B3 == In(u, Bdevs, Done(at, LastAt, b))
           t == IF at < 1 /\ u # "balloon" THEN 1 ELSE 0
           r == IF at < 2 /\ u = "free" THEN 1 ELSE 0
           f == IF at < SwapAt /\ u \notin {"balloon", "free", "anon"} THEN 1 ELSE 0
           p == Weight(u, at)
<1>1. b \in Nat /\ s \in Nat /\ SwapAt = 3 + b /\ LastAt = 3 + b + s
  BY SMTT(30), LoadsAre DEF FileAt, SwapAt, LastAt
<1>2. SwapAt \in Nat /\ LastAt \in Nat /\ 2 \in Nat
  BY <1>1
<1>3. ASSUME NEW seq, NEW k \in Nat, NEW l \in 0..k PROVE In(u, seq, l) = 1 => In(u, seq, k) = 1
  <2>1. \A j \in 1..l : j \in 1..k
    OBVIOUS
  <2>2. 0 # 1
    OBVIOUS
  <2> QED
    BY <2>1, <2>2 DEF In
<1>4. /\ Done(at, 2, b) \in 0..b /\ Done(at, SwapAt, s) \in 0..s /\ Done(at, LastAt, b) \in 0..b
      /\ (at <= 2 => Done(at, 2, b) = 0) /\ (at >= 2 + b => Done(at, 2, b) = b)
      /\ (at <= SwapAt => Done(at, SwapAt, s) = 0)
      /\ (at <= LastAt => Done(at, LastAt, b) = 0)
  <2> HIDE DEF b, s
  <2>1. /\ Done(at, 2, b) \in 0..b /\ (at <= 2 => Done(at, 2, b) = 0)
        /\ (at >= 2 + b => Done(at, 2, b) = b)
    BY ZenonT(30), <1>1, <1>2, DoneIs
  <2>2. Done(at, SwapAt, s) \in 0..s /\ (at <= SwapAt => Done(at, SwapAt, s) = 0)
    BY ZenonT(30), <1>1, <1>2, DoneIs
  <2>3. Done(at, LastAt, b) \in 0..b /\ (at <= LastAt => Done(at, LastAt, b) = 0)
    BY ZenonT(30), <1>1, <1>2, DoneIs
  <2> QED
    BY <2>1, <2>2, <2>3
<1>5. /\ B \in {0, 1} /\ S \in {0, 1} /\ B1 \in {0, 1} /\ S2 \in {0, 1} /\ B3 \in {0, 1}
      /\ (B1 = 1 => B = 1) /\ (S2 = 1 => S = 1) /\ (B3 = 1 => B = 1)
      /\ (at <= 2 => B1 = 0) /\ (at >= 2 + b => B1 = B) /\ (at <= SwapAt => S2 = 0)
      /\ (at <= LastAt => B3 = 0)
  BY <1>1, <1>3, <1>4, UsesAre
<1>6. /\ \/ u \in MainUses /\ B = 0 /\ S = 0
         \/ u \notin MainUses /\ B = 1 /\ S = 0
         \/ u \notin MainUses /\ B = 0 /\ S = 1
      /\ u \in Range(Swaps) => S = 1
  BY UsesAre
<1>7. /\ p.MemTotal = t /\ p.MemFree = r /\ p.Buffers = B - B1
      /\ WillCached(p) = f - (S - S2) - (B - B3)
      /\ WillUsed(p) = t - r - (B - B1) - (f - (S - S2) - (B - B3))
  BY DEF Weight, WillCached, WillUsed
<1> HIDE DEF B, S, B1, S2, B3, p
<1>8. CASE u \in MainUses
  <2>1. /\ B = 0 /\ S = 0 /\ B1 = 0 /\ S2 = 0 /\ B3 = 0 /\ u \notin Range(Swaps)
    BY SMTT(30), <1>5, <1>6, <1>8
  <2> QED
    BY <1>1, <1>7, <1>8, <2>1 DEF MainUses, p
<1>9. CASE u \notin MainUses
  <2>1. /\ t = (IF at < 1 THEN 1 ELSE 0) /\ r = 0 /\ f = (IF at < SwapAt THEN 1 ELSE 0)
        /\ u # "free" /\ u # "anon"
    BY <1>9 DEF MainUses
  <2> HIDE DEF t, r, f
  <2>2. CASE B = 1
    <3>1. S = 0 /\ S2 = 0 /\ u \notin Range(Swaps)
      BY <1>5, <1>6, <2>2
    <3> QED
      BY SMTT(30), <1>1, <1>5, <1>7, <2>1, <2>2, <3>1 DEF p
  <2>3. CASE S = 1
    <3>1. B = 0 /\ B1 = 0 /\ B3 = 0
      BY <1>5, <1>6, <2>3
    <3> QED
      BY SMTT(30), <1>1, <1>5, <1>7, <2>1, <2>3, <3>1 DEF p
  <2> QED
    BY <1>6, <1>9, <2>2, <2>3
<1> QED
  BY <1>8, <1>9

\* Moves the guest makes.
Allowed(u, w) == "free" \in {u, w} \/ ("anon" \in {u, w} /\ {u, w} \cap Range(Swaps) # {})

\* A page move changes no figure by more than a page.
LEMMA MoveOff ==
  ASSUME NEW u \in PageUses, NEW w \in PageUses, NEW at \in Int, Allowed(u, w)
  PROVE  LET p == Weight(u, at)
             q == Weight(w, at)
         IN  /\ Off(q.MemTotal, p.MemTotal, 1) /\ Off(q.MemFree, p.MemFree, 1)
             /\ Off(q.Buffers, p.Buffers, 1) /\ Off(WillCached(q), WillCached(p), 1)
             /\ Off(WillUsed(q), WillUsed(p), 1)
<1> DEFINE p == Weight(u, at)
           q == Weight(w, at)
           c == WillCached(p)
           d == WillUsed(p)
           e == WillCached(q)
           g == WillUsed(q)
<1>1. /\ p.MemTotal \in 0..1 /\ p.MemFree \in 0..1 /\ p.Buffers \in 0..1
      /\ c \in -1..1 /\ d \in -1..1 /\ (at < 1 => d >= 0) /\ (at = 1 => d <= 0)
      /\ u = "free" => c = 0 /\ d = IF at = 1 THEN -1 ELSE 0
      /\ u = "anon" => c = 0 /\ d = IF at < 1 THEN 1 ELSE 0
      /\ u \in Range(Swaps) => c <= 0 /\ d >= 0 /\ (at < 1 => d = 1)
  BY WeightIs
<1>2. /\ q.MemTotal \in 0..1 /\ q.MemFree \in 0..1 /\ q.Buffers \in 0..1
      /\ e \in -1..1 /\ g \in -1..1 /\ (at < 1 => g >= 0) /\ (at = 1 => g <= 0)
      /\ w = "free" => e = 0 /\ g = IF at = 1 THEN -1 ELSE 0
      /\ w = "anon" => e = 0 /\ g = IF at < 1 THEN 1 ELSE 0
      /\ w \in Range(Swaps) => e <= 0 /\ g >= 0 /\ (at < 1 => g = 1)
  BY WeightIs
<1> HIDE DEF p, q, c, d, e, g
<1>3. /\ Off(q.MemTotal, p.MemTotal, 1) /\ Off(q.MemFree, p.MemFree, 1)
      /\ Off(q.Buffers, p.Buffers, 1)
  BY <1>1, <1>2 DEF Off
<1>4. \/ u = "free"
      \/ w = "free"
      \/ u = "anon" /\ w \in Range(Swaps)
      \/ w = "anon" /\ u \in Range(Swaps)
  <2>1. "anon" \notin Range(Swaps)
    BY MemAssumption DEF MainUses
  <2>2. {u, w} \cap Range(Swaps) # {} => u \in Range(Swaps) \/ w \in Range(Swaps)
    OBVIOUS
  <2>3. \A x : x \in {u, w} => x = u \/ x = w
    OBVIOUS
  <2> QED
    BY <2>1, <2>2, <2>3 DEF Allowed
<1>5. Off(e, c, 1)
  BY <1>1, <1>2, <1>4 DEF Off
<1>6. Off(g, d, 1)
  <2>1. CASE u = "free"
    BY <1>1, <1>2, <2>1 DEF Off
  <2>2. CASE w = "free"
    BY SMTT(30), <1>1, <1>2, <2>2 DEF Off
  <2>3. CASE u = "anon" /\ w \in Range(Swaps)
    BY <1>1, <1>2, <2>3 DEF Off
  <2>4. CASE w = "anon" /\ u \in Range(Swaps)
    BY <1>1, <1>2, <2>4 DEF Off
  <2> QED
    BY <1>4, <2>1, <2>2, <2>3, <2>4
<1> QED
  BY <1>3, <1>5, <1>6 DEF p, q, c, d, e, g

\* Nothing is loaded at first, and nothing has moved.
LEMMA AllLeft ==
  ASSUME NEW n \in [PageUses -> Int], NEW x, x = [v \in Variables |-> 0], NEW at \in {-1, 0}
  PROVE  AllOff(Will(x, Rest(n, at)), n, 0)
<1> DEFINE y == Will(x, Rest(n, at))
<1>1. /\ FileAt \in Nat /\ SwapAt \in Nat /\ LastAt \in Nat /\ 2 \in Nat /\ at \in Int
      /\ at < 1 /\ at < 2 /\ at < SwapAt /\ at <= 2 /\ at <= SwapAt /\ at <= LastAt
      /\ Len(Bdevs) \in Nat /\ Len(Swaps) \in Nat
  BY SMTT(30), LoadsAre DEF FileAt, SwapAt, LastAt
<1>2. /\ Done(at, 2, Len(Bdevs)) = 0 /\ Done(at, SwapAt, Len(Swaps)) = 0
      /\ Done(at, LastAt, Len(Bdevs)) = 0
  <2>1. Done(at, 2, Len(Bdevs)) = 0
    BY ZenonT(30), <1>1, DoneIs
  <2>2. Done(at, SwapAt, Len(Swaps)) = 0
    BY ZenonT(30), <1>1, DoneIs
  <2>3. Done(at, LastAt, Len(Bdevs)) = 0
    BY ZenonT(30), <1>1, DoneIs
  <2> QED
    BY <2>1, <2>2, <2>3
<1>3. FirstPages(n, Bdevs, 0) = 0 /\ FirstPages(n, Swaps, 0) = 0
  BY FirstIs DEF Devices
<1>4. /\ n["free"] \in Int /\ n["anon"] \in Int /\ n["file"] \in Int
      /\ BufferPages(n) \in Int /\ SwapPages(n) \in Int
      /\ FilePages(n) \in Int /\ RamPages(n) \in Int
  BY PagesInt
<1>5. /\ Left(n, Bdevs, at, 2) = BufferPages(n) /\ Left(n, Swaps, at, SwapAt) = SwapPages(n)
      /\ Left(n, Bdevs, at, LastAt) = BufferPages(n)
  <2>1. BufferPages(n) - 0 = BufferPages(n) /\ SwapPages(n) - 0 = SwapPages(n)
    BY <1>4
  <2> QED
    BY <1>2, <1>3, <2>1 DEF Left, BufferPages, SwapPages
<1>6. /\ y.MemTotal = 0 + RamPages(n) /\ y.MemFree = 0 + n["free"] /\ y.Buffers = 0 + BufferPages(n)
      /\ y.file_size = 0 + FilePages(n) /\ y.swapcache_size = 0 + SwapPages(n)
      /\ y.bufferram = 0 + BufferPages(n)
  BY <1>1, <1>5 DEF Will, Rest, Variables
<1>7. /\ FilePages(n) = n["file"] + BufferPages(n) + SwapPages(n)
      /\ RamPages(n) = n["free"] + n["anon"] + FilePages(n)
  BY DEF FilePages, RamPages
<1> HIDE DEF y
<1>8. /\ y.MemTotal = RamPages(n) /\ y.MemFree = n["free"] /\ y.Buffers = BufferPages(n)
      /\ WillCached(y) = n["file"] /\ WillUsed(y) = n["anon"] + SwapPages(n)
  BY <1>4, <1>6, <1>7 DEF WillCached, WillUsed
<1>9. \A a \in Int : Off(a, a, 0)
  BY DEF Off
<1>10. n["anon"] + SwapPages(n) \in Int
  BY <1>4
<1> QED
  BY <1>4, <1>8, <1>9, <1>10 DEF AllOff, y

\* What the command begins with.
LEMMA NothingLoaded ==
  LET x == [v \in Variables |-> 0]
  IN  x \in [Variables -> Int] /\ NoStat = [v \in Variables |-> Unsigned(PAGE_KB * x[v])]
<1>1. PAGE_KB * 0 = 0 /\ 0 % Word = 0
  BY WordType, MemAssumption
<1> QED
  BY <1>1 DEF NoStat, Unsigned

\* The invariant holds without a command.
LEMMA MemIdle ==
  ASSUME NEW n \in [PageUses -> Int]
  PROVE  MemInvAt(n, n, 0, -1, NoStat)
<1> DEFINE x == [v \in Variables |-> 0]
<1>1. x \in [Variables -> Int] /\ NoStat = [v \in Variables |-> Unsigned(PAGE_KB * x[v])]
  BY NothingLoaded
<1>2. AllOff(Will(x, Rest(n, -1)), n, 0)
  BY AllLeft
<1>3. -1 \in -1..Len(get_mem_usage) /\ 0 \in Nat
  BY LoadsAre DEF FileAt, SwapAt, LastAt
<1> HIDE DEF x
<1> QED
  BY <1>1, <1>2, <1>3 DEF MemInvAt

\* The invariant holds at first.
LEMMA MemInitInv == MemInit => MemInv
<1> SUFFICES ASSUME MemInit PROVE MemInv
  OBVIOUS
<1>1. count \in [PageUses -> Int]
  BY MemAssumption DEF MemInit
<1> QED
  BY <1>1, MemIdle DEF MemInit, MemInv

\* Starting the command keeps it.
LEMMA MemStart == MemInv /\ mem_usage_handle => MemInv'
<1> SUFFICES ASSUME MemInv, mem_usage_handle PROVE MemInv'
  OBVIOUS
<1> DEFINE x == [v \in Variables |-> 0]
<1>0. step = -1 /\ step' = 0 /\ count' = count /\ stat' = stat /\ moves' = moves /\ before' = before
  BY DEF mem_usage_handle
<1>1. /\ count \in [PageUses -> Int] /\ before = count /\ moves = 0 /\ stat = NoStat
  BY <1>0 DEF MemInv, MemInvAt
<1>2. x \in [Variables -> Int] /\ stat' = [v \in Variables |-> Unsigned(PAGE_KB * x[v])]
  BY <1>0, <1>1, NothingLoaded
<1>3. AllOff(Will(x, Rest(count, 0)), count, 0)
  BY <1>1, AllLeft
<1>4. AllOff(Will(x, Rest(count', step')), before', moves')
  BY <1>0, <1>1, <1>3
<1>5. step' \in -1..Len(get_mem_usage) /\ moves' \in Nat /\ step' # -1
  BY <1>0, <1>1, LoadsAre DEF FileAt, SwapAt, LastAt
<1> HIDE DEF x
<1>6. count' \in [PageUses -> Int] /\ before' \in [PageUses -> Int]
  BY <1>0, <1>1
<1> QED
  BY <1>2, <1>4, <1>5, <1>6 DEF MemInv, MemInvAt

\* A bound on the error grows by one with every page moved.
LEMMA OffMore ==
  ASSUME NEW a \in Int, NEW b \in Int, NEW m \in Int, NEW p \in Int, NEW q \in Int,
         Off(a, b, m), Off(q, p, 1)
  PROVE  Off(a - p + q, b, m + 1)
BY DEF Off

\* A page moves: with a command under way, every figure is at most one more off.
LEMMA MemMove == MemInv /\ MovePage => MemInv'
<1> SUFFICES ASSUME MemInv, MovePage PROVE MemInv'
  OBVIOUS
<1>1. PICK u \in PageUses, w \in PageUses :
        u # w /\ Allowed(u, w) /\ count' = Moved(count, u, w)
  BY DEF MovePage, Allowed, Moved
<1>2. /\ count \in [PageUses -> Int] /\ before \in [PageUses -> Int] /\ moves \in Nat
      /\ step \in -1..Len(get_mem_usage) /\ step' = step /\ stat' = stat
      /\ step = -1 => stat = NoStat
  BY DEF MemInv, MemInvAt, MovePage
<1>3. count' \in [PageUses -> Int]
  BY SMTT(30), <1>1, <1>2 DEF Moved
<1>4. CASE step = -1
  <2>1. ~(step >= 0)
    BY <1>4
  <2>2. before' = count' /\ moves' = 0 /\ step' = -1 /\ stat' = NoStat
    BY <1>2, <1>4, <2>1 DEF MovePage
  <2> QED
    BY <1>3, <2>2, MemIdle DEF MemInv
<1>5. CASE step # -1
  <2>1. step \in Int /\ step >= 0 /\ step' # -1
    BY SMTT(30), <1>2, <1>5, LoadsAre DEF FileAt, SwapAt, LastAt
  <2>2. before' = before /\ moves' = moves + 1 /\ moves' \in Nat
    BY SMTT(30), <1>2, <2>1 DEF MovePage
  <2>3. PICK x \in [Variables -> Int] :
          /\ stat = [v \in Variables |-> Unsigned(PAGE_KB * x[v])]
          /\ AllOff(Will(x, Rest(count, step)), before, moves)
    BY DEF MemInv, MemInvAt
  <2> DEFINE y == Will(x, Rest(count, step))
             z == Will(x, Rest(count', step))
             p == Weight(u, step)
             q == Weight(w, step)
  <2>4. \A v \in Variables :
          /\ p[v] \in Int /\ q[v] \in Int
          /\ Rest(count', step)[v] = Rest(count, step)[v] - p[v] + q[v]
    BY SMTT(30), <1>1, <1>2, <2>1, RestMove
  <2>5. \A v \in Variables : Rest(count, step)[v] \in Int
    BY <1>2, <2>1, RestInt
  <2>6. \A v \in Variables : y[v] \in Int /\ z[v] = y[v] - p[v] + q[v]
    BY SMTT(30), <2>4, <2>5 DEF Will
  <2>7. /\ Off(q.MemTotal, p.MemTotal, 1) /\ Off(q.MemFree, p.MemFree, 1)
        /\ Off(q.Buffers, p.Buffers, 1) /\ Off(WillCached(q), WillCached(p), 1)
        /\ Off(WillUsed(q), WillUsed(p), 1)
    BY <1>1, <2>1, MoveOff
  <2> HIDE DEF y, z, p, q
  <2>8. /\ "MemTotal" \in Variables /\ "MemFree" \in Variables /\ "Buffers" \in Variables
        /\ "file_size" \in Variables /\ "swapcache_size" \in Variables /\ "bufferram" \in Variables
    BY DEF Variables
  <2>9. /\ WillCached(y) \in Int /\ WillCached(p) \in Int /\ WillCached(q) \in Int
        /\ WillCached(z) = WillCached(y) - WillCached(p) + WillCached(q)
    <3>1. \A v \in {"file_size", "swapcache_size", "bufferram"} :
            y[v] \in Int /\ p[v] \in Int /\ q[v] \in Int /\ z[v] = y[v] - p[v] + q[v]
      BY <2>4, <2>6, <2>8
    <3> QED
      BY <3>1 DEF WillCached
  <2>10. /\ WillUsed(y) \in Int /\ WillUsed(p) \in Int /\ WillUsed(q) \in Int
         /\ WillUsed(z) = WillUsed(y) - WillUsed(p) + WillUsed(q)
    <3>1. \A v \in {"MemTotal", "MemFree", "Buffers"} :
            y[v] \in Int /\ p[v] \in Int /\ q[v] \in Int /\ z[v] = y[v] - p[v] + q[v]
      BY <2>4, <2>6, <2>8
    <3> QED
      BY <2>9, <3>1 DEF WillUsed
  <2>11. /\ Off(y.MemTotal, RamPages(before), moves) /\ Off(y.MemFree, before["free"], moves)
         /\ Off(y.Buffers, BufferPages(before), moves) /\ Off(WillCached(y), before["file"], moves)
         /\ Off(WillUsed(y), before["anon"] + SwapPages(before), moves)
    BY <2>3 DEF AllOff, y
  <2>12. /\ RamPages(before) \in Int /\ before["free"] \in Int /\ BufferPages(before) \in Int
         /\ before["file"] \in Int /\ before["anon"] + SwapPages(before) \in Int
         /\ moves \in Int
    BY SMTT(30), <1>2, PagesInt
  <2>13. /\ Off(z.MemTotal, RamPages(before), moves + 1)
         /\ Off(z.MemFree, before["free"], moves + 1)
         /\ Off(z.Buffers, BufferPages(before), moves + 1)
    BY SMTT(30), <2>4, <2>6, <2>7, <2>8, <2>11, <2>12, OffMore
  <2>14. /\ Off(WillCached(z), before["file"], moves + 1)
         /\ Off(WillUsed(z), before["anon"] + SwapPages(before), moves + 1)
    BY SMTT(30), <2>7, <2>9, <2>10, <2>11, <2>12, OffMore
  <2>15. AllOff(z, before, moves + 1)
    BY <2>13, <2>14 DEF AllOff
  <2> QED
    BY <1>2, <1>3, <2>1, <2>2, <2>3, <2>15 DEF MemInv, MemInvAt, z
<1> QED
  BY <1>4, <1>5

\* Adding before or after wrapping is the same.
LEMMA AddWrapped ==
  ASSUME NEW a \in Int, NEW b \in Int
  PROVE  Unsigned(Unsigned(a) + b) = Unsigned(a + b)
<1> DEFINE r == a % Word
<1>1. r \in 0..(Word - 1) /\ Cong(r, a)
  BY CongMod
<1>2. \A z \in 0..(Word - 1) : z \in Int
  BY WordType
<1>3. r \in Int /\ Cong(b, b)
  BY <1>1, <1>2, CongEquiv
<1> HIDE DEF r
<1>4. Cong(r + b, a + b)
  BY <1>1, <1>3, CongSub
<1>5. r + b \in Int /\ a + b \in Int
  BY <1>3
<1>6. (r + b) % Word = (a + b) % Word
  BY <1>4, <1>5, ModCong
<1> QED
  BY <1>6 DEF Unsigned, r

\* A load adds to its variable what it takes from what is left.
LEMMA MemLoad == MemInv /\ LoadCount => MemInv'
<1> SUFFICES ASSUME MemInv, LoadCount PROVE MemInv'
  OBVIOUS
<1>l. PICK load : load = get_mem_usage[step + 1]
  OBVIOUS
<1> DEFINE c == PagesOf(count, load.of)
<1>1. /\ step \in 0..(Len(get_mem_usage) - 1) /\ step' = step + 1
      /\ count' = count /\ moves' = moves /\ before' = before
      /\ stat' = [stat EXCEPT ![load.to] = Unsigned(@ + PAGE_KB * c)]
  BY <1>l DEF LoadCount
<1>2. count \in [PageUses -> Int] /\ before \in [PageUses -> Int] /\ moves \in Nat
  BY DEF MemInv, MemInvAt
<1>3. Len(get_mem_usage) \in Nat
  BY SMTT(30), LoadsAre DEF FileAt, SwapAt, LastAt
<1>4. step \in Int /\ step' \in -1..Len(get_mem_usage) /\ step' # -1
  BY SMTT(30), <1>1, <1>3
<1>5. PICK x \in [Variables -> Int] :
        /\ stat = [v \in Variables |-> Unsigned(PAGE_KB * x[v])]
        /\ AllOff(Will(x, Rest(count, step)), before, moves)
  BY DEF MemInv, MemInvAt
<1>6. /\ load.to \in Variables /\ c \in Int
      /\ \A v \in Variables :
           Rest(count, step)[v] = Rest(count, step + 1)[v] + Share(v, load.to, c)
  <2>1. step \in 0..(Len(get_mem_usage) - 1)
    BY <1>1
  <2>2. /\ load.to \in Variables /\ PagesOf(count, load.of) \in Int
        /\ \A v \in Variables : Rest(count, step)[v]
             = Rest(count, step + 1)[v] + Share(v, load.to, PagesOf(count, load.of))
    BY ZenonT(30), <1>2, <1>l, <2>1, RestStep
  <2> QED
    BY <2>2
<1> HIDE DEF c
<1> DEFINE t == load.to
           z == [x EXCEPT ![t] = x[t] + c]
<1>7. z \in [Variables -> Int]
  BY SMTT(30), <1>6
<1>8. stat' = [v \in Variables |-> Unsigned(PAGE_KB * z[v])]
  <2>1. Unsigned(Unsigned(PAGE_KB * x[t]) + PAGE_KB * c) = Unsigned(PAGE_KB * (x[t] + c))
    <3>1. PAGE_KB \in Int /\ x[t] \in Int /\ c \in Int
      BY SMTT(30), <1>6, MemAssumption
    <3>2. /\ PAGE_KB * x[t] \in Int /\ PAGE_KB * c \in Int
          /\ PAGE_KB * x[t] + PAGE_KB * c = PAGE_KB * (x[t] + c)
      BY SMTT(30), <3>1
    <3> QED
      BY <3>2, AddWrapped
  <2>2. stat[t] = Unsigned(PAGE_KB * x[t])
    BY <1>5, <1>6
  <2>3. stat' = [stat EXCEPT ![t] = Unsigned(PAGE_KB * (x[t] + c))]
    BY <1>1, <2>1, <2>2
  <2>4. \A v \in Variables : z[v] = IF v = t THEN x[t] + c ELSE x[v]
    BY <1>6
  <2> HIDE DEF z
  <2> QED
    BY <1>5, <1>6, <2>3, <2>4
<1>9. Will(z, Rest(count, step + 1)) = Will(x, Rest(count, step))
  <2>1. \A v \in Variables : Rest(count, step + 1)[v] \in Int
    <3>1. step + 1 \in Int
      BY <1>4
    <3> QED
      BY <1>2, <3>1, RestInt
  <2>2. ASSUME NEW v \in Variables
        PROVE  z[v] + Rest(count, step + 1)[v] = x[v] + Rest(count, step)[v]
    <3> DEFINE r == Rest(count, step + 1)[v]
    <3>1. r \in Int /\ x[v] \in Int /\ c \in Int
      BY <1>6, <2>1
    <3>2. Rest(count, step)[v] = r + IF v = t THEN c ELSE 0
      BY <1>6 DEF Share
    <3>3. z[v] = IF v = t THEN x[v] + c ELSE x[v]
      BY <1>6
    <3> HIDE DEF r, z
    <3>4. z[v] + r = x[v] + Rest(count, step)[v]
      BY SMTT(30), <3>1, <3>2, <3>3
    <3> QED
      BY <3>4 DEF r
  <2> HIDE DEF z
  <2> QED
    BY <2>2 DEF Will
<1> HIDE DEF z
<1>10. AllOff(Will(z, Rest(count', step')), before', moves')
  BY <1>1, <1>5, <1>9
<1> QED
  BY <1>1, <1>2, <1>4, <1>7, <1>8, <1>10 DEF MemInv, MemInvAt

\* The end of the command.
LEMMA MemPrint == MemInv /\ PrintMemory => MemInv'
<1> SUFFICES ASSUME MemInv, PrintMemory PROVE MemInv'
  OBVIOUS
<1>1. /\ count' \in [PageUses -> Int] /\ before' = count' /\ moves' = 0 /\ step' = -1
      /\ stat' = NoStat
  BY DEF MemInv, MemInvAt, PrintMemory
<1> QED
  BY <1>1, MemIdle DEF MemInv

\* Every step of the command and of the guest keeps the invariant.
LEMMA MemNextInv == MemInv /\ [MemNext]_memVars => MemInv'
<1>1. MemInv /\ UNCHANGED memVars => MemInv'
  BY DEF MemInv, memVars
<1> QED
  BY <1>1, MemMove, MemStart, MemLoad, MemPrint DEF MemNext

\* A number of pages that is at most moves off is shown as one.
LEMMA NearIs ==
  ASSUME NEW a \in Int, NEW b \in Int, moves \in Nat, Off(a, b, moves)
  PROVE  Near(Unsigned(PAGE_KB * a), b)
<1>1. a - b \in -moves..moves /\ b + (a - b) = a
  BY DEF Off
<1> QED
  BY <1>1 DEF Near, Unsigned

\* What is stored is what was meant, moved by t or not.
LEMMA CongShift ==
  ASSUME NEW a \in Int, NEW t \in Int
  PROVE  /\ a % Word \in Int
         /\ Cong((a % Word) + t, a + t) /\ Cong((a % Word) - t, a - t)
<1>1. a % Word \in 0..(Word - 1) /\ Cong(a % Word, a)
  BY CongMod
<1>2. a % Word \in Int
  BY SMTT(30), <1>1, WordType
<1>3. Cong(t, t)
  BY CongEquiv
<1> QED
  BY <1>1, <1>2, <1>3, CongSub

\* Every figure free prints is off by at most one page for each page the guest
\* moved during the command, for any number of devices and pages, although the
\* counters are loaded one by one and the arithmetic wraps; Cached and the memory
\* in use moreover by what getCached loses in keeping the swap cache's size in 32
\* bits, which is nothing below 4 TB of it.
THEOREM MemoryRight == MemInit /\ [][MemNext]_memVars => []MemErrorBounded
<1>1. MemInv => MemErrorBounded
  <2> SUFFICES ASSUME MemInv, step = Len(get_mem_usage)
               PROVE  /\ Near(stat.MemTotal, RamPages(before))
                      /\ Near(stat.MemFree, before["free"])
                      /\ Near(stat.Buffers, BufferPages(before))
                      /\ Near(Unsigned(Cached - Truncated), before["file"])
                      /\ Near(Unsigned(UsedMem + Truncated),
                              before["anon"] + SwapPages(before))
    BY DEF MemErrorBounded
  <2>1. count \in [PageUses -> Int] /\ before \in [PageUses -> Int] /\ moves \in Nat
    BY DEF MemInv, MemInvAt
  <2>2. PICK x \in [Variables -> Int] :
          /\ stat = [v \in Variables |-> Unsigned(PAGE_KB * x[v])]
          /\ AllOff(Will(x, Rest(count, step)), before, moves)
    BY DEF MemInv, MemInvAt
  <2> DEFINE b == Len(Bdevs)
             s == Len(Swaps)
             y == Will(x, Rest(count, step))
  <2>3. /\ b \in Nat /\ s \in Nat /\ SwapAt \in Nat /\ LastAt \in Nat /\ 2 \in Nat /\ step \in Int
        /\ ~(step < 1) /\ ~(step < 2) /\ ~(step < SwapAt)
        /\ step >= 2 + b /\ step >= SwapAt + s /\ step >= LastAt + b
    BY SMTT(30), LoadsAre DEF FileAt, SwapAt, LastAt
  <2>4. Done(step, 2, b) = b /\ Done(step, SwapAt, s) = s /\ Done(step, LastAt, b) = b
    <3>1. Done(step, 2, b) = b
      BY <2>3, DoneIs
    <3>2. Done(step, SwapAt, s) = s
      BY <2>3, DoneIs
    <3>3. Done(step, LastAt, b) = b
      BY <2>3, DoneIs
    <3> QED
      BY <3>1, <3>2, <3>3
  <2>5. /\ Left(count, Bdevs, step, 2) = 0 /\ Left(count, Swaps, step, SwapAt) = 0
        /\ Left(count, Bdevs, step, LastAt) = 0
    <3>1. BufferPages(count) - BufferPages(count) = 0 /\ SwapPages(count) - SwapPages(count) = 0
      BY <2>1, PagesInt
    <3> QED
      BY <2>4, <3>1 DEF Left, BufferPages, SwapPages
  <2>6. \A v \in Variables : Rest(count, step)[v] = 0
    BY <2>3, <2>5 DEF Rest, Variables
  <2>7. y = x
    <3>1. \A v \in Variables : x[v] + 0 = x[v]
      OBVIOUS
    <3> QED
      BY <2>6, <3>1 DEF Will
  <2>8. AllOff(x, before, moves)
    BY <2>2, <2>7
  <2>9. /\ x.MemTotal \in Int /\ x.MemFree \in Int /\ x.Buffers \in Int
        /\ x.file_size \in Int /\ x.swapcache_size \in Int /\ x.bufferram \in Int
    BY DEF Variables
  <2> DEFINE U(a) == Unsigned(PAGE_KB * a)
  <2>10. /\ stat.MemTotal = U(x.MemTotal) /\ stat.MemFree = U(x.MemFree)
         /\ stat.Buffers = U(x.Buffers) /\ stat.file_size = U(x.file_size)
         /\ stat.swapcache_size = U(x.swapcache_size) /\ stat.bufferram = U(x.bufferram)
    BY <2>2 DEF Variables
  <2>11. ASSUME NEW a \in Int
         PROVE  U(a) \in Int /\ U(a) \in 0..(Word - 1) /\ Cong(U(a), PAGE_KB * a)
    <3>1. PAGE_KB * a \in Int
      BY SMTT(30), MemAssumption
    <3>2. (PAGE_KB * a) % Word \in 0..(Word - 1) /\ Cong((PAGE_KB * a) % Word, PAGE_KB * a)
      BY <3>1, CongMod
    <3>3. \A z \in 0..(Word - 1) : z \in Int
      BY WordType
    <3> QED
      BY <3>2, <3>3 DEF Unsigned
  <2>12. ASSUME NEW a \in Int, NEW c \in Int, NEW d \in Int, Cong(d, PAGE_KB * a)
         PROVE  d - U(c) \in Int /\ Cong(d - U(c), PAGE_KB * (a - c))
    <3>1. PAGE_KB * a \in Int /\ PAGE_KB * c \in Int /\ PAGE_KB * a - PAGE_KB * c = PAGE_KB * (a - c)
      BY SMTT(30), MemAssumption
    <3>2. U(c) \in Int /\ Cong(U(c), PAGE_KB * c)
      BY <2>11
    <3> HIDE DEF U
    <3>3. Cong(d - U(c), PAGE_KB * a - PAGE_KB * c)
      BY <2>12, <3>1, <3>2, CongSub
    <3> QED
      BY <3>1, <3>2, <3>3
  <2>13. ASSUME NEW a \in Int, NEW d \in Int, Cong(d, PAGE_KB * a)
         PROVE  Unsigned(d) = U(a)
    <3>1. PAGE_KB * a \in Int
      BY SMTT(30), MemAssumption
    <3> QED
      BY <2>13, <3>1, ModCong DEF Unsigned
  \* What the 32 bits lose of the swap cache cancels out.
  <2>t. /\ Truncated \in Int /\ stat.swapcache_size \in Int
        /\ stat.swapcache_size % Uint = stat.swapcache_size - Truncated
    <3>1. stat.swapcache_size \in Int
      BY <2>9, <2>10, <2>11
    <3>2. stat.swapcache_size % Uint \in Int
      BY SMTT(30), <3>1, MemAssumption
    <3> QED
      BY SMTT(30), <3>1, <3>2 DEF Truncated
  <2>14. /\ Cached \in Int /\ WillCached(x) \in Int
         /\ Cong(Cached - Truncated, PAGE_KB * WillCached(x))
    <3> DEFINE f == x.file_size
               g == x.swapcache_size
               h == x.bufferram
               t == Truncated
    <3>1. f \in Int /\ g \in Int /\ h \in Int /\ f - g \in Int /\ f - g - h \in Int /\ t \in Int
      BY <2>9, <2>t
    <3>2. Cached = (U(f) - (U(g) - t) - U(h)) % Word
      BY <2>10, <2>t DEF Cached, Unsigned
    <3>3. WillCached(x) = f - g - h
      BY DEF WillCached
    <3> HIDE DEF U, f, g, h, t
    <3>4. U(f) \in Int /\ U(g) \in Int /\ U(h) \in Int /\ Cong(U(f), PAGE_KB * f)
      BY <2>11, <3>1
    <3>5. U(f) - U(g) \in Int /\ Cong(U(f) - U(g), PAGE_KB * (f - g))
      BY <2>12, <3>1, <3>4
    <3>6. U(f) - U(g) - U(h) \in Int /\ Cong(U(f) - U(g) - U(h), PAGE_KB * (f - g - h))
      BY <2>12, <3>1, <3>5
    <3>7. /\ U(f) - (U(g) - t) - U(h) \in Int
          /\ (U(f) - (U(g) - t) - U(h)) - t = U(f) - U(g) - U(h)
      BY <3>1, <3>4
    <3> DEFINE A == U(f) - (U(g) - t) - U(h)
    <3>8. Cached = A % Word /\ A \in Int /\ A - t = U(f) - U(g) - U(h)
      BY <3>2, <3>7
    <3> HIDE DEF A
    <3>9. Cached \in Int /\ Cong(Cached - t, U(f) - U(g) - U(h))
      BY <3>1, <3>8, CongShift
    <3>10. Cached - t \in Int /\ PAGE_KB * (f - g - h) \in Int
      BY SMTT(30), <3>1, <3>9, MemAssumption
    <3>11. Cong(Cached - t, PAGE_KB * (f - g - h))
      BY <3>6, <3>9, <3>10, CongEquiv
    <3> QED
      BY <3>1, <3>3, <3>9, <3>11 DEF t
  <2>15. /\ WillUsed(x) \in Int /\ UsedMem + Truncated \in Int
         /\ Cong(UsedMem + Truncated, PAGE_KB * WillUsed(x))
    <3> DEFINE f == x.MemTotal
               g == x.MemFree
               h == x.Buffers
               c == WillCached(x)
               t == Truncated
               k == Cached
    <3>1. UsedMem = (U(f) - U(g) - U(h) - k) % Word
      BY <2>10 DEF UsedMem, Unsigned
    <3>2. WillUsed(x) = f - g - h - c
      BY DEF WillUsed
    <3>3. /\ f \in Int /\ g \in Int /\ h \in Int /\ c \in Int /\ t \in Int /\ k \in Int
          /\ Cong(k - t, PAGE_KB * c)
      BY <2>9, <2>14, <2>t
    <3> HIDE DEF U, f, g, h, c, t, k
    <3>4. f - g \in Int /\ f - g - h \in Int /\ f - g - h - c \in Int
      BY <3>3
    <3>5. U(f) \in Int /\ U(g) \in Int /\ U(h) \in Int /\ Cong(U(f), PAGE_KB * f)
      BY <2>11, <3>3
    <3>6. U(f) - U(g) \in Int /\ Cong(U(f) - U(g), PAGE_KB * (f - g))
      BY <2>12, <3>3, <3>4, <3>5
    <3>7. U(f) - U(g) - U(h) \in Int /\ Cong(U(f) - U(g) - U(h), PAGE_KB * (f - g - h))
      BY <2>12, <3>3, <3>4, <3>6
    <3>8. /\ PAGE_KB * (f - g - h) \in Int /\ PAGE_KB * c \in Int
          /\ PAGE_KB * (f - g - h) - PAGE_KB * c = PAGE_KB * (f - g - h - c)
          /\ PAGE_KB * (f - g - h - c) \in Int
      BY SMTT(30), <3>3, <3>4, MemAssumption
    <3>9. k - t \in Int /\ Cong((U(f) - U(g) - U(h)) - (k - t), PAGE_KB * (f - g - h - c))
      BY SMTT(30), <3>3, <3>7, <3>8, CongSub
    <3>10. /\ U(f) - U(g) - U(h) - k \in Int
           /\ (U(f) - U(g) - U(h) - k) + t = (U(f) - U(g) - U(h)) - (k - t)
           /\ (U(f) - U(g) - U(h)) - (k - t) \in Int
      BY <3>3, <3>5
    <3> DEFINE A == U(f) - U(g) - U(h) - k
    <3>11. UsedMem = A % Word /\ A \in Int /\ A + t = (U(f) - U(g) - U(h)) - (k - t)
      BY <3>1, <3>10
    <3> HIDE DEF A
    <3>12. UsedMem \in Int /\ Cong(UsedMem + t, (U(f) - U(g) - U(h)) - (k - t))
      BY <3>3, <3>11, CongShift
    <3>i. UsedMem + t \in Int
      BY SMTT(30), <3>3, <3>12
    <3>13. Cong(UsedMem + t, PAGE_KB * (f - g - h - c))
      BY SMTT(30), <3>8, <3>9, <3>10, <3>12, <3>i, CongEquiv
    <3> QED
      BY <3>2, <3>4, <3>13, <3>i DEF t
  <2>16. /\ RamPages(before) \in Int /\ before["free"] \in Int /\ BufferPages(before) \in Int
         /\ before["file"] \in Int /\ before["anon"] + SwapPages(before) \in Int
    BY SMTT(30), <2>1, PagesInt
  <2>17. /\ Near(stat.MemTotal, RamPages(before)) /\ Near(stat.MemFree, before["free"])
         /\ Near(stat.Buffers, BufferPages(before))
    BY <2>1, <2>8, <2>9, <2>10, <2>16, NearIs DEF AllOff
  <2>18. /\ Unsigned(Cached - Truncated) = U(WillCached(x))
         /\ Unsigned(UsedMem + Truncated) = U(WillUsed(x))
    <3>1. Cached - Truncated \in Int
      BY SMTT(30), <2>14, <2>t
    <3> HIDE DEF U
    <3> QED
      BY <2>13, <2>14, <2>15, <3>1
  <2>19. /\ Near(Unsigned(Cached - Truncated), before["file"])
         /\ Near(Unsigned(UsedMem + Truncated), before["anon"] + SwapPages(before))
    BY <2>1, <2>8, <2>14, <2>15, <2>16, <2>18, NearIs DEF AllOff
  <2> QED
    BY <2>17, <2>19
<1> QED
  BY <1>1, MemInitInv, MemNextInv, PTL

=============================================================================
