-------------------------------- MODULE Words --------------------------------
(***************************************************************************)
(* What the commands that add up the guest's counters share: the host's    *)
(* unsigned long, and sums.                                                *)
(***************************************************************************)
EXTENDS Integers

CONSTANT Word   \* 2^64 in the code

ASSUME WordAssumption == Word \in Nat \ {0}

\* SumBelow(f)[n] is f[0] + ... + f[n - 1].
SumBelow(f) ==
  LET sum[n \in Nat] == IF n = 0 THEN 0 ELSE sum[n - 1] + f[n - 1] IN sum

=============================================================================
