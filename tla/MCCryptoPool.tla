---------------------------- MODULE MCCryptoPool ----------------------------
(* CryptoPool for TLC.  Job addresses and vCPUs are interchangeable, which *)
(* the safety runs use.                                                    *)
EXTENDS CryptoPool, TLC

PoolSymmetry == Permutations(Jobs) \cup Permutations(Vcpus)

=============================================================================
