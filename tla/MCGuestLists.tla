---------------------------- MODULE MCGuestLists ----------------------------
(***************************************************************************)
(* GuestLists for TLC.                                                     *)
(***************************************************************************)
EXTENDS GuestLists, TLC

\* The addresses of tasks are interchangeable, and so are those of modules.
AddressSymmetry == Permutations(Tasks) \cup Permutations(Mods)
=============================================================================
