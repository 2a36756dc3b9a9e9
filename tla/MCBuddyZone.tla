----------------------------- MODULE MCBuddyZone -----------------------------
(* Small instances of BuddyZone for TLC.                                   *)
EXTENDS BuddyZone, TLC

Symmetry == Permutations(Thread)
=============================================================================
