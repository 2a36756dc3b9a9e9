------------------------------ MODULE MCPhysMem ------------------------------
(* Small instances of PhysMem for TLC. *)
EXTENDS PhysMemLedger, TLC

(* Real sizes: 56 and 4096 bytes.  One page is too short for two frames,   *)
(* two fit, 4097 is more than one request ever allows.                     *)
MCLengths == {1, 2, 4097}

Symmetry == Permutations(Session) \cup Permutations(Thread)
              \cup Permutations(Page) \cup Permutations(Vma)
=============================================================================
