------------------------------ MODULE MCScanner ------------------------------
(* Small instances of Scanner for TLC: one fault of every kind at every    *)
(* place, or none.                                                         *)
EXTENDS Scanner

MCCell == 0 .. Frames * PageSize - 1

MCFaults ==
  [kind : {"none"}, cell : {0}, other : {0}, bit : {0}, to : {0}]
  \cup [kind : {"stuck", "transition"}, cell : MCCell, other : {0},
        bit : 0..CellBits-1, to : {0, 1}]
  \cup {f \in [kind : {"coupling"}, cell : MCCell, other : MCCell,
               bit : 0..CellBits-1, to : {0, 1}] : f.cell # f.other}
  \cup {f \in [kind : {"alias"}, cell : MCCell, other : MCCell,
               bit : {0}, to : {0}] : f.cell # f.other}
=============================================================================
