------------------------------- MODULE Scanner -------------------------------
(***************************************************************************)
(* The test of one frame: LinearScanner and QuadraticScanner of the        *)
(* memtester, cell by cell, over a memory that may have a faulty cell.     *)
(*                                                                         *)
(* A scanner gets the mapping of a block of frames and the offset of one   *)
(* frame in it; it writes patterns to the cells of this frame and reports  *)
(* every cell that reads back as something else.  A cell is a byte scaled  *)
(* down: Ones stands for 0xff, which is also the modulus of the address    *)
(* pattern (index % 0xff).  The mapping is read and written through        *)
(* MmapWrapper, one seek and one byte at a time.                           *)
(***************************************************************************)
EXTENDS Integers, Sequences

CONSTANTS
  PageSize,     \* bytes in a frame
  Frames,       \* frames in the mapping
  CellBits,     \* bits in a cell: 8
  Ones,         \* all bits set: 0xff
  Faults        \* the faults the memory may have

ASSUME SizesOK == /\ PageSize \in Nat \ {0} /\ Frames \in Nat \ {0}
                  /\ CellBits \in Nat \ {0} /\ Ones \in Nat \ {0}
(* Every bit of a cell is set in Ones. *)
ASSUME OnesSet == \A b \in 0 .. CellBits - 1 :
                    2 ^ b \in Nat \ {0} /\ (Ones \div 2 ^ b) % 2 = 1

VARIABLES
  alg, offset,          \* which scanner, on which frame of the mapping
  fault, mem,           \* the memory behind the mapping
  sweep, index, probe,  \* the loops of the scanner
  bad,                  \* the indices given to report_bad_memory
  result                \* the value test() returns

vars == <<alg, offset, fault, mem, sweep, index, probe, bad, result>>
inputs == <<alg, offset, fault>>

Cell  == 0 .. Frames * PageSize - 1
Value == 0 .. Ones

last_element == offset + PageSize
Tested == {c \in Cell : offset <= c /\ c < last_element}

-----------------------------------------------------------------------------
(* The memory.                                                             *)

(* "stuck": bit `bit` of `cell` always reads `to`.                         *)
(* "transition": the bit cannot change to `to`.                            *)
(* "coupling": when the bit changes to `to`, that of `other` flips.        *)
(* "alias": the address `other` selects `cell`.                            *)
Kinds == {"none", "stuck", "transition", "coupling", "alias"}
Fault == [kind : Kinds, cell : Cell, other : Cell,
          bit : 0..CellBits-1, to : {0, 1}]

(* Each fault is of one of these kinds, in a bit of a cell of the mapping. *)
ASSUME FaultsOK == Faults \subseteq Fault

Bit(v, b)       == (v \div 2^b) % 2
SetBit(v, b, x) == v + (x - Bit(v, b)) * 2^b

Select(c) == IF fault.kind = "alias" /\ c = fault.other THEN fault.cell ELSE c

(* MmapWrapper.__getitem__ *)
Load(c) == IF fault.kind = "stuck" /\ c = fault.cell
             THEN SetBit(mem[c], fault.bit, fault.to)
             ELSE mem[Select(c)]

Changes(c, v) == /\ c = fault.cell /\ Bit(v, fault.bit) = fault.to
                 /\ Bit(mem[c], fault.bit) # fault.to

(* MmapWrapper.__setitem__ *)
Store(c, v) ==
  mem' = CASE fault.kind = "transition" /\ Changes(c, v) ->
                [mem EXCEPT ![c] = SetBit(v, fault.bit, 1 - fault.to)]
           [] fault.kind = "coupling" /\ Changes(c, v) ->
                [mem EXCEPT ![c] = v,
                            ![fault.other] = SetBit(@, fault.bit, 1 - Bit(@, fault.bit))]
           [] OTHER -> [mem EXCEPT ![Select(c)] = v]

-----------------------------------------------------------------------------
(* The scanners: a sequence of sweeps over the frame.                      *)

Pattern(pat, c) == CASE pat = "zeroes"  -> 0
                     [] pat = "ones"    -> Ones
                     [] pat = "address" -> c % Ones

Sweep(o, pat) == [op |-> o, pat |-> pat]

(* Mutant of Linear: without the address pattern. *)
LinearPlain == <<Sweep("write", "zeroes"),  Sweep("read", "zeroes"),
                 Sweep("write", "ones"),    Sweep("read", "ones")>>

Linear == <<Sweep("write", "zeroes"),  Sweep("read", "zeroes"),
            Sweep("write", "ones"),    Sweep("read", "ones"),
            Sweep("write", "address"), Sweep("read", "address")>>

(* Mutant of Quadratic: without the second reset. *)
QuadraticOnce == <<Sweep("write", "zeroes"), Sweep("read", "zeroes"),
                   Sweep("march", "ones")>>

Quadratic == <<Sweep("write", "zeroes"), Sweep("read", "zeroes"),
               Sweep("march", "ones"),
               Sweep("write", "zeroes"), Sweep("read", "zeroes")>>

Sweeps == IF alg = "linear" THEN Linear ELSE Quadratic

Init ==
  /\ alg \in {"linear", "quadratic"}
  /\ offset \in {PageSize * i : i \in 0 .. Frames - 1}
  /\ fault \in Faults
  /\ \E v \in {0, Ones} : mem = [c \in Cell |-> v]
  /\ sweep = 1 /\ index = offset /\ probe = -1
  /\ bad = {} /\ result = -1

Op(o) == sweep <= Len(Sweeps) /\ Sweeps[sweep].op = o

(* Mutant of Advance: tests one byte less than it was given. *)
AdvanceShort ==
  IF index + 1 < last_element - 1
    THEN index' = index + 1 /\ UNCHANGED sweep
    ELSE index' = offset /\ sweep' = sweep + 1

(* for index in xrange(offset, last_element) *)
Advance ==
  IF index + 1 < last_element
    THEN index' = index + 1 /\ UNCHANGED sweep
    ELSE index' = offset /\ sweep' = sweep + 1

(* Mutant of Check: reports the byte before. *)
CheckShifted(c, v) == bad' = IF Load(c) # v THEN bad \cup {c - 1} ELSE bad

Check(c, v) == bad' = IF Load(c) # v THEN bad \cup {c} ELSE bad

(* Mutant of WriteCell: the index is relative to the mapping, not the frame. *)
WriteCellFirst ==
  /\ Op("write")
  /\ Store(index - offset, Pattern(Sweeps[sweep].pat, index))
  /\ Advance
  /\ UNCHANGED <<inputs, probe, bad, result>>

WriteCell ==
  /\ Op("write")
  /\ Store(index, Pattern(Sweeps[sweep].pat, index))
  /\ Advance
  /\ UNCHANGED <<inputs, probe, bad, result>>

ReadCell ==
  /\ Op("read")
  /\ Check(index, Pattern(Sweeps[sweep].pat, index))
  /\ Advance
  /\ UNCHANGED <<inputs, mem, probe, result>>

(* The quadratic scanner sets one cell and then looks at all: those up to  *)
(* it must be set, those after it not yet.                                 *)
MarchWrite ==
  /\ Op("march") /\ probe = -1
  /\ Store(index, Ones)
  /\ probe' = offset
  /\ UNCHANGED <<inputs, sweep, index, bad, result>>

(* Mutant of MarchRead: does not look at the cells after the one it set. *)
MarchReadBefore ==
  /\ Op("march") /\ probe # -1
  /\ Check(probe, Ones)
  /\ IF probe < index
       THEN probe' = probe + 1 /\ UNCHANGED <<sweep, index>>
       ELSE probe' = -1 /\ Advance
  /\ UNCHANGED <<inputs, mem, result>>

(* Mutant of MarchRead: starts over with the same cell. *)
MarchReadAgain ==
  /\ Op("march") /\ probe # -1
  /\ Check(probe, IF probe <= index THEN Ones ELSE 0)
  /\ probe' = IF probe + 1 < last_element THEN probe + 1 ELSE offset
  /\ UNCHANGED <<inputs, mem, sweep, index, result>>

MarchRead ==
  /\ Op("march") /\ probe # -1
  /\ Check(probe, IF probe <= index THEN Ones ELSE 0)
  /\ IF probe + 1 < last_element
       THEN probe' = probe + 1 /\ UNCHANGED <<sweep, index>>
       ELSE probe' = -1 /\ Advance
  /\ UNCHANGED <<inputs, mem, result>>

Done == sweep > Len(Sweeps) /\ result # -1

Return ==
  /\ sweep > Len(Sweeps) /\ result = -1
  /\ result' = last_element
  /\ UNCHANGED <<inputs, mem, sweep, index, probe, bad>>

Next == WriteCell \/ ReadCell \/ MarchWrite \/ MarchRead \/ Return

Spec == Init /\ [][Next]_vars

(* The scanner is a loop without waiting. *)
FairSpec == Spec /\ WF_vars(Next)

-----------------------------------------------------------------------------
(* Properties.                                                             *)

TypeOK ==
  /\ alg \in {"linear", "quadratic"}
  /\ offset \in Cell /\ last_element - 1 \in Cell
  /\ mem \in [Cell -> Value]
  /\ sweep \in 1 .. Len(Sweeps) + 1
  /\ index \in Tested /\ probe \in Tested \cup {-1}
  /\ bad \subseteq Tested
  /\ result \in {-1, last_element}

(* A cell is reported only when it is faulty itself, so memory without a   *)
(* fault passes the test.                                                  *)
NoFalseAlarm ==
  bad \subseteq CASE fault.kind = "none"     -> {}
                  [] fault.kind = "coupling" -> {fault.other}
                  [] fault.kind = "alias"    -> {fault.cell, fault.other}
                  [] OTHER                   -> {fault.cell}

(* The other frames of the block, which share the mapping, keep their      *)
(* contents (unless a fault reaches from the tested frame into them).      *)
Confined ==
  [][\A c \in Cell \ Tested : mem'[c] = mem[c] \/ c \in {fault.cell, fault.other}]_vars

(* What a scanner has found when it returns. *)
Finds(kind, cells) == Done /\ fault.kind = kind /\ cells \subseteq Tested
                        => bad \cap cells # {}

(* A bit that is stuck is found, wherever it is in the frame. *)
StuckFound == Finds("stuck", {fault.cell})

(* A bit that does not change is found by the quadratic scanner, which     *)
(* sets and resets every cell.  The linear one resets a bit only where     *)
(* the address pattern has a zero.                                         *)
TransitionFound ==
  \/ alg = "quadratic"
  \/ fault.to = 1
  \/ Bit(fault.cell % Ones, fault.bit) = 0
  => Finds("transition", {fault.cell})

(* The quadratic scanner is there for the cells that disturb others: it    *)
(* finds every one that flips another of the frame when it is set, and     *)
(* when it is reset those that flip one before them.                       *)
CouplingFound ==
  alg = "quadratic" /\ fault.cell # fault.other
    /\ (fault.to = 1 \/ fault.other < fault.cell)
  => Finds("coupling", {fault.cell, fault.other})

(* Two addresses that select one cell: the quadratic scanner finds them    *)
(* all, the linear one those its address pattern tells apart.              *)
AliasFound ==
  fault.cell # fault.other
    /\ (alg = "quadratic" \/ fault.cell % Ones # fault.other % Ones)
  => Finds("alias", {fault.cell, fault.other})

(* Each scanner finds the faults it is made for: wherever in the frame     *)
(* they are, whichever bit they are in, and with the test going on over    *)
(* what the fault has done so far.                                         *)
FaultsFound == StuckFound /\ TransitionFound /\ CouplingFound /\ AliasFound

(* Every test of a frame ends. *)
ScanEnds == <>Done
=============================================================================
