---------------------------- MODULE Scanner_proof ----------------------------
(***************************************************************************)
(* Proofs about the scanners, for frames of any size, cells of any width   *)
(* and whatever fault the memory has: only faulty cells are reported, the  *)
(* other frames are left alone, and each fault a scanner is made for is    *)
(* found.                                                                  *)
(***************************************************************************)
EXTENDS Scanner, TLAPS

(* Writing a cell leaves in Marred what the fault makes of it, in every    *)
(* other cell what was written; reading may report the Suspects.           *)
Marred == CASE fault.kind = "transition" -> {fault.cell}
            [] fault.kind = "coupling"   -> {fault.other}
            [] fault.kind = "alias"      -> {fault.cell, fault.other}
            [] OTHER                     -> {}

Suspects == CASE fault.kind = "none"     -> {}
              [] fault.kind = "coupling" -> {fault.other}
              [] fault.kind = "alias"    -> {fault.cell, fault.other}
              [] OTHER                   -> {fault.cell}

(* The loops of a scanner stay in its frame. *)
Loops ==
  /\ alg \in {"linear", "quadratic"}
  /\ offset \in Nat
  /\ Tested = offset .. offset + PageSize - 1
  /\ mem = [c \in Cell |-> mem[c]]
  /\ sweep \in 1 .. Len(Sweeps) + 1
  /\ index \in Tested
  /\ probe \in Tested \cup {-1}
  /\ ~Op("march") => probe = -1

(* How far the scan is: sweep k has come past a cell, or at the cell the   *)
(* march is looking at the others.                                         *)
Past(k, c)   == sweep > k \/ (sweep = k /\ index > c)
Stored(k, c) == Past(k, c) \/ (sweep = k /\ index = c /\ probe # -1)

(* The march has looked at d with the cells up to c set. *)
Probed(c, d) == Past(3, c) \/ (sweep = 3 /\ index = c /\ probe > d)

(* All ones have been read back. *)
OnesRead(c) == IF alg = "linear" THEN Past(4, c) ELSE Probed(c, c)

(* The last sweep that writes, and what it writes. *)
LastWrite == IF alg = "linear" THEN 5 ELSE 4
LastValue(c) == IF alg = "linear" THEN c % Ones ELSE 0

(* What a cell holds: zeroes from the first sweep on, then ones, and what  *)
(* is written last.                                                        *)
Written(c) ==
  /\ Past(1, c) /\ ~Stored(3, c) => mem[c] = 0
  /\ Stored(3, c) /\ ~Past(LastWrite, c) => mem[c] = Ones
  /\ Past(LastWrite, c) => mem[c] = LastValue(c)

Sound == /\ bad \subseteq Suspects
         /\ \A c \in Tested \ Marred : Written(c)

(* A stuck bit is seen with the first pattern that has it otherwise. *)
StuckAt(c) ==
  /\ fault.to = 1 /\ Past(2, c) => c \in bad
  /\ fault.to = 0 /\ OnesRead(c) => c \in bad

(* A bit that cannot be set is missing in the ones; a bit that cannot be   *)
(* reset is left over from them in what is written last.                   *)
TransitionAt(c) ==
  /\ fault.to = 1 =>
       /\ Past(1, c) /\ ~Stored(3, c) => mem[c] = 0
       /\ Stored(3, c) /\ ~OnesRead(c) => mem[c] # Ones
       /\ OnesRead(c) => c \in bad
  /\ fault.to = 0 /\ Bit(LastValue(c), fault.bit) = 0 =>
       /\ Stored(3, c) /\ ~Past(LastWrite, c) => mem[c] = Ones
       /\ Past(LastWrite, c) /\ ~Past(LastWrite + 1, c) => mem[c] # LastValue(c)
       /\ Past(LastWrite + 1, c) => c \in bad

(* The cell d that c disturbs is as it should be until c changes, wrong    *)
(* from then on, and looked at before it is written again.                 *)
CouplingAt(c, d) ==
  /\ fault.to = 1 =>
       /\ Past(1, d) /\ ~Stored(3, c) => mem[d] = IF Stored(3, d) THEN Ones ELSE 0
       /\ Stored(3, c) /\ ~Probed(c, d) => mem[d] # IF d < c THEN Ones ELSE 0
       /\ Probed(c, d) => d \in bad
  /\ fault.to = 0 /\ d < c =>
       /\ Past(4, d) /\ ~Past(4, c) => mem[d] = 0
       /\ Past(4, c) /\ ~Past(5, d) => mem[d] # 0
       /\ Past(5, d) => d \in bad

(* Of two addresses with one cell c, setting the lower sets the higher     *)
(* too, and what is written to the higher overwrites the lower.            *)
AliasAt(c, lower, higher) ==
  /\ alg = "quadratic" =>
       /\ Stored(3, lower) /\ ~Probed(lower, higher) => mem[c] = Ones
       /\ Probed(lower, higher) => higher \in bad
  /\ alg = "linear" /\ lower % Ones # higher % Ones =>
       /\ Past(5, higher) /\ ~Past(6, lower) => mem[c] = higher % Ones
       /\ Past(6, lower) => lower \in bad

StuckInv ==
  fault.kind = "stuck" /\ fault.cell \in Tested => StuckAt(fault.cell)

TransitionInv ==
  fault.kind = "transition" /\ fault.cell \in Tested => TransitionAt(fault.cell)

CouplingInv ==
  /\ fault.kind = "coupling" /\ alg = "quadratic" /\ fault.cell # fault.other
  /\ fault.cell \in Tested /\ fault.other \in Tested
  => CouplingAt(fault.cell, fault.other)

AliasInv ==
  /\ fault.kind = "alias" /\ fault.cell \in Tested /\ fault.other \in Tested
  => /\ fault.cell < fault.other => AliasAt(fault.cell, fault.cell, fault.other)
     /\ fault.other < fault.cell => AliasAt(fault.cell, fault.other, fault.cell)

FaultInv == fault \in Fault /\ StuckInv /\ TransitionInv /\ CouplingInv /\ AliasInv

ScanInv == Loops /\ Sound /\ FaultInv

-----------------------------------------------------------------------------
(* Bits, and what writing a cell does to the memory.                       *)

(* A faulty bit is clear in the zeroes and set in the ones, and a cell in  *)
(* which it has been changed is another value.                             *)
LEMMA FaultyBit ==
  ASSUME fault \in Fault
  PROVE  /\ fault.to \in {0, 1}
         /\ Bit(0, fault.bit) = 0 /\ Bit(Ones, fault.bit) = 1
         /\ \A v \in Int : Bit(v, fault.bit) = 0 => SetBit(v, fault.bit, 1) # v
         /\ \A v \in Int : Bit(v, fault.bit) = 1 => SetBit(v, fault.bit, 0) # v
         /\ \A v \in Int : SetBit(v, fault.bit, 1 - Bit(v, fault.bit)) # v
<1> DEFINE w == 2 ^ fault.bit
<1>1. fault.bit \in 0 .. CellBits - 1 /\ fault.to \in {0, 1}
  BY DEF Fault
<1>2. w \in Nat \ {0} /\ (Ones \div w) % 2 = 1
  BY <1>1, OnesSet
<1>3. /\ \A v : Bit(v, fault.bit) = (v \div w) % 2
      /\ \A v, x : SetBit(v, fault.bit, x) = v + (x - Bit(v, fault.bit)) * w
  BY DEF Bit, SetBit
<1> HIDE DEF w
<1>4. Bit(0, fault.bit) = 0 /\ Bit(Ones, fault.bit) = 1
  <2>1. 0 \div w = 0
    BY <1>2
  <2> QED
    BY <1>2, <1>3, <2>1
<1>5. ASSUME NEW v \in Int PROVE Bit(v, fault.bit) = 0 \/ Bit(v, fault.bit) = 1
  <2>1. v \div w \in Int
    BY <1>2
  <2> QED
    BY <2>1, <1>3
<1>6. ASSUME NEW v \in Int, Bit(v, fault.bit) = 0 PROVE SetBit(v, fault.bit, 1) # v
  <2>1. SetBit(v, fault.bit, 1) = v + (1 - 0) * w
    BY <1>3, <1>6
  <2> QED
    BY <1>2, <2>1
<1>7. ASSUME NEW v \in Int, Bit(v, fault.bit) = 1 PROVE SetBit(v, fault.bit, 0) # v
  <2>1. SetBit(v, fault.bit, 0) = v + (0 - 1) * w
    BY <1>3, <1>7
  <2> QED
    BY <1>2, <2>1
<1>8. ASSUME NEW v \in Int PROVE SetBit(v, fault.bit, 1 - Bit(v, fault.bit)) # v
  <2>1. CASE Bit(v, fault.bit) = 0
    BY <1>6, <2>1
  <2>2. CASE Bit(v, fault.bit) = 1
    BY <1>7, <2>2
  <2> QED
    BY <1>5, <2>1, <2>2
<1> QED
  BY <1>1, <1>4, <1>6, <1>7, <1>8

(* A store writes the cell and nothing else, but for the marred cells.     *)
LEMMA StoreElsewhere ==
  ASSUME Loops, NEW c \in Cell, NEW v, Store(c, v)
  PROVE  /\ mem' = [d \in Cell |-> mem'[d]]
         /\ \A d \in Cell \ Marred : mem'[d] = IF d = c THEN v ELSE mem[d]
<1>1. CASE fault.kind = "transition"
  BY <1>1 DEF Store, Marred, Select, Loops, Changes
<1>2. CASE fault.kind = "coupling"
  BY <1>2 DEF Store, Marred, Select, Loops, Changes
<1>3. CASE fault.kind \notin {"transition", "coupling"}
  BY <1>3 DEF Store, Marred, Select, Loops
<1> QED
  BY <1>1, <1>2, <1>3

(* What a store does to the cells a fault concerns. *)
LEMMA StoreTransition ==
  ASSUME Loops, NEW c \in Cell, NEW v, Store(c, v),
         fault.kind = "transition", fault.cell \in Cell
  PROVE  mem'[fault.cell] =
           IF c # fault.cell THEN mem[fault.cell]
           ELSE IF Bit(v, fault.bit) = fault.to /\ Bit(mem[fault.cell], fault.bit) # fault.to
                  THEN SetBit(v, fault.bit, 1 - fault.to) ELSE v
<1>1. CASE Changes(c, v)
  BY <1>1 DEF Store, Loops, Changes
<1>2. CASE ~Changes(c, v)
  <2>1. mem' = [mem EXCEPT ![c] = v]
    BY <1>2 DEF Store, Select
  <2> QED
    BY <1>2, <2>1 DEF Loops, Changes
<1> QED
  BY <1>1, <1>2

LEMMA StoreCoupling ==
  ASSUME Loops, NEW c \in Cell, NEW v, Store(c, v), fault.kind = "coupling",
         fault.cell # fault.other, fault.cell \in Cell, fault.other \in Cell
  PROVE  /\ mem'[fault.cell] = IF c = fault.cell THEN v ELSE mem[fault.cell]
         /\ c = fault.other => mem'[fault.other] = v
         /\ c # fault.other =>
              mem'[fault.other] =
                IF /\ c = fault.cell /\ Bit(v, fault.bit) = fault.to
                   /\ Bit(mem[c], fault.bit) # fault.to
                  THEN SetBit(mem[fault.other], fault.bit, 1 - Bit(mem[fault.other], fault.bit))
                  ELSE mem[fault.other]
<1>1. CASE Changes(c, v)
  <2>1. mem' = [mem EXCEPT ![c] = v, ![fault.other] =
                  SetBit(mem[fault.other], fault.bit, 1 - Bit(mem[fault.other], fault.bit))]
    BY <1>1 DEF Store, Changes
  <2> QED
    BY <1>1, <2>1 DEF Loops, Changes
<1>2. CASE ~Changes(c, v)
  <2>1. mem' = [mem EXCEPT ![c] = v]
    BY <1>2 DEF Store, Select
  <2> QED
    BY <1>2, <2>1 DEF Loops, Changes
<1> QED
  BY <1>1, <1>2

LEMMA StoreAlias ==
  ASSUME Loops, NEW c \in Cell, NEW v, Store(c, v), fault.kind = "alias",
         fault.cell \in Cell
  PROVE  mem'[fault.cell] = IF c \in {fault.cell, fault.other} THEN v ELSE mem[fault.cell]
  BY DEF Store, Select, Loops

-----------------------------------------------------------------------------
(* The sweeps of the scanners.                                             *)

(* A sweep goes on to the next cell, or the next sweep begins. *)
Stepped == \/ index' = index + 1 /\ index + 1 \in Tested /\ sweep' = sweep
           \/ index' = offset /\ index = offset + PageSize - 1 /\ sweep' = sweep + 1

Writes(v) == probe = -1 /\ probe' = -1 /\ Store(index, v) /\ Stepped /\ bad' = bad
Reads(v)  == probe = -1 /\ probe' = -1 /\ mem' = mem /\ Check(index, v) /\ Stepped

Sets  == /\ probe = -1 /\ probe' = offset /\ Store(index, Ones)
         /\ UNCHANGED <<sweep, index, bad>>
Looks == /\ probe \in Tested /\ mem' = mem
         /\ Check(probe, IF probe <= index THEN Ones ELSE 0)
         /\ \/ probe' = probe + 1 /\ probe + 1 \in Tested /\ UNCHANGED <<sweep, index>>
            \/ probe = offset + PageSize - 1 /\ probe' = -1 /\ Stepped

(* What a step of the linear and of the quadratic scanner does in each     *)
(* sweep, by its number.                                                   *)
LinearDoes ==
  \/ sweep = 1 /\ Writes(0)
  \/ sweep = 2 /\ Reads(0)
  \/ sweep = 3 /\ Writes(Ones)
  \/ sweep = 4 /\ Reads(Ones)
  \/ sweep = 5 /\ Writes(index % Ones)
  \/ sweep = 6 /\ Reads(index % Ones)

QuadraticDoes ==
  \/ sweep = 1 /\ Writes(0)
  \/ sweep = 2 /\ Reads(0)
  \/ sweep = 3 /\ (Sets \/ Looks)
  \/ sweep = 4 /\ Writes(0)
  \/ sweep = 5 /\ Reads(0)

Does == \/ alg = "linear" /\ LinearDoes
        \/ alg = "quadratic" /\ QuadraticDoes
        \/ UNCHANGED <<mem, sweep, index, probe, bad>>

(* The sweeps by number. *)
LEMMA LinearSweeps ==
  ASSUME Loops, alg = "linear"
  PROVE  /\ Len(Sweeps) = 6 /\ sweep \in 1..7
         /\ Op("write") <=> sweep \in {1, 3, 5}
         /\ Op("read") <=> sweep \in {2, 4, 6}
         /\ ~Op("march")
         /\ sweep \in {1, 2} => Sweeps[sweep].pat = "zeroes"
         /\ sweep \in {3, 4} => Sweeps[sweep].pat = "ones"
         /\ sweep \in {5, 6} => Sweeps[sweep].pat = "address"
<1>1. Sweeps = Linear /\ Len(Linear) = 6
  BY DEF Sweeps, Linear
<1>2. sweep \in 1..7
  BY <1>1 DEF Loops
<1> QED
  BY <1>1, <1>2 DEF Op, Linear, Sweep

LEMMA QuadraticSweeps ==
  ASSUME Loops, alg = "quadratic"
  PROVE  /\ Len(Sweeps) = 5 /\ sweep \in 1..6
         /\ Op("write") <=> sweep \in {1, 4}
         /\ Op("read") <=> sweep \in {2, 5}
         /\ Op("march") <=> sweep = 3
         /\ sweep \in {1, 2, 4, 5} => Sweeps[sweep].pat = "zeroes"
<1>1. Sweeps = Quadratic /\ Len(Quadratic) = 5
  BY DEF Sweeps, Quadratic
<1>2. sweep \in 1..6
  BY <1>1 DEF Loops
<1> QED
  BY <1>1, <1>2 DEF Op, Quadratic, Sweep

LEMMA Advances ==
  ASSUME Loops, Advance
  PROVE  Stepped
  BY SizesOK DEF Loops, Advance, Stepped, last_element

LEMMA NextDoes ==
  ASSUME Loops, [Next]_vars
  PROVE  UNCHANGED inputs /\ Does
<1>1. UNCHANGED inputs
  BY DEF Next, vars, inputs, WriteCell, ReadCell, MarchWrite, MarchRead, Return
<1>2. CASE WriteCell
  <2>1. /\ Op("write") /\ Store(index, Pattern(Sweeps[sweep].pat, index)) /\ Stepped
        /\ probe' = probe /\ bad' = bad
    BY <1>2, Advances DEF WriteCell
  <2>2. CASE alg = "linear"
    <3>1. sweep \in {1, 3, 5} /\ probe = -1
      BY <2>1, <2>2, LinearSweeps DEF Loops
    <3>2. CASE sweep = 1
      <4>1. Pattern(Sweeps[sweep].pat, index) = 0
        BY <2>2, <3>2, LinearSweeps DEF Pattern
      <4>2. Store(index, 0)
        BY <2>1, <4>1
      <4>3. Writes(0)
        BY <2>1, <3>1, <4>2 DEF Writes
      <4> QED
        BY <1>1, <2>2, <3>2, <4>3 DEF Does, LinearDoes
    <3>3. CASE sweep = 3
      <4>1. Pattern(Sweeps[sweep].pat, index) = Ones
        BY <2>2, <3>3, LinearSweeps DEF Pattern
      <4>2. Store(index, Ones)
        BY <2>1, <4>1
      <4>3. Writes(Ones)
        BY <2>1, <3>1, <4>2 DEF Writes
      <4> QED
        BY <1>1, <2>2, <3>3, <4>3 DEF Does, LinearDoes
    <3>4. CASE sweep = 5
      <4>1. Pattern(Sweeps[sweep].pat, index) = index % Ones
        BY <2>2, <3>4, LinearSweeps DEF Pattern
      <4>2. Store(index, index % Ones)
        BY <2>1, <4>1
      <4>3. Writes(index % Ones)
        BY <2>1, <3>1, <4>2 DEF Writes
      <4> QED
        BY <1>1, <2>2, <3>4, <4>3 DEF Does, LinearDoes
    <3> QED
      BY <3>1, <3>2, <3>3, <3>4
  <2>3. CASE alg = "quadratic"
    <3>1. sweep \in {1, 4} /\ probe = -1
      BY <2>1, <2>3, QuadraticSweeps DEF Loops
    <3>2. Pattern(Sweeps[sweep].pat, index) = 0
      BY <2>3, <3>1, QuadraticSweeps DEF Pattern
    <3>3. Store(index, 0)
      BY <2>1, <3>2
    <3>4. Writes(0)
      BY <2>1, <3>1, <3>3 DEF Writes
    <3> QED
      BY <1>1, <2>3, <3>1, <3>4 DEF Does, QuadraticDoes
  <2> QED
    BY <1>1, <2>2, <2>3 DEF Loops
<1>3. CASE ReadCell
  <2>1. /\ Op("read") /\ Check(index, Pattern(Sweeps[sweep].pat, index)) /\ Stepped
        /\ probe' = probe /\ mem' = mem
    BY <1>3, Advances DEF ReadCell
  <2>2. CASE alg = "linear"
    <3>1. sweep \in {2, 4, 6} /\ probe = -1
      BY <2>1, <2>2, LinearSweeps DEF Loops
    <3>2. CASE sweep = 2
      <4>1. Pattern(Sweeps[sweep].pat, index) = 0
        BY <2>2, <3>2, LinearSweeps DEF Pattern
      <4>2. Check(index, 0)
        BY <2>1, <4>1
      <4>3. Reads(0)
        BY <2>1, <3>1, <4>2 DEF Reads
      <4> QED
        BY <1>1, <2>2, <3>2, <4>3 DEF Does, LinearDoes
    <3>3. CASE sweep = 4
      <4>1. Pattern(Sweeps[sweep].pat, index) = Ones
        BY <2>2, <3>3, LinearSweeps DEF Pattern
      <4>2. Check(index, Ones)
        BY <2>1, <4>1
      <4>3. Reads(Ones)
        BY <2>1, <3>1, <4>2 DEF Reads
      <4> QED
        BY <1>1, <2>2, <3>3, <4>3 DEF Does, LinearDoes
    <3>4. CASE sweep = 6
      <4>1. Pattern(Sweeps[sweep].pat, index) = index % Ones
        BY <2>2, <3>4, LinearSweeps DEF Pattern
      <4>2. Check(index, index % Ones)
        BY <2>1, <4>1
      <4>3. Reads(index % Ones)
        BY <2>1, <3>1, <4>2 DEF Reads
      <4> QED
        BY <1>1, <2>2, <3>4, <4>3 DEF Does, LinearDoes
    <3> QED
      BY <3>1, <3>2, <3>3, <3>4
  <2>3. CASE alg = "quadratic"
    <3>1. sweep \in {2, 5} /\ probe = -1
      BY <2>1, <2>3, QuadraticSweeps DEF Loops
    <3>2. Pattern(Sweeps[sweep].pat, index) = 0
      BY <2>3, <3>1, QuadraticSweeps DEF Pattern
    <3>3. Check(index, 0)
      BY <2>1, <3>2
    <3>4. Reads(0)
      BY <2>1, <3>1, <3>3 DEF Reads
    <3> QED
      BY <1>1, <2>3, <3>1, <3>4 DEF Does, QuadraticDoes
  <2> QED
    BY <1>1, <2>2, <2>3 DEF Loops
<1>4. ASSUME Op("march") PROVE alg = "quadratic" /\ sweep = 3
  BY <1>4, LinearSweeps, QuadraticSweeps DEF Loops
<1>5. CASE MarchWrite
  <2>1. Sets
    BY <1>5 DEF MarchWrite, Sets
  <2> QED
    BY <1>1, <1>4, <1>5, <2>1 DEF MarchWrite, Does, QuadraticDoes
<1>6. CASE MarchRead
  <2>1. probe \in Tested
    BY <1>6 DEF MarchRead, Loops
  <2>2. CASE probe + 1 < last_element
    <3>1. probe + 1 \in Tested
      BY <2>1, <2>2, SizesOK DEF Loops, last_element
    <3> QED
      BY <1>1, <1>4, <1>6, <2>1, <2>2, <3>1 DEF MarchRead, Does, QuadraticDoes, Looks
  <2>3. CASE ~(probe + 1 < last_element)
    <3>1. probe = offset + PageSize - 1
      BY <2>1, <2>3, SizesOK DEF Loops, last_element
    <3>2. probe' = -1 /\ Stepped
      BY <1>6, <2>3, Advances DEF MarchRead
    <3> QED
      BY <1>1, <1>4, <1>6, <2>1, <3>1, <3>2 DEF MarchRead, Does, QuadraticDoes, Looks
  <2> QED
    BY <2>2, <2>3
<1>7. CASE Return \/ UNCHANGED vars
  BY <1>1, <1>7 DEF Return, vars, Does
<1> QED
  BY <1>2, <1>3, <1>5, <1>6, <1>7 DEF Next

-----------------------------------------------------------------------------
(* The loops, and the cells that are not marred.                           *)

(* A frame of the mapping lies inside it. *)
LEMMA FrameInside ==
  ASSUME NEW i \in 0 .. Frames - 1, offset = PageSize * i
  PROVE  offset \in Nat /\ Tested = offset .. offset + PageSize - 1
<1>1. PageSize * i + PageSize <= Frames * PageSize
  <2>1. (Frames - 1 - i) * PageSize >= 0
    BY SizesOK
  <2> QED
    BY <2>1, SizesOK
<1>2. PageSize * i \in Nat
  BY SizesOK
<1> QED
  BY <1>1, <1>2, SizesOK DEF Tested, Cell, last_element

LEMMA InitLoops == Init => Loops
<1> SUFFICES ASSUME Init PROVE Loops
  OBVIOUS
<1>1. PICK i \in 0 .. Frames - 1 : offset = PageSize * i
  BY DEF Init
<1>2. offset \in Nat /\ Tested = offset .. offset + PageSize - 1
  BY <1>1, FrameInside
<1>3. 1 \in 1 .. Len(Sweeps) + 1
  BY DEF Init, Sweeps, Linear, Quadratic
<1>4. mem = [c \in Cell |-> mem[c]]
  BY DEF Init
<1> QED
  BY <1>2, <1>3, <1>4, SizesOK DEF Loops, Init

LEMMA InCell == Loops => \A c \in Tested : c \in Cell /\ c \in Nat
  BY DEF Loops, Tested, Cell

LEMMA NextLoops == Loops /\ [Next]_vars => Loops'
<1> SUFFICES ASSUME Loops, [Next]_vars PROVE Loops'
  OBVIOUS
<1>1. UNCHANGED inputs /\ Does
  BY NextDoes
<1>2. Sweeps' = Sweeps /\ Tested' = Tested /\ alg' = alg /\ offset' = offset
  BY <1>1 DEF inputs, Sweeps, Tested, last_element
<1>3. mem' = [c \in Cell |-> mem'[c]]
  <2>1. ASSUME NEW v, Store(index, v) PROVE mem' = [c \in Cell |-> mem'[c]]
    BY <2>1, InCell, StoreElsewhere DEF Loops
  <2>2. mem' = mem \/ \E v : Store(index, v)
    BY <1>1 DEF Does, LinearDoes, QuadraticDoes, Writes, Reads, Sets, Looks
  <2> QED
    BY <2>1, <2>2 DEF Loops
<1>4. /\ sweep' \in 1 .. Len(Sweeps) + 1 /\ index' \in Tested /\ probe' \in Tested \cup {-1}
      /\ probe' = -1 \/ (sweep' = sweep /\ Op("march"))
  <2> DEFINE Inside == sweep <= Len(Sweeps)
             Stays  == sweep' = sweep /\ index' = index
  <2>1. Stepped => index' \in Tested /\ (sweep' = sweep \/ sweep' = sweep + 1)
    BY SizesOK DEF Stepped, Loops
  <2>2. \/ Inside /\ Stepped /\ probe' = -1
        \/ Stays /\ probe' \in Tested /\ Op("march")
        \/ Stays /\ probe' = probe
    <3>1. CASE alg = "linear"
      <4>1. \/ sweep \in 1..6 /\ Stepped /\ probe' = -1
            \/ Stays /\ probe' = probe
        BY <1>1, <3>1 DEF Does, LinearDoes, Writes, Reads
      <4> QED
        <5>1. Len(Sweeps) = 6
          BY <3>1, LinearSweeps
        <5> QED
          BY <4>1, <5>1
    <3>2. CASE alg = "quadratic"
      <4>1. offset \in Tested
        BY SizesOK DEF Loops
      <4>2. \/ sweep \in 1..5 /\ Stepped /\ probe' = -1
            \/ Stays /\ probe' \in Tested /\ sweep = 3
            \/ Stays /\ probe' = probe
        BY <1>1, <3>2, <4>1 DEF Does, QuadraticDoes, Writes, Reads, Sets, Looks
      <4> QED
        BY <3>2, <4>2, QuadraticSweeps
    <3> QED
      BY <3>1, <3>2 DEF Loops
  <2>3. sweep \in Nat /\ sweep >= 1 /\ Len(Sweeps) \in Nat /\ sweep <= Len(Sweeps) + 1
    BY LinearSweeps, QuadraticSweeps DEF Loops
  <2>4. CASE Inside /\ Stepped /\ probe' = -1
    BY <2>1, <2>3, <2>4
  <2>5. CASE Stays /\ probe' \in Tested /\ Op("march")
    BY <2>3, <2>5 DEF Loops
  <2>6. CASE Stays /\ probe' = probe
    BY <2>3, <2>6 DEF Loops
  <2> QED
    BY <2>2, <2>4, <2>5, <2>6
<1>5. ~Op("march")' => probe' = -1
  BY <1>2, <1>4 DEF Op
<1> QED
  BY <1>2, <1>3, <1>4, <1>5 DEF Loops

LEMMA InitSound == Init => Sound
<1> SUFFICES ASSUME Init PROVE Sound
  OBVIOUS
<1>1. sweep = 1 /\ index = offset /\ offset \in Nat /\ probe = -1
      /\ Tested = offset .. offset + PageSize - 1
  BY InitLoops DEF Init, Loops
<1>2. ASSUME NEW c \in Tested PROVE Written(c)
  BY <1>1 DEF Written, Past, Stored, LastWrite
<1> QED
  BY <1>2 DEF Sound, Init

(* What has been reported stays reported; what is reported is suspect, as  *)
(* long as the other cells are read as expected.                           *)
LEMMA Reported ==
  ASSUME Loops, Does
  PROVE  bad \subseteq bad'
  BY DEF Does, LinearDoes, QuadraticDoes, Writes, Reads, Sets, Looks, Check

LEMMA LoadSound ==
  ASSUME NEW c \in Cell \ Suspects
  PROVE  Load(c) = mem[c] /\ c \notin Marred
  BY DEF Suspects, Marred, Load, Select

(* What is read of a cell that is not suspect is what has been written.    *)
LEMMA NextBad ==
  ASSUME Loops, Sound, Does
  PROVE  bad' \subseteq Suspects
<1>1. ASSUME NEW c \in Tested, NEW v, Check(c, v), c \notin Suspects => mem[c] = v
      PROVE  bad' \subseteq Suspects
  BY <1>1, InCell, LoadSound DEF Check, Sound
<1>2. \A c \in Tested : c \notin Suspects => Written(c)
  BY LoadSound, InCell DEF Sound
<1>3. CASE alg = "linear" /\ LinearDoes
  <2>1. sweep = 2 => (index \notin Suspects => mem[index] = 0)
    BY <1>2 DEF Written, Past, Stored, Loops
  <2>2. sweep = 4 => (index \notin Suspects => mem[index] = Ones)
    BY <1>2, <1>3 DEF Written, Past, Stored, Loops, LastWrite
  <2>3. sweep = 6 => (index \notin Suspects => mem[index] = index % Ones)
    BY <1>2, <1>3 DEF Written, Past, Stored, Loops, LastWrite, LastValue
  <2> QED
    BY <1>1, <1>3, <2>1, <2>2, <2>3 DEF LinearDoes, Writes, Reads, Sound, Loops
<1>4. CASE alg = "quadratic" /\ QuadraticDoes
  <2>1. sweep = 2 => (index \notin Suspects => mem[index] = 0)
    BY <1>2 DEF Written, Past, Stored, Loops
  <2>2. sweep = 3 /\ probe \in Tested
          => (probe \notin Suspects => mem[probe] = IF probe <= index THEN Ones ELSE 0)
    <3> SUFFICES ASSUME sweep = 3, probe \in Tested, probe \notin Suspects
                 PROVE  mem[probe] = IF probe <= index THEN Ones ELSE 0
      OBVIOUS
    <3>1. CASE probe <= index
      BY <1>2, <1>4, <3>1 DEF Written, Past, Stored, Loops, LastWrite
    <3>2. CASE ~(probe <= index)
      BY <1>2, <1>4, <3>2 DEF Written, Past, Stored, Loops, LastWrite
    <3> QED
      BY <3>1, <3>2
  <2>3. sweep = 5 => (index \notin Suspects => mem[index] = 0)
    BY <1>2, <1>4 DEF Written, Past, Stored, Loops, LastWrite, LastValue
  <2> QED
    BY <1>1, <1>4, <2>1, <2>2, <2>3 DEF QuadraticDoes, Writes, Reads, Sets, Looks, Sound, Loops
<1>5. CASE UNCHANGED <<mem, sweep, index, probe, bad>>
  BY <1>5 DEF Sound
<1> QED
  BY <1>3, <1>4, <1>5 DEF Does

(* How far the scan is after a step. *)
LEMMA PastStepped ==
  ASSUME Loops, Stepped, probe' = -1, NEW k \in Nat, NEW c \in Tested
  PROVE  /\ Past(k, c)' <=> Past(k, c) \/ (sweep = k /\ index = c)
         /\ Stored(k, c)' <=> Past(k, c) \/ (sweep = k /\ index = c)
<1>1. sweep \in Nat /\ offset \in Nat /\ index \in offset .. offset + PageSize - 1
      /\ c \in offset .. offset + PageSize - 1
  BY LinearSweeps, QuadraticSweeps DEF Loops
<1>2. CASE index' = index + 1 /\ sweep' = sweep
  BY <1>1, <1>2 DEF Past, Stored
<1>3. CASE index' = offset /\ index = offset + PageSize - 1 /\ sweep' = sweep + 1
  BY <1>1, <1>3 DEF Past, Stored
<1> QED
  BY <1>2, <1>3 DEF Stepped

LEMMA PastSets ==
  ASSUME Loops, Sets, NEW k \in Nat, NEW c \in Tested
  PROVE  /\ Past(k, c)' <=> Past(k, c)
         /\ Stored(k, c)' <=> Past(k, c) \/ (sweep = k /\ index = c)
  BY DEF Past, Stored, Sets, Loops

LEMMA PastLooks ==
  ASSUME Loops, sweep' = sweep, index' = index, probe' # -1, probe # -1,
         NEW k \in Nat, NEW c \in Tested
  PROVE  /\ Past(k, c)' <=> Past(k, c)
         /\ Stored(k, c)' <=> Stored(k, c)
  BY DEF Past, Stored

LEMMA PastSame ==
  ASSUME UNCHANGED <<sweep, index, probe>>, NEW k, NEW c
  PROVE  /\ Past(k, c)' <=> Past(k, c)
         /\ Stored(k, c)' <=> Stored(k, c)
  BY DEF Past, Stored

LEMMA LastSame ==
  ASSUME UNCHANGED inputs, NEW c
  PROVE  LastWrite' = LastWrite /\ LastValue(c)' = LastValue(c)
  BY DEF inputs, LastWrite, LastValue

(* A cell that is not marred is written by the sweeps as they come to it.  *)
LEMMA NextWritten ==
  ASSUME Loops, Does, UNCHANGED inputs, NEW c \in Tested \ Marred, Written(c)
  PROVE  Written(c)'
<1>1. /\ c \in Cell /\ index \in Cell /\ LastWrite' = LastWrite
      /\ LastValue(c)' = LastValue(c)
  BY InCell, LastSame DEF Loops
<1>2. ASSUME NEW v, Store(index, v) PROVE mem'[c] = IF c = index THEN v ELSE mem[c]
  BY <1>1, <1>2, StoreElsewhere
<1>3. Past(5, c) => Past(4, c)
  BY LinearSweeps, QuadraticSweeps DEF Past, Loops
<1>4. CASE alg = "linear" /\ LinearDoes
  <2>1. LastWrite = 5 /\ LastValue(c) = c % Ones
    BY <1>4 DEF LastWrite, LastValue
  <2>2. Stepped /\ probe = -1 /\ probe' = -1
    BY <1>4 DEF LinearDoes, Writes, Reads
  <2>3. /\ \A k \in Nat : Past(k, c)' <=> Past(k, c) \/ (sweep = k /\ index = c)
        /\ \A k \in Nat : Stored(k, c)' <=> Past(k, c) \/ (sweep = k /\ index = c)
        /\ \A k \in Nat : Stored(k, c) <=> Past(k, c)
    BY <2>2, PastStepped DEF Stored
  <2>4. \A k \in Nat : (Past(k, c) => sweep >= k) /\ (sweep > k => Past(k, c))
    BY LinearSweeps, <1>4 DEF Past
  <2> QED
    BY <1>1, <1>2, <1>4, <2>1, <2>3, <2>4 DEF LinearDoes, Writes, Reads, Written
<1>5. CASE alg = "quadratic" /\ QuadraticDoes
  <2>1. LastWrite = 4 /\ LastValue(c) = 0
    BY <1>5 DEF LastWrite, LastValue
  <2>2. \A k \in Nat : (Past(k, c) => sweep >= k) /\ (sweep > k => Past(k, c))
    BY QuadraticSweeps, <1>5 DEF Past
  <2>3. \A k \in Nat : probe = -1 => (Stored(k, c) <=> Past(k, c))
    BY DEF Stored
  <2>4. CASE Stepped /\ probe' = -1
    <3>1. /\ \A k \in Nat : Past(k, c)' <=> Past(k, c) \/ (sweep = k /\ index = c)
          /\ \A k \in Nat : Stored(k, c)' <=> Past(k, c) \/ (sweep = k /\ index = c)
      BY <2>4, PastStepped
    <3>2. \A k \in Nat : probe # -1 => (Stored(k, c) <=> Past(k, c) \/ (sweep = k /\ index = c))
      BY DEF Stored
    <3>3. CASE sweep = 1 /\ Writes(0)
      BY <1>1, <1>2, <2>1, <2>2, <2>3, <3>1, <3>3 DEF Writes, Written
    <3>4. CASE sweep = 2 /\ Reads(0)
      BY <1>1, <2>1, <2>2, <2>3, <3>1, <3>4 DEF Reads, Written
    <3>5. CASE sweep = 3 /\ Looks
      <4>1. probe # -1 /\ mem' = mem
        BY <3>5 DEF Looks, Loops
      <4> QED
        BY <1>1, <2>1, <2>2, <3>1, <3>2, <3>5, <4>1 DEF Written
    <3>6. CASE sweep = 4 /\ Writes(0)
      BY <1>1, <1>2, <2>1, <2>2, <2>3, <3>1, <3>6 DEF Writes, Written
    <3>7. CASE sweep = 5 /\ Reads(0)
      BY <1>1, <2>1, <2>2, <2>3, <3>1, <3>7 DEF Reads, Written
    <3>8. CASE sweep = 3 /\ Sets
      BY <2>4, <3>8 DEF Sets, Loops
    <3> QED
      BY <1>5, <3>3, <3>4, <3>5, <3>6, <3>7, <3>8 DEF QuadraticDoes
  <2>5. CASE sweep = 3 /\ Sets
    <3>1. /\ \A k \in Nat : Past(k, c)' <=> Past(k, c)
          /\ \A k \in Nat : Stored(k, c)' <=> Past(k, c) \/ (sweep = k /\ index = c)
      BY <2>5, PastSets
    <3> QED
      BY <1>1, <1>2, <2>1, <2>2, <2>3, <2>5, <3>1 DEF Sets, Written
  <2>6. CASE sweep = 3 /\ Looks /\ ~(Stepped /\ probe' = -1)
    <3>1. probe # -1 /\ probe' # -1 /\ sweep' = sweep /\ index' = index /\ mem' = mem
      BY <2>6 DEF Looks, Loops
    <3> QED
      BY <1>1, <2>1, <3>1, PastLooks DEF Written
  <2> QED
    BY <1>5, <2>4, <2>5, <2>6 DEF QuadraticDoes, Writes, Reads
<1>6. CASE UNCHANGED <<mem, sweep, index, probe, bad>>
  BY <1>1, <1>6, PastSame DEF Written
<1> QED
  BY <1>4, <1>5, <1>6 DEF Does

LEMMA NextSound == Loops /\ Sound /\ [Next]_vars => Sound'
<1> SUFFICES ASSUME Loops, Sound, [Next]_vars PROVE Sound'
  OBVIOUS
<1>1. UNCHANGED inputs /\ Does
  BY NextDoes
<1>2. Suspects' = Suspects /\ Marred' = Marred /\ Tested' = Tested
  BY <1>1 DEF inputs, Suspects, Marred, Tested, last_element
<1>3. bad' \subseteq Suspects'
  BY <1>1, <1>2, NextBad
<1>4. ASSUME NEW c \in Tested \ Marred PROVE Written(c)'
  BY <1>1, <1>4, NextWritten DEF Sound
<1> QED
  BY <1>2, <1>3, <1>4 DEF Sound

LEMMA LoopsHold == Spec => []Loops
  BY InitLoops, NextLoops, PTL DEF Spec

LEMMA SoundHolds == Spec => []Sound
  BY InitSound, NextSound, LoopsHold, PTL DEF Spec

(* Only a faulty cell is reported, whatever the fault has made of the      *)
(* memory; memory without a fault passes both scanners.                    *)
THEOREM OnlyFaultyReported == Spec => []NoFalseAlarm
<1>1. Sound => NoFalseAlarm
  BY DEF Sound, NoFalseAlarm, Suspects
<1> QED
  BY <1>1, SoundHolds, PTL

(* The test of one frame leaves the other frames of the mapping alone: the *)
(* loops stay in the frame, and a write outside it is the fault's doing.   *)
THEOREM OtherFramesKept == Spec => Confined
<1>1. Loops /\ [Next]_vars
        => [\A c \in Cell \ Tested : mem'[c] = mem[c] \/ c \in {fault.cell, fault.other}]_vars
  <2> SUFFICES ASSUME Loops, [Next]_vars, NEW c \in Cell \ Tested,
                      c \notin {fault.cell, fault.other}
               PROVE  mem'[c] = mem[c]
    OBVIOUS
  <2>1. Does
    BY NextDoes
  <2>2. c \notin Marred
    BY DEF Marred
  <2>3. ASSUME NEW v, Store(index, v) PROVE mem'[c] = mem[c]
    BY <2>2, <2>3, InCell, StoreElsewhere DEF Loops
  <2> QED
    BY <2>1, <2>3 DEF Does, LinearDoes, QuadraticDoes, Writes, Reads, Sets, Looks
<1> QED
  BY <1>1, LoopsHold, PTL DEF Spec, Confined

-----------------------------------------------------------------------------
(* The way of one cell through the sweeps.                                 *)

(* A step that does not write cell c. *)
Quiet(c) == mem' = mem \/ (index # c /\ \E v : Store(index, v))

Stores(k, c, v) == sweep = k /\ index = c /\ probe = -1 /\ Store(c, v)

(* Once past, always past. *)
LEMMA Monotone ==
  ASSUME Loops, Does, UNCHANGED inputs, NEW c \in Tested, NEW d \in Tested
  PROVE  /\ \A k \in Nat : (Past(k, c) => Past(k, c)') /\ (Stored(k, c) => Stored(k, c)')
         /\ Probed(c, d) => Probed(c, d)'
         /\ OnesRead(c) => OnesRead(c)'
<1>1. sweep \in Nat /\ offset \in Nat /\ index \in offset .. offset + PageSize - 1
      /\ c \in offset .. offset + PageSize - 1 /\ d \in offset .. offset + PageSize - 1
      /\ probe \in Int
  BY LinearSweeps, QuadraticSweeps DEF Loops
<1>2. CASE Stepped /\ probe' = -1
  <2>1. \A k \in Nat : /\ Past(k, c)' <=> Past(k, c) \/ (sweep = k /\ index = c)
                       /\ Stored(k, c)' <=> Past(k, c) \/ (sweep = k /\ index = c)
    BY <1>2, PastStepped
  <2> QED
    BY <2>1 DEF Stored, Probed, OnesRead, inputs
<1>3. CASE Sets
  <2>1. \A k \in Nat : /\ Past(k, c)' <=> Past(k, c)
                       /\ Stored(k, c)' <=> Past(k, c) \/ (sweep = k /\ index = c)
    BY <1>3, PastSets
  <2>2. probe = -1 /\ ~(probe > c) /\ ~(probe > d)
    BY <1>1, <1>3 DEF Sets
  <2> QED
    BY <2>1, <2>2 DEF Stored, Probed, OnesRead, inputs
<1>4. CASE probe \in Tested /\ probe' = probe + 1 /\ UNCHANGED <<sweep, index>>
  BY <1>1, <1>4 DEF Past, Stored, Probed, OnesRead, inputs, Loops
<1>5. CASE UNCHANGED <<sweep, index, probe>>
  BY <1>5 DEF Past, Stored, Probed, OnesRead, inputs
<1> QED
  BY <1>2, <1>3, <1>4, <1>5
     DEF Does, LinearDoes, QuadraticDoes, Writes, Reads, Looks

LEMMA StoresEach ==
  ASSUME Loops, Does
  PROVE  \/ mem' = mem
         \/ Stores(1, index, 0)
         \/ Stores(3, index, Ones)
         \/ Stores(LastWrite, index, LastValue(index))
<1>1. CASE alg = "linear" /\ LinearDoes
  BY <1>1 DEF LinearDoes, Writes, Reads, Stores, LastWrite, LastValue
<1>2. CASE alg = "quadratic" /\ QuadraticDoes
  BY <1>2 DEF QuadraticDoes, Writes, Reads, Sets, Looks, Stores, LastWrite, LastValue
<1> QED
  BY <1>1, <1>2 DEF Does

(* A cell is written three times: with zeroes, with ones, and last.  Every *)
(* other step leaves it where it was.                                      *)
CellStep(c) ==
  \/ /\ Quiet(c)
     /\ Past(1, c)' <=> Past(1, c)
     /\ Stored(3, c)' <=> Stored(3, c)
     /\ Past(LastWrite, c)' <=> Past(LastWrite, c)
  \/ Stores(1, c, 0) /\ ~Past(1, c) /\ Past(1, c)' /\ ~Stored(3, c)'
  \/ /\ Stores(3, c, Ones)
     /\ Past(1, c) /\ ~Stored(3, c) /\ Stored(3, c)' /\ ~Past(LastWrite, c)'
  \/ /\ Stores(LastWrite, c, LastValue(c))
     /\ Past(3, c) /\ ~Past(LastWrite, c) /\ Past(LastWrite, c)'

LEMMA LastPast ==
  ASSUME UNCHANGED inputs, NEW c
  PROVE  /\ alg = "linear" => /\ LastWrite = 5 /\ LastValue(c) = c % Ones
                              /\ Past(LastWrite, c) <=> Past(5, c)
                              /\ Past(LastWrite, c)' <=> Past(5, c)'
         /\ alg = "quadratic" => /\ LastWrite = 4 /\ LastValue(c) = 0
                                 /\ Past(LastWrite, c) <=> Past(4, c)
                                 /\ Past(LastWrite, c)' <=> Past(4, c)'
  BY DEF inputs, LastWrite, LastValue, Past

LEMMA CellSteps ==
  ASSUME Loops, Does, UNCHANGED inputs, NEW c \in Tested
  PROVE  CellStep(c)
<1>1. sweep \in Nat /\ \A k \in Nat : (Past(k, c) => sweep >= k) /\ (sweep > k => Past(k, c))
  BY LinearSweeps, QuadraticSweeps DEF Past, Loops
<1>2. \A k \in Nat : sweep = k /\ index = c => ~Past(k, c)
  BY <1>1 DEF Past, Loops
<1>3. CASE alg = "linear" /\ LinearDoes
  <2>1. /\ LastWrite = 5 /\ LastValue(c) = c % Ones
        /\ Past(LastWrite, c) <=> Past(5, c)
        /\ Past(LastWrite, c)' <=> Past(5, c)'
    BY <1>3, LastPast
  <2>2. Stepped /\ probe = -1 /\ probe' = -1
    BY <1>3 DEF LinearDoes, Writes, Reads
  <2>3. \A k \in Nat : /\ Past(k, c)' <=> Past(k, c) \/ (sweep = k /\ index = c)
                       /\ Stored(k, c)' <=> Past(k, c) \/ (sweep = k /\ index = c)
                       /\ Stored(k, c) <=> Past(k, c)
    BY <2>2, PastStepped DEF Stored
  <2>4. CASE index # c
    <3>1. Quiet(c)
      BY <1>3, <2>4 DEF LinearDoes, Writes, Reads, Quiet
    <3> QED
      BY <2>1, <2>3, <2>4, <3>1 DEF CellStep
  <2>5. CASE index = c
    <3>1. CASE sweep = 1 /\ Writes(0)
      BY <1>1, <1>2, <2>3, <2>5, <3>1 DEF CellStep, Stores, Writes
    <3>2. CASE sweep = 3 /\ Writes(Ones)
      BY <1>1, <1>2, <2>1, <2>3, <2>5, <3>2 DEF CellStep, Stores, Writes
    <3>3. CASE sweep = 5 /\ Writes(index % Ones)
      <4>1. Stores(5, c, c % Ones)
        BY <2>5, <3>3 DEF Stores, Writes
      <4>2. Stores(LastWrite, c, LastValue(c))
        BY <2>1, <4>1
      <4> QED
        BY <1>1, <1>2, <2>1, <2>3, <2>5, <3>3, <4>2 DEF CellStep
    <3>4. CASE sweep \in {2, 4, 6} /\ mem' = mem
      BY <1>1, <1>2, <2>1, <2>3, <3>4 DEF CellStep, Quiet
    <3> QED
      BY <1>3, <3>1, <3>2, <3>3, <3>4 DEF LinearDoes, Reads
  <2> QED
    BY <2>4, <2>5
<1>4. CASE alg = "quadratic" /\ QuadraticDoes
  <2>1. /\ LastWrite = 4 /\ LastValue(c) = 0
        /\ Past(LastWrite, c) <=> Past(4, c)
        /\ Past(LastWrite, c)' <=> Past(4, c)'
    BY <1>4, LastPast
  <2>2. ASSUME sweep \in {1, 2, 4, 5}, Stepped, probe = -1, probe' = -1 PROVE CellStep(c)
    <3>1. \A k \in Nat : /\ Past(k, c)' <=> Past(k, c) \/ (sweep = k /\ index = c)
                         /\ Stored(k, c)' <=> Past(k, c) \/ (sweep = k /\ index = c)
                         /\ Stored(k, c) <=> Past(k, c)
      BY <2>2, PastStepped DEF Stored
    <3>2. CASE index # c
      <4>1. Quiet(c)
        BY <1>4, <2>2, <3>2 DEF QuadraticDoes, Writes, Reads, Quiet
      <4> QED
        BY <2>1, <3>1, <3>2, <4>1 DEF CellStep
    <3>3. CASE index = c
      <4>1. CASE sweep = 1 /\ Writes(0)
        BY <1>1, <1>2, <3>1, <3>3, <4>1 DEF CellStep, Stores, Writes
      <4>2. CASE sweep = 4 /\ Writes(0)
        <5>1. Stores(4, c, 0)
          BY <3>3, <4>2 DEF Stores, Writes
        <5>2. Stores(LastWrite, c, LastValue(c))
          BY <2>1, <5>1
        <5> QED
          BY <1>1, <1>2, <2>1, <3>1, <3>3, <4>2, <5>2 DEF CellStep
      <4>3. CASE sweep \in {2, 5} /\ mem' = mem
        BY <1>1, <1>2, <2>1, <3>1, <4>3 DEF CellStep, Quiet
      <4> QED
        BY <1>4, <2>2, <4>1, <4>2, <4>3 DEF QuadraticDoes, Reads
    <3> QED
      BY <3>2, <3>3
  <2>3. CASE sweep = 3 /\ Sets
    <3>1. \A k \in Nat : /\ Past(k, c)' <=> Past(k, c)
                         /\ Stored(k, c)' <=> Past(k, c) \/ (sweep = k /\ index = c)
                         /\ Stored(k, c) <=> Past(k, c)
      BY <2>3, PastSets DEF Stored, Sets
    <3>2. CASE index = c
      BY <1>1, <1>2, <2>1, <2>3, <3>1, <3>2 DEF CellStep, Stores, Sets
    <3>3. CASE index # c
      <4>1. Quiet(c)
        BY <2>3, <3>3 DEF Sets, Quiet
      <4> QED
        BY <2>1, <3>1, <3>3, <4>1 DEF CellStep
    <3> QED
      BY <3>2, <3>3
  <2>4. CASE sweep = 3 /\ Looks
    <3>1. Quiet(c) /\ probe # -1
      BY <2>4 DEF Looks, Quiet, Loops
    <3>2. CASE probe' = -1 /\ Stepped
      <4>1. \A k \in Nat : /\ Past(k, c)' <=> Past(k, c) \/ (sweep = k /\ index = c)
                           /\ Stored(k, c)' <=> Past(k, c) \/ (sweep = k /\ index = c)
                           /\ Stored(k, c) <=> Past(k, c) \/ (sweep = k /\ index = c)
        BY <3>1, <3>2, PastStepped DEF Stored
      <4> QED
        BY <2>1, <2>4, <3>1, <4>1 DEF CellStep
    <3>3. CASE probe' = probe + 1 /\ probe + 1 \in Tested /\ UNCHANGED <<sweep, index>>
      <4>1. probe' # -1
        BY <3>3 DEF Loops
      <4> QED
        BY <2>1, <3>1, <3>3, <4>1, PastLooks DEF CellStep
    <3> QED
      BY <2>4, <3>2, <3>3 DEF Looks
  <2> QED
    BY <1>4, <2>2, <2>3, <2>4 DEF QuadraticDoes, Writes, Reads
<1>5. CASE UNCHANGED <<mem, sweep, index, probe, bad>>
  <2>1. Past(LastWrite, c)' <=> Past(LastWrite, c)
    BY <1>5, LastSame DEF Past
  <2> QED
    BY <1>5, <2>1, PastSame DEF CellStep, Quiet
<1> QED
  BY <1>3, <1>4, <1>5 DEF Does

(* A sweep has come past a cell when it has just looked at it. *)
LEMMA NewPast ==
  ASSUME Loops, Does, NEW k \in Nat, NEW c \in Tested, Past(k, c)', ~Past(k, c)
  PROVE  sweep = k /\ index = c /\ Stepped /\ probe' = -1
<1>1. CASE Stepped /\ probe' = -1
  BY <1>1, PastStepped
<1>2. CASE sweep' = sweep /\ index' = index
  BY <1>2 DEF Past
<1> QED
  BY <1>1, <1>2 DEF Does, LinearDoes, QuadraticDoes, Writes, Reads, Sets, Looks

LEMMA SeenZeroes ==
  ASSUME Loops, Does, NEW c \in Tested, Past(2, c)', ~Past(2, c)
  PROVE  Check(c, 0) /\ Past(1, c) /\ ~Stored(3, c)
<1>1. ~UNCHANGED <<sweep, index>>
  BY NewPast DEF Past
<1>2. sweep = 2 /\ index = c
  BY NewPast
<1>3. Reads(0)
  BY <1>1, <1>2 DEF Does, LinearDoes, QuadraticDoes
<1> QED
  BY <1>2, <1>3 DEF Reads, Past, Stored

LEMMA SeenLast ==
  ASSUME Loops, Does, UNCHANGED inputs, NEW c \in Tested,
         Past(LastWrite + 1, c)', ~Past(LastWrite + 1, c)
  PROVE  Check(c, LastValue(c)) /\ sweep = LastWrite + 1 /\ Past(LastWrite, c)
<1>1. CASE alg = "linear"
  <2>1. LastWrite = 5 /\ LastValue(c) = c % Ones /\ Past(6, c)' /\ ~Past(6, c)
    BY <1>1, LastSame DEF LastWrite, LastValue, Past
  <2>2. sweep = 6 /\ index = c /\ ~UNCHANGED <<sweep, index>>
    BY <2>1, NewPast DEF Past
  <2>3. Reads(c % Ones)
    BY <1>1, <2>2 DEF Does, LinearDoes
  <2>4. Check(c, LastValue(c))
    BY <2>1, <2>2, <2>3 DEF Reads
  <2> QED
    BY <2>1, <2>2, <2>4 DEF Past
<1>2. CASE alg = "quadratic"
  <2>1. LastWrite = 4 /\ LastValue(c) = 0 /\ Past(5, c)' /\ ~Past(5, c)
    BY <1>2, LastSame DEF LastWrite, LastValue, Past
  <2>2. sweep = 5 /\ index = c /\ ~UNCHANGED <<sweep, index>>
    BY <2>1, NewPast DEF Past
  <2>3. Reads(0)
    BY <1>2, <2>2 DEF Does, QuadraticDoes
  <2>4. Check(c, LastValue(c))
    BY <2>1, <2>2, <2>3 DEF Reads
  <2> QED
    BY <2>1, <2>2, <2>4 DEF Past
<1> QED
  BY <1>1, <1>2 DEF Loops

LEMMA SeenProbed ==
  ASSUME Loops, Does, alg = "quadratic", NEW c \in Tested, NEW d \in Tested,
         Probed(c, d)', ~Probed(c, d)
  PROVE  /\ Check(d, IF d <= c THEN Ones ELSE 0)
         /\ sweep = 3 /\ index = c /\ probe = d /\ probe # -1
<1>1. /\ sweep \in Nat /\ offset \in Nat /\ index \in offset .. offset + PageSize - 1
      /\ c \in offset .. offset + PageSize - 1 /\ d \in offset .. offset + PageSize - 1
  BY LinearSweeps, QuadraticSweeps DEF Loops
<1>2. sweep = 3 /\ index = c /\ probe = d /\ probe' # probe
  <2>1. CASE Stepped /\ probe' = -1
    <3>1. Past(3, c)' /\ ~Past(3, c)
      BY <1>1, <2>1 DEF Probed
    <3>2. sweep = 3 /\ index = c
      BY <3>1, NewPast
    <3>3. probe = offset + PageSize - 1
      BY <2>1, <3>1, <3>2 DEF Does, QuadraticDoes, Sets, Looks, Past
    <3> QED
      BY <1>1, <2>1, <3>1, <3>2, <3>3 DEF Probed
  <2>2. CASE Sets
    BY <1>1, <2>2 DEF Sets, Probed, Past
  <2>3. CASE probe \in Tested /\ probe' = probe + 1 /\ UNCHANGED <<sweep, index>>
    BY <1>1, <2>3 DEF Probed, Past, Loops
  <2>4. CASE UNCHANGED <<sweep, index, probe>>
    BY <2>4 DEF Probed, Past
  <2> QED
    BY <2>1, <2>2, <2>3, <2>4
       DEF Does, LinearDoes, QuadraticDoes, Writes, Reads, Looks
<1>3. Looks
  <2>1. ~Sets
    BY <1>1, <1>2 DEF Sets
  <2> QED
    BY <1>2, <2>1 DEF Does, QuadraticDoes
<1>4. Check(probe, IF probe <= index THEN Ones ELSE 0)
  BY <1>3 DEF Looks
<1> QED
  BY <1>1, <1>2, <1>4

LEMMA SeenOnes ==
  ASSUME Loops, Does, UNCHANGED inputs, NEW c \in Tested, OnesRead(c)', ~OnesRead(c)
  PROVE  Check(c, Ones) /\ Stored(3, c) /\ ~Past(LastWrite, c)
<1>1. CASE alg = "linear"
  <2>1. Past(4, c)' /\ ~Past(4, c)
    BY <1>1 DEF OnesRead, inputs
  <2>2. sweep = 4 /\ index = c /\ ~UNCHANGED <<sweep, index>>
    BY <2>1, NewPast DEF Past
  <2>3. Reads(Ones)
    BY <1>1, <2>2 DEF Does, LinearDoes
  <2> QED
    BY <1>1, <2>2, <2>3 DEF Reads, Stored, Past, LastWrite
<1>2. CASE alg = "quadratic"
  <2>1. Probed(c, c)' /\ ~Probed(c, c)
    BY <1>2 DEF OnesRead, inputs
  <2>2. Check(c, IF c <= c THEN Ones ELSE 0) /\ sweep = 3 /\ index = c /\ probe # -1
    BY <1>2, <2>1, SeenProbed
  <2>3. Check(c, Ones)
    <3>1. c <= c
      BY InCell
    <3> QED
      BY <2>2, <3>1
  <2> QED
    BY <1>2, <2>2, <2>3 DEF Stored, Past, LastWrite
<1> QED
  BY <1>1, <1>2 DEF Loops

(* A cell that reads as another value than expected is reported. *)
LEMMA CheckReports ==
  ASSUME NEW c, NEW v, Check(c, v), Load(c) # v
  PROVE  c \in bad'
  BY DEF Check

-----------------------------------------------------------------------------
(* The faults, kind by kind.                                               *)

LEMMA FaultSame ==
  ASSUME UNCHANGED inputs
  PROVE  fault' = fault /\ Tested' = Tested /\ alg' = alg
  BY DEF inputs, Tested, last_element

LEMMA LastPastSame ==
  ASSUME UNCHANGED inputs, Loops, Does, NEW c \in Tested
  PROVE  /\ LastWrite \in {4, 5}
         /\ Past(LastWrite + 1, c) => Past(LastWrite + 1, c)'
<1>1. LastWrite' = LastWrite /\ LastWrite \in {4, 5}
  BY LastSame DEF LastWrite
<1>2. (Past(5, c) => Past(5, c)') /\ (Past(6, c) => Past(6, c)')
  BY Monotone
<1>3. Past(LastWrite + 1, c) => Past(LastWrite + 1, c)'
  <2>1. CASE LastWrite = 4
    BY <1>1, <1>2, <2>1 DEF Past
  <2>2. CASE LastWrite = 5
    BY <1>1, <1>2, <2>2 DEF Past
  <2> QED
    BY <1>1, <2>1, <2>2
<1> QED
  BY <1>1, <1>3

LEMMA StuckStep ==
  ASSUME Loops, Sound, Does, UNCHANGED inputs, fault \in Fault, fault.kind = "stuck",
         NEW c \in Tested, c = fault.cell, StuckAt(c)
  PROVE  StuckAt(c)'
<1>1. Written(c) /\ bad \subseteq bad' /\ fault' = fault
  BY Reported, FaultSame DEF Sound, Marred
<1>2. Load(c) = SetBit(mem[c], fault.bit, fault.to)
  BY DEF Load
<1>3. ASSUME fault.to = 1, Past(2, c)' PROVE c \in bad'
  <2>1. CASE Past(2, c)
    BY <1>1, <1>3, <2>1 DEF StuckAt
  <2>2. CASE ~Past(2, c)
    <3>1. Check(c, 0) /\ mem[c] = 0
      BY <1>1, <1>3, <2>2, SeenZeroes DEF Written
    <3>2. Load(c) # 0
      BY <1>2, <1>3, <3>1, FaultyBit
    <3> QED
      BY <3>1, <3>2, CheckReports
  <2> QED
    BY <2>1, <2>2
<1>4. ASSUME fault.to = 0, OnesRead(c)' PROVE c \in bad'
  <2>1. CASE OnesRead(c)
    BY <1>1, <1>4, <2>1 DEF StuckAt
  <2>2. CASE ~OnesRead(c)
    <3>1. Check(c, Ones) /\ mem[c] = Ones
      BY <1>1, <1>4, <2>2, SeenOnes DEF Written
    <3>2. Load(c) # Ones
      BY <1>2, <1>4, <3>1, FaultyBit, SizesOK
    <3> QED
      BY <3>1, <3>2, CheckReports
  <2> QED
    BY <2>1, <2>2
<1> QED
  BY <1>1, <1>3, <1>4 DEF StuckAt

LEMMA TransitionStep ==
  ASSUME Loops, Does, UNCHANGED inputs, fault \in Fault, fault.kind = "transition",
         NEW c \in Tested, c = fault.cell, TransitionAt(c)
  PROVE  TransitionAt(c)'
<1>1. /\ c \in Cell /\ index \in Cell /\ bad \subseteq bad' /\ Load(c) = mem[c]
      /\ fault' = fault
  BY InCell, Reported, FaultSame DEF Loops, Load, Select
<1>2. LastWrite' = LastWrite /\ LastValue(c)' = LastValue(c) /\ LastValue(c) \in Int
  BY LastSame, InCell, SizesOK DEF LastValue
<1>3. CellStep(c) /\ (OnesRead(c) => OnesRead(c)')
  BY CellSteps, Monotone
<1>4. Quiet(c) => mem'[c] = mem[c]
  BY <1>1, StoreTransition DEF Quiet
<1>5. ASSUME NEW k, NEW v, Stores(k, c, v)
      PROVE  mem'[c] = IF Bit(v, fault.bit) = fault.to /\ Bit(mem[c], fault.bit) # fault.to
                         THEN SetBit(v, fault.bit, 1 - fault.to) ELSE v
  BY <1>1, <1>5, StoreTransition DEF Stores
<1>6. ASSUME fault.to = 1
      PROVE  /\ Past(1, c)' /\ ~Stored(3, c)' => mem'[c] = 0
             /\ Stored(3, c)' /\ ~OnesRead(c)' => mem'[c] # Ones
             /\ OnesRead(c)' => c \in bad'
  <2>1. /\ Past(1, c) /\ ~Stored(3, c) => mem[c] = 0
        /\ Stored(3, c) /\ ~OnesRead(c) => mem[c] # Ones
        /\ OnesRead(c) => c \in bad
    BY <1>6 DEF TransitionAt
  <2>2. Bit(0, fault.bit) = 0 /\ Bit(Ones, fault.bit) = 1 /\ SetBit(Ones, fault.bit, 0) # Ones
    BY FaultyBit, SizesOK
  <2>3. OnesRead(c)' => c \in bad'
    <3>1. CASE OnesRead(c)
      BY <1>1, <2>1, <3>1
    <3>2. ASSUME OnesRead(c)', ~OnesRead(c) PROVE c \in bad'
      <4>1. Check(c, Ones) /\ Stored(3, c)
        BY <3>2, SeenOnes
      <4> QED
        BY <1>1, <2>1, <3>2, <4>1, CheckReports
    <3> QED
      BY <3>1, <3>2
  <2>4. CASE Quiet(c) /\ (Past(1, c)' <=> Past(1, c)) /\ (Stored(3, c)' <=> Stored(3, c))
    BY <1>3, <1>4, <2>1, <2>3, <2>4
  <2>5. CASE Stores(1, c, 0) /\ ~Stored(3, c)'
    <3>1. mem'[c] = 0
      BY <1>5, <1>6, <2>2, <2>5
    <3> QED
      BY <2>3, <2>5, <3>1
  <2>6. CASE Stores(3, c, Ones) /\ Past(1, c) /\ ~Stored(3, c) /\ Stored(3, c)'
    <3>1. mem'[c] = SetBit(Ones, fault.bit, 0)
      <4>1. 1 - fault.to = 0
        BY <1>6
      <4> QED
        BY <1>5, <1>6, <2>1, <2>2, <2>6, <4>1
    <3> QED
      BY <2>2, <2>3, <2>6, <3>1
  <2>7. CASE Stores(LastWrite, c, LastValue(c)) /\ Past(3, c)
    <3>1. OnesRead(c) /\ Stored(3, c)
      BY <2>7 DEF Stores, OnesRead, Past, Probed, LastWrite, Stored
    <3>2. OnesRead(c)' /\ Stored(3, c)'
      BY <1>3, <3>1, Monotone
    <3> QED
      BY <2>3, <3>2
  <2> QED
    BY <1>3, <2>4, <2>5, <2>6, <2>7 DEF CellStep
<1>7. ASSUME fault.to = 0, Bit(LastValue(c), fault.bit) = 0
      PROVE  /\ Stored(3, c)' /\ ~Past(LastWrite, c)' => mem'[c] = Ones
             /\ Past(LastWrite, c)' /\ ~Past(LastWrite + 1, c)' => mem'[c] # LastValue(c)
             /\ Past(LastWrite + 1, c)' => c \in bad'
  <2> DEFINE last == LastValue(c)
  <2>1. /\ Stored(3, c) /\ ~Past(LastWrite, c) => mem[c] = Ones
        /\ Past(LastWrite, c) /\ ~Past(LastWrite + 1, c) => mem[c] # last
        /\ Past(LastWrite + 1, c) => c \in bad
    BY <1>7 DEF TransitionAt
  <2>2. Bit(Ones, fault.bit) = 1 /\ SetBit(last, fault.bit, 1) # last
    BY <1>2, <1>7, FaultyBit
  <2>3. Past(LastWrite + 1, c) => Past(LastWrite + 1, c)'
    BY LastPastSame
  <2>4. Past(LastWrite + 1, c)' => c \in bad'
    <3>1. CASE Past(LastWrite + 1, c)
      BY <1>1, <2>1, <3>1
    <3>2. ASSUME Past(LastWrite + 1, c)', ~Past(LastWrite + 1, c) PROVE c \in bad'
      <4>1. Check(c, last) /\ Past(LastWrite, c)
        BY <3>2, SeenLast
      <4> QED
        BY <1>1, <2>1, <3>2, <4>1, CheckReports
    <3> QED
      BY <3>1, <3>2
  <2>5. CASE /\ Quiet(c) /\ (Stored(3, c)' <=> Stored(3, c))
             /\ Past(LastWrite, c)' <=> Past(LastWrite, c)
    BY <1>4, <2>1, <2>3, <2>4, <2>5
  <2>6. CASE Stores(1, c, 0) /\ ~Stored(3, c)' /\ ~Past(1, c)
    <3>1. ~Past(LastWrite, c)'
      <4>1. sweep' \in Nat
        BY LinearSweeps, QuadraticSweeps DEF Loops, Does, LinearDoes, QuadraticDoes,
           Writes, Reads, Sets, Looks, Stepped
      <4> QED
        BY <1>2, <2>6, <4>1 DEF Stored, Past, LastWrite
    <3> QED
      BY <2>4, <2>6, <3>1
  <2>7. CASE Stores(3, c, Ones) /\ ~Past(LastWrite, c)'
    <3>1. mem'[c] = Ones
      BY <1>5, <1>7, <2>2, <2>7
    <3> QED
      BY <2>4, <2>7, <3>1
  <2>8. CASE /\ Stores(LastWrite, c, last)
             /\ Past(3, c) /\ ~Past(LastWrite, c) /\ Past(LastWrite, c)'
    <3>1. mem[c] = Ones
      BY <2>1, <2>8 DEF Stored
    <3>2. mem'[c] = SetBit(last, fault.bit, 1)
      <4>1. 1 - fault.to = 1
        BY <1>7
      <4> QED
        BY <1>5, <1>7, <2>2, <2>8, <3>1, <4>1
    <3> QED
      BY <2>2, <2>4, <2>8, <3>2
  <2> QED
    BY <1>3, <2>5, <2>6, <2>7, <2>8 DEF CellStep
<1> QED
  BY <1>1, <1>2, <1>6, <1>7 DEF TransitionAt

LEMMA CouplingStep ==
  ASSUME Loops, Sound, Does, UNCHANGED inputs, fault \in Fault, fault.kind = "coupling",
         alg = "quadratic", NEW c \in Tested, NEW d \in Tested, c # d,
         c = fault.cell, d = fault.other, CouplingAt(c, d)
  PROVE  CouplingAt(c, d)'
<1>1. /\ c \in Cell /\ d \in Cell /\ index \in Cell /\ c \in Nat /\ d \in Nat
      /\ bad \subseteq bad' /\ fault' = fault
      /\ Load(d) = mem[d] /\ Written(c)
  BY InCell, Reported, FaultSame DEF Loops, Load, Select, Sound, Marred
<1>2. LastWrite = 4 /\ LastValue(c) = 0 /\ LastValue(d) = 0
  BY DEF LastWrite, LastValue
<1>3. CellStep(c) /\ CellStep(d)
  BY CellSteps
<1>4. /\ \A k \in Nat : (Past(k, c) => Past(k, c)') /\ (Stored(k, c) => Stored(k, c)')
      /\ \A k \in Nat : (Past(k, d) => Past(k, d)') /\ (Stored(k, d) => Stored(k, d)')
      /\ Probed(c, d) => Probed(c, d)'
  BY Monotone
<1>5. Quiet(c) /\ Quiet(d) => mem'[d] = mem[d]
  BY <1>1, StoreCoupling DEF Quiet
<1>6. ASSUME NEW k, NEW v, Stores(k, d, v) PROVE mem'[d] = v
  BY <1>1, <1>6, StoreCoupling DEF Stores
<1>7. ASSUME NEW k, NEW v, Stores(k, c, v)
      PROVE  mem'[d] = IF Bit(v, fault.bit) = fault.to /\ Bit(mem[c], fault.bit) # fault.to
                         THEN SetBit(mem[d], fault.bit, 1 - Bit(mem[d], fault.bit)) ELSE mem[d]
  BY <1>1, <1>7, StoreCoupling DEF Stores
<1>8. /\ Bit(0, fault.bit) = 0 /\ Bit(Ones, fault.bit) = 1
      /\ SetBit(0, fault.bit, 1 - Bit(0, fault.bit)) # 0
      /\ SetBit(Ones, fault.bit, 1 - Bit(Ones, fault.bit)) # Ones
  BY FaultyBit, SizesOK
<1>9. sweep \in Nat /\ index \in Nat /\ probe \in Int
  BY InCell, QuadraticSweeps DEF Loops
<1>10. /\ Past(LastWrite, c) <=> Past(4, c)
       /\ Past(LastWrite, c)' <=> Past(4, c)'
       /\ Past(LastWrite, d) <=> Past(4, d)
       /\ Past(LastWrite, d)' <=> Past(4, d)'
  BY LastPast
<1>11. ASSUME fault.to = 1
       PROVE  /\ Past(1, d)' /\ ~Stored(3, c)' => mem'[d] = IF Stored(3, d)' THEN Ones ELSE 0
              /\ Stored(3, c)' /\ ~Probed(c, d)' => mem'[d] # IF d < c THEN Ones ELSE 0
              /\ Probed(c, d)' => d \in bad'
  <2>1. /\ Past(1, d) /\ ~Stored(3, c) => mem[d] = IF Stored(3, d) THEN Ones ELSE 0
        /\ Stored(3, c) /\ ~Probed(c, d) => mem[d] # IF d < c THEN Ones ELSE 0
        /\ Probed(c, d) => d \in bad
    BY <1>11 DEF CouplingAt
  <2>2. ASSUME Past(1, d)', ~Stored(3, c)'
        PROVE  mem'[d] = IF Stored(3, d)' THEN Ones ELSE 0
    <3>1. ~Stored(3, c)
      BY <1>4, <2>2
    <3>2. CASE Stores(1, c, 0)
      <4>1. mem'[d] = mem[d] /\ ~Stores(1, d, 0) /\ ~Stores(3, d, Ones)
            /\ ~Stores(LastWrite, d, LastValue(d))
        BY <1>7, <1>8, <1>11, <3>2 DEF Stores
      <4> QED
        BY <1>3, <2>1, <2>2, <3>1, <4>1 DEF CellStep
    <3>3. CASE Quiet(c)
      <4>1. CASE /\ Quiet(d) /\ (Past(1, d)' <=> Past(1, d))
                 /\ Stored(3, d)' <=> Stored(3, d)
        BY <1>5, <2>1, <2>2, <3>1, <3>3, <4>1
      <4>2. CASE Stores(1, d, 0) /\ ~Stored(3, d)'
        BY <1>6, <4>2
      <4>3. CASE Stores(3, d, Ones) /\ Stored(3, d)'
        BY <1>6, <4>3
      <4>4. CASE Stores(LastWrite, d, LastValue(d))
        BY <1>2, <3>1, <4>4 DEF Stores, Stored, Past
      <4> QED
        BY <1>3, <4>1, <4>2, <4>3, <4>4 DEF CellStep
    <3>4. CASE Stores(LastWrite, c, LastValue(c)) /\ Past(3, c)
      BY <3>1, <3>4 DEF Stored
    <3> QED
      BY <1>3, <2>2, <3>2, <3>3, <3>4 DEF CellStep
  <2>3. ASSUME Stored(3, c)', ~Probed(c, d)'
        PROVE  mem'[d] # IF d < c THEN Ones ELSE 0
    <3>1. CASE Stored(3, c)
      <4>1. ~Probed(c, d) /\ sweep = 3 /\ probe # -1
        BY <1>4, <1>9, <2>3, <3>1 DEF Probed, Stored
      <4>2. mem' = mem
        BY <1>2, <4>1, StoresEach DEF Stores
      <4> QED
        BY <2>1, <3>1, <4>1, <4>2
    <3>2. CASE ~Stored(3, c)
      <4>1. Stores(3, c, Ones) /\ Past(1, c)
        BY <1>3, <2>3, <3>2 DEF CellStep, Stored, Stores
      <4>2. mem[c] = 0
        BY <1>1, <3>2, <4>1 DEF Written
      <4>3. mem[d] = IF d < c THEN Ones ELSE 0
        BY <1>1, <1>9, <2>1, <3>2, <4>1 DEF Stores, Past, Stored
      <4>4. mem'[d] = SetBit(mem[d], fault.bit, 1 - Bit(mem[d], fault.bit))
        BY <1>7, <1>8, <1>11, <4>1, <4>2
      <4> QED
        BY <1>8, <4>3, <4>4
    <3> QED
      BY <3>1, <3>2
  <2>4. ASSUME Probed(c, d)' PROVE d \in bad'
    <3>1. CASE Probed(c, d)
      BY <1>1, <2>1, <3>1
    <3>2. CASE ~Probed(c, d)
      <4>1. /\ Check(d, IF d <= c THEN Ones ELSE 0)
            /\ sweep = 3 /\ index = c /\ probe # -1
        BY <2>4, <3>2, SeenProbed
      <4>2. mem[d] # IF d < c THEN Ones ELSE 0
        BY <2>1, <3>2, <4>1 DEF Stored
      <4>3. mem[d] # IF d <= c THEN Ones ELSE 0
        BY <1>1, <4>2
      <4> QED
        BY <1>1, <4>1, <4>3, CheckReports
    <3> QED
      BY <3>1, <3>2
  <2> QED
    BY <2>2, <2>3, <2>4
<1>12. ASSUME fault.to = 0, d < c
       PROVE  /\ Past(4, d)' /\ ~Past(4, c)' => mem'[d] = 0
              /\ Past(4, c)' /\ ~Past(5, d)' => mem'[d] # 0
              /\ Past(5, d)' => d \in bad'
  <2>1. /\ Past(4, d) /\ ~Past(4, c) => mem[d] = 0
        /\ Past(4, c) /\ ~Past(5, d) => mem[d] # 0
        /\ Past(5, d) => d \in bad
    BY <1>12 DEF CouplingAt
  <2>2. ASSUME Past(4, d)', ~Past(4, c)' PROVE mem'[d] = 0
    <3>1. CASE Past(4, d)
      <4>1. sweep >= 4 /\ ~Past(4, c)
        BY <1>4, <1>9, <2>2, <3>1 DEF Past
      <4>2. Quiet(c) /\ Quiet(d)
        BY <1>2, <1>3, <1>10, <2>2, <3>1, <4>1 DEF CellStep, Stores
      <4> QED
        BY <1>5, <2>1, <3>1, <4>1, <4>2
    <3>2. CASE ~Past(4, d)
      <4>1. Stores(4, d, 0) \/ ~Past(4, d)'
        BY <1>2, <1>3, <1>10, <3>2 DEF CellStep, Stores, Stored, Past
      <4> QED
        BY <1>6, <2>2, <4>1
    <3> QED
      BY <3>1, <3>2
  <2>3. ASSUME Past(4, c)', ~Past(5, d)' PROVE mem'[d] # 0
    <3>1. CASE Past(4, c)
      <4>1. ~Past(5, d) /\ sweep >= 4 /\ (sweep = 4 => index > c)
        BY <1>4, <1>9, <2>3, <3>1 DEF Past
      <4>2. Quiet(c) /\ Quiet(d)
        BY <1>1, <1>2, <1>3, <1>9, <1>10, <1>12, <3>1, <4>1 DEF CellStep, Stores
      <4> QED
        BY <1>5, <2>1, <3>1, <4>1, <4>2
    <3>2. CASE ~Past(4, c)
      <4>1. Stores(4, c, 0) /\ Past(3, c)
        <5>1. ~Stores(1, c, 0)
          BY <2>3 DEF Stores, Past, Does, QuadraticDoes, Writes, Reads, Stepped
        <5>2. Stores(LastWrite, c, LastValue(c)) /\ Past(3, c)
          BY <1>3, <1>10, <2>3, <3>2, <5>1 DEF CellStep
        <5> QED
          BY <1>2, <5>2
      <4>2. mem[c] = Ones
        BY <1>1, <1>10, <3>2, <4>1 DEF Written, Stored
      <4>3. Past(4, d)
        BY <1>1, <1>12, <4>1 DEF Stores, Past
      <4>4. mem[d] = 0
        BY <2>1, <3>2, <4>3
      <4>5. mem'[d] = SetBit(mem[d], fault.bit, 1 - Bit(mem[d], fault.bit))
        BY <1>7, <1>8, <1>12, <4>1, <4>2
      <4> QED
        BY <1>8, <4>4, <4>5
    <3> QED
      BY <3>1, <3>2
  <2>4. ASSUME Past(5, d)' PROVE d \in bad'
    <3>1. CASE Past(5, d)
      BY <1>1, <2>1, <3>1
    <3>2. CASE ~Past(5, d)
      <4>1. Past(LastWrite + 1, d)' /\ ~Past(LastWrite + 1, d)
        BY <1>2, <2>4, <3>2, LastSame DEF Past
      <4>2. Check(d, 0) /\ sweep = 5
        BY <1>2, <4>1, SeenLast
      <4>3. mem[d] # 0
        BY <2>1, <3>2, <4>2 DEF Past
      <4> QED
        BY <1>1, <4>2, <4>3, CheckReports
    <3> QED
      BY <3>1, <3>2
  <2> QED
    BY <2>2, <2>3, <2>4
<1> QED
  BY <1>1, <1>11, <1>12 DEF CouplingAt

LEMMA AliasStep ==
  ASSUME Loops, Does, UNCHANGED inputs, fault.kind = "alias", fault.cell # fault.other,
         NEW c \in Tested, NEW lower \in Tested, NEW higher \in Tested,
         c = fault.cell, {lower, higher} = {fault.cell, fault.other}, lower < higher,
         AliasAt(c, lower, higher)
  PROVE  AliasAt(c, lower, higher)'
<1>1. /\ c \in Cell /\ lower \in Cell /\ higher \in Cell /\ index \in Cell
      /\ lower \in Nat /\ higher \in Nat /\ bad \subseteq bad'
      /\ alg' = alg /\ Load(lower) = mem[c] /\ Load(higher) = mem[c]
  BY InCell, Reported, FaultSame DEF Loops, Load, Select
<1>2. CellStep(lower) /\ CellStep(higher)
  BY CellSteps
<1>3. /\ \A k \in Nat : (Past(k, lower) => Past(k, lower)')
      /\ \A k \in Nat : (Past(k, higher) => Past(k, higher)')
      /\ Probed(lower, higher) => Probed(lower, higher)'
  BY Monotone
<1>4. Quiet(lower) /\ Quiet(higher) => mem'[c] = mem[c]
  BY <1>1, StoreAlias DEF Quiet
<1>5. ASSUME NEW k, NEW x \in {lower, higher}, NEW v, Stores(k, x, v) PROVE mem'[c] = v
  BY <1>1, <1>5, StoreAlias DEF Stores
<1>6. sweep \in Nat /\ index \in Nat /\ probe \in Int /\ Ones # 0
  <2>1. sweep \in Nat
    BY LinearSweeps, QuadraticSweeps DEF Loops
  <2> QED
    BY <2>1, InCell, SizesOK DEF Loops
<1>7. ASSUME alg = "quadratic"
      PROVE  /\ Stored(3, lower)' /\ ~Probed(lower, higher)' => mem'[c] = Ones
             /\ Probed(lower, higher)' => higher \in bad'
  <2>1. /\ Stored(3, lower) /\ ~Probed(lower, higher) => mem[c] = Ones
        /\ Probed(lower, higher) => higher \in bad
    BY <1>7 DEF AliasAt
  <2>2. ASSUME Stored(3, lower)', ~Probed(lower, higher)' PROVE mem'[c] = Ones
    <3>1. CASE Stored(3, lower)
      <4>1. ~Probed(lower, higher) /\ sweep = 3 /\ probe # -1
        BY <1>3, <1>6, <2>2, <3>1 DEF Probed, Stored
      <4>2. mem' = mem
        BY <1>7, <4>1, StoresEach DEF Stores, LastWrite
      <4> QED
        BY <2>1, <3>1, <4>1, <4>2
    <3>2. CASE ~Stored(3, lower)
      <4>1. Stores(3, lower, Ones)
        BY <1>2, <2>2, <3>2 DEF CellStep, Stored, Stores
      <4> QED
        BY <1>5, <4>1
    <3> QED
      BY <3>1, <3>2
  <2>3. ASSUME Probed(lower, higher)' PROVE higher \in bad'
    <3>1. CASE Probed(lower, higher)
      BY <1>1, <2>1, <3>1
    <3>2. CASE ~Probed(lower, higher)
      <4>1. /\ Check(higher, IF higher <= lower THEN Ones ELSE 0)
            /\ sweep = 3 /\ index = lower /\ probe # -1
        BY <1>7, <2>3, <3>2, SeenProbed
      <4>2. mem[c] = Ones
        BY <2>1, <3>2, <4>1 DEF Stored
      <4>3. Load(higher) # IF higher <= lower THEN Ones ELSE 0
        BY <1>1, <1>6, <4>2
      <4> QED
        BY <4>1, <4>3, CheckReports
    <3> QED
      BY <3>1, <3>2
  <2> QED
    BY <2>2, <2>3
<1>8. ASSUME alg = "linear", lower % Ones # higher % Ones
      PROVE  /\ Past(5, higher)' /\ ~Past(6, lower)' => mem'[c] = higher % Ones
             /\ Past(6, lower)' => lower \in bad'
  <2>1. /\ Past(5, higher) /\ ~Past(6, lower) => mem[c] = higher % Ones
        /\ Past(6, lower) => lower \in bad
    BY <1>8 DEF AliasAt
  <2>2. /\ LastWrite = 5 /\ LastWrite' = 5
        /\ LastValue(lower) = lower % Ones /\ LastValue(higher) = higher % Ones
        /\ Past(LastWrite, higher) <=> Past(5, higher)
        /\ Past(LastWrite, higher)' <=> Past(5, higher)'
    BY <1>8, LastSame, LastPast
  <2>3. ASSUME Past(5, higher)', ~Past(6, lower)' PROVE mem'[c] = higher % Ones
    <3>1. CASE Past(5, higher)
      <4>1. ~Past(6, lower) /\ sweep >= 5 /\ (sweep = 5 => index > higher)
        BY <1>3, <1>6, <2>3, <3>1 DEF Past
      <4>2. Quiet(lower) /\ Quiet(higher)
        BY <1>1, <1>2, <1>6, <2>2, <3>1, <4>1 DEF CellStep, Stores
      <4> QED
        BY <1>4, <2>1, <3>1, <4>1, <4>2
    <3>2. CASE ~Past(5, higher)
      <4>1. ~Stores(1, higher, 0)
        BY <1>8, <2>3 DEF Stores, Past, Does, LinearDoes, Writes, Reads, Stepped
      <4>2. Stores(LastWrite, higher, LastValue(higher))
        BY <1>2, <2>2, <2>3, <3>2, <4>1 DEF CellStep
      <4> QED
        BY <1>5, <2>2, <4>2
    <3> QED
      BY <3>1, <3>2
  <2>4. ASSUME Past(6, lower)' PROVE lower \in bad'
    <3>1. CASE Past(6, lower)
      BY <1>1, <2>1, <3>1
    <3>2. CASE ~Past(6, lower)
      <4>1. Past(LastWrite + 1, lower)' /\ ~Past(LastWrite + 1, lower)
        BY <2>2, <2>4, <3>2 DEF Past
      <4>2. Check(lower, lower % Ones) /\ sweep = 6
        BY <2>2, <4>1, SeenLast
      <4>3. mem[c] # lower % Ones
        BY <1>8, <2>1, <3>2, <4>2 DEF Past
      <4> QED
        BY <1>1, <4>2, <4>3, CheckReports
    <3> QED
      BY <3>1, <3>2
  <2> QED
    BY <2>3, <2>4
<1> QED
  BY <1>1, <1>7, <1>8 DEF AliasAt

LEMMA InitFault == Init => FaultInv
<1> SUFFICES ASSUME Init PROVE FaultInv
  OBVIOUS
<1>1. fault \in Fault
  BY FaultsOK DEF Init
<1>2. sweep = 1 /\ index = offset /\ offset \in Nat /\ probe = -1
      /\ Tested = offset .. offset + PageSize - 1
  BY InitLoops DEF Init, Loops
<1>3. ASSUME NEW c \in Tested
      PROVE  /\ \A k \in {1, 2, 3, 4, 5, 6} : ~Past(k, c) /\ ~Stored(k, c)
             /\ ~OnesRead(c) /\ \A d : ~Probed(c, d)
             /\ ~Past(LastWrite, c) /\ ~Past(LastWrite + 1, c)
  BY <1>2 DEF Past, Stored, Probed, OnesRead, LastWrite
<1>4. ASSUME NEW c \in Tested PROVE StuckAt(c) /\ TransitionAt(c)
  BY <1>3 DEF StuckAt, TransitionAt
<1>5. ASSUME NEW c \in Tested, NEW d \in Tested
      PROVE  CouplingAt(c, d) /\ \A x : AliasAt(x, c, d)
  BY <1>3 DEF CouplingAt, AliasAt
<1> QED
  BY <1>1, <1>4, <1>5 DEF FaultInv, StuckInv, TransitionInv, CouplingInv, AliasInv

LEMMA NextFault == Loops /\ Sound /\ FaultInv /\ [Next]_vars => FaultInv'
<1> SUFFICES ASSUME Loops, Sound, FaultInv, [Next]_vars PROVE FaultInv'
  OBVIOUS
<1>1. UNCHANGED inputs /\ Does
  BY NextDoes
<1>2. fault' = fault /\ Tested' = Tested /\ alg' = alg /\ fault \in Fault /\ fault' \in Fault'
  BY <1>1, FaultSame DEF FaultInv, Fault, Cell
<1>3. StuckInv'
  <2> SUFFICES ASSUME fault.kind = "stuck", NEW c \in Tested, c = fault.cell
               PROVE  StuckAt(c)'
    BY <1>2 DEF StuckInv, StuckAt, OnesRead, Probed, Past
  <2> QED
    BY <1>1, <1>2, StuckStep DEF FaultInv, StuckInv
<1>4. TransitionInv'
  <2> SUFFICES ASSUME fault.kind = "transition", NEW c \in Tested, c = fault.cell
               PROVE  TransitionAt(c)'
    BY <1>2 DEF TransitionInv
  <2> QED
    BY <1>1, <1>2, TransitionStep DEF FaultInv, TransitionInv
<1>5. CouplingInv'
  <2> SUFFICES ASSUME fault.kind = "coupling", alg = "quadratic", NEW c \in Tested, NEW d \in Tested,
                      c # d, c = fault.cell, d = fault.other
               PROVE  CouplingAt(c, d)'
    BY <1>2 DEF CouplingInv
  <2> QED
    BY <1>1, <1>2, CouplingStep DEF FaultInv, CouplingInv
<1>6. AliasInv'
  <2> SUFFICES ASSUME fault.kind = "alias", NEW c \in Tested, NEW d \in Tested,
                      c = fault.cell, d = fault.other
               PROVE  /\ c < d => AliasAt(c, c, d)'
                      /\ d < c => AliasAt(c, d, c)'
    BY <1>2 DEF AliasInv
  <2>1. c \in Nat /\ d \in Nat
    BY InCell
  <2>2. (c < d => AliasAt(c, c, d)) /\ (d < c => AliasAt(c, d, c))
    BY DEF FaultInv, AliasInv
  <2>3. ASSUME c < d PROVE AliasAt(c, c, d)'
    BY <1>1, <2>1, <2>2, <2>3, AliasStep
  <2>4. ASSUME d < c PROVE AliasAt(c, d, c)'
    BY <1>1, <2>1, <2>2, <2>4, AliasStep
  <2> QED
    BY <2>3, <2>4
<1> QED
  BY <1>2, <1>3, <1>4, <1>5, <1>6 DEF FaultInv

LEMMA FaultHolds == Spec => []FaultInv
  BY InitFault, NextFault, LoopsHold, SoundHolds, PTL DEF Spec

(* At the end every sweep has come past every cell.                        *)
LEMMA AtTheEnd ==
  ASSUME Loops, Done, NEW c \in Tested, NEW d \in Tested
  PROVE  /\ Past(2, c) /\ Past(LastWrite + 1, c) /\ OnesRead(c)
         /\ alg = "linear" => Past(6, c)
         /\ alg = "quadratic" => Past(5, c) /\ Probed(c, d)
<1>1. CASE alg = "linear"
  <2>1. sweep = 7
    <3>1. Len(Sweeps) = 6 /\ sweep \in 1..7
      BY <1>1, LinearSweeps
    <3> QED
      BY <3>1 DEF Done
  <2> QED
    BY <1>1, <2>1 DEF Past, LastWrite, OnesRead
<1>2. CASE alg = "quadratic"
  <2>1. sweep = 6
    <3>1. Len(Sweeps) = 5 /\ sweep \in 1..6
      BY <1>2, QuadraticSweeps
    <3> QED
      BY <3>1 DEF Done
  <2> QED
    BY <1>2, <2>1 DEF Past, LastWrite, OnesRead, Probed
<1> QED
  BY <1>1, <1>2 DEF Loops

(* Each scanner finds the faults it is made for, in frames of any size and *)
(* wherever the fault is: a stuck bit; a bit that does not change; with    *)
(* the quadratic scanner a cell that disturbs another; two addresses that  *)
(* select one cell.                                                        *)
THEOREM FaultsAreFound == Spec => []FaultsFound
<1>1. Loops /\ FaultInv => FaultsFound
  <2> SUFFICES ASSUME Loops, FaultInv PROVE FaultsFound
    OBVIOUS
  <2>1. fault \in Fault /\ fault.to \in {0, 1} /\ Bit(0, fault.bit) = 0
    BY FaultyBit DEF FaultInv
  <2>2. StuckFound
    <3> SUFFICES ASSUME Done, fault.kind = "stuck", fault.cell \in Tested
                 PROVE  fault.cell \in bad
      BY DEF StuckFound, Finds
    <3> QED
      BY <2>1, AtTheEnd DEF FaultInv, StuckInv, StuckAt
  <2>3. TransitionFound
    <3> SUFFICES ASSUME Done, fault.kind = "transition", fault.cell \in Tested,
                        \/ alg = "quadratic"
                        \/ fault.to = 1
                        \/ Bit(fault.cell % Ones, fault.bit) = 0
                 PROVE  fault.cell \in bad
      BY DEF TransitionFound, Finds
    <3>1. TransitionAt(fault.cell)
      BY DEF FaultInv, TransitionInv
    <3>2. CASE fault.to = 1
      BY <3>1, <3>2, AtTheEnd DEF TransitionAt
    <3>3. CASE fault.to # 1
      <4>1. fault.to = 0 /\ Bit(LastValue(fault.cell), fault.bit) = 0
        BY <2>1, <3>3 DEF LastValue, Loops
      <4> QED
        BY <3>1, <4>1, AtTheEnd DEF TransitionAt
    <3> QED
      BY <3>2, <3>3
  <2>4. CouplingFound
    <3> SUFFICES ASSUME Done, fault.kind = "coupling", alg = "quadratic",
                        fault.cell \in Tested, fault.other \in Tested, fault.cell # fault.other,
                        fault.to = 1 \/ fault.other < fault.cell
                 PROVE  fault.other \in bad
      BY DEF CouplingFound, Finds
    <3>1. CouplingAt(fault.cell, fault.other)
      BY DEF FaultInv, CouplingInv
    <3> QED
      BY <2>1, <3>1, AtTheEnd DEF CouplingAt
  <2>5. AliasFound
    <3> SUFFICES ASSUME Done, fault.kind = "alias", fault.cell # fault.other,
                        fault.cell \in Tested, fault.other \in Tested,
                        alg = "quadratic" \/ fault.cell % Ones # fault.other % Ones
                 PROVE  fault.cell \in bad \/ fault.other \in bad
      BY DEF AliasFound, Finds
    <3>1. fault.cell \in Nat /\ fault.other \in Nat
      BY InCell
    <3>2. CASE fault.cell < fault.other
      <4>1. AliasAt(fault.cell, fault.cell, fault.other)
        BY <3>2 DEF FaultInv, AliasInv
      <4> QED
        BY <4>1, AtTheEnd DEF AliasAt, Loops
    <3>3. CASE fault.other < fault.cell
      <4>1. AliasAt(fault.cell, fault.other, fault.cell)
        BY <3>3 DEF FaultInv, AliasInv
      <4> QED
        BY <4>1, AtTheEnd DEF AliasAt, Loops
    <3> QED
      BY <3>1, <3>2, <3>3
  <2> QED
    BY <2>2, <2>3, <2>4, <2>5 DEF FaultsFound
<1> QED
  BY <1>1, LoopsHold, FaultHolds, PTL

(* With the modulus of the code, 255, the address pattern tells any two    *)
(* cells less than 255 apart from each other, and any two that differ in   *)
(* one line of the address within a page: the linear scanner finds a short *)
(* or broken address line.                                                 *)
THEOREM AddressLinesDiffer ==
  ASSUME Ones = 255, NEW i \in Nat, NEW d \in 1 .. 254 \cup {256, 512, 1024, 2048}
  PROVE  Pattern("address", i + d) # Pattern("address", i)
<1>1. Pattern("address", i + d) = (i + d) % 255 /\ Pattern("address", i) = i % 255
  BY DEF Pattern
<1>2. CASE d \in 1 .. 254
  <2>1. (i + d) % 255 # i % 255
    BY <1>2
  <2> QED
    BY <1>1, <2>1
<1>3. CASE d \in {256, 512, 1024, 2048}
  <2>1. (i + d) % 255 # i % 255
    BY <1>3
  <2> QED
    BY <1>1, <2>1
<1> QED
  BY <1>2, <1>3

(* The bytes of the code have the bits that OnesSet assumes. *)
LEMMA BytesHaveBits ==
  ASSUME NEW b \in 0 .. 7
  PROVE  2 ^ b \in Nat \ {0} /\ (255 \div 2 ^ b) % 2 = 1
<1>1. CASE b = 0
  <2>1. 2 ^ b = 1
    BY <1>1
  <2> QED
    BY <2>1
<1>2. CASE b = 1
  <2>1. 2 ^ b = 2
    BY <1>2
  <2> QED
    BY <2>1
<1>3. CASE b = 2
  <2>1. 2 ^ b = 4
    BY <1>3
  <2> QED
    BY <2>1
<1>4. CASE b = 3
  <2>1. 2 ^ b = 8
    BY <1>4
  <2> QED
    BY <2>1
<1>5. CASE b = 4
  <2>1. 2 ^ b = 16
    BY <1>5
  <2> QED
    BY <2>1
<1>6. CASE b = 5
  <2>1. 2 ^ b = 32
    BY <1>6
  <2> QED
    BY <2>1
<1>7. CASE b = 6
  <2>1. 2 ^ b = 64
    BY <1>7
  <2> QED
    BY <2>1
<1>8. CASE b = 7
  <2>1. 2 ^ b = 128
    BY <1>8
  <2> QED
    BY <2>1
<1> QED
  BY <1>1, <1>2, <1>3, <1>4, <1>5, <1>6, <1>7, <1>8

=============================================================================
