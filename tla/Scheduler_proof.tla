--------------------------- MODULE Scheduler_proof ---------------------------
(***************************************************************************)
(* Proofs about the schedulers, for any number of frames and any lengths   *)
(* of blocks and gaps: every frame that is due is asked for once in a      *)
(* pass, and does not wait behind a gap.                                   *)
(***************************************************************************)
EXTENDS Scheduler, TLAPS, FiniteSetTheorems

(* The block grows with the frames visited. *)
Gathering ==
  /\ pc \in {"stopped", "scan", "claim", "test", "record"}
  /\ strategy \in Strategies
  /\ pfn \in 0 .. NumFrames
  /\ gap \in 0 .. MaxNonMatching - 1
  /\ block \in Seq(Frame)
  /\ \A i, j \in 1 .. Len(block) : i < j => block[i] < block[j]
  /\ \A i \in 1 .. Len(block) : block[i] < pfn

(* What was selected is what was asked for and what is in the block. *)
Asked ==
  /\ wanted \subseteq 0 .. pfn - 1
  /\ wanted = asked \cup Pending
  /\ asked \cap Pending = {}
  /\ pc \in {"test", "record"} => Elements(block) \subseteq asked

(* Between two blocks: what the loop of the blockwise scheduler knows. *)
Between ==
  /\ pc = "stopped" => block = <<>>
  /\ pc = "scan" /\ block # <<>> =>
       /\ Blockwise /\ Len(block) < MaxBlock
       /\ pfn - block[Len(block)] = gap + 1

PassInv == Gathering /\ Asked /\ Between

-----------------------------------------------------------------------------
LEMMA EmptyBlock == Elements(<<>>) = {}
  BY DEF Elements

LEMMA GrownBlock ==
  ASSUME NEW b \in Seq(Frame), NEW p \in Frame
  PROVE  /\ Append(b, p) \in Seq(Frame)
         /\ Len(Append(b, p)) = Len(b) + 1
         /\ Append(b, p)[Len(b) + 1] = p
         /\ \A i \in 1 .. Len(b) : Append(b, p)[i] = b[i]
         /\ Elements(Append(b, p)) = Elements(b) \cup {p}
<1>1. /\ Append(b, p) \in Seq(Frame)
      /\ Len(Append(b, p)) = Len(b) + 1
      /\ Append(b, p)[Len(b) + 1] = p
      /\ \A i \in 1 .. Len(b) : Append(b, p)[i] = b[i]
  OBVIOUS
<1>2. 1 .. Len(b) + 1 = (1 .. Len(b)) \cup {Len(b) + 1}
  OBVIOUS
<1> QED
  BY <1>1, <1>2 DEF Elements

(* A block in ascending order names each frame once. *)
LEMMA AscendingDistinct ==
  ASSUME NEW b \in Seq(Frame),
         \A i, j \in 1 .. Len(b) : i < j => b[i] < b[j]
  PROVE  Cardinality(Elements(b)) = Len(b)
<1> DEFINE f == [i \in 1 .. Len(b) |-> b[i]]
<1>1. Len(b) \in Nat /\ \A i \in 1 .. Len(b) : b[i] \in Frame
  OBVIOUS
<1>2. \A i, j \in 1 .. Len(b) : b[i] = b[j] => i = j
  <2> SUFFICES ASSUME NEW i \in 1 .. Len(b), NEW j \in 1 .. Len(b), b[i] = b[j], i # j
               PROVE  FALSE
    OBVIOUS
  <2>1. b[i] \in Int /\ b[j] \in Int
    BY <1>1 DEF Frame
  <2> QED BY <1>1, <2>1
<1>3. f \in Bijection(1 .. Len(b), Elements(b))
  BY <1>1, <1>2 DEF Bijection, Injection, Surjection, IsInjective, Elements
<1>4. ExistsBijection(1 .. Len(b), Elements(b))
  BY <1>3 DEF ExistsBijection
<1> QED
  BY <1>1, <1>4, FS_CountingElements

-----------------------------------------------------------------------------
LEMMA InitPass == Init => PassInv
  BY SizesOK, EmptyBlock DEF Init, PassInv, Gathering, Asked, Between, Pending, Elements

(* A new pass, a new start and an end of the program begin with nothing. *)
LEMMA ResetPass ==
  ASSUME Reset, strategy' \in Strategies, pc' \in {"stopped", "scan"}
  PROVE  PassInv'
  BY SizesOK, EmptyBlock DEF Reset, PassInv, Gathering, Asked, Between, Pending, Elements

(* The next frame is visited; if it is due it joins the block. *)
LEMMA VisitGathers ==
  ASSUME PassInv, pc = "scan", pfn < NumFrames, pfn' = pfn + 1,
         NEW due \in BOOLEAN,
         block' = IF due THEN Append(block, pfn) ELSE block,
         wanted' = IF due THEN wanted \cup {pfn} ELSE wanted,
         UNCHANGED <<strategy, asked>>, gap' \in 0 .. MaxNonMatching - 1,
         pc' \in {"scan", "claim"}
  PROVE  Gathering' /\ Asked'
<1> USE DEF PassInv, Gathering
<1>1. pfn \in Frame /\ pfn' \in 0 .. NumFrames
  BY SizesOK DEF Frame
<1>2. \A i \in 1 .. Len(block) : block[i] \in Int
  <2>1. \A i \in 1 .. Len(block) : block[i] \in Frame
    OBVIOUS
  <2> QED BY <2>1 DEF Frame
<1>3. Len(block) \in Nat
  OBVIOUS
<1>4. CASE due
  <2>1. /\ block' \in Seq(Frame) /\ Len(block') = Len(block) + 1
        /\ block'[Len(block) + 1] = pfn
        /\ \A i \in 1 .. Len(block) : block'[i] = block[i]
        /\ Elements(block') = Elements(block) \cup {pfn}
    BY <1>1, <1>4, GrownBlock
  <2>2. \A i, j \in 1 .. Len(block') : i < j => block'[i] < block'[j]
    <3> SUFFICES ASSUME NEW i \in 1 .. Len(block'), NEW j \in 1 .. Len(block'), i < j
                 PROVE  block'[i] < block'[j]
      OBVIOUS
    <3>1. i \in 1 .. Len(block) /\ (j \in 1 .. Len(block) \/ j = Len(block) + 1)
      BY <1>3, <2>1
    <3> QED BY <2>1, <3>1
  <2>3. \A i \in 1 .. Len(block') : block'[i] < pfn'
    <3> SUFFICES ASSUME NEW i \in 1 .. Len(block') PROVE block'[i] < pfn'
      OBVIOUS
    <3>1. i \in 1 .. Len(block) \/ i = Len(block) + 1
      BY <1>3, <2>1
    <3> QED BY <1>1, <1>2, <2>1, <3>1 DEF Frame
  <2>4. Gathering'
    BY <1>1, <2>1, <2>2, <2>3
  <2>5. Pending = Elements(block) /\ Pending' = Elements(block) \cup {pfn}
    BY <2>1 DEF Pending
  <2>6. pfn \notin wanted
    BY <1>1 DEF Asked, Frame
  <2>7. wanted' \subseteq 0 .. pfn' - 1
    BY <1>1, <1>4 DEF Asked, Frame
  <2> QED
    BY <1>4, <2>4, <2>5, <2>6, <2>7 DEF Asked
<1>5. CASE ~due
  <2>1. Gathering'
    BY <1>1, <1>2, <1>5 DEF Frame
  <2>2. Pending' = Pending
    BY <1>5 DEF Pending
  <2>3. wanted' \subseteq 0 .. pfn' - 1
    BY <1>1, <1>5 DEF Asked, Frame
  <2> QED BY <1>5, <2>1, <2>2, <2>3 DEF Asked
<1> QED BY <1>4, <1>5

LEMMA NextPass == PassInv /\ [Next]_vars => PassInv'
<1> SUFFICES ASSUME PassInv, [Next]_vars PROVE PassInv'
  OBVIOUS
<1>1. CASE Start
  BY <1>1, ResetPass DEF Start
<1>2. CASE NewPass
  BY <1>2, ResetPass DEF NewPass, PassInv, Gathering
<1>3. CASE Kill
  BY <1>3, ResetPass DEF Kill, PassInv, Gathering
<1>4. CASE VisitBlockwise
  <2> DEFINE due   == ShouldTest(pfn)
             next  == IF due THEN Append(block, pfn) ELSE block
             miss  == IF due THEN 0 ELSE gap + 1
             flush == Len(next) = MaxBlock \/ miss >= MaxNonMatching
  <2>1. /\ Blockwise /\ pc = "scan" /\ pfn < NumFrames /\ pfn' = pfn + 1
        /\ block' = next
        /\ wanted' = IF due THEN wanted \cup {pfn} ELSE wanted
        /\ gap' = IF flush THEN 0 ELSE miss
        /\ pc' = IF flush /\ next # <<>> THEN "claim" ELSE "scan"
        /\ UNCHANGED <<strategy, asked>>
    BY <1>4 DEF VisitBlockwise, Due
  <2>2. due \in BOOLEAN
    BY DEF ShouldTest
  <2>3. miss \in Nat /\ gap' \in 0 .. MaxNonMatching - 1
    BY <2>1, SizesOK DEF PassInv, Gathering
  <2>4. Gathering' /\ Asked'
    BY <2>1, <2>2, <2>3, VisitGathers
  <2>5. Between'
    <3> SUFFICES ASSUME pc' = "scan", block' # <<>>
                 PROVE  /\ Blockwise' /\ Len(block') < MaxBlock
                        /\ pfn' - block'[Len(block')] = gap' + 1
      BY <2>1 DEF Between
    <3>1. ~flush /\ gap' = miss /\ Len(block') # MaxBlock
      BY <2>1
    <3>2. Blockwise'
      BY <2>1 DEF Blockwise
    <3>3. pfn \in Frame /\ block \in Seq(Frame) /\ Len(block) \in Nat
      BY <2>1, SizesOK DEF PassInv, Gathering, Frame
    <3>4. CASE due
      <4>1. /\ Len(block') = Len(block) + 1 /\ block'[Len(block')] = pfn
        BY <2>1, <3>3, <3>4, GrownBlock
      <4>2. Len(block) < MaxBlock
        BY <2>1, SizesOK DEF PassInv, Between
      <4> QED BY <2>1, <3>1, <3>2, <3>3, <3>4, <4>1, <4>2, SizesOK DEF Frame
    <3>5. CASE ~due
      <4>1. block' = block /\ block # <<>> /\ gap' = gap + 1
        BY <2>1, <3>1, <3>5
      <4>2. Len(block) < MaxBlock /\ pfn - block[Len(block)] = gap + 1
        BY <2>1, <4>1 DEF PassInv, Between
      <4>3. Len(block) \in 1 .. Len(block)
        BY <3>3, <4>1
      <4>4. block[Len(block)] \in Frame
        BY <3>3, <4>3
      <4>5. block[Len(block)] \in Int /\ gap \in Int /\ pfn \in Int
        BY <3>3, <4>4 DEF Frame, PassInv, Gathering
      <4>6. (pfn + 1) - block[Len(block)] = (gap + 1) + 1
        BY <4>2, <4>5
      <4> QED BY <2>1, <3>2, <4>1, <4>2, <4>6
    <3> QED BY <3>4, <3>5
  <2> QED BY <2>4, <2>5 DEF PassInv
<1>5. CASE VisitSimple
  <2> DEFINE due == ShouldTest(pfn)
  <2>1. /\ ~Blockwise /\ pc = "scan" /\ pfn < NumFrames /\ pfn' = pfn + 1
        /\ UNCHANGED <<strategy, asked, gap>>
        /\ pc' = IF due THEN "claim" ELSE "scan"
        /\ wanted' = IF due THEN wanted \cup {pfn} ELSE wanted
        /\ block' = IF due THEN <<pfn>> ELSE block
    BY <1>5 DEF VisitSimple, Due
  <2>2. block = <<>>
    BY <2>1 DEF PassInv, Between
  <2>3. block' = IF due THEN Append(block, pfn) ELSE block
    BY <2>1, <2>2
  <2>4. due \in BOOLEAN /\ gap' \in 0 .. MaxNonMatching - 1
    BY <2>1 DEF ShouldTest, PassInv, Gathering
  <2>5. Gathering' /\ Asked'
    BY <2>1, <2>3, <2>4, VisitGathers
  <2>6. Between'
    BY <2>1, <2>2 DEF Between
  <2> QED BY <2>5, <2>6 DEF PassInv
<1>6. CASE LastBlock
  BY <1>6 DEF LastBlock, locals, history, PassInv, Gathering, Asked, Between, Pending
<1>7. CASE ClaimPfns
  <2>1. /\ pc = "claim" /\ pc' = "test" /\ asked' = asked \cup Elements(block)
        /\ UNCHANGED <<strategy, pfn, block, gap, wanted>>
    BY <1>7 DEF ClaimPfns
  <2>2. Pending = Elements(block) /\ Pending' = {} /\ Elements(block') = Elements(block)
    BY <2>1 DEF Pending
  <2> QED BY <2>1, <2>2 DEF PassInv, Gathering, Asked, Between
<1>8. CASE NotClaimed \/ TestFrame \/ Record
  <2>1. /\ pc \in {"test", "record"} /\ pc' \in {"test", "record"}
        /\ UNCHANGED <<strategy, pfn, block, gap, wanted, asked>>
    BY <1>8 DEF NotClaimed, TestFrame, Record, locals, history
  <2>2. Pending = {} /\ Pending' = {} /\ Elements(block') = Elements(block)
    BY <2>1 DEF Pending
  <2> QED BY <2>1, <2>2 DEF PassInv, Gathering, Asked, Between
<1>9. CASE BlockDone
  <2>1. /\ pc = "test" /\ pc' = "scan" /\ block' = <<>>
        /\ UNCHANGED <<strategy, pfn, gap, wanted, asked>>
    BY <1>9 DEF BlockDone, history
  <2>2. Pending = {} /\ Pending' = {}
    BY <2>1, EmptyBlock DEF Pending
  <2> QED BY <2>1, <2>2 DEF PassInv, Gathering, Asked, Between
<1>10. CASE Tick
  BY <1>10 DEF Tick, locals, history, PassInv, Gathering, Asked, Between, Pending,
               Elements, Blockwise
<1>11. CASE UNCHANGED vars
  BY <1>11 DEF vars, locals, history, PassInv, Gathering, Asked, Between, Pending, Elements, Blockwise
<1> QED
  BY <1>1, <1>2, <1>3, <1>4, <1>5, <1>6, <1>7, <1>8, <1>9, <1>10, <1>11 DEF Next, Run

-----------------------------------------------------------------------------
LEMMA PassInvariant == Spec => []PassInv
  BY InitPass, NextPass, PTL DEF Spec

(* SimpleBlockwiseScheduler.run and SimpleScheduler.run: in a pass over    *)
(* any number of frames every frame that is due is asked for exactly once, *)
(* whatever the lengths of blocks and gaps.                                *)
THEOREM EveryDueFrameAskedOnce == Spec => []PassCovers
<1>1. PassInv => PassCovers
  BY AscendingDistinct DEF PassInv, Gathering, Asked, PassCovers
<1> QED BY <1>1, PassInvariant, PTL

(* SimpleBlockwiseScheduler.run: a block that is gathered is never full    *)
(* and never has a gap of max_non_matching frames behind it.               *)
THEOREM GapsEndBlocks == Spec => []GapBounded
<1>1. PassInv => GapBounded
  <2> SUFFICES ASSUME PassInv, pc = "scan", block # <<>>
               PROVE  Len(block) < MaxBlock /\ pfn - block[Len(block)] <= MaxNonMatching
    BY DEF GapBounded
  <2> QED BY SizesOK DEF PassInv, Gathering, Between
<1> QED BY <1>1, PassInvariant, PTL

-----------------------------------------------------------------------------
HasAnswer == \E got \in SUBSET Elements(block) : results = Answer(got)

(* What the device answered for the block, and how old the records and the *)
(* tests are.                                                              *)
Answered ==
  /\ pc \in {"test", "record"} => HasAnswer
  /\ pc = "record" => idx <= Len(results) /\ Claimed(results[idx])
  /\ ~Blockwise /\ pc \in {"claim", "test", "record"} => Len(block) = 1
  /\ idx \in Nat \ {0}
  /\ age \in [Frame -> 0 .. Old] /\ since \in [Frame -> 0 .. Old]

Before(i, got) == {j \in 1 .. i-1 : block[j] \in got}

LEMMA AnswerFields ==
  ASSUME block \in Seq(Frame), NEW got, results = Answer(got)
  PROVE  /\ Len(results) = Len(block)
         /\ \A i \in 1 .. Len(results) :
              /\ results[i].claimed <=> block[i] \in got
              /\ results[i].claimed => /\ results[i].pfn = block[i]
                                       /\ results[i].offset = Cardinality(Before(i, got))
<1>1. Len(block) \in Nat
  OBVIOUS
<1>2. results = [i \in 1 .. Len(block) |->
                   IF block[i] \in got
                     THEN [pfn |-> block[i], claimed |-> TRUE, offset |-> Cardinality(Before(i, got))]
                     ELSE [pfn |-> 0, claimed |-> FALSE, offset |-> 0]]
  BY DEF Answer, Before
<1>3. Len(results) = Len(block)
  BY <1>1, <1>2
<1>4. ASSUME NEW i \in 1 .. Len(results)
      PROVE  /\ results[i].claimed <=> block[i] \in got
             /\ results[i].claimed => /\ results[i].pfn = block[i]
                                      /\ results[i].offset = Cardinality(Before(i, got))
  <2>1. results[i] = IF block[i] \in got
                       THEN [pfn |-> block[i], claimed |-> TRUE, offset |-> Cardinality(Before(i, got))]
                       ELSE [pfn |-> 0, claimed |-> FALSE, offset |-> 0]
    BY <1>2, <1>3
  <2> QED BY <2>1
<1> QED BY <1>3, <1>4

LEMMA BeforeFinite ==
  ASSUME NEW i \in Nat, NEW got
  PROVE  IsFiniteSet(Before(i, got)) /\ Cardinality(Before(i, got)) \in Nat
<1>1. IsFiniteSet(1 .. i-1) /\ Before(i, got) \subseteq 1 .. i-1
  BY FS_Interval DEF Before
<1> QED BY <1>1, FS_Subset, FS_CardinalityType

(* A later frame has more claimed frames before it. *)
LEMMA BeforeGrows ==
  ASSUME NEW i \in Nat \ {0}, NEW S, NEW got, IsFiniteSet(S),
         block[i] \in got, i \in S, Before(i, got) \subseteq S
  PROVE  Cardinality(Before(i, got)) < Cardinality(S)
<1>1. i \notin Before(i, got)
  BY DEF Before
<1>2. IsFiniteSet(Before(i, got)) /\ Cardinality(Before(i, got)) \in Nat
  BY BeforeFinite
<1>3. Cardinality(Before(i, got)) <= Cardinality(S)
      /\ (Cardinality(Before(i, got)) = Cardinality(S) => Before(i, got) = S)
  BY FS_Subset
<1>4. Cardinality(S) \in Nat
  BY FS_CardinalityType
<1> QED BY <1>1, <1>2, <1>3, <1>4

LEMMA OffsetsDiffer ==
  ASSUME block \in Seq(Frame), NEW got, results = Answer(got),
         NEW i \in 1 .. Len(results), NEW k \in 1 .. Len(results),
         results[i].claimed, results[k].claimed, results[i].offset = results[k].offset
  PROVE  i = k
<1>1. /\ Len(results) = Len(block) /\ block[i] \in got /\ block[k] \in got
      /\ results[i].offset = Cardinality(Before(i, got))
      /\ results[k].offset = Cardinality(Before(k, got))
  BY AnswerFields
<1>2. Len(results) \in Nat
  BY <1>1
<1>3. IsFiniteSet(Before(i, got)) /\ IsFiniteSet(Before(k, got))
      /\ Cardinality(Before(i, got)) \in Nat /\ Cardinality(Before(k, got)) \in Nat
  BY <1>2, BeforeFinite
<1>4. Cardinality(Before(i, got)) = Cardinality(Before(k, got))
  BY <1>1
<1>5. CASE i < k
  <2>1. i \in Before(k, got) /\ Before(i, got) \subseteq Before(k, got)
    BY <1>1, <1>2, <1>5 DEF Before
  <2>2. i \in Nat \ {0}
    BY <1>2
  <2>3. Cardinality(Before(i, got)) < Cardinality(Before(k, got))
    BY <1>1, <1>3, <2>1, <2>2, BeforeGrows
  <2> QED BY <1>3, <1>4, <2>3
<1>6. CASE k < i
  <2>1. k \in Before(i, got) /\ Before(k, got) \subseteq Before(i, got)
    BY <1>1, <1>2, <1>6 DEF Before
  <2>2. k \in Nat \ {0}
    BY <1>2
  <2>3. Cardinality(Before(k, got)) < Cardinality(Before(i, got))
    BY <1>1, <1>3, <2>1, <2>2, BeforeGrows
  <2> QED BY <1>3, <1>4, <2>3
<1> QED BY <1>2, <1>5, <1>6

-----------------------------------------------------------------------------
Sched == PassInv /\ Answered

LEMMA InitAnswered == Init => Answered
  BY SizesOK DEF Init, Answered, Old

LEMMA AnswerKept ==
  ASSUME HasAnswer, UNCHANGED <<block, results>>
  PROVE  HasAnswer'
<1>1. PICK got \in SUBSET Elements(block) : results = Answer(got)
  BY DEF HasAnswer
<1>2. got \in SUBSET Elements(block') /\ results' = Answer(got)'
  BY <1>1 DEF Answer, Elements
<1> QED BY <1>2 DEF HasAnswer

LEMMA OlderType ==
  ASSUME NEW ages \in [Frame -> 0 .. Old]
  PROVE  Older(ages) \in [Frame -> 0 .. Old]
<1>1. Old \in Nat
  BY SizesOK DEF Old
<1> QED BY <1>1 DEF Older

LEMMA NextAnswered == PassInv /\ Answered /\ [Next]_vars => Answered'
<1> SUFFICES ASSUME PassInv, Answered, [Next]_vars PROVE Answered'
  OBVIOUS
<1> USE DEF Answered
<1>0. Old \in Nat
  BY SizesOK DEF Old
<1>1. CASE Start
  BY <1>0, <1>1 DEF Start, OpenStatus, Emptied, records, Reset
<1>2. CASE NewPass
  BY <1>0, <1>2 DEF NewPass, OpenStatus, Emptied, records, Reset, Blockwise
<1>3. CASE Kill
  BY <1>3 DEF Kill, records, Reset
<1>4. CASE VisitBlockwise
  BY <1>4 DEF VisitBlockwise, Due, records, outcome, Blockwise
<1>5. CASE VisitSimple
  BY <1>5 DEF VisitSimple, Due, records, outcome, Blockwise
<1>6. CASE LastBlock
  BY <1>6 DEF LastBlock, locals, records, history, outcome, Blockwise
<1>7. CASE ClaimPfns
  <2>1. PICK got \in SUBSET Elements(block) : results' = Answer(got)
    BY <1>7 DEF ClaimPfns
  <2>2. block' = block
    BY <1>7 DEF ClaimPfns
  <2>3. got \in SUBSET Elements(block)' /\ Answer(got)' = Answer(got)
    BY <2>2 DEF Answer, Elements
  <2>4. HasAnswer'
    BY <2>1, <2>3 DEF HasAnswer
  <2> QED BY <1>7, <2>4 DEF ClaimPfns, records, outcome, Blockwise
<1>8. CASE NotClaimed
  <2>1. /\ pc = "test" /\ UNCHANGED <<pc, strategy, block, results, age, since>>
        /\ idx' = idx + 1
    BY <1>8 DEF NotClaimed, records, history, outcome
  <2>2. HasAnswer'
    BY <2>1, AnswerKept
  <2> QED BY <2>1, <2>2 DEF Blockwise
<1>9. CASE TestFrame
  <2>1. /\ pc = "test" /\ pc' = "record" /\ idx <= Len(results) /\ Claimed(results[idx])
        /\ UNCHANGED <<strategy, block, results, idx, age>>
    BY <1>9 DEF TestFrame, locals, records
  <2>2. since' \in [Frame -> 0 .. Old]
    BY <1>0, <1>9 DEF TestFrame
  <2>3. HasAnswer'
    BY <2>1, AnswerKept
  <2>4. Claimed(results[idx])'
    BY <2>1 DEF Claimed, Elements
  <2> QED BY <2>1, <2>2, <2>3, <2>4 DEF Blockwise
<1>10. CASE Record
  <2>1. /\ pc = "record" /\ pc' = "test" /\ UNCHANGED <<strategy, block, results, since>>
        /\ idx' = idx + 1
    BY <1>10 DEF Record
  <2>2. age' \in [Frame -> 0 .. Old]
    BY <1>0, <1>10 DEF Record
  <2>3. HasAnswer'
    BY <2>1, AnswerKept
  <2> QED BY <2>1, <2>2, <2>3 DEF Blockwise
<1>11. CASE BlockDone
  BY <1>11 DEF BlockDone, records, history, outcome
<1>12. CASE Tick
  <2>1. UNCHANGED <<pc, strategy, block, results, idx>>
    BY <1>12 DEF Tick, locals
  <2>2. age' \in [Frame -> 0 .. Old] /\ since' \in [Frame -> 0 .. Old]
    BY <1>12, OlderType DEF Tick
  <2>3. pc' \in {"test", "record"} => HasAnswer'
    BY <2>1, AnswerKept
  <2>4. Claimed(results[idx])' <=> Claimed(results[idx])
    BY <2>1 DEF Claimed, Elements
  <2> QED BY <2>1, <2>2, <2>3, <2>4 DEF Blockwise
<1>13. CASE UNCHANGED vars
  <2>1. UNCHANGED <<pc, strategy, block, results, idx, age, since>>
    BY <1>13 DEF vars, locals, records, history, outcome
  <2>2. pc' \in {"test", "record"} => HasAnswer'
    BY <2>1, AnswerKept
  <2>3. Claimed(results[idx])' <=> Claimed(results[idx])
    BY <2>1 DEF Claimed, Elements
  <2> QED BY <2>1, <2>2, <2>3 DEF Blockwise
<1> QED
  BY <1>1, <1>2, <1>3, <1>4, <1>5, <1>6, <1>7, <1>8, <1>9, <1>10, <1>11, <1>12, <1>13
  DEF Next, Run

LEMMA SchedInvariant == Spec => []Sched
<1>1. Init => Sched
  BY InitPass, InitAnswered DEF Sched
<1>2. Sched /\ [Next]_vars => Sched'
  BY NextPass, NextAnswered DEF Sched
<1> QED BY <1>1, <1>2, PTL DEF Spec

(* test_frames_and_record_result: the mapping asked for is long enough for *)
(* the offset of every claimed frame, whichever frames could be claimed.   *)
THEOREM MappingLongEnough == Spec => []MappingFits
<1>1. ASSUME Sched, pc = "test", NEW i \in 1 .. Len(results), results[i].claimed
      PROVE  results[i].offset < MapLength
  <2>1. block \in Seq(Frame) /\ Len(block) \in Nat
    BY <1>1 DEF Sched, PassInv, Gathering
  <2>2. PICK got \in SUBSET Elements(block) : results = Answer(got)
    BY <1>1 DEF Sched, Answered, HasAnswer
  <2>3. /\ Len(results) = Len(block) /\ block[i] \in got
        /\ results[i].offset = Cardinality(Before(i, got))
    BY <1>1, <2>1, <2>2, AnswerFields
  <2>4. i \in Nat \ {0}
    BY <1>1, <2>1, <2>3
  <2>5. CASE Blockwise
    <3> DEFINE S == {k \in 1 .. Len(results) :
                       results[k].pfn \in Elements(block) /\ results[k].claimed}
    <3>1. \A k \in 1 .. Len(results) : block[k] \in got => k \in S
      BY <2>1, <2>2, <2>3, AnswerFields DEF Elements
    <3>2. i \in S /\ Before(i, got) \subseteq S
      BY <1>1, <2>1, <2>3, <3>1 DEF Before
    <3>3. IsFiniteSet(S)
      <4>1. IsFiniteSet(1 .. Len(results)) /\ S \in SUBSET (1 .. Len(results))
        BY <2>1, <2>3, FS_Interval
      <4> QED BY <4>1, FS_Subset
    <3>4. Cardinality(Before(i, got)) < Cardinality(S)
      BY <2>3, <2>4, <3>2, <3>3, BeforeGrows
    <3> QED BY <2>3, <2>5, <3>4 DEF MapLength, NumClaimed
  <2>6. CASE ~Blockwise
    <3>1. i = 1
      BY <1>1, <2>1, <2>3, <2>6 DEF Sched, Answered
    <3>2. Before(i, got) = {}
      BY <3>1 DEF Before
    <3> QED BY <2>3, <2>6, <3>2, FS_EmptySet DEF MapLength
  <2> QED BY <2>5, <2>6
<1>2. Sched => MappingFits
  BY <1>1 DEF MappingFits
<1> QED BY <1>2, SchedInvariant, PTL

(* What the scanner looks at is the frame the result is about.             *)
LEMMA TestedIsOwn ==
  ASSUME Sched, pc \in {"test", "record"}, idx <= Len(results), Claimed(results[idx])
  PROVE  Shown(TestedOffset) = {results[idx].pfn}
<1>1. block \in Seq(Frame) /\ Len(block) \in Nat /\ idx \in Nat \ {0}
  BY DEF Sched, PassInv, Gathering, Answered
<1>2. PICK got \in SUBSET Elements(block) : results = Answer(got)
  BY DEF Sched, Answered, HasAnswer
<1>3. Len(results) = Len(block) /\ idx \in 1 .. Len(results) /\ results[idx].claimed
  BY <1>1, <1>2, AnswerFields DEF Claimed
<1>4. TestedOffset = results[idx].offset
  <2>1. CASE Blockwise
    BY <2>1 DEF TestedOffset
  <2>2. CASE ~Blockwise
    <3>0. Len(block) = 1
      BY <2>2 DEF Sched, Answered
    <3>1. idx = 1
      BY <1>1, <1>3, <3>0
    <3>2. results[idx].offset = Cardinality(Before(idx, got))
      BY <1>1, <1>2, <1>3, AnswerFields
    <3>3. Before(idx, got) = {}
      BY <3>1 DEF Before
    <3> QED BY <2>2, <3>2, <3>3, FS_EmptySet DEF TestedOffset
  <2> QED BY <2>1, <2>2
<1>5. \A j \in 1 .. Len(results) :
        results[j].claimed /\ results[j].offset = results[idx].offset <=> j = idx
  BY <1>1, <1>2, <1>3, OffsetsDiffer
<1>6. {j \in 1 .. Len(results) : results[j].claimed /\ results[j].offset = TestedOffset} = {idx}
  BY <1>3, <1>4, <1>5
<1> QED BY <1>6 DEF Shown

(* test_frames_and_record_result, test_frame_and_record_result: when a     *)
(* frame is recorded as tested, the bytes that were tested were its own.   *)
THEOREM OwnFrameTested == Spec => TestsOwnFrame
<1> DEFINE Own(p) == pc = "record" /\ Shown(TestedOffset) = {p} /\ p \in asked
<1>1. ASSUME Sched, [Next]_vars, NEW p \in Frame, age'[p] < age[p] PROVE Own(p)
  <2>1. age \in [Frame -> 0 .. Old] /\ age[p] \in 0 .. Old /\ Old \in Nat
    BY <1>1, SizesOK DEF Sched, Answered, Old
  <2>2. ~(age' = age)
    BY <1>1, <2>1
  <2>3. ~Tick
    <3> SUFFICES ASSUME Tick PROVE FALSE
      OBVIOUS
    <3>1. age'[p] = IF age[p] < Old THEN age[p] + 1 ELSE Old
      BY DEF Tick, Older
    <3> QED BY <1>1, <2>1, <3>1
  <2>4. ~Emptied
    BY <1>1, <2>1 DEF Emptied
  <2>5. Record
    BY <1>1, <2>2, <2>3, <2>4 DEF Next, Run, Start, NewPass, Kill, VisitBlockwise,
       VisitSimple, LastBlock, ClaimPfns, NotClaimed, TestFrame, BlockDone, OpenStatus,
       records, vars
  <2>6. pc = "record" /\ age' = [age EXCEPT ![results[idx].pfn] = 0]
    BY <2>2, <2>5 DEF Record
  <2>7. p = results[idx].pfn
    BY <1>1, <2>1, <2>6
  <2>8. idx <= Len(results) /\ Claimed(results[idx])
    BY <1>1, <2>6 DEF Sched, Answered
  <2>9. p \in asked
    BY <1>1, <2>6, <2>7, <2>8 DEF Sched, PassInv, Asked, Claimed
  <2>10. Shown(TestedOffset) = {p}
    BY <1>1, <2>6, <2>7, <2>8, TestedIsOwn
  <2> QED BY <2>6, <2>9, <2>10
<1>2. Sched /\ [Next]_vars => [\A p \in Frame : age'[p] < age[p] => Own(p)]_vars
  BY <1>1
<1> QED BY <1>2, SchedInvariant, PTL DEF Spec, TestsOwnFrame

-----------------------------------------------------------------------------
(* Frames that wait in the block do not become younger. *)
Overdue == pc \notin {"test", "record"} =>
             \A i \in 1 .. Len(block) : age[block[i]] > max_untested_age

LEMMA NextOverdue == Sched /\ Overdue /\ [Next]_vars => Overdue'
<1> SUFFICES ASSUME Sched, Overdue, [Next]_vars PROVE Overdue'
  OBVIOUS
<1> USE DEF Overdue
<1>1. ASSUME UNCHANGED <<strategy, block, age>>,
             pc' \notin {"test", "record"} => pc \notin {"test", "record"}
      PROVE  Overdue'
  BY <1>1 DEF max_untested_age, Blockwise
<1>2. ASSUME block' = <<>>
      PROVE  Overdue'
  BY <1>2
<1>3. CASE Start \/ NewPass \/ Kill \/ BlockDone
  BY <1>2, <1>3 DEF Start, NewPass, Kill, BlockDone, Reset
<1>4. CASE VisitBlockwise \/ VisitSimple
  <2>1. /\ pc = "scan" /\ pfn \in Frame /\ UNCHANGED <<strategy, age>>
        /\ block' = IF ShouldTest(pfn) THEN Append(block, pfn) ELSE block
    <3>1. CASE VisitBlockwise
      BY <3>1, SizesOK DEF VisitBlockwise, Due, records, Sched, PassInv, Gathering, Frame
    <3>2. CASE VisitSimple
      <4>1. block = <<>>
        BY <3>2 DEF VisitSimple, Due, Sched, PassInv, Between
      <4> QED BY <3>2, <4>1, SizesOK DEF VisitSimple, Due, records, Sched, PassInv,
                                         Gathering, Frame
    <3> QED BY <1>4, <3>1, <3>2
  <2>2. max_untested_age' = max_untested_age
    BY <2>1 DEF max_untested_age, Blockwise
  <2>3. CASE ShouldTest(pfn)
    <3>1. block \in Seq(Frame) /\ Len(block) \in Nat
      BY DEF Sched, PassInv, Gathering
    <3>2. /\ Len(block') = Len(block) + 1 /\ block'[Len(block) + 1] = pfn
          /\ \A i \in 1 .. Len(block) : block'[i] = block[i]
      BY <2>1, <2>3, <3>1, GrownBlock
    <3> QED BY <2>1, <2>2, <2>3, <3>1, <3>2 DEF ShouldTest
  <2>4. CASE ~ShouldTest(pfn)
    BY <2>1, <2>2, <2>4
  <2> QED BY <2>3, <2>4
<1>5. CASE LastBlock
  BY <1>1, <1>5 DEF LastBlock, locals, records
<1>6. CASE ClaimPfns \/ NotClaimed \/ TestFrame \/ Record
  BY <1>6 DEF ClaimPfns, NotClaimed, TestFrame, Record
<1>7. CASE Tick
  <2>1. UNCHANGED <<pc, strategy, block>> /\ max_untested_age' = max_untested_age
    BY <1>7 DEF Tick, locals, max_untested_age, Blockwise
  <2>2. max_untested_age \in Nat /\ max_untested_age < Old /\ Old \in Nat
    BY SizesOK DEF max_untested_age, Old
  <2>3. ASSUME NEW p \in Frame, age[p] > max_untested_age
        PROVE  age'[p] > max_untested_age
    <3>1. age[p] \in 0 .. Old
      BY DEF Sched, Answered
    <3>2. age'[p] = IF age[p] < Old THEN age[p] + 1 ELSE Old
      BY <1>7 DEF Tick, Older
    <3> QED BY <2>2, <2>3, <3>1, <3>2
  <2>4. \A i \in 1 .. Len(block) : block[i] \in Frame
    BY DEF Sched, PassInv, Gathering
  <2> QED BY <2>1, <2>3, <2>4
<1>8. CASE UNCHANGED vars
  BY <1>1, <1>8 DEF vars, locals, records
<1> QED
  BY <1>3, <1>4, <1>5, <1>6, <1>7, <1>8 DEF Next, Run

(* A record is never younger than the last test of the memory of its       *)
(* frame, unless it is lost or is about to be written.                     *)
Remembered ==
  \A p \in Frame : \/ p \in lost \/ age[p] <= since[p]
                   \/ pc = "record" /\ p = results[idx].pfn

LEMMA OlderKeepsOrder ==
  ASSUME NEW older \in [Frame -> 0 .. Old], NEW newer \in [Frame -> 0 .. Old],
         NEW p \in Frame, newer[p] <= older[p]
  PROVE  Older(newer)[p] <= Older(older)[p]
<1>1. Old \in Nat /\ older[p] \in 0 .. Old /\ newer[p] \in 0 .. Old
  BY SizesOK DEF Old
<1> QED BY <1>1 DEF Older

(* Every test is recorded as a good one: the offset it returns is not 0.   *)
LEMMA NeverZero ==
  ASSUME Sched, pc = "record"
  PROVE  TestReturns # 0
<1>1. block \in Seq(Frame) /\ Len(block) \in Nat /\ idx \in Nat \ {0}
  BY DEF Sched, PassInv, Gathering, Answered
<1>2. PICK got \in SUBSET Elements(block) : results = Answer(got)
  BY DEF Sched, Answered, HasAnswer
<1>3. /\ Len(results) = Len(block) /\ idx \in 1 .. Len(results)
      /\ results[idx].offset = Cardinality(Before(idx, got))
  BY <1>1, <1>2, AnswerFields DEF Sched, Answered, Claimed
<1>4. TestedOffset \in Nat
  BY <1>1, <1>3, BeforeFinite DEF TestedOffset
<1>5. \A m, n \in Nat \ {0} : m * n # 0
  OBVIOUS
<1>6. TestedOffset + 1 \in Nat \ {0} /\ PageSize \in Nat \ {0}
  BY <1>4, SizesOK
<1> QED BY <1>5, <1>6 DEF TestReturns

LEMMA NextRemembered == Sched /\ Remembered /\ [Next]_vars => Remembered'
<1> SUFFICES ASSUME Sched, Remembered, [Next]_vars, NEW p \in Frame
             PROVE  \/ p \in lost' \/ age'[p] <= since'[p]
                    \/ pc' = "record" /\ p = results'[idx'].pfn
  BY DEF Remembered
<1>1. \/ p \in lost \/ age[p] <= since[p]
      \/ pc = "record" /\ p = results[idx].pfn
  BY DEF Remembered
<1>2. /\ age \in [Frame -> 0 .. Old] /\ since \in [Frame -> 0 .. Old]
      /\ age[p] \in 0 .. Old /\ since[p] \in 0 .. Old /\ Old \in Nat
  BY SizesOK DEF Sched, Answered, Old
<1>3. CASE Start \/ NewPass
  <2>1. pc # "record" /\ since' = since /\ OpenStatus
    BY <1>3 DEF Start, NewPass
  <2>2. CASE Emptied
    <3>1. age[p] = Old => since[p] = Old \/ p \in lost
      BY <1>1, <1>2, <2>1
    <3>2. p \in lost' \/ age[p] = Old
      BY <1>2, <2>2 DEF Emptied
    <3>3. age'[p] = Old /\ lost \subseteq lost'
      BY <2>2 DEF Emptied
    <3> QED BY <1>2, <2>1, <3>1, <3>2, <3>3
  <2>3. CASE UNCHANGED <<records, lost>>
    BY <1>1, <2>1, <2>3 DEF records
  <2> QED BY <2>1, <2>2, <2>3 DEF OpenStatus
<1>4. CASE Kill
  BY <1>1, <1>4 DEF Kill, records
<1>5. CASE VisitBlockwise \/ VisitSimple \/ LastBlock \/ ClaimPfns
  BY <1>1, <1>5 DEF VisitBlockwise, VisitSimple, LastBlock, ClaimPfns, Due, records,
     history, outcome
<1>6. CASE NotClaimed \/ BlockDone
  BY <1>1, <1>6 DEF NotClaimed, BlockDone, records, history, outcome
<1>7. CASE TestFrame
  <2>1. /\ pc = "test" /\ pc' = "record" /\ idx <= Len(results) /\ Claimed(results[idx])
        /\ UNCHANGED <<age, lost, results, idx>>
        /\ since' = [q \in Frame |-> IF q \in Shown(TestedOffset) THEN 0 ELSE since[q]]
    BY <1>7 DEF TestFrame, locals, records
  <2>2. Shown(TestedOffset) = {results[idx].pfn}
    BY <2>1, TestedIsOwn
  <2>3. since'[p] = IF p = results[idx].pfn THEN 0 ELSE since[p]
    BY <2>1, <2>2
  <2> QED BY <1>1, <2>1, <2>3
<1>8. CASE Record
  <2>1. pc = "record" /\ since' = since /\ lost' = lost \ {results[idx].pfn}
    BY <1>8 DEF Record
  <2>2. age' = [age EXCEPT ![results[idx].pfn] = 0]
    BY <1>8, NeverZero DEF Record
  <2>3. CASE p = results[idx].pfn
    BY <1>2, <2>1, <2>2, <2>3
  <2>4. CASE p # results[idx].pfn
    BY <1>1, <2>1, <2>2, <2>4
  <2> QED BY <2>3, <2>4
<1>9. CASE Tick
  <2>1. /\ age' = Older(age) /\ since' = Older(since)
        /\ UNCHANGED <<pc, lost, results, idx>>
    BY <1>9 DEF Tick, locals
  <2>2. CASE age[p] <= since[p]
    BY <1>2, <2>1, <2>2, OlderKeepsOrder
  <2> QED BY <1>1, <2>1, <2>2
<1>10. CASE UNCHANGED vars
  BY <1>1, <1>10 DEF vars, locals, records, history, outcome
<1> QED
  BY <1>3, <1>4, <1>5, <1>6, <1>7, <1>8, <1>9, <1>10 DEF Next, Run

(* should_test, test() and the status file: no memory is claimed again     *)
(* sooner after it was really tested than max_untested_age allows, in any  *)
(* block, with either scheduler and across ends and starts of the program, *)
(* unless its record was lost.                                             *)
THEOREM NotTooOftenHolds == Spec => []NotTooOften
<1>1. Init => Overdue /\ Remembered
  BY SizesOK DEF Init, Overdue, Remembered, Old
<1>2. Sched /\ Overdue /\ Remembered => NotTooOften
  <2> SUFFICES ASSUME Sched, Overdue, Remembered, pc = "claim",
                      NEW p \in Elements(block) \ lost
               PROVE  since[p] > max_untested_age
    BY DEF NotTooOften
  <2>1. PICK i \in 1 .. Len(block) : p = block[i]
    BY DEF Elements
  <2>2. p \in Frame /\ age[p] > max_untested_age
    BY <2>1 DEF Overdue, Sched, PassInv, Gathering
  <2>3. age[p] \in Nat /\ since[p] \in Nat /\ max_untested_age \in Nat
    BY <2>2, SizesOK DEF Sched, Answered, Old, max_untested_age
  <2>4. age[p] <= since[p]
    BY <2>2 DEF Remembered
  <2> QED BY <2>2, <2>3, <2>4
<1> QED BY <1>1, <1>2, NextOverdue, NextRemembered, SchedInvariant, PTL DEF Spec

-----------------------------------------------------------------------------
(* The results belong to the block that is being tested. *)
Types == TypeOK /\ (pc \notin {"test", "record"} => results = <<>> /\ idx = 1)

LEMMA AnswerType ==
  ASSUME NEW got, block \in Seq(Frame)
  PROVE  Answer(got) \in Seq(Result) /\ Len(Answer(got)) = Len(block)
<1>1. Len(block) \in Nat
  OBVIOUS
<1>2. 0 \in Frame
  BY SizesOK DEF Frame
<1>3. \A i \in 1 .. Len(block) : Cardinality(Before(i, got)) \in Nat
  BY BeforeFinite
<1>4. ASSUME NEW i \in 1 .. Len(block)
      PROVE  (IF block[i] \in got
                THEN [pfn |-> block[i], claimed |-> TRUE, offset |-> Cardinality(Before(i, got))]
                ELSE [pfn |-> 0, claimed |-> FALSE, offset |-> 0]) \in Result
  <2>1. block[i] \in Frame /\ Cardinality(Before(i, got)) \in Nat
    BY <1>3
  <2> QED BY <1>2, <2>1 DEF Result
<1>5. Answer(got) \in [1 .. Len(block) -> Result]
  BY <1>4 DEF Answer, Before
<1> QED BY <1>1, <1>5

LEMMA NextTypes == Sched /\ Types /\ [Next]_vars => Types'
<1> SUFFICES ASSUME Sched, Types, [Next]_vars PROVE Types'
  OBVIOUS
<1>1. PassInv' /\ Answered'
  BY NextPass, NextAnswered DEF Sched
<1>2. /\ pc' \in {"stopped", "scan", "claim", "test", "record"} /\ strategy' \in Strategies
      /\ pfn' \in 0 .. NumFrames /\ block' \in Seq(Frame) /\ gap' \in 0 .. MaxNonMatching
      /\ age' \in [Frame -> 0 .. Old] /\ since' \in [Frame -> 0 .. Old]
  BY <1>1, SizesOK DEF PassInv, Gathering, Answered
<1>3. /\ errors' \subseteq Frame /\ reported' \subseteq Frame /\ lost' \subseteq Frame
      /\ kills' \in 0 .. MaxKills
  <2>0. ASSUME pc = "record" PROVE results[idx].pfn \in Frame
    <3>1. idx \in 1 .. Len(results) /\ results \in Seq(Result)
      BY <2>0 DEF Types, TypeOK, Sched, Answered
    <3>2. results[idx] \in Result
      BY <3>1
    <3> QED BY <3>2 DEF Result
  <2>1. CASE Record
    BY <2>0, <2>1 DEF Record, Types, TypeOK
  <2>2. CASE Kill
    BY <2>0, <2>2, SizesOK DEF Kill, records, Types, TypeOK
  <2>3. CASE TestFrame
    BY <2>3, ConstantsOK DEF TestFrame, records, Types, TypeOK
  <2>4. CASE Start \/ NewPass
    BY <2>4 DEF Start, NewPass, OpenStatus, Emptied, records, Types, TypeOK
  <2>5. CASE ~(Record \/ Kill \/ TestFrame \/ Start \/ NewPass)
    BY <2>5 DEF Next, Run, Tick, VisitBlockwise, VisitSimple, LastBlock, ClaimPfns,
       NotClaimed, BlockDone, records, history, outcome, vars, Types, TypeOK
  <2> QED BY <2>1, <2>2, <2>3, <2>4, <2>5
<1>4. wanted' \subseteq Frame /\ asked' \subseteq Frame
  <2>1. wanted' \subseteq 0 .. pfn' - 1 /\ asked' \subseteq wanted'
    BY <1>1 DEF PassInv, Asked
  <2>2. pfn' \in 0 .. NumFrames /\ NumFrames \in Nat
    BY <1>2, SizesOK
  <2>3. ASSUME NEW n \in 0 .. NumFrames, NEW q \in 0 .. n - 1
        PROVE  q \in Frame
    BY SizesOK DEF Frame
  <2>4. 0 .. pfn' - 1 \subseteq Frame
    BY <2>2, <2>3
  <2> QED BY <2>1, <2>4
<1>5. /\ Len(block') <= MaxBlock
      /\ results' \in Seq(Result) /\ Len(results') \in {0, Len(block')}
      /\ idx' \in 1 .. Len(results') + 1
      /\ pc' \notin {"test", "record"} => results' = <<>> /\ idx' = 1
  <2> USE DEF Types, TypeOK
  <2>1. CASE Start \/ NewPass \/ Kill
    <3>1. block' = <<>> /\ results' = <<>> /\ idx' = 1
      BY <2>1 DEF Start, NewPass, Kill, Reset
    <3>2. <<>> \in Seq(Result) /\ Len(<<>>) = 0
      OBVIOUS
    <3> QED BY <3>1, <3>2, SizesOK
  <2>2. CASE VisitBlockwise
    <3>1. pc = "scan" /\ pfn \in Frame /\ UNCHANGED <<results, idx>>
          /\ block' \in {block, Append(block, pfn)}
      BY <2>2, SizesOK DEF VisitBlockwise, Due, Frame
    <3>2. Len(block) < MaxBlock
      BY <3>1, SizesOK DEF Sched, PassInv, Between
    <3>3. Len(block') <= MaxBlock
      BY <3>1, <3>2, GrownBlock, SizesOK
    <3> QED BY <3>1, <3>3
  <2>3. CASE VisitSimple
    <3>1. pc = "scan" /\ UNCHANGED <<results, idx>> /\ block' \in {block, <<pfn>>}
      BY <2>3 DEF VisitSimple, Due
    <3>2. results = <<>> /\ idx = 1 /\ results \in Seq(Result) /\ Len(results) = 0
      BY <3>1
    <3>3. Len(<<pfn>>) = 1
      OBVIOUS
    <3>4. Len(block) <= MaxBlock /\ MaxBlock \in Nat \ {0}
      BY SizesOK
    <3>5. Len(block') <= MaxBlock
      <4>1. CASE block' = block
        BY <4>1, <3>4
      <4>2. CASE block' = <<pfn>>
        <5>1. Len(block') = 1
          BY <4>2, <3>3, Zenon
        <5> QED BY <5>1, SizesOK
      <4> QED BY <3>1, <4>1, <4>2
    <3> QED BY <3>1, <3>2, <3>5
  <2>4. CASE LastBlock
    BY <2>4 DEF LastBlock, locals
  <2>5. CASE ClaimPfns
    <3>1. PICK got \in SUBSET Elements(block) : results' = Answer(got)
      BY <2>5 DEF ClaimPfns
    <3>2. results' \in Seq(Result) /\ Len(results') = Len(block)
      BY <3>1, AnswerType
    <3>3. pc' = "test" /\ block' = block /\ idx' = 1
      BY <2>5 DEF ClaimPfns
    <3> QED BY <3>2, <3>3
  <2>6. CASE NotClaimed \/ TestFrame \/ Record
    <3>1. /\ UNCHANGED <<block, results>> /\ pc' \in {"test", "record"}
          /\ (idx' = idx \/ idx' = idx + 1) /\ idx <= Len(results)
      BY <2>6 DEF NotClaimed, TestFrame, Record, locals, Sched, Answered
    <3>2. Len(results) \in Nat
      OBVIOUS
    <3> QED BY <3>1, <3>2
  <2>7. CASE BlockDone
    BY <2>7, SizesOK DEF BlockDone
  <2>8. CASE Tick
    BY <2>8 DEF Tick, locals
  <2>9. CASE UNCHANGED vars
    BY <2>9 DEF vars, locals
  <2> QED BY <2>1, <2>2, <2>3, <2>4, <2>5, <2>6, <2>7, <2>8, <2>9 DEF Next, Run
<1> QED BY <1>2, <1>3, <1>4, <1>5 DEF Types, TypeOK

(* Every variable keeps its type; in particular a block never outgrows     *)
(* max_blocksize, and the results are looked at within the block.          *)
THEOREM TypeCorrect == Spec => []TypeOK
<1>1. Init => Types
  BY SizesOK DEF Init, Types, TypeOK, Old
<1>2. Types => TypeOK
  BY DEF Types
<1> QED BY <1>1, <1>2, NextTypes, SchedInvariant, PTL DEF Spec
=============================================================================
