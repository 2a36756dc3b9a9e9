------------------------------ MODULE Scheduler ------------------------------
(***************************************************************************)
(* The memtester: main loop, the two schedulers and the status file.       *)
(*                                                                         *)
(* A pass visits every frame.  The blockwise scheduler gathers the frames  *)
(* that are due into a block, claims the block with one request when it is *)
(* full, after a long gap, or at the end, and tests the frames it got one  *)
(* after the other; the frame-by-frame scheduler claims and tests each on  *)
(* its own.  What is known of a frame is a record in a file mapped into    *)
(* the program, which outlives it; everything else is gone when it ends.   *)
(* Both schedulers use the same records, and an option chooses between     *)
(* them at each start.                                                     *)
(*                                                                         *)
(* The phys_mem device is what PhysMem shows it to be: it answers a        *)
(* request with one status per frame, in order, and maps the frames it     *)
(* claimed one behind the other.                                           *)
(***************************************************************************)
EXTENDS Integers, Sequences, FiniteSets

CONSTANTS
  NumFrames,        \* frames of the machine
  Strategies,       \* schedulers it is started with
  MaxBlock,         \* max_blocksize
  MaxNonMatching,   \* max_non_matching
  MaxAge,           \* max_untested_age of SimpleScheduler, in ticks of the clock
  PageSize,         \* PAGE_SIZE
  BadFrames,        \* frames whose memory fails the patterns
  MaxKills          \* bound: how often the program is ended

Frame == 0 .. NumFrames - 1

ASSUME SizesOK == /\ NumFrames \in Nat \ {0} /\ MaxBlock \in Nat \ {0}
                  /\ MaxNonMatching \in Nat \ {0} /\ MaxAge \in Nat
                  /\ PageSize \in Nat \ {0} /\ MaxKills \in Nat
ASSUME ConstantsOK == /\ Strategies \subseteq {"blockwise", "frame-by-frame"}
                      /\ Strategies # {} /\ BadFrames \subseteq Frame

VARIABLES
  pc,           \* "stopped", "scan", "claim", "test", "record"
  strategy,     \* options.strategy
  pfn,          \* the next frame to visit
  block, gap,   \* block, cur_non_matching
  results, idx, \* what the device answered, and the next result to look at
  (* The records of the status file: how long ago last_successfull_test    *)
  (* is, num_errors > 0.  Nothing reads the other fields.                  *)
  age, errors,
  (* History: what should_test selected and what was asked for in this     *)
  (* pass, which frames a scanner reported, how long ago the memory of a   *)
  (* frame was tested, whose records were lost, how often the program      *)
  (* ended.                                                                *)
  wanted, asked, reported, since, lost, kills

locals  == <<strategy, pfn, block, gap, results, idx>>
records == <<age, errors>>
outcome == <<reported, since, lost>>
history == <<wanted, asked, outcome, kills>>
vars == <<pc, locals, records, history>>

Elements(s) == {s[i] : i \in 1 .. Len(s)}
Blockwise   == strategy = "blockwise"
Old         == MaxAge + 1       \* as old as it gets, or never tested

Result == [pfn : Frame, claimed : BOOLEAN, offset : Nat]

-----------------------------------------------------------------------------
(* The status file.                                                        *)

(* The file is opened for writing, which empties it. *)
Emptied == /\ age' = [p \in Frame |-> Old] /\ errors' = {}
           /\ lost' = lost \cup {p \in Frame : age[p] < Old} \cup errors

(* _open_create keeps what is in the file, and appends zeroes; but every   *)
(* failure to open it - not only that of a file that does not exist, also  *)
(* a ^C - makes it open the file anew.                                     *)
OpenStatus == Emptied \/ UNCHANGED <<records, lost>>

Init ==
  /\ pc = "stopped" /\ strategy \in Strategies
  /\ pfn = 0 /\ block = <<>> /\ gap = 0
  /\ results = <<>> /\ idx = 1
  /\ age = [p \in Frame |-> Old] /\ errors = {}
  /\ wanted = {} /\ asked = {} /\ reported = {} /\ kills = 0
  /\ since = [p \in Frame |-> Old] /\ lost = {}

Reset == /\ pfn' = 0 /\ block' = <<>> /\ gap' = 0 /\ results' = <<>> /\ idx' = 1
         /\ wanted' = {} /\ asked' = {}

Start == /\ pc = "stopped"
         /\ OpenStatus /\ Reset
         /\ pc' = "scan" /\ strategy' \in Strategies
         /\ UNCHANGED <<reported, since, kills>>

(* The next round of `while True`, with a new scheduler on the file. *)
NewPass == /\ pc = "scan" /\ pfn = NumFrames /\ block = <<>>
           /\ OpenStatus /\ Reset
           /\ UNCHANGED <<pc, strategy, reported, since, kills>>

(* ^C, or the exception of a failed system call: a frame that has just     *)
(* been tested gets no record.                                             *)
Kill == /\ pc # "stopped" /\ kills < MaxKills
        /\ Reset
        /\ pc' = "stopped" /\ kills' = kills + 1
        /\ lost' = IF pc = "record" THEN lost \cup {results[idx].pfn} ELSE lost
        /\ UNCHANGED <<strategy, records, reported, since>>

Older(ages) == [p \in Frame |-> IF ages[p] < Old THEN ages[p] + 1 ELSE Old]

(* The clock advances. *)
Tick == /\ age' = Older(age) /\ since' = Older(since)
        /\ UNCHANGED <<pc, locals, errors, wanted, asked, reported, lost, kills>>

-----------------------------------------------------------------------------
(* Choosing frames.                                                        *)

(* One day, but SimpleBlockwiseScheduler overwrites it with 0. *)
max_untested_age == IF Blockwise THEN 0 ELSE MaxAge

(* Mutant of ShouldTest: a frame of age max_untested_age is due again. *)
ShouldTestEarly(p) == age[p] >= max_untested_age

ShouldTest(p) == age[p] > max_untested_age

Due == pc = "scan" /\ pfn < NumFrames

(* Mutant of VisitBlockwise: a gap does not end a block. *)
VisitBlockwiseFullOnly ==
  LET due   == ShouldTest(pfn)
      next  == IF due THEN Append(block, pfn) ELSE block
  IN
  /\ Blockwise /\ Due
  /\ pfn' = pfn + 1
  /\ block' = next
  /\ wanted' = IF due THEN wanted \cup {pfn} ELSE wanted
  /\ gap' = IF due THEN 0 ELSE gap + 1
  /\ pc' = IF Len(next) = MaxBlock THEN "claim" ELSE "scan"
  /\ UNCHANGED <<strategy, results, idx, records, asked, outcome, kills>>

(* SimpleBlockwiseScheduler.run *)
VisitBlockwise ==
  LET due   == ShouldTest(pfn)
      next  == IF due THEN Append(block, pfn) ELSE block
      miss  == IF due THEN 0 ELSE gap + 1
      flush == Len(next) = MaxBlock \/ miss >= MaxNonMatching
  IN
  /\ Blockwise /\ Due
  /\ pfn' = pfn + 1
  /\ block' = next
  /\ wanted' = IF due THEN wanted \cup {pfn} ELSE wanted
  /\ gap' = IF flush THEN 0 ELSE miss
  /\ pc' = IF flush /\ next # <<>> THEN "claim" ELSE "scan"
  /\ UNCHANGED <<strategy, results, idx, records, asked, outcome, kills>>

(* Mutant of LastBlock: the rest is only tested when it is a whole block. *)
LastBlockFull == /\ Blockwise /\ pc = "scan" /\ pfn = NumFrames /\ block # <<>>
                 /\ block' = IF Len(block) = MaxBlock THEN block ELSE <<>>
                 /\ pc' = IF Len(block) = MaxBlock THEN "claim" ELSE "scan"
                 /\ UNCHANGED <<strategy, pfn, gap, results, idx, records, history>>

LastBlock == /\ Blockwise /\ pc = "scan" /\ pfn = NumFrames /\ block # <<>>
             /\ pc' = "claim"
             /\ UNCHANGED <<locals, records, history>>

(* SimpleScheduler.run *)
VisitSimple ==
  /\ ~Blockwise /\ Due
  /\ pfn' = pfn + 1
  /\ IF ShouldTest(pfn)
       THEN /\ block' = <<pfn>> /\ pc' = "claim"
            /\ wanted' = wanted \cup {pfn}
       ELSE UNCHANGED <<block, pc, wanted>>
  /\ UNCHANGED <<strategy, gap, results, idx, records, asked, outcome, kills>>

-----------------------------------------------------------------------------
(* Claiming, testing, recording.                                           *)

(* What the device answers when it could claim the frames `got`. *)
Answer(got) ==
  [i \in 1 .. Len(block) |->
     IF block[i] \in got
       THEN [pfn |-> block[i], claimed |-> TRUE,
             offset |-> Cardinality({j \in 1 .. i-1 : block[j] \in got})]
       ELSE [pfn |-> 0, claimed |-> FALSE, offset |-> 0]]

(* _claim_pfns: configure, read_configuration *)
ClaimPfns ==
  /\ pc = "claim"
  /\ \E got \in SUBSET Elements(block) : results' = Answer(got)
  /\ idx' = 1 /\ pc' = "test"
  /\ asked' = asked \cup Elements(block)
  /\ UNCHANGED <<strategy, pfn, block, gap, records, wanted, outcome, kills>>

(* Mutant of NumClaimed: stops at the first frame not claimed. *)
NumClaimedPrefix ==
  Cardinality({i \in 1 .. Len(results) : \A j \in 1 .. i : results[j].claimed})

NumClaimed ==
  Cardinality({i \in 1 .. Len(results) :
                 results[i].pfn \in Elements(block) /\ results[i].claimed})

(* How many pages a scheduler maps, and which of them it tests. *)
MapLength == IF Blockwise THEN NumClaimed ELSE 1

(* Mutant of TestedOffset: the position in the block, not in the mapping. *)
TestedOffsetInBlock == IF Blockwise THEN idx - 1 ELSE 0

TestedOffset == IF Blockwise THEN results[idx].offset ELSE 0

(* The frames the mapping shows, one behind the other. *)
Shown(k) == {results[i].pfn : i \in {j \in 1 .. Len(results) :
                                       results[j].claimed /\ results[j].offset = k}}

(* test() returns the offset behind the last byte, whatever it found. *)
TestReturns == (TestedOffset + 1) * PageSize

(* A result belongs to the frame with its pfn - which is 0 for a frame     *)
(* that was not claimed.                                                   *)
Claimed(r) == r.pfn \in Elements(block) /\ r.claimed

(* A frame that was not claimed is passed over. *)
NotClaimed ==
  /\ pc = "test" /\ idx <= Len(results) /\ ~Claimed(results[idx])
  /\ idx' = idx + 1
  /\ UNCHANGED <<pc, strategy, pfn, block, gap, results, records, history>>

(* The scanner tests a page of the mapping. *)
TestFrame ==
  /\ pc = "test" /\ idx <= Len(results) /\ Claimed(results[idx])
  /\ since' = [p \in Frame |-> IF p \in Shown(TestedOffset) THEN 0 ELSE since[p]]
  /\ reported' = reported \cup (Shown(TestedOffset) \cap BadFrames)
  /\ pc' = "record"
  /\ UNCHANGED <<locals, records, wanted, asked, lost, kills>>

(* Mutant of Record: the time is that of the first result of the block. *)
RecordFirst ==
  LET p == results[1].pfn IN
  /\ pc = "record"
  /\ age' = [age EXCEPT ![p] = 0]
  /\ lost' = lost \ {results[idx].pfn}
  /\ pc' = "test" /\ idx' = idx + 1
  /\ UNCHANGED <<strategy, pfn, block, gap, results, errors,
                 wanted, asked, reported, since, kills>>

(* The outcome is written down. *)
Record ==
  LET p     == results[idx].pfn
      is_ok == TestReturns # 0
  IN
  /\ pc = "record"
  /\ IF is_ok
       THEN age' = [age EXCEPT ![p] = 0] /\ UNCHANGED errors
       ELSE errors' = errors \cup {p} /\ UNCHANGED age
  /\ lost' = lost \ {p}
  /\ pc' = "test" /\ idx' = idx + 1
  /\ UNCHANGED <<strategy, pfn, block, gap, results,
                 wanted, asked, reported, since, kills>>

(* Mutant of BlockDone: the next block begins with the frames of this one. *)
BlockDoneKept ==
  /\ pc = "test" /\ idx > Len(results)
  /\ pc' = "scan" /\ results' = <<>> /\ idx' = 1
  /\ UNCHANGED <<strategy, pfn, block, gap, records, history>>

BlockDone ==
  /\ pc = "test" /\ idx > Len(results)
  /\ pc' = "scan" /\ block' = <<>> /\ results' = <<>> /\ idx' = 1
  /\ UNCHANGED <<strategy, pfn, gap, records, history>>

-----------------------------------------------------------------------------
Run == \/ VisitBlockwise \/ LastBlock \/ VisitSimple
       \/ ClaimPfns \/ NotClaimed \/ TestFrame \/ Record \/ BlockDone \/ NewPass

Next == Start \/ Run \/ Kill \/ Tick

Spec == Init /\ [][Next]_vars

(* The program runs, is started again, and time passes. *)
FairSpec == Spec /\ WF_vars(Run) /\ WF_vars(Start) /\ WF_vars(Tick)

-----------------------------------------------------------------------------
(* Properties.                                                             *)

TypeOK ==
  /\ pc \in {"stopped", "scan", "claim", "test", "record"}
  /\ strategy \in Strategies /\ pfn \in 0 .. NumFrames
  /\ block \in Seq(Frame) /\ Len(block) <= MaxBlock
  /\ gap \in 0 .. MaxNonMatching
  /\ results \in Seq(Result) /\ Len(results) \in {0, Len(block)}
  /\ idx \in 1 .. Len(results) + 1
  /\ age \in [Frame -> 0 .. Old] /\ errors \subseteq Frame
  /\ since \in [Frame -> 0 .. Old] /\ lost \subseteq Frame
  /\ wanted \subseteq Frame /\ asked \subseteq Frame /\ reported \subseteq Frame
  /\ kills \in 0 .. MaxKills

(* The frames gathered and not yet asked for. *)
Pending == IF pc \in {"test", "record"} THEN {} ELSE Elements(block)

(* Every frame that is due is asked for once in a pass: none is dropped at *)
(* a gap, at a full block or at the end, and none is in two blocks.        *)
PassCovers == /\ wanted = asked \cup Pending
              /\ asked \cap Pending = {}
              /\ Cardinality(Elements(block)) = Len(block)

(* A gathered frame does not wait while more than max_non_matching others  *)
(* are passed over, and a full block does not wait at all.                 *)
GapBounded ==
  pc = "scan" /\ block # <<>> =>
    /\ Len(block) < MaxBlock
    /\ pfn - block[Len(block)] <= MaxNonMatching

(* The kernel can map what was claimed: no frame lies behind the end of    *)
(* the mapping that is asked for (it would refuse the whole mapping).      *)
MappingFits ==
  pc = "test" => \A i \in 1 .. Len(results) :
                   results[i].claimed => results[i].offset < MapLength

(* A frame is recorded as tested only when the bytes that were tested are  *)
(* its own, and it is one that was asked for.                              *)
TestsOwnFrame ==
  [][\A p \in Frame : age'[p] < age[p]
       => pc = "record" /\ Shown(TestedOffset) = {p} /\ p \in asked]_vars

(* No memory is claimed again sooner after it was really tested than       *)
(* max_untested_age allows, whichever scheduler tested it, in whichever    *)
(* block, and however often the program was ended and started since: the   *)
(* one exception is a frame whose record was lost, because the program     *)
(* ended between the test and the record or because the file was emptied   *)
(* at a start.                                                             *)
NotTooOften ==
  pc = "claim" => \A p \in Elements(block) \ lost : since[p] > max_untested_age

(* Every frame is asked for again and again, however the others behave.    *)
EveryFrameAsked == \A p \in Frame : []<>(p \in asked)

(* blockwise_scheduler.py:136: "It is better to handle bad frames after    *)
(* they are unmapped"; main.py:141 counts the frames that "have seen       *)
(* errors".  A frame a scanner complained about is recorded as bad, if its *)
(* record is not lost.                                                     *)
BadFramesRecorded == pc # "record" => reported \subseteq errors \cup lost
=============================================================================
