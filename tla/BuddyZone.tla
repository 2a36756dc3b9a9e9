------------------------------ MODULE BuddyZone ------------------------------
(***************************************************************************)
(* The free lists of a zone, from which the buddy claimer cuts single      *)
(* frames behind the back of the page allocator.                           *)
(*                                                                         *)
(* Free memory consists of blocks of 2^o aligned frames.  The first frame  *)
(* of a free block has PageBuddy set and the order in page_private, and is *)
(* on the free list of the order.  The allocator splits blocks and merges  *)
(* a freed block with its buddy.  A claim takes the first frame of a block *)
(* and puts the rest back as smaller blocks.                               *)
(*                                                                         *)
(* There is a free list per order and migrate type.  A claim first makes   *)
(* the pageblock of the frame MIGRATE_ISOLATE, which moves its free blocks *)
(* to a list the allocator does not use, and undoes it at the end.         *)
(*                                                                         *)
(* What happens under zone->lock is one step.  The claimer works on the    *)
(* frame without the lock before (page_count) and after (prep_new_page).   *)
(***************************************************************************)
EXTENDS Integers, FiniteSets, FiniteSetsExt

CONSTANTS
  Thread,       \* threads inside try_claim_free_buddy_page
  NumFrames,    \* frames of the zone
  MaxOrder,     \* MAX_ORDER
  PageblockOrder, \* pageblock_order
  Movable,      \* the pageblocks of type MIGRATE_MOVABLE; the others are unmovable
  MaxClaims     \* bound: claims made

Frame == 0 .. NumFrames - 1
Order == 0 .. MaxOrder - 1
Type  == {"movable", "unmovable", "isolate"}
Pageblock(f) == f \div 2^PageblockOrder

ASSUME SizesOK == /\ NumFrames \in Nat \ {0} /\ MaxOrder \in Nat \ {0}
                  /\ MaxClaims \in Nat /\ IsFiniteSet(Thread)
ASSUME WholeBlocks == NumFrames % 2 ^ (MaxOrder - 1) = 0
ASSUME PageblocksOK == PageblockOrder \in Order /\ Movable \subseteq Nat

VARIABLES
  buddy,      \* the frames with PageBuddy
  order,      \* page_private of each frame
  list,       \* free_area[o].free_list[type]
  nr_free,    \* free_area[o].nr_free
  free_pages, \* the statistics item NR_FREE_PAGES of the zone
  count,      \* _count of each frame
  isolated,   \* the pageblocks that are MIGRATE_ISOLATE
  blocks,     \* blocks the allocator has handed out: <<first frame, order>>
  pcp,        \* frames on the per-CPU lists
  claimed,    \* frames in the statuses of sessions
  call,       \* how far each thread is with which frame
  claims      \* history: claims made

zone == <<buddy, order, list, nr_free, free_pages>>
vars == <<buddy, order, list, nr_free, free_pages, count, isolated, blocks, pcp,
          claimed, call, claims>>

Span(f, o) == f .. f + 2^o - 1

(* The first frame of the block of order o that f lies in. *)
Base(f, o) == f - (f % 2^o)

FreeFrames == UNION {Span(f, order[f]) : f \in buddy}

(* set_pageblock_flags_group's counterpart: the type of the pageblock.     *)
Usual(f)     == IF Pageblock(f) \in Movable THEN "movable" ELSE "unmovable"
BlockType(f) == IF Pageblock(f) \in isolated THEN "isolate" ELSE Usual(f)

Idle == [pc |-> "idle", page |-> 0]

Init ==
  /\ buddy = {f \in Frame : f % 2^(MaxOrder - 1) = 0}
  /\ order = [f \in Frame |-> IF f \in buddy THEN MaxOrder - 1 ELSE 0]
  /\ isolated = {}
  /\ list = [o \in Order |-> [m \in Type |->
               {f \in buddy : order[f] = o /\ BlockType(f) = m}]]
  /\ nr_free = [o \in Order |-> Cardinality({f \in buddy : order[f] = o})]
  /\ free_pages = NumFrames
  /\ count = [f \in Frame |-> 0]
  /\ blocks = {} /\ pcp = {} /\ claimed = {}
  /\ call = [t \in Thread |-> Idle]
  /\ claims = 0

-----------------------------------------------------------------------------
(* The claimer.                                                            *)

(* Mutant of Rest: the last half is not put back. *)
RestShort(f, o) == {<<f + 2^j, j>> : j \in 0 .. o - 2}

(* Mutant of Rest: the rest is put back frame by frame. *)
RestSingle(f, o) == {<<g, 0>> : g \in Span(f, o) \ {f}}

(* Mutant of Rest: a half begins one frame late. *)
RestLate(f, o) == {<<f + 2^j + (IF j > 0 THEN 1 ELSE 0), j>> : j \in 0 .. o - 1}

(* expand__clone: what is put back of the block when its first frame goes. *)
Rest(f, o) == {<<f + 2^j, j>> : j \in 0 .. o - 1}

(* Mutant of Relist: nr_free of the lists that lose a block stays. *)
RelistUncounted(gone, back, m) ==
  LET firsts == {b[1] : b \in back} IN
  /\ buddy' = (buddy \ gone) \cup firsts
  /\ order' = [f \in Frame |-> IF f \in firsts THEN (CHOOSE b \in back : b[1] = f)[2]
                               ELSE IF f \in gone THEN 0 ELSE order[f]]
  /\ list' = [o \in Order |-> [n \in Type |->
                 (list[o][n] \ gone) \cup {b[1] : b \in {c \in back : c[2] = o /\ n = m}}]]
  /\ nr_free' = [o \in Order |-> nr_free[o] + Cardinality({c \in back : c[2] = o})]

(* Take the blocks `gone` off the free lists, whatever their type, and put *)
(* the blocks `back` on those of type m.                                   *)
Relist(gone, back, m) ==
  LET firsts == {b[1] : b \in back} IN
  /\ buddy' = (buddy \ gone) \cup firsts
  /\ order' = [f \in Frame |-> IF f \in firsts THEN (CHOOSE b \in back : b[1] = f)[2]
                               ELSE IF f \in gone THEN 0 ELSE order[f]]
  /\ list' = [o \in Order |-> [n \in Type |->
                 (list[o][n] \ gone) \cup {b[1] : b \in {c \in back : c[2] = o /\ n = m}}]]
  /\ nr_free' = [o \in Order |-> nr_free[o] - Cardinality({f \in gone : order[f] = o})
                                            + Cardinality({c \in back : c[2] = o})]

At(t, pc, f) == call' = [call EXCEPT ![t] = [pc |-> pc, page |-> f]]
Return(t)    == call' = [call EXCEPT ![t] = Idle]

(* move_freepages_block: the free blocks that begin in a pageblock. *)
MoveFree(k, m) ==
  LET moved == {f \in buddy : Pageblock(f) = k} IN
  list' = [o \in Order |-> [n \in Type |->
             (list[o][n] \ moved) \cup {f \in moved : order[f] = o /\ n = m}]]

(* try_claim_free_buddy_page tries to isolate the pageblock, and goes on   *)
(* whether it has been able to or not.                                     *)
Isolate(t, f) ==
  /\ call[t].pc = "idle"
  /\ claims + Cardinality({u \in Thread : call[u].pc # "idle"}) < MaxClaims
  /\ IF BlockType(f) = "movable"
       THEN isolated' = isolated \cup {Pageblock(f)} /\ MoveFree(Pageblock(f), "isolate")
       ELSE UNCHANGED <<isolated, list>>
  /\ At(t, "isolated", f)
  /\ UNCHANGED <<buddy, order, nr_free, free_pages, count, blocks, pcp, claimed, claims>>

(* is_free_buddy_page: is the frame anywhere in a free block? *)
InFreeBlock(f) == \E o \in Order : LET h == Base(f, o) IN h \in buddy /\ order[h] >= o

(* The two looks of the claimer before it takes the lock itself. *)
IsFree(t) ==
  LET f == call[t].page IN
  /\ call[t].pc = "isolated"
  /\ At(t, IF count[f] = 0 /\ InFreeBlock(f) THEN "free" ELSE "done", f)
  /\ UNCHANGED <<zone, count, isolated, blocks, pcp, claimed, claims>>

(* Mutant of Takeable: trusts is_free_buddy_page. *)
TakeableBefore(f) == count[f] = 0

(* Under the lock only the first frame of a block passes. *)
Takeable(f) == count[f] = 0 /\ f \in buddy

(* Mutant of PieceType: takes it for granted that the pageblock is isolated. *)
PieceTypeIsolated(f) == "isolate"

(* What is put back is filed under the type of the claimed frame's         *)
(* pageblock, also the pieces that lie in another one.                     *)
PieceType(f) == BlockType(f)

(* Mutant of Take: the lock is given back before the rest is put back. *)
TakeDropsRest(t) ==
  LET f == call[t].page IN
  /\ call[t].pc = "free" /\ Takeable(f)
  /\ Relist({f}, {}, PieceType(f))
  /\ At(t, "taken", f)
  /\ claims' = claims + 1
  /\ UNCHANGED <<free_pages, count, isolated, blocks, pcp, claimed>>

(* claim_free_buddy_page; NR_FREE_PAGES stays as it is. *)
Take(t) ==
  LET f == call[t].page IN
  /\ call[t].pc = "free" /\ Takeable(f)
  /\ Relist({f}, Rest(f, order[f]), PieceType(f))
  /\ At(t, "taken", f)
  /\ claims' = claims + 1
  /\ UNCHANGED <<free_pages, count, isolated, blocks, pcp, claimed>>

(* Mutant of Lost: a claim that fails leaves the pageblock isolated. *)
LostIsolated(t) ==
  /\ call[t].pc = "free" /\ ~Takeable(call[t].page)
  /\ Return(t)
  /\ UNCHANGED <<zone, count, isolated, blocks, pcp, claimed, claims>>

Lost(t) ==
  /\ call[t].pc = "free" /\ ~Takeable(call[t].page)
  /\ At(t, "done", call[t].page)
  /\ UNCHANGED <<zone, count, isolated, blocks, pcp, claimed, claims>>

(* prep_new_page, after the lock; the frame then goes into a status. *)
Prep(t) ==
  LET f == call[t].page IN
  /\ call[t].pc = "taken"
  /\ count' = [count EXCEPT ![f] = 1]
  /\ order' = [order EXCEPT ![f] = 0]
  /\ claimed' = claimed \cup {f}
  /\ At(t, "done", f)
  /\ UNCHANGED <<buddy, list, nr_free, free_pages, isolated, blocks, pcp, claims>>

(* unset_migratetype_isolate ends the isolation of the pageblock, whoever  *)
(* has begun it.                                                           *)
Unisolate(t) ==
  LET k == Pageblock(call[t].page) IN
  /\ call[t].pc = "done"
  /\ isolated' = isolated \ {k}
  /\ IF k \in isolated THEN MoveFree(k, "movable") ELSE UNCHANGED list
  /\ Return(t)
  /\ UNCHANGED <<buddy, order, nr_free, free_pages, count, blocks, pcp, claimed, claims>>

-----------------------------------------------------------------------------
(* The page allocator.                                                     *)

(* Split off a block of order o from the smallest free one of a type that  *)
(* is not isolated.                                                        *)
KernelAlloc(o) ==
  \E m \in Type \ {"isolate"}, k \in o .. MaxOrder - 1 : \E f \in list[k][m] :
    /\ \A j \in o .. k - 1 : list[j][m] = {}
    /\ Relist({f}, Rest(f, k) \ Rest(f, o), m)
    /\ free_pages' = free_pages - 2^o
    /\ blocks' = blocks \cup {<<f, o>>}
    /\ count' = [count EXCEPT ![f] = 1]
    /\ UNCHANGED <<isolated, pcp, claimed, call, claims>>

BuddyOf(h, o) == IF (h \div 2^o) % 2 = 0 THEN h + 2^o ELSE h - 2^o

(* The free buddies that a freed block is merged with, one per order. *)
Merged(f, o, k) == {BuddyOf(Base(f, j), j) : j \in o .. k - 1}
Mergeable(f, o, k) ==
  \A j \in o .. k - 1 : LET b == BuddyOf(Base(f, j), j) IN b \in buddy /\ order[b] = j

FreeBlock(f, o, m) ==
  LET k == Max({i \in o .. MaxOrder - 1 : Mergeable(f, o, i)}) IN
  /\ Relist(Merged(f, o, k), {<<Base(f, k), k>>}, m)
  /\ free_pages' = free_pages + 2^o

KernelFree(f, o) ==
  /\ <<f, o>> \in blocks
  /\ blocks' = blocks \ {<<f, o>>}
  /\ count' = [count EXCEPT ![f] = 0]
  /\ FreeBlock(f, o, BlockType(f))
  /\ UNCHANGED <<isolated, pcp, claimed, call, claims>>

(* A single frame goes to a per-CPU list, where it keeps the type it has   *)
(* then, or straight back if its pageblock is isolated.                    *)
PutFrame(f) ==
  /\ count' = [count EXCEPT ![f] = 0]
  /\ IF BlockType(f) = "isolate" THEN FreeBlock(f, 0, "isolate") /\ UNCHANGED pcp
                                 ELSE pcp' = pcp \cup {f} /\ UNCHANGED zone

(* free_page_stati. *)
Put(f) ==
  /\ f \in claimed
  /\ claimed' = claimed \ {f}
  /\ PutFrame(f)
  /\ UNCHANGED <<isolated, blocks, call, claims>>

PcpDrain(f) ==
  /\ f \in pcp
  /\ pcp' = pcp \ {f}
  /\ FreeBlock(f, 0, Usual(f))
  /\ UNCHANGED <<count, isolated, blocks, claimed, call, claims>>

PcpAlloc(f) ==
  /\ f \in pcp
  /\ pcp' = pcp \ {f} /\ blocks' = blocks \cup {<<f, 0>>}
  /\ count' = [count EXCEPT ![f] = 1]
  /\ UNCHANGED <<zone, isolated, claimed, call, claims>>

-----------------------------------------------------------------------------
Claim(t)  == \/ (\E f \in Frame : Isolate(t, f)) \/ IsFree(t) \/ Take(t) \/ Lost(t)
             \/ Prep(t) \/ Unisolate(t)
Allocator == \/ \E o \in Order : KernelAlloc(o) \/ \E f \in Frame : KernelFree(f, o)
             \/ \E f \in Frame : PcpDrain(f) \/ PcpAlloc(f)

Next == (\E t \in Thread : Claim(t)) \/ (\E f \in Frame : Put(f)) \/ Allocator

Spec == Init /\ [][Next]_vars

-----------------------------------------------------------------------------
(* Properties.                                                             *)

TypeOK ==
  /\ buddy \subseteq Frame /\ order \in [Frame -> Order]
  /\ list \in [Order -> [Type -> SUBSET Frame]] /\ nr_free \in [Order -> Nat]
  /\ free_pages \in Nat /\ count \in [Frame -> {0, 1}]
  /\ isolated \subseteq Movable
  /\ blocks \subseteq Frame \X Order
  /\ pcp \subseteq Frame /\ claimed \subseteq Frame
  /\ call \in [Thread -> [pc : {"idle", "isolated", "free", "taken", "done"}, page : Frame]]
  /\ claims \in 0 .. MaxClaims

Taken == {call[t].page : t \in {u \in Thread : call[u].pc = "taken"}}

(* Who has the frame: how often each party holds it. *)
Holders(f) ==
    Cardinality({h \in buddy : f \in Span(h, order[h])})
  + Cardinality({b \in blocks : f \in Span(b[1], b[2])})
  + Cardinality({t \in Thread : call[t].pc = "taken" /\ call[t].page = f})
  + (IF f \in pcp THEN 1 ELSE 0) + (IF f \in claimed THEN 1 ELSE 0)

(* Cutting frames out of free blocks neither loses a frame nor gives it to *)
(* two: every frame is in one free block, or with one user.                *)
EveryFrameOnce == \A f \in Frame : Holders(f) = 1

(* The lists, the counters and the marks on the frames agree: a frame with *)
(* PageBuddy is on one list of its order, of whatever type, and nr_free    *)
(* counts these lists.                                                     *)
ListsAgree ==
  \A o \in Order :
    /\ UNION {list[o][m] : m \in Type} = {f \in buddy : order[f] = o}
    /\ \A m, n \in Type : m # n => list[o][m] \cap list[o][n] = {}
    /\ nr_free[o] = Cardinality({f \in buddy : order[f] = o})

(* The allocator finds a buddy by its address: free blocks are aligned to  *)
(* their size.                                                             *)
Aligned == \A f \in buddy : f % 2^order[f] = 0 /\ f + 2^order[f] <= NumFrames

(* What the allocator relies on when it searches a list or looks for a     *)
(* buddy.                                                                  *)
ListsSound == ListsAgree /\ Aligned

(* Claims leave no lasting fragmentation: two free buddies are always      *)
(* merged, so that when the last frame is back all blocks are whole again. *)
BuddiesMerged ==
  \A f \in buddy : order[f] < MaxOrder - 1 =>
     ~(BuddyOf(f, order[f]) \in buddy /\ order[BuddyOf(f, order[f])] = order[f])

(* A claim decrements nr_free of one order, but not NR_FREE_PAGES           *)
(* (free_buddy_page_claiming.c:154), to which the allocator adds the frame *)
(* when it comes back: the zone takes as many frames too many for free as  *)
(* claims were ever made.  Nothing else disturbs the number, and nothing   *)
(* ever corrects it.                                                       *)
FreePagesDrift == free_pages = Cardinality(FreeFrames) + claims

(* A pageblock is isolated only while a thread is between the beginning    *)
(* and the end of a claim in it: with several claims in one pageblock, of  *)
(* which only the first isolates it and any may end it, none leaves it     *)
(* behind, out of reach of the allocator.                                  *)
IsolationEnds ==
  \A k \in isolated : \E t \in Thread : call[t].pc # "idle" /\ Pageblock(call[t].page) = k

(* Free memory that is left on the isolate lists although its pageblock is *)
(* not isolated is out of use.  A claim can leave it there, as pieces in   *)
(* the next pageblock are filed under the type of the claimed frame's; but *)
(* never a block smaller than a pageblock.                                 *)
StrandedWhole ==
  \A o \in Order : \A f \in list[o]["isolate"] :
    Pageblock(f) \notin isolated => o >= PageblockOrder

-----------------------------------------------------------------------------
(* The zone implements FrameLedger: the claimers are one party, whose the  *)
(* frame is from the moment it is cut out of a block.                      *)
OwnerOf(f) ==
  IF f \in claimed \cup Taken THEN <<"party", "claimer">>
  ELSE IF \E b \in blocks : f \in Span(b[1], b[2]) THEN <<"kernel">>
  ELSE <<"free">>

Ledger == INSTANCE FrameLedger WITH
            Party <- {"claimer"}, owner <- [f \in Frame |-> OwnerOf(f)]

(* A claimer takes single free frames only and never one the allocator has *)
(* handed out, however blocks are split and merged around it.              *)
ImplementsLedger == Ledger!Spec
=============================================================================
