------------------------- MODULE PhysMemFrames_proof -------------------------
(* The frames of PhysMem: who holds one, who maps it, and what its count   *)
(* says, for any number of sessions, threads, frames and VMAs.             *)
(*                                                                         *)
(* Exclusive, RefCount and MappedPrivate only hold together: that a frame  *)
(* munmap returns to the allocator is not claimed follows from its count,  *)
(* that the count is exact when a claim is dropped from there being one.   *)
EXTENDS PhysMemLedger, PhysMem_proof

(* The three invariants, frame by frame. *)
PageOK(p) ==
  /\ \A c, d \in Claims(p) : c = d
  /\ Claims(p) # {} => p \notin buddy /\ p \notin kern
  /\ ~(p \in buddy /\ p \in kern)
  /\ \/ count[p] = References(p)
     \/ p \in poison /\ count[p] = 0 /\ Mappings(p) = {} /\ p \notin kern
  /\ count[p] = 0 => p \in buddy \/ p \in poison
  /\ p \in buddy => count[p] = 0
  /\ Mappings(p) # {} => p \notin buddy /\ p \notin kern
  /\ \A v \in Mappings(p) : \A c \in Claims(p) : c[1] = vown[v]

LEMMA FrameByFrame ==
  TypeOK => (Exclusive /\ RefCount /\ MappedPrivate <=> \A p \in Page : PageOK(p))
<1> SUFFICES ASSUME TypeOK
             PROVE  Exclusive /\ RefCount /\ MappedPrivate <=> \A p \in Page : PageOK(p)
  OBVIOUS
<1>1. ASSUME Exclusive, RefCount, MappedPrivate, NEW p \in Page PROVE PageOK(p)
  BY <1>1 DEF Exclusive, RefCount, MappedPrivate, PageOK, Mappings
<1>2. ASSUME \A p \in Page : PageOK(p) PROVE Exclusive /\ RefCount
  BY <1>2 DEF Exclusive, RefCount, PageOK
<1>3. ASSUME \A p \in Page : PageOK(p) PROVE MappedPrivate
  <2> SUFFICES ASSUME NEW v \in Vma, NEW p \in vpages[v]
               PROVE  p \notin buddy \cup kern /\ \A c \in Claims(p) : c[1] = vown[v]
    BY DEF MappedPrivate
  <2>1. p \in Page /\ v \in Mappings(p)
    BY DEF TypeOK, Mappings
  <2> QED BY <1>3, <2>1 DEF PageOK
<1> QED BY <1>1, <1>2, <1>3

-----------------------------------------------------------------------------
(* Counting the mappings of a frame.                                       *)

LEMMA MappingsFinite ==
  ASSUME NEW p
  PROVE  /\ IsFiniteSet(Mappings(p)) /\ Cardinality(Mappings(p)) \in Nat
         /\ Cardinality(Mappings(p)) = 0 <=> Mappings(p) = {}
<1>1. Mappings(p) \subseteq Vma
  BY DEF Mappings
<1>2. IsFiniteSet(Mappings(p))
  BY <1>1, SetsFinite, FS_Subset
<1> QED BY <1>2, FS_CardinalityType, FS_EmptySet

(* Frames put into the ptes of an empty VMA, or taken out of one. *)
LEMMA MapOne ==
  ASSUME TypeOK, NEW v \in Vma, vpages[v] = {}, NEW ps \in SUBSET Page,
         vpages' = [vpages EXCEPT ![v] = ps], NEW p \in Page
  PROVE  /\ Mappings(p)' = IF p \in ps THEN Mappings(p) \cup {v} ELSE Mappings(p)
         /\ Cardinality(Mappings(p)') =
              Cardinality(Mappings(p)) + (IF p \in ps THEN 1 ELSE 0)
<1>1. Mappings(p)' = IF p \in ps THEN Mappings(p) \cup {v} ELSE Mappings(p)
  BY DEF TypeOK, Mappings
<1>2. v \notin Mappings(p)
  BY DEF Mappings
<1>3. IsFiniteSet(Mappings(p)) /\ Cardinality(Mappings(p)) \in Nat
  BY MappingsFinite
<1>4. Cardinality(Mappings(p) \cup {v}) = Cardinality(Mappings(p)) + 1
  BY <1>2, <1>3, FS_AddElement
<1> QED BY <1>1, <1>3, <1>4

LEMMA UnmapOne ==
  ASSUME TypeOK, NEW v \in Vma, vpages' = [vpages EXCEPT ![v] = {}], NEW p \in Page
  PROVE  /\ Mappings(p)' = Mappings(p) \ {v}
         /\ Cardinality(Mappings(p)') =
              Cardinality(Mappings(p)) - (IF p \in vpages[v] THEN 1 ELSE 0)
<1>1. Mappings(p)' = Mappings(p) \ {v}
  BY DEF TypeOK, Mappings
<1>2. v \in Mappings(p) <=> p \in vpages[v]
  BY DEF Mappings
<1>3. IsFiniteSet(Mappings(p)) /\ Cardinality(Mappings(p)) \in Nat
  BY MappingsFinite
<1>4. Cardinality(Mappings(p) \ {v}) =
        IF v \in Mappings(p) THEN Cardinality(Mappings(p)) - 1 ELSE Cardinality(Mappings(p))
  BY <1>3, FS_RemoveElement
<1> QED BY <1>1, <1>2, <1>3, <1>4

-----------------------------------------------------------------------------
(* What a step does to the claims of a frame.                              *)

LEMMA SameClaims ==
  ASSUME \A s \in Session, i \in Idx : stati'[s][i].page = stati[s][i].page, NEW p
  PROVE  Claims(p)' = Claims(p)
  BY DEF Claims

LEMMA NewStatiClaims ==
  ASSUME TypeOK, NEW s \in Session, NEW n, NewStati(s, n), NEW p \in Page
  PROVE  Claims(p)' = {c \in Claims(p) : c[1] # s}
<1>1. \A r \in Session \ {s} : stati'[r] = stati[r]
  BY DEF TypeOK, NewStati
<1>2. \A i \in Idx : stati'[s][i].page # p
  BY NullsDistinct DEF TypeOK, NewStati, Blanks, Blank
<1> QED BY <1>1, <1>2 DEF Claims

LEMMA RecordClaims ==
  ASSUME TypeOK, NEW s \in Session, NEW i \in Idx, stati[s][i] = Blank, NEW status,
         stati' = [stati EXCEPT ![s][i] = status], NEW p \in Page
  PROVE  Claims(p)' = IF status.page = p THEN Claims(p) \cup {<<s, i>>} ELSE Claims(p)
<1>1. \A r \in Session, j \in Idx : r # s \/ j # i => stati'[r][j] = stati[r][j]
  BY DEF TypeOK
<1>2. stati'[s][i] = status /\ stati[s][i].page # p
  BY NullsDistinct DEF TypeOK, Blank
<1> QED BY <1>1, <1>2 DEF Claims

-----------------------------------------------------------------------------
(* What keeps a frame in order.                                            *)

(* Nothing happens to the frame, and its VMAs stay where they belong. *)
LEMMA SamePage ==
  ASSUME NEW p, PageOK(p), Claims(p)' = Claims(p), Mappings(p)' = Mappings(p),
         p \in buddy <=> p \in buddy', p \in kern <=> p \in kern',
         p \in poison => p \in poison', count'[p] = count[p],
         \A v \in Mappings(p) : vown'[v] = vown[v]
  PROVE  PageOK(p)'
<1>1. References(p)' = References(p)
  BY DEF References
<1> QED BY <1>1 DEF PageOK

(* free_page_stati on the frames of a session. *)
LEMMA DropClaims ==
  ASSUME TypeOK, NEW s \in Session, NEW n, FreePageStati(s), NewStati(s, n),
         UNCHANGED vmaVars, NEW p \in Page, PageOK(p)
  PROVE  PageOK(p)'
<1>1. Mappings(p)' = Mappings(p) /\ kern' = kern /\ poison' = poison
  BY DEF Mappings, vmaVars, FreePageStati, PutPages
<1>2. Claims(p)' = {c \in Claims(p) : c[1] # s}
  BY NewStatiClaims
<1>3. CASE p \notin Held(s)
  <2>1. Claims(p)' = Claims(p)
    BY <1>2, <1>3, NullsDistinct DEF Claims, Held
  <2>2. count'[p] = count[p] /\ (p \in buddy <=> p \in buddy')
    BY <1>3 DEF FreePageStati, PutPages
  <2> QED BY <1>1, <2>1, <2>2, SamePage DEF vmaVars
<1>4. CASE p \in Held(s)
  <2>1. PICK i \in Idx : <<s, i>> \in Claims(p)
    BY <1>4 DEF Held, Claims
  <2>2. Claims(p) # {} /\ Claims(p)' = {}
    BY <1>2, <2>1 DEF PageOK
  <2>3. CASE count[p] = 0
    <3>1. count'[p] = count[p] /\ (p \in buddy <=> p \in buddy')
      BY <2>3 DEF FreePageStati, PutPages, TypeOK
    <3>2. p \in poison /\ Mappings(p) = {}
      BY <2>2, <2>3, MappingsFinite DEF PageOK, References
    <3> QED BY <1>1, <2>2, <2>3, <3>1, <3>2 DEF PageOK
  <2>4. CASE count[p] # 0
    <3>1. /\ p \notin buddy /\ p \notin kern
          /\ count[p] = 1 + Cardinality(Mappings(p))
      BY <2>2, <2>4, MappingsFinite DEF PageOK, References
    <3>2. count'[p] = count[p] - 1 /\ (p \in buddy' <=> count[p] = 1 /\ p \notin poison)
      BY <1>4, <3>1, MappingsFinite DEF FreePageStati, PutPages, TypeOK
    <3>3. References(p)' = Cardinality(Mappings(p))
      BY <1>1, <2>2, <3>1, MappingsFinite DEF References
    <3>4. Mappings(p) # {} => count[p] > 1
      BY <3>1, MappingsFinite
    <3> QED BY <1>1, <2>2, <3>1, <3>2, <3>3, <3>4, MappingsFinite DEF PageOK
  <2> QED BY <2>3, <2>4
<1> QED BY <1>3, <1>4

(* The first references to a frame: a claim, or the kernel's own. *)
LEMMA FreePageUnused ==
  ASSUME NEW p, PageOK(p), p \in buddy
  PROVE  count[p] = 0 /\ Claims(p) = {} /\ Mappings(p) = {} /\ p \notin kern
  BY DEF PageOK

LEMMA TakePage ==
  ASSUME TypeOK, NEW s \in Session, NEW i \in Idx, NEW p \in Page, PageOK(p),
         p \in buddy, Claims(p)' = {<<s, i>>},
         buddy' = buddy \ {p}, count' = [count EXCEPT ![p] = IF p \in poison THEN 0 ELSE 1],
         UNCHANGED <<vmaVars, kern, poison>>
  PROVE  PageOK(p)'
<1>1. count[p] = 0 /\ Mappings(p) = {} /\ p \notin kern
  BY FreePageUnused
<1>2. Mappings(p)' = {} /\ kern' = kern /\ poison' = poison
  BY <1>1 DEF Mappings, vmaVars
<1>3. References(p)' = 1
  <2>1. Claims(p)' # {} /\ p \notin kern'
    BY <1>1
  <2>2. Cardinality(Mappings(p)') = 0
    BY <1>2, FS_EmptySet
  <2>3. References(p)' = (IF Claims(p)' = {} THEN 0 ELSE 1) + (IF p \in kern' THEN 1 ELSE 0)
                          + Cardinality(Mappings(p)')
    BY DEF References
  <2>4. (IF Claims(p)' = {} THEN 0 ELSE 1) = 1 /\ (IF p \in kern' THEN 1 ELSE 0) = 0
    BY <2>1
  <2> QED BY <2>2, <2>3, <2>4
<1>4. count'[p] = IF p \in poison THEN 0 ELSE 1
  BY DEF TypeOK
<1> QED BY <1>1, <1>2, <1>3, <1>4 DEF PageOK

(* Mapping frames of the session into an empty VMA of the session. *)
LEMMA InsertPages ==
  ASSUME TypeOK, NEW v \in Vma, vpages[v] = {}, NEW ps \in SUBSET Page, Insert(v, ps),
         NEW p \in Page, PageOK(p), Claims(p)' = Claims(p),
         p \in ps => /\ count[p] > 0 /\ p \notin buddy /\ p \notin kern
                     /\ \A c \in Claims(p) : c[1] = vown'[v],
         \A w \in Mappings(p) : vown'[w] = vown[w]
  PROVE  PageOK(p)'
<1>1. /\ Mappings(p)' = IF p \in ps THEN Mappings(p) \cup {v} ELSE Mappings(p)
      /\ Cardinality(Mappings(p)') =
           Cardinality(Mappings(p)) + (IF p \in ps THEN 1 ELSE 0)
  BY MapOne DEF Insert
<1>2. /\ buddy' = buddy /\ kern' = kern /\ poison' = poison
      /\ count'[p] = IF p \in ps THEN count[p] + 1 ELSE count[p]
  BY DEF Insert
<1>3. CASE p \notin ps
  BY <1>1, <1>2, <1>3, SamePage
<1>4. CASE p \in ps
  <2>1. References(p)' = References(p) + 1
    BY <1>1, <1>2, <1>4, MappingsFinite DEF References
  <2>2. count[p] \in Int
    BY DEF TypeOK
  <2> QED BY <1>1, <1>2, <1>4, <2>1, <2>2 DEF PageOK
<1> QED BY <1>3, <1>4

(* Clearing the ptes of a VMA. *)
LEMMA ZapPages ==
  ASSUME TypeOK, NEW v \in Vma, PutPages(vpages[v]), vpages' = [vpages EXCEPT ![v] = {}],
         NEW p \in Page, PageOK(p), Claims(p)' = Claims(p),
         \A w \in Vma \ {v} : vown'[w] = vown[w]
  PROVE  PageOK(p)'
<1>1. /\ Mappings(p)' = Mappings(p) \ {v}
      /\ Cardinality(Mappings(p)') =
           Cardinality(Mappings(p)) - (IF p \in vpages[v] THEN 1 ELSE 0)
  BY UnmapOne
<1>2. kern' = kern /\ poison' = poison
  BY DEF PutPages
<1>3. CASE p \notin vpages[v]
  <2>1. Mappings(p)' = Mappings(p) /\ v \notin Mappings(p)
    BY <1>1, <1>3 DEF Mappings
  <2>2. count'[p] = count[p] /\ (p \in buddy <=> p \in buddy')
    BY <1>3 DEF PutPages, TypeOK
  <2>3. \A w \in Mappings(p) : vown'[w] = vown[w]
    BY <2>1 DEF Mappings
  <2> QED BY <1>2, <2>1, <2>2, <2>3, SamePage
<1>4. CASE p \in vpages[v]
  <2>1. v \in Mappings(p) /\ p \notin buddy /\ p \notin kern
    BY <1>4 DEF Mappings, PageOK
  <2>2. count[p] = References(p) /\ References(p) >= 1
    BY <2>1, MappingsFinite DEF PageOK, References
  <2>3. count'[p] = count[p] - 1 /\ (p \in buddy' <=> count[p] = 1 /\ p \notin poison)
    BY <1>4, <2>1 DEF PutPages
  <2>4. References(p)' = References(p) - 1
    BY <1>1, <1>2, <1>4, MappingsFinite DEF References
  <2>5. count[p] = 1 => Claims(p) = {} /\ Mappings(p)' = {}
    BY <1>1, <1>4, <2>1, <2>2, MappingsFinite, FS_EmptySet, FS_RemoveElement DEF References
  <2>6. \A w \in Mappings(p)' : w \in Mappings(p) /\ vown'[w] = vown[w]
    BY <1>1 DEF Mappings
  <2> QED BY <1>1, <1>2, <2>1, <2>2, <2>3, <2>4, <2>5, <2>6 DEF PageOK, References
<1> QED BY <1>3, <1>4

-----------------------------------------------------------------------------
(* IdleHoldsNothing is inductive next to TypeOK and CallOK.                *)
LEMMA IdleStep == TypeOK /\ CallOK /\ IdleHoldsNothing /\ [Next]_vars => IdleHoldsNothing'
<1> SUFFICES ASSUME TypeOK, CallOK, IdleHoldsNothing, [Next]_vars PROVE IdleHoldsNothing'
  OBVIOUS
<1> USE DEF IdleHoldsNothing
<1>1. ASSUME UNCHANGED <<state, num, stati>> PROVE IdleHoldsNothing'
  BY <1>1
<1>2. ASSUME NEW s \in Session, Open(s) PROVE IdleHoldsNothing'
  BY <1>2 DEF Open, TypeOK
<1>3. ASSUME NEW s \in Session, ReleaseConfigured(s) PROVE IdleHoldsNothing'
  BY <1>3 DEF ReleaseConfigured, NewStati, TypeOK
<1>4. ASSUME NEW s \in Session, ReleaseOpen(s) \/ ReleaseEnd(s) PROVE IdleHoldsNothing'
  BY <1>4 DEF ReleaseOpen, ReleaseEnd, TypeOK
<1>5. ASSUME NEW t \in Thread, NEW status, Record(t, status), call[t].pc \in {"claim", "take"}
      PROVE  IdleHoldsNothing'
  <2>1. Ours(t) \in Session /\ state[Ours(t)] = "CONFIGURING"
    BY <1>5 DEF CallOK, SessOK, ClaimOK, Ours
  <2> QED BY <1>5, <2>1 DEF Record, TypeOK
<1>6. ASSUME NEW t \in Thread, ClaimFails(t) \/ ClaimTake(t) \/ ClaimLost(t)
      PROVE  IdleHoldsNothing'
  <2>1. call[t].pc \in {"claim", "take"} /\ \E status : Record(t, status)
    BY <1>6 DEF ClaimFails, ClaimTake, ClaimLost, Claiming
  <2> QED BY <1>5, <2>1
<1>7. ASSUME NEW t \in Thread, RequestNothing(t) PROVE IdleHoldsNothing'
  BY <1>7 DEF RequestNothing, NewStati, TypeOK
<1>8. ASSUME NEW t \in Thread, RequestStart(t) PROVE IdleHoldsNothing'
  BY <1>8 DEF RequestStart, NewStati, TypeOK
<1>9. ASSUME NEW t \in Thread, CopyFault(t) PROVE IdleHoldsNothing'
  BY <1>9 DEF CopyFault, NewStati, TypeOK
<1>10. ASSUME NEW t \in Thread, RequestDone(t) PROVE IdleHoldsNothing'
  BY <1>10 DEF RequestDone, TypeOK
<1>11. ASSUME NEW t \in Thread, MmapFails(t) PROVE IdleHoldsNothing'
  BY <1>11 DEF MmapFails, Configured, TypeOK
<1>12. ASSUME NEW t \in Thread, VmaClose(t) PROVE IdleHoldsNothing'
  BY <1>12 DEF VmaClose, TypeOK
<1>13. ASSUME NEW t \in Thread, \/ Dispatch(t) \/ UnmapRegion(t)
                               \/ Return(t) \/ MarkFrame(t) \/ MmapRefused(t) \/ Mmap(t)
                               \/ VmaOpen(t) \/ Interrupted(t)
                               \/ \E p \in Page : ClaimCheck(t, p)
      PROVE  IdleHoldsNothing'
  BY <1>1, <1>13 DEF Dispatch, DispatchIoctl, DispatchRefused, DispatchMmap, Fork, Munmap,
       ClaimCheck, UnmapRegion, Return, MarkFrame, MmapRefused, Mmap, VmaOpen, Interrupted,
       sessionVars
<1>14. ASSUME NEW p \in Page, Kernel(p) PROVE IdleHoldsNothing'
  BY <1>1, <1>14 DEF Kernel, KernelAlloc, KernelFree, MemoryFailure, SkipPoisoned, sessionVars
<1>15. ASSUME NEW s \in Session, CloseFd(s) \/ ReleaseStart(s) PROVE IdleHoldsNothing'
  BY <1>1, <1>15 DEF CloseFd, ReleaseStart
<1> QED
  BY <1>1, <1>2, <1>3, <1>4, <1>6, <1>7, <1>8, <1>9, <1>10, <1>11, <1>12, <1>13, <1>14, <1>15
     DEF Next, CopyRequest, Continue, Claim, Acquire, Release, vars

-----------------------------------------------------------------------------
(* Every step keeps every frame in order.                                  *)
LEMMA PageStep ==
  ASSUME TypeOK, CallOK, IdleHoldsNothing, \A p \in Page : PageOK(p), [Next]_vars,
         NEW p \in Page
  PROVE  PageOK(p)'
<1>1. ASSUME UNCHANGED <<stati, vmaVars, frameVars>> PROVE PageOK(p)'
  BY <1>1, SamePage DEF vmaVars, frameVars, Claims, Mappings
<1>2. ASSUME NEW t \in Thread, NEW i \in Idx,
             stati[Ours(t)][i] = Blank, Ours(t) \in Session, NEW status, status.page = NoPage,
             stati' = [stati EXCEPT ![Ours(t)][i] = status], UNCHANGED <<vmaVars, frameVars>>
      PROVE  PageOK(p)'
  <2>1. Claims(p)' = Claims(p)
    BY <1>2, RecordClaims, NullsDistinct
  <2> QED BY <1>2, <2>1, SamePage DEF vmaVars, frameVars, Mappings
<1>3. ASSUME NEW t \in Thread, call[t].pc \in {"claim", "take"}, call[t].idx <= num[Ours(t)]
      PROVE  Ours(t) \in Session /\ call[t].idx \in Idx /\ stati[Ours(t)][call[t].idx] = Blank
  <2>1. call[t] \in Call /\ Ours(t) \in Session /\ call[t].idx > 0
    BY <1>3 DEF TypeOK, CallOK, SessOK, ClaimOK, Ours
  <2>2. call[t].idx \in Idx
    BY <1>3, <2>1, BoundsOK DEF TypeOK, Ours, Idx, Call
  <2> QED BY <1>3, <2>1, <2>2, BoundsOK DEF CallOK, ClaimOK, Ours, Idx
<1>4. ASSUME NEW t \in Thread, ClaimFails(t) PROVE PageOK(p)'
  <2>1. PICK src \in {{}, {"INVALID_PFN"}} : Record(t, [Blank EXCEPT !.src = src])
    BY <1>4 DEF ClaimFails
  <2>2. [Blank EXCEPT !.src = src].page = NoPage
    BY DEF Blank
  <2> QED BY <1>2, <1>3, <1>4, <2>1, <2>2 DEF ClaimFails, Claiming, Record
<1>5. ASSUME NEW t \in Thread, ClaimLost(t) PROVE PageOK(p)'
  <2>1. call[t].pc = "take" /\ call[t].idx <= num[Ours(t)]
    BY <1>5, InHandler DEF ClaimLost, CallOK, ClaimOK, TypeOK, Ours
  <2>2. Record(t, Blank) /\ Blank.page = NoPage
    BY <1>5 DEF ClaimLost, Blank
  <2> QED BY <1>2, <1>3, <1>5, <2>1, <2>2 DEF ClaimLost, Record
<1>6. ASSUME NEW t \in Thread, ClaimTake(t) PROVE PageOK(p)'
  <2> DEFINE q == call[t].page
             status == [page |-> q, src |-> {"BUDDY"}, off |-> call[t].off]
  <2>1. call[t].pc = "take" /\ call[t].idx <= num[Ours(t)] /\ q \in Page
    BY <1>6, InHandler DEF ClaimTake, CallOK, ClaimOK, TypeOK, Ours
  <2>2. /\ Ours(t) \in Session /\ call[t].idx \in Idx
        /\ stati[Ours(t)][call[t].idx] = Blank
    BY <1>3, <2>1
  <2>3. Claims(p)' = IF q = p THEN Claims(p) \cup {<<Ours(t), call[t].idx>>} ELSE Claims(p)
    <3>1. stati' = [stati EXCEPT ![Ours(t)][call[t].idx] = status] /\ status.page = q
      BY <1>6 DEF ClaimTake, Record
    <3>2. Claims(p)' = IF status.page = p THEN Claims(p) \cup {<<Ours(t), call[t].idx>>}
                                          ELSE Claims(p)
      <4> DEFINE s == Ours(t)
                 i == call[t].idx
      <4>1. s \in Session /\ i \in Idx /\ stati[s][i] = Blank
        BY <2>2
      <4>2. stati' = [stati EXCEPT ![s][i] = status]
        BY <3>1
      <4> HIDE DEF s, i, status
      <4>3. Claims(p)' = IF status.page = p THEN Claims(p) \cup {<<s, i>>} ELSE Claims(p)
        BY <4>1, <4>2, RecordClaims
      <4> QED BY <4>3 DEF s, i
    <3> QED BY <3>1, <3>2
  <2>4. /\ q \in buddy /\ buddy' = buddy \ {q}
        /\ count' = [count EXCEPT ![q] = IF q \in poison THEN 0 ELSE 1]
        /\ UNCHANGED <<vmaVars, kern, poison>>
    BY <1>6 DEF ClaimTake, Record
  <2>5. CASE p = q
    BY <2>2, <2>3, <2>4, <2>5, FreePageUnused, TakePage
  <2>6. CASE p # q
    BY <2>3, <2>4, <2>6, SamePage DEF TypeOK, Mappings, vmaVars
  <2> QED BY <2>5, <2>6
<1>7. ASSUME NEW s \in Session, NEW n, NewStati(s, n), DropOldStati(s), UNCHANGED vmaVars,
             state[s] \in {"OPEN", "CONFIGURED"}
      PROVE  PageOK(p)'
  <2>1. CASE state[s] = "CONFIGURED"
    BY <1>7, <2>1, DropClaims DEF DropOldStati
  <2>2. CASE state[s] = "OPEN"
    <3>1. stati[s] = Blanks
      BY <2>2 DEF IdleHoldsNothing
    <3>2. stati' = stati
      BY <1>7, <3>1 DEF NewStati, TypeOK
    <3> QED BY <1>1, <1>7, <2>2, <3>2 DEF DropOldStati
  <2> QED BY <1>7, <2>1, <2>2
<1>8. ASSUME NEW t \in Thread, RequestNothing(t) \/ RequestStart(t) PROVE PageOK(p)'
  <2>1. /\ Ours(t) \in Session /\ state[Ours(t)] \in {"OPEN", "CONFIGURED"}
        /\ DropOldStati(Ours(t)) /\ UNCHANGED vmaVars
        /\ \E n \in Idx \cup {0} : NewStati(Ours(t), n)
    BY <1>8, InHandler DEF RequestNothing, RequestStart, Requestable
  <2> QED BY <1>7, <2>1
<1>9. ASSUME NEW t \in Thread, CopyFault(t) PROVE PageOK(p)'
  <2>1. Ours(t) \in Session
    BY <1>9, InHandler DEF CopyFault, Claiming
  <2> QED BY <1>9, <2>1, DropClaims DEF CopyFault
<1>10. ASSUME NEW s \in Session, ReleaseConfigured(s) PROVE PageOK(p)'
  BY <1>10, DropClaims DEF ReleaseConfigured
<1>11. ASSUME NEW t \in Thread, MarkFrame(t) PROVE PageOK(p)'
  <2>1. poison \subseteq poison'
    BY <1>11 DEF MarkFrame
  <2> QED BY <1>11, <2>1, SamePage DEF MarkFrame, sessionVars, vmaVars, Claims, Mappings
<1>12. ASSUME NEW t \in Thread, NEW s \in Session, NEW v \in Vma, DispatchMmap(t, s, v)
       PROVE  PageOK(p)'
  <2>1. vpages[v] = {} /\ \A w \in Vma \ {v} : vown'[w] = vown[w]
    BY <1>12 DEF DispatchMmap, CallOK, TypeOK
  <2>2. \A w \in Mappings(p) : vown'[w] = vown[w]
    BY <2>1 DEF Mappings
  <2> QED BY <1>12, <2>2, SamePage DEF DispatchMmap, sessionVars, frameVars, Claims, Mappings
<1>13. ASSUME NEW t \in Thread, Interrupted(t) \/ MmapRefused(t) \/ VmaClose(t) PROVE PageOK(p)'
  <2>1. /\ \A w \in Vma : w # call[t].area => vown'[w] = vown[w]
        /\ call[t].area \in Vma => vpages[call[t].area] = {}
    BY <1>13 DEF Interrupted, MmapRefused, VmaClose, CallOK, AreaOK, TypeOK
  <2>2. \A w \in Mappings(p) : vown'[w] = vown[w]
    BY <2>1 DEF Mappings
  <2>3. UNCHANGED <<stati, vpages, frameVars>>
    BY <1>13 DEF Interrupted, MmapRefused, VmaClose, sessionVars
  <2> QED BY <2>2, <2>3, SamePage DEF frameVars, Claims, Mappings
<1>14. ASSUME NEW t \in Thread, Mmap(t) PROVE PageOK(p)'
  <2> DEFINE s == Ours(t)
             v == call[t].area
  <2>1. s \in Session /\ v \in Vma /\ vpages[v] = {} /\ vown[v] = s
    BY <1>14, InHandler DEF Mmap, CallOK, AreaOK, Ours
  <2>2. /\ Insert(v, Held(s)) /\ UNCHANGED <<sessionVars, vown>>
        /\ \E len \in Lengths : \A i \in Idx : Insertable(s, i, len)
    BY <1>14 DEF Mmap
  <2>3. Held(s) \subseteq Page
    BY <2>1, HeldType
  <2>4. p \in Held(s) => /\ count[p] > 0 /\ p \notin buddy /\ p \notin kern
                         /\ \A c \in Claims(p) : c[1] = s
    <3> SUFFICES ASSUME p \in Held(s)
                 PROVE  /\ count[p] > 0 /\ p \notin buddy /\ p \notin kern
                        /\ \A c \in Claims(p) : c[1] = s
      OBVIOUS
    <3>1. PICK i \in Idx : stati[s][i].page = p
      BY DEF Held
    <3>2. count[p] > 0
      BY <2>2, <3>1, NullsDistinct DEF Insertable
    <3>3. <<s, i>> \in Claims(p)
      BY <2>1, <3>1 DEF Claims
    <3> QED BY <3>2, <3>3 DEF PageOK
  <2>5. Claims(p)' = Claims(p)
    BY <2>2 DEF sessionVars, Claims
  <2> QED BY <2>1, <2>2, <2>3, <2>4, <2>5, InsertPages
<1>15. ASSUME NEW t \in Thread, MmapFails(t) PROVE PageOK(p)'
  <2> DEFINE s == Ours(t)
             v == call[t].area
  <2>1. s \in Session /\ v \in Vma /\ vpages[v] = {} /\ vown[v] = s
    BY <1>15, InHandler DEF MmapFails, CallOK, AreaOK, Ours
  <2>2. PICK len \in Lengths, k \in Idx :
          /\ \A j \in 1..k-1 : Insertable(s, j, len)
          /\ Insert(v, {stati[s][j].page : j \in 1..k-1} \ {NoPage})
          /\ stati' = [stati EXCEPT ![s][k].src = @ \cup {"NOT_MAPPABLE"}]
    BY <1>15 DEF MmapFails
  <2> DEFINE ps == {stati[s][j].page : j \in 1..k-1} \ {NoPage}
  <2>3. ps \subseteq Page /\ 1..k-1 \subseteq Idx
    BY <2>1, BoundsOK, SMTT(30) DEF TypeOK, Status, Idx
  <2>4. p \in ps => /\ count[p] > 0 /\ p \notin buddy /\ p \notin kern
                    /\ \A c \in Claims(p) : c[1] = s
    <3> SUFFICES ASSUME p \in ps
                 PROVE  /\ count[p] > 0 /\ p \notin buddy /\ p \notin kern
                        /\ \A c \in Claims(p) : c[1] = s
      OBVIOUS
    <3>1. PICK j \in 1..k-1 : stati[s][j].page = p
      OBVIOUS
    <3>2. count[p] > 0
      BY <2>2, <3>1, NullsDistinct DEF Insertable
    <3>3. <<s, j>> \in Claims(p)
      BY <2>1, <2>3, <3>1 DEF Claims
    <3> QED BY <3>2, <3>3 DEF PageOK
  <2>5. \A r \in Session, i \in Idx : stati'[r][i].page = stati[r][i].page
    BY <2>1, <2>2 DEF TypeOK, Status
  <2>6. Claims(p)' = Claims(p)
    BY <2>5, SameClaims
  <2>7. vown' = vown
    BY <1>15 DEF MmapFails
  <2> QED BY <2>1, <2>2, <2>3, <2>4, <2>6, <2>7, InsertPages
<1>16. ASSUME NEW t \in Thread, NEW v \in Vma, NEW w \in Vma, Fork(t, v, w) PROVE PageOK(p)'
  <2>1. /\ vown[w] = NoSession /\ vpages[w] = {} /\ vown' = [vown EXCEPT ![w] = vown[v]]
        /\ Insert(w, vpages[v]) /\ UNCHANGED sessionVars
    BY <1>16 DEF Fork, CallOK
  <2>2. vpages[v] \subseteq Page /\ vown'[w] = vown[v]
    BY <2>1 DEF TypeOK
  <2>3. p \in vpages[v] => /\ count[p] > 0 /\ p \notin buddy /\ p \notin kern
                           /\ \A c \in Claims(p) : c[1] = vown[v]
    <3> SUFFICES ASSUME p \in vpages[v]
                 PROVE  /\ count[p] > 0 /\ p \notin buddy /\ p \notin kern
                        /\ \A c \in Claims(p) : c[1] = vown[v]
      OBVIOUS
    <3>1. v \in Mappings(p)
      BY DEF Mappings
    <3> QED BY <3>1, MappingsFinite DEF PageOK, References
  <2>4. \A x \in Mappings(p) : vown'[x] = vown[x]
    BY <2>1 DEF Mappings, TypeOK
  <2>5. Claims(p)' = Claims(p)
    BY <2>1 DEF sessionVars, Claims
  <2> QED BY <2>1, <2>2, <2>3, <2>4, <2>5, InsertPages
<1>17. ASSUME NEW t \in Thread, NEW v \in Vma, Munmap(t, v) PROVE PageOK(p)'
  BY <1>17, ZapPages DEF Munmap, sessionVars, Claims
<1>18. ASSUME NEW t \in Thread, UnmapRegion(t) PROVE PageOK(p)'
  <2>1. call[t].area \in Vma
    BY <1>18, InHandler DEF UnmapRegion
  <2> QED BY <1>18, <2>1, ZapPages DEF UnmapRegion, sessionVars, Claims, TypeOK
<1>19. ASSUME NEW q \in Page, KernelAlloc(q) PROVE PageOK(p)'
  <2>1. Claims(p)' = Claims(p) /\ Mappings(p)' = Mappings(p) /\ UNCHANGED <<vmaVars, poison>>
    BY <1>19 DEF KernelAlloc, sessionVars, vmaVars, Claims, Mappings
  <2>2. CASE p # q
    BY <1>19, <2>1, <2>2, SamePage DEF KernelAlloc, TypeOK, vmaVars
  <2>3. CASE p = q
    <3>1. /\ Claims(p) = {} /\ Mappings(p) = {} /\ p \in kern' /\ p \notin buddy'
          /\ count'[p] = 1
      BY <1>19, <2>3, FreePageUnused DEF KernelAlloc, TypeOK
    <3>2. References(p)' = 1
      BY <2>1, <3>1, FS_EmptySet DEF References
    <3> QED BY <2>1, <3>1, <3>2 DEF PageOK
  <2> QED BY <2>2, <2>3
<1>20. ASSUME NEW q \in Page, KernelFree(q) PROVE PageOK(p)'
  <2>1. Claims(p)' = Claims(p) /\ Mappings(p)' = Mappings(p) /\ UNCHANGED <<vmaVars, poison>>
    BY <1>20 DEF KernelFree, sessionVars, vmaVars, Claims, Mappings
  <2>2. CASE p # q
    BY <1>20, <2>1, <2>2, SamePage DEF KernelFree, TypeOK, vmaVars
  <2>3. CASE p = q
    <3>1. /\ Claims(p) = {} /\ Mappings(p) = {} /\ p \notin kern' /\ p \in buddy'
          /\ count'[p] = 0
      BY <1>20, <2>3 DEF KernelFree, TypeOK, PageOK
    <3>2. References(p)' = 0
      BY <2>1, <3>1, FS_EmptySet DEF References
    <3> QED BY <2>1, <3>1, <3>2 DEF PageOK
  <2> QED BY <2>2, <2>3
<1>21. ASSUME NEW q \in Page, MemoryFailure(q) PROVE PageOK(p)'
  BY <1>21, SamePage DEF MemoryFailure, sessionVars, vmaVars, Claims, Mappings
<1>22. ASSUME NEW q \in Page, SkipPoisoned(q) PROVE PageOK(p)'
  <2>1. /\ Claims(p)' = Claims(p) /\ Mappings(p)' = Mappings(p) /\ References(p)' = References(p)
        /\ UNCHANGED <<vmaVars, kern, poison, count>> /\ buddy' = buddy \ {q} /\ q \in poison
    BY <1>22 DEF SkipPoisoned, sessionVars, vmaVars, Claims, Mappings, References
  <2> QED BY <2>1 DEF PageOK, vmaVars
<1> QED
  BY <1>1, <1>4, <1>5, <1>6, <1>8, <1>9, <1>10, <1>11, <1>12, <1>13, <1>14, <1>15, <1>16, <1>17,
     <1>18, <1>19, <1>20, <1>21, <1>22
     DEF Next, Dispatch, CopyRequest, Continue, Claim, Acquire, Release, Kernel, vars, vmaVars, frameVars,
         sessionVars, Open, CloseFd, ReleaseStart, ReleaseOpen, ReleaseEnd, DispatchIoctl,
         DispatchRefused, ClaimCheck, RequestDone, Return, VmaOpen

-----------------------------------------------------------------------------
(* The inductive invariant. *)
FramesInv == /\ TypeOK /\ CallOK /\ IdleHoldsNothing
             /\ Exclusive /\ RefCount /\ MappedPrivate

LEMMA InitFrames == Init => FramesInv
<1> SUFFICES ASSUME Init PROVE FramesInv
  OBVIOUS
<1>1. TypeOK /\ CallOK
  BY InitTypeCall
<1>2. IdleHoldsNothing
  BY DEF Init, IdleHoldsNothing
<1>3. ASSUME NEW p \in Page PROVE PageOK(p)
  <2>1. Claims(p) = {} /\ Mappings(p) = {}
    BY NullsDistinct DEF Init, Claims, Mappings, Blanks, Blank
  <2>2. References(p) = 0
    BY <2>1, FS_EmptySet DEF References, Init
  <2> QED BY <2>1, <2>2 DEF Init, PageOK
<1> QED BY <1>1, <1>2, <1>3, FrameByFrame DEF FramesInv

LEMMA FramesStep == FramesInv /\ [Next]_vars => FramesInv'
<1> SUFFICES ASSUME FramesInv, [Next]_vars PROVE FramesInv'
  OBVIOUS
<1>1. TypeOK' /\ CallOK' /\ IdleHoldsNothing'
  BY TypeStep, CallStep, IdleStep DEF FramesInv
<1>2. \A p \in Page : PageOK(p)
  BY FrameByFrame DEF FramesInv
<1>3. ASSUME NEW p \in Page PROVE PageOK(p)'
  BY <1>2, PageStep DEF FramesInv
<1>4. (TypeOK => (Exclusive /\ RefCount /\ MappedPrivate <=> \A p \in Page : PageOK(p)))'
  BY FrameByFrame, PTL
<1> QED BY <1>1, <1>3, <1>4 DEF FramesInv

LEMMA FramesAlways == Spec => []FramesInv
  BY InitFrames, FramesStep, PTL DEF Spec

(* No frame is ever held by two requests, by two sessions, or by a session *)
(* and the rest of the kernel.                                             *)
THEOREM FramesExclusive == Spec => []Exclusive
<1>1. FramesInv => Exclusive
  BY DEF FramesInv
<1> QED BY <1>1, FramesAlways, PTL

(* The count of every frame is always the number of its users, and no      *)
(* sound frame is ever lost, whatever fails on the way.                    *)
THEOREM FramesCounted == Spec => []RefCount
<1>1. FramesInv => RefCount
  BY DEF FramesInv
<1> QED BY <1>1, FramesAlways, PTL

(* A process never sees, through a VMA of the device, a frame that is free *)
(* or in use by the kernel or by another session.                          *)
THEOREM MappingsPrivate == Spec => []MappedPrivate
<1>1. FramesInv => MappedPrivate
  BY DEF FramesInv
<1> QED BY <1>1, FramesAlways, PTL

(* A session that went back to OPEN, or was closed, gave all frames back.  *)
THEOREM IdleSessionsEmpty == Spec => []IdleHoldsNothing
<1>1. FramesInv => IdleHoldsNothing
  BY DEF FramesInv
<1> QED BY <1>1, FramesAlways, PTL

-----------------------------------------------------------------------------
(* PhysMem implements FrameLedger.  The frames keep their order by         *)
(* FramesInv.  The mapping to owners needs one fact more: the VMAs that    *)
(* show a frame nobody claims any longer all belong to the same session.   *)

OneMapper(p) == \A v, w \in Mappings(p) : vown[v] = vown[w]

LedgerInv == FramesInv /\ \A p \in Page : OneMapper(p)

(* The session uses the frame: a status claims it or a VMA shows it. *)
Uses(s, p) == \/ \E c \in Claims(p) : c[1] = s
              \/ \E v \in Mappings(p) : vown[v] = s

Unused(p) == Claims(p) = {} /\ Mappings(p) = {}

-----------------------------------------------------------------------------
(* Whom a frame belongs to.                                                *)

OwnedRight(p) ==
  /\ \A s : Uses(s, p) => Owner(p) = Ledger!Claimer(s)
  /\ Unused(p) => Owner(p) = IF p \in kern THEN Ledger!Kernel
                             ELSE IF p \in buddy THEN Ledger!Free
                             ELSE Ledger!Retired

LEMMA OwnerIs == \A p : PageOK(p) /\ OneMapper(p) => OwnedRight(p)
<1> SUFFICES ASSUME NEW p, PageOK(p), OneMapper(p) PROVE OwnedRight(p)
  OBVIOUS
<1>1. ASSUME NEW s, Uses(s, p) PROVE Owner(p) = Ledger!Claimer(s)
  <2>1. CASE Claims(p) # {}
    <3> DEFINE c == CHOOSE c \in Claims(p) : TRUE
    <3>1. c \in Claims(p) /\ \A d \in Claims(p) : d = c
      BY <2>1 DEF PageOK
    <3>2. c[1] = s
      BY <1>1, <3>1 DEF Uses, PageOK
    <3> QED BY <2>1, <3>2 DEF Owner, Ledger!Claimer
  <2>2. CASE Claims(p) = {}
    <3> DEFINE v == CHOOSE v \in Mappings(p) : TRUE
    <3>1. v \in Mappings(p) /\ Mappings(p) # {}
      BY <1>1, <2>2 DEF Uses
    <3>2. vown[v] = s
      BY <1>1, <2>2, <3>1 DEF Uses, OneMapper
    <3> QED BY <2>2, <3>1, <3>2 DEF Owner, Ledger!Claimer
  <2> QED BY <2>1, <2>2
<1>2. ASSUME Unused(p)
      PROVE  Owner(p) = IF p \in kern THEN Ledger!Kernel
                        ELSE IF p \in buddy THEN Ledger!Free ELSE Ledger!Retired
  BY <1>2 DEF Unused, Owner, Ledger!Kernel, Ledger!Free, Ledger!Retired
<1> QED BY <1>1, <1>2 DEF OwnedRight

LEMMA UsedOrNot ==
  ASSUME TypeOK, CallOK, NEW p
  PROVE  Unused(p) \/ \E s \in Session : Uses(s, p)
<1>1. \A c \in Claims(p) : c[1] \in Session
  BY DEF Claims
<1>2. \A v \in Mappings(p) : vown[v] \in Session
  BY DEF Mappings, TypeOK, CallOK
<1> QED BY <1>1, <1>2 DEF Unused, Uses

LEMMA OwnerTypes == LedgerInv => \A p \in Page : Owner(p) \in Ledger!Owner
<1> SUFFICES ASSUME LedgerInv, NEW p \in Page PROVE Owner(p) \in Ledger!Owner
  OBVIOUS
<1>1. PageOK(p) /\ OneMapper(p) /\ TypeOK /\ CallOK
  BY FrameByFrame DEF LedgerInv, FramesInv
<1> QED BY <1>1, OwnerIs, UsedOrNot DEF OwnedRight, Ledger!Owner, Ledger!Taker

-----------------------------------------------------------------------------
(* The VMAs of a frame go on agreeing.                                     *)

LEMMA MapperStep ==
  ASSUME TypeOK, CallOK, [Next]_vars, NEW p \in Page, PageOK(p), OneMapper(p)
  PROVE  OneMapper(p)'
<1> USE DEF OneMapper
<1>1. ASSUME \A v \in Mappings(p)' : v \in Mappings(p) /\ vown'[v] = vown[v]
      PROVE  OneMapper(p)'
  BY <1>1
<1>2. ASSUME NEW v \in Vma, vpages[v] = {}, NEW ps \in SUBSET Page,
             vpages' = [vpages EXCEPT ![v] = ps],
             \A w \in Mappings(p) : vown'[w] = vown[w],
             p \in ps => \A w \in Mappings(p) : vown[w] = vown'[v]
      PROVE  OneMapper(p)'
  <2>1. Mappings(p)' = IF p \in ps THEN Mappings(p) \cup {v} ELSE Mappings(p)
    BY <1>2, MapOne
  <2> QED BY <1>1, <1>2, <2>1
<1>3. ASSUME UNCHANGED vmaVars PROVE OneMapper(p)'
  BY <1>1, <1>3 DEF vmaVars, Mappings
<1>4. ASSUME NEW t \in Thread, NEW s \in Session, NEW v \in Vma, DispatchMmap(t, s, v)
      PROVE  OneMapper(p)'
  <2>1. vpages[v] = {} /\ \A w \in Vma \ {v} : vown'[w] = vown[w]
    BY <1>4 DEF DispatchMmap, CallOK, TypeOK
  <2> QED BY <1>1, <1>4, <2>1 DEF DispatchMmap, Mappings
<1>5. ASSUME NEW t \in Thread, Interrupted(t) \/ MmapRefused(t) \/ VmaClose(t)
      PROVE  OneMapper(p)'
  <2>1. /\ \A w \in Vma : w # call[t].area => vown'[w] = vown[w]
        /\ call[t].area \in Vma => vpages[call[t].area] = {}
        /\ vpages' = vpages
    BY <1>5 DEF Interrupted, MmapRefused, VmaClose, CallOK, AreaOK, TypeOK
  <2> QED BY <1>1, <2>1 DEF Mappings
<1>6. ASSUME NEW v \in Vma, vpages' = [vpages EXCEPT ![v] = {}],
             \A w \in Vma \ {v} : vown'[w] = vown[w]
      PROVE  OneMapper(p)'
  BY <1>1, <1>6, UnmapOne DEF Mappings, TypeOK
<1>7. ASSUME NEW t \in Thread, NEW v \in Vma, Munmap(t, v) PROVE OneMapper(p)'
  BY <1>6, <1>7 DEF Munmap
<1>8. ASSUME NEW t \in Thread, UnmapRegion(t) PROVE OneMapper(p)'
  <2>1. call[t].area \in Vma
    BY <1>8, InHandler DEF UnmapRegion
  <2>2. PICK v \in Vma : v = call[t].area
    BY <2>1
  <2> QED BY <1>6, <1>8, <2>2 DEF UnmapRegion, TypeOK
<1>9. ASSUME NEW t \in Thread, NEW v \in Vma, NEW w \in Vma, Fork(t, v, w) PROVE OneMapper(p)'
  <2>1. /\ vpages[w] = {} /\ vown' = [vown EXCEPT ![w] = vown[v]]
        /\ vpages' = [vpages EXCEPT ![w] = vpages[v]] /\ vpages[v] \in SUBSET Page
    BY <1>9 DEF Fork, CallOK, Insert, TypeOK
  <2>2. \A x \in Mappings(p) : vown'[x] = vown[x]
    BY <2>1 DEF Mappings, TypeOK
  <2>3. p \in vpages[v] => \A x \in Mappings(p) : vown[x] = vown'[w]
    BY <2>1 DEF Mappings, TypeOK
  <2> QED BY <1>2, <2>1, <2>2, <2>3
<1>10. ASSUME NEW t \in Thread, Mmap(t) \/ MmapFails(t) PROVE OneMapper(p)'
  <2>1. PICK s \in Session, v \in Vma :
          s = Ours(t) /\ v = call[t].area /\ vpages[v] = {} /\ vown[v] = s
    BY <1>10, InHandler, SMTT(30) DEF Mmap, MmapFails, CallOK, AreaOK, Ours
  <2>2. PICK ps : ps \subseteq Held(s) /\ vpages' = [vpages EXCEPT ![v] = ps]
    <3>1. CASE Mmap(t)
      BY <2>1, <3>1 DEF Mmap, Insert
    <3>2. CASE MmapFails(t)
      <4>1. PICK k \in Idx :
              Insert(call[t].area, {stati[Ours(t)][j].page : j \in 1..k-1} \ {NoPage})
        BY <3>2 DEF MmapFails
      <4>2. {stati[Ours(t)][j].page : j \in 1..k-1} \ {NoPage} \subseteq Held(s)
        BY <2>1, BoundsOK DEF Idx, Held
      <4> QED BY <2>1, <4>1, <4>2 DEF Insert
    <3> QED BY <1>10, <3>1, <3>2
  <2>3. ps \in SUBSET Page /\ vown' = vown
    BY <1>10, <2>2, HeldType DEF Mmap, MmapFails
  <2>4. p \in ps => \A w \in Mappings(p) : vown[w] = s
    <3> SUFFICES ASSUME p \in ps, NEW w \in Mappings(p) PROVE vown[w] = s
      OBVIOUS
    <3>1. PICK i \in Idx : stati[s][i].page = p
      BY <2>2 DEF Held
    <3>2. <<s, i>> \in Claims(p)
      BY <3>1 DEF Claims
    <3> QED BY <3>2 DEF PageOK
  <2> QED BY <1>2, <2>1, <2>2, <2>3, <2>4
<1> QED
  BY <1>3, <1>4, <1>5, <1>7, <1>8, <1>9, <1>10, ZenonT(60)
     DEF Next, Dispatch, Claim, CopyRequest, Continue, Acquire, Release, Kernel, vars, vmaVars, sessionVars,
         Open, CloseFd, ReleaseStart, ReleaseConfigured, ReleaseOpen, ReleaseEnd, DispatchIoctl,
         DispatchRefused, CopyFault, ClaimFails, ClaimCheck, ClaimTake, ClaimLost, Record,
         RequestDone, Return, RequestNothing, RequestStart, MarkFrame, VmaOpen,
         KernelAlloc, KernelFree, MemoryFailure, SkipPoisoned

LEMMA LedgerInvStep == LedgerInv /\ [Next]_vars => LedgerInv'
<1> SUFFICES ASSUME LedgerInv, [Next]_vars PROVE LedgerInv'
  OBVIOUS
<1>1. FramesInv'
  BY FramesStep DEF LedgerInv
<1>2. ASSUME NEW p \in Page PROVE OneMapper(p)'
  <2>1. PageOK(p)
    BY FrameByFrame DEF LedgerInv, FramesInv
  <2> QED BY <2>1, MapperStep DEF LedgerInv, FramesInv
<1> QED BY <1>1, <1>2 DEF LedgerInv

-----------------------------------------------------------------------------
(* What a step does to the owner of one frame.                             *)

(* The frame is in order, before and after. *)
Ordered(p) == /\ PageOK(p) /\ OneMapper(p) /\ TypeOK /\ CallOK
              /\ PageOK(p)' /\ OneMapper(p)' /\ TypeOK' /\ CallOK'

LEMMA FrameByFrameNext ==
  (TypeOK => (Exclusive /\ RefCount /\ MappedPrivate <=> \A p \in Page : PageOK(p)))'
  BY FrameByFrame, PTL

LEMMA OrderedFrames ==
  ASSUME LedgerInv, LedgerInv', NEW p \in Page PROVE Ordered(p)
<1>1. PageOK(p)
  BY FrameByFrame DEF LedgerInv, FramesInv
<1>2. PageOK(p)'
  BY FrameByFrameNext DEF LedgerInv, FramesInv
<1> QED BY <1>1, <1>2 DEF Ordered, LedgerInv, FramesInv

LEMMA OwnerIsNext == (\A p : PageOK(p) /\ OneMapper(p) => OwnedRight(p))'
  BY OwnerIs, PTL

LEMMA SameOwner ==
  ASSUME NEW p, Claims(p)' = Claims(p), Mappings(p)' = Mappings(p),
         \A v \in Mappings(p) : vown'[v] = vown[v],
         p \in kern' <=> p \in kern, p \in buddy' <=> p \in buddy
  PROVE  Owner(p)' = Owner(p)
<1>1. CASE Mappings(p) # {}
  <2>1. (CHOOSE v \in Mappings(p) : TRUE) \in Mappings(p)
    BY <1>1
  <2> QED BY <2>1 DEF Owner
<1>2. CASE Mappings(p) = {}
  BY <1>2 DEF Owner
<1> QED BY <1>1, <1>2

LEMMA HeldUsed ==
  ASSUME NEW s \in Session, NEW p \in Held(s) PROVE Uses(s, p)
<1>1. PICK i \in Idx : stati[s][i].page = p
  BY DEF Held
<1>2. <<s, i>> \in Claims(p) /\ <<s, i>>[1] = s
  BY <1>1 DEF Claims
<1> QED BY <1>2 DEF Uses

LEMMA StillUsed ==
  ASSUME NEW p, Ordered(p), NEW s, Uses(s, p), Uses(s, p)'
  PROVE  Owner(p)' = Owner(p)
  BY OwnerIs, OwnerIsNext DEF Ordered, OwnedRight

(* One user of the frame less, none more. *)
LEMMA LetGo ==
  ASSUME NEW p, Ordered(p), NEW s, Uses(s, p), \A r \in Session : Uses(r, p)' => Uses(r, p),
         kern' = kern
  PROVE  \/ Owner(p)' = Owner(p)
         \/ Owner(p) = Ledger!Claimer(s) /\ Owner(p)' \in {Ledger!Free, Ledger!Retired}
<1>1. (TypeOK /\ CallOK => (Unused(p) \/ \E r \in Session : Uses(r, p)))'
  BY UsedOrNot DEF Unused, Uses, TypeOK, CallOK, Claims, Mappings
<1>2. CASE Unused(p)'
  <2>1. p \notin kern
    BY DEF Ordered, PageOK, Uses
  <2> QED BY <1>2, <2>1, OwnerIs, OwnerIsNext DEF Ordered, OwnedRight
<1>3. ASSUME NEW r \in Session, Uses(r, p)' PROVE Owner(p)' = Owner(p)
  BY <1>3, StillUsed
<1> QED BY <1>1, <1>2, <1>3 DEF Ordered

-----------------------------------------------------------------------------
(* Every step is a step of the ledger, or none.                            *)

Bar == [p \in Page |-> Owner(p)]

Kept(p)     == Owner(p)' = Owner(p)
Took(p, q)  == Owner(p) = Ledger!Free /\ Owner(p)' = q
Left(p, q)  == Owner(p) = q /\ Owner(p)' \in {Ledger!Free, Ledger!Retired}
Retires(p)  == Owner(p) = Ledger!Free /\ Owner(p)' = Ledger!Retired

LedgerMoves ==
  \/ \A p \in Page : Kept(p) \/ Retires(p)
  \/ \E q \in Ledger!Taker : \/ \A p \in Page : Kept(p) \/ Took(p, q)
                             \/ \A p \in Page : Kept(p) \/ Left(p, q)

LEMMA MovesImplement ==
  ASSUME LedgerInv', LedgerMoves
  PROVE  [Ledger!Next]_Bar
<1>1. \A p \in Page : Owner(p)' \in Ledger!Owner
  <2>1. (LedgerInv => \A p \in Page : Owner(p) \in Ledger!Owner)'
    BY OwnerTypes, PTL
  <2> QED BY <2>1
<1>2. Bar' \in [Page -> Ledger!Owner]
  BY <1>1 DEF Bar
<1>3. \A p \in Page : Bar[p] = Owner(p) /\ Bar'[p] = Owner(p)'
  BY DEF Bar
<1>4. CASE \A p \in Page : Kept(p) \/ Retires(p)
  BY <1>2, <1>3, <1>4 DEF Ledger!Next, Ledger!Retire, Ledger!Unmoved, Kept, Retires, Bar
<1>5. ASSUME NEW q \in Ledger!Taker, \A p \in Page : Kept(p) \/ Took(p, q)
      PROVE  Ledger!Next
  BY <1>2, <1>3, <1>5 DEF Ledger!Next, Ledger!Take, Ledger!Unmoved, Kept, Took, Bar
<1>6. ASSUME NEW q \in Ledger!Taker, \A p \in Page : Kept(p) \/ Left(p, q)
      PROVE  Ledger!Next
  BY <1>2, <1>3, <1>6 DEF Ledger!Next, Ledger!GiveBack, Ledger!Unmoved, Kept, Left, Bar
<1> QED BY <1>4, <1>5, <1>6 DEF LedgerMoves

LEMMA LedgerStep ==
  ASSUME LedgerInv, LedgerInv', [Next]_vars
  PROVE  LedgerMoves
<1>0. TypeOK /\ CallOK /\ IdleHoldsNothing /\ \A p \in Page : Ordered(p)
  BY OrderedFrames DEF LedgerInv, FramesInv
<1>1. ASSUME \A p \in Page : Kept(p) PROVE LedgerMoves
  BY <1>1 DEF LedgerMoves
<1>2. ASSUME NEW s \in Session, \A p \in Page : Kept(p) \/ Left(p, Ledger!Claimer(s))
      PROVE  LedgerMoves
  BY <1>2 DEF LedgerMoves, Ledger!Taker
<1>3. ASSUME \A s \in Session, i \in Idx : stati'[s][i].page = stati[s][i].page,
             UNCHANGED <<vpages, kern, buddy>>,
             \A v \in Vma : vpages[v] # {} => vown'[v] = vown[v]
      PROVE  LedgerMoves
  <2>1. ASSUME NEW p \in Page PROVE Kept(p)
    <3>1. Claims(p)' = Claims(p) /\ Mappings(p)' = Mappings(p)
      BY <1>3, SameClaims DEF Mappings
    <3> QED BY <1>3, <3>1, SameOwner DEF Kept, Mappings
  <2> QED BY <1>1, <2>1
(* Frames put into the ptes of an empty VMA are its session's already. *)
<1>4. ASSUME NEW s \in Session, NEW v \in Vma, vpages[v] = {}, NEW ps \in SUBSET Page,
             Insert(v, ps), vown'[v] = s, \A w \in Vma \ {v} : vown'[w] = vown[w],
             \A r \in Session, i \in Idx : stati'[r][i].page = stati[r][i].page,
             \A p \in ps : Uses(s, p)
      PROVE  LedgerMoves
  <2>1. ASSUME NEW p \in Page PROVE Kept(p)
    <3>1. Claims(p)' = Claims(p)
      BY <1>4, SameClaims
    <3>2. Mappings(p)' = IF p \in ps THEN Mappings(p) \cup {v} ELSE Mappings(p)
      BY <1>0, <1>4, MapOne DEF Insert
    <3>3. CASE p \in ps
      <4>1. Uses(s, p) /\ Uses(s, p)'
        BY <1>4, <3>2, <3>3 DEF Uses
      <4> QED BY <1>0, <4>1, StillUsed DEF Kept
    <3>4. CASE p \notin ps
      <4>1. \A w \in Mappings(p) : vown'[w] = vown[w]
        BY <1>4 DEF Mappings
      <4> QED BY <1>4, <3>1, <3>2, <3>4, <4>1, SameOwner DEF Insert, Kept
    <3> QED BY <3>3, <3>4
  <2> QED BY <1>1, <2>1
(* The ptes of a VMA are cleared. *)
<1>5. ASSUME NEW v \in Vma, vown[v] \in Session, PutPages(vpages[v]),
             vpages' = [vpages EXCEPT ![v] = {}], \A w \in Vma \ {v} : vown'[w] = vown[w],
             UNCHANGED stati
      PROVE  LedgerMoves
  <2>1. ASSUME NEW p \in Page PROVE Kept(p) \/ Left(p, Ledger!Claimer(vown[v]))
    <3>1. Claims(p)' = Claims(p) /\ Mappings(p)' = Mappings(p) \ {v} /\ kern' = kern
      BY <1>0, <1>5, UnmapOne DEF Claims, PutPages
    <3>2. CASE p \in vpages[v]
      <4>1. Uses(vown[v], p)
        BY <3>2 DEF Uses, Mappings
      <4>2. \A r \in Session : Uses(r, p)' => Uses(r, p)
        BY <1>5, <3>1 DEF Uses, Mappings
      <4>3. PICK s \in Session : s = vown[v]
        BY <1>5
      <4> QED BY <1>0, <3>1, <4>1, <4>2, <4>3, LetGo DEF Kept, Left
    <3>3. CASE p \notin vpages[v]
      <4>1. Mappings(p)' = Mappings(p) /\ \A w \in Mappings(p) : vown'[w] = vown[w]
        BY <1>5, <3>1, <3>3 DEF Mappings
      <4>2. p \in buddy' <=> p \in buddy
        BY <1>5, <3>3 DEF PutPages
      <4> QED BY <3>1, <4>1, <4>2, SameOwner DEF Kept
    <3> QED BY <3>2, <3>3
  <2> QED BY <1>2, <1>5, <2>1
(* free_page_stati on the frames of a session. *)
<1>6. ASSUME NEW s \in Session, NEW n, FreePageStati(s), NewStati(s, n), UNCHANGED vmaVars
      PROVE  LedgerMoves
  <2>1. ASSUME NEW p \in Page PROVE Kept(p) \/ Left(p, Ledger!Claimer(s))
    <3>1. /\ Claims(p)' = {c \in Claims(p) : c[1] # s}
          /\ Mappings(p)' = Mappings(p) /\ UNCHANGED <<vown, kern>>
      BY <1>0, <1>6, NewStatiClaims DEF vmaVars, Mappings, FreePageStati, PutPages
    <3>2. CASE p \in Held(s)
      <4>1. Uses(s, p)
        BY <3>2, HeldUsed
      <4>2. \A r \in Session : Uses(r, p)' => Uses(r, p)
        BY <3>1 DEF Uses
      <4> QED BY <1>0, <3>1, <4>1, <4>2, LetGo DEF Kept, Left
    <3>3. CASE p \notin Held(s)
      <4>1. Claims(p)' = Claims(p)
        BY <3>1, <3>3, NullsDistinct DEF Claims, Held
      <4>2. p \in buddy' <=> p \in buddy
        BY <1>6, <3>3 DEF FreePageStati, PutPages
      <4> QED BY <3>1, <4>1, <4>2, SameOwner DEF Kept
    <3> QED BY <3>2, <3>3
  <2> QED BY <1>2, <2>1
<1>7. ASSUME NEW t \in Thread, RequestNothing(t) \/ RequestStart(t) PROVE LedgerMoves
  <2>1. PICK s \in Session : s = Ours(t)
    BY <1>0, <1>7, InHandler DEF RequestNothing, RequestStart, Requestable
  <2>2. /\ state[s] \in {"OPEN", "CONFIGURED"} /\ DropOldStati(s) /\ UNCHANGED vmaVars
        /\ \E n : NewStati(s, n)
    BY <1>7, <2>1 DEF RequestNothing, RequestStart, Requestable
  <2>3. CASE state[s] = "CONFIGURED"
    BY <1>6, <2>2, <2>3 DEF DropOldStati
  <2>4. CASE state[s] = "OPEN"
    <3>1. stati' = stati
      BY <1>0, <2>2, <2>4 DEF IdleHoldsNothing, NewStati, TypeOK
    <3> QED BY <1>3, <2>2, <2>4, <3>1 DEF DropOldStati, vmaVars, frameVars
  <2> QED BY <2>2, <2>3, <2>4
<1>8. ASSUME NEW t \in Thread, CopyFault(t) PROVE LedgerMoves
  <2>1. PICK s \in Session : s = Ours(t)
    BY <1>0, <1>8, InHandler DEF CopyFault, Claiming
  <2> QED BY <1>6, <1>8, <2>1 DEF CopyFault
<1>9. ASSUME NEW s \in Session, ReleaseConfigured(s) PROVE LedgerMoves
  BY <1>6, <1>9 DEF ReleaseConfigured
<1>10. ASSUME NEW t \in Thread, NEW status, Record(t, status), status.page = NoPage,
              call[t].pc \in {"claim", "take"}, call[t].idx <= num[Ours(t)],
              UNCHANGED frameVars
       PROVE  LedgerMoves
  <2>1. PICK s \in Session, i \in Idx :
          /\ s = Ours(t) /\ i = call[t].idx /\ stati[s][i] = Blank
          /\ stati' = [stati EXCEPT ![s][i] = status]
    <3>1. Ours(t) \in Session /\ call[t] \in Call /\ call[t].idx > 0
      BY <1>0, <1>10, InHandler DEF CallOK, ClaimOK, Ours
    <3>2. call[t].idx \in Idx
      BY <1>0, <1>10, <3>1, BoundsOK DEF TypeOK, Call, Idx
    <3>3. stati[Ours(t)][call[t].idx] = Blank
      BY <1>0, <1>10, <3>2 DEF CallOK, ClaimOK, Ours, Idx
    <3> QED BY <1>10, <3>1, <3>2, <3>3 DEF Record
  <2>2. \A r \in Session, j \in Idx : stati'[r][j].page = stati[r][j].page
    BY <1>0, <1>10, <2>1 DEF TypeOK, Blank
  <2> QED BY <1>3, <1>10, <2>2 DEF Record, vmaVars, frameVars
<1>11. ASSUME NEW t \in Thread, ClaimFails(t) PROVE LedgerMoves
  <2>1. PICK src \in {{}, {"INVALID_PFN"}} : Record(t, [Blank EXCEPT !.src = src])
    BY <1>11 DEF ClaimFails
  <2>2. PICK status : status = [Blank EXCEPT !.src = src]
    OBVIOUS
  <2>3. Record(t, status) /\ status.page = NoPage
    BY <2>1, <2>2 DEF Blank
  <2> QED BY <1>10, <1>11, <2>3 DEF ClaimFails, Claiming
<1>12. ASSUME NEW t \in Thread, ClaimLost(t) PROVE LedgerMoves
  <2>1. call[t].pc = "take" /\ call[t].idx <= num[Ours(t)] /\ Record(t, Blank)
    BY <1>0, <1>12, InHandler DEF ClaimLost, CallOK, ClaimOK, Ours, TypeOK
  <2>2. Blank.page = NoPage
    BY DEF Blank
  <2> QED BY <1>10, <1>12, <2>1, <2>2 DEF ClaimLost
<1>13. ASSUME NEW t \in Thread, ClaimTake(t) PROVE LedgerMoves
  <2>1. /\ Ours(t) \in Session /\ call[t] \in Call /\ call[t].page \in Page
        /\ call[t].idx > 0 /\ call[t].idx <= num[Ours(t)]
    BY <1>0, <1>13, InHandler, SMTT(30) DEF ClaimTake, CallOK, ClaimOK, Ours, TypeOK
  <2>2. call[t].idx \in Idx
    BY <1>0, <2>1, BoundsOK DEF TypeOK, Call, Idx
  <2>3. stati[Ours(t)][call[t].idx] = Blank
    BY <1>0, <1>13, <2>2 DEF ClaimTake, CallOK, ClaimOK, Ours, Idx
  <2>4. PICK s \in Session, i \in Idx, q \in Page :
          s = Ours(t) /\ i = call[t].idx /\ q = call[t].page
    BY <2>1, <2>2
  <2>5. PICK status : status.page = q /\ stati' = [stati EXCEPT ![s][i] = status]
    <3> DEFINE st == [page |-> call[t].page, src |-> {"BUDDY"}, off |-> call[t].off]
    <3>1. stati' = [stati EXCEPT ![Ours(t)][call[t].idx] = st]
      BY <1>13 DEF ClaimTake, Record
    <3>2. st.page = q
      BY <2>4
    <3> HIDE DEF st
    <3> QED BY <2>4, <3>1, <3>2
  <2>6. q \in buddy /\ buddy' = buddy \ {q} /\ kern' = kern /\ UNCHANGED vmaVars
    BY <1>13, <2>4 DEF ClaimTake, Record
  <2>7. ASSUME NEW p \in Page PROVE Kept(p) \/ Took(p, Ledger!Claimer(s))
    <3>1. Claims(p)' = IF q = p THEN Claims(p) \cup {<<s, i>>} ELSE Claims(p)
      <4>1. TypeOK /\ stati[s][i] = Blank
        BY <1>0, <2>3, <2>4
      <4>2. Claims(p)' = IF status.page = p THEN Claims(p) \cup {<<s, i>>} ELSE Claims(p)
        BY <2>5, <4>1, RecordClaims
      <4> QED BY <2>5, <4>2
    <3>2. Mappings(p)' = Mappings(p)
      BY <2>6 DEF Mappings, vmaVars
    <3>3. CASE p # q
      BY <2>6, <3>1, <3>2, <3>3, SameOwner DEF Kept, vmaVars
    <3>4. CASE p = q
      <4>1. Unused(p) /\ p \notin kern /\ p \in buddy
        BY <1>0, <2>6, <3>4, FreePageUnused DEF Ordered, Unused
      <4>2. Uses(s, p)'
        <5>1. <<s, i>> \in Claims(p)' /\ <<s, i>>[1] = s
          BY <3>1, <3>4
        <5> QED BY <5>1 DEF Uses
      <4> QED BY <1>0, <4>1, <4>2, OwnerIs, OwnerIsNext DEF Ordered, OwnedRight, Took
    <3> QED BY <3>3, <3>4
  <2> QED BY <2>7 DEF LedgerMoves, Ledger!Taker
<1>14. ASSUME NEW t \in Thread, Mmap(t) \/ MmapFails(t) PROVE LedgerMoves
  <2>1. PICK s \in Session, v \in Vma :
          s = Ours(t) /\ v = call[t].area /\ vpages[v] = {} /\ vown[v] = s
    BY <1>0, <1>14, InHandler DEF Mmap, MmapFails, CallOK, AreaOK, Ours
  <2>2. PICK ps : ps \subseteq Held(s) /\ Insert(v, ps)
    <3>1. CASE Mmap(t)
      BY <2>1, <3>1 DEF Mmap
    <3>2. CASE MmapFails(t)
      <4>1. PICK k \in Idx :
              Insert(call[t].area, {stati[Ours(t)][j].page : j \in 1..k-1} \ {NoPage})
        BY <3>2 DEF MmapFails
      <4>2. 1..k-1 \subseteq Idx
        BY BoundsOK DEF Idx
      <4>3. {stati[s][j].page : j \in 1..k-1} \ {NoPage} \subseteq Held(s)
        BY <4>2 DEF Held
      <4> QED BY <2>1, <4>1, <4>3
    <3> QED BY <1>14, <3>1, <3>2
  <2>3. \A r \in Session, i \in Idx : stati'[r][i].page = stati[r][i].page
    <3>1. CASE stati' = stati
      BY <3>1
    <3>2. ASSUME NEW k \in Idx,
                 stati' = [stati EXCEPT ![Ours(t)][k].src = @ \cup {"NOT_MAPPABLE"}]
          PROVE  \A r \in Session, i \in Idx : stati'[r][i].page = stati[r][i].page
      BY <1>0, <2>1, <3>2 DEF TypeOK, Status
    <3> QED BY <1>14, <3>1, <3>2 DEF Mmap, MmapFails, sessionVars
  <2>4. \A p \in ps : Uses(s, p)
    BY <2>2, HeldUsed
  <2>5. ps \in SUBSET Page /\ vown' = vown
    BY <1>0, <1>14, <2>2, HeldType DEF Mmap, MmapFails
  <2> QED BY <1>4, <2>1, <2>2, <2>3, <2>4, <2>5
<1>15. ASSUME NEW t \in Thread, NEW v \in Vma, NEW w \in Vma, Fork(t, v, w) PROVE LedgerMoves
  <2>1. /\ vown[v] \in Session /\ vpages[w] = {} /\ vpages[v] \in SUBSET Page
        /\ Insert(w, vpages[v]) /\ vown'[w] = vown[v] /\ \A x \in Vma \ {w} : vown'[x] = vown[x]
        /\ stati' = stati
    BY <1>0, <1>15 DEF Fork, Attached, CallOK, TypeOK, sessionVars
  <2>2. \A p \in vpages[v] : Uses(vown[v], p)
    BY DEF Uses, Mappings
  <2>3. PICK s \in Session : s = vown[v]
    BY <2>1
  <2> QED BY <1>4, <2>1, <2>2, <2>3
<1>16. ASSUME NEW t \in Thread, NEW v \in Vma, Munmap(t, v) PROVE LedgerMoves
  BY <1>0, <1>5, <1>16 DEF Munmap, Attached, TypeOK, sessionVars
<1>17. ASSUME NEW t \in Thread, UnmapRegion(t) PROVE LedgerMoves
  <2>1. PICK v \in Vma : v = call[t].area /\ vown[v] \in Session
    BY <1>0, <1>17, InHandler DEF UnmapRegion, CallOK, AreaOK, Ours
  <2> QED BY <1>0, <1>5, <1>17, <2>1 DEF UnmapRegion, TypeOK, sessionVars
<1>18. ASSUME NEW t \in Thread, NEW s \in Session, NEW v \in Vma, DispatchMmap(t, s, v)
       PROVE  LedgerMoves
  BY <1>0, <1>3, <1>18 DEF DispatchMmap, CallOK, TypeOK, sessionVars, frameVars
<1>19. ASSUME NEW t \in Thread, Interrupted(t) \/ MmapRefused(t) \/ VmaClose(t) PROVE LedgerMoves
  <2>1. /\ \A w \in Vma : w # call[t].area => vown'[w] = vown[w]
        /\ call[t].area \in Vma => vpages[call[t].area] = {}
    BY <1>0, <1>19 DEF Interrupted, MmapRefused, VmaClose, CallOK, AreaOK, TypeOK
  <2>2. UNCHANGED <<stati, vpages, frameVars>>
    BY <1>19 DEF Interrupted, MmapRefused, VmaClose, sessionVars
  <2> QED BY <1>3, <2>1, <2>2 DEF frameVars
<1>20. ASSUME NEW q \in Page, Kernel(q) PROVE LedgerMoves
  <2>1. UNCHANGED <<stati, vmaVars>>
    BY <1>20 DEF Kernel, KernelAlloc, KernelFree, MemoryFailure, SkipPoisoned, sessionVars
  <2>2. \A p \in Page : /\ Claims(p)' = Claims(p) /\ Mappings(p)' = Mappings(p)
                        /\ Unused(p) => Unused(p)'
    BY <2>1 DEF Claims, Mappings, Unused, vmaVars
  <2>3. ASSUME NEW p \in Page, p \in kern' <=> p \in kern, p \in buddy' <=> p \in buddy
        PROVE  Kept(p)
    BY <2>1, <2>2, <2>3, SameOwner DEF vmaVars, Kept
  <2>4. CASE KernelAlloc(q)
    <3>1. ASSUME NEW p \in Page PROVE Kept(p) \/ Took(p, Ledger!Kernel)
      <4>1. CASE p # q
        BY <2>3, <2>4, <4>1 DEF KernelAlloc
      <4>2. CASE p = q
        <5>1. Unused(p) /\ p \notin kern /\ p \in buddy /\ p \in kern'
          BY <1>0, <2>4, <4>2, FreePageUnused DEF Ordered, Unused, KernelAlloc
        <5> QED BY <1>0, <2>2, <5>1, OwnerIs, OwnerIsNext DEF Ordered, OwnedRight, Took
      <4> QED BY <4>1, <4>2
    <3> QED BY <3>1 DEF LedgerMoves, Ledger!Taker
  <2>5. CASE KernelFree(q)
    <3>1. ASSUME NEW p \in Page PROVE Kept(p) \/ Left(p, Ledger!Kernel)
      <4>1. CASE p # q
        BY <2>3, <2>5, <4>1 DEF KernelFree
      <4>2. CASE p = q
        <5>1. Unused(p) /\ p \in kern /\ p \in buddy' /\ p \notin kern'
          BY <1>0, <2>5, <4>2 DEF Ordered, PageOK, Unused, KernelFree
        <5> QED BY <1>0, <2>2, <5>1, OwnerIs, OwnerIsNext DEF Ordered, OwnedRight, Left
      <4> QED BY <4>1, <4>2
    <3> QED BY <3>1 DEF LedgerMoves, Ledger!Taker
  <2>6. CASE MemoryFailure(q)
    BY <1>1, <2>3, <2>6 DEF MemoryFailure
  <2>7. CASE SkipPoisoned(q)
    <3>1. ASSUME NEW p \in Page PROVE Kept(p) \/ Retires(p)
      <4>1. CASE p # q
        BY <2>3, <2>7, <4>1 DEF SkipPoisoned
      <4>2. CASE p = q
        <5>1. Unused(p) /\ p \notin kern /\ p \in buddy /\ p \notin kern' /\ p \notin buddy'
          BY <1>0, <2>7, <4>2, FreePageUnused DEF Ordered, Unused, SkipPoisoned
        <5> QED BY <1>0, <2>2, <5>1, OwnerIs, OwnerIsNext DEF Ordered, OwnedRight, Retires
      <4> QED BY <4>1, <4>2
    <3> QED BY <3>1 DEF LedgerMoves
  <2> QED BY <1>20, <2>4, <2>5, <2>6, <2>7 DEF Kernel
<1>21. ASSUME UNCHANGED <<stati, vmaVars, buddy, kern>> PROVE LedgerMoves
  BY <1>3, <1>21 DEF vmaVars
<1> QED
  BY <1>7, <1>8, <1>9, <1>11, <1>12, <1>13, <1>14, <1>15, <1>16, <1>17, <1>18, <1>19, <1>20, <1>21
     DEF Next, Dispatch, Claim, CopyRequest, Continue, Acquire, Release, vars, vmaVars, frameVars, sessionVars,
         Open, CloseFd, ReleaseStart, ReleaseOpen, ReleaseEnd, DispatchIoctl, DispatchRefused,
         ClaimCheck, RequestDone, Return, MarkFrame, VmaOpen

-----------------------------------------------------------------------------
LEMMA InitLedger == Init => LedgerInv /\ Ledger!Init
<1> SUFFICES ASSUME Init PROVE LedgerInv /\ Ledger!Init
  OBVIOUS
<1>1. FramesInv
  BY InitFrames
<1>2. ASSUME NEW p \in Page PROVE OneMapper(p) /\ Owner(p) = Ledger!Free
  <2>1. Mappings(p) = {} /\ Claims(p) = {}
    BY NullsDistinct DEF Init, Mappings, Claims, Blanks, Blank
  <2> QED BY <2>1 DEF Init, OneMapper, Owner, Ledger!Free
<1> QED BY <1>1, <1>2 DEF LedgerInv, Ledger!Init

(* The sessions, however they interleave, keep the promise of FrameLedger: *)
(* a frame changes hands only by way of the free ones, its user alone      *)
(* gives it back, and a frame marked bad never returns.                    *)
THEOREM LedgerKept == Spec => ImplementsLedger
<1>1. Init => LedgerInv /\ Ledger!Init
  BY InitLedger
<1>2. LedgerInv /\ [Next]_vars => LedgerInv' /\ [Ledger!Next]_Bar
  BY LedgerInvStep, LedgerStep, MovesImplement
<1>3. LedgerInv /\ [Next]_vars => LedgerInv' /\ [Ledger!Next]_[p \in Page |-> Owner(p)]
  BY <1>2 DEF Bar
<1> QED BY <1>1, <1>3, PTL DEF Spec, ImplementsLedger, Ledger!Spec
=============================================================================
