---------------------------- MODULE PhysMem_proof ----------------------------
(* Proofs about PhysMem. *)
EXTENDS PhysMem, FiniteSetTheorems, TLAPS

LEMMA HeldType ==
  ASSUME TypeOK, NEW s \in Session
  PROVE  Held(s) \subseteq Page
  BY DEF TypeOK, Held, Status

LEMMA PutPagesType ==
  ASSUME TypeOK, NEW ps \in SUBSET Page, PutPages(ps)
  PROVE  /\ buddy' \subseteq Page /\ kern' \subseteq Page /\ poison' \subseteq Page
         /\ count' \in [Page -> Int]
  BY DEF TypeOK, PutPages

LEMMA FreePageStatiType ==
  ASSUME TypeOK, NEW s \in Session, FreePageStati(s)
  PROVE  /\ buddy' \subseteq Page /\ kern' \subseteq Page /\ poison' \subseteq Page
         /\ count' \in [Page -> Int]
  BY HeldType, PutPagesType DEF FreePageStati

LEMMA DropOldStatiType ==
  ASSUME TypeOK, NEW s \in Session, DropOldStati(s)
  PROVE  /\ buddy' \subseteq Page /\ kern' \subseteq Page /\ poison' \subseteq Page
         /\ count' \in [Page -> Int]
  BY FreePageStatiType DEF TypeOK, DropOldStati, frameVars

LEMMA InsertType ==
  ASSUME TypeOK, NEW v \in Vma, NEW ps \in SUBSET Page, Insert(v, ps)
  PROVE  /\ vpages' \in [Vma -> SUBSET Page]
         /\ buddy' \subseteq Page /\ kern' \subseteq Page /\ poison' \subseteq Page
         /\ count' \in [Page -> Int]
  BY DEF TypeOK, Insert

LEMMA BlanksType == Blanks \in [Idx -> Status] /\ Blank \in Status
  BY BoundsOK DEF Blanks, Blank, Status

LEMMA NewStatiType ==
  ASSUME TypeOK, NEW s \in Session, NEW n \in 0..MaxReq, NewStati(s, n)
  PROVE  stati' \in [Session -> [Idx -> Status]] /\ num' \in [Session -> 0..MaxReq]
  BY BlanksType DEF TypeOK, NewStati

LEMMA EnterType ==
  ASSUME TypeOK, NEW t \in Thread, NEW pc \in PCs, NEW s \in Session \cup {NoSession},
         NEW p \in Page \cup {NoPage}, NEW v \in Vma \cup {NoVma}, Enter(t, pc, s, p, v)
  PROVE  call' \in [Thread -> Call]
<1>1. 0 \in 0..MaxReq + 1 /\ 0 \in 0..MaxReq
  BY BoundsOK
<1>2. [pc |-> pc, sess |-> s, idx |-> 0, off |-> 0, page |-> p, area |-> v] \in Call
  BY <1>1 DEF Call
<1> QED BY <1>2 DEF TypeOK, Enter

LEMMA FinishType ==
  ASSUME TypeOK, NEW t \in Thread, NEW pc \in PCs, Finish(t, pc)
  PROVE  call' \in [Thread -> Call]
  BY EnterType DEF Finish

LEMMA AtType ==
  ASSUME TypeOK, NEW t \in Thread, NEW pc \in PCs, At(t, pc)
  PROVE  call' \in [Thread -> Call]
<1>1. call[t] \in Call
  BY DEF TypeOK
<1>2. [call[t] EXCEPT !.pc = pc] \in Call
  BY <1>1 DEF Call
<1> QED BY <1>2 DEF TypeOK, At

LEMMA RecordType ==
  ASSUME TypeOK, CallOK, NEW t \in Thread, NEW status \in Status, Record(t, status),
         call[t].pc \in {"claim", "take"}, call[t].idx <= num[Ours(t)]
  PROVE  call' \in [Thread -> Call] /\ stati' \in [Session -> [Idx -> Status]]
<1>0. call[t] \in Call /\ Ours(t) \in Session /\ call[t].idx > 0 /\ call[t].off < call[t].idx
  BY DEF TypeOK, CallOK, SessOK, ClaimOK, AreaOK, Ours
<1>1. call[t].idx \in Idx
  BY <1>0, BoundsOK DEF TypeOK, Ours, Idx, Call
<1>2. stati' \in [Session -> [Idx -> Status]]
  BY <1>0, <1>1 DEF TypeOK, Record
<1> DEFINE off == IF status.page = NoPage THEN call[t].off ELSE call[t].off + 1
<1>3. call[t].idx + 1 \in 0..MaxReq + 1 /\ off \in 0..MaxReq
  BY <1>0, <1>1, BoundsOK DEF Call, Idx
<1>4. [call[t] EXCEPT !.pc = "claim", !.idx = call[t].idx + 1, !.page = NoPage, !.off = off] \in Call
  BY <1>0, <1>3 DEF Call, PCs
<1> QED BY <1>2, <1>4 DEF TypeOK, Record, NextRequest

(* A thread inside a handler works on a session, and mmap on a VMA. *)
LEMMA InHandler ==
  ASSUME TypeOK, CallOK, NEW t \in Thread, call[t].pc \notin {"idle", "EINVAL"}
  PROVE  /\ call[t] \in Call /\ Ours(t) \in Session
         /\ call[t].pc \in {"mmap", "unmap", "vma_open", "vma_close"} => call[t].area \in Vma
         /\ call[t].pc \in {"take", "mark"} => call[t].page \in Page
  BY DEF TypeOK, CallOK, SessOK, ClaimOK, AreaOK, Ours

LEMMA TypeStep == TypeOK /\ CallOK /\ [Next]_vars => TypeOK'
<1> SUFFICES ASSUME TypeOK, CallOK, [Next]_vars PROVE TypeOK'
  OBVIOUS
<1>1. ASSUME NEW s \in Session, Open(s) PROVE TypeOK'
  BY <1>1 DEF TypeOK, Open, States, sessionVars, vmaVars, frameVars
<1>2. ASSUME NEW s \in Session, CloseFd(s) PROVE TypeOK'
  BY <1>2 DEF TypeOK, CloseFd, sessionVars, vmaVars, frameVars
<1>3. ASSUME NEW s \in Session, ReleaseStart(s) PROVE TypeOK'
  BY <1>3 DEF TypeOK, ReleaseStart, sessionVars, vmaVars, frameVars
<1>4. ASSUME NEW s \in Session, ReleaseConfigured(s) PROVE TypeOK'
  BY <1>4, FreePageStatiType, NewStatiType, BoundsOK DEF TypeOK, ReleaseConfigured, States, sessionVars, vmaVars, frameVars
<1>5. ASSUME NEW s \in Session, ReleaseOpen(s) PROVE TypeOK'
  BY <1>5 DEF TypeOK, ReleaseOpen, States, sessionVars, vmaVars, frameVars
<1>6. ASSUME NEW s \in Session, ReleaseEnd(s) PROVE TypeOK'
  BY <1>6 DEF TypeOK, ReleaseEnd, States, sessionVars, vmaVars, frameVars
<1>7. ASSUME NEW t \in Thread, NEW s \in Session, DispatchIoctl(t, s) PROVE TypeOK'
  BY <1>7, EnterType DEF TypeOK, DispatchIoctl, PCs, sessionVars, vmaVars, frameVars
<1>8. ASSUME NEW t \in Thread, NEW s \in Session, DispatchRefused(t, s) PROVE TypeOK'
  BY <1>8, EnterType DEF TypeOK, DispatchRefused, PCs, sessionVars, vmaVars, frameVars
<1>9. ASSUME NEW t \in Thread, NEW s \in Session, NEW v \in Vma, DispatchMmap(t, s, v) PROVE TypeOK'
  BY <1>9, EnterType DEF TypeOK, DispatchMmap, PCs, sessionVars, vmaVars, frameVars
<1>10. ASSUME NEW t \in Thread, NEW v \in Vma, NEW w \in Vma, Fork(t, v, w) PROVE TypeOK'
  BY <1>10, EnterType, InsertType DEF TypeOK, Fork, PCs, sessionVars, vmaVars, frameVars
<1>11. ASSUME NEW t \in Thread, NEW v \in Vma, Munmap(t, v) PROVE TypeOK'
  BY <1>11, EnterType, PutPagesType DEF TypeOK, Munmap, PCs, sessionVars, vmaVars, frameVars
<1>12. ASSUME NEW t \in Thread, CopyFault(t) PROVE TypeOK'
  <2>1. Ours(t) \in Session
    BY <1>12, InHandler DEF CopyFault, Claiming
  <2>2. call' \in [Thread -> Call]
    BY <1>12, FinishType DEF CopyFault, PCs
  <2>3. /\ buddy' \subseteq Page /\ kern' \subseteq Page /\ poison' \subseteq Page
        /\ count' \in [Page -> Int]
    BY <1>12, <2>1, FreePageStatiType DEF CopyFault
  <2>4. stati' \in [Session -> [Idx -> Status]] /\ num' \in [Session -> 0..MaxReq]
    BY <1>12, <2>1, NewStatiType, BoundsOK DEF CopyFault
  <2> QED BY <1>12, <2>1, <2>2, <2>3, <2>4 DEF TypeOK, CopyFault, States, vmaVars
<1>13. ASSUME NEW t \in Thread, ClaimFails(t) PROVE TypeOK'
  <2>1. PICK src \in {{}, {"INVALID_PFN"}} : Record(t, [Blank EXCEPT !.src = src])
    BY <1>13 DEF ClaimFails
  <2>2. [Blank EXCEPT !.src = src] \in Status
    BY BlanksType DEF Status, Sources
  <2>3. call' \in [Thread -> Call] /\ stati' \in [Session -> [Idx -> Status]]
    BY <1>13, <2>1, <2>2, RecordType DEF ClaimFails, Claiming
  <2> QED BY <1>13, <2>1, <2>3 DEF TypeOK, ClaimFails, Record, vmaVars, frameVars
<1>14. ASSUME NEW t \in Thread, NEW p \in Page, ClaimCheck(t, p) PROVE TypeOK'
  <2>1. [call[t] EXCEPT !.pc = "take", !.page = p] \in Call
    BY <1>14, InHandler, ZenonT(60) DEF ClaimCheck, Claiming, Call, PCs
  <2> QED BY <1>14, <2>1 DEF TypeOK, ClaimCheck, sessionVars, vmaVars, frameVars
<1>15. ASSUME NEW t \in Thread, ClaimTake(t) PROVE TypeOK'
  <2> DEFINE status == [page |-> call[t].page, src |-> {"BUDDY"}, off |-> call[t].off]
  <2>1. /\ call[t] \in Call /\ call[t].pc = "take" /\ call[t].page \in Page
        /\ call[t].idx <= num[Ours(t)]
    BY <1>15, InHandler DEF ClaimTake, CallOK, ClaimOK, SessOK, TypeOK, Ours
  <2>2. status \in Status
    BY <2>1 DEF Status, Sources, Call
  <2>3. Record(t, status)
    BY <1>15 DEF ClaimTake
  <2>4. call' \in [Thread -> Call] /\ stati' \in [Session -> [Idx -> Status]]
    BY <2>1, <2>2, <2>3, RecordType
  <2> QED BY <1>15, <2>1, <2>3, <2>4 DEF TypeOK, ClaimTake, Record, vmaVars
<1>16. ASSUME NEW t \in Thread, ClaimLost(t) PROVE TypeOK'
  <2>1. call[t].pc = "take" /\ call[t].idx <= num[Ours(t)]
    BY <1>16, InHandler DEF ClaimLost, CallOK, ClaimOK, SessOK, TypeOK, Ours
  <2>2. Record(t, Blank)
    BY <1>16 DEF ClaimLost
  <2>3. call' \in [Thread -> Call] /\ stati' \in [Session -> [Idx -> Status]]
    BY <2>1, <2>2, BlanksType, RecordType
  <2> QED BY <1>16, <2>2, <2>3 DEF TypeOK, ClaimLost, Record, vmaVars, frameVars
<1>17. ASSUME NEW t \in Thread, RequestDone(t) PROVE TypeOK'
  BY <1>17, FinishType DEF TypeOK, RequestDone, PCs, States, sessionVars, vmaVars, frameVars
<1>18. ASSUME NEW t \in Thread, UnmapRegion(t) PROVE TypeOK'
  <2>1. call[t].area \in Vma
    BY <1>18, InHandler DEF UnmapRegion
  <2>2. vpages[call[t].area] \subseteq Page
    BY <2>1 DEF TypeOK
  <2>3. /\ buddy' \subseteq Page /\ kern' \subseteq Page /\ poison' \subseteq Page
        /\ count' \in [Page -> Int]
    BY <1>18, <2>2, PutPagesType DEF UnmapRegion
  <2>4. call' \in [Thread -> Call]
    BY <1>18, FinishType DEF UnmapRegion, PCs
  <2> QED BY <1>18, <2>1, <2>3, <2>4 DEF TypeOK, UnmapRegion, sessionVars
<1>19. ASSUME NEW t \in Thread, Return(t) PROVE TypeOK'
  BY <1>19, FinishType DEF TypeOK, Return, PCs, sessionVars, vmaVars, frameVars
<1>20. ASSUME NEW t \in Thread, RequestNothing(t) PROVE TypeOK'
  <2>1. Ours(t) \in Session
    BY <1>20, InHandler DEF RequestNothing, Requestable
  <2>2. call' \in [Thread -> Call]
    BY <1>20, FinishType DEF RequestNothing, PCs
  <2>3. /\ buddy' \subseteq Page /\ kern' \subseteq Page /\ poison' \subseteq Page
        /\ count' \in [Page -> Int]
    BY <1>20, <2>1, DropOldStatiType DEF RequestNothing
  <2>4. stati' \in [Session -> [Idx -> Status]] /\ num' \in [Session -> 0..MaxReq]
    BY <1>20, <2>1, NewStatiType, BoundsOK DEF RequestNothing
  <2> QED BY <1>20, <2>1, <2>2, <2>3, <2>4 DEF TypeOK, RequestNothing, States, vmaVars
<1>21. ASSUME NEW t \in Thread, RequestStart(t) PROVE TypeOK'
  <2>1. call[t] \in Call /\ Ours(t) \in Session
    BY <1>21, InHandler DEF RequestStart, Requestable
  <2>2. call' \in [Thread -> Call]
    <3>1. 1 \in 0..MaxReq + 1 /\ 0 \in 0..MaxReq
      BY BoundsOK
    <3>2. [call[t] EXCEPT !.pc = "claim", !.idx = 1, !.off = 0] \in Call
      BY <2>1, <3>1 DEF Call, PCs
    <3> QED BY <1>21, <3>2 DEF RequestStart, TypeOK
  <2>3. /\ buddy' \subseteq Page /\ kern' \subseteq Page /\ poison' \subseteq Page
        /\ count' \in [Page -> Int]
    BY <1>21, <2>1, DropOldStatiType DEF RequestStart
  <2>4. stati' \in [Session -> [Idx -> Status]] /\ num' \in [Session -> 0..MaxReq]
    BY <1>21, <2>1, NewStatiType, BoundsOK DEF RequestStart, Idx
  <2> QED BY <1>21, <2>1, <2>2, <2>3, <2>4 DEF TypeOK, RequestStart, States, vmaVars
<1>22. ASSUME NEW t \in Thread, MarkFrame(t) PROVE TypeOK'
  <2>1. call[t].page \in Page
    BY <1>22, InHandler DEF MarkFrame
  <2>2. \E pc \in PCs : Finish(t, pc)
    BY <1>22 DEF MarkFrame, PCs
  <2>3. call' \in [Thread -> Call]
    BY <2>2, FinishType
  <2> QED BY <1>22, <2>1, <2>3 DEF TypeOK, MarkFrame, sessionVars, vmaVars
<1>23. ASSUME NEW t \in Thread, MmapRefused(t) PROVE TypeOK'
  BY <1>23, FinishType DEF TypeOK, MmapRefused, PCs, sessionVars, vmaVars, frameVars
<1>24. ASSUME NEW t \in Thread, Mmap(t) PROVE TypeOK'
  <2>1. Ours(t) \in Session /\ call[t].area \in Vma
    BY <1>24, InHandler DEF Mmap
  <2>2. /\ vpages' \in [Vma -> SUBSET Page]
        /\ buddy' \subseteq Page /\ kern' \subseteq Page /\ poison' \subseteq Page
        /\ count' \in [Page -> Int]
    BY <1>24, <2>1, HeldType, InsertType DEF Mmap
  <2>3. call' \in [Thread -> Call]
    BY <1>24, AtType DEF Mmap, PCs
  <2> QED BY <1>24, <2>2, <2>3 DEF TypeOK, Mmap, sessionVars
<1>25. ASSUME NEW t \in Thread, MmapFails(t) PROVE TypeOK'
  <2>1. Ours(t) \in Session /\ call[t].area \in Vma
    BY <1>25, InHandler DEF MmapFails
  <2>2. PICK i \in Idx :
          /\ Insert(call[t].area, {stati[Ours(t)][j].page : j \in 1..i-1} \ {NoPage})
          /\ stati' = [stati EXCEPT ![Ours(t)][i].src = @ \cup {"NOT_MAPPABLE"}]
    BY <1>25 DEF MmapFails
  <2>3. {stati[Ours(t)][j].page : j \in 1..i-1} \ {NoPage} \subseteq Page
    BY <2>1, BoundsOK DEF TypeOK, Status, Idx
  <2>4. /\ vpages' \in [Vma -> SUBSET Page]
        /\ buddy' \subseteq Page /\ kern' \subseteq Page /\ poison' \subseteq Page
        /\ count' \in [Page -> Int]
    BY <2>1, <2>2, <2>3, InsertType
  <2>5. stati' \in [Session -> [Idx -> Status]]
    <3>1. stati[Ours(t)] \in [Idx -> Status] /\ stati[Ours(t)][i] \in Status
      BY <2>1 DEF TypeOK
    <3>2. [stati[Ours(t)][i] EXCEPT !.src = @ \cup {"NOT_MAPPABLE"}] \in Status
      BY <3>1 DEF Status, Sources
    <3> QED BY <2>1, <2>2, <3>1, <3>2 DEF TypeOK
  <2>6. call' \in [Thread -> Call]
    BY <1>25, AtType DEF MmapFails, PCs
  <2> QED BY <1>25, <2>4, <2>5, <2>6 DEF TypeOK, MmapFails
<1>26. ASSUME NEW t \in Thread, VmaOpen(t) PROVE TypeOK'
  <2>1. Ours(t) \in Session /\ call[t].area \in Vma
    BY <1>26, InHandler DEF VmaOpen
  <2>2. call' \in [Thread -> Call]
    BY <1>26, FinishType DEF VmaOpen, PCs
  <2> QED BY <1>26, <2>1, <2>2 DEF TypeOK, VmaOpen, vmaVars, frameVars
<1>27. ASSUME NEW t \in Thread, VmaClose(t) PROVE TypeOK'
  <2>1. Ours(t) \in Session /\ call[t].area \in Vma
    BY <1>27, InHandler DEF VmaClose
  <2>2. call' \in [Thread -> Call]
    BY <1>27, FinishType DEF VmaClose, PCs
  <2> QED BY <1>27, <2>1, <2>2 DEF TypeOK, VmaClose, States, vmaVars, frameVars
<1>28. ASSUME NEW t \in Thread, Interrupted(t) PROVE TypeOK'
  BY <1>28, FinishType DEF TypeOK, Interrupted, PCs, sessionVars, vmaVars, frameVars
<1>29. ASSUME NEW p \in Page, KernelAlloc(p) PROVE TypeOK'
  BY <1>29 DEF TypeOK, KernelAlloc, sessionVars, vmaVars, frameVars
<1>30. ASSUME NEW p \in Page, KernelFree(p) PROVE TypeOK'
  BY <1>30 DEF TypeOK, KernelFree, sessionVars, vmaVars, frameVars
<1>31. ASSUME NEW p \in Page, MemoryFailure(p) PROVE TypeOK'
  BY <1>31 DEF TypeOK, MemoryFailure, sessionVars, vmaVars, frameVars
<1>32. ASSUME NEW p \in Page, SkipPoisoned(p) PROVE TypeOK'
  BY <1>32 DEF TypeOK, SkipPoisoned, sessionVars, vmaVars, frameVars
<1>33. ASSUME UNCHANGED vars PROVE TypeOK'
  BY <1>33 DEF TypeOK, vars, sessionVars, vmaVars, frameVars
<1> QED
  BY <1>1, <1>2, <1>3, <1>4, <1>5, <1>6, <1>7, <1>8, <1>9, <1>10, <1>11, <1>12, <1>13, <1>14, <1>15, <1>16, <1>17, <1>18, <1>19, <1>20, <1>21, <1>22, <1>23, <1>24, <1>25, <1>26, <1>27, <1>28, <1>29, <1>30, <1>31, <1>32, <1>33 DEF Next, Dispatch, Claim, CopyRequest, Continue, Acquire, Release, Kernel

(* Recording a status keeps the rest of the stati blank. *)
LEMMA RecordCall ==
  ASSUME TypeOK, CallOK, NEW t \in Thread, NEW status \in Status, Record(t, status),
         call[t].pc \in {"claim", "take"}, call[t].idx <= num[Ours(t)], UNCHANGED vmaVars
  PROVE  CallOK'
<1>0. call[t] \in Call /\ Ours(t) \in Session /\ call[t].idx > 0
  BY DEF TypeOK, CallOK, SessOK, ClaimOK, Ours
<1>1. call[t] \in Call /\ Ours(t) \in Session /\ call[t].idx \in Idx
  BY <1>0, BoundsOK DEF TypeOK, Ours, Idx, Call
<1> DEFINE off == IF status.page = NoPage THEN call[t].off ELSE call[t].off + 1
           c   == [call[t] EXCEPT !.pc = "claim", !.idx = call[t].idx + 1,
                                  !.page = NoPage, !.off = off]
<1>2. call' = [call EXCEPT ![t] = c]
  BY DEF Record, NextRequest
<1>3. /\ c.pc = "claim" /\ c.sess = Ours(t) /\ c.idx = call[t].idx + 1
      /\ c.off = off /\ c.area = call[t].area /\ call'[t] = c
  BY <1>1, <1>2 DEF Call, TypeOK, Ours
<1>4. \A u \in Thread \ {t} : call'[u] = call[u]
  BY <1>2 DEF TypeOK
<1>5. \A i \in Idx : i # call[t].idx => stati'[Ours(t)][i] = stati[Ours(t)][i]
  BY <1>1 DEF Record, TypeOK
<1>6. \A s \in Session : s # Ours(t) => stati'[s] = stati[s]
  BY <1>1 DEF Record, TypeOK
<1>7. ClaimOK(t)'
  <2>1. off < call[t].idx + 1
    BY <1>1 DEF CallOK, ClaimOK, Call
  <2>2. \A i \in Idx : i >= call[t].idx + 1 => stati'[Ours(t)][i] = Blank
    BY <1>1, <1>5 DEF CallOK, ClaimOK, Ours, Idx
  <2>3. sem'[Ours(t)] = t /\ state'[Ours(t)] = "CONFIGURING" /\ num' = num
    BY <1>1 DEF CallOK, ClaimOK, Ours, Record
  <2>4. num[Ours(t)] \in Nat /\ call[t].idx \in Nat
    BY <1>1, BoundsOK DEF TypeOK, Idx
  <2> QED BY <1>1, <1>3, <2>1, <2>2, <2>3, <2>4 DEF ClaimOK, Idx
<1>8. ASSUME NEW u \in Thread, u # t PROVE ClaimOK(u)'
  <2>1. SUFFICES ASSUME call[u].pc \in {"claim", "take"} PROVE call[u].sess # Ours(t)
    BY <1>4, <1>6, <1>8, <2>1 DEF CallOK, SessOK, ClaimOK, Record
  <2> QED BY <1>1, <1>8, <2>1 DEF CallOK, ClaimOK, Ours
<1>9. ASSUME NEW u \in Thread PROVE SessOK(u)' /\ AreaOK(u)'
  <2>1. SessOK(u)'
    BY <1>1, <1>3, <1>4, <1>9 DEF CallOK, SessOK, Ours
  <2>2. \A x \in Thread : call'[x].area = call[x].area
    BY <1>3, <1>4
  <2>3. \A x \in Thread : x # t => call'[x].pc = call[x].pc /\ call'[x].sess = call[x].sess
    BY <1>4
  <2>4. call[t].area \notin Vma
    BY DEF CallOK, AreaOK
  <2>5. CASE u = t
    <3>1. AreaOK(t)'
      BY <1>3, <2>4 DEF AreaOK
    <3> QED BY <2>1, <2>5, <3>1
  <2>6. CASE u # t
    <3>1. AreaOK(u)'
      BY <1>4, <2>2, <2>6 DEF CallOK, AreaOK, vmaVars
    <3> QED BY <2>1, <3>1
  <2> QED BY <2>5, <2>6
<1> QED BY <1>7, <1>8, <1>9 DEF CallOK, vmaVars

LEMMA CallStep == TypeOK /\ CallOK /\ [Next]_vars => CallOK'
<1> SUFFICES ASSUME TypeOK, CallOK, [Next]_vars PROVE CallOK'
  OBVIOUS
<1>1. ASSUME NEW s \in Session, Open(s) PROVE CallOK'
  BY <1>1, NullsDistinct, BoundsOK DEF CallOK, SessOK, ClaimOK, AreaOK, TypeOK, Call, Open, sessionVars, vmaVars, frameVars
<1>2. ASSUME NEW s \in Session, CloseFd(s) PROVE CallOK'
  BY <1>2, NullsDistinct, BoundsOK DEF CallOK, SessOK, ClaimOK, AreaOK, TypeOK, Call, CloseFd, sessionVars, vmaVars, frameVars
<1>3. ASSUME NEW s \in Session, ReleaseStart(s) PROVE CallOK'
  BY <1>3, NullsDistinct, BoundsOK DEF CallOK, SessOK, ClaimOK, AreaOK, TypeOK, Call, ReleaseStart, Up, Unreferenced, sessionVars, vmaVars, frameVars
<1>4. ASSUME NEW s \in Session, ReleaseConfigured(s) PROVE CallOK'
  BY <1>4, NullsDistinct, BoundsOK DEF CallOK, SessOK, ClaimOK, AreaOK, TypeOK, Call, ReleaseConfigured, NewStati, sessionVars, vmaVars, frameVars
<1>5. ASSUME NEW s \in Session, ReleaseOpen(s) PROVE CallOK'
  BY <1>5, NullsDistinct, BoundsOK DEF CallOK, SessOK, ClaimOK, AreaOK, TypeOK, Call, ReleaseOpen, sessionVars, vmaVars, frameVars
<1>6. ASSUME NEW s \in Session, ReleaseEnd(s) PROVE CallOK'
  BY <1>6, NullsDistinct, BoundsOK DEF CallOK, SessOK, ClaimOK, AreaOK, TypeOK, Call, ReleaseEnd, sessionVars, vmaVars, frameVars
<1>7. ASSUME NEW t \in Thread, NEW s \in Session, DispatchIoctl(t, s) PROVE CallOK'
  <2>1. CASE Enter(t, "request", s, NoPage, NoVma)
    BY <1>7, <2>1, NullsDistinct DEF CallOK, SessOK, ClaimOK, AreaOK, TypeOK, Enter, DispatchIoctl, sessionVars, vmaVars, frameVars
  <2>2. ASSUME NEW bad_pfn \in Page, Enter(t, "mark", s, bad_pfn, NoVma) PROVE CallOK'
    BY <1>7, <2>2, NullsDistinct DEF CallOK, SessOK, ClaimOK, AreaOK, TypeOK, Enter, DispatchIoctl, sessionVars, vmaVars, frameVars
  <2> QED BY <1>7, <2>1, <2>2 DEF DispatchIoctl
<1>8. ASSUME NEW t \in Thread, NEW s \in Session, DispatchRefused(t, s) PROVE CallOK'
  BY <1>8, NullsDistinct, BoundsOK DEF CallOK, SessOK, ClaimOK, AreaOK, TypeOK, Call, DispatchRefused, Enter, sessionVars, vmaVars, frameVars
<1>9. ASSUME NEW t \in Thread, NEW s \in Session, NEW v \in Vma, DispatchMmap(t, s, v) PROVE CallOK'
  <2>1. \A u \in Thread : call[u].area # v
    BY <1>9, NullsDistinct DEF CallOK, SessOK, ClaimOK, AreaOK, DispatchMmap
  <2>2. call'[t] = [pc |-> "mmap", sess |-> s, idx |-> 0, off |-> 0,
                    page |-> NoPage, area |-> v]
    BY <1>9 DEF TypeOK, DispatchMmap, Enter
  <2>3. \A u \in Thread \ {t} : call'[u] = call[u]
    BY <1>9 DEF TypeOK, DispatchMmap, Enter
  <2>4. s \in Session /\ vpages'[v] = {}
    BY <1>9 DEF DispatchMmap, TypeOK, CallOK
  <2>5. ASSUME NEW u \in Thread PROVE SessOK(u)' /\ ClaimOK(u)'
    BY <1>9, <2>2, <2>3, <2>4, <2>5 DEF CallOK, SessOK, ClaimOK, AreaOK, DispatchMmap, sessionVars
  <2>6. vown' = [vown EXCEPT ![v] = s]
    BY <1>9 DEF DispatchMmap
  <2>7. \A v1 \in Vma : v1 # v => vpages'[v1] = vpages[v1]
    BY <1>9 DEF TypeOK, DispatchMmap, Insert
  <2>8. AreaOK(t)'
    BY <1>9, <2>1, <2>2, <2>3, <2>4, <2>6 DEF AreaOK, TypeOK, DispatchMmap
  <2>9. ASSUME NEW u \in Thread \ {t} PROVE AreaOK(u)'
    <3>1. call'[u] = call[u] /\ call[u].area # v /\ AreaOK(u)
      BY <2>1, <2>3, <2>9 DEF CallOK
    <3>2. \A x \in Thread \ {u} : call'[x].area # call[u].area \/ call[u].area \notin Vma
      BY <2>2, <2>3, <3>1 DEF AreaOK
    <3>3. call[u].area \in Vma => vown'[call[u].area] = vown[call[u].area]
                               /\ vpages'[call[u].area] = vpages[call[u].area]
      BY <2>6, <2>7, <3>1 DEF TypeOK
    <3> QED BY <3>1, <3>2, <3>3 DEF AreaOK
  <2>10. \A x \in Vma : vown'[x] = NoSession => vpages'[x] = {}
    BY <2>4, <2>6, <2>7, NullsDistinct DEF CallOK, TypeOK
  <2> QED BY <2>5, <2>8, <2>9, <2>10 DEF CallOK
<1>10. ASSUME NEW t \in Thread, NEW v \in Vma, NEW w \in Vma, Fork(t, v, w) PROVE CallOK'
  <2>1. \A u \in Thread : call[u].area # w
    BY <1>10, NullsDistinct DEF CallOK, SessOK, ClaimOK, AreaOK, Fork
  <2>2. call'[t] = [pc |-> "vma_open", sess |-> vown[v], idx |-> 0, off |-> 0,
                    page |-> NoPage, area |-> w]
    BY <1>10 DEF TypeOK, Fork, Enter
  <2>3. \A u \in Thread \ {t} : call'[u] = call[u]
    BY <1>10 DEF TypeOK, Fork, Enter
  <2>4. vown[v] \in Session
    BY <1>10 DEF Fork, TypeOK, Attached
  <2>5. ASSUME NEW u \in Thread PROVE SessOK(u)' /\ ClaimOK(u)'
    BY <1>10, <2>2, <2>3, <2>4, <2>5 DEF CallOK, SessOK, ClaimOK, AreaOK, Fork, sessionVars
  <2>6. vown' = [vown EXCEPT ![w] = vown[v]]
    BY <1>10 DEF Fork
  <2>7. \A v1 \in Vma : v1 # w => vpages'[v1] = vpages[v1]
    BY <1>10 DEF TypeOK, Fork, Insert
  <2>8. AreaOK(t)'
    BY <1>10, <2>1, <2>2, <2>3, <2>4, <2>6 DEF AreaOK, TypeOK, Fork
  <2>9. ASSUME NEW u \in Thread \ {t} PROVE AreaOK(u)'
    <3>1. call'[u] = call[u] /\ call[u].area # w /\ AreaOK(u)
      BY <2>1, <2>3, <2>9 DEF CallOK
    <3>2. \A x \in Thread \ {u} : call'[x].area # call[u].area \/ call[u].area \notin Vma
      BY <2>2, <2>3, <3>1 DEF AreaOK
    <3>3. call[u].area \in Vma => vown'[call[u].area] = vown[call[u].area]
                               /\ vpages'[call[u].area] = vpages[call[u].area]
      BY <2>6, <2>7, <3>1 DEF TypeOK
    <3> QED BY <3>1, <3>2, <3>3 DEF AreaOK
  <2>10. \A x \in Vma : vown'[x] = NoSession => vpages'[x] = {}
    BY <2>4, <2>6, <2>7, NullsDistinct DEF CallOK, TypeOK
  <2> QED BY <2>5, <2>8, <2>9, <2>10 DEF CallOK
<1>11. ASSUME NEW t \in Thread, NEW v \in Vma, Munmap(t, v) PROVE CallOK'
  BY <1>11, NullsDistinct, BoundsOK DEF CallOK, SessOK, ClaimOK, AreaOK, TypeOK, Call, Munmap, Enter, PutPages, Attached, sessionVars, vmaVars, frameVars
<1>12. ASSUME NEW t \in Thread, CopyFault(t) PROVE CallOK'
  BY <1>12, NullsDistinct, BoundsOK DEF CallOK, SessOK, ClaimOK, AreaOK, TypeOK, Call, CopyFault, Claiming, NewStati, Ours, Finish, Enter, sessionVars, vmaVars, frameVars
<1>13. ASSUME NEW t \in Thread, ClaimFails(t) PROVE CallOK'
  <2>1. PICK src \in {{}, {"INVALID_PFN"}} : Record(t, [Blank EXCEPT !.src = src])
    BY <1>13 DEF ClaimFails
  <2>2. [Blank EXCEPT !.src = src] \in Status
    BY BlanksType DEF Status, Sources
  <2> QED BY <1>13, <2>1, <2>2, RecordCall DEF ClaimFails, Claiming, Record
<1>14. ASSUME NEW t \in Thread, NEW p \in Page, ClaimCheck(t, p) PROVE CallOK'
  <2> DEFINE c == [call[t] EXCEPT !.pc = "take", !.page = p]
  <2>1. call[t] \in Call /\ call' = [call EXCEPT ![t] = c]
    BY <1>14 DEF TypeOK, ClaimCheck
  <2>2. /\ c.pc = "take" /\ c.sess = call[t].sess /\ c.idx = call[t].idx
        /\ c.off = call[t].off /\ c.page = p /\ c.area = call[t].area
    BY <2>1 DEF Call
  <2> HIDE DEF c
  <2> QED BY <1>14, <2>1, <2>2, SMTT(30) DEF CallOK, SessOK, ClaimOK, AreaOK, TypeOK, Call, ClaimCheck, Claiming, Ours, sessionVars, vmaVars, frameVars
<1>15. ASSUME NEW t \in Thread, ClaimTake(t) PROVE CallOK'
  <2> DEFINE status == [page |-> call[t].page, src |-> {"BUDDY"}, off |-> call[t].off]
  <2>1. /\ call[t] \in Call /\ call[t].pc = "take" /\ call[t].page \in Page
        /\ call[t].idx <= num[Ours(t)]
    BY <1>15, InHandler DEF ClaimTake, CallOK, ClaimOK, TypeOK, Ours
  <2>2. status \in Status
    BY <2>1 DEF Status, Sources, Call
  <2>3. Record(t, status)
    BY <1>15 DEF ClaimTake
  <2> QED BY <2>1, <2>2, <2>3, RecordCall DEF Record
<1>16. ASSUME NEW t \in Thread, ClaimLost(t) PROVE CallOK'
  <2>1. call[t].pc = "take" /\ call[t].idx <= num[Ours(t)]
    BY <1>16, InHandler DEF ClaimLost, CallOK, ClaimOK, TypeOK, Ours
  <2>2. Record(t, Blank)
    BY <1>16 DEF ClaimLost
  <2> QED BY <2>1, <2>2, BlanksType, RecordCall DEF Record
<1>17. ASSUME NEW t \in Thread, RequestDone(t) PROVE CallOK'
  BY <1>17, NullsDistinct, BoundsOK DEF CallOK, SessOK, ClaimOK, AreaOK, TypeOK, Call, RequestDone, Ours, Finish, Enter, sessionVars, vmaVars, frameVars
<1>18. ASSUME NEW t \in Thread, UnmapRegion(t) PROVE CallOK'
  BY <1>18, NullsDistinct, BoundsOK DEF CallOK, SessOK, ClaimOK, AreaOK, TypeOK, Call, UnmapRegion, PutPages, Ours, Finish, Enter, sessionVars, vmaVars, frameVars
<1>19. ASSUME NEW t \in Thread, Return(t) PROVE CallOK'
  BY <1>19, NullsDistinct, BoundsOK DEF CallOK, SessOK, ClaimOK, AreaOK, TypeOK, Call, Return, Ours, Finish, Enter, sessionVars, vmaVars, frameVars
<1>20. ASSUME NEW t \in Thread, RequestNothing(t) PROVE CallOK'
  BY <1>20, NullsDistinct, BoundsOK DEF CallOK, SessOK, ClaimOK, AreaOK, TypeOK, Call, RequestNothing, Requestable, NewStati, Up, Ours, Finish, Enter, sessionVars, vmaVars, frameVars
<1>21. ASSUME NEW t \in Thread, RequestStart(t) PROVE CallOK'
  <2> DEFINE s == Ours(t)
  <2>1. call[t] \in Call /\ s \in Session /\ call[t].pc = "request"
    BY <1>21, InHandler DEF RequestStart, Requestable
  <2> DEFINE c == [call[t] EXCEPT !.pc = "claim", !.idx = 1, !.off = 0]
  <2>2. /\ call' = [call EXCEPT ![t] = c]
        /\ c.pc = "claim" /\ c.sess = s /\ c.idx = 1 /\ c.off = 0
        /\ c.page = call[t].page /\ c.area = call[t].area
    BY <1>21, <2>1 DEF RequestStart, Call, Ours
  <2> HIDE DEF c
  <2>3. PICK n \in Idx : NewStati(s, n)
    BY <1>21 DEF RequestStart
  <2>4. ASSUME NEW u \in Thread PROVE SessOK(u)' /\ AreaOK(u)'
    BY <1>21, <2>1, <2>2 DEF CallOK, SessOK, ClaimOK, AreaOK, TypeOK, RequestStart, vmaVars
  <2>5. ClaimOK(t)'
    <3>1. call'[t] = c
      BY <2>2 DEF TypeOK
    <3>2. sem'[s] = t /\ state'[s] = "CONFIGURING"
      BY <1>21, <2>1 DEF TypeOK, RequestStart
    <3>3. num'[s] = n /\ stati'[s] = Blanks
      BY <2>1, <2>3 DEF TypeOK, NewStati
    <3>4. n >= 1 /\ n \in Int
      BY BoundsOK DEF Idx
    <3> QED BY <2>2, <3>1, <3>2, <3>3, <3>4 DEF ClaimOK, Blanks
  <2>6. ASSUME NEW u \in Thread \ {t} PROVE ClaimOK(u)'
    BY <1>21, <2>1, <2>2, <2>3, NullsDistinct DEF CallOK, SessOK, ClaimOK, AreaOK, TypeOK, RequestStart, Requestable, Up, NewStati
  <2> QED BY <1>21, <2>4, <2>5, <2>6 DEF CallOK, RequestStart, vmaVars
<1>22. ASSUME NEW t \in Thread, MarkFrame(t) PROVE CallOK'
  BY <1>22, NullsDistinct, BoundsOK, SMTT(30) DEF CallOK, SessOK, ClaimOK, AreaOK, TypeOK, Call, MarkFrame, Up, Ours, Finish, Enter, sessionVars, vmaVars, frameVars
<1>23. ASSUME NEW t \in Thread, MmapRefused(t) PROVE CallOK'
  BY <1>23, NullsDistinct, BoundsOK DEF CallOK, SessOK, ClaimOK, AreaOK, TypeOK, Call, MmapRefused, Ours, Finish, Enter, sessionVars, vmaVars, frameVars
<1>24. ASSUME NEW t \in Thread, Mmap(t) PROVE CallOK'
  BY <1>24, NullsDistinct, BoundsOK DEF CallOK, SessOK, ClaimOK, AreaOK, TypeOK, Call, Mmap, At, Insert, Ours, sessionVars, vmaVars, frameVars
<1>25. ASSUME NEW t \in Thread, MmapFails(t) PROVE CallOK'
  <2> DEFINE s == Ours(t)
  <2>1. call[t] \in Call /\ s \in Session /\ call[t].area \in Vma /\ call[t].pc = "mmap"
    BY <1>25, InHandler DEF MmapFails
  <2> DEFINE c == [call[t] EXCEPT !.pc = "unmap"]
  <2>2. /\ call' = [call EXCEPT ![t] = c]
        /\ c.pc = "unmap" /\ c.sess = s /\ c.page = call[t].page /\ c.area = call[t].area
    BY <1>25, <2>1 DEF MmapFails, At, Call, Ours
  <2> HIDE DEF c
  <2>3. PICK i \in Idx : stati' = [stati EXCEPT ![s][i].src = @ \cup {"NOT_MAPPABLE"}]
    BY <1>25 DEF MmapFails
  <2>4. \A r \in Session \ {s} : stati'[r] = stati[r]
    BY <2>1, <2>3 DEF TypeOK
  <2>5. \A v \in Vma : v # call[t].area => vpages'[v] = vpages[v]
    BY <1>25, <2>1 DEF MmapFails, Insert, TypeOK
  <2>6. ASSUME NEW u \in Thread PROVE SessOK(u)' /\ AreaOK(u)'
    <3>1. SessOK(u)'
      BY <2>1, <2>2, <2>6 DEF CallOK, SessOK, TypeOK
    <3>2. \A x \in Thread : call'[x].area = call[x].area /\ call'[x].sess = call[x].sess
      BY <2>1, <2>2 DEF TypeOK, Ours
    <3>3. call'[t].pc = "unmap" /\ \A x \in Thread \ {t} : call'[x].pc = call[x].pc
      BY <2>1, <2>2 DEF TypeOK
    <3>4. AreaOK(u)'
      BY <1>25, <2>1, <2>5, <2>6, <3>2, <3>3 DEF CallOK, AreaOK, MmapFails
    <3> QED BY <3>1, <3>4
  <2>7. ASSUME NEW u \in Thread PROVE ClaimOK(u)'
    BY <1>25, <2>1, <2>2, <2>4, NullsDistinct, SMTT(30) DEF CallOK, SessOK, ClaimOK, AreaOK, TypeOK, MmapFails, Up, Ours
  <2> QED BY <1>25, <2>1, <2>5, <2>6, <2>7, NullsDistinct DEF CallOK, AreaOK, MmapFails, Ours
<1>26. ASSUME NEW t \in Thread, VmaOpen(t) PROVE CallOK'
  BY <1>26, NullsDistinct, BoundsOK DEF CallOK, SessOK, ClaimOK, AreaOK, TypeOK, Call, VmaOpen, Up, Ours, Finish, Enter, sessionVars, vmaVars, frameVars
<1>27. ASSUME NEW t \in Thread, VmaClose(t) PROVE CallOK'
  BY <1>27, NullsDistinct, BoundsOK DEF CallOK, SessOK, ClaimOK, AreaOK, TypeOK, Call, VmaClose, Up, Ours, Finish, Enter, sessionVars, vmaVars, frameVars
<1>28. ASSUME NEW t \in Thread, Interrupted(t) PROVE CallOK'
  <2>1. CASE call[t].area \in Vma
    BY <1>28, <2>1, NullsDistinct, SMTT(30) DEF CallOK, SessOK, ClaimOK, AreaOK, TypeOK, Interrupted, Finish, Enter, sessionVars
  <2>2. CASE call[t].area \notin Vma
    <3>1. vown' = vown
      BY <1>28, <2>2 DEF Interrupted, TypeOK
    <3> QED BY <1>28, <2>2, <3>1, NullsDistinct DEF CallOK, SessOK, ClaimOK, AreaOK, TypeOK, Interrupted, Finish, Enter, sessionVars
  <2> QED BY <2>1, <2>2
<1>29. ASSUME NEW p \in Page, KernelAlloc(p) PROVE CallOK'
  BY <1>29, NullsDistinct, BoundsOK DEF CallOK, SessOK, ClaimOK, AreaOK, TypeOK, Call, KernelAlloc, sessionVars, vmaVars, frameVars
<1>30. ASSUME NEW p \in Page, KernelFree(p) PROVE CallOK'
  BY <1>30, NullsDistinct, BoundsOK DEF CallOK, SessOK, ClaimOK, AreaOK, TypeOK, Call, KernelFree, sessionVars, vmaVars, frameVars
<1>31. ASSUME NEW p \in Page, MemoryFailure(p) PROVE CallOK'
  BY <1>31, NullsDistinct, BoundsOK DEF CallOK, SessOK, ClaimOK, AreaOK, TypeOK, Call, MemoryFailure, sessionVars, vmaVars, frameVars
<1>32. ASSUME NEW p \in Page, SkipPoisoned(p) PROVE CallOK'
  BY <1>32, NullsDistinct, BoundsOK DEF CallOK, SessOK, ClaimOK, AreaOK, TypeOK, Call, SkipPoisoned, sessionVars, vmaVars, frameVars
<1>33. ASSUME UNCHANGED vars PROVE CallOK'
  BY <1>33 DEF CallOK, SessOK, ClaimOK, AreaOK, vars
<1> QED
  BY <1>1, <1>2, <1>3, <1>4, <1>5, <1>6, <1>7, <1>8, <1>9, <1>10, <1>11, <1>12, <1>13, <1>14, <1>15, <1>16, <1>17, <1>18, <1>19, <1>20, <1>21, <1>22, <1>23, <1>24, <1>25, <1>26, <1>27, <1>28, <1>29, <1>30, <1>31, <1>32, <1>33 DEF Next, Dispatch, Claim, CopyRequest, Continue, Acquire, Release, Kernel

LEMMA InitTypeCall == Init => TypeOK /\ CallOK
<1> SUFFICES ASSUME Init PROVE TypeOK /\ CallOK
  OBVIOUS
<1>1. Idle \in Call
  BY BoundsOK DEF Idle, Call, PCs
<1>2. TypeOK
  BY <1>1, BlanksType, BoundsOK DEF Init, TypeOK, States
<1>3. CallOK
  BY NullsDistinct DEF Init, CallOK, SessOK, ClaimOK, AreaOK, Idle
<1> QED BY <1>2, <1>3

(* Every variable keeps its type.                                          *)
THEOREM TypeCorrect == Spec => []TypeOK
<1>1. Init => TypeOK /\ CallOK
  BY InitTypeCall
<1>2. TypeOK /\ CallOK /\ [Next]_vars => (TypeOK /\ CallOK)'
  BY TypeStep, CallStep
<1> QED BY <1>1, <1>2, PTL DEF Spec

(* The same argument for the locals of the handlers.                       *)
THEOREM CallsCorrect == Spec => []CallOK
<1>1. Init => TypeOK /\ CallOK
  BY InitTypeCall
<1>2. TypeOK /\ CallOK /\ [Next]_vars => (TypeOK /\ CallOK)'
  BY TypeStep, CallStep
<1> QED BY <1>1, <1>2, PTL DEF Spec

-----------------------------------------------------------------------------
(* The array of stati.  For the numbers of requests that fit, the product  *)
(* is not cut off, and the array has room for all of them.                 *)
LEMMA RoomSuffices ==
  ASSUME NEW n \in 0 .. MaxReq
  PROVE  Room(n) = n
<1>1. /\ n \in Nat /\ MaxReq \in Nat /\ n <= MaxReq
      /\ StatusSize \in Nat \ {0} /\ SizeMax \in Nat
  BY BoundsOK
<1> DEFINE size == n * StatusSize
<1>2. \A a, b, c \in Nat : a <= b => a * c <= b * c
  OBVIOUS
<1>3. size \in Nat /\ size <= MaxReq * StatusSize /\ MaxReq * StatusSize \in Nat
  BY <1>1, <1>2
<1>4. size <= SizeMax
  BY <1>1, <1>3, RequestsFit
<1>5. size % (SizeMax + 1) = size
  <2>1. \A a, b \in Nat : a <= b => a % (b + 1) = a
    OBVIOUS
  <2> QED BY <1>1, <1>3, <1>4, <2>1
<1>6. \A a \in Nat, b \in Nat \ {0} : (a * b) \div b = a
  OBVIOUS
<1> QED BY <1>1, <1>5, <1>6 DEF Room

(* No status behind the last request of a session has been written. *)
Inside == \A s \in Session, i \in Idx : stati[s][i] # Blank => i <= num[s]

LEMMA InsideStep == TypeOK /\ CallOK /\ Inside /\ [Next]_vars => Inside'
<1> SUFFICES ASSUME TypeOK, CallOK, Inside, [Next]_vars PROVE Inside'
  OBVIOUS
<1> USE DEF Inside
<1>1. ASSUME UNCHANGED <<stati, num>> PROVE Inside'
  BY <1>1
<1>2. ASSUME NEW s \in Session, NEW n \in 0 .. MaxReq, NewStati(s, n) PROVE Inside'
  BY <1>2 DEF NewStati, Blanks, TypeOK
<1>3. ASSUME NEW t \in Thread, NEW status, Record(t, status),
             call[t].pc \in {"claim", "take"}, call[t].idx <= num[Ours(t)]
      PROVE  Inside'
  <2>1. Ours(t) \in Session
    BY <1>3, InHandler
  <2> QED BY <1>3, <2>1 DEF Record, TypeOK
<1>4. ASSUME NEW t \in Thread, ClaimFails(t) \/ ClaimTake(t) \/ ClaimLost(t)
      PROVE  Inside'
  <2>1. call[t].pc \in {"claim", "take"} /\ call[t].idx <= num[Ours(t)]
    <3>1. CASE ClaimFails(t)
      BY <3>1 DEF ClaimFails, Claiming
    <3>2. CASE ClaimTake(t) \/ ClaimLost(t)
      <4>1. call[t].pc = "take" /\ Ours(t) \in Session
        BY <3>2, InHandler DEF ClaimTake, ClaimLost
      <4>2. call[t].idx <= num[Ours(t)] + 0 /\ num[Ours(t)] \in Nat
        BY <4>1, BoundsOK DEF CallOK, ClaimOK, Ours, TypeOK
      <4> QED BY <4>1, <4>2
    <3> QED BY <1>4, <3>1, <3>2
  <2> QED BY <1>3, <1>4, <2>1 DEF ClaimFails, ClaimTake, ClaimLost
<1>5. ASSUME NEW t \in Thread,
             RequestNothing(t) \/ RequestStart(t) \/ CopyFault(t)
      PROVE  Inside'
  <2>1. Ours(t) \in Session
    BY <1>5, InHandler DEF RequestNothing, RequestStart, Requestable, CopyFault, Claiming
  <2>2. \E n \in 0 .. MaxReq : NewStati(Ours(t), n)
    BY <1>5, BoundsOK DEF RequestNothing, RequestStart, CopyFault, Idx
  <2> QED BY <1>2, <2>1, <2>2
<1>6. ASSUME NEW s \in Session, ReleaseConfigured(s) PROVE Inside'
  BY <1>2, <1>6, BoundsOK DEF ReleaseConfigured
<1>7. ASSUME NEW t \in Thread, MmapFails(t) PROVE Inside'
  <2>1. Ours(t) \in Session
    BY <1>7, InHandler DEF MmapFails
  <2>2. PICK i \in Idx : /\ stati[Ours(t)][i].page # NoPage
                         /\ stati' = [stati EXCEPT ![Ours(t)][i].src = @ \cup {"NOT_MAPPABLE"}]
    BY <1>7 DEF MmapFails, Insertable
  <2>3. stati[Ours(t)][i] # Blank /\ num' = num
    BY <1>7, <2>2 DEF MmapFails, Blank
  <2>4. i <= num[Ours(t)]
    BY <2>1, <2>3
  <2>5. ASSUME NEW s \in Session, NEW k \in Idx, ~(s = Ours(t) /\ k = i)
        PROVE  stati'[s][k] = stati[s][k]
    <3>1. stati[s] \in [Idx -> Status] /\ stati[Ours(t)] \in [Idx -> Status]
          /\ stati \in [Session -> [Idx -> Status]]
      BY <2>1 DEF TypeOK
    <3> QED BY <2>1, <2>2, <2>5, <3>1
  <2> QED BY <2>3, <2>4, <2>5
<1> QED
  BY <1>1, <1>4, <1>5, <1>6, <1>7, ZenonT(60)
     DEF Next, Dispatch, Claim, CopyRequest, Continue, Acquire, Release, Kernel, vars,
         sessionVars, vmaVars, frameVars, Open, CloseFd, ReleaseStart, ReleaseOpen, ReleaseEnd,
         DispatchIoctl, DispatchMmap, DispatchRefused, Interrupted, Fork, Munmap, ClaimCheck,
         RequestDone, UnmapRegion, Return, MarkFrame, MmapRefused, Mmap, VmaOpen, VmaClose,
         KernelAlloc, KernelFree, MemoryFailure, SkipPoisoned

(* handle_request_pages, assemble_vma: if the size of the largest request  *)
(* fits into a size_t, no status is ever written outside of the array, for *)
(* any number of sessions, threads and requests.                           *)
THEOREM WritesInArray == Spec => []StatiInArray
<1>1. Init => TypeOK /\ CallOK /\ Inside
  BY InitTypeCall DEF Init, Inside, Blanks
<1>2. TypeOK /\ CallOK /\ Inside /\ [Next]_vars => (TypeOK /\ CallOK /\ Inside)'
  BY TypeStep, CallStep, InsideStep
<1>3. TypeOK /\ Inside => StatiInArray
  BY RoomSuffices DEF TypeOK, Inside, StatiInArray
<1> QED BY <1>1, <1>2, <1>3, PTL DEF Spec
=============================================================================
