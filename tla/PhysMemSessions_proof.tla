------------------------- MODULE PhysMemSessions_proof -------------------------
(* The sessions of PhysMem: lock, state, number of VMAs and stati of a     *)
(* session agree with the handlers its threads are in, for any number of   *)
(* sessions, threads, frames and VMAs.                                     *)
(*                                                                         *)
(* What SessionAgrees leaves open, and its proof needs, is the life of a   *)
(* session: a slot that is free or being closed has no user, and the task  *)
(* in phys_mem_release is alone with its session.                          *)
EXTENDS PhysMem_proof

Live == {"OPEN", "CONFIGURING", "CONFIGURED"}

LifeOK(s) ==
  /\ state[s] \in Live \cup {"NONE", "CLOSED"}
  /\ state[s] = "NONE" => sem[s] = Nobody
  /\ state[s] = "CLOSED" => sem[s] = Closer
  /\ sem[s] = Closer => Unreferenced(s)
  /\ fd[s] => state[s] \in Live
  /\ \A v \in Vma : vown[v] = s => state[s] \in Live

SessionLife == \A s \in Session : LifeOK(s)

(* The VMAs of a session, and the threads that have made one of them which *)
(* is not counted yet.                                                     *)
Owned(s)     == {v \in Vma : vown[v] = s}
Uncounted(s) == {t \in Thread : /\ call[t].pc \in {"mmap", "unmap", "vma_open"}
                                /\ call[t].sess = s}

Counted(s) == vmas[s] = Cardinality(Owned(s)) - Cardinality(Uncounted(s))

(* The frames claimed before request i, and the offset a thread goes on    *)
(* with: it is their number.                                               *)
Before(s, i) == {j \in 1..i-1 : stati[s][j].page # NoPage}

CursorOK(t) ==
  call[t].pc \in {"claim", "take"} =>
    call[t].off = Cardinality(Before(Ours(t), call[t].idx))

Cursors == \A t \in Thread : CursorOK(t)

SessionInv == /\ TypeOK /\ CallOK /\ SessionLife /\ LockedStates /\ VmaCount
              /\ OffsetsDense /\ Cursors

-----------------------------------------------------------------------------
(* The life of a session and its lock.                                     *)

Claimer(t, s) == call[t].pc \in {"claim", "take"} /\ Ours(t) = s

(* Who has a descriptor, a thread or a VMA of the session keeps it alive.  *)
InUse(s) == state[s] \in Live /\ sem[s] # Closer

LEMMA Users ==
  ASSUME SessionLife, LockedStates, NEW s \in Session,
         fd[s] \/ (\E t \in Thread : Ours(t) = s) \/ (\E v \in Vma : vown[v] = s)
  PROVE  InUse(s)
  BY DEF SessionLife, LifeOK, LockedStates, InUse, Live, Unreferenced

(* A thread goes on without taking or giving back the lock. *)
LEMMA Move ==
  ASSUME TypeOK, SessionLife, LockedStates, NEW t \in Thread, NEW c,
         call' = [call EXCEPT ![t] = c], UNCHANGED <<state, sem, fd>>,
         c.sess \in Session => InUse(c.sess),
         \A s \in Session : Claimer(t, s) <=> c.pc \in {"claim", "take"} /\ c.sess = s,
         \A v \in Vma : vown'[v] \in Session => InUse(vown'[v])
  PROVE  SessionLife' /\ LockedStates'
<1>1. ASSUME NEW u \in Thread PROVE call'[u] = IF u = t THEN c ELSE call[u]
  BY DEF TypeOK
<1>2. ASSUME NEW s \in Session PROVE LifeOK(s)'
  BY <1>1, <1>2 DEF SessionLife, LifeOK, Unreferenced, InUse, Ours
<1>3. LockedStates'
  BY <1>1 DEF LockedStates, InUse, Live, Ours, Claimer
<1> QED BY <1>2, <1>3 DEF SessionLife

(* The thread that may take or holds the lock moves the session on. *)
LEMMA Switch ==
  ASSUME TypeOK, SessionLife, LockedStates, NEW t \in Thread, NEW c, NEW s \in Session,
         NEW st, NEW x,
         Ours(t) = s, sem[s] \in {Nobody, t}, c.sess \in {NoSession, s},
         call' = [call EXCEPT ![t] = c], fd' = fd,
         state' = [state EXCEPT ![s] = st], sem' = [sem EXCEPT ![s] = x],
         \/ st = "CONFIGURING" /\ x = t /\ c.pc \in {"claim", "take"} /\ c.sess = s
         \/ st \in {"OPEN", "CONFIGURED"} /\ x = Nobody /\ c.pc \notin {"claim", "take"},
         \A v \in Vma : vown'[v] \in {vown[v], NoSession}
  PROVE  SessionLife' /\ LockedStates'
<1>1. ASSUME NEW u \in Thread PROVE call'[u] = IF u = t THEN c ELSE call[u]
  BY DEF TypeOK
<1>2. ASSUME NEW r \in Session
      PROVE  /\ state'[r] = IF r = s THEN st ELSE state[r]
             /\ sem'[r] = IF r = s THEN x ELSE sem[r]
  BY DEF TypeOK
<1>3. ASSUME NEW r \in Session PROVE LifeOK(r)'
  BY <1>1, <1>2, <1>3, NullsDistinct, Users
     DEF SessionLife, LifeOK, Unreferenced, InUse, Ours, Live
<1>4. LockedStates'
  BY <1>1, <1>2, NullsDistinct DEF LockedStates, Live, Ours
<1> QED BY <1>3, <1>4 DEF SessionLife

LEMMA LifeStep ==
  ASSUME TypeOK, CallOK, SessionLife, LockedStates, [Next]_vars
  PROVE  SessionLife' /\ LockedStates'
<1> USE NullsDistinct
<1>1. ASSUME UNCHANGED <<state, sem, fd, call, vown>> PROVE SessionLife' /\ LockedStates'
  BY <1>1 DEF SessionLife, LifeOK, LockedStates, Unreferenced, Ours
<1>2. ASSUME NEW s \in Session, Open(s) PROVE SessionLife' /\ LockedStates'
  <2>1. ~InUse(s) /\ sem[s] = Nobody
    BY <1>2 DEF Open, InUse, Live, SessionLife, LifeOK
  <2>2. SessionLife'
    BY <1>2, <2>1 DEF Open, SessionLife, LifeOK, Unreferenced, TypeOK, Live, Ours, vmaVars
  <2>3. LockedStates'
    BY <1>2, <2>1 DEF Open, LockedStates, TypeOK, Live, Ours
  <2> QED BY <2>2, <2>3
<1>3. ASSUME NEW s \in Session, CloseFd(s) PROVE SessionLife' /\ LockedStates'
  BY <1>3 DEF CloseFd, SessionLife, LifeOK, LockedStates, Unreferenced, TypeOK, Ours, vmaVars
<1>4. ASSUME NEW s \in Session, ReleaseStart(s) PROVE SessionLife' /\ LockedStates'
  <2>1. \A t \in Thread : Ours(t) # s
    BY <1>4 DEF ReleaseStart, Unreferenced
  <2>2. SessionLife'
    BY <1>4 DEF ReleaseStart, SessionLife, LifeOK, Unreferenced, Up, TypeOK, Live, Ours, vmaVars
  <2>3. LockedStates'
    BY <1>4, <2>1 DEF ReleaseStart, LockedStates, Up, TypeOK, Ours
  <2> QED BY <2>2, <2>3
<1>5. ASSUME NEW s \in Session, ReleaseConfigured(s) \/ ReleaseOpen(s) \/ ReleaseEnd(s)
      PROVE  SessionLife' /\ LockedStates'
  <2>1. Unreferenced(s) /\ sem[s] = Closer
    BY <1>5 DEF ReleaseConfigured, ReleaseOpen, ReleaseEnd, SessionLife, LifeOK
  <2>2. \/ state[s] = "CONFIGURED" /\ state' = [state EXCEPT ![s] = "OPEN"] /\ sem' = sem
        \/ state[s] = "OPEN" /\ state' = [state EXCEPT ![s] = "CLOSED"] /\ sem' = sem
        \/ /\ state[s] = "CLOSED" /\ state' = [state EXCEPT ![s] = "NONE"]
           /\ sem' = [sem EXCEPT ![s] = Nobody]
    BY <1>5 DEF ReleaseConfigured, ReleaseOpen, ReleaseEnd
  <2>3. UNCHANGED <<fd, call, vown>>
    BY <1>5 DEF ReleaseConfigured, ReleaseOpen, ReleaseEnd, vmaVars
  <2>4. SessionLife'
    BY <2>1, <2>2, <2>3 DEF SessionLife, LifeOK, Unreferenced, TypeOK, Live, Ours
  <2>5. LockedStates'
    BY <2>1, <2>2, <2>3 DEF LockedStates, Unreferenced, TypeOK, Live, Ours
  <2> QED BY <2>4, <2>5
<1>6. \A v \in Vma : vown[v] \in Session => InUse(vown[v])
  BY Users
<1>7. ASSUME NEW t \in Thread, NEW pc, NEW r, NEW p, NEW v, Enter(t, pc, r, p, v),
             UNCHANGED <<state, sem, fd>>,
             call[t].pc \notin {"claim", "take"}, pc \notin {"claim", "take"},
             r \in Session => InUse(r),
             \A w \in Vma : vown'[w] \in Session => InUse(vown'[w])
      PROVE  SessionLife' /\ LockedStates'
  <2> DEFINE c == [pc |-> pc, sess |-> r, idx |-> 0, off |-> 0, page |-> p, area |-> v]
  <2>1. call' = [call EXCEPT ![t] = c] /\ c.sess = r /\ c.pc = pc
    BY <1>7 DEF Enter
  <2> HIDE DEF c
  <2>2. \A s \in Session : Claimer(t, s) <=> c.pc \in {"claim", "take"} /\ c.sess = s
    BY <1>7, <2>1 DEF Claimer
  <2> QED BY <1>7, <2>1, <2>2, Move
<1>8. ASSUME NEW t \in Thread, Dispatch(t) PROVE SessionLife' /\ LockedStates'
  <2>1. ASSUME NEW s \in Session, DispatchIoctl(t, s) \/ DispatchRefused(t, s)
        PROVE  SessionLife' /\ LockedStates'
    <3>1. InUse(s)
      BY <2>1, Users DEF DispatchIoctl, DispatchRefused
    <3> QED BY <1>6, <1>7, <2>1, <3>1 DEF DispatchIoctl, DispatchRefused, sessionVars, vmaVars
  <2>2. ASSUME NEW s \in Session, NEW v \in Vma, DispatchMmap(t, s, v)
        PROVE  SessionLife' /\ LockedStates'
    <3>1. InUse(s)
      BY <2>2, Users DEF DispatchMmap
    <3>2. \A w \in Vma : vown'[w] \in Session => InUse(vown'[w])
      BY <1>6, <2>2, <3>1 DEF DispatchMmap, TypeOK
    <3> QED BY <1>7, <2>2, <3>1, <3>2 DEF DispatchMmap, sessionVars
  <2>3. ASSUME NEW v \in Vma, NEW w \in Vma, Fork(t, v, w) PROVE SessionLife' /\ LockedStates'
    <3>1. \A x \in Vma : vown'[x] \in Session => InUse(vown'[x])
      BY <1>6, <2>3 DEF Fork, TypeOK
    <3> QED BY <1>6, <1>7, <2>3, <3>1 DEF Fork, sessionVars
  <2>4. ASSUME NEW v \in Vma, Munmap(t, v) PROVE SessionLife' /\ LockedStates'
    BY <1>6, <1>7, <2>4 DEF Munmap, sessionVars
  <2> QED BY <1>8, <2>1, <2>2, <2>3, <2>4 DEF Dispatch
<1>9. ASSUME NEW t \in Thread, Return(t) \/ Interrupted(t) \/ MarkFrame(t) \/ MmapRefused(t)
                               \/ UnmapRegion(t) \/ VmaOpen(t)
      PROVE  SessionLife' /\ LockedStates'
  <2>1. /\ call[t].pc \notin {"claim", "take"} /\ UNCHANGED <<state, sem, fd>>
        /\ Finish(t, "idle") \/ Finish(t, "EINVAL")
    BY <1>9 DEF Return, Interrupted, MarkFrame, MmapRefused, UnmapRegion, VmaOpen, sessionVars
  <2>2. \A w \in Vma : vown'[w] \in {vown[w], NoSession}
    BY <1>9, InHandler
       DEF Return, Interrupted, MarkFrame, MmapRefused, UnmapRegion, VmaOpen, TypeOK, vmaVars
  <2>3. \A w \in Vma : vown'[w] \in Session => InUse(vown'[w])
    BY <1>6, <2>2
  <2> QED BY <1>7, <2>1, <2>3 DEF Finish
<1>10. ASSUME NEW t \in Thread, NEW c, call' = [call EXCEPT ![t] = c], c.sess = Ours(t),
              call[t].pc \in {"claim", "take"} <=> c.pc \in {"claim", "take"},
              Ours(t) \in Session, UNCHANGED <<state, sem, fd, vown>>
       PROVE  SessionLife' /\ LockedStates'
  <2>1. InUse(Ours(t))
    BY <1>10, Users
  <2> QED BY <1>6, <1>10, <2>1, Move DEF Claimer
<1>11. ASSUME NEW t \in Thread, Mmap(t) \/ MmapFails(t) PROVE SessionLife' /\ LockedStates'
  <2>1. PICK pc \in {"vma_open", "unmap"} : At(t, pc)
    BY <1>11 DEF Mmap, MmapFails
  <2>2. call[t] \in Call /\ Ours(t) \in Session /\ call[t].pc = "mmap"
    BY <1>11, InHandler DEF Mmap, MmapFails
  <2>3. [call[t] EXCEPT !.pc = pc].sess = Ours(t) /\ [call[t] EXCEPT !.pc = pc].pc = pc
    BY <2>2 DEF Call, Ours
  <2>4. UNCHANGED <<state, sem, fd, vown>>
    BY <1>11 DEF Mmap, MmapFails, sessionVars
  <2> QED BY <1>10, <2>1, <2>2, <2>3, <2>4 DEF At
<1>12. ASSUME NEW t \in Thread,
              ClaimFails(t) \/ (\E p \in Page : ClaimCheck(t, p)) \/ ClaimTake(t) \/ ClaimLost(t)
       PROVE  SessionLife' /\ LockedStates'
  <2>1. /\ call[t].pc \in {"claim", "take"} /\ UNCHANGED <<state, sem, fd, vown>>
        /\ \/ \E off : NextRequest(t, off)
           \/ \E p \in Page : call' = [call EXCEPT ![t] = [@ EXCEPT !.pc = "take", !.page = p]]
    BY <1>12 DEF ClaimFails, ClaimCheck, ClaimTake, ClaimLost, Claiming, Record, sessionVars, vmaVars
  <2>2. call[t] \in Call /\ Ours(t) \in Session
    BY <2>1, InHandler
  <2>3. ASSUME NEW off, NextRequest(t, off) PROVE SessionLife' /\ LockedStates'
    <3> DEFINE c == [call[t] EXCEPT !.pc = "claim", !.idx = call[t].idx + 1,
                                    !.page = NoPage, !.off = off]
    <3>1. c.sess = Ours(t) /\ c.pc = "claim" /\ call' = [call EXCEPT ![t] = c]
      BY <2>2, <2>3 DEF Call, Ours, NextRequest
    <3> HIDE DEF c
    <3> QED BY <1>10, <2>1, <2>2, <3>1
  <2>4. ASSUME NEW p \in Page,
               call' = [call EXCEPT ![t] = [call[t] EXCEPT !.pc = "take", !.page = p]]
        PROVE  SessionLife' /\ LockedStates'
    <3> DEFINE c == [call[t] EXCEPT !.pc = "take", !.page = p]
    <3>1. c.sess = Ours(t) /\ c.pc = "take" /\ call' = [call EXCEPT ![t] = c]
      BY <2>2, <2>4 DEF Call, Ours
    <3> HIDE DEF c
    <3> QED BY <1>10, <2>1, <2>2, <3>1
  <2> QED BY <2>1, <2>3, <2>4
<1>13. ASSUME NEW t \in Thread, RequestNothing(t) PROVE SessionLife' /\ LockedStates'
  <2>1. Ours(t) \in Session /\ sem[Ours(t)] = Nobody
    BY <1>13, InHandler DEF RequestNothing, Requestable, Up
  <2>2. sem' = [sem EXCEPT ![Ours(t)] = Nobody]
    BY <1>13, <2>1 DEF RequestNothing, TypeOK
  <2>3. UNCHANGED <<fd, vown>> /\ Finish(t, "idle")
        /\ state' = [state EXCEPT ![Ours(t)] = "OPEN"]
    BY <1>13 DEF RequestNothing, vmaVars
  <2> QED BY <2>1, <2>2, <2>3, Switch DEF Finish, Enter
<1>14. ASSUME NEW t \in Thread, RequestStart(t) PROVE SessionLife' /\ LockedStates'
  <2>1. Ours(t) \in Session /\ sem[Ours(t)] = Nobody /\ call[t] \in Call
    BY <1>14, InHandler DEF RequestStart, Requestable, Up
  <2> DEFINE c == [call[t] EXCEPT !.pc = "claim", !.idx = 1, !.off = 0]
  <2>2. c.sess = Ours(t) /\ c.pc = "claim" /\ call' = [call EXCEPT ![t] = c]
    BY <1>14, <2>1 DEF RequestStart, Call, Ours
  <2> HIDE DEF c
  <2> QED BY <1>14, <2>1, <2>2, Switch DEF RequestStart, vmaVars
<1>15. ASSUME NEW t \in Thread, CopyFault(t) \/ RequestDone(t) PROVE SessionLife' /\ LockedStates'
  <2>1. Ours(t) \in Session /\ sem[Ours(t)] = t
    BY <1>15, InHandler DEF CopyFault, RequestDone, Claiming, CallOK, ClaimOK, Ours
  <2>2. /\ UNCHANGED <<fd, vown>> /\ Finish(t, "idle")
        /\ \E st \in {"OPEN", "CONFIGURED"} : state' = [state EXCEPT ![Ours(t)] = st]
        /\ sem' = [sem EXCEPT ![Ours(t)] = Nobody]
    BY <1>15 DEF CopyFault, RequestDone, vmaVars
  <2> QED BY <2>1, <2>2, Switch DEF Finish, Enter
<1>16. ASSUME NEW t \in Thread, VmaClose(t) PROVE SessionLife' /\ LockedStates'
  <2> DEFINE s  == Ours(t)
             st == IF vmas[s] = 1 THEN "CONFIGURED" ELSE state[s]
  <2>1. s \in Session /\ sem[s] = Nobody /\ call[t].area \in Vma
    BY <1>16, InHandler DEF VmaClose, Up
  <2>2. st \in {"OPEN", "CONFIGURED"}
    BY <2>1 DEF LockedStates
  <2>3. sem' = [sem EXCEPT ![s] = Nobody] /\ state' = [state EXCEPT ![s] = st]
    BY <1>16, <2>1 DEF VmaClose, TypeOK
  <2>4. \A w \in Vma : vown'[w] \in {vown[w], NoSession}
    BY <1>16, <2>1 DEF VmaClose, TypeOK
  <2> HIDE DEF st
  <2>5. Finish(t, "idle") /\ fd' = fd
    BY <1>16 DEF VmaClose
  <2> HIDE DEF s, st
  <2> QED BY <2>1, <2>2, <2>3, <2>4, <2>5, Switch DEF Finish, Enter, s
<1>17. ASSUME NEW p \in Page, Kernel(p) PROVE SessionLife' /\ LockedStates'
  BY <1>1, <1>17
     DEF Kernel, KernelAlloc, KernelFree, MemoryFailure, SkipPoisoned, sessionVars, vmaVars
<1> QED
  BY <1>1, <1>2, <1>3, <1>4, <1>5, <1>8, <1>9, <1>11, <1>12, <1>13, <1>14, <1>15, <1>16, <1>17
     DEF Next, Claim, CopyRequest, Continue, Acquire, Release, vars

-----------------------------------------------------------------------------
(* The number of VMAs.                                                     *)

(* Two sets that differ in one element at most. *)
LEMMA CountOne ==
  ASSUME NEW A, NEW B, NEW x, IsFiniteSet(A), A \ {x} = B \ {x}
  PROVE  /\ IsFiniteSet(B) /\ Cardinality(A) \in Nat /\ Cardinality(B) \in Nat
         /\ Cardinality(B) = Cardinality(A) - (IF x \in A THEN 1 ELSE 0)
                                            + (IF x \in B THEN 1 ELSE 0)
<1> DEFINE C == A \ {x}
<1>1. IsFiniteSet(C) /\ Cardinality(A) \in Nat
      /\ Cardinality(C) = Cardinality(A) - (IF x \in A THEN 1 ELSE 0)
  BY FS_RemoveElement, FS_CardinalityType
<1>2. x \notin C /\ (B = C \/ B = C \cup {x}) /\ (x \in B <=> B = C \cup {x})
  OBVIOUS
<1> HIDE DEF C
<1>3. Cardinality(C \cup {x}) = Cardinality(C) + 1 /\ IsFiniteSet(C \cup {x})
  BY <1>1, <1>2, FS_AddElement
<1>4. Cardinality(C) \in Nat
  BY <1>1, FS_CardinalityType
<1>5. CASE x \in B
  BY <1>1, <1>2, <1>3, <1>4, <1>5
<1>6. CASE x \notin B
  BY <1>1, <1>2, <1>4, <1>6
<1> QED BY <1>5, <1>6

LEMMA OwnedFinite ==
  ASSUME NEW s PROVE IsFiniteSet(Owned(s)) /\ IsFiniteSet(Uncounted(s))
<1>1. Owned(s) \subseteq Vma /\ Uncounted(s) \subseteq Thread
  BY DEF Owned, Uncounted
<1> QED BY <1>1, SetsFinite, FS_Subset

(* A VMA that changes hands, a thread that goes on. *)
OwnedBy(x, s) == x = s

LEMMA OwnOne ==
  ASSUME TypeOK, NEW v \in Vma, NEW x, vown' = [vown EXCEPT ![v] = x], NEW s \in Session
  PROVE  /\ Cardinality(Owned(s)) \in Nat /\ Cardinality(Owned(s)') \in Nat
         /\ Cardinality(Owned(s)') = Cardinality(Owned(s))
                                       - (IF OwnedBy(vown[v], s) THEN 1 ELSE 0)
                                       + (IF OwnedBy(x, s) THEN 1 ELSE 0)
<1>1. Owned(s) \ {v} = Owned(s)' \ {v}
  BY DEF Owned, TypeOK
<1>2. (v \in Owned(s) <=> OwnedBy(vown[v], s)) /\ (v \in Owned(s)' <=> OwnedBy(x, s))
  BY DEF Owned, OwnedBy, TypeOK
<1> QED BY <1>1, <1>2, OwnedFinite, CountOne

UncountedIn(c, s) == c.pc \in {"mmap", "unmap", "vma_open"} /\ c.sess = s

LEMMA CallOne ==
  ASSUME TypeOK, NEW t \in Thread, NEW c, call' = [call EXCEPT ![t] = c], NEW s \in Session
  PROVE  /\ Cardinality(Uncounted(s)) \in Nat /\ Cardinality(Uncounted(s)') \in Nat
         /\ Cardinality(Uncounted(s)') = Cardinality(Uncounted(s))
                                           - (IF UncountedIn(call[t], s) THEN 1 ELSE 0)
                                           + (IF UncountedIn(c, s) THEN 1 ELSE 0)
<1>1. Uncounted(s) \ {t} = Uncounted(s)' \ {t}
  BY DEF Uncounted, TypeOK
<1>2. (t \in Uncounted(s) <=> UncountedIn(call[t], s))
      /\ (t \in Uncounted(s)' <=> UncountedIn(c, s))
  BY DEF Uncounted, UncountedIn, TypeOK
<1> QED BY <1>1, <1>2, OwnedFinite, CountOne

(* A thread that goes on without a VMA changing hands, and with one. *)
LEMMA KeepCount ==
  ASSUME TypeOK, VmaCount, NEW t \in Thread, NEW c, call' = [call EXCEPT ![t] = c],
         UNCHANGED <<vmas, vown>>,
         \A s \in Session : UncountedIn(call[t], s) <=> UncountedIn(c, s)
  PROVE  VmaCount'
<1> SUFFICES ASSUME NEW s \in Session PROVE Counted(s)'
  BY DEF VmaCount, Counted, Owned, Uncounted
<1>1. Counted(s)
  BY DEF VmaCount, Counted, Owned, Uncounted
<1>2. Owned(s)' = Owned(s)
  BY DEF Owned
<1>3. Cardinality(Uncounted(s)') = Cardinality(Uncounted(s))
  <2>1. UncountedIn(call[t], s) <=> UncountedIn(c, s)
    OBVIOUS
  <2>2. /\ Cardinality(Uncounted(s)) \in Nat /\ Cardinality(Uncounted(s)') \in Nat
        /\ Cardinality(Uncounted(s)') = Cardinality(Uncounted(s))
                                          - (IF UncountedIn(call[t], s) THEN 1 ELSE 0)
                                          + (IF UncountedIn(c, s) THEN 1 ELSE 0)
    BY CallOne, Zenon
  <2> QED BY <2>1, <2>2
<1> QED BY <1>1, <1>2, <1>3 DEF Counted

(* What such a step has to do to the counter of session s. *)
Balance(s, from, to, c, d) ==
  vmas'[s] = vmas[s] - (IF OwnedBy(from, s) THEN 1 ELSE 0) + (IF OwnedBy(to, s) THEN 1 ELSE 0)
               + (IF UncountedIn(c, s) THEN 1 ELSE 0) - (IF UncountedIn(d, s) THEN 1 ELSE 0)

LEMMA MoveCount ==
  ASSUME TypeOK, VmaCount, NEW t \in Thread, NEW c, call' = [call EXCEPT ![t] = c],
         NEW v \in Vma, NEW x, vown' = [vown EXCEPT ![v] = x],
         \A s \in Session : Balance(s, vown[v], x, call[t], c)
  PROVE  VmaCount'
<1> SUFFICES ASSUME NEW s \in Session PROVE Counted(s)'
  BY DEF VmaCount, Counted, Owned, Uncounted
<1>1. Counted(s) /\ vmas[s] \in Int
  BY DEF VmaCount, Counted, Owned, Uncounted, TypeOK
<1>2. vmas'[s] = vmas[s] - (IF OwnedBy(vown[v], s) THEN 1 ELSE 0) + (IF OwnedBy(x, s) THEN 1 ELSE 0)
                   + (IF UncountedIn(call[t], s) THEN 1 ELSE 0)
                   - (IF UncountedIn(c, s) THEN 1 ELSE 0)
  BY DEF Balance
<1>3. /\ Cardinality(Owned(s)) \in Nat /\ Cardinality(Owned(s)') \in Nat
      /\ Cardinality(Owned(s)') = Cardinality(Owned(s)) - (IF OwnedBy(vown[v], s) THEN 1 ELSE 0)
                                                       + (IF OwnedBy(x, s) THEN 1 ELSE 0)
  BY OwnOne
<1>4. /\ Cardinality(Uncounted(s)) \in Nat /\ Cardinality(Uncounted(s)') \in Nat
      /\ Cardinality(Uncounted(s)') = Cardinality(Uncounted(s))
                                        - (IF UncountedIn(call[t], s) THEN 1 ELSE 0)
                                        + (IF UncountedIn(c, s) THEN 1 ELSE 0)
  BY CallOne
<1> QED BY <1>1, <1>2, <1>3, <1>4 DEF Counted

(* Nobody but the thread that made it is at work on an uncounted VMA. *)
LEMMA AtWork ==
  ASSUME TypeOK, CallOK, NEW t \in Thread,
         call[t].pc \in {"mmap", "unmap", "vma_open", "vma_close"}
  PROVE  call[t].area \in Vma /\ vown[call[t].area] = Ours(t) /\ Ours(t) \in Session
  BY InHandler DEF CallOK, AreaOK, Ours

Entered(pc, s, p, v) ==
  [pc |-> pc, sess |-> s, idx |-> 0, off |-> 0, page |-> p, area |-> v]

LEMMA CountStep ==
  ASSUME TypeOK, CallOK, SessionLife, LockedStates, VmaCount, [Next]_vars
  PROVE  VmaCount'
<1> USE NullsDistinct
<1>1. ASSUME UNCHANGED <<vmas, call, vown>> PROVE VmaCount'
  BY <1>1 DEF VmaCount
<1>2. ASSUME NEW s \in Session, ReleaseOpen(s) PROVE VmaCount'
  <2>1. Unreferenced(s) /\ UNCHANGED <<call, vown>> /\ vmas' = [vmas EXCEPT ![s] = 0]
    BY <1>2 DEF ReleaseOpen, SessionLife, LifeOK, vmaVars
  <2>2. Owned(s) = {} /\ Uncounted(s) = {}
    BY <2>1 DEF Unreferenced, Owned, Uncounted, Ours
  <2>3. \A r \in Session : Owned(r)' = Owned(r) /\ Uncounted(r)' = Uncounted(r)
    BY <2>1 DEF Owned, Uncounted
  <2>4. ASSUME NEW r \in Session PROVE Counted(r)'
    <3>1. CASE r = s
      <4>1. vmas'[r] = 0 /\ Cardinality(Owned(r)') = 0 /\ Cardinality(Uncounted(r)') = 0
        BY <2>1, <2>2, <2>3, <3>1, FS_EmptySet DEF TypeOK
      <4> QED BY <4>1 DEF Counted
    <3>2. CASE r # s
      BY <2>1, <2>3, <3>2 DEF Counted, VmaCount, Owned, Uncounted, TypeOK
    <3> QED BY <3>1, <3>2
  <2> QED BY <2>4 DEF VmaCount, Counted, Owned, Uncounted
<1>3. ASSUME NEW t \in Thread, NEW pc, NEW s, NEW p, NEW v, Enter(t, pc, s, p, v),
             UNCHANGED <<vmas, vown>>,
             call[t].pc \notin {"mmap", "unmap", "vma_open"},
             pc \notin {"mmap", "unmap", "vma_open"}
      PROVE  VmaCount'
  <2> DEFINE c == [pc |-> pc, sess |-> s, idx |-> 0, off |-> 0, page |-> p, area |-> v]
  <2>1. call' = [call EXCEPT ![t] = c] /\ c.pc = pc
    BY <1>3 DEF Enter
  <2> HIDE DEF c
  <2>2. \A r \in Session : UncountedIn(call[t], r) <=> UncountedIn(c, r)
    BY <1>3, <2>1 DEF UncountedIn
  <2> QED BY <1>3, <2>1, <2>2, KeepCount
<1>4. ASSUME NEW t \in Thread, NEW pc, NEW r, NEW p, NEW w, Enter(t, pc, r, p, w),
             NEW v \in Vma, NEW x, vown' = [vown EXCEPT ![v] = x],
             \A s \in Session : Balance(s, vown[v], x, call[t], Entered(pc, r, p, w))
      PROVE  VmaCount'
  <2>1. call' = [call EXCEPT ![t] = Entered(pc, r, p, w)]
    BY <1>4 DEF Enter, Entered
  <2> QED BY <1>4, <2>1, MoveCount
<1>5. ASSUME NEW t \in Thread, Dispatch(t) PROVE VmaCount'
  <2>1. ASSUME NEW s \in Session, DispatchIoctl(t, s) \/ DispatchRefused(t, s) PROVE VmaCount'
    BY <1>3, <2>1 DEF DispatchIoctl, DispatchRefused, sessionVars, vmaVars
  <2>2. ASSUME NEW s \in Session, NEW v \in Vma, DispatchMmap(t, s, v) PROVE VmaCount'
    <3>1. /\ vown[v] = NoSession /\ vown' = [vown EXCEPT ![v] = s] /\ vmas' = vmas
          /\ call[t].pc = "idle" /\ Enter(t, "mmap", s, NoPage, v)
      BY <2>2 DEF DispatchMmap, sessionVars
    <3>2. \A r \in Session : Balance(r, vown[v], s, call[t],
                                       Entered("mmap", s, NoPage, v))
      BY <3>1 DEF Balance, Entered, OwnedBy, UncountedIn, TypeOK
    <3> QED BY <1>4, <3>1, <3>2
  <2>3. ASSUME NEW v \in Vma, NEW w \in Vma, Fork(t, v, w) PROVE VmaCount'
    <3> DEFINE s == vown[v]
    <3>1. /\ vown[w] = NoSession /\ vown' = [vown EXCEPT ![w] = s] /\ vmas' = vmas
          /\ call[t].pc = "idle" /\ Enter(t, "vma_open", s, NoPage, w)
      BY <2>3 DEF Fork, sessionVars
    <3> HIDE DEF s
    <3>2. \A r \in Session : Balance(r, vown[w], s, call[t],
                                       Entered("vma_open", s, NoPage, w))
      BY <3>1 DEF Balance, Entered, OwnedBy, UncountedIn, TypeOK
    <3> QED BY <1>4, <3>1, <3>2
  <2>4. ASSUME NEW v \in Vma, Munmap(t, v) PROVE VmaCount'
    BY <1>3, <2>4 DEF Munmap, sessionVars
  <2> QED BY <1>5, <2>1, <2>2, <2>3, <2>4 DEF Dispatch
<1>6. ASSUME NEW t \in Thread, NEW v, v = call[t].area,
             call[t].pc \in {"mmap", "unmap", "vma_open"}, vmas' = vmas,
             vown' = [vown EXCEPT ![v] = NoSession], Finish(t, "idle")
      PROVE  VmaCount'
  <2>1. v \in Vma /\ vown[v] = call[t].sess
    BY <1>6, AtWork DEF Ours
  <2>2. \A r \in Session :
          /\ OwnedBy(vown[v], r) <=> UncountedIn(call[t], r)
          /\ ~OwnedBy(NoSession, r) /\ ~UncountedIn(Entered("idle", NoSession, NoPage, NoVma), r)
          /\ vmas'[r] = vmas[r] /\ vmas[r] \in Int
    BY <1>6, <2>1 DEF Entered, OwnedBy, UncountedIn, TypeOK
  <2>3. \A r \in Session : Balance(r, vown[v], NoSession, call[t],
                                       Entered("idle", NoSession, NoPage, NoVma))
    BY <2>2 DEF Balance
  <2> QED BY <1>4, <1>6, <2>1, <2>3 DEF Finish
<1>7. ASSUME NEW t \in Thread, MmapRefused(t) \/ UnmapRegion(t) PROVE VmaCount'
  BY <1>6, <1>7 DEF MmapRefused, UnmapRegion, sessionVars
<1>8. ASSUME NEW t \in Thread, Interrupted(t) PROVE VmaCount'
  <2>1. CASE call[t].pc = "mmap"
    <3>1. call[t].area \in Vma
      BY <2>1, AtWork
    <3>2. vown' = [vown EXCEPT ![call[t].area] = NoSession]
      BY <1>8, <3>1 DEF Interrupted, TypeOK
    <3> QED BY <1>6, <1>8, <2>1, <3>2 DEF Interrupted, sessionVars
  <2>2. CASE call[t].pc # "mmap"
    <3>1. call[t].area \notin Vma /\ call[t].pc \in {"request", "mark"}
      BY <1>8, <2>2 DEF Interrupted, CallOK, AreaOK
    <3>2. vown' = vown
      BY <1>8, <3>1 DEF Interrupted, TypeOK
    <3> QED BY <1>3, <1>8, <3>1, <3>2 DEF Interrupted, Finish, sessionVars
  <2> QED BY <2>1, <2>2
<1>9. ASSUME NEW t \in Thread, VmaOpen(t) PROVE VmaCount'
  <2> DEFINE s == Ours(t)
             v == call[t].area
  <2>1. v \in Vma /\ vown[v] = s /\ s \in Session /\ s = call[t].sess
    BY <1>9, AtWork DEF VmaOpen, Ours
  <2>2. vown' = [vown EXCEPT ![v] = s] /\ vmas' = [vmas EXCEPT ![s] = vmas[s] + 1]
        /\ call[t].pc = "vma_open" /\ Finish(t, "idle")
    BY <1>9, <2>1 DEF VmaOpen, TypeOK, vmaVars
  <2> HIDE DEF s, v
  <2>3. \A r \in Session : Balance(r, vown[v], s, call[t],
                                       Entered("idle", NoSession, NoPage, NoVma))
    BY <2>1, <2>2 DEF Balance, Entered, OwnedBy, UncountedIn, TypeOK
  <2> QED BY <1>4, <2>1, <2>2, <2>3 DEF Finish
<1>10. ASSUME NEW t \in Thread, VmaClose(t) PROVE VmaCount'
  <2> DEFINE s == Ours(t)
             v == call[t].area
  <2>1. v \in Vma /\ vown[v] = s /\ s \in Session /\ s = call[t].sess
    BY <1>10, AtWork DEF VmaClose, Ours
  <2>2. vown' = [vown EXCEPT ![v] = NoSession] /\ vmas' = [vmas EXCEPT ![s] = vmas[s] - 1]
        /\ call[t].pc = "vma_close" /\ Finish(t, "idle")
    BY <1>10 DEF VmaClose
  <2> HIDE DEF s, v
  <2>3. \A r \in Session : Balance(r, vown[v], NoSession, call[t],
                                       Entered("idle", NoSession, NoPage, NoVma))
    BY <2>1, <2>2 DEF Balance, Entered, OwnedBy, UncountedIn, TypeOK
  <2> QED BY <1>4, <2>1, <2>2, <2>3 DEF Finish
<1>11. ASSUME NEW t \in Thread, Return(t) \/ RequestNothing(t) \/ MarkFrame(t)
                                \/ CopyFault(t) \/ RequestDone(t)
       PROVE  VmaCount'
  <2>1. /\ call[t].pc \notin {"mmap", "unmap", "vma_open"} /\ UNCHANGED <<vmas, vown>>
        /\ Finish(t, "idle") \/ Finish(t, "EINVAL")
    BY <1>11 DEF Return, RequestNothing, Requestable, MarkFrame, CopyFault, Claiming, RequestDone,
         sessionVars, vmaVars
  <2> QED BY <1>3, <2>1 DEF Finish
<1>12. ASSUME NEW t \in Thread, NEW c, call' = [call EXCEPT ![t] = c], c.sess = Ours(t),
              call[t].pc \in {"mmap", "unmap", "vma_open"} <=>
                c.pc \in {"mmap", "unmap", "vma_open"},
              UNCHANGED <<vmas, vown>>
       PROVE  VmaCount'
  <2>1. \A r \in Session : UncountedIn(call[t], r) <=> UncountedIn(c, r)
    BY <1>12 DEF UncountedIn, Ours
  <2> QED BY <1>12, <2>1, KeepCount
<1>13. ASSUME NEW t \in Thread, Mmap(t) \/ MmapFails(t) PROVE VmaCount'
  <2>1. PICK pc \in {"vma_open", "unmap"} : At(t, pc)
    BY <1>13 DEF Mmap, MmapFails
  <2>2. call[t] \in Call /\ call[t].pc = "mmap"
    BY <1>13, InHandler DEF Mmap, MmapFails
  <2>3. [call[t] EXCEPT !.pc = pc].sess = Ours(t) /\ [call[t] EXCEPT !.pc = pc].pc = pc
    BY <2>2 DEF Call, Ours
  <2>4. UNCHANGED <<vmas, vown>>
    BY <1>13 DEF Mmap, MmapFails, sessionVars
  <2> QED BY <1>12, <2>1, <2>2, <2>3, <2>4 DEF At
<1>14. ASSUME NEW t \in Thread, \/ ClaimFails(t) \/ (\E p \in Page : ClaimCheck(t, p))
                               \/ ClaimTake(t) \/ ClaimLost(t) \/ RequestStart(t)
       PROVE  VmaCount'
  <2>1. /\ call[t].pc \in {"request", "claim", "take"} /\ UNCHANGED <<vmas, vown>>
        /\ \/ \E off : NextRequest(t, off)
           \/ \E p \in Page : call' = [call EXCEPT ![t] = [@ EXCEPT !.pc = "take", !.page = p]]
           \/ call' = [call EXCEPT ![t] = [@ EXCEPT !.pc = "claim", !.idx = 1, !.off = 0]]
    BY <1>14 DEF ClaimFails, ClaimCheck, ClaimTake, ClaimLost, Claiming, Record, RequestStart,
         Requestable, sessionVars, vmaVars
  <2>2. call[t] \in Call
    BY DEF TypeOK
  <2>3. PICK c : call' = [call EXCEPT ![t] = c] /\ c.sess = Ours(t) /\ c.pc \in {"claim", "take"}
    <3> DEFINE c1(off) == [call[t] EXCEPT !.pc = "claim", !.idx = call[t].idx + 1,
                                          !.page = NoPage, !.off = off]
               c2(p) == [call[t] EXCEPT !.pc = "take", !.page = p]
               c3 == [call[t] EXCEPT !.pc = "claim", !.idx = 1, !.off = 0]
    <3>1. \A off, p : /\ c1(off).sess = Ours(t) /\ c1(off).pc = "claim"
                      /\ c2(p).sess = Ours(t) /\ c2(p).pc = "take"
                      /\ c3.sess = Ours(t) /\ c3.pc = "claim"
      BY <2>2 DEF Call, Ours
    <3>2. \/ \E off : call' = [call EXCEPT ![t] = c1(off)]
          \/ \E p \in Page : call' = [call EXCEPT ![t] = c2(p)]
          \/ call' = [call EXCEPT ![t] = c3]
      BY <2>1 DEF NextRequest
    <3> HIDE DEF c1, c2, c3
    <3> QED BY <3>1, <3>2
  <2> QED BY <1>12, <2>1, <2>3
<1>15. ASSUME NEW s \in Session, \/ Open(s) \/ CloseFd(s) \/ ReleaseStart(s)
                                \/ ReleaseConfigured(s) \/ ReleaseEnd(s)
       PROVE  VmaCount'
  BY <1>1, <1>15 DEF Open, CloseFd, ReleaseStart, ReleaseConfigured, ReleaseEnd, vmaVars
<1>16. ASSUME NEW p \in Page, Kernel(p) PROVE VmaCount'
  BY <1>1, <1>16
     DEF Kernel, KernelAlloc, KernelFree, MemoryFailure, SkipPoisoned, sessionVars, vmaVars
<1> QED
  BY <1>1, <1>2, <1>5, <1>7, <1>8, <1>9, <1>10, <1>11, <1>13, <1>14, <1>15, <1>16
     DEF Next, Claim, CopyRequest, Continue, Acquire, Release, vars

-----------------------------------------------------------------------------
(* The offsets of the claimed frames.                                      *)

DenseAt(s, i) ==
  stati[s][i].off = IF stati[s][i].page = NoPage THEN 0 ELSE Cardinality(Before(s, i))

LEMMA DenseEverywhere == OffsetsDense <=> \A r \in Session, i \in Idx : DenseAt(r, i)
  BY DEF OffsetsDense, DenseAt, Before

LEMMA DenseNext == OffsetsDense' <=> \A r \in Session, i \in Idx : DenseAt(r, i)'
  BY DEF OffsetsDense, DenseAt, Before

LEMMA SameOffsets ==
  ASSUME OffsetsDense, Cursors,
         \A s \in Session, i \in Idx :
           stati'[s][i].page = stati[s][i].page /\ stati'[s][i].off = stati[s][i].off,
         \A t \in Thread : call'[t].pc \in {"claim", "take"} =>
           /\ call[t].pc \in {"claim", "take"} /\ Ours(t) \in Session
           /\ call[t].idx \in 1..MaxReq+1
           /\ call'[t].sess = Ours(t) /\ call'[t].idx = call[t].idx
           /\ call'[t].off = call[t].off
  PROVE  OffsetsDense' /\ Cursors'
<1>1. ASSUME NEW s \in Session, NEW i \in 1..MaxReq+1 PROVE Before(s, i)' = Before(s, i)
  <2>1. \A j \in 1..i-1 : j \in Idx
    BY BoundsOK DEF Idx
  <2> QED BY <2>1 DEF Before
<1>2. ASSUME NEW s \in Session, NEW i \in Idx PROVE DenseAt(s, i)'
  <2>1. i \in 1..MaxReq+1
    BY BoundsOK DEF Idx
  <2> QED BY <1>1, <2>1, DenseEverywhere DEF DenseAt
<1>3. ASSUME NEW t \in Thread PROVE CursorOK(t)'
  BY <1>1 DEF Cursors, CursorOK, Ours
<1>4. OffsetsDense' <=> \A r \in Session, i \in Idx : DenseAt(r, i)'
  BY DenseNext
<1> QED BY <1>2, <1>3, <1>4 DEF Cursors

(* The stati of one session are cleared. *)
LEMMA ClearedOffsets ==
  ASSUME TypeOK, CallOK, OffsetsDense, Cursors, NEW s \in Session, NEW n, NewStati(s, n),
         \A t \in Thread : call'[t].pc \in {"claim", "take"} =>
           \/ call'[t].sess = s /\ call'[t].idx = 1 /\ call'[t].off = 0
           \/ call'[t] = call[t] /\ Ours(t) # s
  PROVE  OffsetsDense' /\ Cursors'
<1>1. stati'[s] = Blanks /\ \A r \in Session \ {s} : stati'[r] = stati[r]
  BY DEF NewStati, TypeOK
<1>2. ASSUME NEW r \in Session, NEW i \in Idx PROVE DenseAt(r, i)'
  <2>1. DenseAt(r, i)
    BY DenseEverywhere
  <2>2. CASE r = s
    BY <1>1, <2>2 DEF DenseAt, Blanks, Blank
  <2>3. CASE r # s
    <3>1. Before(r, i)' = Before(r, i)
      BY <1>1, <2>3 DEF Before
    <3> QED BY <1>1, <2>1, <2>3, <3>1 DEF DenseAt
  <2> QED BY <2>2, <2>3
<1>3. ASSUME NEW t \in Thread, call'[t].pc \in {"claim", "take"} PROVE CursorOK(t)'
  <2>1. CASE call'[t].sess = s /\ call'[t].idx = 1 /\ call'[t].off = 0
    <3>1. Before(s, 1)' = {}
      BY DEF Before
    <3> QED BY <2>1, <3>1, FS_EmptySet DEF CursorOK, Ours
  <2>2. CASE call'[t] = call[t] /\ Ours(t) # s
    <3>1. Ours(t) \in Session
      BY <1>3, <2>2, InHandler
    <3>2. Before(Ours(t), call[t].idx)' = Before(Ours(t), call[t].idx)'
      OBVIOUS
    <3>3. Before(Ours(t), call[t].idx)' = Before(Ours(t), call[t].idx)
      BY <1>1, <2>2, <3>1 DEF Before, Ours
    <3> QED BY <1>3, <2>2, <3>3 DEF Cursors, CursorOK, Ours
  <2> QED BY <1>3, <2>1, <2>2
<1>4. OffsetsDense' <=> \A r \in Session, i \in Idx : DenseAt(r, i)'
  BY DenseNext
<1> QED BY <1>2, <1>3, <1>4 DEF Cursors, CursorOK

(* A thread writes the status of its request, with the offset it is at. *)
LEMMA RecordOffsets ==
  ASSUME TypeOK, CallOK, OffsetsDense, Cursors, NEW t \in Thread, NEW status,
         call[t].pc \in {"claim", "take"}, call[t].idx <= num[Ours(t)], Record(t, status),
         status.off = IF status.page = NoPage THEN 0 ELSE call[t].off
  PROVE  OffsetsDense' /\ Cursors'
<1>0. PICK s \in Session, k \in Idx : s = Ours(t) /\ k = call[t].idx
  <2>1. call[t] \in Call /\ Ours(t) \in Session /\ call[t].idx > 0
    BY InHandler DEF CallOK, ClaimOK, Ours
  <2> QED BY <2>1, BoundsOK DEF TypeOK, Call, Idx
<1> DEFINE m == IF status.page = NoPage THEN call[t].off ELSE call[t].off + 1
<1>1. /\ call[t] \in Call /\ s \in Session /\ k \in Idx /\ call[t].off \in Nat
      /\ sem[s] = t /\ stati[s] \in [Idx -> Status]
  BY <1>0, BoundsOK DEF TypeOK, Call, CallOK, ClaimOK, Ours
<1>2. \A i \in Idx : i >= k => stati[s][i] = Blank
  BY <1>0 DEF CallOK, ClaimOK, Ours
<1>3. /\ \A r \in Session \ {s} : stati'[r] = stati[r]
      /\ \A i \in Idx \ {k} : stati'[s][i] = stati[s][i]
      /\ stati'[s][k] = status
  BY <1>0, <1>1 DEF Record, TypeOK
<1>4. /\ call'[t].pc = "claim" /\ call'[t].sess = s /\ call'[t].idx = k + 1 /\ call'[t].off = m
      /\ \A u \in Thread \ {t} : call'[u] = call[u]
  BY <1>0, <1>1 DEF Record, NextRequest, TypeOK, Call, Ours
<1>5. call[t].off = Cardinality(Before(s, k))
  BY <1>0 DEF Cursors, CursorOK
<1> HIDE DEF m
<1>6. \A i \in 1..k : Before(s, i)' = Before(s, i)
  <2> SUFFICES ASSUME NEW i \in 1..k PROVE Before(s, i)' = Before(s, i)
    OBVIOUS
  <2>1. \A j \in 1..i-1 : j \in Idx \ {k}
    BY <1>1, BoundsOK DEF Idx
  <2> QED BY <1>3, <2>1 DEF Before
<1>7. ASSUME NEW r \in Session, NEW i \in Idx PROVE DenseAt(r, i)'
  <2>1. DenseAt(r, i)
    BY DenseEverywhere
  <2>2. CASE r # s
    <3>1. Before(r, i)' = Before(r, i)
      BY <1>3, <2>2 DEF Before
    <3> QED BY <1>3, <2>1, <2>2, <3>1 DEF DenseAt
  <2>3. CASE r = s /\ i < k
    <3>1. i \in 1..k /\ i # k
      BY <1>1, <2>3 DEF Idx
    <3> QED BY <1>3, <1>6, <2>1, <2>3, <3>1 DEF DenseAt
  <2>4. CASE r = s /\ i = k
    <3>1. k \in 1..k
      BY <1>1 DEF Idx
    <3> QED BY <1>3, <1>5, <1>6, <2>4, <3>1 DEF DenseAt
  <2>5. CASE r = s /\ i > k
    <3>1. stati'[s][i] = Blank
      BY <1>1, <1>2, <1>3, <2>5 DEF Idx
    <3> QED BY <2>5, <3>1 DEF DenseAt, Blank
  <2> QED BY <1>1, <2>2, <2>3, <2>4, <2>5 DEF Idx
<1>8. CursorOK(t)'
  <2>1. Before(s, k + 1)' = IF status.page = NoPage THEN Before(s, k) ELSE Before(s, k) \cup {k}
    <3>1. Before(s, k + 1)' = {j \in 1..k : stati'[s][j].page # NoPage}
      BY <1>1 DEF Before, Idx
    <3>2. 1..k = 1..k-1 \cup {k} /\ k \notin 1..k-1
      BY <1>1 DEF Idx
    <3>3. Before(s, k) = {j \in 1..k-1 : stati'[s][j].page # NoPage}
      <4>1. k \in 1..k
        BY <1>1 DEF Idx
      <4> QED BY <1>6, <4>1 DEF Before
    <3> QED BY <1>3, <3>1, <3>2, <3>3
  <2>2. IsFiniteSet(Before(s, k)) /\ k \notin Before(s, k)
    <3>1. IsFiniteSet(1..k-1) /\ k \notin 1..k-1 /\ Before(s, k) \subseteq 1..k-1
      <4>1. 1 \in Int /\ k-1 \in Int /\ k \notin 1..k-1
        BY <1>1 DEF Idx
      <4> QED BY <4>1, FS_Interval DEF Before
    <3> QED BY <3>1, FS_Subset
  <2>3. Cardinality(Before(s, k) \cup {k}) = Cardinality(Before(s, k)) + 1
    BY <2>2, FS_AddElement
  <2>4. m = Cardinality(Before(s, k + 1)')
    BY <1>5, <2>1, <2>3 DEF m
  <2> QED BY <1>4, <2>4 DEF CursorOK, Ours
<1>9. ASSUME NEW u \in Thread \ {t}, call'[u].pc \in {"claim", "take"} PROVE CursorOK(u)'
  <2>1. call'[u] = call[u]
    BY <1>4, <1>9
  <2>2. Ours(u) \in Session /\ sem[Ours(u)] = u
    BY <1>9, <2>1, InHandler DEF CallOK, ClaimOK, Ours
  <2>3. stati'[Ours(u)] = stati[Ours(u)]
    BY <1>1, <1>3, <2>2
  <2>4. Before(Ours(u), call[u].idx)' = Before(Ours(u), call[u].idx)
    BY <2>1, <2>3 DEF Before, Ours
  <2> QED BY <1>9, <2>1, <2>4 DEF Cursors, CursorOK, Ours
<1>10. OffsetsDense' <=> \A r \in Session, i \in Idx : DenseAt(r, i)'
  BY DenseNext
<1> QED BY <1>7, <1>8, <1>9, <1>10 DEF Cursors, CursorOK

LEMMA OffsetsStep ==
  ASSUME TypeOK, CallOK, OffsetsDense, Cursors, [Next]_vars
  PROVE  OffsetsDense' /\ Cursors'
<1> USE NullsDistinct
<1>1. ASSUME NEW t \in Thread, call[t].pc \in {"claim", "take"}
      PROVE  /\ call[t] \in Call /\ Ours(t) \in Session /\ sem[Ours(t)] = t
             /\ call[t].idx \in 1..MaxReq+1
  <2>1. call[t] \in Call /\ Ours(t) \in Session /\ sem[Ours(t)] = t /\ call[t].idx > 0
    BY <1>1, InHandler DEF CallOK, ClaimOK, Ours
  <2> QED BY <2>1, BoundsOK DEF Call
<1>2. ASSUME UNCHANGED <<stati, call>> PROVE OffsetsDense' /\ Cursors'
  <2>1. \A t \in Thread : call'[t].pc \in {"claim", "take"} =>
           /\ call[t].pc \in {"claim", "take"} /\ Ours(t) \in Session
           /\ call[t].idx \in 1..MaxReq+1
           /\ call'[t].sess = Ours(t) /\ call'[t].idx = call[t].idx
           /\ call'[t].off = call[t].off
    BY <1>1, <1>2 DEF Ours
  <2> QED BY <1>2, <2>1, SameOffsets
<1>3. ASSUME NEW t \in Thread, NEW c, call' = [call EXCEPT ![t] = c],
             c.pc \notin {"claim", "take"},
             \A s \in Session, i \in Idx :
               stati'[s][i].page = stati[s][i].page /\ stati'[s][i].off = stati[s][i].off
      PROVE  OffsetsDense' /\ Cursors'
  <2>1. \A u \in Thread : call'[u] = IF u = t THEN c ELSE call[u]
    BY <1>3 DEF TypeOK
  <2>2. \A u \in Thread : call'[u].pc \in {"claim", "take"} =>
           /\ call[u].pc \in {"claim", "take"} /\ Ours(u) \in Session
           /\ call[u].idx \in 1..MaxReq+1
           /\ call'[u].sess = Ours(u) /\ call'[u].idx = call[u].idx
           /\ call'[u].off = call[u].off
    BY <1>1, <1>3, <2>1 DEF Ours
  <2> QED BY <1>3, <2>2, SameOffsets
<1>4. ASSUME NEW t \in Thread, NEW pc, NEW s, NEW p, NEW v, Enter(t, pc, s, p, v),
             stati' = stati, pc \notin {"claim", "take"}
      PROVE  OffsetsDense' /\ Cursors'
  <2> DEFINE c == [pc |-> pc, sess |-> s, idx |-> 0, off |-> 0, page |-> p, area |-> v]
  <2>1. call' = [call EXCEPT ![t] = c] /\ c.pc = pc
    BY <1>4 DEF Enter
  <2> HIDE DEF c
  <2> QED BY <1>3, <1>4, <2>1
<1>5. ASSUME NEW t \in Thread, Dispatch(t) PROVE OffsetsDense' /\ Cursors'
  BY <1>4, <1>5 DEF Dispatch, DispatchIoctl, DispatchRefused, DispatchMmap, Fork, Munmap, sessionVars
<1>6. ASSUME NEW t \in Thread, \/ Return(t) \/ Interrupted(t) \/ MarkFrame(t) \/ MmapRefused(t)
                               \/ UnmapRegion(t) \/ VmaOpen(t) \/ VmaClose(t) \/ RequestDone(t)
      PROVE  OffsetsDense' /\ Cursors'
  <2>1. stati' = stati /\ (Finish(t, "idle") \/ Finish(t, "EINVAL"))
    BY <1>6 DEF Return, Interrupted, MarkFrame, MmapRefused, UnmapRegion, VmaOpen, VmaClose,
         RequestDone, sessionVars
  <2> QED BY <1>4, <2>1 DEF Finish
<1>7. ASSUME NEW t \in Thread, Mmap(t) \/ MmapFails(t) PROVE OffsetsDense' /\ Cursors'
  <2>1. PICK pc \in {"vma_open", "unmap"} : At(t, pc)
    BY <1>7 DEF Mmap, MmapFails
  <2>2. call[t] \in Call /\ Ours(t) \in Session
    BY <1>7, InHandler DEF Mmap, MmapFails
  <2>3. [call[t] EXCEPT !.pc = pc].pc = pc
    BY <2>2 DEF Call
  <2>4. \A s \in Session, i \in Idx :
          stati'[s][i].page = stati[s][i].page /\ stati'[s][i].off = stati[s][i].off
    <3>1. CASE stati' = stati
      BY <3>1
    <3>2. ASSUME NEW k \in Idx,
                 stati' = [stati EXCEPT ![Ours(t)][k].src = @ \cup {"NOT_MAPPABLE"}]
          PROVE  \A s \in Session, i \in Idx :
                   stati'[s][i].page = stati[s][i].page /\ stati'[s][i].off = stati[s][i].off
      BY <2>2, <3>2 DEF TypeOK, Status
    <3> QED BY <1>7, <3>1, <3>2 DEF Mmap, MmapFails, sessionVars
  <2> QED BY <1>3, <2>1, <2>3, <2>4 DEF At
<1>8. ASSUME NEW t \in Thread, RequestNothing(t) \/ CopyFault(t) PROVE OffsetsDense' /\ Cursors'
  <2>1. /\ Ours(t) \in Session /\ (Up(Ours(t)) \/ sem[Ours(t)] = t)
        /\ NewStati(Ours(t), 0) /\ Finish(t, "idle")
    BY <1>8, InHandler
       DEF RequestNothing, Requestable, CopyFault, Claiming, CallOK, ClaimOK, Ours
  <2>2. \A u \in Thread : call'[u].pc \in {"claim", "take"} =>
           call'[u] = call[u] /\ Ours(u) # Ours(t)
    <3>1. \A u \in Thread : call'[u].pc \in {"claim", "take"} => u # t /\ call'[u] = call[u]
      BY <2>1 DEF Finish, Enter, TypeOK
    <3> QED BY <1>1, <2>1, <3>1 DEF Up
  <2>3. PICK s \in Session : s = Ours(t)
    BY <2>1
  <2>4. NewStati(s, 0)
    BY <2>1, <2>3
  <2> QED BY <2>2, <2>3, <2>4, ClearedOffsets
<1>9. ASSUME NEW t \in Thread, RequestStart(t) PROVE OffsetsDense' /\ Cursors'
  <2>1. PICK s \in Session : s = Ours(t) /\ call[t] \in Call /\ Up(s)
    BY <1>9, InHandler DEF RequestStart, Requestable
  <2>2. PICK n \in Idx : NewStati(s, n)
    BY <1>9, <2>1 DEF RequestStart
  <2>3. call'[t].sess = s /\ call'[t].idx = 1 /\ call'[t].off = 0
        /\ \A u \in Thread \ {t} : call'[u] = call[u]
    BY <1>9, <2>1 DEF RequestStart, TypeOK, Call, Ours
  <2>4. \A u \in Thread \ {t} : call'[u].pc \in {"claim", "take"} => Ours(u) # s
    BY <1>1, <2>1, <2>3 DEF Up
  <2> QED BY <2>2, <2>3, <2>4, ClearedOffsets
<1>10. ASSUME NEW s \in Session, ReleaseConfigured(s) PROVE OffsetsDense' /\ Cursors'
  <2>1. sem[s] = Closer /\ NewStati(s, 0) /\ call' = call
    BY <1>10 DEF ReleaseConfigured
  <2>2. \A u \in Thread : call'[u].pc \in {"claim", "take"} => call'[u] = call[u] /\ Ours(u) # s
    BY <1>1, <2>1
  <2> QED BY <2>1, <2>2, ClearedOffsets
<1>11. ASSUME NEW t \in Thread, ClaimFails(t) PROVE OffsetsDense' /\ Cursors'
  <2>1. PICK src \in {{}, {"INVALID_PFN"}} : Record(t, [Blank EXCEPT !.src = src])
    BY <1>11 DEF ClaimFails
  <2>2. [Blank EXCEPT !.src = src].page = NoPage /\ [Blank EXCEPT !.src = src].off = 0
    BY DEF Blank
  <2>3. call[t].pc = "claim" /\ call[t].idx <= num[Ours(t)]
    BY <1>11 DEF ClaimFails, Claiming
  <2>4. PICK status : status = [Blank EXCEPT !.src = src]
    OBVIOUS
  <2>5. Record(t, status) /\ status.page = NoPage /\ status.off = 0
    BY <2>1, <2>2, <2>4
  <2> QED BY <2>3, <2>5, RecordOffsets
<1>12. ASSUME NEW t \in Thread, ClaimTake(t) PROVE OffsetsDense' /\ Cursors'
  <2> DEFINE status == [page |-> call[t].page, src |-> {"BUDDY"}, off |-> call[t].off]
  <2>1. /\ call[t].pc = "take" /\ call[t].page \in Page /\ call[t].idx <= num[Ours(t)]
        /\ Record(t, status)
    BY <1>12, InHandler DEF ClaimTake, CallOK, ClaimOK, TypeOK, Ours
  <2>2. status.page # NoPage /\ status.off = call[t].off
    BY <2>1
  <2> HIDE DEF status
  <2> QED BY <2>1, <2>2, RecordOffsets
<1>13. ASSUME NEW t \in Thread, ClaimLost(t) PROVE OffsetsDense' /\ Cursors'
  <2>1. call[t].pc = "take" /\ call[t].idx <= num[Ours(t)] /\ Record(t, Blank)
    BY <1>13, InHandler DEF ClaimLost, CallOK, ClaimOK, TypeOK, Ours
  <2>2. Blank.page = NoPage /\ Blank.off = 0
    BY DEF Blank
  <2> QED BY <2>1, <2>2, RecordOffsets
<1>14. ASSUME NEW t \in Thread, NEW p \in Page, ClaimCheck(t, p) PROVE OffsetsDense' /\ Cursors'
  <2>1. call[t] \in Call /\ call[t].pc = "claim" /\ stati' = stati
    BY <1>14, <1>1 DEF ClaimCheck, Claiming, sessionVars
  <2>2. call'[t] = [call[t] EXCEPT !.pc = "take", !.page = p]
        /\ \A u \in Thread \ {t} : call'[u] = call[u]
    BY <1>14 DEF ClaimCheck, TypeOK
  <2>3. \A u \in Thread : call'[u].pc \in {"claim", "take"} =>
           /\ call[u].pc \in {"claim", "take"} /\ Ours(u) \in Session
           /\ call[u].idx \in 1..MaxReq+1
           /\ call'[u].sess = Ours(u) /\ call'[u].idx = call[u].idx
           /\ call'[u].off = call[u].off
    <3>1. /\ call'[t].sess = Ours(t) /\ call'[t].idx = call[t].idx
          /\ call'[t].off = call[t].off /\ call[t].pc \in {"claim", "take"}
      BY <2>1, <2>2 DEF Ours, Call
    <3> QED BY <1>1, <2>2, <3>1 DEF Ours
  <2> QED BY <2>1, <2>3, SameOffsets
<1>15. ASSUME NEW s \in Session, \/ Open(s) \/ CloseFd(s) \/ ReleaseStart(s)
                                \/ ReleaseOpen(s) \/ ReleaseEnd(s)
       PROVE  OffsetsDense' /\ Cursors'
  BY <1>2, <1>15 DEF Open, CloseFd, ReleaseStart, ReleaseOpen, ReleaseEnd
<1>16. ASSUME NEW p \in Page, Kernel(p) PROVE OffsetsDense' /\ Cursors'
  BY <1>2, <1>16 DEF Kernel, KernelAlloc, KernelFree, MemoryFailure, SkipPoisoned, sessionVars
<1>17. ASSUME UNCHANGED vars PROVE OffsetsDense' /\ Cursors'
  BY <1>2, <1>17 DEF vars
<1> QED
  BY <1>5, <1>6, <1>7, <1>8, <1>9, <1>10, <1>11, <1>12, <1>13, <1>14, <1>15, <1>16, <1>17
     DEF Next, Claim, CopyRequest, Continue, Acquire, Release

-----------------------------------------------------------------------------
LEMMA InitSessions == Init => SessionInv
<1> SUFFICES ASSUME Init PROVE SessionInv
  OBVIOUS
<1>1. TypeOK /\ CallOK
  BY InitTypeCall
<1>2. SessionLife
  BY NullsDistinct DEF Init, SessionLife, LifeOK, Live
<1>3. LockedStates
  BY NullsDistinct DEF Init, LockedStates, Idle, Ours
<1>4. VmaCount
  <2>1. \A s \in Session : Owned(s) = {} /\ Uncounted(s) = {} /\ vmas[s] = 0
    BY NullsDistinct DEF Init, Owned, Uncounted, Idle
  <2>2. \A s \in Session : Counted(s)
    BY <2>1, FS_EmptySet DEF Counted
  <2> QED BY <2>2 DEF VmaCount, Counted, Owned, Uncounted
<1>5. OffsetsDense
  BY DEF Init, OffsetsDense, Blanks, Blank
<1>6. Cursors
  BY DEF Init, Cursors, CursorOK, Idle
<1> QED BY <1>1, <1>2, <1>3, <1>4, <1>5, <1>6 DEF SessionInv

LEMMA SessionsStep == SessionInv /\ [Next]_vars => SessionInv'
  BY TypeStep, CallStep, LifeStep, CountStep, OffsetsStep DEF SessionInv

LEMMA SessionsAlways == Spec => []SessionInv
  BY InitSessions, SessionsStep, PTL DEF Spec

(* Lock, state and VMA counter of a session always agree with the handlers *)
(* its threads are in: the states a handler warns about never meet it, and *)
(* the counter is off only by the VMAs mmap or fork has still to count.    *)
THEOREM SessionsAgree == Spec => []SessionAgrees
<1>1. SessionInv => SessionAgrees
  BY DEF SessionInv, SessionAgrees
<1> QED BY <1>1, SessionsAlways, PTL

(* The frames of a session lie one behind the other in its VMAs, however   *)
(* many of the requests failed.                                            *)
THEOREM FramesLieDense == Spec => []OffsetsDense
<1>1. SessionInv => OffsetsDense
  BY DEF SessionInv
<1> QED BY <1>1, SessionsAlways, PTL

(* The last release of a session always finds the lock free, no VMA        *)
(* counted, and a state its loop can leave.                                *)
THEOREM ReleaseFindsReady == Spec => []ReleaseReady
<1>1. SessionInv => ReleaseReady
  <2> SUFFICES ASSUME SessionInv, NEW s \in Session, Unreferenced(s)
               PROVE  \/ Up(s) /\ state[s] \in {"OPEN", "CONFIGURED"} /\ vmas[s] = 0
                      \/ sem[s] = Closer /\ state[s] \in {"OPEN", "CONFIGURED", "CLOSED"}
    BY DEF ReleaseReady
  <2>1. state[s] # "CONFIGURING" /\ sem[s] \in {Nobody, Closer}
    BY DEF SessionInv, LockedStates, Unreferenced, TypeOK
  <2>2. state[s] \in {"OPEN", "CONFIGURED", "CLOSED"} /\ (state[s] = "CLOSED" => sem[s] = Closer)
    BY <2>1 DEF SessionInv, SessionLife, LifeOK, Unreferenced, Live
  <2>3. vmas[s] = 0
    <3>1. Owned(s) = {} /\ Uncounted(s) = {}
      BY DEF Unreferenced, Owned, Uncounted, Ours
    <3>2. Counted(s)
      BY DEF SessionInv, VmaCount, Counted, Owned, Uncounted
    <3> QED BY <3>1, <3>2, FS_EmptySet DEF Counted
  <2> QED BY <2>1, <2>2, <2>3 DEF Up
<1> QED BY <1>1, SessionsAlways, PTL
=============================================================================
