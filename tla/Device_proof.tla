----------------------------- MODULE Device_proof -----------------------------
(***************************************************************************)
(* Proofs about Device, for any number of threads, processes and statuses: *)
(* what the module registers fits together (Registered), a session never   *)
(* outlives the module (SessionHasModule), a read stays in the array of    *)
(* stati (InArray), and the Client's reading of its configuration goes     *)
(* wrong only when another thread disturbs it (WholeConfiguration).        *)
(*                                                                         *)
(* The four parts of the invariant build on each other: the life of the    *)
(* module stands alone; a session needs the module; the lock needs nothing *)
(* but the calls; the Client's view needs the lock.                        *)
(***************************************************************************)
EXTENDS Device, FiniteSetTheorems, TLAPS

-----------------------------------------------------------------------------
(* The life of the module.                                                 *)

Loading == {"class", "kmalloc", "cdev", "node", "cache"}
Undoing == {"undo_class", "undo_cdev", "undo_devices", "undo_cache", "undo_region"}

(* What is registered follows from how far init or cleanup has got.  The   *)
(* one thing that cleanup looks for is the class: without it cleanup skips *)
(* the node, which then has never been created.                            *)
LifeInv ==
  /\ module \in {"absent", "coming", "live", "going"}
  /\ region \in BOOLEAN /\ devices \in BOOLEAN /\ cdev \in BOOLEAN
  /\ node \in BOOLEAN /\ cache \in BOOLEAN /\ refs \in Nat
  /\ module \in {"absent", "live"} => at = "-"
  /\ module = "coming" => at \in Loading \cup Undoing
  /\ module = "going" => at \in Undoing
  /\ region <=> module # "absent"
  /\ devices <=> \/ module = "live"
                 \/ at \in {"cdev", "node", "cache", "undo_class", "undo_cdev", "undo_devices"}
  /\ cdev => module = "live" \/ at \in {"node", "cache", "undo_class", "undo_cdev"}
  /\ node => class = "ok" /\ (module = "live" \/ at \in {"cache", "undo_class"})
  /\ at = "node" => class = "ok"
  /\ module = "live" => cache
  /\ cache => \/ module = "live"
              \/ /\ module = "going"
                 /\ at \in {"undo_class", "undo_cdev", "undo_devices", "undo_cache"}

LEMMA LifeInit == Life!Init => LifeInv
<1> SUFFICES ASSUME Life!Init PROVE LifeInv
  OBVIOUS
<1>1. /\ module = "absent" /\ at = "-" /\ class = "-" /\ refs = 0
      /\ ~region /\ ~devices /\ ~cdev /\ ~node /\ ~cache
  BY DEF Life!Init
<1>2. /\ region \in BOOLEAN /\ devices \in BOOLEAN /\ cdev \in BOOLEAN
      /\ node \in BOOLEAN /\ cache \in BOOLEAN
  BY DEF Life!Init
<1> QED
  BY <1>1, <1>2 DEF LifeInv, Loading, Undoing

(* Every step of init and cleanup, and every failure, keeps the table.     *)
LEMMA LifeKept == LifeInv /\ Life!Next => LifeInv'
<1> SUFFICES ASSUME LifeInv, Life!Next PROVE LifeInv'
  OBVIOUS
<1> USE DEF LifeInv, Loading, Undoing, Life!registered
<1>1. CASE Life!Load
  BY <1>1 DEF Life!Load
<1>2. CASE Life!CreateClass
  BY <1>2 DEF Life!CreateClass
<1>3. CASE Life!AllocDevices
  BY <1>3 DEF Life!AllocDevices
<1>4. CASE Life!FailMalloc
  BY <1>4 DEF Life!FailMalloc
<1>5. CASE Life!SetupCdev
  BY <1>5 DEF Life!SetupCdev
<1>6. CASE Life!CreateDevice
  BY <1>6 DEF Life!CreateDevice
<1>7. CASE Life!CreateCache
  <2>1. CASE cache' = TRUE /\ module' = "live" /\ at' = "-"
    BY <1>7, <2>1 DEF Life!CreateCache
  <2>2. CASE at' = Life!Cleanup /\ UNCHANGED <<cache, module>>
    <3>1. at = "cache" /\ module = "coming" /\ ~cache
      BY <1>7 DEF Life!CreateCache
    <3>2. at' = "undo_class" \/ (at' = "undo_cdev" /\ class # "ok")
      BY <2>2 DEF Life!Cleanup
    <3> QED
      BY <1>7, <2>2, <3>1, <3>2 DEF Life!CreateCache
  <2> QED
    BY <1>7, <2>1, <2>2 DEF Life!CreateCache
<1>8. CASE Life!Unload
  BY <1>8 DEF Life!Unload, Life!Cleanup
<1>9. CASE Life!DestroyClass
  BY <1>9 DEF Life!DestroyClass
<1>10. CASE Life!DelCdev
  BY <1>10 DEF Life!DelCdev
<1>11. CASE Life!FreeDevices
  BY <1>11 DEF Life!FreeDevices
<1>12. CASE Life!DestroyCache
  BY <1>12 DEF Life!DestroyCache
<1>13. CASE Life!FreeRegion
  BY <1>13 DEF Life!FreeRegion
<1>14. CASE Life!OpenCrashes
  BY <1>14 DEF Life!OpenCrashes
<1> QED
  BY <1>1, <1>2, <1>3, <1>4, <1>5, <1>6, <1>7, <1>8, <1>9, <1>10, <1>11, <1>12,
     <1>13, <1>14 DEF Life!Next, Life!Initialise, Life!Uninitialise

LEMMA LifeReferred == LifeInv /\ (Life!GetModule \/ Life!PutModule) => LifeInv'
  BY DEF LifeInv, Loading, Undoing, Life!registered, Life!GetModule, Life!PutModule

LEMMA LifeSame == LifeInv /\ UNCHANGED lifeVars => LifeInv'
  BY DEF LifeInv, Loading, Undoing, lifeVars

-----------------------------------------------------------------------------
(* The calls on the file, and the lock.                                    *)

CallRecord == [pc : Calls!PCs, pos : Int, count : Int, fault : BOOLEAN,
               err : {"-", "EIO", "EINTR"}]

(* A thread holds the lock exactly while it copies from or to user memory, *)
(* and what read copies has been cut to the array under that lock.         *)
LockInv ==
  /\ fd \in BOOLEAN /\ state \in {"NONE", "OPEN", "CONFIGURING", "CONFIGURED"}
  /\ num \in Nat /\ vmas \in Int /\ f_pos \in Int /\ sem \in Thread \cup {Nobody}
  /\ call \in [Thread -> CallRecord]
  /\ \A t \in Thread : call[t].pc \in {"requests", "copy"} <=> sem = t
  /\ \A t \in Thread : call[t].pc = "copy" =>
       /\ state = "CONFIGURED"
       /\ call[t].count >= 0 /\ call[t].pos + call[t].count <= Calls!Size

(* Without a session nobody refers to the file; with one the module is     *)
(* held.                                                                   *)
HeldInv ==
  /\ state = "NONE" => ~fd /\ vmas = 0 /\ \A t \in Thread : call[t].pc = "idle"
  /\ state # "NONE" => module = "live" /\ refs > 0

ViewRecord == [at : {"-", "seek", "read"}, next : Int, disturbed : BOOLEAN, bad : BOOLEAN]

(* The Client's reading: as long as nobody has disturbed it, the position  *)
(* is where the next status is expected.                                   *)
ViewInv ==
  /\ view \in ViewRecord
  /\ view.bad => view.disturbed
  /\ view.at # "-" => fd
  /\ view.at = "seek" => call[Client].pc \in {"idle", "seek"}
  /\ view.at = "read" => call[Client].pc \in {"idle", "read", "copy", "f_pos"}
  /\ view.at # "-" /\ ~view.disturbed =>
       /\ state = "CONFIGURED" /\ \A t \in Thread : call[t].pc # "requests"
       /\ view.at = "seek" => view.next = 0
       /\ view.at = "read" =>
            /\ f_pos = view.next /\ view.next <= Calls!Size
            /\ call[Client].pc \in {"read", "copy"} =>
                 call[Client].pos = view.next /\ call[Client].err = "-"
            /\ call[Client].pc = "copy" => call[Client].count = Calls!Clipped(view.next)
            /\ call[Client].pc = "f_pos" =>
                 \/ call[Client].err = "EINTR"
                 \/ /\ call[Client].err = "-"
                    /\ call[Client].pos = view.next + call[Client].count
                    /\ call[Client].count = Calls!Clipped(view.next)

DeviceInv == LifeInv /\ LockInv /\ HeldInv /\ ViewInv

-----------------------------------------------------------------------------
(* The lock and the array.                                                 *)

LEMMA Sizes == StatusSize \in Nat /\ ReadSize \in Nat \ {0} /\ Requests \subseteq Nat
               /\ Offsets \subseteq Int
  BY PartsOK DEF Calls!SizesOK

LEMMA Threads == Client \in Thread /\ Nobody \notin Thread
  BY PartsOK DEF Calls!ClientOK

LEMMA NobodyCounts == Calls!Cardinality({}) = 0
<1>1. Calls!Cardinality({}) = Cardinality({})
  BY DEF Calls!Cardinality, Cardinality
<1> QED
  BY <1>1, FS_EmptySet

LEMMA SizeInt == num \in Nat => Calls!Size \in Int
  BY Sizes DEF Calls!Size

LEMMA SizeSame == UNCHANGED num => UNCHANGED Calls!Size
  BY DEF Calls!Size

(* The position that read has looked at lies in the array: what it then    *)
(* copies does, too.                                                       *)
LEMMA ClippedFits ==
  ASSUME num \in Nat, NEW pos \in Int, pos <= Calls!Size
  PROVE  /\ Calls!Clipped(pos) \in Nat
         /\ pos + Calls!Clipped(pos) <= Calls!Size
         /\ Calls!Clipped(pos) = 0 => pos = Calls!Size
  BY SizeInt, Sizes DEF Calls!Clipped

(* A call that neither holds the lock nor takes it, and leaves the session *)
(* as it is, but for the number of VMAs.                                   *)
LEMMA LockFree ==
  ASSUME LockInv, NEW t \in Thread, NEW r \in CallRecord,
         call' = [call EXCEPT ![t] = r],
         call[t].pc \notin {"requests", "copy"}, r.pc \notin {"requests", "copy"},
         fd' \in BOOLEAN, vmas' \in Int, f_pos' \in Int, UNCHANGED <<state, num, sem>>
  PROVE  LockInv'
<1>1. /\ call' \in [Thread -> CallRecord] /\ call'[t] = r
      /\ \A u \in Thread : u # t => call'[u] = call[u]
  BY DEF LockInv
<1>2. \A u \in Thread : call'[u].pc \in {"requests", "copy"} <=> sem' = u
  BY <1>1 DEF LockInv
<1>3. ASSUME NEW u \in Thread, call'[u].pc = "copy"
      PROVE  /\ state' = "CONFIGURED"
             /\ call'[u].count >= 0 /\ call'[u].pos + call'[u].count <= Calls!Size'
  BY <1>1, <1>3, SizeSame DEF LockInv
<1> QED
  BY <1>1, <1>2, <1>3 DEF LockInv

(* A call that changes the session while nobody holds the lock.            *)
LEMMA LockSession ==
  ASSUME LockInv, NEW t \in Thread, NEW r \in CallRecord, sem = Nobody,
         call' = [call EXCEPT ![t] = r], r.pc \notin {"requests", "copy"},
         state' \in {"NONE", "OPEN", "CONFIGURING", "CONFIGURED"}, num' \in Nat,
         fd' \in BOOLEAN, vmas' \in Int, f_pos' \in Int, UNCHANGED sem
  PROVE  LockInv'
<1>1. /\ call' \in [Thread -> CallRecord] /\ call'[t] = r
      /\ \A u \in Thread : u # t => call'[u] = call[u]
  BY DEF LockInv
<1>2. \A u \in Thread : call[u].pc \notin {"requests", "copy"}
  BY Threads DEF LockInv
<1>3. \A u \in Thread : call'[u].pc \notin {"requests", "copy"}
  BY <1>1, <1>2
<1> QED
  BY <1>1, <1>3, Threads DEF LockInv

(* A call that takes the lock. *)
LEMMA LockTaken ==
  ASSUME LockInv, NEW t \in Thread, NEW r \in CallRecord, sem = Nobody, sem' = t,
         call' = [call EXCEPT ![t] = r], r.pc \in {"requests", "copy"},
         state' \in {"NONE", "OPEN", "CONFIGURING", "CONFIGURED"}, num' \in Nat,
         UNCHANGED <<fd, vmas, f_pos>>,
         r.pc = "copy" => /\ state' = "CONFIGURED"
                          /\ r.count >= 0 /\ r.pos + r.count <= Calls!Size'
  PROVE  LockInv'
<1>1. /\ call' \in [Thread -> CallRecord] /\ call'[t] = r
      /\ \A u \in Thread : u # t => call'[u] = call[u]
  BY DEF LockInv
<1>2. \A u \in Thread : call[u].pc \notin {"requests", "copy"}
  BY Threads DEF LockInv
<1>3. \A u \in Thread : u # t => call'[u].pc \notin {"requests", "copy"}
  BY <1>1, <1>2
<1> QED
  BY <1>1, <1>3 DEF LockInv

(* The call that holds the lock gives it back, and it alone has changed    *)
(* the session.                                                            *)
LEMMA LockReturned ==
  ASSUME LockInv, NEW t \in Thread, NEW r \in CallRecord,
         call[t].pc \in {"requests", "copy"}, sem' = Nobody,
         call' = [call EXCEPT ![t] = r], r.pc \notin {"requests", "copy"},
         state' \in {"NONE", "OPEN", "CONFIGURING", "CONFIGURED"}, num' \in Nat,
         UNCHANGED <<fd, vmas, f_pos>>
  PROVE  LockInv'
<1>1. /\ call' \in [Thread -> CallRecord] /\ call'[t] = r
      /\ \A u \in Thread : u # t => call'[u] = call[u]
  BY DEF LockInv
<1>2. sem = t
  BY DEF LockInv
<1>3. \A u \in Thread : u # t => call[u].pc \notin {"requests", "copy"}
  BY <1>2 DEF LockInv
<1>4. \A u \in Thread : call'[u].pc \notin {"requests", "copy"}
  BY <1>1, <1>3
<1> QED
  BY <1>1, <1>4, Threads DEF LockInv

LEMMA IdleRecord == Calls!Idle \in CallRecord /\ Calls!Idle.pc = "idle" /\ ~Calls!Idle.fault
  BY DEF Calls!Idle, CallRecord, Calls!PCs

LEMMA RecordCount ==
  ASSUME NEW r \in CallRecord, NEW pc \in Calls!PCs, NEW n \in Int
  PROVE  [r EXCEPT !.pc = pc, !.count = n] \in CallRecord
  BY DEF CallRecord

LEMMA RecordCopied ==
  ASSUME NEW r \in CallRecord, NEW pc \in Calls!PCs, NEW n \in Int, NEW fault \in BOOLEAN
  PROVE  [r EXCEPT !.pc = pc, !.count = n, !.fault = fault] \in CallRecord
  BY DEF CallRecord

LEMMA RecordFault ==
  ASSUME NEW r \in CallRecord, NEW n \in Int, NEW fault \in BOOLEAN
  PROVE  [r EXCEPT !.count = n, !.fault = fault] \in CallRecord
  BY DEF CallRecord

(* Every call keeps to the lock: it is taken before the session is         *)
(* changed or the array is read, and given back on every way out.          *)
LEMMA LockKept == LockInv /\ Calls!Next => LockInv'
<1> SUFFICES ASSUME LockInv, Calls!Next PROVE LockInv'
  OBVIOUS
<1>a. CASE Calls!CloseFd
  BY <1>a, SizeSame DEF LockInv, Calls!CloseFd
<1>b. ASSUME NEW t \in Thread,
             \/ Calls!Dispatch(t) \/ Calls!Continue(t) \/ Calls!Acquire(t)
             \/ Calls!Interrupted(t)
      PROVE  LockInv'
  <2>0. /\ call[t] \in CallRecord /\ call \in [Thread -> CallRecord]
        /\ fd \in BOOLEAN /\ vmas \in Int /\ f_pos \in Int /\ num \in Nat
        /\ state \in {"NONE", "OPEN", "CONFIGURING", "CONFIGURED"}
    BY DEF LockInv
  <2> USE <2>0 DEF CallRecord, Calls!PCs, Calls!fileVars, Calls!Finish,
                   Calls!Begin, Calls!At
  <2>1. CASE Calls!DispatchIoctl(t)
    <3> PICK fault \in BOOLEAN :
           call' = [call EXCEPT ![t] = [Calls!Idle EXCEPT !.pc = "args", !.fault = fault]]
      BY <2>1 DEF Calls!DispatchIoctl
    <3> DEFINE r == [Calls!Idle EXCEPT !.pc = "args", !.fault = fault]
    <3>1. r \in CallRecord /\ r.pc = "args"
      BY IdleRecord
    <3> HIDE DEF r
    <3> QED
      BY <2>1, <3>1, LockFree DEF Calls!DispatchIoctl, r
  <2>2. CASE Calls!DispatchRead(t)
    <3> DEFINE r == [Calls!Idle EXCEPT !.pos = f_pos,
                       !.pc = IF Calls!HasRead THEN "read" ELSE "f_pos",
                       !.err = IF Calls!HasRead THEN "-" ELSE "EIO"]
    <3>1. r \in CallRecord /\ r.pc \in {"read", "f_pos"}
      BY IdleRecord
    <3>2. call' = [call EXCEPT ![t] = r] /\ call[t].pc = "idle"
          /\ UNCHANGED <<fd, vmas, f_pos, state, num, sem>>
      BY <2>2 DEF Calls!DispatchRead
    <3> HIDE DEF r
    <3> QED
      BY <3>1, <3>2, LockFree
  <2>3. CASE Calls!DispatchSeek(t)
    <3> DEFINE r == [Calls!Idle EXCEPT !.pc = "seek"]
    <3>1. r \in CallRecord /\ r.pc = "seek"
      BY IdleRecord
    <3>2. /\ call' = [call EXCEPT ![t] = r] \/ call' = [call EXCEPT ![t] = call[t]]
          /\ call[t].pc = "idle" /\ UNCHANGED <<fd, vmas, f_pos, state, num, sem>>
      BY <2>3 DEF Calls!DispatchSeek
    <3> HIDE DEF r
    <3> QED
      BY <3>1, <3>2, LockFree
  <2>4. CASE Calls!DispatchMm(t)
    <3> PICK pc \in {"mmap", "vma_open", "vma_close"} :
           call' = [call EXCEPT ![t] = [Calls!Idle EXCEPT !.pc = pc]]
      BY <2>4 DEF Calls!DispatchMm
    <3> DEFINE r == [Calls!Idle EXCEPT !.pc = pc]
    <3>1. r \in CallRecord /\ r.pc = pc
      BY IdleRecord
    <3>2. call[t].pc = "idle" /\ UNCHANGED <<fd, vmas, f_pos, state, num, sem>>
      BY <2>4 DEF Calls!DispatchMm
    <3> HIDE DEF r
    <3> QED
      BY <3>1, <3>2, LockFree DEF r
  <2>5. CASE Calls!Decode(t)
    <3> DEFINE r == [call[t] EXCEPT !.pc = "ioctl"]
    <3>1. r \in CallRecord /\ r.pc = "ioctl"
      OBVIOUS
    <3>2. /\ call' = [call EXCEPT ![t] = r] \/ call' = [call EXCEPT ![t] = Calls!Idle]
          /\ call[t].pc = "args" /\ UNCHANGED <<fd, vmas, f_pos, state, num, sem>>
      BY <2>5 DEF Calls!Decode
    <3> HIDE DEF r
    <3> QED
      BY <3>1, <3>2, LockFree, IdleRecord
  <2>6. CASE Calls!CopyRequest(t)
    <3> PICK n \in Int, fault \in BOOLEAN :
           call' = [call EXCEPT ![t] = [call[t] EXCEPT !.count = n, !.fault = fault]]
      <4>1. PICK f \in BOOLEAN :
              call' = [call EXCEPT ![t].count = @ - 1, ![t].fault = f /\ call[t].count > 1]
        BY <2>6 DEF Calls!CopyRequest
      <4>2. (f /\ call[t].count > 1) \in BOOLEAN /\ call[t].count - 1 \in Int
        OBVIOUS
      <4> QED
        BY <4>1, <4>2
    <3>0. [call[t] EXCEPT !.count = n, !.fault = fault] \in CallRecord
      BY RecordFault
    <3>1. /\ call' \in [Thread -> CallRecord] /\ call'[t].pc = "requests"
          /\ \A u \in Thread : u # t => call'[u] = call[u]
      BY <2>6, <3>0 DEF Calls!CopyRequest
    <3>2. call[t].pc = "requests" /\ UNCHANGED <<fd, vmas, f_pos, state, num, sem>>
      BY <2>6 DEF Calls!CopyRequest
    <3> QED
      BY <3>1, <3>2, SizeSame DEF LockInv
  <2>7. CASE Calls!CopyFails(t)
    BY <2>7, LockReturned, IdleRecord DEF Calls!CopyFails
  <2>8. CASE Calls!RequestDone(t)
    BY <2>8, LockReturned, IdleRecord DEF Calls!RequestDone
  <2>9. CASE Calls!Copy(t)
    <3>1. PICK r \in CallRecord : call' = [call EXCEPT ![t] = r] /\ r.pc = "f_pos"
      <4> DEFINE a == [call[t] EXCEPT !.pc = "f_pos", !.pos = @ + call[t].count]
                 b == [call[t] EXCEPT !.pc = "f_pos", !.count = 0]
      <4>0. call[t].pos + call[t].count \in Int
        OBVIOUS
      <4>1. a \in CallRecord /\ a.pc = "f_pos"
        BY <4>0
      <4>b. b \in CallRecord /\ b.pc = "f_pos"
        <5>1. 0 \in Int /\ "f_pos" \in Calls!PCs
          OBVIOUS
        <5>2. b \in CallRecord
          <6> HIDE DEF CallRecord, Calls!PCs
          <6> QED
            BY <5>1, RecordCount
        <5>3. b.pc = "f_pos"
          OBVIOUS
        <5> QED
          BY <5>2, <5>3
      <4>2. call' = [call EXCEPT ![t] = a] \/ call' = [call EXCEPT ![t] = b]
        BY <2>9 DEF Calls!Copy
      <4> HIDE DEF a, b
      <4> QED
        BY <4>1, <4>b, <4>2
    <3>2. sem' = Nobody /\ UNCHANGED <<fd, vmas, f_pos, state, num>> /\ call[t].pc = "copy"
      BY <2>9 DEF Calls!Copy, LockInv
    <3> QED
      BY <3>1, <3>2, LockReturned
  <2>10. CASE Calls!ReadReturns(t)
    BY <2>10, LockFree, IdleRecord DEF Calls!ReadReturns
  <2>11. CASE Calls!Fault(t)
    <3>1. /\ call' \in [Thread -> CallRecord]
          /\ \A u \in Thread : /\ call'[u].pc = call[u].pc /\ call'[u].count = call[u].count
                               /\ call'[u].pos = call[u].pos
      BY <2>11 DEF Calls!Fault
    <3>2. UNCHANGED <<fd, vmas, f_pos, state, num, sem>>
      BY <2>11 DEF Calls!Fault
    <3> QED
      BY <3>1, <3>2, SizeSame DEF LockInv
  <2>12. CASE Calls!Mark(t)
    BY <2>12, LockSession, IdleRecord DEF Calls!Mark, Calls!Up
  <2>13. CASE Calls!RequestNothing(t)
    BY <2>13, LockSession, IdleRecord DEF Calls!RequestNothing, Calls!Up
  <2>14. CASE Calls!RequestStart(t)
    <3> PICK n \in Requests \ {0}, fault \in BOOLEAN :
           /\ num' = n
           /\ call' = [call EXCEPT ![t] = [@ EXCEPT !.pc = "requests", !.count = n,
                                                    !.fault = fault]]
      BY <2>14 DEF Calls!RequestStart
    <3> DEFINE r == [call[t] EXCEPT !.pc = "requests", !.count = n, !.fault = fault]
    <3>0. n \in Nat /\ num' \in Nat
      BY Sizes
    <3>1. r \in CallRecord /\ r.pc = "requests"
      <4>1. n \in Int /\ "requests" \in Calls!PCs
        BY <3>0
      <4>2. r \in CallRecord
        <5> HIDE DEF CallRecord, Calls!PCs
        <5> QED
          BY <4>1, RecordCopied
      <4>3. r.pc = "requests"
        OBVIOUS
      <4> QED
        BY <4>2, <4>3
    <3>2. /\ call' = [call EXCEPT ![t] = r] /\ sem = Nobody /\ sem' = t
          /\ state' = "CONFIGURING" /\ UNCHANGED <<fd, vmas, f_pos>>
      BY <2>14 DEF Calls!RequestStart, Calls!Up
    <3> HIDE DEF r, CallRecord
    <3>3. /\ state' \in {"NONE", "OPEN", "CONFIGURING", "CONFIGURED"}
          /\ r.pc \in {"requests", "copy"} /\ r.pc # "copy"
      BY <3>1, <3>2
    <3> QED
      BY <3>0, <3>1, <3>2, <3>3, LockTaken
  <2>15. CASE Calls!Seek(t)
    <3>1. f_pos' \in Int
      <4>1. Calls!NewPos \subseteq Int
        BY SizeInt, Sizes DEF Calls!NewPos
      <4> QED
        <5>1. CASE ~Calls!HasRead
          BY <2>15, <5>1 DEF Calls!Seek
        <5>2. CASE Calls!HasRead /\ t = Client /\ view.at = "seek"
          BY <2>15, <5>2 DEF Calls!Seek
        <5>3. CASE Calls!HasRead /\ ~(t = Client /\ view.at = "seek")
          <6> PICK newpos \in Calls!NewPos : f_pos' = IF newpos < 0 THEN f_pos ELSE newpos
            BY <2>15, <5>3 DEF Calls!Seek
          <6> QED
            BY <4>1
        <5> QED
          BY <5>1, <5>2, <5>3
    <3> QED
      BY <2>15, <3>1, LockFree, IdleRecord DEF Calls!Seek
  <2>16. CASE Calls!ReadNothing(t)
    <3> DEFINE r == [call[t] EXCEPT !.pc = "f_pos",
                                    !.err = IF Calls!HasRead THEN "-" ELSE "EIO"]
    <3>1. r \in CallRecord /\ r.pc = "f_pos"
      OBVIOUS
    <3>2. call' = [call EXCEPT ![t] = r] /\ call[t].pc = "read"
          /\ UNCHANGED <<fd, vmas, f_pos, state, num, sem>>
      BY <2>16 DEF Calls!ReadNothing
    <3> HIDE DEF r
    <3> QED
      BY <3>1, <3>2, LockFree
  <2>17. CASE Calls!Read(t)
    <3> PICK fault \in BOOLEAN :
           call' = [call EXCEPT ![t] = [@ EXCEPT !.pc = "copy", !.fault = fault,
                                          !.count = Calls!Clipped(call[t].pos)]]
      BY <2>17 DEF Calls!Read
    <3> DEFINE r == [call[t] EXCEPT !.pc = "copy", !.fault = fault,
                                    !.count = Calls!Clipped(call[t].pos)]
    <3>0. /\ call[t].pos <= Calls!Size /\ state = "CONFIGURED" /\ sem = Nobody /\ sem' = t
          /\ UNCHANGED <<fd, vmas, f_pos, state, num>>
      BY <2>17 DEF Calls!Read, Calls!HasRead, Calls!Up
    <3>1. /\ Calls!Clipped(call[t].pos) \in Nat
          /\ call[t].pos + Calls!Clipped(call[t].pos) <= Calls!Size
      BY <3>0, ClippedFits
    <3>2. /\ r \in CallRecord /\ r.pc = "copy" /\ r.pos = call[t].pos
          /\ r.count = Calls!Clipped(call[t].pos)
      <4> DEFINE n == Calls!Clipped(call[t].pos)
      <4> n \in Int
        BY <3>1
      <4> HIDE DEF n
      <4> QED
        BY DEF n
    <3>3. call' = [call EXCEPT ![t] = r]
      OBVIOUS
    <3> HIDE DEF r
    <3>4. r.count >= 0 /\ r.pos + r.count <= Calls!Size'
      BY <3>0, <3>1, <3>2, SizeSame
    <3> QED
      BY <3>0, <3>2, <3>3, <3>4, LockTaken
  <2>18. CASE Calls!Mmap(t)
    <3> DEFINE r == [call[t] EXCEPT !.pc = "vma_open"]
    <3>1. r \in CallRecord /\ r.pc = "vma_open"
      OBVIOUS
    <3>2. /\ call' = [call EXCEPT ![t] = r] \/ call' = [call EXCEPT ![t] = Calls!Idle]
          /\ call[t].pc = "mmap" /\ UNCHANGED <<fd, vmas, f_pos, state, num, sem>>
      BY <2>18 DEF Calls!Mmap
    <3> HIDE DEF r
    <3> QED
      BY <3>1, <3>2, LockFree, IdleRecord
  <2>19. CASE Calls!VmaOpen(t)
    <3>1. vmas' \in Int
      BY <2>19 DEF Calls!VmaOpen
    <3> QED
      BY <2>19, <3>1, LockFree, IdleRecord DEF Calls!VmaOpen
  <2>20. CASE Calls!VmaClose(t)
    <3>1. vmas' \in Int /\ state' \in {"NONE", "OPEN", "CONFIGURING", "CONFIGURED"}
      BY <2>20 DEF Calls!VmaClose
    <3> QED
      BY <2>20, <3>1, LockSession, IdleRecord DEF Calls!VmaClose, Calls!Up
  <2>21. CASE Calls!Interrupted(t)
    <3> DEFINE r == [call[t] EXCEPT !.pc = "f_pos", !.err = "EINTR"]
    <3>1. r \in CallRecord /\ r.pc = "f_pos"
      OBVIOUS
    <3>2. /\ call' = [call EXCEPT ![t] = r] \/ call' = [call EXCEPT ![t] = Calls!Idle]
          /\ call[t].pc \in {"ioctl", "seek", "mmap", "read"}
          /\ UNCHANGED <<fd, vmas, f_pos, state, num, sem>>
      BY <2>21 DEF Calls!Interrupted
    <3> HIDE DEF r
    <3> QED
      BY <3>1, <3>2, LockFree, IdleRecord
  <2> QED
    BY <1>b, <2>1, <2>2, <2>3, <2>4, <2>5, <2>6, <2>7, <2>8, <2>9, <2>10, <2>11, <2>12,
       <2>13, <2>14, <2>15, <2>16, <2>17, <2>18, <2>19, <2>20, <2>21
       DEF Calls!Dispatch, Calls!Continue, Calls!Acquire
<1> QED
  BY <1>a, <1>b DEF Calls!Next

(* Opening and releasing leave the lock free. *)
LEMMA LockOpened == LockInv /\ (Calls!Open \/ Calls!Release) => LockInv'
<1> SUFFICES ASSUME LockInv, Calls!Open \/ Calls!Release PROVE LockInv'
  OBVIOUS
<1>1. CASE Calls!Open
  <2>1. \A t \in Thread : call[t].pc # "copy"
    BY <1>1 DEF Calls!Open, LockInv
  <2> QED
    BY <1>1, <2>1 DEF Calls!Open, LockInv
<1>2. CASE Calls!Release
  <2>1. \A t \in Thread : call[t].pc # "copy"
    BY <1>2 DEF Calls!Release
  <2> QED
    BY <1>2, <2>1 DEF Calls!Release, LockInv
<1> QED
  BY <1>1, <1>2

LEMMA LockSame == LockInv /\ UNCHANGED callVars => LockInv'
  BY SizeSame DEF LockInv, callVars

-----------------------------------------------------------------------------
(* The session and the module.                                             *)

(* A session ends only with its release: no call ends it, and without one  *)
(* there is no call.                                                       *)
LEMMA CallsHeld ==
  LockInv /\ HeldInv /\ Calls!Next =>
    /\ state = "NONE" <=> state' = "NONE"
    /\ state = "NONE" => ~fd' /\ vmas' = 0 /\ \A t \in Thread : call'[t].pc = "idle"
<1> SUFFICES ASSUME LockInv, HeldInv, Calls!Next
             PROVE  /\ state = "NONE" <=> state' = "NONE"
                    /\ state = "NONE" => ~fd' /\ vmas' = 0
                                         /\ \A t \in Thread : call'[t].pc = "idle"
  OBVIOUS
<1>1. CASE state = "NONE"
  <2>1. ~fd /\ vmas = 0 /\ \A t \in Thread : call[t].pc = "idle"
    BY <1>1 DEF HeldInv
  <2>2. Calls!Cardinality({u \in Thread : call[u].pc = "vma_close"}) = 0
    <3>1. {u \in Thread : call[u].pc = "vma_close"} = {}
      BY <2>1
    <3> QED
      BY <3>1, NobodyCounts
  <2>3. ASSUME NEW t \in Thread PROVE ~Calls!Dispatch(t)
    <3>1. ~Calls!DispatchMm(t)
      BY <2>1, <2>2 DEF Calls!DispatchMm
    <3> QED
      BY <2>1, <3>1
         DEF Calls!Dispatch, Calls!DispatchIoctl, Calls!DispatchRead, Calls!DispatchSeek
  <2>4. ~Calls!CloseFd
    BY <2>1 DEF Calls!CloseFd
  <2>5. ASSUME NEW t \in Thread PROVE ~Calls!Continue(t)
    BY <2>1 DEF Calls!Continue, Calls!Decode, Calls!CopyRequest, Calls!CopyFails,
                Calls!RequestDone, Calls!Copy, Calls!ReadReturns
  <2>6. ASSUME NEW t \in Thread PROVE ~Calls!Interrupted(t)
    BY <2>1 DEF Calls!Interrupted
  <2>7. ASSUME NEW t \in Thread, Calls!Acquire(t) PROVE Calls!Fault(t)
    BY <2>1, <2>7 DEF Calls!Acquire, Calls!Mark, Calls!RequestNothing, Calls!RequestStart,
                Calls!Seek, Calls!ReadNothing, Calls!Read, Calls!Mmap, Calls!VmaOpen,
                Calls!VmaClose
  <2>8. PICK t \in Thread : Calls!Fault(t)
    BY <2>3, <2>4, <2>5, <2>6, <2>7 DEF Calls!Next
  <2>9. \A u \in Thread : call'[u].pc = call[u].pc
    BY <2>8 DEF Calls!Fault, LockInv, CallRecord
  <2> QED
    BY <1>1, <2>1, <2>8, <2>9 DEF Calls!Fault, Calls!fileVars
<1>2. CASE state # "NONE"
  BY <1>2, ZenonT(60) DEF Calls!Next, Calls!CloseFd, Calls!Dispatch, Calls!DispatchIoctl,
              Calls!DispatchRead, Calls!DispatchSeek, Calls!DispatchMm, Calls!Continue,
              Calls!Decode, Calls!CopyRequest, Calls!CopyFails, Calls!RequestDone,
              Calls!Copy, Calls!ReadReturns, Calls!Acquire, Calls!Fault, Calls!Mark,
              Calls!RequestNothing, Calls!RequestStart, Calls!Seek, Calls!ReadNothing,
              Calls!Read, Calls!Mmap, Calls!VmaOpen, Calls!VmaClose, Calls!Interrupted,
              Calls!fileVars
<1> QED
  BY <1>1, <1>2

(* The module goes only without references, and an open that finds the     *)
(* cache finds the module loaded.                                          *)
LEMMA HeldKept == LifeInv /\ LockInv /\ HeldInv /\ Next => HeldInv'
<1> SUFFICES ASSUME LifeInv, LockInv, HeldInv, Next PROVE HeldInv'
  OBVIOUS
<1>1. CASE Open
  <2>1. module = "live" /\ UNCHANGED module /\ refs' > 0
    BY <1>1 DEF Open, Life!GetModule, Life!Openable, LifeInv
  <2> QED
    BY <1>1, <2>1 DEF Open, Calls!Open, HeldInv
<1>2. CASE Release
  BY <1>2 DEF Release, Calls!Release, HeldInv
<1>3. CASE Life!Next /\ UNCHANGED callVars
  <2>1. CASE state = "NONE"
    BY <1>3, <2>1 DEF HeldInv, callVars
  <2>2. CASE state # "NONE"
    <3>1. module = "live" /\ at = "-" /\ refs > 0 /\ refs \in Nat
      BY <2>2 DEF HeldInv, LifeInv
    <3>2. Life!OpenCrashes
      BY <1>3, <3>1 DEF Life!Next, Life!Initialise, Life!Uninitialise, Life!Load,
           Life!CreateClass, Life!AllocDevices, Life!FailMalloc, Life!SetupCdev,
           Life!CreateDevice, Life!CreateCache, Life!Unload, Life!DestroyClass,
           Life!DelCdev, Life!FreeDevices, Life!DestroyCache, Life!FreeRegion
    <3>3. module' = "live" /\ refs' > 0
      BY <3>1, <3>2 DEF Life!OpenCrashes
    <3> QED
      BY <1>3, <2>2, <3>3 DEF HeldInv, callVars
  <2> QED
    BY <2>1, <2>2
<1>4. CASE Calls!Next /\ UNCHANGED lifeVars
  BY <1>4, CallsHeld DEF HeldInv, lifeVars
<1> QED
  BY <1>1, <1>2, <1>3, <1>4 DEF Next

-----------------------------------------------------------------------------
(* The Client's reading.                                                   *)

LEMMA BlankView ==
  /\ Calls!Blank \in ViewRecord /\ Calls!Blank.at = "-" /\ Calls!Blank.next = 0
  /\ ~Calls!Blank.disturbed /\ ~Calls!Blank.bad
  BY DEF Calls!Blank, ViewRecord

(* What leaves the Client where it is, and the session, too, unless there  *)
(* is nothing to lose.                                                     *)
LEMMA ViewSame ==
  ASSUME ViewInv, num \in Nat, UNCHANGED <<view, fd>>,
         /\ call'[Client].pc = call[Client].pc /\ call'[Client].err = call[Client].err
         /\ call'[Client].pos = call[Client].pos /\ call'[Client].count = call[Client].count,
         \/ view.at = "-" \/ view.disturbed
         \/ /\ UNCHANGED <<state, num, f_pos>>
            /\ \A u \in Thread : call'[u].pc = "requests" => call[u].pc = "requests"
  PROVE  ViewInv'
<1>1. CASE view.at = "-" \/ view.disturbed
  BY <1>1 DEF ViewInv
<1>2. CASE /\ UNCHANGED <<state, num, f_pos>>
           /\ \A u \in Thread : call'[u].pc = "requests" => call[u].pc = "requests"
  <2>1. UNCHANGED Calls!Size /\ \A pos : Calls!Clipped(pos)' = Calls!Clipped(pos)
    BY <1>2 DEF Calls!Size, Calls!Clipped
  <2>2. (\A u \in Thread : call[u].pc # "requests")
          => \A u \in Thread : call'[u].pc # "requests"
    BY <1>2
  <2>3. Calls!Clipped(view.next)' = Calls!Clipped(view.next)
    BY <2>1, <1>2 DEF Calls!Clipped
  <2> QED
    BY <1>2, <2>1, <2>2, <2>3 DEF ViewInv
<1> QED
  BY <1>1, <1>2

(* What the Client can notice, done by another thread. *)
LEMMA ViewDisturbed ==
  ASSUME ViewInv, NEW t \in Thread, t # Client, Calls!Disturb(t), UNCHANGED fd,
         call'[Client].pc = call[Client].pc
  PROVE  ViewInv'
<1>1. CASE view.at = "-"
  BY <1>1 DEF ViewInv, Calls!Disturb
<1>2. CASE view.at # "-"
  <2>1. view' = [view EXCEPT !.disturbed = TRUE]
    BY <1>2 DEF Calls!Disturb
  <2>2. /\ view' \in ViewRecord /\ view'.disturbed
        /\ view'.at = view.at /\ view'.next = view.next /\ view'.bad = view.bad
    BY <2>1 DEF ViewInv, ViewRecord
  <2> QED
    BY <1>2, <2>2 DEF ViewInv
<1> QED
  BY <1>1, <1>2

(* The Client is not reading, before or after. *)
LEMMA ViewAbsent ==
  ASSUME ViewInv, view.at = "-", UNCHANGED view
  PROVE  ViewInv'
  BY DEF ViewInv

(* The reading ends: badly only when it has been disturbed. *)
LEMMA ViewEnds ==
  ASSUME ViewInv, NEW bad \in BOOLEAN, Calls!EndView(Client, bad), bad => view.disturbed,
         view.at # "-"
  PROVE  ViewInv'
<1>1. CASE ~bad
  <2>1. view' = Calls!Blank
    BY <1>1 DEF Calls!EndView
  <2> QED
    BY <2>1, BlankView DEF ViewInv
<1>2. CASE bad
  <2>1. view' = [Calls!Blank EXCEPT !.disturbed = view.disturbed, !.bad = TRUE]
    BY <1>2 DEF Calls!EndView
  <2>2. view' \in ViewRecord /\ view'.at = "-" /\ view'.disturbed
    BY <1>2, <2>1, BlankView DEF ViewRecord
  <2> QED
    BY <2>2 DEF ViewInv
<1> QED
  BY <1>1, <1>2

(* A step of another thread. *)
LEMMA ViewOther ==
  ASSUME LockInv, ViewInv, NEW t \in Thread, t # Client,
         \/ Calls!Dispatch(t) \/ Calls!Continue(t) \/ Calls!Acquire(t)
         \/ Calls!Interrupted(t)
  PROVE  ViewInv'
<1>1. call'[Client] = call[Client] /\ UNCHANGED fd /\ num \in Nat
  BY Threads DEF Calls!Dispatch, Calls!DispatchIoctl,
              Calls!DispatchRead, Calls!DispatchSeek, Calls!DispatchMm, Calls!Continue,
              Calls!Decode, Calls!CopyRequest, Calls!CopyFails, Calls!RequestDone,
              Calls!Copy, Calls!ReadReturns, Calls!Acquire, Calls!Fault, Calls!Mark,
              Calls!RequestNothing, Calls!RequestStart, Calls!Seek, Calls!ReadNothing,
              Calls!Read, Calls!Mmap, Calls!VmaOpen, Calls!VmaClose, Calls!Interrupted,
              Calls!fileVars, Calls!Finish, Calls!Begin, Calls!At, LockInv
<1>2. \A u \in Thread : u # t => call'[u].pc = call[u].pc
  BY DEF Calls!Dispatch, Calls!DispatchIoctl,
              Calls!DispatchRead, Calls!DispatchSeek, Calls!DispatchMm, Calls!Continue,
              Calls!Decode, Calls!CopyRequest, Calls!CopyFails, Calls!RequestDone,
              Calls!Copy, Calls!ReadReturns, Calls!Acquire, Calls!Fault, Calls!Mark,
              Calls!RequestNothing, Calls!RequestStart, Calls!Seek, Calls!ReadNothing,
              Calls!Read, Calls!Mmap, Calls!VmaOpen, Calls!VmaClose, Calls!Interrupted,
              Calls!fileVars, Calls!Finish, Calls!Begin, Calls!At, LockInv
<1>3. call[t].pc = "requests" => view.at = "-" \/ view.disturbed
  BY DEF ViewInv
<1>4. Calls!EndView(t, TRUE) \/ Calls!EndView(t, FALSE) => UNCHANGED view
  BY DEF Calls!EndView
<1> DEFINE Quiet == UNCHANGED <<state, num, f_pos, view>>
<1>5. ASSUME Quiet, call'[t].pc = "requests" => call[t].pc = "requests"
      PROVE  ViewInv'
  <2>1. \A u \in Thread : call'[u].pc = "requests" => call[u].pc = "requests"
    BY <1>2, <1>5
  <2> QED
    BY <1>1, <1>5, <2>1, ViewSame
<1>6. ASSUME Calls!Disturb(t) PROVE ViewInv'
  BY <1>1, <1>6, ViewDisturbed
<1>7. ASSUME UNCHANGED view, call[t].pc = "requests" PROVE ViewInv'
  BY <1>1, <1>3, <1>7, ViewSame
<1>8. call[t] \in CallRecord /\ call \in [Thread -> CallRecord]
  BY DEF LockInv
<1>9. CASE Calls!Dispatch(t)
  <2>1. Quiet
    BY <1>4, <1>9 DEF Calls!Dispatch, Calls!DispatchIoctl, Calls!DispatchRead,
                      Calls!DispatchSeek, Calls!DispatchMm, Calls!fileVars
  <2>2. call'[t].pc # "requests"
    <3>1. CASE Calls!DispatchIoctl(t)
      BY <1>8, <3>1, IdleRecord DEF Calls!DispatchIoctl, CallRecord
    <3>2. CASE Calls!DispatchRead(t)
      BY <1>8, <3>2, IdleRecord DEF Calls!DispatchRead, CallRecord
    <3>3. CASE Calls!DispatchSeek(t)
      BY <1>8, <3>3, IdleRecord DEF Calls!DispatchSeek, Calls!Begin, CallRecord
    <3>4. CASE Calls!DispatchMm(t)
      BY <1>8, <3>4, IdleRecord DEF Calls!DispatchMm, Calls!Begin, CallRecord
    <3> QED
      BY <1>9, <3>1, <3>2, <3>3, <3>4 DEF Calls!Dispatch
  <2> QED
    BY <1>5, <2>1, <2>2
<1>10. CASE Calls!Continue(t)
  <2>1. CASE Calls!Decode(t)
    <3>1. Quiet /\ call'[t].pc # "requests"
      BY <1>8, <2>1, IdleRecord DEF Calls!Decode, Calls!Finish, Calls!At, Calls!fileVars,
                                    CallRecord
    <3> QED
      BY <1>5, <3>1
  <2>2. CASE Calls!CopyRequest(t)
    BY <1>7, <2>2 DEF Calls!CopyRequest
  <2>3. CASE Calls!CopyFails(t)
    BY <1>7, <2>3 DEF Calls!CopyFails
  <2>4. CASE Calls!RequestDone(t)
    BY <1>7, <2>4 DEF Calls!RequestDone
  <2>5. CASE Calls!Copy(t)
    <3>1. Quiet /\ call'[t].pc # "requests"
      BY <1>8, <2>5 DEF Calls!Copy, Calls!fileVars, CallRecord
    <3> QED
      BY <1>5, <3>1
  <2>6. CASE Calls!ReadReturns(t)
    BY <1>6, <2>6 DEF Calls!ReadReturns
  <2> QED
    BY <1>10, <2>1, <2>2, <2>3, <2>4, <2>5, <2>6 DEF Calls!Continue
<1>11. CASE Calls!Acquire(t)
  <2>1. CASE Calls!Fault(t)
    <3>1. Quiet /\ call'[t].pc = call[t].pc
      BY <1>8, <2>1 DEF Calls!Fault, Calls!fileVars, CallRecord
    <3> QED
      BY <1>5, <3>1
  <2>2. CASE Calls!Mark(t)
    BY <1>5, <1>8, <2>2, IdleRecord DEF Calls!Mark, Calls!Finish, Calls!fileVars
  <2>3. CASE Calls!RequestNothing(t)
    BY <1>6, <2>3 DEF Calls!RequestNothing
  <2>4. CASE Calls!RequestStart(t)
    BY <1>6, <2>4 DEF Calls!RequestStart
  <2>5. CASE Calls!Seek(t)
    <3>1. CASE Calls!HasRead
      <4>1. Calls!Disturb(t)
        BY <2>5, <3>1 DEF Calls!Seek
      <4> QED
        BY <1>6, <4>1
    <3>2. CASE ~Calls!HasRead
      <4>1. Quiet /\ call'[t].pc # "requests"
        BY <1>4, <1>8, <2>5, <3>2, IdleRecord DEF Calls!Seek, Calls!Finish
      <4> QED
        BY <1>5, <4>1
    <3> QED
      BY <3>1, <3>2
  <2>6. CASE Calls!ReadNothing(t)
    <3>1. Quiet /\ call'[t].pc # "requests"
      BY <1>8, <2>6 DEF Calls!ReadNothing, Calls!fileVars, CallRecord
    <3> QED
      BY <1>5, <3>1
  <2>7. CASE Calls!Read(t)
    <3>1. Quiet /\ call'[t].pc # "requests"
      BY <1>8, <2>7 DEF Calls!Read, Calls!fileVars, CallRecord
    <3> QED
      BY <1>5, <3>1
  <2>8. CASE Calls!Mmap(t)
    <3>1. Quiet /\ call'[t].pc # "requests"
      BY <1>8, <2>8, IdleRecord DEF Calls!Mmap, Calls!Finish, Calls!At, Calls!fileVars,
                                    CallRecord
    <3> QED
      BY <1>5, <3>1
  <2>9. CASE Calls!VmaOpen(t)
    BY <1>5, <1>8, <2>9, IdleRecord DEF Calls!VmaOpen, Calls!Finish
  <2>10. CASE Calls!VmaClose(t)
    <3>1. /\ UNCHANGED <<num, f_pos, view>> /\ call'[t].pc # "requests"
          /\ state = "CONFIGURED" => state' = state
      BY <1>8, <2>10, IdleRecord DEF Calls!VmaClose, Calls!Finish
    <3>2. state # "CONFIGURED" => view.at = "-" \/ view.disturbed
      BY DEF ViewInv
    <3>3. CASE view.at = "-" \/ view.disturbed
      BY <1>1, <3>1, <3>3, ViewSame
    <3>4. CASE state = "CONFIGURED"
      BY <1>5, <3>1, <3>4
    <3> QED
      BY <3>2, <3>3, <3>4
  <2> QED
    BY <1>11, <2>1, <2>2, <2>3, <2>4, <2>5, <2>6, <2>7, <2>8, <2>9, <2>10
       DEF Calls!Acquire
<1>12. CASE Calls!Interrupted(t)
  <2>1. Quiet
    BY <1>4, <1>12 DEF Calls!Interrupted, Calls!fileVars
  <2>2. call'[t].pc # "requests"
    BY <1>8, <1>12, IdleRecord DEF Calls!Interrupted, Calls!Finish, CallRecord
  <2> QED
    BY <1>5, <2>1, <2>2
<1> QED
  BY <1>9, <1>10, <1>11, <1>12

(* A step of the Client, while it is not reading: only the end of a        *)
(* request, with the lock in its hand, begins a reading.                   *)
LEMMA ViewBegins ==
  ASSUME LockInv, ViewInv, view.at = "-",
         \/ Calls!Dispatch(Client) \/ Calls!Continue(Client) \/ Calls!Acquire(Client)
         \/ Calls!Interrupted(Client)
  PROVE  ViewInv'
<1>1. CASE UNCHANGED view
  BY <1>1, ViewAbsent
<1>2. CASE view' # view
  <2>1. /\ Calls!RequestDone(Client)
        /\ fd /\ view' = [Calls!Blank EXCEPT !.at = "seek"]
    BY <1>2 DEF Calls!Dispatch, Calls!DispatchIoctl,
              Calls!DispatchRead, Calls!DispatchSeek, Calls!DispatchMm, Calls!Continue,
              Calls!Decode, Calls!CopyRequest, Calls!CopyFails, Calls!RequestDone,
              Calls!Copy, Calls!ReadReturns, Calls!Acquire, Calls!Fault, Calls!Mark,
              Calls!RequestNothing, Calls!RequestStart, Calls!Seek, Calls!ReadNothing,
              Calls!Read, Calls!Mmap, Calls!VmaOpen, Calls!VmaClose, Calls!Interrupted,
              Calls!EndView, Calls!Disturb
  <2>2. /\ view' \in ViewRecord /\ view'.at = "seek" /\ view'.next = 0
        /\ ~view'.disturbed /\ ~view'.bad
    BY <2>1, BlankView DEF ViewRecord
  <2>3. /\ call[Client].pc = "requests" /\ fd' /\ state' = "CONFIGURED"
        /\ call' = [call EXCEPT ![Client] = Calls!Idle] /\ call \in [Thread -> CallRecord]
    BY <2>1 DEF Calls!RequestDone, Calls!Finish, LockInv
  <2>4. \A t \in Thread : t # Client => call[t].pc # "requests"
    BY <2>3, Threads DEF LockInv
  <2>5. \A t \in Thread : call'[t].pc # "requests"
    BY <2>3, <2>4, IdleRecord
  <2>6. call'[Client].pc = "idle"
    BY <2>3, IdleRecord, Threads
  <2> QED
    BY <2>2, <2>3, <2>5, <2>6 DEF ViewInv
<1> QED
  BY <1>1, <1>2

(* The Client between its request and its first read: it seeks to 0. *)
LEMMA ViewSeeks ==
  ASSUME LockInv, ViewInv, view.at = "seek",
         \/ Calls!Dispatch(Client) \/ Calls!Continue(Client) \/ Calls!Acquire(Client)
         \/ Calls!Interrupted(Client)
  PROVE  ViewInv'
<1>1. /\ call[Client].pc \in {"idle", "seek"} /\ fd /\ Client \in Thread
      /\ call[Client] \in CallRecord /\ call \in [Thread -> CallRecord] /\ num \in Nat
  BY Threads DEF ViewInv, LockInv
<1>2. \/ Calls!DispatchSeek(Client) \/ Calls!Fault(Client) \/ Calls!Seek(Client)
      \/ Calls!Interrupted(Client)
  BY <1>1 DEF Calls!Dispatch, Calls!DispatchIoctl,
              Calls!DispatchRead, Calls!DispatchMm, Calls!Continue,
              Calls!Decode, Calls!CopyRequest, Calls!CopyFails, Calls!RequestDone,
              Calls!Copy, Calls!ReadReturns, Calls!Acquire, Calls!Mark,
              Calls!RequestNothing, Calls!RequestStart, Calls!ReadNothing,
              Calls!Read, Calls!Mmap, Calls!VmaOpen, Calls!VmaClose, Calls!May
<1>3. ~view.disturbed => Calls!HasRead
  BY <1>1 DEF ViewInv, Calls!HasRead
<1>4. ASSUME ~Calls!HasRead, Calls!EndView(Client, TRUE) PROVE ViewInv'
  <2>1. TRUE \in BOOLEAN /\ view.disturbed
    BY <1>3, <1>4
  <2> QED
    BY <1>4, <2>1, ViewEnds
<1>5. (\A u \in Thread : u # Client => call'[u] = call[u]) => 
        ((\A u \in Thread : call[u].pc # "requests") /\ call'[Client].pc # "requests"
           => \A u \in Thread : call'[u].pc # "requests")
  OBVIOUS
<1>6. CASE Calls!DispatchSeek(Client)
  <2>1. CASE Calls!HasRead
    <3>1. /\ call' = [call EXCEPT ![Client] = [Calls!Idle EXCEPT !.pc = "seek"]]
          /\ UNCHANGED <<fd, state, num, f_pos, view>>
      BY <1>6, <2>1 DEF Calls!DispatchSeek, Calls!Begin, Calls!fileVars
    <3>2. call'[Client].pc = "seek" /\ \A u \in Thread : u # Client => call'[u] = call[u]
      BY <1>1, <3>1, IdleRecord DEF CallRecord
    <3> QED
      BY <1>1, <1>5, <3>1, <3>2 DEF ViewInv
  <2>2. CASE ~Calls!HasRead
    BY <1>4, <1>6, <2>2 DEF Calls!DispatchSeek
  <2> QED
    BY <2>1, <2>2
<1>7. CASE Calls!Fault(Client)
  <2>1. /\ \A u \in Thread : call'[u].pc = call[u].pc
        /\ call'[Client].pos = call[Client].pos /\ call'[Client].err = call[Client].err
        /\ call'[Client].count = call[Client].count
    BY <1>1, <1>7 DEF Calls!Fault, CallRecord
  <2>2. UNCHANGED <<fd, state, num, f_pos, view>>
    BY <1>7 DEF Calls!Fault, Calls!fileVars
  <2> QED
    BY <1>1, <2>1, <2>2, ViewSame
<1>8. CASE Calls!Seek(Client)
  <2>1. CASE Calls!HasRead
    <3>1. /\ call' = [call EXCEPT ![Client] = Calls!Idle] /\ f_pos' = 0
          /\ view' = [view EXCEPT !.at = "read"] /\ UNCHANGED <<fd, state, num>>
      BY <1>8, <2>1 DEF Calls!Seek, Calls!Finish
    <3>2. /\ call'[Client].pc = "idle" /\ \A u \in Thread : u # Client => call'[u] = call[u]
      BY <1>1, <3>1, IdleRecord
    <3>3. /\ view' \in ViewRecord /\ view'.at = "read" /\ view'.next = view.next
          /\ view'.disturbed = view.disturbed /\ view'.bad = view.bad
      BY <3>1 DEF ViewInv, ViewRecord
    <3>4. 0 <= Calls!Size'
      <4>1. num' \in Nat /\ StatusSize \in Nat
        BY <1>1, <3>1, Sizes
      <4>2. \A a, b \in Nat : 0 <= a * b
        BY Z3
      <4>3. Calls!Size' = num' * StatusSize
        BY DEF Calls!Size
      <4> QED
        BY <4>1, <4>2, <4>3
    <3>5. ~view.disturbed => view'.next = f_pos' /\ view'.next <= Calls!Size'
      BY <3>1, <3>3, <3>4 DEF ViewInv
    <3> QED
      BY <1>1, <1>5, <3>1, <3>2, <3>3, <3>5 DEF ViewInv
  <2>2. CASE ~Calls!HasRead
    BY <1>4, <1>8, <2>2 DEF Calls!Seek
  <2> QED
    BY <2>1, <2>2
<1>9. CASE Calls!Interrupted(Client)
  <2>1. Calls!EndView(Client, FALSE)
    BY <1>1, <1>9 DEF Calls!Interrupted
  <2> QED
    BY <2>1, ViewEnds
<1> QED
  BY <1>2, <1>6, <1>7, <1>8, <1>9

(* The Client reads: what it gets begins where the last read has ended,    *)
(* and nothing comes only at the end.                                      *)
LEMMA ViewReads ==
  ASSUME LockInv, ViewInv, view.at = "read",
         \/ Calls!Dispatch(Client) \/ Calls!Continue(Client) \/ Calls!Acquire(Client)
         \/ Calls!Interrupted(Client)
  PROVE  ViewInv'
<1>1. /\ call[Client].pc \in {"idle", "read", "copy", "f_pos"} /\ fd /\ Client \in Thread
      /\ call[Client] \in CallRecord /\ call \in [Thread -> CallRecord] /\ num \in Nat
      /\ view \in ViewRecord
  BY Threads DEF ViewInv, LockInv
<1>2. \/ Calls!DispatchRead(Client) \/ Calls!Fault(Client) \/ Calls!ReadNothing(Client)
      \/ Calls!Read(Client) \/ Calls!Copy(Client) \/ Calls!ReadReturns(Client)
      \/ Calls!Interrupted(Client)
  BY <1>1 DEF Calls!Dispatch, Calls!DispatchIoctl,
              Calls!DispatchSeek, Calls!DispatchMm, Calls!Continue,
              Calls!Decode, Calls!CopyRequest, Calls!CopyFails, Calls!RequestDone,
              Calls!Acquire, Calls!Mark,
              Calls!RequestNothing, Calls!RequestStart, Calls!Seek,
              Calls!Mmap, Calls!VmaOpen, Calls!VmaClose, Calls!May
<1>3. ~view.disturbed =>
        /\ Calls!HasRead /\ f_pos = view.next /\ view.next <= Calls!Size
        /\ \A u \in Thread : call[u].pc # "requests"
  BY DEF ViewInv, Calls!HasRead
(* What a step has to show that leaves the session and the view alone. *)
<1>4. ASSUME UNCHANGED <<fd, state, num, f_pos, view>>,
             \A u \in Thread : u # Client => call'[u] = call[u],
             call'[Client].pc \in {"read", "copy", "f_pos"},
             ~view.disturbed =>
               /\ call'[Client].pc \in {"read", "copy"} =>
                    call'[Client].pos = view.next /\ call'[Client].err = "-"
               /\ call'[Client].pc = "copy" =>
                    call'[Client].count = Calls!Clipped(view.next)
               /\ call'[Client].pc = "f_pos" =>
                    \/ call'[Client].err = "EINTR"
                    \/ /\ call'[Client].err = "-"
                       /\ call'[Client].pos = view.next + call'[Client].count
                       /\ call'[Client].count = Calls!Clipped(view.next)
      PROVE  ViewInv'
  <2>1. UNCHANGED Calls!Size /\ Calls!Clipped(view.next)' = Calls!Clipped(view.next)
    BY <1>4 DEF Calls!Size, Calls!Clipped
  <2>2. ~view.disturbed => \A u \in Thread : call'[u].pc # "requests"
    BY <1>3, <1>4
  <2> QED
    BY <1>1, <1>4, <2>1, <2>2 DEF ViewInv
<1>5. CASE Calls!DispatchRead(Client)
  <2> DEFINE r == [Calls!Idle EXCEPT !.pos = f_pos,
                     !.pc = IF Calls!HasRead THEN "read" ELSE "f_pos",
                     !.err = IF Calls!HasRead THEN "-" ELSE "EIO"]
  <2>1. /\ r.pc \in {"read", "f_pos"} /\ r.pos = f_pos
        /\ Calls!HasRead => r.pc = "read" /\ r.err = "-"
    BY IdleRecord DEF CallRecord
  <2>2. call' = [call EXCEPT ![Client] = r] /\ UNCHANGED <<fd, state, num, f_pos, view>>
    BY <1>5 DEF Calls!DispatchRead, Calls!fileVars
  <2> HIDE DEF r
  <2>3. call'[Client] = r /\ \A u \in Thread : u # Client => call'[u] = call[u]
    BY <1>1, <2>2
  <2> QED
    BY <1>3, <1>4, <2>1, <2>2, <2>3
<1>6. CASE Calls!Fault(Client)
  <2>1. /\ \A u \in Thread : call'[u].pc = call[u].pc
        /\ call'[Client].pos = call[Client].pos /\ call'[Client].err = call[Client].err
        /\ call'[Client].count = call[Client].count
    BY <1>1, <1>6 DEF Calls!Fault, CallRecord
  <2>2. UNCHANGED <<fd, state, num, f_pos, view>>
    BY <1>6 DEF Calls!Fault, Calls!fileVars
  <2> QED
    BY <1>1, <2>1, <2>2, ViewSame
<1>7. CASE Calls!ReadNothing(Client)
  <2>1. call[Client].pc = "read" /\ (~Calls!HasRead \/ call[Client].pos > Calls!Size)
    BY <1>7 DEF Calls!ReadNothing
  <2>2. view.disturbed
    <3>1. ~view.disturbed => call[Client].pos = view.next
      BY <2>1 DEF ViewInv
    <3>2. view.next \in Int /\ Calls!Size \in Int
      BY <1>1, SizeInt DEF ViewRecord
    <3> QED
      BY <1>1, <1>3, <2>1, <3>1, <3>2
  <2>3. /\ UNCHANGED <<fd, state, num, f_pos, view>> /\ call'[Client].pc = "f_pos"
        /\ \A u \in Thread : u # Client => call'[u] = call[u]
    BY <1>1, <1>7 DEF Calls!ReadNothing, Calls!fileVars, CallRecord
  <2> QED
    BY <1>4, <2>2, <2>3
<1>8. CASE Calls!Read(Client)
  <2>1. call[Client].pc = "read" /\ UNCHANGED <<fd, state, num, f_pos, view>>
    BY <1>8 DEF Calls!Read, Calls!fileVars
  <2> PICK fault \in BOOLEAN :
         call' = [call EXCEPT ![Client] = [@ EXCEPT !.pc = "copy", !.fault = fault,
                                             !.count = Calls!Clipped(call[Client].pos)]]
    BY <1>8 DEF Calls!Read
  <2> DEFINE n == Calls!Clipped(call[Client].pos)
             r == [call[Client] EXCEPT !.pc = "copy", !.fault = fault, !.count = n]
  <2>2. r.pc = "copy" /\ r.pos = call[Client].pos /\ r.err = call[Client].err /\ r.count = n
    <3> HIDE DEF n
    <3> QED
      BY <1>1 DEF CallRecord
  <2>3. call' = [call EXCEPT ![Client] = r]
    OBVIOUS
  <2> HIDE DEF r
  <2>4. call'[Client] = r /\ \A u \in Thread : u # Client => call'[u] = call[u]
    BY <1>1, <2>3
  <2>5. ~view.disturbed => /\ call[Client].pos = view.next /\ call[Client].err = "-"
    BY <2>1 DEF ViewInv
  <2> QED
    BY <1>4, <2>1, <2>2, <2>4, <2>5
<1>9. CASE Calls!Copy(Client)
  <2>1. /\ call[Client].pc = "copy" /\ UNCHANGED <<fd, state, num, f_pos, view>>
        /\ call' = [call EXCEPT ![Client].pc = "f_pos", ![Client].pos = @ + call[Client].count]
    BY <1>9 DEF Calls!Copy, Calls!fileVars
  <2>2. /\ call'[Client].pc = "f_pos" /\ call'[Client].err = call[Client].err
        /\ call'[Client].count = call[Client].count
        /\ call'[Client].pos = call[Client].pos + call[Client].count
        /\ \A u \in Thread : u # Client => call'[u] = call[u]
    BY <1>1, <2>1 DEF CallRecord
  <2>3. ~view.disturbed => /\ call[Client].pos = view.next /\ call[Client].err = "-"
                           /\ call[Client].count = Calls!Clipped(view.next)
    BY <2>1 DEF ViewInv
  <2> QED
    BY <1>4, <2>1, <2>2, <2>3
<1>10. CASE Calls!Interrupted(Client)
  <2>1. /\ call[Client].pc = "read" /\ UNCHANGED <<fd, state, num, f_pos, view>>
        /\ call' = [call EXCEPT ![Client].pc = "f_pos", ![Client].err = "EINTR"]
    BY <1>1, <1>10 DEF Calls!Interrupted, Calls!fileVars
  <2>2. /\ call'[Client].pc = "f_pos" /\ call'[Client].err = "EINTR"
        /\ \A u \in Thread : u # Client => call'[u] = call[u]
    BY <1>1, <2>1 DEF CallRecord
  <2> QED
    BY <1>4, <2>1, <2>2
<1>11. CASE Calls!ReadReturns(Client)
  <2> DEFINE c == call[Client]
  <2>1. /\ c.pc = "f_pos" /\ f_pos' = c.pos /\ UNCHANGED <<fd, state, num>>
        /\ call' = [call EXCEPT ![Client] = Calls!Idle]
    BY <1>11 DEF Calls!ReadReturns, Calls!Finish
  <2>2. ~view.disturbed => \/ c.err = "EINTR"
                           \/ /\ c.err = "-" /\ c.pos = view.next + c.count
                              /\ c.count = Calls!Clipped(view.next)
    BY <2>1 DEF ViewInv
  <2>3. /\ c.pos \in Int /\ c.count \in Int /\ c.err \in {"-", "EIO", "EINTR"}
        /\ view.next \in Int /\ view.disturbed \in BOOLEAN /\ Calls!Size \in Int
    BY <1>1, SizeInt DEF CallRecord, ViewRecord
  <2>4. ~view.disturbed => /\ Calls!Clipped(view.next) = 0 => view.next = Calls!Size
                           /\ view.next + Calls!Clipped(view.next) <= Calls!Size
    BY <1>1, <1>3, <2>3, ClippedFits
  <2>5. CASE c.err # "-"
    <3>1. Calls!EndView(Client, c.err = "EIO")
      BY <1>11, <2>5 DEF Calls!ReadReturns
    <3>2. (c.err = "EIO") \in BOOLEAN /\ (c.err = "EIO" => view.disturbed)
      BY <2>2, <2>3
    <3> QED
      BY <3>1, <3>2, ViewEnds
  <2>6. CASE c.err = "-" /\ c.count = 0
    <3>1. Calls!EndView(Client, view.next # Calls!Size)
      BY <1>11, <2>6 DEF Calls!ReadReturns
    <3>2. (view.next # Calls!Size) \in BOOLEAN /\ (view.next # Calls!Size => view.disturbed)
      BY <2>2, <2>3, <2>4, <2>6
    <3> QED
      BY <3>1, <3>2, ViewEnds
  <2>7. CASE c.err = "-" /\ c.count # 0
    <3> DEFINE n == IF c.pos - c.count = view.next THEN c.pos ELSE -1
    <3>1. view' = [view EXCEPT !.next = n]
      BY <1>11, <2>7 DEF Calls!ReadReturns
    <3>2. n \in Int /\ (~view.disturbed => n = c.pos /\ n <= Calls!Size)
      BY <2>2, <2>3, <2>4, <2>7
    <3> HIDE DEF n
    <3>3. /\ view' \in ViewRecord /\ view'.at = "read" /\ view'.next = n
          /\ view'.disturbed = view.disturbed /\ view'.bad = view.bad
      BY <1>1, <3>1, <3>2 DEF ViewRecord
    <3>4. /\ call'[Client].pc = "idle" /\ \A u \in Thread : u # Client => call'[u] = call[u]
      BY <1>1, <2>1, IdleRecord
    <3>5. ~view.disturbed => \A u \in Thread : call'[u].pc # "requests"
      BY <1>3, <3>4
    <3>6. UNCHANGED Calls!Size
      BY <2>1, SizeSame
    <3> QED
      BY <1>1, <2>1, <3>2, <3>3, <3>4, <3>5, <3>6 DEF ViewInv
  <2> QED
    BY <2>5, <2>6, <2>7
<1> QED
  BY <1>2, <1>5, <1>6, <1>7, <1>8, <1>9, <1>10, <1>11

(* Only the Client's own file matters to its view: opening, closing, and   *)
(* the life of the module do not disturb it.                               *)
LEMMA ViewKept == LockInv /\ HeldInv /\ ViewInv /\ Next => ViewInv'
<1> SUFFICES ASSUME LockInv, HeldInv, ViewInv, Next PROVE ViewInv'
  OBVIOUS
<1>1. CASE Open \/ Release
  <2>1. ~fd /\ UNCHANGED view
    BY <1>1 DEF Open, Release, Calls!Open, Calls!Release, HeldInv
  <2>2. view.at = "-"
    BY <2>1 DEF ViewInv
  <2> QED
    BY <2>1, <2>2, ViewAbsent
<1>2. CASE UNCHANGED callVars
  BY <1>2, ViewSame DEF callVars, LockInv
<1>3. CASE Calls!CloseFd
  <2>1. view' = Calls!Blank
    BY <1>3 DEF Calls!CloseFd
  <2> QED
    BY <2>1, BlankView DEF ViewInv
<1>4. ASSUME NEW t \in Thread,
             \/ Calls!Dispatch(t) \/ Calls!Continue(t) \/ Calls!Acquire(t)
             \/ Calls!Interrupted(t)
      PROVE  ViewInv'
  <2>1. view.at \in {"-", "seek", "read"}
    BY DEF ViewInv, ViewRecord
  <2> QED
    BY <1>4, <2>1, ViewOther, ViewBegins, ViewSeeks, ViewReads
<1> QED
  BY <1>1, <1>2, <1>3, <1>4 DEF Next, Calls!Next

-----------------------------------------------------------------------------
(* The invariant, and what follows from it.                                *)

LEMMA DeviceInit == Init => DeviceInv
<1> SUFFICES ASSUME Init PROVE DeviceInv
  OBVIOUS
<1>1. LifeInv
  BY LifeInit DEF Init
<1>2. /\ call = [t \in Thread |-> Calls!Idle] /\ view = Calls!Blank
      /\ fd = FALSE /\ state = "NONE" /\ num = 0 /\ vmas = 0 /\ sem = Nobody /\ f_pos = 0
  BY DEF Init, Calls!Init
<1>3. \A t \in Thread : call[t] \in CallRecord /\ call[t].pc = "idle"
  BY <1>2, IdleRecord
<1>4. LockInv
  <2>1. call \in [Thread -> CallRecord]
    BY <1>2, IdleRecord
  <2>0. fd \in BOOLEAN
    BY <1>2
  <2>2. /\ state \in {"NONE", "OPEN", "CONFIGURING", "CONFIGURED"}
        /\ num \in Nat /\ vmas \in Int /\ f_pos \in Int /\ sem \in Thread \cup {Nobody}
    BY <1>2
  <2>3. \A t \in Thread : sem # t /\ call[t].pc \notin {"requests", "copy"}
    BY <1>2, <1>3, Threads
  <2> QED
    BY <2>0, <2>1, <2>2, <2>3 DEF LockInv
<1>5. HeldInv
  BY <1>2, <1>3 DEF HeldInv
<1>6. ViewInv
  BY <1>2, BlankView DEF ViewInv
<1> QED
  BY <1>1, <1>4, <1>5, <1>6 DEF DeviceInv

LEMMA DeviceKept == DeviceInv /\ [Next]_vars => DeviceInv'
<1> SUFFICES ASSUME DeviceInv, [Next]_vars PROVE DeviceInv'
  OBVIOUS
<1> USE DEF DeviceInv
<1>1. CASE Next
  <2>1. LifeInv'
    BY <1>1, LifeKept, LifeReferred, LifeSame DEF Next, Open, Release
  <2>2. LockInv'
    BY <1>1, LockKept, LockOpened, LockSame DEF Next, Open, Release
  <2>3. HeldInv' /\ ViewInv'
    BY <1>1, HeldKept, ViewKept
  <2> QED
    BY <2>1, <2>2, <2>3
<1>2. CASE UNCHANGED vars
  <2>1. LifeInv' /\ LockInv'
    BY <1>2, LifeSame, LockSame DEF vars
  <2>2. HeldInv'
    BY <1>2 DEF vars, lifeVars, callVars, HeldInv
  <2>3. ViewInv'
    BY <1>2, ViewSame DEF vars, callVars, LockInv
  <2> QED
    BY <2>1, <2>2, <2>3
<1> QED
  BY <1>1, <1>2

LEMMA DeviceAlways == Spec => []DeviceInv
  BY DeviceInit, DeviceKept, PTL DEF Spec

(* Whatever step of phys_mem_init fails, and in whatever order opens and   *)
(* rmmod come: the character device never outlives its structure or its    *)
(* number, and a module that is gone has left nothing but, perhaps, the    *)
(* class.                                                                  *)
THEOREM RegisteredAlways == Spec => []Registered
<1>1. DeviceInv => Registered
  BY DEF DeviceInv, LifeInv, Loading, Undoing, Registered, Life!Registered, Life!Backed,
         Life!NothingLeft
<1> QED
  BY <1>1, DeviceAlways, PTL

(* A session has the module and its cache from open to release. *)
THEOREM ModuleStays == Spec => []SessionHasModule
<1>1. DeviceInv => SessionHasModule
  BY DEF DeviceInv, LifeInv, HeldInv, SessionHasModule
<1> QED
  BY <1>1, DeviceAlways, PTL

(* read copies nothing but statuses to the user, for every position a seek *)
(* or another read can have left, and nobody replaces them meanwhile.      *)
THEOREM ReadsInArray == Spec => []InArray
<1>1. DeviceInv => InArray
  BY DEF DeviceInv, LockInv, InArray, Calls!InArray
<1> QED
  BY <1>1, DeviceAlways, PTL

(* The library's way to read a configuration is right, for every size of a *)
(* status and of a read, unless another thread disturbs it.                *)
THEOREM ReadsWhole == Spec => []WholeConfiguration
<1>1. DeviceInv => WholeConfiguration
  BY DEF DeviceInv, ViewInv, WholeConfiguration, Calls!WholeConfiguration
<1> QED
  BY <1>1, DeviceAlways, PTL
=============================================================================
