------------------------------- MODULE PhysMem -------------------------------
(***************************************************************************)
(* The core of the phys_mem character device: sessions, the threads inside *)
(* its handlers, the page frames they claim and the VMAs that map them.    *)
(*                                                                         *)
(* A session is created by open(2) and destroyed by the last release.  In  *)
(* between, threads call ioctl (REQUEST_PAGES, MARK_FRAME_BAD) and mmap on *)
(* it.  The dispatcher picks a handler from the session state WITHOUT the  *)
(* session lock; the handler takes the lock and looks at the state again.  *)
(* REQUEST_PAGES keeps the lock while it claims one frame after the other  *)
(* from the buddy allocator, which the rest of the kernel uses too.        *)
(*                                                                         *)
(* A step of a thread is what it does up to the next point where another   *)
(* actor can see or change what it depends on: the semaphore, the          *)
(* zone lock, the fault of a user page.  The requests are those the        *)
(* memtester issues (main.py:220): a frame may be claimed from the buddy   *)
(* allocator only, so the hwpoison claimer always declines.                *)
(***************************************************************************)
EXTENDS Integers, FiniteSets

CONSTANTS
  Session,      \* slots for session objects (session_mem_cache)
  Thread,       \* tasks that share the open files, of one process or several
  Page,         \* the page frames that matter
  Vma,          \* slots for virtual memory areas of the device
  MaxReq,       \* bound: frames in one request
  Lengths,      \* bound: the lengths, in pages, asked of mmap
  StatusSize,   \* sizeof(struct phys_mem_frame_status)
  PageSize,     \* PAGE_SIZE
  SizeMax,      \* the largest size_t
  MceEvents,    \* may memory_failure() poison frames that are free?
  NoPage, NoSession, NoVma,     \* NULL
  Nobody,       \* the semaphore is up
  Closer        \* the task inside phys_mem_release

ASSUME SetsFinite   == IsFiniteSet(Page) /\ IsFiniteSet(Vma) /\ IsFiniteSet(Thread)
ASSUME NullsDistinct == /\ NoPage \notin Page /\ NoSession \notin Session
                        /\ NoVma \notin Vma
                        /\ Nobody \notin Thread /\ Closer \notin Thread
                        /\ Nobody # Closer
ASSUME BoundsOK     == /\ MaxReq \in Nat \ {0} /\ Lengths \subseteq Nat \ {0}
                       /\ StatusSize \in Nat \ {0} /\ PageSize \in Nat \ {0}
                       /\ SizeMax \in Nat
                       /\ MceEvents \in BOOLEAN

(* What num_requests of the program's own requests keep to; the module     *)
(* multiplies without a test (phys_mem_int.h:96), and allocates too little *)
(* for a number beyond that.                                               *)
ASSUME RequestsFit == MaxReq * StatusSize <= SizeMax

VARIABLES
  (* struct phys_mem_session, and whether a descriptor refers to its file *)
  state, sem, vmas, num, stati, fd,
  (* the handler a thread is in, with the locals that outlive a step *)
  call,
  (* VMAs: the session whose file they map, and the frames in their ptes *)
  vown, vpages,
  (* frames: on a buddy free list, used by the rest of the kernel,        *)
  (* PageHWPoison, page->_count                                           *)
  buddy, kern, poison, count

sessionVars == <<state, sem, vmas, num, stati, fd>>
vmaVars     == <<vown, vpages>>
frameVars   == <<buddy, kern, poison, count>>
vars == <<state, sem, vmas, num, stati, fd, call, vown, vpages,
          buddy, kern, poison, count>>

-----------------------------------------------------------------------------
(* "NONE" is a slot without a session object. *)
States == {"NONE", "CLOSED", "OPEN", "CONFIGURING", "CONFIGURED", "MAPPED"}
Sources == {"BUDDY", "INVALID_PFN", "NOT_MAPPABLE"}
Idx == 1..MaxReq

Status == [page : Page \cup {NoPage}, src : SUBSET Sources, off : 0..MaxReq]
Blank  == [page |-> NoPage, src |-> {}, off |-> 0]
Blanks == [i \in Idx |-> Blank]

(* Where a thread is.  "EIO": the dispatcher refused the call; "EINVAL":   *)
(* the handler did.  Other results go straight back to "idle".             *)
PCs == {"idle", "EIO", "EINVAL", "request", "claim", "take", "mark",
        "mmap", "unmap", "vma_open", "vma_close"}
Call == [pc : PCs, sess : Session \cup {NoSession}, idx : 0..MaxReq + 1,
         off : 0..MaxReq, page : Page \cup {NoPage}, area : Vma \cup {NoVma}]
Idle == [pc |-> "idle", sess |-> NoSession, idx |-> 0, off |-> 0,
         page |-> NoPage, area |-> NoVma]

Up(s)   == sem[s] = Nobody
Ours(t) == call[t].sess

(* The frames a session has claimed, and everybody who refers to a frame. *)
Held(s)     == {stati[s][i].page : i \in Idx} \ {NoPage}
Claims(p)   == {c \in Session \X Idx : stati[c[1]][c[2]].page = p}
Mappings(p) == {v \in Vma : p \in vpages[v]}

(* __free_pages / put_page on one reference of each frame of ps.  A frame  *)
(* whose last reference goes returns to the buddy allocator, unless it is  *)
(* poisoned: free_pages_check keeps such a frame out of the free lists.    *)
PutPages(ps) ==
  /\ count' = [p \in Page |-> IF p \in ps THEN count[p] - 1 ELSE count[p]]
  /\ buddy' = buddy \cup {p \in ps : count[p] = 1 /\ p \notin poison}
  /\ UNCHANGED <<kern, poison>>

(* Mutant of FreePageStati: a frame that is mapped as well is kept. *)
FreeUnmappedStati(s) == PutPages({p \in Held(s) : count[p] = 1})

(* free_page_stati: drop the reference of every claimed frame that has one. *)
FreePageStati(s) == PutPages({p \in Held(s) : count[p] > 0})

(* How many stati there are in the array that is allocated for n of them:  *)
(* the product is a size_t.                                                *)
Room(n) == ((n * StatusSize) % (SizeMax + 1)) \div StatusSize

(* An array of n blank stati; those in stati[s] behind it do not exist. *)
NewStati(s, n) == /\ stati' = [stati EXCEPT ![s] = Blanks]
                  /\ num'   = [num EXCEPT ![s] = n]

(* A thread enters a handler, goes on in it, leaves it. *)
Enter(t, pc, s, p, v) ==
  call' = [call EXCEPT ![t] = [pc |-> pc, sess |-> s, idx |-> 0, off |-> 0,
                               page |-> p, area |-> v]]
At(t, pc)     == call' = [call EXCEPT ![t] = [@ EXCEPT !.pc = pc]]
Finish(t, pc) == Enter(t, pc, NoSession, NoPage, NoVma)

Init ==
  /\ state = [s \in Session |-> "NONE"]
  /\ sem   = [s \in Session |-> Nobody]
  /\ vmas  = [s \in Session |-> 0]
  /\ num   = [s \in Session |-> 0]
  /\ stati = [s \in Session |-> Blanks]
  /\ fd    = [s \in Session |-> FALSE]
  /\ call  = [t \in Thread |-> Idle]
  /\ vown  = [v \in Vma |-> NoSession]
  /\ vpages = [v \in Vma |-> {}]
  /\ buddy = Page /\ kern = {} /\ poison = {}
  /\ count = [p \in Page |-> 0]

-----------------------------------------------------------------------------
(* open(2), the close of the last descriptor, and the dispatchers.         *)

Open(s) ==
  /\ state[s] = "NONE"
  /\ state' = [state EXCEPT ![s] = "OPEN"]
  /\ fd'    = [fd EXCEPT ![s] = TRUE]
  /\ UNCHANGED <<sem, vmas, num, stati, call, vmaVars, frameVars>>

CloseFd(s) ==
  /\ fd[s]
  /\ fd' = [fd EXCEPT ![s] = FALSE]
  /\ UNCHANGED <<state, sem, vmas, num, stati, call, vmaVars, frameVars>>

(* fops_by_session_state: who may be called in which state. *)
HasIoctl(st) == st \in {"OPEN", "CONFIGURED"}
HasMmap(st)  == st \in {"CONFIGURED", "MAPPED"}

DispatchIoctl(t, s) ==
  /\ call[t].pc = "idle" /\ fd[s] /\ HasIoctl(state[s])
  /\ \/ Enter(t, "request", s, NoPage, NoVma)
     \/ \E bad_pfn \in Page : Enter(t, "mark", s, bad_pfn, NoVma)
  /\ UNCHANGED <<sessionVars, vmaVars, frameVars>>

(* mmap(2) makes the VMA and gives it the file before it calls the driver. *)
DispatchMmap(t, s, v) ==
  /\ call[t].pc = "idle" /\ fd[s] /\ HasMmap(state[s])
  /\ vown[v] = NoSession
  /\ vown' = [vown EXCEPT ![v] = s]
  /\ Enter(t, "mmap", s, NoPage, v)
  /\ UNCHANGED <<sessionVars, vpages, frameVars>>

DispatchRefused(t, s) ==
  /\ call[t].pc = "idle" /\ fd[s]
  /\ ~HasIoctl(state[s]) \/ ~HasMmap(state[s])
  /\ Enter(t, "EIO", s, NoPage, NoVma)
  /\ UNCHANGED <<sessionVars, vmaVars, frameVars>>

Return(t) ==
  /\ call[t].pc \in {"EIO", "EINVAL"}
  /\ Finish(t, "idle")
  /\ UNCHANGED <<sessionVars, vmaVars, frameVars>>

(* down_interruptible gives up only when it has to wait. *)
Interrupted(t) ==
  /\ call[t].pc \in {"request", "mark", "mmap"} /\ ~Up(Ours(t))
  /\ Finish(t, "idle")
  /\ vown' = [v \in Vma |-> IF v = call[t].area THEN NoSession ELSE vown[v]]
  /\ UNCHANGED <<sessionVars, vpages, frameVars>>

-----------------------------------------------------------------------------
(* handle_request_pages                                                    *)

Requestable(t) == /\ call[t].pc = "request" /\ Up(Ours(t))
                  /\ state[Ours(t)] \in {"OPEN", "CONFIGURED"}

DropOldStati(s) == IF state[s] = "CONFIGURED" THEN FreePageStati(s)
                                              ELSE UNCHANGED frameVars

(* No frames requested, or vmalloc failed: back to OPEN with no stati. *)
(* RequestNothingStuck, a mutant: the early exit forgets the state. *)
RequestNothingStuck(t) ==
  LET s == Ours(t) IN
  /\ Requestable(t)
  /\ DropOldStati(s) /\ NewStati(s, 0)
  /\ state' = [state EXCEPT ![s] = "CONFIGURING"]
  /\ Finish(t, "idle")
  /\ UNCHANGED <<sem, vmas, fd, vmaVars>>

RequestNothing(t) ==
  LET s == Ours(t) IN
  /\ Requestable(t)
  /\ DropOldStati(s) /\ NewStati(s, 0)
  /\ state' = [state EXCEPT ![s] = "OPEN"]
  /\ Finish(t, "idle")
  /\ UNCHANGED <<sem, vmas, fd, vmaVars>>

(* Mutant of RequestStart: the new stati are not cleared. *)
RequestStartStale(t) ==
  LET s == Ours(t) IN
  /\ Requestable(t)
  /\ DropOldStati(s)
  /\ \E n \in Idx : num' = [num EXCEPT ![s] = n]
  /\ state' = [state EXCEPT ![s] = "CONFIGURING"]
  /\ sem'   = [sem EXCEPT ![s] = t]
  /\ call'  = [call EXCEPT ![t] = [@ EXCEPT !.pc = "claim", !.idx = 1, !.off = 0]]
  /\ UNCHANGED <<vmas, stati, fd, vmaVars>>

RequestStart(t) ==
  LET s == Ours(t) IN
  /\ Requestable(t)
  /\ DropOldStati(s)
  /\ \E n \in Idx : NewStati(s, n)
  /\ state' = [state EXCEPT ![s] = "CONFIGURING"]
  /\ sem'   = [sem EXCEPT ![s] = t]
  /\ call'  = [call EXCEPT ![t] = [@ EXCEPT !.pc = "claim", !.idx = 1, !.off = 0]]
  /\ UNCHANGED <<vmas, fd, vmaVars>>

(* Mutant of Claiming: one round too many. *)
ClaimingTooMany(t) == call[t].pc = "claim" /\ call[t].idx <= num[Ours(t)] + 1

Claiming(t) == call[t].pc = "claim" /\ call[t].idx <= num[Ours(t)]

(* Mutants of CopyFault: the error path keeps the frames, or the lock. *)
CopyFaultLeaks(t) ==
  /\ Claiming(t)
  /\ state' = [state EXCEPT ![Ours(t)] = "OPEN"]
  /\ sem'   = [sem EXCEPT ![Ours(t)] = Nobody]
  /\ Finish(t, "idle")
  /\ UNCHANGED <<vmas, num, stati, fd, vmaVars, frameVars>>

CopyFaultLocked(t) ==
  LET s == Ours(t) IN
  /\ Claiming(t)
  /\ FreePageStati(s) /\ NewStati(s, 0)
  /\ state' = [state EXCEPT ![s] = "OPEN"]
  /\ Finish(t, "idle")
  /\ UNCHANGED <<sem, vmas, fd, vmaVars>>

(* copy_from_user of the next request faults for good. *)
CopyFault(t) ==
  LET s == Ours(t) IN
  /\ Claiming(t)
  /\ FreePageStati(s) /\ NewStati(s, 0)
  /\ state' = [state EXCEPT ![s] = "OPEN"]
  /\ sem'   = [sem EXCEPT ![s] = Nobody]
  /\ Finish(t, "idle")
  /\ UNCHANGED <<vmas, fd, vmaVars>>

NextRequest(t, off) ==
  call' = [call EXCEPT ![t] = [call[t] EXCEPT !.pc = "claim", !.idx = call[t].idx + 1,
                                              !.page = NoPage, !.off = off]]

(* Mutant of Record: a frame not claimed leaves a hole in the VMA. *)
RecordWithHoles(t, status) ==
  /\ stati' = [stati EXCEPT ![Ours(t)][call[t].idx] = status]
  /\ NextRequest(t, call[t].off + 1)
  /\ UNCHANGED <<state, sem, vmas, num, fd, vmaVars>>

(* Write the status of request idx and go on with the next one. *)
Record(t, status) ==
  /\ stati' = [stati EXCEPT ![Ours(t)][call[t].idx] = status]
  /\ NextRequest(t, IF status.page = NoPage THEN call[t].off ELSE call[t].off + 1)
  /\ UNCHANGED <<state, sem, vmas, num, fd, vmaVars>>

(* The pfn is not valid, or no claim method wants or gets the frame: it    *)
(* is in use, in the middle of a free block, or not allowed to be taken.   *)
ClaimFails(t) ==
  /\ Claiming(t)
  /\ \E src \in {{}, {"INVALID_PFN"}} : Record(t, [Blank EXCEPT !.src = src])
  /\ UNCHANGED frameVars

(* try_claim_free_buddy_page looks at the frame before it takes the lock. *)
ClaimCheck(t, p) ==
  /\ Claiming(t)
  /\ p \in buddy /\ count[p] = 0
  /\ call' = [call EXCEPT ![t] = [@ EXCEPT !.pc = "take", !.page = p]]
  /\ UNCHANGED <<sessionVars, vmaVars, frameVars>>

(* Mutant of ClaimTake: no second look under the lock. *)
ClaimTakeUnchecked(t) ==
  LET p == call[t].page IN
  /\ call[t].pc = "take"
  /\ buddy' = buddy \ {p}
  /\ count' = [count EXCEPT ![p] = 1]
  /\ Record(t, [page |-> p, src |-> {"BUDDY"}, off |-> call[t].off])
  /\ UNCHANGED <<kern, poison>>

(* claim_free_buddy_page looks again under zone->lock.  prep_new_page does *)
(* not set the count of a poisoned frame, and its failure is only logged.  *)
ClaimTake(t) ==
  LET p == call[t].page IN
  /\ call[t].pc = "take"
  /\ p \in buddy /\ count[p] = 0
  /\ buddy' = buddy \ {p}
  /\ count' = [count EXCEPT ![p] = IF p \in poison THEN 0 ELSE 1]
  /\ Record(t, [page |-> p, src |-> {"BUDDY"}, off |-> call[t].off])
  /\ UNCHANGED <<kern, poison>>

ClaimLost(t) ==
  /\ call[t].pc = "take"
  /\ ~(call[t].page \in buddy /\ count[call[t].page] = 0)
  /\ Record(t, Blank)
  /\ UNCHANGED frameVars

(* Mutant of RequestDone: the lock is never given back. *)
RequestDoneLocked(t) ==
  /\ call[t].pc = "claim" /\ call[t].idx > num[Ours(t)]
  /\ state' = [state EXCEPT ![Ours(t)] = "CONFIGURED"]
  /\ Finish(t, "idle")
  /\ UNCHANGED <<sem, vmas, num, stati, fd, vmaVars, frameVars>>

RequestDone(t) ==
  LET s == Ours(t) IN
  /\ call[t].pc = "claim" /\ call[t].idx > num[s]
  /\ state' = [state EXCEPT ![s] = "CONFIGURED"]
  /\ sem'   = [sem EXCEPT ![s] = Nobody]
  /\ Finish(t, "idle")
  /\ UNCHANGED <<vmas, num, stati, fd, vmaVars, frameVars>>

-----------------------------------------------------------------------------
(* handle_mark_page_poison for a frame other than frame 0: the first       *)
(* request alone decides, the loop never gets past it.                     *)

Configured(s) == state[s] \in {"CONFIGURED", "MAPPED"}

MarkFrame(t) ==
  LET s     == Ours(t)
      found == num[s] > 0 /\ stati[s][1].page = call[t].page
  IN
  /\ call[t].pc = "mark" /\ Up(s)
  /\ poison' = IF Configured(s) /\ found THEN poison \cup {call[t].page} ELSE poison
  /\ Finish(t, IF Configured(s) /\ (found \/ num[s] = 0) THEN "idle" ELSE "EINVAL")
  /\ UNCHANGED <<sessionVars, vmaVars, buddy, kern, count>>

-----------------------------------------------------------------------------
(* file_mmap_configured, assemble_vma and the vm_operations.               *)

(* The largest mapping, in pages: a size in bytes, rounded up to a page    *)
(* and then shifted by PAGE_SHIFT as if it counted pages.                  *)
MaxSize(n) == ((n * StatusSize + PageSize - 1) \div PageSize) * PageSize

(* vm_insert_page refuses an address behind the VMA, and a frame nobody    *)
(* refers to.                                                              *)
Insertable(s, i, len) ==
  stati[s][i].page # NoPage => /\ stati[s][i].off < len
                               /\ count[stati[s][i].page] > 0

(* Mutant of Insert: the ptes hold no reference. *)
InsertUncounted(v, ps) == vpages' = [vpages EXCEPT ![v] = ps] /\ UNCHANGED frameVars

(* Put frames into the ptes of a VMA, one reference each. *)
Insert(v, ps) ==
  /\ vpages' = [vpages EXCEPT ![v] = ps]
  /\ count'  = [p \in Page |-> IF p \in ps THEN count[p] + 1 ELSE count[p]]
  /\ UNCHANGED <<buddy, kern, poison>>

(* Reconfigured behind the dispatcher's back (EIO), or too large (EINVAL). *)
MmapRefused(t) ==
  LET s == Ours(t) IN
  /\ call[t].pc = "mmap" /\ Up(s)
  /\ ~Configured(s) \/ \E len \in Lengths : len > MaxSize(num[s])
  /\ vown' = [vown EXCEPT ![call[t].area] = NoSession]
  /\ Finish(t, "idle")
  /\ UNCHANGED <<sessionVars, vpages, frameVars>>

(* Mutant of Mmap: the driver counts only the VMAs fork makes. *)
MmapUncounted(t) ==
  LET s == Ours(t) IN
  /\ call[t].pc = "mmap" /\ Up(s) /\ Configured(s)
  /\ \E len \in Lengths :
       /\ len <= MaxSize(num[s])
       /\ \A i \in Idx : Insertable(s, i, len)
  /\ Insert(call[t].area, Held(s))
  /\ Finish(t, "idle")
  /\ UNCHANGED <<sessionVars, vown>>

Mmap(t) ==
  LET s == Ours(t) IN
  /\ call[t].pc = "mmap" /\ Up(s) /\ Configured(s)
  /\ \E len \in Lengths :
       /\ len <= MaxSize(num[s])
       /\ \A i \in Idx : Insertable(s, i, len)
  /\ Insert(call[t].area, Held(s))
  /\ At(t, "vma_open")
  /\ UNCHANGED <<sessionVars, vown>>

(* The first frame that does not fit is marked; mmap(2) then undoes the    *)
(* mapping of those before it, in a step of its own.                       *)
MmapFails(t) ==
  LET s == Ours(t) IN
  /\ call[t].pc = "mmap" /\ Up(s) /\ Configured(s)
  /\ \E len \in Lengths, i \in Idx :
       /\ len <= MaxSize(num[s])
       /\ ~Insertable(s, i, len) /\ \A j \in 1..i-1 : Insertable(s, j, len)
       /\ Insert(call[t].area, {stati[s][j].page : j \in 1..i-1} \ {NoPage})
       /\ stati' = [stati EXCEPT ![s][i].src = @ \cup {"NOT_MAPPABLE"}]
  /\ At(t, "unmap")
  /\ UNCHANGED <<state, sem, vmas, num, fd, vown>>

UnmapRegion(t) ==
  LET v == call[t].area IN
  /\ call[t].pc = "unmap"
  /\ PutPages(vpages[v])
  /\ vpages' = [vpages EXCEPT ![v] = {}]
  /\ vown'   = [vown EXCEPT ![v] = NoSession]
  /\ Finish(t, "idle")
  /\ UNCHANGED sessionVars

VmaOpen(t) ==
  LET s == Ours(t) IN
  /\ call[t].pc = "vma_open" /\ Up(s)
  /\ vmas' = [vmas EXCEPT ![s] = @ + 1]
  /\ Finish(t, "idle")
  /\ UNCHANGED <<state, sem, num, stati, fd, vmaVars, frameVars>>

(* A VMA that mmap or fork has finished and nobody is taking down. *)
Attached(v) == vown[v] # NoSession /\ \A t \in Thread : call[t].area # v

(* fork copies the ptes of the VMA and then calls vm_ops->open.  That the  *)
(* parent's mmap_sem pins v until then is left out: v may go earlier here. *)
Fork(t, v, w) ==
  /\ call[t].pc = "idle" /\ Attached(v) /\ vown[w] = NoSession
  /\ vown' = [vown EXCEPT ![w] = vown[v]]
  /\ Insert(w, vpages[v])
  /\ Enter(t, "vma_open", vown[v], NoPage, w)
  /\ UNCHANGED sessionVars

(* munmap or exit clears the ptes, then calls vm_ops->close, then drops    *)
(* the reference to the file.                                              *)
Munmap(t, v) ==
  /\ call[t].pc = "idle" /\ Attached(v)
  /\ PutPages(vpages[v])
  /\ vpages' = [vpages EXCEPT ![v] = {}]
  /\ Enter(t, "vma_close", vown[v], NoPage, v)
  /\ UNCHANGED <<sessionVars, vown>>

VmaClose(t) ==
  LET s == Ours(t) IN
  /\ call[t].pc = "vma_close" /\ Up(s)
  /\ vmas'  = [vmas EXCEPT ![s] = @ - 1]
  /\ state' = [state EXCEPT ![s] = IF vmas[s] = 1 THEN "CONFIGURED" ELSE @]
  /\ vown'  = [vown EXCEPT ![call[t].area] = NoSession]
  /\ Finish(t, "idle")
  /\ UNCHANGED <<sem, num, stati, fd, vpages, frameVars>>

-----------------------------------------------------------------------------
(* phys_mem_release, called when no descriptor, handler or VMA is left.    *)

Unreferenced(s) == /\ state[s] # "NONE" /\ ~fd[s]
                   /\ \A t \in Thread : Ours(t) # s
                   /\ \A v \in Vma : vown[v] # s

ReleaseStart(s) ==
  /\ Unreferenced(s) /\ Up(s)
  /\ sem' = [sem EXCEPT ![s] = Closer]
  /\ UNCHANGED <<state, vmas, num, stati, fd, call, vmaVars, frameVars>>

(* Mutant of ReleaseConfigured: leaves the switch before it moves on. *)
ReleaseConfiguredStays(s) ==
  /\ sem[s] = Closer /\ state[s] = "CONFIGURED"
  /\ FreePageStati(s) /\ NewStati(s, 0)
  /\ UNCHANGED <<state, sem, vmas, fd, call, vmaVars>>

ReleaseConfigured(s) ==
  /\ sem[s] = Closer /\ state[s] = "CONFIGURED"
  /\ FreePageStati(s) /\ NewStati(s, 0)
  /\ state' = [state EXCEPT ![s] = "OPEN"]
  /\ UNCHANGED <<sem, vmas, fd, call, vmaVars>>

ReleaseOpen(s) ==
  /\ sem[s] = Closer /\ state[s] = "OPEN"
  /\ state' = [state EXCEPT ![s] = "CLOSED"]
  /\ vmas'  = [vmas EXCEPT ![s] = 0]
  /\ UNCHANGED <<sem, num, stati, fd, call, vmaVars, frameVars>>

(* up, and kmem_cache_free of the session object. *)
ReleaseEnd(s) ==
  /\ sem[s] = Closer /\ state[s] = "CLOSED"
  /\ sem'   = [sem EXCEPT ![s] = Nobody]
  /\ state' = [state EXCEPT ![s] = "NONE"]
  /\ UNCHANGED <<vmas, num, stati, fd, call, vmaVars, frameVars>>

-----------------------------------------------------------------------------
(* The rest of the kernel.                                                 *)

KernelAlloc(p) ==
  /\ p \in buddy \ poison
  /\ buddy' = buddy \ {p} /\ kern' = kern \cup {p}
  /\ count' = [count EXCEPT ![p] = 1]
  /\ UNCHANGED <<sessionVars, call, vmaVars, poison>>

KernelFree(p) ==
  /\ p \in kern
  /\ kern'  = kern \ {p} /\ buddy' = buddy \cup {p}
  /\ count' = [count EXCEPT ![p] = 0]
  /\ UNCHANGED <<sessionVars, call, vmaVars, poison>>

(* memory_failure() on a free frame sets the flag and leaves it where it is. *)
MemoryFailure(p) ==
  /\ MceEvents /\ p \in buddy \ poison
  /\ poison' = poison \cup {p}
  /\ UNCHANGED <<sessionVars, call, vmaVars, buddy, kern, count>>

(* The allocator meets a poisoned frame, drops it and takes another one. *)
SkipPoisoned(p) ==
  /\ p \in buddy \cap poison
  /\ buddy' = buddy \ {p}
  /\ UNCHANGED <<sessionVars, call, vmaVars, kern, poison, count>>

-----------------------------------------------------------------------------
(* What a thread does when it starts a system call, when it holds or needs *)
(* no lock, and when it waits for the session lock.                        *)
Dispatch(t) ==
  \/ \E s \in Session : DispatchIoctl(t, s) \/ DispatchRefused(t, s)
  \/ \E s \in Session, v \in Vma : DispatchMmap(t, s, v)
  \/ \E v, w \in Vma : Fork(t, v, w)
  \/ \E v \in Vma : Munmap(t, v)

(* copy_from_user of the next request, and what follows: with the session  *)
(* lock held this may have to wait for a page, and so for mmap_sem.        *)
CopyRequest(t) == CopyFault(t) \/ ClaimFails(t) \/ \E p \in Page : ClaimCheck(t, p)

Claim(t) == ClaimTake(t) \/ ClaimLost(t) \/ RequestDone(t)

Continue(t) == Claim(t) \/ UnmapRegion(t) \/ Return(t)

Acquire(t) == \/ RequestNothing(t) \/ RequestStart(t) \/ MarkFrame(t)
              \/ MmapRefused(t) \/ Mmap(t) \/ MmapFails(t)
              \/ VmaOpen(t) \/ VmaClose(t)

Release(s) == ReleaseStart(s) \/ ReleaseConfigured(s) \/ ReleaseOpen(s) \/ ReleaseEnd(s)

Kernel(p) == KernelAlloc(p) \/ KernelFree(p) \/ MemoryFailure(p) \/ SkipPoisoned(p)

Next ==
  \/ \E s \in Session : Open(s) \/ CloseFd(s) \/ Release(s)
  \/ \E t \in Thread : \/ Dispatch(t) \/ CopyRequest(t) \/ Continue(t)
                       \/ Acquire(t) \/ Interrupted(t)
  \/ \E p \in Page : Kernel(p)

Spec == Init /\ [][Next]_vars

(* A thread inside the kernel keeps running, but for the copy from the     *)
(* user, which may wait for what is not modelled here; the last fput calls *)
(* release; the waiters of a semaphore get it in the order they came, so   *)
(* none of them waits while others pass it for ever.  Nobody has to start  *)
(* a call.                                                                 *)
Fairness == /\ \A t \in Thread : WF_vars(Continue(t)) /\ SF_vars(Acquire(t))
            /\ \A s \in Session : WF_vars(Release(s))

FairSpec == Spec /\ Fairness

-----------------------------------------------------------------------------
(* Safety.                                                                 *)

(* Every variable has its type.                                            *)
TypeOK ==
  /\ state \in [Session -> States]
  /\ sem \in [Session -> Thread \cup {Nobody, Closer}]
  /\ vmas \in [Session -> Int]
  /\ num \in [Session -> 0..MaxReq]
  /\ stati \in [Session -> [Idx -> Status]]
  /\ fd \in [Session -> BOOLEAN]
  /\ call \in [Thread -> Call]
  /\ vown \in [Vma -> Session \cup {NoSession}]
  /\ vpages \in [Vma -> SUBSET Page]
  /\ buddy \subseteq Page /\ kern \subseteq Page /\ poison \subseteq Page
  /\ count \in [Page -> Int]

(* A frame is claimed at most once over all requests of all sessions, and  *)
(* neither the allocator nor the rest of the kernel has it meanwhile.      *)
(* Rests on the second look under zone->lock in claim_free_buddy_page.     *)
Exclusive ==
  \A p \in Page : /\ \A c, d \in Claims(p) : c = d
                  /\ Claims(p) # {} => p \notin buddy \cup kern
                  /\ p \notin buddy \cap kern

References(p) == (IF Claims(p) = {} THEN 0 ELSE 1) + (IF p \in kern THEN 1 ELSE 0)
                   + Cardinality(Mappings(p))

(* page->_count is the number of those who refer to the frame: a request   *)
(* status, every pte, the rest of the kernel.  Without a reference a frame *)
(* is free or, being poisoned, out of use for good: none is lost.          *)
(* (A frame poisoned while it was free can be claimed with count 0.)       *)
RefCount ==
  \A p \in Page :
    /\ \/ count[p] = References(p)
       \/ p \in poison /\ count[p] = 0 /\ Mappings(p) = {} /\ p \notin kern
    /\ count[p] = 0 => p \in buddy \cup poison
    /\ p \in buddy => count[p] = 0

(* What a VMA shows is never free, never the kernel's, and never claimed   *)
(* by another session than the one the VMA belongs to - also not when the  *)
(* session was reconfigured or the VMA was forked in between.              *)
MappedPrivate ==
  \A v \in Vma : \A p \in vpages[v] :
    /\ p \notin buddy \cup kern
    /\ \A c \in Claims(p) : c[1] = vown[v]

(* session->vmas counts the VMAs of the session: all but those mmap or     *)
(* fork has not yet counted.                                               *)
VmaCount ==
  \A s \in Session :
    vmas[s] = Cardinality({v \in Vma : vown[v] = s})
              - Cardinality({t \in Thread : /\ call[t].pc \in {"mmap", "unmap", "vma_open"}
                                            /\ call[t].sess = s})

(* The session is CONFIGURING only while a request holds the lock.  So a   *)
(* handler that gets the lock never meets the states it warns about        *)
(* ("should never appear", page_claiming.c:120-125), and MAPPED is unused. *)
LockedStates ==
  \A s \in Session :
    /\ state[s] = "CONFIGURING" <=> sem[s] \in Thread
    /\ \A t \in Thread : sem[s] = t <=> call[t].pc \in {"claim", "take"} /\ Ours(t) = s
    /\ (\E t \in Thread : Ours(t) = s) => state[s] \in {"OPEN", "CONFIGURING", "CONFIGURED"}

(* Lock, state and number of VMAs of a session agree with the handlers its *)
(* threads are in, although mmap counts its VMA only after it has given    *)
(* the lock back, and the dispatcher has looked at the state without it.   *)
SessionAgrees == LockedStates /\ VmaCount

(* The last release finds a free lock and a state it can leave, so it is   *)
(* neither interrupted (the session would leak) nor stuck in the `break`   *)
(* of SESSION_STATE_MAPPED; and nothing refers to the destroyed session.   *)
ReleaseReady ==
  \A s \in Session :
    Unreferenced(s) => \/ Up(s) /\ state[s] \in {"OPEN", "CONFIGURED"} /\ vmas[s] = 0
                       \/ sem[s] = Closer /\ state[s] \in {"OPEN", "CONFIGURED", "CLOSED"}

(* What a handler relies on about its locals across its steps: while it    *)
(* claims, the lock is its own, the session CONFIGURING and the rest of    *)
(* the stati blank; the VMA it works on is nobody else's and belongs to    *)
(* its session, with no ptes before mmap has run or after munmap has.      *)
SessOK(t) ==
  LET c == call[t] IN
    /\ c.pc \notin {"idle", "EINVAL"} => c.sess \in Session
    /\ c.pc \in {"take", "mark"} => c.page \in Page

ClaimOK(t) ==
  LET c == call[t] IN
  c.pc \in {"claim", "take"} =>
    /\ sem[c.sess] = t /\ state[c.sess] = "CONFIGURING"
    /\ c.idx > 0 /\ c.off < c.idx
    /\ c.idx <= num[c.sess] + (IF c.pc = "claim" THEN 1 ELSE 0)
    /\ \A i \in Idx : i >= c.idx => stati[c.sess][i] = Blank

AreaOK(t) ==
  LET c == call[t] IN
    /\ c.area \in Vma <=> c.pc \in {"mmap", "unmap", "vma_open", "vma_close"}
    /\ c.area \in Vma =>
         /\ vown[c.area] = c.sess
         /\ \A u \in Thread \ {t} : call[u].area # c.area
         /\ c.pc \in {"mmap", "vma_close"} => vpages[c.area] = {}

CallOK == /\ \A t \in Thread : SessOK(t) /\ ClaimOK(t) /\ AreaOK(t)
          /\ \A v \in Vma : vown[v] = NoSession => vpages[v] = {}

(* A session that is not configured holds no frame and shows no status.    *)
IdleHoldsNothing ==
  \A s \in Session :
    state[s] \in {"NONE", "CLOSED", "OPEN"} => num[s] = 0 /\ stati[s] = Blanks

(* What a request or a failed mmap writes into the stati lies inside the   *)
(* array as it was allocated (page_claiming.c:165, mmap_phys.c:92), also   *)
(* after the session was configured anew with fewer frames.                *)
StatiInArray ==
  \A s \in Session, i \in Idx : stati[s][i] # Blank => i <= Room(num[s])

(* The claimed frames of a session lie one behind the other in the VMA, in *)
(* the order of the requests, without holes for the frames not claimed     *)
(* (phys_mem.h:61-80).                                                     *)
OffsetsDense ==
  \A s \in Session, i \in Idx :
    IF stati[s][i].page = NoPage
      THEN stati[s][i].off = 0
      ELSE stati[s][i].off = Cardinality({j \in 1..i-1 : stati[s][j].page # NoPage})

-----------------------------------------------------------------------------
(* Liveness.                                                               *)

(* Every system call on the device returns, also one that waits for the    *)
(* lock while others go on using the session, if no thread waits for ever  *)
(* in the copy of a request, which it does with that lock held.  (Device   *)
(* has mmap_sem, and the circle in which one does.)                        *)
CallsReturnOnceCopied ==
  (\A t \in Thread : WF_vars(CopyRequest(t)))
    => \A t \in Thread : call[t].pc # "idle" ~> call[t].pc = "idle"

(* A session nothing refers to any more is destroyed, its frames freed:    *)
(* the loop of phys_mem_release ends.                                      *)
ReleaseTerminates ==
  \A s \in Session : Unreferenced(s) ~> state[s] = "NONE" /\ Held(s) = {}

-----------------------------------------------------------------------------
(* What the documentation says and the code does not do.                   *)

(* phys_mem.h:188: "A configured (but not mmapped) session can be          *)
(* reconfigured."  A mapped one cannot: its VMAs would go on showing       *)
(* frames that are no longer reserved (phys_mem.h:31).                     *)
ReconfigureOnlyUnmapped ==
  [][\A s \in Session : state[s] = "CONFIGURED" /\ state'[s] = "CONFIGURING"
                         => vmas[s] = 0]_vars

(* page_claiming.c:94: MARK_FRAME_BAD refuses a frame with "The pfn is not *)
(* claimed for this session" - only when that is so.                       *)
MarkFindsClaimed ==
  [][\A t \in Thread :
       call[t].pc = "mark" /\ call'[t].pc = "EINVAL"
         => call[t].page \notin Held(Ours(t))]_vars
=============================================================================
