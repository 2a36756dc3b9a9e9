----------------------------- MODULE SessionCalls -----------------------------
(***************************************************************************)
(* The system calls on one open file of the device, the locks they take    *)
(* and what they read: the session semaphore, the mmap_sem of the calling  *)
(* process, and the file position, which has no lock.                      *)
(*                                                                         *)
(* read, llseek and ioctl take the session lock; read and REQUEST_PAGES    *)
(* then copy to and from user memory, and the fault of a user page needs   *)
(* mmap_sem.  mmap, munmap and fork hold mmap_sem and then take the        *)
(* session lock.                                                           *)
(*                                                                         *)
(* One thread, the Client, does what the physmem library does: configure,  *)
(* seek to 0, read until nothing comes.  The frames are in PhysMem; what a *)
(* request leaves behind is here the array of stati, StatusSize units each.*)
(***************************************************************************)
EXTENDS Integers, FiniteSets

CONSTANTS
  Thread, Client,
  Process,      \* address spaces
  Nobody,       \* nobody holds the lock
  Requests,     \* bound: the numbers of frames that are requested
  StatusSize,   \* size of a phys_mem_frame_status
  ReadSize,     \* what a read asks for: the buffer of the file object
  Offsets,      \* bound: the offsets given to llseek
  MaxPos,       \* bound: the largest position
  MaxVmas       \* bound: VMAs

ClientOK == Client \in Thread /\ Nobody \notin Thread /\ IsFiniteSet(Thread)
SizesOK  == /\ StatusSize \in Nat \ {0} /\ ReadSize \in Nat \ {0}
            /\ Requests \subseteq Nat /\ IsFiniteSet(Requests)
            /\ Offsets \subseteq Int /\ MaxPos \in Nat /\ MaxVmas \in Nat

VARIABLES
  mm,       \* the address space of each thread, fixed
  writer,   \* who holds the mmap_sem of a process for writing
  fd,       \* does a descriptor refer to the file?
  state,    \* session->status.state, "NONE" without a session
  num,      \* session->num_frame_stati
  vmas,     \* session->vmas
  sem,      \* who holds session->sem
  f_pos,    \* filp->f_pos
  call,     \* the call each thread is in
  view      \* history: what the Client has read of its configuration

fileVars == <<fd, state, num, vmas, f_pos>>
callVars == <<mm, writer, fd, state, num, vmas, sem, f_pos, call, view>>

PCs == {"idle", "args", "ioctl", "requests", "read", "copy", "f_pos", "seek",
        "mmap", "vma_open", "vma_close"}

(* The locals of a call: the position VFS has read, the number of frames   *)
(* or bytes, whether the next access to user memory will fault, its error. *)
Idle == [pc |-> "idle", pos |-> 0, count |-> 0, fault |-> FALSE, err |-> "-"]
Blank == [at |-> "-", next |-> 0, disturbed |-> FALSE, bad |-> FALSE]

Size  == num * StatusSize
Up    == sem = Nobody
Alone(t) == writer[mm[t]] = Nobody

At(t, pc)   == call' = [call EXCEPT ![t].pc = pc]
Finish(t)   == call' = [call EXCEPT ![t] = Idle]
Begin(t, pc) == call' = [call EXCEPT ![t] = [Idle EXCEPT !.pc = pc]]

(* A step of another thread that the Client's reading may notice. *)
Disturb(t) ==
  view' = IF t # Client /\ view.at # "-" THEN [view EXCEPT !.disturbed = TRUE] ELSE view

Init ==
  /\ mm \in [Thread -> Process] /\ mm[Client] = CHOOSE m \in Process : TRUE
  /\ writer = [m \in Process |-> Nobody]
  /\ fd = FALSE /\ state = "NONE" /\ num = 0 /\ vmas = 0 /\ sem = Nobody /\ f_pos = 0
  /\ call = [t \in Thread |-> Idle]
  /\ view = Blank

-----------------------------------------------------------------------------
(* open, close, release                                                    *)

Open ==
  /\ state = "NONE"
  /\ fd' = TRUE /\ state' = "OPEN" /\ f_pos' = 0
  /\ UNCHANGED <<mm, writer, num, vmas, sem, call, view>>

CloseFd ==
  /\ fd
  /\ fd' = FALSE /\ view' = Blank
  /\ UNCHANGED <<mm, writer, state, num, vmas, sem, f_pos, call>>

(* phys_mem_release, with the last reference to the file. *)
Release ==
  /\ ~fd /\ state # "NONE" /\ vmas = 0 /\ Up
  /\ \A t \in Thread : call[t].pc = "idle"
  /\ state' = "NONE" /\ num' = 0
  /\ UNCHANGED <<mm, writer, fd, vmas, sem, f_pos, call, view>>

-----------------------------------------------------------------------------
(* The beginning of a call: the dispatcher.                                *)

HasIoctl == state \in {"OPEN", "CONFIGURED"}
HasRead  == state \in {"CONFIGURED", "MAPPED"}

(* The Client reads its configuration as read_configuration does. *)
May(t, what) == t = Client /\ view.at # "-" => what = view.at

DispatchIoctl(t) ==
  /\ call[t].pc = "idle" /\ fd /\ May(t, "ioctl") /\ HasIoctl
  /\ \E fault \in BOOLEAN : call' = [call EXCEPT ![t] = [Idle EXCEPT !.pc = "args", !.fault = fault]]
  /\ UNCHANGED <<mm, writer, fileVars, sem, view>>

(* VFS copies the file position before it calls the driver. *)
DispatchRead(t) ==
  /\ call[t].pc = "idle" /\ fd /\ May(t, "read")
  /\ call' = [call EXCEPT ![t] = [Idle EXCEPT !.pos = f_pos,
                !.pc = IF HasRead THEN "read" ELSE "f_pos",
                !.err = IF HasRead THEN "-" ELSE "EIO"]]
  /\ UNCHANGED <<mm, writer, fileVars, sem, view>>

(* The Client's reading ends, well or badly. *)
EndView(t, bad) ==
  view' = IF t # Client \/ view.at = "-" THEN view
          ELSE IF bad THEN [Blank EXCEPT !.disturbed = view.disturbed, !.bad = TRUE]
          ELSE Blank

DispatchSeek(t) ==
  /\ call[t].pc = "idle" /\ fd /\ May(t, "seek")
  /\ IF HasRead THEN Begin(t, "seek") /\ UNCHANGED view
                ELSE UNCHANGED call /\ EndView(t, TRUE)
  /\ UNCHANGED <<mm, writer, fileVars, sem>>

(* mmap(2), fork(2) and munmap(2) take mmap_sem for writing. *)
DispatchMm(t) ==
  /\ call[t].pc = "idle" /\ May(t, "mm") /\ Alone(t)
  /\ \/ fd /\ HasRead /\ vmas < MaxVmas /\ Begin(t, "mmap")
     \/ vmas > 0 /\ vmas < MaxVmas /\ Begin(t, "vma_open")
     \/ /\ Cardinality({u \in Thread : call[u].pc = "vma_close"}) < vmas
        /\ Begin(t, "vma_close")
  /\ writer' = [writer EXCEPT ![mm[t]] = t]
  /\ UNCHANGED <<mm, fileVars, sem, view>>

(* The fault of a user page is handled. *)
Fault(t) ==
  /\ call[t].fault /\ Alone(t)
  /\ call' = [call EXCEPT ![t].fault = FALSE]
  /\ UNCHANGED <<mm, writer, fileVars, sem, view>>

(* down_interruptible gives up only when it has to wait. *)
Interrupted(t) ==
  /\ call[t].pc \in {"ioctl", "seek", "mmap", "read"} /\ ~Up
  /\ IF call[t].pc = "read"
       THEN /\ call' = [call EXCEPT ![t].pc = "f_pos", ![t].err = "EINTR"]
            /\ UNCHANGED view
       ELSE Finish(t) /\ EndView(t, FALSE)
  /\ writer' = [m \in Process |-> IF writer[m] = t THEN Nobody ELSE writer[m]]
  /\ UNCHANGED <<mm, fileVars, sem>>

-----------------------------------------------------------------------------
(* file_ioctl_open and the handlers behind it.                             *)

(* The command and its version are looked at before the lock is taken; a   *)
(* call that is not understood ends here.                                  *)
Decode(t) ==
  /\ call[t].pc = "args" /\ ~call[t].fault
  /\ Finish(t) \/ At(t, "ioctl")
  /\ UNCHANGED <<mm, writer, fileVars, sem, view>>

(* MARK_FRAME changes nothing here. *)
Mark(t) ==
  /\ call[t].pc = "ioctl" /\ Up
  /\ Finish(t)
  /\ UNCHANGED <<mm, writer, fileVars, sem, view>>

(* No frames requested, or vmalloc failed. *)
RequestNothing(t) ==
  /\ call[t].pc = "ioctl" /\ Up
  /\ state' = "OPEN" /\ num' = 0
  /\ Finish(t) /\ Disturb(t)
  /\ UNCHANGED <<mm, writer, fd, vmas, sem, f_pos>>

RequestStart(t) ==
  /\ call[t].pc = "ioctl" /\ Up
  /\ sem' = t /\ state' = "CONFIGURING"
  /\ \E n \in Requests \ {0}, fault \in BOOLEAN :
       /\ num' = n
       /\ call' = [call EXCEPT ![t] = [@ EXCEPT !.pc = "requests", !.count = n, !.fault = fault]]
  /\ Disturb(t)
  /\ UNCHANGED <<mm, writer, fd, vmas, f_pos>>

(* copy_from_user of a request, and the claim of its frame. *)
CopyRequest(t) ==
  /\ call[t].pc = "requests" /\ ~call[t].fault /\ call[t].count > 0
  /\ \E fault \in BOOLEAN :
       call' = [call EXCEPT ![t].count = @ - 1, ![t].fault = fault /\ call[t].count > 1]
  /\ UNCHANGED <<mm, writer, fileVars, sem, view>>

(* Mutant of CopyFails: the lock is not given back. *)
CopyFailsLocked(t) ==
  /\ call[t].pc = "requests" /\ ~call[t].fault /\ call[t].count > 0
  /\ state' = "OPEN" /\ num' = 0
  /\ Finish(t)
  /\ UNCHANGED <<mm, writer, fd, vmas, sem, f_pos, view>>

CopyFails(t) ==
  /\ call[t].pc = "requests" /\ ~call[t].fault /\ call[t].count > 0
  /\ state' = "OPEN" /\ num' = 0 /\ sem' = Nobody
  /\ Finish(t)
  /\ UNCHANGED <<mm, writer, fd, vmas, f_pos, view>>

(* The Client may go on to read what it has configured. *)
RequestDone(t) ==
  /\ call[t].pc = "requests" /\ call[t].count = 0
  /\ state' = "CONFIGURED" /\ sem' = Nobody
  /\ Finish(t)
  /\ \/ UNCHANGED view
     \/ t = Client /\ fd /\ view' = [Blank EXCEPT !.at = "seek"]
  /\ UNCHANGED <<mm, writer, fd, num, vmas, f_pos>>

-----------------------------------------------------------------------------
(* file_llseek_configured and file_read_configured.                        *)

NewPos == {whence + off : whence \in {0, f_pos, Size}, off \in Offsets}

Seek(t) ==
  /\ call[t].pc = "seek" /\ Up
  /\ Finish(t)
  /\ IF ~HasRead THEN EndView(t, TRUE) /\ UNCHANGED f_pos
     ELSE IF t = Client /\ view.at = "seek"
            THEN f_pos' = 0 /\ view' = [view EXCEPT !.at = "read"]
     ELSE \E newpos \in NewPos :
            /\ newpos <= MaxPos
            /\ f_pos' = IF newpos < 0 THEN f_pos ELSE newpos
            /\ Disturb(t)
  /\ UNCHANGED <<mm, writer, fd, state, num, vmas, sem>>

(* Mutant of Clipped: the last unit is not read. *)
ClippedShort(pos) == IF pos + ReadSize >= Size THEN Size - 1 - pos ELSE ReadSize

Clipped(pos) == IF pos + ReadSize > Size THEN Size - pos ELSE ReadSize

(* Nothing is read: the state has changed, or the position is too large. *)
ReadNothing(t) ==
  /\ call[t].pc = "read" /\ Up
  /\ ~HasRead \/ call[t].pos > Size
  /\ call' = [call EXCEPT ![t].pc = "f_pos", ![t].err = IF HasRead THEN "-" ELSE "EIO"]
  /\ UNCHANGED <<mm, writer, fileVars, sem, view>>

(* Mutant of Read: the lock is given back before the statuses are copied. *)
ReadUnlocked(t) ==
  /\ call[t].pc = "read" /\ Up
  /\ HasRead /\ call[t].pos <= Size
  /\ \E fault \in BOOLEAN :
       call' = [call EXCEPT ![t] = [@ EXCEPT !.pc = "copy", !.fault = fault,
                                             !.count = Clipped(call[t].pos)]]
  /\ UNCHANGED <<mm, writer, fileVars, sem, view>>

(* Mutant of Read: a position behind the end is not noticed. *)
ReadBehindEnd(t) ==
  /\ call[t].pc = "read" /\ Up /\ HasRead
  /\ sem' = t
  /\ call' = [call EXCEPT ![t] = [@ EXCEPT !.pc = "copy", !.count = Clipped(call[t].pos)]]
  /\ UNCHANGED <<mm, writer, fileVars, view>>

Read(t) ==
  /\ call[t].pc = "read" /\ Up
  /\ HasRead /\ call[t].pos <= Size
  /\ sem' = t
  /\ \E fault \in BOOLEAN :
       call' = [call EXCEPT ![t] = [@ EXCEPT !.pc = "copy", !.fault = fault,
                                             !.count = Clipped(call[t].pos)]]
  /\ UNCHANGED <<mm, writer, fileVars, view>>

(* copy_to_user; the buffer of the Client is good. *)
Copy(t) ==
  /\ call[t].pc = "copy" /\ ~call[t].fault
  /\ sem' = IF sem = t THEN Nobody ELSE sem
  /\ \/ call' = [call EXCEPT ![t].pc = "f_pos", ![t].pos = @ + call[t].count]
     \/ t # Client /\ call' = [call EXCEPT ![t].pc = "f_pos", ![t].count = 0]
  /\ UNCHANGED <<mm, writer, fileVars, view>>

(* VFS writes the position back, without a lock, whatever the result was.  *)
ReadReturns(t) ==
  LET c == call[t] IN
  /\ c.pc = "f_pos"
  /\ f_pos' = c.pos
  /\ Finish(t)
  /\ IF t # Client \/ view.at # "read" THEN Disturb(t)
     ELSE IF c.err # "-" THEN EndView(t, c.err = "EIO")
     ELSE IF c.count = 0 THEN EndView(t, view.next # Size)
     ELSE view' = [view EXCEPT !.next = IF c.pos - c.count = @ THEN c.pos ELSE -1]
  /\ UNCHANGED <<mm, writer, fd, state, num, vmas, sem>>

-----------------------------------------------------------------------------
(* file_mmap_configured, the open and the close of a VMA.                  *)

Unlock(t) == writer' = [writer EXCEPT ![mm[t]] = Nobody]

Mmap(t) ==
  /\ call[t].pc = "mmap" /\ Up
  /\ \/ HasRead /\ At(t, "vma_open") /\ UNCHANGED writer
     \/ Finish(t) /\ Unlock(t)
  /\ UNCHANGED <<mm, fileVars, sem, view>>

VmaOpen(t) ==
  /\ call[t].pc = "vma_open" /\ Up
  /\ vmas' = vmas + 1
  /\ Finish(t) /\ Unlock(t)
  /\ UNCHANGED <<mm, fd, state, num, sem, f_pos, view>>

VmaClose(t) ==
  /\ call[t].pc = "vma_close" /\ Up
  /\ vmas' = vmas - 1
  /\ state' = IF vmas = 1 THEN "CONFIGURED" ELSE state
  /\ Finish(t) /\ Unlock(t)
  /\ UNCHANGED <<mm, fd, num, sem, f_pos, view>>

-----------------------------------------------------------------------------
Dispatch(t) == DispatchIoctl(t) \/ DispatchRead(t) \/ DispatchSeek(t) \/ DispatchMm(t)

Continue(t) == \/ Decode(t) \/ CopyRequest(t) \/ CopyFails(t) \/ RequestDone(t)
               \/ Copy(t) \/ ReadReturns(t)

Acquire(t) == \/ Fault(t) \/ Mark(t) \/ RequestNothing(t) \/ RequestStart(t)
              \/ Seek(t) \/ ReadNothing(t) \/ Read(t)
              \/ Mmap(t) \/ VmaOpen(t) \/ VmaClose(t)

Next == CloseFd \/ \E t \in Thread : Dispatch(t) \/ Continue(t) \/ Acquire(t) \/ Interrupted(t)

-----------------------------------------------------------------------------
TypeOK ==
  /\ mm \in [Thread -> Process] /\ writer \in [Process -> Thread \cup {Nobody}]
  /\ fd \in BOOLEAN /\ state \in {"NONE", "OPEN", "CONFIGURING", "CONFIGURED"}
  /\ num \in Requests \cup {0} /\ vmas \in 0 .. MaxVmas + Cardinality(Thread)
  /\ sem \in Thread \cup {Nobody} /\ f_pos \in 0 .. MaxPos
  /\ call \in [Thread -> [pc : PCs, pos : 0 .. MaxPos, count : 0 .. MaxPos,
                          fault : BOOLEAN, err : {"-", "EIO", "EINTR"}]]
  /\ view \in [at : {"-", "seek", "read"}, next : -1 .. MaxPos, disturbed : BOOLEAN,
               bad : BOOLEAN]

(* What read copies to the user lies inside the array of stati, from the   *)
(* first byte to the last, also when the page of the user has to be        *)
(* fetched first: nobody frees or replaces the array meanwhile, and the    *)
(* position read without the lock has been compared with its size.         *)
InArray ==
  \A t \in Thread : call[t].pc = "copy" =>
    /\ state = "CONFIGURED"
    /\ call[t].count >= 0 /\ call[t].pos + call[t].count <= Size

(* A process that configures the device and then reads, 4096 bytes at a    *)
(* time whatever the size of a status, gets all statuses once and in order *)
(* and no error - unless another thread configures the file or moves its   *)
(* position meanwhile, which the lock of each single call does not prevent *)
(* (physmem.py:168-179), not even by a read that began long before.        *)
WholeConfiguration == view.bad => view.disturbed

(* A thread that copies from or to user memory with the session lock held, *)
(* and another one of its process that holds mmap_sem and waits for it.    *)
Circular ==
  \E t \in Thread : /\ sem = t /\ call[t].fault
                    /\ writer[mm[t]] # Nobody
                    /\ call[writer[mm[t]]].pc \in {"mmap", "vma_open", "vma_close"}

(* Every call returns, however the two locks are contended, with the one   *)
(* exception of the circle above, which takes two threads of one process.  *)
CallsReturn ==
  \A t \in Thread : call[t].pc # "idle" ~> call[t].pc = "idle" \/ Circular
=============================================================================
