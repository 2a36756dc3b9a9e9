# Specifications of kernel-memtest

kernel-memtest tests the memory of a running Linux machine.  A kernel module,
`phys_mem` (for Linux 2.6.34), lets a process *claim* page frames it names and map
exactly these frames; a Python program decides which frames to test and when,
claims them, writes and reads test patterns, and keeps a record per frame.

## The system

| component | state | operations |
|---|---|---|
| session life cycle and dispatch, `file_operations.c` | per open file a session: state, semaphore, number of VMAs, array of frame stati; the file position | `open`, `release`, and `ioctl`, `mmap`, `read`, `llseek`, dispatched by the session state without the lock |
| frame requests, `page_claiming.c`, `main.c` | the frame stati | REQUEST_PAGES: drop the old stati, claim frame by frame; MARK_FRAME_BAD: set PageHWPoison; `free_page_stati` |
| VMAs, `mmap_phys.c` | the ptes, the number of VMAs of the session | `file_mmap_configured`, open and close of a VMA |
| free buddy claimer, `free_buddy_page_claiming.c`, `page_alloc_copy.c` | the free lists of a zone, the count and flags of a frame | look, look again under the zone lock, cut one frame out of a free block |
| hwpoison claimer, `hw_poison_claiming.c`, `memory-failure_clone.c` | count and flags of a frame in use | soft-offline it, take it, unpoison it |
| module load, `main.c` | region, device class, devices, session cache | `phys_mem_init`, `phys_mem_cleanup` |
| physmem library, `physmem.py` | the open device | `configure`, `read_configuration`, `mmap`, `mark_pfn_bad` |
| schedulers, `blockwise_scheduler.py`, `simple_scheduler.py` | the block being gathered, the status of a frame | choose frames, claim, test, record |
| scanners, `linear.py`, `quadratic.py` | the mapped bytes | `test` |
| status file, `configuration.py` | a record per frame, mapped from a file | `open`, `close`, indexing |

The memtester calls the module through the physmem library: `configure` (an ioctl),
`read_configuration` (llseek and reads), `mmap`, a scanner that touches every byte of
one frame, `close` of the mapping, and on a bad frame `mark_pfn_bad`.  Inside the
module all operations of a session meet at its semaphore; sessions meet each other
and the rest of the kernel at the page frames.

What is hard about it:

* the dispatcher picks a handler by a state it reads without the lock;
* a frame is inspected without the zone lock and taken with it, while the allocator
  hands it out and takes it back;
* three parties keep a frame alive (a frame status, the ptes, the rest of the
  kernel), each through the one count, and go in any order: munmap, reconfiguration,
  fork, close, exit;
* a request may fail in the middle, after it has claimed some frames;
* `mmap` counts its VMA after it has given the lock back;
* frames are poisoned while they are free, claimed or mapped;
* the hwpoison claimer takes a page from its users without a lock, with three looks at
  it at different times, and overwrites its count at the end;
* several claims isolate and release the same pageblock;
* the session lock and mmap_sem are taken in both orders;
* the file position of a read has no lock, and reading a configuration takes many reads;
* the device can be opened before the module has been initialised.

Each hazard is listed at its line in `PROJECT.json`, with the properties that would
catch it.

## The modules

### PhysMem: sessions, requests, VMAs and frames

One module, because its parts share every interesting state.  Variables:

| variable | code |
|---|---|
| `state`, `sem`, `vmas`, `num`, `stati` | `struct phys_mem_session`; `sem` is `Nobody`, the thread that holds it, or `Closer` inside release; `"NONE"` is a slot without a session |
| `fd` | whether a descriptor refers to the file |
| `call` | per thread the handler it is in and the locals it keeps: session, request index, next offset in the VMA, frame, VMA |
| `vown`, `vpages` | per VMA the session whose file it maps and the frames in its ptes |
| `buddy`, `kern`, `poison`, `count` | PageBuddy, "in use by somebody else", PageHWPoison and `_count` of each frame |

An action is what a thread does up to the next point where another one can see or change
something it depends on.  So a handler that takes the semaphore, works and gives it back
in one go is one action (`RequestNothing`, `MarkFrame`, `VmaOpen`, `VmaClose`, `Mmap`).  A
request that claims frames is several:  `RequestStart` takes the lock and drops the old
stati, then for each frame one of `ClaimCheck` followed by `ClaimTake` or `ClaimLost`, or
`ClaimFails`, or `CopyFault`, and finally `RequestDone`.  `Mmap` leaves the semaphore and
continues with `VmaOpen`; `MmapFails` leaves the frames it inserted for `UnmapRegion`, the
error path of mmap(2).  `CopyRequest` is the copy_from_user of the next request with what
follows it (`CopyFault`, `ClaimFails`, `ClaimCheck`): it runs with the session lock held,
and may have to wait for mmap_sem.  `Munmap` clears the ptes and continues with
`VmaClose`.  The rest of the kernel is `KernelAlloc`, `KernelFree`, `MemoryFailure`,
`SkipPoisoned`, `Fork` and the calling of release once nothing refers to the file.

Abstractions, beside leaving out messages:

* requests name only `SOURCE_FREE_BUDDY_PAGE`, as the memtester's do (main.py:220), so
  of the claim methods only the buddy claimer can succeed.  Which frame a request
  names is left open: `ClaimCheck` takes any free one, `ClaimFails` covers the others;
* a frame is the unit; larger free blocks and the isolation of pageblocks are in
  BuddyZone, read and llseek in SessionCalls;
* the arguments of an ioctl that is rejected before its handler is reached (wrong
  command, wrong version, bad address) change nothing and have no action;
* the array of stati holds as many as its size in bytes allows (`Room`): the module
  multiplies num_requests by the size of a status without a test (phys_mem_int.h:96 and
  102, page_claiming.c:145), and a size_t is at most `SizeMax`.  Requests whose product
  does not fit in a size_t are outside the model (`RequestsFit`): for those the array is
  too small, and nothing that is said here about the stati holds.  The memtester asks
  for one frame, or for a block of 100;
* lengths of mappings are in pages; `MaxSize` keeps the arithmetic of mmap_phys.c:121
  with both roundings; frame 0, whose number is that of a status without a frame, is
  not among the frames MARK_FRAME_BAD is asked for;
* a VMA is not split, and fork does not keep the parent's VMA until the child's is
  counted, which allows more interleavings than the kernel does.

### FrameLedger and PhysMemLedger: what is promised about frames

`FrameLedger` is the abstract specification: each frame has one owner, a claiming party,
the rest of the kernel, the free ones, or nobody any more, and it changes hands only by
way of the free ones.  It knows nothing of counts, locks or lists.  `PhysMemLedger` maps
the state of PhysMem to it (the owner of a frame is the session that has claimed it or
still shows it in a VMA, then the kernel, then the free lists) and `BuddyZone` maps its
own (a frame is the claimer's from the moment it is cut out of its block).
`ImplementsLedger` is in both the refinement: each step takes free frames for one
taker, gives frames of one owner back, or changes no owner.

### BuddyZone: the free lists of a zone

PhysMem knows of a frame only whether it is free.  Here free memory is blocks: `buddy`
and `order` are PageBuddy and page_private, `list` the free lists by order and migrate
type, `nr_free` the counter of each order, `free_pages` the statistics item
NR_FREE_PAGES, `isolated` the pageblocks of type MIGRATE_ISOLATE.  A claim is six steps:
`Isolate` tries to isolate the pageblock of the frame, which works for a movable one that
is not isolated already, and goes on in any case; `IsFree` looks at the count and into
the free blocks; `Take` cuts the frame out under the lock and files the rest of the block
under the type its pageblock has then (`PieceType`), or `Lost` finds that the frame is
not the first of a free block any more; `Prep` is prep_new_page, after the lock;
`Unisolate` ends the isolation, whoever began it.  `Put` frees a claimed frame.
`KernelAlloc`, `KernelFree`, `PcpAlloc` and `PcpDrain` are the page allocator, with
splitting and merging, which does not allocate from the isolate lists.

Abstractions: two types beside isolate, without the fallback from one to another;
set_migratetype_isolate of a movable pageblock succeeds (its notifiers do not object), and
it is one step, as it is under the zone lock; a frame drained from a per-CPU list goes to
the list of its usual type, as it was filed when it was freed; blocks the allocator
hands out are not compound, for whose frames the claimer gives up one check earlier;
frames are not poisoned here (PhysMem); a section under zone->lock is one step, although
the code lets interrupts in (its line 137): a handler that wants the lock then spins for
ever on the CPU that holds it, after which nothing changes any more.

### HwPoison: claiming a page that is in use

A page of the page cache or of a process is claimed by making the kernel believe that its
memory is failing.  `page` is the struct page of each frame with those who refer to it
(`pagevec`, `maps`, `held`), `lock` its PG_locked, `claim` how far each claim is,
`mce_bad_pages` the counter of the kernel.  An action is one atomic operation on the
page.  `NextMethod` is the end of the list of claim methods: the frame is not one of the
difficult ones (`Ignored`), and the claimer has a mandate for it (`Claimable`).
`GetAnyPage` to `Done` are soft_offline_page, read from the copy of it in the repository
(memory-failure_clone.c; the claimer calls the kernel's), with its retry after shake_page
and all its exits: `GetFreePage` finds a free page under the zone lock, and
`FlagFreePage` sets its flag after that lock is given back; `PutNoLru` and `GiveUp` are
the two looks at the LRU flag, of which the second also follows a first one that found
the page on the LRU, and keeps the reference when the page is not, or not any more, of
the LRU; `LockOffline` and `WaitWriteback` are the two waits, the second with the page
locked; `SetCount` is the overwriting of the count; `Unpoison` to `FreeIt` are
unpoison_memory; `Release` is free_page_stati.  The users of the page are external:
`Alloc`, `Use`, `Unuse`, `LockPage`, `DrainPagevec`, `FreeSlab`, `StartWriteback` and
`EndWriteback` of a dirty page (`io`), and `MemoryFailure` for memory that really fails, at
any moment.  get_any_page isolates the pageblock around its looks, but ignores whether
this has worked, and each claim in the block ends the isolation of the others
(BuddyZone), so the allocator of this model takes a free page also from a claim that
is between its looks.  lock_system_sleep, which get_any_page takes, keeps claims out of
each other's way only in a kernel that can hibernate; the model does without it.

Three history variables keep what the state does not show:  `faulty` (memory that has
failed), `forged` (counts that were overwritten), `leaked` (references given up).  A
fourth, the field `late` of a claim, tells that the memory failed when the claim had no
look at the flag before it any more (`Missed`): after the look under the page lock, or
with the page in the free lists, from where get_any_page takes it without a look.

Abstractions: a page has at most one mapping and one other user at a time; migration
either moves the page, if there are no references but those of the mappings and the page
cache, or puts it back; pages are not compound.  The handlers that memory-failure_clone.c
contains beside these functions are static and called by nobody, so they are not modelled.

### ModuleLife, SessionCalls, Device: an open file and the module under it

`ModuleLife` is phys_mem_init and phys_mem_cleanup: each thing they register is a Boolean
(`region`, `classes`, `devices`, `cdev`, `node`, `cache`), `at` is the next step, and
`refs` the references that opens take to the module (`GetModule`, `PutModule`).  Opens are
possible from cdev_add on; `OpenCrashes` is one that finds no cache.  The result of
device_create is ignored by the code, and its failure leaves nothing to undo.

`SessionCalls` has the system calls on one open file, with the two locks they take and
what read needs: `sem` is the session semaphore, `writer` the holder of mmap_sem per
process, `f_pos` the file position.  VFS reads the position before it calls the driver
(`DispatchRead`) and writes it back after (`ReadReturns`), without a lock.  A call that
copies to or from user memory may fault (`fault`), and the fault needs mmap_sem (`Fault`).
One thread, `Client`, does what `Physmem.configure` and `read_configuration` do: configure,
seek to 0, read until nothing comes; `view` is what it has read.

Abstractions: the frames are in PhysMem, a request leaves only a number of stati;
MARK_FRAME_BAD takes the lock and changes nothing; a failed mmap counts no VMA; any thread
may close a VMA; an mmap is one VMA.

`Device` composes the two: an open of the file takes a reference to the module and a
release gives it back; all else of the one leaves the other alone.

### Scanner: the test of one frame

`LinearScanner` and `QuadraticScanner`, cell by cell, over a memory with at most one
fault.  A scanner is a sequence of sweeps (`Linear`, `Quadratic`): a pattern is written
to the whole frame, then read from the whole frame; in the march of the quadratic
scanner one cell is set and all cells are looked at.  `index` and `probe` are its loop
variables, `mem` the memory behind the mapping, `bad` what it gave to
`report_bad_memory`.  `Load` and `Store` are `MmapWrapper.__getitem__` and
`__setitem__` together with the memory: a stuck bit, a bit that cannot change in one
direction, a bit that flips one of another cell when it changes, or an address that
selects a wrong cell.

Abstraction: a byte is a cell of `CellBits` bits, and `Ones` stands for 0xff both as the
pattern and as the modulus of the address pattern (linear.py:52).  The caches of the
processor between program and memory are not modelled, as the code ignores them too.

### Scheduler: passes, blocks and the status file

The main loop (main.py), both schedulers (`strategy`, chosen at each start over the same
status file) and the status file.  `pfn`,
`block` and `gap` are the locals of `SimpleBlockwiseScheduler.run`; `results` and `idx`
the loop of `test_frames_and_record_result`; `age` and `errors` the records of the file,
as far as anything reads them.  The rest are history variables: what was selected and
asked for in this pass (`wanted`, `asked`), which frames a scanner complained about
(`reported`), how long ago the memory of a frame was really tested (`since`), and whose
record does not say so (`lost`).  A frame is visited, a block is claimed, a frame is tested
and its result is recorded by one action each, because `Kill` (^C, or the exception of a
failed call) can come after each of them and loses everything but the records - between
`TestFrame` and `Record` also the record of the frame just tested.  The file is opened at
each start and for each pass (`OpenStatus`): its records are kept, or all of them are
lost, since every failure of the first open makes `_open_create` open the file with 'w+b'
(configuration.py:36-42).

The device is what PhysMem shows it to be: any subset of a block can be claimed, there
is one status per request, in order, the offsets are dense (`OffsetsDense` of PhysMem),
and the mapping shows the claimed frames by offset.  Time is the age of a record in
ticks, up to one more than `MaxAge`, where all ages mean the same to `should_test`.

### MCPhysMem, MCBuddyZone, MCScanner

`MCPhysMem` has values for the lengths asked of mmap (one page, two pages, one more than
`MaxSize` allows for one status) and the symmetry of sessions, threads, frames and VMAs,
`MCBuddyZone` the symmetry of threads, `MCScanner` the faults: every kind, cell, bit and
direction.  `Scheduler`, `Device` and `HwPoison` need no such module.

### The proof modules

`PhysMem_proof` (types and calls), `PhysMemFrames_proof` (frames, and that PhysMem
implements FrameLedger), `PhysMemSessions_proof` (sessions), `BuddyZone_proof`,
`HwPoison_proof`, `Device_proof`, `Scanner_proof` and `Scheduler_proof` hold the theorems;
see below.

## The runs

| run | instance | shows |
|---|---|---|
| sessions | 2 sessions, 2 threads, 2 frames, 1 VMA, 2 frames per request | Exclusive, MappedPrivate, ReleaseReady, ImplementsLedger |
| requests | 1 session, 2 threads, 2 frames, 3 VMAs, 3 frames per request, poisoning by machine checks | TypeOK, CallOK, StatiInArray, OffsetsDense, IdleHoldsNothing, SessionAgrees, RefCount |
| live | 1 session, 2 threads, 2 frames, 1 VMA, 2 frames per request, fairness | CallsReturnOnceCopied, ReleaseTerminates |
| zone | 2 threads, 4 frames in 2 pageblocks, one movable, blocks of up to 4, 5 claims | EveryFrameOnce, ListsSound, BuddiesMerged, FreePagesDrift, IsolationEnds, StrandedWhole, ImplementsLedger |
| device | 2 threads of one process, up to 2 stati of 2 units, reads of 3 units, 1 VMA, fairness | Registered, InArray, WholeConfiguration, SessionHasModule, CallsReturn |
| hwpoison | 2 claims at a time, 2 frames of which one is difficult, one bad page at the start of a claim, fairness | RefsCounted, BadPagesCounted, FailureRemembered, ClaimEnds |
| scanner | mapping of 2 frames with 4 cells of 2 bits, every fault, fairness | NoFalseAlarm, FaultsFound, Confined, ScanEnds |
| passes | 4 frames, blocks of 3, gaps of 2, an age limit of 1, both schedulers, one end of the program, fairness | TypeOK, PassCovers, GapBounded, MappingFits, NotTooOften, TestsOwnFrame, EveryFrameAsked |
| reconfigure, mark, verdict, hw_own | small | each violates one sentence of the documentation, see Findings |

Several of these are conjunctions: SessionAgrees of LockedStates and VmaCount, ListsSound
of ListsAgree and Aligned, Registered of Backed and NothingLeft, FaultsFound of one
property per kind of fault.  Each mutant of a conjunction breaks another of its parts.
The type invariants of BuddyZone, HwPoison, ModuleLife, SessionCalls and Scanner are
defined, and hold in these instances, but are not among the properties of the runs.

Why the bounds are enough.  For PhysMem: two sessions and two threads are what it takes
for any race of the module: every conflict is between two actors over one frame, one
session or one VMA.  Two frames let one be claimed while the other is free, three requests
for two frames give the offsets a hole in the middle, and three VMAs let a fork happen
while another VMA is being closed.  All counters are bounded by these sets; no state
constraint is used.  `SizeMax` stands for 2^64-1: the numbers of requests of the runs fit
in it, as `RequestsFit` asks.

For BuddyZone: a block of four frames is split on two levels and merged on two, can be
taken apart frame by frame, and is larger than a pageblock, so that the pieces of a claim
lie in another pageblock than its frame; the two pageblocks are of different types, so
one can be isolated and the other cannot.  Two threads are what it takes for one to end
the isolation of the other.  Five claims allow all four frames to be claimed, one of
them returned and claimed again.  `MaxClaims` bounds the error of NR_FREE_PAGES, which
grows with every claim.

For HwPoison: all that is hard happens between the claims and users of one frame, and two
claims of a frame are what it takes to count it twice; the second frame is one that the
claimer must ignore.  `MaxBad` keeps a claim from beginning while a page is counted bad or a
reference has leaked; without it both numbers grow for ever.

For Device: two threads are a reader and one that disturbs it, or one in a copy and one in
mmap.  A read of 3 units takes one status of 2 units and half of the next one, as a read
of 4096 bytes takes 73 statuses of 56 bytes and a part of the next; two statuses take two
reads, of which the second is cut at the end of the array; and `MaxPos` is the end of the
larger array, which is behind the end of the smaller one.
`MaxRefs` bounds the references of the module, of which an open that crashes keeps one.
With one VMA, fork has none left for its copy: what fork does to the locks is
what mmap does in this module, to the VMAs of a session it is in the run requests.  The
instance with two VMAs has no error either (480,321 states), but takes four minutes.

For Scanner: a frame of four cells has cells before, between and after the two cells of
a fault, its first and last cell, and, with the address pattern modulo three, one pair
of cells the pattern does not tell apart (in a page: cells a multiple of 255 apart).  Two
frames make the tested one begin or end inside the mapping.  Two bits let a fault be in
the lowest and in another bit.

For Scheduler: four frames and blocks of three give full blocks, blocks ended by a gap,
short last blocks, and blocks of which any subset is claimed.  The code has blocks and
gaps of 100, which only have to be smaller than the number of frames.  `MaxAge` stands
for one day; blockwise_scheduler.py:68 replaces it by 0.

Fairness (`Fairness` in PhysMem).  A thread inside the kernel keeps running, so the steps
that need no lock are weakly fair.  Waiters of a semaphore get it in the order in which
they came, so a thread that waits is not passed for ever: the steps that take it are
strongly fair.  Nothing is assumed of `CopyRequest`, which may wait for a lock that this
module does not have:  `CallsReturnOnceCopied` says that every call returns if no copy
lasts for ever, and Device says when one does.  `release` is called by the last `fput` and
is weakly fair.  Nobody has to start a call, close a file, or unmap: liveness is about the
calls that have been made.

Device has the same fairness for the calls (`Fairness` there), for the session semaphore
and for mmap_sem, which is as fair.  It is not enough: a thread that holds the session
lock and faults waits for mmap_sem, whose holder, in mmap, munmap or fork, waits for the
session lock.  The two wait for ever (`Circular`), so `CallsReturn` of SessionCalls
promises a call's return or this circle, and the run does not check for deadlock.  In
HwPoison claims run on, those who lock a page unlock it, and the device ends a writeback:
all of it is weak fairness.  The page lock is a bit that its holder clears and whoever
comes first sets; a waiter that has been woken can be overtaken each time, so a claim is
not promised the lock, and `ClaimEnds` names this one way not to end (`Starves`): the
claim waits for a page lock that becomes free again and again.  Users need not do anything
else.  A frame that is marked bad for good stays so, so that run too allows an end.

The scanner is a loop without waiting (`WF` of `Next`).  For the memtester `FairSpec`
assumes that the program runs, that somebody starts it again after it has ended, and that
the clock advances; `Kill` is bounded by `MaxKills`, for a program that is always ended
early never reaches the last frames, as it begins with frame 0 each time.

## What is proved

Every safety invariant and action property that the passing runs check is a theorem.

### PhysMem

`PhysMem_proof`, `PhysMemFrames_proof` and `PhysMemSessions_proof` prove, for any finite
sets of threads, frames and VMAs, any set of sessions and any bounds:

| theorem | property |
|---|---|
| TypeCorrect | TypeOK |
| CallsCorrect | CallOK |
| WritesInArray | StatiInArray |
| FramesExclusive | Exclusive |
| FramesCounted | RefCount |
| MappingsPrivate | MappedPrivate |
| IdleSessionsEmpty | IdleHoldsNothing |
| LedgerKept | ImplementsLedger |
| SessionsAgree | SessionAgrees |
| FramesLieDense | OffsetsDense |
| ReleaseFindsReady | ReleaseReady |

The assumptions are those of the module: the sets are finite, the nulls are not
members, the bounds are positive, and the stati of the largest request fit in a size_t
(`RequestsFit`).

`CallOK` is inductive together with the types.  It says what a handler may rely on
about its locals after other threads have run: a thread that claims holds the lock, its
session is CONFIGURING, the stati from its index on are blank, and the VMA it works on is
no other thread's.

`WritesInArray` is where `RequestsFit` is needed, and nowhere else.  That a status that has
been written lies in the array (`Inside`: its index is at most `num`) follows from the
locals of the claiming thread, whose index is less than the number of requests as long
as it writes (`CallOK`), and from the stati being blank again when the array is replaced by
a shorter one; that `num` stati fit in what was allocated for them (`RoomSuffices`) is
the arithmetic of the product, which does not wrap around below `SizeMax`.

`RefCount` is not inductive alone.  Whether an action that drops or takes a reference
keeps the count exact depends on the frame being claimed once (`Exclusive`), on the
stati of a session that is not configured being blank (`IdleHoldsNothing`: a new request
overwrites the array without freeing it), on the claiming thread writing to a blank
status (`CallOK`), and, in a reconfiguration with live VMAs, on the ptes still having
references of their own.  `MappedPrivate` in turn needs the count: a mapped frame has
count at least one, so it is not free, so the claimer cannot take it.  The invariant
`FramesInv` is the conjunction of the six; the proof follows one frame at a time
(`PageOK`), each action either leaving all that `PageOK` reads of the frame alone or
moving one reference.

That PhysMem implements FrameLedger follows from `FramesInv` and one fact more
(`LedgerInv`): the VMAs that show a frame nobody claims any longer all belong to one
session, so that `Owner` does not depend on which of them is chosen.  Each action
then changes the owner of every frame by a step of the ledger or not at all
(`LedgerMoves`).

The sessions need `SessionInv`.  `LockedStates` and `VmaCount` are inductive only
together with `SessionLife`: a slot that is free or closed has no descriptor, thread or
VMA, and the task inside release is alone with its session, so that no handler finds
the session gone between its steps.  `OffsetsDense` needs `Cursors`: the offset a
claiming thread goes on with is the number of frames it has claimed so far, which a
thread can rely on because it has the lock.

### BuddyZone

`BuddyZone_proof` proves every safety property of BuddyZone and its refinement, for any
number of frames and threads, any MAX_ORDER and any size of pageblocks:

| theorem | property |
|---|---|
| FramesOnce | EveryFrameOnce |
| ListsStaySound | ListsSound |
| DriftIsClaims | FreePagesDrift |
| NoIsolationStays | IsolationEnds |
| BuddiesStayMerged | BuddiesMerged |
| StrandedStaysWhole | StrandedWhole |
| ZoneLedger | ImplementsLedger |

The inductive invariant `ZoneInv` says, besides the types, that the free blocks and the
blocks in use are aligned to their size, that lists, counters and marks agree, and that
each frame has exactly one holder.  No part stands without the others: that a cut or a
merge leaves each frame in one block is arithmetic of aligned blocks (two blocks of
which one contains a frame of the other are nested), and the block that is cut or
merged away is found through the lists and marks.  The holder of a frame is followed
kind by kind (`Has`, `Once`), and an action is one move of a set of frames from a kind
to another (`Moves`).

Powers of two and induction are not in the reach of the provers as they stand.  That
2^(n+1) is twice 2^n is proved by counting subsets (`Powers`), and an induction over
Nat is written as the choice of a least counterexample (`LeastOf`), which needs no
theorem with an operator parameter.

### HwPoison

`HwPoison_proof` proves the safety properties of HwPoison for any finite sets of frames
and claims and any bound:

| theorem | property |
|---|---|
| ReferencesCounted | RefsCounted |
| NoBadPageMissing | BadPagesCounted |
| FailuresOutlastClaims | FailureRemembered |

`RefsCounted` holds of a frame until a claim overwrites its count, and is inductive only
with two facts about such a frame (`Good`): it is on the LRU list, on the way to it, or
isolated by at most one claim, but only one of these (two would make migration return
a reference twice), and while it is in a free list it has no references (so nobody
puts it a second time).  `ForgedFirst` says that unpoison_memory is only reached with an
overwritten count.  The references that `GiveUp` forgets are on both sides of the count
(`leaked`), however the page came off the LRU between the two looks.

`BadPagesCounted` speaks of the end of all claims; in between (`Owed`) each claim that
has counted its page and not yet taken the flag off may take one away, and one is left
for each page with a flag that no claim is busy with.  `FailureRemembered` rests on
`Met`: a claim of a failed frame that the failure did not meet late has the look under the
page lock still before it, and the page is not in the free lists, so get_any_page does
not take it from there: it was not in them when the failure came, and a page with the
flag does not go back to them.

### Device

`Device_proof` proves for any number of threads, processes and stati:

| theorem | property |
|---|---|
| RegisteredAlways | Registered |
| ModuleStays | SessionHasModule |
| ReadsInArray | InArray |
| ReadsWhole | WholeConfiguration |

The invariant `DeviceInv` has four parts that build on each other: what is registered
follows from how far init or cleanup has got (`LifeInv`); a session, wherever its calls
are, has a reference of the module (`HeldInv`); a thread that is configuring or reading
the file has the lock, and what it copies fits the array (`LockInv`); and the reader's
position is the one it would have alone, or somebody has disturbed it (`ViewInv`).

### Scanner

`Scanner_proof` proves every safety property of Scanner, for frames and cells of any
size and whatever fault the memory has:

| theorem | property |
|---|---|
| OnlyFaultyReported | NoFalseAlarm |
| OtherFramesKept | Confined |
| FaultsAreFound | FaultsFound |

The invariant is `ScanInv`.  `Loops` keeps the loops in the frame, and with it every step
is one of a few (`Does`): it writes a cell or looks at one, in a certain sweep.  `Past`
says that a sweep has come past a cell; both scanners write a cell three times (zeroes,
ones, and what `LastValue` says), which `CellSteps` brings down to what a step does to
one cell.  `Sound` follows from this: a cell that is not `Marred` by the fault holds what
was written, so nothing but the `Suspects` can be reported.  For each kind of fault one
more part follows the faulty cell to the sweep that sees it (`StuckAt`, `TransitionAt`,
`CouplingAt`, `AliasAt`); a disturbed cell, for instance, is wrong from the moment its
neighbour changes and looked at before it is written again.

The assumptions are the sizes (`SizesOK`), that `Ones` has every bit of a cell set
(`OnesSet`) and that a fault is in a bit of a cell of the mapping (`FaultsOK`).  `OnesSet`
states what is needed of powers of two, which would take an induction; TLC evaluates it,
and `BytesHaveBits` shows it for the bytes of the code.  `AddressLinesDiffer` shows that
the address pattern with the modulus of the code, 255, tells cells less than 255 apart
from each other, and those that differ in one line of the address within a page.

### Scheduler

`Scheduler_proof` proves every safety property of Scheduler, for any number of frames,
any lengths of blocks and gaps, any age limit and any bad frames:

| theorem | property |
|---|---|
| EveryDueFrameAskedOnce | PassCovers |
| GapsEndBlocks | GapBounded |
| MappingLongEnough | MappingFits |
| OwnFrameTested | TestsOwnFrame |
| NotTooOftenHolds | NotTooOften |
| TypeCorrect | TypeOK |

`PassCovers` and `GapBounded` follow from `PassInv`: the block is in ascending order and
behind `pfn` (`Gathering`), what was selected is what was asked for and, apart from it,
what waits in the block (`Asked`), and between two blocks the last frame of the block is
`gap + 1` frames behind the loop (`Between`).  That no frame is twice in a block
follows from the order alone (`AscendingDistinct`).  For what is tested, `Answered`
adds that the results are the answer of the device to this block.  An offset is the
number of claimed frames before it (`Before`), which grows with every claimed frame
(`BeforeGrows`), so no two frames have the same one (`OffsetsDiffer`) and the frame shown
at an offset is the frame of that result.

`NotTooOften` is about the tests themselves (`since`), of which `should_test` knows only the
records.  `Overdue` says that the frames of a waiting block have old records, which
do not become younger meanwhile; `Remembered` says that, apart from the frames of `lost`,
no record is older than the test it stands for.  For `Remembered` each test has to be
followed by the record of the same frame or by its loss: the frame that the mapping
shows at the tested offset is that of the result which is recorded next (`TestedIsOwn`),
the scanner's return value, taken for the verdict, is never 0 (`NeverZero`), and a frame
that leaves `lost` does so because it was recorded after its test.

### Model-checked only

The liveness properties (`CallsReturnOnceCopied`, `ReleaseTerminates`, `CallsReturn`,
`ScanEnds`, `EveryFrameAsked`, `ClaimEnds`), which rest on fairness and are out of the
prover's reach.

## Findings

Four sentences of the repository that a run shows to be false:

* A mapped session can be reconfigured (run reconfigure): the state MAPPED exists in the
  chart of phys_mem.h and in the tables, but no code enters it.
* MARK_FRAME_BAD works for the first frame of a request only (run mark).
* `test()` of both scanners returns the offset behind the last tested byte; the
  schedulers take this value for the verdict.  It is never 0, so a frame with
  reported errors is recorded as tested without an error and never marked
  (run verdict).
* A frame claimed by way of the hwpoison handling need not be the session's
  (run hw_own): soft_offline_page has given its reference up by the time the count is
  set to 2.

What else the models show, each an action or a property that says so:

* The last munmap turns a session that has gone back to OPEN into a CONFIGURED one without
  stati (`VmaClose` of PhysMem), for which the chart of phys_mem.h has no edge.
* A frame poisoned while it was free is claimed, and recorded, with a count of 0
  (`ClaimTake`): the failure of prep_new_page is only logged.
* NR_FREE_PAGES is not reduced by a claim, but increased when the frame is freed
  (`FreePagesDrift`): every claim makes the zone count one free page too many.
* A claim of the first frame of a block larger than a pageblock leaves free memory of
  other pageblocks on the isolate lists, where the allocator does not find it
  (`StrandedWhole`), until its neighbours are freed and merged with it.
* read and REQUEST_PAGES fault with the session lock held, mmap, munmap and fork take it
  with mmap_sem held: two threads of a process can wait for each other (`Circular`).
* soft_offline_page leaks a reference of a page that is not of the LRU at its second look
  (`GiveUp`), be it that shake_page did not get it there, or that another claim isolated it
  after the first look: the page is never freed.
* A claim can wait for ever at lock_page, although the page is unlocked again and again
  (`Starves`).
* A memory that fails after the look under the page lock, or while its page is free and
  get_any_page is about to take it, has its flag taken off by unpoison_memory and is
  used again (`FailureRemembered` names the claims that do it).
* Two claims of one frame count it twice in mce_bad_pages (`BadPagesCounted`).
* An open before the session cache exists dereferences NULL (`OpenCrashes`), and the
  error path of kmalloc in phys_mem_init leaves the device class behind (`NothingLeft`).
* A thread that configures or reads the file while another one reads its configuration
  makes it read statuses twice, not at all, or of two configurations
  (`WholeConfiguration`).

* The status file is emptied at a start that fails to open it for another reason than
  that it does not exist (`Emptied`), and a ^C counts as one (configuration.py:36-42), where
  the comment of `_open_create` says that the file is created if it does not exist.
* A ^C between the test of a frame and its record makes the frame be tested again at once
  (`Kill`, `lost`).
* A call that meets the session while another thread configures it fails with EIO
  (`DispatchRefused`), although phys_mem.h:173 says that CONFIGURING is an internal state
  that the client does not see.

## Plan

Modelling is complete as far as "Not modelled" below allows.
Every safety invariant and action property of the passing runs is a theorem.  What is
left to prove is small: the ranges of the variables that no theorem needed, so that type
correctness is stated for BuddyZone, HwPoison, Device and Scanner as it is for PhysMem
and Scheduler.

## Not modelled

* The claimers that are not in `try_claim_methods` (free_page_claiming.c,
  page_cache_claiming.c, anon_page_claiming.c) and the printing of helper.c: never
  called.
* The handlers of memory-failure_clone.c that only memory_failure would call, and the
  functions of page_alloc_copy.c that no claim reaches.
* Decoding of /proc/kpageflags and /proc/kpagecount (kpage library): stateless, and its
  result decides nothing.
* Requests of so many frames that the size of the array of stati overflows
  (`RequestsFit`).
* Option parsing and statistics of the main program, a status file that another program
  changes or cuts while this one runs.
* The analysis tools, tests and benchmarks, which run outside of the system.
