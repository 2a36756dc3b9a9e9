------------------------------- MODULE HwPoison -------------------------------
(***************************************************************************)
(* The claimer that takes a frame away from its users: it lets the kernel  *)
(* soft-offline the page as if its memory were failing, and takes the      *)
(* marks of the failure off again (hw_poison_claiming.c).  What the kernel *)
(* does in between is in the repository as memory-failure_clone.c; the     *)
(* parts of the kernel that calls, and the users of the page, are external.*)
(*                                                                         *)
(* A step is one atomic operation on the page: nearly all of it runs       *)
(* without a lock, and the users go on meanwhile.                          *)
(***************************************************************************)
EXTENDS Integers, FiniteSets

CONSTANTS
  Frame,
  Claimer,    \* threads in REQUEST_PAGES, each in a session of its own
  Difficult,  \* frames in the first 2 KiB of memory
  MaxBad      \* bound: a claim begins only with fewer bad pages and references lost

ASSUME FramesOK  == IsFiniteSet(Frame) /\ IsFiniteSet(Claimer) /\ Difficult \subseteq Frame
ASSUME MaxBadOK  == MaxBad \in Nat \ {0}

VARIABLES
  page,           \* the struct page of each frame, and who uses it
  lock,           \* PG_locked: who has locked the page, Free if nobody has
  claim,          \* the claim each Claimer is in
  mce_bad_pages,
  faulty,         \* frames whose memory has failed, as memory_failure was told
  forged,         \* history: frames whose count a claim has overwritten
  leaked          \* history: references that nobody will give back

vars == <<page, lock, claim, mce_bad_pages, faulty, forged, leaked>>
history == <<faulty, forged, leaked>>

User == "user"
Free == "-"

PCs == {"idle", "get", "free", "lru", "shake", "get2", "free2", "lru2", "flag", "lock",
        "writeback", "locked", "put", "isolate", "migrate", "done", "set", "unpoison",
        "ulock", "clear", "freeit", "own"}

(* use: the free lists, the page cache, an address space, a slab, nobody.  *)
(* pagevec: on the way to the LRU list, with a reference.  held: a user    *)
(* with a reference for the moment.  io: whether a file page is clean,     *)
(* dirty, or being written back.                                           *)
Page(use, count) == [use |-> use, count |-> count, lru |-> FALSE, pagevec |-> FALSE,
                     maps |-> 0, held |-> 0, io |-> "clean", hwpoison |-> FALSE]

Idle == [pc |-> "idle", f |-> CHOOSE f \in Frame : TRUE, late |-> FALSE, inval |-> FALSE]

Init ==
  /\ page = [f \in Frame |-> IF f \in Difficult THEN Page("reserved", 1) ELSE Page("buddy", 0)]
  /\ lock = [f \in Frame |-> Free]
  /\ claim = [c \in Claimer |-> Idle]
  /\ mce_bad_pages = 0 /\ faulty = {} /\ forged = {} /\ leaked = [f \in Frame |-> 0]

(* put_page: the last reference frees the page, and a page with the flag   *)
(* does not get into the free lists.                                       *)
Put(p) ==
  IF p.count # 1 THEN [p EXCEPT !.count = @ - 1]
  ELSE [p EXCEPT !.count = 0, !.lru = FALSE, !.io = "clean",
                 !.use = IF p.hwpoison THEN "none" ELSE "buddy"]

Get(p)   == [p EXCEPT !.count = @ + 1]
Drain(p) == IF p.pagevec THEN Put([p EXCEPT !.pagevec = FALSE, !.lru = TRUE]) ELSE p

Change(f, p)   == page' = [page EXCEPT ![f] = p]
Goto(c, pc)    == claim' = [claim EXCEPT ![c].pc = pc]
End(c)         == claim' = [claim EXCEPT ![c] = Idle]
Own(c)         == claim' = [claim EXCEPT ![c] = [Idle EXCEPT !.pc = "own", !.f = claim[c].f]]

-----------------------------------------------------------------------------
(* The users of the pages.                                                 *)

(* The allocator looks at a page before it hands it out, and drops one     *)
(* that is poisoned or referenced.  get_any_page isolates the block of the *)
(* page, but does not ask whether that has worked, and any other claim in  *)
(* the block may end it: no claim can count on it.                         *)
Alloc(f) ==
  LET p == page[f] IN
  /\ p.use = "buddy"
  /\ IF p.hwpoison \/ p.count # 0 THEN Change(f, [p EXCEPT !.use = "none"])
     ELSE \/ Change(f, Page("slab", 1))
          \/ Change(f, [Page("cache", 2) EXCEPT !.pagevec = TRUE])
          \/ Change(f, [Page("anon", 2) EXCEPT !.pagevec = TRUE, !.maps = 1])
  /\ UNCHANGED <<lock, claim, mce_bad_pages, history>>

FreeSlab(f) ==
  /\ page[f].use = "slab"
  /\ Change(f, Put([page[f] EXCEPT !.use = "none"]))
  /\ UNCHANGED <<lock, claim, mce_bad_pages, history>>

DrainPagevec(f) ==
  /\ page[f].pagevec
  /\ Change(f, Drain(page[f]))
  /\ UNCHANGED <<lock, claim, mce_bad_pages, history>>

(* Faults, reads and writes of a file page. *)
Use(f) ==
  LET p == page[f] IN
  /\ \/ p.use = "cache" /\ p.maps = 0 /\ Change(f, [Get(p) EXCEPT !.maps = 1])
     \/ p.use \in {"cache", "anon"} /\ p.held = 0 /\ Change(f, [Get(p) EXCEPT !.held = 1])
     \/ p.use = "cache" /\ p.io = "clean" /\ Change(f, [p EXCEPT !.io = "dirty"])
  /\ UNCHANGED <<lock, claim, mce_bad_pages, history>>

Unuse(f) ==
  LET p == page[f] IN
  /\ \/ /\ p.maps = 1
        /\ Change(f, Put([p EXCEPT !.maps = 0, !.use = IF @ = "anon" THEN "none" ELSE @]))
     \/ p.held = 1 /\ Change(f, Put([p EXCEPT !.held = 0]))
     \/ /\ p.use = "cache" /\ p.maps = 0 /\ lock[f] = Free /\ p.io # "writing"  \* truncate
        /\ Change(f, Put([p EXCEPT !.use = "none", !.io = "clean"]))
  /\ UNCHANGED <<lock, claim, mce_bad_pages, history>>

LockPage(f) ==
  /\ page[f].use \in {"cache", "anon"} /\ lock[f] = Free
  /\ lock' = [lock EXCEPT ![f] = User]
  /\ UNCHANGED <<page, claim, mce_bad_pages, history>>

UnlockPage(f) ==
  /\ lock[f] = User
  /\ lock' = [lock EXCEPT ![f] = Free]
  /\ UNCHANGED <<page, claim, mce_bad_pages, history>>

(* A file page is written back: begun under the page lock, ended by the    *)
(* device.                                                                 *)
StartWriteback(f) ==
  /\ lock[f] = User /\ page[f].use = "cache" /\ page[f].io = "dirty"
  /\ Change(f, [page[f] EXCEPT !.io = "writing"])
  /\ UNCHANGED <<lock, claim, mce_bad_pages, history>>

EndWriteback(f) ==
  /\ page[f].io = "writing"
  /\ Change(f, [page[f] EXCEPT !.io = "clean"])
  /\ UNCHANGED <<lock, claim, mce_bad_pages, history>>

(* Where a claim still has the look at the flag under the page lock before *)
(* it, unless the page turns out to be free.                               *)
Looking == {"get", "free", "lru", "shake", "get2", "free2", "lru2", "lock", "writeback", "locked"}

(* A claim of the frame does not see the failure: it does not look at the  *)
(* flag any more, or takes the page out of the free lists without a look.  *)
Missed(c, f) == /\ claim[c].f = f /\ claim[c].pc \notin {"idle", "own"}
                /\ claim[c].pc \in Looking => page[f].use = "buddy"

(* memory_failure: the flag and the count, before anything else. *)
MemoryFailure(f) ==
  /\ page[f].use # "reserved" /\ ~page[f].hwpoison /\ mce_bad_pages < MaxBad
  /\ Change(f, [page[f] EXCEPT !.hwpoison = TRUE])
  /\ mce_bad_pages' = mce_bad_pages + 1
  /\ faulty' = faulty \cup {f}
  /\ claim' = [c \in Claimer |-> [claim[c] EXCEPT !.late = @ \/ Missed(c, f)]]
  /\ UNCHANGED <<lock, forged, leaked>>

-----------------------------------------------------------------------------
(* handle_request_pages and try_claim_page_via_hwpoison: the buddy claimer *)
(* has declined, ignore_difficult_pages lets the frame pass.               *)

PageAnon(p)           == p.use = "anon"
PageCleanPageCache(p) == p.lru /\ p.io # "dirty"

HasMandate(p, sources) == \/ PageAnon(p) /\ "anon" \in sources
                          \/ PageCleanPageCache(p) /\ "page cache" \in sources

(* The two looks before the page is touched: ignore_difficult_pages ends   *)
(* the claim of a frame at the start of memory, the claimer itself that of *)
(* a frame that is marked already.                                         *)
Ignored(f)    == f \in Difficult
Claimable(f, sources) == HasMandate(page[f], sources) /\ ~page[f].hwpoison

NextMethod(c, f) ==
  /\ claim[c].pc = "idle" /\ mce_bad_pages < MaxBad /\ leaked[f] < MaxBad
  /\ ~Ignored(f)
  /\ \E sources \in SUBSET {"anon", "page cache"} : Claimable(f, sources)
  /\ claim' = [claim EXCEPT ![c] = [Idle EXCEPT !.pc = "get", !.f = f]]
  /\ UNCHANGED <<page, lock, mce_bad_pages, history>>

-----------------------------------------------------------------------------
(* soft_offline_page                                                       *)

P(c)      == page[claim[c].f]
At(c, pc) == claim[c].pc = pc
Set(c, p) == Change(claim[c].f, p)
Lock(c)   == lock[claim[c].f] = Free /\ lock' = [lock EXCEPT ![claim[c].f] = c]
Unlock(c) == lock' = [lock EXCEPT ![claim[c].f] = Free]

Gets(c)  == IF At(c, "get") THEN [free |-> "free", lru |-> "lru"]
            ELSE [free |-> "free2", lru |-> "lru2"]

(* get_any_page: get_page_unless_zero.  lock_system_sleep around it keeps  *)
(* other claims out in a kernel that can hibernate only; here it does not. *)
GetAnyPage(c) ==
  /\ At(c, "get") \/ At(c, "get2")
  /\ IF P(c).count = 0 THEN Goto(c, Gets(c).free) /\ UNCHANGED page
     ELSE Set(c, Get(P(c))) /\ Goto(c, Gets(c).lru)
  /\ UNCHANGED <<lock, mce_bad_pages, history>>

(* get_any_page: is_free_buddy_page, under the lock of the zone *)
GetFreePage(c) ==
  /\ At(c, "free") \/ At(c, "free2")
  /\ IF P(c).use = "buddy" THEN Goto(c, "flag") ELSE End(c)
  /\ UNCHANGED <<page, lock, mce_bad_pages, history>>

(* get_any_page: the flag, with the lock given back *)
FlagFreePage(c) ==
  /\ At(c, "flag")
  /\ Set(c, [P(c) EXCEPT !.hwpoison = TRUE]) /\ Goto(c, "done")
  /\ UNCHANGED <<lock, mce_bad_pages, history>>

(* Mutant of PutNoLru: the reference is kept. *)
PutNoLruKept(c) ==
  /\ At(c, "lru")
  /\ Goto(c, IF P(c).lru THEN "lru2" ELSE "shake")
  /\ UNCHANGED <<page, lock, mce_bad_pages, history>>

(* The first look at the LRU flag; one that finds it is followed by the    *)
(* second all the same.                                                    *)
PutNoLru(c) ==
  /\ At(c, "lru")
  /\ IF P(c).lru THEN Goto(c, "lru2") /\ UNCHANGED page
     ELSE Set(c, Put(P(c))) /\ Goto(c, "shake")
  /\ UNCHANGED <<lock, mce_bad_pages, history>>

(* shake_page: the pagevecs are drained, and a slab may be shrunk. *)
ShakePage(c) ==
  /\ At(c, "shake")
  /\ Goto(c, "get2")
  /\ \/ P(c).use # "slab" /\ Set(c, Drain(P(c)))
     \/ P(c).use = "slab" /\ P(c).count > 0 /\ Set(c, Put([P(c) EXCEPT !.use = "none"]))
     \/ P(c).use = "slab" /\ UNCHANGED page
  /\ UNCHANGED <<lock, mce_bad_pages, history>>

(* The second look: a page that is not, or no longer, of the LRU keeps the *)
(* reference.                                                              *)
GiveUp(c) ==
  /\ At(c, "lru2")
  /\ IF P(c).lru THEN Goto(c, "lock") /\ UNCHANGED leaked
     ELSE End(c) /\ leaked' = [leaked EXCEPT ![claim[c].f] = @ + 1]
  /\ UNCHANGED <<page, lock, mce_bad_pages, faulty, forged>>

LockOffline(c) ==
  /\ At(c, "lock") /\ Lock(c)
  /\ Goto(c, "writeback")
  /\ UNCHANGED <<page, mce_bad_pages, history>>

(* wait_on_page_writeback, with the page locked *)
WaitWriteback(c) ==
  /\ At(c, "writeback") /\ P(c).io # "writing"
  /\ Goto(c, "locked")
  /\ UNCHANGED <<page, lock, mce_bad_pages, history>>

(* Mutant of AlreadyPoisoned: the page stays locked. *)
AlreadyPoisonedLocked(c) ==
  /\ At(c, "locked") /\ P(c).hwpoison
  /\ Set(c, Put(P(c)))
  /\ End(c)
  /\ UNCHANGED <<lock, mce_bad_pages, history>>

AlreadyPoisoned(c) ==
  /\ At(c, "locked") /\ P(c).hwpoison
  /\ Unlock(c) /\ Set(c, Put(P(c)))
  /\ End(c)
  /\ UNCHANGED <<mce_bad_pages, history>>

(* invalidate_inode_page: a clean page of the page cache nobody else uses. *)
Invalidated(p) == p.use = "cache" /\ p.io = "clean" /\ p.maps = 0 /\ p.count = 2

(* Mutant of Invalidate: the flag is not looked at under the lock. *)
InvalidateAnyway(c) ==
  /\ At(c, "locked")
  /\ Unlock(c)
  /\ IF Invalidated(P(c)) THEN Set(c, [P(c) EXCEPT !.use = "none", !.count = 1]) ELSE UNCHANGED page
  /\ claim' = [claim EXCEPT ![c].pc = "put", ![c].inval = Invalidated(P(c))]
  /\ UNCHANGED <<mce_bad_pages, history>>

Invalidate(c) ==
  /\ At(c, "locked") /\ ~P(c).hwpoison
  /\ Unlock(c)
  /\ IF Invalidated(P(c)) THEN Set(c, [P(c) EXCEPT !.use = "none", !.count = 1]) ELSE UNCHANGED page
  /\ claim' = [claim EXCEPT ![c].pc = "put", ![c].inval = Invalidated(P(c))]
  /\ UNCHANGED <<mce_bad_pages, history>>

PutOffline(c) ==
  /\ At(c, "put")
  /\ Set(c, Put(P(c)))
  /\ Goto(c, IF claim[c].inval THEN "done" ELSE "isolate")
  /\ UNCHANGED <<lock, mce_bad_pages, history>>

IsolateLru(c) ==
  /\ At(c, "isolate")
  /\ IF P(c).lru THEN Set(c, [Get(P(c)) EXCEPT !.lru = FALSE]) /\ Goto(c, "migrate")
     ELSE End(c) /\ UNCHANGED page
  /\ UNCHANGED <<lock, mce_bad_pages, history>>

(* migrate_pages: the users get another page, if there are references of   *)
(* mappings and of the page cache only.  Moved or not, the page goes back  *)
(* to the LRU: the pagevec has the reference that isolation had.           *)
Movable(f) == LET p == page[f] IN
  lock[f] = Free /\ p.io # "writing" /\ p.count = 1 + p.maps + (IF p.use = "cache" THEN 1 ELSE 0)

Migrate(c) ==
  /\ At(c, "migrate")
  /\ \/ /\ Movable(claim[c].f)
        /\ Set(c, [Page("none", 1) EXCEPT !.pagevec = TRUE, !.hwpoison = P(c).hwpoison])
        /\ Goto(c, "done")
     \/ Set(c, [P(c) EXCEPT !.pagevec = TRUE]) /\ End(c)
  /\ UNCHANGED <<lock, mce_bad_pages, history>>

(* Mutant of Done: the bad page is not counted. *)
DoneUncounted(c) ==
  /\ At(c, "done")
  /\ Set(c, [P(c) EXCEPT !.hwpoison = TRUE])
  /\ Goto(c, "set")
  /\ UNCHANGED <<lock, mce_bad_pages, history>>

Done(c) ==
  /\ At(c, "done")
  /\ mce_bad_pages' = mce_bad_pages + 1
  /\ Set(c, [P(c) EXCEPT !.hwpoison = TRUE])
  /\ Goto(c, "set")
  /\ UNCHANGED <<lock, history>>

-----------------------------------------------------------------------------
(* try_claim_page_via_hwpoison, and unpoison_memory                        *)

SetCount(c) ==
  /\ At(c, "set")
  /\ Set(c, [P(c) EXCEPT !.count = 2])
  /\ forged' = forged \cup {claim[c].f}
  /\ Goto(c, "unpoison")
  /\ UNCHANGED <<lock, mce_bad_pages, faulty, leaked>>

Unpoison(c) ==
  /\ At(c, "unpoison")
  /\ \/ ~P(c).hwpoison /\ Own(c) /\ UNCHANGED <<page, mce_bad_pages, faulty>>
     \/ /\ P(c).hwpoison /\ P(c).count = 0
        /\ Set(c, [P(c) EXCEPT !.hwpoison = FALSE]) /\ mce_bad_pages' = mce_bad_pages - 1
        /\ faulty' = faulty \ {claim[c].f} /\ Own(c)
     \/ /\ P(c).hwpoison /\ P(c).count # 0
        /\ Set(c, Get(P(c))) /\ Goto(c, "ulock") /\ UNCHANGED <<mce_bad_pages, faulty>>
  /\ UNCHANGED <<lock, forged, leaked>>

LockUnpoison(c) ==
  /\ At(c, "ulock") /\ Lock(c)
  /\ Goto(c, "clear")
  /\ UNCHANGED <<page, mce_bad_pages, history>>

(* The flag is cleared, the page unlocked, and one reference given back. *)
ClearPoison(c) ==
  /\ At(c, "clear")
  /\ Unlock(c)
  /\ Set(c, Put([P(c) EXCEPT !.hwpoison = FALSE]))
  /\ IF P(c).hwpoison
       THEN /\ mce_bad_pages' = mce_bad_pages - 1
            /\ faulty' = faulty \ {claim[c].f} /\ Goto(c, "freeit")
       ELSE Own(c) /\ UNCHANGED <<mce_bad_pages, faulty>>
  /\ UNCHANGED <<forged, leaked>>

FreeIt(c) ==
  /\ At(c, "freeit")
  /\ Set(c, Put(P(c)))
  /\ Own(c)
  /\ UNCHANGED <<lock, mce_bad_pages, history>>

(* free_page_stati, when the session is configured anew or released. *)
Release(c) ==
  /\ At(c, "own")
  /\ IF P(c).count # 0 THEN Set(c, Put(P(c))) ELSE UNCHANGED page
  /\ End(c)
  /\ UNCHANGED <<lock, mce_bad_pages, history>>

-----------------------------------------------------------------------------
Users == \E f \in Frame : \/ Alloc(f) \/ FreeSlab(f) \/ DrainPagevec(f) \/ Use(f) \/ Unuse(f)
                          \/ LockPage(f) \/ UnlockPage(f) \/ StartWriteback(f) \/ EndWriteback(f)
                          \/ MemoryFailure(f)

SoftOffline(c) == \/ GetAnyPage(c) \/ GetFreePage(c) \/ FlagFreePage(c) \/ PutNoLru(c)
                  \/ ShakePage(c) \/ GiveUp(c)
                  \/ LockOffline(c) \/ WaitWriteback(c) \/ AlreadyPoisoned(c) \/ Invalidate(c) \/ PutOffline(c)
                  \/ IsolateLru(c) \/ Migrate(c) \/ Done(c)

UnpoisonMemory(c) == \/ SetCount(c) \/ Unpoison(c) \/ LockUnpoison(c) \/ ClearPoison(c) \/ FreeIt(c)

Next == \/ Users
        \/ \E c \in Claimer : \/ \E f \in Frame : NextMethod(c, f)
                              \/ SoftOffline(c) \/ UnpoisonMemory(c) \/ Release(c)

Spec == Init /\ [][Next]_vars

(* A thread in the kernel keeps running, whoever has locked a page unlocks *)
(* it, and the device ends what it writes.  The page lock is a bit that is *)
(* not handed over: who waits for it can be overtaken every time.          *)
Fairness ==
  /\ \A f \in Frame : WF_vars(UnlockPage(f)) /\ WF_vars(EndWriteback(f))
  /\ \A c \in Claimer : WF_vars(SoftOffline(c) \/ UnpoisonMemory(c))

FairSpec == Spec /\ Fairness

-----------------------------------------------------------------------------
MaxRefs == 6 + 2 * Cardinality(Claimer)

TypeOK ==
  /\ page \in [Frame -> [use : {"buddy", "cache", "anon", "slab", "none", "reserved"},
                         count : -MaxRefs .. MaxRefs, lru : BOOLEAN, pagevec : BOOLEAN,
                         maps : 0 .. 1, held : 0 .. 1,
                         io : {"clean", "dirty", "writing"}, hwpoison : BOOLEAN]]
  /\ lock \in [Frame -> Claimer \cup {User, Free}]
  /\ claim \in [Claimer -> [pc : PCs, f : Frame, late : BOOLEAN, inval : BOOLEAN]]
  /\ mce_bad_pages \in Int /\ faulty \subseteq Frame /\ forged \subseteq Frame
  /\ leaked \in [Frame -> Nat]

One(b) == IF b THEN 1 ELSE 0

(* The references to a frame that somebody will give back. *)
References(f) ==
  LET p == page[f] IN
  p.maps + p.held + One(p.pagevec) + One(p.use \in {"cache", "slab", "reserved"})
  + Cardinality({c \in Claimer : claim[c].f = f /\
      claim[c].pc \in {"lru", "lru2", "lock", "writeback", "locked", "put", "migrate",
                       "clear", "ulock", "freeit", "own"}})

(* As long as no claim has overwritten it, the count of a frame is the     *)
(* number of those who refer to it, however the claims that failed at any  *)
(* of their steps are mixed with the users of the page and with each other *)
(* - and with the references that soft_offline_page forgets when the page  *)
(* is not of the LRU at its second look, be it that it never was or that   *)
(* another claim has isolated it since the first.                          *)
RefsCounted == \A f \in Frame \ forged : page[f].count = References(f) + leaked[f]

(* With no claim under way, no bad page is missing from mce_bad_pages, and *)
(* what the claims took from it they had added: two claims of one frame    *)
(* may count it twice and take it back once, never the other way round.    *)
BadPagesCounted ==
  (\A c \in Claimer : claim[c].pc \in {"idle", "own"}) =>
    mce_bad_pages >= Cardinality({f \in Frame : page[f].hwpoison})

(* The flag of a memory that has really failed outlasts every claim that   *)
(* begins later, and every claim that the failure meets before the look    *)
(* under the page lock - but for a page that is in the free lists when its *)
(* memory fails: get_any_page takes it out of them without a look.  Only a *)
(* claim that the failure has met too late takes it off, and the frame is  *)
(* used again.                                                             *)
FailureRemembered ==
  [][\A f \in Frame : f \in faulty /\ f \notin faulty' =>
       \E c \in Claimer : claim[c].f = f /\ claim[c].late /\ claim'[c].pc # claim[c].pc]_vars

(* Waiting for a page lock that is free again and again, and overtaken     *)
(* every time.                                                             *)
Starves(c) == /\ <>[](claim[c].pc \in {"lock", "ulock"})
              /\ []<>(lock[claim[c].f] = Free)

(* Every claim ends, or it starves at one of its two calls of lock_page    *)
(* because others take the lock before it: nobody keeps a page locked, and *)
(* no other wait lasts.                                                    *)
ClaimEnds == \A c \in Claimer : []<>(claim[c].pc \in {"idle", "own"}) \/ Starves(c)

(* A frame that is recorded as claimed is the session's: it is in no free  *)
(* list, nobody else uses it, and the reference that keeps it is not one   *)
(* that somebody else will give back.  So says the comment on the 2 in     *)
(* try_claim_page_via_hwpoison.                                            *)
ClaimOwns ==
  \A c \in Claimer : claim[c].pc = "own" =>
    /\ page[claim[c].f].use = "none"
    /\ page[claim[c].f].count >= References(claim[c].f)
=============================================================================
