---------------------------- MODULE HwPoison_proof ----------------------------
(* The counts that the hwpoison claimer works with, for any number of      *)
(* frames and of claims at a time: the references of a page, the bad pages *)
(* of the system, and which flags stand for a memory that has failed.      *)
EXTENDS HwPoison, FiniteSetTheorems, TLAPS

PageType == [use : {"buddy", "cache", "anon", "slab", "none", "reserved"},
             count : Int, lru : BOOLEAN, pagevec : BOOLEAN,
             maps : 0 .. 1, held : 0 .. 1,
             io : {"clean", "dirty", "writing"}, hwpoison : BOOLEAN]

ClaimType == [pc : PCs, f : Frame \cup {Idle.f}, late : BOOLEAN, inval : BOOLEAN]

Types ==
  /\ page \in [Frame -> PageType]
  /\ claim \in [Claimer -> ClaimType]
  /\ \A c \in Claimer : claim[c].pc # "idle" => claim[c].f \in Frame
  /\ mce_bad_pages \in Int /\ leaked \in [Frame -> Nat]
  /\ faulty \subseteq Frame /\ forged \subseteq Frame

-----------------------------------------------------------------------------
(* The references of a frame no claim has overwritten the count of.        *)

(* Where a claim has a reference of its page. *)
Holding == {"lru", "lru2", "lock", "writeback", "locked", "put", "migrate",
            "clear", "ulock", "freeit", "own"}

(* The claims of a frame that are at one of these steps. *)
Those(S, f)     == {c \in Claimer : claim[c].f = f /\ claim[c].pc \in S}
Others(S, f, c) == Those(S, f) \ {c}

(* The references of the users. *)
Refs(p) == p.maps + p.held + One(p.pagevec) + One(p.use \in {"cache", "slab", "reserved"})

(* A page with n references besides those of its users.  It is on the LRU  *)
(* list, on the way to it, or isolated by one of w claims, and no more     *)
(* than one of these; and in a free list it has no references at all.      *)
Good(p, n, w) ==
  /\ p.count = Refs(p) + n
  /\ One(p.lru) + One(p.pagevec) + w <= 1
  /\ p.use = "buddy" => p.count = 0 /\ ~p.lru

PageOK(f) ==
  f \notin forged => Good(page[f], Cardinality(Those(Holding, f)) + leaked[f],
                                   Cardinality(Those({"migrate"}, f)))

Pages == \A f \in Frame : PageOK(f)

(* A claim that comes to unpoison_memory has overwritten the count. *)
Forging == {"unpoison", "ulock", "clear", "freeit", "own"}
ForgedFirst == \A c \in Claimer : claim[c].pc \in Forging => claim[c].f \in forged

-----------------------------------------------------------------------------
(* The bad pages.  A claim that has counted its page, and not yet taken    *)
(* the flag off, may take one from mce_bad_pages; and there is one more    *)
(* for every page with the flag that no claim has set, or is to take off.  *)

Counting == {"set", "unpoison", "ulock", "clear"}
Counters == {c \in Claimer : claim[c].pc \in Counting}
Marked   == {f \in Frame : page[f].hwpoison /\ Those(Counting \cup {"done"}, f) = {}}

Owed == mce_bad_pages >= Cardinality(Counters) + Cardinality(Marked)

-----------------------------------------------------------------------------
(* The failed memory.  Its page has the flag, and a claim that the failure *)
(* did not meet late is before the look under the page lock, and will not  *)
(* find the page in the free lists.                                        *)

Flagged == \A f \in faulty : page[f].hwpoison

MetOK(c) ==
  claim[c].pc \notin {"idle", "own"} /\ claim[c].f \in faulty /\ ~claim[c].late =>
    claim[c].pc \in Looking /\ page[claim[c].f].use # "buddy"

Met == \A c \in Claimer : MetOK(c)

HwInv == Types /\ Pages /\ ForgedFirst /\ Owed /\ Flagged /\ Met

-----------------------------------------------------------------------------
(* What the operations on a page leave behind.                             *)

LEMMA PageLiteral ==
  ASSUME NEW use \in {"buddy", "cache", "anon", "slab", "none", "reserved"}, NEW count \in Int
  PROVE  /\ Page(use, count) \in PageType
         /\ Page(use, count).use = use /\ Page(use, count).count = count
         /\ ~Page(use, count).lru /\ ~Page(use, count).pagevec
         /\ Page(use, count).maps = 0 /\ Page(use, count).held = 0
         /\ ~Page(use, count).hwpoison
BY DEF Page, PageType

LEMMA FreedType ==
  ASSUME NEW p \in PageType, NEW use \in {"none", "buddy"}
  PROVE  [p EXCEPT !.count = 0, !.lru = FALSE, !.io = "clean", !.use = use] \in PageType
<1>1. PICK a : a = [p EXCEPT !.count = 0]
  OBVIOUS
<1>2. a \in PageType
  BY <1>1 DEF PageType
<1>3. PICK b : b = [a EXCEPT !.lru = FALSE]
  OBVIOUS
<1>4. b \in PageType
  BY <1>2, <1>3 DEF PageType
<1>5. PICK c : c = [b EXCEPT !.io = "clean"]
  OBVIOUS
<1>6. c \in PageType
  BY <1>4, <1>5 DEF PageType
<1>7. [c EXCEPT !.use = use] \in PageType
  BY <1>6 DEF PageType
<1> QED BY <1>1, <1>3, <1>5, <1>7

LEMMA PutFields ==
  ASSUME NEW p \in PageType
  PROVE  /\ Put(p) \in PageType
         /\ Put(p).count = p.count - 1
         /\ Put(p).maps = p.maps /\ Put(p).held = p.held
         /\ Put(p).pagevec = p.pagevec /\ Put(p).hwpoison = p.hwpoison
         /\ Put(p).lru => p.lru
         /\ p.count # 1 => Put(p).use = p.use /\ Put(p).lru = p.lru
         /\ p.count = 1 => ~Put(p).lru /\ Put(p).use \in {"none", "buddy"}
         /\ p.hwpoison /\ p.count = 1 => Put(p).use = "none"
<1>1. CASE p.count # 1
  BY <1>1 DEF Put, PageType
<1>2. CASE p.count = 1
  <2>1. CASE p.hwpoison
    <3>1. Put(p) = [p EXCEPT !.count = 0, !.lru = FALSE, !.io = "clean", !.use = "none"]
      BY <1>2, <2>1 DEF Put
    <3>2. Put(p) \in PageType
      BY <3>1, FreedType
    <3>3. /\ Put(p).count = 0 /\ Put(p).use = "none" /\ Put(p).lru = FALSE
          /\ Put(p).maps = p.maps /\ Put(p).held = p.held
          /\ Put(p).pagevec = p.pagevec /\ Put(p).hwpoison = p.hwpoison
      BY <3>1 DEF PageType
    <3> QED BY <1>2, <3>2, <3>3
  <2>2. CASE ~p.hwpoison
    <3>1. Put(p) = [p EXCEPT !.count = 0, !.lru = FALSE, !.io = "clean", !.use = "buddy"]
      BY <1>2, <2>2 DEF Put
    <3>2. Put(p) \in PageType
      BY <3>1, FreedType
    <3>3. /\ Put(p).count = 0 /\ Put(p).use = "buddy" /\ Put(p).lru = FALSE
          /\ Put(p).maps = p.maps /\ Put(p).held = p.held
          /\ Put(p).pagevec = p.pagevec /\ Put(p).hwpoison = p.hwpoison
      BY <3>1 DEF PageType
    <3> QED BY <1>2, <2>2, <3>2, <3>3
  <2> QED BY <2>1, <2>2
<1> QED BY <1>1, <1>2

LEMMA GetFields ==
  ASSUME NEW p \in PageType
  PROVE  /\ Get(p) \in PageType /\ Get(p).count = p.count + 1 /\ Get(p).use = p.use
         /\ Get(p).maps = p.maps /\ Get(p).held = p.held /\ Get(p).lru = p.lru
         /\ Get(p).pagevec = p.pagevec /\ Get(p).hwpoison = p.hwpoison
BY DEF Get, PageType

LEMMA RefsNat ==
  ASSUME NEW p \in PageType
  PROVE  Refs(p) \in Nat
BY DEF Refs, One, PageType

(* put_page, by one who has one of the references. *)
LEMMA PutGood ==
  ASSUME NEW p \in PageType, NEW n \in Nat, NEW w \in Nat,
         p.count = Refs(p) + n + 1, p.use # "buddy",
         One(p.lru) + One(p.pagevec) + w <= 1
  PROVE  Good(Put(p), n, w)
<1> DEFINE q == Put(p)
<1>1. q \in PageType /\ q.count = p.count - 1 /\ q.maps = p.maps /\ q.held = p.held
      /\ q.pagevec = p.pagevec /\ (q.lru => p.lru)
  BY PutFields
<1>2. p.count # 1 => q.use = p.use
  BY PutFields
<1>3. p.count = 1 => ~q.lru /\ q.use \in {"none", "buddy"}
  BY PutFields
<1> HIDE DEF q
<1>4. Refs(p) \in Nat /\ Refs(q) \in Nat
  BY <1>1, RefsNat
<1>5. One(q.lru) + One(q.pagevec) + w <= 1
  BY <1>1 DEF One
<1> SUFFICES Good(q, n, w)
  BY DEF q
<1>6. CASE p.count # 1
  <2>1. Refs(q) = Refs(p)
    BY <1>1, <1>2, <1>6 DEF Refs
  <2> QED BY <1>1, <1>2, <1>4, <1>5, <1>6, <2>1 DEF Good, PageType
<1>7. CASE p.count = 1
  <2>1. Refs(p) = 0 /\ n = 0
    BY <1>4, <1>7
  <2>2. Refs(q) = 0
    <3>1. p.maps \in Nat /\ p.held \in Nat
      BY DEF PageType
    <3>2. p.maps = 0 /\ p.held = 0 /\ ~p.pagevec
      BY <2>1, <3>1 DEF Refs, One
    <3> QED BY <1>1, <1>3, <1>7, <3>2 DEF Refs, One
  <2> QED BY <1>1, <1>3, <1>4, <1>5, <1>7, <2>1, <2>2 DEF Good, PageType
<1> QED BY <1>6, <1>7

(* put_page by a claim. *)
LEMMA PutHeld ==
  ASSUME NEW p \in PageType, NEW n \in Nat, NEW w \in Nat, Good(p, n + 1, w)
  PROVE  Good(Put(p), n, w)
<1>1. Refs(p) \in Nat /\ p.count \in Int
  BY RefsNat DEF PageType
<1>2. p.use # "buddy"
  BY <1>1 DEF Good
<1> QED BY <1>1, <1>2, PutGood DEF Good

LEMMA GetGood ==
  ASSUME NEW p \in PageType, NEW n \in Nat, NEW w \in Nat, Good(p, n, w), p.count # 0
  PROVE  Good(Get(p), n + 1, w)
<1> DEFINE q == Get(p)
<1>1. q \in PageType /\ q.count = p.count + 1 /\ q.use = p.use /\ q.lru = p.lru
      /\ q.maps = p.maps /\ q.held = p.held /\ q.pagevec = p.pagevec
  BY GetFields
<1> HIDE DEF q
<1>2. Refs(q) = Refs(p) /\ Refs(p) \in Nat /\ p.count \in Int
  BY <1>1, RefsNat DEF Refs, PageType
<1>3. Good(q, n + 1, w)
  BY <1>1, <1>2 DEF Good
<1> QED BY <1>3 DEF q

(* The flag stays as it is, and a page with the flag does not get into the *)
(* free lists.                                                             *)
Tame(p, q) ==
  /\ q \in PageType /\ q.hwpoison = p.hwpoison
  /\ p.hwpoison /\ p.use # "buddy" => q.use # "buddy"

(* What the users of a page do: as many others as before have references. *)
Keeps(p, q) ==
  Tame(p, q) /\ \A n, w \in Nat : w <= n /\ Good(p, n, w) => Good(q, n, w)

LEMMA PutTame ==
  ASSUME NEW p \in PageType
  PROVE  Tame(p, Put(p))
BY PutFields DEF Tame

LEMMA TameTwice ==
  ASSUME NEW p, NEW q, NEW r, Tame(p, q), Tame(q, r)
  PROVE  Tame(p, r)
BY DEF Tame

LEMMA KeepsSame ==
  ASSUME NEW p \in PageType
  PROVE  Keeps(p, p)
BY DEF Keeps, Tame

(* A user gives back the reference he has, after the page was changed from *)
(* p to x by his leaving.                                                  *)
LEMMA LeaveKeeps ==
  ASSUME NEW p \in PageType, NEW x \in PageType, Tame(p, x),
         x.count = p.count, x.use \in {p.use, "none"}, Refs(p) = Refs(x) + 1,
         One(x.lru) + One(x.pagevec) <= One(p.lru) + One(p.pagevec)
  PROVE  Keeps(p, Put(x))
<1>1. ASSUME NEW n \in Nat, NEW w \in Nat, Good(p, n, w) PROVE Good(Put(x), n, w)
  <2>1. Refs(x) \in Nat /\ p.count = Refs(x) + n + 1
    BY <1>1, RefsNat DEF Good
  <2>2. One(x.lru) + One(x.pagevec) + w <= 1
    BY <1>1 DEF Good, One
  <2>3. x.use # "buddy"
    BY <1>1, <2>1 DEF Good
  <2> QED BY <2>1, <2>2, <2>3, PutGood
<1>2. Tame(p, Put(x))
  BY PutTame, TameTwice
<1> QED BY <1>1, <1>2 DEF Keeps

LEMMA DrainKeeps ==
  ASSUME NEW p \in PageType
  PROVE  Keeps(p, Drain(p))
<1>1. CASE p.pagevec
  <2>1. PICK x : x = [p EXCEPT !.pagevec = FALSE, !.lru = TRUE]
    OBVIOUS
  <2>2. /\ x \in PageType /\ x.count = p.count /\ x.use = p.use /\ x.maps = p.maps
        /\ x.held = p.held /\ ~x.pagevec /\ x.lru /\ x.hwpoison = p.hwpoison
    BY <2>1 DEF PageType
  <2>3. Refs(p) = Refs(x) + 1
    BY <1>1, <2>2 DEF Refs, One, PageType
  <2>4. One(x.lru) + One(x.pagevec) <= One(p.lru) + One(p.pagevec)
    BY <1>1, <2>2 DEF One
  <2>5. Drain(p) = Put(x)
    BY <1>1, <2>1 DEF Drain
  <2>6. Tame(p, x)
    BY <2>2 DEF Tame
  <2> QED BY <2>2, <2>3, <2>4, <2>5, <2>6, LeaveKeeps
<1>2. CASE ~p.pagevec
  BY <1>2, KeepsSame DEF Drain
<1> QED BY <1>1, <1>2

(* The slab gives its page back. *)
LEMMA FreeSlabKeeps ==
  ASSUME NEW p \in PageType, p.use = "slab"
  PROVE  Keeps(p, Put([p EXCEPT !.use = "none"]))
<1>1. PICK x : x = [p EXCEPT !.use = "none"]
  OBVIOUS
<1>2. /\ x \in PageType /\ x.count = p.count /\ x.use = "none" /\ x.maps = p.maps
      /\ x.held = p.held /\ x.pagevec = p.pagevec /\ x.lru = p.lru /\ x.hwpoison = p.hwpoison
  BY <1>1 DEF PageType
<1>3. Refs(p) = Refs(x) + 1
  BY <1>2 DEF Refs, One, PageType
<1>4. One(x.lru) + One(x.pagevec) <= One(p.lru) + One(p.pagevec) /\ Tame(p, x)
  BY <1>2 DEF One, Tame
<1> QED BY <1>1, <1>2, <1>3, <1>4, LeaveKeeps

LEMMA AllocKeeps ==
  ASSUME NEW p \in PageType, p.use = "buddy", NEW q,
         \/ (p.hwpoison \/ p.count # 0) /\ q = [p EXCEPT !.use = "none"]
         \/ /\ ~(p.hwpoison \/ p.count # 0)
            /\ \/ q = Page("slab", 1)
               \/ q = [Page("cache", 2) EXCEPT !.pagevec = TRUE]
               \/ q = [Page("anon", 2) EXCEPT !.pagevec = TRUE, !.maps = 1]
  PROVE  Keeps(p, q)
<1>1. CASE (p.hwpoison \/ p.count # 0) /\ q = [p EXCEPT !.use = "none"]
  <2>1. /\ q \in PageType /\ q.count = p.count /\ q.use = "none" /\ q.maps = p.maps
        /\ q.held = p.held /\ q.pagevec = p.pagevec /\ q.lru = p.lru /\ q.hwpoison = p.hwpoison
    BY <1>1 DEF PageType
  <2>2. Refs(q) = Refs(p)
    BY <2>1 DEF Refs, One
  <2> QED BY <2>1, <2>2 DEF Keeps, Tame, Good
<1>2. CASE ~p.hwpoison /\ p.count = 0 /\ ~((p.hwpoison \/ p.count # 0) /\ q = [p EXCEPT !.use = "none"])
  <2>1. /\ q \in PageType /\ q.use # "buddy" /\ ~q.lru /\ ~q.hwpoison
        /\ q.count = Refs(q)
    <3>1. CASE q = Page("slab", 1)
      BY <3>1, PageLiteral DEF Refs, One
    <3>2. CASE q = [Page("cache", 2) EXCEPT !.pagevec = TRUE]
      <4>1. PICK x : x = Page("cache", 2)
        OBVIOUS
      <4>2. /\ x \in PageType /\ x.use = "cache" /\ x.count = 2 /\ ~x.lru
            /\ x.maps = 0 /\ x.held = 0 /\ ~x.hwpoison
        BY <4>1, PageLiteral
      <4>3. /\ q \in PageType /\ q.use = "cache" /\ q.count = 2 /\ ~q.lru /\ q.pagevec
            /\ q.maps = 0 /\ q.held = 0 /\ ~q.hwpoison
        BY <3>2, <4>1, <4>2 DEF PageType
      <4> QED BY <4>3 DEF Refs, One
    <3>3. CASE q = [Page("anon", 2) EXCEPT !.pagevec = TRUE, !.maps = 1]
      <4>1. PICK x : x = Page("anon", 2)
        OBVIOUS
      <4>2. /\ x \in PageType /\ x.use = "anon" /\ x.count = 2 /\ ~x.lru
            /\ x.held = 0 /\ ~x.hwpoison
        BY <4>1, PageLiteral
      <4>3. /\ q \in PageType /\ q.use = "anon" /\ q.count = 2 /\ ~q.lru /\ q.pagevec
            /\ q.maps = 1 /\ q.held = 0 /\ ~q.hwpoison
        <5>1. PICK y : y = [x EXCEPT !.pagevec = TRUE]
          OBVIOUS
        <5>2. /\ y \in PageType /\ y.use = "anon" /\ y.count = 2 /\ ~y.lru /\ y.pagevec
              /\ y.held = 0 /\ ~y.hwpoison
          BY <4>2, <5>1 DEF PageType
        <5>3. q = [y EXCEPT !.maps = 1]
          BY <3>3, <4>1, <5>1
        <5> QED BY <5>2, <5>3 DEF PageType
      <4> QED BY <4>3 DEF Refs, One
    <3> QED BY <1>2, <3>1, <3>2, <3>3
  <2>2. ASSUME NEW n \in Nat, NEW w \in Nat, w <= n, Good(p, n, w) PROVE Good(q, n, w)
    <3>1. n = 0 /\ w = 0
      BY <1>2, <2>2, RefsNat DEF Good
    <3>2. One(q.lru) + One(q.pagevec) + w <= 1
      BY <2>1, <3>1 DEF One
    <3> QED BY <2>1, <3>1, <3>2 DEF Good, PageType
  <2>3. Tame(p, q)
    BY <1>2, <2>1 DEF Tame, PageType
  <2> QED BY <2>2, <2>3 DEF Keeps
<1> QED BY <1>1, <1>2

LEMMA IoKeeps ==
  ASSUME NEW p \in PageType, NEW io \in {"clean", "dirty", "writing"}
  PROVE  Keeps(p, [p EXCEPT !.io = io])
<1>1. PICK q : q = [p EXCEPT !.io = io]
  OBVIOUS
<1>2. /\ q \in PageType /\ q.count = p.count /\ q.use = p.use /\ q.maps = p.maps
      /\ q.held = p.held /\ q.lru = p.lru /\ q.pagevec = p.pagevec /\ q.hwpoison = p.hwpoison
  BY <1>1 DEF PageType
<1>3. Refs(q) = Refs(p)
  BY <1>2 DEF Refs
<1>4. Keeps(p, q)
  BY <1>2, <1>3 DEF Keeps, Tame, Good
<1> QED BY <1>1, <1>4

(* Faults, reads and writes. *)
LEMMA UseKeeps ==
  ASSUME NEW p \in PageType, p.use \in {"cache", "anon"}, NEW q,
         \/ p.use = "cache" /\ p.maps = 0 /\ q = [Get(p) EXCEPT !.maps = 1]
         \/ p.held = 0 /\ q = [Get(p) EXCEPT !.held = 1]
         \/ p.use = "cache" /\ q = [p EXCEPT !.io = "dirty"]
  PROVE  Keeps(p, q)
<1>1. PICK g : g = Get(p)
  OBVIOUS
<1>2. /\ g \in PageType /\ g.count = p.count + 1 /\ g.use = p.use /\ g.maps = p.maps
      /\ g.held = p.held /\ g.lru = p.lru /\ g.pagevec = p.pagevec /\ g.hwpoison = p.hwpoison
  BY <1>1, GetFields
<1>3. CASE p.maps = 0 /\ q = [Get(p) EXCEPT !.maps = 1]
  <2>1. /\ q \in PageType /\ q.count = p.count + 1 /\ q.use = p.use /\ q.maps = 1
        /\ q.held = p.held /\ q.lru = p.lru /\ q.pagevec = p.pagevec /\ q.hwpoison = p.hwpoison
    BY <1>1, <1>2, <1>3 DEF PageType
  <2>2. Refs(q) = Refs(p) + 1 /\ Refs(p) \in Nat
    BY <1>3, <2>1, RefsNat DEF Refs, One, PageType
  <2> QED BY <2>1, <2>2 DEF Keeps, Tame, Good, PageType
<1>4. CASE p.held = 0 /\ q = [Get(p) EXCEPT !.held = 1]
  <2>1. /\ q \in PageType /\ q.count = p.count + 1 /\ q.use = p.use /\ q.maps = p.maps
        /\ q.held = 1 /\ q.lru = p.lru /\ q.pagevec = p.pagevec /\ q.hwpoison = p.hwpoison
    BY <1>1, <1>2, <1>4 DEF PageType
  <2>2. Refs(q) = Refs(p) + 1 /\ Refs(p) \in Nat
    BY <1>4, <2>1, RefsNat DEF Refs, One, PageType
  <2> QED BY <2>1, <2>2 DEF Keeps, Tame, Good, PageType
<1>5. CASE q = [p EXCEPT !.io = "dirty"]
  BY <1>5, IoKeeps
<1> QED BY <1>3, <1>4, <1>5

(* An unmap, the end of a read, and a truncation. *)
LEMMA UnuseKeeps ==
  ASSUME NEW p \in PageType, NEW x,
         \/ p.maps = 1 /\ x = [p EXCEPT !.maps = 0, !.use = IF @ = "anon" THEN "none" ELSE @]
         \/ p.held = 1 /\ x = [p EXCEPT !.held = 0]
         \/ p.use = "cache" /\ x = [p EXCEPT !.use = "none", !.io = "clean"]
  PROVE  Keeps(p, Put(x))
<1>1. CASE p.maps = 1 /\ x = [p EXCEPT !.maps = 0, !.use = IF @ = "anon" THEN "none" ELSE @]
  <2>1. PICK y : y = [p EXCEPT !.maps = 0]
    OBVIOUS
  <2>2. /\ y \in PageType /\ y.count = p.count /\ y.use = p.use /\ y.maps = 0
        /\ y.held = p.held /\ y.lru = p.lru /\ y.pagevec = p.pagevec /\ y.hwpoison = p.hwpoison
    BY <2>1 DEF PageType
  <2>3. x = [y EXCEPT !.use = IF p.use = "anon" THEN "none" ELSE p.use]
    BY <1>1, <2>1 DEF PageType
  <2>4. /\ x \in PageType /\ x.count = p.count /\ x.maps = 0 /\ x.held = p.held
        /\ x.lru = p.lru /\ x.pagevec = p.pagevec /\ x.hwpoison = p.hwpoison
        /\ x.use = IF p.use = "anon" THEN "none" ELSE p.use
    BY <2>2, <2>3 DEF PageType
  <2>5. Refs(p) = Refs(x) + 1
    BY <1>1, <2>4 DEF Refs, One, PageType
  <2>6. One(x.lru) + One(x.pagevec) <= One(p.lru) + One(p.pagevec) /\ Tame(p, x)
    BY <2>4 DEF One, Tame
  <2> QED BY <2>4, <2>5, <2>6, LeaveKeeps
<1>2. CASE p.held = 1 /\ x = [p EXCEPT !.held = 0]
  <2>1. /\ x \in PageType /\ x.count = p.count /\ x.use = p.use /\ x.maps = p.maps
        /\ x.held = 0 /\ x.lru = p.lru /\ x.pagevec = p.pagevec /\ x.hwpoison = p.hwpoison
    BY <1>2 DEF PageType
  <2>2. Refs(p) = Refs(x) + 1
    BY <1>2, <2>1 DEF Refs, One, PageType
  <2>3. One(x.lru) + One(x.pagevec) <= One(p.lru) + One(p.pagevec) /\ Tame(p, x)
    BY <2>1 DEF One, Tame
  <2> QED BY <2>1, <2>2, <2>3, LeaveKeeps
<1>3. CASE p.use = "cache" /\ x = [p EXCEPT !.use = "none", !.io = "clean"]
  <2>1. PICK y : y = [p EXCEPT !.use = "none"]
    OBVIOUS
  <2>2. /\ y \in PageType /\ y.count = p.count /\ y.use = "none" /\ y.maps = p.maps
        /\ y.held = p.held /\ y.lru = p.lru /\ y.pagevec = p.pagevec /\ y.hwpoison = p.hwpoison
    BY <2>1 DEF PageType
  <2>3. x = [y EXCEPT !.io = "clean"]
    BY <1>3, <2>1
  <2>4. /\ x \in PageType /\ x.count = p.count /\ x.use = "none" /\ x.maps = p.maps
        /\ x.held = p.held /\ x.lru = p.lru /\ x.pagevec = p.pagevec /\ x.hwpoison = p.hwpoison
    BY <2>2, <2>3 DEF PageType
  <2>5. Refs(p) = Refs(x) + 1
    BY <1>3, <2>4 DEF Refs, One, PageType
  <2>6. One(x.lru) + One(x.pagevec) <= One(p.lru) + One(p.pagevec) /\ Tame(p, x)
    BY <2>4 DEF One, Tame
  <2> QED BY <2>4, <2>5, <2>6, LeaveKeeps
<1> QED BY <1>1, <1>2, <1>3

-----------------------------------------------------------------------------
(* Counting the claims.                                                    *)

LEMMA ThoseFinite ==
  ASSUME NEW S, NEW f, NEW c
  PROVE  /\ IsFiniteSet(Those(S, f)) /\ IsFiniteSet(Others(S, f, c))
         /\ Cardinality(Those(S, f)) \in Nat /\ Cardinality(Others(S, f, c)) \in Nat
<1>1. Those(S, f) \subseteq Claimer /\ Others(S, f, c) \subseteq Claimer
  BY DEF Those, Others
<1> QED BY <1>1, FramesOK, FS_Subset, FS_CardinalityType

LEMMA ThoseOthers ==
  ASSUME NEW S, NEW f, NEW c \in Claimer
  PROVE  Cardinality(Those(S, f)) =
           Cardinality(Others(S, f, c)) + One(claim[c].f = f /\ claim[c].pc \in S)
<1>1. IsFiniteSet(Those(S, f)) /\ Cardinality(Those(S, f)) \in Nat
      /\ Cardinality(Others(S, f, c)) \in Nat
  BY ThoseFinite
<1>2. CASE c \in Those(S, f)
  <2>1. Cardinality(Others(S, f, c)) = Cardinality(Those(S, f)) - 1
    BY <1>1, <1>2, FS_RemoveElement DEF Others
  <2>2. One(claim[c].f = f /\ claim[c].pc \in S) = 1
    BY <1>2 DEF Those, One
  <2> QED BY <1>1, <2>1, <2>2
<1>3. CASE c \notin Those(S, f)
  <2>1. Others(S, f, c) = Those(S, f)
    BY <1>3 DEF Others
  <2>2. One(claim[c].f = f /\ claim[c].pc \in S) = 0
    BY <1>3 DEF Those, One
  <2> QED BY <1>1, <2>1, <2>2
<1> QED BY <1>2, <1>3

(* The claims that isolate a page hold it. *)
LEMMA FewerMovers ==
  ASSUME NEW f, NEW c
  PROVE  /\ Cardinality(Those({"migrate"}, f)) <= Cardinality(Those(Holding, f))
         /\ Cardinality(Others({"migrate"}, f, c)) <= Cardinality(Others(Holding, f, c))
<1>1. /\ Those({"migrate"}, f) \subseteq Those(Holding, f)
      /\ Others({"migrate"}, f, c) \subseteq Others(Holding, f, c)
  BY DEF Those, Others, Holding
<1>2. IsFiniteSet(Those(Holding, f)) /\ IsFiniteSet(Others(Holding, f, c))
  BY ThoseFinite
<1> QED BY <1>1, <1>2, FS_Subset

LEMMA OthersNext ==
  (\A S, f : \A c \in Claimer :
     Cardinality(Those(S, f)) =
       Cardinality(Others(S, f, c)) + One(claim[c].f = f /\ claim[c].pc \in S))'
<1>1. \A S, f : \A c \in Claimer :
        Cardinality(Those(S, f)) =
          Cardinality(Others(S, f, c)) + One(claim[c].f = f /\ claim[c].pc \in S)
  BY ThoseOthers
<1> QED BY <1>1, PTL

-----------------------------------------------------------------------------
(* Steps of the users.                                                     *)

LEMMA UserKeeps ==
  ASSUME HwInv, NEW f \in Frame, NEW q, Keeps(page[f], q), Change(f, q),
         UNCHANGED <<claim, mce_bad_pages, history>>
  PROVE  HwInv'
<1>1. /\ page' = [page EXCEPT ![f] = q] /\ claim' = claim /\ mce_bad_pages' = mce_bad_pages
      /\ faulty' = faulty /\ forged' = forged /\ leaked' = leaked
  BY DEF Change, history
<1>2. \A S, g : Those(S, g)' = Those(S, g)
  BY <1>1 DEF Those
<1>3. /\ q \in PageType /\ q.hwpoison = page[f].hwpoison
      /\ page[f].hwpoison /\ page[f].use # "buddy" => q.use # "buddy"
  BY DEF Keeps, Tame
<1>4. Types'
  BY <1>1, <1>3 DEF HwInv, Types
<1>5. \A g \in Frame : page'[g] = IF g = f THEN q ELSE page[g]
  BY <1>1 DEF HwInv, Types
<1>6. ASSUME NEW g \in Frame PROVE PageOK(g)'
  <2> DEFINE n == Cardinality(Those(Holding, g)) + leaked[g]
             w == Cardinality(Those({"migrate"}, g))
  <2>1. /\ Cardinality(Those(Holding, g))' = Cardinality(Those(Holding, g))
        /\ Cardinality(Those({"migrate"}, g))' = Cardinality(Those({"migrate"}, g))
    BY <1>2
  <2>2. n \in Nat /\ w \in Nat /\ w <= n
    <3>1. Cardinality(Those(Holding, g)) \in Nat /\ Cardinality(Those({"migrate"}, g)) \in Nat
      BY ThoseFinite
    <3>2. leaked[g] \in Nat
      BY DEF HwInv, Types
    <3> QED BY <3>1, <3>2, FewerMovers
  <2>3. g \notin forged => Good(page[g], n, w)
    BY DEF HwInv, Pages, PageOK
  <2>4. g \notin forged => Good(page'[g], n, w)
    <3> HIDE DEF n, w
    <3> QED BY <1>5, <2>2, <2>3 DEF Keeps
  <2> QED BY <1>1, <2>1, <2>4 DEF PageOK
<1>7. Marked' = Marked
  <2>1. \A g \in Frame : page'[g].hwpoison = page[g].hwpoison
    BY <1>3, <1>5
  <2> QED BY <1>2, <2>1 DEF Marked
<1>8. Counters' = Counters
  BY <1>1 DEF Counters
<1>9. Owed' /\ ForgedFirst' /\ Flagged'
  BY <1>1, <1>3, <1>5, <1>7, <1>8 DEF HwInv, Types, Owed, ForgedFirst, Flagged
<1>10. Met'
  BY <1>1, <1>3, <1>5 DEF HwInv, Types, Flagged, Met, MetOK
<1> QED BY <1>4, <1>6, <1>9, <1>10 DEF HwInv, Pages

-----------------------------------------------------------------------------
(* A step of one claim, at its frame.                                      *)

(* The references move with the step of the claim from a to b.  The step   *)
(* may also leave d of them behind.                                        *)
Shifts(p, q, a, b, d) ==
  \A n, w \in Nat :
    w <= n /\ Good(p, n + One(a.pc \in Holding), w + One(a.pc = "migrate")) =>
      Good(q, n + One(b.pc \in Holding) + d, w + One(b.pc = "migrate"))

Counted == Counting \cup {"done"}

(* Claim c steps to r at frame f, which becomes q. *)
Act(c, f, q, r, d) ==
  /\ f = claim[c].f /\ claim[c].pc # "idle" /\ (r.f = f \/ r.pc = "idle")
  /\ Change(f, q) /\ claim' = [claim EXCEPT ![c] = r]
  /\ leaked' = [leaked EXCEPT ![f] = @ + d] /\ mce_bad_pages' \in Int
  /\ faulty' \subseteq faulty /\ forged \subseteq forged' /\ forged' \subseteq Frame
  /\ f \notin forged' => Shifts(page[f], q, claim[c], r, d)
  /\ r.pc \in Forging => f \in forged'
  /\ mce_bad_pages' >= mce_bad_pages + One(r.pc \in Counting) - One(claim[c].pc \in Counting)
  /\ q.hwpoison => page[f].hwpoison \/ r.pc \in Counted
  /\ claim[c].pc \in Counted /\ q.hwpoison => r.pc \in Counted
  /\ f \in faulty' => q.hwpoison
  /\ f \in faulty' /\ page[f].hwpoison /\ page[f].use # "buddy" => q.use # "buddy"
  /\ f \in faulty' /\ ~r.late =>
       r.pc \in {"idle", "own"} \/ (r.pc \in Looking /\ q.use # "buddy")

LEMMA ActKeeps ==
  ASSUME HwInv, NEW c \in Claimer, NEW f \in Frame, NEW q \in PageType, NEW r \in ClaimType,
         NEW d \in Nat, Act(c, f, q, r, d)
  PROVE  HwInv'
<1> USE DEF Change, Act
<1>1. /\ \A g \in Frame : page'[g] = IF g = f THEN q ELSE page[g]
      /\ \A e \in Claimer : claim'[e] = IF e = c THEN r ELSE claim[e]
      /\ \A g \in Frame : leaked'[g] = IF g = f THEN leaked[f] + d ELSE leaked[g]
  BY DEF HwInv, Types
<1>2. Types'
  <2>1. page' \in [Frame -> PageType] /\ claim' \in [Claimer -> ClaimType]
    BY DEF HwInv, Types
  <2>2. leaked' \in [Frame -> Nat] /\ faulty' \subseteq Frame
    BY DEF HwInv, Types
  <2>3. \A e \in Claimer : claim'[e].pc # "idle" => claim'[e].f \in Frame
    BY <1>1 DEF HwInv, Types
  <2> QED BY <2>1, <2>2, <2>3 DEF Types
<1>3. \A S, g : Others(S, g, c)' = Others(S, g, c)
  BY <1>1 DEF Others, Those
<1>4. \A S, g : /\ Cardinality(Others(S, g, c)) \in Nat
                /\ Cardinality(Others(S, g, c))' = Cardinality(Others(S, g, c))
  BY <1>3, ThoseFinite
<1>5. ASSUME NEW S, "idle" \notin S, NEW g
      PROVE  Cardinality(Those(S, g))' =
               Cardinality(Others(S, g, c)) + (IF g = f THEN One(r.pc \in S) ELSE 0)
  <2>1. Cardinality(Those(S, g))' =
          Cardinality(Others(S, g, c)) + One(r.f = g /\ r.pc \in S)
    BY <1>1, <1>4, OthersNext
  <2>2. One(r.f = g /\ r.pc \in S) = IF g = f THEN One(r.pc \in S) ELSE 0
    BY <1>5 DEF One
  <2> QED BY <2>1, <2>2
<1>6. ASSUME NEW S, NEW g
      PROVE  Cardinality(Those(S, g)) =
               Cardinality(Others(S, g, c)) + (IF g = f THEN One(claim[c].pc \in S) ELSE 0)
  <2>1. Cardinality(Those(S, g)) =
          Cardinality(Others(S, g, c)) + One(claim[c].f = g /\ claim[c].pc \in S)
    BY ThoseOthers
  <2>2. One(claim[c].f = g /\ claim[c].pc \in S) = IF g = f THEN One(claim[c].pc \in S) ELSE 0
    BY DEF One
  <2> QED BY <2>1, <2>2
<1>7. ASSUME NEW g \in Frame PROVE PageOK(g)'
  <2> DEFINE m == Cardinality(Others(Holding, g, c))
             w == Cardinality(Others({"migrate"}, g, c))
  <2>1. m \in Nat /\ w \in Nat /\ w <= m /\ leaked[g] \in Nat
    BY <1>4, FewerMovers DEF HwInv, Types
  <2>2. g \notin forged =>
          Good(page[g], Cardinality(Those(Holding, g)) + leaked[g], Cardinality(Those({"migrate"}, g)))
    BY DEF HwInv, Pages, PageOK
  <2>3. "idle" \notin Holding /\ "idle" \notin {"migrate"}
    BY DEF Holding
  <2>4. CASE g = f
    <3>1. /\ Cardinality(Those(Holding, g)) = m + One(claim[c].pc \in Holding)
          /\ Cardinality(Those({"migrate"}, g)) = w + One(claim[c].pc \in {"migrate"})
          /\ Cardinality(Those(Holding, g))' = m + One(r.pc \in Holding)
          /\ Cardinality(Those({"migrate"}, g))' = w + One(r.pc \in {"migrate"})
      BY <1>5, <1>6, <2>3, <2>4
    <3>2. /\ One(claim[c].pc \in {"migrate"}) = One(claim[c].pc = "migrate")
          /\ One(r.pc \in {"migrate"}) = One(r.pc = "migrate")
          /\ One(claim[c].pc \in Holding) \in Nat /\ One(r.pc \in Holding) \in Nat
          /\ leaked'[g] = leaked[g] + d /\ page'[g] = q
      BY <1>1, <2>4 DEF One
    <3> HIDE DEF m, w
    <3>3. ASSUME g \notin forged' PROVE
            Good(page'[g], Cardinality(Those(Holding, g))' + leaked'[g],
                           Cardinality(Those({"migrate"}, g))')
      <4>1. Good(page[f], (m + leaked[g]) + One(claim[c].pc \in Holding),
                          w + One(claim[c].pc = "migrate"))
        <5>1. (m + leaked[g]) + One(claim[c].pc \in Holding)
                = Cardinality(Those(Holding, g)) + leaked[g]
          BY <2>1, <3>1, <3>2
        <5> QED BY <2>2, <2>4, <3>1, <3>2, <3>3, <5>1
      <4>2. m + leaked[g] \in Nat /\ w <= m + leaked[g]
        BY <2>1
      <4>3. Good(q, (m + leaked[g]) + One(r.pc \in Holding) + d, w + One(r.pc = "migrate"))
        BY <2>1, <2>4, <3>3, <4>1, <4>2 DEF Shifts
      <4>4. (m + leaked[g]) + One(r.pc \in Holding) + d
              = Cardinality(Those(Holding, g))' + leaked'[g]
        BY <2>1, <3>1, <3>2
      <4> QED BY <3>1, <3>2, <4>3, <4>4
    <3> QED BY <3>3 DEF PageOK
  <2>5. CASE g # f
    <3>1. /\ Cardinality(Those(Holding, g))' = Cardinality(Those(Holding, g))
          /\ Cardinality(Those({"migrate"}, g))' = Cardinality(Those({"migrate"}, g))
      <4>1. /\ Cardinality(Those(Holding, g))' = m + 0 /\ Cardinality(Those(Holding, g)) = m + 0
            /\ Cardinality(Those({"migrate"}, g))' = w + 0
            /\ Cardinality(Those({"migrate"}, g)) = w + 0
        BY <1>5, <1>6, <2>3, <2>5
      <4> QED BY <4>1
    <3> QED BY <1>1, <2>2, <2>5, <3>1 DEF PageOK
  <2> QED BY <2>4, <2>5
<1>8. ForgedFirst' /\ Flagged'
  <2>1. ForgedFirst'
    BY <1>1 DEF HwInv, ForgedFirst, Forging
  <2>2. Flagged'
    BY <1>1 DEF HwInv, Types, Flagged
  <2> QED BY <2>1, <2>2
<1>9. Met'
  BY <1>1 DEF HwInv, Types, Flagged, Met, MetOK
<1>10. Owed'
  <2>1. IsFiniteSet(Marked) /\ Marked' \subseteq Marked
    <3>1. IsFiniteSet(Marked)
      BY FramesOK, FS_Subset DEF Marked
    <3>2. ASSUME NEW g \in Marked' PROVE g \in Marked
      <4>1. g \in Frame /\ page'[g].hwpoison /\ Those(Counted, g)' = {}
        BY <3>2 DEF Marked, Counted
      <4>2. CASE g = f
        <5>1. r.pc \notin Counted
          BY <1>1, <4>1, <4>2 DEF Those, Counted, Counting
        <5>2. page[f].hwpoison /\ claim[c].pc \notin Counted
          BY <1>1, <4>1, <4>2, <5>1
        <5>3. \A e \in Claimer \ {c} : e \notin Those(Counted, g)
          BY <1>1, <4>1 DEF Those
        <5> QED BY <4>1, <4>2, <5>2, <5>3 DEF Marked, Those, Counted
      <4>3. CASE g # f
        <5>1. Those(Counted, g) = {}
          BY <1>1, <4>1, <4>3 DEF Those
        <5> QED BY <1>1, <4>1, <4>3, <5>1 DEF Marked, Counted
      <4> QED BY <4>2, <4>3
    <3> QED BY <3>1, <3>2
  <2>2. Cardinality(Marked') <= Cardinality(Marked) /\ Cardinality(Marked) \in Nat
        /\ Cardinality(Marked') \in Nat
    BY <2>1, FS_Subset, FS_CardinalityType
  <2>3. Cardinality(Counters) \in Nat /\ Cardinality(Counters') \in Nat
        /\ Cardinality(Counters') + One(claim[c].pc \in Counting)
             = Cardinality(Counters) + One(r.pc \in Counting)
    <3>1. Counters \ {c} = Counters' \ {c}
      BY <1>1 DEF Counters
    <3>2. IsFiniteSet(Counters) /\ IsFiniteSet(Counters')
      <4>1. Counters \subseteq Claimer /\ Counters' \subseteq Claimer
        BY DEF Counters
      <4> QED BY <4>1, FramesOK, FS_Subset
    <3>3. /\ Cardinality(Counters) \in Nat /\ Cardinality(Counters') \in Nat
          /\ Cardinality(Counters \ {c}) = Cardinality(Counters) - One(claim[c].pc \in Counting)
      <4>1. c \in Counters <=> claim[c].pc \in Counting
        BY DEF Counters
      <4> QED BY <3>2, <4>1, FS_RemoveElement, FS_CardinalityType DEF One
    <3>4. Cardinality(Counters' \ {c}) = Cardinality(Counters') - One(r.pc \in Counting)
      <4>1. c \in Counters' <=> r.pc \in Counting
        BY <1>1 DEF Counters
      <4>2. CASE c \in Counters'
        <5>1. Cardinality(Counters' \ {c}) = Cardinality(Counters') - 1
          BY <3>2, <4>2, FS_RemoveElement
        <5> QED BY <4>1, <4>2, <5>1 DEF One
      <4>3. CASE c \notin Counters'
        <5>1. Counters' \ {c} = Counters'
          BY <4>3
        <5>2. One(r.pc \in Counting) = 0
          BY <4>1, <4>3 DEF One
        <5>3. Cardinality(Counters' \ {c}) = Cardinality(Counters')
          BY <5>1
        <5> QED BY <3>3, <5>2, <5>3
      <4> QED BY <4>2, <4>3
    <3>5. One(claim[c].pc \in Counting) \in Nat /\ One(r.pc \in Counting) \in Nat
      BY DEF One
    <3>6. Cardinality(Counters) - One(claim[c].pc \in Counting)
            = Cardinality(Counters') - One(r.pc \in Counting)
      BY <3>1, <3>3, <3>4
    <3> QED BY <3>3, <3>5, <3>6
  <2>4. mce_bad_pages \in Int
    BY DEF HwInv, Types
  <2> QED BY <2>2, <2>3, <2>4 DEF HwInv, Owed, One
<1> QED BY <1>2, <1>7, <1>8, <1>9, <1>10 DEF HwInv, Pages

-----------------------------------------------------------------------------
(* Where the references go.                                                *)

LEMMA ShiftSame ==
  ASSUME NEW p \in PageType, NEW a \in ClaimType, NEW b \in ClaimType,
         a.pc \in Holding <=> b.pc \in Holding, a.pc # "migrate", b.pc # "migrate"
  PROVE  Shifts(p, p, a, b, 0)
BY DEF Shifts, One

LEMMA ShiftKeeps ==
  ASSUME NEW p \in PageType, NEW q, Keeps(p, q), NEW a \in ClaimType, NEW b \in ClaimType,
         a.pc \notin Holding, b.pc \notin Holding
  PROVE  Shifts(p, q, a, b, 0)
<1>1. a.pc # "migrate" /\ b.pc # "migrate"
  BY DEF Holding
<1> QED BY <1>1 DEF Shifts, One, Keeps

LEMMA ShiftPut ==
  ASSUME NEW p \in PageType, NEW a \in ClaimType, NEW b \in ClaimType,
         a.pc \in Holding, a.pc # "migrate", b.pc \notin Holding
  PROVE  Shifts(p, Put(p), a, b, 0)
<1>1. b.pc # "migrate"
  BY DEF Holding
<1>2. One(a.pc \in Holding) = 1 /\ One(a.pc = "migrate") = 0
      /\ One(b.pc \in Holding) = 0 /\ One(b.pc = "migrate") = 0
  BY <1>1 DEF One
<1>3. ASSUME NEW n \in Nat, NEW w \in Nat, Good(p, n + 1, w + 0)
      PROVE  Good(Put(p), n + 0 + 0, w + 0)
  <2>1. Good(p, n + 1, w)
    BY <1>3
  <2>2. n + 0 + 0 = n /\ w + 0 = w
    OBVIOUS
  <2> QED BY <2>1, <2>2, PutHeld
<1> QED BY <1>2, <1>3 DEF Shifts

LEMMA ShiftGet ==
  ASSUME NEW p \in PageType, p.count # 0, NEW a \in ClaimType, NEW b \in ClaimType,
         a.pc \notin Holding, b.pc \in Holding, b.pc # "migrate"
  PROVE  Shifts(p, Get(p), a, b, 0)
<1>1. a.pc # "migrate"
  BY DEF Holding
<1>2. One(a.pc \in Holding) = 0 /\ One(a.pc = "migrate") = 0
      /\ One(b.pc \in Holding) = 1 /\ One(b.pc = "migrate") = 0
  BY <1>1 DEF One
<1>3. ASSUME NEW n \in Nat, NEW w \in Nat, Good(p, n + 0, w + 0)
      PROVE  Good(Get(p), n + 1 + 0, w + 0)
  <2>1. Good(p, n, w)
    BY <1>3
  <2>2. n + 1 + 0 = n + 1 /\ w + 0 = w
    OBVIOUS
  <2> QED BY <2>1, <2>2, GetGood
<1> QED BY <1>2, <1>3 DEF Shifts

LEMMA ShiftLeak ==
  ASSUME NEW p \in PageType, NEW a \in ClaimType, NEW b \in ClaimType,
         a.pc \in Holding, a.pc # "migrate", b.pc \notin Holding
  PROVE  Shifts(p, p, a, b, 1)
<1>1. b.pc # "migrate"
  BY DEF Holding
<1> QED BY <1>1 DEF Shifts, One

(* invalidate_inode_page: the page cache gives its reference back. *)
LEMMA ShiftInvalidate ==
  ASSUME NEW p \in PageType, Invalidated(p), NEW a \in ClaimType, NEW b \in ClaimType,
         a.pc = "locked", b.pc = "put",
         NEW q, q = [p EXCEPT !.use = "none", !.count = 1]
  PROVE  Tame(p, q) /\ Shifts(p, q, a, b, 0)
<1>1. PICK x : x = [p EXCEPT !.use = "none"]
  OBVIOUS
<1>2. /\ x \in PageType /\ x.use = "none" /\ x.maps = p.maps /\ x.held = p.held
      /\ x.pagevec = p.pagevec /\ x.lru = p.lru /\ x.hwpoison = p.hwpoison
  BY <1>1 DEF PageType
<1>3. q = [x EXCEPT !.count = 1]
  BY <1>1
<1>4. /\ q \in PageType /\ q.use = "none" /\ q.maps = p.maps /\ q.held = p.held
      /\ q.pagevec = p.pagevec /\ q.lru = p.lru /\ q.hwpoison = p.hwpoison /\ q.count = 1
  BY <1>2, <1>3 DEF PageType
<1>5. p.count = 2 /\ Refs(p) = Refs(q) + 1
  BY <1>4 DEF Invalidated, Refs, One, PageType
<1>6. Refs(p) \in Nat /\ Refs(q) \in Nat
  BY <1>4, RefsNat
<1>7. One(a.pc \in Holding) = 1 /\ One(a.pc = "migrate") = 0
      /\ One(b.pc \in Holding) = 1 /\ One(b.pc = "migrate") = 0
  BY DEF One, Holding
<1>8. \A n, w \in Nat : Good(p, n + 1, w + 0) => Good(q, n + 1 + 0, w + 0)
  BY <1>4, <1>5, <1>6 DEF Good
<1> QED BY <1>4, <1>7, <1>8 DEF Tame, Shifts

(* isolate_lru_page *)
LEMMA ShiftIsolate ==
  ASSUME NEW p \in PageType, p.lru, NEW a \in ClaimType, NEW b \in ClaimType,
         a.pc = "isolate", b.pc = "migrate",
         NEW q, q = [Get(p) EXCEPT !.lru = FALSE]
  PROVE  Tame(p, q) /\ Shifts(p, q, a, b, 0)
<1>1. PICK g : g = Get(p)
  OBVIOUS
<1>2. /\ g \in PageType /\ g.count = p.count + 1 /\ g.use = p.use /\ g.maps = p.maps
      /\ g.held = p.held /\ g.pagevec = p.pagevec /\ g.hwpoison = p.hwpoison
  BY <1>1, GetFields
<1>3. /\ q \in PageType /\ q.use = p.use /\ q.maps = p.maps /\ q.held = p.held /\ ~q.lru
      /\ q.pagevec = p.pagevec /\ q.hwpoison = p.hwpoison /\ q.count = p.count + 1
  BY <1>1, <1>2 DEF PageType
<1>4. Refs(q) = Refs(p) /\ Refs(p) \in Nat
  BY <1>3, RefsNat DEF Refs
<1>5. One(a.pc \in Holding) = 0 /\ One(a.pc = "migrate") = 0
      /\ One(b.pc \in Holding) = 1 /\ One(b.pc = "migrate") = 1
  BY DEF One, Holding
<1>6. One(p.lru) = 1 /\ One(q.lru) = 0 /\ One(q.pagevec) = One(p.pagevec)
      /\ One(p.pagevec) \in Nat
  BY <1>3 DEF One
<1>7. ASSUME NEW n \in Nat, NEW w \in Nat, Good(p, n + 0, w + 0)
      PROVE  Good(q, n + 1 + 0, w + 1)
  <2>1. p.count = Refs(p) + n /\ p.use # "buddy" /\ w = 0 /\ ~p.pagevec
    BY <1>4, <1>7 DEF Good, One
  <2>2. q.count = Refs(q) + (n + 1 + 0)
    BY <1>3, <1>4, <2>1
  <2>3. One(q.lru) + One(q.pagevec) + (w + 1) <= 1
    BY <1>3, <2>1 DEF One
  <2> QED BY <1>3, <2>1, <2>2, <2>3 DEF Good
<1> QED BY <1>3, <1>5, <1>7 DEF Tame, Shifts

(* migrate_pages, when the users have moved. *)
LEMMA ShiftMoved ==
  ASSUME NEW p \in PageType, p.count = 1 + p.maps + (IF p.use = "cache" THEN 1 ELSE 0),
         NEW a \in ClaimType, NEW b \in ClaimType, a.pc = "migrate", b.pc = "done",
         NEW q, q = [Page("none", 1) EXCEPT !.pagevec = TRUE, !.hwpoison = p.hwpoison]
  PROVE  Tame(p, q) /\ Shifts(p, q, a, b, 0)
<1>1. PICK x : x = Page("none", 1)
  OBVIOUS
<1>2. /\ x \in PageType /\ x.use = "none" /\ x.count = 1 /\ ~x.lru
      /\ x.maps = 0 /\ x.held = 0
  BY <1>1, PageLiteral
<1>3. PICK y : y = [x EXCEPT !.pagevec = TRUE]
  OBVIOUS
<1>4. /\ y \in PageType /\ y.use = "none" /\ y.count = 1 /\ ~y.lru
      /\ y.maps = 0 /\ y.held = 0 /\ y.pagevec
  BY <1>2, <1>3 DEF PageType
<1>5. q = [y EXCEPT !.hwpoison = p.hwpoison]
  BY <1>1, <1>3
<1>6. /\ q \in PageType /\ q.use = "none" /\ q.count = 1 /\ ~q.lru
      /\ q.maps = 0 /\ q.held = 0 /\ q.pagevec /\ q.hwpoison = p.hwpoison
  BY <1>4, <1>5 DEF PageType
<1>7. One(a.pc \in Holding) = 1 /\ One(a.pc = "migrate") = 1
      /\ One(b.pc \in Holding) = 0 /\ One(b.pc = "migrate") = 0
  BY DEF One, Holding
<1>8. Refs(q) = 1 /\ One(q.lru) = 0 /\ One(q.pagevec) = 1
  BY <1>6 DEF Refs, One
<1>9. ASSUME NEW n \in Nat, NEW w \in Nat, Good(p, n + 1, w + 1)
      PROVE  Good(q, n + 0 + 0, w + 0)
  <2>1. p.count <= 1 + Refs(p)
    BY DEF Refs, One, PageType
  <2>2. n = 0
    BY <1>9, <2>1, RefsNat DEF Good
  <2>3. w = 0
    BY <1>9 DEF Good, One
  <2>4. q.count = Refs(q) + (n + 0 + 0)
    BY <1>6, <1>8, <2>2
  <2>5. One(q.lru) + One(q.pagevec) + (w + 0) <= 1
    BY <1>6, <2>3 DEF One
  <2> QED BY <1>6, <2>4, <2>5 DEF Good
<1> QED BY <1>6, <1>7, <1>9 DEF Tame, Shifts

(* migrate_pages, when they have not. *)
LEMMA ShiftBack ==
  ASSUME NEW p \in PageType, NEW a \in ClaimType, NEW b \in ClaimType,
         a.pc = "migrate", b.pc = "idle", NEW q, q = [p EXCEPT !.pagevec = TRUE]
  PROVE  Tame(p, q) /\ Shifts(p, q, a, b, 0)
<1>1. /\ q \in PageType /\ q.use = p.use /\ q.maps = p.maps /\ q.held = p.held
      /\ q.lru = p.lru /\ q.hwpoison = p.hwpoison /\ q.count = p.count /\ q.pagevec
  BY DEF PageType
<1>2. One(a.pc \in Holding) = 1 /\ One(a.pc = "migrate") = 1
      /\ One(b.pc \in Holding) = 0 /\ One(b.pc = "migrate") = 0
  BY DEF One, Holding
<1>3. ASSUME NEW n \in Nat, NEW w \in Nat, Good(p, n + 1, w + 1)
      PROVE  Good(q, n + 0 + 0, w + 0)
  <2>1. ~p.lru /\ ~p.pagevec /\ w = 0
    BY <1>3 DEF Good, One
  <2>2. Refs(q) = Refs(p) + 1 /\ Refs(p) \in Nat
    BY <1>1, <2>1, RefsNat DEF Refs, One, PageType
  <2>3. p.count = Refs(p) + (n + 1) /\ p.use # "buddy"
    BY <1>3, <2>2 DEF Good
  <2>4. q.count = Refs(q) + (n + 0 + 0)
    BY <1>1, <2>2, <2>3
  <2>5. One(q.lru) + One(q.pagevec) + (w + 0) <= 1
    BY <1>1, <2>1 DEF One
  <2> QED BY <1>1, <2>3, <2>4, <2>5 DEF Good
<1> QED BY <1>1, <1>2, <1>3 DEF Tame, Shifts

-----------------------------------------------------------------------------
(* The steps of soft_offline_page.                                         *)

LEMMA IdleType == Idle \in ClaimType /\ Idle.pc = "idle" /\ Idle.late = FALSE
BY DEF Idle, ClaimType, PCs

LEMMA Going ==
  ASSUME Types, NEW c \in Claimer, NEW pc \in PCs, Goto(c, pc)
  PROVE  \E r \in ClaimType : /\ claim' = [claim EXCEPT ![c] = r]
                              /\ r.f = claim[c].f /\ r.pc = pc /\ r.late = claim[c].late
<1> DEFINE r == [claim[c] EXCEPT !.pc = pc]
<1>1. claim[c] \in ClaimType
  BY DEF Types
<1>2. r \in ClaimType /\ r.f = claim[c].f /\ r.pc = pc /\ r.late = claim[c].late
  BY <1>1 DEF ClaimType
<1>3. claim' = [claim EXCEPT ![c] = r]
  BY DEF Goto
<1> QED BY <1>2, <1>3

LEMMA Ending ==
  ASSUME NEW c \in Claimer, End(c)
  PROVE  \E r \in ClaimType : claim' = [claim EXCEPT ![c] = r] /\ r.pc = "idle"
BY IdleType DEF End

LEMMA Owning ==
  ASSUME Types, NEW c \in Claimer, Own(c)
  PROVE  \E r \in ClaimType : /\ claim' = [claim EXCEPT ![c] = r]
                              /\ r.f = claim[c].f /\ r.pc = "own"
<1> DEFINE r == [Idle EXCEPT !.pc = "own", !.f = claim[c].f]
<1>1. claim[c] \in ClaimType
  BY DEF Types
<1>2. PICK y : y = [Idle EXCEPT !.pc = "own"]
  OBVIOUS
<1>3. y \in ClaimType /\ y.pc = "own"
  BY <1>2, IdleType DEF ClaimType, PCs
<1>4. r = [y EXCEPT !.f = claim[c].f]
  BY <1>2
<1>5. r \in ClaimType /\ r.f = claim[c].f /\ r.pc = "own"
  BY <1>1, <1>3, <1>4 DEF ClaimType
<1>6. claim' = [claim EXCEPT ![c] = r]
  BY DEF Own
<1> QED BY <1>5, <1>6

(* A step that neither sets nor clears the flag. *)
LEMMA PlainKeeps ==
  ASSUME HwInv, NEW c \in Claimer, NEW f \in Frame, f = claim[c].f, claim[c].pc # "idle",
         claim[c].pc \notin Counted,
         NEW q, Tame(page[f], q), Change(f, q),
         NEW r \in ClaimType, claim' = [claim EXCEPT ![c] = r],
         r.pc = "idle" \/ (r.f = f /\ r.late = claim[c].late) \/ (r.f = f /\ r.pc = "own"),
         r.pc \notin Counting, r.pc \in Forging => claim[c].pc \in Forging,
         claim[c].pc = "own" => r.pc = "idle",
         claim[c].pc \in Forging \/ Shifts(page[f], q, claim[c], r, 0),
         f \in faulty /\ ~claim[c].late => r.pc \in Looking \cup {"idle", "own"},
         UNCHANGED <<mce_bad_pages, history>>
  PROVE  HwInv'
<1>1. /\ mce_bad_pages' = mce_bad_pages /\ faulty' = faulty /\ forged' = forged
      /\ leaked' = leaked
  BY DEF history
<1>2. leaked' = [leaked EXCEPT ![f] = @ + 0]
  BY <1>1 DEF HwInv, Types
<1>3. /\ q \in PageType /\ q.hwpoison = page[f].hwpoison
      /\ page[f].hwpoison /\ page[f].use # "buddy" => q.use # "buddy"
  BY DEF Tame
<1>4. f \notin forged => Shifts(page[f], q, claim[c], r, 0)
  BY DEF HwInv, ForgedFirst
<1>5. r.pc \in Forging => f \in forged
  BY DEF HwInv, ForgedFirst
<1>6. f \in faulty => q.hwpoison
  BY <1>3 DEF HwInv, Flagged
<1>7. f \in faulty /\ ~r.late =>
        r.pc \in {"idle", "own"} \/ (r.pc \in Looking /\ q.use # "buddy")
  <2> SUFFICES ASSUME f \in faulty, ~r.late, r.pc \notin {"idle", "own"}
               PROVE  r.pc \in Looking /\ q.use # "buddy"
    OBVIOUS
  <2>1. ~claim[c].late
    OBVIOUS
  <2>2. r.pc \in Looking
    BY <2>1
  <2>3. claim[c].pc # "own"
    OBVIOUS
  <2> QED BY <1>3, <1>6, <2>1, <2>2, <2>3 DEF HwInv, Met, MetOK
<1>8. mce_bad_pages' >= mce_bad_pages + One(r.pc \in Counting) - One(claim[c].pc \in Counting)
  BY <1>1 DEF HwInv, Types, One, Counted
<1>9. /\ faulty' \subseteq faulty /\ forged \subseteq forged' /\ forged' \subseteq Frame
      /\ mce_bad_pages' \in Int
  BY <1>1 DEF HwInv, Types
<1>10. /\ f \notin forged' => Shifts(page[f], q, claim[c], r, 0)
       /\ r.pc \in Forging => f \in forged'
       /\ f \in faulty' => q.hwpoison
       /\ f \in faulty' /\ page[f].hwpoison /\ page[f].use # "buddy" => q.use # "buddy"
       /\ f \in faulty' /\ ~r.late =>
            r.pc \in {"idle", "own"} \/ (r.pc \in Looking /\ q.use # "buddy")
  BY <1>1, <1>3, <1>4, <1>5, <1>6, <1>7
<1>11. /\ claim[c].pc \in Counted /\ q.hwpoison => r.pc \in Counted
       /\ q.hwpoison => page[f].hwpoison \/ r.pc \in Counted
       /\ r.f = f \/ r.pc = "idle"
       /\ q \in PageType /\ 0 \in Nat
  BY <1>3
<1>12. Act(c, f, q, r, 0)
  BY <1>2, <1>8, <1>9, <1>10, <1>11 DEF Act
<1> QED BY <1>11, <1>12, ActKeeps

LEMMA TamePage ==
  ASSUME NEW p \in PageType
  PROVE  /\ Tame(p, p) /\ Tame(p, Get(p)) /\ Tame(p, Put(p)) /\ Tame(p, Drain(p))
BY KeepsSame, GetFields, PutTame, DrainKeeps DEF Keeps, Tame

LEMMA SamePage ==
  ASSUME Types, NEW f \in Frame, UNCHANGED page
  PROVE  Change(f, page[f])
BY DEF Types, Change

LEMMA SoftOfflineKeeps ==
  ASSUME HwInv, NEW c \in Claimer, SoftOffline(c)
  PROVE  HwInv'
<1> DEFINE Steps == {"get", "free", "lru", "shake", "get2", "free2", "lru2", "flag", "lock",
                     "writeback", "locked", "put", "isolate", "migrate", "done"}
<1>1. Types /\ claim[c] \in ClaimType
  BY DEF HwInv, Types
<1>2. claim[c].pc \in Steps
  BY DEF SoftOffline, At, GetAnyPage, GetFreePage, FlagFreePage, PutNoLru, ShakePage, GiveUp,
         LockOffline, WaitWriteback, AlreadyPoisoned, Invalidate, PutOffline, IsolateLru, Migrate, Done
<1>3. PICK f \in Frame : f = claim[c].f
  BY <1>1, <1>2 DEF Types
<1>4. PICK p \in PageType : p = page[f]
  BY <1>1 DEF Types
<1>5. P(c) = p /\ \A q : Set(c, q) <=> Change(f, q)
  BY <1>3, <1>4 DEF P, Set
<1>6. UNCHANGED page => Change(f, p)
  BY <1>1, <1>4, SamePage
<1>7. Tame(p, p) /\ Tame(p, Get(p)) /\ Tame(p, Put(p)) /\ Tame(p, Drain(p))
  BY TamePage
<1>8. f \in faulty /\ ~claim[c].late => claim[c].pc \in Looking /\ p.use # "buddy" /\ p.hwpoison
  BY <1>2, <1>3, <1>4 DEF HwInv, Met, MetOK, Flagged
<1>9. CASE GetAnyPage(c)
  <2>1. claim[c].pc \in {"get", "get2"}
    BY <1>9 DEF GetAnyPage, At
  <2>2. CASE p.count = 0
    <3>1. PICK pc \in {"free", "free2"} : Goto(c, pc) /\ (claim[c].pc = "get2" => pc = "free2")
      BY <1>5, <1>9, <2>1, <2>2 DEF GetAnyPage, Gets, At
    <3>2. PICK r \in ClaimType : /\ claim' = [claim EXCEPT ![c] = r]
                                 /\ r.f = f /\ r.pc = pc /\ r.late = claim[c].late
      BY <1>1, <1>3, <3>1, Going DEF PCs
    <3>3. Change(f, p) /\ UNCHANGED <<mce_bad_pages, history>>
      BY <1>5, <1>6, <1>9, <2>2 DEF GetAnyPage
    <3>4. Shifts(p, p, claim[c], r, 0)
      BY <1>1, <2>1, <3>2, ShiftSame DEF Holding
    <3>5. f \in faulty /\ ~claim[c].late => r.pc \in Looking
      BY <1>8, <2>1, <3>1, <3>2 DEF Looking
    <3> QED BY <1>3, <1>4, <1>7, <2>1, <3>2, <3>3, <3>4, <3>5, PlainKeeps
            DEF Counted, Counting, Forging
  <2>3. CASE p.count # 0
    <3>1. PICK pc \in {"lru", "lru2"} : Goto(c, pc)
      BY <1>5, <1>9, <2>1, <2>3 DEF GetAnyPage, Gets, At
    <3>2. PICK r \in ClaimType : /\ claim' = [claim EXCEPT ![c] = r]
                                 /\ r.f = f /\ r.pc = pc /\ r.late = claim[c].late
      BY <1>1, <1>3, <3>1, Going DEF PCs
    <3>3. Change(f, Get(p)) /\ UNCHANGED <<mce_bad_pages, history>>
      BY <1>5, <1>9, <2>3 DEF GetAnyPage
    <3>4. Shifts(p, Get(p), claim[c], r, 0)
      BY <1>1, <2>1, <2>3, <3>2, ShiftGet DEF Holding
    <3>5. r.pc \in Looking
      BY <3>2 DEF Looking
    <3> QED BY <1>3, <1>4, <1>7, <2>1, <3>2, <3>3, <3>4, <3>5, PlainKeeps
            DEF Counted, Counting, Forging
  <2> QED BY <2>2, <2>3
<1>10. CASE GetFreePage(c)
  <2>1. /\ claim[c].pc \in {"free", "free2"} /\ Change(f, p)
        /\ UNCHANGED <<mce_bad_pages, history>>
    BY <1>6, <1>10 DEF GetFreePage, At
  <2>2. CASE p.use = "buddy"
    <3>1. PICK r \in ClaimType : /\ claim' = [claim EXCEPT ![c] = r]
                                 /\ r.f = f /\ r.pc = "flag" /\ r.late = claim[c].late
      BY <1>1, <1>3, <1>5, <1>10, <2>2, Going DEF GetFreePage, PCs
    <3>2. Shifts(p, p, claim[c], r, 0)
      BY <1>1, <2>1, <3>1, ShiftSame DEF Holding
    <3>3. f \in faulty => claim[c].late
      BY <1>8, <2>2
    <3> QED BY <1>3, <1>4, <1>7, <2>1, <3>1, <3>2, <3>3, PlainKeeps
            DEF Counted, Counting, Forging
  <2>3. CASE p.use # "buddy"
    <3>1. PICK r \in ClaimType : claim' = [claim EXCEPT ![c] = r] /\ r.pc = "idle"
      BY <1>5, <1>10, <2>3, Ending DEF GetFreePage
    <3>2. Shifts(p, p, claim[c], r, 0)
      BY <1>1, <2>1, <3>1, ShiftSame DEF Holding
    <3> QED BY <1>3, <1>4, <1>7, <2>1, <3>1, <3>2, PlainKeeps
            DEF Counted, Counting, Forging
  <2> QED BY <2>2, <2>3
<1>21. CASE FlagFreePage(c)
  <2>1. claim[c].pc = "flag"
    BY <1>21 DEF FlagFreePage, At
  <2>2. PICK q : q = [p EXCEPT !.hwpoison = TRUE]
    OBVIOUS
  <2>3. /\ q \in PageType /\ q.count = p.count /\ q.use = p.use /\ q.maps = p.maps
        /\ q.held = p.held /\ q.lru = p.lru /\ q.pagevec = p.pagevec /\ q.hwpoison
    BY <2>2 DEF PageType
  <2>4. Change(f, q) /\ Goto(c, "done") /\ UNCHANGED <<mce_bad_pages, history>>
    BY <1>5, <1>21, <2>2 DEF FlagFreePage
  <2>5. PICK r \in ClaimType : /\ claim' = [claim EXCEPT ![c] = r]
                               /\ r.f = f /\ r.pc = "done" /\ r.late = claim[c].late
    BY <1>1, <1>3, <2>4, Going DEF PCs
  <2>6. Shifts(p, q, claim[c], r, 0)
    <3>1. Shifts(p, p, claim[c], r, 0)
      BY <1>1, <2>1, <2>5, ShiftSame DEF Holding
    <3>2. \A n, w : Good(p, n, w) => Good(q, n, w)
      BY <2>3 DEF Good, Refs
    <3> QED BY <3>1, <3>2 DEF Shifts
  <2>7. f \in faulty => r.late
    BY <1>8, <2>1, <2>5 DEF Looking
  <2>8. /\ mce_bad_pages' = mce_bad_pages /\ faulty' = faulty /\ forged' = forged
        /\ leaked' = [leaked EXCEPT ![f] = @ + 0] /\ forged \subseteq Frame
        /\ mce_bad_pages \in Int
    BY <1>1, <2>4 DEF Types, history
  <2>9. One(r.pc \in Counting) = 0 /\ One(claim[c].pc \in Counting) = 0
    BY <2>1, <2>5 DEF One, Counting
  <2>10. Act(c, f, q, r, 0)
    BY <1>3, <1>4, <2>1, <2>3, <2>4, <2>5, <2>6, <2>7, <2>8, <2>9
    DEF Act, Counted, Forging
  <2> QED BY <2>3, <2>10, ActKeeps
<1>11. CASE PutNoLru(c)
  <2>1. claim[c].pc = "lru"
    BY <1>11 DEF PutNoLru, At
  <2>2. CASE p.lru
    <3>1. PICK r \in ClaimType : /\ claim' = [claim EXCEPT ![c] = r]
                                 /\ r.f = f /\ r.pc = "lru2" /\ r.late = claim[c].late
      BY <1>1, <1>3, <1>5, <1>11, <2>2, Going DEF PutNoLru, PCs
    <3>2. Change(f, p) /\ UNCHANGED <<mce_bad_pages, history>>
      BY <1>5, <1>6, <1>11, <2>2 DEF PutNoLru
    <3>3. Shifts(p, p, claim[c], r, 0)
      BY <1>1, <2>1, <3>1, ShiftSame DEF Holding
    <3> QED BY <1>3, <1>4, <1>7, <2>1, <3>1, <3>2, <3>3, PlainKeeps
            DEF Counted, Counting, Forging, Looking
  <2>3. CASE ~p.lru
    <3>1. PICK r \in ClaimType : /\ claim' = [claim EXCEPT ![c] = r]
                                 /\ r.f = f /\ r.pc = "shake" /\ r.late = claim[c].late
      BY <1>1, <1>3, <1>5, <1>11, <2>3, Going DEF PutNoLru, PCs
    <3>2. Change(f, Put(p)) /\ UNCHANGED <<mce_bad_pages, history>>
      BY <1>5, <1>11, <2>3 DEF PutNoLru
    <3>3. Shifts(p, Put(p), claim[c], r, 0)
      BY <1>1, <2>1, <3>1, ShiftPut DEF Holding
    <3> QED BY <1>3, <1>4, <1>7, <2>1, <3>1, <3>2, <3>3, PlainKeeps
            DEF Counted, Counting, Forging, Looking
  <2> QED BY <2>2, <2>3
<1>12. CASE ShakePage(c)
  <2>1. claim[c].pc = "shake"
    BY <1>12 DEF ShakePage, At
  <2>2. PICK r \in ClaimType : /\ claim' = [claim EXCEPT ![c] = r]
                               /\ r.f = f /\ r.pc = "get2" /\ r.late = claim[c].late
    BY <1>1, <1>3, <1>12, Going DEF ShakePage, PCs
  <2>3. PICK q : Keeps(p, q) /\ Change(f, q)
    <3>1. CASE p.use # "slab" /\ Set(c, Drain(p))
      BY <1>5, <3>1, DrainKeeps
    <3>2. CASE p.use = "slab" /\ Set(c, Put([p EXCEPT !.use = "none"]))
      BY <1>5, <3>2, FreeSlabKeeps
    <3>3. CASE UNCHANGED page
      BY <1>6, <3>3, KeepsSame
    <3> QED BY <1>5, <1>12, <3>1, <3>2, <3>3 DEF ShakePage
  <2>4. Tame(p, q) /\ Shifts(p, q, claim[c], r, 0)
    BY <1>1, <2>1, <2>2, <2>3, ShiftKeeps DEF Holding, Keeps
  <2>5. UNCHANGED <<mce_bad_pages, history>>
    BY <1>12 DEF ShakePage
  <2> QED BY <1>3, <1>4, <2>1, <2>2, <2>3, <2>4, <2>5, PlainKeeps
          DEF Counted, Counting, Forging, Looking
<1>13. CASE GiveUp(c)
  <2>1. claim[c].pc = "lru2" /\ Change(f, p) /\ UNCHANGED <<mce_bad_pages, faulty, forged>>
    BY <1>6, <1>13 DEF GiveUp, At
  <2>2. CASE p.lru
    <3>1. PICK r \in ClaimType : /\ claim' = [claim EXCEPT ![c] = r]
                                 /\ r.f = f /\ r.pc = "lock" /\ r.late = claim[c].late
      BY <1>1, <1>3, <1>5, <1>13, <2>2, Going DEF GiveUp, PCs
    <3>2. UNCHANGED <<mce_bad_pages, history>>
      BY <1>5, <1>13, <2>2 DEF GiveUp, history
    <3>3. Shifts(p, p, claim[c], r, 0)
      BY <1>1, <2>1, <3>1, ShiftSame DEF Holding
    <3> QED BY <1>3, <1>4, <1>7, <2>1, <3>1, <3>2, <3>3, PlainKeeps
            DEF Counted, Counting, Forging, Looking
  <2>3. CASE ~p.lru
    <3>1. PICK r \in ClaimType : claim' = [claim EXCEPT ![c] = r] /\ r.pc = "idle"
      BY <1>5, <1>13, <2>3, Ending DEF GiveUp
    <3>2. Shifts(p, p, claim[c], r, 1)
      BY <1>1, <2>1, <3>1, ShiftLeak DEF Holding
    <3>3. leaked' = [leaked EXCEPT ![f] = @ + 1]
      BY <1>3, <1>5, <1>13, <2>3 DEF GiveUp
    <3>4. /\ mce_bad_pages' = mce_bad_pages /\ faulty' = faulty /\ forged' = forged
          /\ forged \subseteq Frame /\ mce_bad_pages \in Int /\ 1 \in Nat
      BY <1>1, <2>1 DEF Types
    <3>5. One(r.pc \in Counting) = 0 /\ One(claim[c].pc \in Counting) = 0
      BY <2>1, <3>1 DEF One, Counting
    <3>6. f \in faulty => p.hwpoison
      BY <1>4 DEF HwInv, Flagged
    <3>7. claim[c].pc \notin Counted /\ r.pc \notin Forging /\ claim[c].pc # "idle"
      BY <2>1, <3>1 DEF Counted, Counting, Forging
    <3>8. Act(c, f, p, r, 1)
      BY <1>3, <1>4, <2>1, <3>1, <3>2, <3>3, <3>4, <3>5, <3>6, <3>7 DEF Act
    <3> QED BY <3>4, <3>8, ActKeeps
  <2> QED BY <2>2, <2>3
<1>14. CASE LockOffline(c)
  <2>1. /\ claim[c].pc = "lock" /\ Change(f, p)
        /\ UNCHANGED <<mce_bad_pages, history>> /\ Goto(c, "writeback")
    BY <1>6, <1>14 DEF LockOffline, At
  <2>2. PICK r \in ClaimType : /\ claim' = [claim EXCEPT ![c] = r]
                               /\ r.f = f /\ r.pc = "writeback" /\ r.late = claim[c].late
    BY <1>1, <1>3, <2>1, Going DEF PCs
  <2>3. Shifts(p, p, claim[c], r, 0)
    BY <1>1, <2>1, <2>2, ShiftSame DEF Holding
  <2> QED BY <1>3, <1>4, <1>7, <2>1, <2>2, <2>3, PlainKeeps
          DEF Counted, Counting, Forging, Looking
<1>22. CASE WaitWriteback(c)
  <2>1. /\ claim[c].pc = "writeback" /\ Change(f, p)
        /\ UNCHANGED <<mce_bad_pages, history>> /\ Goto(c, "locked")
    BY <1>6, <1>22 DEF WaitWriteback, At
  <2>2. PICK r \in ClaimType : /\ claim' = [claim EXCEPT ![c] = r]
                               /\ r.f = f /\ r.pc = "locked" /\ r.late = claim[c].late
    BY <1>1, <1>3, <2>1, Going DEF PCs
  <2>3. Shifts(p, p, claim[c], r, 0)
    BY <1>1, <2>1, <2>2, ShiftSame DEF Holding
  <2> QED BY <1>3, <1>4, <1>7, <2>1, <2>2, <2>3, PlainKeeps
          DEF Counted, Counting, Forging, Looking
<1>15. CASE AlreadyPoisoned(c)
  <2>1. claim[c].pc = "locked" /\ Change(f, Put(p)) /\ UNCHANGED <<mce_bad_pages, history>>
    BY <1>5, <1>15 DEF AlreadyPoisoned, At
  <2>2. PICK r \in ClaimType : claim' = [claim EXCEPT ![c] = r] /\ r.pc = "idle"
    BY <1>15, Ending DEF AlreadyPoisoned
  <2>3. Shifts(p, Put(p), claim[c], r, 0)
    BY <1>1, <2>1, <2>2, ShiftPut DEF Holding
  <2> QED BY <1>3, <1>4, <1>7, <2>1, <2>2, <2>3, PlainKeeps DEF Counted, Counting, Forging
<1>16. CASE Invalidate(c)
  <2>1. /\ claim[c].pc = "locked" /\ ~p.hwpoison /\ UNCHANGED <<mce_bad_pages, history>>
        /\ claim' = [claim EXCEPT ![c].pc = "put", ![c].inval = Invalidated(p)]
    BY <1>5, <1>16 DEF Invalidate, At
  <2>2. PICK r \in ClaimType : /\ claim' = [claim EXCEPT ![c] = r]
                               /\ r.f = f /\ r.pc = "put" /\ r.late = claim[c].late
    <3>1. PICK x : x = [claim[c] EXCEPT !.pc = "put"]
      OBVIOUS
    <3>2. x \in ClaimType /\ x.f = f /\ x.pc = "put" /\ x.late = claim[c].late
      BY <1>1, <1>3, <3>1 DEF ClaimType, PCs
    <3>3. PICK y : y = [x EXCEPT !.inval = Invalidated(p)]
      OBVIOUS
    <3>4. Invalidated(p) \in BOOLEAN
      BY DEF Invalidated
    <3>5. y \in ClaimType /\ y.f = f /\ y.pc = "put" /\ y.late = claim[c].late
      BY <3>2, <3>3, <3>4 DEF ClaimType
    <3>6. claim' = [claim EXCEPT ![c] = y]
      BY <1>1, <2>1, <3>1, <3>3 DEF Types, ClaimType
    <3> QED BY <3>5, <3>6
  <2>3. f \notin faulty
    BY <1>4, <2>1 DEF HwInv, Flagged
  <2>4. CASE Invalidated(p)
    <3>1. PICK q : q = [p EXCEPT !.use = "none", !.count = 1]
      OBVIOUS
    <3>2. Change(f, q)
      BY <1>5, <1>16, <2>4, <3>1 DEF Invalidate
    <3>3. Tame(p, q) /\ Shifts(p, q, claim[c], r, 0)
      BY <1>1, <2>1, <2>2, <2>4, <3>1, ShiftInvalidate
    <3> QED BY <1>3, <1>4, <2>1, <2>2, <2>3, <3>2, <3>3, PlainKeeps
            DEF Counted, Counting, Forging
  <2>5. CASE ~Invalidated(p)
    <3>1. Change(f, p)
      BY <1>5, <1>6, <1>16, <2>5 DEF Invalidate
    <3>2. Shifts(p, p, claim[c], r, 0)
      BY <1>1, <2>1, <2>2, ShiftSame DEF Holding
    <3> QED BY <1>3, <1>4, <1>7, <2>1, <2>2, <2>3, <3>1, <3>2, PlainKeeps
            DEF Counted, Counting, Forging
  <2> QED BY <2>4, <2>5
<1>17. CASE PutOffline(c)
  <2>1. claim[c].pc = "put" /\ Change(f, Put(p)) /\ UNCHANGED <<mce_bad_pages, history>>
    BY <1>5, <1>17 DEF PutOffline, At
  <2>2. PICK pc \in {"done", "isolate"} : Goto(c, pc)
    BY <1>17 DEF PutOffline
  <2>3. PICK r \in ClaimType : /\ claim' = [claim EXCEPT ![c] = r]
                               /\ r.f = f /\ r.pc = pc /\ r.late = claim[c].late
    BY <1>1, <1>3, <2>2, Going DEF PCs
  <2>4. Shifts(p, Put(p), claim[c], r, 0)
    BY <1>1, <2>1, <2>3, ShiftPut DEF Holding
  <2>5. f \in faulty => claim[c].late
    BY <1>8, <2>1 DEF Looking
  <2> QED BY <1>3, <1>4, <1>7, <2>1, <2>3, <2>4, <2>5, PlainKeeps DEF Counted, Counting, Forging
<1>18. CASE IsolateLru(c)
  <2>1. claim[c].pc = "isolate" /\ UNCHANGED <<mce_bad_pages, history>>
    BY <1>18 DEF IsolateLru, At
  <2>2. f \in faulty => claim[c].late
    BY <1>8, <2>1 DEF Looking
  <2>3. CASE p.lru
    <3>1. PICK r \in ClaimType : /\ claim' = [claim EXCEPT ![c] = r]
                                 /\ r.f = f /\ r.pc = "migrate" /\ r.late = claim[c].late
      BY <1>1, <1>3, <1>5, <1>18, <2>3, Going DEF IsolateLru, PCs
    <3>2. PICK q : q = [Get(p) EXCEPT !.lru = FALSE]
      OBVIOUS
    <3>3. Change(f, q)
      BY <1>5, <1>18, <2>3, <3>2 DEF IsolateLru
    <3>4. Tame(p, q) /\ Shifts(p, q, claim[c], r, 0)
      BY <1>1, <2>1, <2>3, <3>1, <3>2, ShiftIsolate
    <3> QED BY <1>3, <1>4, <2>1, <2>2, <3>1, <3>3, <3>4, PlainKeeps
            DEF Counted, Counting, Forging
  <2>4. CASE ~p.lru
    <3>1. PICK r \in ClaimType : claim' = [claim EXCEPT ![c] = r] /\ r.pc = "idle"
      BY <1>5, <1>18, <2>4, Ending DEF IsolateLru
    <3>2. Change(f, p)
      BY <1>5, <1>6, <1>18, <2>4 DEF IsolateLru
    <3>3. Shifts(p, p, claim[c], r, 0)
      BY <1>1, <2>1, <3>1, ShiftSame DEF Holding
    <3> QED BY <1>3, <1>4, <1>7, <2>1, <3>1, <3>2, <3>3, PlainKeeps
            DEF Counted, Counting, Forging
  <2> QED BY <2>3, <2>4
<1>19. CASE Migrate(c)
  <2>1. claim[c].pc = "migrate" /\ UNCHANGED <<mce_bad_pages, history>>
    BY <1>19 DEF Migrate, At
  <2>2. f \in faulty => claim[c].late
    BY <1>8, <2>1 DEF Looking
  <2>3. CASE /\ Movable(f) /\ Goto(c, "done")
             /\ Change(f, [Page("none", 1) EXCEPT !.pagevec = TRUE, !.hwpoison = p.hwpoison])
    <3>1. PICK r \in ClaimType : /\ claim' = [claim EXCEPT ![c] = r]
                                 /\ r.f = f /\ r.pc = "done" /\ r.late = claim[c].late
      BY <1>1, <1>3, <2>3, Going DEF PCs
    <3>2. PICK q : q = [Page("none", 1) EXCEPT !.pagevec = TRUE, !.hwpoison = p.hwpoison]
      OBVIOUS
    <3>3. p.count = 1 + p.maps + (IF p.use = "cache" THEN 1 ELSE 0)
      BY <1>4, <2>3 DEF Movable
    <3>4. Tame(p, q) /\ Shifts(p, q, claim[c], r, 0)
      BY <1>1, <2>1, <3>1, <3>2, <3>3, ShiftMoved
    <3> QED BY <1>3, <1>4, <2>1, <2>2, <2>3, <3>1, <3>2, <3>4, PlainKeeps
            DEF Counted, Counting, Forging
  <2>4. CASE Change(f, [p EXCEPT !.pagevec = TRUE]) /\ End(c)
    <3>1. PICK r \in ClaimType : claim' = [claim EXCEPT ![c] = r] /\ r.pc = "idle"
      BY <2>4, Ending
    <3>2. PICK q : q = [p EXCEPT !.pagevec = TRUE]
      OBVIOUS
    <3>3. Tame(p, q) /\ Shifts(p, q, claim[c], r, 0)
      BY <1>1, <2>1, <3>1, <3>2, ShiftBack
    <3> QED BY <1>3, <1>4, <2>1, <2>4, <3>1, <3>2, <3>3, PlainKeeps
            DEF Counted, Counting, Forging
  <2> QED BY <1>3, <1>5, <1>19, <2>3, <2>4 DEF Migrate
<1>20. CASE Done(c)
  <2>1. claim[c].pc = "done" /\ mce_bad_pages' = mce_bad_pages + 1
        /\ UNCHANGED history /\ Goto(c, "set")
    BY <1>20 DEF Done, At
  <2>2. PICK q : q = [p EXCEPT !.hwpoison = TRUE]
    OBVIOUS
  <2>3. /\ q \in PageType /\ q.count = p.count /\ q.use = p.use /\ q.maps = p.maps
        /\ q.held = p.held /\ q.lru = p.lru /\ q.pagevec = p.pagevec /\ q.hwpoison
    BY <2>2 DEF PageType
  <2>4. Change(f, q)
    BY <1>5, <1>20, <2>2 DEF Done
  <2>5. PICK r \in ClaimType : /\ claim' = [claim EXCEPT ![c] = r]
                               /\ r.f = f /\ r.pc = "set" /\ r.late = claim[c].late
    BY <1>1, <1>3, <2>1, Going DEF PCs
  <2>6. Shifts(p, q, claim[c], r, 0)
    <3>1. Shifts(p, p, claim[c], r, 0)
      BY <1>1, <2>1, <2>5, ShiftSame DEF Holding
    <3>2. \A n, w : Good(p, n, w) => Good(q, n, w)
      BY <2>3 DEF Good, Refs
    <3> QED BY <3>1, <3>2 DEF Shifts
  <2>7. f \in faulty => r.late
    BY <1>8, <2>1, <2>5 DEF Looking
  <2>8. /\ faulty' = faulty /\ forged' = forged /\ forged \subseteq Frame
        /\ leaked' = [leaked EXCEPT ![f] = @ + 0] /\ mce_bad_pages' \in Int
        /\ mce_bad_pages \in Int
    BY <1>1, <2>1 DEF Types, history
  <2>9. One(r.pc \in Counting) = 1 /\ One(claim[c].pc \in Counting) = 0
    BY <2>1, <2>5 DEF One, Counting
  <2>10. mce_bad_pages' >= mce_bad_pages + One(r.pc \in Counting) - One(claim[c].pc \in Counting)
    BY <2>1, <2>8, <2>9
  <2>11. r.pc \in Counted /\ r.pc \notin Forging
    BY <2>5 DEF Counted, Counting, Forging
  <2>12. Act(c, f, q, r, 0)
    BY <1>3, <1>4, <2>1, <2>3, <2>4, <2>5, <2>6, <2>7, <2>8, <2>10, <2>11 DEF Act
  <2> QED BY <2>3, <2>12, ActKeeps
<1> QED BY <1>9, <1>10, <1>11, <1>12, <1>13, <1>14, <1>15, <1>16, <1>17, <1>18, <1>19, <1>20,
           <1>21, <1>22 DEF SoftOffline

-----------------------------------------------------------------------------
(* The steps of unpoison_memory.  The count of the frame is no longer kept *)
(* (its claim has overwritten it), so only the bad pages matter.           *)

LEMMA UnpoisonKeeps ==
  ASSUME HwInv, NEW c \in Claimer, UnpoisonMemory(c) \/ Release(c)
  PROVE  HwInv'
<1>1. Types /\ claim[c] \in ClaimType
  BY DEF HwInv, Types
<1>2. claim[c].pc \in {"set", "unpoison", "ulock", "clear", "freeit", "own"}
  BY DEF UnpoisonMemory, At, SetCount, Unpoison, LockUnpoison, ClearPoison, FreeIt, Release
<1>3. PICK f \in Frame : f = claim[c].f
  BY <1>1, <1>2 DEF Types
<1>4. PICK p \in PageType : p = page[f]
  BY <1>1 DEF Types
<1>5. P(c) = p /\ \A q : Set(c, q) <=> Change(f, q)
  BY <1>3, <1>4 DEF P, Set
<1>6. UNCHANGED page => Change(f, p)
  BY <1>1, <1>4, SamePage
<1>7. Tame(p, p) /\ Tame(p, Get(p)) /\ Tame(p, Put(p))
  BY TamePage
<1>8. f \in faulty /\ claim[c].pc # "own" => claim[c].late
  BY <1>2, <1>3 DEF HwInv, Met, MetOK, Looking
<1>9. /\ f \in faulty => p.hwpoison
      /\ mce_bad_pages \in Int /\ forged \subseteq Frame
      /\ leaked' = leaked => leaked' = [leaked EXCEPT ![f] = @ + 0]
      /\ 0 \in Nat
  BY <1>1, <1>4 DEF HwInv, Flagged, Types
<1>10. claim[c].pc \in Forging => f \in forged
  BY <1>3 DEF HwInv, ForgedFirst
<1>11. PICK cleared : cleared = [p EXCEPT !.hwpoison = FALSE]
  OBVIOUS
<1>12. cleared \in PageType /\ ~cleared.hwpoison
  BY <1>11 DEF PageType
<1>13. CASE SetCount(c)
  <2>1. /\ claim[c].pc = "set" /\ mce_bad_pages' = mce_bad_pages /\ faulty' = faulty
        /\ leaked' = leaked /\ forged' = forged \cup {f} /\ Goto(c, "unpoison")
    BY <1>3, <1>13 DEF SetCount, At
  <2>2. PICK q : q = [p EXCEPT !.count = 2]
    OBVIOUS
  <2>3. q \in PageType /\ q.use = p.use /\ q.hwpoison = p.hwpoison
    BY <2>2 DEF PageType
  <2>4. Change(f, q)
    BY <1>5, <1>13, <2>2 DEF SetCount
  <2>5. PICK r \in ClaimType : /\ claim' = [claim EXCEPT ![c] = r]
                               /\ r.f = f /\ r.pc = "unpoison" /\ r.late = claim[c].late
    BY <1>1, <1>3, <2>1, Going DEF PCs
  <2>6. One(r.pc \in Counting) = 1 /\ One(claim[c].pc \in Counting) = 1
    BY <2>1, <2>5 DEF One, Counting
  <2>7. mce_bad_pages' >= mce_bad_pages + One(r.pc \in Counting) - One(claim[c].pc \in Counting)
    BY <1>9, <2>1, <2>6
  <2>8. r.pc \in Counted
    BY <2>5 DEF Counted, Counting
  <2>9. forged' \subseteq Frame /\ forged \subseteq forged' /\ f \in forged'
    BY <1>9, <2>1
  <2>10. Act(c, f, q, r, 0)
    BY <1>3, <1>4, <1>8, <1>9, <2>1, <2>3, <2>4, <2>5, <2>7, <2>8, <2>9 DEF Act
  <2> QED BY <1>9, <2>3, <2>10, ActKeeps
<1>14. CASE Unpoison(c)
  <2>1. claim[c].pc = "unpoison" /\ UNCHANGED <<forged, leaked>> /\ f \in forged
    BY <1>10, <1>14 DEF Unpoison, At, Forging
  <2>2. One(claim[c].pc \in Counting) = 1
    BY <2>1 DEF One, Counting
  <2>3. CASE ~p.hwpoison /\ Own(c) /\ UNCHANGED <<page, mce_bad_pages, faulty>>
    <3>1. PICK r \in ClaimType : claim' = [claim EXCEPT ![c] = r] /\ r.f = f /\ r.pc = "own"
      BY <1>1, <1>3, <2>3, Owning
    <3>2. One(r.pc \in Counting) = 0
      BY <3>1 DEF One, Counting
    <3>3. mce_bad_pages' >= mce_bad_pages + One(r.pc \in Counting) - One(claim[c].pc \in Counting)
      BY <1>9, <2>2, <2>3, <3>2
    <3>4. Act(c, f, p, r, 0)
      BY <1>3, <1>4, <1>6, <1>9, <2>1, <2>3, <3>1, <3>3 DEF Act
    <3> QED BY <1>9, <3>4, ActKeeps
  <2>4. CASE /\ p.hwpoison /\ Change(f, cleared) /\ mce_bad_pages' = mce_bad_pages - 1
             /\ faulty' = faulty \ {f} /\ Own(c)
    <3>1. PICK r \in ClaimType : claim' = [claim EXCEPT ![c] = r] /\ r.f = f /\ r.pc = "own"
      BY <1>1, <1>3, <2>4, Owning
    <3>2. One(r.pc \in Counting) = 0
      BY <3>1 DEF One, Counting
    <3>3. mce_bad_pages' >= mce_bad_pages + One(r.pc \in Counting) - One(claim[c].pc \in Counting)
          /\ mce_bad_pages' \in Int
      BY <1>9, <2>2, <2>4, <3>2
    <3>4. Act(c, f, cleared, r, 0)
      BY <1>3, <1>4, <1>9, <1>12, <2>1, <2>4, <3>1, <3>3 DEF Act
    <3> QED BY <1>9, <1>12, <3>4, ActKeeps
  <2>5. CASE /\ p.hwpoison /\ Change(f, Get(p)) /\ Goto(c, "ulock")
             /\ UNCHANGED <<mce_bad_pages, faulty>>
    <3>1. PICK r \in ClaimType : /\ claim' = [claim EXCEPT ![c] = r]
                                 /\ r.f = f /\ r.pc = "ulock" /\ r.late = claim[c].late
      BY <1>1, <1>3, <2>5, Going DEF PCs
    <3>2. One(r.pc \in Counting) = 1 /\ r.pc \in Counted
      BY <3>1 DEF One, Counting, Counted
    <3>3. mce_bad_pages' >= mce_bad_pages + One(r.pc \in Counting) - One(claim[c].pc \in Counting)
      BY <1>9, <2>2, <2>5, <3>2
    <3>4. Get(p) \in PageType /\ Get(p).hwpoison = p.hwpoison /\ Get(p).use = p.use
      BY GetFields
    <3>5. f \in faulty => r.late
      BY <1>8, <2>1, <3>1
    <3>6. Act(c, f, Get(p), r, 0)
      BY <1>3, <1>4, <1>9, <2>1, <2>5, <3>1, <3>2, <3>3, <3>4, <3>5 DEF Act
    <3> QED BY <1>9, <3>4, <3>6, ActKeeps
  <2> QED BY <1>3, <1>5, <1>11, <1>14, <2>3, <2>4, <2>5 DEF Unpoison
<1>15. CASE LockUnpoison(c)
  <2>1. /\ claim[c].pc = "ulock" /\ UNCHANGED <<page, mce_bad_pages, faulty, forged, leaked>>
        /\ f \in forged /\ Goto(c, "clear")
    BY <1>10, <1>15 DEF LockUnpoison, At, Forging, history
  <2>2. PICK r \in ClaimType : /\ claim' = [claim EXCEPT ![c] = r]
                               /\ r.f = f /\ r.pc = "clear" /\ r.late = claim[c].late
    BY <1>1, <1>3, <2>1, Going DEF PCs
  <2>3. One(r.pc \in Counting) = 1 /\ One(claim[c].pc \in Counting) = 1 /\ r.pc \in Counted
    BY <2>1, <2>2 DEF One, Counting, Counted
  <2>4. mce_bad_pages' >= mce_bad_pages + One(r.pc \in Counting) - One(claim[c].pc \in Counting)
    BY <1>9, <2>1, <2>3
  <2>5. f \in faulty => r.late
    BY <1>8, <2>1, <2>2
  <2>6. Act(c, f, p, r, 0)
    BY <1>3, <1>4, <1>6, <1>9, <2>1, <2>2, <2>3, <2>4, <2>5 DEF Act
  <2> QED BY <1>9, <2>6, ActKeeps
<1>16. CASE ClearPoison(c)
  <2>1. /\ claim[c].pc = "clear" /\ UNCHANGED <<forged, leaked>> /\ f \in forged
        /\ Change(f, Put(cleared))
    BY <1>5, <1>10, <1>11, <1>16 DEF ClearPoison, At, Forging
  <2>2. PICK q \in PageType : q = Put(cleared) /\ ~q.hwpoison
    BY <1>12, PutFields
  <2>3. One(claim[c].pc \in Counting) = 1
    BY <2>1 DEF One, Counting
  <2>4. PICK r \in ClaimType : /\ claim' = [claim EXCEPT ![c] = r]
                               /\ r.f = f /\ r.pc \in {"freeit", "own"}
    <3>1. Goto(c, "freeit") \/ Own(c)
      BY <1>16 DEF ClearPoison
    <3> QED BY <1>1, <1>3, <3>1, Going, Owning DEF PCs
  <2>5. One(r.pc \in Counting) = 0
    BY <2>4 DEF One, Counting
  <2>6. /\ faulty' \subseteq faulty /\ f \notin faulty'
        /\ mce_bad_pages' \in Int /\ mce_bad_pages' >= mce_bad_pages - 1
    <3>1. CASE p.hwpoison
      BY <1>3, <1>5, <1>9, <1>16, <3>1 DEF ClearPoison
    <3>2. CASE ~p.hwpoison
      BY <1>5, <1>9, <1>16, <3>2 DEF ClearPoison
    <3> QED BY <3>1, <3>2
  <2>7. mce_bad_pages' >= mce_bad_pages + One(r.pc \in Counting) - One(claim[c].pc \in Counting)
    BY <1>9, <2>3, <2>5, <2>6
  <2>8. Act(c, f, q, r, 0)
    BY <1>3, <1>4, <1>9, <2>1, <2>2, <2>4, <2>6, <2>7 DEF Act
  <2> QED BY <1>9, <2>8, ActKeeps
<1>17. CASE FreeIt(c)
  <2>1. claim[c].pc = "freeit" /\ Change(f, Put(p)) /\ UNCHANGED <<mce_bad_pages, history>>
    BY <1>5, <1>17 DEF FreeIt, At
  <2>2. PICK r \in ClaimType : claim' = [claim EXCEPT ![c] = r] /\ r.f = f /\ r.pc = "own"
    BY <1>1, <1>3, <1>17, Owning DEF FreeIt
  <2> QED BY <1>3, <1>4, <1>7, <2>1, <2>2, PlainKeeps DEF Counted, Counting, Forging
<1>18. CASE Release(c)
  <2>1. /\ claim[c].pc = "own" /\ (Change(f, Put(p)) \/ Change(f, p))
        /\ UNCHANGED <<mce_bad_pages, history>>
    BY <1>5, <1>6, <1>18 DEF Release, At
  <2>2. PICK r \in ClaimType : claim' = [claim EXCEPT ![c] = r] /\ r.pc = "idle"
    BY <1>18, Ending DEF Release
  <2> QED BY <1>3, <1>4, <1>7, <2>1, <2>2, PlainKeeps DEF Counted, Counting, Forging
<1> QED BY <1>13, <1>14, <1>15, <1>16, <1>17, <1>18 DEF UnpoisonMemory

-----------------------------------------------------------------------------
(* The users, the failures of the memory, and the beginning of a claim.    *)

LEMMA UsersKeep ==
  ASSUME HwInv, NEW f \in Frame,
         \/ Alloc(f) \/ FreeSlab(f) \/ DrainPagevec(f) \/ Use(f) \/ Unuse(f)
         \/ LockPage(f) \/ UnlockPage(f) \/ StartWriteback(f) \/ EndWriteback(f)
  PROVE  HwInv'
<1>1. PICK p \in PageType : p = page[f]
  BY DEF HwInv, Types
<1>2. ASSUME UNCHANGED <<page, claim, mce_bad_pages, history>> PROVE HwInv'
  <2>1. Change(f, p)
    BY <1>1, <1>2, SamePage DEF HwInv
  <2> QED BY <1>1, <1>2, <2>1, KeepsSame, UserKeeps
<1>3. CASE Alloc(f)
  <2>1. PICK q : /\ Change(f, q) /\ p.use = "buddy"
                 /\ \/ (p.hwpoison \/ p.count # 0) /\ q = [p EXCEPT !.use = "none"]
                    \/ /\ ~(p.hwpoison \/ p.count # 0)
                       /\ \/ q = Page("slab", 1)
                          \/ q = [Page("cache", 2) EXCEPT !.pagevec = TRUE]
                          \/ q = [Page("anon", 2) EXCEPT !.pagevec = TRUE, !.maps = 1]
    BY <1>1, <1>3 DEF Alloc
  <2>2. Keeps(p, q)
    BY <2>1, AllocKeeps
  <2>3. UNCHANGED <<claim, mce_bad_pages, history>>
    BY <1>3 DEF Alloc
  <2> QED BY <1>1, <2>1, <2>2, <2>3, UserKeeps
<1>4. CASE FreeSlab(f)
  <2>1. Keeps(p, Put([p EXCEPT !.use = "none"])) /\ Change(f, Put([p EXCEPT !.use = "none"]))
    BY <1>1, <1>4, FreeSlabKeeps DEF FreeSlab
  <2>2. UNCHANGED <<claim, mce_bad_pages, history>>
    BY <1>4 DEF FreeSlab
  <2> QED BY <1>1, <2>1, <2>2, UserKeeps
<1>5. CASE DrainPagevec(f)
  <2>1. Keeps(p, Drain(p)) /\ Change(f, Drain(p)) /\ UNCHANGED <<claim, mce_bad_pages, history>>
    BY <1>1, <1>5, DrainKeeps DEF DrainPagevec
  <2> QED BY <1>1, <2>1, UserKeeps
<1>6. CASE Use(f)
  <2>1. PICK q : /\ Change(f, q) /\ p.use \in {"cache", "anon"}
                 /\ \/ p.use = "cache" /\ p.maps = 0 /\ q = [Get(p) EXCEPT !.maps = 1]
                    \/ p.held = 0 /\ q = [Get(p) EXCEPT !.held = 1]
                    \/ p.use = "cache" /\ q = [p EXCEPT !.io = "dirty"]
    BY <1>1, <1>6 DEF Use
  <2>2. Keeps(p, q)
    BY <2>1, UseKeeps
  <2>3. UNCHANGED <<claim, mce_bad_pages, history>>
    BY <1>6 DEF Use
  <2> QED BY <1>1, <2>1, <2>2, <2>3, UserKeeps
<1>7. CASE Unuse(f)
  <2>1. PICK x : /\ Change(f, Put(x))
                 /\ \/ p.maps = 1
                       /\ x = [p EXCEPT !.maps = 0, !.use = IF @ = "anon" THEN "none" ELSE @]
                    \/ p.held = 1 /\ x = [p EXCEPT !.held = 0]
                    \/ p.use = "cache" /\ x = [p EXCEPT !.use = "none", !.io = "clean"]
    BY <1>1, <1>7 DEF Unuse
  <2>2. Keeps(p, Put(x))
    BY <2>1, UnuseKeeps
  <2>3. UNCHANGED <<claim, mce_bad_pages, history>>
    BY <1>7 DEF Unuse
  <2> QED BY <1>1, <2>1, <2>2, <2>3, UserKeeps
<1>8. CASE LockPage(f) \/ UnlockPage(f)
  BY <1>2, <1>8 DEF LockPage, UnlockPage
<1>9. CASE StartWriteback(f) \/ EndWriteback(f)
  <2>1. PICK io \in {"clean", "writing"} : Change(f, [p EXCEPT !.io = io])
    BY <1>1, <1>9 DEF StartWriteback, EndWriteback
  <2>2. Keeps(p, [p EXCEPT !.io = io]) /\ UNCHANGED <<claim, mce_bad_pages, history>>
    BY <1>9, IoKeeps DEF StartWriteback, EndWriteback
  <2> QED BY <1>1, <2>1, <2>2, UserKeeps
<1> QED BY <1>3, <1>4, <1>5, <1>6, <1>7, <1>8, <1>9

(* Steps that leave every claim where it is, or at a step without a        *)
(* reference and without a count, leave the counts of claims alone.        *)
LEMMA FailureKeeps ==
  ASSUME HwInv, NEW f \in Frame, MemoryFailure(f)
  PROVE  HwInv'
<1>1. PICK p \in PageType : p = page[f]
  BY DEF HwInv, Types
<1>2. PICK q : q = [p EXCEPT !.hwpoison = TRUE]
  OBVIOUS
<1>3. /\ q \in PageType /\ q.count = p.count /\ q.use = p.use /\ q.maps = p.maps
      /\ q.held = p.held /\ q.lru = p.lru /\ q.pagevec = p.pagevec /\ q.hwpoison
  BY <1>2 DEF PageType
<1>4. /\ page' = [page EXCEPT ![f] = q] /\ mce_bad_pages' = mce_bad_pages + 1
      /\ faulty' = faulty \cup {f} /\ forged' = forged /\ leaked' = leaked /\ ~p.hwpoison
      /\ claim' = [c \in Claimer |-> [claim[c] EXCEPT !.late = @ \/ Missed(c, f)]]
  BY <1>1, <1>2 DEF MemoryFailure, Change
<1>5. \A g \in Frame : page'[g] = IF g = f THEN q ELSE page[g]
  BY <1>4 DEF HwInv, Types
<1>6. ASSUME NEW c \in Claimer
      PROVE  /\ claim'[c] \in ClaimType
             /\ claim'[c].f = claim[c].f /\ claim'[c].pc = claim[c].pc
             /\ claim'[c].late <=> claim[c].late \/ Missed(c, f)
  <2>1. claim[c] \in ClaimType /\ claim'[c] = [claim[c] EXCEPT !.late = claim[c].late \/ Missed(c, f)]
    BY <1>4 DEF HwInv, Types
  <2>2. (claim[c].late \/ Missed(c, f)) \in BOOLEAN
    BY DEF Missed
  <2> QED BY <2>1, <2>2 DEF ClaimType
<1>7. Types'
  <2>1. claim' \in [Claimer -> ClaimType]
    BY <1>4, <1>6
  <2>2. \A c \in Claimer : claim'[c].pc # "idle" => claim'[c].f \in Frame
    BY <1>6 DEF HwInv, Types
  <2>3. page' \in [Frame -> PageType] /\ leaked' \in [Frame -> Nat]
        /\ faulty' \subseteq Frame /\ forged' \subseteq Frame /\ mce_bad_pages' \in Int
    BY <1>3, <1>4 DEF HwInv, Types
  <2> QED BY <2>1, <2>2, <2>3 DEF Types
<1>8. \A S, g : Those(S, g)' = Those(S, g)
  BY <1>6 DEF Those
<1>9. Counters' = Counters
  BY <1>6 DEF Counters
<1>10. ASSUME NEW g \in Frame PROVE PageOK(g)'
  <2>1. /\ Cardinality(Those(Holding, g))' = Cardinality(Those(Holding, g))
        /\ Cardinality(Those({"migrate"}, g))' = Cardinality(Those({"migrate"}, g))
    BY <1>8
  <2>2. \A n, w : Good(page[g], n, w) => Good(page'[g], n, w)
    BY <1>1, <1>3, <1>5 DEF Good, Refs
  <2> QED BY <1>4, <2>1, <2>2 DEF HwInv, Pages, PageOK
<1>11. ForgedFirst' /\ Flagged'
  <2>1. ForgedFirst'
    BY <1>4, <1>6 DEF HwInv, ForgedFirst
  <2>2. Flagged'
    BY <1>3, <1>4, <1>5 DEF HwInv, Types, Flagged
  <2> QED BY <2>1, <2>2
<1>12. Owed'
  <2>1. Marked' \subseteq Marked \cup {f}
    BY <1>5, <1>8 DEF Marked
  <2>2. IsFiniteSet(Marked) /\ IsFiniteSet(Marked \cup {f})
        /\ Cardinality(Marked \cup {f}) <= Cardinality(Marked) + 1
    <3>1. IsFiniteSet(Marked)
      BY FramesOK, FS_Subset DEF Marked
    <3>2. Cardinality(Marked) \in Nat
      BY <3>1, FS_CardinalityType
    <3>3. IsFiniteSet(Marked \cup {f})
          /\ Cardinality(Marked \cup {f}) \in {Cardinality(Marked), Cardinality(Marked) + 1}
      <4>1. CASE f \in Marked
        <5>1. Marked \cup {f} = Marked
          BY <4>1
        <5> QED BY <3>1, <5>1
      <4>2. CASE f \notin Marked
        BY <3>1, <4>2, FS_AddElement
      <4> QED BY <4>1, <4>2
    <3> QED BY <3>1, <3>2, <3>3
  <2>3. Cardinality(Marked') <= Cardinality(Marked) + 1
        /\ Cardinality(Marked') \in Nat /\ Cardinality(Marked) \in Nat
    BY <2>1, <2>2, FS_Subset, FS_CardinalityType
  <2>4. IsFiniteSet(Counters)
    BY FramesOK, FS_Subset DEF Counters
  <2>5. Cardinality(Counters) \in Nat /\ mce_bad_pages \in Int
    BY <2>4, FS_CardinalityType DEF HwInv, Types
  <2> QED BY <1>4, <1>9, <2>3, <2>5 DEF HwInv, Owed
<1>13. ASSUME NEW c \in Claimer PROVE MetOK(c)'
  <2> SUFFICES ASSUME claim[c].pc \notin {"idle", "own"}, claim[c].f \in faulty \cup {f},
                      ~claim[c].late, ~Missed(c, f)
               PROVE  claim[c].pc \in Looking /\ page'[claim[c].f].use # "buddy"
    BY <1>4, <1>6 DEF MetOK
  <2>1. claim[c].f \in Frame
    BY DEF HwInv, Types
  <2>2. page'[claim[c].f].use = page[claim[c].f].use
    BY <1>1, <1>3, <1>5, <2>1
  <2>3. CASE claim[c].f \in faulty
    BY <2>2, <2>3 DEF HwInv, Met, MetOK
  <2>4. CASE claim[c].f = f
    <3>1. claim[c].pc \in Looking /\ p.use # "buddy"
      BY <1>1, <2>4 DEF Missed
    <3> QED BY <1>1, <2>2, <2>4, <3>1
  <2> QED BY <2>3, <2>4
<1> QED BY <1>7, <1>10, <1>11, <1>12, <1>13 DEF HwInv, Pages, Met

LEMMA BeginKeeps ==
  ASSUME HwInv, NEW c \in Claimer, NEW f \in Frame, NextMethod(c, f)
  PROVE  HwInv'
<1>1. PICK r : r = [Idle EXCEPT !.pc = "get", !.f = f]
  OBVIOUS
<1>2. r \in ClaimType /\ r.pc = "get" /\ r.f = f
  <2>1. PICK y : y = [Idle EXCEPT !.pc = "get"]
    OBVIOUS
  <2>2. y \in ClaimType /\ y.pc = "get"
    BY <2>1, IdleType DEF ClaimType, PCs
  <2>3. r = [y EXCEPT !.f = f]
    BY <1>1, <2>1
  <2> QED BY <2>2, <2>3 DEF ClaimType
<1>3. /\ claim' = [claim EXCEPT ![c] = r] /\ page' = page /\ mce_bad_pages' = mce_bad_pages
      /\ faulty' = faulty /\ forged' = forged /\ leaked' = leaked
      /\ claim[c].pc = "idle" /\ ~page[f].hwpoison
  BY <1>1 DEF NextMethod, history, Claimable
<1>4. \A e \in Claimer : claim'[e] = IF e = c THEN r ELSE claim[e]
  BY <1>3 DEF HwInv, Types
<1>5. Types'
  <2>1. claim' \in [Claimer -> ClaimType]
    BY <1>2, <1>3 DEF HwInv, Types
  <2> QED BY <1>2, <1>3, <1>4, <2>1 DEF HwInv, Types
<1>6. ASSUME NEW S, "idle" \notin S, "get" \notin S, NEW g PROVE Those(S, g)' = Those(S, g)
  BY <1>2, <1>3, <1>4, <1>6 DEF Those
<1>7. ASSUME NEW g \in Frame PROVE PageOK(g)'
  <2>1. Those(Holding, g)' = Those(Holding, g) /\ Those({"migrate"}, g)' = Those({"migrate"}, g)
    <3>1. "idle" \notin Holding /\ "get" \notin Holding
      BY DEF Holding
    <3> QED BY <1>6, <3>1
  <2> QED BY <1>3, <2>1 DEF HwInv, Pages, PageOK
<1>8. Counters' = Counters
  BY <1>2, <1>3, <1>4 DEF Counters, Counting
<1>9. Marked' = Marked
  <2>1. \A g : Those(Counted, g)' = Those(Counted, g)
    <3>1. "idle" \notin Counted /\ "get" \notin Counted
      BY DEF Counted, Counting
    <3> QED BY <1>6, <3>1
  <2> QED BY <1>3, <2>1 DEF Marked, Counted
<1>10. Owed' /\ Flagged'
  BY <1>3, <1>8, <1>9 DEF HwInv, Owed, Flagged
<1>11. ForgedFirst'
  BY <1>2, <1>3, <1>4 DEF HwInv, ForgedFirst, Forging
<1>12. Met'
  <2>1. f \notin faulty
    BY <1>3 DEF HwInv, Flagged
  <2> QED BY <1>2, <1>3, <1>4, <2>1 DEF HwInv, Met, MetOK
<1> QED BY <1>5, <1>7, <1>10, <1>11, <1>12 DEF HwInv, Pages

-----------------------------------------------------------------------------
(* The invariant.                                                          *)

LEMMA InitHw == Init => HwInv
<1> SUFFICES ASSUME Init PROVE HwInv
  OBVIOUS
<1>1. \A c \in Claimer : claim[c] = Idle
  BY DEF Init
<1>2. ASSUME NEW f \in Frame
      PROVE  page[f] \in PageType /\ Good(page[f], 0, 0) /\ ~page[f].hwpoison
  <2>1. CASE f \in Difficult
    <3>1. page[f] = Page("reserved", 1)
      BY <2>1 DEF Init
    <3> QED BY <3>1, PageLiteral DEF Good, Refs, One
  <2>2. CASE f \notin Difficult
    <3>1. page[f] = Page("buddy", 0)
      BY <2>2 DEF Init
    <3> QED BY <3>1, PageLiteral DEF Good, Refs, One
  <2> QED BY <2>1, <2>2
<1>3. Types
  <2>1. page \in [Frame -> PageType]
    <3>1. page = [f \in Frame |-> page[f]]
      BY DEF Init
    <3> QED BY <1>2, <3>1
  <2>2. claim \in [Claimer -> ClaimType] /\ \A c \in Claimer : claim[c].pc = "idle"
    BY <1>1, IdleType DEF Init
  <2> QED BY <2>1, <2>2 DEF Init, Types
<1>4. \A S, f : "idle" \notin S => Those(S, f) = {}
  BY <1>1, IdleType DEF Those
<1>5. Pages
  <2> SUFFICES ASSUME NEW f \in Frame PROVE PageOK(f)
    BY DEF Pages
  <2>1. Those(Holding, f) = {} /\ Those({"migrate"}, f) = {} /\ leaked[f] = 0
    BY <1>4 DEF Holding, Init
  <2>2. Cardinality(Those(Holding, f)) + leaked[f] = 0 /\ Cardinality(Those({"migrate"}, f)) = 0
    BY <2>1, FS_EmptySet
  <2> QED BY <1>2, <2>2 DEF PageOK
<1>6. Owed
  <2>1. Counters = {} /\ Marked = {}
    BY <1>1, <1>2, IdleType DEF Counters, Counting, Marked
  <2> QED BY <2>1, FS_EmptySet DEF Owed, Init
<1>7. ForgedFirst /\ Flagged /\ Met
  BY <1>1, IdleType DEF ForgedFirst, Forging, Flagged, Met, MetOK, Init
<1> QED BY <1>3, <1>5, <1>6, <1>7 DEF HwInv

LEMMA HwStep == HwInv /\ [Next]_vars => HwInv'
<1> SUFFICES ASSUME HwInv, [Next]_vars PROVE HwInv'
  OBVIOUS
<1>1. CASE Users
  BY <1>1, UsersKeep, FailureKeeps DEF Users
<1>2. ASSUME NEW c \in Claimer, NEW f \in Frame, NextMethod(c, f) PROVE HwInv'
  BY <1>2, BeginKeeps
<1>3. ASSUME NEW c \in Claimer, SoftOffline(c) PROVE HwInv'
  BY <1>3, SoftOfflineKeeps
<1>4. ASSUME NEW c \in Claimer, UnpoisonMemory(c) \/ Release(c) PROVE HwInv'
  BY <1>4, UnpoisonKeeps
<1>5. CASE UNCHANGED vars
  BY <1>5 DEF vars, HwInv, Types, Pages, PageOK, Those, ForgedFirst, Owed, Counters, Marked,
              Flagged, Met, MetOK
<1> QED BY <1>1, <1>2, <1>3, <1>4, <1>5 DEF Next

LEMMA HwAlways == Spec => []HwInv
BY InitHw, HwStep, PTL DEF Spec

(* The count of a frame is the number of its references, whichever claims  *)
(* fail at whichever step, mixed with the users and with each other, until *)
(* a claim overwrites it (hw_poison_claiming.c, soft_offline_page).        *)
THEOREM ReferencesCounted == Spec => []RefsCounted
<1>1. HwInv => RefsCounted
  <2> SUFFICES ASSUME HwInv, NEW f \in Frame \ forged
               PROVE  page[f].count = References(f) + leaked[f]
    BY DEF RefsCounted
  <2>1. page[f].count = Refs(page[f]) + (Cardinality(Those(Holding, f)) + leaked[f])
    BY DEF HwInv, Pages, PageOK, Good
  <2>2. References(f) = Refs(page[f]) + Cardinality(Those(Holding, f))
    BY DEF References, Refs, Those, Holding
  <2>3. /\ Refs(page[f]) \in Nat /\ leaked[f] \in Nat
        /\ Cardinality(Those(Holding, f)) \in Nat
    BY RefsNat, ThoseFinite DEF HwInv, Types
  <2> QED BY <2>1, <2>2, <2>3
<1> QED BY <1>1, HwAlways, PTL

(* With no claim under way, no bad page is missing from mce_bad_pages,     *)
(* however many claims set and clear the flag of one frame at a time       *)
(* (soft_offline_page adds the page, unpoison_memory takes it back).       *)
THEOREM NoBadPageMissing == Spec => []BadPagesCounted
<1>1. HwInv => BadPagesCounted
  <2> SUFFICES ASSUME HwInv, \A c \in Claimer : claim[c].pc \in {"idle", "own"}
               PROVE  mce_bad_pages >= Cardinality({f \in Frame : page[f].hwpoison})
    BY DEF BadPagesCounted
  <2>1. Counters = {}
    BY DEF Counters, Counting
  <2>2. Marked = {f \in Frame : page[f].hwpoison}
    BY DEF Marked, Those, Counting
  <2>3. mce_bad_pages >= Cardinality({}) + Cardinality({f \in Frame : page[f].hwpoison})
    BY <2>1, <2>2 DEF HwInv, Owed
  <2>4. IsFiniteSet({f \in Frame : page[f].hwpoison})
    BY FramesOK, FS_Subset
  <2>5. Cardinality({f \in Frame : page[f].hwpoison}) \in Nat
    BY <2>4, FS_CardinalityType
  <2> QED BY <2>3, <2>5, FS_EmptySet
<1> QED BY <1>1, HwAlways, PTL

(* Only a claim that a failure has met too late takes the flag of that     *)
(* failure off; the look under the page lock in soft_offline_page catches  *)
(* every other.                                                            *)
THEOREM FailuresOutlastClaims == Spec => FailureRemembered
<1>1. HwInv /\ [Next]_vars =>
        [\A f \in Frame : f \in faulty /\ f \notin faulty' =>
           \E c \in Claimer : claim[c].f = f /\ claim[c].late /\ claim'[c].pc # claim[c].pc]_vars
  <2> SUFFICES ASSUME HwInv, [Next]_vars, NEW f \in Frame, f \in faulty, f \notin faulty'
               PROVE  \E c \in Claimer :
                        claim[c].f = f /\ claim[c].late /\ claim'[c].pc # claim[c].pc
    OBVIOUS
  <2>1. PICK c \in Claimer : Unpoison(c) \/ ClearPoison(c)
    BY DEF Next, Users, SoftOffline, UnpoisonMemory, history, vars, Alloc, FreeSlab,
           DrainPagevec, Use, Unuse, LockPage, UnlockPage, StartWriteback, EndWriteback,
           MemoryFailure, NextMethod, GetAnyPage, GetFreePage, FlagFreePage, PutNoLru,
           ShakePage, GiveUp, LockOffline, WaitWriteback,
           AlreadyPoisoned, Invalidate, PutOffline, IsolateLru, Migrate, Done,
           SetCount, LockUnpoison, FreeIt, Release
  <2>2. claim[c].f = f /\ claim[c].pc \in {"unpoison", "clear"}
    BY <2>1 DEF Unpoison, ClearPoison, At
  <2>3. claim[c].late
    BY <2>2 DEF HwInv, Met, MetOK, Looking
  <2>4. claim'[c].pc \in {"own", "freeit"}
    <3>1. Own(c) \/ Goto(c, "freeit")
      BY <2>1, <2>2 DEF Unpoison, ClearPoison
    <3>2. Types
      BY DEF HwInv
    <3>3. PICK r \in ClaimType : claim' = [claim EXCEPT ![c] = r] /\ r.pc \in {"own", "freeit"}
      BY <3>1, <3>2, Owning, Going DEF PCs
    <3> QED BY <3>2, <3>3 DEF Types
  <2> QED BY <2>2, <2>3, <2>4
<1> QED BY <1>1, HwAlways, PTL DEF Spec, FailureRemembered
=============================================================================
