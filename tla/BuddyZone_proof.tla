--------------------------- MODULE BuddyZone_proof ---------------------------
(***************************************************************************)
(* Proofs about BuddyZone, for every number of frames, MAX_ORDER, pageblock *)
(* order and number of threads.                                            *)
(*                                                                         *)
(* First the arithmetic of blocks: powers of two, the blocks of an order,  *)
(* and their buddies; then the two ways in which blocks change, the cut of *)
(* a block into pieces and the merging with free buddies; then who has a   *)
(* frame; and last the actions.                                            *)
(***************************************************************************)
EXTENDS BuddyZone, FiniteSetTheorems, WellFoundedInduction, TLAPS

-----------------------------------------------------------------------------
(* Powers of two.                                                          *)

(* Natural numbers are well-ordered: what induction rests on below. *)
LEMMA LeastOf ==
  ASSUME NEW T \in SUBSET Nat, T # {}
  PROVE  \E x \in T : \A y \in T : x <= y
<1> DEFINE R == {ss \in Nat \X Nat : ss[1] < ss[2]}
<1>1. R = OpToRel(<, Nat)
  BY DEF OpToRel
<1>2. PICK x \in T : \A y \in T : ~ (<<y, x>> \in OpToRel(<, Nat))
  BY NatLessThanWellFounded, WFMin
<1>3. \A y \in T : ~ (<<y, x>> \in R)
  BY <1>1, <1>2
<1>4. \A v, w \in Nat : w < v => <<w, v>> \in R
  OBVIOUS
<1> HIDE DEF R
<1>5. \A y \in T : ~ (y < x)
  BY <1>3, <1>4
<1> QED
  BY <1>5

(* A power of two counts subsets; with one element more there are those    *)
(* with it and those without.                                              *)
LEMMA Powers ==
  ASSUME NEW n \in Nat
  PROVE  2^n \in Nat \ {0} /\ 2^(n + 1) = 2 * 2^n
<1> DEFINE A == SUBSET (1 .. n)
           B == {S \in SUBSET (1 .. n + 1) : n + 1 \in S}
<1>1. ASSUME NEW k \in Nat
      PROVE  /\ IsFiniteSet(SUBSET (1 .. k)) /\ Cardinality(SUBSET (1 .. k)) = 2^k
             /\ 2^k \in Nat
  <2>1. IsFiniteSet(1 .. k) /\ Cardinality(1 .. k) = k
    BY FS_Interval
  <2> QED
    BY <2>1, FS_SUBSET, FS_CardinalityType
<1>2. IsFiniteSet(A) /\ Cardinality(A) = 2^n /\ 2^n \in Nat
  BY <1>1
<1>3. 2^n # 0
  <2>1. {} \in A
    OBVIOUS
  <2> QED
    BY <1>2, <2>1, FS_EmptySet
<1>4. Cardinality(SUBSET (1 .. n + 1)) = 2^(n + 1) /\ IsFiniteSet(SUBSET (1 .. n + 1))
  BY <1>1
<1>5. 1 .. n + 1 = (1 .. n) \cup {n + 1} /\ n + 1 \notin 1 .. n
  OBVIOUS
<1>6. SUBSET (1 .. n + 1) = A \cup B /\ A \cap B = {}
  BY <1>5
<1>7. IsFiniteSet(B)
  BY <1>4, FS_Subset
<1>8. Cardinality(B) = Cardinality(A)
  <2> DEFINE add  == [S \in A |-> S \cup {n + 1}]
             drop == [S \in B |-> S \ {n + 1}]
  <2>1. add \in [A -> B] /\ drop \in [B -> A]
    BY <1>5
  <2>2. \A S, T \in A : add[S] = add[T] => S = T
    BY <1>5
  <2>3. \A S, T \in B : drop[S] = drop[T] => S = T
    OBVIOUS
  <2>4. add \in Injection(A, B) /\ drop \in Injection(B, A)
    <3> HIDE DEF add, drop, A, B
    <3> QED
      BY <2>1, <2>2, <2>3 DEF Injection, IsInjective
  <2>5. Cardinality(A) <= Cardinality(B) /\ Cardinality(B) <= Cardinality(A)
    <3> HIDE DEF add, drop, A, B
    <3> QED
      BY <2>4, <1>2, <1>7, FS_Injection
  <2>6. Cardinality(A) \in Nat /\ Cardinality(B) \in Nat
    BY <1>2, <1>7, FS_CardinalityType
  <2> QED
    BY <2>5, <2>6
<1>9. Cardinality(A \cup B) = Cardinality(A) + Cardinality(B)
  <2> HIDE DEF A, B
  <2>1. Cardinality(A \cap B) = 0
    BY <1>6, FS_EmptySet
  <2>2. Cardinality(A) \in Nat /\ Cardinality(B) \in Nat
    BY <1>2, <1>7, FS_CardinalityType
  <2>3. Cardinality(A \cup B) = Cardinality(A) + Cardinality(B) - Cardinality(A \cap B)
    BY <1>2, <1>7, FS_Union
  <2> QED
    BY <2>1, <2>2, <2>3
<1>10. Cardinality(SUBSET (1 .. n + 1)) = Cardinality(A \cup B)
  BY <1>6
<1> HIDE DEF A, B
<1> QED
  BY <1>2, <1>3, <1>4, <1>8, <1>9, <1>10

LEMMA PowerNat == \A n \in Nat : 2^n \in Nat \ {0} /\ 2^n \in Int /\ 2^n > 0 /\ 2^n >= 1
  BY Powers

(* A larger power is a multiple of a smaller one, and at least twice it. *)
LEMMA PowerMore ==
  ASSUME NEW m \in Nat, NEW n \in Nat, m < n
  PROVE  \E q \in Nat \ {0} : 2^n = q * (2 * 2^m)
<1> DEFINE Bad == {k \in Nat : m < k /\ ~ \E q \in Nat \ {0} : 2^k = q * (2 * 2^m)}
<1>1. CASE Bad = {}
  BY <1>1
<1>2. CASE Bad # {}
  <2>1. PICK k \in Bad : \A y \in Bad : k <= y
    BY <1>2, LeastOf
  <2>2. k \in Nat /\ m < k /\ k - 1 \in Nat
    BY <2>1
  <2>3. 2^k = 2 * 2^(k - 1) /\ 2^m \in Nat
    <3>1. (k - 1) + 1 = k
      BY <2>2
    <3> QED
      BY <2>2, <3>1, Powers
  <2>4. CASE k = m + 1
    BY <2>1, <2>2, <2>3, <2>4, Powers
  <2>5. CASE k # m + 1
    <3>1. k - 1 \notin Bad /\ m < k - 1
      <4>1. \A y \in Nat : y \in Bad => k <= y
        BY <2>1
      <4> HIDE DEF Bad
      <4> QED
        BY <4>1, <2>2, <2>5
    <3>2. PICK q \in Nat \ {0} : 2^(k - 1) = q * (2 * 2^m)
      BY <2>2, <3>1
    <3>3. 2^k = (2 * q) * (2 * 2^m) /\ 2 * q \in Nat \ {0}
      BY <2>3, <3>2
    <3> QED
      BY <2>1, <3>3
  <2> QED
    BY <2>4, <2>5
<1> QED
  BY <1>1, <1>2

LEMMA PowerLess ==
  ASSUME NEW m \in Nat, NEW n \in Nat, m < n
  PROVE  2 * 2^m <= 2^n /\ 2^m < 2^n
<1>1. PICK q \in Nat \ {0} : 2^n = q * (2 * 2^m)
  BY PowerMore
<1>2. 2^m \in Nat \ {0}
  BY Powers
<1>3. \A a, b \in Nat : a > 0 => b <= a * b
  BY Z3
<1> QED
  BY <1>1, <1>2, <1>3

-----------------------------------------------------------------------------
(* The blocks of an order, and their buddies.                              *)

(* The number of the block of order j that a frame lies in. *)
Number(g, j) == g \div 2^j

LEMMA Division ==
  ASSUME NEW q \in Int, NEW m \in Nat \ {0}, NEW r \in 0 .. m - 1, NEW g \in Int,
         g = q * m + r
  PROVE  g \div m = q /\ g % m = r
  BY Z3

LEMMA Divided ==
  ASSUME NEW g \in Nat, NEW m \in Nat \ {0}
  PROVE  g \div m \in Nat /\ g % m \in 0 .. m - 1 /\ g = (g \div m) * m + (g % m)
<1>1. g \div m \in Int /\ g % m \in 0 .. m - 1
  OBVIOUS
<1>2. \A a \in Int, b \in Nat \ {0} : a = b * (a \div b) + (a % b)
  OBVIOUS
<1>3. g \div m >= 0
  BY Z3
<1> DEFINE q == g \div m
           r == g % m
<1>4. g = m * q + r
  BY <1>2
<1>5. q \in Int /\ r \in 0 .. m - 1 /\ q >= 0
  BY <1>1, <1>3
<1> HIDE DEF q, r
<1>6. g = q * m + r
  BY <1>4, <1>5
<1>7. q \in Nat /\ r \in 0 .. m - 1 /\ g = q * m + r
  BY <1>5, <1>6
<1> QED
  BY <1>7 DEF q, r

LEMMA NumberIs ==
  ASSUME NEW q \in Int, NEW j \in Nat, NEW g \in Int, q * 2^j <= g, g < q * 2^j + 2^j
  PROVE  Number(g, j) = q
<1> DEFINE m == 2^j
           r == g - q * m
<1>1. m \in Nat \ {0}
  BY Powers
<1>2. q * m <= g /\ g < q * m + m
  OBVIOUS
<1> HIDE DEF m
<1>3. r \in 0 .. m - 1 /\ g = q * m + r
  BY <1>1, <1>2
<1> HIDE DEF r
<1>4. g \div m = q
  BY <1>1, <1>3, Division
<1> QED
  BY <1>4 DEF Number, m

LEMMA AlignedNumber ==
  ASSUME NEW h \in Nat, NEW j \in Nat
  PROVE  h % 2^j = 0 <=> h = Number(h, j) * 2^j
<1> DEFINE m == 2^j
<1>1. m \in Nat \ {0}
  BY Powers
<1> HIDE DEF m
<1>2. h \div m \in Nat /\ h % m \in 0 .. m - 1 /\ h = (h \div m) * m + (h % m)
  BY <1>1, Divided
<1> QED
  BY <1>1, <1>2 DEF Number, m

LEMMA AlignedTimes ==
  ASSUME NEW q \in Nat, NEW j \in Nat
  PROVE  q * 2^j \in Nat /\ (q * 2^j) % 2^j = 0 /\ Number(q * 2^j, j) = q
<1>1. 2^j \in Nat \ {0}
  BY Powers
<1>2. q * 2^j \in Nat
  BY <1>1
<1>3. Number(q * 2^j, j) = q
  BY <1>1, <1>2, NumberIs
<1> QED
  BY <1>2, <1>3, AlignedNumber

LEMMA NumberOf ==
  ASSUME NEW g \in Nat, NEW j \in Nat
  PROVE  /\ Number(g, j) \in Nat /\ Base(g, j) = Number(g, j) * 2^j
         /\ Base(g, j) \in Nat /\ Base(g, j) <= g /\ g < Base(g, j) + 2^j
         /\ Base(g, j) % 2^j = 0
<1> DEFINE m == 2^j
           q == g \div m
           r == g % m
<1>1. m \in Nat \ {0}
  BY Powers
<1> HIDE DEF m
<1>2. q \in Nat /\ r \in 0 .. m - 1 /\ g = q * m + r
  BY <1>1, Divided
<1>3. Number(g, j) = q /\ Base(g, j) = g - r
  BY DEF Number, Base, m
<1> HIDE DEF q, r
<1>4. q * m \in Nat
  BY <1>1, <1>2
<1>5. Base(g, j) = q * m /\ Base(g, j) <= g /\ g < Base(g, j) + m
  BY <1>1, <1>2, <1>3, <1>4
<1> QED
  BY <1>2, <1>3, <1>4, <1>5, AlignedTimes DEF m

(* A frame lies in an aligned block when it has the same number. *)
LEMMA InSpan ==
  ASSUME NEW h \in Nat, NEW j \in Nat, h % 2^j = 0, NEW g \in Nat
  PROVE  /\ g \in Span(h, j) <=> Number(g, j) = Number(h, j)
         /\ g \in Span(h, j) <=> Base(g, j) = h
<1>1. 2^j \in Nat \ {0}
  BY Powers
<1>2. h = Number(h, j) * 2^j /\ Number(h, j) \in Nat
  BY AlignedNumber, NumberOf
<1>3. g \in Span(h, j) <=> h <= g /\ g < h + 2^j
  BY <1>1 DEF Span
<1>4. g \in Span(h, j) => Number(g, j) = Number(h, j)
  BY <1>2, <1>3, NumberIs
<1>5. Number(g, j) = Number(h, j) => Base(g, j) = h
  BY <1>2, NumberOf
<1>6. Base(g, j) = h => g \in Span(h, j)
  BY <1>3, NumberOf
<1> QED
  BY <1>4, <1>5, <1>6

LEMMA NumberUp ==
  ASSUME NEW g \in Nat, NEW j \in Nat
  PROVE  Number(g, j + 1) = Number(g, j) \div 2
<1> DEFINE m == 2^j
           q == Number(g, j)
           s == q \div 2
<1>1. m \in Nat \ {0} /\ 2^(j + 1) = 2 * m
  BY Powers
<1>2. q \in Nat /\ q * m <= g /\ g < q * m + m
  BY NumberOf
<1> HIDE DEF m, q
<1>3. s \in Nat /\ (q = 2 * s \/ q = 2 * s + 1)
  BY <1>2
<1> HIDE DEF s
<1>4. s * (2 * m) <= g /\ g < s * (2 * m) + 2 * m
  <2>1. CASE q = 2 * s
    <3>1. q * m = s * (2 * m)
      BY <1>1, <1>3, <2>1
    <3> QED
      BY <1>1, <1>2, <1>3, <3>1
  <2>2. CASE q = 2 * s + 1
    <3>1. q * m = s * (2 * m) + m
      BY <1>1, <1>3, <2>2
    <3>2. s * (2 * m) \in Nat
      BY <1>1, <1>3
    <3> QED
      BY <1>1, <1>2, <3>1, <3>2
  <2> QED
    BY <1>3, <2>1, <2>2
<1>5. Number(g, j + 1) = s
  BY <1>1, <1>3, <1>4, NumberIs
<1> QED
  BY <1>5 DEF s, q

(* Frames in one block are in one block of every larger order. *)
LEMMA NumberMore ==
  ASSUME NEW g \in Nat, NEW h \in Nat, NEW i \in Nat, NEW j \in Nat, i <= j,
         Number(g, i) = Number(h, i)
  PROVE  Number(g, j) = Number(h, j)
<1> DEFINE Bad == {k \in Nat : i <= k /\ Number(g, k) # Number(h, k)}
<1>1. CASE Bad = {}
  BY <1>1
<1>2. CASE Bad # {}
  <2>1. PICK k \in Bad : \A y \in Bad : k <= y
    BY <1>2, LeastOf
  <2>2. k \in Nat /\ i < k /\ k - 1 \in Nat /\ Number(g, k) # Number(h, k)
    BY <2>1
  <2>3. \A y \in Nat : y \in Bad => k <= y
    BY <2>1
  <2>4. k - 1 \notin Bad
    <3> HIDE DEF Bad
    <3> QED
      BY <2>2, <2>3
  <2>5. Number(g, k - 1) = Number(h, k - 1)
    BY <2>2, <2>4
  <2>6. Number(g, (k - 1) + 1) = Number(h, (k - 1) + 1)
    BY <2>2, <2>5, NumberUp
  <2>7. (k - 1) + 1 = k
    BY <2>2
  <2> QED
    BY <2>2, <2>6, <2>7
<1> QED
  BY <1>1, <1>2

LEMMA AlignedLess ==
  ASSUME NEW h \in Nat, NEW i \in Nat, NEW j \in Nat, i <= j, h % 2^j = 0
  PROVE  h % 2^i = 0
<1>1. CASE i = j
  BY <1>1
<1>2. CASE i < j
  <2>1. PICK q \in Nat \ {0} : 2^j = q * (2 * 2^i)
    BY <1>2, PowerMore
  <2>2. 2^i \in Nat \ {0} /\ h = Number(h, j) * 2^j /\ Number(h, j) \in Nat
    BY Powers, AlignedNumber, NumberOf
  <2> DEFINE s == Number(h, j) * (2 * q)
  <2>3. s \in Nat /\ h = s * 2^i
    BY <2>1, <2>2
  <2> HIDE DEF s
  <2> QED
    BY <2>3, AlignedTimes
<1> QED
  BY <1>1, <1>2

(* The buddy of a block is the other half of the block of the next order. *)
LEMMA Buddies ==
  ASSUME NEW h \in Nat, NEW j \in Nat, h % 2^j = 0
  PROVE  /\ BuddyOf(h, j) \in Nat /\ BuddyOf(h, j) % 2^j = 0
         /\ BuddyOf(h, j) # h /\ BuddyOf(BuddyOf(h, j), j) = h
         /\ \A g \in Nat : Number(g, j + 1) = Number(h, j + 1) <=>
              Number(g, j) = Number(h, j) \/ Number(g, j) = Number(BuddyOf(h, j), j)
         /\ h % 2^(j + 1) = 0 => BuddyOf(h, j) = h + 2^j
         /\ h % 2^(j + 1) # 0 => BuddyOf(h, j) = h - 2^j
<1> DEFINE m == 2^j
           q == Number(h, j)
           p == IF q % 2 = 0 THEN q + 1 ELSE q - 1
           b == BuddyOf(h, j)
<1>1. m \in Nat \ {0} /\ 2^(j + 1) = 2 * m
  BY Powers
<1>2. q \in Nat /\ h = q * m
  BY AlignedNumber, NumberOf
<1>3. b = IF q % 2 = 0 THEN h + m ELSE h - m
  BY DEF BuddyOf, Number
<1> HIDE DEF q
<1>4. p \in Nat /\ p \div 2 = q \div 2 /\ p # q /\ (p % 2 = 0 <=> q % 2 # 0)
      /\ \A n \in Nat : n \div 2 = q \div 2 <=> n = q \/ n = p
  BY <1>2
<1>5. b = p * m
  BY <1>1, <1>2, <1>3 DEF m
<1> HIDE DEF p
<1>6. b \in Nat /\ b % m = 0 /\ Number(b, j) = p
  BY <1>4, <1>5, AlignedTimes, ZenonT(60)
<1>7. b # h
  BY <1>2, <1>4, <1>6 DEF q
<1>8. BuddyOf(b, j) = h
  <2>1. BuddyOf(b, j) = IF p % 2 = 0 THEN b + m ELSE b - m
    BY <1>6 DEF BuddyOf, Number
  <2> HIDE DEF b, m
  <2> QED
    BY <1>1, <1>2, <1>3, <1>4, <1>6, <2>1
<1>9. ASSUME NEW g \in Nat
      PROVE  Number(g, j + 1) = Number(h, j + 1) <=> Number(g, j) = q \/ Number(g, j) = p
  <2>1. Number(g, j) \in Nat
    BY NumberOf
  <2>2. Number(g, j + 1) = Number(g, j) \div 2 /\ Number(h, j + 1) = q \div 2
    BY NumberUp DEF q
  <2> QED
    BY <1>4, <2>1, <2>2
<1>10. h % 2^(j + 1) = 0 <=> q % 2 = 0
  <2>1. h % 2^(j + 1) = 0 <=> h = Number(h, j + 1) * 2^(j + 1)
    BY AlignedNumber
  <2>2. Number(h, j + 1) = q \div 2
    BY NumberUp DEF q
  <2> HIDE DEF m
  <2>3. h = (q \div 2) * (2 * m) <=> q % 2 = 0
    <3> DEFINE s == q \div 2
    <3>1. s \in Nat /\ (q = 2 * s \/ q = 2 * s + 1) /\ (q = 2 * s <=> q % 2 = 0)
      BY <1>2
    <3> HIDE DEF s
    <3>2. q = 2 * s => h = s * (2 * m)
      BY <1>1, <1>2, <3>1
    <3>3. q = 2 * s + 1 => h = s * (2 * m) + m
      BY <1>1, <1>2, <3>1
    <3>4. s * (2 * m) \in Nat
      BY <1>1, <3>1
    <3>5. h = s * (2 * m) <=> q % 2 = 0
      BY <1>1, <3>1, <3>2, <3>3, <3>4
    <3> QED
      BY <3>5 DEF s
  <2> QED
    BY <1>1, <2>1, <2>2, <2>3
<1> QED
  BY <1>3, <1>6, <1>7, <1>8, <1>9, <1>10 DEF q

-----------------------------------------------------------------------------
(* Cutting and merging.                                                    *)

(* The pieces of a block are its first frames, up to an order, and then    *)
(* the second halves: nothing is left over, nothing is there twice.        *)
LEMMA CutCovers ==
  ASSUME NEW f \in Nat, NEW o \in Nat, NEW k \in Nat, o <= k, NEW g \in Nat
  PROVE  /\ g \in Span(f, k) <=>
              g \in Span(f, o) \/ \E j \in o .. k - 1 : g \in Span(f + 2^j, j)
         /\ \A j \in o .. k - 1 : g \in Span(f + 2^j, j) => g \notin Span(f, o)
         /\ \A i, j \in o .. k - 1 :
              g \in Span(f + 2^i, i) /\ g \in Span(f + 2^j, j) => i = j
<1>1. \A j \in Nat : 2^j \in Nat \ {0} /\ 2^(j + 1) = 2 * 2^j
  BY Powers
<1>2. \A i, j \in Nat : i <= j => 2^i <= 2^j
  <2>1. \A i, j \in Nat : i < j => 2^i < 2^j
    BY PowerLess
  <2> QED
    BY <1>1, <2>1
<1>3. \A j \in Nat : g \in Span(f, j) <=> f <= g /\ g < f + 2^j
  BY <1>1 DEF Span
<1>4. \A j \in Nat : g \in Span(f + 2^j, j) <=> f + 2^j <= g /\ g < f + 2^(j + 1)
  BY <1>1 DEF Span
<1>5. ASSUME NEW j \in o .. k - 1, g \in Span(f + 2^j, j)
      PROVE  g \in Span(f, k) /\ g \notin Span(f, o)
  <2>1. j \in Nat /\ j + 1 \in Nat /\ o <= j /\ j + 1 <= k
    OBVIOUS
  <2>2. 2^o <= 2^j /\ 2^(j + 1) <= 2^k
    BY <1>2, <2>1
  <2>3. 2^o \in Nat /\ 2^j \in Nat /\ 2^(j + 1) \in Nat /\ 2^k \in Nat
    BY <1>1, <2>1
  <2>4. f + 2^j <= g /\ g < f + 2^(j + 1)
    BY <1>4, <1>5, <2>1
  <2> QED
    BY <1>3, <2>2, <2>3, <2>4
<1>6. ASSUME NEW i \in o .. k - 1, NEW j \in o .. k - 1, i < j,
             g \in Span(f + 2^i, i), g \in Span(f + 2^j, j)
      PROVE  FALSE
  <2>1. i \in Nat /\ j \in Nat /\ i + 1 \in Nat /\ i + 1 <= j
    BY <1>6
  <2>2. 2^(i + 1) <= 2^j /\ 2^(i + 1) \in Nat /\ 2^j \in Nat
    BY <1>1, <1>2, <2>1
  <2>3. g < f + 2^(i + 1) /\ f + 2^j <= g
    BY <1>4, <1>6, <2>1
  <2> QED
    BY <2>2, <2>3
<1>7. ASSUME g \in Span(f, o) PROVE g \in Span(f, k)
  <2>1. 2^o <= 2^k /\ 2^o \in Nat /\ 2^k \in Nat
    BY <1>1, <1>2
  <2> QED
    BY <1>3, <1>7, <2>1
<1>8. ASSUME g \in Span(f, k), g \notin Span(f, o)
      PROVE  \E j \in o .. k - 1 : g \in Span(f + 2^j, j)
  <2> DEFINE Within == {n \in Nat : g \in Span(f, n)}
  <2>1. PICK n \in Within : \A y \in Within : n <= y
    <3>1. k \in Within
      BY <1>8
    <3> HIDE DEF Within
    <3> QED
      <4>1. Within \in SUBSET Nat
        BY DEF Within
      <4> QED
        BY <3>1, <4>1, LeastOf
  <2>2. n \in Nat /\ g \in Span(f, n) /\ n <= k
    BY <1>8, <2>1
  <2>3. n > o
    <3>1. CASE n <= o
      <4>1. 2^n <= 2^o /\ 2^n \in Nat /\ 2^o \in Nat
        BY <1>1, <1>2, <2>2, <3>1
      <4> QED
        BY <1>3, <1>8, <2>2, <4>1
    <3> QED
      BY <2>2, <3>1
  <2>4. n - 1 \in Nat /\ n - 1 \in o .. k - 1 /\ (n - 1) + 1 = n
    BY <2>2, <2>3
  <2>5. g \notin Span(f, n - 1)
    <3>1. \A y \in Nat : g \in Span(f, y) => n <= y
      BY <2>1
    <3> QED
      BY <2>2, <2>4, <3>1
  <2>6. f + 2^(n - 1) <= g /\ g < f + 2^n
    <3>1. f <= g /\ g < f + 2^n
      BY <1>3, <2>2
    <3>2. ~ (f <= g /\ g < f + 2^(n - 1))
      BY <1>3, <2>4, <2>5
    <3>3. 2^(n - 1) \in Nat
      BY <1>1, <2>4
    <3> QED
      BY <3>1, <3>2, <3>3
  <2>7. g \in Span(f + 2^(n - 1), n - 1)
    BY <1>4, <2>4, <2>6
  <2> QED
    BY <2>4, <2>7
<1>9. \A i, j \in o .. k - 1 : g \in Span(f + 2^i, i) /\ g \in Span(f + 2^j, j) => i = j
  <2> SUFFICES ASSUME NEW i \in o .. k - 1, NEW j \in o .. k - 1,
                      g \in Span(f + 2^i, i), g \in Span(f + 2^j, j), i # j
               PROVE  FALSE
    OBVIOUS
  <2>1. i < j \/ j < i
    OBVIOUS
  <2> QED
    BY <1>6, <2>1
<1> QED
  BY <1>5, <1>7, <1>8, <1>9

(* The buddy that a block is merged with holds the frames that come in     *)
(* with the next order.                                                    *)
LEMMA BuddyFrames ==
  ASSUME NEW f \in Nat, NEW j \in Nat, NEW g \in Nat
  PROVE  g \in Span(BuddyOf(Base(f, j), j), j) <=>
           Number(g, j + 1) = Number(f, j + 1) /\ Number(g, j) # Number(f, j)
<1> DEFINE h == Base(f, j)
           b == BuddyOf(h, j)
<1>1. h \in Nat /\ h % 2^j = 0
  BY NumberOf
<1>2. Number(h, j) = Number(f, j)
  BY NumberOf, AlignedTimes
<1>3. Number(h, j + 1) = Number(f, j + 1)
  <2>1. j + 1 \in Nat /\ j <= j + 1
    OBVIOUS
  <2> HIDE DEF h
  <2> QED
    BY <1>1, <1>2, <2>1, NumberMore
<1> HIDE DEF h
<1>4. /\ b \in Nat /\ b % 2^j = 0 /\ b # h
      /\ Number(g, j + 1) = Number(h, j + 1) <=>
              Number(g, j) = Number(h, j) \/ Number(g, j) = Number(b, j)
  BY <1>1, Buddies
<1> HIDE DEF b
<1>5. Number(b, j) # Number(h, j)
  BY <1>1, <1>4, AlignedNumber
<1>6. g \in Span(b, j) <=> Number(g, j) = Number(b, j)
  BY <1>4, InSpan
<1> QED
  BY <1>2, <1>3, <1>4, <1>5, <1>6 DEF b, h

LEMMA BaseFrames ==
  ASSUME NEW f \in Nat, NEW j \in Nat, NEW g \in Nat
  PROVE  g \in Span(Base(f, j), j) <=> Number(g, j) = Number(f, j)
<1>1. Base(f, j) \in Nat /\ Base(f, j) % 2^j = 0
  BY NumberOf
<1>2. Number(Base(f, j), j) = Number(f, j)
  BY NumberOf, AlignedTimes
<1> QED
  BY <1>1, <1>2, InSpan

(* A block and the buddies it is merged with, one per order, make up the   *)
(* block that comes of it.                                                 *)
LEMMA MergeCovers ==
  ASSUME NEW f \in Nat, NEW o \in Nat, NEW k \in Nat, o <= k, f % 2^o = 0, NEW g \in Nat
  PROVE  /\ g \in Span(Base(f, k), k) <=>
              \/ g \in Span(f, o)
              \/ \E j \in o .. k - 1 : g \in Span(BuddyOf(Base(f, j), j), j)
         /\ \A j \in o .. k - 1 : g \in Span(BuddyOf(Base(f, j), j), j) => g \notin Span(f, o)
         /\ \A i, j \in o .. k - 1 :
              g \in Span(BuddyOf(Base(f, i), i), i) /\ g \in Span(BuddyOf(Base(f, j), j), j)
                => i = j
<1> DEFINE Same(j) == Number(g, j) = Number(f, j)
<1>1. \A j \in Nat : g \in Span(Base(f, j), j) <=> Same(j)
  BY BaseFrames
<1>2. \A j \in Nat : g \in Span(BuddyOf(Base(f, j), j), j) <=> Same(j + 1) /\ ~Same(j)
  BY BuddyFrames
<1>3. g \in Span(f, o) <=> Same(o)
  BY InSpan
<1>4. \A i, j \in Nat : i <= j /\ Same(i) => Same(j)
  BY NumberMore
<1> HIDE DEF Same
<1>5. ASSUME NEW j \in o .. k - 1, Same(j + 1), ~Same(j) PROVE Same(k) /\ ~Same(o)
  BY <1>4, <1>5
<1>6. ASSUME Same(k), ~Same(o) PROVE \E j \in o .. k - 1 : Same(j + 1) /\ ~Same(j)
  <2> DEFINE T == {n \in Nat : Same(n)}
  <2>1. PICK n \in T : \A y \in T : n <= y
    <3>1. k \in T /\ T \in SUBSET Nat
      BY <1>6
    <3> HIDE DEF T
    <3> QED
      BY <3>1, LeastOf
  <2>2. n \in Nat /\ Same(n) /\ n <= k /\ \A y \in Nat : Same(y) => n <= y
    BY <1>6, <2>1
  <2>3. n > o
    BY <1>4, <1>6, <2>2
  <2>4. n - 1 \in o .. k - 1 /\ n - 1 \in Nat /\ (n - 1) + 1 = n
    BY <2>2, <2>3
  <2>5. ~Same(n - 1)
    BY <2>2, <2>4
  <2> QED
    BY <2>2, <2>4, <2>5
<1>7. ASSUME NEW i \in o .. k - 1, NEW j \in o .. k - 1,
             Same(i + 1), ~Same(i), Same(j + 1), ~Same(j)
      PROVE  i = j
  <2>1. i < j => Same(j)
    BY <1>4, <1>7
  <2>2. j < i => Same(i)
    BY <1>4, <1>7
  <2> QED
    BY <1>7, <2>1, <2>2
<1>8. \A j \in o .. k - 1 : g \in Span(BuddyOf(Base(f, j), j), j) <=> Same(j + 1) /\ ~Same(j)
  BY <1>2
<1> QED
  BY <1>1, <1>3, <1>4, <1>5, <1>6, <1>7, <1>8

-----------------------------------------------------------------------------
(* Who has a frame.                                                        *)

FreeOf(g)   == {h \in buddy : g \in Span(h, order[h])}
BlocksOf(g) == {b \in blocks : g \in Span(b[1], b[2])}
TakersOf(g) == {t \in Thread : call[t].pc = "taken" /\ call[t].page = g}

Kind == {"free", "block", "taken", "pcp", "claimed"}

Has(g, k) == \/ k = "free"    /\ FreeOf(g) # {}
             \/ k = "block"   /\ BlocksOf(g) # {}
             \/ k = "taken"   /\ TakersOf(g) # {}
             \/ k = "pcp"     /\ g \in pcp
             \/ k = "claimed" /\ g \in claimed

Single(S) == \A x, y \in S : x = y

(* The frame is of one kind, and there only once. *)
Once(g) == /\ Single(FreeOf(g)) /\ Single(BlocksOf(g)) /\ Single(TakersOf(g))
           /\ \E k \in Kind : \A j \in Kind : Has(g, j) <=> j = k

CallRecord == [pc : {"idle", "isolated", "free", "taken", "done"}, page : Frame]

ZoneTypes ==
  /\ buddy \subseteq Frame /\ order \in [Frame -> Order]
  /\ list \in [Order -> [Type -> SUBSET Frame]] /\ nr_free \in [Order -> Int]
  /\ free_pages \in Int /\ isolated \subseteq Movable
  /\ blocks \subseteq Frame \X Order /\ pcp \subseteq Frame /\ claimed \subseteq Frame
  /\ call \in [Thread -> CallRecord] /\ claims \in Nat

BlocksAligned == \A b \in blocks : b[1] % 2^b[2] = 0 /\ b[1] + 2^b[2] <= NumFrames

LEMMA Ranges ==
  /\ NumFrames \in Nat \ {0} /\ MaxOrder \in Nat \ {0} /\ PageblockOrder \in Order
  /\ 0 \in Order /\ Order \subseteq Nat /\ Frame \subseteq Nat /\ 0 \in Frame
  /\ IsFiniteSet(Frame) /\ IsFiniteSet(Order) /\ IsFiniteSet(Thread)
  /\ Frame = {f \in Nat : f < NumFrames} /\ Order = {o \in Nat : o < MaxOrder}
<1>1. IsFiniteSet(0 .. NumFrames - 1) /\ IsFiniteSet(0 .. MaxOrder - 1)
  BY SizesOK, FS_Interval
<1> QED
  BY <1>1, SizesOK, PageblocksOK DEF Frame, Order

(* What a change of the free lists does, when the blocks put back begin    *)
(* where no other free block begins.                                       *)
LEMMA RelistFree ==
  ASSUME ZoneTypes, NEW gone \in SUBSET buddy, NEW back \in SUBSET (Frame \X Order),
         \A b, c \in back : b[1] = c[1] => b = c,
         \A b \in back : b[1] \notin buddy \ gone,
         NEW m \in Type, Relist(gone, back, m)
  PROVE  /\ buddy' \subseteq Frame /\ order' \in [Frame -> Order]
         /\ buddy' = (buddy \ gone) \cup {b[1] : b \in back}
         /\ \A b \in back : order'[b[1]] = b[2]
         /\ \A h \in buddy \ gone : order'[h] = order[h]
         /\ list' \in [Order -> [Type -> SUBSET Frame]] /\ nr_free' \in [Order -> Int]
<1> DEFINE firsts == {b[1] : b \in back}
<1>1. /\ buddy' = (buddy \ gone) \cup firsts
      /\ order' = [f \in Frame |-> IF f \in firsts THEN (CHOOSE b \in back : b[1] = f)[2]
                                   ELSE IF f \in gone THEN 0 ELSE order[f]]
      /\ list' = [o \in Order |-> [n \in Type |->
                 (list[o][n] \ gone) \cup {b[1] : b \in {c \in back : c[2] = o /\ n = m}}]]
      /\ nr_free' = [o \in Order |-> nr_free[o] - Cardinality({f \in gone : order[f] = o})
                                            + Cardinality({c \in back : c[2] = o})]
  BY DEF Relist
<1>2. firsts \subseteq Frame /\ \A b \in back : b[1] \in Frame /\ b[2] \in Order
  OBVIOUS
<1>3. ASSUME NEW b \in back
      PROVE  order'[b[1]] = b[2]
  <2>1. (CHOOSE c \in back : c[1] = b[1]) = b
    OBVIOUS
  <2>2. b[1] \in firsts /\ b[1] \in Frame
    OBVIOUS
  <2> HIDE DEF firsts
  <2> QED
    BY <1>1, <2>1, <2>2
<1>4. ASSUME NEW h \in buddy \ gone
      PROVE  order'[h] = order[h]
  <2>1. h \notin firsts /\ h \notin gone /\ h \in Frame
    BY DEF ZoneTypes
  <2> HIDE DEF firsts
  <2> QED
    BY <1>1, <2>1
<1>5. ASSUME NEW f \in Frame PROVE order'[f] \in Order
  <2>1. CASE f \in firsts
    <3>1. PICK b \in back : f = b[1]
      BY <2>1
    <3> QED
      BY <1>2, <1>3, <3>1
  <2>2. CASE f \notin firsts
    <3> HIDE DEF firsts
    <3> QED
      BY <1>1, <2>2, Ranges DEF ZoneTypes
  <2> QED
    BY <2>1, <2>2
<1>6. order' \in [Frame -> Order]
  <2> HIDE DEF firsts
  <2> QED
    BY <1>1, <1>5
<1>7. buddy' \subseteq Frame
  <2> HIDE DEF firsts
  <2> QED
    BY <1>1, <1>2 DEF ZoneTypes
<1>8. list' \in [Order -> [Type -> SUBSET Frame]]
  BY <1>1, <1>2 DEF ZoneTypes
<1>9. nr_free' \in [Order -> Int]
  <2>1. IsFiniteSet(gone) /\ IsFiniteSet(back)
    <3>1. IsFiniteSet(Frame \X Order)
      BY Ranges, FS_Product
    <3> QED
      BY <3>1, Ranges, FS_Subset DEF ZoneTypes
  <2>2. ASSUME NEW o \in Order
        PROVE  /\ Cardinality({f \in gone : order[f] = o}) \in Nat
               /\ Cardinality({c \in back : c[2] = o}) \in Nat
    <3>1. {f \in gone : order[f] = o} \in SUBSET gone /\ {c \in back : c[2] = o} \in SUBSET back
      OBVIOUS
    <3> QED
      BY <2>1, <3>1, FS_Subset, FS_CardinalityType
  <2> DEFINE out(o)  == Cardinality({f \in gone : order[f] = o})
             into(o) == Cardinality({c \in back : c[2] = o})
  <2>3. nr_free' = [o \in Order |-> nr_free[o] - out(o) + into(o)]
    BY <1>1
  <2>4. \A o \in Order : out(o) \in Nat /\ into(o) \in Nat
    BY <2>2
  <2> HIDE DEF out, into
  <2> QED
    BY <2>3, <2>4 DEF ZoneTypes
<1> QED
  BY <1>1, <1>3, <1>4, <1>6, <1>7, <1>8, <1>9

LEMMA RelistCovers ==
  ASSUME ZoneTypes, NEW gone \in SUBSET buddy, NEW back \in SUBSET (Frame \X Order),
         \A b, c \in back : b[1] = c[1] => b = c,
         \A b \in back : b[1] \notin buddy \ gone,
         NEW m \in Type, Relist(gone, back, m), NEW g
  PROVE  FreeOf(g)' = (FreeOf(g) \ gone) \cup {b[1] : b \in {c \in back : g \in Span(c[1], c[2])}}
<1>1. /\ buddy' = (buddy \ gone) \cup {b[1] : b \in back}
      /\ \A b \in back : order'[b[1]] = b[2]
      /\ \A h \in buddy \ gone : order'[h] = order[h]
  BY RelistFree
<1>2. FreeOf(g)' = {h \in buddy' : g \in Span(h, order'[h])}
  BY DEF FreeOf, Span
<1>3. ASSUME NEW h \in FreeOf(g)'
      PROVE  h \in (FreeOf(g) \ gone) \cup {b[1] : b \in {c \in back : g \in Span(c[1], c[2])}}
  <2>1. CASE h \in buddy \ gone
    BY <1>1, <1>2, <2>1 DEF FreeOf
  <2>2. CASE h \notin buddy \ gone
    <3>1. PICK b \in back : h = b[1]
      BY <1>1, <1>2, <2>2
    <3> QED
      BY <1>1, <1>2, <3>1
  <2> QED
    BY <2>1, <2>2
<1>4. ASSUME NEW h \in FreeOf(g) \ gone PROVE h \in FreeOf(g)'
  BY <1>1, <1>2 DEF FreeOf
<1>5. ASSUME NEW b \in back, g \in Span(b[1], b[2]) PROVE b[1] \in FreeOf(g)'
  BY <1>1, <1>2, <1>5
<1> QED
  BY <1>3, <1>4, <1>5

LEMMA CountFirsts ==
  ASSUME NEW B, IsFiniteSet(B), \A b, c \in B : b[1] = c[1] => b = c
  PROVE  /\ IsFiniteSet({b[1] : b \in B})
         /\ Cardinality({b[1] : b \in B}) = Cardinality(B)
<1> DEFINE F     == {b[1] : b \in B}
           first == [b \in B |-> b[1]]
<1>1. first \in [B -> F] /\ (\A x \in F : \E b \in B : first[b] = x)
      /\ \A b, c \in B : first[b] = first[c] => b = c
  OBVIOUS
<1> HIDE DEF first, F
<1>2. first \in Surjection(B, F) /\ first \in Injection(B, F)
  BY <1>1 DEF Surjection, Injection, IsInjective
<1>3. IsFiniteSet(F) /\ Cardinality(F) = Cardinality(B)
  BY <1>2, FS_Surjection
<1> QED
  BY <1>3 DEF F

(* The lists and the counters go on agreeing with the marks. *)
LEMMA RelistAgrees ==
  ASSUME ZoneTypes, ListsAgree,
         NEW gone \in SUBSET buddy, NEW back \in SUBSET (Frame \X Order),
         \A b, c \in back : b[1] = c[1] => b = c,
         \A b \in back : b[1] \notin buddy \ gone,
         NEW m \in Type, Relist(gone, back, m)
  PROVE  ListsAgree'
<1>1. /\ buddy' = (buddy \ gone) \cup {b[1] : b \in back}
      /\ \A b \in back : order'[b[1]] = b[2]
      /\ \A h \in buddy \ gone : order'[h] = order[h]
  BY RelistFree
<1>2. IsFiniteSet(gone) /\ IsFiniteSet(back) /\ IsFiniteSet(buddy)
  <2>1. IsFiniteSet(Frame \X Order)
    BY Ranges, FS_Product
  <2> QED
    BY <2>1, Ranges, FS_Subset DEF ZoneTypes
<1>3. SUFFICES ASSUME NEW o \in Order
      PROVE  /\ UNION {list'[o][n] : n \in Type} = {f \in buddy' : order'[f] = o}
             /\ \A n, p \in Type : n # p => list'[o][n] \cap list'[o][p] = {}
             /\ nr_free'[o] = Cardinality({f \in buddy' : order'[f] = o})
  BY DEF ListsAgree
<1> DEFINE D == {f \in buddy : order[f] = o}
           G == {f \in gone : order[f] = o}
           B == {c \in back : c[2] = o}
           F == {b[1] : b \in B}
           E == {f \in buddy' : order'[f] = o}
<1>4. \A n \in Type : list'[o][n] = (list[o][n] \ gone) \cup (IF n = m THEN F ELSE {})
  <2>1. \A n \in Type : list'[o][n]
          = (list[o][n] \ gone) \cup {b[1] : b \in {c \in back : c[2] = o /\ n = m}}
    BY DEF Relist
  <2>2. \A n \in Type : {b[1] : b \in {c \in back : c[2] = o /\ n = m}}
                          = IF n = m THEN F ELSE {}
    OBVIOUS
  <2> QED
    BY <2>1, <2>2
<1>5. nr_free'[o] = nr_free[o] - Cardinality(G) + Cardinality(B)
  BY DEF Relist
<1>6. /\ UNION {list[o][n] : n \in Type} = D
      /\ \A n, p \in Type : n # p => list[o][n] \cap list[o][p] = {}
      /\ nr_free[o] = Cardinality(D)
  BY DEF ListsAgree
<1>7. E = (D \ gone) \cup F
  <2>1. ASSUME NEW f \in E PROVE f \in (D \ gone) \cup F
    <3>1. CASE f \in buddy \ gone
      BY <1>1, <3>1
    <3>2. CASE f \notin buddy \ gone
      <4>1. PICK b \in back : f = b[1]
        BY <1>1, <3>2
      <4> QED
        BY <1>1, <4>1
    <3> QED
      BY <3>1, <3>2
  <2>2. ASSUME NEW f \in D \ gone PROVE f \in E
    BY <1>1
  <2>3. ASSUME NEW b \in B PROVE b[1] \in E
    BY <1>1
  <2> QED
    BY <2>1, <2>2, <2>3
<1>8. (D \ gone) \cap F = {} /\ D \ gone = D \ G /\ G \subseteq D
  OBVIOUS
<1>9. /\ IsFiniteSet(D) /\ IsFiniteSet(G) /\ IsFiniteSet(B) /\ IsFiniteSet(F)
      /\ Cardinality(F) = Cardinality(B)
  <2>1. D \in SUBSET buddy /\ G \in SUBSET gone /\ B \in SUBSET back
    OBVIOUS
  <2>2. IsFiniteSet(D) /\ IsFiniteSet(G) /\ IsFiniteSet(B)
    <3> HIDE DEF D, G, B
    <3> QED
      BY <1>2, <2>1, FS_Subset
  <2>3. \A b, c \in B : b[1] = c[1] => b = c
    OBVIOUS
  <2> HIDE DEF B
  <2> QED
    BY <2>2, <2>3, CountFirsts
<1>10. Cardinality(E) = Cardinality(D) - Cardinality(G) + Cardinality(B)
  <2> HIDE DEF D, G, B, F, E
  <2>1. D \cap G = G
    BY <1>8
  <2>2. /\ IsFiniteSet(D \ G) /\ Cardinality(D \ G) = Cardinality(D) - Cardinality(G)
    BY <1>9, <2>1, FS_Difference, ZenonT(60)
  <2>3. Cardinality((D \ G) \cup F)
          = Cardinality(D \ G) + Cardinality(F) - Cardinality((D \ G) \cap F)
    BY <1>9, <2>2, FS_Union
  <2>4. Cardinality((D \ G) \cap F) = 0
    BY <1>8, FS_EmptySet
  <2>5. /\ Cardinality(D) \in Nat /\ Cardinality(G) \in Nat /\ Cardinality(B) \in Nat
    BY <1>9, FS_CardinalityType
  <2>6. E = (D \ G) \cup F
    BY <1>7, <1>8
  <2>7. Cardinality(E) = Cardinality(D \ G) + Cardinality(F) - Cardinality((D \ G) \cap F)
    BY <2>3, <2>6
  <2>8. Cardinality(F) = Cardinality(B)
    BY <1>9
  <2>9. Cardinality(D \ G) = Cardinality(D) - Cardinality(G)
    BY <2>2
  <2> QED
    BY <2>4, <2>5, <2>7, <2>8, <2>9
<1>11. UNION {list'[o][n] : n \in Type} = E
  <2> HIDE DEF D, E, F
  <2>1. \A n \in Type : list'[o][n] \subseteq (D \ gone) \cup F
    BY <1>4, <1>6
  <2>2. F \subseteq list'[o][m]
    BY <1>4
  <2>3. \A f \in D \ gone : \E n \in Type : f \in list'[o][n]
    BY <1>4, <1>6
  <2> QED
    BY <1>7, <2>1, <2>2, <2>3
<1>12. \A n, p \in Type : n # p => list'[o][n] \cap list'[o][p] = {}
  <2> HIDE DEF D, E, F
  <2>1. \A n \in Type : list[o][n] \subseteq D
    BY <1>6
  <2> QED
    BY <1>4, <1>6, <1>8, <2>1
<1> QED
  BY <1>5, <1>6, <1>10, <1>11, <1>12

(* What a claim, or an allocation, puts back of a block. *)
Pieces(f, o, k) == {<<f + 2^j, j>> : j \in o .. k - 1}

LEMMA RestPieces ==
  ASSUME NEW f \in Nat, NEW o \in Nat, NEW k \in Nat, o <= k
  PROVE  Rest(f, k) \ Rest(f, o) = Pieces(f, o, k) /\ Rest(f, k) = Pieces(f, 0, k)
<1>1. Rest(f, k) = {<<f + 2^j, j>> : j \in 0 .. k - 1}
      /\ Rest(f, o) = {<<f + 2^j, j>> : j \in 0 .. o - 1}
  BY DEF Rest
<1>2. ASSUME NEW j \in 0 .. k - 1 PROVE <<f + 2^j, j>> \in Rest(f, o) <=> j \in 0 .. o - 1
  BY <1>1
<1>3. \A j : j \in o .. k - 1 <=> j \in 0 .. k - 1 /\ j \notin 0 .. o - 1
  OBVIOUS
<1>4. ASSUME NEW x \in Rest(f, k) \ Rest(f, o) PROVE x \in Pieces(f, o, k)
  <2>1. PICK j \in 0 .. k - 1 : x = <<f + 2^j, j>>
    BY <1>1
  <2> QED
    BY <1>2, <1>3, <2>1 DEF Pieces
<1>5. ASSUME NEW x \in Pieces(f, o, k) PROVE x \in Rest(f, k) \ Rest(f, o)
  <2>1. PICK j \in o .. k - 1 : x = <<f + 2^j, j>>
    BY DEF Pieces
  <2> QED
    BY <1>1, <1>2, <1>3, <2>1
<1> QED
  BY <1>1, <1>4, <1>5 DEF Pieces

(* When the block at f is cut, and the frames up to order o are not put    *)
(* back, these frames are in no free block any more, and every other frame *)
(* of the block is in one piece.                                           *)
LEMMA CutKeeps ==
  ASSUME ZoneTypes, Aligned, ListsAgree, \A g \in Frame : Single(FreeOf(g)),
         NEW f \in buddy, NEW o \in Order, o <= order[f], NEW m \in Type,
         Relist({f}, Pieces(f, o, order[f]), m)
  PROVE  /\ buddy' \subseteq Frame /\ order' \in [Frame -> Order]
         /\ list' \in [Order -> [Type -> SUBSET Frame]] /\ nr_free' \in [Order -> Int]
         /\ Aligned' /\ ListsAgree'
         /\ Span(f, o) \subseteq Frame
         /\ \A g \in Span(f, o) : FreeOf(g) = {f} /\ FreeOf(g)' = {}
         /\ \A g \in Frame \ Span(f, o) :
              Single(FreeOf(g)') /\ (FreeOf(g)' = {} <=> FreeOf(g) = {})
         /\ f \notin buddy'
         /\ \A h \in buddy' : \/ h \in buddy \ {f} /\ order'[h] = order[h]
                              \/ \E j \in o .. order[f] - 1 : h = f + 2^j /\ order'[h] = j
<1> DEFINE k == order[f]
           back == Pieces(f, o, k)
<1>1. /\ f \in Nat /\ f \in Frame /\ k \in Nat /\ k \in Order /\ o \in Nat /\ o <= k
      /\ f % 2^k = 0 /\ f + 2^k <= NumFrames
  BY Ranges DEF ZoneTypes, Aligned
<1> HIDE DEF k
<1>2. \A j \in Nat : 2^j \in Nat /\ 2^j >= 1
  BY PowerNat
<1>3. ASSUME NEW j \in o .. k - 1
      PROVE  /\ j \in Nat /\ j \in Order /\ f + 2^j \in Nat /\ f + 2^j \in Frame
             /\ (f + 2^j) % 2^j = 0 /\ (f + 2^j) + 2^j <= NumFrames
             /\ f + 2^j \in Span(f, k)
  <2>1. j \in Nat /\ j < k
    BY <1>1
  <2>2. j \in Order
    BY <1>1, <2>1, Ranges
  <2>3. 2 * 2^j <= 2^k /\ 2^j < 2^k
    BY <1>1, <2>1, PowerLess
  <2>4. 2^j \in Nat /\ 2^k \in Nat /\ 2^j >= 1
    BY <1>1, <1>2, <2>1
  <2>5. f + 2^j \in Nat /\ f + 2^j < NumFrames /\ (f + 2^j) + 2^j <= NumFrames
    BY <1>1, <2>3, <2>4, Ranges
  <2>6. f + 2^j \in Span(f, k)
    BY <1>1, <2>3, <2>4 DEF Span
  <2>7. f + 2^j \in Frame
    BY <2>5, Ranges
  <2>8. f = Number(f, j) * 2^j /\ Number(f, j) \in Nat
    <3>1. j \in Nat /\ j <= k
      BY <1>1, <2>1
    <3>2. f % 2^j = 0
      BY <1>1, <3>1, AlignedLess
    <3> QED
      BY <1>1, <2>1, <3>2, AlignedNumber, NumberOf
  <2>9. f + 2^j = (Number(f, j) + 1) * 2^j
    BY <2>4, <2>8
  <2>10. ((Number(f, j) + 1) * 2^j) % 2^j = 0
    BY <2>1, <2>8, AlignedTimes
  <2> QED
    BY <2>1, <2>2, <2>5, <2>6, <2>7, <2>9, <2>10
<1>4. \A b \in back : \E j \in o .. k - 1 : b = <<f + 2^j, j>>
  BY DEF Pieces
<1>5. back \in SUBSET (Frame \X Order)
  BY <1>3, <1>4
<1>6. \A b, c \in back : b[1] = c[1] => b = c
  <2> SUFFICES ASSUME NEW b \in back, NEW c \in back, b[1] = c[1] PROVE b = c
    OBVIOUS
  <2>1. PICK i \in o .. k - 1 : b = <<f + 2^i, i>>
    BY <1>4
  <2>2. PICK j \in o .. k - 1 : c = <<f + 2^j, j>>
    BY <1>4
  <2>3. i \in Nat /\ j \in Nat
    BY <1>3
  <2>4. 2^i = 2^j
    BY <1>1, <1>2, <2>1, <2>2, <2>3
  <2>5. i < j => 2^i < 2^j
    BY <2>3, PowerLess
  <2>6. j < i => 2^j < 2^i
    BY <2>3, PowerLess
  <2>7. 2^i \in Nat
    BY <1>2, <2>3
  <2>8. i = j
    BY <2>3, <2>4, <2>5, <2>6, <2>7
  <2> QED
    BY <2>1, <2>2, <2>8
<1>7. \A g \in Span(f, k) : g \in Frame /\ FreeOf(g) = {f}
  <2> SUFFICES ASSUME NEW g \in Span(f, k) PROVE g \in Frame /\ FreeOf(g) = {f}
    OBVIOUS
  <2>1. g \in Nat /\ g < NumFrames
    BY <1>1, <1>2, Ranges DEF Span
  <2>2. g \in Frame
    BY <2>1, Ranges
  <2>3. f \in FreeOf(g)
    BY DEF FreeOf, k
  <2> QED
    BY <2>2, <2>3 DEF Single
<1>8. \A b \in back : b[1] \notin buddy \ {f}
  <2> SUFFICES ASSUME NEW b \in back, b[1] \in buddy PROVE b[1] = f
    OBVIOUS
  <2>1. PICK j \in o .. k - 1 : b = <<f + 2^j, j>>
    BY <1>4
  <2>2. b[1] \in Span(f, k) /\ b[1] \in Nat
    BY <1>3, <2>1
  <2>3. order[b[1]] \in Nat
    BY Ranges DEF ZoneTypes
  <2>4. b[1] \in Span(b[1], order[b[1]])
    BY <1>2, <2>2, <2>3 DEF Span
  <2> QED
    BY <1>7, <2>2, <2>4 DEF FreeOf
<1>9. {f} \in SUBSET buddy /\ Relist({f}, back, m)
  BY DEF k
<1> HIDE DEF back
<1>10. /\ buddy' \subseteq Frame /\ order' \in [Frame -> Order]
       /\ buddy' = (buddy \ {f}) \cup {b[1] : b \in back}
       /\ \A b \in back : order'[b[1]] = b[2]
       /\ \A h \in buddy \ {f} : order'[h] = order[h]
       /\ list' \in [Order -> [Type -> SUBSET Frame]] /\ nr_free' \in [Order -> Int]
  BY <1>5, <1>6, <1>8, <1>9, RelistFree
<1>11. ListsAgree'
  BY <1>5, <1>6, <1>8, <1>9, RelistAgrees
<1>12. Aligned'
  <2> SUFFICES ASSUME NEW h \in buddy'
               PROVE  h % 2^(order'[h]) = 0 /\ h + 2^(order'[h]) <= NumFrames
    BY DEF Aligned
  <2>1. CASE h \in buddy \ {f}
    BY <1>10, <2>1 DEF Aligned
  <2>2. CASE h \notin buddy \ {f}
    <3>1. PICK b \in back : h = b[1]
      BY <1>10, <2>2
    <3>2. PICK j \in o .. k - 1 : b = <<f + 2^j, j>>
      BY <1>4, <3>1
    <3>3. order'[h] = j /\ h = f + 2^j
      BY <1>10, <3>1, <3>2
    <3> QED
      BY <1>3, <3>3
  <2> QED
    BY <2>1, <2>2
<1>13. \A g : FreeOf(g)'
          = (FreeOf(g) \ {f}) \cup {b[1] : b \in {c \in back : g \in Span(c[1], c[2])}}
  BY <1>5, <1>6, <1>8, <1>9, RelistCovers
<1>14. \A g : \A h : h \in FreeOf(g)' <=>
          \/ h \in FreeOf(g) \ {f}
          \/ \E j \in o .. k - 1 : h = f + 2^j /\ g \in Span(f + 2^j, j)
  <2> TAKE g
  <2> DEFINE P == {b[1] : b \in {c \in back : g \in Span(c[1], c[2])}}
  <2>1. FreeOf(g)' = (FreeOf(g) \ {f}) \cup P
    BY <1>13
  <2>2. \A h : h \in P <=> \E j \in o .. k - 1 : h = f + 2^j /\ g \in Span(f + 2^j, j)
    <3> TAKE h
    <3>1. ASSUME h \in P PROVE \E j \in o .. k - 1 : h = f + 2^j /\ g \in Span(f + 2^j, j)
      <4>1. PICK b \in back : h = b[1] /\ g \in Span(b[1], b[2])
        BY <3>1
      <4>2. PICK j \in o .. k - 1 : b = <<f + 2^j, j>>
        BY <1>4
      <4> QED
        BY <4>1, <4>2
    <3>2. ASSUME NEW j \in o .. k - 1, h = f + 2^j, g \in Span(f + 2^j, j) PROVE h \in P
      <4>1. <<f + 2^j, j>> \in back
        BY DEF back, Pieces
      <4>2. <<f + 2^j, j>>[1] = h /\ g \in Span(<<f + 2^j, j>>[1], <<f + 2^j, j>>[2])
        BY <3>2
      <4> QED
        BY <4>1, <4>2
    <3> QED
      BY <3>1, <3>2
  <2> HIDE DEF P
  <2> QED
    BY <2>1, <2>2
<1>15. /\ Span(f, o) \subseteq Frame
       /\ \A g \in Span(f, o) : FreeOf(g) = {f} /\ FreeOf(g)' = {}
  <2> SUFFICES ASSUME NEW g \in Span(f, o)
               PROVE  g \in Frame /\ FreeOf(g) = {f} /\ FreeOf(g)' = {}
    OBVIOUS
  <2>1. g \in Nat
    BY <1>1, <1>2 DEF Span
  <2>2. g \in Span(f, k) /\ ~ \E j \in o .. k - 1 : g \in Span(f + 2^j, j)
    BY <1>1, <2>1, CutCovers
  <2>3. g \in Frame /\ FreeOf(g) = {f}
    BY <1>7, <2>2
  <2>4. \A h : h \notin FreeOf(g)'
    BY <1>14, <2>2, <2>3
  <2> QED
    BY <2>3, <2>4
<1>16. ASSUME NEW g \in Frame \ Span(f, o)
       PROVE  Single(FreeOf(g)') /\ (FreeOf(g)' = {} <=> FreeOf(g) = {})
  <2>1. g \in Nat /\ g \in Frame /\ Single(FreeOf(g))
    BY Ranges
  <2>2. /\ g \in Span(f, k) <=> \E j \in o .. k - 1 : g \in Span(f + 2^j, j)
        /\ \A i, j \in o .. k - 1 : g \in Span(f + 2^i, i) /\ g \in Span(f + 2^j, j) => i = j
    BY <1>1, <2>1, CutCovers
  <2>3. CASE g \in Span(f, k)
    <3>1. FreeOf(g) = {f}
      BY <1>7, <2>3
    <3>2. PICK j \in o .. k - 1 : g \in Span(f + 2^j, j)
      BY <2>2, <2>3
    <3>3. \A h : h \in FreeOf(g)' <=> h = f + 2^j
      BY <1>14, <2>2, <3>1, <3>2
    <3> QED
      BY <3>1, <3>3 DEF Single
  <2>4. CASE g \notin Span(f, k)
    <3>1. f \notin FreeOf(g)
      BY <2>4 DEF FreeOf, k
    <3>2. \A h : h \in FreeOf(g)' <=> h \in FreeOf(g)
      BY <1>14, <2>2, <2>4, <3>1
    <3>3. FreeOf(g)' = FreeOf(g)
      BY <3>2
    <3> QED
      BY <2>1, <3>3 DEF Single
  <2> QED
    BY <2>3, <2>4
<1>17. f \notin buddy'
  <2>1. \A b \in back : b[1] # f
    <3> SUFFICES ASSUME NEW b \in back PROVE b[1] # f
      OBVIOUS
    <3>1. PICK j \in o .. k - 1 : b = <<f + 2^j, j>>
      BY <1>4
    <3>2. 2^j \in Nat /\ 2^j >= 1 /\ b[1] = f + 2^j
      BY <1>2, <1>3, <3>1
    <3> QED
      BY <1>1, <3>2
  <2> QED
    BY <1>10, <2>1
<1>18. ASSUME NEW h \in buddy'
       PROVE  \/ h \in buddy \ {f} /\ order'[h] = order[h]
              \/ \E j \in o .. k - 1 : h = f + 2^j /\ order'[h] = j
  <2>1. CASE h \in buddy \ {f}
    BY <1>10, <2>1
  <2>2. CASE h \notin buddy \ {f}
    <3>1. PICK b \in back : h = b[1]
      BY <1>10, <2>2
    <3>2. PICK j \in o .. k - 1 : b = <<f + 2^j, j>>
      BY <1>4, <3>1
    <3> QED
      BY <1>10, <3>1, <3>2
  <2> QED
    BY <2>1, <2>2
<1> QED
  BY <1>10, <1>11, <1>12, <1>15, <1>16, <1>17, <1>18 DEF k

(* There is a largest order up to which a freed block can be merged. *)
LEMMA LargestMerge ==
  ASSUME NEW f, NEW o \in Order
  PROVE  LET S == {i \in o .. MaxOrder - 1 : Mergeable(f, o, i)}
         IN  Max(S) \in S /\ \A i \in S : i <= Max(S)
<1> DEFINE S == {i \in o .. MaxOrder - 1 : Mergeable(f, o, i)}
           T == {MaxOrder - i : i \in S}
<1>1. MaxOrder \in Nat /\ o \in Nat /\ o <= MaxOrder - 1
  BY Ranges
<1>2. o \in S
  <2>1. o .. o - 1 = {}
    BY <1>1
  <2>2. Mergeable(f, o, o)
    BY <2>1 DEF Mergeable
  <2> QED
    BY <1>1, <2>2
<1>3. \A i \in S : i \in Nat /\ i <= MaxOrder - 1
  BY <1>1
<1> HIDE DEF S
<1>4. T \in SUBSET Nat /\ T # {}
  BY <1>1, <1>2, <1>3
<1>5. PICK x \in T : \A y \in T : x <= y
  BY <1>4, LeastOf
<1>6. PICK k \in S : x = MaxOrder - k
  BY <1>5
<1>7. \A i \in S : k >= i
  <2> SUFFICES ASSUME NEW i \in S PROVE k >= i
    OBVIOUS
  <2>1. MaxOrder - k <= MaxOrder - i
    BY <1>5, <1>6
  <2> QED
    BY <1>1, <1>3, <2>1
<1>8. Max(S) \in S /\ \A i \in S : Max(S) >= i
  BY <1>6, <1>7 DEF Max
<1>9. \A i \in S : i <= Max(S)
  BY <1>3, <1>8
<1> QED
  BY <1>8, <1>9 DEF S

(* What a merge does to the free blocks: the frames of the new block are   *)
(* in it alone, and the rest stays.                                        *)
MergeDone(f, o, k) ==
  /\ buddy' \subseteq Frame /\ order' \in [Frame -> Order]
  /\ list' \in [Order -> [Type -> SUBSET Frame]] /\ nr_free' \in [Order -> Int]
  /\ Aligned' /\ ListsAgree'
  /\ Span(f, o) \subseteq Span(Base(f, k), k) /\ Span(Base(f, k), k) \subseteq Frame
  /\ \A g \in Span(Base(f, k), k) : FreeOf(g)' = {Base(f, k)}
  /\ \A g \in Span(Base(f, k), k) \ Span(f, o) : FreeOf(g) # {}
  /\ \A g \in Frame \ Span(Base(f, k), k) : FreeOf(g)' = FreeOf(g)
  /\ buddy' = (buddy \ Merged(f, o, k)) \cup {Base(f, k)}
  /\ Merged(f, o, k) \subseteq buddy
  /\ order'[Base(f, k)] = k
  /\ \A h \in buddy \ Merged(f, o, k) : order'[h] = order[h]

(* When a block is merged with its free buddies, its frames, which were in *)
(* no free block, and theirs are in the one that comes of it.              *)
LEMMA MergeKeeps ==
  ASSUME ZoneTypes, Aligned, ListsAgree, \A g \in Frame : Single(FreeOf(g)),
         NEW f \in Frame, NEW o \in Order, f % 2^o = 0, f + 2^o <= NumFrames,
         \A g \in Span(f, o) : FreeOf(g) = {},
         NEW k \in o .. MaxOrder - 1, Mergeable(f, o, k), NEW m \in Type,
         Relist(Merged(f, o, k), {<<Base(f, k), k>>}, m)
  PROVE  MergeDone(f, o, k)
<1> DEFINE h == Base(f, k)
           bud(j) == BuddyOf(Base(f, j), j)
           gone == Merged(f, o, k)
           back == {<<h, k>>}
<1>1. /\ f \in Nat /\ o \in Nat /\ k \in Nat /\ k \in Order /\ o <= k
      /\ \A j \in o .. k - 1 : j \in Nat
  BY Ranges
<1>2. \A j \in Nat : 2^j \in Nat /\ 2^j >= 1
  BY PowerNat
<1>3. h \in Nat /\ h <= f /\ h % 2^k = 0
  BY <1>1, NumberOf
<1>4. \A g \in Nat :
        /\ g \in Span(h, k) <=> \/ g \in Span(f, o)
                                \/ \E j \in o .. k - 1 : g \in Span(bud(j), j)
        /\ \A j \in o .. k - 1 : g \in Span(bud(j), j) => g \notin Span(f, o)
        /\ \A i, j \in o .. k - 1 : g \in Span(bud(i), i) /\ g \in Span(bud(j), j) => i = j
  BY <1>1, MergeCovers
<1>5. \A j \in o .. k - 1 : bud(j) \in buddy /\ order[bud(j)] = j
  BY DEF Mergeable
<1>6. \A x : x \in gone <=> \E j \in o .. k - 1 : x = bud(j)
  BY DEF Merged
<1> HIDE DEF bud, gone, h
<1>7. gone \subseteq buddy
  BY <1>5, <1>6
<1>8. \A j \in o .. k - 1 : \A g \in Span(bud(j), j) : g \in Frame /\ FreeOf(g) = {bud(j)}
  <2> SUFFICES ASSUME NEW j \in o .. k - 1, NEW g \in Span(bud(j), j)
               PROVE  g \in Frame /\ FreeOf(g) = {bud(j)}
    OBVIOUS
  <2>1. bud(j) \in buddy /\ order[bud(j)] = j /\ bud(j) \in Nat /\ bud(j) + 2^j <= NumFrames
    BY <1>5, Ranges DEF Aligned, ZoneTypes
  <2>2. 2^j \in Nat
    BY <1>1, <1>2
  <2>3. g \in Nat /\ g < NumFrames
    BY <2>1, <2>2, Ranges DEF Span
  <2>4. g \in Frame
    BY <2>3, Ranges
  <2>5. bud(j) \in FreeOf(g)
    BY <2>1 DEF FreeOf
  <2> QED
    BY <2>4, <2>5 DEF Single
<1>9. Span(f, o) \subseteq Frame /\ \A g \in Span(f, o) : g \in Nat
  <2> SUFFICES ASSUME NEW g \in Span(f, o) PROVE g \in Frame /\ g \in Nat
    OBVIOUS
  <2>1. 2^o \in Nat
    BY <1>1, <1>2
  <2>2. g \in Nat /\ g < NumFrames
    BY <1>1, <2>1, Ranges DEF Span
  <2> QED
    BY <2>2, Ranges
<1>10. \A g \in Span(h, k) : g \in Nat /\ g \in Frame
  <2> SUFFICES ASSUME NEW g \in Span(h, k) PROVE g \in Nat /\ g \in Frame
    OBVIOUS
  <2>1. g \in Nat
    BY <1>1, <1>2, <1>3 DEF Span
  <2> QED
    BY <1>4, <1>8, <1>9, <2>1
<1>11. h \in Frame /\ h + 2^k <= NumFrames /\ h \in Span(h, k)
  <2>1. 2^k \in Nat /\ 2^k >= 1
    BY <1>1, <1>2
  <2>2. h \in Span(h, k) /\ h + 2^k - 1 \in Span(h, k)
    BY <1>3, <2>1 DEF Span
  <2>3. h \in Frame /\ h + 2^k - 1 \in Frame
    BY <1>10, <2>2
  <2>4. h + 2^k - 1 < NumFrames
    BY <2>3, Ranges
  <2> QED
    BY <1>3, <2>1, <2>2, <2>3, <2>4, Ranges
<1>12. \A g \in Span(h, k) : FreeOf(g) \subseteq gone
  <2> SUFFICES ASSUME NEW g \in Span(h, k) PROVE FreeOf(g) \subseteq gone
    OBVIOUS
  <2>1. CASE g \in Span(f, o)
    BY <2>1
  <2>2. CASE g \notin Span(f, o)
    <3>1. PICK j \in o .. k - 1 : g \in Span(bud(j), j)
      BY <1>4, <1>10, <2>2
    <3> QED
      BY <1>6, <1>8, <3>1
  <2> QED
    BY <2>1, <2>2
<1>13. h \notin buddy \ gone
  <2> SUFFICES ASSUME h \in buddy PROVE h \in gone
    OBVIOUS
  <2>1. order[h] \in Nat
    BY Ranges DEF ZoneTypes
  <2>2. h \in Span(h, order[h])
    BY <1>2, <1>3, <2>1 DEF Span
  <2>3. h \in FreeOf(h)
    BY <2>2 DEF FreeOf
  <2> QED
    BY <1>11, <1>12, <2>3
<1>14. /\ back \in SUBSET (Frame \X Order)
       /\ \A x, y \in back : x[1] = y[1] => x = y
       /\ \A x \in back : x[1] \notin buddy \ gone
       /\ gone \in SUBSET buddy
       /\ Relist(gone, back, m)
  <2>1. Relist(gone, back, m)
    BY DEF gone, h
  <2> QED
    BY <1>1, <1>7, <1>11, <1>13, <2>1
<1>15. {x[1] : x \in back} = {h} /\ <<h, k>> \in back /\ <<h, k>>[1] = h /\ <<h, k>>[2] = k
  OBVIOUS
<1>16. \A g : {b[1] : b \in {c \in back : g \in Span(c[1], c[2])}}
                = IF g \in Span(h, k) THEN {h} ELSE {}
  <2> TAKE g
  <2> DEFINE P == {c \in back : g \in Span(c[1], c[2])}
  <2>1. P = IF g \in Span(h, k) THEN {<<h, k>>} ELSE {}
    OBVIOUS
  <2> HIDE DEF P
  <2>2. \A x \in P : x = <<h, k>> /\ x[1] = h /\ g \in Span(h, k)
    BY <2>1
  <2>3. g \in Span(h, k) => <<h, k>> \in P /\ <<h, k>>[1] = h
    BY <2>1
  <2>4. {b[1] : b \in P} = IF g \in Span(h, k) THEN {h} ELSE {}
    BY <2>2, <2>3
  <2> QED
    BY <2>4 DEF P
<1> HIDE DEF back
<1>17. /\ buddy' \subseteq Frame /\ order' \in [Frame -> Order]
       /\ buddy' = (buddy \ gone) \cup {h}
       /\ order'[h] = k
       /\ \A x \in buddy \ gone : order'[x] = order[x]
       /\ list' \in [Order -> [Type -> SUBSET Frame]] /\ nr_free' \in [Order -> Int]
  <2>1. /\ buddy' \subseteq Frame /\ order' \in [Frame -> Order]
        /\ buddy' = (buddy \ gone) \cup {x[1] : x \in back}
        /\ \A x \in back : order'[x[1]] = x[2]
        /\ \A x \in buddy \ gone : order'[x] = order[x]
        /\ list' \in [Order -> [Type -> SUBSET Frame]] /\ nr_free' \in [Order -> Int]
    BY <1>14, RelistFree
  <2> QED
    BY <1>15, <2>1
<1>18. ListsAgree'
  BY <1>14, RelistAgrees
<1>19. Aligned'
  BY <1>3, <1>11, <1>17 DEF Aligned
<1>20. \A g : FreeOf(g)' = (FreeOf(g) \ gone) \cup (IF g \in Span(h, k) THEN {h} ELSE {})
  <2>1. \A g : FreeOf(g)'
          = (FreeOf(g) \ gone) \cup {b[1] : b \in {c \in back : g \in Span(c[1], c[2])}}
    BY <1>14, RelistCovers
  <2> QED
    BY <1>16, <2>1
<1>21. \A g \in Span(h, k) : FreeOf(g)' = {h}
  BY <1>12, <1>20
<1>22. \A g \in Span(h, k) \ Span(f, o) : FreeOf(g) # {}
  <2> SUFFICES ASSUME NEW g \in Span(h, k) \ Span(f, o) PROVE FreeOf(g) # {}
    OBVIOUS
  <2>1. PICK j \in o .. k - 1 : g \in Span(bud(j), j)
    BY <1>4, <1>10
  <2> QED
    BY <1>8, <2>1
<1>23. \A g \in Frame \ Span(h, k) : FreeOf(g)' = FreeOf(g)
  <2> SUFFICES ASSUME NEW g \in Frame \ Span(h, k) PROVE FreeOf(g)' = FreeOf(g)
    OBVIOUS
  <2>1. g \in Nat
    BY Ranges
  <2>2. ASSUME NEW x \in FreeOf(g), x \in gone PROVE FALSE
    <3>1. PICK j \in o .. k - 1 : x = bud(j)
      BY <1>6, <2>2
    <3>2. g \in Span(bud(j), j)
      BY <1>5, <3>1 DEF FreeOf
    <3> QED
      BY <1>4, <2>1, <3>2
  <2> QED
    BY <1>20, <2>2
<1>24. Span(f, o) \subseteq Span(h, k)
  BY <1>4, <1>9
<1> QED
  BY <1>7, <1>10, <1>17, <1>18, <1>19, <1>21, <1>22, <1>23, <1>24 DEF h, gone, MergeDone

(* A block that is freed becomes part of a free block, as large as it can  *)
(* be made.                                                                *)
LEMMA LargestBlock ==
  ASSUME NEW f, NEW o \in Order, NEW m, FreeBlock(f, o, m)
  PROVE  /\ free_pages' = free_pages + 2^o
         /\ \E k \in o .. MaxOrder - 1 :
              /\ Mergeable(f, o, k)
              /\ Relist(Merged(f, o, k), {<<Base(f, k), k>>}, m)
              /\ \A i \in o .. MaxOrder - 1 : Mergeable(f, o, i) => i <= k
<1> DEFINE S == {i \in o .. MaxOrder - 1 : Mergeable(f, o, i)}
           k == Max(S)
<1>1. k \in S /\ \A i \in S : i <= k
  BY LargestMerge
<1>2. /\ Relist(Merged(f, o, k), {<<Base(f, k), k>>}, m)
      /\ free_pages' = free_pages + 2^o
  BY DEF FreeBlock
<1> HIDE DEF k
<1> QED
  BY <1>1, <1>2

LEMMA FreeBlockKeeps ==
  ASSUME ZoneTypes, Aligned, ListsAgree, \A g \in Frame : Single(FreeOf(g)),
         NEW f \in Frame, NEW o \in Order, f % 2^o = 0, f + 2^o <= NumFrames,
         \A g \in Span(f, o) : FreeOf(g) = {},
         NEW m \in Type, FreeBlock(f, o, m)
  PROVE  /\ buddy' \subseteq Frame /\ order' \in [Frame -> Order]
         /\ list' \in [Order -> [Type -> SUBSET Frame]] /\ nr_free' \in [Order -> Int]
         /\ free_pages' = free_pages + 2^o
         /\ Aligned' /\ ListsAgree'
         /\ Span(f, o) \subseteq Frame
         /\ \A g \in Span(f, o) : FreeOf(g)' # {}
         /\ \A g \in Frame : Single(FreeOf(g)')
         /\ \A g \in Frame \ Span(f, o) : FreeOf(g)' = {} <=> FreeOf(g) = {}
<1>1. PICK k \in o .. MaxOrder - 1 :
         Mergeable(f, o, k) /\ Relist(Merged(f, o, k), {<<Base(f, k), k>>}, m)
  BY LargestBlock
<1>2. /\ buddy' \subseteq Frame /\ order' \in [Frame -> Order]
      /\ list' \in [Order -> [Type -> SUBSET Frame]] /\ nr_free' \in [Order -> Int]
      /\ Aligned' /\ ListsAgree'
      /\ Span(f, o) \subseteq Span(Base(f, k), k) /\ Span(Base(f, k), k) \subseteq Frame
      /\ \A g \in Span(Base(f, k), k) : FreeOf(g)' = {Base(f, k)}
      /\ \A g \in Span(Base(f, k), k) \ Span(f, o) : FreeOf(g) # {}
      /\ \A g \in Frame \ Span(Base(f, k), k) : FreeOf(g)' = FreeOf(g)
  <2>1. MergeDone(f, o, k)
    BY <1>1, MergeKeeps
  <2> QED
    BY <2>1 DEF MergeDone
<1>3. free_pages' = free_pages + 2^o
  BY LargestBlock
<1> DEFINE W == Span(Base(f, k), k)
           B == Base(f, k)
<1>4. /\ Span(f, o) \subseteq W /\ W \subseteq Frame
      /\ \A g \in W : FreeOf(g)' = {B}
      /\ \A g \in W \ Span(f, o) : FreeOf(g) # {}
      /\ \A g \in Frame \ W : FreeOf(g)' = FreeOf(g)
  BY <1>2
<1> HIDE DEF W, B
<1>5. \A g \in Frame : Single(FreeOf(g)')
  <2> SUFFICES ASSUME NEW g \in Frame PROVE Single(FreeOf(g)')
    OBVIOUS
  <2>1. Single(FreeOf(g)) /\ (FreeOf(g)' = {B} \/ FreeOf(g)' = FreeOf(g))
    BY <1>4
  <2> QED
    BY <2>1 DEF Single
<1>6. \A g \in Span(f, o) : FreeOf(g)' # {}
  BY <1>4
<1>7. \A g \in Frame \ Span(f, o) : FreeOf(g)' = {} <=> FreeOf(g) = {}
  <2> SUFFICES ASSUME NEW g \in Frame \ Span(f, o) PROVE FreeOf(g)' = {} <=> FreeOf(g) = {}
    OBVIOUS
  <2>1. CASE g \in W
    BY <1>4, <2>1
  <2>2. CASE g \notin W
    BY <1>4, <2>2
  <2> QED
    BY <2>1, <2>2
<1> QED
  BY <1>2, <1>3, <1>4, <1>5, <1>6, <1>7

(* The move of the free blocks of a pageblock to another type leaves them  *)
(* on one list each.                                                       *)
LEMMA MoveKeeps ==
  ASSUME ZoneTypes, ListsAgree, NEW n, NEW m \in Type, MoveFree(n, m),
         UNCHANGED <<buddy, order, nr_free>>
  PROVE  /\ list' \in [Order -> [Type -> SUBSET Frame]] /\ ListsAgree'
         /\ \A o \in Order, p \in Type :
              list'[o][p] = (list[o][p] \ {f \in buddy : Pageblock(f) = n})
                  \cup {f \in {h \in buddy : Pageblock(h) = n} : order[f] = o /\ p = m}
<1> DEFINE moved == {f \in buddy : Pageblock(f) = n}
<1>1. list' = [o \in Order |-> [p \in Type |->
                 (list[o][p] \ moved) \cup {f \in moved : order[f] = o /\ p = m}]]
  BY DEF MoveFree
<1>2. moved \subseteq buddy /\ buddy \subseteq Frame
  BY DEF ZoneTypes
<1>3. \A o \in Order, p \in Type :
        list'[o][p] = (list[o][p] \ moved) \cup {f \in moved : order[f] = o /\ p = m}
  BY <1>1
<1> HIDE DEF moved
<1>4. list' \in [Order -> [Type -> SUBSET Frame]]
  BY <1>1, <1>2 DEF ZoneTypes
<1>5. ListsAgree'
  <2> SUFFICES ASSUME NEW o \in Order
               PROVE  /\ UNION {list'[o][p] : p \in Type} = {f \in buddy : order[f] = o}
                      /\ \A p, q \in Type : p # q => list'[o][p] \cap list'[o][q] = {}
                      /\ nr_free[o] = Cardinality({f \in buddy : order[f] = o})
    BY ZenonT(60) DEF ListsAgree
  <2> DEFINE D == {f \in buddy : order[f] = o}
  <2>1. /\ UNION {list[o][p] : p \in Type} = D
        /\ \A p, q \in Type : p # q => list[o][p] \cap list[o][q] = {}
        /\ nr_free[o] = Cardinality(D)
    BY DEF ListsAgree
  <2>2. \A f : f \in D <=> f \in buddy /\ order[f] = o
    OBVIOUS
  <2> HIDE DEF D
  <2>3. \A p \in Type : \A f : f \in list'[o][p] <=>
           (f \in list[o][p] /\ f \notin moved) \/ (f \in moved /\ order[f] = o /\ p = m)
    BY <1>3
  <2>4. \A p \in Type : list'[o][p] \subseteq D
    BY <1>2, <2>1, <2>2, <2>3
  <2>5. \A f \in D : \E p \in Type : f \in list'[o][p]
    BY <2>1, <2>2, <2>3
  <2>6. UNION {list'[o][p] : p \in Type} = D
    BY <2>4, <2>5
  <2>7. \A p, q \in Type : p # q => list'[o][p] \cap list'[o][q] = {}
    BY <2>1, <2>3
  <2> QED
    BY <2>1, <2>6, <2>7 DEF D
<1> QED
  BY <1>3, <1>4, <1>5 DEF moved

-----------------------------------------------------------------------------
(* The inductive invariant.  That a frame is in one free block or with one *)
(* user rests on the alignment of all blocks, without which a merge would  *)
(* run into what is not free, and on the lists, by which the allocator     *)
(* takes a frame of a list for a free block of the order of the list.      *)

FreeSingle  == \A g \in Frame : Single(FreeOf(g))
UsersSingle == \A g \in Frame : Single(BlocksOf(g)) /\ Single(TakersOf(g))

ZoneInv == /\ ZoneTypes /\ Aligned /\ ListsAgree /\ BlocksAligned
           /\ \A g \in Frame : Once(g)

(* The frames S go from one kind of owner to another, the others stay.     *)
Moves(S, a, b) ==
  /\ S \subseteq Frame
  /\ \A g \in S : Has(g, a) /\ \A j \in Kind : Has(g, j)' <=> j = b
  /\ \A g \in Frame \ S : \A j \in Kind : Has(g, j)' <=> Has(g, j)

LEMMA OnceMoves ==
  ASSUME \A g \in Frame : Once(g), FreeSingle', UsersSingle',
         NEW S, NEW a \in Kind, NEW b \in Kind, Moves(S, a, b)
  PROVE  \A g \in Frame : Once(g)'
<1> SUFFICES ASSUME NEW g \in Frame PROVE Once(g)'
  OBVIOUS
<1>1. Single(FreeOf(g)') /\ Single(BlocksOf(g)') /\ Single(TakersOf(g)')
  BY DEF FreeSingle, UsersSingle, Single
<1>2. \E k \in Kind : \A j \in Kind : Has(g, j)' <=> j = k
  <2>1. CASE g \in S
    BY <2>1 DEF Moves
  <2>2. CASE g \notin S
    <3>1. PICK k \in Kind : \A j \in Kind : Has(g, j) <=> j = k
      BY DEF Once
    <3>2. \A j \in Kind : Has(g, j)' <=> Has(g, j)
      BY <2>2 DEF Moves
    <3> QED
      BY <3>1, <3>2
  <2> QED
    BY <2>1, <2>2
<1> QED
  BY <1>1, <1>2 DEF Once, Single

LEMMA Singles ==
  ASSUME ZoneInv
  PROVE  FreeSingle /\ UsersSingle
BY DEF ZoneInv, Once, FreeSingle, UsersSingle

(* A frame is with nobody but the one who has it. *)
LEMMA NobodyElse ==
  ASSUME ZoneInv, NEW g \in Frame, NEW k \in Kind, Has(g, k)
  PROVE  /\ k # "free" => FreeOf(g) = {}
         /\ k # "block" => BlocksOf(g) = {}
         /\ k # "taken" => TakersOf(g) = {}
         /\ k # "pcp" => g \notin pcp
         /\ k # "claimed" => g \notin claimed
<1>1. PICK i \in Kind : \A j \in Kind : Has(g, j) <=> j = i
  BY DEF ZoneInv, Once
<1>2. \A j \in Kind : Has(g, j) <=> j = k
  BY <1>1
<1>3. /\ Has(g, "free") <=> FreeOf(g) # {}
      /\ Has(g, "block") <=> BlocksOf(g) # {}
      /\ Has(g, "taken") <=> TakersOf(g) # {}
      /\ Has(g, "pcp") <=> g \in pcp
      /\ Has(g, "claimed") <=> g \in claimed
  BY DEF Has
<1>4. "free" \in Kind /\ "block" \in Kind /\ "taken" \in Kind /\ "pcp" \in Kind /\ "claimed" \in Kind
  BY DEF Kind
<1> QED
  BY <1>2, <1>3, <1>4

(* What moves, told by the parties. *)
LEMMA MovesBy ==
  ASSUME NEW S \in SUBSET Frame, NEW a \in Kind, NEW b \in Kind,
         \A g \in S :
           /\ Has(g, a)
           /\ FreeOf(g)' # {} <=> b = "free"
           /\ BlocksOf(g)' # {} <=> b = "block"
           /\ TakersOf(g)' # {} <=> b = "taken"
           /\ g \in pcp' <=> b = "pcp"
           /\ g \in claimed' <=> b = "claimed",
         \A g \in Frame \ S :
           /\ FreeOf(g)' = {} <=> FreeOf(g) = {}
           /\ BlocksOf(g)' = {} <=> BlocksOf(g) = {}
           /\ TakersOf(g)' = {} <=> TakersOf(g) = {}
           /\ g \in pcp' <=> g \in pcp
           /\ g \in claimed' <=> g \in claimed
  PROVE  Moves(S, a, b)
<1>1. ASSUME NEW g \in S, NEW j \in Kind PROVE Has(g, j)' <=> j = b
  BY DEF Has, Kind
<1>2. ASSUME NEW g \in Frame \ S, NEW j \in Kind PROVE Has(g, j)' <=> Has(g, j)
  BY DEF Has, Kind
<1> QED
  BY <1>1, <1>2 DEF Moves

-----------------------------------------------------------------------------
(* The actions of the claimer.                                             *)

LEMMA CallMoves ==
  ASSUME call \in [Thread -> CallRecord], NEW t \in Thread, NEW r \in CallRecord,
         call' = [call EXCEPT ![t] = r]
  PROVE  /\ call' \in [Thread -> CallRecord]
         /\ call'[t] = r /\ \A u \in Thread \ {t} : call'[u] = call[u]
         /\ \A g : TakersOf(g)' = (TakersOf(g) \ {t})
                       \cup (IF r.pc = "taken" /\ r.page = g THEN {t} ELSE {})
<1>1. call'[t] = r /\ \A u \in Thread \ {t} : call'[u] = call[u]
  OBVIOUS
<1>2. call' \in [Thread -> CallRecord]
  OBVIOUS
<1>3. \A g : TakersOf(g)' = {u \in Thread : call'[u].pc = "taken" /\ call'[u].page = g}
  BY DEF TakersOf
<1>4. \A g : \A u \in Thread : u \in TakersOf(g) <=> call[u].pc = "taken" /\ call[u].page = g
  BY DEF TakersOf
<1>5. \A g : TakersOf(g) \subseteq Thread
  BY DEF TakersOf
<1>6. \A g : TakersOf(g)' = (TakersOf(g) \ {t})
                 \cup (IF r.pc = "taken" /\ r.page = g THEN {t} ELSE {})
  BY <1>1, <1>3, <1>4, <1>5
<1> QED
  BY <1>1, <1>2, <1>6

LEMMA AtRecord ==
  ASSUME NEW pc \in {"idle", "isolated", "free", "taken", "done"}, NEW f \in Frame
  PROVE  /\ [pc |-> pc, page |-> f] \in CallRecord
         /\ [pc |-> pc, page |-> f].pc = pc /\ [pc |-> pc, page |-> f].page = f
BY DEF CallRecord

LEMMA IdleIs == Idle \in CallRecord /\ Idle.pc = "idle" /\ Idle.page = 0
BY Ranges DEF Idle, CallRecord

LEMMA ListsStay ==
  ASSUME ZoneTypes, ListsAgree, list' = list, buddy' = buddy, order' = order, nr_free' = nr_free
  PROVE  list' \in [Order -> [Type -> SUBSET Frame]] /\ ListsAgree'
<1>1. list' \in [Order -> [Type -> SUBSET Frame]]
  BY DEF ZoneTypes
<1>2. ListsAgree'
  <2> SUFFICES ASSUME NEW o \in Order
               PROVE  /\ UNION {list'[o][m] : m \in Type} = {f \in buddy' : order'[f] = o}
                      /\ \A m, n \in Type : m # n => list'[o][m] \cap list'[o][n] = {}
                      /\ nr_free'[o] = Cardinality({f \in buddy' : order'[f] = o})
    BY DEF ListsAgree
  <2>1. /\ UNION {list[o][m] : m \in Type} = {f \in buddy : order[f] = o}
        /\ \A m, n \in Type : m # n => list[o][m] \cap list[o][n] = {}
        /\ nr_free[o] = Cardinality({f \in buddy : order[f] = o})
    BY DEF ListsAgree
  <2>2. /\ {f \in buddy' : order'[f] = o} = {f \in buddy : order[f] = o}
        /\ UNION {list'[o][m] : m \in Type} = UNION {list[o][m] : m \in Type}
    OBVIOUS
  <2> QED
    BY <2>1, <2>2
<1> QED
  BY <1>1, <1>2

(* A step of a thread that neither begins nor ends with a frame cut out of *)
(* a block.                                                                *)
LEMMA ThreadMoves ==
  ASSUME ZoneInv, NEW t \in Thread, NEW r \in CallRecord,
         call' = [call EXCEPT ![t] = r], r.pc # "taken", call[t].pc # "taken",
         list' \in [Order -> [Type -> SUBSET Frame]], ListsAgree',
         isolated' \subseteq Movable,
         UNCHANGED <<buddy, order, nr_free, free_pages, blocks, pcp, claimed, claims>>
  PROVE  ZoneInv' /\ Moves({}, "free", "free")
<1>1. call' \in [Thread -> CallRecord] /\ \A g : TakersOf(g)' = TakersOf(g)
  <2>1. call \in [Thread -> CallRecord]
    BY DEF ZoneInv, ZoneTypes
  <2>2. /\ call' \in [Thread -> CallRecord]
        /\ \A g : TakersOf(g)' = (TakersOf(g) \ {t})
                       \cup (IF r.pc = "taken" /\ r.page = g THEN {t} ELSE {})
    BY <2>1, CallMoves
  <2>3. \A g : t \notin TakersOf(g)
    BY DEF TakersOf
  <2> QED
    BY <2>2, <2>3
<1>2. \A g : FreeOf(g)' = FreeOf(g) /\ BlocksOf(g)' = BlocksOf(g)
  BY DEF FreeOf, BlocksOf
<1>3. ZoneTypes' /\ Aligned' /\ BlocksAligned'
  BY <1>1 DEF ZoneInv, ZoneTypes, Aligned, BlocksAligned
<1>4. FreeSingle' /\ UsersSingle'
  BY <1>1, <1>2, Singles DEF FreeSingle, UsersSingle, Single
<1>5. "free" \in Kind
  BY DEF Kind
<1>6. Moves({}, "free", "free")
  BY <1>1, <1>2, <1>5, MovesBy
<1>7. \A g \in Frame : Once(g)'
  BY <1>4, <1>5, <1>6, OnceMoves DEF ZoneInv
<1> QED
  BY <1>3, <1>6, <1>7 DEF ZoneInv

LEMMA IsolateMoves ==
  ASSUME ZoneInv, NEW t \in Thread, NEW f \in Frame, Isolate(t, f)
  PROVE  ZoneInv' /\ Moves({}, "free", "free")
<1> DEFINE r == [pc |-> "isolated", page |-> f]
<1>1. r \in CallRecord /\ r.pc # "taken"
  BY AtRecord
<1>2. call' = [call EXCEPT ![t] = r] /\ call[t].pc # "taken"
  BY DEF Isolate, At
<1> HIDE DEF r
<1>3. /\ list' \in [Order -> [Type -> SUBSET Frame]] /\ ListsAgree'
      /\ isolated' \subseteq Movable
  <2>1. CASE BlockType(f) = "movable"
    <3>1. isolated' = isolated \cup {Pageblock(f)} /\ MoveFree(Pageblock(f), "isolate")
      BY <2>1 DEF Isolate
    <3>2. Pageblock(f) \in Movable
      BY <2>1 DEF BlockType, Usual
    <3>3. UNCHANGED <<buddy, order, nr_free>> /\ "isolate" \in Type
      BY DEF Isolate, Type
    <3>4. ZoneTypes /\ ListsAgree /\ isolated \subseteq Movable
      BY DEF ZoneInv, ZoneTypes
    <3>5. list' \in [Order -> [Type -> SUBSET Frame]] /\ ListsAgree'
      BY <3>1, <3>3, <3>4, MoveKeeps
    <3> QED
      BY <3>1, <3>2, <3>4, <3>5
  <2>2. CASE BlockType(f) # "movable"
    <3>1. UNCHANGED <<isolated, list, buddy, order, nr_free>>
      BY <2>2 DEF Isolate
    <3> QED
      BY <3>1, ListsStay DEF ZoneInv, ZoneTypes
  <2> QED
    BY <2>1, <2>2
<1>4. UNCHANGED <<buddy, order, nr_free, free_pages, blocks, pcp, claimed, claims>>
  BY DEF Isolate
<1> QED
  BY <1>1, <1>2, <1>3, <1>4, ThreadMoves

LEMMA UnisolateMoves ==
  ASSUME ZoneInv, NEW t \in Thread, Unisolate(t)
  PROVE  ZoneInv' /\ Moves({}, "free", "free")
<1> DEFINE n == Pageblock(call[t].page)
<1>1. Idle \in CallRecord /\ Idle.pc # "taken"
  BY IdleIs
<1>2. call' = [call EXCEPT ![t] = Idle] /\ call[t].pc # "taken"
  BY DEF Unisolate, Return
<1>3. isolated' = isolated \ {n} /\ (IF n \in isolated THEN MoveFree(n, "movable") ELSE UNCHANGED list)
  BY DEF Unisolate
<1> HIDE DEF n
<1>4. UNCHANGED <<buddy, order, nr_free, free_pages, blocks, pcp, claimed, claims>>
  BY DEF Unisolate
<1>5. ZoneTypes /\ ListsAgree /\ isolated \subseteq Movable /\ "movable" \in Type
  BY DEF ZoneInv, ZoneTypes, Type
<1>6. list' \in [Order -> [Type -> SUBSET Frame]] /\ ListsAgree'
  <2>1. CASE n \in isolated
    BY <1>3, <1>4, <1>5, <2>1, MoveKeeps
  <2>2. CASE n \notin isolated
    BY <1>3, <1>4, <1>5, <2>2, ListsStay
  <2> QED
    BY <2>1, <2>2
<1>7. isolated' \subseteq Movable
  BY <1>3, <1>5
<1> QED
  BY <1>1, <1>2, <1>4, <1>6, <1>7, ThreadMoves

(* The looks of a claimer change nothing. *)
LEMMA LookMoves ==
  ASSUME ZoneInv, NEW t \in Thread, IsFree(t) \/ Lost(t)
  PROVE  ZoneInv' /\ Moves({}, "free", "free")
<1> DEFINE r == [pc |-> "free", page |-> call[t].page]
           s == [pc |-> "done", page |-> call[t].page]
<1>1. call[t].page \in Frame
  BY DEF ZoneInv, ZoneTypes, CallRecord
<1>2. r \in CallRecord /\ r.pc # "taken" /\ s \in CallRecord /\ s.pc # "taken"
  BY <1>1, AtRecord
<1>3. call' = [call EXCEPT ![t] = r] \/ call' = [call EXCEPT ![t] = s]
  BY DEF IsFree, Lost, At
<1>4. call[t].pc # "taken"
  BY DEF IsFree, Lost
<1>5. UNCHANGED <<buddy, order, list, nr_free, free_pages, isolated, blocks, pcp, claimed, claims>>
  BY DEF IsFree, Lost, zone
<1> HIDE DEF r, s
<1>6. /\ list' \in [Order -> [Type -> SUBSET Frame]] /\ ListsAgree'
      /\ isolated' \subseteq Movable
  BY <1>5, ListsStay DEF ZoneInv, ZoneTypes
<1> QED
  BY <1>2, <1>3, <1>4, <1>5, <1>6, ThreadMoves

LEMMA FrameSpan ==
  ASSUME NEW f \in Nat
  PROVE  2^0 = 1 /\ Span(f, 0) = {f} /\ f % 2^0 = 0
<1>1. 2^0 = 1
  <2>1. IsFiniteSet({}) /\ Cardinality({}) = 0
    BY FS_EmptySet
  <2>2. Cardinality(SUBSET {}) = 2^0
    BY <2>1, FS_SUBSET
  <2>3. SUBSET {} = {{}}
    OBVIOUS
  <2> QED
    BY <2>2, <2>3, FS_Singleton
<1>2. f .. f + 1 - 1 = {f}
  OBVIOUS
<1> QED
  BY <1>1, <1>2 DEF Span

(* Claims cut the first frame of a block out of it. *)
LEMMA TakeMoves ==
  ASSUME ZoneInv, NEW t \in Thread, NEW f, f = call[t].page, Take(t)
  PROVE  ZoneInv' /\ Moves({f}, "free", "taken")
<1> PICK m : m = PieceType(f)
  OBVIOUS
<1> DEFINE r == [pc |-> "taken", page |-> f]
<1>1. /\ f \in buddy /\ call[t].pc = "free"
      /\ Relist({f}, Rest(f, order[f]), m)
      /\ call' = [call EXCEPT ![t] = r]
      /\ claims' = claims + 1
      /\ UNCHANGED <<free_pages, isolated, blocks, pcp, claimed>>
  BY DEF Take, Takeable, At
<1>2. ZoneTypes /\ Aligned /\ ListsAgree /\ BlocksAligned /\ FreeSingle /\ UsersSingle
  BY Singles DEF ZoneInv
<1>3. f \in Frame /\ f \in Nat /\ order[f] \in Nat /\ order[f] \in Order
  BY <1>1, <1>2, Ranges DEF ZoneTypes
<1>4. m \in Type
  BY DEF PieceType, BlockType, Usual, Type
<1>5. r \in CallRecord /\ r.pc = "taken" /\ r.page = f
  BY <1>3, AtRecord
<1> HIDE DEF r
<1>6. Rest(f, order[f]) = Pieces(f, 0, order[f]) /\ 0 \in Order /\ 0 <= order[f]
  BY <1>3, Ranges, RestPieces
<1>7. Span(f, 0) = {f}
  BY <1>3, FrameSpan
<1>8. /\ buddy' \subseteq Frame /\ order' \in [Frame -> Order]
      /\ list' \in [Order -> [Type -> SUBSET Frame]] /\ nr_free' \in [Order -> Int]
      /\ Aligned' /\ ListsAgree'
      /\ FreeOf(f) = {f} /\ FreeOf(f)' = {}
      /\ \A g \in Frame \ {f} :
           Single(FreeOf(g)') /\ (FreeOf(g)' = {} <=> FreeOf(g) = {})
  <2>1. \A g \in Frame : Single(FreeOf(g))
    BY <1>2 DEF FreeSingle
  <2>2. Relist({f}, Pieces(f, 0, order[f]), m)
    BY <1>1, <1>6
  <2>3. /\ buddy' \subseteq Frame /\ order' \in [Frame -> Order]
        /\ list' \in [Order -> [Type -> SUBSET Frame]] /\ nr_free' \in [Order -> Int]
        /\ Aligned' /\ ListsAgree'
        /\ \A g \in Span(f, 0) : FreeOf(g) = {f} /\ FreeOf(g)' = {}
        /\ \A g \in Frame \ Span(f, 0) :
              Single(FreeOf(g)') /\ (FreeOf(g)' = {} <=> FreeOf(g) = {})
    BY <1>1, <1>2, <1>4, <1>6, <2>1, <2>2, CutKeeps
  <2> QED
    BY <1>7, <2>3
<1>9. /\ call' \in [Thread -> CallRecord]
      /\ \A g : TakersOf(g)' = (TakersOf(g) \ {t}) \cup (IF f = g THEN {t} ELSE {})
      /\ \A g : t \notin TakersOf(g)
  <2>1. call \in [Thread -> CallRecord]
    BY <1>2 DEF ZoneTypes
  <2>2. \A g : t \notin TakersOf(g)
    BY <1>1 DEF TakersOf
  <2>3. /\ call' \in [Thread -> CallRecord]
        /\ \A g : TakersOf(g)' = (TakersOf(g) \ {t})
                    \cup (IF r.pc = "taken" /\ r.page = g THEN {t} ELSE {})
    BY <1>1, <1>5, <2>1, CallMoves
  <2> QED
    BY <1>5, <2>2, <2>3
<1>10. \A g : BlocksOf(g)' = BlocksOf(g)
  BY <1>1 DEF BlocksOf
<1>11. Has(f, "free")
  BY <1>8 DEF Has
<1>12. BlocksOf(f) = {} /\ TakersOf(f) = {} /\ f \notin pcp /\ f \notin claimed
  <2>1. "free" \in Kind
    BY DEF Kind
  <2> QED
    BY <1>3, <1>11, <2>1, NobodyElse
<1>13. /\ TakersOf(f)' = {t} /\ BlocksOf(f)' = {}
       /\ f \notin pcp' /\ f \notin claimed'
       /\ \A g \in Frame \ {f} : TakersOf(g)' = TakersOf(g)
  BY <1>1, <1>9, <1>10, <1>12
<1>14. "free" \in Kind /\ "taken" \in Kind
  BY DEF Kind
<1>15. Moves({f}, "free", "taken")
  <2> SUFFICES /\ {f} \in SUBSET Frame
               /\ \A g \in {f} :
                    /\ Has(g, "free")
                    /\ FreeOf(g)' # {} <=> "taken" = "free"
                    /\ BlocksOf(g)' # {} <=> "taken" = "block"
                    /\ TakersOf(g)' # {} <=> "taken" = "taken"
                    /\ g \in pcp' <=> "taken" = "pcp"
                    /\ g \in claimed' <=> "taken" = "claimed"
               /\ \A g \in Frame \ {f} :
                    /\ FreeOf(g)' = {} <=> FreeOf(g) = {}
                    /\ BlocksOf(g)' = {} <=> BlocksOf(g) = {}
                    /\ TakersOf(g)' = {} <=> TakersOf(g) = {}
                    /\ g \in pcp' <=> g \in pcp
                    /\ g \in claimed' <=> g \in claimed
    BY <1>14, MovesBy
  <2> QED
    BY <1>1, <1>3, <1>8, <1>10, <1>11, <1>13
<1>16. FreeSingle' /\ UsersSingle'
  <2>1. ASSUME NEW g \in Frame
        PROVE  Single(FreeOf(g)') /\ Single(BlocksOf(g)') /\ Single(TakersOf(g)')
    <3>1. Single(BlocksOf(g)) /\ Single(TakersOf(g))
      BY <1>2 DEF UsersSingle
    <3>2. CASE g = f
      BY <1>8, <1>13, <3>2 DEF Single
    <3>3. CASE g # f
      BY <1>8, <1>10, <1>13, <3>1, <3>3 DEF Single
    <3> QED
      BY <3>2, <3>3
  <2> QED
    BY <2>1 DEF FreeSingle, UsersSingle, Single
<1>17. \A g \in Frame : Once(g)'
  BY <1>14, <1>15, <1>16, OnceMoves DEF ZoneInv
<1>18. ZoneTypes' /\ BlocksAligned'
  BY <1>1, <1>2, <1>8, <1>9 DEF ZoneTypes, BlocksAligned
<1> QED
  BY <1>8, <1>15, <1>17, <1>18 DEF ZoneInv

(* What an action has to show. *)
LEMMA Settled ==
  ASSUME ZoneInv, NEW S \in SUBSET Frame, NEW a \in Kind, NEW b \in Kind,
         ZoneTypes', Aligned', ListsAgree', BlocksAligned', FreeSingle', UsersSingle',
         \A g \in S :
           /\ Has(g, a)
           /\ FreeOf(g)' # {} <=> b = "free"
           /\ BlocksOf(g)' # {} <=> b = "block"
           /\ TakersOf(g)' # {} <=> b = "taken"
           /\ g \in pcp' <=> b = "pcp"
           /\ g \in claimed' <=> b = "claimed",
         \A g \in Frame \ S :
           /\ FreeOf(g)' = {} <=> FreeOf(g) = {}
           /\ BlocksOf(g)' = {} <=> BlocksOf(g) = {}
           /\ TakersOf(g)' = {} <=> TakersOf(g) = {}
           /\ g \in pcp' <=> g \in pcp
           /\ g \in claimed' <=> g \in claimed
  PROVE  ZoneInv' /\ Moves(S, a, b)
<1>1. Moves(S, a, b)
  BY MovesBy
<1>2. \A g \in Frame : Once(g)'
  BY <1>1, OnceMoves DEF ZoneInv
<1> QED
  BY <1>1, <1>2 DEF ZoneInv

LEMMA BlockAdded ==
  ASSUME NEW f, NEW o, blocks' = blocks \cup {<<f, o>>}
  PROVE  \A g : BlocksOf(g)' = BlocksOf(g) \cup (IF g \in Span(f, o) THEN {<<f, o>>} ELSE {})
<1>1. \A g : BlocksOf(g)' = {b \in blocks' : g \in Span(b[1], b[2])}
  BY DEF BlocksOf, Span
<1>2. <<f, o>>[1] = f /\ <<f, o>>[2] = o
  OBVIOUS
<1> QED
  BY <1>1, <1>2 DEF BlocksOf

LEMMA BlockGone ==
  ASSUME NEW f, NEW o, blocks' = blocks \ {<<f, o>>}
  PROVE  \A g : BlocksOf(g)' = BlocksOf(g) \ {<<f, o>>}
<1>1. \A g : BlocksOf(g)' = {b \in blocks' : g \in Span(b[1], b[2])}
  BY DEF BlocksOf, Span
<1> QED
  BY <1>1 DEF BlocksOf

(* The order that prep_new_page resets is not one of a free block. *)
LEMMA PrepMoves ==
  ASSUME ZoneInv, NEW t \in Thread, NEW f, f = call[t].page, Prep(t)
  PROVE  ZoneInv' /\ Moves({f}, "taken", "claimed")
<1> DEFINE r == [pc |-> "done", page |-> f]
<1>1. /\ call[t].pc = "taken"
      /\ order' = [order EXCEPT ![f] = 0]
      /\ claimed' = claimed \cup {f}
      /\ call' = [call EXCEPT ![t] = r]
      /\ UNCHANGED <<buddy, list, nr_free, free_pages, isolated, blocks, pcp, claims>>
  BY DEF Prep, At
<1>2. ZoneTypes /\ Aligned /\ ListsAgree /\ BlocksAligned /\ FreeSingle /\ UsersSingle
  BY Singles DEF ZoneInv
<1>3. f \in Frame /\ f \in Nat
  BY <1>2, Ranges DEF ZoneTypes, CallRecord
<1>4. r \in CallRecord /\ r.pc = "done" /\ r.page = f
  BY <1>3, AtRecord
<1> HIDE DEF r
<1>5. "taken" \in Kind /\ "claimed" \in Kind
  BY DEF Kind
<1>6. Has(f, "taken") /\ t \in TakersOf(f)
  BY <1>1 DEF Has, TakersOf
<1>7. FreeOf(f) = {} /\ BlocksOf(f) = {} /\ f \notin pcp /\ f \notin claimed
  BY <1>3, <1>5, <1>6, NobodyElse
<1>8. f \notin buddy
  <2> SUFFICES ASSUME f \in buddy PROVE FALSE
    OBVIOUS
  <2>1. order[f] \in Nat
    BY <1>2, Ranges DEF ZoneTypes
  <2>2. 2^order[f] \in Nat /\ 2^order[f] >= 1
    BY <2>1, PowerNat
  <2>3. f \in Span(f, order[f])
    BY <1>3, <2>2 DEF Span
  <2> QED
    BY <1>7, <2>3 DEF FreeOf
<1>9. \A h \in buddy : order'[h] = order[h]
  BY <1>1, <1>2, <1>8 DEF ZoneTypes
<1>10. /\ call' \in [Thread -> CallRecord]
       /\ \A g : TakersOf(g)' = TakersOf(g) \ {t}
  <2>1. call \in [Thread -> CallRecord]
    BY <1>2 DEF ZoneTypes
  <2>2. /\ call' \in [Thread -> CallRecord]
        /\ \A g : TakersOf(g)' = (TakersOf(g) \ {t})
                    \cup (IF r.pc = "taken" /\ r.page = g THEN {t} ELSE {})
    BY <1>1, <1>4, <2>1, CallMoves
  <2> QED
    BY <1>4, <2>2
<1>11. TakersOf(f)' = {} /\ \A g \in Frame \ {f} : TakersOf(g)' = TakersOf(g)
  <2>1. TakersOf(f) = {t}
    BY <1>2, <1>3, <1>6 DEF UsersSingle, Single
  <2>2. \A g \in Frame \ {f} : t \notin TakersOf(g)
    BY DEF TakersOf
  <2> QED
    BY <1>10, <2>1, <2>2
<1>12. \A g : FreeOf(g)' = FreeOf(g) /\ BlocksOf(g)' = BlocksOf(g)
  BY <1>1, <1>9 DEF FreeOf, BlocksOf, Span
<1>13. Aligned' /\ BlocksAligned'
  BY <1>1, <1>2, <1>9 DEF Aligned, BlocksAligned
<1>14. ListsAgree'
  <2> SUFFICES ASSUME NEW o \in Order
               PROVE  /\ UNION {list'[o][m] : m \in Type} = {h \in buddy' : order'[h] = o}
                      /\ \A m, n \in Type : m # n => list'[o][m] \cap list'[o][n] = {}
                      /\ nr_free'[o] = Cardinality({h \in buddy' : order'[h] = o})
    BY DEF ListsAgree
  <2>1. /\ UNION {list[o][m] : m \in Type} = {h \in buddy : order[h] = o}
        /\ \A m, n \in Type : m # n => list[o][m] \cap list[o][n] = {}
        /\ nr_free[o] = Cardinality({h \in buddy : order[h] = o})
    BY <1>2 DEF ListsAgree
  <2>2. {h \in buddy' : order'[h] = o} = {h \in buddy : order[h] = o}
    BY <1>1, <1>9
  <2>3. UNION {list'[o][m] : m \in Type} = UNION {list[o][m] : m \in Type}
    BY <1>1
  <2> QED
    BY <1>1, <2>1, <2>2, <2>3
<1>15. ZoneTypes'
  BY <1>1, <1>2, <1>3, <1>10, Ranges DEF ZoneTypes
<1>16. FreeSingle' /\ UsersSingle'
  <2>1. ASSUME NEW g \in Frame
        PROVE  Single(FreeOf(g)') /\ Single(BlocksOf(g)') /\ Single(TakersOf(g)')
    BY <1>2, <1>10, <1>12 DEF FreeSingle, UsersSingle, Single
  <2> QED
    BY <2>1 DEF FreeSingle, UsersSingle, Single
<1>17. /\ \A g \in {f} :
            /\ Has(g, "taken")
            /\ FreeOf(g)' # {} <=> "claimed" = "free"
            /\ BlocksOf(g)' # {} <=> "claimed" = "block"
            /\ TakersOf(g)' # {} <=> "claimed" = "taken"
            /\ g \in pcp' <=> "claimed" = "pcp"
            /\ g \in claimed' <=> "claimed" = "claimed"
       /\ \A g \in Frame \ {f} :
            /\ FreeOf(g)' = {} <=> FreeOf(g) = {}
            /\ BlocksOf(g)' = {} <=> BlocksOf(g) = {}
            /\ TakersOf(g)' = {} <=> TakersOf(g) = {}
            /\ g \in pcp' <=> g \in pcp
            /\ g \in claimed' <=> g \in claimed
  BY <1>1, <1>6, <1>7, <1>11, <1>12
<1>18. {f} \in SUBSET Frame
  BY <1>3
<1> QED
  BY <1>5, <1>13, <1>14, <1>15, <1>16, <1>17, <1>18, Settled

-----------------------------------------------------------------------------
(* The actions of the allocator.                                           *)

LEMMA SameCalls ==
  ASSUME call' = call
  PROVE  \A g : TakersOf(g)' = TakersOf(g)
BY DEF TakersOf

LEMMA SameBlocks ==
  ASSUME blocks' = blocks
  PROVE  \A g : BlocksOf(g)' = BlocksOf(g)
BY DEF BlocksOf, Span

LEMMA SameFree ==
  ASSUME buddy' = buddy, order' = order
  PROVE  \A g : FreeOf(g)' = FreeOf(g)
BY DEF FreeOf, Span

(* The frames of a list are blocks of its order. *)
LEMMA ListOrder ==
  ASSUME ZoneInv, NEW k \in Order, NEW m \in Type, NEW f \in list[k][m]
  PROVE  f \in buddy /\ order[f] = k /\ f \in Frame
<1>1. UNION {list[k][n] : n \in Type} = {h \in buddy : order[h] = k}
  BY DEF ZoneInv, ListsAgree
<1>2. f \in UNION {list[k][n] : n \in Type}
  OBVIOUS
<1> QED
  BY <1>1, <1>2 DEF ZoneInv, ZoneTypes

LEMMA KernelAllocMoves ==
  ASSUME ZoneInv, NEW o \in Order, KernelAlloc(o)
  PROVE  ZoneInv' /\ \E f \in Frame :
           /\ Moves(Span(f, o), "free", "block") /\ f \in Frame /\ f + 2^o <= NumFrames
           /\ free_pages' = free_pages - 2^o
<1>1. PICK m \in Type \ {"isolate"}, k \in o .. MaxOrder - 1 : \E f \in list[k][m] :
        /\ Relist({f}, Rest(f, k) \ Rest(f, o), m)
        /\ free_pages' = free_pages - 2^o
        /\ blocks' = blocks \cup {<<f, o>>}
        /\ UNCHANGED <<isolated, pcp, claimed, call, claims>>
  BY DEF KernelAlloc
<1>2. PICK f \in list[k][m] :
        /\ Relist({f}, Rest(f, k) \ Rest(f, o), m)
        /\ free_pages' = free_pages - 2^o
        /\ blocks' = blocks \cup {<<f, o>>}
        /\ UNCHANGED <<isolated, pcp, claimed, call, claims>>
  BY <1>1
<1>3. ZoneTypes /\ Aligned /\ ListsAgree /\ BlocksAligned /\ FreeSingle /\ UsersSingle
  BY Singles DEF ZoneInv
<1>4. k \in Order /\ k \in Nat /\ o \in Nat /\ o <= k /\ m \in Type
  BY Ranges
<1>5. f \in buddy /\ order[f] = k /\ f \in Frame /\ f \in Nat
  BY <1>4, ListOrder, Ranges
<1>6. f % 2^k = 0 /\ f + 2^k <= NumFrames
  BY <1>3, <1>5 DEF Aligned
<1>7. f % 2^o = 0 /\ f + 2^o <= NumFrames
  <2>1. f % 2^o = 0
    BY <1>4, <1>5, <1>6, AlignedLess
  <2>2. o < k => 2^o < 2^k
    BY <1>4, PowerLess
  <2>3. 2^o \in Nat /\ 2^k \in Nat /\ NumFrames \in Nat
    BY <1>4, PowerNat, Ranges
  <2>4. o = k => f + 2^o <= NumFrames
    BY <1>6
  <2>5. o < k => f + 2^o <= NumFrames
    BY <1>5, <1>6, <2>2, <2>3
  <2> QED
    BY <1>4, <2>1, <2>4, <2>5
<1>8. /\ buddy' \subseteq Frame /\ order' \in [Frame -> Order]
      /\ list' \in [Order -> [Type -> SUBSET Frame]] /\ nr_free' \in [Order -> Int]
      /\ Aligned' /\ ListsAgree'
      /\ Span(f, o) \subseteq Frame
      /\ \A g \in Span(f, o) : FreeOf(g) = {f} /\ FreeOf(g)' = {}
      /\ \A g \in Frame \ Span(f, o) :
           Single(FreeOf(g)') /\ (FreeOf(g)' = {} <=> FreeOf(g) = {})
  <2>1. \A g \in Frame : Single(FreeOf(g))
    BY <1>3 DEF FreeSingle
  <2>2. Rest(f, k) \ Rest(f, o) = Pieces(f, o, k)
    BY <1>4, <1>5, RestPieces
  <2>3. Relist({f}, Pieces(f, o, order[f]), m) /\ o <= order[f]
    BY <1>2, <1>4, <1>5, <2>2
  <2> QED
    BY <1>3, <1>4, <1>5, <2>1, <2>3, CutKeeps
<1>9. \A g : BlocksOf(g)' = BlocksOf(g) \cup (IF g \in Span(f, o) THEN {<<f, o>>} ELSE {})
  BY <1>2, BlockAdded
<1>10. \A g : TakersOf(g)' = TakersOf(g)
  BY <1>2, SameCalls
<1>11. "free" \in Kind /\ "block" \in Kind
  BY DEF Kind
<1>12. \A g \in Span(f, o) : /\ Has(g, "free") /\ BlocksOf(g) = {} /\ TakersOf(g) = {}
                             /\ g \notin pcp /\ g \notin claimed
  <2> SUFFICES ASSUME NEW g \in Span(f, o)
               PROVE  /\ Has(g, "free") /\ BlocksOf(g) = {} /\ TakersOf(g) = {}
                      /\ g \notin pcp /\ g \notin claimed
    OBVIOUS
  <2>1. Has(g, "free") /\ g \in Frame
    BY <1>8 DEF Has
  <2> QED
    BY <1>11, <2>1, NobodyElse
<1>13. Aligned' /\ BlocksAligned'
  <2>1. \A b \in blocks : b[1] % 2^b[2] = 0 /\ b[1] + 2^b[2] <= NumFrames
    BY <1>3 DEF BlocksAligned
  <2>2. \A b \in blocks' : b[1] % 2^b[2] = 0 /\ b[1] + 2^b[2] <= NumFrames
    BY <1>2, <1>7, <2>1
  <2> QED
    BY <1>8, <2>2 DEF BlocksAligned
<1>14. ZoneTypes'
  <2>1. 2^o \in Nat
    BY <1>4, PowerNat
  <2>2. free_pages' \in Int
    BY <1>2, <1>3, <2>1 DEF ZoneTypes
  <2> QED
    BY <1>2, <1>3, <1>5, <1>8, <2>2 DEF ZoneTypes
<1>15. FreeSingle' /\ UsersSingle'
  <2>1. ASSUME NEW g \in Frame
        PROVE  Single(FreeOf(g)') /\ Single(BlocksOf(g)') /\ Single(TakersOf(g)')
    <3>1. Single(BlocksOf(g)) /\ Single(TakersOf(g))
      BY <1>3 DEF UsersSingle
    <3>2. CASE g \in Span(f, o)
      BY <1>8, <1>9, <1>10, <1>12, <3>1, <3>2 DEF Single
    <3>3. CASE g \notin Span(f, o)
      BY <1>8, <1>9, <1>10, <3>1, <3>3 DEF Single
    <3> QED
      BY <3>2, <3>3
  <2> QED
    BY <2>1 DEF FreeSingle, UsersSingle, Single
<1>16. /\ \A g \in Span(f, o) :
            /\ Has(g, "free")
            /\ FreeOf(g)' # {} <=> "block" = "free"
            /\ BlocksOf(g)' # {} <=> "block" = "block"
            /\ TakersOf(g)' # {} <=> "block" = "taken"
            /\ g \in pcp' <=> "block" = "pcp"
            /\ g \in claimed' <=> "block" = "claimed"
       /\ \A g \in Frame \ Span(f, o) :
            /\ FreeOf(g)' = {} <=> FreeOf(g) = {}
            /\ BlocksOf(g)' = {} <=> BlocksOf(g) = {}
            /\ TakersOf(g)' = {} <=> TakersOf(g) = {}
            /\ g \in pcp' <=> g \in pcp
            /\ g \in claimed' <=> g \in claimed
  BY <1>2, <1>8, <1>9, <1>10, <1>12
<1>17. ZoneInv' /\ Moves(Span(f, o), "free", "block")
  BY <1>8, <1>11, <1>13, <1>14, <1>15, <1>16, Settled
<1> QED
  BY <1>2, <1>5, <1>7, <1>17

LEMMA PcpAllocMoves ==
  ASSUME ZoneInv, NEW f \in Frame, PcpAlloc(f)
  PROVE  ZoneInv' /\ Moves({f}, "pcp", "block")
<1>1. /\ f \in pcp /\ pcp' = pcp \ {f} /\ blocks' = blocks \cup {<<f, 0>>}
      /\ UNCHANGED <<buddy, order, list, nr_free, free_pages, isolated, claimed, call, claims>>
  BY DEF PcpAlloc, zone
<1>2. ZoneTypes /\ Aligned /\ ListsAgree /\ BlocksAligned /\ FreeSingle /\ UsersSingle
  BY Singles DEF ZoneInv
<1>3. f \in Nat /\ f < NumFrames /\ 0 \in Order /\ NumFrames \in Nat
  BY Ranges
<1>4. 2^0 = 1 /\ Span(f, 0) = {f} /\ f % 2^0 = 0
  BY <1>3, FrameSpan
<1>5. /\ \A g : FreeOf(g)' = FreeOf(g)
      /\ \A g : TakersOf(g)' = TakersOf(g)
      /\ \A g : BlocksOf(g)' = BlocksOf(g) \cup (IF g = f THEN {<<f, 0>>} ELSE {})
  <2>1. \A g : BlocksOf(g)' = BlocksOf(g) \cup (IF g \in Span(f, 0) THEN {<<f, 0>>} ELSE {})
    BY <1>1, BlockAdded
  <2>2. \A g : g \in Span(f, 0) <=> g = f
    BY <1>4
  <2> QED
    BY <1>1, <2>1, <2>2, SameFree, SameCalls
<1>6. "pcp" \in Kind /\ "block" \in Kind
  BY DEF Kind
<1>7. /\ Has(f, "pcp") /\ FreeOf(f) = {} /\ BlocksOf(f) = {} /\ TakersOf(f) = {}
      /\ f \notin claimed
  <2>1. Has(f, "pcp")
    BY <1>1 DEF Has
  <2> QED
    BY <1>6, <2>1, NobodyElse
<1>8. list' \in [Order -> [Type -> SUBSET Frame]] /\ ListsAgree'
  BY <1>1, <1>2, ListsStay
<1>9. Aligned' /\ BlocksAligned'
  <2>1. \A b \in blocks : b[1] % 2^b[2] = 0 /\ b[1] + 2^b[2] <= NumFrames
    BY <1>2 DEF BlocksAligned
  <2>2. f % 2^0 = 0 /\ f + 2^0 <= NumFrames
    BY <1>3, <1>4
  <2>3. ASSUME NEW b \in blocks'
        PROVE  b[1] % 2^b[2] = 0 /\ b[1] + 2^b[2] <= NumFrames
    <3>1. CASE b \in blocks
      BY <2>1, <3>1
    <3>2. CASE b = <<f, 0>>
      <4>1. b[1] = f /\ b[2] = 0
        BY <3>2
      <4> QED
        BY <2>2, <4>1, Zenon
    <3> QED
      BY <1>1, <3>1, <3>2
  <2> QED
    BY <1>1, <1>2, <2>3 DEF Aligned, BlocksAligned
<1>10. ZoneTypes'
  BY <1>1, <1>2, <1>3, <1>8 DEF ZoneTypes
<1>11. FreeSingle' /\ UsersSingle'
  <2>1. ASSUME NEW g \in Frame
        PROVE  Single(FreeOf(g)') /\ Single(BlocksOf(g)') /\ Single(TakersOf(g)')
    <3>1. Single(FreeOf(g)) /\ Single(BlocksOf(g)) /\ Single(TakersOf(g))
      BY <1>2 DEF FreeSingle, UsersSingle
    <3> QED
      BY <1>5, <1>7, <3>1 DEF Single
  <2> QED
    BY <2>1 DEF FreeSingle, UsersSingle, Single
<1>12. /\ \A g \in {f} :
            /\ Has(g, "pcp")
            /\ FreeOf(g)' # {} <=> "block" = "free"
            /\ BlocksOf(g)' # {} <=> "block" = "block"
            /\ TakersOf(g)' # {} <=> "block" = "taken"
            /\ g \in pcp' <=> "block" = "pcp"
            /\ g \in claimed' <=> "block" = "claimed"
       /\ \A g \in Frame \ {f} :
            /\ FreeOf(g)' = {} <=> FreeOf(g) = {}
            /\ BlocksOf(g)' = {} <=> BlocksOf(g) = {}
            /\ TakersOf(g)' = {} <=> TakersOf(g) = {}
            /\ g \in pcp' <=> g \in pcp
            /\ g \in claimed' <=> g \in claimed
  BY <1>1, <1>5, <1>7
<1>13. {f} \in SUBSET Frame
  OBVIOUS
<1> QED
  BY <1>6, <1>8, <1>9, <1>10, <1>11, <1>12, <1>13, Settled

LEMMA KernelFreeMoves ==
  ASSUME ZoneInv, NEW o \in Order, NEW f \in Frame, KernelFree(f, o)
  PROVE  ZoneInv' /\ Moves(Span(f, o), "block", "free") /\ f + 2^o <= NumFrames
<1> PICK m : m = BlockType(f)
  OBVIOUS
<1>1. /\ <<f, o>> \in blocks /\ blocks' = blocks \ {<<f, o>>}
      /\ FreeBlock(f, o, m)
      /\ UNCHANGED <<isolated, pcp, claimed, call, claims>>
  BY DEF KernelFree
<1>2. ZoneTypes /\ Aligned /\ ListsAgree /\ BlocksAligned /\ FreeSingle /\ UsersSingle
  BY Singles DEF ZoneInv
<1>3. m \in Type
  BY DEF BlockType, Usual, Type
<1>4. f % 2^o = 0 /\ f + 2^o <= NumFrames
  <2>1. \A b \in blocks : b[1] % 2^b[2] = 0 /\ b[1] + 2^b[2] <= NumFrames
    BY <1>2 DEF BlocksAligned
  <2>2. <<f, o>>[1] = f /\ <<f, o>>[2] = o
    OBVIOUS
  <2> QED
    BY <1>1, <2>1, <2>2
<1>5. f \in Nat /\ o \in Nat /\ 2^o \in Nat /\ NumFrames \in Nat
  BY Ranges, PowerNat
<1>6. "free" \in Kind /\ "block" \in Kind
  BY DEF Kind
<1>7. \A g \in Span(f, o) :
        /\ g \in Frame /\ <<f, o>> \in BlocksOf(g)
        /\ Has(g, "block") /\ FreeOf(g) = {} /\ TakersOf(g) = {}
        /\ g \notin pcp /\ g \notin claimed
  <2> SUFFICES ASSUME NEW g \in Span(f, o)
               PROVE  /\ g \in Frame /\ <<f, o>> \in BlocksOf(g)
                      /\ Has(g, "block") /\ FreeOf(g) = {} /\ TakersOf(g) = {}
                      /\ g \notin pcp /\ g \notin claimed
    OBVIOUS
  <2>1. g \in Nat /\ g < NumFrames
    BY <1>4, <1>5 DEF Span
  <2>2. g \in Frame
    BY <2>1, Ranges
  <2>3. <<f, o>> \in BlocksOf(g)
    BY <1>1 DEF BlocksOf
  <2>4. Has(g, "block")
    BY <2>3 DEF Has
  <2> QED
    BY <1>6, <2>2, <2>3, <2>4, NobodyElse
<1>8. /\ buddy' \subseteq Frame /\ order' \in [Frame -> Order]
      /\ list' \in [Order -> [Type -> SUBSET Frame]] /\ nr_free' \in [Order -> Int]
      /\ free_pages' = free_pages + 2^o
      /\ Aligned' /\ ListsAgree'
      /\ Span(f, o) \subseteq Frame
      /\ \A g \in Span(f, o) : FreeOf(g)' # {}
      /\ \A g \in Frame : Single(FreeOf(g)')
      /\ \A g \in Frame \ Span(f, o) : FreeOf(g)' = {} <=> FreeOf(g) = {}
  <2>1. \A g \in Frame : Single(FreeOf(g))
    BY <1>2 DEF FreeSingle
  <2>2. \A g \in Span(f, o) : FreeOf(g) = {}
    BY <1>7
  <2> QED
    BY <1>1, <1>2, <1>3, <1>4, <2>1, <2>2, FreeBlockKeeps
<1>9. \A g : TakersOf(g)' = TakersOf(g)
  BY <1>1, SameCalls
<1>10. /\ \A g : BlocksOf(g)' = BlocksOf(g) \ {<<f, o>>}
       /\ \A g \in Span(f, o) : BlocksOf(g)' = {}
       /\ \A g \in Frame \ Span(f, o) : BlocksOf(g)' = BlocksOf(g)
  <2>1. \A g : BlocksOf(g)' = BlocksOf(g) \ {<<f, o>>}
    BY <1>1, BlockGone
  <2>2. \A g \in Span(f, o) : BlocksOf(g) = {<<f, o>>}
    BY <1>2, <1>7 DEF UsersSingle, Single
  <2>3. \A g \in Frame \ Span(f, o) : <<f, o>> \notin BlocksOf(g)
    BY DEF BlocksOf
  <2> QED
    BY <2>1, <2>2, <2>3
<1>11. BlocksAligned'
  BY <1>1, <1>2 DEF BlocksAligned
<1>12. ZoneTypes'
  <2>1. free_pages' \in Int
    BY <1>2, <1>5, <1>8 DEF ZoneTypes
  <2> QED
    BY <1>1, <1>2, <1>8, <2>1 DEF ZoneTypes
<1>13. FreeSingle' /\ UsersSingle'
  <2>1. ASSUME NEW g \in Frame
        PROVE  Single(FreeOf(g)') /\ Single(BlocksOf(g)') /\ Single(TakersOf(g)')
    BY <1>2, <1>8, <1>9, <1>10 DEF UsersSingle, Single
  <2> QED
    BY <2>1 DEF FreeSingle, UsersSingle, Single
<1>14. /\ \A g \in Span(f, o) :
            /\ Has(g, "block")
            /\ FreeOf(g)' # {} <=> "free" = "free"
            /\ BlocksOf(g)' # {} <=> "free" = "block"
            /\ TakersOf(g)' # {} <=> "free" = "taken"
            /\ g \in pcp' <=> "free" = "pcp"
            /\ g \in claimed' <=> "free" = "claimed"
       /\ \A g \in Frame \ Span(f, o) :
            /\ FreeOf(g)' = {} <=> FreeOf(g) = {}
            /\ BlocksOf(g)' = {} <=> BlocksOf(g) = {}
            /\ TakersOf(g)' = {} <=> TakersOf(g) = {}
            /\ g \in pcp' <=> g \in pcp
            /\ g \in claimed' <=> g \in claimed
  BY <1>1, <1>7, <1>8, <1>9, <1>10
<1>15. ZoneInv' /\ Moves(Span(f, o), "block", "free")
  BY <1>6, <1>8, <1>11, <1>12, <1>13, <1>14, Settled
<1> QED
  BY <1>4, <1>15

(* A single frame that goes straight back to the free lists. *)
LEMMA FrameFreed ==
  ASSUME ZoneInv, NEW f \in Frame, NEW a \in {"pcp", "claimed"}, NEW m \in Type,
         a = "pcp" => f \in pcp, a = "claimed" => f \in claimed,
         FreeBlock(f, 0, m),
         pcp' = IF a = "pcp" THEN pcp \ {f} ELSE pcp,
         claimed' = IF a = "claimed" THEN claimed \ {f} ELSE claimed,
         UNCHANGED <<isolated, blocks, call, claims>>
  PROVE  ZoneInv' /\ Moves({f}, a, "free") /\ free_pages' = free_pages + 1
<1>1. ZoneTypes /\ Aligned /\ ListsAgree /\ BlocksAligned /\ FreeSingle /\ UsersSingle
  BY Singles DEF ZoneInv
<1>2. f \in Nat /\ f < NumFrames /\ 0 \in Order /\ NumFrames \in Nat
  BY Ranges
<1>3. 2^0 = 1 /\ Span(f, 0) = {f} /\ f % 2^0 = 0
  BY <1>2, FrameSpan
<1>4. f + 2^0 <= NumFrames
  BY <1>2, <1>3
<1>5. "free" \in Kind /\ a \in Kind
  BY DEF Kind
<1>6. /\ Has(f, a) /\ FreeOf(f) = {} /\ BlocksOf(f) = {} /\ TakersOf(f) = {}
      /\ a # "pcp" => f \notin pcp
      /\ a # "claimed" => f \notin claimed
  <2>1. Has(f, a)
    BY DEF Has
  <2>2. a # "free" /\ a # "block" /\ a # "taken"
    OBVIOUS
  <2> QED
    BY <1>5, <2>1, <2>2, NobodyElse
<1>7. /\ buddy' \subseteq Frame /\ order' \in [Frame -> Order]
      /\ list' \in [Order -> [Type -> SUBSET Frame]] /\ nr_free' \in [Order -> Int]
      /\ free_pages' = free_pages + 2^0
      /\ Aligned' /\ ListsAgree'
      /\ FreeOf(f)' # {}
      /\ \A g \in Frame : Single(FreeOf(g)')
      /\ \A g \in Frame \ {f} : FreeOf(g)' = {} <=> FreeOf(g) = {}
  <2>1. \A g \in Frame : Single(FreeOf(g))
    BY <1>1 DEF FreeSingle
  <2>2. \A g \in Span(f, 0) : FreeOf(g) = {}
    BY <1>3, <1>6
  <2>3. /\ buddy' \subseteq Frame /\ order' \in [Frame -> Order]
        /\ list' \in [Order -> [Type -> SUBSET Frame]] /\ nr_free' \in [Order -> Int]
        /\ free_pages' = free_pages + 2^0
        /\ Aligned' /\ ListsAgree'
        /\ \A g \in Span(f, 0) : FreeOf(g)' # {}
        /\ \A g \in Frame : Single(FreeOf(g)')
        /\ \A g \in Frame \ Span(f, 0) : FreeOf(g)' = {} <=> FreeOf(g) = {}
    BY <1>1, <1>2, <1>3, <1>4, <2>1, <2>2, FreeBlockKeeps
  <2> QED
    BY <1>3, <2>3
<1>8. \A g : TakersOf(g)' = TakersOf(g) /\ BlocksOf(g)' = BlocksOf(g)
  BY SameCalls, SameBlocks
<1>9. BlocksAligned'
  BY <1>1 DEF BlocksAligned
<1>10. free_pages' = free_pages + 1 /\ free_pages' \in Int
  BY <1>1, <1>3, <1>7 DEF ZoneTypes
<1>11. ZoneTypes'
  BY <1>1, <1>7, <1>10 DEF ZoneTypes
<1>12. FreeSingle' /\ UsersSingle'
  <2>1. ASSUME NEW g \in Frame
        PROVE  Single(FreeOf(g)') /\ Single(BlocksOf(g)') /\ Single(TakersOf(g)')
    BY <1>1, <1>7, <1>8 DEF UsersSingle, Single
  <2> QED
    BY <2>1 DEF FreeSingle, UsersSingle, Single
<1>13. /\ \A g \in {f} :
            /\ Has(g, a)
            /\ FreeOf(g)' # {} <=> "free" = "free"
            /\ BlocksOf(g)' # {} <=> "free" = "block"
            /\ TakersOf(g)' # {} <=> "free" = "taken"
            /\ g \in pcp' <=> "free" = "pcp"
            /\ g \in claimed' <=> "free" = "claimed"
       /\ \A g \in Frame \ {f} :
            /\ FreeOf(g)' = {} <=> FreeOf(g) = {}
            /\ BlocksOf(g)' = {} <=> BlocksOf(g) = {}
            /\ TakersOf(g)' = {} <=> TakersOf(g) = {}
            /\ g \in pcp' <=> g \in pcp
            /\ g \in claimed' <=> g \in claimed
  BY <1>6, <1>7, <1>8
<1>14. {f} \in SUBSET Frame
  OBVIOUS
<1>15. ZoneInv' /\ Moves({f}, a, "free")
  BY <1>5, <1>7, <1>9, <1>11, <1>12, <1>13, <1>14, Settled
<1> QED
  BY <1>10, <1>15

LEMMA PcpDrainMoves ==
  ASSUME ZoneInv, NEW f \in Frame, PcpDrain(f)
  PROVE  ZoneInv' /\ Moves({f}, "pcp", "free") /\ free_pages' = free_pages + 1
<1> PICK m : m = Usual(f)
  OBVIOUS
<1>1. /\ f \in pcp /\ pcp' = pcp \ {f} /\ FreeBlock(f, 0, m)
      /\ UNCHANGED <<isolated, blocks, claimed, call, claims>>
  BY DEF PcpDrain
<1>2. m \in Type
  BY DEF Usual, Type
<1> QED
  BY <1>1, <1>2, FrameFreed

(* What a frame of a status becomes when it is put. *)
LEMMA PutMoves ==
  ASSUME ZoneInv, NEW f \in Frame, Put(f)
  PROVE  ZoneInv' /\ \/ Moves({f}, "claimed", "free") /\ free_pages' = free_pages + 1
                     \/ Moves({f}, "claimed", "pcp") /\ UNCHANGED zone
<1>1. /\ f \in claimed /\ claimed' = claimed \ {f}
      /\ UNCHANGED <<isolated, blocks, call, claims>>
      /\ \/ FreeBlock(f, 0, "isolate") /\ UNCHANGED pcp
         \/ pcp' = pcp \cup {f} /\ UNCHANGED zone
  BY DEF Put, PutFrame
<1>2. CASE FreeBlock(f, 0, "isolate") /\ UNCHANGED pcp
  <2>1. "isolate" \in Type
    BY DEF Type
  <2> QED
    BY <1>1, <1>2, <2>1, FrameFreed
<1>3. CASE pcp' = pcp \cup {f} /\ UNCHANGED zone
  <2>1. ZoneTypes /\ Aligned /\ ListsAgree /\ BlocksAligned /\ FreeSingle /\ UsersSingle
    BY Singles DEF ZoneInv
  <2>2. UNCHANGED <<buddy, order, list, nr_free, free_pages>>
    BY <1>3 DEF zone
  <2>3. \A g : FreeOf(g)' = FreeOf(g) /\ TakersOf(g)' = TakersOf(g) /\ BlocksOf(g)' = BlocksOf(g)
    BY <1>1, <2>2, SameFree, SameCalls, SameBlocks
  <2>4. "claimed" \in Kind /\ "pcp" \in Kind
    BY DEF Kind
  <2>5. /\ Has(f, "claimed") /\ FreeOf(f) = {} /\ BlocksOf(f) = {} /\ TakersOf(f) = {}
        /\ f \notin pcp
    <3>1. Has(f, "claimed")
      BY <1>1 DEF Has
    <3> QED
      BY <2>4, <3>1, NobodyElse
  <2>6. list' \in [Order -> [Type -> SUBSET Frame]] /\ ListsAgree'
    BY <2>1, <2>2, ListsStay
  <2>7. ZoneTypes' /\ Aligned' /\ BlocksAligned'
    BY <1>1, <1>3, <2>1, <2>2, <2>6 DEF ZoneTypes, Aligned, BlocksAligned
  <2>8. FreeSingle' /\ UsersSingle'
    BY <2>1, <2>3 DEF FreeSingle, UsersSingle, Single
  <2>9. /\ \A g \in {f} :
             /\ Has(g, "claimed")
             /\ FreeOf(g)' # {} <=> "pcp" = "free"
             /\ BlocksOf(g)' # {} <=> "pcp" = "block"
             /\ TakersOf(g)' # {} <=> "pcp" = "taken"
             /\ g \in pcp' <=> "pcp" = "pcp"
             /\ g \in claimed' <=> "pcp" = "claimed"
        /\ \A g \in Frame \ {f} :
             /\ FreeOf(g)' = {} <=> FreeOf(g) = {}
             /\ BlocksOf(g)' = {} <=> BlocksOf(g) = {}
             /\ TakersOf(g)' = {} <=> TakersOf(g) = {}
             /\ g \in pcp' <=> g \in pcp
             /\ g \in claimed' <=> g \in claimed
    BY <1>1, <1>3, <2>3, <2>5
  <2>10. {f} \in SUBSET Frame
    OBVIOUS
  <2>11. ZoneInv' /\ Moves({f}, "claimed", "pcp")
    BY <2>4, <2>6, <2>7, <2>8, <2>9, <2>10, Settled
  <2> QED
    BY <1>3, <2>11
<1> QED
  BY <1>1, <1>2, <1>3

-----------------------------------------------------------------------------
(* The invariant holds.                                                    *)

LEMMA BlocksFit ==
  ASSUME NEW h \in Frame, h % 2^(MaxOrder - 1) = 0
  PROVE  h + 2^(MaxOrder - 1) <= NumFrames
<1> PICK j \in Nat : j = MaxOrder - 1
  BY Ranges
<1> PICK N \in Nat : N = NumFrames
  BY Ranges
<1> DEFINE m == 2^j
           p == Number(N, j)
           q == Number(h, j)
<1>1. m \in Nat \ {0} /\ h \in Nat /\ h < N
  BY PowerNat, Ranges
<1>2. N % 2^j = 0 /\ h % 2^j = 0
  BY WholeBlocks
<1>3. N = p * m /\ h = q * m /\ p \in Nat /\ q \in Nat
  BY <1>1, <1>2, AlignedNumber, NumberOf
<1> HIDE DEF p, q
<1>4. m = 2^j
  OBVIOUS
<1> HIDE DEF m
<1>5. q < p
  <2>1. \A a, b \in Nat : 0 <= a * b
    BY Z3
  <2>2. CASE p <= q
    <3>1. PICK d \in Nat : q = p + d
      <4>1. q - p \in Nat /\ q = p + (q - p)
        BY <1>3, <2>2
      <4> QED
        BY <4>1
    <3>2. q * m = p * m + d * m /\ 0 <= d * m /\ d * m \in Nat /\ p * m \in Nat
      BY <1>1, <1>3, <2>1, <3>1
    <3> QED
      BY <1>1, <1>3, <3>2
  <2> QED
    BY <1>3, <2>2
<1>6. h + m <= N
  <2>1. PICK d \in Nat : p = q + 1 + d
    <3>1. p - q - 1 \in Nat /\ p = q + 1 + (p - q - 1)
      BY <1>3, <1>5
    <3> QED
      BY <3>1
  <2>2. \A a, b \in Nat : 0 <= a * b
    BY Z3
  <2>3. p * m = q * m + m + d * m /\ 0 <= d * m /\ d * m \in Nat /\ q * m \in Nat
    BY <1>1, <1>3, <2>1, <2>2
  <2> QED
    BY <1>1, <1>3, <2>3
<1> QED
  BY <1>4, <1>6

LEMMA ZoneInit ==
  ASSUME Init
  PROVE  ZoneInv
<1> PICK j \in Nat : j = MaxOrder - 1
  BY Ranges
<1>1. /\ buddy = {f \in Frame : f % 2^j = 0}
      /\ order = [f \in Frame |-> IF f \in buddy THEN j ELSE 0]
      /\ isolated = {}
      /\ list = [o \in Order |-> [m \in Type |->
                   {f \in buddy : order[f] = o /\ BlockType(f) = m}]]
      /\ nr_free = [o \in Order |-> Cardinality({f \in buddy : order[f] = o})]
      /\ free_pages = NumFrames
      /\ blocks = {} /\ pcp = {} /\ claimed = {}
      /\ call = [t \in Thread |-> Idle]
      /\ claims = 0
  BY DEF Init
<1>2. j \in Order /\ 0 \in Order
  BY Ranges
<1>3. buddy \subseteq Frame /\ order \in [Frame -> Order] /\ \A f \in buddy : order[f] = j
  BY <1>1, <1>2
<1>4. ASSUME NEW o \in Order PROVE Cardinality({f \in buddy : order[f] = o}) \in Nat
  <2>1. {f \in buddy : order[f] = o} \in SUBSET Frame
    BY <1>3
  <2> QED
    BY <2>1, Ranges, FS_Subset, FS_CardinalityType
<1>5. nr_free \in [Order -> Int]
  <2> DEFINE c(o) == Cardinality({f \in buddy : order[f] = o})
  <2>1. \A o \in Order : c(o) \in Nat
    BY <1>4
  <2>2. nr_free = [o \in Order |-> c(o)]
    BY <1>1
  <2> HIDE DEF c
  <2> QED
    BY <2>1, <2>2
<1>6. list \in [Order -> [Type -> SUBSET Frame]]
  BY <1>1, <1>3
<1>7. ZoneTypes
  <2>1. call \in [Thread -> CallRecord]
    BY <1>1, IdleIs
  <2>2. free_pages \in Int /\ claims \in Nat
    BY <1>1, Ranges
  <2> QED
    BY <1>1, <1>3, <1>5, <1>6, <2>1, <2>2 DEF ZoneTypes
<1>8. Aligned
  <2>1. ASSUME NEW h \in buddy PROVE h % 2^order[h] = 0 /\ h + 2^order[h] <= NumFrames
    <3>1. order[h] = j /\ h % 2^j = 0 /\ h \in Frame
      BY <1>1, <1>3
    <3>2. h + 2^j <= NumFrames
      BY <3>1, BlocksFit
    <3> QED
      BY <3>1, <3>2
  <2> QED
    BY <2>1 DEF Aligned
<1>9. ListsAgree
  <2> SUFFICES ASSUME NEW o \in Order
               PROVE  /\ UNION {list[o][m] : m \in Type} = {f \in buddy : order[f] = o}
                      /\ \A m, n \in Type : m # n => list[o][m] \cap list[o][n] = {}
                      /\ nr_free[o] = Cardinality({f \in buddy : order[f] = o})
    BY DEF ListsAgree
  <2>1. \A m \in Type : list[o][m] = {f \in buddy : order[f] = o /\ BlockType(f) = m}
    BY <1>1
  <2>2. \A f : BlockType(f) \in Type
    BY DEF BlockType, Usual, Type
  <2>3. UNION {list[o][m] : m \in Type} = {f \in buddy : order[f] = o}
    BY <2>1, <2>2
  <2>4. \A m, n \in Type : m # n => list[o][m] \cap list[o][n] = {}
    BY <2>1
  <2>5. nr_free[o] = Cardinality({f \in buddy : order[f] = o})
    BY <1>1
  <2> QED
    BY <2>3, <2>4, <2>5
<1>10. BlocksAligned
  BY <1>1 DEF BlocksAligned
<1>11. ASSUME NEW g \in Frame PROVE Once(g)
  <2>1. g \in Nat /\ Base(g, j) \in Nat /\ Base(g, j) <= g /\ Base(g, j) % 2^j = 0
    BY Ranges, NumberOf
  <2>2. Base(g, j) \in buddy
    BY <1>1, <2>1, Ranges
  <2>3. \A h \in buddy : h \in FreeOf(g) <=> h = Base(g, j)
    <3> SUFFICES ASSUME NEW h \in buddy PROVE h \in FreeOf(g) <=> h = Base(g, j)
      OBVIOUS
    <3>1. h \in Nat /\ h % 2^j = 0 /\ order[h] = j
      BY <1>1, <1>3, Ranges
    <3>2. g \in Span(h, j) <=> Base(g, j) = h
      BY <2>1, <3>1, InSpan
    <3> QED
      BY <3>1, <3>2 DEF FreeOf
  <2>4. FreeOf(g) = {Base(g, j)}
    BY <2>2, <2>3 DEF FreeOf
  <2>5. BlocksOf(g) = {} /\ TakersOf(g) = {}
    BY <1>1, IdleIs DEF BlocksOf, TakersOf
  <2>6. Single(FreeOf(g)) /\ Single(BlocksOf(g)) /\ Single(TakersOf(g))
    BY <2>4, <2>5 DEF Single
  <2>7. \A i \in Kind : Has(g, i) <=> i = "free"
    BY <1>1, <2>4, <2>5 DEF Has, Kind
  <2>8. "free" \in Kind
    BY DEF Kind
  <2> QED
    BY <2>6, <2>7, <2>8 DEF Once
<1> QED
  BY <1>7, <1>8, <1>9, <1>10, <1>11 DEF ZoneInv
(* What a step does with the frames, and with the counts of free ones.     *)
Step(S, a, b) ==
  /\ Moves(S, a, b)
  /\ \/ /\ a = "free" /\ b = "free" /\ S = {}
        /\ free_pages' = free_pages /\ claims' = claims
     \/ /\ a = "free" /\ b = "taken" /\ (\E f \in Frame : S = {f})
        /\ free_pages' = free_pages /\ claims' = claims + 1
     \/ /\ (a = "taken" /\ b = "claimed") \/ (a = "claimed" /\ b = "pcp") \/ (a = "pcp" /\ b = "block")
        /\ free_pages' = free_pages /\ claims' = claims
     \/ /\ a = "free" /\ b = "block"
        /\ \E f \in Frame, o \in Order : S = Span(f, o) /\ free_pages' = free_pages - 2^o
        /\ claims' = claims
     \/ /\ a \in {"block", "pcp", "claimed"} /\ b = "free"
        /\ \E f \in Frame, o \in Order : S = Span(f, o) /\ free_pages' = free_pages + 2^o
        /\ claims' = claims

LEMMA ZoneNext ==
  ASSUME ZoneInv, Next
  PROVE  ZoneInv' /\ \E S \in SUBSET Frame, a, b \in Kind : Step(S, a, b)
<1> DEFINE Goal == ZoneInv' /\ \E S \in SUBSET Frame, a, b \in Kind : Step(S, a, b)
<1>1. "free" \in Kind /\ "taken" \in Kind /\ "claimed" \in Kind /\ "pcp" \in Kind /\ "block" \in Kind
  BY DEF Kind
<1>2. ASSUME NEW t \in Thread, (\E f \in Frame : Isolate(t, f)) \/ IsFree(t) \/ Lost(t) \/ Unisolate(t)
      PROVE  Goal
  <2>1. ZoneInv' /\ Moves({}, "free", "free")
    BY <1>2, IsolateMoves, LookMoves, UnisolateMoves
  <2>2. free_pages' = free_pages /\ claims' = claims
    BY <1>2 DEF Isolate, IsFree, Lost, Unisolate, zone
  <2>3. Step({}, "free", "free")
    BY <2>1, <2>2 DEF Step
  <2> QED
    BY <1>1, <2>1, <2>3
<1>3. ASSUME NEW t \in Thread, Take(t) PROVE Goal
  <2>1. PICK f : f = call[t].page
    OBVIOUS
  <2>2. ZoneInv' /\ Moves({f}, "free", "taken")
    BY <1>3, <2>1, TakeMoves
  <2>3. f \in Frame
    BY <2>1 DEF ZoneInv, ZoneTypes, CallRecord
  <2>4. free_pages' = free_pages /\ claims' = claims + 1
    BY <1>3 DEF Take
  <2>5. Step({f}, "free", "taken")
    BY <2>2, <2>3, <2>4 DEF Step
  <2> QED
    BY <1>1, <2>2, <2>3, <2>5
<1>4. ASSUME NEW t \in Thread, Prep(t) PROVE Goal
  <2>1. PICK f : f = call[t].page
    OBVIOUS
  <2>2. ZoneInv' /\ Moves({f}, "taken", "claimed")
    BY <1>4, <2>1, PrepMoves
  <2>3. f \in Frame
    BY <2>1 DEF ZoneInv, ZoneTypes, CallRecord
  <2>4. free_pages' = free_pages /\ claims' = claims
    BY <1>4 DEF Prep
  <2>5. Step({f}, "taken", "claimed")
    BY <2>2, <2>4 DEF Step
  <2> QED
    BY <1>1, <2>2, <2>3, <2>5
<1>5. \A f \in Frame : Span(f, 0) = {f} /\ 2^0 = 1
  BY FrameSpan, Ranges
<1>6. ASSUME NEW f \in Frame, NEW a \in {"pcp", "claimed"},
             ZoneInv', Moves({f}, a, "free"), free_pages' = free_pages + 1, claims' = claims
      PROVE  Goal
  <2>1. 0 \in Order /\ {f} = Span(f, 0) /\ free_pages' = free_pages + 2^0
    BY <1>5, <1>6, Ranges
  <2>2. \E h \in Frame, o \in Order : {f} = Span(h, o) /\ free_pages' = free_pages + 2^o
    BY <2>1, Zenon
  <2>3. Step({f}, a, "free")
    BY <1>6, <2>2 DEF Step
  <2> QED
    BY <1>1, <1>6, <2>3
<1>7. ASSUME NEW f \in Frame, Put(f) PROVE Goal
  <2>1. claims' = claims
    BY <1>7 DEF Put
  <2>2. ZoneInv'
    BY <1>7, PutMoves
  <2>3. CASE Moves({f}, "claimed", "free") /\ free_pages' = free_pages + 1
    BY <1>6, <2>1, <2>2, <2>3
  <2>4. CASE Moves({f}, "claimed", "pcp") /\ UNCHANGED zone
    <3>1. Step({f}, "claimed", "pcp")
      BY <2>1, <2>4 DEF Step, zone
    <3> QED
      BY <1>1, <2>2, <3>1
  <2> QED
    BY <1>7, <2>3, <2>4, PutMoves
<1>8. ASSUME NEW f \in Frame, PcpDrain(f) PROVE Goal
  <2>1. claims' = claims
    BY <1>8 DEF PcpDrain
  <2> QED
    BY <1>6, <1>8, <2>1, PcpDrainMoves
<1>9. ASSUME NEW f \in Frame, PcpAlloc(f) PROVE Goal
  <2>1. claims' = claims /\ free_pages' = free_pages
    BY <1>9 DEF PcpAlloc, zone
  <2>2. ZoneInv' /\ Moves({f}, "pcp", "block")
    BY <1>9, PcpAllocMoves
  <2>3. Step({f}, "pcp", "block")
    BY <2>1, <2>2 DEF Step
  <2> QED
    BY <1>1, <2>2, <2>3
<1>10. ASSUME NEW o \in Order, KernelAlloc(o) PROVE Goal
  <2>1. claims' = claims
    BY <1>10 DEF KernelAlloc
  <2>2. ZoneInv'
    BY <1>10, KernelAllocMoves
  <2>3. PICK f \in Frame : Moves(Span(f, o), "free", "block") /\ free_pages' = free_pages - 2^o
    BY <1>10, KernelAllocMoves
  <2>4. Step(Span(f, o), "free", "block") /\ Span(f, o) \in SUBSET Frame
    BY <2>1, <2>3 DEF Step, Moves
  <2> QED
    BY <1>1, <2>2, <2>4
<1>11. ASSUME NEW o \in Order, NEW f \in Frame, KernelFree(f, o) PROVE Goal
  <2>1. claims' = claims /\ free_pages' = free_pages + 2^o
    BY <1>11 DEF KernelFree, FreeBlock
  <2>2. ZoneInv' /\ Moves(Span(f, o), "block", "free")
    BY <1>11, KernelFreeMoves
  <2>3. Step(Span(f, o), "block", "free") /\ Span(f, o) \in SUBSET Frame
    BY <2>1, <2>2 DEF Step, Moves
  <2> QED
    BY <1>1, <2>2, <2>3
<1>12. (\E t \in Thread : Claim(t)) \/ (\E f \in Frame : Put(f)) \/ Allocator
  BY DEF Next
<1> SUFFICES Goal
  OBVIOUS
<1> HIDE DEF Goal
<1>13. CASE \E t \in Thread : Claim(t)
  BY <1>2, <1>3, <1>4, <1>13 DEF Claim
<1>14. CASE Allocator
  BY <1>8, <1>9, <1>10, <1>11, <1>14 DEF Allocator
<1> QED
  BY <1>7, <1>12, <1>13, <1>14

LEMMA ZoneStutters ==
  ASSUME ZoneInv, UNCHANGED vars
  PROVE  ZoneInv' /\ Moves({}, "free", "free")
<1>1. UNCHANGED <<buddy, order, list, nr_free, free_pages, isolated, blocks, pcp, claimed, call,
                  claims>>
  BY DEF vars
<1>2. ZoneTypes /\ Aligned /\ ListsAgree /\ BlocksAligned /\ FreeSingle /\ UsersSingle
  BY Singles DEF ZoneInv
<1>3. \A g : FreeOf(g)' = FreeOf(g) /\ TakersOf(g)' = TakersOf(g) /\ BlocksOf(g)' = BlocksOf(g)
  BY <1>1, SameFree, SameCalls, SameBlocks
<1>4. ListsAgree'
  BY <1>1, <1>2, ListsStay
<1>5. ZoneTypes' /\ Aligned' /\ BlocksAligned'
  BY <1>1, <1>2 DEF ZoneTypes, Aligned, BlocksAligned
<1>6. FreeSingle' /\ UsersSingle'
  BY <1>2, <1>3 DEF FreeSingle, UsersSingle, Single
<1>7. "free" \in Kind
  BY DEF Kind
<1>8. Moves({}, "free", "free")
  BY <1>1, <1>3, <1>7, MovesBy
<1>9. \A g \in Frame : Once(g)'
  BY <1>6, <1>7, <1>8, OnceMoves DEF ZoneInv
<1> QED
  BY <1>4, <1>5, <1>8, <1>9 DEF ZoneInv

LEMMA ZoneHolds == Spec => []ZoneInv
<1>1. Init => ZoneInv
  BY ZoneInit
<1>2. ZoneInv /\ [Next]_vars => ZoneInv'
  BY ZoneNext, ZoneStutters
<1> QED
  BY <1>1, <1>2, PTL DEF Spec

LEMMA SingleCount ==
  ASSUME NEW S, Single(S)
  PROVE  IsFiniteSet(S) /\ Cardinality(S) = IF S = {} THEN 0 ELSE 1
<1>1. CASE S = {}
  BY <1>1, FS_EmptySet
<1>2. CASE S # {}
  <2>1. PICK x \in S : S = {x}
    BY <1>2 DEF Single
  <2> QED
    BY <1>2, <2>1, FS_Singleton
<1> QED
  BY <1>1, <1>2

(* Cutting frames out of free blocks behind the back of the allocator      *)
(* neither loses a frame nor gives it to two, whatever the number of       *)
(* frames, of threads and of orders: every frame of the zone is in one     *)
(* free block, in one block the allocator has handed out, on a per-CPU     *)
(* list, with one claimer or in one status (claim_free_buddy_page,         *)
(* expand__clone, and the allocator's split and merge).                    *)
THEOREM FramesOnce == Spec => []EveryFrameOnce
<1>1. ZoneInv => EveryFrameOnce
  <2> SUFFICES ASSUME ZoneInv, NEW g \in Frame PROVE Holders(g) = 1
    BY DEF EveryFrameOnce
  <2>1. /\ Single(FreeOf(g)) /\ Single(BlocksOf(g)) /\ Single(TakersOf(g))
        /\ \E k \in Kind : \A j \in Kind : Has(g, j) <=> j = k
    BY DEF ZoneInv, Once
  <2>2. PICK k \in Kind : \A j \in Kind : Has(g, j) <=> j = k
    BY <2>1
  <2>3. /\ Cardinality(FreeOf(g)) = IF k = "free" THEN 1 ELSE 0
        /\ Cardinality(BlocksOf(g)) = IF k = "block" THEN 1 ELSE 0
        /\ Cardinality(TakersOf(g)) = IF k = "taken" THEN 1 ELSE 0
        /\ g \in pcp <=> k = "pcp"
        /\ g \in claimed <=> k = "claimed"
    <3>1. /\ "free" \in Kind /\ "block" \in Kind /\ "taken" \in Kind /\ "pcp" \in Kind
          /\ "claimed" \in Kind
      BY DEF Kind
    <3>2. /\ FreeOf(g) # {} <=> k = "free"
          /\ BlocksOf(g) # {} <=> k = "block"
          /\ TakersOf(g) # {} <=> k = "taken"
          /\ g \in pcp <=> k = "pcp"
          /\ g \in claimed <=> k = "claimed"
      BY <2>2, <3>1 DEF Has
    <3>3. /\ Cardinality(FreeOf(g)) = IF FreeOf(g) = {} THEN 0 ELSE 1
          /\ Cardinality(BlocksOf(g)) = IF BlocksOf(g) = {} THEN 0 ELSE 1
          /\ Cardinality(TakersOf(g)) = IF TakersOf(g) = {} THEN 0 ELSE 1
      BY <2>1, SingleCount
    <3> QED
      BY <3>2, <3>3
  <2>4. Holders(g) = Cardinality(FreeOf(g)) + Cardinality(BlocksOf(g)) + Cardinality(TakersOf(g))
                     + (IF g \in pcp THEN 1 ELSE 0) + (IF g \in claimed THEN 1 ELSE 0)
    BY DEF Holders, FreeOf, BlocksOf, TakersOf
  <2>5. k = "free" \/ k = "block" \/ k = "taken" \/ k = "pcp" \/ k = "claimed"
    BY DEF Kind
  <2> QED
    BY <2>3, <2>4, <2>5
<1> QED
  BY <1>1, ZoneHolds, PTL

(* What the allocator relies on survives the claims: a free block is on    *)
(* one list, of its order, nr_free counts the lists, and every free block  *)
(* is aligned to its size and within the zone.                             *)
THEOREM ListsStaySound == Spec => []ListsSound
<1>1. ZoneInv => ListsSound
  BY DEF ZoneInv, ListsSound
<1> QED
  BY <1>1, ZoneHolds, PTL

-----------------------------------------------------------------------------
(* The number of free pages.                                               *)

LEMMA SpanCount ==
  ASSUME NEW f \in Nat, NEW o \in Nat
  PROVE  IsFiniteSet(Span(f, o)) /\ Cardinality(Span(f, o)) = 2^o
<1> PICK m \in Nat \ {0} : m = 2^o
  BY PowerNat
<1>1. Span(f, o) = f .. f + m - 1
  BY DEF Span
<1>2. IsFiniteSet(f .. f + m - 1)
      /\ Cardinality(f .. f + m - 1) = IF f > f + m - 1 THEN 0 ELSE (f + m - 1) - f + 1
  BY FS_Interval
<1> QED
  BY <1>1, <1>2

LEMMA FreeFramesAre == ZoneInv => FreeFrames = {g \in Frame : Has(g, "free")}
<1> SUFFICES ASSUME ZoneInv PROVE FreeFrames = {g \in Frame : Has(g, "free")}
  OBVIOUS
<1>1. \A g : g \in FreeFrames <=> FreeOf(g) # {}
  BY DEF FreeFrames, FreeOf
<1>2. \A g \in FreeFrames : g \in Frame
  <2> SUFFICES ASSUME NEW h \in buddy, NEW g \in Span(h, order[h]) PROVE g \in Frame
    BY DEF FreeFrames
  <2>1. h \in Nat /\ order[h] \in Nat /\ h + 2^order[h] <= NumFrames
    BY Ranges DEF ZoneInv, ZoneTypes, Aligned
  <2>2. 2^order[h] \in Nat
    BY <2>1, PowerNat
  <2>3. g \in Nat /\ g < NumFrames
    BY <2>1, <2>2, Ranges DEF Span
  <2> QED
    BY <2>3, Ranges
<1>3. \A g : Has(g, "free") <=> FreeOf(g) # {}
  BY DEF Has
<1> QED
  BY <1>1, <1>2, <1>3

LEMMA FreeFramesMove ==
  ASSUME ZoneInv, ZoneInv', NEW S \in SUBSET Frame, NEW a \in Kind, NEW b \in Kind, Moves(S, a, b)
  PROVE  /\ IsFiniteSet(S) /\ IsFiniteSet(FreeFrames) /\ IsFiniteSet(FreeFrames')
         /\ Cardinality(FreeFrames') = Cardinality(FreeFrames)
              - (IF a = "free" THEN Cardinality(S) ELSE 0)
              + (IF b = "free" THEN Cardinality(S) ELSE 0)
<1>1. FreeFrames = {g \in Frame : Has(g, "free")}
  BY FreeFramesAre
<1>2. FreeFrames' = {g \in Frame : Has(g, "free")'}
  <2>1. (ZoneInv => FreeFrames = {g \in Frame : Has(g, "free")})'
    BY FreeFramesAre, PTL
  <2> QED
    BY <2>1
<1> PICK F : F = FreeFrames
  OBVIOUS
<1> PICK E : E = FreeFrames'
  OBVIOUS
<1>3. "free" \in Kind
  BY DEF Kind
<1>4. \A g \in S : /\ Has(g, "free")' <=> b = "free"
                   /\ Has(g, "free") <=> a = "free"
  <2> SUFFICES ASSUME NEW g \in S
               PROVE  (Has(g, "free")' <=> b = "free") /\ (Has(g, "free") <=> a = "free")
    OBVIOUS
  <2>1. g \in Frame /\ Has(g, a) /\ \A j \in Kind : Has(g, j)' <=> j = b
    BY DEF Moves
  <2>2. PICK k \in Kind : \A j \in Kind : Has(g, j) <=> j = k
    BY <2>1 DEF ZoneInv, Once
  <2> QED
    BY <1>3, <2>1, <2>2
<1>5. \A g \in Frame \ S : Has(g, "free")' <=> Has(g, "free")
  BY <1>3 DEF Moves
<1>6. /\ F \subseteq Frame /\ E \subseteq Frame
      /\ a = "free" => S \subseteq F
      /\ a # "free" => S \cap F = {}
      /\ b = "free" => E = F \cup S
      /\ b # "free" => E = F \ S
  BY <1>1, <1>2, <1>4, <1>5
<1>7. IsFiniteSet(S) /\ IsFiniteSet(F) /\ IsFiniteSet(E)
  BY <1>6, Ranges, FS_Subset
<1>8. Cardinality(S) \in Nat /\ Cardinality(F) \in Nat
  BY <1>7, FS_CardinalityType
<1>9. Cardinality(S \cap F) = IF a = "free" THEN Cardinality(S) ELSE 0
  <2>1. CASE a = "free"
    <3>1. S \cap F = S
      BY <1>6, <2>1
    <3> QED
      BY <2>1, <3>1
  <2>2. CASE a # "free"
    BY <1>6, <2>2, FS_EmptySet
  <2> QED
    BY <2>1, <2>2
<1>10. S \cap F = F \cap S
  OBVIOUS
<1>11. CASE b = "free"
  <2>1. Cardinality(F \cup S) = Cardinality(F) + Cardinality(S) - Cardinality(F \cap S)
    BY <1>7, FS_Union
  <2>2. Cardinality(E) = Cardinality(F) + Cardinality(S) - Cardinality(S \cap F)
    BY <1>6, <1>10, <1>11, <2>1
  <2>3. Cardinality(E) = Cardinality(F) - (IF a = "free" THEN Cardinality(S) ELSE 0)
                                        + (IF b = "free" THEN Cardinality(S) ELSE 0)
    BY <1>8, <1>9, <1>11, <2>2
  <2> QED
    BY <1>7, <2>3
<1>12. CASE b # "free"
  <2>1. Cardinality(F \ S) = Cardinality(F) - Cardinality(F \cap S)
    BY <1>7, FS_Difference
  <2>2. Cardinality(E) = Cardinality(F) - Cardinality(S \cap F)
    BY <1>6, <1>10, <1>12, <2>1
  <2>3. Cardinality(E) = Cardinality(F) - (IF a = "free" THEN Cardinality(S) ELSE 0)
                                        + (IF b = "free" THEN Cardinality(S) ELSE 0)
    BY <1>8, <1>9, <1>12, <2>2
  <2> QED
    BY <1>7, <2>3
<1> QED
  BY <1>11, <1>12

LEMMA DriftStep ==
  ASSUME ZoneInv, ZoneInv', FreePagesDrift,
         NEW S \in SUBSET Frame, NEW a \in Kind, NEW b \in Kind, Step(S, a, b)
  PROVE  FreePagesDrift'
<1> PICK F : F = Cardinality(FreeFrames)
  OBVIOUS
<1> PICK E : E = Cardinality(FreeFrames')
  OBVIOUS
<1> PICK c : c = Cardinality(S)
  OBVIOUS
<1>1. /\ E = F - (IF a = "free" THEN c ELSE 0) + (IF b = "free" THEN c ELSE 0)
      /\ E \in Nat /\ F \in Nat /\ c \in Nat
  <2>1. Moves(S, a, b)
    BY DEF Step
  <2>2. /\ IsFiniteSet(S) /\ IsFiniteSet(FreeFrames) /\ IsFiniteSet(FreeFrames')
        /\ Cardinality(FreeFrames') = Cardinality(FreeFrames)
              - (IF a = "free" THEN Cardinality(S) ELSE 0)
              + (IF b = "free" THEN Cardinality(S) ELSE 0)
    BY <2>1, FreeFramesMove
  <2> QED
    BY <2>2, FS_CardinalityType
<1>2. free_pages = F + claims /\ free_pages \in Int /\ claims \in Nat
  BY DEF FreePagesDrift, ZoneInv, ZoneTypes
<1>3. ASSUME NEW f \in Frame, NEW o \in Order, S = Span(f, o) PROVE c = 2^o
  BY <1>3, Ranges, SpanCount
<1>4. \A f \in Frame : S = {f} => c = 1
  BY FS_Singleton
<1>5. S = {} => c = 0
  BY FS_EmptySet
<1>6. free_pages' = E + claims'
  <2>1. CASE /\ a = "free" /\ b = "free" /\ S = {}
             /\ free_pages' = free_pages /\ claims' = claims
    BY <1>1, <1>2, <1>5, <2>1
  <2>2. CASE /\ a = "free" /\ b = "taken" /\ (\E f \in Frame : S = {f})
             /\ free_pages' = free_pages /\ claims' = claims + 1
    <3>1. c = 1
      BY <1>4, <2>2
    <3> QED
      BY <1>1, <1>2, <2>2, <3>1
  <2>3. CASE /\ a # "free" /\ b # "free"
             /\ free_pages' = free_pages /\ claims' = claims
    BY <1>1, <1>2, <2>3
  <2>4. CASE /\ a = "free" /\ b = "block"
             /\ \E f \in Frame, o \in Order : S = Span(f, o) /\ free_pages' = free_pages - 2^o
             /\ claims' = claims
    <3>1. free_pages' = free_pages - c
      BY <1>3, <2>4
    <3> QED
      BY <1>1, <1>2, <2>4, <3>1
  <2>5. CASE /\ a # "free" /\ b = "free"
             /\ \E f \in Frame, o \in Order : S = Span(f, o) /\ free_pages' = free_pages + 2^o
             /\ claims' = claims
    <3>1. free_pages' = free_pages + c
      BY <1>3, <2>5
    <3> QED
      BY <1>1, <1>2, <2>5, <3>1
  <2> QED
    BY <2>1, <2>2, <2>3, <2>4, <2>5 DEF Step
<1> QED
  BY <1>6 DEF FreePagesDrift

(* NR_FREE_PAGES is too high by the number of claims ever made, and by     *)
(* nothing else (claim_free_buddy_page decrements nr_free of the order     *)
(* only, free_buddy_page_claiming.c:154): no splitting, merging or         *)
(* draining makes it better or worse.                                      *)
THEOREM DriftIsClaims == Spec => []FreePagesDrift
<1>1. Init => ZoneInv /\ FreePagesDrift
  <2> SUFFICES ASSUME Init PROVE ZoneInv /\ FreePagesDrift
    OBVIOUS
  <2>1. ZoneInv
    BY ZoneInit
  <2>2. \A g \in Frame : Has(g, "free")
    <3> SUFFICES ASSUME NEW g \in Frame PROVE Has(g, "free")
      OBVIOUS
    <3>1. PICK k \in Kind : \A j \in Kind : Has(g, j) <=> j = k
      BY <2>1 DEF ZoneInv, Once
    <3>2. ~Has(g, "block") /\ ~Has(g, "taken") /\ ~Has(g, "pcp") /\ ~Has(g, "claimed")
      BY IdleIs DEF Has, Init, BlocksOf, TakersOf
    <3> QED
      BY <3>1, <3>2 DEF Kind
  <2>3. FreeFrames = Frame
    BY <2>1, <2>2, FreeFramesAre
  <2>4. Cardinality(Frame) = NumFrames
    <3>1. Cardinality(0 .. NumFrames - 1)
            = IF 0 > NumFrames - 1 THEN 0 ELSE (NumFrames - 1) - 0 + 1
      BY Ranges, FS_Interval
    <3> QED
      BY <3>1, Ranges DEF Frame
  <2> QED
    BY <2>1, <2>3, <2>4, Ranges DEF FreePagesDrift, Init
<1>2. ZoneInv /\ FreePagesDrift /\ [Next]_vars => ZoneInv' /\ FreePagesDrift'
  <2> SUFFICES ASSUME ZoneInv, FreePagesDrift, [Next]_vars PROVE ZoneInv' /\ FreePagesDrift'
    OBVIOUS
  <2>1. CASE Next
    BY <2>1, ZoneNext, DriftStep
  <2>2. CASE UNCHANGED vars
    <3>1. ZoneInv' /\ Moves({}, "free", "free")
      BY <2>2, ZoneStutters
    <3>2. Step({}, "free", "free") /\ "free" \in Kind
      BY <2>2, <3>1 DEF Step, vars, Kind
    <3> QED
      BY <3>1, <3>2, DriftStep
  <2> QED
    BY <2>1, <2>2
<1> QED
  BY <1>1, <1>2, PTL DEF Spec

-----------------------------------------------------------------------------
(* Isolation.                                                              *)

(* No pageblock stays isolated, out of reach of the allocator: whichever   *)
(* of several claims in it begins the isolation and whichever ends it, an  *)
(* isolated pageblock has a claim under way (try_claim_free_buddy_page).   *)
THEOREM NoIsolationStays == Spec => []IsolationEnds
<1>1. Init => IsolationEnds
  BY DEF Init, IsolationEnds
<1>2. ASSUME ZoneInv, IsolationEnds, Next PROVE IsolationEnds'
  <2> SUFFICES ASSUME NEW k \in isolated'
               PROVE  \E t \in Thread : call'[t].pc # "idle" /\ Pageblock(call'[t].page) = k
    BY DEF IsolationEnds, Pageblock
  <2>1. call \in [Thread -> CallRecord]
    BY <1>2 DEF ZoneInv, ZoneTypes
  <2>2. \A n \in isolated : \E t \in Thread : call[t].pc # "idle" /\ Pageblock(call[t].page) = n
    BY <1>2 DEF IsolationEnds
  <2>3. ASSUME NEW t \in Thread, NEW pc \in {"isolated", "free", "taken", "done"}, NEW f \in Frame,
               call' = [call EXCEPT ![t] = [pc |-> pc, page |-> f]]
        PROVE  /\ call'[t].pc # "idle" /\ call'[t].page = f
               /\ \A u \in Thread \ {t} : call'[u] = call[u]
    <3> DEFINE r == [pc |-> pc, page |-> f]
    <3>1. r \in CallRecord /\ r.pc = pc /\ r.page = f /\ pc # "idle"
      BY AtRecord
    <3>2. call' = [call EXCEPT ![t] = r]
      BY <2>3
    <3> HIDE DEF r
    <3> QED
      BY <2>1, <3>1, <3>2, CallMoves
  <2>4. ASSUME NEW t \in Thread, \E f \in Frame : Isolate(t, f)
        PROVE  \E u \in Thread : call'[u].pc # "idle" /\ Pageblock(call'[u].page) = k
    <3>1. PICK f \in Frame : Isolate(t, f)
      BY <2>4
    <3>2. /\ call[t].pc = "idle" /\ isolated' \subseteq isolated \cup {Pageblock(f)}
          /\ call' = [call EXCEPT ![t] = [pc |-> "isolated", page |-> f]]
      BY <3>1 DEF Isolate, At
    <3>3. call'[t].pc # "idle" /\ call'[t].page = f /\ \A u \in Thread \ {t} : call'[u] = call[u]
      BY <2>3, <3>2
    <3> QED
      BY <2>2, <3>2, <3>3
  <2>5. ASSUME NEW t \in Thread, IsFree(t) \/ Take(t) \/ Lost(t) \/ Prep(t)
        PROVE  \E u \in Thread : call'[u].pc # "idle" /\ Pageblock(call'[u].page) = k
    <3>1. isolated' = isolated
      BY <2>5 DEF IsFree, Take, Lost, Prep
    <3>2. PICK f \in Frame : f = call[t].page
      BY <2>1 DEF CallRecord
    <3>3. PICK pc \in {"isolated", "free", "taken", "done"} :
             call' = [call EXCEPT ![t] = [pc |-> pc, page |-> f]]
      BY <2>5, <3>2 DEF IsFree, Take, Lost, Prep, At
    <3>4. call'[t].pc # "idle" /\ call'[t].page = f /\ \A u \in Thread \ {t} : call'[u] = call[u]
      BY <2>3, <3>3
    <3> QED
      BY <2>2, <3>1, <3>2, <3>4
  <2>6. ASSUME NEW t \in Thread, Unisolate(t)
        PROVE  \E u \in Thread : call'[u].pc # "idle" /\ Pageblock(call'[u].page) = k
    <3>1. /\ isolated' = isolated \ {Pageblock(call[t].page)}
          /\ call' = [call EXCEPT ![t] = Idle]
      BY <2>6 DEF Unisolate, Return
    <3>2. \A u \in Thread \ {t} : call'[u] = call[u]
      BY <2>1, <3>1
    <3>3. PICK u \in Thread : call[u].pc # "idle" /\ Pageblock(call[u].page) = k
      BY <2>2, <3>1
    <3>4. u # t
      BY <3>1, <3>3
    <3> QED
      BY <3>2, <3>3, <3>4
  <2>7. ASSUME (\E f \in Frame : Put(f)) \/ Allocator
        PROVE  \E u \in Thread : call'[u].pc # "idle" /\ Pageblock(call'[u].page) = k
    <3>1. isolated' = isolated /\ call' = call
      BY <2>7 DEF Put, Allocator, KernelAlloc, KernelFree, PcpDrain, PcpAlloc
    <3> QED
      BY <2>2, <3>1
  <2> QED
    BY <1>2, <2>4, <2>5, <2>6, <2>7 DEF Next, Claim
<1>3. ASSUME IsolationEnds, UNCHANGED vars PROVE IsolationEnds'
  BY <1>3 DEF IsolationEnds, vars, Pageblock
<1>4. ZoneInv /\ IsolationEnds /\ [Next]_vars => IsolationEnds'
  BY <1>2, <1>3
<1> QED
  BY <1>1, <1>4, ZoneHolds, PTL DEF Spec

-----------------------------------------------------------------------------
(* Fragmentation.                                                          *)

(* The pieces of a block are no buddies of each other, as the block itself *)
(* is gone, which is the buddy of each.                                    *)
LEMMA CutMerged ==
  ASSUME ZoneInv, BuddiesMerged, NEW f \in buddy, NEW o \in Order, o <= order[f], NEW m \in Type,
         Relist({f}, Pieces(f, o, order[f]), m)
  PROVE  BuddiesMerged'
<1>1. ZoneTypes /\ Aligned /\ ListsAgree /\ \A g \in Frame : Single(FreeOf(g))
  BY Singles DEF ZoneInv, FreeSingle
<1>2. /\ f \notin buddy'
      /\ \A h \in buddy' : \/ h \in buddy \ {f} /\ order'[h] = order[h]
                           \/ \E j \in o .. order[f] - 1 : h = f + 2^j /\ order'[h] = j
  BY <1>1, CutKeeps
<1> PICK k \in Nat : k = order[f]
  BY <1>1, Ranges DEF ZoneTypes
<1>3. f \in Nat /\ o \in Nat /\ f % 2^k = 0
  BY <1>1, Ranges DEF ZoneTypes, Aligned
<1>4. ASSUME NEW j \in o .. k - 1
      PROVE  j \in Nat /\ f + 2^j \in Nat /\ BuddyOf(f + 2^j, j) = f
  <2>1. j \in Nat /\ j + 1 \in Nat /\ j + 1 <= k /\ j <= k
    BY <1>3
  <2>2. f % 2^(j + 1) = 0 /\ f % 2^j = 0
    BY <1>3, <2>1, AlignedLess
  <2>3. BuddyOf(BuddyOf(f, j), j) = f /\ BuddyOf(f, j) = f + 2^j /\ BuddyOf(f, j) \in Nat
    BY <1>3, <2>1, <2>2, Buddies
  <2> QED
    BY <2>1, <2>3
<1> SUFFICES ASSUME NEW x \in buddy', NEW y \in buddy', NEW i,
                    i = order'[x], i < MaxOrder - 1, y = BuddyOf(x, i), order'[y] = i
             PROVE  FALSE
  BY DEF BuddiesMerged, BuddyOf
<1>5. CASE \E j \in o .. k - 1 : x = f + 2^j /\ order'[x] = j
  BY <1>2, <1>4, <1>5
<1>6. CASE x \in buddy \ {f} /\ order'[x] = order[x]
  <2>1. x \in Nat /\ i \in Nat /\ x % 2^i = 0
    BY <1>1, <1>6, Ranges DEF ZoneTypes, Aligned
  <2>2. CASE y \in buddy \ {f} /\ order'[y] = order[y]
    <3>1. order[x] = i /\ order[y] = i /\ y = BuddyOf(x, order[x]) /\ x \in buddy /\ y \in buddy
      BY <1>6, <2>2
    <3>2. order[x] < MaxOrder - 1 =>
            ~(BuddyOf(x, order[x]) \in buddy /\ order[BuddyOf(x, order[x])] = order[x])
      BY <1>6 DEF BuddiesMerged
    <3>3. order[x] < MaxOrder - 1
      BY <3>1
    <3> QED
      BY <3>1, <3>2, <3>3
  <2>3. CASE \E j \in o .. k - 1 : y = f + 2^j /\ order'[y] = j
    <3>1. y = f + 2^i /\ BuddyOf(y, i) = f
      BY <1>4, <2>3
    <3>2. BuddyOf(y, i) = x
      BY <2>1, Buddies
    <3> QED
      BY <1>6, <3>1, <3>2
  <2> QED
    BY <1>2, <2>2, <2>3
<1> QED
  BY <1>2, <1>5, <1>6

(* The allocator merges as long as there is a buddy. *)
LEMMA MergeMerged ==
  ASSUME ZoneInv, BuddiesMerged,
         NEW f \in Frame, NEW o \in Order, f % 2^o = 0, f + 2^o <= NumFrames,
         \A g \in Span(f, o) : FreeOf(g) = {},
         NEW m \in Type, FreeBlock(f, o, m)
  PROVE  BuddiesMerged'
<1>1. ZoneTypes /\ Aligned /\ ListsAgree /\ \A g \in Frame : Single(FreeOf(g))
  BY Singles DEF ZoneInv, FreeSingle
<1>2. PICK k \in o .. MaxOrder - 1 :
         /\ Mergeable(f, o, k)
         /\ Relist(Merged(f, o, k), {<<Base(f, k), k>>}, m)
         /\ \A i \in o .. MaxOrder - 1 : Mergeable(f, o, i) => i <= k
  BY LargestBlock
<1> PICK B : B = Base(f, k)
  OBVIOUS
<1> PICK gone : gone = Merged(f, o, k)
  OBVIOUS
<1>3. /\ buddy' = (buddy \ gone) \cup {B}
      /\ order'[B] = k
      /\ \A h \in buddy \ gone : order'[h] = order[h]
  <2>1. MergeDone(f, o, k)
    BY <1>1, <1>2, MergeKeeps
  <2>2. /\ buddy' = (buddy \ Merged(f, o, k)) \cup {Base(f, k)}
        /\ order'[Base(f, k)] = k
        /\ \A h \in buddy \ Merged(f, o, k) : order'[h] = order[h]
    BY <2>1 DEF MergeDone
  <2> QED
    BY <2>2
<1>4. f \in Nat /\ o \in Nat /\ k \in Nat /\ MaxOrder \in Nat
  BY Ranges
<1>5. B \in Nat /\ B % 2^k = 0
  BY <1>4, NumberOf
<1>6. ASSUME NEW y \in buddy \ gone, order[y] = k, y = BuddyOf(B, k), k < MaxOrder - 1
      PROVE  FALSE
  <2>1. k + 1 \in o .. MaxOrder - 1
    BY <1>4, <1>6
  <2>2. Mergeable(f, o, k + 1)
    <3> SUFFICES ASSUME NEW j \in o .. (k + 1) - 1
                 PROVE  BuddyOf(Base(f, j), j) \in buddy /\ order[BuddyOf(Base(f, j), j)] = j
      BY DEF Mergeable
    <3>1. CASE j = k
      BY <1>6, <3>1
    <3>2. CASE j # k
      <4>1. j \in o .. k - 1
        BY <1>4, <3>2
      <4> QED
        BY <1>2, <4>1 DEF Mergeable
    <3> QED
      BY <3>1, <3>2
  <2>3. k + 1 <= k
    BY <1>2, <2>1, <2>2
  <2> QED
    BY <1>4, <2>3
<1> SUFFICES ASSUME NEW x \in buddy', NEW y \in buddy', NEW i,
                    i = order'[x], i < MaxOrder - 1, y = BuddyOf(x, i), order'[y] = i
             PROVE  FALSE
  BY DEF BuddiesMerged, BuddyOf
<1>7. CASE x = B
  <2>1. i = k
    BY <1>3, <1>7
  <2>2. y # B
    BY <1>4, <1>5, <1>7, <2>1, Buddies
  <2>3. y \in buddy \ gone /\ order[y] = k
    BY <1>3, <2>1, <2>2
  <2> QED
    BY <1>6, <1>7, <2>1, <2>3
<1>8. CASE x # B
  <2>1. x \in buddy \ gone /\ order[x] = i /\ x \in Nat /\ i \in Nat /\ x % 2^i = 0
    BY <1>1, <1>3, <1>8, Ranges DEF ZoneTypes, Aligned
  <2>2. CASE y = B
    <3>1. i = k /\ BuddyOf(B, k) = x
      <4>1. i = k
        BY <1>3, <2>2
      <4>2. BuddyOf(BuddyOf(x, i), i) = x
        BY <2>1, Buddies
      <4> QED
        BY <2>2, <4>1, <4>2
    <3> QED
      BY <1>6, <2>1, <3>1
  <2>3. CASE y # B
    <3>1. y \in buddy /\ order[y] = i
      BY <1>3, <2>3
    <3>2. order[x] < MaxOrder - 1 =>
            ~(BuddyOf(x, order[x]) \in buddy /\ order[BuddyOf(x, order[x])] = order[x])
      BY <2>1 DEF BuddiesMerged
    <3> QED
      BY <2>1, <3>1, <3>2
  <2> QED
    BY <2>2, <2>3
<1> QED
  BY <1>7, <1>8

(* The facts about a cut that an action makes. *)
Cuts(f, o, m) == /\ f \in buddy /\ o \in Order /\ o <= order[f] /\ m \in Type
                 /\ Relist({f}, Pieces(f, o, order[f]), m)

Frees(f, o, m) == /\ f \in Frame /\ o \in Order /\ f % 2^o = 0 /\ f + 2^o <= NumFrames
                  /\ (\A g \in Span(f, o) : FreeOf(g) = {})
                  /\ m \in Type /\ FreeBlock(f, o, m)

(* A block is only cut, freed, or moved to another list of its order.      *)
LEMMA FreeListSteps ==
  ASSUME ZoneInv, Next
  PROVE  \/ \E f, o, m : /\ Cuts(f, o, m) /\ isolated' = isolated
                         /\ m = "isolate" => Pageblock(f) \in isolated
         \/ \E f, o, m : /\ Frees(f, o, m) /\ isolated' = isolated
                         /\ m = "isolate" => Pageblock(f) \in isolated
         \/ \E n : /\ isolated' = isolated \cup {n} /\ MoveFree(n, "isolate")
                   /\ UNCHANGED <<buddy, order, nr_free>>
         \/ \E n : /\ isolated' = isolated \ {n} /\ MoveFree(n, "movable")
                   /\ UNCHANGED <<buddy, order, nr_free>>
         \/ /\ isolated' \subseteq isolated /\ isolated \subseteq isolated' /\ list' = list
            /\ buddy' = buddy /\ \A h \in buddy : order'[h] = order[h]
<1>1. ZoneTypes /\ Aligned /\ ListsAgree /\ BlocksAligned /\ FreeSingle /\ UsersSingle
  BY Singles DEF ZoneInv
<1>2. \A f : BlockType(f) \in Type /\ (BlockType(f) = "isolate" => Pageblock(f) \in isolated)
             /\ Usual(f) \in Type /\ Usual(f) # "isolate"
  BY DEF BlockType, Usual, Type
<1>3. "taken" \in Kind /\ "block" \in Kind /\ "pcp" \in Kind /\ "claimed" \in Kind
  BY DEF Kind
<1>4. ASSUME NEW t \in Thread, NEW f \in Frame, Isolate(t, f)
      PROVE  \/ \E n : /\ isolated' = isolated \cup {n} /\ MoveFree(n, "isolate")
                       /\ UNCHANGED <<buddy, order, nr_free>>
             \/ UNCHANGED <<isolated, list, buddy, order>>
  BY <1>4 DEF Isolate
<1>5. ASSUME NEW t \in Thread, Unisolate(t)
      PROVE  \/ \E n : /\ isolated' = isolated \ {n} /\ MoveFree(n, "movable")
                       /\ UNCHANGED <<buddy, order, nr_free>>
             \/ UNCHANGED <<isolated, list, buddy, order>>
  <2> DEFINE n == Pageblock(call[t].page)
  <2>1. /\ isolated' = isolated \ {n} /\ UNCHANGED <<buddy, order, nr_free>>
        /\ IF n \in isolated THEN MoveFree(n, "movable") ELSE UNCHANGED list
    BY <1>5 DEF Unisolate
  <2> HIDE DEF n
  <2> QED
    BY <2>1
<1>6. ASSUME NEW t \in Thread, IsFree(t) \/ Lost(t)
      PROVE  UNCHANGED <<isolated, list, buddy, order>>
  BY <1>6 DEF IsFree, Lost, zone
<1>7. ASSUME NEW t \in Thread, Take(t)
      PROVE  \E f, o, m : /\ Cuts(f, o, m) /\ isolated' = isolated
                          /\ m = "isolate" => Pageblock(f) \in isolated
  <2>1. PICK f : f = call[t].page
    OBVIOUS
  <2>2. PICK m : m = BlockType(f)
    OBVIOUS
  <2>3. f \in buddy /\ Relist({f}, Rest(f, order[f]), m) /\ isolated' = isolated
    BY <1>7, <2>1, <2>2 DEF Take, Takeable, PieceType
  <2>4. f \in Nat /\ order[f] \in Nat /\ 0 \in Order /\ 0 <= order[f]
    BY <1>1, <2>3, Ranges DEF ZoneTypes
  <2>5. Rest(f, order[f]) = Pieces(f, 0, order[f])
    BY <2>4, RestPieces
  <2>6. Cuts(f, 0, m)
    BY <1>2, <2>2, <2>3, <2>4, <2>5 DEF Cuts
  <2>7. m = "isolate" => Pageblock(f) \in isolated
    BY <1>2, <2>2
  <2> QED
    BY <2>3, <2>6, <2>7
<1>8. ASSUME NEW t \in Thread, Prep(t)
      PROVE  /\ isolated' = isolated /\ list' = list
             /\ buddy' = buddy /\ \A h \in buddy : order'[h] = order[h]
  <2>1. PICK f : f = call[t].page
    OBVIOUS
  <2>2. /\ call[t].pc = "taken" /\ order' = [order EXCEPT ![f] = 0]
        /\ UNCHANGED <<isolated, list, buddy>>
    BY <1>8, <2>1 DEF Prep
  <2>3. f \in Frame /\ Has(f, "taken")
    BY <1>1, <2>1, <2>2 DEF ZoneTypes, CallRecord, Has, TakersOf
  <2>4. FreeOf(f) = {}
    BY <1>3, <2>3, NobodyElse
  <2>5. f \notin buddy
    <3> SUFFICES ASSUME f \in buddy PROVE FALSE
      OBVIOUS
    <3>1. f \in Nat /\ order[f] \in Nat
      BY <1>1, Ranges DEF ZoneTypes
    <3>2. 2^order[f] \in Nat /\ 2^order[f] >= 1
      BY <3>1, PowerNat
    <3>3. f \in Span(f, order[f])
      BY <3>1, <3>2 DEF Span
    <3> QED
      BY <2>4, <3>3 DEF FreeOf
  <2> QED
    BY <1>1, <2>2, <2>5 DEF ZoneTypes
<1>9. ASSUME NEW o \in Order, KernelAlloc(o)
      PROVE  \E f, p, m : /\ Cuts(f, p, m) /\ isolated' = isolated
                          /\ m = "isolate" => Pageblock(f) \in isolated
  <2>1. PICK m \in Type \ {"isolate"}, k \in o .. MaxOrder - 1 : \E f \in list[k][m] :
          Relist({f}, Rest(f, k) \ Rest(f, o), m) /\ isolated' = isolated
    BY <1>9 DEF KernelAlloc
  <2>2. PICK f \in list[k][m] : Relist({f}, Rest(f, k) \ Rest(f, o), m)
    BY <2>1
  <2>3. k \in Order /\ k \in Nat /\ o \in Nat /\ o <= k /\ m \in Type
    BY Ranges
  <2>4. f \in buddy /\ order[f] = k /\ f \in Nat
    BY <2>3, ListOrder, Ranges
  <2>5. Rest(f, k) \ Rest(f, o) = Pieces(f, o, k)
    BY <2>3, <2>4, RestPieces
  <2>6. Cuts(f, o, m)
    BY <2>2, <2>3, <2>4, <2>5 DEF Cuts
  <2> QED
    BY <2>1, <2>6
<1>10. ASSUME NEW o \in Order, NEW f \in Frame, KernelFree(f, o)
       PROVE  \E h, p, m : /\ Frees(h, p, m) /\ isolated' = isolated
                           /\ m = "isolate" => Pageblock(h) \in isolated
  <2>1. PICK m : m = BlockType(f)
    OBVIOUS
  <2>2. <<f, o>> \in blocks /\ FreeBlock(f, o, m) /\ isolated' = isolated
    BY <1>10, <2>1 DEF KernelFree
  <2>3. f % 2^o = 0 /\ f + 2^o <= NumFrames
    <3>1. \A b \in blocks : b[1] % 2^b[2] = 0 /\ b[1] + 2^b[2] <= NumFrames
      BY <1>1 DEF BlocksAligned
    <3>2. <<f, o>>[1] = f /\ <<f, o>>[2] = o
      OBVIOUS
    <3> QED
      BY <2>2, <3>1, <3>2
  <2>4. \A g \in Span(f, o) : FreeOf(g) = {}
    <3> SUFFICES ASSUME NEW g \in Span(f, o) PROVE FreeOf(g) = {}
      OBVIOUS
    <3>1. f \in Nat /\ 2^o \in Nat
      BY Ranges, PowerNat
    <3>2. g \in Nat /\ g < NumFrames
      BY <2>3, <3>1, Ranges DEF Span
    <3>3. g \in Frame
      BY <3>2, Ranges
    <3>4. <<f, o>> \in BlocksOf(g)
      BY <2>2 DEF BlocksOf
    <3>5. Has(g, "block")
      BY <3>4 DEF Has
    <3> QED
      BY <1>3, <3>3, <3>5, NobodyElse
  <2>5. Frees(f, o, m)
    BY <1>2, <2>1, <2>2, <2>3, <2>4 DEF Frees
  <2>6. m = "isolate" => Pageblock(f) \in isolated
    BY <1>2, <2>1
  <2> QED
    BY <2>2, <2>5, <2>6
<1>11. ASSUME NEW f \in Frame, f \in pcp \/ f \in claimed, NEW m \in Type, FreeBlock(f, 0, m)
       PROVE  Frees(f, 0, m)
  <2>1. f \in Nat /\ f < NumFrames /\ 0 \in Order /\ NumFrames \in Nat
    BY Ranges
  <2>2. 2^0 = 1 /\ Span(f, 0) = {f} /\ f % 2^0 = 0
    BY <2>1, FrameSpan
  <2>3. f + 2^0 <= NumFrames
    BY <2>1, <2>2
  <2>4. FreeOf(f) = {}
    <3>1. Has(f, "pcp") \/ Has(f, "claimed")
      BY <1>11 DEF Has
    <3> QED
      BY <1>3, <3>1, NobodyElse
  <2>5. \A g \in Span(f, 0) : FreeOf(g) = {}
    BY <2>2, <2>4
  <2> QED
    BY <1>11, <2>1, <2>2, <2>3, <2>5 DEF Frees
<1>12. ASSUME NEW f \in Frame, Put(f)
       PROVE  \/ \E h, p, m : /\ Frees(h, p, m) /\ isolated' = isolated
                              /\ m = "isolate" => Pageblock(h) \in isolated
              \/ UNCHANGED <<isolated, list, buddy, order>>
  <2>1. f \in claimed /\ isolated' = isolated
        /\ IF BlockType(f) = "isolate" THEN FreeBlock(f, 0, "isolate") ELSE UNCHANGED zone
    BY <1>12 DEF Put, PutFrame
  <2>2. CASE BlockType(f) = "isolate"
    <3>1. Pageblock(f) \in isolated /\ "isolate" \in Type
      BY <1>2, <2>2
    <3>2. Frees(f, 0, "isolate")
      BY <1>11, <2>1, <2>2, <3>1
    <3> QED
      BY <2>1, <3>1, <3>2
  <2>3. CASE BlockType(f) # "isolate"
    BY <2>1, <2>3 DEF zone
  <2> QED
    BY <2>2, <2>3
<1>13. ASSUME NEW f \in Frame, PcpDrain(f)
       PROVE  \E h, p, m : /\ Frees(h, p, m) /\ isolated' = isolated
                           /\ m = "isolate" => Pageblock(h) \in isolated
  <2>1. PICK m : m = Usual(f)
    OBVIOUS
  <2>2. f \in pcp /\ FreeBlock(f, 0, m) /\ isolated' = isolated
    BY <1>13, <2>1 DEF PcpDrain
  <2>3. Frees(f, 0, m) /\ m # "isolate"
    BY <1>2, <1>11, <2>1, <2>2
  <2> QED
    BY <2>2, <2>3
<1>14. ASSUME NEW f \in Frame, PcpAlloc(f)
       PROVE  UNCHANGED <<isolated, list, buddy, order>>
  BY <1>14 DEF PcpAlloc, zone
<1> DEFINE Same == UNCHANGED <<isolated, list, buddy, order>>
<1>15. Same => /\ isolated' \subseteq isolated /\ isolated \subseteq isolated' /\ list' = list
               /\ buddy' = buddy /\ \A h \in buddy : order'[h] = order[h]
  OBVIOUS
<1>16. CASE \E t \in Thread : Claim(t)
  <2>1. PICK t \in Thread : Claim(t)
    BY <1>16
  <2> HIDE DEF Same
  <2>2. CASE \E f \in Frame : Isolate(t, f)
    BY <1>4, <1>15, <2>2 DEF Same
  <2>3. CASE IsFree(t) \/ Lost(t)
    BY <1>6, <1>15, <2>3 DEF Same
  <2>4. CASE Take(t)
    BY <1>7, <2>4
  <2>5. CASE Prep(t)
    BY <1>8, <2>5
  <2>6. CASE Unisolate(t)
    BY <1>5, <1>15, <2>6 DEF Same
  <2> QED
    BY <2>1, <2>2, <2>3, <2>4, <2>5, <2>6 DEF Claim
<1>17. CASE \E f \in Frame : Put(f)
  BY <1>12, <1>15, <1>17
<1>18. CASE Allocator
  <2>1. CASE \E o \in Order : KernelAlloc(o)
    BY <1>9, <2>1
  <2>2. CASE \E o \in Order, f \in Frame : KernelFree(f, o)
    BY <1>10, <2>2
  <2>3. CASE \E f \in Frame : PcpDrain(f)
    BY <1>13, <2>3
  <2>4. CASE \E f \in Frame : PcpAlloc(f)
    BY <1>14, <1>15, <2>4
  <2> QED
    BY <1>18, <2>1, <2>2, <2>3, <2>4 DEF Allocator
<1> QED
  BY <1>16, <1>17, <1>18 DEF Next

(* Claims leave no lasting fragmentation: whatever pieces the claims and   *)
(* the allocations have cut, two free buddies are never left side by side, *)
(* so that a block is whole again as soon as its last frame is back        *)
(* (expand__clone; the merge of the allocator).                            *)
THEOREM BuddiesStayMerged == Spec => []BuddiesMerged
<1>1. Init => BuddiesMerged
  <2> SUFFICES ASSUME Init, NEW f \in buddy PROVE ~ (order[f] < MaxOrder - 1)
    BY DEF BuddiesMerged
  <2>1. f \in Frame /\ order[f] = MaxOrder - 1 /\ MaxOrder \in Nat
    BY Ranges DEF Init
  <2> QED
    BY <2>1
<1>2. ASSUME ZoneInv, BuddiesMerged, buddy' = buddy, \A h \in buddy : order'[h] = order[h]
      PROVE  BuddiesMerged'
  BY <1>2 DEF BuddiesMerged, BuddyOf
<1>3. ASSUME ZoneInv, BuddiesMerged, Next PROVE BuddiesMerged'
  <2>1. ASSUME NEW f, NEW o, NEW m, Cuts(f, o, m) PROVE BuddiesMerged'
    BY <1>3, <2>1, CutMerged DEF Cuts
  <2>2. ASSUME NEW f, NEW o, NEW m, Frees(f, o, m) PROVE BuddiesMerged'
    BY <1>3, <2>2, MergeMerged DEF Frees
  <2>3. ASSUME UNCHANGED <<buddy, order, nr_free>> PROVE BuddiesMerged'
    BY <1>2, <1>3, <2>3
  <2> QED
    BY <1>2, <1>3, <2>1, <2>2, <2>3, FreeListSteps
<1>4. ASSUME ZoneInv, BuddiesMerged, UNCHANGED vars PROVE BuddiesMerged'
  BY <1>2, <1>4 DEF vars
<1>5. ZoneInv /\ BuddiesMerged /\ [Next]_vars => BuddiesMerged'
  BY <1>3, <1>4
<1> QED
  BY <1>1, <1>5, ZoneHolds, PTL DEF Spec

(* Frames that are together in a block smaller than a pageblock are in one *)
(* pageblock.                                                              *)
LEMMA PagesTogether ==
  ASSUME NEW f \in Nat, NEW j \in Nat, NEW k \in Nat, j < k, f % 2^k = 0, j < PageblockOrder
  PROVE  Pageblock(f + 2^j) = Pageblock(f)
<1> PICK p \in Nat : p = PageblockOrder
  BY Ranges
<1> PICK g : g = f + 2^j
  OBVIOUS
<1>1. 2^j \in Nat /\ 2^k \in Nat /\ 2^p \in Nat /\ 2^j < 2^k /\ 2^j < 2^p
  BY PowerNat, PowerLess
<1>2. g \in Nat
  BY <1>1
<1>3. Number(g, p) = Number(f, p)
  <2>1. CASE k <= p
    <3>1. g \in Span(f, k)
      BY <1>1 DEF Span
    <3>2. Number(g, k) = Number(f, k)
      BY <1>2, <3>1, InSpan
    <3> QED
      BY <1>2, <2>1, <3>2, NumberMore
  <2>2. CASE p < k
    <3>1. f % 2^p = 0
      <4>1. p <= k
        BY <2>2
      <4> QED
        BY <4>1, AlignedLess
    <3>2. g \in Span(f, p)
      BY <1>1 DEF Span
    <3> QED
      BY <1>2, <3>1, <3>2, InSpan
  <2> QED
    BY <2>1, <2>2
<1> QED
  BY <1>3 DEF Number, Pageblock

LEMMA BaseTogether ==
  ASSUME NEW f \in Nat, NEW k \in Nat, k < PageblockOrder
  PROVE  Pageblock(Base(f, k)) = Pageblock(f)
<1> PICK p \in Nat : p = PageblockOrder
  BY Ranges
<1> PICK h : h = Base(f, k)
  OBVIOUS
<1>1. h \in Nat /\ Number(h, k) = Number(f, k)
  BY NumberOf, AlignedTimes
<1>2. Number(h, p) = Number(f, p)
  BY <1>1, NumberMore
<1> QED
  BY <1>2 DEF Number, Pageblock

(* Free memory that is left on an isolate list after the isolation of its  *)
(* pageblock has ended comes in whole pageblocks (claim_free_buddy_page    *)
(* files all pieces of a block under the type of the claimed frame's       *)
(* pageblock, also those that begin in another).                           *)
THEOREM StrandedStaysWhole == Spec => []StrandedWhole
<1>1. Init => StrandedWhole
  <2> SUFFICES ASSUME Init, NEW o \in Order, NEW f \in list[o]["isolate"] PROVE FALSE
    BY DEF StrandedWhole
  <2>1. "isolate" \in Type
    BY DEF Type
  <2>2. list[o]["isolate"] = {h \in buddy : order[h] = o /\ BlockType(h) = "isolate"}
    BY <2>1 DEF Init
  <2>3. BlockType(f) # "isolate"
    BY DEF BlockType, Usual, Init
  <2> QED
    BY <2>2, <2>3
<1>2. ASSUME ZoneInv, StrandedWhole, NEW gone \in SUBSET buddy, NEW back, NEW m,
             Relist(gone, back, m), isolated' = isolated,
             m = "isolate" => \A b \in back : b[2] \in Nat
                                /\ (b[2] < PageblockOrder => Pageblock(b[1]) \in isolated)
      PROVE  StrandedWhole'
  <2> SUFFICES ASSUME NEW o \in Order, NEW f \in list'[o]["isolate"],
                      Pageblock(f) \notin isolated, ~ (o >= PageblockOrder)
               PROVE  FALSE
    BY <1>2 DEF StrandedWhole, Pageblock
  <2>1. "isolate" \in Type
    BY DEF Type
  <2>2. list'[o]["isolate"] = (list[o]["isolate"] \ gone)
           \cup {b[1] : b \in {c \in back : c[2] = o /\ "isolate" = m}}
    BY <1>2, <2>1 DEF Relist
  <2>3. CASE f \in list[o]["isolate"]
    BY <1>2, <2>3 DEF StrandedWhole
  <2>4. CASE f \notin list[o]["isolate"]
    <3>1. PICK b \in back : f = b[1] /\ b[2] = o /\ m = "isolate"
      BY <2>2, <2>4
    <3>2. o \in Nat /\ PageblockOrder \in Nat
      BY Ranges
    <3>3. o < PageblockOrder
      BY <3>2
    <3> QED
      BY <1>2, <3>1, <3>3
  <2> QED
    BY <2>3, <2>4
<1>3. ASSUME ZoneInv, StrandedWhole, NEW f, NEW o, NEW m, Cuts(f, o, m), isolated' = isolated,
             m = "isolate" => Pageblock(f) \in isolated
      PROVE  StrandedWhole'
  <2>1. f \in Nat /\ order[f] \in Nat /\ f % 2^order[f] = 0 /\ o \in Nat /\ {f} \in SUBSET buddy
    BY <1>3, Ranges DEF Cuts, ZoneInv, ZoneTypes, Aligned
  <2>2. ASSUME NEW b \in Pieces(f, o, order[f]), m = "isolate"
        PROVE  b[2] \in Nat /\ (b[2] < PageblockOrder => Pageblock(b[1]) \in isolated)
    <3>1. PICK j \in o .. order[f] - 1 : b = <<f + 2^j, j>>
      BY DEF Pieces
    <3>2. j \in Nat /\ j < order[f] /\ b[1] = f + 2^j /\ b[2] = j
      BY <2>1, <3>1
    <3>3. j < PageblockOrder => Pageblock(f + 2^j) = Pageblock(f)
      BY <2>1, <3>2, PagesTogether
    <3> QED
      BY <1>3, <2>2, <3>2, <3>3
  <2>3. Relist({f}, Pieces(f, o, order[f]), m)
    BY <1>3 DEF Cuts
  <2>4. PICK back : back = Pieces(f, o, order[f])
    OBVIOUS
  <2> QED
    BY <1>2, <1>3, <2>1, <2>2, <2>3, <2>4
<1>4. ASSUME ZoneInv, StrandedWhole, NEW f, NEW o, NEW m, Frees(f, o, m), isolated' = isolated,
             m = "isolate" => Pageblock(f) \in isolated
      PROVE  StrandedWhole'
  <2>1. f \in Frame /\ f \in Nat /\ o \in Order /\ FreeBlock(f, o, m)
    BY <1>4, Ranges DEF Frees
  <2>2. PICK k \in o .. MaxOrder - 1 :
           Mergeable(f, o, k) /\ Relist(Merged(f, o, k), {<<Base(f, k), k>>}, m)
    BY <2>1, LargestBlock
  <2>3. PICK gone : gone = Merged(f, o, k)
    OBVIOUS
  <2>4. PICK back : back = {<<Base(f, k), k>>}
    OBVIOUS
  <2>5. gone \in SUBSET buddy
    BY <2>2, <2>3 DEF Merged, Mergeable
  <2>6. k \in Nat
    BY <2>1, Ranges
  <2>7. \A b \in back : b[1] = Base(f, k) /\ b[2] = k
    BY <2>4
  <2>8. k < PageblockOrder => Pageblock(Base(f, k)) = Pageblock(f)
    BY <2>1, <2>6, BaseTogether
  <2>9. m = "isolate" => \A b \in back : b[2] \in Nat
             /\ (b[2] < PageblockOrder => Pageblock(b[1]) \in isolated)
    BY <1>4, <2>6, <2>7, <2>8
  <2>10. Relist(gone, back, m)
    BY <2>2, <2>3, <2>4
  <2> QED
    BY <1>2, <1>4, <2>5, <2>9, <2>10
<1>5. ASSUME ZoneInv, StrandedWhole, NEW n, isolated' = isolated \cup {n}, MoveFree(n, "isolate"),
             UNCHANGED <<buddy, order, nr_free>>
      PROVE  StrandedWhole'
  <2> SUFFICES ASSUME NEW o \in Order, NEW f \in list'[o]["isolate"], Pageblock(f) \notin isolated'
               PROVE  o >= PageblockOrder
    BY DEF StrandedWhole, Pageblock
  <2>1. "isolate" \in Type
    BY DEF Type
  <2>2. list'[o]["isolate"] = (list[o]["isolate"] \ {h \in buddy : Pageblock(h) = n})
           \cup {h \in {g \in buddy : Pageblock(g) = n} : order[h] = o /\ "isolate" = "isolate"}
    BY <1>5, <2>1, MoveKeeps DEF ZoneInv
  <2>3. Pageblock(f) # n /\ Pageblock(f) \notin isolated
    BY <1>5
  <2>4. f \in list[o]["isolate"]
    BY <2>2, <2>3
  <2> QED
    BY <1>5, <2>3, <2>4 DEF StrandedWhole
<1>6. ASSUME ZoneInv, StrandedWhole, NEW n, isolated' = isolated \ {n}, MoveFree(n, "movable"),
             UNCHANGED <<buddy, order, nr_free>>
      PROVE  StrandedWhole'
  <2> SUFFICES ASSUME NEW o \in Order, NEW f \in list'[o]["isolate"], Pageblock(f) \notin isolated'
               PROVE  o >= PageblockOrder
    BY DEF StrandedWhole, Pageblock
  <2>1. "isolate" \in Type /\ "movable" \in Type
    BY DEF Type
  <2>2. list'[o]["isolate"] = (list[o]["isolate"] \ {h \in buddy : Pageblock(h) = n})
           \cup {h \in {g \in buddy : Pageblock(g) = n} : order[h] = o /\ "isolate" = "movable"}
    BY <1>6, <2>1, MoveKeeps DEF ZoneInv
  <2>3. f \in list[o]["isolate"] /\ ~ (f \in buddy /\ Pageblock(f) = n)
    BY <2>2
  <2>4. f \in buddy
    BY <2>1, <2>3, ListOrder, <1>6
  <2>5. Pageblock(f) \notin isolated
    BY <1>6, <2>3, <2>4
  <2> QED
    BY <1>6, <2>3, <2>5 DEF StrandedWhole
<1>7. ASSUME ZoneInv, StrandedWhole, isolated' \subseteq isolated, isolated \subseteq isolated',
             list' = list
      PROVE  StrandedWhole'
  BY <1>7 DEF StrandedWhole, Pageblock
<1>8. ZoneInv /\ StrandedWhole /\ Next => StrandedWhole'
  BY <1>3, <1>4, <1>5, <1>6, <1>7, FreeListSteps
<1>9. ZoneInv /\ StrandedWhole /\ UNCHANGED vars => StrandedWhole'
  BY <1>7 DEF vars
<1>10. ZoneInv /\ StrandedWhole /\ [Next]_vars => StrandedWhole'
  BY <1>8, <1>9
<1> QED
  BY <1>1, <1>10, ZoneHolds, PTL DEF Spec

-----------------------------------------------------------------------------
(* The zone implements FrameLedger.                                        *)

(* Who the ledger has down for a frame of each kind. *)
Whose(k) == CASE k \in {"taken", "claimed"} -> Ledger!Claimer("claimer")
              [] k = "block"                -> Ledger!Kernel
              [] k \in {"free", "pcp"}      -> Ledger!Free

Bar == [f \in Frame |-> OwnerOf(f)]

LEMMA OwnerIs ==
  ZoneInv => \A g \in Frame, k \in Kind : Has(g, k) => OwnerOf(g) = Whose(k)
<1> SUFFICES ASSUME ZoneInv, NEW g \in Frame, NEW k \in Kind, Has(g, k)
             PROVE  OwnerOf(g) = Whose(k)
  OBVIOUS
<1>1. PICK i \in Kind : \A j \in Kind : Has(g, j) <=> j = i
  BY DEF ZoneInv, Once
<1>2. \A j \in Kind : Has(g, j) <=> j = k
  BY <1>1
<1>3. /\ Has(g, "taken") <=> g \in Taken
      /\ Has(g, "claimed") <=> g \in claimed
      /\ Has(g, "block") <=> \E b \in blocks : g \in Span(b[1], b[2])
  BY DEF Has, TakersOf, BlocksOf, Taken
<1>4. "taken" \in Kind /\ "claimed" \in Kind /\ "block" \in Kind
  BY DEF Kind
<1>5. /\ g \in Taken <=> k = "taken"
      /\ g \in claimed <=> k = "claimed"
      /\ (\E b \in blocks : g \in Span(b[1], b[2])) <=> k = "block"
  BY <1>2, <1>3, <1>4
<1>6. k = "free" \/ k = "block" \/ k = "taken" \/ k = "pcp" \/ k = "claimed"
  BY DEF Kind
<1>7. OwnerOf(g) = IF k = "taken" \/ k = "claimed" THEN <<"party", "claimer">>
                   ELSE IF k = "block" THEN <<"kernel">> ELSE <<"free">>
  BY <1>5 DEF OwnerOf
<1> QED
  BY <1>6, <1>7 DEF Whose, Ledger!Claimer, Ledger!Kernel, Ledger!Free

LEMMA OwnerTypes == Bar \in [Frame -> Ledger!Owner]
<1>1. \A f \in Frame : OwnerOf(f) \in Ledger!Owner
  BY DEF OwnerOf, Ledger!Owner, Ledger!Taker, Ledger!Claimer, Ledger!Kernel, Ledger!Free
<1> QED
  BY <1>1 DEF Bar

(* Of the kinds of a frame's owner the ledger sees the party: a claimed    *)
(* frame stays with the claimers, a frame of a per-CPU list is free.       *)
LEMMA LedgerStep ==
  ASSUME ZoneInv, ZoneInv',
         NEW S \in SUBSET Frame, NEW a \in Kind, NEW b \in Kind, Step(S, a, b)
  PROVE  Ledger!Next
<1>1. Bar' \in [Frame -> Ledger!Owner]
  <2>1. (Bar \in [Frame -> Ledger!Owner])'
    BY OwnerTypes, PTL
  <2> QED
    BY <2>1 DEF Ledger!Owner, Ledger!Taker, Ledger!Claimer, Ledger!Kernel, Ledger!Free,
                Ledger!Retired
<1>2. \A f \in Frame : Bar[f] = OwnerOf(f) /\ Bar'[f] = OwnerOf(f)'
  BY DEF Bar
<1>3. Moves(S, a, b)
  BY DEF Step
<1>4. \A g \in Frame, k \in Kind : Has(g, k) => OwnerOf(g) = Whose(k)
  BY OwnerIs
<1>5. \A g \in Frame, k \in Kind : Has(g, k)' => OwnerOf(g)' = Whose(k)
  <2>1. (ZoneInv => \A g \in Frame, k \in Kind : Has(g, k) => OwnerOf(g) = Whose(k))'
    BY OwnerIs, PTL
  <2>2. \A k : Whose(k)' = Whose(k)
    BY DEF Whose, Ledger!Claimer, Ledger!Kernel, Ledger!Free
  <2> QED
    BY <2>1, <2>2
<1>6. \A g \in S : g \in Frame /\ Bar[g] = Whose(a) /\ Bar'[g] = Whose(b)
  BY <1>2, <1>3, <1>4, <1>5 DEF Moves
<1>7. \A g \in Frame \ S : Bar'[g] = Bar[g]
  <2> SUFFICES ASSUME NEW g \in Frame \ S PROVE OwnerOf(g)' = OwnerOf(g)
    BY <1>2
  <2>1. PICK k \in Kind : Has(g, k)
    BY DEF ZoneInv, Once
  <2>2. Has(g, k)'
    BY <1>3, <2>1 DEF Moves
  <2> QED
    BY <1>4, <1>5, <2>1, <2>2
<1>8. /\ Whose("free") = Ledger!Free /\ Whose("pcp") = Ledger!Free
      /\ Whose("block") = Ledger!Kernel
      /\ Whose("taken") = Ledger!Claimer("claimer")
      /\ Whose("claimed") = Ledger!Claimer("claimer")
  BY DEF Whose
<1>9. Ledger!Kernel \in Ledger!Taker /\ Ledger!Claimer("claimer") \in Ledger!Taker
  BY DEF Ledger!Taker
<1>10. ASSUME NEW q \in Ledger!Taker, Whose(a) = Ledger!Free, Whose(b) = q PROVE Ledger!Next
  <2>1. \A f \in Frame : Bar'[f] = Bar[f] \/ (Bar[f] = Ledger!Free /\ Bar'[f] = q)
    BY <1>6, <1>7, <1>10
  <2> QED
    BY <1>1, <2>1 DEF Ledger!Next, Ledger!Take, Ledger!Unmoved, Bar
<1>11. ASSUME NEW q \in Ledger!Taker, Whose(a) = q, Whose(b) = Ledger!Free PROVE Ledger!Next
  <2>1. \A f \in Frame : Bar'[f] = Bar[f]
                  \/ (Bar[f] = q /\ Bar'[f] \in {Ledger!Free, Ledger!Retired})
    BY <1>6, <1>7, <1>11
  <2> QED
    BY <1>1, <2>1 DEF Ledger!Next, Ledger!GiveBack, Ledger!Unmoved, Bar
<1>12. ASSUME \A f \in S : Bar'[f] = Bar[f] PROVE Ledger!Next
  <2>1. \A f \in Frame : Bar'[f] = Bar[f]
    BY <1>7, <1>12
  <2> QED
    BY <1>1, <1>9, <2>1 DEF Ledger!Next, Ledger!Take, Ledger!Unmoved, Bar
<1>13. CASE Whose(a) = Whose(b)
  BY <1>6, <1>12, <1>13
<1>14. CASE a = "free" /\ b \in {"taken", "block"}
  BY <1>8, <1>9, <1>10, <1>14
<1>15. CASE a = "pcp" /\ b = "block"
  BY <1>8, <1>9, <1>10, <1>15
<1>16. CASE a \in {"block", "claimed"} /\ b \in {"free", "pcp"}
  BY <1>8, <1>9, <1>11, <1>16
<1> QED
  BY <1>8, <1>13, <1>14, <1>15, <1>16 DEF Step

(* The zone keeps the promise of FrameLedger, with all claimers as one     *)
(* party: a claim takes only frames that are free, and neither splits nor  *)
(* merges take a frame from the claimers or from a user of the allocator.  *)
THEOREM ZoneLedger == Spec => ImplementsLedger
<1>1. Init => ZoneInv /\ Ledger!Init
  <2> SUFFICES ASSUME Init PROVE ZoneInv /\ Ledger!Init
    OBVIOUS
  <2>1. ASSUME NEW f \in Frame PROVE OwnerOf(f) = Ledger!Free
    BY IdleIs DEF OwnerOf, Taken, Init, Ledger!Free
  <2>2. Ledger!Init
    BY <2>1 DEF Ledger!Init
  <2> QED
    BY <2>2, ZoneInit
<1>2. ZoneInv /\ [Next]_vars => ZoneInv' /\ [Ledger!Next]_Bar
  <2> SUFFICES ASSUME ZoneInv, [Next]_vars PROVE ZoneInv' /\ [Ledger!Next]_Bar
    OBVIOUS
  <2>1. CASE Next
    BY <2>1, ZoneNext, LedgerStep
  <2>2. CASE UNCHANGED vars
    <3>1. Bar' = Bar
      BY <2>2 DEF vars, Bar, OwnerOf, Taken, Span
    <3> QED
      BY <2>2, <3>1, ZoneStutters
  <2> QED
    BY <2>1, <2>2
<1>3. ZoneInv /\ [Next]_vars => ZoneInv' /\ [Ledger!Next]_[f \in Frame |-> OwnerOf(f)]
  BY <1>2 DEF Bar
<1> QED
  BY <1>1, <1>3, PTL DEF Spec, ImplementsLedger, Ledger!Spec
=============================================================================
