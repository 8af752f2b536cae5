----------------------------- MODULE IngestProofs -----------------------------
(***************************************************************************)
(* Proofs about Ingest, for all tags, sessions, ways to split them into    *)
(* packets, wraps, limits and orders of arrival: the estimate of the loss, *)
(* whom the tracker forgets, that what is stored was sent, and that the    *)
(* answers of the query API are true to it and to what was shown live.     *)
(*                                                                         *)
(* The order: remainders; folds; decoding, by which a damaged datagram is  *)
(* dropped and an intact one comes out as it went in; the datagrams under  *)
(* way, no two of which share a cycle; the tracker's arithmetic; its list; *)
(* the estimate; the order of the list; the rows.  Then the queries:       *)
(* numbers in their order, which ORDER BY and WHERE are; unwrapping;       *)
(* thinning out; the view of a session, from which each answer follows:    *)
(* replay, time ranges, samples, ranges, counts, summary.  At last the hub *)
(* with what LiveHubProofs has of it, and what it holds of a session.      *)
(***************************************************************************)
EXTENDS Ingest, SequenceTheorems, FiniteSetTheorems, WellFoundedInduction, TLAPS

-----------------------------------------------------------------------------
(* Numbers *)

(* A nonempty set of naturals has the least element Min chooses. *)
LEMMA MinProperties ==
    ASSUME NEW T \in SUBSET Nat, T # {}
    PROVE  Min(T) \in T /\ \A y \in T : Min(T) <= y
<1>1. PICK x \in T : \A y \in T : ~ (<<y, x>> \in OpToRel(<, Nat))
  BY NatLessThanWellFounded, WFMin
<1>2. ASSUME NEW y \in T PROVE x <= y
  <2>1. <<y, x>> \in OpToRel(<, Nat) <=> y < x
    BY DEF OpToRel
  <2>2. ~(y < x)
    BY <1>1, <2>1
  <2>3. QED
    BY <2>2
<1>3. QED
  BY <1>2 DEF Min

(* The remainder by a wrap is below it, and taken again it is the same.     *)
LEMMA Remainder ==
    ASSUME NEW w \in Nat \ {0}, NEW x \in Int
    PROVE  /\ x % w \in 0..(w - 1)
           /\ x \in 0..(w - 1) => x % w = x
OBVIOUS

(* A distance that was taken within the wrap leads back.                    *)
LEMMA WrapBack ==
    ASSUME NEW w \in Nat \ {0}, NEW a \in 0..(w - 1), NEW b \in 0..(w - 1)
    PROVE  (a + ((b - a) % w)) % w = b
<1>1. CASE b >= a
  <2>1. b - a \in 0..(w - 1)
    BY <1>1
  <2>2. (b - a) % w = b - a
    BY <2>1
  <2>3. QED
    BY <2>2
<1>2. CASE b < a
  <2>1. (b - a) % w = b - a + w
    BY <1>2
  <2>2. (a + (b - a + w)) % w = b
    BY <1>2
  <2>3. QED
    BY <2>1, <2>2
<1>3. QED
  BY <1>1, <1>2

(* A product of a sum, for the leaves that need it by name.                 *)
LEMMA Distributes ==
    ASSUME NEW a \in Int, NEW b \in Int, NEW c \in Int
    PROVE  a * (b + c) = a * b + a * c
OBVIOUS

(* A number is a multiple of the wrap and its remainder.                    *)
LEMMA Quotient ==
    ASSUME NEW w \in Nat \ {0}, NEW x \in Int
    PROVE  \E q \in Int : x = w * q + (x % w)
<1>1. x = w * (x \div w) + (x % w)
  BY Z3
<1>2. x \div w \in Int
  OBVIOUS
<1>3. QED
  BY <1>1, <1>2

(* Adding a multiple of the wrap changes no remainder.                      *)
LEMMA Multiples ==
    ASSUME NEW w \in Nat \ {0}, NEW q \in Int, NEW x \in Int
    PROVE  (w * q + x) % w = x % w
<1>1. PICK p \in Int : x = w * p + (x % w)
  BY Quotient
<1> DEFINE r == x % w
<1>2. r \in 0..(w - 1)
  OBVIOUS
<1>3. x = w * p + r
  BY <1>1
<1> HIDE DEF r
<1>4. w * q + x = w * (q + p) + r /\ q + p \in Int
  <2>1. w * (q + p) = w * q + w * p
    OBVIOUS
  <2>2. PICK a \in Int, b \in Int : a = w * q /\ b = w * p
    OBVIOUS
  <2>3. r \in Int
    BY <1>2
  <2>4. a + x = (a + b) + r
    BY <1>3, <2>2, <2>3
  <2>5. QED
    BY <2>1, <2>2, <2>4
<1>5. (w * (q + p) + r) % w = r
  <2>1. \A k \in Int : (w * k + r) % w = r
    BY <1>2
  <2>2. QED
    BY <2>1, <1>4
<1>6. QED
  BY <1>4, <1>5 DEF r

(* Steps may be taken within the wrap or before it.                         *)
LEMMA WrapSum ==
    ASSUME NEW w \in Nat \ {0}, NEW x \in Int, NEW y \in Int
    PROVE  ((x % w) + y) % w = (x + y) % w
<1>1. PICK p \in Int : x = w * p + (x % w)
  BY Quotient
<1>2. (x % w) \in Int
  OBVIOUS
<1>3. PICK r \in Int : r = x % w
  BY <1>2
<1>4. PICK m \in Int : m = w * p
  OBVIOUS
<1>5. x + y = m + (r + y) /\ r + y \in Int
  BY <1>1, <1>3, <1>4
<1>6. (m + (r + y)) % w = (r + y) % w
  BY <1>4, <1>5, Multiples
<1>7. QED
  BY <1>3, <1>5, <1>6

(* And so may distances.                                                    *)
LEMMA WrapGap ==
    ASSUME NEW w \in Nat \ {0}, NEW x \in Int, NEW y \in Int
    PROVE  ((x % w) - (y % w)) % w = (x - y) % w
<1>1. PICK p \in Int : y = w * p + (y % w)
  BY Quotient
<1>2. PICK r \in Int : r = y % w
  OBVIOUS
<1>3. PICK m \in Int : m = w * p
  OBVIOUS
<1>4. y = m + r
  BY <1>1, <1>2, <1>3
<1>5. x - r = m + (x - y) /\ x - y \in Int
  BY <1>4
<1>6. (m + (x - y)) % w = (x - y) % w
  BY <1>3, <1>5, Multiples
<1>7. ((x % w) + (0 - r)) % w = (x + (0 - r)) % w
  <2>1. 0 - r \in Int
    OBVIOUS
  <2> QED
    BY <2>1, WrapSum
<1>8. (x % w) + (0 - r) = (x % w) - r /\ x + (0 - r) = x - r
  <2>1. (x % w) \in Int
    OBVIOUS
  <2> QED
    BY <2>1
<1>9. QED
  BY <1>2, <1>5, <1>6, <1>7, <1>8

(* What a distance of less than the wrap becomes, ahead and back.           *)
LEMMA WrapApart ==
    ASSUME NEW w \in Nat \ {0}, NEW d \in Int
    PROVE  /\ d \in 0..(w - 1) => d % w = d
           /\ -d \in 1..(w - 1) => d % w = w + d
<1>1. -d \in 1..(w - 1) => d % w = w + d
  <2> SUFFICES ASSUME -d \in 1..(w - 1) PROVE d % w = w + d
    OBVIOUS
  <2>1. w * 1 + d \in 0..(w - 1) /\ 1 \in Int
    OBVIOUS
  <2>2. (w * 1 + d) % w = d % w
    BY <2>1, Multiples
  <2>3. QED
    BY <2>1, <2>2
<1>2. QED
  BY <1>1

(* Induction up to n, over the set of the numbers that have the property. *)
LEMMA Induction ==
    ASSUME NEW n \in Nat, NEW P,
           0 \in P, \A i \in 1..n : i - 1 \in P => i \in P
    PROVE  \A i \in 0..n : i \in P
<1> DEFINE T == {i \in 0..n : i \notin P}
<1> SUFFICES ASSUME T # {} PROVE FALSE
  OBVIOUS
<1>1. T \in SUBSET Nat
  OBVIOUS
<1>2. Min(T) \in T /\ \A y \in T : Min(T) <= y
  BY <1>1, MinProperties
<1>3. PICK m \in T : \A y \in T : m <= y
  BY <1>2
<1>4. m \in 1..n /\ m \notin P
  BY <1>3
<1>5. m - 1 \notin T
  BY <1>3, <1>4
<1>6. QED
  BY <1>4, <1>5

(* A nonempty set of positions has the greatest element Max chooses. *)
LEMMA MaxProperties ==
    ASSUME NEW n \in Nat, NEW T \in SUBSET (1..n), T # {}
    PROVE  Max(T) \in T /\ \A y \in T : Max(T) >= y
<1> DEFINE U == {n - y : y \in T}
<1>1. U \in SUBSET Nat /\ U # {}
  <2>1. \A y \in T : n - y \in Nat
    OBVIOUS
  <2>2. QED
    BY <2>1
<1>2. Min(U) \in U /\ \A z \in U : Min(U) <= z
  BY <1>1, MinProperties
<1>3. PICK x \in T : Min(U) = n - x
  BY <1>2
<1>4. ASSUME NEW y \in T PROVE x >= y
  <2>1. n - y \in U
    OBVIOUS
  <2>2. n - x <= n - y
    BY <1>2, <1>3, <2>1
  <2>3. QED
    BY <2>2
<1>5. QED
  BY <1>4 DEF Max

(* The greatest of the first k places, and what is left without it. *)
LEMMA PrefixMax ==
    ASSUME NEW n \in Nat, NEW k \in 1..n
    PROVE  /\ 1..k \in SUBSET (1..n) /\ 1..k # {}
           /\ Max(1..k) = k /\ (1..k) \ {Max(1..k)} = 1..(k - 1)
<1>1. 1..k \in SUBSET (1..n) /\ k \in 1..k
  OBVIOUS
<1>2. Max(1..k) \in 1..k /\ \A y \in 1..k : Max(1..k) >= y
  BY <1>1, MaxProperties
<1>3. Max(1..k) = k
  BY <1>1, <1>2
<1>4. QED
  BY <1>1, <1>3

-----------------------------------------------------------------------------
(* Folds *)

(* FoldLeft chooses a function of the sets of places, `step' being what the *)
(* item at a place does.                                                    *)
ByPlaces(f, n, base, step) ==
    \A t \in SUBSET (1..n) :
       f[t] = IF t = {} THEN base ELSE step[Max(t)][f[t \ {Max(t)}]]

OverPlaces(it, n, A, base, step) ==
    /\ it[{}] = base
    /\ \A t \in SUBSET (1..n) :
          t # {} /\ it[t \ {Max(t)}] \in A => it[t] = step[Max(t)][it[t \ {Max(t)}]]

(* What becomes of `base', one item after the other.                        *)
IsRun(v, n, base, step, end) ==
    /\ v[0] = base
    /\ \A k \in 1..n : v[k] = step[k][v[k - 1]]
    /\ v[n] = end

(* A fold over the places of a sequence exists as a function of the sets of *)
(* places still to be folded.                                               *)
LEMMA FoldExists ==
    ASSUME NEW n \in Nat, NEW A, NEW base \in A, NEW step \in [1..n -> [A -> A]]
    PROVE  \E f \in [SUBSET (1..n) -> A] : ByPlaces(f, n, base, step)
<1> USE DEF ByPlaces
<1> DEFINE Right(f, m) ==
             /\ f \in [SUBSET (1..m) -> A]
             /\ \A t \in SUBSET (1..m) :
                  f[t] = IF t = {} THEN base ELSE step[Max(t)][f[t \ {Max(t)}]]
           P == {m \in 0..n : \E f : Right(f, m)}
<1>1. 0 \in P
  <2> DEFINE f == [t \in SUBSET (1..0) |-> base]
  <2>1. SUBSET (1..0) = {{}}
    OBVIOUS
  <2>2. Right(f, 0)
    BY <2>1
  <2>3. \E h : Right(h, 0)
    <3> HIDE DEF Right, f
    <3>1. QED
      BY <2>2
  <2> HIDE DEF Right
  <2>4. QED
    BY <2>3
<1>2. ASSUME NEW m \in 1..n, m - 1 \in P PROVE m \in P
  <2>1. PICK f : Right(f, m - 1)
    BY <1>2
  <2> DEFINE g == [t \in SUBSET (1..m) |->
                     IF m \in t THEN step[m][f[t \ {m}]] ELSE f[t]]
  <2>2. \A t \in SUBSET (1..m) : m \in t => Max(t) = m /\ t \ {m} \in SUBSET (1..(m - 1))
    <3> SUFFICES ASSUME NEW t \in SUBSET (1..m), m \in t
                 PROVE  Max(t) = m /\ t \ {m} \in SUBSET (1..(m - 1))
      OBVIOUS
    <3>1. m \in Nat /\ t # {}
      OBVIOUS
    <3>2. Max(t) \in t /\ \A y \in t : Max(t) >= y
      BY <3>1, MaxProperties
    <3>3. Max(t) \in 1..m /\ Max(t) >= m
      BY <3>2
    <3>4. Max(t) = m
      BY <3>1, <3>3
    <3>5. t \ {m} \in SUBSET (1..(m - 1))
      OBVIOUS
    <3>6. QED
      BY <3>4, <3>5
  <2>3. \A t \in SUBSET (1..m) : m \notin t => t \in SUBSET (1..(m - 1))
    OBVIOUS
  <2>4. \A t \in SUBSET (1..m) : g[t] \in A
    <3> SUFFICES ASSUME NEW t \in SUBSET (1..m) PROVE g[t] \in A
      OBVIOUS
    <3>1. CASE m \in t
      <4>1. f[t \ {m}] \in A
        BY <2>1, <2>2, <3>1
      <4>2. step[m][f[t \ {m}]] \in A
        BY <4>1
      <4>3. QED
        BY <3>1, <4>2
    <3>2. CASE m \notin t
      BY <2>1, <2>3, <3>2
    <3>3. QED
      BY <3>1, <3>2
  <2>5. \A t \in SUBSET (1..m) :
          g[t] = IF t = {} THEN base ELSE step[Max(t)][g[t \ {Max(t)}]]
    <3> SUFFICES ASSUME NEW t \in SUBSET (1..m)
                 PROVE  g[t] = IF t = {} THEN base
                               ELSE step[Max(t)][g[t \ {Max(t)}]]
      OBVIOUS
    <3>1. CASE m \in t
      <4>1. Max(t) = m /\ t \ {m} \in SUBSET (1..(m - 1)) /\ t # {}
        BY <2>2, <3>1
      <4>2. t \ {m} \in SUBSET (1..m) /\ m \notin t \ {m}
        OBVIOUS
      <4>3. g[t \ {m}] = f[t \ {m}]
        BY <4>2
      <4>4. g[t] = step[m][f[t \ {m}]]
        BY <3>1
      <4>5. QED
        BY <4>1, <4>3, <4>4
    <3>2. CASE m \notin t /\ t # {}
      <4>1. t \in SUBSET (1..(m - 1))
        BY <2>3, <3>2
      <4>2. Max(t) \in t
        <5>1. m \in Nat
          OBVIOUS
        <5>2. QED
          BY <3>2, <5>1, MaxProperties
      <4>3. t \ {Max(t)} \in SUBSET (1..m) /\ m \notin t \ {Max(t)}
        BY <3>2
      <4>4. g[t] = f[t] /\ g[t \ {Max(t)}] = f[t \ {Max(t)}]
        BY <3>2, <4>3
      <4>5. f[t] = step[Max(t)][f[t \ {Max(t)}]]
        BY <2>1, <3>2, <4>1
      <4>6. QED
        BY <3>2, <4>4, <4>5
    <3>3. CASE t = {}
      <4>1. {} \in SUBSET (1..(m - 1)) /\ m \notin {}
        OBVIOUS
      <4>2. f[{}] = base
        BY <2>1, <4>1
      <4>3. QED
        BY <3>3, <4>2
    <3>4. QED
      BY <3>1, <3>2, <3>3
  <2>6. Right(g, m)
    <3>1. g = [t \in SUBSET (1..m) |-> g[t]]
      OBVIOUS
    <3> HIDE DEF g
    <3>2. g \in [SUBSET (1..m) -> A]
      BY <2>4, <3>1
    <3>3. QED
      BY <2>5, <3>1, <3>2
  <2>7. \E h : Right(h, m)
    <3> HIDE DEF Right, g
    <3>1. QED
      BY <2>6
  <2> HIDE DEF Right
  <2>8. QED
    BY <2>7
<1>3. n \in P
  <2> HIDE DEF P
  <2>1. \A i \in 0..n : i \in P
    BY <1>1, <1>2, Induction
  <2>2. QED
    BY <2>1
<1>4. QED
  BY <1>3

(* What that function makes of the first items, one after the other.       *)
LEMMA FoldChain ==
    ASSUME NEW n \in Nat, NEW A, NEW base \in A, NEW step \in [1..n -> [A -> A]],
           NEW it, OverPlaces(it, n, A, base, step)
    PROVE  \E v \in [0..n -> A] : IsRun(v, n, base, step, it[1..n])
<1> USE DEF IsRun, OverPlaces
<1> DEFINE v == [k \in 0..n |-> it[1..k]]
<1>1. v[0] = base
  <2>1. 1..0 = {}
    OBVIOUS
  <2>2. QED
    BY <2>1
<1>2. \A k \in 1..n : v[k - 1] \in A => v[k] = step[k][v[k - 1]]
  <2> SUFFICES ASSUME NEW k \in 1..n, v[k - 1] \in A PROVE v[k] = step[k][v[k - 1]]
    OBVIOUS
  <2>1. 1..k \in SUBSET (1..n) /\ 1..k # {} /\ Max(1..k) = k
        /\ (1..k) \ {Max(1..k)} = 1..(k - 1)
    BY PrefixMax
  <2>2. v[k - 1] = it[1..(k - 1)] /\ v[k] = it[1..k]
    OBVIOUS
  <2> HIDE DEF v
  <2>3. QED
    BY <2>1, <2>2
<1>3. \A k \in 0..n : v[k] \in A
  <2> DEFINE P == {k \in 0..n : v[k] \in A}
  <2> HIDE DEF v
  <2>1. 0 \in P
    BY <1>1
  <2>2. \A i \in 1..n : i - 1 \in P => i \in P
    BY <1>2
  <2> HIDE DEF P
  <2>3. \A i \in 0..n : i \in P
    BY <2>1, <2>2, Induction
  <2>4. QED
    BY <2>3 DEF P
<1>4. v \in [0..n -> A] /\ v[n] = it[1..n]
  BY <1>3
<1> HIDE DEF v
<1>5. \A k \in 1..n : v[k] = step[k][v[k - 1]]
  BY <1>2, <1>3
<1>6. QED
  BY <1>1, <1>4, <1>5

(* What all items keep within A ends in A.                                  *)
LEMMA FoldStays ==
    ASSUME NEW n \in Nat, NEW A, NEW base \in A, NEW step \in [1..n -> [A -> A]],
           NEW it, OverPlaces(it, n, A, base, step)
    PROVE  it[1..n] \in A
<1>1. PICK v \in [0..n -> A] : IsRun(v, n, base, step, it[1..n])
  BY FoldChain, Zenon
<1>2. v[n] \in A
  BY <1>1
<1>3. QED
  BY <1>1, <1>2 DEF IsRun

-----------------------------------------------------------------------------
(* Decoding *)

(* A list of reasons with one that is given has a first one.                *)
LEMMA FirstGiven ==
    ASSUME NEW reasons, NEW n \in Nat, DOMAIN reasons = 1..n,
           NEW i \in 1..n, reasons[i] # None
    PROVE  FirstOf(reasons) # None
<1> DEFINE given == {j \in DOMAIN reasons : reasons[j] # None}
<1>1. given \in SUBSET Nat /\ given # {}
  OBVIOUS
<1>2. Min(given) \in given
  BY <1>1, MinProperties
<1>3. QED
  BY <1>1, <1>2 DEF FirstOf

HeaderBad(d) ==
    \/ d.size < HeaderSize \/ d.magic # "UWBT" \/ d.version # Version
    \/ ~(d.flags \subseteq FlagsKnown) \/ d.reserved # 0
    \/ d.tag \notin Tags \/ d.count \notin 1..CountMax \/ d.anchorN < 1
    \/ d.size # PacketSize(d.count, d.anchorN)

(* A datagram whose header is wrong is dropped.                             *)
LEMMA HeaderRejected ==
    ASSUME NEW d, HeaderBad(d)
    PROVE  Rejection(d) # None
<1> DEFINE h == HeaderChecks(d)
           c == FirstOf([i \in DOMAIN d.cycles |-> FirstOf(CycleChecks(d.cycles[i]))])
<1>1. DOMAIN h = 1..8 /\ 8 \in Nat
  BY DEF HeaderChecks
<1>2. /\ h[1] = Check("too_short", d.size < HeaderSize)
      /\ h[2] = Check("bad_magic", d.magic # "UWBT")
      /\ h[3] = Check("bad_version", d.version # Version)
      /\ h[4] = Check("bad_reserved", ~(d.flags \subseteq FlagsKnown) \/ d.reserved # 0)
      /\ h[5] = Check("bad_tag_id", d.tag \notin Tags)
      /\ h[6] = Check("bad_count", d.count \notin 1..CountMax)
      /\ h[7] = Check("bad_anchor_n", d.anchorN < 1)
      /\ h[8] = Check("length_mismatch", d.size # PacketSize(d.count, d.anchorN))
  BY DEF HeaderChecks
<1> HIDE DEF h, c
<1>3. /\ d.size < HeaderSize => h[1] = "too_short"
      /\ d.magic # "UWBT" => h[2] = "bad_magic"
      /\ d.version # Version => h[3] = "bad_version"
      /\ ~(d.flags \subseteq FlagsKnown) \/ d.reserved # 0 => h[4] = "bad_reserved"
      /\ d.tag \notin Tags => h[5] = "bad_tag_id"
      /\ d.count \notin 1..CountMax => h[6] = "bad_count"
      /\ d.anchorN < 1 => h[7] = "bad_anchor_n"
      /\ d.size # PacketSize(d.count, d.anchorN) => h[8] = "length_mismatch"
  BY <1>2 DEF Check
<1>4. \A i \in 1..8 : h[i] \in Reasons => FirstOf(h) # None
  <2> SUFFICES ASSUME NEW i \in 1..8, h[i] \in Reasons PROVE FirstOf(h) # None
    OBVIOUS
  <2>1. h[i] # None
    BY PacketAssumption
  <2>2. QED
    BY <1>1, <2>1, FirstGiven
<1>5. FirstOf(h) # None
  BY <1>3, <1>4 DEF HeaderBad, Reasons
<1>6. FirstOf(<<FirstOf(h), c>>) # None
  <2> DEFINE both == <<FirstOf(h), c>>
  <2>1. DOMAIN both = 1..2 /\ both[1] = FirstOf(h) /\ 2 \in Nat /\ 1 \in 1..2
    OBVIOUS
  <2> HIDE DEF both
  <2>2. FirstOf(both) # None
    BY <1>5, <2>1, FirstGiven
  <2>3. QED
    BY <2>2 DEF both
<1>7. QED
  BY <1>6 DEF Rejection, h, c

RangeBad(r) == r.anchor \notin Anchors \/ r.kf > KfMax

CycleBad(c) ==
    \/ ~(c.flags \subseteq FixFlagsKnown)
    \/ \E i \in DOMAIN c.ranges : RangeBad(c.ranges[i])

(* One wrong range is enough.                                               *)
LEMMA RangeRejected ==
    ASSUME NEW r, RangeBad(r)
    PROVE  FirstOf(RangeChecks(r)) # None
<1> DEFINE h == RangeChecks(r)
<1>1. DOMAIN h = 1..2 /\ 2 \in Nat
      /\ h[1] = Check("bad_anchor_id", r.anchor \notin Anchors)
      /\ h[2] = Check("bad_reserved", r.kf > KfMax)
  BY DEF RangeChecks
<1> HIDE DEF h
<1>2. PICK i \in 1..2 : h[i] \in Reasons
  BY <1>1 DEF RangeBad, Check, Reasons
<1>3. h[i] # None
  BY <1>2, PacketAssumption
<1>4. FirstOf(h) # None
  BY <1>1, <1>3, FirstGiven
<1>5. QED
  BY <1>4 DEF h

(* And so is one wrong cycle, whatever the others are: the datagram is      *)
(* dropped whole.                                                           *)
LEMMA CycleRejected ==
    ASSUME NEW d, NEW n \in Nat, DOMAIN d.cycles = 1..n, NEW i \in 1..n,
           NEW k \in Nat, DOMAIN d.cycles[i].ranges = 1..k, CycleBad(d.cycles[i])
    PROVE  Rejection(d) # None
<1> DEFINE c == d.cycles[i]
           ranges == [j \in DOMAIN c.ranges |-> FirstOf(RangeChecks(c.ranges[j]))]
           h == CycleChecks(c)
           cycles == [j \in DOMAIN d.cycles |-> FirstOf(CycleChecks(d.cycles[j]))]
           both == <<FirstOf(HeaderChecks(d)), FirstOf(cycles)>>
<1>1. /\ DOMAIN h = 1..2 /\ 2 \in Nat /\ 2 \in 1..2 /\ 1 \in 1..2
      /\ h[1] = Check("bad_reserved", ~(c.flags \subseteq FixFlagsKnown))
      /\ h[2] = FirstOf(ranges)
  BY DEF CycleChecks
<1> HIDE DEF h
<1>2. FirstOf(h) # None
  <2>1. CASE ~(c.flags \subseteq FixFlagsKnown)
    <3>1. h[1] # None
      BY <1>1, <2>1, PacketAssumption DEF Check, Reasons
    <3>2. QED
      BY <1>1, <3>1, FirstGiven
  <2>2. CASE \E j \in DOMAIN c.ranges : RangeBad(c.ranges[j])
    <3>1. PICK j \in 1..k : RangeBad(c.ranges[j])
      BY <2>2
    <3>2. ranges[j] # None /\ DOMAIN ranges = 1..k
      BY <3>1, RangeRejected
    <3> HIDE DEF ranges
    <3>3. FirstOf(ranges) # None
      BY <3>2, FirstGiven
    <3>4. QED
      BY <1>1, <3>3, FirstGiven
  <2>3. QED
    BY <2>1, <2>2 DEF CycleBad
<1>3. cycles[i] # None /\ DOMAIN cycles = 1..n
  BY <1>2 DEF h
<1> HIDE DEF cycles
<1>4. FirstOf(cycles) # None
  BY <1>3, FirstGiven
<1>5. DOMAIN both = 1..2 /\ both[2] = FirstOf(cycles)
  OBVIOUS
<1> HIDE DEF both
<1>6. FirstOf(both) # None
  BY <1>1, <1>4, <1>5, FirstGiven
<1>7. QED
  BY <1>6 DEF Rejection, both, cycles

-----------------------------------------------------------------------------
(* What a tag sends *)

(* The datagrams of a session: runs of its cycles.                          *)
Runs ==
    {m \in [key : Keys, first : Nat, count : Nat, last : BOOLEAN] :
        m.count >= 1 /\ m.first + m.count <= Length[m.key]}

EndOf(m) == m.first + m.count

Started == origin \in [seq : 0..(SeqWrap - 1), t : 0..(TimeWrap - 1)]

(* The cycles as the packet has them.                                       *)
CycleRecords ==
    [seq : 0..(SeqWrap - 1), t : 0..(TimeWrap - 1), flags : SUBSET FixFlagsKnown,
     used : Nat, x : Int, resid : Nat, kx : Int, krej : Nat, ranges : Seq(RangeRecords)]

(* What a tag sends of a cycle has the types of its record.                 *)
LEMMA CycleType ==
    ASSUME Started, NEW k \in Keys, NEW i \in 0..(Length[k] - 1)
    PROVE  Cycle(i) \in CycleRecords
<1>1. CycleOf(i) \in Measurements
  BY IngestAssumption
<1>2. Length[k] \in Nat /\ SeqWrap \in Nat \ {0} /\ TimeWrap \in Nat \ {0}
  BY IngestAssumption, PacketAssumption
<1>3. (origin.seq + i) % SeqWrap \in 0..(SeqWrap - 1)
  BY <1>2, Remainder DEF Started
<1>4. (origin.t + i) % TimeWrap \in 0..(TimeWrap - 1)
  BY <1>2, Remainder DEF Started
<1>5. QED
  BY <1>1, <1>3, <1>4 DEF Cycle, CycleRecords, Measurements

(* What a packet is made of.                                                *)
LEMMA PacketParts ==
    ASSUME Started, NEW m \in Runs
    PROVE  LET p == PacketOf(m)
           IN  /\ KeyOf(p) = m.key /\ m.key \in Keys
               /\ m.count \in Nat \ {0} /\ m.first \in Nat /\ Length[m.key] \in Nat
               /\ EndOf(m) \in Nat /\ EndOf(m) = m.first + m.count
               /\ EndOf(m) <= Length[m.key]
               /\ p.tag = m.key[1] /\ p.boot = m.key[2]
               /\ p.last = m.last /\ p.last \in BOOLEAN
               /\ p.seq = (origin.seq + m.first) % SeqWrap
               /\ p.seq \in 0..(SeqWrap - 1) /\ p.t \in 0..(TimeWrap - 1)
               /\ p.cycles \in Seq(CycleRecords) /\ Len(p.cycles) = m.count
               /\ DOMAIN p.cycles = 1..m.count
               /\ \A i \in 1..m.count : /\ m.first + i - 1 \in 0..(Length[m.key] - 1)
                                        /\ p.cycles[i] = Cycle(m.first + i - 1)
<1> DEFINE p == PacketOf(m)
<1>1. /\ m.key \in Keys /\ m.count \in Nat /\ m.first \in Nat /\ m.count >= 1
      /\ m.last \in BOOLEAN /\ m.first + m.count <= Length[m.key]
  BY DEF Runs
<1>2. Length[m.key] \in Nat
  BY <1>1, IngestAssumption
<1>3. EndOf(m) \in Nat /\ EndOf(m) = m.first + m.count /\ EndOf(m) <= Length[m.key]
  BY <1>1 DEF EndOf
<1>4. /\ p.tag = m.key[1] /\ p.boot = m.key[2] /\ p.last = m.last
      /\ p.seq = Cycle(m.first).seq /\ p.t = Cycle(m.first).t
      /\ p.cycles = [i \in 1..m.count |-> Cycle(m.first + i - 1)]
  BY DEF PacketOf
<1>5. KeyOf(p) = m.key
  <2>1. m.key \in Tags \X {k[2] : k \in Keys}
    BY <1>1, IngestAssumption
  <2>2. QED
    BY <1>4, <2>1 DEF KeyOf
<1>6. \A i \in 1..m.count : m.first + i - 1 \in 0..(Length[m.key] - 1)
  <2>1. PICK a \in Nat, n \in Nat, l \in Nat :
           a = m.first /\ n = m.count /\ l = Length[m.key] /\ a + n <= l
    BY <1>1, <1>2
  <2>2. \A i \in 1..n : a + i - 1 \in 0..(l - 1)
    BY <2>1
  <2>3. QED
    BY <2>1, <2>2
<1>7. \A i \in 1..m.count : Cycle(m.first + i - 1) \in CycleRecords
  BY <1>1, <1>6, CycleType
<1>8. p.cycles \in Seq(CycleRecords) /\ Len(p.cycles) = m.count
  <2>1. PICK n \in Nat : n = m.count
    BY <1>1
  <2>2. PICK q : q = p.cycles /\ q = [i \in 1..n |-> Cycle(m.first + i - 1)]
    BY <1>4, <2>1
  <2>3. q \in [1..n -> CycleRecords]
    BY <1>7, <2>1, <2>2
  <2>4. q \in Seq(CycleRecords) /\ Len(q) = n
    BY <2>3
  <2>5. QED
    BY <2>1, <2>2, <2>4
<1>9. m.first \in 0..(Length[m.key] - 1)
  <2>1. 1 \in 1..m.count /\ m.first + 1 - 1 = m.first
    BY <1>1
  <2>2. QED
    BY <1>6, <2>1
<1>10. Cycle(m.first) \in CycleRecords
  BY <1>1, <1>9, CycleType
<1>11. p.seq \in 0..(SeqWrap - 1) /\ p.t \in 0..(TimeWrap - 1)
  BY <1>4, <1>10 DEF CycleRecords
<1>12. p.seq = (origin.seq + m.first) % SeqWrap
  BY <1>4 DEF Cycle
<1>13. m.count \in Nat \ {0}
  BY <1>1
<1> HIDE DEF p
<1>14. /\ p.last \in BOOLEAN
       /\ DOMAIN p.cycles = 1..m.count
       /\ \A i \in 1..m.count : p.cycles[i] = Cycle(m.first + i - 1)
  BY <1>1, <1>4
<1>15. QED
  BY <1>1, <1>2, <1>3, <1>4, <1>5, <1>6, <1>8, <1>11, <1>12, <1>13, <1>14 DEF p

(* The packet a datagram decodes to is the packet that was encoded, across  *)
(* the wraps of seq and t.                                                  *)
THEOREM RoundTrip ==
    ASSUME Started, NEW m \in Runs, Encodable(PacketOf(m))
    PROVE  Decoded(Encoded(PacketOf(m))) = PacketOf(m)
<1> DEFINE p == PacketOf(m)
           d == Encoded(p)
           n == m.count
<1>1. /\ p.cycles \in Seq(CycleRecords) /\ Len(p.cycles) = n /\ DOMAIN p.cycles = 1..n
      /\ p.last \in BOOLEAN /\ p.t \in 0..(TimeWrap - 1)
  BY PacketParts
<1>2. p = [tag |-> p.tag, boot |-> p.boot, last |-> p.last,
           seq |-> p.seq, t |-> p.t, cycles |-> p.cycles]
  BY DEF PacketOf
<1>3. /\ d.tag = p.tag /\ d.boot = p.boot /\ d.seq = p.seq /\ d.t = p.t /\ d.count = n
      /\ d.flags = IF p.last THEN {"last"} ELSE {}
      /\ DOMAIN d.cycles = 1..n
      /\ \A i \in 1..n :
           d.cycles[i] = [dt |-> (p.cycles[i].t - p.t) % TimeWrap, flags |-> p.cycles[i].flags,
                          used |-> p.cycles[i].used, x |-> p.cycles[i].x,
                          resid |-> p.cycles[i].resid, kx |-> p.cycles[i].kx,
                          krej |-> p.cycles[i].krej, ranges |-> p.cycles[i].ranges]
  <2> HIDE DEF p
  <2>1. QED
    BY <1>1 DEF Encoded
<1>4. \A i \in 1..n : p.cycles[i].seq = (p.seq + i - 1) % SeqWrap
  BY <1>1 DEF Encodable
<1> HIDE DEF p, d
<1>5. ("last" \in d.flags) = p.last
  <2>1. p.last => d.flags = {"last"}
    BY <1>3, Zenon
  <2>2. ~p.last => d.flags = {}
    BY <1>3, Zenon
  <2>3. PICK b \in BOOLEAN : b = p.last
    BY <1>1, Zenon
  <2>4. "last" \in d.flags <=> b
    <3>1. b => "last" \in d.flags
      BY <2>1, <2>3
    <3>2. ~b => "last" \notin d.flags
      BY <2>2, <2>3
    <3>3. QED
      BY <3>1, <3>2
  <2>5. ("last" \in d.flags) = b
    BY <2>4
  <2>6. QED
    BY <2>3, <2>5, Zenon
<1>6. ASSUME NEW i \in 1..n PROVE DecodedCycle(d, i) = p.cycles[i]
  <2>1. PICK c \in CycleRecords : c = p.cycles[i]
    BY <1>1, ElementOfSeq
  <2>2. /\ c = [seq |-> c.seq, t |-> c.t, flags |-> c.flags, used |-> c.used, x |-> c.x,
                resid |-> c.resid, kx |-> c.kx, krej |-> c.krej, ranges |-> c.ranges]
        /\ c.t \in 0..(TimeWrap - 1)
    BY DEF CycleRecords
  <2>3. (p.t + ((c.t - p.t) % TimeWrap)) % TimeWrap = c.t
    BY <1>1, <2>2, WrapBack, PacketAssumption
  <2>4. c.seq = (p.seq + i - 1) % SeqWrap
    BY <1>4, <2>1
  <2>5. d.cycles[i] = [dt |-> (c.t - p.t) % TimeWrap, flags |-> c.flags,
                       used |-> c.used, x |-> c.x, resid |-> c.resid, kx |-> c.kx,
                       krej |-> c.krej, ranges |-> c.ranges]
    BY <1>3, <2>1
  <2>6. DecodedCycle(d, i) =
           [seq |-> (d.seq + i - 1) % SeqWrap,
            t |-> (d.t + ((c.t - p.t) % TimeWrap)) % TimeWrap,
            flags |-> c.flags, used |-> c.used, x |-> c.x, resid |-> c.resid,
            kx |-> c.kx, krej |-> c.krej, ranges |-> c.ranges]
    BY <2>5 DEF DecodedCycle
  <2>7. DecodedCycle(d, i) =
           [seq |-> c.seq, t |-> c.t, flags |-> c.flags, used |-> c.used, x |-> c.x,
            resid |-> c.resid, kx |-> c.kx, krej |-> c.krej, ranges |-> c.ranges]
    BY <1>3, <2>3, <2>4, <2>6
  <2>8. QED
    BY <2>1, <2>2, <2>7
<1>7. [i \in 1..d.count |-> DecodedCycle(d, i)] = p.cycles
  <2>1. p.cycles = [i \in 1..n |-> p.cycles[i]]
    BY <1>1
  <2>2. [i \in 1..n |-> DecodedCycle(d, i)] = [i \in 1..n |-> p.cycles[i]]
    BY <1>6
  <2>3. QED
    BY <1>3, <2>1, <2>2
<1>8. Decoded(d) = [tag |-> p.tag, boot |-> p.boot, last |-> p.last,
                    seq |-> p.seq, t |-> p.t, cycles |-> p.cycles]
  BY <1>3, <1>5, <1>7 DEF Decoded
<1>9. QED
  BY <1>2, <1>8 DEF p, d

(* A damaged datagram is recognised, whatever of it was damaged.            *)
THEOREM DamageRejected ==
    ASSUME Started, NEW m \in Runs, Encodable(PacketOf(m)),
           NEW d \in Damage(Encoded(PacketOf(m)))
    PROVE  Rejection(d) # None
<1> DEFINE p == PacketOf(m)
           e == Encoded(p)
           n == m.count
<1>1. /\ p.cycles \in Seq(CycleRecords) /\ Len(p.cycles) = n /\ DOMAIN p.cycles = 1..n
      /\ n \in Nat \ {0} /\ 1 \in 1..n
  BY PacketParts
<1>2. PICK r \in Seq(RangeRecords) : r = p.cycles[1].ranges
  <2> HIDE DEF p
  <2>1. p.cycles[1] \in CycleRecords
    BY <1>1, ElementOfSeq
  <2>2. QED
    BY <2>1 DEF CycleRecords
<1>3. PICK k \in Nat : k = Len(r) /\ DOMAIN r = 1..k
  BY LenProperties
<1>4. /\ DOMAIN e = {"size", "magic", "version", "flags", "tag", "boot", "seq", "t",
                     "count", "anchorN", "reserved", "cycles"}
      /\ e.size = PacketSize(n, k) /\ e.count = n /\ e.anchorN = k
      /\ DOMAIN e.cycles = 1..n
      /\ DOMAIN e.cycles[1] = {"dt", "flags", "used", "x", "resid", "kx", "krej", "ranges"}
      /\ e.cycles[1].ranges = r
  <2> HIDE DEF p
  <2>1. QED
    BY <1>1, <1>2, <1>3 DEF Encoded
<1>5. e.size = 24 + n * (30 + 9 * k) /\ e.size \in Nat
  BY <1>1, <1>4 DEF PacketSize, HeaderSize, CycleSize, RangeSize
<1> DEFINE record(c) == [e EXCEPT !.cycles[1] = c]
           c1 == [e.cycles[1] EXCEPT !.flags = @ \cup {"unknown"}]
           c2 == [e.cycles[1] EXCEPT !.ranges[1].anchor = None]
           c3 == [e.cycles[1] EXCEPT !.ranges[1].kf = KfMax + 1]
<1>6. \/ d = [e EXCEPT !.size = HeaderSize - 1] \/ d = [e EXCEPT !.size = @ - 1]
      \/ d = [e EXCEPT !.magic = "?"] \/ d = [e EXCEPT !.version = Version - 1]
      \/ d = [e EXCEPT !.flags = @ \cup {"unknown"}] \/ d = [e EXCEPT !.reserved = 1]
      \/ d = [e EXCEPT !.tag = None] \/ d = [e EXCEPT !.count = 0]
      \/ d = [e EXCEPT !.count = @ + 1] \/ d = [e EXCEPT !.anchorN = 0]
      \/ d = [e EXCEPT !.anchorN = @ + 1]
      \/ d = record(c1) \/ d = record(c2) \/ d = record(c3)
  BY DEF Damage
<1>7. ASSUME NEW c, DOMAIN c.ranges = 1..k, CycleBad(c), d = record(c)
      PROVE  Rejection(d) # None
  <2> HIDE DEF e
  <2>1. DOMAIN d.cycles = 1..n /\ d.cycles[1] = c
    BY <1>1, <1>4, <1>7
  <2>2. QED
    BY <1>1, <1>3, <1>7, <2>1, CycleRejected
<1> HIDE DEF p, e, record
<1>8. CASE d = [e EXCEPT !.size = HeaderSize - 1]
  BY <1>4, <1>8, HeaderRejected DEF HeaderBad, HeaderSize
<1>9. CASE d = [e EXCEPT !.size = @ - 1]
  <2>1. d.size # PacketSize(d.count, d.anchorN)
    <3>1. d.size = e.size - 1 /\ d.count = n /\ d.anchorN = k
      BY <1>4, <1>9
    <3>2. PICK a \in Nat : a = e.size
      BY <1>5
    <3>3. a - 1 # a
      OBVIOUS
    <3>4. QED
      BY <1>4, <3>1, <3>2, <3>3
  <2>2. QED
    BY <2>1, HeaderRejected DEF HeaderBad
<1>10. CASE d = [e EXCEPT !.magic = "?"] \/ d = [e EXCEPT !.version = Version - 1]
  BY <1>4, <1>10, HeaderRejected DEF HeaderBad, Version
<1>11. CASE d = [e EXCEPT !.flags = @ \cup {"unknown"}] \/ d = [e EXCEPT !.reserved = 1]
  <2>1. "unknown" \in d.flags \/ d.reserved # 0
    BY <1>4, <1>11
  <2>2. QED
    BY <2>1, HeaderRejected DEF HeaderBad, FlagsKnown
<1>12. CASE d = [e EXCEPT !.tag = None]
  BY <1>4, <1>12, HeaderRejected, PacketAssumption DEF HeaderBad
<1>13. CASE d = [e EXCEPT !.count = 0]
  BY <1>4, <1>13, HeaderRejected DEF HeaderBad
<1>14. CASE d = [e EXCEPT !.count = @ + 1]
  <2>1. d.size = e.size /\ d.count = n + 1 /\ d.anchorN = k
    BY <1>4, <1>14
  <2>2. PacketSize(n + 1, k) = 24 + (n + 1) * (30 + 9 * k)
    BY DEF PacketSize, HeaderSize, CycleSize, RangeSize
  <2>3. (n + 1) * (30 + 9 * k) = n * (30 + 9 * k) + (30 + 9 * k)
    BY <1>1
  <2>4. PICK a \in Int : a = n * (30 + 9 * k)
    BY <1>1
  <2>5. d.size # PacketSize(d.count, d.anchorN)
    BY <1>5, <2>1, <2>2, <2>3, <2>4
  <2>6. QED
    BY <2>5, HeaderRejected DEF HeaderBad
<1>15. CASE d = [e EXCEPT !.anchorN = 0]
  BY <1>4, <1>15, HeaderRejected DEF HeaderBad
<1>16. CASE d = [e EXCEPT !.anchorN = @ + 1]
  <2>1. d.size = e.size /\ d.count = n /\ d.anchorN = k + 1
    BY <1>4, <1>16
  <2>2. PacketSize(n, k + 1) = 24 + n * (30 + 9 * (k + 1))
    BY DEF PacketSize, HeaderSize, CycleSize, RangeSize
  <2>3. n * (30 + 9 * (k + 1)) = n * (30 + 9 * k) + n * 9
    <3>1. PICK u \in Nat : u = 30 + 9 * k
      OBVIOUS
    <3>2. 30 + 9 * (k + 1) = u + 9
      BY <3>1
    <3>3. n * (u + 9) = n * u + n * 9
      <4>1. n \in Int /\ u \in Int /\ 9 \in Int
        BY <1>1
      <4> HIDE DEF n
      <4>2. QED
        BY <4>1, Distributes
    <3>4. QED
      BY <3>1, <3>2, <3>3
  <2>4. PICK a \in Int : a = n * (30 + 9 * k)
    BY <1>1
  <2>5. d.size # PacketSize(d.count, d.anchorN)
    <3>1. PICK b \in Nat \ {0} : b = n
      BY <1>1
    <3>2. d.size = 24 + a
      BY <1>5, <2>1, <2>4
    <3>3. PacketSize(d.count, d.anchorN) = 24 + (a + b * 9)
      BY <2>1, <2>2, <2>3, <2>4, <3>1
    <3>4. 24 + a # 24 + (a + b * 9)
      OBVIOUS
    <3>5. QED
      BY <3>2, <3>3, <3>4
  <2>6. QED
    BY <2>5, HeaderRejected DEF HeaderBad
<1>17. CASE d = record(c1)
  <2>1. DOMAIN c1.ranges = 1..k /\ "unknown" \in c1.flags
    BY <1>3, <1>4
  <2>2. CycleBad(c1)
    BY <2>1 DEF CycleBad, FixFlagsKnown
  <2>3. QED
    BY <1>7, <1>17, <2>1, <2>2
<1>18. CASE k = 0
  <2>1. d.anchorN = 0 \/ d = [e EXCEPT !.anchorN = @ + 1]
    BY <1>4, <1>6, <1>18 DEF record
  <2>2. QED
    BY <1>16, <2>1, HeaderRejected DEF HeaderBad
<1>19. CASE k # 0 /\ (d = record(c2) \/ d = record(c3))
  <2>1. 1 \in 1..k
    BY <1>19
  <2>2. r[1] \in RangeRecords
    BY <1>3, <2>1
  <2>3. /\ c2.ranges = [r EXCEPT ![1].anchor = None]
        /\ c3.ranges = [r EXCEPT ![1].kf = KfMax + 1]
    BY <1>4
  <2>4. /\ DOMAIN c2.ranges = 1..k /\ c2.ranges[1] = [r[1] EXCEPT !.anchor = None]
        /\ DOMAIN c3.ranges = 1..k /\ c3.ranges[1] = [r[1] EXCEPT !.kf = KfMax + 1]
    BY <1>3, <2>1, <2>3
  <2>5. c2.ranges[1].anchor = None /\ c3.ranges[1].kf = KfMax + 1
    BY <2>2, <2>4 DEF RangeRecords
  <2>6. CycleBad(c2) /\ CycleBad(c3)
    <3>1. RangeBad(c2.ranges[1]) /\ RangeBad(c3.ranges[1])
      BY <2>5, PacketAssumption DEF RangeBad, KfMax
    <3>2. 1 \in DOMAIN c2.ranges /\ 1 \in DOMAIN c3.ranges
      BY <2>1, <2>4
    <3> HIDE DEF c2, c3
    <3>3. QED
      BY <3>1, <3>2 DEF CycleBad
  <2>7. QED
    BY <1>7, <1>19, <2>4, <2>6
<1>20. QED
  BY <1>6, <1>8, <1>9, <1>10, <1>11, <1>12, <1>13, <1>14, <1>15, <1>16, <1>17, <1>18, <1>19

-----------------------------------------------------------------------------
(* Under way *)

Apart(m, n) == m = n \/ EndOf(m) <= n.first \/ EndOf(n) <= m.first

(* No cycle is in two of the datagrams under way.                           *)
Sent ==
    /\ Started
    /\ net \subseteq Runs
    /\ \A m \in net : Encodable(PacketOf(m))
    /\ \A m, n \in net : m.key = n.key => Apart(m, n)

(* The datagrams of a session, however it splits its cycles, are apart.     *)
LEMMA DatagramsApart ==
    ASSUME NEW k \in Keys, NEW l \in Keys, NEW starts \in Splits(Length[k])
    PROVE  /\ Datagrams(k, starts) \subseteq Runs
           /\ \A m, n \in Datagrams(k, starts) : m.key = k /\ Apart(m, n)
<1> DEFINE len == Length[k]
           after(first) == {i \in starts \cup {len} : i > first}
           end(first) == Min(after(first))
           run(first) == [key |-> k, first |-> first, count |-> end(first) - first,
                          last |-> k \in Ending /\ end(first) = len]
<1>1. len \in Nat
  BY IngestAssumption
<1>2. starts \in SUBSET (0..(len - 1))
  BY DEF Splits
<1>3. ASSUME NEW f \in starts
      PROVE  /\ f \in Nat /\ end(f) \in Nat /\ end(f) > f /\ end(f) <= len
             /\ \A g \in starts : g > f => end(f) <= g
  <2>1. f \in Nat /\ f < len
    BY <1>1, <1>2
  <2>2. after(f) \in SUBSET Nat /\ len \in after(f)
    <3> HIDE DEF len
    <3>1. starts \cup {len} \in SUBSET Nat
      <4>1. 0..(len - 1) \in SUBSET Nat
        BY <1>1
      <4>2. QED
        BY <1>1, <1>2, <4>1
    <3>2. len \in starts \cup {len} /\ len > f
      BY <1>1, <2>1
    <3>3. QED
      BY <3>1, <3>2
  <2>3. end(f) \in after(f) /\ \A y \in after(f) : end(f) <= y
    BY <2>2, MinProperties
  <2>4. \A g \in starts : g > f => g \in after(f)
    OBVIOUS
  <2>5. end(f) \in Nat /\ end(f) > f
    BY <2>2, <2>3
  <2> HIDE DEF end
  <2>6. QED
    BY <2>1, <2>2, <2>3, <2>4, <2>5
<1>4. Datagrams(k, starts) = {run(f) : f \in starts}
  BY DEF Datagrams
<1> HIDE DEF end
<1>5. ASSUME NEW f \in starts
      PROVE  run(f) \in Runs /\ run(f).key = k /\ run(f).first = f /\ EndOf(run(f)) = end(f)
  <2>1. PICK e \in Nat : e = end(f) /\ e > f /\ e <= len /\ f \in Nat
    BY <1>3
  <2>2. e - f \in Nat /\ e - f >= 1 /\ f + (e - f) = e
    BY <2>1
  <2>3. (k \in Ending /\ end(f) = len) \in BOOLEAN
    OBVIOUS
  <2>4. QED
    BY <2>1, <2>2, <2>3 DEF Runs, EndOf
<1>6. ASSUME NEW f \in starts, NEW g \in starts
      PROVE  f = g \/ end(f) <= g \/ end(g) <= f
  <2>1. f \in Nat /\ g \in Nat
    BY <1>3
  <2>2. QED
    BY <1>3, <2>1
<1> HIDE DEF run
<1>7. QED
  BY <1>4, <1>5, <1>6 DEF Apart

(* At first the datagrams are those of the splits, which share no cycle.    *)
LEMMA InitSent == Init => Sent
<1> SUFFICES ASSUME Init PROVE Sent
  OBVIOUS
<1>1. Started
  BY IngestAssumption DEF Init, Started
<1>2. PICK split \in [Keys -> UNION {Splits(Length[k]) : k \in Keys}] :
         /\ \A k \in Keys : split[k] \in Splits(Length[k])
         /\ net = UNION {Datagrams(k, split[k]) : k \in Keys}
  BY DEF Init
<1>3. ASSUME NEW m \in net PROVE \E k \in Keys : m \in Datagrams(k, split[k])
  BY <1>2
<1>4. ASSUME NEW m \in net
      PROVE  m \in Runs /\ m \in Datagrams(m.key, split[m.key]) /\ m.key \in Keys
  <2>1. PICK k \in Keys : m \in Datagrams(k, split[k])
    BY <1>3
  <2>2. m.key = k /\ m \in Runs
    BY <1>2, <2>1, DatagramsApart
  <2>3. QED
    BY <2>1, <2>2
<1>5. ASSUME NEW m \in net, NEW n \in net, m.key = n.key PROVE Apart(m, n)
  BY <1>2, <1>4, <1>5, DatagramsApart
<1>6. \A m \in net : Encodable(PacketOf(m))
  BY DEF Init
<1>7. QED
  BY <1>1, <1>4, <1>5, <1>6 DEF Sent

-----------------------------------------------------------------------------
(* What a step does to tracker, queue and rows *)

Takes(m) ==
    /\ m \in net
    /\ Observe(PacketOf(m)) /\ Remember(m)
    /\ queue' = Append(queue, PacketOf(m))
    /\ ToHub(Light(PacketOf(m)))
    /\ UNCHANGED <<fixes, samples>>

Leaves == UNCHANGED <<tracker, queue, fixes, samples, heard, since, hubVars>>

Writes == Write /\ UNCHANGED <<tracker, heard, since, hubVars>>

(* A step takes a packet in, as it was sent, or leaves all as it is, or     *)
(* writes.                                                                  *)
LEMMA StepKinds ==
    ASSUME Sent, [Next]_vars
    PROVE  /\ net' \in SUBSET net /\ origin' = origin
           /\ Leaves \/ Writes \/ \E m \in net : Takes(m)
<1>1. CASE UNCHANGED vars
  BY <1>1 DEF vars, storeVars, Leaves
<1>2. ASSUME NEW m \in net, ArriveDamaged(m)
      PROVE  net' \in SUBSET net /\ origin' = origin /\ Leaves
  <2>1. m \in Runs /\ Encodable(PacketOf(m)) /\ Started
    BY DEF Sent
  <2>2. PICK d \in Damage(Encoded(PacketOf(m))) :
           Rejection(d) # None => UNCHANGED <<tracker, queue, hubVars, heard, since>>
    BY <1>2 DEF ArriveDamaged
  <2>3. Rejection(d) # None
    BY <2>1, DamageRejected
  <2>4. UNCHANGED <<tracker, queue, heard, since, hubVars>>
    BY <2>2, <2>3
  <2>5. net' \in SUBSET net /\ UNCHANGED <<origin, table, fixes, samples>>
    BY <1>2 DEF ArriveDamaged
  <2>6. QED
    BY <2>4, <2>5 DEF Leaves
<1>3. ASSUME NEW m \in net, NEW again \in BOOLEAN, Accept(m, again)
      PROVE  net' \in SUBSET net /\ origin' = origin /\ Takes(m)
  <2>1. m \in Runs /\ Encodable(PacketOf(m)) /\ Started
    BY DEF Sent
  <2>2. Decoded(Encoded(PacketOf(m))) = PacketOf(m)
    BY <2>1, RoundTrip
  <2>3. /\ net' = IF again THEN net ELSE net \ {m}
        /\ Observe(Decoded(Encoded(PacketOf(m)))) /\ Remember(m)
        /\ queue' = Append(queue, Decoded(Encoded(PacketOf(m))))
        /\ ToHub(Light(Decoded(Encoded(PacketOf(m)))))
        /\ UNCHANGED <<origin, table, fixes, samples>>
    BY <1>3 DEF Accept
  <2>4. /\ Observe(PacketOf(m)) /\ queue' = Append(queue, PacketOf(m))
        /\ ToHub(Light(PacketOf(m)))
    BY <2>2, <2>3
  <2>5. QED
    BY <2>3, <2>4 DEF Takes
<1>4. CASE Write
  BY <1>4 DEF Write, Writes
<1>5. QED
  BY <1>1, <1>2, <1>3, <1>4 DEF Next

(* Fewer datagrams share no cycle either.                                   *)
LEMMA SentKept ==
    ASSUME Sent, net' \in SUBSET net, origin' = origin
    PROVE  Sent'
<1>1. Started'
  BY DEF Sent, Started
<1>2. ASSUME NEW m \in net' PROVE PacketOf(m)' = PacketOf(m)
  BY DEF PacketOf, Cycle
<1>3. \A m \in net' : Encodable(PacketOf(m))'
  BY <1>2 DEF Sent
<1>4. QED
  BY <1>1, <1>3 DEF Sent

-----------------------------------------------------------------------------
(* The tracker's arithmetic *)

(* Within half of the range a gap is what it seems, and a datagram that     *)
(* ends before the expected cycle is never taken for one ahead of it.       *)
LEMMA GapOf ==
    ASSUME Started, NEW m \in Runs, NEW s, NEW end \in Nat, end <= Length[m.key],
           s.next = (origin.seq + end) % SeqWrap
    PROVE  LET p == PacketOf(m)
           IN  /\ m.first >= end => Ahead(p, s) /\ Gap(p, s) = m.first - end
               /\ EndOf(m) <= end => ~Ahead(p, s)
<1> DEFINE p == PacketOf(m)
<1>1. PICK w \in Nat \ {0} : w = SeqWrap /\ w % 2 = 0
  BY PacketAssumption
<1>2. PICK o \in Nat : o = origin.seq
  BY <1>1 DEF Started
<1>3. PICK f \in Nat, n \in Nat, l \in Nat :
         /\ f = m.first /\ n = m.count /\ l = Length[m.key]
         /\ n >= 1 /\ f + n <= l /\ EndOf(m) = f + n
  BY PacketParts
<1>4. 2 * l <= w + 1
  BY <1>1, <1>3, IngestAssumption, PacketParts
<1>5. 2 * l <= w
  <2>1. PICK h \in Int : w = 2 * h + (w % 2)
    <3>1. 2 \in Nat \ {0} /\ w \in Int
      OBVIOUS
    <3>2. QED
      BY <3>1, Quotient
  <2>2. QED
    BY <1>1, <1>4, <2>1
<1>6. p.seq = (o + f) % w /\ s.next = (o + end) % w /\ end <= l
  BY <1>1, <1>2, <1>3, PacketParts
<1>7. Gap(p, s) = (f - end) % w
  <2>1. (((o + f) % w) - ((o + end) % w)) % w = ((o + f) - (o + end)) % w
    <3>1. o + f \in Int /\ o + end \in Int
      OBVIOUS
    <3>2. QED
      BY <3>1, WrapGap
  <2>2. (o + f) - (o + end) = f - end
    OBVIOUS
  <2>3. QED
    BY <1>1, <1>6, <2>1, <2>2 DEF Gap
<1> HIDE DEF p
<1>8. CASE f >= end
  <2>1. f - end \in 0..(w - 1) /\ 2 * (f - end) < w
    BY <1>3, <1>5, <1>8
  <2>2. (f - end) % w = f - end
    BY <2>1, WrapApart
  <2>3. Gap(p, s) = f - end
    BY <1>7, <2>2
  <2>4. Ahead(p, s)
    BY <1>1, <2>1, <2>3 DEF Ahead
  <2>5. ~(f + n <= end)
    BY <1>3, <1>8
  <2>6. QED
    BY <1>3, <2>3, <2>4, <2>5 DEF p
<1>9. CASE f < end
  <2>1. f + n <= end => ~Ahead(p, s)
    <3>1. -(f - end) \in 1..(w - 1) /\ 2 * (w + (f - end)) >= w /\ f - end \in Int
      BY <1>3, <1>5, <1>6, <1>9
    <3>2. (f - end) % w = w + (f - end)
      BY <3>1, WrapApart
    <3>3. Gap(p, s) = w + (f - end)
      BY <1>7, <3>2
    <3>4. QED
      BY <1>1, <3>1, <3>3 DEF Ahead
  <2>2. QED
    BY <1>3, <1>9, <2>1 DEF p
<1>10. QED
  BY <1>8, <1>9

(* Of a new session the first packet is the one expected.                   *)
LEMMA GapOfFirst ==
    ASSUME Started, NEW m \in Runs
    PROVE  LET p == PacketOf(m) IN Ahead(p, Fresh(p)) /\ Gap(p, Fresh(p)) = 0
<1> DEFINE p == PacketOf(m)
<1>1. PICK w \in Nat \ {0} : w = SeqWrap
  BY PacketAssumption
<1>2. p.seq \in 0..(w - 1)
  BY <1>1, PacketParts
<1> HIDE DEF p
<1>3. Gap(p, Fresh(p)) = 0
  <2>1. p.seq - p.seq = 0 /\ 0 % w = 0
    BY <1>2
  <2>2. QED
    BY <1>1, <2>1 DEF Gap, Fresh
<1>4. QED
  BY <1>1, <1>3 DEF Ahead, p

(* Where the session goes on after a packet.                                *)
LEMMA NextOf ==
    ASSUME Started, NEW m \in Runs
    PROVE  (PacketOf(m).seq + m.count) % SeqWrap = (origin.seq + EndOf(m)) % SeqWrap
<1>1. PICK w \in Nat \ {0} : w = SeqWrap
  BY PacketAssumption
<1>2. PICK o \in Nat : o = origin.seq
  BY <1>1 DEF Started
<1>3. PICK f \in Nat, n \in Nat : f = m.first /\ n = m.count /\ EndOf(m) = f + n
  BY PacketParts
<1>4. (((o + f) % w) + n) % w = ((o + f) + n) % w
  <2>1. o + f \in Int /\ n \in Int
    OBVIOUS
  <2>2. QED
    BY <2>1, WrapSum
<1>5. (o + f) + n = o + (f + n)
  OBVIOUS
<1>6. PacketOf(m).seq = (o + f) % w
  BY <1>1, <1>2, <1>3, PacketParts
<1>7. QED
  BY <1>1, <1>2, <1>3, <1>4, <1>5, <1>6

-----------------------------------------------------------------------------
(* Sequences from which something is taken *)

(* r is what s has at some places, in the same order.                       *)
Selects(at, s, r) ==
    /\ at \in [1..Len(r) -> 1..Len(s)]
    /\ \A i \in 1..Len(r) : r[i] = s[at[i]]
    /\ \A i, j \in 1..Len(r) : i < j => at[i] < at[j]

Left(at, r, j) == \E i \in 1..Len(r) : at[i] = j

(* What RemoveAt returns.                                                   *)
LEMMA RemoveAtProperties ==
    ASSUME NEW S, NEW q \in Seq(S), NEW i \in 1..Len(q)
    PROVE  /\ RemoveAt(q, i) \in Seq(S)
           /\ Len(RemoveAt(q, i)) = Len(q) - 1
           /\ \A j \in 1..(Len(q) - 1) :
                 RemoveAt(q, i)[j] = IF j < i THEN q[j] ELSE q[j + 1]
<1> DEFINE a == SubSeq(q, 1, i - 1)
           b == SubSeq(q, i + 1, Len(q))
<1>1. Len(q) \in Nat /\ \A k \in 1..Len(q) : q[k] \in S
  BY LenProperties, ElementOfSeq
<1>2. /\ a \in Seq(S) /\ Len(a) = i - 1
      /\ \A k \in 1..(i - 1) : a[k] = q[k]
  <2>1. \A k \in 1..(i - 1) : q[k] \in S
    BY <1>1
  <2>2. /\ a \in Seq(S)
        /\ Len(a) = IF 1 <= i - 1 THEN (i - 1) - 1 + 1 ELSE 0
        /\ \A k \in 1..((i - 1) - 1 + 1) : a[k] = q[1 + k - 1]
    BY <2>1, SubSeqProperties
  <2>. HIDE DEF a
  <2>. QED BY <2>2
<1>3. /\ b \in Seq(S) /\ Len(b) = Len(q) - i
      /\ \A k \in 1..(Len(q) - i) : b[k] = q[i + k]
  <2>1. \A k \in (i + 1)..Len(q) : q[k] \in S
    BY <1>1
  <2>2. /\ b \in Seq(S)
        /\ Len(b) = IF i + 1 <= Len(q) THEN Len(q) - (i + 1) + 1 ELSE 0
        /\ \A k \in 1..(Len(q) - (i + 1) + 1) : b[k] = q[(i + 1) + k - 1]
    BY <1>1, <2>1, SubSeqProperties
  <2>. HIDE DEF b
  <2>. QED BY <1>1, <2>2
<1>4. RemoveAt(q, i) = a \o b
  BY DEF RemoveAt
<1>. HIDE DEF a, b
<1>5. /\ a \o b \in Seq(S)
      /\ Len(a \o b) = Len(a) + Len(b)
      /\ \A k \in 1..(Len(a) + Len(b)) :
            (a \o b)[k] = IF k <= Len(a) THEN a[k] ELSE b[k - Len(a)]
  BY <1>2, <1>3, ConcatProperties
<1>. QED BY <1>1, <1>2, <1>3, <1>4, <1>5

(* What is left without the first of some places.                           *)
LEMMA WithoutProperties ==
    ASSUME NEW A, NEW s \in Seq(A), NEW places \in SUBSET (1..Len(s))
    PROVE  LET r == Without(s, places)
           IN  /\ r \in Seq(A)
               /\ places = {} => Len(r) = Len(s)
               /\ places # {} => Len(r) = Len(s) - 1
               /\ \E at : /\ Selects(at, s, r)
                          /\ \A j \in 1..Len(s) :
                                Left(at, r, j) \/ (places # {} /\ j = Min(places))
                          /\ places # {} => \A i \in 1..Len(r) : at[i] # Min(places)
<1> DEFINE r == Without(s, places)
<1>1. CASE places = {}
  <2>1. r = s
    BY <1>1 DEF Without
  <2> DEFINE at == [i \in 1..Len(s) |-> i]
  <2>2. Selects(at, s, s) /\ \A j \in 1..Len(s) : Left(at, s, j)
    BY DEF Selects, Left
  <2> HIDE DEF at
  <2>3. QED
    BY <1>1, <2>1, <2>2
<1>2. CASE places # {}
  <2>1. PICK q \in 1..Len(s) : q = Min(places)
    <3>1. places \in SUBSET Nat
      OBVIOUS
    <3>2. QED
      BY <1>2, <3>1, MinProperties
  <2>2. r = RemoveAt(s, q)
    BY <1>2, <2>1 DEF Without
  <2>3. PICK n \in Nat : n = Len(s) /\ q \in 1..n
    BY <2>1, LenProperties
  <2>4. /\ r \in Seq(A) /\ Len(r) = n - 1
        /\ \A i \in 1..(n - 1) : r[i] = IF i < q THEN s[i] ELSE s[i + 1]
    BY <2>1, <2>2, <2>3, RemoveAtProperties
  <2> DEFINE at == [i \in 1..(n - 1) |-> IF i < q THEN i ELSE i + 1]
  <2> HIDE DEF r
  <2>5. Selects(at, s, r) /\ \A i \in 1..Len(r) : at[i] # q
    BY <2>3, <2>4 DEF Selects
  <2>6. ASSUME NEW j \in 1..Len(s), j # q PROVE Left(at, r, j)
    <3> DEFINE i == IF j < q THEN j ELSE j - 1
    <3>1. i \in 1..(n - 1) /\ at[i] = j
      BY <2>3, <2>6
    <3> HIDE DEF i, at
    <3>2. QED
      BY <2>4, <3>1 DEF Left
  <2> HIDE DEF at
  <2>7. QED
    BY <1>2, <2>1, <2>3, <2>4, <2>5, <2>6 DEF r
<1>3. QED
  BY <1>1, <1>2

-----------------------------------------------------------------------------
(* The tracker *)

Entries == [key : Keys, next : Int, received : Nat, lost : Nat, late : Nat]

(* One entry per session, within the limit.                                 *)
Listed ==
    /\ tracker \in Seq(Entries) /\ Len(tracker) <= MaxSessions
    /\ \A i, j \in 1..Len(tracker) : tracker[i].key = tracker[j].key => i = j

(* The other sessions are the tracker's in its order; only of a full        *)
(* tracker the first is missing.                                            *)
LEMMA OthersProperties ==
    ASSUME Listed, NEW p
    PROVE  LET r == Others(p)
           IN  /\ r \in Seq(Entries) /\ Len(r) < MaxSessions
               /\ \E at : /\ Selects(at, tracker, r)
                          /\ \A j \in 1..Len(tracker) :
                                \/ tracker[j].key = KeyOf(p)
                                \/ Left(at, r, j)
                                \/ /\ Len(tracker) = MaxSessions
                                   /\ \A i \in 1..Len(r) : j < at[i]
               /\ \A i \in 1..Len(r) : r[i].key # KeyOf(p)
<1> DEFINE n == Len(tracker)
           places == {i \in DOMAIN tracker : tracker[i].key = KeyOf(p)}
           rest == Without(tracker, places)
           r == Others(p)
<1>1. n \in Nat /\ DOMAIN tracker = 1..n /\ tracker \in Seq(Entries) /\ n <= MaxSessions
  BY LenProperties DEF Listed
<1>2. MaxSessions \in Nat /\ MaxSessions >= 1
  <2>1. {BatchCycles, MaxSessions} \subseteq Nat \ {0}
    BY IngestAssumption
  <2>2. QED
    BY <2>1
<1>3. places \in SUBSET (1..n)
  BY <1>1
<1>4. /\ rest \in Seq(Entries)
      /\ places = {} => Len(rest) = n
      /\ places # {} => Len(rest) = n - 1
  BY <1>1, <1>3, WithoutProperties, Zenon
<1>5. PICK at : /\ Selects(at, tracker, rest)
                /\ \A j \in 1..n : Left(at, rest, j) \/ (places # {} /\ j = Min(places))
                /\ places # {} => \A i \in 1..Len(rest) : at[i] # Min(places)
  BY <1>1, <1>3, WithoutProperties
<1>6. places # {} => Min(places) \in places
  <2>1. places \in SUBSET Nat
    BY <1>3
  <2>2. QED
    BY <2>1, MinProperties
<1>7. \A j \in 1..n : Left(at, rest, j) \/ tracker[j].key = KeyOf(p)
  BY <1>5, <1>6
<1>8. \A i \in 1..Len(rest) : rest[i].key # KeyOf(p)
  <2> SUFFICES ASSUME NEW i \in 1..Len(rest), rest[i].key = KeyOf(p) PROVE FALSE
    OBVIOUS
  <2>1. rest[i] = tracker[at[i]] /\ at[i] \in 1..n
    BY <1>5 DEF Selects
  <2>2. at[i] \in places
    BY <1>1, <2>1
  <2>3. Min(places) \in 1..n /\ tracker[Min(places)].key = KeyOf(p) /\ at[i] # Min(places)
    BY <1>1, <1>5, <1>6, <2>2
  <2>4. QED
    BY <2>1, <2>3 DEF Listed
<1>9. r = IF Len(rest) >= MaxSessions THEN Tail(rest) ELSE rest
  BY DEF Others
<1> HIDE DEF rest, places, r, n
<1>10. Len(rest) \in Nat
  BY <1>4, LenProperties
<1>11. CASE Len(rest) >= MaxSessions
  <2>1. Len(rest) = MaxSessions /\ n = MaxSessions /\ Len(rest) >= 1
    BY <1>1, <1>2, <1>4, <1>10, <1>11
  <2>2. rest # << >>
    BY <2>1
  <2>3. /\ r \in Seq(Entries) /\ Len(r) = Len(rest) - 1
        /\ \A i \in 1..Len(r) : r[i] = rest[i + 1]
    BY <1>4, <1>9, <1>11, <2>2, HeadTailProperties
  <2> DEFINE up == [i \in 1..Len(r) |-> at[i + 1]]
  <2>4. \A i \in 1..Len(r) : i + 1 \in 1..Len(rest) /\ i + 1 > 1
    BY <1>10, <2>3
  <2>5. Selects(up, tracker, r)
    <3>1. \A i \in 1..Len(r) : up[i] \in 1..Len(tracker) /\ r[i] = tracker[up[i]]
      BY <1>5, <2>3, <2>4 DEF Selects
    <3>2. \A i, j \in 1..Len(r) : i < j => i + 1 < j + 1
      BY <1>10, <2>3
    <3>3. \A i, j \in 1..Len(r) : i < j => up[i] < up[j]
      BY <1>5, <2>4, <3>2 DEF Selects
    <3>4. QED
      BY <3>1, <3>3 DEF Selects
  <2>6. ASSUME NEW j \in 1..n
        PROVE  \/ tracker[j].key = KeyOf(p)
               \/ Left(up, r, j)
               \/ \A i \in 1..Len(r) : j < up[i]
    <3>1. CASE tracker[j].key = KeyOf(p)
      BY <3>1
    <3>2. CASE Left(at, rest, j)
      <4>1. PICK i \in 1..Len(rest) : at[i] = j
        BY <3>2 DEF Left
      <4>2. CASE i = 1
        <5>1. \A k \in 1..Len(r) : at[1] < at[k + 1]
          BY <1>5, <2>1, <2>4 DEF Selects
        <5>2. QED
          BY <4>1, <4>2, <5>1
      <4>3. CASE i # 1
        <5>1. i - 1 \in 1..Len(r) /\ (i - 1) + 1 = i
          BY <1>10, <2>3, <4>3
        <5>2. up[i - 1] = j
          BY <4>1, <5>1
        <5>3. QED
          BY <5>1, <5>2 DEF Left
      <4>4. QED
        BY <4>2, <4>3
    <3>3. QED
      BY <1>7, <3>1, <3>2
  <2>7. \A i \in 1..Len(r) : r[i].key # KeyOf(p)
    BY <1>8, <2>3, <2>4
  <2>8. Len(r) < MaxSessions
    BY <1>2, <2>1, <2>3
  <2> HIDE DEF up
  <2>9. QED
    BY <2>1, <2>3, <2>5, <2>6, <2>7, <2>8 DEF r, n
<1>12. CASE ~(Len(rest) >= MaxSessions)
  <2>1. r = rest /\ Len(r) < MaxSessions
    BY <1>2, <1>9, <1>10, <1>12
  <2>2. QED
    BY <1>4, <1>5, <1>7, <1>8, <2>1 DEF r, n
<1>13. QED
  BY <1>11, <1>12

(* The entry of a packet's session, if it is tracked.                       *)
LEMMA StateOfTracked ==
    ASSUME Listed, NEW p, NEW i \in 1..Len(tracker), tracker[i].key = KeyOf(p)
    PROVE  StateOf(p) = tracker[i]
<1>1. DOMAIN tracker = 1..Len(tracker)
  BY LenProperties DEF Listed
<1>2. KeyOf(p) \in TrackerKeys /\ tracker[i] \in ToSet(tracker)
  BY <1>1 DEF TrackerKeys, ToSet
<1>3. \A s \in ToSet(tracker) : s.key = KeyOf(p) => s = tracker[i]
  BY <1>1 DEF ToSet, Listed
<1>4. QED
  BY <1>2, <1>3 DEF StateOf

(* A session the tracker does not list starts afresh.                       *)
LEMMA StateOfNew ==
    ASSUME Listed, NEW p, \A i \in 1..Len(tracker) : tracker[i].key # KeyOf(p)
    PROVE  StateOf(p) = Fresh(p)
<1>1. DOMAIN tracker = 1..Len(tracker)
  BY LenProperties DEF Listed
<1>2. QED
  BY <1>1 DEF StateOf, TrackerKeys

(* What is counted for a packet.                                            *)
LEMMA CountedProperties ==
    ASSUME Started, NEW m \in Runs, NEW s \in Entries
    PROVE  LET p == PacketOf(m)
               c == Counted(p, s)
           IN  /\ Gap(p, s) \in Nat
               /\ c \in Entries /\ c.key = s.key
               /\ Ahead(p, s) => /\ c.next = (origin.seq + EndOf(m)) % SeqWrap
                                 /\ c.lost = s.lost + Gap(p, s) /\ c.late = s.late
               /\ ~Ahead(p, s) => /\ c.next = s.next /\ c.lost = s.lost
                                  /\ c.late = s.late + m.count
<1> DEFINE p == PacketOf(m)
<1>1. PICK n \in Nat : n = Len(p.cycles) /\ n = m.count
  BY PacketParts
<1>2. PICK w \in Nat \ {0} : w = SeqWrap
  BY PacketAssumption
<1>3. p.seq \in Int /\ s.next \in Int
  BY <1>2, PacketParts DEF Entries
<1> HIDE DEF p
<1>4. PICK g \in Nat : g = Gap(p, s)
  <2>1. p.seq - s.next \in Int
    BY <1>3
  <2>2. (p.seq - s.next) % w \in 0..(w - 1)
    BY <2>1, Remainder
  <2>3. QED
    BY <1>2, <2>2 DEF Gap
<1>5. PICK t \in Int : t = (p.seq + n) % w /\ t = (origin.seq + EndOf(m)) % SeqWrap
  <2>1. (p.seq + n) % w \in 0..(w - 1)
    <3>1. p.seq + n \in Int
      BY <1>3
    <3>2. QED
      BY <3>1, Remainder
  <2>2. (p.seq + n) % w = (origin.seq + EndOf(m)) % SeqWrap
    BY <1>1, <1>2, NextOf DEF p
  <2>3. QED
    BY <2>1, <2>2
<1>6. PICK c : c = Counted(p, s)
  OBVIOUS
<1>7. /\ s.lost \in Nat /\ s.late \in Nat /\ s.received \in Nat
      /\ s.lost + g \in Nat /\ s.late + n \in Nat /\ s.received + n \in Nat
  BY <1>1, <1>4 DEF Entries
<1>8. CASE Ahead(p, s)
  <2>1. c = [s EXCEPT !.lost = @ + g, !.next = t, !.received = @ + n]
    BY <1>1, <1>2, <1>4, <1>5, <1>6, <1>8 DEF Counted
  <2>2. c \in Entries /\ c.key = s.key /\ c.next = t /\ c.lost = s.lost + g /\ c.late = s.late
    BY <1>5, <1>7, <2>1 DEF Entries
  <2>3. QED
    BY <1>4, <1>5, <1>6, <1>8, <2>2 DEF p
<1>9. CASE ~Ahead(p, s)
  <2>1. c = [s EXCEPT !.late = @ + n, !.received = @ + n]
    BY <1>1, <1>6, <1>9 DEF Counted
  <2>2. /\ c \in Entries /\ c.key = s.key /\ c.next = s.next /\ c.lost = s.lost
        /\ c.late = s.late + n
    BY <1>7, <2>1 DEF Entries
  <2>3. QED
    BY <1>1, <1>4, <1>6, <1>9, <2>2 DEF p
<1>10. QED
  BY <1>8, <1>9

-----------------------------------------------------------------------------
(* The estimate of the loss *)

Missing(g, end) == (g.from..(end - 1)) \ g.got

(* What entry s of the tracker says of a session of which g was received:   *)
(* end is the first cycle not heard yet, and no datagram under way has      *)
(* cycles on both sides of it.                                              *)
Expects(s, g, end) ==
    /\ end \in Nat /\ end <= Length[s.key]
    /\ g.from \in g.got /\ end - 1 \in g.got /\ g.got \in SUBSET (0..(end - 1))
    /\ s.next = (origin.seq + end) % SeqWrap
    /\ Cardinality(Missing(g, end)) <= s.lost
    /\ s.lost <= Cardinality(Missing(g, end)) + s.late
    /\ \A m \in net : m.key = s.key => end <= m.first \/ EndOf(m) <= end

Follows(s, g) == \E end \in Nat : Expects(s, g, end)

(* What is missing can be counted.                                          *)
LEMMA MissingFinite ==
    ASSUME NEW g \in Received, NEW end \in Nat
    PROVE  IsFiniteSet(Missing(g, end)) /\ Cardinality(Missing(g, end)) \in Nat
<1>1. g.from \in Int /\ end - 1 \in Int
  BY DEF Received
<1>2. IsFiniteSet(g.from..(end - 1))
  BY <1>1, FS_Interval
<1>3. IsFiniteSet(Missing(g, end))
  BY <1>2, FS_Subset DEF Missing
<1>4. QED
  BY <1>3, FS_CardinalityType

Carried(m) == m.first..(m.first + m.count - 1)

(* A datagram under way lies on one side of any other's end.                *)
LEMMA EndsApart ==
    ASSUME Sent, NEW m \in net, NEW n \in net, n.key = m.key
    PROVE  EndOf(m) <= n.first \/ EndOf(n) <= EndOf(m)
<1>1. m \in Runs /\ n \in Runs /\ Started /\ Apart(m, n)
  BY DEF Sent
<1>2. PICK a \in Nat, b \in Nat, c \in Nat, d \in Nat :
         a = m.first /\ b = EndOf(m) /\ c = n.first /\ d = EndOf(n) /\ a <= b
  <2>1. /\ m.first \in Nat /\ m.count \in Nat /\ EndOf(m) = m.first + m.count
        /\ n.first \in Nat /\ EndOf(m) \in Nat /\ EndOf(n) \in Nat
    BY <1>1, PacketParts
  <2>2. m.first <= EndOf(m)
    BY <2>1
  <2>3. QED
    BY <2>1, <2>2
<1>3. m = n => b = d
  BY <1>2
<1>4. m = n \/ b <= c \/ d <= a
  BY <1>1, <1>2 DEF Apart
<1>5. QED
  BY <1>2, <1>3, <1>4

(* The first packet of a session.                                           *)
LEMMA FirstFollows ==
    ASSUME Sent, NEW m \in net
    PROVE  LET p == PacketOf(m)
               g == [from |-> m.first, got |-> Carried(m)]
           IN  /\ Fresh(p) \in Entries /\ g \in Received
               /\ Follows(Counted(p, Fresh(p)), g)
<1> DEFINE p == PacketOf(m)
           g == [from |-> m.first, got |-> Carried(m)]
<1>1. m \in Runs /\ Started
  BY DEF Sent
<1>2. PICK a \in Nat, n \in Nat \ {0}, b \in Nat :
         /\ a = m.first /\ n = m.count /\ b = EndOf(m) /\ b = a + n
         /\ b <= Length[m.key] /\ m.key \in Keys
  BY <1>1, PacketParts
<1>3. Fresh(p) \in Entries /\ Fresh(p).key = m.key /\ Fresh(p).lost = 0 /\ Fresh(p).late = 0
  <2>1. p.seq \in 0..(SeqWrap - 1) /\ KeyOf(p) = m.key
    BY <1>1, PacketParts
  <2>2. p.seq \in Int
    BY <2>1, PacketAssumption
  <2> HIDE DEF p
  <2>3. QED
    BY <1>2, <2>1, <2>2 DEF Fresh, Entries
<1>4. Carried(m) = a..(b - 1)
  BY <1>2 DEF Carried
<1>5. g \in Received
  BY <1>2, <1>4 DEF Received
<1>6. Ahead(p, Fresh(p)) /\ Gap(p, Fresh(p)) = 0
  BY <1>1, GapOfFirst
<1> HIDE DEF p
<1>7. PICK s : s = Fresh(p) /\ s \in Entries
  BY <1>3
<1>8. PICK c \in Entries : c = Counted(p, s)
  BY <1>1, <1>7, CountedProperties DEF p
<1>9. c.key = m.key /\ c.next = (origin.seq + b) % SeqWrap /\ c.lost = 0 /\ c.late = 0
  <2>1. /\ c.key = s.key /\ c.next = (origin.seq + EndOf(m)) % SeqWrap
        /\ c.lost = s.lost + Gap(p, s) /\ c.late = s.late
    BY <1>1, <1>6, <1>7, <1>8, CountedProperties DEF p
  <2>2. s.lost + Gap(p, s) = 0
    BY <1>3, <1>6, <1>7
  <2>3. QED
    BY <1>2, <1>3, <1>7, <2>1, <2>2
<1>10. Missing(g, b) = {}
  BY <1>2, <1>4 DEF Missing
<1>11. Cardinality(Missing(g, b)) = 0
  BY <1>10, FS_EmptySet
<1>12. \A q \in net : q.key = c.key => b <= q.first \/ EndOf(q) <= b
  BY <1>2, <1>9, EndsApart
<1>13. g.from \in g.got /\ b - 1 \in g.got /\ g.got \in SUBSET (0..(b - 1))
  BY <1>2, <1>4
<1> HIDE DEF g
<1>14. Expects(c, g, b)
  BY <1>2, <1>9, <1>11, <1>12, <1>13 DEF Expects
<1>15. QED
  BY <1>2, <1>3, <1>5, <1>7, <1>8, <1>14 DEF Follows, p, g

(* A further one: ahead, which adds what it skipped, or late.               *)
LEMMA MoreFollows ==
    ASSUME Sent, NEW m \in net, NEW s \in Entries, s.key = m.key,
           NEW g \in Received, Follows(s, g)
    PROVE  LET h == [g EXCEPT !.got = @ \cup Carried(m)]
           IN  h \in Received /\ Follows(Counted(PacketOf(m), s), h)
<1> DEFINE p == PacketOf(m)
<1>1. m \in Runs /\ Started
  BY DEF Sent
<1>2. PICK a \in Nat, n \in Nat \ {0}, b \in Nat :
         /\ a = m.first /\ n = m.count /\ b = EndOf(m) /\ b = a + n
         /\ b <= Length[m.key] /\ m.key \in Keys
  BY <1>1, PacketParts
<1>3. PICK end \in Nat : Expects(s, g, end)
  BY DEF Follows
<1>4. Carried(m) = a..(b - 1)
  BY <1>2 DEF Carried
<1>5. PICK h : h = [g EXCEPT !.got = @ \cup Carried(m)]
  OBVIOUS
<1>6. h \in Received /\ h.from = g.from /\ h.got = g.got \cup (a..(b - 1))
  BY <1>2, <1>4, <1>5 DEF Received
<1>7. PICK c \in Entries : c = Counted(p, s) /\ c.key = m.key
  BY <1>1, CountedProperties
<1>8. PICK lost \in Nat, late \in Nat, x \in Nat :
         /\ lost = s.lost /\ late = s.late /\ x = Cardinality(Missing(g, end))
         /\ x <= lost /\ lost <= x + late
  BY <1>3, MissingFinite DEF Expects, Entries
<1>9. PICK from \in Nat : from = g.from /\ from <= end - 1 /\ from \in g.got
  BY <1>3 DEF Expects, Received
<1>10. /\ end <= a => Ahead(p, s) /\ Gap(p, s) = a - end
       /\ b <= end => ~Ahead(p, s)
  BY <1>1, <1>2, <1>3, GapOf DEF Expects
<1>11. end <= a \/ b <= end
  BY <1>2, <1>3 DEF Expects
<1>12. g.got \in SUBSET (0..(end - 1)) /\ end - 1 \in g.got
  BY <1>3 DEF Expects
<1> HIDE DEF p
<1>13. CASE end <= a
  <2>1. c.next = (origin.seq + b) % SeqWrap /\ c.lost = lost + (a - end) /\ c.late = late
    <3>1. /\ c.next = (origin.seq + EndOf(m)) % SeqWrap
          /\ c.lost = s.lost + Gap(p, s) /\ c.late = s.late
      BY <1>1, <1>7, <1>10, <1>13, CountedProperties DEF p
    <3>2. QED
      BY <1>2, <1>8, <1>10, <1>13, <3>1
  <2>2. Missing(h, b) = Missing(g, end) \cup (end..(a - 1))
    <3>1. Missing(h, b) = (from..(b - 1)) \ (g.got \cup (a..(b - 1)))
      BY <1>6, <1>9 DEF Missing
    <3>2. Missing(g, end) = (from..(end - 1)) \ g.got
      BY <1>9 DEF Missing
    <3>3. \A i \in Int : i \in g.got => i <= end - 1
      BY <1>12
    <3>4. ASSUME NEW i \in Int
          PROVE  i \in (from..(b - 1)) \ (g.got \cup (a..(b - 1)))
                 <=> i \in ((from..(end - 1)) \ g.got) \cup (end..(a - 1))
      BY <1>2, <1>9, <1>13, <3>3
    <3>5. QED
      BY <3>1, <3>2, <3>4
  <2>3. Missing(g, end) \cap (end..(a - 1)) = {}
    BY <1>9 DEF Missing
  <2>4. IsFiniteSet(end..(a - 1)) /\ Cardinality(end..(a - 1)) = a - end
    <3>1. end \in Int /\ a - 1 \in Int /\ (a - 1) - end + 1 = a - end
      OBVIOUS
    <3>2. CASE end <= a - 1
      BY <3>1, <3>2, FS_Interval
    <3>3. CASE ~(end <= a - 1)
      <4>1. end..(a - 1) = {} /\ a - end = 0
        BY <1>13, <3>3
      <4>2. QED
        BY <4>1, FS_EmptySet
    <3>4. QED
      BY <3>2, <3>3
  <2>5. Cardinality(Missing(h, b)) = x + (a - end)
    <3>1. IsFiniteSet(Missing(g, end))
      BY MissingFinite
    <3>2. Cardinality(Missing(g, end) \cup (end..(a - 1)))
             = Cardinality(Missing(g, end)) + Cardinality(end..(a - 1))
               - Cardinality(Missing(g, end) \cap (end..(a - 1)))
      BY <2>4, <3>1, FS_Union
    <3>3. Cardinality({}) = 0
      BY FS_EmptySet
    <3>4. Cardinality(Missing(h, b)) = x + (a - end) - 0
      BY <1>8, <2>2, <2>3, <2>4, <3>2, <3>3
    <3>5. x + (a - end) - 0 = x + (a - end)
      BY <1>13
    <3>6. QED
      BY <3>4, <3>5
  <2>6. \A q \in net : q.key = c.key => b <= q.first \/ EndOf(q) <= b
    BY <1>2, <1>7, EndsApart
  <2>7. h.from \in h.got /\ b - 1 \in h.got /\ h.got \in SUBSET (0..(b - 1))
    <3>1. from \in h.got /\ b - 1 \in a..(b - 1)
      BY <1>2, <1>6, <1>9
    <3>2. a..(b - 1) \in SUBSET (0..(b - 1)) /\ 0..(end - 1) \in SUBSET (0..(b - 1))
      BY <1>2, <1>13
    <3>3. QED
      BY <1>6, <1>9, <1>12, <3>1, <3>2
  <2>8. x + (a - end) <= c.lost /\ c.lost <= x + (a - end) + c.late
    BY <1>8, <1>13, <2>1
  <2>9. Expects(c, h, b)
    BY <1>2, <1>7, <2>1, <2>5, <2>6, <2>7, <2>8 DEF Expects
  <2>10. QED
    BY <1>5, <1>6, <1>7, <2>9 DEF Follows, p
<1>14. CASE b <= end
  <2>1. c.next = s.next /\ c.lost = lost /\ c.late = late + n
    BY <1>1, <1>2, <1>7, <1>8, <1>10, <1>14, CountedProperties DEF p
  <2>2. Missing(h, end) = Missing(g, end) \ (a..(b - 1))
    BY <1>6 DEF Missing
  <2>3. IsFiniteSet(a..(b - 1)) /\ Cardinality(a..(b - 1)) = n
    <3>1. a \in Int /\ b - 1 \in Int /\ a <= b - 1 /\ (b - 1) - a + 1 = n
      BY <1>2
    <3>2. QED
      BY <3>1, FS_Interval
  <2>4. IsFiniteSet(Missing(g, end))
    BY MissingFinite
  <2>5. PICK both \in Nat : both = Cardinality(Missing(g, end) \cap (a..(b - 1))) /\ both <= n
    <3>1. Missing(g, end) \cap (a..(b - 1)) \subseteq a..(b - 1)
      OBVIOUS
    <3>2. QED
      BY <2>3, <3>1, FS_Subset, FS_CardinalityType
  <2>6. PICK y \in Nat : y = Cardinality(Missing(h, end)) /\ y = x - both
    <3>1. Cardinality(Missing(g, end) \ (a..(b - 1)))
             = Cardinality(Missing(g, end)) - Cardinality(Missing(g, end) \cap (a..(b - 1)))
      BY <2>4, FS_Difference
    <3>2. Cardinality(Missing(h, end)) \in Nat
      BY <1>6, MissingFinite
    <3>3. QED
      BY <1>8, <2>2, <2>5, <3>1, <3>2
  <2>7. \A q \in net : q.key = c.key => end <= q.first \/ EndOf(q) <= end
    BY <1>3, <1>7 DEF Expects
  <2>8. h.from \in h.got /\ end - 1 \in h.got /\ h.got \in SUBSET (0..(end - 1))
    <3>1. a..(b - 1) \in SUBSET (0..(end - 1))
      BY <1>2, <1>14
    <3>2. QED
      BY <1>6, <1>9, <1>12, <3>1
  <2>9. y <= c.lost /\ c.lost <= y + c.late
    BY <1>8, <2>1, <2>5, <2>6
  <2>10. end <= Length[c.key] /\ c.next = (origin.seq + end) % SeqWrap
    BY <1>3, <1>7, <2>1 DEF Expects
  <2>11. Expects(c, h, end)
    BY <2>6, <2>7, <2>8, <2>9, <2>10 DEF Expects
  <2>12. QED
    BY <1>5, <1>6, <1>7, <2>11 DEF Follows, p
<1>15. QED
  BY <1>11, <1>13, <1>14

-----------------------------------------------------------------------------
(* The tracker after a packet *)

(* t is the tracker with some sessions left out, and c at the end or not.   *)
Reshaped(t, c, p, n, at) ==
    /\ Len(t) \in {n, n + 1} /\ (Len(t) = n + 1 => t[n + 1] = c)
    /\ \A i \in 1..n : t[i] = tracker[at[i]] /\ t[i].key # KeyOf(p)
    /\ \A i, j \in 1..n : i < j => at[i] < at[j]
    /\ \A j \in 1..Len(tracker) :
          \/ tracker[j].key = KeyOf(p)
          \/ \E i \in 1..n : at[i] = j
          \/ Len(tracker) = MaxSessions /\ \A i \in 1..n : j < at[i]

(* The list after a packet: the others in their order, and its session.     *)
LEMMA ObservedShape ==
    ASSUME Listed, NEW p, NEW c \in Entries,
           NEW t, t = IF p.last THEN Others(p) ELSE Append(Others(p), c)
    PROVE  /\ t \in Seq(Entries) /\ Len(t) <= MaxSessions
           /\ \E n \in Nat : \E at \in [1..n -> 1..Len(tracker)] : Reshaped(t, c, p, n, at)
<1> DEFINE r == Others(p)
           n == Len(r)
<1>1. r \in Seq(Entries) /\ n \in Nat /\ n < MaxSessions
  BY OthersProperties, LenProperties
<1>2. PICK at : /\ Selects(at, tracker, r)
                /\ \A j \in 1..Len(tracker) :
                      \/ tracker[j].key = KeyOf(p)
                      \/ Left(at, r, j)
                      \/ Len(tracker) = MaxSessions /\ \A i \in 1..n : j < at[i]
  BY OthersProperties
<1>3. \A i \in 1..n : r[i].key # KeyOf(p)
  BY OthersProperties
<1>4. MaxSessions \in Int
  <2>1. {BatchCycles, MaxSessions} \subseteq Nat \ {0}
    BY IngestAssumption
  <2>2. QED
    BY <2>1
<1>5. t = IF p.last THEN r ELSE Append(r, c)
  OBVIOUS
<1> HIDE DEF r
<1>6. /\ t \in Seq(Entries) /\ Len(t) \in {n, n + 1}
      /\ Len(t) = n + 1 => t[n + 1] = c
      /\ \A i \in 1..n : t[i] = r[i]
  <2>1. PICK l \in Nat : l = Len(r) /\ l # l + 1
    BY <1>1
  <2>2. CASE t = r
    BY <1>1, <2>1, <2>2
  <2>3. CASE t = Append(r, c)
    <3>1. /\ Append(r, c) \in Seq(Entries) /\ Len(Append(r, c)) = l + 1
          /\ Append(r, c)[l + 1] = c
          /\ \A i \in 1..l : Append(r, c)[i] = r[i]
      BY <1>1, <2>1, AppendProperties
    <3>2. QED
      BY <2>1, <2>3, <3>1
  <2>4. QED
    BY <1>5, <2>2, <2>3
<1>7. Len(t) <= MaxSessions
  BY <1>1, <1>4, <1>6
<1>8. at \in [1..n -> 1..Len(tracker)] /\ Reshaped(t, c, p, n, at)
  BY <1>2, <1>3, <1>6 DEF Reshaped, Selects, Left
<1>9. QED
  BY <1>1, <1>6, <1>7, <1>8

(* What was received of a session is known as long as it is tracked.        *)
Tracks ==
    /\ Listed
    /\ since \in [Keys -> {None} \cup Received]
    /\ \A k \in Keys : since[k] # None <=> \E i \in 1..Len(tracker) : tracker[i].key = k
    /\ \A i \in 1..Len(tracker) : Follows(tracker[i], since[tracker[i].key])

(* What follows from the cycles received does not depend on the network.    *)
LEMMA FollowsKept ==
    ASSUME NEW s, NEW g, Follows(s, g), net' \in SUBSET net, origin' = origin
    PROVE  Follows(s, g)'
<1>1. PICK end \in Nat : Expects(s, g, end)
  BY DEF Follows
<1>2. Expects(s, g, end)'
  BY <1>1 DEF Expects, Missing, EndOf
<1>3. QED
  BY <1>2 DEF Follows

(* The ghost of a session after a packet.                                   *)
Now(m) ==
    IF since[m.key] = None THEN [from |-> m.first, got |-> Carried(m)]
    ELSE [since[m.key] EXCEPT !.got = @ \cup Carried(m)]

(* A packet is counted as Follows has it.                                   *)
LEMMA NewEntry ==
    ASSUME Sent, Tracks, NEW m \in net
    PROVE  LET c == Counted(PacketOf(m), StateOf(PacketOf(m)))
           IN  /\ c \in Entries /\ c.key = m.key /\ m.key \in Keys
               /\ Now(m) \in Received /\ Follows(c, Now(m))
<1> DEFINE p == PacketOf(m)
<1>1. m \in Runs /\ Started /\ Listed
  BY DEF Sent, Tracks
<1>2. KeyOf(p) = m.key /\ m.key \in Keys
  BY <1>1, PacketParts
<1> HIDE DEF p
<1>3. CASE \E i \in 1..Len(tracker) : tracker[i].key = m.key
  <2>1. PICK i \in 1..Len(tracker) : tracker[i].key = m.key
    BY <1>3
  <2>2. StateOf(p) = tracker[i]
    BY <1>1, <1>2, <2>1, StateOfTracked
  <2>3. tracker[i] \in Entries
    BY <1>1, <2>1, ElementOfSeq DEF Listed
  <2>4. since[m.key] # None
    BY <1>2, <2>1 DEF Tracks
  <2>5. since[m.key] \in Received
    BY <1>2, <2>4 DEF Tracks
  <2>6. Follows(tracker[i], since[m.key])
    BY <2>1 DEF Tracks
  <2>7. Now(m) \in Received /\ Follows(Counted(PacketOf(m), tracker[i]), Now(m))
    <3>1. PICK g \in Received : g = since[m.key]
      BY <2>5
    <3>2. Now(m) = [g EXCEPT !.got = @ \cup Carried(m)]
      BY <2>4, <3>1 DEF Now
    <3>3. PICK s \in Entries : s = tracker[i]
      BY <2>3
    <3>4. s.key = m.key /\ Follows(s, g)
      BY <2>1, <2>6, <3>1, <3>3
    <3>5. QED
      BY <3>2, <3>3, <3>4, MoreFollows
  <2>8. Counted(PacketOf(m), tracker[i]) \in Entries
        /\ Counted(PacketOf(m), tracker[i]).key = m.key
    BY <1>1, <2>1, <2>3, CountedProperties
  <2>9. QED
    BY <1>2, <2>2, <2>7, <2>8 DEF p
<1>4. CASE ~ \E i \in 1..Len(tracker) : tracker[i].key = m.key
  <2>1. StateOf(p) = Fresh(p)
    BY <1>1, <1>2, <1>4, StateOfNew
  <2>2. since[m.key] = None
    BY <1>2, <1>4 DEF Tracks
  <2>3. Now(m) = [from |-> m.first, got |-> Carried(m)]
    BY <2>2 DEF Now
  <2>4. Fresh(p) \in Entries /\ Now(m) \in Received /\ Follows(Counted(p, Fresh(p)), Now(m))
    BY <2>3, FirstFollows DEF p
  <2>5. Fresh(p).key = m.key
    BY <1>2 DEF Fresh
  <2>6. Counted(p, Fresh(p)) \in Entries /\ Counted(p, Fresh(p)).key = m.key
    BY <1>1, <2>4, <2>5, CountedProperties DEF p
  <2>7. QED
    BY <1>2, <2>1, <2>4, <2>6 DEF p
<1>5. QED
  BY <1>3, <1>4

(* A packet that is taken in keeps the tracker right.                       *)
LEMMA TakesTracks ==
    ASSUME Sent, Tracks, net' \in SUBSET net, origin' = origin, NEW m \in net, Takes(m)
    PROVE  Tracks'
<1> DEFINE p == PacketOf(m)
<1>1. m \in Runs /\ Started /\ Listed
  BY DEF Sent, Tracks
<1>2. KeyOf(p) = m.key /\ m.key \in Keys
  BY <1>1, PacketParts
<1>3. PICK c \in Entries :
         c = Counted(p, StateOf(p)) /\ c.key = m.key /\ Follows(c, Now(m))
  BY NewEntry
<1>4. PICK now \in Received : now = Now(m) /\ Follows(c, now)
  BY <1>3, NewEntry
<1>5. PICK t : t = tracker'
  OBVIOUS
<1>6. PICK old : old = since
  OBVIOUS
<1>7. t = IF p.last THEN Others(p) ELSE Append(Others(p), c)
  BY <1>3, <1>5 DEF Takes, Observe, Observed
<1>8. PICK new : /\ new = since'
                 /\ new = [j \in Keys |-> IF \A s \in ToSet(t) : s.key # j THEN None
                                          ELSE IF j = m.key THEN now ELSE old[j]]
  BY <1>4, <1>5, <1>6 DEF Takes, Remember, Now, Carried
<1> HIDE DEF p
<1>9. t \in Seq(Entries) /\ Len(t) <= MaxSessions
  BY <1>1, <1>7, ObservedShape
<1>10. PICK n \in Nat : \E at \in [1..n -> 1..Len(tracker)] : Reshaped(t, c, p, n, at)
  BY <1>1, <1>7, ObservedShape
<1>11. PICK at \in [1..n -> 1..Len(tracker)] : Reshaped(t, c, p, n, at)
  BY <1>10
<1>12. DOMAIN t = 1..Len(t)
  BY <1>9, LenProperties
<1>13. ASSUME NEW i \in 1..Len(t)
       PROVE  \/ i \in 1..n /\ t[i] = tracker[at[i]] /\ t[i].key # m.key
              \/ i = n + 1 /\ t[i] = c
  <2>1. i \in 1..n \/ (i = n + 1 /\ Len(t) = n + 1)
    BY <1>11 DEF Reshaped
  <2>2. QED
    BY <1>2, <1>11, <2>1 DEF Reshaped
<1>14. \A i, j \in 1..Len(t) : t[i].key = t[j].key => i = j
  <2> SUFFICES ASSUME NEW i \in 1..Len(t), NEW j \in 1..Len(t), t[i].key = t[j].key
               PROVE  i = j
    OBVIOUS
  <2>1. CASE i \in 1..n /\ j \in 1..n
    <3>1. tracker[at[i]].key = tracker[at[j]].key /\ at[i] \in 1..Len(tracker)
          /\ at[j] \in 1..Len(tracker)
      BY <1>11, <2>1 DEF Reshaped
    <3>2. at[i] = at[j]
      BY <1>1, <3>1 DEF Listed
    <3>3. ~(i < j) /\ ~(j < i)
      <4>1. at[i] \in Int /\ at[j] \in Int
        BY <3>1
      <4>2. QED
        BY <1>11, <2>1, <3>2, <4>1 DEF Reshaped
    <3>4. QED
      BY <2>1, <3>3
  <2>2. CASE ~(i \in 1..n /\ j \in 1..n)
    BY <1>3, <1>13, <2>2
  <2>3. QED
    BY <2>1, <2>2
<1>15. \A j \in Keys : (\A s \in ToSet(t) : s.key # j)
                       <=> ~ \E i \in 1..Len(t) : t[i].key = j
  BY <1>12 DEF ToSet
<1>16. new \in [Keys -> {None} \cup Received]
  <2>1. old \in [Keys -> {None} \cup Received]
    BY <1>6 DEF Tracks
  <2>2. QED
    BY <1>8, <2>1
<1>17. ASSUME NEW i \in 1..Len(t)
       PROVE  /\ t[i].key \in Keys /\ new[t[i].key] # None
              /\ new[t[i].key] = IF t[i].key = m.key THEN now ELSE old[t[i].key]
              /\ Follows(t[i], new[t[i].key])
  <2>1. t[i] \in Entries
    BY <1>9, ElementOfSeq
  <2>2. t[i].key \in Keys
    BY <2>1 DEF Entries
  <2>3. new[t[i].key] = IF t[i].key = m.key THEN now ELSE old[t[i].key]
    BY <1>8, <1>15, <2>2
  <2>4. CASE i = n + 1 /\ t[i] = c
    <3>1. now # None
      BY IngestAssumption
    <3>2. QED
      BY <1>3, <1>4, <2>2, <2>3, <2>4, <3>1
  <2>5. CASE i \in 1..n /\ t[i] = tracker[at[i]] /\ t[i].key # m.key
    <3>1. at[i] \in 1..Len(tracker)
      BY <1>11, <2>5
    <3>2. since[tracker[at[i]].key] # None /\ Follows(tracker[at[i]], since[tracker[at[i]].key])
      BY <2>2, <2>5, <3>1 DEF Tracks
    <3>3. QED
      BY <1>6, <2>2, <2>3, <2>5, <3>2
  <2>6. QED
    BY <1>13, <2>4, <2>5
<1>18. \A j \in Keys : new[j] # None <=> \E i \in 1..Len(t) : t[i].key = j
  BY <1>8, <1>15, <1>17
<1>19. ASSUME NEW i \in 1..Len(t) PROVE Follows(t[i], new[t[i].key])'
  <2>1. PICK s, g : s = t[i] /\ g = new[t[i].key]
    OBVIOUS
  <2>2. Follows(s, g)
    BY <1>17, <2>1
  <2>3. Follows(s, g)'
    BY <2>2, FollowsKept
  <2>4. QED
    BY <2>1, <2>3
<1>20. Listed'
  BY <1>5, <1>9, <1>14 DEF Listed
<1>21. QED
  BY <1>5, <1>8, <1>16, <1>18, <1>19, <1>20 DEF Tracks

(* An empty tracker is right.                                               *)
LEMMA InitTracks == Init => Tracks
<1> SUFFICES ASSUME Init PROVE Tracks
  OBVIOUS
<1>1. tracker = << >> /\ since = [k \in Keys |-> None]
  BY DEF Init
<1>2. 0 <= MaxSessions
  <2>1. {BatchCycles, MaxSessions} \subseteq Nat \ {0}
    BY IngestAssumption
  <2>2. QED
    BY <2>1
<1>3. Len(tracker) = 0 /\ tracker \in Seq(Entries)
  BY <1>1
<1>4. QED
  BY <1>1, <1>2, <1>3 DEF Tracks, Listed

(* Every step keeps the tracker right.                                      *)
LEMMA NextTracks ==
    ASSUME Sent, Tracks, [Next]_vars
    PROVE  Sent' /\ Tracks'
<1>1. /\ net' \in SUBSET net /\ origin' = origin
      /\ Leaves \/ Writes \/ \E m \in net : Takes(m)
  BY StepKinds
<1>2. Sent'
  BY <1>1, SentKept
<1>3. CASE Leaves \/ Writes
  <2>1. tracker' = tracker /\ since' = since
    BY <1>3 DEF Leaves, Writes
  <2>2. ASSUME NEW i \in 1..Len(tracker)
        PROVE  Follows(tracker[i], since[tracker[i].key])'
    <3>1. PICK s, g : s = tracker[i] /\ g = since[tracker[i].key]
      OBVIOUS
    <3>2. Follows(s, g)
      BY <3>1 DEF Tracks
    <3>3. Follows(s, g)'
      BY <1>1, <3>2, FollowsKept
    <3>4. QED
      BY <2>1, <3>1, <3>3
  <2>3. QED
    BY <1>2, <2>1, <2>2 DEF Tracks, Listed
<1>4. CASE \E m \in net : Takes(m)
  BY <1>1, <1>2, <1>4, TakesTracks
<1>5. QED
  BY <1>1, <1>3, <1>4

(* The greatest of a set with one that is greatest.                         *)
LEMMA MaxIs ==
    ASSUME NEW T \in SUBSET Int, NEW x \in T, \A y \in T : x >= y
    PROVE  Max(T) = x
<1>1. Max(T) \in T /\ \A y \in T : Max(T) >= y
  BY DEF Max
<1>2. PICK y \in Int : y = Max(T) /\ y \in T
  BY <1>1
<1>3. x \in Int /\ x >= y /\ y >= x
  BY <1>1, <1>2
<1>4. x = y
  BY <1>2, <1>3
<1>5. QED
  BY <1>2, <1>4

(* The estimate is a consequence.                                           *)
LEMMA TracksEstimate == Tracks => LossEstimate
<1> SUFFICES ASSUME Tracks, NEW k \in Keys, since[k] # None
             PROVE  LET s == Tracked(k)
                        end == Max(since[k].got) + 1
                        missing == Cardinality((since[k].from..(end - 1)) \ since[k].got)
                    IN  /\ s.next = (origin.seq + end) % SeqWrap
                        /\ missing <= s.lost /\ s.lost <= missing + s.late
  BY DEF LossEstimate
<1>1. PICK i \in 1..Len(tracker) : tracker[i].key = k
  BY DEF Tracks
<1>2. DOMAIN tracker = 1..Len(tracker)
  BY LenProperties DEF Tracks, Listed
<1>3. Tracked(k) = tracker[i]
  <2>1. \A j \in 1..Len(tracker) : tracker[j].key = k => j = i
    BY <1>1 DEF Tracks, Listed
  <2>2. \A s \in ToSet(tracker) : s.key = k => s = tracker[i]
    BY <1>2, <2>1 DEF ToSet
  <2>3. tracker[i] \in ToSet(tracker)
    BY <1>2 DEF ToSet
  <2>4. QED
    BY <1>1, <2>2, <2>3 DEF Tracked
<1>4. PICK end \in Nat : Expects(tracker[i], since[k], end)
  BY <1>1 DEF Tracks, Follows
<1>5. Max(since[k].got) = end - 1
  <2>1. since[k].got \in SUBSET (0..(end - 1)) /\ end - 1 \in since[k].got
    BY <1>4 DEF Expects
  <2>2. since[k].got \in SUBSET Int /\ \A y \in since[k].got : end - 1 >= y
    BY <2>1
  <2>3. QED
    BY <2>1, <2>2, MaxIs
<1>6. Max(since[k].got) + 1 = end
  BY <1>5
<1>7. QED
  BY <1>3, <1>4, <1>6 DEF Expects, Missing

(* The loss the tracker estimates is never too low, and too high by no more *)
(* than what came late (SeqTracker.observe), for all orders of datagrams,   *)
(* wraps of seq and limits of the tracker.                                  *)
THEOREM LossEstimated == Spec => []LossEstimate
<1>1. Init => Sent /\ Tracks
  BY InitSent, InitTracks
<1>2. (Sent /\ Tracks) /\ [Next]_vars => (Sent /\ Tracks)'
  BY NextTracks
<1>3. Sent /\ Tracks => LossEstimate
  BY TracksEstimate
<1>4. QED
  BY <1>1, <1>2, <1>3, PTL DEF Spec

-----------------------------------------------------------------------------
(* Whom the tracker forgets *)

Before(h, a, b) == \E i, j \in DOMAIN h : h[i] = a /\ h[j] = b /\ i < j

Among(h, a) == \E i \in DOMAIN h : h[i] = a

(* The tracker has its sessions in the order they were last heard.          *)
InOrder(h, t) ==
    /\ h \in Seq(Keys)
    /\ \A i \in 1..Len(t) : Among(h, t[i].key)
    /\ \A i, j \in 1..Len(t) : i < j => Before(h, t[i].key, t[j].key)

Ordered == InOrder(heard, tracker)

(* What was heard before the others still is, when one is heard again.      *)
LEMMA HeardAgain ==
    ASSUME NEW h \in Seq(Keys), NEW k \in Keys
    PROVE  LET g == Append(Without(h, {i \in DOMAIN h : h[i] = k}), k)
           IN  /\ g \in Seq(Keys) /\ Last(g) = k /\ Among(g, k)
               /\ \A a \in Keys : a # k /\ Among(h, a) => Among(g, a) /\ Before(g, a, k)
               /\ \A a, b \in Keys : a # k /\ b # k /\ Before(h, a, b) => Before(g, a, b)
<1> DEFINE places == {i \in DOMAIN h : h[i] = k}
           r == Without(h, places)
           g == Append(r, k)
<1>1. PICK n \in Nat : n = Len(h) /\ DOMAIN h = 1..n
  BY LenProperties
<1>2. places \in SUBSET (1..n) /\ (places # {} => Min(places) \in places)
  <2>1. places \in SUBSET (1..n)
    BY <1>1
  <2>2. places \in SUBSET Nat
    BY <2>1
  <2> HIDE DEF places
  <2>3. QED
    BY <2>1, <2>2, MinProperties
<1>3. places # {} => h[Min(places)] = k
  BY <1>2
<1> HIDE DEF places
<1>4. r \in Seq(Keys)
  BY <1>1, <1>2, WithoutProperties
<1>5. PICK at : /\ Selects(at, h, r)
                /\ \A j \in 1..n : Left(at, r, j) \/ (places # {} /\ j = Min(places))
  BY <1>1, <1>2, WithoutProperties
<1>6. PICK l \in Nat : l = Len(r) /\ DOMAIN r = 1..l
  BY <1>4, LenProperties
<1> HIDE DEF r
<1>7. /\ g \in Seq(Keys) /\ Len(g) = l + 1 /\ g[l + 1] = k /\ \A i \in 1..l : g[i] = r[i]
      /\ DOMAIN g = 1..(l + 1)
  BY <1>4, <1>6, AppendProperties, LenProperties
<1> HIDE DEF g
<1>8. Last(g) = k /\ Among(g, k)
  BY <1>7 DEF Last, Among
<1>9. \A j \in 1..n : h[j] # k => \E i \in 1..l : at[i] = j
  BY <1>3, <1>5, <1>6 DEF Left
<1>10. \A i \in 1..l : g[i] = h[at[i]] /\ at[i] \in 1..n /\ i \in 1..(l + 1) /\ i < l + 1
  BY <1>1, <1>5, <1>6, <1>7 DEF Selects
<1>11. ASSUME NEW a \in Keys, a # k, Among(h, a) PROVE Among(g, a) /\ Before(g, a, k)
  <2>1. PICK j \in 1..n : h[j] = a
    BY <1>1, <1>11 DEF Among
  <2>2. PICK i \in 1..l : at[i] = j
    BY <1>9, <1>11, <2>1
  <2>3. g[i] = a /\ i \in DOMAIN g /\ l + 1 \in DOMAIN g /\ i < l + 1
    BY <1>7, <1>10, <2>1, <2>2
  <2>4. QED
    BY <1>7, <2>3 DEF Among, Before
<1>12. ASSUME NEW a \in Keys, NEW b \in Keys, a # k, b # k, Before(h, a, b)
       PROVE  Before(g, a, b)
  <2>1. PICK x \in 1..n, y \in 1..n : h[x] = a /\ h[y] = b /\ x < y
    BY <1>1, <1>12 DEF Before
  <2>2. PICK i \in 1..l : at[i] = x
    BY <1>9, <1>12, <2>1
  <2>3. PICK j \in 1..l : at[j] = y
    BY <1>9, <1>12, <2>1
  <2>4. i < j
    <3>1. ~(j < i)
      <4>1. j < i => y < x
        BY <1>5, <1>6, <2>2, <2>3 DEF Selects
      <4>2. QED
        BY <2>1, <4>1
    <3>2. i # j
      BY <2>1, <2>2, <2>3
    <3>3. QED
      BY <3>1, <3>2
  <2>5. g[i] = a /\ g[j] = b /\ i \in DOMAIN g /\ j \in DOMAIN g
    BY <1>7, <1>10, <2>1, <2>2, <2>3
  <2>6. QED
    BY <2>4, <2>5 DEF Before
<1>13. QED
  BY <1>7, <1>8, <1>11, <1>12 DEF g, r, places

Forgets(k) ==
    since[k] # None /\ since'[k] = None
     => \/ Last(heard') = k
        \/ /\ Len(tracker) = MaxSessions
           /\ \A s \in ToSet(tracker') :
                \E i, j \in DOMAIN heard' : heard'[i] = k /\ heard'[j] = s.key /\ i < j

(* A packet keeps the order, and whom it pushes out was heard first.        *)
LEMMA TakesOrdered ==
    ASSUME Sent, Tracks, Tracks', Ordered, NEW m \in net, Takes(m)
    PROVE  Ordered' /\ \A k \in Keys : Forgets(k)
<1> DEFINE p == PacketOf(m)
<1>1. m \in Runs /\ Started /\ Listed
  BY DEF Sent, Tracks
<1>2. KeyOf(p) = m.key /\ m.key \in Keys
  BY <1>1, PacketParts
<1>3. PICK c \in Entries : c = Counted(p, StateOf(p)) /\ c.key = m.key
  BY NewEntry
<1>4. PICK t : t = tracker' /\ t = IF p.last THEN Others(p) ELSE Append(Others(p), c)
  BY <1>3 DEF Takes, Observe, Observed
<1>5. PICK n \in Nat : \E at \in [1..n -> 1..Len(tracker)] : Reshaped(t, c, p, n, at)
  BY <1>1, <1>4, ObservedShape
<1>6. PICK at \in [1..n -> 1..Len(tracker)] : Reshaped(t, c, p, n, at)
  BY <1>5
<1>7. PICK g : g = heard' /\ g = Append(Without(heard, {i \in DOMAIN heard : heard[i] = m.key}), m.key)
  BY DEF Takes, Remember
<1>8. /\ g \in Seq(Keys) /\ Last(g) = m.key /\ Among(g, m.key)
      /\ \A a \in Keys : a # m.key /\ Among(heard, a) => Among(g, a) /\ Before(g, a, m.key)
      /\ \A a, b \in Keys : a # m.key /\ b # m.key /\ Before(heard, a, b) => Before(g, a, b)
  <2>1. heard \in Seq(Keys)
    BY DEF Ordered, InOrder
  <2>2. PICK h \in Seq(Keys), k \in Keys : h = heard /\ k = m.key
    BY <1>2, <2>1
  <2>3. g = Append(Without(h, {i \in DOMAIN h : h[i] = k}), k)
    BY <1>7, <2>2
  <2>4. /\ g \in Seq(Keys) /\ Last(g) = k /\ Among(g, k)
        /\ \A a \in Keys : a # k /\ Among(h, a) => Among(g, a) /\ Before(g, a, k)
        /\ \A a, b \in Keys : a # k /\ b # k /\ Before(h, a, b) => Before(g, a, b)
    BY <2>3, HeardAgain
  <2>5. QED
    BY <2>2, <2>4
<1> HIDE DEF p
<1>9. t \in Seq(Entries) /\ DOMAIN t = 1..Len(t) /\ \A i \in 1..Len(t) : t[i].key \in Keys
  <2>1. t \in Seq(Entries)
    BY <1>1, <1>4, ObservedShape
  <2>2. \A i \in 1..Len(t) : t[i] \in Entries
    BY <2>1, ElementOfSeq
  <2>3. QED
    BY <2>1, <2>2, LenProperties DEF Entries
<1>10. \A j \in 1..Len(tracker) : tracker[j].key \in Keys
  <2>1. \A j \in 1..Len(tracker) : tracker[j] \in Entries
    BY <1>1, ElementOfSeq DEF Listed
  <2>2. QED
    BY <2>1 DEF Entries
<1>11. ASSUME NEW i \in 1..Len(t)
       PROVE  \/ /\ i \in 1..n /\ at[i] \in 1..Len(tracker)
                 /\ t[i] = tracker[at[i]] /\ t[i].key # m.key
              \/ i = n + 1 /\ t[i] = c /\ t[i].key = m.key
  <2>1. i \in 1..n \/ (i = n + 1 /\ Len(t) = n + 1)
    BY <1>6 DEF Reshaped
  <2>2. QED
    BY <1>2, <1>3, <1>6, <2>1 DEF Reshaped
<1>12. ASSUME NEW i \in 1..Len(t) PROVE Among(g, t[i].key)
  BY <1>8, <1>9, <1>11 DEF Ordered, InOrder
<1>13. ASSUME NEW i \in 1..Len(t), NEW j \in 1..Len(t), i < j
       PROVE  Before(g, t[i].key, t[j].key)
  <2>1. i \in 1..n
    <3>1. Len(t) \in {n, n + 1}
      BY <1>6 DEF Reshaped
    <3>2. QED
      BY <1>13, <3>1
  <2>2. at[i] \in 1..Len(tracker) /\ t[i] = tracker[at[i]] /\ t[i].key # m.key
    BY <1>2, <1>6, <2>1 DEF Reshaped
  <2>3. CASE j \in 1..n
    <3>1. at[j] \in 1..Len(tracker) /\ t[j] = tracker[at[j]] /\ t[j].key # m.key /\ at[i] < at[j]
      BY <1>2, <1>6, <1>13, <2>1, <2>3 DEF Reshaped
    <3>2. Before(heard, t[i].key, t[j].key)
      BY <2>2, <3>1 DEF Ordered, InOrder
    <3>3. QED
      BY <1>8, <1>9, <2>2, <3>1, <3>2
  <2>4. CASE t[j].key = m.key
    <3>1. Among(heard, t[i].key)
      BY <2>2 DEF Ordered, InOrder
    <3>2. QED
      BY <1>8, <1>9, <2>2, <2>4, <3>1
  <2>5. QED
    BY <1>11, <2>3, <2>4
<1>14. Ordered'
  <2>1. InOrder(g, t)
    BY <1>8, <1>12, <1>13 DEF InOrder
  <2>2. QED
    BY <1>4, <1>7, <2>1 DEF Ordered
<1>15. ASSUME NEW k \in Keys, since[k] # None, since'[k] = None, k # m.key
       PROVE  /\ Len(tracker) = MaxSessions
              /\ \A s \in ToSet(tracker') : Before(g, k, s.key)
  <2>1. PICK j \in 1..Len(tracker) : tracker[j].key = k
    BY <1>15 DEF Tracks
  <2>2. \A i \in 1..Len(t) : t[i].key # k
    BY <1>4, <1>15 DEF Tracks
  <2>3. ~ \E i \in 1..n : at[i] = j
    <3> SUFFICES ASSUME NEW i \in 1..n, at[i] = j PROVE FALSE
      OBVIOUS
    <3>1. t[i].key = k
      BY <1>6, <2>1 DEF Reshaped
    <3>2. i \in 1..Len(t)
      BY <1>6 DEF Reshaped
    <3>3. QED
      BY <2>2, <3>1, <3>2
  <2>4. Len(tracker) = MaxSessions /\ \A i \in 1..n : j < at[i]
    BY <1>2, <1>6, <1>15, <2>1, <2>3 DEF Reshaped
  <2>5. ASSUME NEW i \in 1..Len(t) PROVE Before(g, k, t[i].key)
    <3>1. CASE t[i].key = m.key
      <4>1. Among(heard, k)
        BY <2>1 DEF Ordered, InOrder
      <4>2. QED
        BY <1>8, <1>15, <3>1, <4>1
    <3>2. CASE i \in 1..n /\ at[i] \in 1..Len(tracker) /\ t[i] = tracker[at[i]] /\ t[i].key # m.key
      <4>1. Before(heard, k, t[i].key)
        BY <2>1, <2>4, <3>2 DEF Ordered, InOrder
      <4>2. QED
        BY <1>8, <1>9, <1>15, <3>2, <4>1
    <3>3. QED
      BY <1>11, <3>1, <3>2
  <2>6. QED
    BY <1>4, <1>9, <2>4, <2>5 DEF ToSet
<1>16. ASSUME NEW k \in Keys PROVE Forgets(k)
  <2>1. CASE k = m.key
    BY <1>7, <1>8, <2>1 DEF Forgets
  <2>2. CASE k # m.key
    <3>1. since[k] # None /\ since'[k] = None
             => /\ Len(tracker) = MaxSessions
                /\ \A s \in ToSet(tracker') : Before(heard', k, s.key)
      BY <1>7, <1>15, <2>2
    <3>2. QED
      BY <3>1 DEF Forgets, Before
  <2>3. QED
    BY <2>1, <2>2
<1>17. QED
  BY <1>14, <1>16

(* Every step keeps the order, and forgets as it should.                    *)
LEMMA NextOrdered ==
    ASSUME Sent, Tracks, Ordered, [Next]_vars
    PROVE  Ordered' /\ \A k \in Keys : Forgets(k)
<1>1. Tracks'
  BY NextTracks
<1>2. Leaves \/ Writes \/ \E m \in net : Takes(m)
  BY StepKinds
<1>3. CASE Leaves \/ Writes
  <2>1. tracker' = tracker /\ heard' = heard /\ since' = since
    BY <1>3 DEF Leaves, Writes
  <2>2. Ordered'
    BY <2>1 DEF Ordered
  <2>3. \A k \in Keys : Forgets(k)
    BY <2>1 DEF Forgets
  <2>4. QED
    BY <2>2, <2>3
<1>4. CASE \E m \in net : Takes(m)
  BY <1>1, <1>4, TakesOrdered
<1>5. QED
  BY <1>2, <1>3, <1>4

(* At its limit the tracker forgets the session it heard least recently     *)
(* (SeqTracker.observe), and otherwise only one that ended.                 *)
THEOREM OldestForgotten == Spec => ForgetsOldest
<1> DEFINE Inv == Sent /\ Tracks /\ Ordered
           Step == \A k \in Keys : since[k] # None /\ since'[k] = None
                     => \/ Last(heard') = k
                        \/ /\ Len(tracker) = MaxSessions
                           /\ \A s \in ToSet(tracker') :
                                \E i, j \in DOMAIN heard' :
                                   heard'[i] = k /\ heard'[j] = s.key /\ i < j
<1>1. Init => Inv
  <2> SUFFICES ASSUME Init PROVE Inv
    OBVIOUS
  <2>1. tracker = << >> /\ heard = << >>
    BY DEF Init
  <2>2. Ordered
    BY <2>1 DEF Ordered, InOrder
  <2>3. QED
    BY <2>2, InitSent, InitTracks
<1>2. Inv /\ [Next]_vars => Inv'
  BY NextTracks, NextOrdered
<1>3. Inv /\ [Next]_vars => [Step]_vars
  <2>1. Inv /\ [Next]_vars => Step
    BY NextOrdered DEF Forgets
  <2>2. QED
    BY <2>1
<1>4. QED
  BY <1>1, <1>2, <1>3, PTL DEF Spec, ForgetsOldest

-----------------------------------------------------------------------------
(* The rows *)

(* The rows of the cycles with the numbers in S.                            *)
RowsOf(S) ==
    [fix |-> {FixRow(Cycle(i)) : i \in S},
     sample |-> UNION {SampleRows(Cycle(i)) : i \in S}]

(* What a session may have in the store.                                    *)
Stores(k) == {RowsOf(S) : S \in SUBSET (0..(Length[k] - 1))}

(* One cycle more is stored of its session, or the same ones.               *)
LEMMA InsertedStays ==
    ASSUME NEW k \in Keys, NEW w \in Stores(k), NEW i \in 0..(Length[k] - 1)
    PROVE  Inserted(w, Cycle(i)) \in Stores(k)
<1>1. PICK S \in SUBSET (0..(Length[k] - 1)) : w = RowsOf(S)
  BY DEF Stores
<1>2. PICK c : c = Cycle(i)
  OBVIOUS
<1>3. CASE \E r \in w.fix : r.seq = c.seq
  BY <1>2, <1>3 DEF Inserted
<1>4. CASE ~ \E r \in w.fix : r.seq = c.seq
  <2>1. Inserted(w, c) =
           [fix |-> w.fix \cup {FixRow(c)}, sample |-> w.sample \cup SampleRows(c)]
    BY <1>4 DEF Inserted
  <2>2. /\ w.fix = {FixRow(Cycle(j)) : j \in S}
        /\ w.sample = UNION {SampleRows(Cycle(j)) : j \in S}
    BY <1>1 DEF RowsOf
  <2>3. PICK T : T = S \cup {i} /\ T \in SUBSET (0..(Length[k] - 1))
    OBVIOUS
  <2>4. {FixRow(Cycle(j)) : j \in T} = w.fix \cup {FixRow(c)}
    BY <1>2, <2>2, <2>3
  <2>5. UNION {SampleRows(Cycle(j)) : j \in T} = w.sample \cup SampleRows(c)
    BY <1>2, <2>2, <2>3
  <2>6. Inserted(w, c) = RowsOf(T)
    BY <2>1, <2>4, <2>5 DEF RowsOf
  <2>7. QED
    BY <1>2, <2>3, <2>6 DEF Stores
<1>5. QED
  BY <1>3, <1>4

(* The cycles of a packet are inserted whole.                               *)
LEMMA InsertedAllChain ==
    ASSUME Started, NEW m \in Runs, NEW w \in Stores(m.key)
    PROVE  \E v \in [0..m.count -> Stores(m.key)] :
              /\ v[0] = w /\ v[m.count] = InsertedAll(w, PacketOf(m))
              /\ \A i \in 1..m.count : v[i] = Inserted(v[i - 1], PacketOf(m).cycles[i])
<1> DEFINE A == Stores(m.key)
           p == PacketOf(m)
           cs == p.cycles
           n == m.count
           step == [i \in 1..n |-> [x \in A |-> Inserted(x, cs[i])]]
           Eq(f) == [t \in SUBSET (1..n) |->
                       IF t = {} THEN w ELSE Inserted(f[t \ {Max(t)}], cs[Max(t)])]
           it == CHOOSE f : f = Eq(f)
<1>1. n \in Nat /\ DOMAIN cs = 1..n /\ m.key \in Keys
      /\ \A i \in 1..n : /\ m.first + i - 1 \in 0..(Length[m.key] - 1)
                         /\ cs[i] = Cycle(m.first + i - 1)
  BY PacketParts
<1>2. \A i \in 1..n : \A x \in A : Inserted(x, cs[i]) \in A
  BY <1>1, InsertedStays
<1>3. w \in A
  OBVIOUS
<1> HIDE DEF A, n
<1>4. step \in [1..n -> [A -> A]]
  BY <1>2
<1>5. \A i \in 1..n : \A x \in A : step[i][x] = Inserted(x, cs[i])
  OBVIOUS
<1>6. InsertedAll(w, p) = it[1..n]
  BY <1>1 DEF InsertedAll, FoldLeft, MapThenFoldSet
<1> HIDE DEF step, p, cs
<1>7. \E f : f = Eq(f)
  <2>1. PICK f \in [SUBSET (1..n) -> A] : ByPlaces(f, n, w, step)
    BY <1>1, <1>3, <1>4, FoldExists, Zenon
  <2>2. \A t \in SUBSET (1..n) :
           f[t] = IF t = {} THEN w ELSE Inserted(f[t \ {Max(t)}], cs[Max(t)])
    <3> SUFFICES ASSUME NEW t \in SUBSET (1..n), t # {}
                 PROVE  f[t] = Inserted(f[t \ {Max(t)}], cs[Max(t)])
      BY <2>1 DEF ByPlaces
    <3>1. Max(t) \in 1..n /\ f[t \ {Max(t)}] \in A
      BY <1>1, <2>1, MaxProperties
    <3>2. QED
      BY <1>5, <2>1, <3>1 DEF ByPlaces
  <2>3. f = Eq(f)
    BY <2>2
  <2>4. QED
    BY <2>3
<1>8. it = Eq(it)
  BY <1>7
<1> HIDE DEF it
<1>9. it[{}] = w
  BY <1>8
<1>10. ASSUME NEW t \in SUBSET (1..n), t # {}, it[t \ {Max(t)}] \in A
       PROVE  it[t] = step[Max(t)][it[t \ {Max(t)}]]
  <2>1. Max(t) \in 1..n
    BY <1>1, <1>10, MaxProperties
  <2>2. it[t] = Inserted(it[t \ {Max(t)}], cs[Max(t)])
    BY <1>8, <1>10
  <2>3. QED
    BY <1>5, <1>10, <2>1, <2>2
<1>11. OverPlaces(it, n, A, w, step)
  BY <1>9, <1>10 DEF OverPlaces
<1>12. PICK v \in [0..n -> A] : IsRun(v, n, w, step, it[1..n])
  BY <1>1, <1>3, <1>4, <1>11, FoldChain, Zenon
<1>13. v[0] = w /\ v[n] = it[1..n] /\ \A i \in 1..n : v[i] = step[i][v[i - 1]]
  BY <1>12 DEF IsRun
<1>14. ASSUME NEW i \in 1..n PROVE v[i] = Inserted(v[i - 1], cs[i])
  <2>1. i - 1 \in 0..n
    BY <1>1
  <2> QED
    BY <1>5, <1>12, <1>13, <2>1
<1>15. QED
  BY <1>6, <1>12, <1>13, <1>14 DEF A, n, p, cs

(* And so it is with all cycles of a packet.                                *)
LEMMA InsertedAllStays ==
    ASSUME Started, NEW m \in Runs, NEW w \in Stores(m.key)
    PROVE  InsertedAll(w, PacketOf(m)) \in Stores(m.key)
<1>1. PICK v \in [0..m.count -> Stores(m.key)] :
         v[m.count] = InsertedAll(w, PacketOf(m))
  BY InsertedAllChain
<1>2. m.count \in 0..m.count
  BY DEF Runs
<1>3. QED
  BY <1>1, <1>2

(* After a packet there are rows of its session, and of all its cycles.     *)
LEMMA InsertedAllHolds ==
    ASSUME Started, NEW m \in Runs, NEW w \in Stores(m.key)
    PROVE  /\ {f.seq : f \in w.fix} \subseteq {f.seq : f \in InsertedAll(w, PacketOf(m)).fix}
           /\ \A i \in 1..m.count :
                 PacketOf(m).cycles[i].seq \in {f.seq : f \in InsertedAll(w, PacketOf(m)).fix}
<1> DEFINE cs == PacketOf(m).cycles
           n == m.count
           Seqs(x) == {f.seq : f \in x.fix}
<1>1. PICK v \in [0..n -> Stores(m.key)] :
         /\ v[0] = w /\ v[n] = InsertedAll(w, PacketOf(m))
         /\ \A i \in 1..n : v[i] = Inserted(v[i - 1], cs[i])
  BY InsertedAllChain
<1>2. n \in Nat
  BY DEF Runs
<1>3. \A x, c : Seqs(x) \subseteq Seqs(Inserted(x, c)) /\ c.seq \in Seqs(Inserted(x, c))
  <2> SUFFICES ASSUME NEW x, NEW c
               PROVE  Seqs(x) \subseteq Seqs(Inserted(x, c)) /\ c.seq \in Seqs(Inserted(x, c))
    OBVIOUS
  <2>1. CASE \E r \in x.fix : r.seq = c.seq
    BY <2>1 DEF Inserted
  <2>2. CASE ~ \E r \in x.fix : r.seq = c.seq
    <3>1. Inserted(x, c).fix = x.fix \cup {FixRow(c)}
      BY <2>2 DEF Inserted
    <3>2. FixRow(c).seq = c.seq
      BY DEF FixRow
    <3> QED
      BY <3>1, <3>2
  <2> QED
    BY <2>1, <2>2
<1> HIDE DEF cs, n, Seqs
<1> DEFINE P == {i \in 0..n : /\ Seqs(w) \subseteq Seqs(v[i])
                              /\ \A j \in 1..i : cs[j].seq \in Seqs(v[i])}
<1>4. 0 \in P
  BY <1>1, <1>2
<1>5. ASSUME NEW i \in 1..n, i - 1 \in P PROVE i \in P
  <2>1. Seqs(v[i - 1]) \subseteq Seqs(v[i]) /\ cs[i].seq \in Seqs(v[i])
    BY <1>1, <1>3
  <2>2. \A j \in 1..i : j \in 1..(i - 1) \/ j = i
    OBVIOUS
  <2>3. Seqs(w) \subseteq Seqs(v[i - 1]) /\ \A j \in 1..(i - 1) : cs[j].seq \in Seqs(v[i - 1])
    BY <1>5
  <2> QED
    BY <2>1, <2>2, <2>3
<1>6. n \in P
  <2>1. \A i \in 0..n : i \in P
    <3> HIDE DEF P
    <3> QED
      BY <1>2, <1>4, <1>5, Induction
  <2>2. n \in 0..n
    BY <1>2
  <2> QED
    BY <2>1, <2>2
<1>7. Seqs(w) \subseteq Seqs(v[n]) /\ \A j \in 1..n : cs[j].seq \in Seqs(v[n])
  BY <1>6
<1> QED
  BY <1>1, <1>7 DEF Seqs, cs, n

(* What was handed to the writer was sent, and so was what is stored.       *)
Handed ==
    /\ Started
    /\ queue \in Seq({PacketOf(m) : m \in Runs})
    /\ \A k \in Keys : [fix |-> fixes[k], sample |-> samples[k]] \in Stores(k)

(* The rows of a session after each of the packets that are queued.         *)
RowsChain(k, v) ==
    /\ v \in [0..Len(queue) -> Stores(k)]
    /\ v[0] = [fix |-> fixes[k], sample |-> samples[k]] /\ v[Len(queue)] = RowsAfter(k)
    /\ \A i \in 1..Len(queue) :
          v[i] = IF KeyOf(queue[i]) = k THEN InsertedAll(v[i - 1], queue[i]) ELSE v[i - 1]

(* The rows after a batch, packet by packet.                                *)
LEMMA RowsAfterChain ==
    ASSUME Handed, NEW k \in Keys
    PROVE  \E v : RowsChain(k, v)
<1> DEFINE A == Stores(k)
           w == [fix |-> fixes[k], sample |-> samples[k]]
           n == Len(queue)
           insert(x, p) == IF KeyOf(p) = k THEN InsertedAll(x, p) ELSE x
           step == [i \in 1..n |-> [x \in A |-> insert(x, queue[i])]]
           Eq(f) == [t \in SUBSET (1..n) |->
                       IF t = {} THEN w ELSE insert(f[t \ {Max(t)}], queue[Max(t)])]
           it == CHOOSE f : f = Eq(f)
<1>1. n \in Nat /\ DOMAIN queue = 1..n
  BY LenProperties DEF Handed
<1>2. \A i \in 1..n : \A x \in A : insert(x, queue[i]) \in A
  <2> SUFFICES ASSUME NEW i \in 1..n, NEW x \in A, KeyOf(queue[i]) = k
               PROVE  InsertedAll(x, queue[i]) \in A
    OBVIOUS
  <2>1. PICK m \in Runs : queue[i] = PacketOf(m)
    <3>1. queue[i] \in {PacketOf(m) : m \in Runs}
      BY ElementOfSeq DEF Handed
    <3>2. QED
      BY <3>1
  <2>2. m.key = k /\ Started
    BY <2>1, PacketParts DEF Handed
  <2>3. QED
    BY <2>1, <2>2, InsertedAllStays
<1>3. w \in A
  BY DEF Handed
<1>4. RowsAfter(k) = it[1..n]
  BY <1>1 DEF RowsAfter, FoldLeft, MapThenFoldSet
<1> HIDE DEF A, n, insert, w
<1>5. step \in [1..n -> [A -> A]]
  BY <1>2
<1>6. \A i \in 1..n : \A x \in A : step[i][x] = insert(x, queue[i])
  OBVIOUS
<1> HIDE DEF step
<1>7. \E f : f = Eq(f)
  <2>1. PICK f \in [SUBSET (1..n) -> A] : ByPlaces(f, n, w, step)
    BY <1>1, <1>3, <1>5, FoldExists, Zenon
  <2>2. \A t \in SUBSET (1..n) :
           f[t] = IF t = {} THEN w ELSE insert(f[t \ {Max(t)}], queue[Max(t)])
    <3> SUFFICES ASSUME NEW t \in SUBSET (1..n), t # {}
                 PROVE  f[t] = insert(f[t \ {Max(t)}], queue[Max(t)])
      BY <2>1 DEF ByPlaces
    <3>1. Max(t) \in 1..n /\ f[t \ {Max(t)}] \in A
      BY <1>1, <2>1, MaxProperties
    <3>2. QED
      BY <1>6, <2>1, <3>1 DEF ByPlaces
  <2>3. f = Eq(f)
    BY <2>2
  <2>4. QED
    BY <2>3
<1>8. it = Eq(it)
  BY <1>7
<1> HIDE DEF it
<1>9. it[{}] = w
  BY <1>8
<1>10. ASSUME NEW t \in SUBSET (1..n), t # {}, it[t \ {Max(t)}] \in A
       PROVE  it[t] = step[Max(t)][it[t \ {Max(t)}]]
  <2>1. Max(t) \in 1..n
    BY <1>1, <1>10, MaxProperties
  <2>2. it[t] = insert(it[t \ {Max(t)}], queue[Max(t)])
    BY <1>8, <1>10
  <2>3. QED
    BY <1>6, <1>10, <2>1, <2>2
<1>11. OverPlaces(it, n, A, w, step)
  BY <1>9, <1>10 DEF OverPlaces
<1>12. PICK v \in [0..n -> A] : IsRun(v, n, w, step, it[1..n])
  BY <1>1, <1>3, <1>5, <1>11, FoldChain, Zenon
<1>13. v[0] = w /\ v[n] = it[1..n] /\ \A i \in 1..n : v[i] = step[i][v[i - 1]]
  BY <1>12 DEF IsRun
<1>14. ASSUME NEW i \in 1..n PROVE v[i] = insert(v[i - 1], queue[i])
  <2>1. i - 1 \in 0..n
    BY <1>1
  <2> QED
    BY <1>6, <1>12, <1>13, <2>1
<1>15. QED
  BY <1>4, <1>12, <1>13, <1>14 DEF A, n, w, insert, RowsChain

(* After a batch the rows are those of true cycles.                         *)
LEMMA RowsAfterStays ==
    ASSUME Handed, NEW k \in Keys
    PROVE  RowsAfter(k) \in Stores(k)
<1>1. PICK v : RowsChain(k, v)
  BY RowsAfterChain
<1>2. Len(queue) \in Nat
  BY LenProperties DEF Handed
<1>3. QED
  BY <1>1, <1>2 DEF RowsChain

(* Nothing is stored at first.                                              *)
LEMMA InitHanded == Init => Handed
<1> SUFFICES ASSUME Init PROVE Handed
  OBVIOUS
<1>1. Started
  BY InitSent DEF Sent
<1>2. queue = << >>
  BY DEF Init
<1>3. ASSUME NEW k \in Keys PROVE [fix |-> fixes[k], sample |-> samples[k]] \in Stores(k)
  <2>1. fixes[k] = {} /\ samples[k] = {}
    BY DEF Init
  <2>2. [fix |-> fixes[k], sample |-> samples[k]] = RowsOf({})
    BY <2>1 DEF RowsOf
  <2>3. QED
    BY <2>2 DEF Stores
<1>4. QED
  BY <1>1, <1>2, <1>3 DEF Handed

(* Every step keeps the rows those of true cycles.                          *)
LEMMA NextHanded ==
    ASSUME Sent, Handed, [Next]_vars
    PROVE  Handed'
<1>1. /\ net' \in SUBSET net /\ origin' = origin
      /\ Leaves \/ Writes \/ \E m \in net : Takes(m)
  BY StepKinds
<1>2. Started'
  BY <1>1 DEF Handed, Started
<1>3. ASSUME NEW k \in Keys PROVE Stores(k)' = Stores(k)
  BY <1>1 DEF Stores, RowsOf, Cycle
<1> DEFINE P == {PacketOf(m) : m \in Runs}
<1>4. P' = P
  BY <1>1 DEF PacketOf, Cycle
<1>5. queue \in Seq(P)
  BY DEF Handed
<1>6. ASSUME UNCHANGED <<fixes, samples>>, NEW k \in Keys
      PROVE  [fix |-> fixes'[k], sample |-> samples'[k]] \in Stores(k)
  BY <1>6 DEF Handed
<1>7. /\ queue' \in Seq(P)
      /\ \A k \in Keys : [fix |-> fixes'[k], sample |-> samples'[k]] \in Stores(k)
  <2>1. CASE Leaves
    BY <1>5, <1>6, <2>1 DEF Leaves
  <2>2. CASE \E m \in net : Takes(m)
    <3>1. PICK m \in net : Takes(m)
      BY <2>2
    <3>2. PacketOf(m) \in P
      BY DEF Sent
    <3> HIDE DEF P
    <3>3. queue' \in Seq(P)
      BY <1>5, <3>1, <3>2, AppendProperties DEF Takes
    <3>4. UNCHANGED <<fixes, samples>>
      BY <3>1 DEF Takes
    <3>5. QED
      BY <1>6, <3>3, <3>4
  <2>3. CASE Writes
    <3>1. queue' = << >>
      BY <2>3 DEF Writes, Write
    <3>2. ASSUME NEW k \in Keys
          PROVE  [fix |-> fixes'[k], sample |-> samples'[k]] \in Stores(k)
      <4>1. fixes'[k] = RowsAfter(k).fix /\ samples'[k] = RowsAfter(k).sample
        BY <2>3 DEF Writes, Write
      <4>2. RowsAfter(k) \in Stores(k)
        BY RowsAfterStays
      <4>3. PICK S \in SUBSET (0..(Length[k] - 1)) : RowsAfter(k) = RowsOf(S)
        BY <4>2 DEF Stores
      <4>4. [fix |-> fixes'[k], sample |-> samples'[k]] = RowsAfter(k)
        BY <4>1, <4>3 DEF RowsOf
      <4>5. QED
        BY <4>2, <4>4
    <3>3. QED
      BY <3>1, <3>2
  <2>4. QED
    BY <1>1, <2>1, <2>2, <2>3
<1>8. QED
  BY <1>2, <1>3, <1>4, <1>7 DEF Handed

(* A raw seq stands for one cycle of its session only.                      *)
LEMMA IndexOf ==
    ASSUME Started, NEW k \in Keys, NEW i \in 0..(Length[k] - 1)
    PROVE  Index(FixRow(Cycle(i)).seq) = i
<1>1. PICK w \in Nat \ {0} : w = SeqWrap
  BY PacketAssumption
<1>2. PICK o \in 0..(w - 1) : o = origin.seq
  BY <1>1 DEF Started
<1>3. i \in 0..(w - 1)
  <2>1. PICK l \in Nat : l = Length[k] /\ 2 * l <= w + 1
    BY <1>1, IngestAssumption
  <2>2. QED
    BY <2>1
<1>4. FixRow(Cycle(i)).seq = (o + i) % w
  BY <1>1, <1>2 DEF FixRow, Cycle
<1>5. o % w = o /\ i % w = i
  <2>1. o \in Int /\ i \in Int
    OBVIOUS
  <2>2. o % w = o
    BY <2>1, Remainder
  <2>3. i % w = i
    BY <1>3, <2>1, Remainder
  <2>4. QED
    BY <2>2, <2>3
<1>6. (((o + i) % w) - (o % w)) % w = ((o + i) - o) % w
  <2>1. o + i \in Int /\ o \in Int
    BY <1>3
  <2>2. QED
    BY <2>1, WrapGap
<1>7. (o + i) - o = i
  BY <1>3
<1>8. QED
  BY <1>1, <1>2, <1>4, <1>5, <1>6, <1>7 DEF Index

(* That is what StoredAsSent says.                                          *)
LEMMA HandedStored == Handed => StoredAsSent
<1> SUFFICES ASSUME Handed, NEW k \in Keys
             PROVE  LET seqs == {f.seq : f \in fixes[k]}
                        stored == {Index(q) : q \in seqs}
                    IN  /\ stored \subseteq 0..(Length[k] - 1)
                        /\ fixes[k] = {FixRow(Cycle(i)) : i \in stored}
                        /\ samples[k] = UNION {SampleRows(Cycle(i)) : i \in stored}
  BY DEF StoredAsSent
<1> DEFINE seqs == {f.seq : f \in fixes[k]}
           stored == {Index(q) : q \in seqs}
<1>1. PICK S \in SUBSET (0..(Length[k] - 1)) :
         [fix |-> fixes[k], sample |-> samples[k]] = RowsOf(S)
  BY DEF Handed, Stores
<1>2. /\ fixes[k] = {FixRow(Cycle(i)) : i \in S}
      /\ samples[k] = UNION {SampleRows(Cycle(i)) : i \in S}
  BY <1>1 DEF RowsOf
<1>3. \A i \in S : Index(FixRow(Cycle(i)).seq) = i
  BY IndexOf DEF Handed
<1>4. \A i : i \in stored <=> \E f \in fixes[k] : i = Index(f.seq)
  OBVIOUS
<1> HIDE DEF stored
<1>5. \A i : i \in stored <=> \E j \in S : i = Index(FixRow(Cycle(j)).seq)
  BY <1>2, <1>4
<1>6. stored = S
  <2>1. ASSUME NEW i PROVE i \in stored <=> i \in S
    <3>1. CASE i \in S
      BY <1>3, <1>5, <3>1, Zenon
    <3>2. CASE i \in stored
      <4>1. PICK j \in S : i = Index(FixRow(Cycle(j)).seq)
        BY <1>5, <3>2, Zenon
      <4>2. i = j
        BY <1>3, <4>1, Zenon
      <4>3. QED
        BY <3>2, <4>1, <4>2
    <3>3. QED
      BY <3>1, <3>2
  <2>2. QED
    BY <2>1
<1>7. QED
  BY <1>2, <1>6 DEF stored

(* What is stored of a cycle is what its tag sent of it, the fix with all   *)
(* its ranges (decode_packet, TelemetryStore.write_packets): nothing of a   *)
(* damaged datagram, and no mixture.                                        *)
THEOREM StoredTrue == Spec => []StoredAsSent
<1>1. Init => Sent /\ Tracks /\ Handed
  BY InitSent, InitTracks, InitHanded
<1>2. (Sent /\ Tracks /\ Handed) /\ [Next]_vars => (Sent /\ Tracks /\ Handed)'
  BY NextTracks, NextHanded
<1>3. Sent /\ Tracks /\ Handed => StoredAsSent
  BY HandedStored
<1>4. QED
  BY <1>1, <1>2, <1>3, PTL DEF Spec

-----------------------------------------------------------------------------
(* Numbers in their order *)

Increasing(f, n) == \A i, j \in 1..n : i < j => f[i] < f[j]

(* f lists the n numbers of T in ascending order.                           *)
Orders(f, n, T) ==
    /\ n \in Nat /\ f \in [1..n -> T] /\ Increasing(f, n)
    /\ \A x \in T : \E i \in 1..n : f[i] = x

(* What is in ascending order is found at one place only, and the order of  *)
(* the places is that of the numbers.                                       *)
LEMMA OrderOfPlaces ==
    ASSUME NEW n \in Nat, NEW f \in [1..n -> Int], Increasing(f, n),
           NEW i \in 1..n, NEW j \in 1..n
    PROVE  /\ f[i] = f[j] <=> i = j
           /\ f[i] < f[j] <=> i < j
           /\ f[i] <= f[j] <=> i <= j
<1>1. f[i] \in Int /\ f[j] \in Int
  OBVIOUS
<1>2. i < j => f[i] < f[j]
  BY DEF Increasing
<1>3. j < i => f[j] < f[i]
  BY DEF Increasing
<1> QED
  BY <1>1, <1>2, <1>3

(* One more number, greater than all.                                       *)
LEMMA OrderGrows ==
    ASSUME NEW n \in Nat, NEW T \in SUBSET Int, NEW f, Orders(f, n, T),
           NEW b \in Int, \A x \in T : x < b
    PROVE  Orders([i \in 1..(n + 1) |-> IF i = n + 1 THEN b ELSE f[i]], n + 1, T \cup {b})
<1> DEFINE U == T \cup {b}
           g == [i \in 1..(n + 1) |-> IF i = n + 1 THEN b ELSE f[i]]
<1>1. /\ f \in [1..n -> T] /\ \A i, j \in 1..n : i < j => f[i] < f[j]
      /\ \A x \in T : \E i \in 1..n : f[i] = x
  BY DEF Orders, Increasing
<1>2. \A i \in 1..n : i \in 1..(n + 1) /\ i # n + 1 /\ g[i] = f[i] /\ f[i] \in T
  BY <1>1
<1>3. n + 1 \in 1..(n + 1) /\ g[n + 1] = b
  OBVIOUS
<1>4. \A i \in 1..(n + 1) : i \in 1..n \/ i = n + 1
  OBVIOUS
<1>5. g \in [1..(n + 1) -> U]
  BY <1>1
<1> HIDE DEF g
<1>6. ASSUME NEW i \in 1..(n + 1), NEW j \in 1..(n + 1), i < j PROVE g[i] < g[j]
  <2>1. i \in 1..n
    BY <1>6
  <2>2. CASE j \in 1..n
    BY <1>1, <1>2, <1>6, <2>1, <2>2
  <2>3. CASE j = n + 1
    BY <1>2, <1>3, <2>1, <2>3
  <2> QED
    BY <1>4, <2>2, <2>3
<1>7. ASSUME NEW x \in U PROVE \E i \in 1..(n + 1) : g[i] = x
  <2>1. CASE x \in T
    <3>1. PICK i \in 1..n : f[i] = x
      BY <1>1, <2>1
    <3> QED
      BY <1>2, <3>1
  <2>2. CASE x = b
    BY <1>3, <2>2
  <2> QED
    BY <2>1, <2>2
<1> QED
  BY <1>5, <1>6, <1>7 DEF Orders, Increasing, g

(* Every set of numbers below a bound can be put in order.                  *)
LEMMA OrderExists ==
    ASSUME NEW b \in Nat, NEW T \in SUBSET (0..b)
    PROVE  \E n \in Nat : \E f : Orders(f, n, T)
<1> DEFINE P == {c \in 0..(b + 1) :
                   \A U \in SUBSET (0..(c - 1)) : \E n \in Nat : \E f : Orders(f, n, U)}
<1>1. 0 \in P
  <2> SUFFICES ASSUME NEW U \in SUBSET (0..(0 - 1))
               PROVE  \E n \in Nat : \E f : Orders(f, n, U)
    OBVIOUS
  <2>1. U = {}
    OBVIOUS
  <2>2. Orders([i \in 1..0 |-> i], 0, {})
    BY DEF Orders, Increasing
  <2> QED
    BY <2>1, <2>2
<1>2. ASSUME NEW c \in 1..(b + 1), c - 1 \in P PROVE c \in P
  <2> SUFFICES ASSUME NEW U \in SUBSET (0..(c - 1))
               PROVE  \E n \in Nat : \E f : Orders(f, n, U)
    OBVIOUS
  <2> DEFINE d == c - 1
             V == U \ {d}
  <2>1. d \in Nat /\ V \in SUBSET (0..(d - 1))
    OBVIOUS
  <2>2. PICK n \in Nat : \E f : Orders(f, n, V)
    BY <1>2, <2>1
  <2>3. PICK f : Orders(f, n, V)
    BY <2>2
  <2>4. CASE d \notin U
    <3>1. V = U
      BY <2>4
    <3> QED
      BY <2>3, <3>1
  <2>5. CASE d \in U
    <3>1. V \cup {d} = U /\ V \in SUBSET Int /\ d \in Int /\ n + 1 \in Nat
          /\ \A x \in V : x < d
      BY <2>1, <2>5
    <3> HIDE DEF V, d
    <3>2. \E g : Orders(g, n + 1, V \cup {d})
      BY <2>3, <3>1, OrderGrows
    <3> QED
      BY <3>1, <3>2
  <2> QED
    BY <2>4, <2>5
<1>3. \A c \in 0..(b + 1) : c \in P
  <2> HIDE DEF P
  <2> QED
    BY <1>1, <1>2, Induction
<1>4. b + 1 \in P /\ T \in SUBSET (0..((b + 1) - 1))
  BY <1>3
<1> QED
  BY <1>4

(* As many numbers as places.                                               *)
LEMMA OrderCounts ==
    ASSUME NEW n, NEW f, NEW T \in SUBSET Int, Orders(f, n, T)
    PROVE  IsFiniteSet(T) /\ Cardinality(T) = n
<1>1. n \in Nat /\ f \in [1..n -> T] /\ f \in [1..n -> Int]
      /\ \A x \in T : \E i \in 1..n : f[i] = x
  BY DEF Orders
<1>2. \A i, j \in 1..n : f[i] = f[j] => i = j
  BY <1>1, OrderOfPlaces DEF Orders
<1>3. f \in Bijection(1..n, T)
  BY <1>1, <1>2 DEF Bijection, Injection, Surjection, IsInjective
<1>4. IsFiniteSet(1..n) /\ Cardinality(1..n) = n
  BY <1>1, FS_Interval
<1>5. ExistsBijection(1..n, T)
  BY <1>3 DEF ExistsBijection
<1> QED
  BY <1>4, <1>5, FS_Bijection

(* What puts as many numbers as there are in order leaves none out.         *)
LEMMA OrderIsOnto ==
    ASSUME NEW n \in Nat, NEW T \in SUBSET Int, IsFiniteSet(T), Cardinality(T) = n,
           NEW f \in [1..n -> T], Increasing(f, n)
    PROVE  Orders(f, n, T)
<1>1. f \in [1..n -> Int]
  OBVIOUS
<1>2. \A i, j \in 1..n : f[i] = f[j] => i = j
  BY <1>1, OrderOfPlaces
<1>3. f \in Injection(1..n, T)
  BY <1>2 DEF Injection, IsInjective
<1>4. Cardinality(1..n) = n
  BY FS_Interval
<1>5. f \in Surjection(1..n, T)
  BY <1>3, <1>4, FS_Injection
<1> QED
  BY <1>5 DEF Orders, Surjection

(* There is only one order.                                                 *)
LEMMA OrderIsUnique ==
    ASSUME NEW n, NEW T \in SUBSET Int, NEW f, NEW g, Orders(f, n, T), Orders(g, n, T)
    PROVE  f = g
<1>1. n \in Nat /\ f \in [1..n -> Int] /\ g \in [1..n -> Int]
      /\ f \in [1..n -> T] /\ g \in [1..n -> T]
  BY DEF Orders
<1> DEFINE P == {i \in 0..n : \A j \in 1..i : f[j] = g[j]}
<1>2. 0 \in P
  BY <1>1
<1>3. ASSUME NEW i \in 1..n, i - 1 \in P PROVE i \in P
  <2>1. \A j \in 1..(i - 1) : f[j] = g[j]
    BY <1>3
  <2>2. f[i] \in T /\ g[i] \in T /\ f[i] \in Int /\ g[i] \in Int
    BY <1>1
  <2>3. g[i] <= f[i]
    <3>1. PICK j \in 1..n : g[j] = f[i]
      BY <2>2 DEF Orders
    <3>2. j >= i
      <4> SUFFICES ASSUME j < i PROVE FALSE
        OBVIOUS
      <4>1. j \in 1..(i - 1)
        OBVIOUS
      <4>2. f[j] = f[i]
        BY <2>1, <3>1, <4>1
      <4>3. f[j] < f[i]
        BY DEF Orders, Increasing
      <4> QED
        BY <2>2, <4>2, <4>3
    <3>3. i <= j => g[i] <= g[j]
      BY <1>1, OrderOfPlaces DEF Orders
    <3> QED
      BY <3>1, <3>2, <3>3
  <2>4. f[i] <= g[i]
    <3>1. PICK j \in 1..n : f[j] = g[i]
      BY <2>2 DEF Orders
    <3>2. j >= i
      <4> SUFFICES ASSUME j < i PROVE FALSE
        OBVIOUS
      <4>1. j \in 1..(i - 1)
        OBVIOUS
      <4>2. g[j] = g[i]
        BY <2>1, <3>1, <4>1
      <4>3. g[j] < g[i]
        BY DEF Orders, Increasing
      <4> QED
        BY <2>2, <4>2, <4>3
    <3>3. i <= j => f[i] <= f[j]
      BY <1>1, OrderOfPlaces DEF Orders
    <3> QED
      BY <3>1, <3>2, <3>3
  <2>5. f[i] = g[i]
    BY <2>2, <2>3, <2>4
  <2>6. \A j \in 1..i : j \in 1..(i - 1) \/ j = i
    OBVIOUS
  <2> QED
    BY <2>1, <2>5, <2>6
<1>4. \A i \in 0..n : i \in P
  <2> HIDE DEF P
  <2> QED
    BY <1>1, <1>2, <1>3, Induction
<1>5. n \in P
  <2>1. n \in 0..n
    BY <1>1
  <2> HIDE DEF P
  <2> QED
    BY <1>4, <2>1
<1>6. \A i \in 1..n : f[i] = g[i]
  BY <1>5
<1> QED
  BY <1>1, <1>6

(* ORDER BY and WHERE give what is in order.                                *)
LEMMA AscendingIs ==
    ASSUME NEW n, NEW T \in SUBSET Int, NEW f, Orders(f, n, T)
    PROVE  Ascending(T) = f
<1>1. Cardinality(T) = n /\ IsFiniteSet(T) /\ n \in Nat
  BY OrderCounts DEF Orders
<1>2. /\ f \in [1..n -> T]
      /\ \A i, j \in DOMAIN f : i < j => f[i] < f[j]
  BY DEF Orders, Increasing
<1>3. PICK g : g = Ascending(T)
  OBVIOUS
<1>4. g \in [1..n -> T] /\ \A i, j \in DOMAIN g : i < j => g[i] < g[j]
  <2>1. \E h \in [1..n -> T] : \A i, j \in DOMAIN h : i < j => h[i] < h[j]
    BY <1>2
  <2>2. g = CHOOSE h \in [1..n -> T] : \A i, j \in DOMAIN h : i < j => h[i] < h[j]
    BY <1>1, <1>3 DEF Ascending
  <2> QED
    BY <2>1, <2>2
<1>5. Orders(g, n, T)
  BY <1>1, <1>4, OrderIsOnto DEF Increasing
<1> QED
  BY <1>3, <1>5, OrderIsUnique

(* WHERE gives the rows at the places, in their order.                      *)
LEMMA PickedIs ==
    ASSUME NEW rows, NEW n, NEW T \in SUBSET Int, NEW f, Orders(f, n, T)
    PROVE  Picked(rows, T) = [i \in 1..n |-> rows[f[i]]]
<1>1. Ascending(T) = f
  BY AscendingIs
<1>2. DOMAIN f = 1..n
  BY DEF Orders
<1> QED
  BY <1>1, <1>2 DEF Picked

(* All places in their order.                                               *)
LEMMA AllInOrder ==
    ASSUME NEW n \in Nat
    PROVE  Orders([i \in 1..n |-> i], n, 1..n)
BY DEF Orders, Increasing

(* All rows are the rows.                                                   *)
LEMMA PickedAll ==
    ASSUME NEW n \in Nat, NEW rows, rows = [i \in 1..n |-> rows[i]]
    PROVE  Picked(rows, 1..n) = rows
<1> DEFINE f == [i \in 1..n |-> i]
<1>1. Orders(f, n, 1..n) /\ 1..n \in SUBSET Int
  BY AllInOrder
<1>2. \A i \in 1..n : f[i] = i
  OBVIOUS
<1> HIDE DEF f
<1>3. Picked(rows, 1..n) = [i \in 1..n |-> rows[f[i]]]
  <2>1. Ascending(1..n) = f
    BY <1>1, AscendingIs
  <2>2. DOMAIN f = 1..n
    BY <1>1 DEF Orders
  <2> QED
    BY <2>1, <2>2 DEF Picked
<1>4. [i \in 1..n |-> rows[f[i]]] = [i \in 1..n |-> rows[i]]
  BY <1>2
<1> QED
  BY <1>3, <1>4

-----------------------------------------------------------------------------
(* What the query unwraps *)

(* A nonempty set of naturals below a bound has a least and a greatest.     *)
LEMMA Extremes ==
    ASSUME NEW b \in Nat, NEW T \in SUBSET (0..b), T # {}
    PROVE  /\ Min(T) \in T /\ \A y \in T : Min(T) <= y
           /\ Max(T) \in T /\ \A y \in T : Max(T) >= y
<1>1. T \in SUBSET Nat
  OBVIOUS
<1>2. Min(T) \in T /\ \A y \in T : Min(T) <= y
  BY <1>1, MinProperties
<1> DEFINE U == {b - y : y \in T}
<1>3. U \in SUBSET Nat /\ U # {}
  <2>1. \A y \in T : b - y \in Nat
    OBVIOUS
  <2> QED
    BY <2>1
<1>4. Min(U) \in U /\ \A z \in U : Min(U) <= z
  BY <1>3, MinProperties
<1>5. PICK x \in T : Min(U) = b - x
  BY <1>4
<1>6. ASSUME NEW y \in T PROVE x >= y
  <2>1. b - y \in U
    OBVIOUS
  <2>2. b - x <= b - y
    BY <1>4, <1>5, <2>1
  <2> QED
    BY <2>2
<1>7. T \in SUBSET Int /\ Max(T) = x
  BY <1>1, <1>6, MaxIs
<1> QED
  BY <1>2, <1>6, <1>7

(* Numbers from o on within the wrap w.                                     *)
Wrapping(o, w, i) == IF o + i < w THEN o + i ELSE o + i - w

(* A row of numbers of less than half the range is told apart from its      *)
(* wrap by its extremes, and the lower half put after the upper one gives   *)
(* its order back.                                                          *)
LEMMA HalfRange ==
    ASSUME NEW w \in Nat \ {0}, w % 2 = 0, NEW o \in 0..(w - 1), NEW l \in Nat,
           2 * l <= w + 1, NEW S \in SUBSET (0..(l - 1)), S # {}
    PROVE  LET raw(i) == Wrapping(o, w, i)
               seqs == {raw(i) : i \in S}
               wrapped == 2 * (Max(seqs) - Min(seqs)) >= w
           IN  \E base \in {o, o - w} : \A i \in S :
                  raw(i) + (IF wrapped /\ 2 * raw(i) < w THEN w ELSE 0) = base + i
<1> DEFINE raw(i) == Wrapping(o, w, i)
           seqs == {raw(i) : i \in S}
           wrapped == 2 * (Max(seqs) - Min(seqs)) >= w
<1>1. PICK h \in Nat : w = 2 * h
  <2>1. w = 2 * (w \div 2) /\ w \div 2 \in Nat
    OBVIOUS
  <2> QED
    BY <2>1
<1>2. l <= h
  BY <1>1
<1>3. \A i \in S : i \in Nat /\ i < h
  BY <1>1, <1>2
<1>4. \A i \in S : raw(i) \in 0..(w - 1)
  BY <1>1, <1>3 DEF Wrapping
<1>5. seqs \in SUBSET (0..(w - 1)) /\ seqs # {} /\ w - 1 \in Nat
  <2> HIDE DEF raw
  <2>1. \A y \in seqs : y \in 0..(w - 1)
    BY <1>4
  <2>2. seqs # {}
    OBVIOUS
  <2> HIDE DEF seqs
  <2> QED
    BY <2>1, <2>2
<1>6. /\ Min(seqs) \in seqs /\ \A y \in seqs : Min(seqs) <= y
      /\ Max(seqs) \in seqs /\ \A y \in seqs : Max(seqs) >= y
  BY <1>5, Extremes
<1>7. PICK a \in S, b \in S : Min(seqs) = raw(a) /\ Max(seqs) = raw(b)
  BY <1>6
<1>8. \A i \in S : Min(seqs) <= raw(i) /\ Max(seqs) >= raw(i)
  BY <1>6
<1>9. CASE \A i \in S : o + i < w
  <2>1. \A i \in S : raw(i) = o + i
    BY <1>9 DEF Wrapping
  <2>2. raw(b) - raw(a) = b - a
    BY <1>3, <2>1
  <2>3. ~ wrapped
    BY <1>1, <1>3, <1>7, <2>2
  <2> HIDE DEF raw, wrapped
  <2>4. \A i \in S : raw(i) + (IF wrapped /\ 2 * raw(i) < w THEN w ELSE 0) = o + i
    BY <1>3, <2>1, <2>3
  <2> QED
    BY <2>4 DEF raw, wrapped
<1>10. CASE \A i \in S : ~ (o + i < w)
  <2>1. \A i \in S : raw(i) = o + i - w
    BY <1>10 DEF Wrapping
  <2>2. raw(b) - raw(a) = b - a
    BY <1>3, <2>1
  <2>3. ~ wrapped
    BY <1>1, <1>3, <1>7, <2>2
  <2> HIDE DEF raw, wrapped
  <2>4. \A i \in S : raw(i) + (IF wrapped /\ 2 * raw(i) < w THEN w ELSE 0) = (o - w) + i
    BY <1>3, <2>1, <2>3
  <2> QED
    BY <2>4 DEF raw, wrapped
<1>11. CASE \E i, j \in S : o + i < w /\ ~ (o + j < w)
  <2>1. PICK i1 \in S, i2 \in S : o + i1 < w /\ ~ (o + i2 < w)
    BY <1>11
  <2>2. raw(i1) = o + i1 /\ raw(i2) = o + i2 - w
    BY <2>1 DEF Wrapping
  <2>3. wrapped
    <3>1. PICK mn \in Int, mx \in Int : mn = Min(seqs) /\ mx = Max(seqs)
      <4> HIDE DEF raw, seqs
      <4> QED
        BY <1>4, <1>7
    <3>2. mn <= o + i2 - w /\ mx >= o + i1
      BY <1>8, <2>2, <3>1
    <3>3. i1 \in Nat /\ i2 \in Nat /\ i1 < h /\ i2 < h
      BY <1>3
    <3>4. 2 * (mx - mn) >= w
      BY <1>1, <3>2, <3>3
    <3> QED
      BY <3>1, <3>4
  <2> HIDE DEF wrapped, seqs
  <2>4. ASSUME NEW i \in S
        PROVE  raw(i) + (IF wrapped /\ 2 * raw(i) < w THEN w ELSE 0) = o + i
    <3>1. i1 \in Nat /\ i2 \in Nat /\ i1 < h /\ i2 < h /\ i \in Nat /\ i < h
      BY <1>3
    <3>2. CASE o + i < w
      <4>1. raw(i) = o + i
        BY <3>2 DEF Wrapping
      <4>2. 2 * (o + i) >= w
        BY <1>1, <2>1, <3>1
      <4>3. ~ (2 * raw(i) < w)
        BY <3>1, <4>1, <4>2
      <4> HIDE DEF raw
      <4> QED
        BY <3>1, <4>1, <4>3
    <3>3. CASE ~ (o + i < w)
      <4>1. raw(i) = o + i - w
        BY <3>3 DEF Wrapping
      <4>2. 2 * (o + i - w) < w
        BY <1>1, <2>1, <3>1
      <4> HIDE DEF raw
      <4> QED
        BY <2>3, <3>1, <4>1, <4>2
    <3> QED
      BY <3>2, <3>3
  <2> HIDE DEF raw
  <2>5. \E base \in {o, o - w} : \A i \in S :
           raw(i) + (IF wrapped /\ 2 * raw(i) < w THEN w ELSE 0) = base + i
    BY <2>4
  <2> QED
    BY <2>5 DEF raw, wrapped, seqs
<1> QED
  BY <1>9, <1>10, <1>11

(* One place more to count.                                                 *)
LEMMA CountStep ==
    ASSUME NEW P, NEW i \in Nat, i >= 2
    PROVE  LET c(e) == Cardinality({j \in 2..e : j \in P})
           IN  c(i) = c(i - 1) + IF i \in P THEN 1 ELSE 0
<1> DEFINE A == {j \in 2..(i - 1) : j \in P}
           B == {j \in 2..i : j \in P}
<1>1. IsFiniteSet(A) /\ Cardinality(A) \in Nat
  <2>1. IsFiniteSet(2..(i - 1))
    BY FS_Interval
  <2> QED
    BY <2>1, FS_Subset, FS_CardinalityType
<1>2. CASE i \in P
  <2>1. B = A \cup {i} /\ i \notin A
    BY <1>2
  <2>2. Cardinality(B) = Cardinality(A) + 1
    BY <1>1, <2>1, FS_AddElement
  <2> QED
    BY <1>2, <2>2
<1>3. CASE i \notin P
  <2>1. B = A
    BY <1>3
  <2>2. PICK a \in Nat : a = Cardinality(A) /\ Cardinality(B) = a
    BY <1>1, <2>1
  <2>3. a = a + 0
    OBVIOUS
  <2> QED
    BY <1>3, <2>2, <2>3
<1> QED
  BY <1>2, <1>3

(* Places up to one of them can be counted.                                 *)
LEMMA CountNatural ==
    ASSUME NEW P, NEW i \in Int
    PROVE  Cardinality({j \in 2..i : j \in P}) \in Nat
<1>1. IsFiniteSet(2..i)
  BY FS_Interval
<1> QED
  BY <1>1, FS_Subset, FS_CardinalityType

(* The fix of the i-th cycle of a session.                                  *)
Row(i) == FixRow(Cycle(i))

(* What unwrapping takes for the time between two cycles.                   *)
TimeStep(a, b) ==
    Row(b).t - Row(a).t + IF 2 * (Row(a).t - Row(b).t) > TimeWrap THEN TimeWrap ELSE 0

(* Times of the n cycles `at' that lie as far apart as unwrapping has it.   *)
Spaced(tt, at, n) ==
    /\ tt \in [1..n -> Int]
    /\ \A i \in 2..n : tt[i] - tt[i - 1] = TimeStep(at[i - 1], at[i])

(* The i-th of the unwrapped rows of the cycles `at'.                       *)
Unwound(base, at, tt, i) ==
    [row |-> Row(at[i]), n |-> base + at[i], t |-> tt[i],
     dt |-> IF i > 1 /\ at[i] - at[i - 1] = 1 THEN tt[i] - tt[i - 1] ELSE None]

(* Where the numbers of the cycles begin: at the raw seq of the first, or   *)
(* one turn before it.                                                      *)
Bases == {origin.seq, origin.seq - SeqWrap}

(* The raw seq and t of a row.                                              *)
LEMMA RowParts ==
    ASSUME Started, NEW k \in Keys, NEW i \in 0..(Length[k] - 1)
    PROVE  /\ Row(i).seq = Wrapping(origin.seq, SeqWrap, i)
           /\ Row(i).seq \in 0..(SeqWrap - 1) /\ Row(i).t \in 0..(TimeWrap - 1)
           /\ origin.seq \in 0..(SeqWrap - 1)
<1>1. Row(i).seq = Cycle(i).seq /\ Row(i).t = Cycle(i).t
  BY DEF Row, FixRow
<1>2. Cycle(i).seq \in 0..(SeqWrap - 1) /\ Cycle(i).t \in 0..(TimeWrap - 1)
  BY CycleType DEF CycleRecords
<1>3. PICK w \in Nat \ {0} : w = SeqWrap
  BY PacketAssumption
<1>4. PICK o \in 0..(w - 1) : o = origin.seq
  BY <1>3 DEF Started
<1>5. PICK l \in Nat : l = Length[k] /\ 2 * l <= w + 1
  BY <1>3, IngestAssumption
<1>6. Cycle(i).seq = (o + i) % w
  BY <1>3, <1>4 DEF Cycle
<1>7. (o + i) % w = IF o + i < w THEN o + i ELSE o + i - w
  <2>1. i \in Nat /\ i < w
    BY <1>5
  <2>2. CASE o + i < w
    <3>1. o + i \in 0..(w - 1) /\ o + i \in Int
      BY <2>1, <2>2
    <3> QED
      BY <2>2, <3>1, Remainder
  <2>3. CASE ~ (o + i < w)
    <3>1. (o + i - w) \in 0..(w - 1) /\ o + i - w \in Int
      BY <2>1, <2>3
    <3>2. (o + i - w) % w = o + i - w
      BY <3>1, Remainder
    <3>3. (w * 1 + (o + i - w)) % w = (o + i - w) % w
      <4>1. PICK x \in Int : x = o + i - w
        BY <3>1
      <4>2. 1 \in Int
        OBVIOUS
      <4>3. (w * 1 + x) % w = x % w
        BY <4>2, Multiples
      <4> QED
        BY <4>1, <4>3
    <3>4. w * 1 + (o + i - w) = o + i
      BY <2>1
    <3> QED
      BY <2>3, <3>2, <3>3, <3>4
  <2> QED
    BY <2>2, <2>3
<1> QED
  BY <1>1, <1>2, <1>3, <1>4, <1>6, <1>7 DEF Wrapping

(* seq_wrapped and seq_n number the stored cycles as they were counted.     *)
LEMMA NumbersOf ==
    ASSUME Started, NEW k \in Keys, NEW S \in SUBSET (0..(Length[k] - 1)), S # {}
    PROVE  LET fix == {Row(i) : i \in S}
           IN  \E base \in Bases : \A i \in S :
                  SeqN(Row(i).seq, SeqWrapped(fix)) = base + i
<1> DEFINE fix == {Row(i) : i \in S}
<1>1. PICK w \in Nat \ {0} : w = SeqWrap /\ w % 2 = 0
  BY PacketAssumption
<1>2. PICK l \in Nat : l = Length[k] /\ 2 * l <= w + 1
  BY <1>1, IngestAssumption
<1>3. PICK o \in 0..(w - 1) : o = origin.seq
  BY <1>1 DEF Started
<1> DEFINE raw(i) == Wrapping(o, w, i)
           seqs == {raw(i) : i \in S}
           wrapped == 2 * (Max(seqs) - Min(seqs)) >= w
<1>4. \A i \in S : Row(i).seq = raw(i)
  BY <1>1, <1>3, RowParts
<1>5. PICK base \in {o, o - w} : \A i \in S :
         raw(i) + (IF wrapped /\ 2 * raw(i) < w THEN w ELSE 0) = base + i
  <2>1. S \in SUBSET (0..(l - 1)) /\ 2 * l <= w + 1
    BY <1>2
  <2>2. w % 2 = 0 /\ w \in Nat \ {0} /\ S # {} /\ l \in Nat /\ o \in 0..(w - 1)
    BY <1>1
  <2> QED
    BY <2>1, <2>2, HalfRange, Zenon
<1>6. {r.seq : r \in fix} = seqs
  <2> HIDE DEF raw
  <2> QED
    BY <1>4
<1>7. SeqWrapped(fix) <=> wrapped
  <2> HIDE DEF seqs, fix
  <2> QED
    BY <1>1, <1>6 DEF SeqWrapped
<1>8. base \in Bases
  BY <1>1, <1>3 DEF Bases
<1> HIDE DEF wrapped, raw
<1>9. ASSUME NEW i \in S PROVE SeqN(Row(i).seq, SeqWrapped(fix)) = base + i
  <2>1. SeqN(Row(i).seq, SeqWrapped(fix)) = raw(i) + (IF wrapped /\ 2 * raw(i) < w THEN w ELSE 0)
    BY <1>1, <1>4, <1>7 DEF SeqN
  <2> QED
    BY <1>5, <2>1
<1> QED
  BY <1>8, <1>9

(* The number a session is counted from is one.                             *)
LEMMA BaseInteger ==
    ASSUME Started, NEW base \in Bases
    PROVE  base \in Int
BY PacketAssumption DEF Started, Bases

(* The raw seq of the cycles in S stand for their numbers.                  *)
Numbers(S, wrapped, base) == \A i \in S : SeqN(Row(i).seq, wrapped) = base + i

(* The rows of the cycles in their order.                                   *)
LEMMA NumberedIs ==
    ASSUME NEW S \in SUBSET Int, NEW n, NEW at, Orders(at, n, S),
           NEW wrapped, NEW base \in Int, Numbers(S, wrapped, base)
    PROVE  Numbered({Row(i) : i \in S}, wrapped) =
              [i \in 1..n |-> [row |-> Row(at[i]), n |-> base + at[i]]]
<1> DEFINE fix == {Row(i) : i \in S}
           rows == {[row |-> r, n |-> SeqN(r.seq, wrapped)] : r \in fix}
           item(x) == [row |-> Row(x), n |-> base + x]
           g == [i \in 1..n |-> item(at[i])]
<1>1. n \in Nat /\ S \in SUBSET Int /\ IsFiniteSet(S) /\ Cardinality(S) = n
      /\ at \in [1..n -> S] /\ Increasing(at, n)
  BY OrderCounts DEF Orders
<1>2. rows = {item(x) : x \in S}
  <2>1. \A x \in S : SeqN(Row(x).seq, wrapped) = base + x
    BY DEF Numbers
  <2> QED
    BY <2>1
<1>3. \A x \in S : item(x) \in rows /\ item(x).n = base + x
  BY <1>2
<1>4. \A r \in rows : \E x \in S : r = item(x)
  BY <1>2
<1> HIDE DEF rows, item
<1>5. Cardinality(rows) = n
  <2> DEFINE f == [x \in S |-> item(x)]
  <2>1. f \in [S -> rows]
    BY <1>3
  <2>2. \A x, y \in S : f[x] = f[y] => x = y
    <3> SUFFICES ASSUME NEW x \in S, NEW y \in S, item(x) = item(y) PROVE x = y
      OBVIOUS
    <3>1. base + x = base + y /\ x \in Int /\ y \in Int
      BY <1>1, <1>3
    <3> QED
      BY <3>1
  <2>3. \A r \in rows : \E x \in S : f[x] = r
    BY <1>4
  <2>4. f \in Bijection(S, rows)
    BY <2>1, <2>2, <2>3 DEF Bijection, Injection, Surjection, IsInjective
  <2>5. ExistsBijection(S, rows)
    BY <2>4 DEF ExistsBijection
  <2> QED
    BY <1>1, <2>5, FS_Bijection
<1>6. /\ g \in [1..n -> rows]
      /\ \A i, j \in DOMAIN g : i < j => g[i].n < g[j].n
  <2>1. g \in [1..n -> rows]
    BY <1>1, <1>3
  <2>2. ASSUME NEW i \in 1..n, NEW j \in 1..n, i < j PROVE g[i].n < g[j].n
    <3>1. at[i] < at[j] /\ at[i] \in S /\ at[j] \in S /\ at[i] \in Int /\ at[j] \in Int
      BY <1>1, <2>2 DEF Increasing
    <3>2. g[i].n = base + at[i] /\ g[j].n = base + at[j]
      BY <1>3, <3>1
    <3> HIDE DEF g
    <3> QED
      BY <3>1, <3>2
  <2> QED
    BY <2>1, <2>2
<1>7. PICK h : h = Numbered(fix, wrapped)
  OBVIOUS
<1>8. h \in [1..n -> rows] /\ \A i, j \in DOMAIN h : i < j => h[i].n < h[j].n
  <2>1. h = CHOOSE order \in [1..Cardinality(rows) -> rows] :
              \A i, j \in DOMAIN order : i < j => order[i].n < order[j].n
    BY <1>7 DEF Numbered, rows
  <2>2. \E order \in [1..n -> rows] :
              \A i, j \in DOMAIN order : i < j => order[i].n < order[j].n
    BY <1>6
  <2> HIDE DEF fix
  <2> QED
    BY <1>5, <2>1, <2>2
<1> DEFINE m == [i \in 1..n |-> h[i].n - base]
<1>9. \A i \in 1..n : h[i].n - base \in S /\ h[i] = item(h[i].n - base)
  <2> SUFFICES ASSUME NEW i \in 1..n
               PROVE  h[i].n - base \in S /\ h[i] = item(h[i].n - base)
    OBVIOUS
  <2>1. h[i] \in rows
    BY <1>8
  <2>2. PICK x \in S : h[i] = item(x)
    BY <1>4, <2>1
  <2>3. h[i].n = base + x /\ x \in Int
    BY <1>1, <1>3, <2>2
  <2>4. h[i].n - base = x
    BY <2>3
  <2> QED
    BY <2>2, <2>4
<1>10. m \in [1..n -> S]
  BY <1>9
<1>11. Increasing(m, n)
  <2> SUFFICES ASSUME NEW i \in 1..n, NEW j \in 1..n, i < j PROVE m[i] < m[j]
    BY DEF Increasing
  <2>1. h[i].n < h[j].n
    BY <1>8
  <2>2. m[i] = h[i].n - base /\ m[j] = h[j].n - base /\ m[i] \in S /\ m[j] \in S
    BY <1>10
  <2>3. h[i].n = base + m[i] /\ h[j].n = base + m[j]
    <3>1. PICK x \in Int, y \in Int : h[i] = item(x) /\ h[j] = item(y) /\ x \in S /\ y \in S
      BY <1>1, <1>9
    <3>2. h[i].n = base + x /\ h[j].n = base + y
      BY <1>3, <3>1
    <3> HIDE DEF m
    <3> QED
      BY <2>2, <3>2
  <2> HIDE DEF m
  <2>4. PICK x \in Int, y \in Int : x = m[i] /\ y = m[j]
    BY <1>1, <2>2
  <2> QED
    BY <2>1, <2>3, <2>4
<1>12. Orders(m, n, S)
  BY <1>1, <1>10, <1>11, OrderIsOnto
<1>13. m = at
  BY <1>1, <1>12, OrderIsUnique
<1>14. \A i \in 1..n : h[i] = item(at[i])
  BY <1>9, <1>13
<1>15. h = g
  BY <1>8, <1>14
<1> QED
  BY <1>7, <1>15 DEF item

(* Counting the wraps of t gives the time from row to row.                  *)
LEMMA TimedIs ==
    ASSUME NEW n \in Nat, NEW at \in [1..n -> Int], NEW base \in Int,
           \A i \in 1..n : Row(at[i]).t \in Int
    PROVE  \E tt : /\ Spaced(tt, at, n)
                   /\ Timed([i \in 1..n |-> [row |-> Row(at[i]), n |-> base + at[i]]])
                         = [i \in 1..n |-> Unwound(base, at, tt, i)]
<1> DEFINE rows == [i \in 1..n |-> [row |-> Row(at[i]), n |-> base + at[i]]]
           wraps(i) == Cardinality({j \in 2..i :
                          2 * (rows[j - 1].row.t - rows[j].row.t) > TimeWrap})
           t(i) == rows[i].row.t + TimeWrap * wraps(i)
           tt == [i \in 1..n |-> t(i)]
           P == {j \in 2..n : 2 * (rows[j - 1].row.t - rows[j].row.t) > TimeWrap}
<1>1. Timed(rows) = [i \in DOMAIN rows |->
           [row |-> rows[i].row, n |-> rows[i].n, t |-> t(i),
            dt |-> IF i > 1 /\ rows[i].n - rows[i - 1].n = 1
                   THEN t(i) - t(i - 1) ELSE None]]
  BY DEF Timed
<1>2. /\ DOMAIN rows = 1..n
      /\ \A i \in 1..n : rows[i].row = Row(at[i]) /\ rows[i].n = base + at[i]
                         /\ at[i] \in Int
  OBVIOUS
<1>3. PICK w \in Nat : w = TimeWrap
  BY PacketAssumption
<1> HIDE DEF rows
<1>4. \A i \in 1..n : wraps(i) = Cardinality({j \in 2..i : j \in P})
  <2> SUFFICES ASSUME NEW i \in 1..n PROVE wraps(i) = Cardinality({j \in 2..i : j \in P})
    OBVIOUS
  <2>1. {j \in 2..i : 2 * (rows[j - 1].row.t - rows[j].row.t) > TimeWrap}
           = {j \in 2..i : j \in P}
    OBVIOUS
  <2> QED
    BY <2>1
<1>5. \A i \in 1..n : wraps(i) \in Nat
  <2> SUFFICES ASSUME NEW i \in 1..n PROVE wraps(i) \in Nat
    OBVIOUS
  <2> HIDE DEF P, wraps
  <2>1. i \in Int
    OBVIOUS
  <2>2. Cardinality({j \in 2..i : j \in P}) \in Nat
    BY <2>1, CountNatural
  <2> QED
    BY <1>4, <2>2
<1>6. \A i \in 2..n : wraps(i) = wraps(i - 1) + IF i \in P THEN 1 ELSE 0
  <2> SUFFICES ASSUME NEW i \in 2..n
               PROVE  wraps(i) = wraps(i - 1) + IF i \in P THEN 1 ELSE 0
    OBVIOUS
  <2>1. i \in 1..n /\ i - 1 \in 1..n /\ i \in Nat /\ i >= 2
    OBVIOUS
  <2> HIDE DEF P, wraps
  <2>2. Cardinality({j \in 2..i : j \in P})
           = Cardinality({j \in 2..(i - 1) : j \in P}) + IF i \in P THEN 1 ELSE 0
    BY <2>1, CountStep
  <2> QED
    BY <1>4, <2>1, <2>2
<1>7. \A i \in 2..n : i \in P <=> 2 * (Row(at[i - 1]).t - Row(at[i]).t) > w
  <2> SUFFICES ASSUME NEW i \in 2..n
               PROVE  i \in P <=> 2 * (Row(at[i - 1]).t - Row(at[i]).t) > w
    OBVIOUS
  <2>1. i \in 1..n /\ i - 1 \in 1..n
    OBVIOUS
  <2>2. rows[i].row.t = Row(at[i]).t /\ rows[i - 1].row.t = Row(at[i - 1]).t
    BY <1>2, <2>1
  <2> QED
    BY <1>3, <2>1, <2>2
<1> HIDE DEF P, wraps
<1>8. \A i \in 1..n : t(i) = Row(at[i]).t + w * wraps(i) /\ t(i) \in Int
  <2> SUFFICES ASSUME NEW i \in 1..n
               PROVE  t(i) = Row(at[i]).t + w * wraps(i) /\ t(i) \in Int
    OBVIOUS
  <2>1. PICK c \in Int : c = w * wraps(i)
    BY <1>5
  <2>2. rows[i].row.t = Row(at[i]).t /\ Row(at[i]).t \in Int
    BY <1>2
  <2>3. t(i) = Row(at[i]).t + c
    BY <1>3, <2>1, <2>2
  <2> QED
    BY <2>1, <2>2, <2>3
<1> HIDE DEF t
<1>9. \A i \in 2..n : t(i) - t(i - 1) = TimeStep(at[i - 1], at[i])
  <2> SUFFICES ASSUME NEW i \in 2..n
               PROVE  t(i) - t(i - 1) = TimeStep(at[i - 1], at[i])
    OBVIOUS
  <2>1. i \in 1..n /\ i - 1 \in 1..n
    OBVIOUS
  <2>2. PICK a \in Int, b \in Int : a = Row(at[i - 1]).t /\ b = Row(at[i]).t
    BY <2>1
  <2>3. PICK c \in Nat : c = wraps(i - 1)
    BY <1>5, <2>1
  <2>4. t(i - 1) = a + w * c /\ t(i) = b + w * wraps(i)
    BY <1>8, <2>1, <2>2, <2>3
  <2>5. PICK e \in Int : e = w * c
    OBVIOUS
  <2>6. CASE i \in P
    <3>1. wraps(i) = c + 1
      BY <1>6, <2>3, <2>6
    <3>2. w * (c + 1) = w * c + w * 1
      BY Distributes
    <3>3. t(i) - t(i - 1) = (b - a) + w
      BY <2>4, <2>5, <3>1, <3>2
    <3>4. TimeStep(at[i - 1], at[i]) = (b - a) + w
      <4>1. 2 * (a - b) > w
        BY <1>7, <2>2, <2>6
      <4> QED
        BY <1>3, <2>2, <4>1 DEF TimeStep
    <3> QED
      BY <3>3, <3>4
  <2>7. CASE i \notin P
    <3>1. wraps(i) = c
      BY <1>6, <2>3, <2>7
    <3>2. t(i) - t(i - 1) = b - a
      BY <2>4, <2>5, <3>1
    <3>3. TimeStep(at[i - 1], at[i]) = b - a
      <4>1. ~ (2 * (a - b) > w)
        BY <1>7, <2>2, <2>7
      <4> QED
        BY <1>3, <2>2, <4>1, SMTT(30) DEF TimeStep
    <3> QED
      BY <3>2, <3>3
  <2> QED
    BY <2>6, <2>7
<1>10. \A i \in 1..n : tt[i] = t(i)
  OBVIOUS
<1>11. tt \in [1..n -> Int]
  BY <1>8
<1> HIDE DEF tt
<1>12. Spaced(tt, at, n)
  <2>1. \A i \in 2..n : i \in 1..n /\ i - 1 \in 1..n
    OBVIOUS
  <2> QED
    BY <1>9, <1>10, <1>11, <2>1 DEF Spaced
<1>13. ASSUME NEW i \in 1..n
       PROVE  [row |-> rows[i].row, n |-> rows[i].n, t |-> t(i),
               dt |-> IF i > 1 /\ rows[i].n - rows[i - 1].n = 1
                      THEN t(i) - t(i - 1) ELSE None] = Unwound(base, at, tt, i)
  <2>1. rows[i].row = Row(at[i]) /\ rows[i].n = base + at[i] /\ t(i) = tt[i]
    BY <1>2, <1>10
  <2>2. CASE i > 1
    <3>1. i - 1 \in 1..n
      BY <2>2
    <3>2. rows[i - 1].n = base + at[i - 1] /\ t(i - 1) = tt[i - 1]
      BY <1>2, <1>10, <3>1
    <3>3. rows[i].n - rows[i - 1].n = 1 <=> at[i] - at[i - 1] = 1
      <4>1. PICK a \in Int, b \in Int : a = at[i - 1] /\ b = at[i]
        BY <3>1
      <4> QED
        BY <2>1, <3>2, <4>1, SMTT(30)
    <3> QED
      BY <2>1, <2>2, <3>2, <3>3 DEF Unwound
  <2>3. CASE ~ (i > 1)
    BY <2>1, <2>3 DEF Unwound
  <2> QED
    BY <2>2, <2>3
<1>14. Timed(rows) = [i \in 1..n |-> Unwound(base, at, tt, i)]
  BY <1>1, <1>2, <1>13
<1> QED
  BY <1>12, <1>14 DEF rows

(* The rows of a session unwrapped: every stored cycle in its order.        *)
LEMMA UnwrappedIs ==
    ASSUME Started, NEW k \in Keys, NEW S \in SUBSET (0..(Length[k] - 1)), S # {},
           NEW n, NEW at, Orders(at, n, S)
    PROVE  \E base \in Bases : \E tt :
              /\ Spaced(tt, at, n)
              /\ Unwrapped({Row(i) : i \in S}) = [i \in 1..n |-> Unwound(base, at, tt, i)]
<1> DEFINE fix == {Row(i) : i \in S}
<1>1. PICK base \in Bases : \A i \in S : SeqN(Row(i).seq, SeqWrapped(fix)) = base + i
  BY NumbersOf
<1>2. base \in Int
  BY BaseInteger
<1>3. Length[k] - 1 \in Int /\ S \in SUBSET Int
  BY IngestAssumption
<1>4. Numbered(fix, SeqWrapped(fix)) = [i \in 1..n |-> [row |-> Row(at[i]), n |-> base + at[i]]]
  <2>2. PICK wrapped : wrapped = SeqWrapped(fix)
    OBVIOUS
  <2>3. Numbers(S, wrapped, base)
    BY <1>1, <2>2 DEF Numbers
  <2>4. Numbered({Row(i) : i \in S}, wrapped) = [i \in 1..n |-> [row |-> Row(at[i]), n |-> base + at[i]]]
    BY <1>2, <1>3, <2>3, NumberedIs
  <2> QED
    BY <2>2, <2>4
<1>5. n \in Nat /\ at \in [1..n -> S] /\ at \in [1..n -> Int]
  BY <1>3 DEF Orders
<1>6. \A i \in 1..n : Row(at[i]).t \in Int
  <2>1. \A i \in 1..n : at[i] \in 0..(Length[k] - 1)
    BY <1>5
  <2>2. TimeWrap \in Nat
    BY PacketAssumption
  <2> QED
    BY <2>1, <2>2, RowParts
<1>7. PICK tt : /\ Spaced(tt, at, n)
                /\ Timed([i \in 1..n |-> [row |-> Row(at[i]), n |-> base + at[i]]])
                      = [i \in 1..n |-> Unwound(base, at, tt, i)]
  BY <1>2, <1>5, <1>6, TimedIs
<1>8. Unwrapped(fix) = [i \in 1..n |-> Unwound(base, at, tt, i)]
  BY <1>4, <1>7 DEF Unwrapped
<1> QED
  BY <1>7, <1>8

-----------------------------------------------------------------------------
(* Thinning out *)

(* How many of m rows stay, and the place of the j-th.                      *)
KeptCount(m, s) == ((m - 1) \div s) + IF (m - 1) % s = 0 THEN 1 ELSE 2

Sieve(m, s) == [j \in 1..KeptCount(m, s) |-> IF j = KeptCount(m, s) THEN m ELSE s * (j - 1) + 1]

(* Multiples of a step are a step apart.                                    *)
LEMMA Growing ==
    ASSUME NEW s \in Nat \ {0}, NEW a \in Int, NEW b \in Int, a < b
    PROVE  s * a + s <= s * b
<1>1. PICK d \in Nat : b = a + 1 + d
  <2>1. b - a - 1 \in Nat /\ b = a + 1 + (b - a - 1)
    OBVIOUS
  <2> QED
    BY <2>1
<1>2. PICK x \in Int : x = s * a
  OBVIOUS
<1>3. PICK y \in Nat : y = s * d
  OBVIOUS
<1>4. s * (a + (1 + d)) = s * a + s * (1 + d)
  BY Distributes
<1>5. s * (1 + d) = s * 1 + s * d
  BY Distributes
<1>6. s * b = x + (s + y)
  <2>1. b = a + (1 + d)
    BY <1>1
  <2>2. s * 1 = s
    OBVIOUS
  <2> QED
    BY <1>2, <1>3, <1>4, <1>5, <2>1, <2>2
<1> QED
  BY <1>2, <1>3, <1>6

(* The division of a number from 0 on.                                      *)
LEMMA Division ==
    ASSUME NEW s \in Nat \ {0}, NEW x \in Nat
    PROVE  /\ x = s * (x \div s) + (x % s)
           /\ x \div s \in Nat /\ x % s \in 0..(s - 1)
OBVIOUS

(* What is left over of a multiple is nothing.                              *)
LEMMA MultipleOf ==
    ASSUME NEW s \in Nat \ {0}, NEW x \in Nat
    PROVE  x % s = 0 <=> \E p \in Nat : x = s * p
<1>1. x % s = 0 => \E p \in Nat : x = s * p
  <2> SUFFICES ASSUME x % s = 0 PROVE \E p \in Nat : x = s * p
    OBVIOUS
  <2>1. x = s * (x \div s) + (x % s) /\ x \div s \in Nat
    BY Division
  <2>2. PICK p \in Nat : p = x \div s
    BY <2>1
  <2>3. PICK y \in Int : y = s * p
    OBVIOUS
  <2>4. x = s * p
    BY <2>1, <2>2, <2>3
  <2> QED
    BY <2>4
<1>2. ASSUME NEW p \in Nat, x = s * p PROVE x % s = 0
  <2>1. (s * p + 0) % s = 0 % s
    <3>1. 0 \in Int /\ p \in Int
      OBVIOUS
    <3> QED
      BY <3>1, Multiples
  <2>2. 0 % s = 0
    OBVIOUS
  <2>3. PICK y \in Int : y = s * p
    OBVIOUS
  <2> QED
    BY <1>2, <2>1, <2>2, <2>3
<1> QED
  BY <1>1, <1>2

(* The sieve puts in order what Kept keeps: every s-th row and the last.    *)
LEMMA SieveOrders ==
    ASSUME NEW m \in Nat \ {0}, NEW s \in Nat \ {0}
    PROVE  /\ KeptCount(m, s) \in Nat \ {0}
           /\ Orders(Sieve(m, s), KeptCount(m, s), {rn + 1 : rn \in Kept(m, s)})
           /\ {rn + 1 : rn \in Kept(m, s)} \in SUBSET (1..m)
           /\ Sieve(m, s)[KeptCount(m, s)] = m
           /\ \A j \in 1..(KeptCount(m, s) - 1) : Sieve(m, s)[j] = s * (j - 1) + 1
<1> DEFINE T == {rn + 1 : rn \in Kept(m, s)}
<1>1. PICK q \in Nat, r \in 0..(s - 1) : /\ q = (m - 1) \div s /\ r = (m - 1) % s
                                        /\ m - 1 = s * q + r
  <2>1. m - 1 \in Nat
    OBVIOUS
  <2>2. /\ m - 1 = s * ((m - 1) \div s) + ((m - 1) % s)
        /\ (m - 1) \div s \in Nat /\ (m - 1) % s \in 0..(s - 1)
    BY <2>1, Division
  <2> QED
    BY <2>2
<1>2. PICK c \in Nat \ {0} : c = KeptCount(m, s) /\ c = q + IF r = 0 THEN 1 ELSE 2
  BY <1>1 DEF KeptCount
<1>3. PICK g : g = Sieve(m, s)
  OBVIOUS
<1>4. /\ g = [j \in 1..c |-> IF j = c THEN m ELSE s * (j - 1) + 1]
  BY <1>2, <1>3 DEF Sieve
<1>5. g[c] = m /\ \A j \in 1..(c - 1) : g[j] = s * (j - 1) + 1
  BY <1>4
<1>6. T = {x \in 1..m : x = m \/ \E p \in Nat : x - 1 = s * p}
  <2>1. ASSUME NEW rn \in 0..(m - 1)
        PROVE  rn % s = 0 <=> \E p \in Nat : rn = s * p
    <3>1. rn \in Nat
      OBVIOUS
    <3> QED
      BY <3>1, MultipleOf, Zenon
  <2>2. ASSUME NEW x \in T PROVE x \in 1..m /\ (x = m \/ \E p \in Nat : x - 1 = s * p)
    <3>1. PICK rn \in 0..(m - 1) : x = rn + 1 /\ (rn % s = 0 \/ rn = m - 1)
      BY DEF Kept
    <3>2. x \in 1..m /\ x - 1 = rn
      BY <3>1
    <3> QED
      BY <2>1, <3>1, <3>2
  <2>3. ASSUME NEW x \in 1..m, x = m \/ \E p \in Nat : x - 1 = s * p PROVE x \in T
    <3>1. x - 1 \in 0..(m - 1) /\ x = (x - 1) + 1
      OBVIOUS
    <3>2. (x - 1) % s = 0 \/ x - 1 = m - 1
      BY <2>1, <2>3, <3>1
    <3> QED
      BY <3>1, <3>2 DEF Kept
  <2> QED
    BY <2>2, <2>3
<1>7. ASSUME NEW j \in 1..(c - 1) PROVE /\ s * (j - 1) + 1 \in 1..m
                                        /\ s * (j - 1) + 1 < m
                                        /\ j - 1 \in Nat
  <2>1. j - 1 \in Nat
    OBVIOUS
  <2>2. PICK y \in Nat : y = s * (j - 1)
    BY <2>1
  <2>3. PICK z \in Nat : z = s * q
    OBVIOUS
  <2>4. y < m - 1
    <3>1. CASE j - 1 < q
      <4>1. s * (j - 1) + s <= s * q
        BY <2>1, <3>1, Growing
      <4> QED
        BY <1>1, <2>2, <2>3, <4>1
    <3>2. CASE ~ (j - 1 < q)
      <4>1. j - 1 = q /\ r # 0
        BY <1>2, <3>2
      <4> QED
        BY <1>1, <2>2, <2>3, <4>1
    <3> QED
      BY <3>1, <3>2
  <2> QED
    BY <2>1, <2>2, <2>4
<1>8. g \in [1..c -> T]
  <2>1. ASSUME NEW j \in 1..c PROVE g[j] \in T
    <3>1. CASE j = c
      <4>1. m \in 1..m
        OBVIOUS
      <4> QED
        BY <1>5, <1>6, <3>1, <4>1
    <3>2. CASE j # c
      <4>1. j \in 1..(c - 1)
        BY <3>2
      <4>2. g[j] = s * (j - 1) + 1 /\ s * (j - 1) + 1 \in 1..m /\ j - 1 \in Nat
        BY <1>5, <1>7, <4>1
      <4>3. (s * (j - 1) + 1) - 1 = s * (j - 1)
        <5>1. PICK y \in Int : y = s * (j - 1)
          BY <4>2
        <5> QED
          BY <5>1
      <4> QED
        BY <1>6, <4>2, <4>3
    <3> QED
      BY <3>1, <3>2
  <2> HIDE DEF T
  <2> QED
    BY <1>4, <2>1
<1>9. Increasing(g, c)
  <2> SUFFICES ASSUME NEW i \in 1..c, NEW j \in 1..c, i < j PROVE g[i] < g[j]
    BY DEF Increasing
  <2>1. i \in 1..(c - 1) /\ g[i] = s * (i - 1) + 1
    BY <1>5
  <2>2. CASE j = c
    BY <1>5, <1>7, <2>1, <2>2
  <2>3. CASE j # c
    <3>1. j \in 1..(c - 1) /\ g[j] = s * (j - 1) + 1
      BY <1>5, <2>3
    <3>2. s * (i - 1) + s <= s * (j - 1)
      <4>1. i - 1 \in Int /\ j - 1 \in Int /\ i - 1 < j - 1
        OBVIOUS
      <4> QED
        BY <4>1, Growing
    <3>3. PICK x \in Int, y \in Int : x = s * (i - 1) /\ y = s * (j - 1)
      OBVIOUS
    <3> QED
      BY <2>1, <3>1, <3>2, <3>3
  <2> QED
    BY <2>2, <2>3
<1>10. ASSUME NEW x \in T PROVE \E j \in 1..c : g[j] = x
  <2>1. x \in 1..m /\ (x = m \/ \E p \in Nat : x - 1 = s * p)
    BY <1>6
  <2>2. CASE x = m
    <3>1. c \in 1..c
      OBVIOUS
    <3> QED
      BY <1>5, <2>2, <3>1
  <2>3. CASE x # m
    <3>1. PICK p \in Nat : x - 1 = s * p
      BY <2>1, <2>3
    <3>2. PICK y \in Nat, z \in Nat : y = s * p /\ z = s * q
      OBVIOUS
    <3>3. p <= q
      <4> SUFFICES ASSUME q < p PROVE FALSE
        OBVIOUS
      <4>1. s * q + s <= s * p
        BY Growing
      <4> QED
        BY <1>1, <2>1, <3>1, <3>2, <4>1
    <3>4. p = q => r # 0
      BY <1>1, <2>1, <2>3, <3>1, <3>2
    <3>5. p + 1 \in 1..(c - 1) /\ (p + 1) - 1 = p
      BY <1>2, <3>3, <3>4
    <3>6. g[p + 1] = s * p + 1
      BY <1>5, <3>5
    <3>7. g[p + 1] = x /\ p + 1 \in 1..c
      BY <2>1, <3>1, <3>2, <3>5, <3>6
    <3> QED
      BY <3>7
  <2> QED
    BY <2>2, <2>3
<1>11. T \in SUBSET (1..m)
  BY <1>6
<1> HIDE DEF T
<1>12. Orders(g, c, T)
  BY <1>8, <1>9, <1>10 DEF Orders
<1> QED
  BY <1>2, <1>3, <1>5, <1>11, <1>12 DEF T

(* There is one way only to divide.                                         *)
LEMMA DivisionIs ==
    ASSUME NEW b \in Nat \ {0}, NEW q \in Int, NEW r \in 0..(b - 1)
    PROVE  (b * q + r) \div b = q
<1>1. PICK y \in Int : y = b * q
  OBVIOUS
<1>2. PICK x \in Int : x = y + r
  OBVIOUS
<1>3. x = b * (x \div b) + (x % b) /\ x \div b \in Int /\ x % b \in 0..(b - 1)
  OBVIOUS
<1>4. PICK p \in Int, e \in 0..(b - 1) : p = x \div b /\ e = x % b
  BY <1>3
<1>5. PICK z \in Int : z = b * p
  OBVIOUS
<1>6. y + r = z + e
  BY <1>2, <1>3, <1>4, <1>5
<1>7. ~ (p < q)
  <2> SUFFICES ASSUME p < q PROVE FALSE
    OBVIOUS
  <2>1. b * p + b <= b * q
    BY Growing
  <2> QED
    BY <1>1, <1>5, <1>6, <2>1
<1>8. ~ (q < p)
  <2> SUFFICES ASSUME q < p PROVE FALSE
    OBVIOUS
  <2>1. b * q + b <= b * p
    BY Growing
  <2> QED
    BY <1>1, <1>5, <1>6, <2>1
<1>9. p = q
  BY <1>7, <1>8
<1> QED
  BY <1>1, <1>2, <1>4, <1>9

(* A quotient rounded up.                                                   *)
LEMMA RoundedUp ==
    ASSUME NEW a \in Nat, NEW b \in Nat \ {0}
    PROVE  \E q \in Nat, r \in 0..(b - 1) :
              /\ a = b * q + r
              /\ (a + b - 1) \div b = q + IF r = 0 THEN 0 ELSE 1
              /\ -((-a) \div b) = q + IF r = 0 THEN 0 ELSE 1
<1>1. PICK q \in Nat, r \in 0..(b - 1) : a = b * q + r
  BY Division
<1>2. PICK y \in Nat : y = b * q
  OBVIOUS
<1>3. PICK u \in Int : u = b * (q + 1)
  OBVIOUS
<1>4. u = y + b
  <2>1. b * (q + 1) = b * q + b * 1
    BY Distributes
  <2> QED
    BY <1>2, <1>3, <2>1
<1>5. PICK v \in Int : v = b * (-q)
  OBVIOUS
<1>6. v = -y
  BY <1>2, <1>5
<1>7. PICK w \in Int : w = b * (-q - 1)
  OBVIOUS
<1>8. w = -y - b
  <2>1. b * ((-q) + (-1)) = b * (-q) + b * (-1)
    BY Distributes
  <2>2. -q - 1 = (-q) + (-1)
    OBVIOUS
  <2>3. b * (-1) = -b
    OBVIOUS
  <2> QED
    BY <1>5, <1>6, <1>7, <2>1, <2>2, <2>3
<1>9. CASE r = 0
  <2>1. a + b - 1 = b * q + (b - 1) /\ b - 1 \in 0..(b - 1)
    BY <1>1, <1>2, <1>9
  <2>2. (a + b - 1) \div b = q
    <3>1. PICK e \in 0..(b - 1) : e = b - 1
      BY <2>1
    <3>2. (b * q + e) \div b = q
      BY DivisionIs
    <3> QED
      BY <2>1, <3>1, <3>2
  <2>3. -a = b * (-q) + 0
    BY <1>1, <1>2, <1>5, <1>6, <1>9
  <2>4. (-a) \div b = -q
    <3>1. PICK e \in 0..(b - 1), p \in Int : e = 0 /\ p = -q
      OBVIOUS
    <3>2. (b * p + e) \div b = p
      BY DivisionIs
    <3> QED
      BY <2>3, <3>1, <3>2
  <2> QED
    BY <1>1, <1>9, <2>2, <2>4
<1>10. CASE r # 0
  <2>1. a + b - 1 = b * (q + 1) + (r - 1) /\ r - 1 \in 0..(b - 1)
    BY <1>1, <1>2, <1>3, <1>4, <1>10
  <2>2. (a + b - 1) \div b = q + 1
    <3>1. PICK e \in 0..(b - 1), p \in Int : e = r - 1 /\ p = q + 1
      BY <2>1
    <3>2. (b * p + e) \div b = p
      BY DivisionIs
    <3> QED
      BY <2>1, <3>1, <3>2
  <2>3. -a = b * (-q - 1) + (b - r) /\ b - r \in 0..(b - 1)
    BY <1>1, <1>2, <1>7, <1>8, <1>10
  <2>4. (-a) \div b = -q - 1
    <3>1. PICK e \in 0..(b - 1), p \in Int : e = b - r /\ p = -q - 1
      BY <2>3
    <3>2. (b * p + e) \div b = p
      BY DivisionIs
    <3> QED
      BY <2>3, <3>1, <3>2
  <2> QED
    BY <1>1, <1>10, <2>2, <2>4
<1> QED
  BY <1>9, <1>10

(* stride_for, by which the page's replay is told its step, and _STRIDE,    *)
(* by which SQL thins out (query.py), give the same for every number of     *)
(* rows and every limit that is allowed.                                    *)
THEOREM StridesAgree ==
    ASSUME NEW total \in Nat, NEW maxPoints \in Nat, maxPoints >= MaxPointsMin
    PROVE  StrideFor(total, maxPoints) = Stride(total, maxPoints)
<1>1. CASE total <= maxPoints
  BY <1>1 DEF StrideFor, Stride
<1>2. CASE ~ (total <= maxPoints)
  <2>1. PICK a \in Nat, b \in Nat \ {0} : a = total - 1 /\ b = maxPoints - 1
    BY <1>2 DEF MaxPointsMin
  <2>2. (a + b - 1) \div b = -((-a) \div b)
    BY RoundedUp
  <2>3. a + b - 1 = total + maxPoints - 3
    BY <2>1
  <2> QED
    BY <1>2, <2>1, <2>2, <2>3 DEF StrideFor, Stride
<1> QED
  BY <1>1, <1>2

(* The rows that stay are no more than asked for.                           *)
LEMMA StrideIs ==
    ASSUME NEW m \in Nat \ {0}, NEW most \in Nat, most >= MaxPointsMin
    PROVE  /\ Stride(m, most) \in Nat \ {0}
           /\ KeptCount(m, Stride(m, most)) <= most
<1>1. CASE m <= most
  <2>1. Stride(m, most) = 1
    BY <1>1 DEF Stride
  <2>2. KeptCount(m, 1) = m
    BY DEF KeptCount
  <2> QED
    BY <1>1, <2>1, <2>2
<1>2. CASE ~ (m <= most)
  <2>1. PICK a \in Nat, b \in Nat \ {0} : a = m - 1 /\ b = most - 1
    BY <1>2 DEF MaxPointsMin
  <2>2. a + b - 1 = m + most - 3 /\ a > b
    BY <1>2, <2>1
  <2>3. PICK q \in Nat, r \in 0..(b - 1) :
              /\ a = b * q + r
              /\ (a + b - 1) \div b = q + IF r = 0 THEN 0 ELSE 1
    BY RoundedUp, ZenonT(60)
  <2>4. PICK s \in Nat : s = Stride(m, most) /\ s = q + IF r = 0 THEN 0 ELSE 1
    BY <1>2, <2>1, <2>2, <2>3 DEF Stride
  <2>5. q >= 1
    <3> SUFFICES ASSUME q = 0 PROVE FALSE
      BY <2>3
    <3>1. a = b * 0 + r
      BY <2>3
    <3> QED
      BY <2>2, <3>1
  <2>6. s \in Nat \ {0}
    BY <2>4, <2>5
  <2>7. s * b >= a
    <3>1. PICK y \in Nat : y = b * q
      OBVIOUS
    <3>2. CASE r = 0
      <4>1. s * b = b * q
        BY <2>4, <3>2
      <4> QED
        BY <2>3, <3>1, <3>2, <4>1
    <3>3. CASE r # 0
      <4>1. b * (q + 1) = b * q + b * 1
        BY Distributes
      <4>2. s * b = b * (q + 1)
        BY <2>4, <3>3
      <4> QED
        BY <2>3, <3>1, <3>3, <4>1, <4>2
    <3> QED
      BY <3>2, <3>3
  <2>8. PICK p \in Nat, e \in 0..(s - 1) :
           /\ a = s * p + e /\ p = a \div s /\ e = a % s
    BY <2>6, Division
  <2>9. KeptCount(m, s) = p + IF e = 0 THEN 1 ELSE 2
    BY <2>1, <2>8 DEF KeptCount
  <2>10. PICK x \in Nat, z \in Nat : x = s * p /\ z = s * b
    OBVIOUS
  <2>11. ~ (b < p)
    <3> SUFFICES ASSUME b < p PROVE FALSE
      OBVIOUS
    <3>1. s * b + s <= s * p
      BY <2>6, Growing
    <3> QED
      BY <2>6, <2>7, <2>8, <2>10, <3>1
  <2>12. p = b => e = 0
    <3> SUFFICES ASSUME p = b PROVE e = 0
      OBVIOUS
    <3>1. x = z
      BY <2>10
    <3> QED
      BY <2>7, <2>8, <2>10, <3>1
  <2> QED
    BY <2>1, <2>4, <2>6, <2>9, <2>11, <2>12
<1> QED
  BY <1>1, <1>2

(* What thinning out m rows to `most' does: its stride, and the places of   *)
(* the rows it leaves.                                                      *)
StrideOf(m, most) == IF m = 0 THEN 1 ELSE Stride(m, most)

ThinCount(m, most) == IF m = 0 THEN 0 ELSE KeptCount(m, StrideOf(m, most))

ThinAt(m, most) ==
    [j \in 1..ThinCount(m, most) |-> Sieve(m, StrideOf(m, most))[j]]

(* At most `most' rows stay, in even steps, and the last is the last.       *)
Thins(m, most) ==
    LET s == StrideOf(m, most)
        c == ThinCount(m, most)
        at == ThinAt(m, most)
    IN  /\ s \in Nat \ {0} /\ c \in Nat /\ c <= most /\ at \in [1..c -> 1..m]
        /\ m # 0 => c # 0 /\ at[c] = m
        /\ \A j \in 1..(c - 1) : at[j] = s * (j - 1) + 1
        /\ s = 1 => c = m /\ \A j \in 1..m : at[j] = j

(* Thinning out m rows leaves the ends, in even steps, within the limit.    *)
LEMMA Thinning ==
    ASSUME NEW m \in Nat, NEW most \in Nat, most >= MaxPointsMin
    PROVE  Thins(m, most)
<1>1. CASE m = 0
  BY <1>1 DEF StrideOf, ThinCount, ThinAt, MaxPointsMin, Thins
<1>2. CASE m # 0
  <2>1. PICK s \in Nat \ {0} : s = StrideOf(m, most) /\ KeptCount(m, s) <= most
    BY <1>2, StrideIs DEF StrideOf
  <2>2. s \in Nat \ {0} /\ KeptCount(m, s) <= most
    BY <2>1
  <2>3. /\ KeptCount(m, s) \in Nat \ {0}
        /\ Orders(Sieve(m, s), KeptCount(m, s), {rn + 1 : rn \in Kept(m, s)})
        /\ {rn + 1 : rn \in Kept(m, s)} \in SUBSET (1..m)
        /\ Sieve(m, s)[KeptCount(m, s)] = m
        /\ \A j \in 1..(KeptCount(m, s) - 1) : Sieve(m, s)[j] = s * (j - 1) + 1
    <3>1. m \in Nat \ {0}
      BY <1>2
    <3> QED
      BY <2>2, <3>1, SieveOrders, Zenon
  <2>4. PICK c \in Nat \ {0} : c = KeptCount(m, s) /\ c = ThinCount(m, most)
    BY <1>2, <2>1, <2>3 DEF ThinCount
  <2>5. PICK g : g = Sieve(m, s)
    OBVIOUS
  <2>6. g \in [1..c -> 1..m] /\ g[c] = m /\ \A j \in 1..(c - 1) : g[j] = s * (j - 1) + 1
    BY <2>3, <2>4, <2>5 DEF Orders
  <2>7. ThinAt(m, most) = g
    BY <2>1, <2>4, <2>5, <2>6 DEF ThinAt
  <2>8. ASSUME s = 1 PROVE c = m /\ \A j \in 1..m : g[j] = j
    <3>1. c = m
      BY <1>2, <2>4, <2>8 DEF KeptCount
    <3>2. ASSUME NEW j \in 1..m PROVE g[j] = j
      <4>1. CASE j = m
        BY <2>6, <3>1, <4>1
      <4>2. CASE j # m
        <5>1. j \in 1..(c - 1)
          BY <3>1, <4>2
        <5>2. g[j] = s * (j - 1) + 1
          BY <2>6, <5>1
        <5> QED
          BY <2>8, <5>2
      <4> QED
        BY <4>1, <4>2
    <3> QED
      BY <3>1, <3>2
  <2> QED
    BY <2>1, <2>2, <2>4, <2>6, <2>7, <2>8 DEF Thins
<1> QED
  BY <1>1, <1>2

(* The rows that thinning out leaves.                                       *)
LEMMA DecimatedIs ==
    ASSUME NEW m \in Nat, NEW rows, DOMAIN rows = 1..m,
           NEW most \in Nat, most >= MaxPointsMin
    PROVE  Decimated(rows, most) =
              [total |-> m, stride |-> StrideOf(m, most),
               data |-> [j \in 1..ThinCount(m, most) |-> rows[ThinAt(m, most)[j]]]]
<1> DEFINE s == StrideOf(m, most)
           T == {rn + 1 : rn \in Kept(m, s)}
<1>1. Len(rows) = m
  OBVIOUS
<1>2. Decimated(rows, most) = [total |-> m, stride |-> s, data |-> Picked(rows, T)]
  BY <1>1 DEF Decimated, StrideOf
<1>3. Orders(ThinAt(m, most), ThinCount(m, most), T) /\ T \in SUBSET Int
  <2>1. CASE m = 0
    <3>1. T = {}
      BY <2>1 DEF Kept
    <3>2. ThinCount(m, most) = 0
      BY <2>1 DEF ThinCount
    <3> HIDE DEF T
    <3> QED
      BY <3>1, <3>2 DEF Orders, Increasing, ThinAt
  <2>2. CASE m # 0
    <3>1. s \in Nat \ {0}
      BY Thinning DEF Thins
    <3>2. PICK r \in Nat \ {0} : r = s
      BY <3>1
    <3>3. /\ Orders(Sieve(m, r), KeptCount(m, r), {rn + 1 : rn \in Kept(m, r)})
          /\ {rn + 1 : rn \in Kept(m, r)} \in SUBSET (1..m)
      BY <2>2, SieveOrders
    <3>4. ThinAt(m, most) = Sieve(m, s) /\ ThinCount(m, most) = KeptCount(m, s)
      BY <2>2 DEF ThinAt, ThinCount, Sieve
    <3>5. Orders(ThinAt(m, most), ThinCount(m, most), T) /\ T \in SUBSET (1..m)
      BY <3>2, <3>3, <3>4
    <3> HIDE DEF T
    <3> QED
      BY <3>5
  <2> QED
    BY <2>1, <2>2
<1>4. Ascending(T) = ThinAt(m, most)
  <2> HIDE DEF T
  <2> QED
    BY <1>3, AscendingIs
<1>5. DOMAIN ThinAt(m, most) = 1..ThinCount(m, most)
  BY DEF ThinAt
<1>6. Picked(rows, T) = [j \in 1..ThinCount(m, most) |-> rows[ThinAt(m, most)[j]]]
  BY <1>4, <1>5 DEF Picked
<1> QED
  BY <1>2, <1>6

-----------------------------------------------------------------------------
(* The track *)

(* A view of a session: which cycles of it are stored, the i-th of them in  *)
(* order, where their numbers begin, and their times.                       *)
Lined(v) == [i \in 1..v.n |-> Unwound(v.base, v.at, v.t, i)]

IsView(k, v) ==
    /\ v.cycles \in SUBSET (0..(Length[k] - 1))
    /\ Orders(v.at, v.n, v.cycles) /\ v.base \in Bases /\ Spaced(v.t, v.at, v.n)
    /\ fixes[k] = {Row(i) : i \in v.cycles}
    /\ samples[k] = UNION {SampleRows(Cycle(i)) : i \in v.cycles}
    /\ (IF fixes[k] = {} THEN << >> ELSE Unwrapped(fixes[k])) = Lined(v)

(* Every session has a view: it is unwrapped from true cycles.              *)
LEMMA ViewExists ==
    ASSUME Handed, NEW k \in Keys
    PROVE  \E v : IsView(k, v)
<1>1. PICK S \in SUBSET (0..(Length[k] - 1)) :
         [fix |-> fixes[k], sample |-> samples[k]] = RowsOf(S)
  BY DEF Handed, Stores
<1>2. /\ fixes[k] = {Row(i) : i \in S}
      /\ samples[k] = UNION {SampleRows(Cycle(i)) : i \in S}
  BY <1>1 DEF RowsOf, Row
<1>3. PICK b \in Nat : b = Length[k] - 1
  BY IngestAssumption
<1>4. PICK n \in Nat : \E at : Orders(at, n, S)
  <2>1. S \in SUBSET (0..b)
    BY <1>3
  <2> QED
    BY <2>1, OrderExists
<1>5. PICK at : Orders(at, n, S)
  BY <1>4
<1>6. PICK base \in Bases : \E tt :
         /\ Spaced(tt, at, n)
         /\ (IF fixes[k] = {} THEN << >> ELSE Unwrapped(fixes[k]))
               = [i \in 1..n |-> Unwound(base, at, tt, i)]
  <2>1. CASE S = {}
    <3>1. fixes[k] = {}
      BY <1>2, <2>1
    <3>2. n = 0
      BY <1>5, <2>1 DEF Orders
    <3>3. Spaced([i \in 1..0 |-> 0], at, 0)
      BY DEF Spaced
    <3>4. << >> = [i \in 1..0 |-> Unwound(origin.seq, at, [j \in 1..0 |-> 0], i)]
      OBVIOUS
    <3>5. origin.seq \in Bases
      BY DEF Bases
    <3> QED
      BY <3>1, <3>2, <3>3, <3>4, <3>5
  <2>2. CASE S # {}
    <3>1. fixes[k] # {}
      BY <1>2, <2>2
    <3>2. \E base \in Bases : \E tt :
              /\ Spaced(tt, at, n)
              /\ Unwrapped({Row(i) : i \in S}) = [i \in 1..n |-> Unwound(base, at, tt, i)]
      BY <1>5, <2>2, UnwrappedIs DEF Handed
    <3> QED
      BY <1>2, <3>1, <3>2
  <2> QED
    BY <2>1, <2>2
<1>7. PICK tt :
         /\ Spaced(tt, at, n)
         /\ (IF fixes[k] = {} THEN << >> ELSE Unwrapped(fixes[k]))
               = [i \in 1..n |-> Unwound(base, at, tt, i)]
  BY <1>6
<1>8. PICK v : v = [cycles |-> S, n |-> n, at |-> at, base |-> base, t |-> tt]
  OBVIOUS
<1>9. v.cycles = S /\ v.n = n /\ v.at = at /\ v.base = base /\ v.t = tt
  BY <1>8
<1>10. Lined(v) = [i \in 1..n |-> Unwound(base, at, tt, i)]
  BY <1>9 DEF Lined
<1>11. IsView(k, v)
  BY <1>2, <1>5, <1>6, <1>7, <1>9, <1>10 DEF IsView
<1> QED
  BY <1>11

(* The types in a view.                                                     *)
LEMMA ViewParts ==
    ASSUME Handed, NEW k \in Keys, NEW v, IsView(k, v)
    PROVE  /\ v.n \in Nat /\ v.at \in [1..v.n -> v.cycles] /\ v.at \in [1..v.n -> Int]
           /\ v.cycles \in SUBSET Int /\ v.cycles \in SUBSET (0..(Length[k] - 1))
           /\ v.base \in Int /\ v.t \in [1..v.n -> Int]
           /\ Increasing(v.at, v.n) /\ \A x \in v.cycles : \E i \in 1..v.n : v.at[i] = x
           /\ IsFiniteSet(v.cycles) /\ Cardinality(v.cycles) = v.n
           /\ DOMAIN Lined(v) = 1..v.n
           /\ \A i \in 1..v.n : Row(v.at[i]) \in fixes[k]
<1>1. v.cycles \in SUBSET (0..(Length[k] - 1)) /\ v.cycles \in SUBSET Int
  <2>1. v.cycles \in SUBSET (0..(Length[k] - 1))
    BY DEF IsView
  <2>2. PICK b \in Int : b = Length[k] - 1
    BY IngestAssumption
  <2> QED
    BY <2>1, <2>2
<1>2. Orders(v.at, v.n, v.cycles)
  BY DEF IsView
<1>3. v.base \in Int
  BY BaseInteger DEF IsView, Handed
<1>4. IsFiniteSet(v.cycles) /\ Cardinality(v.cycles) = v.n
  BY <1>1, <1>2, OrderCounts
<1>5. v.at \in [1..v.n -> v.cycles]
  BY <1>2 DEF Orders
<1>6. \A i \in 1..v.n : Row(v.at[i]) \in fixes[k]
  <2>1. fixes[k] = {Row(i) : i \in v.cycles}
    BY DEF IsView
  <2> QED
    BY <1>5, <2>1
<1>7. v.at \in [1..v.n -> Int]
  BY <1>1, <1>5
<1> QED
  BY <1>1, <1>2, <1>3, <1>4, <1>5, <1>6, <1>7 DEF IsView, Orders, Spaced, Lined

(* Two stored cycles are two rows.                                          *)
LEMMA RowOfOne ==
    ASSUME Handed, NEW k \in Keys, NEW x \in 0..(Length[k] - 1), NEW y \in 0..(Length[k] - 1)
    PROVE  (Row(x) = Row(y) \/ Row(x).seq = Row(y).seq) => x = y
<1>1. Index(Row(x).seq) = x /\ Index(Row(y).seq) = y
  BY IndexOf DEF Row, Handed
<1> QED
  BY <1>1

(* Places of rows are counted as the rows.                                  *)
LEMMA CountPlaces ==
    ASSUME Handed, NEW k \in Keys, NEW v, IsView(k, v), NEW G \in SUBSET fixes[k]
    PROVE  /\ IsFiniteSet(G)
           /\ Cardinality({i \in 1..v.n : Row(v.at[i]) \in G}) = Cardinality(G)
<1> DEFINE A == {i \in 1..v.n : Row(v.at[i]) \in G}
           f == [i \in A |-> Row(v.at[i])]
<1>1. f \in [A -> G]
  OBVIOUS
<1>2. ASSUME NEW i \in A, NEW j \in A, f[i] = f[j] PROVE i = j
  <2>1. Row(v.at[i]) = Row(v.at[j])
    BY <1>2
  <2>2. v.at[i] \in 0..(Length[k] - 1) /\ v.at[j] \in 0..(Length[k] - 1)
    BY ViewParts
  <2>3. v.at[i] = v.at[j]
    BY <2>1, <2>2, RowOfOne
  <2>4. v.n \in Nat /\ v.at \in [1..v.n -> Int] /\ Increasing(v.at, v.n)
        /\ i \in 1..v.n /\ j \in 1..v.n
    BY ViewParts
  <2> QED
    BY <2>3, <2>4, OrderOfPlaces
<1>3. ASSUME NEW r \in G PROVE \E i \in A : f[i] = r
  <2>1. PICK x \in v.cycles : r = Row(x)
    BY DEF IsView
  <2>2. PICK i \in 1..v.n : v.at[i] = x
    BY <2>1, ViewParts
  <2>3. i \in A
    BY <2>1, <2>2
  <2> QED
    BY <2>1, <2>2, <2>3
<1>4. f \in Bijection(A, G)
  BY <1>1, <1>2, <1>3 DEF Bijection, Injection, Surjection, IsInjective
<1>5. IsFiniteSet(A)
  <2>1. IsFiniteSet(1..v.n)
    BY ViewParts, FS_Interval
  <2> QED
    BY <2>1, FS_Subset
<1>6. ExistsBijection(A, G)
  BY <1>4 DEF ExistsBijection
<1> QED
  BY <1>5, <1>6, FS_Bijection

(* As many rows as cycles are stored.                                       *)
LEMMA FixCount ==
    ASSUME Handed, NEW k \in Keys, NEW v, IsView(k, v)
    PROVE  IsFiniteSet(fixes[k]) /\ Cardinality(fixes[k]) = v.n
<1>1. {i \in 1..v.n : Row(v.at[i]) \in fixes[k]} = 1..v.n
  BY ViewParts
<1>2. /\ IsFiniteSet(fixes[k])
      /\ Cardinality({i \in 1..v.n : Row(v.at[i]) \in fixes[k]}) = Cardinality(fixes[k])
  BY CountPlaces
<1>3. Cardinality(1..v.n) = v.n
  BY ViewParts, FS_Interval
<1> QED
  BY <1>1, <1>2, <1>3

(* The places of the rows of a time range.                                  *)
Places(rows, from, to) ==
    {i \in DOMAIN rows : /\ from # None => rows[i].t >= from
                         /\ to # None => rows[i].t <= to}

(* The c rows of a time range are those at the places w.                    *)
Ranged(rows, m, from, to, c, w) ==
    /\ c \in Nat /\ Orders(w, c, Places(rows, from, to)) /\ w \in [1..c -> 1..m]
    /\ Within(rows, from, to) = [j \in 1..c |-> rows[w[j]]]

(* The rows of a time range are some of the rows, in their order.           *)
LEMMA WithinIs ==
    ASSUME NEW m \in Nat, NEW rows, DOMAIN rows = 1..m, NEW from, NEW to
    PROVE  \E c, w : Ranged(rows, m, from, to, c, w)
<1>1. PICK P : P = Places(rows, from, to)
  OBVIOUS
<1>2. P \in SUBSET (1..m) /\ P \in SUBSET (0..m) /\ P \in SUBSET Int
  BY <1>1 DEF Places
<1>3. PICK c \in Nat : \E w : Orders(w, c, P)
  BY <1>2, OrderExists
<1>4. PICK w : Orders(w, c, P)
  BY <1>3
<1>5. w \in [1..c -> 1..m] /\ DOMAIN w = 1..c
  BY <1>2, <1>4 DEF Orders
<1>6. Ascending(P) = w
  BY <1>2, <1>4, AscendingIs
<1>7. Within(rows, from, to) = Picked(rows, P)
  BY <1>1 DEF Within, Places
<1>8. Picked(rows, P) = [j \in 1..c |-> rows[w[j]]]
  BY <1>5, <1>6 DEF Picked
<1>9. Ranged(rows, m, from, to, c, w)
  BY <1>1, <1>3, <1>4, <1>5, <1>7, <1>8 DEF Ranged
<1> QED
  BY <1>9

(* Without a time range all is within.                                      *)
LEMMA WithinAll ==
    ASSUME NEW m \in Nat, NEW rows, rows = [i \in 1..m |-> rows[i]]
    PROVE  Within(rows, None, None) = rows
<1>1. {i \in DOMAIN rows : /\ None # None => rows[i].t >= None
                           /\ None # None => rows[i].t <= None} = 1..m
  OBVIOUS
<1>2. Within(rows, None, None) = Picked(rows, 1..m)
  BY <1>1 DEF Within
<1> QED
  BY <1>2, PickedAll

(* The i-th row as the page gets it.                                        *)
Column(v, i) ==
    FixColumn(Lined(v)[i].n, Lined(v)[i].t, Lined(v)[i].dt, Lined(v)[i].row)

(* The c rows of the time range are those at the places w.                  *)
Cuts(v, from, to, c, w) ==
    /\ c \in Nat /\ w \in [1..c -> 1..v.n]
    /\ Within(Lined(v), from, to) = [j \in 1..c |-> Lined(v)[w[j]]]

(* What track answers, by its cut.                                          *)
LEMMA TrackIs ==
    ASSUME NEW k, NEW v, IsView(k, v), NEW from, NEW to,
           NEW most \in Nat, most >= MaxPointsMin,
           NEW c, NEW w, Cuts(v, from, to, c, w)
    PROVE  Track(fixes[k], from, to, most) =
              [total |-> c, stride |-> StrideOf(c, most),
               data |-> [j \in 1..ThinCount(c, most) |-> Column(v, w[ThinAt(c, most)[j]])]]
<1> DEFINE rows == [j \in 1..c |-> Lined(v)[w[j]]]
           thin == Decimated(rows, most)
<1>0. c \in Nat /\ w \in [1..c -> 1..v.n]
      /\ Within(Lined(v), from, to) = [j \in 1..c |-> Lined(v)[w[j]]]
  BY DEF Cuts
<1>1. (IF fixes[k] = {} THEN << >> ELSE Unwrapped(fixes[k])) = Lined(v)
  BY DEF IsView
<1>2. Track(fixes[k], from, to, most) =
         [thin EXCEPT !.data = [i \in DOMAIN @ |-> FixColumn(@[i].n, @[i].t, @[i].dt, @[i].row)]]
  BY <1>0, <1>1 DEF Track
<1>3. DOMAIN rows = 1..c
  OBVIOUS
<1> DEFINE data == [j \in 1..ThinCount(c, most) |-> rows[ThinAt(c, most)[j]]]
<1>4. thin = [total |-> c, stride |-> StrideOf(c, most), data |-> data]
  <2> HIDE DEF rows
  <2> QED
    BY <1>0, <1>3, DecimatedIs
<1>5. \A j \in 1..ThinCount(c, most) :
         /\ ThinAt(c, most)[j] \in 1..c
         /\ data[j] = Lined(v)[w[ThinAt(c, most)[j]]]
  <2>1. ThinAt(c, most) \in [1..ThinCount(c, most) -> 1..c]
    BY <1>0, Thinning DEF Thins
  <2> QED
    BY <2>1
<1>6. DOMAIN data = 1..ThinCount(c, most)
  OBVIOUS
<1> HIDE DEF thin, data
<1>7. [i \in DOMAIN data |-> FixColumn(data[i].n, data[i].t, data[i].dt, data[i].row)]
         = [j \in 1..ThinCount(c, most) |-> Column(v, w[ThinAt(c, most)[j]])]
  BY <1>5, <1>6 DEF Column
<1>8. Track(fixes[k], from, to, most) =
         [total |-> c, stride |-> StrideOf(c, most),
          data |-> [i \in DOMAIN data |-> FixColumn(data[i].n, data[i].t, data[i].dt, data[i].row)]]
  BY <1>2, <1>4
<1> QED
  BY <1>7, <1>8

(* The whole track.                                                         *)
LEMMA AllIs ==
    ASSUME Handed, NEW k \in Keys, NEW v, IsView(k, v)
    PROVE  All(k) = [i \in 1..v.n |-> Column(v, i)]
<1>1. v.n \in Nat /\ DOMAIN Lined(v) = 1..v.n
  BY ViewParts
<1> DEFINE w == [i \in 1..v.n |-> i]
           most == v.n + MaxPointsMin
<1>2. Lined(v) = [j \in 1..v.n |-> Lined(v)[w[j]]] /\ Lined(v) = [j \in 1..v.n |-> Lined(v)[j]]
  BY DEF Lined
<1>3. w \in [1..v.n -> 1..v.n] /\ most \in Nat /\ most >= MaxPointsMin /\ v.n <= most
  BY <1>1 DEF MaxPointsMin
<1>4. Within(Lined(v), None, None) = Lined(v)
  BY <1>1, <1>2, WithinAll
<1>5. Cardinality(fixes[k]) + MaxPointsMin = most
  BY FixCount
<1> HIDE DEF most
<1>6. StrideOf(v.n, most) = 1
  BY <1>3 DEF StrideOf, Stride
<1>7. /\ ThinCount(v.n, most) = v.n
      /\ \A j \in 1..v.n : ThinAt(v.n, most)[j] = j
  BY <1>1, <1>3, <1>6, Thinning DEF Thins
<1> HIDE DEF w
<1>8. Cuts(v, None, None, v.n, w)
  BY <1>1, <1>2, <1>3, <1>4 DEF Cuts
<1>9. Track(fixes[k], None, None, most).data =
         [j \in 1..ThinCount(v.n, most) |-> Column(v, w[ThinAt(v.n, most)[j]])]
  <2>1. Track(fixes[k], None, None, most) =
              [total |-> v.n, stride |-> StrideOf(v.n, most),
               data |-> [j \in 1..ThinCount(v.n, most) |-> Column(v, w[ThinAt(v.n, most)[j]])]]
    BY <1>1, <1>3, <1>8, TrackIs
  <2> QED
    BY <2>1
<1>10. \A j \in 1..v.n : w[ThinAt(v.n, most)[j]] = j
  BY <1>7 DEF w
<1>11. [j \in 1..ThinCount(v.n, most) |-> Column(v, w[ThinAt(v.n, most)[j]])]
          = [i \in 1..v.n |-> Column(v, i)]
  BY <1>7, <1>10
<1> QED
  BY <1>5, <1>9, <1>11 DEF All

-----------------------------------------------------------------------------
(* The sessions of the database *)

(* A session of the database has rows.                                      *)
Filed ==
    /\ table \in Seq(Keys)
    /\ \A i \in 1..Len(table) : fixes[table[i]] # {}

(* After a batch there is all there was, and all that was queued.           *)
LEMMA RowsAfterHolds ==
    ASSUME Handed, NEW k \in Keys
    PROVE  /\ {f.seq : f \in fixes[k]} \subseteq {f.seq : f \in RowsAfter(k).fix}
           /\ \A j \in 1..Len(queue) : \A m \in Runs :
                 queue[j] = PacketOf(m) /\ m.key = k =>
                    \A i \in 1..m.count :
                       PacketOf(m).cycles[i].seq \in {f.seq : f \in RowsAfter(k).fix}
<1> DEFINE n == Len(queue)
           Seqs(x) == {f.seq : f \in x.fix}
<1>1. PICK v : RowsChain(k, v)
  BY RowsAfterChain
<1>2. n \in Nat /\ DOMAIN queue = 1..n
  BY LenProperties DEF Handed
<1>3. /\ v \in [0..n -> Stores(k)]
      /\ v[0] = [fix |-> fixes[k], sample |-> samples[k]] /\ v[n] = RowsAfter(k)
      /\ \A i \in 1..n :
            v[i] = IF KeyOf(queue[i]) = k THEN InsertedAll(v[i - 1], queue[i]) ELSE v[i - 1]
  BY <1>1 DEF RowsChain
<1> DEFINE Has(i, j) == \A m \in Runs : queue[j] = PacketOf(m) /\ m.key = k =>
                           \A h \in 1..m.count : PacketOf(m).cycles[h].seq \in Seqs(v[i])
           P == {i \in 0..n : /\ {f.seq : f \in fixes[k]} \subseteq Seqs(v[i])
                              /\ \A j \in 1..i : Has(i, j)}
<1>4. 0 \in P
  BY <1>2, <1>3
<1>5. ASSUME NEW i \in 1..n PROVE Seqs(v[i - 1]) \subseteq Seqs(v[i]) /\ Has(i, i)
  <2>1. PICK m \in Runs : queue[i] = PacketOf(m)
    <3>1. queue[i] \in {PacketOf(m) : m \in Runs}
      BY ElementOfSeq DEF Handed
    <3> QED
      BY <3>1
  <2>2. Started /\ KeyOf(queue[i]) = m.key
    BY <2>1, PacketParts DEF Handed
  <2>3. i - 1 \in 0..n
    BY <1>2
  <2>4. CASE m.key = k
    <3>1. v[i] = InsertedAll(v[i - 1], PacketOf(m)) /\ v[i - 1] \in Stores(m.key)
      BY <1>3, <2>1, <2>2, <2>3, <2>4
    <3>2. Seqs(v[i - 1]) \subseteq Seqs(v[i])
      BY <2>2, <3>1, InsertedAllHolds
    <3>3. ASSUME NEW mm \in Runs, queue[i] = PacketOf(mm), mm.key = k, NEW h \in 1..mm.count
          PROVE  PacketOf(mm).cycles[h].seq \in Seqs(v[i])
      <4>1. v[i - 1] \in Stores(mm.key) /\ v[i] = InsertedAll(v[i - 1], PacketOf(mm))
        BY <2>1, <2>4, <3>1, <3>3
      <4> QED
        BY <2>2, <4>1, InsertedAllHolds
    <3> QED
      BY <3>2, <3>3
  <2>5. CASE m.key # k
    <3>1. v[i] = v[i - 1]
      BY <1>3, <2>2, <2>5
    <3>2. \A mm \in Runs : queue[i] = PacketOf(mm) => mm.key # k
      BY <2>2, <2>5, PacketParts
    <3> QED
      BY <3>1, <3>2
  <2> QED
    BY <2>4, <2>5
<1> HIDE DEF Seqs, n
<1>6. ASSUME NEW i \in 1..n, i - 1 \in P PROVE i \in P
  <2>1. Seqs(v[i - 1]) \subseteq Seqs(v[i]) /\ Has(i, i)
    BY <1>5
  <2>2. \A j \in 1..i : j \in 1..(i - 1) \/ j = i
    OBVIOUS
  <2>3. {f.seq : f \in fixes[k]} \subseteq Seqs(v[i - 1]) /\ \A j \in 1..(i - 1) : Has(i - 1, j)
    BY <1>6
  <2>4. \A j \in 1..(i - 1) : Has(i, j)
    BY <2>1, <2>3
  <2> QED
    BY <2>1, <2>2, <2>3, <2>4
<1>7. n \in P
  <2>1. \A i \in 0..n : i \in P
    <3> HIDE DEF P
    <3> QED
      BY <1>2, <1>4, <1>6, Induction
  <2>2. n \in 0..n
    BY <1>2
  <2> QED
    BY <2>1, <2>2
<1>8. {f.seq : f \in fixes[k]} \subseteq Seqs(v[n]) /\ \A j \in 1..n : Has(n, j)
  BY <1>7
<1> QED
  BY <1>3, <1>8 DEF Seqs, n

(* A batch enters the sessions of its packets.                              *)
LEMMA WriteTable ==
    ASSUME Handed, table \in Seq(Keys), Write
    PROVE  /\ table' \in Seq(Keys)
           /\ \A i \in 1..Len(table') :
                 \/ \E j \in 1..Len(table) : table'[i] = table[j]
                 \/ \E j \in 1..Len(queue) : table'[i] = KeyOf(queue[j])
<1> DEFINE old == {table[j] : j \in 1..Len(table)}
           new == {KeyOf(queue[j]) : j \in 1..Len(queue)}
           A == Seq(old \cup new)
           n == Len(queue)
           enter(tab, p) == IF KeyOf(p) \in ToSet(tab) THEN tab ELSE Append(tab, KeyOf(p))
           step == [i \in 1..n |-> [x \in A |-> enter(x, queue[i])]]
           Eq(f) == [t \in SUBSET (1..n) |->
                       IF t = {} THEN table ELSE enter(f[t \ {Max(t)}], queue[Max(t)])]
           it == CHOOSE f : f = Eq(f)
<1>1. n \in Nat /\ DOMAIN queue = 1..n
  BY LenProperties DEF Handed
<1>2. \A i \in 1..n : \A x \in A : enter(x, queue[i]) \in A
  <2> SUFFICES ASSUME NEW i \in 1..n, NEW x \in A PROVE enter(x, queue[i]) \in A
    OBVIOUS
  <2>1. KeyOf(queue[i]) \in old \cup new
    OBVIOUS
  <2> HIDE DEF old, new
  <2>2. Append(x, KeyOf(queue[i])) \in A
    BY <2>1, AppendProperties
  <2> QED
    BY <2>2
<1>3. table \in A
  <2>1. Len(table) \in Nat /\ table \in [1..Len(table) -> Keys]
    BY LenProperties
  <2>2. table \in [1..Len(table) -> old \cup new]
    BY <2>1
  <2> QED
    BY <2>1, <2>2, SeqDef
<1>4. table' = it[1..n]
  BY <1>1 DEF Write, FoldLeft, MapThenFoldSet
<1>5. old \subseteq Keys /\ new \subseteq Keys
  <2>1. old \subseteq Keys
    BY LenProperties
  <2>2. ASSUME NEW j \in 1..n PROVE KeyOf(queue[j]) \in Keys
    <3>1. queue[j] \in {PacketOf(m) : m \in Runs}
      BY ElementOfSeq DEF Handed
    <3>2. PICK m \in Runs : queue[j] = PacketOf(m)
      BY <3>1
    <3> QED
      BY <3>2, PacketParts DEF Handed
  <2> QED
    BY <2>1, <2>2
<1>6. A \subseteq Seq(Keys)
  BY <1>5
<1> HIDE DEF A, n, enter
<1>7. step \in [1..n -> [A -> A]]
  BY <1>2
<1>8. \A i \in 1..n : \A x \in A : step[i][x] = enter(x, queue[i])
  OBVIOUS
<1> HIDE DEF step
<1>9. \E f : f = Eq(f)
  <2>1. PICK f \in [SUBSET (1..n) -> A] : ByPlaces(f, n, table, step)
    BY <1>1, <1>3, <1>7, FoldExists, Zenon
  <2>2. \A t \in SUBSET (1..n) :
           f[t] = IF t = {} THEN table ELSE enter(f[t \ {Max(t)}], queue[Max(t)])
    <3> SUFFICES ASSUME NEW t \in SUBSET (1..n), t # {}
                 PROVE  f[t] = enter(f[t \ {Max(t)}], queue[Max(t)])
      BY <2>1 DEF ByPlaces
    <3>1. Max(t) \in 1..n /\ f[t \ {Max(t)}] \in A
      BY <1>1, <2>1, MaxProperties
    <3>2. QED
      BY <1>8, <2>1, <3>1 DEF ByPlaces
  <2>3. f = Eq(f)
    BY <2>2
  <2>4. QED
    BY <2>3
<1>10. it = Eq(it)
  BY <1>9
<1> HIDE DEF it
<1>11. it[{}] = table
  BY <1>10
<1>12. ASSUME NEW t \in SUBSET (1..n), t # {}, it[t \ {Max(t)}] \in A
       PROVE  it[t] = step[Max(t)][it[t \ {Max(t)}]]
  <2>1. Max(t) \in 1..n
    BY <1>1, <1>12, MaxProperties
  <2>2. it[t] = enter(it[t \ {Max(t)}], queue[Max(t)])
    BY <1>10, <1>12
  <2>3. QED
    BY <1>8, <1>12, <2>1, <2>2
<1>13. OverPlaces(it, n, A, table, step)
  BY <1>11, <1>12 DEF OverPlaces
<1>14. it[1..n] \in A
  BY <1>1, <1>3, <1>7, <1>13, FoldStays, Zenon
<1>15. table' \in Seq(old \cup new)
  BY <1>4, <1>14 DEF A
<1>16. \A i \in 1..Len(table') : table'[i] \in old \cup new
  <2> HIDE DEF old, new
  <2> QED
    BY <1>15, ElementOfSeq
<1> QED
  BY <1>4, <1>6, <1>14, <1>16 DEF n

(* A session that is in the table has rows, and keeps them.                 *)
LEMMA NextFiled ==
    ASSUME Sent, Handed, Filed, [Next]_vars
    PROVE  Filed'
<1>1. CASE Write
  <2>1. /\ table' \in Seq(Keys)
        /\ \A i \in 1..Len(table') :
              \/ \E j \in 1..Len(table) : table'[i] = table[j]
              \/ \E j \in 1..Len(queue) : table'[i] = KeyOf(queue[j])
    BY <1>1, WriteTable DEF Filed
  <2>2. ASSUME NEW i \in 1..Len(table') PROVE fixes'[table'[i]] # {}
    <3>1. PICK k \in Keys : k = table'[i]
      BY <2>1, ElementOfSeq
    <3>2. fixes'[k] = RowsAfter(k).fix
      BY <1>1 DEF Write
    <3>3. CASE \E j \in 1..Len(table) : table'[i] = table[j]
      <4>1. fixes[k] # {}
        BY <3>1, <3>3 DEF Filed
      <4>2. {f.seq : f \in fixes[k]} \subseteq {f.seq : f \in RowsAfter(k).fix}
        BY RowsAfterHolds
      <4>3. {f.seq : f \in RowsAfter(k).fix} # {}
        BY <4>1, <4>2
      <4> QED
        BY <3>1, <3>2, <4>3
    <3>4. CASE \E j \in 1..Len(queue) : table'[i] = KeyOf(queue[j])
      <4>1. PICK j \in 1..Len(queue) : k = KeyOf(queue[j])
        BY <3>1, <3>4
      <4>2. queue[j] \in {PacketOf(m) : m \in Runs}
        BY ElementOfSeq DEF Handed
      <4>3. PICK m \in Runs : queue[j] = PacketOf(m)
        BY <4>2
      <4>4. m.key = k /\ 1 \in 1..m.count
        BY <4>1, <4>3, PacketParts DEF Handed
      <4>5. PacketOf(m).cycles[1].seq \in {f.seq : f \in RowsAfter(k).fix}
        BY <4>3, <4>4, RowsAfterHolds
      <4> QED
        BY <3>1, <3>2, <4>5
    <3> QED
      BY <2>1, <3>3, <3>4
  <2> QED
    BY <2>1, <2>2 DEF Filed
<1>2. CASE ~ Write
  <2>1. UNCHANGED <<table, fixes>>
    BY <1>2 DEF Next, vars, storeVars, Accept, ArriveDamaged
  <2> QED
    BY <2>1 DEF Filed
<1> QED
  BY <1>1, <1>2

(* What every state of Ingest has for the answers to rest on.               *)
Answerable == Sent /\ Tracks /\ Handed /\ Filed

(* At first there is nothing to answer from.                                *)
LEMMA InitAnswerable == Init => Answerable
<1> SUFFICES ASSUME Init PROVE Answerable
  OBVIOUS
<1>1. Sent /\ Tracks /\ Handed
  BY InitSent, InitTracks, InitHanded
<1>2. Filed
  <2>1. table = << >>
    BY DEF Init
  <2> QED
    BY <2>1 DEF Filed
<1> QED
  BY <1>1, <1>2 DEF Answerable

(* Every step keeps that.                                                   *)
LEMMA NextAnswerable == Answerable /\ [Next]_vars => Answerable'
BY NextTracks, NextHanded, NextFiled DEF Answerable

(* The sessions that are asked for are in the database.                     *)
LEMMA WrittenIs ==
    ASSUME Answerable, NEW k \in Written
    PROVE  /\ k \in Keys /\ Handed /\ Started /\ fixes[k] # {}
           /\ Len(table) \in Nat /\ DOMAIN table = 1..Len(table)
           /\ table \in [1..Len(table) -> Keys]
           /\ IdOf(k) \in 1..Len(table) /\ table[IdOf(k)] = k
<1>1. /\ Len(table) \in Nat /\ DOMAIN table = 1..Len(table)
      /\ table \in [1..Len(table) -> Keys]
  BY LenProperties DEF Answerable, Filed
<1>2. k \in ToSet(table)
  BY DEF Written
<1>3. PICK i \in 1..Len(table) : table[i] = k
  BY <1>1, <1>2 DEF ToSet
<1>4. IdOf(k) \in DOMAIN table /\ table[IdOf(k)] = k
  BY <1>1, <1>3 DEF IdOf
<1> QED
  BY <1>1, <1>3, <1>4 DEF Answerable, Filed, Handed

-----------------------------------------------------------------------------
(* Replay *)

(* Numbers stand for the cycles they were counted from.                     *)
LEMMA BaseIndex ==
    ASSUME Started, NEW k \in Keys, NEW x \in 0..(Length[k] - 1), NEW base \in Bases
    PROVE  (base + x) % SeqWrap = Row(x).seq /\ Index((base + x) % SeqWrap) = x
<1>1. PICK w \in Nat \ {0} : w = SeqWrap
  BY PacketAssumption
<1>2. PICK o \in 0..(w - 1) : o = origin.seq
  BY <1>1 DEF Started
<1>3. Row(x).seq = (o + x) % w
  BY <1>1, <1>2 DEF Row, FixRow, Cycle
<1>4. PICK y \in Int : y = base + x /\ (y = o + x \/ y = o + x - w)
  <2>1. x \in Int /\ (base = o \/ base = o - w)
    BY <1>1, <1>2, BaseInteger DEF Bases
  <2>2. base \in Int
    BY BaseInteger
  <2> QED
    BY <2>1, <2>2
<1>5. y % w = (o + x) % w
  <2>1. CASE y = o + x
    BY <2>1
  <2>2. CASE y = o + x - w
    <3>1. (w * 1 + y) % w = y % w
      <4>1. 1 \in Int
        OBVIOUS
      <4> QED
        BY <4>1, Multiples
    <3>2. w * 1 + y = o + x
      BY <2>2
    <3> QED
      BY <3>1, <3>2
  <2> QED
    BY <1>4, <2>1, <2>2
<1>6. Index(Row(x).seq) = x
  BY IndexOf DEF Row
<1> QED
  BY <1>1, <1>3, <1>4, <1>5, <1>6

(* Of cycles less than half a turn of t apart the time between is right.    *)
LEMMA StepIs ==
    ASSUME Started, NEW a \in Nat, NEW b \in Nat, a < b, 2 * (b - a) < TimeWrap
    PROVE  TimeStep(a, b) = b - a
<1>1. PICK w \in Nat \ {0} : w = TimeWrap
  BY PacketAssumption
<1>2. PICK o \in 0..(w - 1) : o = origin.t
  BY <1>1 DEF Started
<1>3. Row(a).t = (o + a) % w /\ Row(b).t = (o + b) % w
  BY <1>1, <1>2 DEF Row, FixRow, Cycle
<1>4. PICK d \in Nat : d = b - a /\ d > 0 /\ 2 * d < w
  BY <1>1
<1>5. PICK x \in 0..(w - 1) : x = (o + a) % w
  <2>1. o + a \in Int
    OBVIOUS
  <2> QED
    BY <2>1, Remainder
<1>6. (x + d) % w = (o + b) % w
  <2>1. o + a \in Int /\ d \in Int
    OBVIOUS
  <2>2. (((o + a) % w) + d) % w = ((o + a) + d) % w
    BY <2>1, WrapSum
  <2>3. (o + a) + d = o + b
    BY <1>4
  <2> QED
    BY <1>5, <2>2, <2>3
<1>7. CASE x + d < w
  <2>1. x + d \in 0..(w - 1) /\ x + d \in Int
    BY <1>7
  <2>2. (x + d) % w = x + d
    BY <2>1, Remainder
  <2>3. ~ (2 * (x - (x + d)) > w)
    BY <1>4
  <2>4. Row(a).t = x /\ Row(b).t = x + d
    BY <1>3, <1>5, <1>6, <2>2
  <2> QED
    BY <1>1, <1>4, <2>3, <2>4 DEF TimeStep
<1>8. CASE ~ (x + d < w)
  <2>1. PICK y \in 0..(w - 1) : y = x + d - w
    BY <1>4, <1>8
  <2>2. (w * 1 + y) % w = y % w /\ y % w = y
    <3>1. 1 \in Int /\ y \in Int
      OBVIOUS
    <3>2. (w * 1 + y) % w = y % w
      BY <3>1, Multiples
    <3>3. y % w = y
      BY <3>1, Remainder
    <3> QED
      BY <3>2, <3>3
  <2>3. w * 1 + y = x + d
    BY <2>1
  <2>4. Row(a).t = x /\ Row(b).t = y
    BY <1>3, <1>5, <1>6, <2>2, <2>3
  <2>5. 2 * (x - y) > w
    BY <1>4, <2>1
  <2> QED
    BY <1>1, <1>4, <2>1, <2>4, <2>5 DEF TimeStep
<1> QED
  BY <1>7, <1>8

(* What a row shows.                                                        *)
LEMMA ColumnIs ==
    ASSUME Handed, NEW k \in Keys, NEW v, IsView(k, v), NEW i \in 1..v.n
    PROVE  /\ Column(v, i).seq = v.base + v.at[i]
           /\ Column(v, i).t = v.t[i] /\ Lined(v)[i].t = v.t[i]
           /\ Lined(v)[i].n = v.base + v.at[i] /\ Lined(v)[i].row = Row(v.at[i])
           /\ Column(v, i).dt = Lined(v)[i].dt
           /\ Lined(v)[i].dt = IF i > 1 /\ v.at[i] - v.at[i - 1] = 1
                               THEN v.t[i] - v.t[i - 1] ELSE None
           /\ Index(Column(v, i).seq % SeqWrap) = v.at[i]
           /\ Column(v, i).seq % SeqWrap = Row(v.at[i]).seq
<1>1. Lined(v)[i] = Unwound(v.base, v.at, v.t, i)
  BY DEF Lined
<1>2. v.at[i] \in 0..(Length[k] - 1) /\ v.base \in Bases
  <2>1. v.at \in [1..v.n -> v.cycles] /\ v.cycles \in SUBSET (0..(Length[k] - 1))
    BY ViewParts
  <2> QED
    BY <2>1 DEF IsView
<1>3. /\ (v.base + v.at[i]) % SeqWrap = Row(v.at[i]).seq
      /\ Index((v.base + v.at[i]) % SeqWrap) = v.at[i]
  BY <1>2, BaseIndex DEF Handed
<1> QED
  BY <1>1, <1>3 DEF Column, FixColumn, Unwound

(* A period is shown if the cycle before is stored.                         *)
LEMMA PeriodShown ==
    ASSUME Handed, NEW k \in Keys, NEW v, IsView(k, v), NEW i \in 1..v.n
    PROVE  Lined(v)[i].dt # None <=> \E j \in 1..v.n : v.at[j] = v.at[i] - 1
<1>1. /\ v.n \in Nat /\ v.at \in [1..v.n -> Int] /\ Increasing(v.at, v.n)
      /\ v.t \in [1..v.n -> Int]
  BY ViewParts
<1>2. Lined(v)[i].dt = IF i > 1 /\ v.at[i] - v.at[i - 1] = 1
                       THEN v.t[i] - v.t[i - 1] ELSE None
  BY ColumnIs
<1>3. CASE i > 1 /\ v.at[i] - v.at[i - 1] = 1
  <2>1. i - 1 \in 1..v.n
    BY <1>1, <1>3
  <2>2. v.t[i] - v.t[i - 1] \in Int
    <3>1. v.t[i] \in Int /\ v.t[i - 1] \in Int
      BY <1>1, <2>1
    <3> QED
      BY <3>1
  <2>3. Lined(v)[i].dt # None
    BY <1>2, <1>3, <2>2, IngestAssumption
  <2>4. v.at[i - 1] = v.at[i] - 1
    <3>1. PICK a \in Int, b \in Int : a = v.at[i - 1] /\ b = v.at[i]
      BY <1>1, <2>1
    <3> QED
      BY <1>3, <3>1
  <2> QED
    BY <2>1, <2>3, <2>4
<1>4. CASE ~ (i > 1 /\ v.at[i] - v.at[i - 1] = 1)
  <2>1. Lined(v)[i].dt = None
    BY <1>2, <1>4
  <2>2. ASSUME NEW j \in 1..v.n, v.at[j] = v.at[i] - 1 PROVE FALSE
    <3>1. PICK a \in Int, b \in Int : a = v.at[j] /\ b = v.at[i] /\ a = b - 1
      BY <1>1, <2>2
    <3>2. v.at[j] < v.at[i]
      BY <3>1
    <3>3. j < i
      BY <1>1, <3>2, OrderOfPlaces
    <3>4. j # i - 1
      <4> SUFFICES ASSUME j = i - 1 PROVE FALSE
        OBVIOUS
      <4>1. i > 1 /\ v.at[i] - v.at[i - 1] = 1
        BY <3>1
      <4> QED
        BY <1>4, <4>1
    <3>5. i - 1 \in 1..v.n /\ j < i - 1 /\ i - 1 < i
      BY <1>1, <3>3, <3>4
    <3>6. v.at[j] < v.at[i - 1] /\ v.at[i - 1] < v.at[i]
      BY <3>5 , <1>1 DEF Increasing
    <3>7. v.at[i - 1] \in Int
      BY <1>1, <3>5
    <3> QED
      BY <3>1, <3>6, <3>7
  <2> QED
    BY <2>1, <2>2
<1> QED
  BY <1>3, <1>4

(* If all neighbours are close enough, times lie apart as the cycles.       *)
LEMMA TimesAgree ==
    ASSUME Handed, NEW k \in Keys, NEW v, IsView(k, v),
           \A i \in 2..v.n : 2 * (v.at[i] - v.at[i - 1]) < TimeWrap
    PROVE  \A i, j \in 1..v.n : v.t[j] - v.t[i] = v.at[j] - v.at[i]
<1>1. /\ v.n \in Nat /\ v.at \in [1..v.n -> Int] /\ Increasing(v.at, v.n)
      /\ v.t \in [1..v.n -> Int]
  BY ViewParts
<1>2. \A i \in 2..v.n : v.t[i] - v.t[i - 1] = v.at[i] - v.at[i - 1]
  <2> SUFFICES ASSUME NEW i \in 2..v.n PROVE v.t[i] - v.t[i - 1] = v.at[i] - v.at[i - 1]
    OBVIOUS
  <2>1. i \in 1..v.n /\ i - 1 \in 1..v.n /\ i - 1 < i
    BY <1>1
  <2>2. v.at[i - 1] \in 0..(Length[k] - 1) /\ v.at[i] \in 0..(Length[k] - 1)
    <3>1. v.at \in [1..v.n -> v.cycles] /\ v.cycles \in SUBSET (0..(Length[k] - 1))
      BY ViewParts
    <3> QED
      BY <2>1, <3>1
  <2>3. PICK a \in Nat, b \in Nat : a = v.at[i - 1] /\ b = v.at[i]
    BY <2>2
  <2>4. a < b
    BY <1>1, <2>1, <2>3 DEF Increasing
  <2>5. TimeStep(a, b) = b - a
    BY <2>3, <2>4, StepIs DEF Handed
  <2>6. v.t[i] - v.t[i - 1] = TimeStep(v.at[i - 1], v.at[i])
    BY DEF IsView, Spaced
  <2> QED
    BY <2>3, <2>5, <2>6
<1> DEFINE P == {i \in 0..v.n : i >= 1 => v.t[i] - v.t[1] = v.at[i] - v.at[1]}
<1>3. 0 \in P
  BY <1>1
<1>4. ASSUME NEW i \in 1..v.n, i - 1 \in P PROVE i \in P
  <2>1. CASE i = 1
    <3>1. PICK a \in Int, b \in Int : a = v.t[1] /\ b = v.at[1]
      BY <1>1, <2>1
    <3>2. a - a = b - b
      OBVIOUS
    <3> QED
      BY <2>1, <3>1, <3>2
  <2>2. CASE i # 1
    <3>1. i \in 2..v.n /\ 1 \in 1..v.n /\ i - 1 \in 1..v.n
      BY <1>1, <2>2
    <3>2. v.t[i - 1] - v.t[1] = v.at[i - 1] - v.at[1]
      BY <1>4, <3>1
    <3>3. v.t[i] - v.t[i - 1] = v.at[i] - v.at[i - 1]
      BY <1>2, <3>1
    <3>4. PICK a \in Int, b \in Int, c \in Int : a = v.t[1] /\ b = v.t[i - 1] /\ c = v.t[i]
      BY <1>1, <3>1
    <3>5. PICK d \in Int, e \in Int, f \in Int : d = v.at[1] /\ e = v.at[i - 1] /\ f = v.at[i]
      BY <1>1, <3>1
    <3>6. c - a = f - d
      BY <3>2, <3>3, <3>4, <3>5
    <3> QED
      BY <3>4, <3>5, <3>6
  <2> QED
    BY <2>1, <2>2
<1>5. \A i \in 0..v.n : i \in P
  <2> HIDE DEF P
  <2> QED
    BY <1>1, <1>3, <1>4, Induction
<1>6. \A i \in 1..v.n : v.t[i] - v.t[1] = v.at[i] - v.at[1]
  BY <1>5
<1> SUFFICES ASSUME NEW i \in 1..v.n, NEW j \in 1..v.n
             PROVE  v.t[j] - v.t[i] = v.at[j] - v.at[i]
  OBVIOUS
<1>7. 1 \in 1..v.n
  BY <1>1
<1>8. PICK a \in Int, b \in Int, c \in Int : a = v.t[1] /\ b = v.t[i] /\ c = v.t[j]
  BY <1>1, <1>7
<1>9. PICK d \in Int, e \in Int, f \in Int : d = v.at[1] /\ e = v.at[i] /\ f = v.at[j]
  BY <1>1, <1>7
<1>10. b - a = e - d /\ c - a = f - d
  BY <1>6, <1>8, <1>9
<1>11. c - b = f - e
  BY <1>10
<1> QED
  BY <1>8, <1>9, <1>11

(* Numbers of a view are a base and a place, and times as far apart.        *)
LEMMA AnswersReplay == Answerable => ReplayIsTrue
<1> SUFFICES ASSUME Answerable, NEW k \in Written
             PROVE  LET rows == All(k)
                        at(i) == Index(rows[i].seq % SeqWrap)
                    IN  /\ \A i, j \in DOMAIN rows : i < j =>
                             /\ rows[j].seq - rows[i].seq = at(j) - at(i)
                             /\ Dense(rows) => rows[j].t - rows[i].t = at(j) - at(i)
                        /\ \A i \in DOMAIN rows :
                             rows[i].dt # None <=> \E j \in DOMAIN rows : at(j) = at(i) - 1
  BY DEF ReplayIsTrue
<1> DEFINE at(i) == Index(All(k)[i].seq % SeqWrap)
<1>0. Handed /\ k \in Keys
  BY WrittenIs
<1>1. PICK v : IsView(k, v)
  BY <1>0, ViewExists
<1>2. PICK rows : rows = All(k) /\ rows = [i \in 1..v.n |-> Column(v, i)]
  BY <1>0, <1>1, AllIs
<1>3. /\ v.n \in Nat /\ v.at \in [1..v.n -> Int] /\ v.base \in Int
      /\ DOMAIN rows = 1..v.n /\ Len(rows) = v.n
  BY <1>0, <1>1, <1>2, ViewParts
<1>4. \A i \in 1..v.n : /\ at(i) = v.at[i] /\ rows[i].seq = v.base + v.at[i]
                        /\ rows[i].t = v.t[i] /\ rows[i].dt = Lined(v)[i].dt
                        /\ Index(rows[i].seq % SeqWrap) = v.at[i]
  BY <1>0, <1>1, <1>2, ColumnIs
<1> HIDE DEF at
<1>5. ASSUME NEW i \in 1..v.n, NEW j \in 1..v.n
      PROVE  rows[j].seq - rows[i].seq = at(j) - at(i)
  <2>1. PICK a \in Int, b \in Int, c \in Int : a = v.at[i] /\ b = v.at[j] /\ c = v.base
    BY <1>3
  <2> QED
    BY <1>4, <2>1
<1>6. ASSUME Dense(rows), NEW i \in 1..v.n, NEW j \in 1..v.n
      PROVE  rows[j].t - rows[i].t = at(j) - at(i)
  <2>1. ASSUME NEW h \in 2..v.n PROVE 2 * (v.at[h] - v.at[h - 1]) < TimeWrap
    <3>1. h \in 1..v.n /\ h - 1 \in 1..v.n
      BY <1>3
    <3>2. 2 * (Index(rows[h].seq % SeqWrap) - Index(rows[h - 1].seq % SeqWrap)) < TimeWrap
      BY <1>3, <1>6 DEF Dense
    <3> QED
      BY <1>4, <3>1, <3>2
  <2>2. v.t[j] - v.t[i] = v.at[j] - v.at[i]
    BY <1>0, <1>1, <2>1, TimesAgree
  <2> QED
    BY <1>4, <2>2
<1>7. ASSUME NEW i \in 1..v.n
      PROVE  rows[i].dt # None <=> \E j \in 1..v.n : at(j) = at(i) - 1
  <2>1. Lined(v)[i].dt # None <=> \E j \in 1..v.n : v.at[j] = v.at[i] - 1
    BY <1>0, <1>1, PeriodShown
  <2> QED
    BY <1>4, <2>1
<1> QED
  BY <1>2, <1>3, <1>5, <1>6, <1>7 DEF at

(* Replay shows true distances, over the wraps of seq and t and with any    *)
(* cycles missing (query.py, seq_wrapped, _normalized and track), and dt    *)
(* exactly where the cycle before is stored.                                *)
THEOREM ReplayTrue == Spec => []ReplayIsTrue
<1>1. Answerable => ReplayIsTrue
  BY AnswersReplay
<1>2. QED
  BY <1>1, InitAnswerable, NextAnswerable, PTL DEF Spec

-----------------------------------------------------------------------------
(* The rows of a time range *)

(* A time range cuts the unwrapped rows and the whole track alike.          *)
Cut(k, v, from, to, c, w) ==
    /\ Ranged(Lined(v), v.n, from, to, c, w)
    /\ Within(All(k), from, to) = [j \in 1..c |-> Column(v, w[j])]

(* A view is cut as its rows and its columns are.                           *)
LEMMA ViewCut ==
    ASSUME Handed, NEW k \in Keys, NEW v, IsView(k, v), NEW from, NEW to
    PROVE  \E c, w : Cut(k, v, from, to, c, w)
<1>1. v.n \in Nat /\ DOMAIN Lined(v) = 1..v.n
  BY ViewParts
<1>2. \E c, w : Ranged(Lined(v), v.n, from, to, c, w)
  BY <1>1, WithinIs, Zenon
<1>3. PICK c, w : Ranged(Lined(v), v.n, from, to, c, w)
  BY <1>2
<1>4. PICK all : all = All(k) /\ all = [i \in 1..v.n |-> Column(v, i)]
  BY AllIs
<1>5. DOMAIN all = 1..v.n /\ \A i \in 1..v.n : all[i].t = Lined(v)[i].t
  BY <1>4, ColumnIs
<1>6. PICK P : P = Places(Lined(v), from, to)
  OBVIOUS
<1>7. {i \in DOMAIN all : /\ from # None => all[i].t >= from
                          /\ to # None => all[i].t <= to} = P
  BY <1>1, <1>5, <1>6 DEF Places
<1>8. Orders(w, c, P) /\ P \in SUBSET Int /\ DOMAIN w = 1..c /\ w \in [1..c -> 1..v.n]
  BY <1>1, <1>3, <1>6 DEF Places, Ranged
<1>9. Ascending(P) = w
  BY <1>8, AscendingIs
<1>10. Within(all, from, to) = [j \in 1..c |-> all[w[j]]]
  BY <1>7, <1>8, <1>9 DEF Within, Picked
<1>11. \A j \in 1..c : all[w[j]] = Column(v, w[j])
  BY <1>4, <1>8
<1>12. Within(All(k), from, to) = [j \in 1..c |-> Column(v, w[j])]
  BY <1>4, <1>10, <1>11
<1> QED
  BY <1>3, <1>12 DEF Cut

(* What is asked for.                                                       *)
LEMMA AskParts ==
    ASSUME NEW q \in Asks
    PROVE  q.max \in Nat /\ q.max >= MaxPointsMin
BY IngestAssumption

(* A cut that is thinned out is what track answers.                         *)
LEMMA AnswersThin == Answerable => ThinnedFairly
<1> SUFFICES ASSUME Answerable, NEW k \in Written, NEW q \in Asks
             PROVE  LET answer == TrackOf(k, q)
                        full == Within(All(k), q.from, q.to)
                        thin == answer.body.data
                    IN  answer.status = 200 =>
                          /\ answer.body.total = Len(full) /\ Len(thin) <= q.max
                          /\ full # << >> => Last(thin) = Last(full)
                          /\ \A i \in 1..(Len(thin) - 1) :
                                thin[i] = full[(i - 1) * answer.body.stride + 1]
  BY DEF ThinnedFairly
<1> DEFINE answer == TrackOf(k, q)
<1> DEFINE rows == Within(All(k), q.from, q.to)
           stays == answer.body.data
<1> SUFFICES ASSUME answer.status = 200
             PROVE  /\ answer.body.total = Len(rows) /\ Len(stays) <= q.max
                    /\ rows # << >> => Last(stays) = Last(rows)
                    /\ \A i \in 1..(Len(stays) - 1) :
                          stays[i] = rows[(i - 1) * answer.body.stride + 1]
  OBVIOUS
<1>1. Handed /\ k \in Keys /\ table[IdOf(k)] = k
  BY WrittenIs
<1>2. answer.body = Track(fixes[k], q.from, q.to, q.max)
  BY <1>1 DEF TrackOf, GetTrack
<1>3. PICK v : IsView(k, v)
  BY <1>1, ViewExists
<1>4. \E c, w : Cut(k, v, q.from, q.to, c, w)
  BY <1>1, <1>3, ViewCut
<1>5. PICK c, w : Cut(k, v, q.from, q.to, c, w)
  BY <1>4
<1>17. /\ c \in Nat /\ Cuts(v, q.from, q.to, c, w)
       /\ Within(All(k), q.from, q.to) = [j \in 1..c |-> Column(v, w[j])]
  BY <1>5 DEF Cut, Ranged, Cuts
<1>6. q.max \in Nat /\ q.max >= MaxPointsMin
  BY AskParts
<1>7. PICK most \in Nat : most = q.max
  BY <1>6
<1>8. answer.body = [total |-> c, stride |-> StrideOf(c, most),
         data |-> [j \in 1..ThinCount(c, most) |-> Column(v, w[ThinAt(c, most)[j]])]]
  BY <1>2, <1>3, <1>17, <1>6, <1>7, TrackIs
<1>9. PICK full : full = Within(All(k), q.from, q.to) /\ full = [j \in 1..c |-> Column(v, w[j])]
  BY <1>17
<1>10. PICK thin : /\ thin = answer.body.data
                   /\ thin = [j \in 1..ThinCount(c, most) |-> Column(v, w[ThinAt(c, most)[j]])]
  BY <1>8
<1> DEFINE s == StrideOf(c, most)
           n == ThinCount(c, most)
           at == ThinAt(c, most)
<1>11. /\ s \in Nat /\ n \in Nat /\ at \in [1..n -> 1..c]
       /\ n <= most /\ (c # 0 => n # 0 /\ at[n] = c)
       /\ \A j \in 1..(n - 1) : at[j] = s * (j - 1) + 1
  <2>1. most >= MaxPointsMin /\ c \in Nat
    BY <1>17, <1>6, <1>7
  <2>2. Thins(c, most)
    BY <1>7, <2>1, Thinning
  <2> QED
    BY <2>1, <2>2 DEF Thins
<1>12. Len(full) = c /\ Len(thin) = n
  BY <1>17, <1>9, <1>10, <1>11
<1>13. answer.body.total = c /\ answer.body.stride = s
  BY <1>8, <1>11
<1> HIDE DEF answer, s, n, at
<1>14. ASSUME full # << >> PROVE Last(thin) = Last(full)
  <2>1. c # 0
    BY <1>9, <1>14
  <2>2. thin[n] = Column(v, w[c]) /\ full[c] = Column(v, w[c])
    <3>1. n \in 1..n /\ c \in 1..c
      BY <1>17, <1>11, <2>1
    <3>2. thin[n] = Column(v, w[at[n]])
      BY <1>10, <3>1 DEF n, at
    <3> QED
      BY <1>9, <1>11, <2>1, <3>1, <3>2
  <2> QED
    BY <1>12, <2>2 DEF Last
<1>15. ASSUME NEW i \in 1..(n - 1) PROVE thin[i] = full[(i - 1) * s + 1]
  <2>1. i \in 1..n
    BY <1>11
  <2>4. at[i] = s * (i - 1) + 1 /\ at[i] \in 1..c
    BY <1>11, <2>1
  <2>2. s * (i - 1) + 1 = (i - 1) * s + 1
    <3>1. \A x, y \in Int : x * y = y * x
      OBVIOUS
    <3> QED
      BY <1>11, <3>1
  <2>3. thin[i] = Column(v, w[at[i]]) /\ full[at[i]] = Column(v, w[at[i]])
    BY <1>9, <1>10, <2>1, <2>4 DEF n, at
  <2>5. s * (i - 1) \in Int
    BY <1>11
  <2> QED
    BY <2>2, <2>3, <2>4
<1>16. /\ answer.body.total = Len(full) /\ Len(thin) <= q.max
       /\ full # << >> => Last(thin) = Last(full)
       /\ \A i \in 1..(Len(thin) - 1) : thin[i] = full[(i - 1) * answer.body.stride + 1]
  BY <1>7, <1>11, <1>12, <1>13, <1>14, <1>15
<1>18. full = rows /\ thin = stays
  BY <1>9, <1>10
<1> HIDE DEF rows, stays
<1> QED
  BY <1>16, <1>18

(* Thinning out (query.py, _STRIDE and Decimated) costs no end and no       *)
(* period: at most max_points rows of the time range, in even steps from    *)
(* its first to its last, each as it is in the whole track.                 *)
THEOREM ThinnedTrue == Spec => []ThinnedFairly
<1>1. Answerable => ThinnedFairly
  BY AnswersThin
<1>2. QED
  BY <1>1, InitAnswerable, NextAnswerable, PTL DEF Spec

-----------------------------------------------------------------------------
(* The samples of an anchor *)

Mine(k, a) == {s \in samples[k] : s.anchor = a}

(* The places of the fixes an anchor was measured with.                     *)
Reached(k, v, a) == {i \in 1..v.n : \E s \in Mine(k, a) : s.seq = Row(v.at[i]).seq}

(* The sample of an anchor at a place, with the seq and t of the fix there. *)
Met(k, v, a, i) ==
    [n |-> Lined(v)[i].n, t |-> Lined(v)[i].t,
     sample |-> CHOOSE s \in Mine(k, a) : s.seq = Lined(v)[i].row.seq]

(* The c samples of an anchor are those at the places w.                    *)
Joins(k, v, a, c, w) ==
    /\ c \in Nat /\ Orders(w, c, Reached(k, v, a)) /\ w \in [1..c -> 1..v.n]
    /\ Joined(fixes[k], samples[k], a) = [j \in 1..c |-> Met(k, v, a, w[j])]

(* The samples of an anchor have the numbers of their fixes.                *)
LEMMA JoinedIs ==
    ASSUME Handed, NEW k \in Keys, NEW v, IsView(k, v), fixes[k] # {}, NEW a
    PROVE  \E c, w : Joins(k, v, a, c, w)
<1>1. PICK R : R = Reached(k, v, a)
  OBVIOUS
<1>2. R \in SUBSET (1..v.n) /\ R \in SUBSET (0..v.n) /\ R \in SUBSET Int /\ v.n \in Nat
  <2>1. v.n \in Nat
    BY ViewParts
  <2> QED
    BY <1>1, <2>1 DEF Reached
<1>3. PICK c \in Nat : \E w : Orders(w, c, R)
  BY <1>2, OrderExists
<1>4. PICK w : Orders(w, c, R)
  BY <1>3
<1>5. w \in [1..c -> 1..v.n] /\ DOMAIN w = 1..c
  BY <1>2, <1>4 DEF Orders
<1>6. Ascending(R) = w
  BY <1>2, <1>4, AscendingIs
<1>7. PICK rows : rows = Lined(v) /\ rows = Unwrapped(fixes[k])
  BY DEF IsView
<1>8. {i \in DOMAIN rows : \E s \in Mine(k, a) : s.seq = rows[i].row.seq} = R
  <2>1. DOMAIN rows = 1..v.n
    BY <1>7, ViewParts
  <2>2. \A i \in 1..v.n : rows[i].row.seq = Row(v.at[i]).seq
    <3> SUFFICES ASSUME NEW i \in 1..v.n PROVE rows[i].row.seq = Row(v.at[i]).seq
      OBVIOUS
    <3>1. Lined(v)[i].row = Row(v.at[i])
      BY ColumnIs
    <3> QED
      BY <1>7, <3>1
  <2> QED
    BY <1>1, <2>1, <2>2 DEF Reached
<1>9. PICK met : met = Picked(rows, R) /\ met = [j \in 1..c |-> rows[w[j]]]
  BY <1>5, <1>6 DEF Picked
<1>13. PICK mine : mine = Mine(k, a) /\ mine = {s \in samples[k] : s.anchor = a}
  BY DEF Mine
<1>14. {i \in DOMAIN rows : \E s \in mine : s.seq = rows[i].row.seq} = R
  BY <1>8, <1>13
<1>10. Joined(fixes[k], samples[k], a) =
          [i \in DOMAIN met |-> [n |-> met[i].n, t |-> met[i].t,
             sample |-> CHOOSE s \in mine : s.seq = met[i].row.seq]]
  <2> DEFINE J(M, r) == [i \in DOMAIN r |-> [n |-> r[i].n, t |-> r[i].t,
                           sample |-> CHOOSE s \in M : s.seq = r[i].row.seq]]
             P(M, r) == {i \in DOMAIN r : \E s \in M : s.seq = r[i].row.seq}
             M0 == {s \in samples[k] : s.anchor = a}
  <2>1. Joined(fixes[k], samples[k], a) =
           J(M0, Picked(Unwrapped(fixes[k]), P(M0, Unwrapped(fixes[k]))))
    BY DEF Joined
  <2>2. P(mine, rows) = R
    BY <1>14
  <2>3. mine = M0
    BY <1>13
  <2> HIDE DEF J, P, M0
  <2>4. Joined(fixes[k], samples[k], a) = J(mine, met)
    BY <1>7, <1>9, <2>1, <2>2, <2>3
  <2> QED
    BY <2>4 DEF J
<1>11. \A j \in 1..c : met[j] = Lined(v)[w[j]]
  BY <1>7, <1>9
<1>15. DOMAIN met = 1..c
  BY <1>9
<1>16. ASSUME NEW j \in 1..c
      PROVE  [n |-> met[j].n, t |-> met[j].t,
              sample |-> CHOOSE s \in mine : s.seq = met[j].row.seq] = Met(k, v, a, w[j])
  BY <1>11, <1>13 DEF Met
<1>12. Joined(fixes[k], samples[k], a) = [j \in 1..c |-> Met(k, v, a, w[j])]
  BY <1>10, <1>15, <1>16
<1> QED
  BY <1>1, <1>3, <1>4, <1>5, <1>12 DEF Joins

(* The places of an anchor's samples in a time range, c of them, are x.     *)
Hits(k, v, a, from, to) == Reached(k, v, a) \cap Places(Lined(v), from, to)

Heard(k, v, a, from, to, c, x) ==
    /\ c \in Nat /\ x \in [1..c -> 1..v.n] /\ Orders(x, c, Hits(k, v, a, from, to))
    /\ Within(Joined(fixes[k], samples[k], a), from, to)
          = [j \in 1..c |-> Met(k, v, a, x[j])]

(* The samples of an anchor in a time range are at some of the places.      *)
LEMMA HeardIs ==
    ASSUME Handed, NEW k \in Keys, NEW v, IsView(k, v), fixes[k] # {},
           NEW a, NEW from, NEW to
    PROVE  \E c, x : Heard(k, v, a, from, to, c, x)
<1>1. \E d, w : Joins(k, v, a, d, w)
  BY JoinedIs
<1>2. PICK d, w : Joins(k, v, a, d, w)
  BY <1>1
<1>3. /\ d \in Nat /\ w \in [1..d -> 1..v.n] /\ w \in [1..d -> Reached(k, v, a)]
      /\ Increasing(w, d) /\ \A i \in Reached(k, v, a) : \E j \in 1..d : w[j] = i
  BY <1>2 DEF Joins, Orders
<1>4. PICK rows : /\ rows = Joined(fixes[k], samples[k], a)
                  /\ rows = [j \in 1..d |-> Met(k, v, a, w[j])]
  BY <1>2 DEF Joins
<1>5. DOMAIN rows = 1..d
  BY <1>4
<1>6. \E c, u : Ranged(rows, d, from, to, c, u)
  BY <1>3, <1>5, WithinIs, Zenon
<1>7. PICK c, u : Ranged(rows, d, from, to, c, u)
  BY <1>6
<1>8. /\ c \in Nat /\ u \in [1..c -> 1..d] /\ u \in [1..c -> Places(rows, from, to)]
      /\ Increasing(u, c) /\ \A i \in Places(rows, from, to) : \E j \in 1..c : u[j] = i
      /\ Within(rows, from, to) = [j \in 1..c |-> rows[u[j]]]
  BY <1>7 DEF Ranged, Orders
<1>9. PICK x : x = [j \in 1..c |-> w[u[j]]]
  OBVIOUS
<1>10. x \in [1..c -> 1..v.n] /\ Increasing(x, c)
  <2>1. x \in [1..c -> 1..v.n]
    BY <1>3, <1>8, <1>9
  <2>2. ASSUME NEW i \in 1..c, NEW j \in 1..c, i < j PROVE x[i] < x[j]
    <3>1. u[i] \in 1..d /\ u[j] \in 1..d /\ u[i] < u[j]
      BY <1>8, <2>2 DEF Increasing
    <3> QED
      BY <1>3, <1>9, <3>1 DEF Increasing
  <2> QED
    BY <2>1, <2>2 DEF Increasing
<1>11. \A j \in 1..d : rows[j].t = Lined(v)[w[j]].t
  BY <1>4 DEF Met
<1>12. DOMAIN Lined(v) = 1..v.n
  BY ViewParts
<1>13. \A j \in 1..d : j \in Places(rows, from, to) <=> w[j] \in Places(Lined(v), from, to)
  BY <1>3, <1>5, <1>11, <1>12 DEF Places
<1>14. x \in [1..c -> Hits(k, v, a, from, to)]
  BY <1>3, <1>8, <1>9, <1>13 DEF Hits
<1>15. ASSUME NEW i \in Hits(k, v, a, from, to) PROVE \E j \in 1..c : x[j] = i
  <2>1. PICK h \in 1..d : w[h] = i
    BY <1>3 DEF Hits
  <2>2. h \in Places(rows, from, to)
    BY <1>13, <2>1 DEF Hits
  <2>3. PICK j \in 1..c : u[j] = h
    BY <1>8, <2>2
  <2> QED
    BY <1>9, <2>1, <2>3
<1>16. Within(Joined(fixes[k], samples[k], a), from, to) = [j \in 1..c |-> Met(k, v, a, x[j])]
  <2>1. \A j \in 1..c : u[j] \in 1..d /\ rows[u[j]] = Met(k, v, a, x[j])
    BY <1>4, <1>8, <1>9
  <2> QED
    BY <1>4, <1>8, <2>1
<1>17. Orders(x, c, Hits(k, v, a, from, to))
  BY <1>8, <1>10, <1>14, <1>15 DEF Orders
<1>18. Heard(k, v, a, from, to, c, x)
  BY <1>8, <1>10, <1>16, <1>17 DEF Heard
<1> QED
  BY <1>18

(* A sample as the page gets it.                                            *)
RangeOf(k, v, a, i) == RangeColumn(Met(k, v, a, i).n, Met(k, v, a, i).t, Met(k, v, a, i).sample)

(* What is answered of an anchor: c samples in the time range, at x.        *)
AnchorAnswer(k, v, a, points, c, x) ==
    [total |-> c, stride |-> StrideOf(c, points),
     data |-> [j \in 1..ThinCount(c, points) |-> RangeOf(k, v, a, x[ThinAt(c, points)[j]])]]

(* The answer is about the anchors with a sample in the time range.         *)
Answers(k, v, body, asked, from, to, points) ==
    /\ DOMAIN body \subseteq asked
    /\ \A a \in asked : \A c, x : Heard(k, v, a, from, to, c, x) =>
         /\ a \in DOMAIN body <=> c # 0
         /\ a \in DOMAIN body => body[a] = AnchorAnswer(k, v, a, points, c, x)

(* What ranges answers, anchor by anchor.                                   *)
LEMMA RangesIs ==
    ASSUME Handed, NEW k \in Keys, NEW v, IsView(k, v), fixes[k] # {},
           NEW anchor, NEW from, NEW to, NEW most,
           NEW asked, asked = Asked(samples[k], anchor),
           NEW points \in Nat, points >= MaxPointsMin,
           points = PerAnchorPoints(most, Cardinality(asked))
    PROVE  Answers(k, v, Ranges(fixes[k], samples[k], anchor, from, to, most),
                   asked, from, to, points)
<1> DEFINE rows(a) == Within(Joined(fixes[k], samples[k], a), from, to)
           shown(a) == [Decimated(rows(a), points) EXCEPT !.data =
              [i \in DOMAIN @ |-> RangeColumn(@[i].n, @[i].t, @[i].sample)]]
           body == Ranges(fixes[k], samples[k], anchor, from, to, most)
<1>1. PICK f : f = [a \in asked |-> rows(a)]
  OBVIOUS
<1>2. body = [a \in {b \in asked : f[b] # << >>} |->
           [Decimated(f[a], points) EXCEPT !.data =
              [i \in DOMAIN @ |-> RangeColumn(@[i].n, @[i].t, @[i].sample)]]]
  BY <1>1 DEF Ranges
<1>3. \A a \in asked : f[a] = rows(a)
  BY <1>1
<1>4. DOMAIN body = {b \in asked : rows(b) # << >>}
  BY <1>2, <1>3
<1>5. ASSUME NEW a \in DOMAIN body PROVE body[a] = shown(a)
  <2>1. a \in asked /\ a \in {b \in asked : f[b] # << >>}
    BY <1>2
  <2> HIDE DEF body, rows
  <2> QED
    BY <1>2, <1>3, <2>1
<1> HIDE DEF body
<1>6. ASSUME NEW a \in asked, NEW c, NEW x, Heard(k, v, a, from, to, c, x)
      PROVE  /\ a \in DOMAIN body <=> c # 0
             /\ a \in DOMAIN body => body[a] = AnchorAnswer(k, v, a, points, c, x)
  <2> DEFINE met == [j \in 1..c |-> Met(k, v, a, x[j])]
  <2>1. rows(a) = met /\ c \in Nat
    BY <1>6 DEF Heard
  <2>2. met # << >> <=> c # 0
    <3>1. DOMAIN met = 1..c
      OBVIOUS
    <3>2. c # 0 => 1 \in DOMAIN met
      BY <2>1, <3>1
    <3>3. c = 0 => met = << >>
      <4> SUFFICES ASSUME c = 0 PROVE met = << >>
        OBVIOUS
      <4>1. met = [j \in 1..0 |-> Met(k, v, a, x[j])]
        OBVIOUS
      <4> QED
        BY <4>1
    <3> HIDE DEF met
    <3> QED
      BY <3>2, <3>3
  <2>3. DOMAIN met = 1..c
    OBVIOUS
  <2> DEFINE data == [j \in 1..ThinCount(c, points) |-> met[ThinAt(c, points)[j]]]
  <2>4. Decimated(met, points) = [total |-> c, stride |-> StrideOf(c, points), data |-> data]
    <3>1. c \in Nat /\ DOMAIN met = 1..c
      BY <2>1
    <3> HIDE DEF met
    <3> QED
      BY <3>1, DecimatedIs
  <2>5. \A j \in 1..ThinCount(c, points) : data[j] = Met(k, v, a, x[ThinAt(c, points)[j]])
    <3>1. ThinAt(c, points) \in [1..ThinCount(c, points) -> 1..c]
      BY <2>1, Thinning DEF Thins
    <3> QED
      BY <3>1
  <2>6. DOMAIN data = 1..ThinCount(c, points)
    OBVIOUS
  <2> HIDE DEF data
  <2>7. [i \in DOMAIN data |-> RangeColumn(data[i].n, data[i].t, data[i].sample)]
           = [j \in 1..ThinCount(c, points) |-> RangeOf(k, v, a, x[ThinAt(c, points)[j]])]
    BY <2>5, <2>6 DEF RangeOf
  <2>8. shown(a) = [total |-> c, stride |-> StrideOf(c, points),
           data |-> [i \in DOMAIN data |-> RangeColumn(data[i].n, data[i].t, data[i].sample)]]
    <3> HIDE DEF met, rows
    <3> QED
      BY <2>1, <2>4
  <2>9. shown(a) = AnchorAnswer(k, v, a, points, c, x)
    <3> HIDE DEF shown
    <3> QED
      BY <2>7, <2>8 DEF AnchorAnswer
  <2> HIDE DEF shown, met, rows
  <2> QED
    BY <1>4, <1>5, <2>1, <2>2, <2>9
<1> QED
  BY <1>4, <1>6 DEF Answers, body

-----------------------------------------------------------------------------
(* How many points an anchor gets *)

(* The larger and the smaller of two.                                       *)
LEMMA PairMax ==
    ASSUME NEW a \in Int, NEW b \in Int
    PROVE  Max({a, b}) = IF a >= b THEN a ELSE b
<1>1. CASE a >= b
  <2>1. \A y \in {a, b} : a >= y
    BY <1>1
  <2>2. Max({a, b}) = a
    BY <2>1, MaxIs
  <2> QED
    BY <1>1, <2>2
<1>2. CASE ~ (a >= b)
  <2>1. \A y \in {a, b} : b >= y
    BY <1>2
  <2>2. Max({a, b}) = b
    BY <2>1, MaxIs
  <2> QED
    BY <1>2, <2>2
<1> QED
  BY <1>1, <1>2

(* The smaller of two.                                                      *)
LEMMA PairMin ==
    ASSUME NEW a \in Int, NEW b \in Int
    PROVE  Min({a, b}) = IF a <= b THEN a ELSE b
<1>1. Min({a, b}) \in {a, b} /\ \A y \in {a, b} : Min({a, b}) <= y
  <2>1. \E x \in {a, b} : \A y \in {a, b} : x <= y
    <3>1. a <= b \/ b <= a
      OBVIOUS
    <3>2. CASE a <= b
      <4>1. \A y \in {a, b} : a <= y
        BY <3>2
      <4> QED
        BY <4>1
    <3>3. CASE b <= a
      <4>1. \A y \in {a, b} : b <= y
        BY <3>3
      <4> QED
        BY <4>1
    <3> QED
      BY <3>1, <3>2, <3>3
  <2> QED
    BY <2>1 DEF Min
<1>2. PICK m : m = Min({a, b})
  OBVIOUS
<1>3. (m = a \/ m = b) /\ m <= a /\ m <= b
  BY <1>1, <1>2
<1> QED
  BY <1>2, <1>3

(* Products grow with both factors.                                         *)
LEMMA Products ==
    ASSUME NEW a \in Nat, NEW b \in Nat, NEW c \in Nat, NEW d \in Nat, a <= b, c <= d
    PROVE  a * c <= b * d
<1>1. PICK e \in Nat : b = a + e
  <2>1. b - a \in Nat /\ b = a + (b - a)
    OBVIOUS
  <2> QED
    BY <2>1
<1>2. PICK f \in Nat : d = c + f
  <2>1. d - c \in Nat /\ d = c + (d - c)
    OBVIOUS
  <2> QED
    BY <2>1
<1>3. (a + e) * (c + f) = a * c + a * f + e * c + e * f
  OBVIOUS
<1>4. a * c \in Nat /\ a * f \in Nat /\ e * c \in Nat /\ e * f \in Nat
  OBVIOUS
<1> QED
  BY <1>1, <1>2, <1>3, <1>4

(* All anchors together stay within the limit of their points, or get the   *)
(* fewest an anchor can.                                                    *)
LEMMA PointsIs ==
    ASSUME NEW most \in Nat, NEW b \in Nat, most >= MaxPointsMin \/ b > 0
    PROVE  /\ PerAnchorPoints(most, b) \in Nat /\ PerAnchorPoints(most, b) >= MaxPointsMin
           /\ \A h \in 0..b : \A n \in Nat : (b > 0 /\ n <= PerAnchorPoints(most, b)) =>
                 h * n <= Max({TotalPoints, MaxPointsMin * b})
<1>1. CASE b = 0
  BY <1>1 DEF PerAnchorPoints
<1>2. CASE b > 0
  <2>1. PICK total \in Nat : total = TotalPoints
    BY IngestAssumption
  <2>2. PICK each \in Nat : each = total \div b /\ b * each <= total
    <3>1. total = b * (total \div b) + (total % b) /\ total \div b \in Int
          /\ total % b \in 0..(b - 1)
      BY <1>2
    <3>2. total \div b \in Nat
      BY <1>2
    <3>3. PICK e \in Nat : e = total \div b
      BY <3>2
    <3>4. PICK r \in Nat : r = total % b
      BY <3>1
    <3>5. PICK y \in Int : y = b * e
      OBVIOUS
    <3>6. total = y + r
      BY <3>1, <3>3, <3>4, <3>5
    <3>7. y <= total
      BY <3>6
    <3>8. b * e <= total
      BY <3>5, <3>7
    <3> QED
      BY <3>3, <3>8, Zenon
  <2>3. PICK less \in Nat : /\ less = Min({most, each}) /\ less <= each
    <3>1. Min({most, each}) = IF most <= each THEN most ELSE each
      BY PairMin
    <3> QED
      BY <3>1
  <2>4. PICK points \in Nat : /\ points = PerAnchorPoints(most, b) /\ points >= 2
                              /\ (points = 2 \/ points = less)
    <3>1. PerAnchorPoints(most, b) = Max({2, less})
      BY <1>2, <2>1, <2>2, <2>3 DEF PerAnchorPoints, MaxPointsMin
    <3>2. Max({2, less}) = IF 2 >= less THEN 2 ELSE less
      BY PairMax
    <3> QED
      BY <3>1, <3>2
  <2>5. ASSUME NEW h \in 0..b, NEW n \in Nat, n <= points
        PROVE  h * n <= Max({TotalPoints, MaxPointsMin * b})
    <3>1. PICK p \in Nat : p = h * n
      OBVIOUS
    <3>2. PICK two \in Nat : two = MaxPointsMin * b /\ two = b * 2
      BY DEF MaxPointsMin
    <3>3. Max({total, two}) = IF total >= two THEN total ELSE two
      BY PairMax
    <3>4. CASE points = 2
      <4>1. h * n <= b * 2
        BY <2>5, <3>4, Products
      <4> QED
        BY <2>1, <3>1, <3>2, <3>3, <4>1
    <3>5. CASE points = less
      <4>1. h * n <= b * each
        <5>1. n <= each /\ h <= b /\ h \in Nat
          BY <2>3, <2>5, <3>5
        <5> QED
          BY <5>1, Products
      <4>2. h * n <= total
        <5>1. PICK y \in Nat : y = b * each
          OBVIOUS
        <5> QED
          BY <2>2, <3>1, <4>1, <5>1
      <4> QED
        BY <2>1, <3>1, <3>2, <3>3, <4>2
    <3> QED
      BY <2>4, <3>4, <3>5
  <2> QED
    BY <2>4, <2>5 DEF MaxPointsMin
<1>3. b = 0 \/ b > 0
  OBVIOUS
<1> QED
  BY <1>1, <1>2, <1>3, Zenon

-----------------------------------------------------------------------------
(* Samples *)

(* A sample is of the cycle it was measured in, of an anchor of the area,   *)
(* and an anchor has one of a cycle.                                        *)
Sampled(x) ==
    /\ \A s \in SampleRows(Cycle(x)) :
         s.seq = Row(x).seq /\ s.anchor \in Anchors /\ (s.d # None <=> s.status = StatusOk)
    /\ \A s, r \in SampleRows(Cycle(x)) : s.anchor = r.anchor => s = r

(* The samples of a cycle: one of each anchor, with the seq of the fix.     *)
LEMMA SampleParts ==
    ASSUME NEW k \in Keys, NEW x \in 0..(Length[k] - 1)
    PROVE  Sampled(x)
<1>1. PICK c : c = Cycle(x)
  OBVIOUS
<1>2. c.ranges \in Seq(RangeRecords) /\ Row(x).seq = c.seq
  BY <1>1, IngestAssumption DEF Cycle, Measurements, Row, FixRow
<1>3. PICK m \in Nat : m = Len(c.ranges)
  BY <1>2
<1>4. DOMAIN c.ranges = 1..m /\ \A i \in 1..m : c.ranges[i] \in RangeRecords
  BY <1>2, <1>3, ElementOfSeq, LenProperties
<1>5. ASSUME NEW s \in SampleRows(c)
      PROVE  \E i \in 1..m : /\ s = SampleRow(c, c.ranges[i])
                             /\ \A h \in 1..(i - 1) : c.ranges[h].anchor # c.ranges[i].anchor
  BY <1>4 DEF SampleRows
<1>6. ASSUME NEW s \in SampleRows(c)
      PROVE  /\ s.seq = c.seq /\ s.anchor \in Anchors
             /\ (s.d # None <=> s.status = StatusOk)
  <2>1. PICK i \in 1..m : s = SampleRow(c, c.ranges[i])
    BY <1>5
  <2>2. c.ranges[i].anchor \in Anchors /\ c.ranges[i].d \in Int
    BY <1>4 DEF RangeRecords
  <2>3. None \notin Int
    BY IngestAssumption
  <2>4. /\ s.seq = c.seq /\ s.anchor = c.ranges[i].anchor /\ s.status = c.ranges[i].status
        /\ s.d = IF c.ranges[i].status = StatusOk THEN c.ranges[i].d ELSE None
    BY <2>1 DEF SampleRow
  <2> QED
    BY <2>2, <2>3, <2>4
<1>7. ASSUME NEW s \in SampleRows(c), NEW r \in SampleRows(c), s.anchor = r.anchor
      PROVE  s = r
  <2>1. PICK i \in 1..m : /\ s = SampleRow(c, c.ranges[i])
                          /\ \A h \in 1..(i - 1) : c.ranges[h].anchor # c.ranges[i].anchor
    BY <1>5
  <2>2. PICK j \in 1..m : /\ r = SampleRow(c, c.ranges[j])
                          /\ \A h \in 1..(j - 1) : c.ranges[h].anchor # c.ranges[j].anchor
    BY <1>5
  <2>3. c.ranges[i].anchor = c.ranges[j].anchor
    BY <1>7, <2>1, <2>2 DEF SampleRow
  <2>4. ~ (i < j) /\ ~ (j < i)
    <3>1. i < j => i \in 1..(j - 1)
      OBVIOUS
    <3>2. j < i => j \in 1..(i - 1)
      OBVIOUS
    <3> QED
      BY <2>1, <2>2, <2>3, <3>1, <3>2
  <2>5. i = j
    BY <2>4
  <2> QED
    BY <2>1, <2>2, <2>5
<1> QED
  BY <1>1, <1>2, <1>6, <1>7 DEF Sampled

(* The anchors asked about are as many as there are at most.                *)
LEMMA AskedFinite ==
    ASSUME Handed, NEW k \in Keys, NEW anchor
    PROVE  /\ IsFiniteSet(Asked(samples[k], anchor))
           /\ Cardinality(Asked(samples[k], anchor)) \in Nat
<1>1. PICK v : IsView(k, v)
  BY ViewExists
<1>2. \A s \in samples[k] : s.anchor \in Anchors
  <2> SUFFICES ASSUME NEW s \in samples[k] PROVE s.anchor \in Anchors
    OBVIOUS
  <2>1. PICK x \in v.cycles : s \in SampleRows(Cycle(x))
    BY <1>1 DEF IsView
  <2>2. x \in 0..(Length[k] - 1)
    BY <1>1 DEF IsView
  <2> QED
    BY <2>1, <2>2, SampleParts DEF Sampled
<1>3. Asked(samples[k], anchor) \subseteq Anchors
  BY <1>2 DEF Asked
<1>4. IsFiniteSet(Anchors)
  BY IngestAssumption
<1>5. IsFiniteSet(Asked(samples[k], anchor))
  BY <1>3, <1>4, FS_Subset
<1> QED
  BY <1>5, FS_CardinalityType

-----------------------------------------------------------------------------
(* Ranges on the track *)

(* Where a row lies: its seq and t.                                         *)
At(rows) == {[seq |-> rows[i].seq, t |-> rows[i].t] : i \in DOMAIN rows}

Point(v, i) == [seq |-> Lined(v)[i].n, t |-> Lined(v)[i].t]

(* The points of rows that show the places w one after another.             *)
Shows(v, rows, n, w) ==
    /\ DOMAIN rows = 1..n
    /\ \A j \in 1..n : rows[j].seq = Lined(v)[w[j]].n /\ rows[j].t = Lined(v)[w[j]].t

(* Rows that show places have the points of these places.                   *)
LEMMA PointsOf ==
    ASSUME NEW v, NEW n, NEW w, NEW rows, Shows(v, rows, n, w)
    PROVE  At(rows) = {Point(v, w[j]) : j \in 1..n}
BY DEF At, Point, Shows

(* As many samples as fixes in the time range: they are at the same places. *)
LEMMA AtSamePlaces ==
    ASSUME Handed, NEW k \in Keys, NEW v, IsView(k, v), NEW a, NEW from, NEW to,
           NEW c, NEW x, Heard(k, v, a, from, to, c, x),
           NEW w, Cut(k, v, from, to, c, w)
    PROVE  x = w
<1>1. PICK P : P = Places(Lined(v), from, to)
  OBVIOUS
<1>2. P \in SUBSET Int
  <2>1. DOMAIN Lined(v) = 1..v.n /\ v.n \in Nat
    BY ViewParts
  <2> QED
    BY <1>1, <2>1 DEF Places
<1>3. Orders(w, c, P) /\ c \in Nat
  BY <1>1 DEF Cut, Ranged
<1>4. IsFiniteSet(P) /\ Cardinality(P) = c
  BY <1>2, <1>3, OrderCounts
<1>5. x \in [1..c -> P] /\ Increasing(x, c)
  BY <1>1 DEF Heard, Orders, Hits
<1>6. Orders(x, c, P)
  BY <1>2, <1>3, <1>4, <1>5, OrderIsOnto
<1> QED
  BY <1>2, <1>3, <1>6, OrderIsUnique

(* What RangesOnTrack says of one answer.                                   *)
Lies(k, track, ranges, whole, budget, most) ==
    /\ \A a \in DOMAIN ranges :
         /\ At(ranges[a].data) \subseteq whole
         /\ (ranges[a].total = track.total /\ PerAnchorPoints(most, budget) = most) =>
              At(ranges[a].data) = At(track.data)
    /\ \A a \in DOMAIN ranges : Cardinality(DOMAIN ranges) * Len(ranges[a].data)
                                   <= Max({TotalPoints, MaxPointsMin * budget})

(* All that is asked of ranges and track, for one question.                 *)
LEMMA RangesLie ==
    ASSUME Handed, NEW k \in Keys, fixes[k] # {}, NEW from, NEW to,
           NEW most \in Nat, most >= MaxPointsMin
    PROVE  Lies(k, Track(fixes[k], from, to, most),
                Ranges(fixes[k], samples[k], None, from, to, most),
                At(All(k)), Cardinality(Asked(samples[k], None)), most)
<1>1. PICK v : IsView(k, v)
  BY ViewExists
<1>2. PICK asked : asked = Asked(samples[k], None)
  OBVIOUS
<1>3. IsFiniteSet(asked) /\ Cardinality(asked) \in Nat
  BY <1>2, AskedFinite
<1>4. PICK b \in Nat : b = Cardinality(asked)
  BY <1>3
<1>5. PICK points \in Nat : points = PerAnchorPoints(most, b) /\ points >= MaxPointsMin
  BY PointsIs
<1>6. PICK body : body = Ranges(fixes[k], samples[k], None, from, to, most)
  OBVIOUS
<1>7. Answers(k, v, body, asked, from, to, points)
  BY <1>1, <1>2, <1>4, <1>5, <1>6, RangesIs
<1>8. \E d, w : Cut(k, v, from, to, d, w)
  BY <1>1, ViewCut
<1>9. PICK d, w : Cut(k, v, from, to, d, w)
  BY <1>8
<1>10. d \in Nat /\ w \in [1..d -> 1..v.n] /\ Cuts(v, from, to, d, w)
  BY <1>9 DEF Cut, Ranged, Cuts
<1>11. PICK track : /\ track = Track(fixes[k], from, to, most)
                    /\ track = [total |-> d, stride |-> StrideOf(d, most),
                         data |-> [j \in 1..ThinCount(d, most) |-> Column(v, w[ThinAt(d, most)[j]])]]
  <2>1. Track(fixes[k], from, to, most) =
           [total |-> d, stride |-> StrideOf(d, most),
            data |-> [j \in 1..ThinCount(d, most) |-> Column(v, w[ThinAt(d, most)[j]])]]
    BY <1>1, <1>10, TrackIs
  <2> QED
    BY <2>1
<1>12. v.n \in Nat /\ All(k) = [i \in 1..v.n |-> Column(v, i)]
  BY <1>1, ViewParts, AllIs
<1>13. At(All(k)) = {Point(v, i) : i \in 1..v.n}
  <2> DEFINE one == [i \in 1..v.n |-> i]
  <2>1. \A j \in 1..v.n : /\ All(k)[j].seq = Lined(v)[one[j]].n
                          /\ All(k)[j].t = Lined(v)[one[j]].t
    BY <1>12 DEF Column, FixColumn
  <2>2. DOMAIN All(k) = 1..v.n
    BY <1>12
  <2>3. At(All(k)) = {Point(v, one[j]) : j \in 1..v.n}
    <3> HIDE DEF one
    <3>1. Shows(v, All(k), v.n, one)
      BY <2>1, <2>2 DEF Shows
    <3> QED
      BY <3>1, PointsOf
  <2> QED
    BY <2>3
<1>14. At(track.data) = {Point(v, w[ThinAt(d, most)[j]]) : j \in 1..ThinCount(d, most)}
  <2> DEFINE at == [j \in 1..ThinCount(d, most) |-> w[ThinAt(d, most)[j]]]
             data == track.data
  <2>1. DOMAIN data = 1..ThinCount(d, most)
    BY <1>11
  <2>2. \A j \in 1..ThinCount(d, most) :
           data[j].seq = Lined(v)[at[j]].n /\ data[j].t = Lined(v)[at[j]].t
    <3> SUFFICES ASSUME NEW j \in 1..ThinCount(d, most)
                 PROVE  data[j].seq = Lined(v)[at[j]].n /\ data[j].t = Lined(v)[at[j]].t
      OBVIOUS
    <3>1. data[j] = Column(v, at[j])
      BY <1>11
    <3> HIDE DEF data, at
    <3> QED
      BY <3>1 DEF Column, FixColumn
  <2>3. At(data) = {Point(v, at[j]) : j \in 1..ThinCount(d, most)}
    <3> HIDE DEF at, data
    <3>1. Shows(v, data, ThinCount(d, most), at)
      BY <2>1, <2>2 DEF Shows
    <3> QED
      BY <3>1, PointsOf
  <2> QED
    BY <2>3
<1>15. ASSUME NEW a \in DOMAIN body
       PROVE  \E c, x : /\ Heard(k, v, a, from, to, c, x)
                        /\ body[a] = AnchorAnswer(k, v, a, points, c, x)
  <2>1. a \in asked
    BY <1>7 DEF Answers
  <2>2. \E c, x : Heard(k, v, a, from, to, c, x)
    BY <1>1, HeardIs
  <2> QED
    BY <1>7, <2>1, <2>2 DEF Answers
<1>16. ASSUME NEW a \in DOMAIN body
       PROVE  /\ At(body[a].data) \subseteq At(All(k))
              /\ (body[a].total = track.total /\ points = most) => At(body[a].data) = At(track.data)
              /\ Len(body[a].data) \in Nat /\ Len(body[a].data) <= points
  <2>1. PICK c, x : /\ Heard(k, v, a, from, to, c, x)
                    /\ body[a] = AnchorAnswer(k, v, a, points, c, x)
    BY <1>15
  <2>2. c \in Nat /\ x \in [1..c -> 1..v.n]
    BY <2>1 DEF Heard
  <2>3. /\ ThinCount(c, points) \in Nat /\ ThinCount(c, points) <= points
        /\ ThinAt(c, points) \in [1..ThinCount(c, points) -> 1..c]
    BY <1>5, <2>2, Thinning DEF Thins
  <2> DEFINE at == [j \in 1..ThinCount(c, points) |-> x[ThinAt(c, points)[j]]]
             data == body[a].data
  <2>4. /\ body[a].total = c
        /\ data = [j \in 1..ThinCount(c, points) |-> RangeOf(k, v, a, x[ThinAt(c, points)[j]])]
    BY <2>1 DEF AnchorAnswer
  <2>5. DOMAIN data = 1..ThinCount(c, points) /\ Len(data) = ThinCount(c, points)
    BY <2>3, <2>4
  <2>6. \A j \in 1..ThinCount(c, points) :
           data[j].seq = Lined(v)[at[j]].n /\ data[j].t = Lined(v)[at[j]].t
    <3> SUFFICES ASSUME NEW j \in 1..ThinCount(c, points)
                 PROVE  data[j].seq = Lined(v)[at[j]].n /\ data[j].t = Lined(v)[at[j]].t
      OBVIOUS
    <3>1. data[j] = RangeOf(k, v, a, at[j])
      BY <2>4
    <3> HIDE DEF data, at
    <3> QED
      BY <3>1 DEF RangeOf, RangeColumn, Met
  <2>7. At(data) = {Point(v, at[j]) : j \in 1..ThinCount(c, points)}
    <3> HIDE DEF at, data
    <3> QED
      BY <2>5, <2>6, PointsOf DEF Shows
  <2>8. \A j \in 1..ThinCount(c, points) : at[j] \in 1..v.n
    BY <2>2, <2>3
  <2>9. At(data) \subseteq At(All(k))
    <3> HIDE DEF at, data
    <3> QED
      BY <1>13, <2>7, <2>8
  <2>10. ASSUME body[a].total = track.total, points = most
         PROVE  At(data) = At(track.data)
    <3>1. c = d
      BY <1>11, <2>4, <2>10
    <3>2. x = w
      BY <1>1, <1>9, <2>1, <3>1, AtSamePlaces
    <3> QED
      BY <1>14, <2>7, <2>10, <3>1, <3>2
  <2> QED
    BY <2>3, <2>5, <2>9, <2>10
<1>17. ASSUME NEW a \in DOMAIN body
       PROVE  Cardinality(DOMAIN body) * Len(body[a].data)
                 <= Max({TotalPoints, MaxPointsMin * b})
  <2>1. DOMAIN body \subseteq asked
    BY <1>7 DEF Answers
  <2>2. IsFiniteSet(DOMAIN body) /\ Cardinality(DOMAIN body) <= Cardinality(asked)
    BY <1>3, <2>1, FS_Subset
  <2>3. PICK h \in Nat : h = Cardinality(DOMAIN body)
    BY <2>2, FS_CardinalityType
  <2>4. h # 0
    BY <1>17, <2>2, <2>3, FS_EmptySet
  <2>5. h \in 0..b /\ b > 0
    BY <1>4, <2>2, <2>3, <2>4
  <2>6. PICK n \in Nat : n = Len(body[a].data) /\ n <= points
    BY <1>16
  <2>7. h * n <= Max({TotalPoints, MaxPointsMin * b})
    <3>1. n <= PerAnchorPoints(most, b)
      BY <1>5, <2>6
    <3> QED
      BY <2>5, <3>1, PointsIs
  <2> QED
    BY <2>3, <2>6, <2>7
<1> QED
  BY <1>2, <1>4, <1>5, <1>6, <1>11, <1>16, <1>17 DEF Lies

(* The answers of the API are these.                                        *)
LEMMA AnswersLie == Answerable => RangesOnTrack
<1> SUFFICES ASSUME Answerable, NEW k \in Written, NEW q \in Asks
             PROVE  LET at(rows) == {[seq |-> rows[i].seq, t |-> rows[i].t] : i \in DOMAIN rows}
                        whole == at(All(k))
                        budget == Cardinality(Asked(samples[k], None))
                        track == TrackOf(k, q)
                        ranges == RangesOf(k, q)
                        points(a) == Len(ranges.body[a].data)
                        heardBy == DOMAIN ranges.body
                        thin == at(track.body.data)
                    IN  /\ track.status = ranges.status
                        /\ track.status = 200 =>
                             /\ \A a \in heardBy :
                                  /\ at(ranges.body[a].data) \subseteq whole
                                  /\ (ranges.body[a].total = track.body.total
                                      /\ PerAnchorPoints(q.max, budget) = q.max) =>
                                       at(ranges.body[a].data) = thin
                             /\ \A a \in heardBy : Cardinality(heardBy) * points(a)
                                                      <= Max({TotalPoints, MaxPointsMin * budget})
  BY DEF RangesOnTrack
<1>1. Handed /\ k \in Keys /\ fixes[k] # {} /\ table[IdOf(k)] = k
  BY WrittenIs
<1>2. q.max \in Nat /\ q.max >= MaxPointsMin
  BY AskParts
<1>3. Lies(k, Track(fixes[k], q.from, q.to, q.max),
           Ranges(fixes[k], samples[k], None, q.from, q.to, q.max),
           At(All(k)), Cardinality(Asked(samples[k], None)), q.max)
  BY <1>1, <1>2, RangesLie
<1>4. TrackOf(k, q).status = RangesOf(k, q).status
  BY DEF TrackOf, RangesOf, GetTrack, GetRanges
<1>5. ASSUME TrackOf(k, q).status = 200
      PROVE  /\ TrackOf(k, q).body = Track(fixes[k], q.from, q.to, q.max)
             /\ RangesOf(k, q).body = Ranges(fixes[k], samples[k], None, q.from, q.to, q.max)
  BY <1>1, <1>5 DEF TrackOf, RangesOf, GetTrack, GetRanges
<1> DEFINE track == TrackOf(k, q)
           ranges == RangesOf(k, q)
           budget == Cardinality(Asked(samples[k], None))
<1>6. ASSUME track.status = 200
      PROVE  /\ \A a \in DOMAIN ranges.body :
                  /\ At(ranges.body[a].data) \subseteq At(All(k))
                  /\ (ranges.body[a].total = track.body.total
                      /\ PerAnchorPoints(q.max, budget) = q.max) =>
                       At(ranges.body[a].data) = At(track.body.data)
             /\ \A a \in DOMAIN ranges.body :
                   Cardinality(DOMAIN ranges.body) * Len(ranges.body[a].data)
                      <= Max({TotalPoints, MaxPointsMin * budget})
  <2>1. Lies(k, track.body, ranges.body, At(All(k)), budget, q.max)
    BY <1>3, <1>5, <1>6
  <2> HIDE DEF track, ranges, budget
  <2> QED
    BY <2>1 DEF Lies
<1> HIDE DEF track, ranges, budget
<1> QED
  BY <1>4, <1>6 DEF At, track, ranges, budget

(* Track and ranges lie on each other (query.py, ranges and track): each    *)
(* range has the seq and t of the track at its cycle, an anchor heard in    *)
(* every cycle is thinned out at the cycles of the track, and all anchors   *)
(* together stay within RANGES_TOTAL_POINTS_LIMIT.                          *)
THEOREM RangesLieOnTrack == Spec => []RangesOnTrack
<1>1. Answerable => RangesOnTrack
  BY AnswersLie
<1>2. QED
  BY <1>1, InitAnswerable, NextAnswerable, PTL DEF Spec

-----------------------------------------------------------------------------
(* The counts of a summary *)

(* What SessionInfo counts of the cycles, in terms of a view.               *)
LEMMA InfoIs ==
    ASSUME Handed, NEW k \in Keys, NEW v, IsView(k, v), fixes[k] # {}
    PROVE  /\ SessionInfo(fixes[k]).cycles = v.n
           /\ SessionInfo(fixes[k]).missing = v.at[v.n] - v.at[1] + 1 - v.n
           /\ SessionInfo(fixes[k]).okCycles = Cardinality({r \in fixes[k] : r.ok})
           /\ v.n \in Nat \ {0} /\ v.at[v.n] - v.at[1] + 1 - v.n \in Nat
<1>1. /\ v.n \in Nat /\ v.at \in [1..v.n -> Int] /\ Increasing(v.at, v.n) /\ v.base \in Int
      /\ DOMAIN Lined(v) = 1..v.n
  BY ViewParts
<1>2. v.n # 0
  <2>1. IsFiniteSet(fixes[k]) /\ Cardinality(fixes[k]) = v.n
    BY FixCount
  <2> QED
    BY <2>1, FS_EmptySet
<1>3. PICK n \in Nat \ {0} : n = v.n
  BY <1>1, <1>2
<1>4. 1 \in 1..v.n /\ v.n \in 1..v.n
  BY <1>3
<1>5. PICK a \in Int : a = v.at[1]
  BY <1>1, <1>4
<1>6. PICK z \in Int : z = v.at[v.n]
  BY <1>1, <1>4
<1>7. z - a + 1 - n \in Nat
  <2> DEFINE P == {i \in 0..n : i >= 1 => v.at[i] - a + 1 - i >= 0}
  <2>1. 0 \in P
    BY <1>3
  <2>2. ASSUME NEW i \in 1..n, i - 1 \in P PROVE i \in P
    <3>1. CASE i = 1
      BY <1>5, <3>1
    <3>2. CASE i # 1
      <4>1. i - 1 \in 1..v.n /\ i \in 1..v.n /\ i - 1 < i
        BY <1>3, <3>2
      <4>2. v.at[i - 1] < v.at[i]
        BY <1>1, <4>1 DEF Increasing
      <4>3. PICK y \in Int, x \in Int : y = v.at[i - 1] /\ x = v.at[i]
        BY <1>1, <4>1
      <4>4. y - a + 1 - (i - 1) >= 0
        BY <2>2, <4>1, <4>3
      <4>5. x - a + 1 - i >= 0
        BY <4>2, <4>3, <4>4
      <4> QED
        BY <4>3, <4>5
    <3> QED
      BY <3>1, <3>2
  <2>3. \A i \in 0..n : i \in P
    <3> HIDE DEF P
    <3> QED
      BY <1>3, <2>1, <2>2, Induction
  <2>4. v.at[n] - a + 1 - n >= 0
    BY <1>3, <2>3
  <2> QED
    BY <1>3, <1>6, <2>4
<1>8. PICK rows : rows = Lined(v) /\ rows = IF fixes[k] = {} THEN << >> ELSE Unwrapped(fixes[k])
  BY DEF IsView
<1>9. Len(rows) = n
  BY <1>1, <1>3, <1>8
<1>10. PICK b \in Int : b = v.base
  BY <1>1
<1>11. rows[1].n = b + a /\ rows[n].n = b + z
  <2>1. Lined(v)[1].n = v.base + v.at[1]
    BY <1>4, ColumnIs
  <2>2. Lined(v)[v.n].n = v.base + v.at[v.n]
    BY <1>4, ColumnIs
  <2> QED
    BY <1>3, <1>5, <1>6, <1>8, <1>10, <2>1, <2>2
<1>12. PICK first \in Int, last \in Int : first = rows[1].n /\ last = rows[n].n
                                          /\ first = b + a /\ last = b + z
  BY <1>11
<1>13. Expected(first, last, n) = z - a + 1
  <2>1. first # None
    BY <1>12, IngestAssumption
  <2> QED
    BY <1>12, <2>1 DEF Expected
<1>14. PICK e \in Int : e = Expected(first, last, n) - n /\ e = z - a + 1 - n
  BY <1>13
<1>15. Max({0, e}) = e
  <2>1. e >= 0
    BY <1>7, <1>14
  <2>2. Max({0, e}) = IF 0 >= e THEN 0 ELSE e
    BY PairMax
  <2> QED
    BY <2>1, <2>2
<1> DEFINE expected == Expected(rows[1].n, rows[n].n, n)
<1>16. /\ SessionInfo(fixes[k]).cycles = n
       /\ SessionInfo(fixes[k]).missing = Max({0, expected - n})
       /\ SessionInfo(fixes[k]).okCycles = Cardinality({r \in fixes[k] : r.ok})
  BY <1>3, <1>8, <1>9 DEF SessionInfo
<1>17. Max({0, expected - n}) = z - a + 1 - n
  BY <1>12, <1>14, <1>15
<1> HIDE DEF expected
<1> QED
  BY <1>3, <1>5, <1>6, <1>7, <1>16, <1>17

(* The cycles that are missing of those the tag sent in between.            *)
LEMMA MissingIs ==
    ASSUME Handed, NEW k \in Keys, NEW v, IsView(k, v), fixes[k] # {}
    PROVE  LET held == {Index(f.seq) : f \in fixes[k]}
           IN  Cardinality((Min(held)..Max(held)) \ held) = v.at[v.n] - v.at[1] + 1 - v.n
<1> DEFINE held == {Index(f.seq) : f \in fixes[k]}
<1>1. held = v.cycles
  <2>1. fixes[k] = {Row(i) : i \in v.cycles} /\ v.cycles \in SUBSET (0..(Length[k] - 1))
    BY DEF IsView
  <2>2. \A i \in v.cycles : Index(Row(i).seq) = i
    <3> SUFFICES ASSUME NEW i \in v.cycles PROVE Index(Row(i).seq) = i
      OBVIOUS
    <3>1. i \in 0..(Length[k] - 1)
      BY <2>1
    <3> QED
      BY <3>1, IndexOf DEF Row, Handed
  <2>3. ASSUME NEW i \in held PROVE i \in v.cycles
    <3>1. PICK f \in fixes[k] : i = Index(f.seq)
      OBVIOUS
    <3>2. PICK j \in v.cycles : f = Row(j)
      BY <2>1
    <3> QED
      BY <2>2, <3>1, <3>2
  <2>4. ASSUME NEW i \in v.cycles PROVE i \in held
    <3>1. Row(i) \in fixes[k] /\ i = Index(Row(i).seq)
      BY <2>1, <2>2
    <3> QED
      BY <3>1
  <2> HIDE DEF held
  <2> QED
    BY <2>3, <2>4
<1>2. /\ v.n \in Nat \ {0} /\ v.at \in [1..v.n -> v.cycles] /\ v.at \in [1..v.n -> Int]
      /\ v.cycles \in SUBSET Int /\ Increasing(v.at, v.n)
      /\ \A x \in v.cycles : \E i \in 1..v.n : v.at[i] = x
      /\ IsFiniteSet(v.cycles) /\ Cardinality(v.cycles) = v.n
      /\ v.at[v.n] - v.at[1] + 1 - v.n \in Nat
  <2>1. v.n \in Nat \ {0} /\ v.at[v.n] - v.at[1] + 1 - v.n \in Nat
    BY InfoIs
  <2>2. v.at \in [1..v.n -> v.cycles]
    BY ViewParts
  <2>3. v.at \in [1..v.n -> Int]
    BY ViewParts
  <2>4. /\ v.cycles \in SUBSET Int /\ Increasing(v.at, v.n)
        /\ \A x \in v.cycles : \E i \in 1..v.n : v.at[i] = x
        /\ IsFiniteSet(v.cycles) /\ Cardinality(v.cycles) = v.n
    BY ViewParts
  <2> QED
    BY <2>1, <2>2, <2>3, <2>4
<1>3. PICK n \in Nat \ {0} : n = v.n
  BY <1>2
<1>4. 1 \in 1..v.n /\ n \in 1..v.n
  BY <1>3
<1>5. PICK a \in Int, z \in Int : a = v.at[1] /\ z = v.at[n] /\ a \in v.cycles /\ z \in v.cycles
  BY <1>2, <1>4, ZenonT(30)
<1>6. \A x \in v.cycles : a <= x /\ x <= z
  <2> SUFFICES ASSUME NEW x \in v.cycles PROVE a <= x /\ x <= z
    OBVIOUS
  <2>1. PICK i \in 1..v.n : v.at[i] = x
    BY <1>2
  <2>2. 1 <= i /\ i <= n
    BY <1>3
  <2>3. v.at[1] <= v.at[i] /\ v.at[i] <= v.at[n]
    <3>1. v.n \in Nat /\ v.at \in [1..v.n -> Int] /\ Increasing(v.at, v.n) /\ n \in 1..v.n
      BY <1>2, <1>4
    <3>2. v.at[1] <= v.at[i]
      BY <1>4, <2>2, <3>1, OrderOfPlaces
    <3>3. v.at[i] <= v.at[n]
      BY <2>2, <3>1, OrderOfPlaces
    <3> QED
      BY <3>2, <3>3
  <2> QED
    BY <1>5, <2>1, <2>3
<1>7. Max(v.cycles) = z
  BY <1>2, <1>5, <1>6, MaxIs
<1>8. Min(v.cycles) = a
  <2>1. Min(v.cycles) \in v.cycles /\ \A y \in v.cycles : Min(v.cycles) <= y
    BY <1>5, <1>6 DEF Min
  <2>2. PICK m \in Int : m = Min(v.cycles)
    BY <1>2, <2>1
  <2> QED
    BY <1>5, <1>6, <2>1, <2>2
<1>9. IsFiniteSet(a..z) /\ Cardinality(a..z) = z - a + 1
  <2>1. a <= z
    BY <1>5, <1>6
  <2> QED
    BY <2>1, FS_Interval
<1>10. (a..z) \cap v.cycles = v.cycles
  BY <1>2, <1>6
<1>11. Cardinality((a..z) \ v.cycles) = (z - a + 1) - n
  <2>1. Cardinality((a..z) \ v.cycles) = Cardinality(a..z) - Cardinality((a..z) \cap v.cycles)
    BY <1>9, FS_Difference
  <2>2. Cardinality((a..z) \cap v.cycles) = n
    BY <1>2, <1>3, <1>10
  <2> QED
    BY <1>9, <2>1, <2>2
<1> HIDE DEF held
<1>12. Cardinality((Min(held)..Max(held)) \ held) = v.at[v.n] - v.at[1] + 1 - v.n
  BY <1>1, <1>3, <1>5, <1>7, <1>8, <1>11
<1> QED
  BY <1>12 DEF held

(* What the track shows of the cycles is what the rows count.               *)
LEMMA ShownCounts ==
    ASSUME Handed, NEW k \in Keys, NEW v, IsView(k, v)
    PROVE  /\ Cardinality({r \in fixes[k] : r.ok})
                 = Cardinality({i \in 1..v.n : Column(v, i).ok})
           /\ Cardinality({r \in fixes[k] : r.kok})
                 = Cardinality({i \in 1..v.n : Column(v, i).kx # None})
<1> DEFINE oks == {r \in fixes[k] : r.ok}
           koks == {r \in fixes[k] : r.kok}
<1>1. ASSUME NEW i \in 1..v.n
      PROVE  /\ Row(v.at[i]) \in fixes[k]
             /\ Column(v, i).ok = Row(v.at[i]).ok
             /\ Column(v, i).kx # None <=> Row(v.at[i]).kok
  <2>1. Row(v.at[i]) \in fixes[k] /\ v.at[i] \in 0..(Length[k] - 1)
    <3>1. v.at \in [1..v.n -> v.cycles] /\ v.cycles \in SUBSET (0..(Length[k] - 1))
          /\ \A j \in 1..v.n : Row(v.at[j]) \in fixes[k]
      BY ViewParts
    <3> QED
      BY <3>1
  <2>2. PICK r : r = Row(v.at[i]) /\ r = Lined(v)[i].row
    BY ColumnIs
  <2>3. PICK c : c = Cycle(v.at[i])
    OBVIOUS
  <2>4. c.kx \in Int
    BY <2>1, <2>3, IngestAssumption DEF Cycle, Measurements
  <2>5. r.kx = IF r.kok THEN c.kx ELSE None
    BY <2>2, <2>3 DEF Row, FixRow
  <2>6. Column(v, i).ok = r.ok /\ Column(v, i).kx = IF r.kok THEN r.kx ELSE None
    BY <2>2 DEF Column, FixColumn
  <2>7. None \notin Int
    BY IngestAssumption
  <2> QED
    BY <2>1, <2>2, <2>4, <2>5, <2>6, <2>7
<1>2. {i \in 1..v.n : Row(v.at[i]) \in oks} = {i \in 1..v.n : Column(v, i).ok}
  BY <1>1
<1>3. {i \in 1..v.n : Row(v.at[i]) \in koks} = {i \in 1..v.n : Column(v, i).kx # None}
  BY <1>1
<1>4. oks \in SUBSET fixes[k] /\ koks \in SUBSET fixes[k]
  OBVIOUS
<1> HIDE DEF oks, koks
<1>5. /\ Cardinality({i \in 1..v.n : Row(v.at[i]) \in oks}) = Cardinality(oks)
      /\ Cardinality({i \in 1..v.n : Row(v.at[i]) \in koks}) = Cardinality(koks)
  BY <1>4, CountPlaces
<1> QED
  BY <1>2, <1>3, <1>5 DEF oks, koks

(* The periods of a summary are those the track shows.                      *)
LEMMA PeriodsShown ==
    ASSUME Handed, NEW k \in Keys, NEW v, IsView(k, v)
    PROVE  LET rows == [i \in 1..v.n |-> Column(v, i)]
           IN  Periods(Lined(v)) = Picked([i \in DOMAIN rows |-> rows[i].dt],
                                          {i \in DOMAIN rows : rows[i].dt # None})
<1> DEFINE rows == [i \in 1..v.n |-> Column(v, i)]
           dts == [i \in DOMAIN rows |-> rows[i].dt]
           D == {i \in DOMAIN rows : rows[i].dt # None}
           lined == Lined(v)
           steps == Steps(lined)
           P == {i \in 2..Len(lined) : lined[i].n - lined[i - 1].n = 1}
<1>1. /\ v.n \in Nat /\ v.at \in [1..v.n -> Int] /\ v.base \in Int /\ v.t \in [1..v.n -> Int]
      /\ DOMAIN lined = 1..v.n /\ Len(lined) = v.n
  BY ViewParts
<1>2. ASSUME NEW i \in 1..v.n
      PROVE  /\ i \in P <=> i > 1 /\ v.at[i] - v.at[i - 1] = 1
             /\ i \in P => steps[i] = v.t[i] - v.t[i - 1]
             /\ dts[i] = IF i > 1 /\ v.at[i] - v.at[i - 1] = 1
                         THEN v.t[i] - v.t[i - 1] ELSE None
             /\ i \in P => dts[i] \in Int
  <2>1. dts[i] = lined[i].dt
    BY ColumnIs
  <2>2. lined[i].dt = IF i > 1 /\ v.at[i] - v.at[i - 1] = 1
                      THEN v.t[i] - v.t[i - 1] ELSE None
    BY ColumnIs
  <2>3. lined[i].n = v.base + v.at[i] /\ lined[i].t = v.t[i]
    BY ColumnIs
  <2>4. i \in P <=> i > 1 /\ v.at[i] - v.at[i - 1] = 1
    <3>1. CASE i = 1
      BY <3>1
    <3>2. CASE i # 1
      <4>1. i - 1 \in 1..v.n /\ i \in 2..v.n /\ i > 1
        BY <1>1, <3>2
      <4>2. lined[i - 1].n = v.base + v.at[i - 1]
        BY <4>1, ColumnIs
      <4>3. PICK a \in Int, b \in Int, c \in Int : a = v.at[i] /\ b = v.at[i - 1] /\ c = v.base
        BY <1>1, <4>1
      <4>4. lined[i].n - lined[i - 1].n = 1 <=> v.at[i] - v.at[i - 1] = 1
        BY <2>3, <4>2, <4>3
      <4> QED
        BY <1>1, <4>1, <4>4
    <3> QED
      BY <3>1, <3>2
  <2>5. ASSUME i \in P
        PROVE  /\ steps[i] = v.t[i] - v.t[i - 1] /\ v.t[i] - v.t[i - 1] \in Int
    <3>1. i > 1 /\ i - 1 \in 1..v.n
      BY <1>1, <2>4, <2>5
    <3>2. lined[i - 1].t = v.t[i - 1]
      BY <3>1, ColumnIs
    <3>3. steps[i] = lined[i].t - lined[i - 1].t
      BY <1>1, <3>1 DEF Steps
    <3>4. v.t[i] \in Int /\ v.t[i - 1] \in Int
      BY <1>1, <3>1
    <3> QED
      BY <2>3, <3>2, <3>3, <3>4
  <2> HIDE DEF P, dts, steps, lined
  <2> QED
    BY <2>1, <2>2, <2>4, <2>5
<1>3. D = P
  <2>1. D \subseteq 1..v.n /\ P \subseteq 1..v.n
    BY <1>1
  <2>2. ASSUME NEW i \in 1..v.n PROVE i \in D <=> i \in P
    <3>1. i \in D <=> dts[i] # None
      OBVIOUS
    <3>2. None \notin Int
      BY IngestAssumption
    <3> HIDE DEF D, P, dts, steps
    <3> QED
      BY <1>2, <3>1, <3>2
  <2> HIDE DEF D, P
  <2> QED
    BY <2>1, <2>2
<1>4. P \in SUBSET (1..v.n) /\ P \in SUBSET (0..v.n) /\ P \in SUBSET Int
  BY <1>1
<1>5. Periods(Lined(v)) = Picked(steps, P)
  BY DEF Periods
<1> HIDE DEF D, P, dts, steps
<1>6. PICK c \in Nat : \E w : Orders(w, c, P)
  BY <1>1, <1>4, OrderExists
<1>7. PICK w : Orders(w, c, P)
  BY <1>6
<1>8. Picked(steps, P) = [j \in 1..c |-> steps[w[j]]]
  BY <1>4, <1>7, PickedIs
<1>9. Picked(dts, P) = [j \in 1..c |-> dts[w[j]]]
  BY <1>4, <1>7, PickedIs
<1>10. \A j \in 1..c : steps[w[j]] = dts[w[j]]
  <2> SUFFICES ASSUME NEW j \in 1..c PROVE steps[w[j]] = dts[w[j]]
    OBVIOUS
  <2>1. w[j] \in P /\ w[j] \in 1..v.n
    BY <1>4, <1>7 DEF Orders
  <2> QED
    BY <1>2, <2>1
<1>11. Periods(Lined(v)) = Picked(dts, D)
  BY <1>3, <1>5, <1>8, <1>9, <1>10
<1> QED
  BY <1>11 DEF dts, D

-----------------------------------------------------------------------------
(* The counts of an anchor *)

(* The sample of an anchor that was measured with the i-th fix.             *)
SampleAt(k, v, a, i) == CHOOSE s \in Mine(k, a) : s.seq = Lined(v)[i].row.seq

(* A sample of an anchor is the one at the place of its fix.                *)
LEMMA SampleFound ==
    ASSUME Handed, NEW k \in Keys, NEW v, IsView(k, v), NEW a
    PROVE  /\ \A i \in Reached(k, v, a) :
                 SampleAt(k, v, a, i) \in Mine(k, a) /\ SampleAt(k, v, a, i).seq = Row(v.at[i]).seq
           /\ \A s \in Mine(k, a) : \E i \in Reached(k, v, a) : SampleAt(k, v, a, i) = s
<1>1. /\ v.n \in Nat /\ v.cycles \in SUBSET (0..(Length[k] - 1))
      /\ \A x \in v.cycles : \E i \in 1..v.n : v.at[i] = x
  BY ViewParts
<1>2. ASSUME NEW i \in Reached(k, v, a)
      PROVE  /\ i \in 1..v.n
             /\ SampleAt(k, v, a, i) \in Mine(k, a)
             /\ SampleAt(k, v, a, i).seq = Row(v.at[i]).seq
  <2>1. i \in 1..v.n /\ \E s \in Mine(k, a) : s.seq = Row(v.at[i]).seq
    BY DEF Reached
  <2>2. Lined(v)[i].row = Row(v.at[i])
    BY <2>1, ColumnIs
  <2> QED
    BY <2>1, <2>2 DEF SampleAt
<1>3. ASSUME NEW s \in Mine(k, a)
      PROVE  \E x \in v.cycles : s \in SampleRows(Cycle(x)) /\ s.seq = Row(x).seq /\ s.anchor = a
                                 /\ x \in 0..(Length[k] - 1)
  <2>1. s \in samples[k] /\ s.anchor = a
    BY DEF Mine
  <2>2. samples[k] = UNION {SampleRows(Cycle(i)) : i \in v.cycles}
    BY DEF IsView
  <2>3. PICK x \in v.cycles : s \in SampleRows(Cycle(x))
    BY <2>1, <2>2
  <2>4. x \in 0..(Length[k] - 1)
    BY <1>1
  <2>5. Sampled(x)
    BY <2>4, SampleParts
  <2> QED
    BY <2>1, <2>3, <2>4, <2>5 DEF Sampled
<1>4. ASSUME NEW s \in Mine(k, a)
      PROVE  \E i \in Reached(k, v, a) : SampleAt(k, v, a, i) = s
  <2>1. PICK x \in v.cycles : /\ s \in SampleRows(Cycle(x)) /\ s.seq = Row(x).seq
                              /\ s.anchor = a /\ x \in 0..(Length[k] - 1)
    BY <1>3
  <2>2. PICK i \in 1..v.n : v.at[i] = x
    BY <1>1
  <2>3. i \in Reached(k, v, a)
    BY <2>1, <2>2 DEF Reached
  <2>4. PICK r : r = SampleAt(k, v, a, i)
    OBVIOUS
  <2>5. r \in Mine(k, a) /\ r.seq = Row(x).seq
    BY <1>2, <2>2, <2>3, <2>4
  <2>6. PICK y \in v.cycles : /\ r \in SampleRows(Cycle(y)) /\ r.seq = Row(y).seq
                              /\ r.anchor = a /\ y \in 0..(Length[k] - 1)
    BY <1>3, <2>5
  <2>7. x = y
    <3>1. Row(x).seq = Row(y).seq
      BY <2>5, <2>6
    <3> QED
      BY <2>1, <2>6, <3>1, RowOfOne
  <2>8. Sampled(x)
    BY <2>1, SampleParts
  <2>9. r = s
    BY <2>1, <2>6, <2>7, <2>8 DEF Sampled
  <2> QED
    BY <2>3, <2>4, <2>9
<1> QED
  BY <1>2, <1>4

(* Places of samples are counted as the samples.                            *)
Tallied(k, v, a, c, x, G) ==
    Cardinality({j \in 1..c : SampleAt(k, v, a, x[j]) \in G}) = Cardinality(G)

(* Samples are counted by their places.                                     *)
LEMMA CountSamples ==
    ASSUME Handed, NEW k \in Keys, NEW v, IsView(k, v), NEW a,
           NEW c \in Nat, NEW x, Orders(x, c, Reached(k, v, a)),
           NEW G \in SUBSET Mine(k, a)
    PROVE  Tallied(k, v, a, c, x, G)
<1> DEFINE A == {j \in 1..c : SampleAt(k, v, a, x[j]) \in G}
           f == [j \in A |-> SampleAt(k, v, a, x[j])]
<1>1. /\ x \in [1..c -> Reached(k, v, a)] /\ Increasing(x, c)
      /\ \A i \in Reached(k, v, a) : \E j \in 1..c : x[j] = i
      /\ Reached(k, v, a) \in SUBSET (1..v.n) /\ x \in [1..c -> 1..v.n]
  BY DEF Orders, Reached
<1>2. f \in [A -> G]
  OBVIOUS
<1>3. ASSUME NEW i \in A, NEW j \in A, f[i] = f[j] PROVE i = j
  <2>1. SampleAt(k, v, a, x[i]) = SampleAt(k, v, a, x[j])
    BY <1>3
  <2>2. x[i] \in Reached(k, v, a) /\ x[j] \in Reached(k, v, a)
    BY <1>1
  <2>3. Row(v.at[x[i]]).seq = Row(v.at[x[j]]).seq
    BY <2>1, <2>2, SampleFound
  <2>4. v.at \in [1..v.n -> v.cycles] /\ v.cycles \in SUBSET (0..(Length[k] - 1))
    BY ViewParts
  <2>5. x[i] \in 1..v.n /\ x[j] \in 1..v.n
    BY <1>1
  <2>6. v.at[x[i]] \in 0..(Length[k] - 1) /\ v.at[x[j]] \in 0..(Length[k] - 1)
    BY <2>4, <2>5
  <2>7. v.at[x[i]] = v.at[x[j]]
    BY <2>3, <2>6, RowOfOne
  <2>8. v.n \in Nat /\ v.at \in [1..v.n -> Int] /\ Increasing(v.at, v.n)
    BY ViewParts
  <2>9. x[i] = x[j]
    BY <2>5, <2>7, <2>8, OrderOfPlaces, ZenonT(60)
  <2>10. x \in [1..c -> Int] /\ Increasing(x, c) /\ i \in 1..c /\ j \in 1..c
    BY <1>1, <2>8
  <2> QED
    BY <2>9, <2>10, OrderOfPlaces
<1>4. ASSUME NEW s \in G PROVE \E j \in A : f[j] = s
  <2>1. PICK i \in Reached(k, v, a) : SampleAt(k, v, a, i) = s
    BY SampleFound
  <2>2. PICK j \in 1..c : x[j] = i
    BY <1>1
  <2>3. j \in A
    BY <2>1, <2>2
  <2> QED
    BY <2>1, <2>2, <2>3
<1>5. f \in Bijection(A, G)
  BY <1>2, <1>3, <1>4 DEF Bijection, Injection, Surjection, IsInjective
<1>6. IsFiniteSet(A)
  <2>1. IsFiniteSet(1..c)
    BY FS_Interval
  <2> QED
    BY <2>1, FS_Subset
<1>7. ExistsBijection(A, G)
  BY <1>5 DEF ExistsBijection
<1> QED
  BY <1>6, <1>7, FS_Bijection DEF Tallied

(* The answer about one anchor in all the time there is counts what the     *)
(* summary counts of it.                                                    *)
Tallies(counts, shown) ==
    /\ counts.samples = shown.total
    /\ shown.stride = 1 =>
         counts.ok = Cardinality({i \in DOMAIN shown.data : shown.data[i].d # None})

(* The counts of an anchor are those of what ranges shows of it.            *)
LEMMA AnchorTallies ==
    ASSUME Handed, NEW k \in Keys, fixes[k] # {}, NEW a \in Asked(samples[k], None)
    PROVE  Tallies(AnchorStats(samples[k], a),
                   Ranges(fixes[k], samples[k], a, None, None, TotalPoints)[a])
<1>1. PICK v : IsView(k, v)
  BY ViewExists
<1>2. PICK asked : asked = Asked(samples[k], a)
  OBVIOUS
<1>3. a \in asked /\ Mine(k, a) # {}
  BY <1>2 DEF Asked, Mine
<1>4. IsFiniteSet(asked) /\ Cardinality(asked) \in Nat /\ Cardinality(asked) # 0
  <2>1. IsFiniteSet(asked) /\ Cardinality(asked) \in Nat
    BY <1>2, AskedFinite
  <2> QED
    BY <1>3, <2>1, FS_EmptySet
<1>5. PICK b \in Nat : b = Cardinality(asked) /\ b > 0
  BY <1>4
<1>6. PICK most \in Nat : most = TotalPoints
  BY IngestAssumption
<1>7. PICK points \in Nat : points = PerAnchorPoints(most, b) /\ points >= MaxPointsMin
  BY <1>5, PointsIs
<1>8. PICK body : body = Ranges(fixes[k], samples[k], a, None, None, most)
  OBVIOUS
<1>9. Answers(k, v, body, asked, None, None, points)
  BY <1>1, <1>2, <1>5, <1>7, <1>8, RangesIs
<1>10. \E c, x : Heard(k, v, a, None, None, c, x)
  BY <1>1, HeardIs
<1>11. PICK c, x : Heard(k, v, a, None, None, c, x)
  BY <1>10
<1>12. Hits(k, v, a, None, None) = Reached(k, v, a)
  <2>1. DOMAIN Lined(v) = 1..v.n
    BY <1>1, ViewParts
  <2> QED
    BY <2>1 DEF Hits, Places, Reached
<1>13. c \in Nat /\ Orders(x, c, Reached(k, v, a)) /\ x \in [1..c -> 1..v.n]
       /\ x \in [1..c -> Reached(k, v, a)]
  BY <1>11, <1>12 DEF Heard, Orders
<1>14. Cardinality(Mine(k, a)) = c
  <2>1. {j \in 1..c : SampleAt(k, v, a, x[j]) \in Mine(k, a)} = 1..c
    BY <1>1, <1>13, SampleFound
  <2>2. Cardinality({j \in 1..c : SampleAt(k, v, a, x[j]) \in Mine(k, a)}) = Cardinality(Mine(k, a))
    BY <1>1, <1>13, CountSamples DEF Tallied
  <2>3. Cardinality(1..c) = c
    BY <1>13, FS_Interval
  <2> QED
    BY <2>1, <2>2, <2>3
<1>15. c # 0
  <2>1. PICK i \in Reached(k, v, a) : TRUE
    BY <1>1, <1>3, SampleFound
  <2>2. \E j \in 1..c : x[j] = i
    BY <1>13 DEF Orders
  <2> QED
    BY <2>2
<1>16. body[a] = AnchorAnswer(k, v, a, points, c, x)
  BY <1>3, <1>9, <1>11, <1>15 DEF Answers
<1>17. AnchorStats(samples[k], a).samples = Cardinality(Mine(k, a))
       /\ AnchorStats(samples[k], a).ok = Cardinality({s \in Mine(k, a) : s.status = StatusOk})
  BY DEF AnchorStats, Mine
<1>21. ASSUME NEW G \in SUBSET Mine(k, a)
       PROVE  Cardinality({j \in 1..c : SampleAt(k, v, a, x[j]) \in G}) = Cardinality(G)
  <2>1. Tallied(k, v, a, c, x, G)
    BY <1>1, <1>13, CountSamples
  <2> QED
    BY <2>1 DEF Tallied
<1>18. ASSUME body[a].stride = 1
       PROVE  Cardinality({s \in Mine(k, a) : s.status = StatusOk})
                 = Cardinality({i \in DOMAIN body[a].data : body[a].data[i].d # None})
  <2> DEFINE good == {s \in Mine(k, a) : s.status = StatusOk}
             data == body[a].data
  <2>1. StrideOf(c, points) = 1
    BY <1>16, <1>18 DEF AnchorAnswer
  <2>2. ThinCount(c, points) = c /\ \A j \in 1..c : ThinAt(c, points)[j] = j
    BY <1>7, <1>13, <2>1, Thinning DEF Thins
  <2>3. data = [j \in 1..ThinCount(c, points) |-> RangeOf(k, v, a, x[ThinAt(c, points)[j]])]
    BY <1>16 DEF AnchorAnswer
  <2>4. DOMAIN data = 1..c /\ \A j \in 1..c : data[j] = RangeOf(k, v, a, x[j])
    BY <2>2, <2>3
  <2>5. ASSUME NEW j \in 1..c
        PROVE  data[j].d # None <=> SampleAt(k, v, a, x[j]) \in good
    <3>1. PICK s : s = SampleAt(k, v, a, x[j]) /\ s \in Mine(k, a)
      BY <1>1, <1>13, SampleFound
    <3>2. data[j].d = IF s.status = StatusOk THEN s.d ELSE None
      <4>1. RangeOf(k, v, a, x[j]).d = IF s.status = StatusOk THEN s.d ELSE None
        BY <3>1 DEF RangeOf, RangeColumn, Met, SampleAt
      <4> QED
        BY <2>4, <4>1
    <3>3. s.d # None <=> s.status = StatusOk
      <4>1. PICK y \in v.cycles : s \in SampleRows(Cycle(y))
        BY <1>1, <3>1 DEF IsView, Mine
      <4>2. y \in 0..(Length[k] - 1)
        BY <1>1 DEF IsView
      <4>3. Sampled(y)
        BY <4>2, SampleParts
      <4> QED
        BY <4>1, <4>3 DEF Sampled
    <3> HIDE DEF data
    <3> QED
      BY <3>1, <3>2, <3>3
  <2>6. good \in SUBSET Mine(k, a)
    OBVIOUS
  <2>7. {i \in DOMAIN data : data[i].d # None} = {j \in 1..c : SampleAt(k, v, a, x[j]) \in good}
    <3> HIDE DEF data, good
    <3> QED
      BY <2>4, <2>5
  <2>8. Cardinality({j \in 1..c : SampleAt(k, v, a, x[j]) \in good}) = Cardinality(good)
    <3> HIDE DEF good
    <3> QED
      BY <1>21, <2>6
  <2> QED
    BY <2>7, <2>8
<1>19. body[a].total = c
  BY <1>16 DEF AnchorAnswer
<1>20. Tallies(AnchorStats(samples[k], a), body[a])
  BY <1>14, <1>17, <1>18, <1>19 DEF Tallies
<1> QED
  BY <1>6, <1>8, <1>20

-----------------------------------------------------------------------------
(* The summary *)

(* The list of sessions has the i-th of the table at the i-th last place.   *)
LEMMA ListedIs ==
    ASSUME NEW n \in Nat \ {0}, table \in [1..n -> Keys], Len(table) = n, NEW i \in 1..n
    PROVE  ListSessions(table, fixes, n)[n + 1 - i] =
              [key |-> table[i], info |-> SessionOut(SessionInfo(fixes[table[i]]))]
<1>1. Max({1, n - n + 1}) = 1
  <2>1. n - n + 1 = 1
    OBVIOUS
  <2>2. Max({1, 1}) = 1
    BY PairMax
  <2> QED
    BY <2>1, <2>2
<1>2. PICK part : part = SubSeq(table, 1, n) /\ part = [j \in 1..n |-> table[j]]
  OBVIOUS
<1>3. Len(part) = n
  BY <1>2
<1>4. PICK newest : newest = Reverse(part) /\ newest = [j \in 1..n |-> part[(n - j) + 1]]
  BY <1>3 DEF Reverse
<1>5. ListSessions(table, fixes, n) =
         [j \in DOMAIN newest |-> [key |-> newest[j], info |-> SessionOut(SessionInfo(fixes[newest[j]]))]]
  BY <1>1, <1>2, <1>4 DEF ListSessions
<1>6. PICK m \in 1..n : m = n + 1 - i /\ (n - m) + 1 = i
  OBVIOUS
<1>7. newest[m] = part[(n - m) + 1] /\ part[i] = table[i]
  BY <1>2, <1>4, <1>6
<1>8. newest[m] = table[i] /\ m \in DOMAIN newest
  BY <1>4, <1>6, <1>7
<1> QED
  BY <1>5, <1>6, <1>8

(* What is answered of a summary, by its fields.                            *)
LEMMA SummaryParts ==
    ASSUME Handed, NEW k \in Keys, NEW v, IsView(k, v)
    PROVE  LET out == SummaryOut(Summary(fixes[k], samples[k]))
           IN  /\ out.session = SessionOut(SessionInfo(fixes[k]))
               /\ out.kfOk = Cardinality({r \in fixes[k] : r.kok})
               /\ out.period = <<Total(Periods(Lined(v))), Len(Periods(Lined(v)))>>
               /\ DOMAIN out.anchors = Asked(samples[k], None)
               /\ \A a \in Asked(samples[k], None) :
                    /\ out.anchors[a].samples = AnchorStats(samples[k], a).samples
                    /\ out.anchors[a].ok = AnchorStats(samples[k], a).ok
<1>1. PICK rows : rows = Lined(v) /\ rows = IF fixes[k] = {} THEN << >> ELSE Unwrapped(fixes[k])
  BY DEF IsView
<1>2. PICK sum : sum = Summary(fixes[k], samples[k])
  OBVIOUS
<1>3. /\ sum.session = SessionInfo(fixes[k])
      /\ sum.kfOk = Cardinality({r \in fixes[k] : r.kok})
      /\ sum.period = <<Total(Periods(rows)), Len(Periods(rows))>>
      /\ sum.anchors = [a \in Asked(samples[k], None) |-> AnchorStats(samples[k], a)]
      /\ DOMAIN sum = {"session", "residual", "period", "periodMax", "usedMin", "usedMax",
                       "kfOk", "kfPredicted", "kfInit", "kfRejected", "anchors"}
      /\ sum = [f \in DOMAIN sum |-> sum[f]]
  BY <1>1, <1>2 DEF Summary
<1>4. PICK out : out = SummaryOut(sum)
  OBVIOUS
<1>5. out = [sum EXCEPT !.session = SessionOut(@),
                        !.anchors = [a \in DOMAIN @ |-> AnchorSummaryOut(@[a])]]
  BY <1>4 DEF SummaryOut
<1>6. /\ out.session = SessionOut(sum.session) /\ out.kfOk = sum.kfOk /\ out.period = sum.period
      /\ out.anchors = [a \in DOMAIN sum.anchors |-> AnchorSummaryOut(sum.anchors[a])]
  BY <1>3, <1>5
<1>7. \A a \in Asked(samples[k], None) :
        /\ out.anchors[a].samples = AnchorStats(samples[k], a).samples
        /\ out.anchors[a].ok = AnchorStats(samples[k], a).ok
  BY <1>3, <1>6 DEF AnchorSummaryOut
<1>8. DOMAIN out.anchors = Asked(samples[k], None)
  BY <1>3, <1>6
<1> QED
  BY <1>1, <1>2, <1>3, <1>4, <1>6, <1>7, <1>8

(* What is answered of a session, by its fields.                            *)
LEMMA SessionParts ==
    ASSUME NEW k \in Keys
    PROVE  /\ SessionOut(SessionInfo(fixes[k])).cycles = SessionInfo(fixes[k]).cycles
           /\ SessionOut(SessionInfo(fixes[k])).missing = SessionInfo(fixes[k]).missing
           /\ SessionOut(SessionInfo(fixes[k])).okCycles = SessionInfo(fixes[k]).okCycles
<1>1. PICK info : info = SessionInfo(fixes[k])
  OBVIOUS
<1>2. {"cycles", "missing", "okCycles"} \subseteq DOMAIN info \ {"first", "last", "expected"}
  BY <1>1 DEF SessionInfo
<1>3. PICK D : D = DOMAIN info \ {"first", "last", "expected"}
  OBVIOUS
<1>4. SessionOut(info) = [f \in D |-> info[f]]
  BY <1>3 DEF SessionOut
<1> QED
  BY <1>1, <1>2, <1>3, <1>4

(* The counts of summary and list, put together.                            *)
LEMMA AnswersAgree == Answerable => SummaryAgrees
<1> SUFFICES ASSUME Answerable, NEW k \in Written
             PROVE  LET summary == GetSummary(table, fixes, samples, IdOf(k)).body
                        info == summary.session
                        rows == All(k)
                        held == {Index(f.seq) : f \in fixes[k]}
                        ranges(a) == Ranges(fixes[k], samples[k], a, None, None, TotalPoints)[a]
                        dts == Picked([i \in DOMAIN rows |-> rows[i].dt],
                                      {i \in DOMAIN rows : rows[i].dt # None})
                        listed == ListSessions(table, fixes, Len(table))
                    IN  /\ info.cycles = Len(rows)
                        /\ info.missing = Cardinality((Min(held)..Max(held)) \ held)
                        /\ info.okCycles = Cardinality({i \in DOMAIN rows : rows[i].ok})
                        /\ summary.kfOk = Cardinality({i \in DOMAIN rows : rows[i].kx # None})
                        /\ summary.period = <<Total(dts), Len(dts)>>
                        /\ \A a \in DOMAIN summary.anchors :
                             LET shown == ranges(a)
                                 counts == summary.anchors[a]
                             IN  /\ counts.samples = shown.total
                                 /\ shown.stride = 1 =>
                                      counts.ok = Cardinality({i \in DOMAIN shown.data :
                                                                shown.data[i].d # None})
                        /\ listed[Len(table) + 1 - IdOf(k)] = [key |-> k, info |-> info]
  BY DEF SummaryAgrees
<1> DEFINE held == {Index(f.seq) : f \in fixes[k]}
           ranges(a) == Ranges(fixes[k], samples[k], a, None, None, TotalPoints)[a]
           listed == ListSessions(table, fixes, Len(table))
<1>1. /\ k \in Keys /\ Handed /\ fixes[k] # {} /\ Len(table) \in Nat
      /\ table \in [1..Len(table) -> Keys] /\ DOMAIN table = 1..Len(table)
      /\ IdOf(k) \in 1..Len(table) /\ table[IdOf(k)] = k
  BY WrittenIs
<1>2. PICK v : IsView(k, v)
  BY <1>1, ViewExists
<1>3. PICK rows : rows = All(k) /\ rows = [i \in 1..v.n |-> Column(v, i)]
  BY <1>1, <1>2, AllIs
<1>4. v.n \in Nat /\ DOMAIN rows = 1..v.n /\ Len(rows) = v.n
  <2>1. v.n \in Nat
    BY <1>1, <1>2, ViewParts
  <2> QED
    BY <1>3, <2>1
<1>5. PICK out : out = SummaryOut(Summary(fixes[k], samples[k]))
  OBVIOUS
<1>6. /\ out.session = SessionOut(SessionInfo(fixes[k]))
      /\ out.kfOk = Cardinality({r \in fixes[k] : r.kok})
      /\ out.period = <<Total(Periods(Lined(v))), Len(Periods(Lined(v)))>>
      /\ DOMAIN out.anchors = Asked(samples[k], None)
      /\ \A a \in Asked(samples[k], None) :
           /\ out.anchors[a].samples = AnchorStats(samples[k], a).samples
           /\ out.anchors[a].ok = AnchorStats(samples[k], a).ok
  BY <1>1, <1>2, <1>5, SummaryParts
<1>7. GetSummary(table, fixes, samples, IdOf(k)).body = out
  BY <1>1, <1>5 DEF GetSummary, Found
<1>8. PICK info : info = SessionInfo(fixes[k])
  OBVIOUS
<1>9. /\ out.session.cycles = info.cycles /\ out.session.missing = info.missing
      /\ out.session.okCycles = info.okCycles
  BY <1>1, <1>6, <1>8, SessionParts
<1>10. /\ info.cycles = v.n /\ info.missing = v.at[v.n] - v.at[1] + 1 - v.n
       /\ info.okCycles = Cardinality({r \in fixes[k] : r.ok})
  BY <1>1, <1>2, <1>8, InfoIs
<1>11. Cardinality((Min(held)..Max(held)) \ held) = v.at[v.n] - v.at[1] + 1 - v.n
  BY <1>1, <1>2, MissingIs
<1>12. /\ {i \in DOMAIN rows : rows[i].ok} = {i \in 1..v.n : Column(v, i).ok}
       /\ {i \in DOMAIN rows : rows[i].kx # None} = {i \in 1..v.n : Column(v, i).kx # None}
  BY <1>3
<1>13. /\ Cardinality({r \in fixes[k] : r.ok}) = Cardinality({i \in DOMAIN rows : rows[i].ok})
       /\ Cardinality({r \in fixes[k] : r.kok})
             = Cardinality({i \in DOMAIN rows : rows[i].kx # None})
  <2>1. /\ Cardinality({r \in fixes[k] : r.ok})
              = Cardinality({i \in 1..v.n : Column(v, i).ok})
        /\ Cardinality({r \in fixes[k] : r.kok})
              = Cardinality({i \in 1..v.n : Column(v, i).kx # None})
    BY <1>1, <1>2, ShownCounts
  <2> QED
    BY <1>12, <2>1
<1>14. PICK dts : dts = Picked([i \in DOMAIN rows |-> rows[i].dt],
                               {i \in DOMAIN rows : rows[i].dt # None})
  OBVIOUS
<1>15. Periods(Lined(v)) = dts
  <2> DEFINE all == [i \in 1..v.n |-> Column(v, i)]
  <2>1. Periods(Lined(v)) = Picked([i \in DOMAIN all |-> all[i].dt],
                                   {i \in DOMAIN all : all[i].dt # None})
    BY <1>1, <1>2, PeriodsShown
  <2>2. all = rows
    BY <1>3
  <2> HIDE DEF all
  <2> QED
    BY <1>14, <2>1, <2>2
<1> HIDE DEF held, ranges, listed
<1>16. ASSUME NEW a \in DOMAIN out.anchors
       PROVE  /\ out.anchors[a].samples = ranges(a).total
              /\ ranges(a).stride = 1 =>
                   out.anchors[a].ok = Cardinality({i \in DOMAIN ranges(a).data :
                                                     ranges(a).data[i].d # None})
  <2>1. a \in Asked(samples[k], None)
    BY <1>6
  <2>2. Tallies(AnchorStats(samples[k], a), ranges(a))
    BY <1>1, <2>1, AnchorTallies DEF ranges
  <2> QED
    BY <1>6, <2>1, <2>2 DEF Tallies
<1>17. listed[Len(table) + 1 - IdOf(k)] = [key |-> k, info |-> out.session]
  <2>1. PICK n \in Nat \ {0} : n = Len(table)
    <3>1. PICK l \in Nat : l = Len(table) /\ IdOf(k) \in 1..l
      BY <1>1, Zenon
    <3>2. l # 0
      BY <3>1
    <3> QED
      BY <3>1, <3>2
  <2>2. ListSessions(table, fixes, n)[n + 1 - IdOf(k)] =
           [key |-> table[IdOf(k)], info |-> SessionOut(SessionInfo(fixes[table[IdOf(k)]]))]
    BY <1>1, <2>1, ListedIs, Zenon
  <2> QED
    BY <1>1, <1>6, <2>1, <2>2 DEF listed
<1>18. /\ out.session.cycles = Len(rows)
       /\ out.session.missing = Cardinality((Min(held)..Max(held)) \ held)
       /\ out.session.okCycles = Cardinality({i \in DOMAIN rows : rows[i].ok})
       /\ out.kfOk = Cardinality({i \in DOMAIN rows : rows[i].kx # None})
       /\ out.period = <<Total(dts), Len(dts)>>
  BY <1>4, <1>6, <1>9, <1>10, <1>11, <1>13, <1>15
<1> QED
  BY <1>3, <1>7, <1>14, <1>16, <1>17, <1>18 DEF held, ranges, listed

(* The summary and the list of sessions (query.py, summary, session and     *)
(* list_sessions) count what the track and the ranges show, and what is     *)
(* really missing of what the tag sent in between, and average the periods  *)
(* of neighbouring cycles.                                                  *)
THEOREM SummaryTrue == Spec => []SummaryAgrees
<1>1. Answerable => SummaryAgrees
  BY AnswersAgree
<1>2. QED
  BY <1>1, InitAnswerable, NextAnswerable, PTL DEF Spec

-----------------------------------------------------------------------------
(* The hub *)

(* What the hub may be given.                                               *)
Arriving ==
    [tag : Tags, boot : {k[2] : k \in Keys}, last : BOOLEAN,
     cycles : Seq([seq : 0..(SeqWrap - 1), t : 0..(TimeWrap - 1), r : Nat])]

(* What is proved of LiveHub, for the hub of this module.                   *)
Books == INSTANCE LiveHubProofs WITH
    Boots <- {k[2] : k \in Keys}, Revs <- {}, Subs <- {}, Packets <- Arriving,
    Timeout <- 1, HelloMemory <- 1

(* Its assumption holds.                                                    *)
LEMMA HubOf == Books!HubAssumption
BY HubConstants
   DEF Arriving, Hub!HubAssumption, Books!HubAssumption, Hub!Sessions,
                 Books!Sessions, Hub!Cycles, Books!Cycles, Hub!Lasts,
                 Books!Lasts, Hub!RawCycles, Books!RawCycles,
                 Hub!IsFiniteSet, Books!IsFiniteSet

(* The stages of publish are the same in both instances of LiveHub.         *)
LEMMA SameEnd ==
    ASSUME NEW w, NEW reason
    PROVE  Hub!End(w, reason) = Books!End(w, reason)
<1>1. \A q, b : Hub!Remember(q, b) = Books!Remember(q, b)
  BY DEF Hub!Remember, Books!Remember
<1>2. Hub!Flushed(w) = Books!Flushed(w)
  BY DEF Hub!Flushed, Books!Flushed, Hub!AppendFrame, Books!AppendFrame
<1>3. QED
  BY <1>1, <1>2 DEF Hub!End, Books!End, Hub!EndFrame, Books!EndFrame

(* The same is opened.                                                      *)
LEMMA SameOpened ==
    ASSUME NEW w, NEW tag, NEW boot
    PROVE  Hub!Opened(w, tag, boot) = Books!Opened(w, tag, boot)
<1>1. \A x : Hub!Started(x, tag, boot) = Books!Started(x, tag, boot)
  BY DEF Hub!Started, Books!Started, Hub!NewSession, Books!NewSession,
         Hub!Greeted, Books!Greeted, Hub!KnownRev, Books!KnownRev,
         Hub!PlaceOf, Books!PlaceOf, Hub!StartFrame, Books!StartFrame,
         Hub!IsOf, Books!IsOf
<1>2. Hub!End(w, "new_session") = Books!End(w, "new_session")
  BY SameEnd
<1>3. QED
  BY <1>1, <1>2 DEF Hub!Opened, Books!Opened, Hub!StartFrame, Books!StartFrame

(* The same cycles are taken in.                                            *)
LEMMA SameFilled ==
    ASSUME NEW s, NEW cycles
    PROVE  Hub!FoldLeft(Hub!Absorb, s, cycles) = Books!FoldLeft(Books!Absorb, s, cycles)
BY DEF Hub!FoldLeft, Books!FoldLeft, Hub!MapThenFoldSet,
       Books!MapThenFoldSet, Hub!Max, Books!Max, Hub!Absorb, Books!Absorb,
       Hub!SeqAdvances, Books!SeqAdvances, Hub!TimeStep, Books!TimeStep

(* The same is cut off.                                                     *)
LEMMA SamePopped ==
    ASSUME NEW s, NEW k
    PROVE  Hub!Popped(s, k) = Books!Popped(s, k)
<1>1. \A c : Hub!RangeSum(c) = Books!RangeSum(c)
  BY DEF Hub!RangeSum, Books!RangeSum, Hub!Total, Books!Total, Hub!FoldLeft,
         Books!FoldLeft, Hub!MapThenFoldSet, Books!MapThenFoldSet, Hub!Max,
         Books!Max
<1>2. Hub!RangeSum(SubSeq(s.cycles, 1, k)) = Books!RangeSum(SubSeq(s.cycles, 1, k))
  BY <1>1
<1>3. QED
  BY <1>2, Zenon DEF Hub!Popped, Books!Popped

(* The buffer is trimmed the same.                                          *)
LEMMA SameTrim ==
    ASSUME NEW s
    PROVE  Hub!Trim(s) = Books!Trim(s)
<1> DEFINE hubSized == {k \in 0..Len(s.cycles) : k = Len(s.cycles) \/
                          (/\ Len(s.cycles) - k <= MaxCycles
                           /\ s.ranges - Hub!RangeSum(SubSeq(s.cycles, 1, k)) <= MaxRanges)}
           sized == {k \in 0..Len(s.cycles) : k = Len(s.cycles) \/
                       (/\ Len(s.cycles) - k <= MaxCycles
                        /\ s.ranges - Books!RangeSum(SubSeq(s.cycles, 1, k)) <= MaxRanges)}
           hubFirst == Hub!Popped(s, Hub!Min(hubSized))
           first == Books!Popped(s, Books!Min(sized))
           Recent(z) == {k \in 0..Len(z.cycles) :
                           \/ k >= Len(z.cycles) - 1
                           \/ z.cycles[Len(z.cycles)].t - z.cycles[k + 1].t <= Retention}
<1>1. \A c : Hub!RangeSum(c) = Books!RangeSum(c)
  BY DEF Hub!RangeSum, Books!RangeSum, Hub!Total, Books!Total, Hub!FoldLeft,
         Books!FoldLeft, Hub!MapThenFoldSet, Books!MapThenFoldSet, Hub!Max,
         Books!Max
<1>2. hubSized = sized
  BY <1>1
<1>3. \A T : Hub!Min(T) = Books!Min(T)
  BY DEF Hub!Min, Books!Min
<1>4. Hub!Trim(s) = IF Len(hubFirst.cycles) = 0 THEN hubFirst
                    ELSE Hub!Popped(hubFirst, Hub!Min(Recent(hubFirst)))
  BY DEF Hub!Trim
<1>5. Books!Trim(s) = IF Len(first.cycles) = 0 THEN first
                      ELSE Books!Popped(first, Books!Min(Recent(first)))
  BY DEF Books!Trim
<1> HIDE DEF hubSized, sized
<1>6. hubFirst = first
  BY <1>2, <1>3, SamePopped
<1> HIDE DEF hubFirst, first, Recent
<1>7. QED
  BY <1>3, <1>4, <1>5, <1>6, SamePopped

(* The total limit is kept the same.                                        *)
LEMMA SameLimited ==
    ASSUME NEW all
    PROVE  Hub!Limited(all) = Books!Limited(all)
BY DEF Hub!Limited, Books!Limited, Hub!TotalRanges, Books!TotalRanges,
       Hub!OverTags, Books!OverTags, Hub!SetToSeq, Books!SetToSeq,
       Hub!Cardinality, Books!Cardinality, Hub!IsInjective,
       Books!IsInjective, Hub!Victim, Books!Victim, Hub!BufferedCycles,
       Books!BufferedCycles, Hub!Popped, Books!Popped, Hub!RangeSum,
       Books!RangeSum, Hub!Total, Books!Total, Hub!FoldLeft, Books!FoldLeft,
       Hub!MapThenFoldSet, Books!MapThenFoldSet, Hub!Max, Books!Max

(* And so is publish, whose frames nobody is subscribed to.                 *)
LEMMA SamePublish ==
    ASSUME NEW p, Hub!Publish(p)
    PROVE  Books!Publish(p)
<1>1. \A x, y : Hub!Broadcast(x) <=> Books!Broadcast(y)
  BY DEF Hub!Broadcast, Books!Broadcast
<1>2. QED
  BY <1>1, SameEnd, SameOpened, SameFilled, SameTrim, SameLimited, Zenon
     DEF Hub!Publish, Books!Publish, Hub!Refused, Books!Refused, Hub!ToSet, Books!ToSet

(* The hub begins with its books in order.                                  *)
LEMMA HubBegins == Init => Books!HubInv
<1> SUFFICES ASSUME Init PROVE Books!HubInv
  OBVIOUS
<1>1. Books!Init
  BY DEF Init, Hub!Init, Books!Init
<1>2. QED
  BY <1>1, HubOf, Books!InitHubInv

-----------------------------------------------------------------------------
(* What the hub keeps *)

(* What is stored of a session or will be once the queue is written.        *)
Due(k) ==
    {x \in 0..(Length[k] - 1) :
        \/ \E f \in fixes[k] : f.seq = Row(x).seq
        \/ \E j \in 1..Len(queue) :
             /\ KeyOf(queue[j]) = k
             /\ \E i \in DOMAIN queue[j].cycles : queue[j].cycles[i].seq = Row(x).seq}

(* A cycle with the number of one of the cycles `due', counted from b, and  *)
(* its period, if it has one; and what is between two of them.              *)
Genuine(b, due, c) ==
    /\ c.n - b \in due
    /\ c.dt # None => /\ c.n - b - 1 \in due
                      /\ c.dt = TimeStep(c.n - b - 1, c.n - b)

Linked(b, c, d) == c.n < d.n /\ d.t - c.t = TimeStep(c.n - b, d.n - b)

(* The cycles of a session's buffer and its last one, counted from b.       *)
HoldsFrom(b, due, s) ==
    LET n == Len(s.cycles)
    IN  /\ \A i \in 1..n : Genuine(b, due, s.cycles[i])
        /\ \A i \in 2..n : Linked(b, s.cycles[i - 1], s.cycles[i])
        /\ s.last = None => n = 0
        /\ s.last # None => /\ s.last.n - b \in due
                            /\ s.last.seq = Row(s.last.n - b).seq
                            /\ s.last.t = Row(s.last.n - b).t
        /\ n # 0 => s.last.n = s.cycles[n].n /\ s.last.tn = s.cycles[n].t

Holds(due, s) == \E b \in Bases : HoldsFrom(b, due, s)

(* The number of the first cycle is its raw seq.                            *)
LEMMA FirstNumber ==
    ASSUME Started, NEW k \in Keys, NEW x \in 0..(Length[k] - 1)
    PROVE  \E b \in Bases : Row(x).seq = b + x
<1>1. PICK w \in Nat \ {0} : w = SeqWrap
  BY PacketAssumption
<1>2. Row(x).seq = Wrapping(origin.seq, w, x) /\ origin.seq \in 0..(w - 1)
  BY <1>1, RowParts
<1>3. x \in Int
  OBVIOUS
<1>4. CASE origin.seq + x < w
  BY <1>2, <1>3, <1>4 DEF Wrapping, Bases
<1>5. CASE ~(origin.seq + x < w)
  <2>1. Row(x).seq = (origin.seq - w) + x
    BY <1>2, <1>3, <1>5 DEF Wrapping
  <2>2. QED
    BY <1>1, <2>1 DEF Bases
<1>6. QED
  BY <1>4, <1>5

(* A raw seq that advances is of a later cycle, and by what it advances.    *)
LEMMA StepAhead ==
    ASSUME Started, NEW k \in Keys, NEW x \in 0..(Length[k] - 1),
           NEW y \in 0..(Length[k] - 1),
           0 < (Row(x).seq - Row(y).seq) % SeqWrap,
           2 * ((Row(x).seq - Row(y).seq) % SeqWrap) <= SeqWrap
    PROVE  y < x /\ (Row(x).seq - Row(y).seq) % SeqWrap = x - y
<1>1. PICK w \in Nat \ {0} : w = SeqWrap
  BY PacketAssumption
<1>2. PICK o \in 0..(w - 1) : o = origin.seq
  BY <1>1 DEF Started
<1>3. Row(x).seq = (o + x) % w /\ Row(y).seq = (o + y) % w
  BY <1>1, <1>2 DEF Row, FixRow, Cycle
<1>4. PICK d \in Int : d = x - y
  OBVIOUS
<1>5. (Row(x).seq - Row(y).seq) % w = d % w
  <2>1. PICK a \in Int : a = o + x
    OBVIOUS
  <2>2. PICK b \in Int : b = o + y
    OBVIOUS
  <2>3. a - b = d
    BY <1>4, <2>1, <2>2
  <2>4. ((a % w) - (b % w)) % w = (a - b) % w
    BY WrapGap
  <2>5. QED
    BY <1>3, <2>1, <2>2, <2>3, <2>4
<1>6. 2 * d <= w - 1 /\ -(2 * d) <= w - 1
  <2>1. PICK l \in Nat : l = Length[k] /\ 2 * l <= w + 1
    BY <1>1, IngestAssumption
  <2>2. QED
    BY <1>4, <2>1
<1>7. 0 < d % w /\ 2 * (d % w) <= w
  BY <1>1, <1>5
<1>8. CASE d < 0
  <2>1. -d \in 1..(w - 1)
    BY <1>6, <1>8
  <2>2. d % w = w + d
    BY <2>1, WrapApart
  <2>3. QED
    BY <1>6, <1>7, <2>2
<1>9. CASE d >= 0
  <2>1. d \in 0..(w - 1)
    BY <1>6, <1>9
  <2>2. d % w = d
    BY <2>1, WrapApart
  <2>3. QED
    BY <1>1, <1>4, <1>5, <1>7, <2>2
<1>10. QED
  BY <1>8, <1>9

(* The values a cycle is taken in with, as `new' and `cycle', or not.       *)
TakenAs(s, c, r, new, cycle) ==
    /\ r.last = new /\ r.cycles = Append(s.cycles, cycle)
    /\ new.seq = c.seq /\ new.t = c.t /\ cycle.n = new.n /\ cycle.t = new.tn
    /\ s.last = None => new.n = c.seq /\ cycle.dt = None
    /\ s.last # None =>
         LET step == (c.seq - s.last.seq) % SeqWrap
         IN  /\ 0 < step /\ 2 * step <= SeqWrap
             /\ new.n = s.last.n + step
             /\ new.tn = s.last.tn + Books!TimeStep(c.t, s.last.t)
             /\ cycle.dt = IF step = 1 THEN new.tn - s.last.tn ELSE None

(* One turn of publish's loop.                                              *)
LEMMA AbsorbIs ==
    ASSUME NEW s \in Books!Sessions, NEW c
    PROVE  \/ Books!Absorb(s, c) = s
           \/ \E new, cycle : TakenAs(s, c, Books!Absorb(s, c), new, cycle)
<1> SUFFICES ASSUME ~(s.last # None /\ ~Books!SeqAdvances(c.seq, s.last.seq))
             PROVE  \E new, cycle : TakenAs(s, c, Books!Absorb(s, c), new, cycle)
  BY DEF Books!Absorb
<1> DEFINE r == Books!Absorb(s, c)
           step == (c.seq - s.last.seq) % SeqWrap
           new == IF s.last = None
                  THEN [seq |-> c.seq, t |-> c.t, n |-> c.seq, tn |-> c.t]
                  ELSE [seq |-> c.seq, t |-> c.t, n |-> s.last.n + step,
                        tn |-> s.last.tn + Books!TimeStep(c.t, s.last.t)]
           cycle == [n |-> new.n, t |-> new.tn, r |-> c.r,
                     dt |-> IF s.last # None /\ step = 1 THEN new.tn - s.last.tn ELSE None]
<1>1. r = [s EXCEPT !.last = new, !.cycles = Append(@, cycle),
                    !.pending = Append(@, cycle), !.ranges = @ + c.r]
  BY DEF Books!Absorb
<1> HIDE DEF r
<1>2. r.last = new /\ r.cycles = Append(s.cycles, cycle)
  BY <1>1 DEF Books!Sessions
<1>3. s.last # None => 0 < step /\ 2 * step <= SeqWrap
  BY DEF Books!SeqAdvances
<1> HIDE DEF step
<1>4. /\ new.seq = c.seq /\ new.t = c.t /\ cycle.n = new.n /\ cycle.t = new.tn
      /\ s.last = None => new.n = c.seq /\ cycle.dt = None
      /\ s.last # None => /\ new.n = s.last.n + step
                          /\ new.tn = s.last.tn + Books!TimeStep(c.t, s.last.t)
                          /\ cycle.dt = IF step = 1 THEN new.tn - s.last.tn ELSE None
  OBVIOUS
<1> HIDE DEF new, cycle
<1>5. TakenAs(s, c, r, new, cycle)
  BY <1>2, <1>3, <1>4 DEF TakenAs, step
<1>6. QED
  BY <1>5 DEF r

(* The types of a buffer.                                                   *)
LEMMA BufferType ==
    ASSUME NEW s \in Books!Sound
    PROVE  /\ s \in Books!Sessions /\ s.cycles \in Seq(Books!Cycles)
           /\ Len(s.cycles) \in Nat
           /\ \A i \in 1..Len(s.cycles) :
                s.cycles[i].n \in Int /\ s.cycles[i].t \in Int
           /\ s.last # None => /\ s.last.n \in Int /\ s.last.tn \in Int
                               /\ s.last.seq \in Int /\ s.last.t \in Int
<1>1. s \in Books!Sessions /\ s.cycles \in Seq(Books!Cycles) /\ Len(s.cycles) \in Nat
  BY HubOf, Books!SoundType
<1>2. ASSUME NEW i \in 1..Len(s.cycles)
      PROVE  s.cycles[i].n \in Int /\ s.cycles[i].t \in Int
  <2>1. s.cycles[i] \in Books!Cycles
    BY <1>1, ElementOfSeq
  <2>2. QED
    BY <2>1 DEF Books!Cycles
<1>3. ASSUME s.last # None
      PROVE  /\ s.last.n \in Int /\ s.last.tn \in Int
             /\ s.last.seq \in Int /\ s.last.t \in Int
  <2>1. s.last \in Books!Lasts
    BY <1>1, <1>3 DEF Books!Sessions
  <2>2. SeqWrap \in Int /\ TimeWrap \in Int
    BY PacketAssumption
  <2>3. QED
    BY <2>1, <2>2 DEF Books!Lasts
<1>4. QED
  BY <1>1, <1>2, <1>3

(* The times of neighbouring raw values are told apart the same way.        *)
LEMMA SameTimeStep ==
    ASSUME Started, NEW k \in Keys, NEW x \in 0..(Length[k] - 1), NEW y \in 0..(Length[k] - 1)
    PROVE  Books!TimeStep(Row(x).t, Row(y).t) = TimeStep(y, x) /\ TimeStep(y, x) \in Int
<1>1. PICK w \in Nat \ {0} : w = TimeWrap
  BY PacketAssumption
<1>2. Row(x).t \in 0..(w - 1) /\ Row(y).t \in 0..(w - 1)
  BY <1>1, RowParts
<1>3. PICK a \in Int : a = Row(x).t
  BY <1>2
<1>4. PICK b \in Int : b = Row(y).t
  BY <1>2
<1>5. Books!TimeStep(Row(x).t, Row(y).t) = IF 2 * (a - b) < -w THEN a - b + w ELSE a - b
  BY <1>1, <1>3, <1>4 DEF Books!TimeStep
<1>6. TimeStep(y, x) = a - b + IF 2 * (b - a) > w THEN w ELSE 0
  BY <1>1, <1>3, <1>4 DEF TimeStep
<1>7. 2 * (a - b) < -w <=> 2 * (b - a) > w
  OBVIOUS
<1>8. QED
  BY <1>5, <1>6, <1>7

(* A cycle the tag sent is taken in with its true number, or not at all.    *)
LEMMA AbsorbHolds ==
    ASSUME Started, NEW k \in Keys, NEW due \in SUBSET (0..(Length[k] - 1)), NEW x \in due,
           NEW s \in Books!Sound, Holds(due, s), NEW c \in Books!RawCycles,
           c.seq = Row(x).seq, c.t = Row(x).t
    PROVE  Holds(due, Books!Absorb(s, c))
<1> DEFINE r == Books!Absorb(s, c)
           n == Len(s.cycles)
<1>1. s \in Books!Sessions /\ s.cycles \in Seq(Books!Cycles) /\ n \in Nat
  BY BufferType
<1>2. r \in Books!Sound
  BY HubOf, Books!AbsorbSound
<1>3. r = s \/ \E new, cycle : TakenAs(s, c, r, new, cycle)
  BY <1>1, AbsorbIs
<1>4. x \in 0..(Length[k] - 1)
  OBVIOUS
<1> HIDE DEF r
<1>5. CASE r = s
  BY <1>5 DEF r
<1>6. ASSUME NEW new, NEW cycle, TakenAs(s, c, r, new, cycle)
      PROVE  Holds(due, r)
  <2>1. /\ r.last = new /\ r.cycles = Append(s.cycles, cycle)
        /\ new.seq = Row(x).seq /\ new.t = Row(x).t
        /\ cycle.n = new.n /\ cycle.t = new.tn
        /\ s.last = None => new.n = c.seq /\ cycle.dt = None
    BY <1>6 DEF TakenAs
  <2>2. cycle \in Books!Cycles
    <3>1. r.cycles \in Seq(Books!Cycles) /\ Len(r.cycles) = n + 1
          /\ r.cycles[n + 1] = cycle
      BY <1>1, <1>2, <2>1, BufferType DEF n
    <3>2. n + 1 \in 1..Len(r.cycles)
      BY <1>1, <3>1
    <3>3. QED
      BY <3>1, <3>2, ElementOfSeq
  <2>3. /\ Len(r.cycles) = n + 1 /\ r.cycles[n + 1] = cycle
        /\ \A i \in 1..n : r.cycles[i] = s.cycles[i]
    BY <1>1, <2>1, <2>2, AppendProperties
  <2>4. new # None
    <3>1. r.last # None
      <4>1. SeqWrap \in Nat \ {0}
        BY PacketAssumption
      <4>2. r = s \/ \E y : Books!Adds(s, c, y, r)
        BY HubOf, Books!AbsorbSound DEF r
      <4>3. CASE \E y : Books!Adds(s, c, y, r)
        BY <4>3 DEF Books!Adds
      <4>4. CASE r = s
        <5>1. Len(r.cycles) = n
          BY <4>4
        <5>2. QED
          BY <1>1, <2>3, <5>1
      <4>5. QED
        BY <4>2, <4>3, <4>4
    <3>2. QED
      BY <2>1, <3>1
  <2>5. ASSUME NEW b \in Bases, HoldsFrom(b, due, s), new.n = b + x,
               Genuine(b, due, cycle),
               n # 0 => Linked(b, s.cycles[n], cycle)
        PROVE  Holds(due, r)
    <3>1. b \in Int /\ new.n - b = x
      <4>1. b \in Int
        BY BaseInteger
      <4>2. QED
        BY <2>5, <4>1
    <3>2. ASSUME NEW i \in 1..(n + 1) PROVE Genuine(b, due, r.cycles[i])
      <4>1. i \in 1..n \/ i = n + 1
        BY <1>1
      <4>2. i \in 1..n => Genuine(b, due, s.cycles[i])
        BY <2>5 DEF HoldsFrom
      <4>3. QED
        BY <2>3, <2>5, <4>1, <4>2
    <3>3. ASSUME NEW i \in 2..(n + 1) PROVE Linked(b, r.cycles[i - 1], r.cycles[i])
      <4>1. CASE i \in 2..n
        <5>1. i \in 1..n /\ i - 1 \in 1..n
          BY <1>1, <4>1
        <5>2. Linked(b, s.cycles[i - 1], s.cycles[i])
          BY <2>5, <4>1 DEF HoldsFrom
        <5>3. QED
          BY <2>3, <5>1, <5>2
      <4>2. CASE i = n + 1
        <5>1. n # 0 /\ i - 1 = n /\ n \in 1..n
          BY <1>1, <4>2
        <5>2. QED
          BY <2>3, <2>5, <4>2, <5>1
      <4>3. i \in 2..n \/ i = n + 1
        BY <1>1
      <4>4. QED
        BY <4>1, <4>2, <4>3
    <3>4. HoldsFrom(b, due, r)
      <4>1. n + 1 # 0
        BY <1>1
      <4>2. QED
        BY <2>1, <2>3, <2>4, <3>1, <3>2, <3>3, <4>1 DEF HoldsFrom
    <3>5. QED
      BY <3>4 DEF Holds
  <2>6. CASE s.last = None
    <3>1. PICK b \in Bases : Row(x).seq = b + x
      BY <1>4, FirstNumber
    <3>2. n = 0
      BY <2>6 DEF Holds, HoldsFrom
    <3>3. HoldsFrom(b, due, s)
      <4>1. 1..n = {} /\ 2..n = {}
        BY <3>2
      <4>2. QED
        BY <2>6, <3>2, <4>1 DEF HoldsFrom
    <3>4. b \in Int
      BY BaseInteger
    <3>5. new.n = b + x /\ cycle.n - b = x /\ cycle.dt = None
      BY <2>1, <2>6, <3>1, <3>4
    <3>6. Genuine(b, due, cycle)
      BY <3>5 DEF Genuine
    <3>7. QED
      BY <2>5, <3>1, <3>2, <3>3, <3>5, <3>6
  <2>7. CASE s.last # None
    <3>1. PICK b \in Bases : HoldsFrom(b, due, s)
      BY DEF Holds
    <3>2. b \in Int /\ s.last.n \in Int /\ s.last.tn \in Int
      BY <2>7, BaseInteger, BufferType
    <3>3. PICK y \in due : y = s.last.n - b
      BY <2>7, <3>1 DEF HoldsFrom
    <3>4. /\ s.last.seq = Row(y).seq /\ s.last.t = Row(y).t /\ y \in 0..(Length[k] - 1)
          /\ s.last.n = b + y
      BY <2>7, <3>1, <3>2, <3>3 DEF HoldsFrom
    <3> DEFINE step == (c.seq - s.last.seq) % SeqWrap
    <3>5. /\ 0 < step /\ 2 * step <= SeqWrap /\ new.n = s.last.n + step
          /\ new.tn = s.last.tn + Books!TimeStep(c.t, s.last.t)
          /\ cycle.dt = IF step = 1 THEN new.tn - s.last.tn ELSE None
      BY <1>6, <2>7 DEF TakenAs
    <3>6. step = (Row(x).seq - Row(y).seq) % SeqWrap
      BY <3>4
    <3> HIDE DEF step
    <3>7. y < x /\ step = x - y
      BY <1>4, <3>4, <3>5, <3>6, StepAhead
    <3>8. /\ Books!TimeStep(c.t, s.last.t) = TimeStep(y, x) /\ TimeStep(y, x) \in Int
      BY <1>4, <3>4, SameTimeStep
    <3>9. /\ new.n = b + x /\ cycle.n - b = x /\ new.tn = s.last.tn + TimeStep(y, x)
      <4>1. new.n = b + x
        BY <1>4, <3>2, <3>4, <3>5, <3>7
      <4>2. cycle.n = b + x
        BY <2>1, <4>1
      <4>3. QED
        BY <1>4, <3>2, <3>5, <3>8, <4>1, <4>2
    <3>10. Genuine(b, due, cycle)
      <4>1. ASSUME cycle.dt # None
            PROVE  cycle.n - b - 1 \in due /\ cycle.dt = TimeStep(cycle.n - b - 1, cycle.n - b)
        <5>1. step = 1 /\ cycle.dt = new.tn - s.last.tn
          BY <3>5, <4>1
        <5>2. x - 1 = y /\ cycle.dt = TimeStep(y, x)
          BY <1>4, <3>2, <3>4, <3>7, <3>8, <3>9, <5>1
        <5>3. QED
          BY <3>9, <5>2
      <4>2. QED
        BY <3>9, <4>1 DEF Genuine
    <3>11. ASSUME n # 0 PROVE Linked(b, s.cycles[n], cycle)
      <4>1. s.cycles[n].n = s.last.n /\ s.cycles[n].t = s.last.tn
        BY <3>1, <3>11 DEF HoldsFrom
      <4>2. cycle.n = b + x /\ cycle.t = s.last.tn + TimeStep(y, x)
        BY <2>1, <3>9
      <4>3. s.last.n < cycle.n /\ s.last.n - b = y
        BY <1>4, <3>2, <3>4, <3>7, <4>2
      <4>4. cycle.t - s.cycles[n].t = TimeStep(y, x)
        BY <3>2, <3>8, <4>1, <4>2
      <4>5. QED
        BY <3>9, <4>1, <4>3, <4>4 DEF Linked
    <3>12. QED
      BY <2>5, <3>1, <3>9, <3>10, <3>11
  <2>8. QED
    BY <2>6, <2>7
<1>7. QED
  BY <1>3, <1>5, <1>6 DEF r

(* What a session holds is a matter of its cycles and its last one only.    *)
LEMMA HoldsSame ==
    ASSUME NEW due, NEW s, NEW r, Holds(due, s), r.cycles = s.cycles, r.last = s.last
    PROVE  Holds(due, r)
BY DEF Holds, HoldsFrom

(* A new session holds nothing.                                             *)
LEMMA HoldsNothing ==
    ASSUME NEW due, NEW s, s.cycles = << >>, s.last = None
    PROVE  Holds(due, s)
<1>1. Len(s.cycles) = 0
  OBVIOUS
<1>2. 1..Len(s.cycles) = {} /\ 2..Len(s.cycles) = {}
  BY <1>1
<1>3. origin.seq \in Bases
  BY DEF Bases
<1>4. HoldsFrom(origin.seq, due, s)
  BY <1>1, <1>2 DEF HoldsFrom
<1>5. QED
  BY <1>3, <1>4 DEF Holds

(* More may be due.                                                         *)
LEMMA HoldsMore ==
    ASSUME NEW due, NEW more, due \subseteq more, NEW s, Holds(due, s)
    PROVE  Holds(more, s)
<1>1. PICK b \in Bases : HoldsFrom(b, due, s)
  BY DEF Holds
<1>2. HoldsFrom(b, more, s)
  BY <1>1 DEF HoldsFrom, Genuine
<1>3. QED
  BY <1>2 DEF Holds

(* Cycles may go from the beginning.                                        *)
LEMMA HoldsEnd ==
    ASSUME NEW due, NEW s \in Books!Sound, Holds(due, s), NEW r \in Books!Sound,
           r.last = s.last, Books!Ends(r.cycles, s.cycles)
    PROVE  Holds(due, r)
<1> DEFINE n == Len(s.cycles)
           e == Len(r.cycles)
<1>1. n \in Nat /\ e \in Nat
  BY BufferType
<1>2. e <= n /\ \A i \in 1..e : r.cycles[i] = s.cycles[n - e + i]
  BY DEF Books!Ends
<1>3. PICK b \in Bases : HoldsFrom(b, due, s)
  BY DEF Holds
<1>4. /\ \A i \in 1..n : Genuine(b, due, s.cycles[i])
      /\ \A i \in 2..n : Linked(b, s.cycles[i - 1], s.cycles[i])
      /\ s.last = None => n = 0
      /\ s.last # None => /\ s.last.n - b \in due
                          /\ s.last.seq = Row(s.last.n - b).seq
                          /\ s.last.t = Row(s.last.n - b).t
      /\ n # 0 => s.last.n = s.cycles[n].n /\ s.last.tn = s.cycles[n].t
  BY <1>3 DEF HoldsFrom
<1> HIDE DEF n, e
<1>5. \A i \in 1..e : n - e + i \in 1..n
  BY <1>1, <1>2
<1>6. \A i \in 1..e : Genuine(b, due, r.cycles[i])
  BY <1>2, <1>4, <1>5
<1>7. ASSUME NEW i \in 2..e PROVE Linked(b, r.cycles[i - 1], r.cycles[i])
  <2>1. i \in 1..e /\ i - 1 \in 1..e /\ n - e + i \in 2..n
    BY <1>1, <1>2
  <2>2. PICK j \in 2..n : j = n - e + i
    BY <2>1
  <2>3. j - 1 = n - e + (i - 1)
    BY <1>1, <2>2
  <2>4. Linked(b, s.cycles[j - 1], s.cycles[j])
    BY <1>4
  <2>5. r.cycles[i - 1] = s.cycles[j - 1] /\ r.cycles[i] = s.cycles[j]
    BY <1>2, <2>1, <2>2, <2>3
  <2>6. QED
    BY <2>4, <2>5
<1>8. ASSUME e # 0 PROVE n # 0 /\ r.cycles[e] = s.cycles[n]
  <2>1. e \in 1..e /\ n - e + e = n /\ n # 0
    BY <1>1, <1>2, <1>8
  <2>2. QED
    BY <1>2, <2>1
<1>9. r.last = None => e = 0
  BY <1>1, <1>2, <1>4
<1>10. HoldsFrom(b, due, r)
  BY <1>4, <1>6, <1>7, <1>8, <1>9 DEF HoldsFrom, e
<1>11. QED
  BY <1>10 DEF Holds

(* A packet on its way to the hub.                                          *)
Lightened(m) ==
    LET p == Light(PacketOf(m))
    IN  /\ p \in Arriving /\ p.tag = m.key[1] /\ p.boot = m.key[2]
        /\ Len(p.cycles) = m.count
        /\ \A i \in 1..m.count :
             /\ m.first + i - 1 \in 0..(Length[m.key] - 1)
             /\ p.cycles[i] \in Books!RawCycles
             /\ p.cycles[i].seq = Row(m.first + i - 1).seq
             /\ p.cycles[i].t = Row(m.first + i - 1).t

(* The hub is given the cycles the tag sent.                                *)
LEMMA LightParts ==
    ASSUME Started, NEW m \in Runs
    PROVE  Lightened(m)
<1> DEFINE q == PacketOf(m)
           p == Light(q)
           k == m.key
           raw(i) == [seq |-> q.cycles[i].seq, t |-> q.cycles[i].t,
                      r |-> Len(q.cycles[i].ranges)]
<1>1. /\ k \in Keys /\ m.count \in Nat \ {0} /\ m.first \in Nat /\ Length[k] \in Nat
      /\ m.first + m.count <= Length[k]
      /\ q.tag = k[1] /\ q.boot = k[2] /\ q.last \in BOOLEAN
      /\ q.cycles \in Seq(CycleRecords) /\ DOMAIN q.cycles = 1..m.count
  BY PacketParts
<1>2. \A i \in 1..m.count : q.cycles[i] = Cycle(m.first + i - 1)
  BY DEF PacketOf
<1>3. /\ p.tag = q.tag /\ p.boot = q.boot /\ p.last = q.last
      /\ p.cycles = [i \in 1..m.count |-> raw(i)]
      /\ p = [tag |-> p.tag, boot |-> p.boot, last |-> p.last, cycles |-> p.cycles]
  BY <1>1 DEF Light
<1> HIDE DEF p, q
<1>4. ASSUME NEW i \in 1..m.count
      PROVE  /\ m.first + i - 1 \in 0..(Length[k] - 1)
             /\ raw(i) \in Books!RawCycles
             /\ raw(i).seq = Row(m.first + i - 1).seq
             /\ raw(i).t = Row(m.first + i - 1).t
  <2>1. m.first + i - 1 \in 0..(Length[k] - 1)
    BY <1>1
  <2>2. PICK c \in CycleRecords : c = q.cycles[i]
    BY <1>1, ElementOfSeq
  <2>3. c = Cycle(m.first + i - 1)
    BY <1>2, <2>2
  <2>4. Len(c.ranges) \in Nat /\ c.seq \in 0..(SeqWrap - 1) /\ c.t \in 0..(TimeWrap - 1)
    BY LenProperties DEF CycleRecords
  <2>5. raw(i) \in Books!RawCycles
    BY <2>2, <2>4 DEF Books!RawCycles
  <2>6. QED
    BY <2>1, <2>2, <2>3, <2>5 DEF Row, FixRow
<1> HIDE DEF raw
<1>5. p.cycles \in Seq(Books!RawCycles) /\ Len(p.cycles) = m.count
  <2>1. p.cycles \in [1..m.count -> Books!RawCycles]
    BY <1>3, <1>4
  <2>2. QED
    BY <1>1, <2>1, SeqDef, LenProperties
<1>6. k[1] \in Tags /\ k[2] \in {j[2] : j \in Keys}
  BY <1>1, IngestAssumption
<1>7. p \in Arriving
  BY <1>1, <1>3, <1>5, <1>6 DEF Arriving, Books!RawCycles
<1>8. \A i \in 1..m.count : p.cycles[i] = raw(i)
  BY <1>3
<1>9. QED
  BY <1>1, <1>3, <1>4, <1>5, <1>7, <1>8 DEF Lightened, p, q, k

(* With all of a packet's cycles due, a session holds them.                 *)
LEMMA FillHolds ==
    ASSUME Started, NEW m \in Runs, NEW due \in SUBSET (0..(Length[m.key] - 1)),
           \A i \in 1..m.count : m.first + i - 1 \in due,
           NEW v, Books!TakesIn(Light(PacketOf(m)), v),
           LET old == sessions[m.key[1]]
           IN  old # None /\ old.boot = m.key[2] => Holds(due, old)
    PROVE  Holds(due, sessions'[m.key[1]])
<1> DEFINE p == Light(PacketOf(m))
           k == m.key
           n == m.count
           old == sessions[k[1]]
           new == sessions'[k[1]]
<1>1. Lightened(m) /\ k \in Keys /\ n \in Nat /\ m.first \in Nat
  BY LightParts, PacketParts
<1>2. /\ p.tag = k[1] /\ p.boot = k[2] /\ Len(p.cycles) = n
      /\ \A i \in 1..n : /\ m.first + i - 1 \in 0..(Length[k] - 1)
                         /\ p.cycles[i] \in Books!RawCycles
                         /\ p.cycles[i].seq = Row(m.first + i - 1).seq
                         /\ p.cycles[i].t = Row(m.first + i - 1).t
  BY <1>1 DEF Lightened
<1>3. /\ v \in [0..n -> Books!Sound]
      /\ IF old # None /\ old.boot = p.boot
         THEN v[0].cycles = old.cycles /\ v[0].last = old.last
         ELSE v[0].cycles = << >> /\ v[0].last = None
      /\ \A i \in 1..n : v[i] = Books!Absorb(v[i - 1], p.cycles[i])
      /\ new \in Books!Sound /\ new.last = v[n].last
      /\ Books!Ends(new.cycles, v[n].cycles)
  BY <1>2 DEF Books!TakesIn
<1>4. old # None /\ old.boot = p.boot => Holds(due, old)
  BY <1>2
<1> HIDE DEF p, old, new
<1> DEFINE P == {i \in 0..n : Holds(due, v[i])}
<1>5. 0 \in P
  <2>1. Holds(due, v[0])
    BY <1>3, <1>4, HoldsSame, HoldsNothing
  <2>2. QED
    BY <1>1, <2>1
<1>6. ASSUME NEW i \in 1..n, i - 1 \in P PROVE i \in P
  <2>1. i \in 0..n /\ v[i - 1] \in Books!Sound /\ Holds(due, v[i - 1])
    <3>1. i \in 0..n /\ i - 1 \in 0..n
      BY <1>1
    <3>2. v[i - 1] \in Books!Sound
      BY <1>3, <3>1
    <3>3. QED
      BY <1>6, <3>1, <3>2
  <2>2. v[i] = Books!Absorb(v[i - 1], p.cycles[i])
    BY <1>3
  <2> DEFINE x == m.first + i - 1
             c == p.cycles[i]
             s == v[i - 1]
  <2>3. /\ x \in due /\ c \in Books!RawCycles /\ c.seq = Row(x).seq /\ c.t = Row(x).t
        /\ due \in SUBSET (0..(Length[k] - 1)) /\ s \in Books!Sound /\ Holds(due, s)
    BY <1>2, <2>1
  <2> HIDE DEF x, c, s, k
  <2>4. Holds(due, Books!Absorb(s, c))
    BY <1>1, <2>3, AbsorbHolds
  <2>5. QED
    BY <2>1, <2>2, <2>4 DEF s, c
<1> HIDE DEF P
<1>7. \A i \in 0..n : i \in P
  BY <1>1, <1>5, <1>6, Induction
<1>8. n \in 0..n
  BY <1>1
<1>9. Holds(due, v[n]) /\ v[n] \in Books!Sound
  BY <1>3, <1>7, <1>8 DEF P
<1>10. Holds(due, new)
  BY <1>3, <1>9, HoldsEnd
<1>11. QED
  BY <1>10 DEF new

(* The hub's books balance, and what it holds of a session is due.          *)
Showing(k) ==
    LET s == sessions[k[1]] IN s # None /\ s.boot = k[2] => Holds(Due(k), s)

Shown == Books!HubInv /\ \A k \in Keys : Showing(k)

(* What the origin of the counters is all the time.                         *)
LEMMA HoldsKept ==
    ASSUME origin' = origin, NEW k \in Keys, Holds(Due(k)', sessions'[k[1]])
    PROVE  Holds(Due(k), sessions[k[1]])'
<1>1. \A i : Row(i)' = Row(i)
  BY DEF Row, Cycle
<1>2. \A a, b : TimeStep(a, b)' = TimeStep(a, b)
  BY <1>1 DEF TimeStep
<1>3. Bases' = Bases
  BY DEF Bases
<1>4. QED
  BY <1>1, <1>2, <1>3 DEF Holds, HoldsFrom, Genuine, Linked

(* What is due stays due: rows stay, the queue is written.                  *)
LEMMA DueStays ==
    ASSUME Sent, Handed, [Next]_vars, NEW k \in Keys
    PROVE  Due(k) \subseteq Due(k)'
<1>1. /\ net' \in SUBSET net /\ origin' = origin
      /\ Leaves \/ Writes \/ \E m \in net : Takes(m)
  BY StepKinds
<1>2. \A i : Row(i)' = Row(i)
  BY <1>1 DEF Row, Cycle
<1>3. CASE Leaves
  BY <1>2, <1>3 DEF Leaves, Due
<1>4. ASSUME NEW m \in net, Takes(m) PROVE Due(k) \subseteq Due(k)'
  <2>1. queue' = Append(queue, PacketOf(m)) /\ fixes' = fixes
    BY <1>4 DEF Takes
  <2>2. /\ Len(queue) \in Nat /\ Len(queue') = Len(queue) + 1
        /\ \A j \in 1..Len(queue) : queue'[j] = queue[j]
    <3>1. m \in Runs
      BY DEF Sent
    <3> DEFINE S == {PacketOf(r) : r \in Runs}
    <3>2. queue \in Seq(S) /\ PacketOf(m) \in S
      BY <3>1 DEF Handed
    <3> HIDE DEF S
    <3>3. QED
      BY <2>1, <3>2, AppendProperties, LenProperties
  <2>3. \A j \in 1..Len(queue) : j \in 1..Len(queue')
    BY <2>2
  <2>4. QED
    BY <1>2, <2>1, <2>2, <2>3 DEF Due
<1>5. CASE Writes
  <2>1. fixes'[k] = RowsAfter(k).fix
    BY <1>5 DEF Writes, Write
  <2>2. ASSUME NEW x \in Due(k) PROVE \E f \in RowsAfter(k).fix : f.seq = Row(x).seq
    <3>1. CASE \E f \in fixes[k] : f.seq = Row(x).seq
      <4>1. Row(x).seq \in {f.seq : f \in fixes[k]}
        BY <3>1
      <4>2. Row(x).seq \in {f.seq : f \in RowsAfter(k).fix}
        BY <4>1, RowsAfterHolds
      <4>3. QED
        BY <4>2
    <3>2. ASSUME NEW j \in 1..Len(queue), KeyOf(queue[j]) = k,
                 NEW i \in DOMAIN queue[j].cycles, queue[j].cycles[i].seq = Row(x).seq
          PROVE  \E f \in RowsAfter(k).fix : f.seq = Row(x).seq
      <4>1. PICK m \in Runs : queue[j] = PacketOf(m)
        <5> DEFINE S == {PacketOf(r) : r \in Runs}
        <5>1. queue \in Seq(S)
          BY DEF Handed
        <5> HIDE DEF S
        <5>2. queue[j] \in S
          BY <5>1, ElementOfSeq
        <5>3. QED
          BY <5>2 DEF S
      <4>2. /\ KeyOf(PacketOf(m)) = m.key /\ DOMAIN PacketOf(m).cycles = 1..m.count
        BY PacketParts DEF Handed
      <4>3. m.key = k /\ i \in 1..m.count
        BY <3>2, <4>1, <4>2
      <4>4. PacketOf(m).cycles[i].seq \in {f.seq : f \in RowsAfter(k).fix}
        BY <4>1, <4>3, RowsAfterHolds
      <4>5. QED
        BY <3>2, <4>1, <4>4
    <3>3. QED
      BY <3>1, <3>2 DEF Due
  <2>3. \A x \in Due(k) : x \in 0..(Length[k] - 1)
    BY DEF Due
  <2>4. QED
    BY <1>2, <2>1, <2>2, <2>3 DEF Due
<1>6. QED
  BY <1>1, <1>3, <1>4, <1>5

(* The cycles of a packet are due once it is queued.                        *)
LEMMA PacketDue ==
    ASSUME Sent, Handed, origin' = origin, NEW m \in net, Takes(m)
    PROVE  \A i \in 1..m.count : m.first + i - 1 \in Due(m.key)'
<1> SUFFICES ASSUME NEW i \in 1..m.count
             PROVE  m.first + i - 1 \in Due(m.key)'
  OBVIOUS
<1> DEFINE p == PacketOf(m)
           x == m.first + i - 1
           n == Len(queue)
<1>1. m \in Runs /\ Started
  BY DEF Sent
<1>2. /\ KeyOf(p) = m.key /\ m.key \in Keys /\ DOMAIN p.cycles = 1..m.count
  BY <1>1, PacketParts
<1>3. queue' = Append(queue, p)
  BY DEF Takes
<1>4. n \in Nat /\ Len(queue') = n + 1 /\ queue'[n + 1] = p
  <2> DEFINE S == {PacketOf(r) : r \in Runs}
  <2>1. queue \in Seq(S) /\ p \in S
    BY <1>1 DEF Handed
  <2> HIDE DEF S, p
  <2>2. QED
    BY <1>3, <2>1, AppendProperties, LenProperties
<1>5. x \in 0..(Length[m.key] - 1) /\ p.cycles[i].seq = Row(x).seq
  <2>1. x \in 0..(Length[m.key] - 1)
    BY <1>1, LightParts DEF Lightened
  <2>2. p.cycles[i] = Cycle(x)
    BY <1>1 DEF PacketOf
  <2>3. QED
    BY <2>1, <2>2 DEF Row, FixRow
<1>6. Row(x)' = Row(x)
  BY DEF Row, Cycle
<1>7. KeyOf(p) = KeyOf(queue'[n + 1]) /\ n + 1 \in 1..Len(queue')
  BY <1>4
<1> HIDE DEF p, x, n
<1>8. x \in Due(m.key)'
  BY <1>2, <1>4, <1>5, <1>6, <1>7 DEF Due, KeyOf
<1>9. QED
  BY <1>8 DEF x

(* At first there is nothing to show.                                       *)
LEMMA InitShown == Init => Shown
<1> SUFFICES ASSUME Init PROVE Shown
  OBVIOUS
<1>1. sessions = [t \in Tags |-> None]
  BY DEF Init, Hub!Init
<1>2. ASSUME NEW k \in Keys PROVE Showing(k)
  <2>1. k[1] \in Tags
    BY IngestAssumption
  <2>2. QED
    BY <1>1, <2>1 DEF Showing
<1>3. QED
  BY <1>2, HubBegins DEF Shown

(* What the hub holds of a session stays due, whatever is taken in by it.   *)
LEMMA TakesShown ==
    ASSUME Sent, Handed, Shown, [Next]_vars, origin' = origin, NEW m \in net, Takes(m),
           Hub!Publish(Light(PacketOf(m)))
    PROVE  Shown'
<1> DEFINE p == Light(PacketOf(m))
<1>1. m \in Runs /\ Started
  BY DEF Sent
<1>2. Lightened(m)
  BY <1>1, LightParts
<1>3. p \in Arriving /\ p.tag = m.key[1] /\ p.boot = m.key[2]
  BY <1>2 DEF Lightened
<1>4. Books!HubInv /\ Books!Publish(p)
  BY SamePublish DEF Shown
<1> HIDE DEF p
<1>5. Books!HubInv'
  BY <1>3, <1>4, HubOf, Books!PublishKeeps
<1>6. (\E v : Books!TakesIn(p, v)) /\ Books!OthersShrink(p)
  BY <1>3, <1>4, HubOf, Books!PublishTakesIn
<1>7. ASSUME NEW k \in Keys, sessions'[k[1]] # None, sessions'[k[1]].boot = k[2]
      PROVE  Holds(Due(k), sessions[k[1]])'
  <2> DEFINE old == sessions[k[1]]
             new == sessions'[k[1]]
             more == Due(k)'
  <2>1. Due(k) \subseteq more
    BY DueStays
  <2>2. old # None /\ old.boot = k[2] => Holds(more, old)
    <3> SUFFICES ASSUME old # None, old.boot = k[2] PROVE Holds(more, old)
      OBVIOUS
    <3>1. Holds(Due(k), old)
      BY DEF Shown, Showing
    <3> HIDE DEF old, more
    <3>2. QED
      BY <2>1, <3>1, HoldsMore
  <2>3. Holds(more, new)
    <3>1. CASE k[1] = p.tag
      <4>1. PICK v : Books!TakesIn(p, v)
        BY <1>6
      <4>2. new.boot = p.boot
        BY <3>1, <4>1 DEF Books!TakesIn
      <4>3. k = m.key
        <5>1. m.key \in Keys
          BY <1>1, PacketParts
        <5>2. k[1] = m.key[1] /\ k[2] = m.key[2]
          BY <1>3, <1>7, <3>1, <4>2
        <5>3. k \in Tags \X {j[2] : j \in Keys} /\ m.key \in Tags \X {j[2] : j \in Keys}
          BY <5>1, IngestAssumption
        <5>4. k = <<k[1], k[2]>> /\ m.key = <<m.key[1], m.key[2]>>
          BY <5>3
        <5>5. QED
          BY <5>2, <5>4
      <4>4. \A i \in 1..m.count : m.first + i - 1 \in more
        BY <4>3, PacketDue
      <4>5. more \in SUBSET (0..(Length[k] - 1))
        BY DEF Due
      <4> HIDE DEF more
      <4>6. Holds(more, sessions'[m.key[1]])
        BY <1>1, <2>2, <4>1, <4>3, <4>4, <4>5, FillHolds DEF p
      <4>7. QED
        BY <4>3, <4>6
    <3>2. CASE k[1] # p.tag
      <4>1. k[1] \in Tags
        BY IngestAssumption
      <4>2. /\ old # None /\ old \in Books!Sound /\ new \in Books!Sound
            /\ Books!Shrunk(old, new)
        BY <1>6, <1>7, <3>2, <4>1 DEF Books!OthersShrink
      <4>3. new.boot = old.boot /\ new.last = old.last /\ Books!Ends(new.cycles, old.cycles)
        BY <4>2 DEF Books!Shrunk, Books!SameSession
      <4>4. Holds(more, old)
        BY <1>7, <2>2, <4>2, <4>3
      <4> HIDE DEF old, new, more
      <4>5. QED
        BY <4>2, <4>3, <4>4, HoldsEnd
    <3>3. QED
      BY <3>1, <3>2
  <2>4. QED
    BY <2>3, HoldsKept
<1>8. QED
  BY <1>5, <1>7 DEF Shown, Showing

(* Nothing new comes to the hub.                                            *)
LEMMA IdleShown ==
    ASSUME Sent, Handed, Shown, [Next]_vars, origin' = origin, UNCHANGED hubVars
    PROVE  Shown'
<1>1. UNCHANGED Books!vars /\ sessions' = sessions
  BY DEF hubVars, Books!vars
<1>2. Books!HubInv'
  BY <1>1, HubOf, Books!NextKeeps DEF Shown
<1>3. ASSUME NEW k \in Keys, sessions'[k[1]] # None, sessions'[k[1]].boot = k[2]
      PROVE  Holds(Due(k), sessions[k[1]])'
  <2> DEFINE old == sessions[k[1]]
             more == Due(k)'
  <2>1. Holds(Due(k), old) /\ Due(k) \subseteq more
    BY <1>1, <1>3, DueStays DEF Shown, Showing
  <2> HIDE DEF old, more
  <2>2. Holds(more, old)
    BY <2>1, HoldsMore
  <2>3. Holds(Due(k)', sessions'[k[1]])
    BY <1>1, <2>2 DEF old, more
  <2>4. QED
    BY <2>3, HoldsKept
<1>4. QED
  BY <1>2, <1>3 DEF Shown, Showing

(* Every step keeps what the hub holds due, and its books in order.         *)
LEMMA NextShown ==
    ASSUME Sent, Handed, Shown, [Next]_vars
    PROVE  Shown'
<1>1. /\ net' \in SUBSET net /\ origin' = origin
      /\ Leaves \/ Writes \/ \E m \in net : Takes(m)
  BY StepKinds
<1>2. CASE Leaves \/ Writes
  BY <1>1, <1>2, IdleShown DEF Leaves, Writes
<1>3. ASSUME NEW m \in net, Takes(m) PROVE Shown'
  <2>1. Hub!Publish(Light(PacketOf(m))) \/ Hub!PublishStale(Light(PacketOf(m)))
    BY <1>3 DEF Takes, ToHub
  <2>2. CASE Hub!Publish(Light(PacketOf(m)))
    BY <1>1, <1>3, <2>2, TakesShown
  <2>3. CASE Hub!PublishStale(Light(PacketOf(m)))
    <3>1. UNCHANGED hubVars
      BY <2>3 DEF Hub!PublishStale, Hub!vars, hubVars
    <3>2. QED
      BY <1>1, <3>1, IdleShown
  <2>4. QED
    BY <2>1, <2>2, <2>3
<1>4. QED
  BY <1>1, <1>2, <1>3

-----------------------------------------------------------------------------
(* What was shown live *)

(* The j-th row of a view is the one of a live cycle counted from b.        *)
Replayed(v, b, c, j) ==
    /\ j \in 1..v.n /\ v.at[j] = c.n - b /\ Index(c.n % SeqWrap) = v.at[j]
    /\ \A i \in 1..v.n : Column(v, i).seq % SeqWrap = c.n % SeqWrap <=> i = j
    /\ c.dt # None => Column(v, j).dt = c.dt

(* With an empty queue all that is due is stored.                           *)
LEMMA DueStored ==
    ASSUME Handed, queue = << >>, NEW k \in Keys, NEW v, IsView(k, v)
    PROVE  Due(k) \subseteq v.cycles
<1> SUFFICES ASSUME NEW x \in Due(k) PROVE x \in v.cycles
  OBVIOUS
<1>1. 1..Len(queue) = {}
  BY DEF Handed
<1>2. PICK f \in fixes[k] : f.seq = Row(x).seq
  BY <1>1 DEF Due
<1>3. PICK y \in v.cycles : f = Row(y)
  BY DEF IsView
<1>4. x \in 0..(Length[k] - 1) /\ y \in 0..(Length[k] - 1)
  BY DEF Due, IsView
<1>5. x = y
  BY <1>2, <1>3, <1>4, RowOfOne
<1>6. QED
  BY <1>5

(* A live cycle has a row, with its period.                                 *)
LEMMA CycleReplayed ==
    ASSUME Handed, NEW k \in Keys, NEW v, IsView(k, v), NEW b \in Bases,
           NEW due \in SUBSET v.cycles, NEW c, c.n \in Int, Genuine(b, due, c)
    PROVE  \E j : Replayed(v, b, c, j)
<1>0. Started
  BY DEF Handed
<1>1. /\ v.n \in Nat /\ v.at \in [1..v.n -> v.cycles] /\ v.at \in [1..v.n -> Int]
      /\ v.cycles \in SUBSET (0..(Length[k] - 1)) /\ Increasing(v.at, v.n)
      /\ \A x \in v.cycles : \E i \in 1..v.n : v.at[i] = x
  BY ViewParts
<1>2. b \in Int
  BY <1>0, BaseInteger
<1>3. PICK x \in 0..(Length[k] - 1) : x = c.n - b /\ x \in v.cycles
  BY <1>1 DEF Genuine
<1>4. c.n = b + x /\ x \in Int
  BY <1>2, <1>3
<1>5. (b + x) % SeqWrap = Row(x).seq /\ Index((b + x) % SeqWrap) = x
  BY <1>0, BaseIndex
<1>6. PICK j \in 1..v.n : v.at[j] = x
  BY <1>1, <1>3
<1>7. ASSUME NEW i \in 1..v.n PROVE Column(v, i).seq % SeqWrap = c.n % SeqWrap <=> i = j
  <2>1. Column(v, i).seq % SeqWrap = Row(v.at[i]).seq
    BY ColumnIs
  <2>2. v.at[i] \in 0..(Length[k] - 1)
    BY <1>1
  <2>3. Row(v.at[i]).seq = Row(x).seq <=> v.at[i] = x
    BY <2>2, RowOfOne
  <2>4. v.at[i] = v.at[j] <=> i = j
    BY <1>1, <1>6, OrderOfPlaces
  <2>5. QED
    BY <1>4, <1>5, <1>6, <2>1, <2>3, <2>4
<1>8. ASSUME c.dt # None PROVE Column(v, j).dt = c.dt
  <2>1. c.n - b - 1 \in v.cycles /\ c.dt = TimeStep(c.n - b - 1, c.n - b)
    BY <1>8 DEF Genuine
  <2>2. x - 1 \in v.cycles /\ c.dt = TimeStep(x - 1, x)
    BY <1>3, <2>1
  <2>3. \E h \in 1..v.n : v.at[h] = v.at[j] - 1
    BY <1>1, <1>6, <2>2
  <2>4. Lined(v)[j].dt # None
    BY <2>3, PeriodShown
  <2>5. /\ Column(v, j).dt = Lined(v)[j].dt
        /\ Lined(v)[j].dt = IF j > 1 /\ v.at[j] - v.at[j - 1] = 1
                            THEN v.t[j] - v.t[j - 1] ELSE None
    BY ColumnIs
  <2>6. j > 1 /\ v.at[j] - v.at[j - 1] = 1 /\ Lined(v)[j].dt = v.t[j] - v.t[j - 1]
    BY <2>4, <2>5
  <2>7. j \in 2..v.n /\ j - 1 \in 1..v.n
    BY <1>1, <2>6
  <2>8. v.t[j] - v.t[j - 1] = TimeStep(v.at[j - 1], v.at[j])
    BY <2>7 DEF IsView, Spaced
  <2>9. v.at[j - 1] = x - 1
    <3>1. PICK a \in Int : a = v.at[j - 1]
      BY <1>1, <2>7
    <3>2. x - a = 1
      BY <1>6, <2>6, <3>1
    <3>3. QED
      BY <1>4, <3>1, <3>2
  <2>10. QED
    BY <1>6, <2>2, <2>5, <2>6, <2>8, <2>9
<1>9. Replayed(v, b, c, j)
  BY <1>3, <1>4, <1>5, <1>6, <1>7, <1>8 DEF Replayed
<1>10. QED
  BY <1>9

(* If all neighbours are close enough, live times lie apart as the cycles.  *)
LEMMA LiveTimes ==
    ASSUME Started, NEW k \in Keys, NEW due \in SUBSET (0..(Length[k] - 1)),
           NEW s \in Books!Sound, NEW b \in Bases, HoldsFrom(b, due, s),
           \A i \in 2..Len(s.cycles) :
              2 * ((s.cycles[i].n - b) - (s.cycles[i - 1].n - b)) < TimeWrap
    PROVE  \A i \in 1..Len(s.cycles) :
              s.cycles[i].t - s.cycles[1].t = s.cycles[i].n - s.cycles[1].n
<1> DEFINE n == Len(s.cycles)
           shown == s.cycles
<1>1. n \in Nat /\ \A i \in 1..n : shown[i].n \in Int /\ shown[i].t \in Int
  BY BufferType
<1>2. /\ \A i \in 1..n : Genuine(b, due, shown[i])
      /\ \A i \in 2..n : Linked(b, shown[i - 1], shown[i])
  BY DEF HoldsFrom
<1>3. \A i \in 2..n : 2 * ((shown[i].n - b) - (shown[i - 1].n - b)) < TimeWrap
  OBVIOUS
<1>4. b \in Int /\ due \in SUBSET Nat
  <2>1. PICK l \in Int : l = Length[k] - 1
    BY IngestAssumption
  <2>2. QED
    BY <2>1, BaseInteger
<1> HIDE DEF n, shown
<1>5. ASSUME NEW i \in 2..n PROVE shown[i].t - shown[i - 1].t = shown[i].n - shown[i - 1].n
  <2>1. i \in 1..n /\ i - 1 \in 1..n
    BY <1>1
  <2>2. PICK x \in Nat : x = shown[i].n - b
    <3>1. shown[i].n - b \in due
      BY <1>2, <2>1 DEF Genuine
    <3>2. QED
      BY <1>4, <3>1
  <2>3. PICK y \in Nat : y = shown[i - 1].n - b
    <3>1. shown[i - 1].n - b \in due
      BY <1>2, <2>1 DEF Genuine
    <3>2. QED
      BY <1>4, <3>1
  <2>4. PICK m \in Int, l \in Int : m = shown[i].n /\ l = shown[i - 1].n
    BY <1>1, <2>1
  <2>5. l < m /\ shown[i].t - shown[i - 1].t = TimeStep(y, x)
    BY <1>2, <2>2, <2>3, <2>4 DEF Linked
  <2>6. y < x /\ 2 * (x - y) < TimeWrap /\ x - y = m - l
    <3>1. x = m - b /\ y = l - b
      BY <2>2, <2>3, <2>4
    <3>2. 2 * (x - y) < TimeWrap
      BY <1>3, <2>2, <2>3
    <3>3. QED
      BY <1>4, <2>5, <3>1, <3>2
  <2>7. TimeStep(y, x) = x - y
    BY <2>6, StepIs
  <2>8. QED
    BY <2>4, <2>5, <2>6, <2>7
<1> DEFINE P == {i \in 0..n : i >= 1 => shown[i].t - shown[1].t = shown[i].n - shown[1].n}
<1>6. 0 \in P
  BY <1>1
<1>7. ASSUME NEW i \in 1..n, i - 1 \in P PROVE i \in P
  <2>1. CASE i = 1
    <3>1. PICK a \in Int, c \in Int : a = shown[1].t /\ c = shown[1].n
      BY <1>1, <2>1
    <3>2. a - a = c - c
      OBVIOUS
    <3>3. QED
      BY <2>1, <3>1, <3>2
  <2>2. CASE i # 1
    <3>1. i \in 2..n /\ 1 \in 1..n /\ i - 1 \in 1..n
      BY <1>1, <2>2
    <3>2. shown[i - 1].t - shown[1].t = shown[i - 1].n - shown[1].n
      BY <1>7, <3>1
    <3>3. shown[i].t - shown[i - 1].t = shown[i].n - shown[i - 1].n
      BY <1>5, <3>1
    <3>4. PICK a \in Int, c \in Int, d \in Int :
            a = shown[1].t /\ c = shown[i - 1].t /\ d = shown[i].t
      BY <1>1, <3>1
    <3>5. PICK e \in Int, f \in Int, g \in Int :
            e = shown[1].n /\ f = shown[i - 1].n /\ g = shown[i].n
      BY <1>1, <3>1
    <3>6. c - a = f - e
      BY <3>2, <3>4, <3>5
    <3>7. d - c = g - f
      BY <3>3, <3>4, <3>5
    <3>8. d - a = g - e
      BY <3>6, <3>7
    <3>9. QED
      BY <3>4, <3>5, <3>8
  <2>3. QED
    BY <2>1, <2>2
<1>8. \A i \in 0..n : i \in P
  <2> HIDE DEF P
  <2>1. QED
    BY <1>1, <1>6, <1>7, Induction
<1>9. QED
  BY <1>1, <1>8 DEF n, shown

(* Columns with another number and other times.                             *)
Moved(n, t, dt, m, u, e, f) ==
    FixColumn(m, u, e, f) = [FixColumn(n, t, dt, f) EXCEPT !.seq = m, !.t = u, !.dt = e]

(* All but seq, t and dt is that of the fix.                                *)
LEMMA Shifted ==
    ASSUME NEW n, NEW t, NEW dt, NEW m, NEW u, NEW e, NEW f
    PROVE  Moved(n, t, dt, m, u, e, f)
<1>1. PICK r : r = FixColumn(n, t, dt, f)
  OBVIOUS
<1>2. [r EXCEPT !.seq = m, !.t = u, !.dt = e]
         = [x \in DOMAIN r |-> IF x = "seq" THEN m ELSE IF x = "t" THEN u
                               ELSE IF x = "dt" THEN e ELSE r[x]]
  OBVIOUS
<1>3. FixColumn(m, u, e, f)
         = [x \in DOMAIN r |-> IF x = "seq" THEN m ELSE IF x = "t" THEN u
                               ELSE IF x = "dt" THEN e ELSE r[x]]
  BY <1>1 DEF FixColumn
<1>4. QED
  BY <1>1, <1>2, <1>3 DEF Moved

(* Each live cycle has its row, as far from the first as it was live.       *)
LEMMA AnswersLive == Answerable /\ Shown => ReplayShowsLive
<1> SUFFICES ASSUME Answerable, Shown, NEW k \in Written,
                    sessions[k[1]] # None, sessions[k[1]].boot = k[2],
                    NEW i \in DOMAIN sessions[k[1]].cycles
             PROVE  LET s == sessions[k[1]]
                        shown == s.cycles
                        rows == All(k)
                        raw(c) == Cycle(Index(c.n % SeqWrap))
                        like(c) == FixColumn(c.n, c.t, c.dt, FixRow(raw(c)))
                        at(c) == CHOOSE h \in DOMAIN rows : rows[h].seq % SeqWrap = c.n % SeqWrap
                        live == [h \in DOMAIN shown |-> [seq |-> shown[h].n, t |-> shown[h].t]]
                        row == rows[at(shown[i])]
                        first == rows[at(shown[1])]
                    IN  /\ row.seq - first.seq = shown[i].n - shown[1].n
                        /\ (Dense(live) /\ Dense(rows)) =>
                              row.t - first.t = shown[i].t - shown[1].t
                        /\ shown[i].dt # None => row.dt = shown[i].dt
                        /\ row = [like(shown[i]) EXCEPT !.seq = row.seq, !.t = row.t,
                                                        !.dt = row.dt]
  BY Zenon DEF ReplayShowsLive
<1> DEFINE s == sessions[k[1]]
           shown == s.cycles
           n == Len(shown)
           live == [h \in DOMAIN shown |-> [seq |-> shown[h].n, t |-> shown[h].t]]
           like(c) == FixColumn(c.n, c.t, c.dt, FixRow(Cycle(Index(c.n % SeqWrap))))
           at(c) == CHOOSE h \in DOMAIN All(k) : All(k)[h].seq % SeqWrap = c.n % SeqWrap
<1>1. Handed /\ Started /\ k \in Keys /\ queue = << >>
  BY WrittenIs DEF Written
<1>2. PICK v : IsView(k, v)
  BY <1>1, ViewExists
<1>3. PICK rows : rows = All(k) /\ rows = [h \in 1..v.n |-> Column(v, h)]
  BY <1>1, <1>2, AllIs
<1>4. /\ v.n \in Nat /\ v.at \in [1..v.n -> Int] /\ v.base \in Int /\ v.t \in [1..v.n -> Int]
      /\ v.cycles \in SUBSET (0..(Length[k] - 1))
      /\ DOMAIN rows = 1..v.n /\ Len(rows) = v.n
  BY <1>1, <1>2, <1>3, ViewParts
<1>5. Due(k) \in SUBSET v.cycles /\ Due(k) \in SUBSET (0..(Length[k] - 1))
  BY <1>1, <1>2, <1>4, DueStored
<1>6. s \in Books!Sound
  <2>1. k[1] \in Tags
    BY <1>1, IngestAssumption
  <2>2. QED
    BY <2>1 DEF Shown, Books!HubInv, Books!HubTypes, Books!Buffers
<1>7. PICK b \in Bases : HoldsFrom(b, Due(k), s)
  BY <1>1 DEF Shown, Showing, Holds
<1>8. /\ n \in Nat /\ DOMAIN shown = 1..n
      /\ \A h \in 1..n : shown[h].n \in Int /\ shown[h].t \in Int
  BY <1>6, BufferType, LenProperties
<1>9. b \in Int
  BY <1>1, BaseInteger
<1> HIDE DEF s
<1>10. ASSUME NEW h \in 1..n
       PROVE  \E j : Replayed(v, b, shown[h], j) /\ at(shown[h]) = j
  <2>1. Genuine(b, Due(k), shown[h])
    BY <1>7 DEF HoldsFrom
  <2>2. PICK c : c = shown[h] /\ c.n \in Int
    BY <1>8
  <2>3. PICK j : Replayed(v, b, c, j)
    <3> HIDE DEF shown
    <3>1. QED
      BY <1>1, <1>2, <1>5, <2>1, <2>2, CycleReplayed
  <2>4. \A g \in DOMAIN rows : rows[g].seq % SeqWrap = c.n % SeqWrap <=> g = j
    BY <1>3, <1>4, <2>3 DEF Replayed
  <2>5. j \in DOMAIN rows
    BY <1>4, <2>3 DEF Replayed
  <2>6. at(c) = j
    BY <1>3, <2>4, <2>5
  <2>7. QED
    BY <2>2, <2>3, <2>6
<1>11. i \in 1..n /\ 1 \in 1..n
  BY <1>8 DEF s
<1>12. PICK j : Replayed(v, b, shown[i], j) /\ at(shown[i]) = j
  BY <1>10, <1>11
<1>13. PICK f : Replayed(v, b, shown[1], f) /\ at(shown[1]) = f
  BY <1>10, <1>11
<1> HIDE DEF n, at
<1>14. /\ j \in 1..v.n /\ v.at[j] = shown[i].n - b
       /\ f \in 1..v.n /\ v.at[f] = shown[1].n - b
       /\ Index(shown[i].n % SeqWrap) = v.at[j]
       /\ shown[i].dt # None => rows[j].dt = shown[i].dt
  BY <1>3, <1>12, <1>13 DEF Replayed
<1>15. PICK c \in Int, d \in Int : c = shown[i].n /\ d = shown[1].n
  BY <1>8, <1>11
<1>16. v.at[j] - v.at[f] = c - d
  BY <1>9, <1>14, <1>15
<1>17. /\ rows[j] = Column(v, j) /\ rows[f] = Column(v, f)
       /\ rows[j].seq = v.base + v.at[j] /\ rows[f].seq = v.base + v.at[f]
       /\ rows[j].t = v.t[j] /\ rows[f].t = v.t[f]
  BY <1>1, <1>2, <1>3, <1>14, ColumnIs
<1>18. rows[j].seq - rows[f].seq = shown[i].n - shown[1].n
  <2>1. PICK x \in Int, y \in Int : x = v.at[j] /\ y = v.at[f]
    BY <1>4, <1>14
  <2>2. PICK base \in Int : base = v.base
    BY <1>4
  <2>3. x - y = c - d
    BY <1>16, <2>1
  <2>4. (base + x) - (base + y) = c - d
    BY <2>3
  <2>5. QED
    BY <1>15, <1>17, <2>1, <2>2, <2>4
<1>19. ASSUME Dense(live), Dense(rows)
       PROVE  rows[j].t - rows[f].t = shown[i].t - shown[1].t
  <2>1. ASSUME NEW h \in 2..v.n PROVE 2 * (v.at[h] - v.at[h - 1]) < TimeWrap
    <3>1. h \in 1..v.n /\ h - 1 \in 1..v.n
      BY <1>4
    <3>2. 2 * (Index(rows[h].seq % SeqWrap) - Index(rows[h - 1].seq % SeqWrap)) < TimeWrap
      BY <1>4, <1>19 DEF Dense
    <3>3. Index(rows[h].seq % SeqWrap) = v.at[h] /\ Index(rows[h - 1].seq % SeqWrap) = v.at[h - 1]
      BY <1>1, <1>2, <1>3, <3>1, ColumnIs
    <3>4. QED
      BY <3>2, <3>3
  <2>2. v.t[j] - v.t[f] = v.at[j] - v.at[f]
    BY <1>1, <1>2, <1>14, <2>1, TimesAgree
  <2>3. ASSUME NEW h \in 2..n
        PROVE  2 * ((shown[h].n - b) - (shown[h - 1].n - b)) < TimeWrap
    <3>1. h \in 1..n /\ h - 1 \in 1..n
      BY <1>8
    <3>2. Len(live) = n /\ live[h].seq = shown[h].n /\ live[h - 1].seq = shown[h - 1].n
      BY <1>8, <3>1, LenProperties
    <3>3. 2 * (Index(live[h].seq % SeqWrap) - Index(live[h - 1].seq % SeqWrap)) < TimeWrap
      BY <1>19, <3>2 DEF Dense
    <3>4. \A g \in 1..n : Index(shown[g].n % SeqWrap) = shown[g].n - b
      BY <1>10 DEF Replayed
    <3>5. QED
      BY <3>1, <3>2, <3>3, <3>4
  <2>4. \A h \in 1..n : shown[h].t - shown[1].t = shown[h].n - shown[1].n
    BY <1>1, <1>5, <1>6, <1>7, <2>3, LiveTimes DEF n
  <2>5. shown[i].t - shown[1].t = c - d
    BY <1>11, <1>15, <2>4
  <2>6. QED
    BY <1>16, <1>17, <2>2, <2>5
<1>20. rows[j] = [like(shown[i]) EXCEPT !.seq = rows[j].seq, !.t = rows[j].t,
                                        !.dt = rows[j].dt]
  <2>1. Lined(v)[j].row = FixRow(Cycle(Index(shown[i].n % SeqWrap)))
    BY <1>1, <1>2, <1>14, ColumnIs DEF Row
  <2>2. PICK r : r = Lined(v)[j].row
    OBVIOUS
  <2>3. PICK m, u, e : rows[j] = FixColumn(m, u, e, r)
    BY <1>17, <2>2 DEF Column
  <2>4. rows[j].seq = m /\ rows[j].t = u /\ rows[j].dt = e
    BY <2>3 DEF FixColumn
  <2>5. like(shown[i]) = FixColumn(shown[i].n, shown[i].t, shown[i].dt, r)
    BY <2>1, <2>2
  <2> HIDE DEF like
  <2>6. FixColumn(m, u, e, r) = [like(shown[i]) EXCEPT !.seq = m, !.t = u, !.dt = e]
    <3>1. PICK q, y, z : q = shown[i].n /\ y = shown[i].t /\ z = shown[i].dt
      OBVIOUS
    <3>2. Moved(q, y, z, m, u, e, r)
      BY Shifted
    <3>3. QED
      BY <2>5, <3>1, <3>2 DEF Moved
  <2>7. QED
    BY <2>3, <2>4, <2>6
<1>21. at(shown[i]) = j /\ at(shown[1]) = f
  BY <1>12, <1>13
<1>22. /\ All(k)[at(shown[i])] = rows[j] /\ All(k)[at(shown[1])] = rows[f]
       /\ All(k) = rows
  BY <1>3, <1>21
<1> HIDE DEF live, like
<1>23. LET row == All(k)[at(shown[i])]
           first == All(k)[at(shown[1])]
       IN  /\ row.seq - first.seq = shown[i].n - shown[1].n
           /\ (Dense(live) /\ Dense(All(k))) => row.t - first.t = shown[i].t - shown[1].t
           /\ shown[i].dt # None => row.dt = shown[i].dt
           /\ row = [like(shown[i]) EXCEPT !.seq = row.seq, !.t = row.t, !.dt = row.dt]
  BY <1>14, <1>18, <1>19, <1>20, <1>22
<1>24. QED
  BY <1>23, Zenon DEF live, like, at, s

(* What was shown live is shown again in replay (live/hub.py, _append and   *)
(* publish, against query.py, _normalized and track): the hub unwraps from  *)
(* cycle to cycle and drops what comes late, the query unwraps from the     *)
(* extremes; they agree up to a shift of seq and t as a whole.              *)
THEOREM ReplayedAsShown == Spec => []ReplayShowsLive
<1>1. Answerable /\ Shown => ReplayShowsLive
  BY AnswersLive
<1>2. Answerable /\ Shown /\ [Next]_vars => (Answerable /\ Shown)'
  BY NextAnswerable, NextShown DEF Answerable
<1>3. Init => Answerable /\ Shown
  BY InitAnswerable, InitShown
<1>4. QED
  BY <1>1, <1>2, <1>3, PTL DEF Spec

=============================================================================
