---------------------------- MODULE LiveHubProofs ----------------------------
(***************************************************************************)
(* Proofs about LiveHub, for all tags, boots, packets, pages and limits:   *)
(* the books of the ring buffers balance within the limits, the pages know *)
(* what the hub knows of their sessions and continue what it has sent, a   *)
(* hello reaches its session, and a boot is replaced for good.             *)
(*                                                                         *)
(* The order: folds, which FoldLeft and the totals are; sequences that end *)
(* others; the ring buffer and its limits; what a page does with a frame;  *)
(* the stages of a handler, each of which tells the pages what it did; the *)
(* invariant, handler by handler; the properties; and what publish keeps   *)
(* of a packet, cycle by cycle, for the proofs of Ingest.                  *)
(***************************************************************************)
EXTENDS LiveHub, SequenceTheorems, FiniteSetTheorems, WellFoundedInduction, TLAPS

-----------------------------------------------------------------------------
(* Numbers *)

(* A nonempty set of naturals has the least element Min chooses. *)
LEMMA MinProperties ==
    ASSUME NEW T \in SUBSET Nat, T # {}
    PROVE  Min(T) \in T /\ \A y \in T : Min(T) <= y
<1>1. PICK x \in T : \A y \in T : ~ (<<y, x>> \in OpToRel(<, Nat))
  BY NatLessThanWellFounded, WFMin
<1>2. ASSUME NEW y \in T PROVE x <= y
  <2>1. <<y, x>> \in OpToRel(<, Nat) <=> y < x
    BY DEF OpToRel
  <2>2. ~(y < x)
    BY <1>1, <2>1
  <2>3. QED
    BY <2>2
<1>3. QED
  BY <1>2 DEF Min

(* Induction up to n, over the set of the numbers that have the property. *)
LEMMA Induction ==
    ASSUME NEW n \in Nat, NEW P,
           0 \in P, \A i \in 1..n : i - 1 \in P => i \in P
    PROVE  \A i \in 0..n : i \in P
<1> DEFINE T == {i \in 0..n : i \notin P}
<1> SUFFICES ASSUME T # {} PROVE FALSE
  OBVIOUS
<1>1. T \in SUBSET Nat
  OBVIOUS
<1>2. Min(T) \in T /\ \A y \in T : Min(T) <= y
  BY <1>1, MinProperties
<1>3. PICK m \in T : \A y \in T : m <= y
  BY <1>2
<1>4. m \in 1..n /\ m \notin P
  BY <1>3
<1>5. m - 1 \notin T
  BY <1>3, <1>4
<1>6. QED
  BY <1>4, <1>5

(* A nonempty set of positions has the greatest element Max chooses. *)
LEMMA MaxProperties ==
    ASSUME NEW n \in Nat, NEW T \in SUBSET (1..n), T # {}
    PROVE  Max(T) \in T /\ \A y \in T : Max(T) >= y
<1> DEFINE U == {n - y : y \in T}
<1>1. U \in SUBSET Nat /\ U # {}
  <2>1. \A y \in T : n - y \in Nat
    OBVIOUS
  <2>2. QED
    BY <2>1
<1>2. Min(U) \in U /\ \A z \in U : Min(U) <= z
  BY <1>1, MinProperties
<1>3. PICK x \in T : Min(U) = n - x
  BY <1>2
<1>4. ASSUME NEW y \in T PROVE x >= y
  <2>1. n - y \in U
    OBVIOUS
  <2>2. n - x <= n - y
    BY <1>2, <1>3, <2>1
  <2>3. QED
    BY <2>2
<1>5. QED
  BY <1>4 DEF Max

(* The greatest of the first k places, and what is left without it. *)
LEMMA PrefixMax ==
    ASSUME NEW n \in Nat, NEW k \in 1..n
    PROVE  /\ 1..k \in SUBSET (1..n) /\ 1..k # {}
           /\ Max(1..k) = k /\ (1..k) \ {Max(1..k)} = 1..(k - 1)
<1>1. 1..k \in SUBSET (1..n) /\ k \in 1..k
  OBVIOUS
<1>2. Max(1..k) \in 1..k /\ \A y \in 1..k : Max(1..k) >= y
  BY <1>1, MaxProperties
<1>3. Max(1..k) = k
  BY <1>1, <1>2
<1>4. QED
  BY <1>1, <1>3

-----------------------------------------------------------------------------
(* Folds *)

(* FoldLeft chooses a function of the sets of places, `step' being what the *)
(* item at a place does.                                                    *)
ByPlaces(f, n, base, step) ==
    \A t \in SUBSET (1..n) :
       f[t] = IF t = {} THEN base ELSE step[Max(t)][f[t \ {Max(t)}]]

OverPlaces(it, n, A, base, step) ==
    /\ it[{}] = base
    /\ \A t \in SUBSET (1..n) :
          t # {} /\ it[t \ {Max(t)}] \in A => it[t] = step[Max(t)][it[t \ {Max(t)}]]

(* What becomes of `base', one item after the other.                        *)
IsRun(v, n, base, step, end) ==
    /\ v[0] = base
    /\ \A k \in 1..n : v[k] = step[k][v[k - 1]]
    /\ v[n] = end

(* A fold over the places of a sequence exists as a function of the sets of *)
(* places still to be folded.                                               *)
LEMMA FoldExists ==
    ASSUME NEW n \in Nat, NEW A, NEW base \in A, NEW step \in [1..n -> [A -> A]]
    PROVE  \E f \in [SUBSET (1..n) -> A] : ByPlaces(f, n, base, step)
<1> USE DEF ByPlaces
<1> DEFINE Right(f, m) ==
             /\ f \in [SUBSET (1..m) -> A]
             /\ \A t \in SUBSET (1..m) :
                  f[t] = IF t = {} THEN base ELSE step[Max(t)][f[t \ {Max(t)}]]
           P == {m \in 0..n : \E f : Right(f, m)}
<1>1. 0 \in P
  <2> DEFINE f == [t \in SUBSET (1..0) |-> base]
  <2>1. SUBSET (1..0) = {{}}
    OBVIOUS
  <2>2. Right(f, 0)
    BY <2>1
  <2>3. \E h : Right(h, 0)
    <3> HIDE DEF Right, f
    <3>1. QED
      BY <2>2
  <2> HIDE DEF Right
  <2>4. QED
    BY <2>3
<1>2. ASSUME NEW m \in 1..n, m - 1 \in P PROVE m \in P
  <2>1. PICK f : Right(f, m - 1)
    BY <1>2
  <2> DEFINE g == [t \in SUBSET (1..m) |->
                     IF m \in t THEN step[m][f[t \ {m}]] ELSE f[t]]
  <2>2. \A t \in SUBSET (1..m) : m \in t => Max(t) = m /\ t \ {m} \in SUBSET (1..(m - 1))
    <3> SUFFICES ASSUME NEW t \in SUBSET (1..m), m \in t
                 PROVE  Max(t) = m /\ t \ {m} \in SUBSET (1..(m - 1))
      OBVIOUS
    <3>1. m \in Nat /\ t # {}
      OBVIOUS
    <3>2. Max(t) \in t /\ \A y \in t : Max(t) >= y
      BY <3>1, MaxProperties
    <3>3. Max(t) \in 1..m /\ Max(t) >= m
      BY <3>2
    <3>4. Max(t) = m
      BY <3>1, <3>3
    <3>5. t \ {m} \in SUBSET (1..(m - 1))
      OBVIOUS
    <3>6. QED
      BY <3>4, <3>5
  <2>3. \A t \in SUBSET (1..m) : m \notin t => t \in SUBSET (1..(m - 1))
    OBVIOUS
  <2>4. \A t \in SUBSET (1..m) : g[t] \in A
    <3> SUFFICES ASSUME NEW t \in SUBSET (1..m) PROVE g[t] \in A
      OBVIOUS
    <3>1. CASE m \in t
      <4>1. f[t \ {m}] \in A
        BY <2>1, <2>2, <3>1
      <4>2. step[m][f[t \ {m}]] \in A
        BY <4>1
      <4>3. QED
        BY <3>1, <4>2
    <3>2. CASE m \notin t
      BY <2>1, <2>3, <3>2
    <3>3. QED
      BY <3>1, <3>2
  <2>5. \A t \in SUBSET (1..m) :
          g[t] = IF t = {} THEN base ELSE step[Max(t)][g[t \ {Max(t)}]]
    <3> SUFFICES ASSUME NEW t \in SUBSET (1..m)
                 PROVE  g[t] = IF t = {} THEN base
                               ELSE step[Max(t)][g[t \ {Max(t)}]]
      OBVIOUS
    <3>1. CASE m \in t
      <4>1. Max(t) = m /\ t \ {m} \in SUBSET (1..(m - 1)) /\ t # {}
        BY <2>2, <3>1
      <4>2. t \ {m} \in SUBSET (1..m) /\ m \notin t \ {m}
        OBVIOUS
      <4>3. g[t \ {m}] = f[t \ {m}]
        BY <4>2
      <4>4. g[t] = step[m][f[t \ {m}]]
        BY <3>1
      <4>5. QED
        BY <4>1, <4>3, <4>4
    <3>2. CASE m \notin t /\ t # {}
      <4>1. t \in SUBSET (1..(m - 1))
        BY <2>3, <3>2
      <4>2. Max(t) \in t
        <5>1. m \in Nat
          OBVIOUS
        <5>2. QED
          BY <3>2, <5>1, MaxProperties
      <4>3. t \ {Max(t)} \in SUBSET (1..m) /\ m \notin t \ {Max(t)}
        BY <3>2
      <4>4. g[t] = f[t] /\ g[t \ {Max(t)}] = f[t \ {Max(t)}]
        BY <3>2, <4>3
      <4>5. f[t] = step[Max(t)][f[t \ {Max(t)}]]
        BY <2>1, <3>2, <4>1
      <4>6. QED
        BY <3>2, <4>4, <4>5
    <3>3. CASE t = {}
      <4>1. {} \in SUBSET (1..(m - 1)) /\ m \notin {}
        OBVIOUS
      <4>2. f[{}] = base
        BY <2>1, <4>1
      <4>3. QED
        BY <3>3, <4>2
    <3>4. QED
      BY <3>1, <3>2, <3>3
  <2>6. Right(g, m)
    <3>1. g = [t \in SUBSET (1..m) |-> g[t]]
      OBVIOUS
    <3> HIDE DEF g
    <3>2. g \in [SUBSET (1..m) -> A]
      BY <2>4, <3>1
    <3>3. QED
      BY <2>5, <3>1, <3>2
  <2>7. \E h : Right(h, m)
    <3> HIDE DEF Right, g
    <3>1. QED
      BY <2>6
  <2> HIDE DEF Right
  <2>8. QED
    BY <2>7
<1>3. n \in P
  <2> HIDE DEF P
  <2>1. \A i \in 0..n : i \in P
    BY <1>1, <1>2, Induction
  <2>2. QED
    BY <2>1
<1>4. QED
  BY <1>3

(* What that function makes of the first items, one after the other.       *)
LEMMA FoldChain ==
    ASSUME NEW n \in Nat, NEW A, NEW base \in A, NEW step \in [1..n -> [A -> A]],
           NEW it, OverPlaces(it, n, A, base, step)
    PROVE  \E v \in [0..n -> A] : IsRun(v, n, base, step, it[1..n])
<1> USE DEF IsRun, OverPlaces
<1> DEFINE v == [k \in 0..n |-> it[1..k]]
<1>1. v[0] = base
  <2>1. 1..0 = {}
    OBVIOUS
  <2>2. QED
    BY <2>1
<1>2. \A k \in 1..n : v[k - 1] \in A => v[k] = step[k][v[k - 1]]
  <2> SUFFICES ASSUME NEW k \in 1..n, v[k - 1] \in A PROVE v[k] = step[k][v[k - 1]]
    OBVIOUS
  <2>1. 1..k \in SUBSET (1..n) /\ 1..k # {} /\ Max(1..k) = k
        /\ (1..k) \ {Max(1..k)} = 1..(k - 1)
    BY PrefixMax
  <2>2. v[k - 1] = it[1..(k - 1)] /\ v[k] = it[1..k]
    OBVIOUS
  <2> HIDE DEF v
  <2>3. QED
    BY <2>1, <2>2
<1>3. \A k \in 0..n : v[k] \in A
  <2> DEFINE P == {k \in 0..n : v[k] \in A}
  <2> HIDE DEF v
  <2>1. 0 \in P
    BY <1>1
  <2>2. \A i \in 1..n : i - 1 \in P => i \in P
    BY <1>2
  <2> HIDE DEF P
  <2>3. \A i \in 0..n : i \in P
    BY <2>1, <2>2, Induction
  <2>4. QED
    BY <2>3 DEF P
<1>4. v \in [0..n -> A] /\ v[n] = it[1..n]
  BY <1>3
<1> HIDE DEF v
<1>5. \A k \in 1..n : v[k] = step[k][v[k - 1]]
  BY <1>2, <1>3
<1>6. QED
  BY <1>1, <1>4, <1>5

(* Sums *)

(* The partial sums of a sequence of integers. *)
SumsUp(v, q) ==
    /\ v \in [0..Len(q) -> Int]
    /\ v[0] = 0
    /\ \A k \in 1..Len(q) : v[k] = v[k - 1] + q[k]
    /\ v[Len(q)] = Total(q)

(* A total is the last of the partial sums. *)
LEMMA PartialSums ==
    ASSUME NEW q \in Seq(Int)
    PROVE  \E v : SumsUp(v, q)
<1> DEFINE n == Len(q)
           step == [k \in 1..n |-> [x \in Int |-> x + q[k]]]
           Eq(f) == [t \in SUBSET (1..n) |->
                       IF t = {} THEN 0 ELSE f[t \ {Max(t)}] + q[Max(t)]]
           it == CHOOSE f : f = Eq(f)
<1>1. n \in Nat /\ DOMAIN q = 1..n /\ (\A k \in 1..n : q[k] \in Int) /\ 0 \in Int
  BY LenProperties, ElementOfSeq
<1>2. step \in [1..n -> [Int -> Int]]
  BY <1>1
<1>3. \A k \in 1..n : \A x \in Int : step[k][x] = x + q[k]
  OBVIOUS
<1> HIDE DEF n, step
<1>4. \E f : f = Eq(f)
  <2>1. PICK f \in [SUBSET (1..n) -> Int] : ByPlaces(f, n, 0, step)
    BY <1>1, <1>2, FoldExists, Zenon
  <2>2. \A t \in SUBSET (1..n) :
           f[t] = IF t = {} THEN 0 ELSE f[t \ {Max(t)}] + q[Max(t)]
    <3> SUFFICES ASSUME NEW t \in SUBSET (1..n), t # {}
                 PROVE  f[t] = f[t \ {Max(t)}] + q[Max(t)]
      BY <2>1 DEF ByPlaces
    <3>1. Max(t) \in 1..n /\ f[t \ {Max(t)}] \in Int
      BY <1>1, MaxProperties
    <3>2. QED
      BY <1>3, <2>1, <3>1 DEF ByPlaces
  <2>3. f = Eq(f)
    BY <2>2
  <2>4. QED
    BY <2>3
<1>5. it = Eq(it)
  BY <1>4
<1>6. Total(q) = it[1..n]
  BY <1>1 DEF Total, FoldLeft, MapThenFoldSet
<1> HIDE DEF it
<1>7. it[{}] = 0
  BY <1>5
<1>8. ASSUME NEW t \in SUBSET (1..n), t # {}, it[t \ {Max(t)}] \in Int
      PROVE  it[t] = step[Max(t)][it[t \ {Max(t)}]]
  <2>1. Max(t) \in 1..n
    BY <1>1, <1>8, MaxProperties
  <2>2. it[t] = it[t \ {Max(t)}] + q[Max(t)]
    BY <1>5, <1>8
  <2>3. QED
    BY <1>3, <1>8, <2>1, <2>2
<1>9. PICK v \in [0..n -> Int] : IsRun(v, n, 0, step, it[1..n])
  <2>1. OverPlaces(it, n, Int, 0, step)
    BY <1>7, <1>8 DEF OverPlaces
  <2>2. QED
    BY <1>1, <1>2, <2>1, FoldChain, Zenon
<1>10. ASSUME NEW k \in 1..n PROVE v[k] = v[k - 1] + q[k]
  <2>1. k - 1 \in 0..n
    BY <1>1
  <2>2. v[k - 1] \in Int
    BY <1>9, <2>1
  <2>3. QED
    BY <1>3, <1>9, <2>2 DEF IsRun
<1>11. SumsUp(v, q)
  BY <1>6, <1>9, <1>10 DEF n, IsRun, SumsUp
<1>12. QED
  BY <1>11

(* A total of integers is one. *)
LEMMA TotalType ==
    ASSUME NEW q \in Seq(Int) PROVE Total(q) \in Int
<1>1. PICK v : SumsUp(v, q)
  BY PartialSums
<1>2. Len(q) \in 0..Len(q)
  BY LenProperties
<1>3. QED
  BY <1>1, <1>2 DEF SumsUp

(* What two sequences sum up to, one after the other.                       *)
LEMMA TotalConcat ==
    ASSUME NEW p \in Seq(Int), NEW q \in Seq(Int)
    PROVE  Total(p \o q) = Total(p) + Total(q)
<1> DEFINE m == Len(p)
           n == Len(q)
<1>1. m \in Nat /\ n \in Nat
  BY LenProperties
<1>2. /\ p \o q \in Seq(Int) /\ Len(p \o q) = m + n
      /\ \A i \in 1..(m + n) : (p \o q)[i] = IF i <= m THEN p[i] ELSE q[i - m]
  BY ConcatProperties
<1>3. PICK v : SumsUp(v, p)
  BY PartialSums
<1>4. PICK w : SumsUp(w, q)
  BY PartialSums
<1>5. PICK u : SumsUp(u, p \o q)
  BY <1>2, PartialSums
<1> HIDE DEF m, n
<1>6. /\ v[0] = 0 /\ (\A k \in 0..m : v[k] \in Int)
      /\ (\A k \in 1..m : v[k] = v[k - 1] + p[k]) /\ v[m] = Total(p)
  BY <1>3 DEF SumsUp, m
<1>7. /\ w[0] = 0 /\ (\A k \in 0..n : w[k] \in Int)
      /\ (\A k \in 1..n : w[k] = w[k - 1] + q[k]) /\ w[n] = Total(q)
  BY <1>4 DEF SumsUp, n
<1>8. /\ u[0] = 0 /\ (\A k \in 0..(m + n) : u[k] \in Int)
      /\ \A k \in 1..(m + n) : u[k] = u[k - 1] + (IF k <= m THEN p[k] ELSE q[k - m])
      /\ u[m + n] = Total(p \o q)
  <2>1. u \in [0..(m + n) -> Int] /\ u[0] = 0 /\ u[m + n] = Total(p \o q)
    BY <1>2, <1>5 DEF SumsUp
  <2>2. \A k \in 1..(m + n) : u[k] = u[k - 1] + (p \o q)[k]
    BY <1>2, <1>5 DEF SumsUp
  <2>3. QED
    BY <1>2, <2>1, <2>2
<1> DEFINE P == {k \in 0..m : u[k] = v[k]}
           Q == {k \in 0..n : u[m + k] = v[m] + w[k]}
<1>9. \A k \in 0..m : k \in P
  <2>1. 0 \in P
    BY <1>1, <1>6, <1>8
  <2>2. ASSUME NEW k \in 1..m, k - 1 \in P PROVE k \in P
    <3>1. k \in 1..(m + n) /\ k <= m /\ k \in 0..m
      BY <1>1
    <3>2. u[k] = u[k - 1] + p[k] /\ v[k] = v[k - 1] + p[k] /\ u[k - 1] = v[k - 1]
      BY <1>6, <1>8, <2>2, <3>1
    <3>3. QED
      BY <3>1, <3>2
  <2> HIDE DEF P
  <2>3. QED
    BY <1>1, <2>1, <2>2, Induction
<1>10. \A k \in 0..n : k \in Q
  <2>1. 0 \in Q
    <3>1. m \in P
      <4> HIDE DEF P
      <4>1. QED
        BY <1>1, <1>9
    <3>2. u[m + 0] = v[m] /\ v[m] \in Int
      BY <1>1, <1>6, <3>1
    <3>3. QED
      BY <1>1, <1>7, <3>2
  <2>2. ASSUME NEW k \in 1..n, k - 1 \in Q PROVE k \in Q
    <3>1. m + k \in 1..(m + n) /\ ~(m + k <= m) /\ k \in 0..n /\ k - 1 \in 0..n
          /\ (m + k) - 1 = m + (k - 1) /\ (m + k) - m = k
      BY <1>1
    <3>2. u[m + k] = u[m + (k - 1)] + q[k] /\ w[k] = w[k - 1] + q[k]
      BY <1>7, <1>8, <3>1
    <3>3. u[m + (k - 1)] = v[m] + w[k - 1]
      BY <2>2
    <3>4. q[k] \in Int /\ v[m] \in Int /\ w[k - 1] \in Int
      BY <1>1, <1>6, <1>7, <3>1, ElementOfSeq DEF n
    <3>5. u[m + k] = v[m] + w[k]
      BY <3>2, <3>3, <3>4
    <3>6. QED
      BY <3>1, <3>5
  <2> HIDE DEF Q
  <2>3. QED
    BY <1>1, <2>1, <2>2, Induction
<1>11. n \in Q
  BY <1>1, <1>10
<1>12. QED
  BY <1>6, <1>7, <1>8, <1>11

(* The sum when one term changes.                                           *)
LEMMA TotalChange ==
    ASSUME NEW p \in Seq(Int), NEW q \in Seq(Int), NEW j \in 1..Len(p),
           Len(q) = Len(p),
           \A i \in 1..Len(p) : i # j => q[i] = p[i]
    PROVE  Total(q) = Total(p) + q[j] - p[j]
<1> DEFINE n == Len(p)
<1>1. n \in Nat /\ \A i \in 1..n : p[i] \in Int /\ q[i] \in Int
  BY LenProperties, ElementOfSeq
<1>2. PICK v : SumsUp(v, p)
  BY PartialSums
<1>3. PICK w : SumsUp(w, q)
  BY PartialSums
<1>4. /\ v[0] = 0 /\ (\A k \in 0..n : v[k] \in Int)
      /\ (\A k \in 1..n : v[k] = v[k - 1] + p[k]) /\ v[n] = Total(p)
  BY <1>2 DEF SumsUp
<1>5. /\ w[0] = 0 /\ (\A k \in 0..n : w[k] \in Int)
      /\ (\A k \in 1..n : w[k] = w[k - 1] + q[k]) /\ w[n] = Total(q)
  BY <1>3 DEF SumsUp
<1>6. j \in 1..n /\ \A i \in 1..n : i # j => q[i] = p[i]
  OBVIOUS
<1> HIDE DEF n
<1> DEFINE P == {k \in 0..n : w[k] = v[k] + (IF j <= k THEN q[j] - p[j] ELSE 0)}
<1>7. 0 \in P
  BY <1>1, <1>4, <1>5, <1>6
<1>8. ASSUME NEW k \in 1..n, k - 1 \in P PROVE k \in P
  <2>1. k - 1 \in 0..n /\ k \in 0..n
    BY <1>1
  <2>2. /\ v[k] = v[k - 1] + p[k] /\ w[k] = w[k - 1] + q[k]
        /\ v[k - 1] \in Int /\ p[k] \in Int /\ q[k] \in Int /\ p[j] \in Int /\ q[j] \in Int
    BY <1>1, <1>4, <1>5, <1>6, <2>1
  <2>3. w[k - 1] = v[k - 1] + (IF j <= k - 1 THEN q[j] - p[j] ELSE 0)
    BY <1>8
  <2>4. CASE k = j
    BY <1>1, <2>1, <2>2, <2>3, <2>4
  <2>5. CASE k # j
    <3>1. q[k] = p[k] /\ (j <= k <=> j <= k - 1)
      BY <1>1, <1>6, <2>5
    <3> DEFINE e == IF j <= k THEN q[j] - p[j] ELSE 0
    <3>2. w[k - 1] = v[k - 1] + e
      BY <2>3, <3>1
    <3>3. e \in Int
      BY <2>2
    <3> HIDE DEF e
    <3>4. w[k] = v[k] + e
      BY <2>2, <3>1, <3>2, <3>3
    <3>5. QED
      BY <2>1, <3>4 DEF e
  <2>6. QED
    BY <2>4, <2>5
<1>9. n \in P
  <2> HIDE DEF P
  <2>1. \A k \in 0..n : k \in P
    BY <1>1, <1>7, <1>8, Induction
  <2>2. QED
    BY <1>1, <2>1
<1>10. QED
  BY <1>1, <1>4, <1>5, <1>6, <1>9

(* A sum of naturals is not below any of its terms.                         *)
LEMMA TotalOfNaturals ==
    ASSUME NEW q \in Seq(Int), \A i \in 1..Len(q) : q[i] >= 0
    PROVE  /\ Total(q) >= 0
           /\ \A i \in 1..Len(q) : Total(q) >= q[i]
           /\ (\A i \in 1..Len(q) : q[i] = 0) => Total(q) = 0
<1> DEFINE n == Len(q)
<1>1. n \in Nat /\ \A i \in 1..n : q[i] \in Int /\ q[i] >= 0
  BY LenProperties, ElementOfSeq
<1>2. PICK v : SumsUp(v, q)
  BY PartialSums
<1>3. /\ v[0] = 0 /\ (\A k \in 0..n : v[k] \in Int)
      /\ (\A k \in 1..n : v[k] = v[k - 1] + q[k]) /\ v[n] = Total(q)
  BY <1>2 DEF SumsUp
<1> HIDE DEF n
<1> DEFINE P == {k \in 0..n : /\ v[k] >= 0
                              /\ \A i \in 1..k : v[k] >= q[i]
                              /\ (\A i \in 1..k : q[i] = 0) => v[k] = 0}
<1>4. 0 \in P
  BY <1>1, <1>3
<1>5. ASSUME NEW k \in 1..n, k - 1 \in P PROVE k \in P
  <2>1. k - 1 \in 0..n /\ k \in 0..n
    BY <1>1
  <2>2. v[k] = v[k - 1] + q[k] /\ v[k - 1] \in Int /\ q[k] \in Int /\ q[k] >= 0
    BY <1>1, <1>3, <2>1
  <2>3. /\ v[k - 1] >= 0
        /\ \A i \in 1..(k - 1) : v[k - 1] >= q[i]
        /\ (\A i \in 1..(k - 1) : q[i] = 0) => v[k - 1] = 0
    BY <1>5
  <2>4. \A i \in 1..k : v[k] >= q[i]
    BY <1>1, <2>2, <2>3
  <2>5. (\A i \in 1..k : q[i] = 0) => v[k] = 0
    BY <2>2, <2>3
  <2>6. QED
    BY <2>1, <2>2, <2>3, <2>4, <2>5
<1>6. n \in P
  <2> HIDE DEF P
  <2>1. \A k \in 0..n : k \in P
    BY <1>1, <1>4, <1>5, Induction
  <2>2. QED
    BY <1>1, <2>1
<1>7. QED
  BY <1>3, <1>6 DEF n

-----------------------------------------------------------------------------
(* Sequences *)

(* What SubSeq takes from a sequence. *)
LEMMA Piece ==
    ASSUME NEW S, NEW c \in Seq(S), NEW i \in 1..(Len(c) + 1), NEW j \in 0..Len(c)
    PROVE  /\ SubSeq(c, i, j) \in Seq(S)
           /\ Len(SubSeq(c, i, j)) = IF i <= j THEN j - i + 1 ELSE 0
           /\ \A k \in 1..Len(SubSeq(c, i, j)) : SubSeq(c, i, j)[k] = c[i + k - 1]
<1>1. Len(c) \in Nat
  BY LenProperties
<1>2. \A k \in i..j : c[k] \in S
  BY <1>1, ElementOfSeq
<1>3. i \in Int /\ j \in Int
  BY <1>1
<1>4. /\ SubSeq(c, i, j) \in Seq(S)
      /\ Len(SubSeq(c, i, j)) = IF i <= j THEN j - i + 1 ELSE 0
      /\ \A k \in 1..(j - i + 1) : SubSeq(c, i, j)[k] = c[i + k - 1]
  BY <1>2, <1>3, SubSeqProperties
<1>5. Len(SubSeq(c, i, j)) <= j - i + 1 \/ Len(SubSeq(c, i, j)) = 0
  BY <1>3, <1>4
<1>6. QED
  BY <1>3, <1>4, <1>5

(* A suffix, place by place. *)
Ends(p, c) ==
    Len(p) <= Len(c) /\ \A i \in 1..Len(p) : p[i] = c[Len(c) - Len(p) + i]

(* IsSuffix, place by place. *)
LEMMA SuffixByPlace ==
    ASSUME NEW S, NEW p \in Seq(S), NEW c \in Seq(S)
    PROVE  IsSuffix(p, c) <=> Ends(p, c)
<1> DEFINE m == Len(p)
           n == Len(c)
           rp == Reverse(p)
           rc == Reverse(c)
<1>1. m \in Nat /\ n \in Nat /\ \A i \in 1..m : p[i] \in S
  BY LenProperties, ElementOfSeq
<1>2. \A i \in 1..n : c[i] \in S
  BY LenProperties, ElementOfSeq
<1>3. rp = [i \in 1..m |-> p[(m - i) + 1]] /\ rc = [i \in 1..n |-> c[(n - i) + 1]]
  BY DEF Reverse
<1> HIDE DEF m, n, rp, rc
<1>4. rp \in [1..m -> S] /\ rc \in [1..n -> S]
  BY <1>1, <1>2, <1>3
<1>5. rp \in Seq(S) /\ Len(rp) = m /\ rc \in Seq(S) /\ Len(rc) = n
  <2>1. rp \in Seq(S) /\ rc \in Seq(S)
    BY <1>1, <1>4, SeqDef
  <2>2. DOMAIN rp = 1..m /\ DOMAIN rc = 1..n
    BY <1>4
  <2>3. DOMAIN rp = 1..Len(rp) /\ DOMAIN rc = 1..Len(rc)
        /\ Len(rp) \in Nat /\ Len(rc) \in Nat
    BY <2>1, LenProperties
  <2>4. QED
    BY <1>1, <2>1, <2>2, <2>3
<1>6. IsSuffix(p, c) <=> (m <= n /\ SubSeq(rp, 1, m) = SubSeq(rc, 1, m))
  BY <1>5 DEF IsSuffix, IsPrefix, rp, rc
<1>7. ASSUME m <= n
      PROVE  SubSeq(rp, 1, m) = SubSeq(rc, 1, m) <=> \A i \in 1..m : rp[i] = rc[i]
  <2>1. SubSeq(rp, 1, m) = rp
    BY <1>5, SubSeqFull
  <2>2. /\ SubSeq(rc, 1, m) \in Seq(S) /\ Len(SubSeq(rc, 1, m)) = m
        /\ \A i \in 1..m : SubSeq(rc, 1, m)[i] = rc[i]
    <3>1. 1 \in 1..(Len(rc) + 1) /\ m \in 0..Len(rc)
      BY <1>1, <1>5, <1>7
    <3>2. /\ SubSeq(rc, 1, m) \in Seq(S)
          /\ Len(SubSeq(rc, 1, m)) = IF 1 <= m THEN m - 1 + 1 ELSE 0
          /\ \A i \in 1..Len(SubSeq(rc, 1, m)) : SubSeq(rc, 1, m)[i] = rc[1 + i - 1]
      BY <1>5, <3>1, Piece
    <3>3. QED
      BY <1>1, <3>2
  <2>3. (\A i \in 1..m : rp[i] = rc[i]) => rp = SubSeq(rc, 1, m)
    BY <1>5, <2>2, SeqEqual
  <2>4. QED
    BY <2>1, <2>2, <2>3
<1>8. ASSUME m <= n
      PROVE  (\A i \in 1..m : rp[i] = rc[i]) <=> \A i \in 1..m : p[i] = c[n - m + i]
  <2>1. \A i \in 1..m : (m - i) + 1 \in 1..m /\ i \in 1..n
                        /\ (n - ((m - i) + 1)) + 1 = n - m + i
                        /\ (m - ((m - i) + 1)) + 1 = i
    BY <1>1, <1>8
  <2>2. \A i \in 1..m : rp[(m - i) + 1] = p[i] /\ rc[(m - i) + 1] = c[n - m + i]
    <3> SUFFICES ASSUME NEW i \in 1..m
                 PROVE  rp[(m - i) + 1] = p[i] /\ rc[(m - i) + 1] = c[n - m + i]
      OBVIOUS
    <3>1. (m - i) + 1 \in 1..m /\ (m - i) + 1 \in 1..n
      BY <1>1, <1>8
    <3>2. rp[(m - i) + 1] = p[(m - ((m - i) + 1)) + 1]
          /\ rc[(m - i) + 1] = c[(n - ((m - i) + 1)) + 1]
      BY <1>3, <3>1
    <3>3. QED
      BY <2>1, <3>2
  <2>3. (\A i \in 1..m : rp[i] = rc[i]) => \A i \in 1..m : p[i] = c[n - m + i]
    BY <2>1, <2>2
  <2>4. ASSUME \A i \in 1..m : p[i] = c[n - m + i], NEW i \in 1..m PROVE rp[i] = rc[i]
    <3>1. (m - i) + 1 \in 1..m
      BY <2>1
    <3>2. rp[(m - ((m - i) + 1)) + 1] = p[(m - i) + 1]
          /\ rc[(m - ((m - i) + 1)) + 1] = c[n - m + ((m - i) + 1)]
      BY <2>2, <3>1
    <3>3. QED
      BY <2>1, <2>4, <3>1, <3>2
  <2>5. QED
    BY <2>3, <2>4
<1>9. QED
  BY <1>6, <1>7, <1>8 DEF Ends, m, n

-----------------------------------------------------------------------------
(* The ring buffer of a session *)

(* How many ranges each cycle has. *)
Terms(c) == [i \in 1..Len(c) |-> c[i].r]

(* The range counts of cycles. *)
LEMMA TermsType ==
    ASSUME NEW c \in Seq(Cycles)
    PROVE  /\ Terms(c) \in Seq(Int) /\ Len(Terms(c)) = Len(c)
           /\ \A i \in 1..Len(c) : Terms(c)[i] = c[i].r /\ c[i].r \in Nat
<1>1. Len(c) \in Nat
  BY LenProperties
<1>2. ASSUME NEW i \in 1..Len(c) PROVE c[i].r \in Nat
  <2>1. c[i] \in Cycles
    BY ElementOfSeq
  <2>2. QED
    BY <2>1 DEF Cycles
<1>3. Terms(c) \in [1..Len(c) -> Int]
  BY <1>2 DEF Terms
<1>4. Terms(c) \in Seq(Int)
  BY <1>1, <1>3, SeqDef
<1>5. DOMAIN Terms(c) = 1..Len(c) /\ DOMAIN Terms(c) = 1..Len(Terms(c))
      /\ Len(Terms(c)) \in Nat
  BY <1>3, <1>4, LenProperties
<1>6. QED
  BY <1>1, <1>2, <1>4, <1>5 DEF Terms

(* The ranges of one buffer after another add up. *)
LEMMA RangeSumConcat ==
    ASSUME NEW p \in Seq(Cycles), NEW q \in Seq(Cycles)
    PROVE  /\ RangeSum(p) \in Nat
           /\ RangeSum(p \o q) = RangeSum(p) + RangeSum(q)
<1>1. \A c \in Seq(Cycles) : RangeSum(c) = Total(Terms(c))
  BY DEF RangeSum, Terms
<1>2. Terms(p) \in Seq(Int) /\ Len(Terms(p)) = Len(p)
      /\ \A i \in 1..Len(p) : Terms(p)[i] = p[i].r /\ p[i].r \in Nat
  BY TermsType
<1>3. Terms(q) \in Seq(Int) /\ Len(Terms(q)) = Len(q)
      /\ \A i \in 1..Len(q) : Terms(q)[i] = q[i].r
  BY TermsType
<1>4. RangeSum(p) \in Nat
  <2>1. \A i \in 1..Len(Terms(p)) : Terms(p)[i] >= 0
    BY <1>2
  <2>2. Total(Terms(p)) \in Int /\ Total(Terms(p)) >= 0
    BY <1>2, <2>1, TotalType, TotalOfNaturals
  <2>3. QED
    BY <1>1, <2>2
<1>5. Terms(p \o q) = Terms(p) \o Terms(q)
  <2>1. p \o q \in Seq(Cycles) /\ Len(p \o q) = Len(p) + Len(q)
        /\ \A i \in 1..(Len(p) + Len(q)) :
              (p \o q)[i] = IF i <= Len(p) THEN p[i] ELSE q[i - Len(p)]
    BY ConcatProperties
  <2>2. Terms(p \o q) \in Seq(Int) /\ Len(Terms(p \o q)) = Len(p) + Len(q)
        /\ \A i \in 1..(Len(p) + Len(q)) : Terms(p \o q)[i] = (p \o q)[i].r
    BY <2>1, TermsType
  <2>3. /\ Terms(p) \o Terms(q) \in Seq(Int)
        /\ Len(Terms(p) \o Terms(q)) = Len(p) + Len(q)
        /\ \A i \in 1..(Len(p) + Len(q)) : (Terms(p) \o Terms(q))[i] =
              IF i <= Len(p) THEN Terms(p)[i] ELSE Terms(q)[i - Len(p)]
    <3> DEFINE x == Terms(p)
               y == Terms(q)
    <3>0. x \in Seq(Int) /\ y \in Seq(Int)
      BY <1>2, <1>3
    <3> HIDE DEF x, y
    <3>1. /\ x \o y \in Seq(Int)
          /\ Len(x \o y) = Len(x) + Len(y)
          /\ \A i \in 1..(Len(x) + Len(y)) : (x \o y)[i] =
                IF i <= Len(x) THEN x[i]
                ELSE y[i - Len(x)]
      BY <3>0, ConcatProperties
    <3>2. QED
      BY <1>2, <1>3, <3>1 DEF x, y
  <2>4. Len(p) \in Nat /\ Len(q) \in Nat
    BY LenProperties
  <2>5. ASSUME NEW i \in 1..(Len(p) + Len(q))
        PROVE  Terms(p \o q)[i] = (Terms(p) \o Terms(q))[i]
    <3>1. CASE i <= Len(p)
      <4>1. i \in 1..Len(p)
        BY <2>4, <3>1
      <4>2. QED
        BY <1>2, <2>1, <2>2, <2>3, <3>1, <4>1
    <3>2. CASE ~(i <= Len(p))
      <4>1. i - Len(p) \in 1..Len(q)
        BY <2>4, <3>2
      <4>2. QED
        BY <1>3, <2>1, <2>2, <2>3, <3>2, <4>1
    <3>3. QED
      BY <3>1, <3>2
  <2>6. QED
    BY <2>2, <2>3, <2>5, SeqEqual
<1>6. Total(Terms(p) \o Terms(q)) = Total(Terms(p)) + Total(Terms(q))
  BY <1>2, <1>3, TotalConcat
<1>7. p \o q \in Seq(Cycles)
  BY ConcatProperties
<1>8. QED
  BY <1>1, <1>4, <1>5, <1>6, <1>7

(* No cycles have no ranges. *)
LEMMA RangeSumEmpty == RangeSum(<< >>) = 0
<1>1. << >> \in Seq(Cycles) /\ << >> \o << >> = << >>
  BY EmptySeq, ConcatEmptySeq
<1>2. RangeSum(<< >>) \in Nat
      /\ RangeSum(<< >> \o << >>) = RangeSum(<< >>) + RangeSum(<< >>)
  BY <1>1, RangeSumConcat
<1>3. RangeSum(<< >>) = RangeSum(<< >>) + RangeSum(<< >>)
  BY <1>1, <1>2
<1>4. QED
  BY <1>2, <1>3

(* One cycle more. *)
LEMMA RangeSumAppend ==
    ASSUME NEW c \in Seq(Cycles), NEW x \in Cycles
    PROVE  RangeSum(Append(c, x)) = RangeSum(c) + x.r
<1>1. <<x>> \in Seq(Cycles) /\ Append(c, x) = c \o <<x>>
  BY AppendIsConcat
<1>2. RangeSum(<<x>>) = x.r
  <2> DEFINE q == <<x.r>>
  <2>1. q \in Seq(Int) /\ Len(q) = 1 /\ q[1] = x.r /\ x.r \in Int
    BY DEF Cycles
  <2>2. PICK v : SumsUp(v, q)
    BY <2>1, PartialSums
  <2>3. v[1] = v[1 - 1] + q[1] /\ v[0] = 0 /\ Total(q) = v[1]
    BY <2>1, <2>2 DEF SumsUp
  <2>4. Total(q) = x.r
    BY <2>1, <2>3
  <2>5. [i \in 1..Len(<<x>>) |-> <<x>>[i].r] = q
    OBVIOUS
  <2>6. QED
    BY <2>4, <2>5 DEF RangeSum
<1>3. QED
  BY <1>1, <1>2, RangeSumConcat

(* The books of one session: what waits is the tail of the buffer, the      *)
(* count is right, the unwrapped seq ascends up to the last one.            *)
Consistent(s) ==
    /\ Ends(s.pending, s.cycles)
    /\ s.ranges = RangeSum(s.cycles)
    /\ Ascending(s.cycles)
    /\ \A i \in 1..Len(s.cycles) : s.last # None /\ s.cycles[i].n <= s.last.n

Sound == {s \in Sessions : Consistent(s)}

(* What the ring buffer leaves alone. *)
SameSession(s, r) ==
    r.boot = s.boot /\ r.sid = s.sid /\ r.rev = s.rev /\ r.age = s.age
    /\ r.active = s.active

(* The fields of a session. *)
LEMMA SessionType ==
    ASSUME NEW s \in Sessions
    PROVE  /\ s.boot \in Boots /\ s.sid \in Boots \cup {None}
           /\ s.rev \in Revs \cup {None} /\ s.age \in Nat /\ s.active \in BOOLEAN
           /\ s.cycles \in Seq(Cycles) /\ s.pending \in Seq(Cycles)
           /\ s.last \in Lasts \cup {None} /\ s.ranges \in Int
           /\ Len(s.cycles) \in Nat /\ Len(s.pending) \in Nat
           /\ DOMAIN s.cycles = 1..Len(s.cycles)
<1>1. s.cycles \in Seq(Cycles) /\ s.pending \in Seq(Cycles)
  BY DEF Sessions
<1>2. QED
  BY <1>1, LenProperties DEF Sessions

(* _pop_oldest keeps the books of the buffer, whatever of it is pending. *)
LEMMA PoppedSound ==
    ASSUME NEW s \in Sound, NEW k \in 0..Len(s.cycles)
    PROVE  LET r == Popped(s, k)
           IN  /\ r \in Sound /\ SameSession(s, r) /\ r.last = s.last
               /\ r.cycles = SubSeq(s.cycles, k + 1, Len(s.cycles))
               /\ Len(r.cycles) = Len(s.cycles) - k
               /\ \A i \in 1..Len(r.cycles) : r.cycles[i] = s.cycles[k + i]
               /\ r.ranges = s.ranges - RangeSum(SubSeq(s.cycles, 1, k))
               /\ r.ranges \in Nat /\ r.ranges <= s.ranges
               /\ Len(r.pending) = IF Len(s.pending) <= Len(r.cycles)
                                   THEN Len(s.pending) ELSE Len(r.cycles)
<1> DEFINE c == s.cycles
           p == s.pending
           left == Len(c) - k
           from == IF Len(p) > left THEN Len(p) - left ELSE 0
           c2 == SubSeq(c, k + 1, Len(c))
           p2 == SubSeq(p, from + 1, Len(p))
           g == RangeSum(SubSeq(c, 1, k))
           r == Popped(s, k)
<1>1. /\ s \in Sessions /\ Consistent(s)
      /\ c \in Seq(Cycles) /\ p \in Seq(Cycles) /\ Len(c) \in Nat /\ Len(p) \in Nat
      /\ s.ranges \in Int /\ k \in 0..Len(c)
  BY SessionType DEF Sound
<1>2. r = [s EXCEPT !.cycles = c2, !.pending = p2, !.ranges = @ - g]
  BY DEF Popped
<1>3. /\ Ends(p, c) /\ s.ranges = RangeSum(c) /\ Ascending(c)
      /\ \A i \in 1..Len(c) : s.last # None /\ c[i].n <= s.last.n
  BY <1>1 DEF Consistent
<1> HIDE DEF c, p
<1>4. /\ from \in 0..Len(p) /\ left \in 0..Len(c) /\ left = Len(c) - k
      /\ Len(p) - from = IF Len(p) <= left THEN Len(p) ELSE left
  <2>1. left \in 0..Len(c) /\ left \in Nat /\ Len(p) \in Nat
    BY <1>1
  <2>2. from = (IF Len(p) > left THEN Len(p) - left ELSE 0) /\ left = Len(c) - k
    OBVIOUS
  <2> HIDE DEF left, from
  <2>3. CASE Len(p) > left
    <3>1. from = Len(p) - left /\ from \in 0..Len(p) /\ ~(Len(p) <= left)
      BY <2>1, <2>2, <2>3
    <3>2. Len(p) - from = left
      BY <2>1, <3>1
    <3>3. QED
      BY <2>1, <2>2, <3>1, <3>2
  <2>4. CASE ~(Len(p) > left)
    BY <2>1, <2>2, <2>4
  <2>5. QED
    BY <2>3, <2>4
<1> HIDE DEF left, from
<1>5. /\ c2 \in Seq(Cycles) /\ Len(c2) = left
      /\ \A i \in 1..Len(c2) : c2[i] = c[k + i]
  <2>1. k + 1 \in 1..(Len(c) + 1) /\ Len(c) \in 0..Len(c)
    BY <1>1
  <2>2. /\ c2 \in Seq(Cycles)
        /\ Len(c2) = IF k + 1 <= Len(c) THEN Len(c) - (k + 1) + 1 ELSE 0
        /\ \A i \in 1..Len(c2) : c2[i] = c[(k + 1) + i - 1]
    BY <1>1, <2>1, Piece
  <2>3. Len(c2) = left
    BY <1>1, <1>4, <2>2
  <2>4. \A i \in 1..Len(c2) : (k + 1) + i - 1 = k + i
    BY <1>1, <2>3
  <2>5. QED
    BY <2>2, <2>3, <2>4
<1>6. /\ p2 \in Seq(Cycles) /\ Len(p2) = Len(p) - from
      /\ \A i \in 1..Len(p2) : p2[i] = p[from + i]
  <2>1. from + 1 \in 1..(Len(p) + 1) /\ Len(p) \in 0..Len(p)
    BY <1>1, <1>4
  <2>2. /\ p2 \in Seq(Cycles)
        /\ Len(p2) = IF from + 1 <= Len(p) THEN Len(p) - (from + 1) + 1 ELSE 0
        /\ \A i \in 1..Len(p2) : p2[i] = p[(from + 1) + i - 1]
    BY <1>1, <2>1, Piece
  <2>3. Len(p2) = Len(p) - from
    BY <1>1, <1>4, <2>2
  <2>4. \A i \in 1..Len(p2) : (from + 1) + i - 1 = from + i
    BY <1>1, <1>4, <2>3
  <2>5. QED
    BY <2>2, <2>3, <2>4
<1>7. g \in Nat /\ RangeSum(c) = g + RangeSum(c2) /\ RangeSum(c2) \in Nat
  <2>1. SubSeq(c, 1, k) \in Seq(Cycles)
    <3>1. 1 \in 1..(Len(c) + 1) /\ k \in 0..Len(c)
      BY <1>1
    <3>2. QED
      BY <1>1, <3>1, Piece
  <2>2. SubSeq(c, 1, k) \o c2 = SubSeq(c, 1, Len(c))
    <3>1. 1 \in 1..(Len(c) + 1) /\ k \in 1-1..Len(c) /\ Len(c) \in k..Len(c)
      BY <1>1
    <3>2. QED
      BY <1>1, <3>1, ConcatAdjacentSubSeq
  <2>3. SubSeq(c, 1, Len(c)) = c
    BY <1>1, SubSeqFull
  <2>4. c2 \in Seq(Cycles)
    BY <1>5
  <2> DEFINE b == SubSeq(c, 1, k)
  <2> HIDE DEF c2, b
  <2>5. b \in Seq(Cycles) /\ b \o c2 = c
    BY <2>1, <2>2, <2>3 DEF b
  <2>6. RangeSum(b) \in Nat /\ RangeSum(b \o c2) = RangeSum(b) + RangeSum(c2)
    BY <2>4, <2>5, RangeSumConcat
  <2>7. RangeSum(c2) \in Nat
    BY <2>4, RangeSumConcat
  <2>8. g = RangeSum(b)
    BY DEF b
  <2>9. QED
    BY <2>5, <2>6, <2>7, <2>8
<1> HIDE DEF c2, p2
<1>8. Ends(p2, c2)
  <2>1. Len(p2) <= Len(c2)
    BY <1>1, <1>4, <1>5, <1>6
  <2>2. ASSUME NEW i \in 1..Len(p2)
        PROVE  p2[i] = c2[Len(c2) - Len(p2) + i]
    <3>1. from + i \in 1..Len(p) /\ Len(c2) - Len(p2) + i \in 1..Len(c2)
          /\ k + (Len(c2) - Len(p2) + i) = Len(c) - Len(p) + (from + i)
      BY <1>1, <1>4, <1>5, <1>6, <2>1
    <3>2. p2[i] = p[from + i] /\ p[from + i] = c[Len(c) - Len(p) + (from + i)]
      BY <1>3, <1>6, <3>1 DEF Ends
    <3>3. c2[Len(c2) - Len(p2) + i] = c[k + (Len(c2) - Len(p2) + i)]
      BY <1>5, <3>1
    <3>4. QED
      BY <3>1, <3>2, <3>3
  <2>3. QED
    BY <2>1, <2>2 DEF Ends
<1> HIDE DEF g
<1>9. Ascending(c2) /\ \A i \in 1..Len(c2) : s.last # None /\ c2[i].n <= s.last.n
  <2>1. DOMAIN c2 = 1..Len(c2) /\ DOMAIN c = 1..Len(c) /\ Len(c2) \in Nat
    BY <1>1, <1>5, LenProperties
  <2>2. \A i \in 1..Len(c2) : k + i \in 1..Len(c)
    BY <1>1, <1>4, <1>5
  <2>3. ASSUME NEW i \in 1..Len(c2), NEW j \in 1..Len(c2), i < j
        PROVE  c2[i].n < c2[j].n
    <3>1. k + i < k + j /\ k + i \in 1..Len(c) /\ k + j \in 1..Len(c)
      BY <1>1, <2>2, <2>3
    <3>2. c[k + i].n < c[k + j].n
      BY <1>3, <2>1, <3>1 DEF Ascending
    <3>3. QED
      BY <1>5, <3>2
  <2>4. Ascending(c2)
    BY <2>1, <2>3 DEF Ascending
  <2>5. QED
    BY <1>3, <1>5, <2>2, <2>4
<1>10. /\ r \in Sessions /\ r.cycles = c2 /\ r.pending = p2 /\ r.ranges = s.ranges - g
       /\ SameSession(s, r) /\ r.last = s.last
  <2>1. s.ranges - g \in Int
    BY <1>1, <1>7
  <2>2. r.cycles = c2 /\ r.pending = p2 /\ r.ranges = s.ranges - g /\ r.last = s.last
    BY <1>1, <1>2 DEF Sessions
  <2>3. SameSession(s, r)
    BY <1>1, <1>2 DEF Sessions, SameSession
  <2>4. r \in Sessions
    BY <1>1, <1>2, <1>5, <1>6, <2>1 DEF Sessions
  <2>5. QED
    BY <2>2, <2>3, <2>4
<1>11. r.ranges = RangeSum(r.cycles)
  BY <1>1, <1>3, <1>7, <1>10
<1> HIDE DEF r
<1>12. Consistent(r)
  BY <1>8, <1>9, <1>10, <1>11 DEF Consistent
<1>13. Len(r.pending) = IF Len(s.pending) <= Len(r.cycles)
                        THEN Len(s.pending) ELSE Len(r.cycles)
  BY <1>1, <1>4, <1>5, <1>6, <1>10 DEF p
<1>14. QED
  BY <1>1, <1>3, <1>5, <1>7, <1>10, <1>11, <1>12, <1>13 DEF Sound, left, c, c2, g, r

(* The end of an end. *)
LEMMA EndsTransitive ==
    ASSUME NEW S, NEW p \in Seq(S), NEW q \in Seq(S), NEW c \in Seq(S),
           Ends(p, q), Ends(q, c)
    PROVE  Ends(p, c)
<1>1. Len(p) \in Nat /\ Len(q) \in Nat /\ Len(c) \in Nat
  BY LenProperties
<1>2. Len(p) <= Len(q) /\ Len(q) <= Len(c)
  BY DEF Ends
<1>3. ASSUME NEW i \in 1..Len(p) PROVE p[i] = c[Len(c) - Len(p) + i]
  <2>1. Len(q) - Len(p) + i \in 1..Len(q)
        /\ Len(c) - Len(q) + (Len(q) - Len(p) + i) = Len(c) - Len(p) + i
    BY <1>1, <1>2
  <2>2. p[i] = q[Len(q) - Len(p) + i]
    BY DEF Ends
  <2>3. q[Len(q) - Len(p) + i] = c[Len(c) - Len(q) + (Len(q) - Len(p) + i)]
    BY <2>1 DEF Ends
  <2>4. QED
    BY <2>1, <2>2, <2>3
<1>4. QED
  BY <1>1, <1>2, <1>3 DEF Ends

(* Of two suffixes of one sequence the shorter is a suffix of the longer. *)
LEMMA EndsCompare ==
    ASSUME NEW S, NEW p \in Seq(S), NEW q \in Seq(S), NEW c \in Seq(S),
           Ends(p, c), Ends(q, c), Len(p) <= Len(q)
    PROVE  Ends(p, q)
<1>1. Len(p) \in Nat /\ Len(q) \in Nat /\ Len(c) \in Nat
  BY LenProperties
<1>2. Len(p) <= Len(q) /\ Len(q) <= Len(c)
  BY DEF Ends
<1>3. ASSUME NEW i \in 1..Len(p) PROVE p[i] = q[Len(q) - Len(p) + i]
  <2>1. Len(q) - Len(p) + i \in 1..Len(q)
        /\ Len(c) - Len(q) + (Len(q) - Len(p) + i) = Len(c) - Len(p) + i
    BY <1>1, <1>2
  <2>2. p[i] = c[Len(c) - Len(p) + i]
    BY DEF Ends
  <2>3. q[Len(q) - Len(p) + i] = c[Len(c) - Len(q) + (Len(q) - Len(p) + i)]
    BY <2>1 DEF Ends
  <2>4. QED
    BY <2>1, <2>2, <2>3
<1>4. QED
  BY <1>2, <1>3 DEF Ends

(* What is appended to both keeps an end an end. *)
LEMMA EndsConcat ==
    ASSUME NEW S, NEW p \in Seq(S), NEW c \in Seq(S), NEW x \in Seq(S), Ends(p, c)
    PROVE  Ends(p \o x, c \o x)
<1>1. Len(p) \in Nat /\ Len(c) \in Nat /\ Len(x) \in Nat /\ Len(p) <= Len(c)
  BY LenProperties DEF Ends
<1>2. /\ Len(p \o x) = Len(p) + Len(x)
      /\ \A i \in 1..(Len(p) + Len(x)) :
            (p \o x)[i] = IF i <= Len(p) THEN p[i] ELSE x[i - Len(p)]
  BY ConcatProperties
<1>3. /\ Len(c \o x) = Len(c) + Len(x)
      /\ \A i \in 1..(Len(c) + Len(x)) :
            (c \o x)[i] = IF i <= Len(c) THEN c[i] ELSE x[i - Len(c)]
  BY ConcatProperties
<1>4. ASSUME NEW i \in 1..Len(p \o x)
      PROVE  (p \o x)[i] = (c \o x)[Len(c \o x) - Len(p \o x) + i]
  <2> DEFINE j == Len(c) - Len(p) + i
  <2>1. j \in 1..(Len(c) + Len(x)) /\ Len(c \o x) - Len(p \o x) + i = j
        /\ i \in 1..(Len(p) + Len(x)) /\ j \in Nat
        /\ (i <= Len(p) <=> j <= Len(c)) /\ j - Len(c) = i - Len(p)
    BY <1>1, <1>2, <1>3
  <2>2. i <= Len(p) => p[i] = c[j]
    BY <1>1, <2>1 DEF Ends
  <2> HIDE DEF j
  <2>3. QED
    BY <1>2, <1>3, <2>1, <2>2
<1>5. QED
  BY <1>1, <1>2, <1>3, <1>4 DEF Ends

(* The buffer lost some of its oldest cycles and nothing else changed. *)
Shrunk(s, r) ==
    /\ SameSession(s, r) /\ r.last = s.last
    /\ Ends(r.cycles, s.cycles) /\ Ends(r.pending, s.pending)
    /\ Len(r.pending) = IF Len(s.pending) <= Len(r.cycles)
                        THEN Len(s.pending) ELSE Len(r.cycles)
    /\ r.ranges <= s.ranges

(* The fields of a session whose books balance. *)
LEMMA SoundType ==
    ASSUME NEW s \in Sound
    PROVE  /\ s \in Sessions /\ Consistent(s)
           /\ s.cycles \in Seq(Cycles) /\ s.pending \in Seq(Cycles)
           /\ Len(s.cycles) \in Nat /\ Len(s.pending) \in Nat
           /\ Len(s.pending) <= Len(s.cycles)
           /\ s.ranges \in Nat /\ Shrunk(s, s)
<1>1. s \in Sessions /\ Consistent(s)
  BY DEF Sound
<1>2. /\ s.cycles \in Seq(Cycles) /\ s.pending \in Seq(Cycles)
      /\ Len(s.cycles) \in Nat /\ Len(s.pending) \in Nat
  BY <1>1, SessionType
<1>3. s.ranges \in Nat /\ Len(s.pending) <= Len(s.cycles)
  BY <1>1, <1>2, RangeSumConcat DEF Consistent, Ends
<1>4. \A c \in Seq(Cycles) : Ends(c, c)
  <2> SUFFICES ASSUME NEW c \in Seq(Cycles) PROVE Ends(c, c)
    OBVIOUS
  <2>1. Len(c) \in Nat /\ \A i \in 1..Len(c) : Len(c) - Len(c) + i = i
    BY LenProperties
  <2>2. QED
    BY <2>1 DEF Ends
<1>5. Shrunk(s, s)
  BY <1>2, <1>3, <1>4 DEF Shrunk, SameSession
<1>6. QED
  BY <1>1, <1>2, <1>3, <1>5

(* Shortened twice is shortened. *)
LEMMA ShrunkTransitive ==
    ASSUME NEW s \in Sound, NEW r \in Sound, NEW q \in Sound, Shrunk(s, r), Shrunk(r, q)
    PROVE  Shrunk(s, q)
<1>1. /\ s.cycles \in Seq(Cycles) /\ s.pending \in Seq(Cycles)
      /\ Len(s.cycles) \in Nat /\ Len(s.pending) \in Nat /\ s.ranges \in Nat
  BY SoundType
<1>2. /\ r.cycles \in Seq(Cycles) /\ r.pending \in Seq(Cycles)
      /\ Len(r.cycles) \in Nat /\ Len(r.pending) \in Nat /\ r.ranges \in Nat
  BY SoundType
<1>3. /\ q.cycles \in Seq(Cycles) /\ q.pending \in Seq(Cycles)
      /\ Len(q.cycles) \in Nat /\ Len(q.pending) \in Nat /\ q.ranges \in Nat
  BY SoundType
<1>4. Ends(q.cycles, s.cycles)
  BY <1>1, <1>2, <1>3, EndsTransitive DEF Shrunk
<1>5. Ends(q.pending, s.pending)
  BY <1>1, <1>2, <1>3, EndsTransitive DEF Shrunk
<1>6. Len(q.pending) = IF Len(s.pending) <= Len(q.cycles)
                       THEN Len(s.pending) ELSE Len(q.cycles)
  BY <1>1, <1>2, <1>3 DEF Shrunk, Ends
<1>7. q.ranges <= s.ranges
  BY <1>1, <1>2, <1>3 DEF Shrunk
<1>8. SameSession(s, q) /\ q.last = s.last
  BY DEF Shrunk, SameSession
<1>9. QED
  BY <1>4, <1>5, <1>6, <1>7, <1>8 DEF Shrunk

(* _pop_oldest only shortens. *)
LEMMA PoppedShrunk ==
    ASSUME NEW s \in Sound, NEW k \in 0..Len(s.cycles)
    PROVE  Popped(s, k) \in Sound /\ Shrunk(s, Popped(s, k))
<1> DEFINE r == Popped(s, k)
<1>1. /\ r \in Sound /\ SameSession(s, r) /\ r.last = s.last
      /\ Len(r.cycles) = Len(s.cycles) - k
      /\ \A i \in 1..Len(r.cycles) : r.cycles[i] = s.cycles[k + i]
      /\ r.ranges <= s.ranges
      /\ Len(r.pending) = IF Len(s.pending) <= Len(r.cycles)
                          THEN Len(s.pending) ELSE Len(r.cycles)
  BY PoppedSound
<1> HIDE DEF r
<1>2. /\ s.cycles \in Seq(Cycles) /\ s.pending \in Seq(Cycles) /\ Consistent(s)
      /\ Len(s.cycles) \in Nat /\ Len(s.pending) \in Nat
  BY SoundType
<1>3. /\ r.cycles \in Seq(Cycles) /\ r.pending \in Seq(Cycles) /\ Consistent(r)
      /\ Len(r.cycles) \in Nat /\ Len(r.pending) \in Nat
  BY <1>1, SoundType
<1>4. Ends(r.cycles, s.cycles)
  <2>1. Len(r.cycles) <= Len(s.cycles) /\ Len(s.cycles) - Len(r.cycles) = k
    BY <1>1, <1>2
  <2>2. QED
    BY <1>1, <2>1 DEF Ends
<1>5. Ends(r.pending, s.pending)
  <2>1. Ends(r.pending, r.cycles) /\ Ends(s.pending, s.cycles)
    BY <1>2, <1>3 DEF Consistent
  <2>2. Ends(r.pending, s.cycles)
    BY <1>2, <1>3, <1>4, <2>1, EndsTransitive
  <2>3. Len(r.pending) <= Len(s.pending)
    BY <1>1, <1>2, <1>3
  <2>4. QED
    BY <1>2, <1>3, <2>1, <2>2, <2>3, EndsCompare
<1>6. QED
  BY <1>1, <1>4, <1>5 DEF Shrunk, r

(* The same new cycles came to the buffer and to what waits. *)
Grown(s, r) ==
    \E x \in Seq(Cycles) :
       /\ r.cycles = s.cycles \o x /\ r.pending = s.pending \o x
       /\ x = << >> => r = s
       /\ s.last # None => \A i \in 1..Len(x) : s.last.n < x[i].n

(* The steps between raw values are numbers. *)
LEMMA Steps ==
    ASSUME NEW s \in Sessions, NEW c \in RawCycles
    PROVE  /\ c.seq \in Nat /\ c.t \in Int /\ c.r \in Nat
           /\ s.last # None => /\ s.last \in Lasts
                               /\ (c.seq - s.last.seq) % SeqWrap \in Nat
                               /\ TimeStep(c.t, s.last.t) \in Int
<1>1. SeqWrap \in Nat \ {0} /\ TimeWrap \in Nat \ {0}
  BY HubAssumption
<1>2. c.seq \in Nat /\ c.t \in Int /\ c.r \in Nat
  BY <1>1 DEF RawCycles
<1>3. ASSUME s.last # None
      PROVE  /\ s.last \in Lasts /\ (c.seq - s.last.seq) % SeqWrap \in Nat
             /\ TimeStep(c.t, s.last.t) \in Int
  <2>1. s.last \in Lasts
    BY <1>3 DEF Sessions
  <2>2. s.last.seq \in Int /\ s.last.t \in Int
    BY <1>1, <2>1 DEF Lasts
  <2>3. (c.seq - s.last.seq) % SeqWrap \in Nat
    BY <1>1, <1>2, <2>2
  <2>4. TimeStep(c.t, s.last.t) \in Int
    BY <1>1, <1>2, <2>2 DEF TimeStep
  <2>5. QED
    BY <2>1, <2>3, <2>4
<1>4. QED
  BY <1>2, <1>3

(* The cycle c was taken in as x. *)
Adds(s, c, x, r) ==
    /\ x \in Cycles
    /\ r.cycles = Append(s.cycles, x) /\ r.pending = Append(s.pending, x)
    /\ r.last # None /\ r.last.seq = c.seq /\ r.last.t = c.t
    /\ x.n = r.last.n /\ x.t = r.last.tn
    /\ s.last # None => /\ s.last.n < r.last.n
                        /\ SeqAdvances(c.seq, s.last.seq)
                        /\ r.last.tn = s.last.tn + TimeStep(c.t, s.last.t)

(* One cycle of a packet keeps the books, and is dropped or added at the end. *)
LEMMA AbsorbSound ==
    ASSUME NEW s \in Sound, NEW c \in RawCycles
    PROVE  LET r == Absorb(s, c)
           IN  /\ r \in Sound /\ SameSession(s, r)
               /\ r = s \/ \E x : Adds(s, c, x, r)
<1> DEFINE r == Absorb(s, c)
<1>1. /\ s \in Sessions /\ Consistent(s)
      /\ s.cycles \in Seq(Cycles) /\ s.pending \in Seq(Cycles)
      /\ Len(s.cycles) \in Nat /\ Len(s.pending) \in Nat
      /\ Len(s.pending) <= Len(s.cycles) /\ s.ranges \in Nat
  BY SoundType
<1>2. CASE s.last # None /\ ~SeqAdvances(c.seq, s.last.seq)
  <2>1. r = s
    BY <1>2 DEF Absorb
  <2>2. QED
    BY <2>1 DEF SameSession
<1>3. CASE ~(s.last # None /\ ~SeqAdvances(c.seq, s.last.seq))
  <2> DEFINE new == IF s.last = None
                    THEN [seq |-> c.seq, t |-> c.t, n |-> c.seq, tn |-> c.t]
                    ELSE [seq |-> c.seq, t |-> c.t,
                          n |-> s.last.n + ((c.seq - s.last.seq) % SeqWrap),
                          tn |-> s.last.tn + TimeStep(c.t, s.last.t)]
             next == s.last # None /\ (c.seq - s.last.seq) % SeqWrap = 1
             x == [n |-> new.n, t |-> new.tn, r |-> c.r,
                   dt |-> IF next THEN new.tn - s.last.tn ELSE None]
  <2>1. r = [s EXCEPT !.last = new, !.cycles = Append(@, x),
                      !.pending = Append(@, x), !.ranges = @ + c.r]
    BY <1>3 DEF Absorb
  <2>2. c.seq \in 0..(SeqWrap - 1) /\ c.t \in 0..(TimeWrap - 1) /\ c.r \in Nat
        /\ c.seq \in Nat /\ c.t \in Int
    BY Steps, <1>1 DEF RawCycles
  <2>3. s.last # None => /\ s.last \in Lasts
                         /\ (c.seq - s.last.seq) % SeqWrap \in Nat
                         /\ (c.seq - s.last.seq) % SeqWrap > 0
                         /\ TimeStep(c.t, s.last.t) \in Int
    BY <1>1, <1>3, Steps DEF SeqAdvances
  <2>4. new \in Lasts /\ (s.last # None => s.last.n < new.n /\ s.last.tn \in Int)
        /\ new.n \in Nat /\ new.tn \in Int /\ new.seq = c.seq /\ new.t = c.t
        /\ (s.last # None => new.tn = s.last.tn + TimeStep(c.t, s.last.t))
    <3>1. CASE s.last = None
      BY <2>2, <3>1 DEF Lasts
    <3>2. CASE s.last # None
      <4>1. s.last.n \in Nat /\ s.last.tn \in Int
        BY <2>3, <3>2 DEF Lasts
      <4>2. s.last.n + ((c.seq - s.last.seq) % SeqWrap) \in Nat
            /\ s.last.n < s.last.n + ((c.seq - s.last.seq) % SeqWrap)
            /\ s.last.tn + TimeStep(c.t, s.last.t) \in Int
        BY <2>3, <3>2, <4>1
      <4>3. new = [seq |-> c.seq, t |-> c.t,
                   n |-> s.last.n + ((c.seq - s.last.seq) % SeqWrap),
                   tn |-> s.last.tn + TimeStep(c.t, s.last.t)]
        BY <3>2
      <4> HIDE DEF new
      <4>4. QED
        BY <2>2, <3>2, <4>1, <4>2, <4>3 DEF Lasts
    <3>3. QED
      BY <3>1, <3>2
  <2> HIDE DEF new
  <2>5. x \in Cycles /\ x.n = new.n /\ x.r = c.r /\ x.t = new.tn
    <3>1. new.tn - s.last.tn \in Int \/ ~next
      BY <2>4
    <3>2. (IF next THEN new.tn - s.last.tn ELSE None) \in Int \cup {None}
      BY <3>1
    <3> HIDE DEF next
    <3>3. QED
      BY <2>2, <2>4, <3>2 DEF Cycles
  <2> HIDE DEF x
  <2>6. /\ Append(s.cycles, x) \in Seq(Cycles) /\ Append(s.pending, x) \in Seq(Cycles)
        /\ Len(Append(s.cycles, x)) = Len(s.cycles) + 1
        /\ \A i \in 1..Len(s.cycles) : Append(s.cycles, x)[i] = s.cycles[i]
        /\ Append(s.cycles, x)[Len(s.cycles) + 1] = x
        /\ <<x>> \in Seq(Cycles)
        /\ Append(s.cycles, x) = s.cycles \o <<x>>
        /\ Append(s.pending, x) = s.pending \o <<x>>
    BY <1>1, <2>5, AppendProperties, AppendIsConcat
  <2>7. /\ r.cycles = Append(s.cycles, x) /\ r.pending = Append(s.pending, x)
        /\ r.last = new /\ r.ranges = s.ranges + c.r /\ SameSession(s, r)
    BY <1>1, <2>1 DEF Sessions, SameSession
  <2>8. r \in Sessions
    <3>1. s.ranges + c.r \in Int
      BY <1>1, <2>2
    <3>2. QED
      BY <1>1, <2>1, <2>4, <2>6, <3>1 DEF Sessions
  <2>9. Consistent(r)
    <3>1. Ends(r.pending, r.cycles)
      <4>1. Ends(s.pending, s.cycles)
        BY <1>1 DEF Consistent
      <4>2. QED
        BY <1>1, <2>6, <2>7, <4>1, EndsConcat
    <3>2. r.ranges = RangeSum(r.cycles)
      BY <1>1, <2>5, <2>7, RangeSumAppend DEF Consistent
    <3>3. \A i \in 1..Len(s.cycles) :
             s.last # None /\ s.cycles[i].n <= s.last.n /\ s.cycles[i].n \in Nat
      <4> SUFFICES ASSUME NEW i \in 1..Len(s.cycles)
                   PROVE  /\ s.last # None /\ s.cycles[i].n <= s.last.n
                          /\ s.cycles[i].n \in Nat
        OBVIOUS
      <4>1. s.cycles[i] \in Cycles
        BY <1>1, ElementOfSeq
      <4>2. s.last # None /\ s.cycles[i].n <= s.last.n
        BY <1>1 DEF Consistent
      <4>3. QED
        BY <4>1, <4>2 DEF Cycles
    <3>4. ASSUME NEW i \in 1..Len(r.cycles)
          PROVE  r.last # None /\ r.cycles[i].n <= r.last.n
      <4>1. r.last # None
        BY <2>4, <2>7, HubAssumption
      <4>2. CASE i = Len(s.cycles) + 1
        BY <2>4, <2>5, <2>6, <2>7, <4>1, <4>2
      <4>3. CASE i # Len(s.cycles) + 1
        <5>1. i \in 1..Len(s.cycles)
          BY <1>1, <2>6, <2>7, <4>3
        <5>2. r.cycles[i] = s.cycles[i] /\ s.last.n < new.n /\ s.last.n \in Nat
          BY <2>3, <2>4, <2>6, <2>7, <3>3, <5>1 DEF Lasts
        <5>3. QED
          BY <2>4, <2>7, <3>3, <4>1, <5>1, <5>2
      <4>4. QED
        BY <4>2, <4>3
    <3>5. Ascending(r.cycles)
      <4>1. DOMAIN r.cycles = 1..(Len(s.cycles) + 1) /\ DOMAIN s.cycles = 1..Len(s.cycles)
        BY <1>1, <2>6, <2>7, LenProperties
      <4>2. ASSUME NEW i \in 1..(Len(s.cycles) + 1), NEW j \in 1..(Len(s.cycles) + 1),
                   i < j
            PROVE  r.cycles[i].n < r.cycles[j].n
        <5>1. i \in 1..Len(s.cycles)
          BY <1>1, <4>2
        <5>2. CASE j \in 1..Len(s.cycles)
          BY <1>1, <2>6, <2>7, <4>1, <4>2, <5>1, <5>2 DEF Consistent, Ascending
        <5>3. CASE j = Len(s.cycles) + 1
          <6>1. r.cycles[i] = s.cycles[i] /\ r.cycles[j] = x
                /\ s.last.n < new.n /\ s.last.n \in Nat
            BY <2>3, <2>4, <2>6, <2>7, <3>3, <5>1, <5>3 DEF Lasts
          <6>2. QED
            BY <2>4, <2>5, <3>3, <5>1, <6>1
        <5>4. QED
          BY <1>1, <5>2, <5>3
      <4>3. QED
        BY <4>1, <4>2 DEF Ascending
    <3>6. QED
      BY <3>1, <3>2, <3>4, <3>5 DEF Consistent
  <2>10. Adds(s, c, x, r)
    <3>1. new # None
      BY <2>4, HubAssumption
    <3>2. QED
      BY <1>3, <2>4, <2>5, <2>7, <3>1 DEF Adds
  <2> HIDE DEF r
  <2>11. QED
    BY <2>7, <2>8, <2>9, <2>10 DEF Sound, r
<1>4. QED
  BY <1>2, <1>3

(* The cycles of a packet, one after the other. *)
Filling(v, s, q) ==
    /\ v \in [0..Len(q) -> Sound]
    /\ v[0] = s
    /\ \A k \in 1..Len(q) : v[k] = Absorb(v[k - 1], q[k])
    /\ v[Len(q)] = FoldLeft(Absorb, s, q)

(* The turns of publish's loop, one by one. *)
LEMMA FillingExists ==
    ASSUME NEW s \in Sound, NEW q \in Seq(RawCycles)
    PROVE  \E v : Filling(v, s, q)
<1> DEFINE n == Len(q)
           step == [k \in 1..n |-> [r \in Sound |-> Absorb(r, q[k])]]
           Eq(f) == [t \in SUBSET (1..n) |->
                       IF t = {} THEN s ELSE Absorb(f[t \ {Max(t)}], q[Max(t)])]
           it == CHOOSE f : f = Eq(f)
<1>1. n \in Nat /\ DOMAIN q = 1..n /\ (\A k \in 1..n : q[k] \in RawCycles)
  BY LenProperties, ElementOfSeq
<1>2. step \in [1..n -> [Sound -> Sound]]
  BY <1>1, AbsorbSound
<1>3. \A k \in 1..n : \A r \in Sound : step[k][r] = Absorb(r, q[k])
  OBVIOUS
<1> HIDE DEF n, step
<1>4. \E f : f = Eq(f)
  <2>1. PICK f \in [SUBSET (1..n) -> Sound] : ByPlaces(f, n, s, step)
    BY <1>1, <1>2, FoldExists, Zenon
  <2>2. \A t \in SUBSET (1..n) :
           f[t] = IF t = {} THEN s ELSE Absorb(f[t \ {Max(t)}], q[Max(t)])
    <3> SUFFICES ASSUME NEW t \in SUBSET (1..n), t # {}
                 PROVE  f[t] = Absorb(f[t \ {Max(t)}], q[Max(t)])
      BY <2>1 DEF ByPlaces
    <3>1. Max(t) \in 1..n /\ f[t \ {Max(t)}] \in Sound
      BY <1>1, MaxProperties
    <3>2. QED
      BY <1>3, <2>1, <3>1 DEF ByPlaces
  <2>3. f = Eq(f)
    BY <2>2
  <2>4. QED
    BY <2>3
<1>5. it = Eq(it)
  BY <1>4
<1>6. FoldLeft(Absorb, s, q) = it[1..n]
  BY <1>1 DEF FoldLeft, MapThenFoldSet
<1> HIDE DEF it
<1>7. it[{}] = s
  BY <1>5
<1>8. ASSUME NEW t \in SUBSET (1..n), t # {}, it[t \ {Max(t)}] \in Sound
      PROVE  it[t] = step[Max(t)][it[t \ {Max(t)}]]
  <2>1. Max(t) \in 1..n
    BY <1>1, <1>8, MaxProperties
  <2>2. it[t] = Absorb(it[t \ {Max(t)}], q[Max(t)])
    BY <1>5, <1>8
  <2>3. QED
    BY <1>3, <1>8, <2>1, <2>2
<1>9. PICK v \in [0..n -> Sound] : IsRun(v, n, s, step, it[1..n])
  <2>1. OverPlaces(it, n, Sound, s, step)
    BY <1>7, <1>8 DEF OverPlaces
  <2>2. QED
    BY <1>1, <1>2, <2>1, FoldChain, Zenon
<1>10. ASSUME NEW k \in 1..n PROVE v[k] = Absorb(v[k - 1], q[k])
  <2>1. k - 1 \in 0..n
    BY <1>1
  <2>2. v[k - 1] \in Sound
    BY <1>9, <2>1
  <2>3. QED
    BY <1>3, <1>9, <2>2 DEF IsRun
<1>11. Filling(v, s, q)
  BY <1>6, <1>9, <1>10 DEF n, IsRun, Filling
<1>12. QED
  BY <1>11

(* Something was taken in, or nothing was. *)
Later(s, r) == r = s \/ (r.last # None /\ (s.last # None => s.last.n < r.last.n))

(* The unwrapped values of the last cycle. *)
LEMMA LastType ==
    ASSUME NEW s \in Sound, s.last # None
    PROVE  s.last.n \in Nat /\ s.last.tn \in Int
<1>1. s.last \in Lasts
  BY DEF Sound, Sessions
<1>2. QED
  BY <1>1 DEF Lasts

(* One more turn of the loop continues what the turns before did. *)
LEMMA AbsorbGrows ==
    ASSUME NEW s \in Sound, NEW r \in Sound, NEW c \in RawCycles,
           Grown(s, r), Later(s, r)
    PROVE  Grown(s, Absorb(r, c)) /\ Later(s, Absorb(r, c))
<1> DEFINE a == Absorb(r, c)
<1>1. CASE a = r
  BY <1>1
<1>2. CASE \E x : Adds(r, c, x, a)
  <2> HIDE DEF a
  <2>1. PICK x : Adds(r, c, x, a)
    BY <1>2
  <2>2. PICK y \in Seq(Cycles) :
           /\ r.cycles = s.cycles \o y /\ r.pending = s.pending \o y
           /\ s.last # None => \A i \in 1..Len(y) : s.last.n < y[i].n
    BY DEF Grown
  <2>3. /\ s.cycles \in Seq(Cycles) /\ s.pending \in Seq(Cycles)
        /\ r.cycles \in Seq(Cycles) /\ r.pending \in Seq(Cycles)
        /\ x \in Cycles /\ <<x>> \in Seq(Cycles)
    BY <2>1, SoundType DEF Adds
  <2>4. /\ y \o <<x>> \in Seq(Cycles) /\ y \o <<x>> # << >>
        /\ \A i \in 1..Len(y \o <<x>>) : (i \in 1..Len(y) /\ (y \o <<x>>)[i] = y[i])
                                         \/ (y \o <<x>>)[i] = x
    <3>1. Append(y, x) = y \o <<x>>
      BY <2>3, AppendIsConcat
    <3>2. /\ Append(y, x) \in Seq(Cycles) /\ Append(y, x) # << >>
          /\ Len(Append(y, x)) = Len(y) + 1
          /\ \A i \in 1..Len(y) : Append(y, x)[i] = y[i]
          /\ Append(y, x)[Len(y) + 1] = x
      <4>1. x \in Cycles
        BY <2>3
      <4>2. QED
        BY <4>1, AppendProperties
    <3>3. \A i \in 1..(Len(y) + 1) : i \in 1..Len(y) \/ i = Len(y) + 1
      <4>1. Len(y) \in Nat
        BY LenProperties
      <4>2. QED
        BY <4>1
    <3>4. QED
      BY <3>1, <3>2, <3>3
  <2>5. \A c1 \in Seq(Cycles) : Append(c1 \o y, x) = c1 \o (y \o <<x>>)
    <3> SUFFICES ASSUME NEW c1 \in Seq(Cycles)
                 PROVE  Append(c1 \o y, x) = c1 \o (y \o <<x>>)
      OBVIOUS
    <3>1. c1 \o y \in Seq(Cycles)
      BY ConcatProperties
    <3>2. Append(c1 \o y, x) = (c1 \o y) \o <<x>>
      BY <2>3, <3>1, AppendIsConcat
    <3>3. (c1 \o y) \o <<x>> = c1 \o (y \o <<x>>)
      <4> DEFINE u == <<x>>
      <4>1. u \in Seq(Cycles)
        BY <2>3
      <4> HIDE DEF u
      <4>2. (c1 \o y) \o u = c1 \o (y \o u)
        BY <4>1, ConcatAssociative
      <4>3. QED
        BY <4>2 DEF u
    <3>4. QED
      BY <3>2, <3>3
  <2>6. a.cycles = s.cycles \o (y \o <<x>>) /\ a.pending = s.pending \o (y \o <<x>>)
    BY <2>1, <2>2, <2>3, <2>5 DEF Adds
  <2>7. a.last # None /\ (s.last # None => s.last.n < a.last.n)
    <3>1. a.last # None /\ (r.last # None => r.last.n < a.last.n)
      BY <2>1 DEF Adds
    <3>2. ASSUME s.last # None PROVE s.last.n < a.last.n
      <4>1. CASE r = s
        BY <3>1, <3>2, <4>1
      <4>2. CASE r # s
        <5>1. r.last # None /\ s.last.n < r.last.n
          BY <3>2, <4>2 DEF Later
        <5>2. s.last.n \in Nat /\ r.last.n \in Nat
          BY <3>2, <5>1, LastType
        <5>3. a.last.n \in Nat
          <6>1. x \in Cycles /\ x.n = a.last.n
            BY <2>1 DEF Adds
          <6>2. QED
            BY <6>1 DEF Cycles
        <5>4. QED
          BY <3>1, <5>1, <5>2, <5>3
      <4>3. QED
        BY <4>1, <4>2
    <3>3. QED
      BY <3>1, <3>2
  <2>8. x.n = a.last.n
    BY <2>1 DEF Adds
  <2>9. s.last # None => \A i \in 1..Len(y \o <<x>>) : s.last.n < (y \o <<x>>)[i].n
    BY <2>2, <2>4, <2>7, <2>8
  <2>10. Grown(s, a)
    BY <2>4, <2>6, <2>9 DEF Grown
  <2>11. QED
    BY <2>7, <2>10 DEF a, Later
<1>3. QED
  BY <1>1, <1>2, AbsorbSound

(* The cycles of a packet keep the books and only append newer cycles. *)
LEMMA FilledSound ==
    ASSUME NEW s \in Sound, NEW q \in Seq(RawCycles)
    PROVE  LET r == FoldLeft(Absorb, s, q)
           IN  r \in Sound /\ SameSession(s, r) /\ Grown(s, r) /\ Later(s, r)
<1> DEFINE n == Len(q)
<1>1. PICK v : Filling(v, s, q)
  BY FillingExists
<1>2. /\ n \in Nat /\ (\A k \in 1..n : q[k] \in RawCycles)
      /\ (\A k \in 0..n : v[k] \in Sound) /\ v[0] = s
      /\ (\A k \in 1..n : v[k] = Absorb(v[k - 1], q[k]))
      /\ v[n] = FoldLeft(Absorb, s, q)
  BY <1>1, LenProperties, ElementOfSeq DEF Filling
<1> HIDE DEF n
<1> DEFINE P == {k \in 0..n : /\ SameSession(s, v[k]) /\ Grown(s, v[k])
                              /\ Later(s, v[k])}
<1>3. 0 \in P
  <2>1. << >> \in Seq(Cycles) /\ s.cycles \o << >> = s.cycles
        /\ s.pending \o << >> = s.pending /\ Len(<< >>) = 0
    BY SoundType, EmptySeq, ConcatEmptySeq
  <2>2. Grown(s, s)
    <3> DEFINE x == << >>
    <3>1. /\ x \in Seq(Cycles) /\ s.cycles = s.cycles \o x /\ s.pending = s.pending \o x
          /\ \A j \in 1..Len(x) : s.last.n < x[j].n
      BY <2>1
    <3> HIDE DEF x
    <3>2. QED
      BY <3>1 DEF Grown
  <2>3. QED
    BY <1>2, <2>2 DEF SameSession, Later
<1>4. ASSUME NEW k \in 1..n, k - 1 \in P PROVE k \in P
  <2>1. k - 1 \in 0..n /\ k \in 0..n
    BY <1>2
  <2>2. v[k - 1] \in Sound /\ q[k] \in RawCycles /\ v[k] = Absorb(v[k - 1], q[k])
    BY <1>2, <2>1
  <2>3. SameSession(s, v[k - 1]) /\ Grown(s, v[k - 1]) /\ Later(s, v[k - 1])
    BY <1>4
  <2>4. Grown(s, v[k]) /\ Later(s, v[k])
    BY <2>2, <2>3, AbsorbGrows
  <2>5. SameSession(v[k - 1], v[k])
    BY <2>2, AbsorbSound
  <2>6. SameSession(s, v[k])
    BY <2>3, <2>5 DEF SameSession
  <2>7. QED
    BY <2>1, <2>4, <2>6
<1>5. n \in P
  <2> HIDE DEF P
  <2>1. \A k \in 0..n : k \in P
    BY <1>2, <1>3, <1>4, Induction
  <2>2. QED
    BY <1>2, <2>1
<1>6. n \in 0..n
  BY <1>2
<1>7. QED
  BY <1>2, <1>5, <1>6

(* Nothing taken off the front has no ranges. *)
LEMMA RangeSumNone ==
    ASSUME NEW c \in Seq(Cycles) PROVE RangeSum(SubSeq(c, 1, 0)) = 0
<1>1. 1 \in 1..(Len(c) + 1) /\ 0 \in 0..Len(c)
  BY LenProperties
<1>2. SubSeq(c, 1, 0) \in Seq(Cycles) /\ Len(SubSeq(c, 1, 0)) = 0
  BY <1>1, Piece
<1>3. SubSeq(c, 1, 0) = << >>
  BY <1>2, EmptySeq
<1>4. QED
  BY <1>3, RangeSumEmpty

(* To pop no cycle changes nothing. *)
LEMMA PoppedNone ==
    ASSUME NEW s \in Sound PROVE Popped(s, 0) = s
<1> DEFINE c == s.cycles
           p == s.pending
<1>1. /\ s \in Sessions /\ c \in Seq(Cycles) /\ p \in Seq(Cycles)
      /\ Len(c) \in Nat /\ Len(p) \in Nat /\ Len(p) <= Len(c) /\ s.ranges \in Nat
  BY SoundType
<1>2. SubSeq(c, 1, Len(c)) = c /\ SubSeq(p, 1, Len(p)) = p
  BY <1>1, SubSeqFull
<1>3. RangeSum(SubSeq(c, 1, 0)) = 0
  BY <1>1, RangeSumNone
<1>4. Popped(s, 0) =
        [s EXCEPT !.cycles = SubSeq(@, 0 + 1, Len(@)),
                  !.pending = SubSeq(@, 0 + 1, Len(@)),
                  !.ranges = @ - RangeSum(SubSeq(s.cycles, 1, 0))]
  <2>1. ~(Len(p) > Len(c) - 0)
    BY <1>1
  <2>2. QED
    BY <2>1 DEF Popped
<1>5. Popped(s, 0) = [s EXCEPT !.cycles = c, !.pending = p, !.ranges = s.ranges]
  <2>1. SubSeq(c, 0 + 1, Len(c)) = c /\ SubSeq(p, 0 + 1, Len(p)) = p
        /\ s.ranges - RangeSum(SubSeq(c, 1, 0)) = s.ranges
    BY <1>1, <1>2, <1>3
  <2>2. QED
    BY <1>4, <2>1
<1>6. QED
  BY <1>1, <1>5 DEF Sessions

(* Nothing in the buffer is older than Retention at its last cycle. *)
Fresh(s) ==
    s.cycles # << >> => Last(s.cycles).t - s.cycles[1].t <= Retention

Fits(s) == Len(s.cycles) <= MaxCycles /\ s.ranges <= MaxRanges /\ Fresh(s)

(* The first half of _trim: the buffer's own limits are met, and a buffer that *)
(* met them is left alone.                                                     *)
LEMMA TrimSized ==
    ASSUME NEW s \in Sound,
           NEW sized, sized = Popped(s, Min({k \in 0..Len(s.cycles) :
                                k = Len(s.cycles)
                                \/ (/\ Len(s.cycles) - k <= MaxCycles
                                    /\ s.ranges - RangeSum(SubSeq(s.cycles, 1, k))
                                         <= MaxRanges)}))
    PROVE  /\ sized \in Sound /\ Shrunk(s, sized)
           /\ Len(sized.cycles) <= MaxCycles /\ sized.ranges <= MaxRanges
           /\ Fits(s) => sized = s
<1> DEFINE K == {k \in 0..Len(s.cycles) :
                    k = Len(s.cycles)
                    \/ (/\ Len(s.cycles) - k <= MaxCycles
                        /\ s.ranges - RangeSum(SubSeq(s.cycles, 1, k)) <= MaxRanges)}
           m == Min(K)
<1>1. Len(s.cycles) \in Nat /\ s.ranges \in Nat /\ s.cycles \in Seq(Cycles)
  BY SoundType
<1>2. MaxCycles \in Nat /\ MaxRanges \in Nat
  BY HubAssumption
<1>3. K \in SUBSET Nat /\ Len(s.cycles) \in K
  BY <1>1
<1>4. m \in K /\ \A y \in K : m <= y
  BY <1>3, MinProperties
<1>5. m \in 0..Len(s.cycles) /\ sized = Popped(s, m)
  BY <1>4
<1>6. m = Len(s.cycles) \/ (/\ Len(s.cycles) - m <= MaxCycles
                            /\ s.ranges - RangeSum(SubSeq(s.cycles, 1, m)) <= MaxRanges)
  BY <1>4
<1>7. Fits(s) => 0 \in K
  <2>1. RangeSum(SubSeq(s.cycles, 1, 0)) = 0
    BY <1>1, RangeSumNone
  <2>2. QED
    BY <1>1, <1>2, <2>1 DEF Fits
<1> HIDE DEF K
<1>8. Fits(s) => m = 0
  BY <1>3, <1>4, <1>5, <1>7
<1> HIDE DEF m
<1>9. sized \in Sound /\ Shrunk(s, sized)
  BY <1>5, PoppedShrunk
<1>10. /\ Len(sized.cycles) = Len(s.cycles) - m
       /\ sized.ranges = s.ranges - RangeSum(SubSeq(s.cycles, 1, m))
  BY <1>5, PoppedSound
<1>11. Len(sized.cycles) <= MaxCycles /\ sized.ranges <= MaxRanges
  <2>1. CASE m = Len(s.cycles)
    <3>1. Len(sized.cycles) = 0 /\ sized.cycles \in Seq(Cycles) /\ Consistent(sized)
      BY <1>1, <1>9, <1>10, <2>1, SoundType
    <3>2. sized.cycles = << >>
      BY <3>1, EmptySeq
    <3>3. sized.ranges = 0
      BY <3>1, <3>2, RangeSumEmpty DEF Consistent
    <3>4. QED
      BY <1>2, <3>1, <3>3
  <2>2. CASE m # Len(s.cycles)
    BY <1>6, <1>10, <2>2
  <2>3. QED
    BY <2>1, <2>2
<1>12. Fits(s) => sized = s
  BY <1>5, <1>8, PoppedNone
<1>13. QED
  BY <1>9, <1>11, <1>12

(* _trim keeps the books and meets every limit of the session; a buffer that *)
(* met them is left alone.                                                   *)
LEMMA TrimSound ==
    ASSUME NEW s \in Sound
    PROVE  LET r == Trim(s)
           IN  r \in Sound /\ Shrunk(s, r) /\ Fits(r) /\ (Fits(s) => r = s)
<1> DEFINE sized == Popped(s, Min({k \in 0..Len(s.cycles) :
                                k = Len(s.cycles)
                                \/ (/\ Len(s.cycles) - k <= MaxCycles
                                    /\ s.ranges - RangeSum(SubSeq(s.cycles, 1, k))
                                         <= MaxRanges)}))
           size == Len(sized.cycles)
           K == {k \in 0..size :
                    k >= size - 1
                    \/ sized.cycles[size].t - sized.cycles[k + 1].t <= Retention}
           m == Min(K)
           r == Trim(s)
<1>1. /\ sized \in Sound /\ Shrunk(s, sized)
      /\ Len(sized.cycles) <= MaxCycles /\ sized.ranges <= MaxRanges
      /\ (Fits(s) => sized = s)
  BY TrimSized
<1>2. r = IF size = 0 THEN sized ELSE Popped(sized, m)
  BY DEF Trim
<1> HIDE DEF sized, r
<1>3. /\ sized.cycles \in Seq(Cycles) /\ size \in Nat /\ sized.ranges \in Nat
      /\ MaxCycles \in Nat /\ MaxRanges \in Nat /\ Retention \in Nat
  BY <1>1, SoundType, HubAssumption
<1>4. CASE size = 0
  <2>1. Fresh(sized)
    BY <1>3, <1>4, EmptySeq DEF Fresh
  <2>2. QED
    BY <1>1, <1>2, <1>4, <2>1 DEF Fits, r
<1>5. CASE size # 0
  <2>1. K \in SUBSET Nat /\ size - 1 \in K
    BY <1>3, <1>5
  <2>2. m \in K /\ \A y \in K : m <= y
    BY <2>1, MinProperties
  <2>3. m \in 0..(size - 1) /\ m \in 0..size /\ r = Popped(sized, m)
    BY <1>2, <1>3, <1>5, <2>1, <2>2
  <2> HIDE DEF m, size
  <2>4. r \in Sound /\ Shrunk(sized, r)
    BY <1>1, <2>3, PoppedShrunk DEF size
  <2>5. /\ Len(r.cycles) = size - m
        /\ \A i \in 1..Len(r.cycles) : r.cycles[i] = sized.cycles[m + i]
        /\ r.ranges <= sized.ranges /\ r.ranges \in Nat
    BY <1>1, <2>3, PoppedSound DEF size
  <2>6. Shrunk(s, r)
    BY <1>1, <2>4, ShrunkTransitive
  <2>7. Fresh(r)
    <3>1. Len(r.cycles) \in 1..size /\ m + Len(r.cycles) = size /\ m + 1 \in 1..size
      BY <1>3, <2>3, <2>5
    <3>2. Last(r.cycles) = sized.cycles[size] /\ r.cycles[1] = sized.cycles[m + 1]
      BY <2>5, <3>1 DEF Last
    <3>3. sized.cycles[size] \in Cycles /\ sized.cycles[m + 1] \in Cycles
      BY <1>3, <1>5, <3>1, ElementOfSeq DEF size
    <3>4. sized.cycles[size].t - sized.cycles[m + 1].t <= Retention
      <4>1. CASE m >= size - 1
        <5>1. m + 1 = size
          BY <1>3, <2>3, <4>1
        <5>2. QED
          BY <1>3, <3>3, <5>1 DEF Cycles
      <4>2. CASE ~(m >= size - 1)
        BY <2>2, <4>2
      <4>3. QED
        BY <4>1, <4>2
    <3>5. QED
      BY <3>2, <3>4 DEF Fresh
  <2>8. Fits(r)
    <3>1. Len(r.cycles) <= MaxCycles /\ r.ranges <= MaxRanges
      BY <1>1, <1>3, <2>3, <2>5 DEF size
    <3>2. QED
      BY <2>7, <3>1 DEF Fits
  <2>9. Fits(s) => r = s
    <3>1. SUFFICES ASSUME Fits(s) PROVE r = s
      OBVIOUS
    <3>2. sized = s /\ Fresh(sized)
      BY <1>1, <3>1 DEF Fits
    <3>3. sized.cycles # << >>
      BY <1>5, EmptySeq DEF size
    <3>4. 0 \in K
      BY <1>3, <1>5, <3>2, <3>3 DEF Fresh, Last, size
    <3>5. m = 0
      <4> HIDE DEF K
      <4>1. m <= 0
        BY <2>2, <3>4
      <4>2. QED
        BY <1>3, <2>3, <4>1
    <3>6. QED
      BY <1>1, <2>3, <3>2, <3>5, PoppedNone
  <2>10. QED
    BY <2>4, <2>6, <2>8, <2>9 DEF r
<1>6. QED
  BY <1>4, <1>5

-----------------------------------------------------------------------------
(* The total limit *)

(* The tags in the order in which their counts are summed up. *)
LEMMA TagList ==
    /\ Cardinality(Tags) \in Nat
    /\ SetToSeq(Tags) \in [1..Cardinality(Tags) -> Tags]
    /\ \A i, j \in 1..Cardinality(Tags) :
          SetToSeq(Tags)[i] = SetToSeq(Tags)[j] => i = j
    /\ \A t \in Tags : \E i \in 1..Cardinality(Tags) : SetToSeq(Tags)[i] = t
<1> DEFINE n == Cardinality(Tags)
           tags == SetToSeq(Tags)
<1>1. IsFiniteSet(Tags) /\ n \in Nat /\ ExistsBijection(1..n, Tags)
  BY HubAssumption, FS_CardinalityType
<1>2. \E f \in [1..n -> Tags] : IsInjective(f)
  BY <1>1 DEF ExistsBijection, Bijection, Injection
<1>3. tags \in [1..n -> Tags] /\ IsInjective(tags)
  BY <1>2 DEF SetToSeq
<1> HIDE DEF n, tags
<1>4. tags \in Injection(1..n, Tags)
  BY <1>3 DEF Injection
<1>5. Cardinality(1..n) = n
  <2>1. Cardinality(1..n) = IF 1 > n THEN 0 ELSE n - 1 + 1
    BY <1>1, FS_Interval
  <2>2. QED
    BY <1>1, <2>1
<1>6. tags \in Surjection(1..n, Tags)
  BY <1>1, <1>4, <1>5, FS_Injection DEF n
<1>7. \A t \in Tags : \E i \in 1..n : tags[i] = t
  BY <1>6 DEF Surjection
<1>8. \A i, j \in 1..n : tags[i] = tags[j] => i = j
  BY <1>3 DEF IsInjective
<1>9. QED
  BY <1>1, <1>3, <1>7, <1>8 DEF n, tags

Listed(count) == [i \in 1..Cardinality(Tags) |-> count[SetToSeq(Tags)[i]]]

(* A count per tag as a sequence. *)
LEMMA ListedType ==
    ASSUME NEW count \in [Tags -> Int]
    PROVE  /\ Listed(count) \in Seq(Int) /\ Len(Listed(count)) = Cardinality(Tags)
           /\ OverTags(count) = Total(Listed(count)) /\ OverTags(count) \in Int
           /\ \A i \in 1..Cardinality(Tags) : Listed(count)[i] = count[SetToSeq(Tags)[i]]
<1> DEFINE n == Cardinality(Tags)
<1>1. n \in Nat /\ \A i \in 1..n : SetToSeq(Tags)[i] \in Tags
  BY TagList
<1>2. Listed(count) \in [1..n -> Int]
  BY <1>1 DEF Listed
<1>3. Listed(count) \in Seq(Int)
  BY <1>1, <1>2, SeqDef
<1>4. Len(Listed(count)) = n
  BY <1>1, <1>2, <1>3, LenProperties
<1>5. OverTags(count) = Total(Listed(count))
  BY DEF OverTags, Listed
<1>6. Total(Listed(count)) \in Int
  BY <1>3, TotalType
<1>7. QED
  BY <1>3, <1>4, <1>5, <1>6 DEF Listed

(* One tag counts differently. *)
LEMMA OverTagsChange ==
    ASSUME NEW count \in [Tags -> Int], NEW new \in [Tags -> Int], NEW t \in Tags,
           \A u \in Tags : u # t => new[u] = count[u]
    PROVE  OverTags(new) = OverTags(count) + new[t] - count[t]
<1> DEFINE n == Cardinality(Tags)
<1>1. PICK j \in 1..n : SetToSeq(Tags)[j] = t
  BY TagList
<1>2. \A i \in 1..n : i # j => SetToSeq(Tags)[i] # t /\ SetToSeq(Tags)[i] \in Tags
  BY <1>1, TagList
<1> DEFINE p == Listed(count)
           q == Listed(new)
<1>3. /\ p \in Seq(Int) /\ Len(p) = n /\ OverTags(count) = Total(p)
      /\ \A i \in 1..n : p[i] = count[SetToSeq(Tags)[i]]
  BY ListedType
<1>4. /\ q \in Seq(Int) /\ Len(q) = n /\ OverTags(new) = Total(q)
      /\ \A i \in 1..n : q[i] = new[SetToSeq(Tags)[i]]
  BY ListedType
<1> HIDE DEF n, p, q
<1>5. ASSUME NEW i \in 1..Len(p), i # j PROVE q[i] = p[i]
  <2>1. i \in 1..n
    BY <1>3
  <2>2. SetToSeq(Tags)[i] # t /\ SetToSeq(Tags)[i] \in Tags
    BY <1>2, <1>5, <2>1
  <2>3. p[i] = count[SetToSeq(Tags)[i]] /\ q[i] = new[SetToSeq(Tags)[i]]
    BY <1>3, <1>4, <2>1
  <2>4. QED
    BY <2>2, <2>3
<1>6. Total(q) = Total(p) + q[j] - p[j]
  <2>1. j \in 1..Len(p) /\ Len(q) = Len(p)
    BY <1>1, <1>3, <1>4
  <2>2. QED
    BY <1>3, <1>4, <1>5, <2>1, TotalChange
<1>7. QED
  BY <1>1, <1>3, <1>4, <1>6

(* Counts per tag that are naturals have one as their sum. *)
LEMMA OverTagsNatural ==
    ASSUME NEW count \in [Tags -> Nat]
    PROVE  /\ OverTags(count) \in Nat
           /\ \A t \in Tags : OverTags(count) >= count[t]
           /\ (\A t \in Tags : count[t] = 0) => OverTags(count) = 0
<1> DEFINE n == Cardinality(Tags)
           p == Listed(count)
<1>1. count \in [Tags -> Int]
  OBVIOUS
<1>2. /\ p \in Seq(Int) /\ Len(p) = n /\ OverTags(count) = Total(p)
      /\ OverTags(count) \in Int
      /\ \A i \in 1..n : p[i] = count[SetToSeq(Tags)[i]]
  BY <1>1, ListedType
<1>3. \A i \in 1..n : SetToSeq(Tags)[i] \in Tags
  BY TagList
<1>4. \A t \in Tags : \E i \in 1..n : SetToSeq(Tags)[i] = t
  BY TagList
<1> HIDE DEF n, p
<1>5. \A i \in 1..Len(p) : p[i] >= 0
  BY <1>2, <1>3
<1>6. /\ Total(p) >= 0 /\ \A i \in 1..Len(p) : Total(p) >= p[i]
      /\ ((\A i \in 1..Len(p) : p[i] = 0) => Total(p) = 0)
  BY <1>2, <1>5, TotalOfNaturals
<1>7. \A t \in Tags : OverTags(count) >= count[t]
  BY <1>2, <1>4, <1>6
<1>8. (\A t \in Tags : count[t] = 0) => OverTags(count) = 0
  BY <1>2, <1>3, <1>6
<1>9. QED
  BY <1>2, <1>6, <1>7, <1>8

(* The sessions of all tags. *)
Buffers == [Tags -> Sound \cup {None}]

RangesOf(all) == [t \in Tags |-> IF all[t] = None THEN 0 ELSE all[t].ranges]

CyclesOf(all) == [t \in Tags |-> IF all[t] = None THEN 0 ELSE Len(all[t].cycles)]

(* No session is None. *)
LEMMA NotNone == \A s \in Sound : s # None
BY HubAssumption DEF Sound

(* What the sessions count per tag and together. *)
LEMMA CountsType ==
    ASSUME NEW all \in Buffers
    PROVE  /\ RangesOf(all) \in [Tags -> Nat] /\ CyclesOf(all) \in [Tags -> Nat]
           /\ TotalRanges(all) = OverTags(RangesOf(all)) /\ TotalRanges(all) \in Nat
           /\ BufferedCycles(all) = OverTags(CyclesOf(all))
           /\ BufferedCycles(all) \in Nat
<1>1. ASSUME NEW t \in Tags, all[t] # None
      PROVE  all[t].ranges \in Nat /\ Len(all[t].cycles) \in Nat
  <2>1. all[t] \in Sound
    BY <1>1 DEF Buffers
  <2>2. QED
    BY <2>1, SoundType
<1>2. RangesOf(all) \in [Tags -> Nat] /\ CyclesOf(all) \in [Tags -> Nat]
  BY <1>1 DEF RangesOf, CyclesOf
<1>3. TotalRanges(all) = OverTags(RangesOf(all))
      /\ BufferedCycles(all) = OverTags(CyclesOf(all))
  BY DEF TotalRanges, BufferedCycles, RangesOf, CyclesOf
<1>4. QED
  BY <1>2, <1>3, OverTagsNatural

(* The sessions that have cycles, and which of two pays first. *)
Stocked(all) == {t \in Tags : all[t] # None /\ all[t].cycles # << >>}

PaysFirst(all, t, u) ==
    \/ ~all[t].active /\ all[u].active
    \/ /\ all[t].active = all[u].active
       /\ all[t].ranges >= all[u].ranges

(* Victim is a session with cycles that pays before every other one. *)
LEMMA VictimProperties ==
    ASSUME NEW all \in Buffers
    PROVE  IF Stocked(all) = {} THEN Victim(all) = None
           ELSE /\ Victim(all) \in Stocked(all) /\ Victim(all) # None
                /\ \A u \in Stocked(all) : PaysFirst(all, Victim(all), u)
<1> DEFINE n == Cardinality(Tags)
           tags == SetToSeq(Tags)
           some == Stocked(all)
<1>1. n \in Nat /\ (\A i \in 1..n : tags[i] \in Tags)
      /\ \A t \in Tags : \E i \in 1..n : tags[i] = t
  BY TagList
<1>2. \A t \in some : all[t].active \in BOOLEAN /\ all[t].ranges \in Nat /\ t \in Tags
  <2> SUFFICES ASSUME NEW t \in some
               PROVE  all[t].active \in BOOLEAN /\ all[t].ranges \in Nat /\ t \in Tags
    OBVIOUS
  <2>1. t \in Tags /\ all[t] \in Sound
    BY DEF Stocked, Buffers
  <2>2. QED
    BY <2>1, SoundType, SessionType
<1>3. \A t \in some : PaysFirst(all, t, t)
  BY <1>2 DEF PaysFirst
<1>4. \A t, u \in some : PaysFirst(all, t, u) \/ PaysFirst(all, u, t)
  BY <1>2 DEF PaysFirst
<1>5. \A t, u, w \in some :
         PaysFirst(all, t, u) /\ PaysFirst(all, u, w) => PaysFirst(all, t, w)
  BY <1>2 DEF PaysFirst
<1> HIDE DEF n, tags, some
<1> DEFINE P == {i \in 0..n :
                   \/ \A j \in 1..i : tags[j] \notin some
                   \/ \E t \in some : \A j \in 1..i :
                         tags[j] \in some => PaysFirst(all, t, tags[j])}
<1>6. 0 \in P
  BY <1>1
<1>7. ASSUME NEW i \in 1..n, i - 1 \in P PROVE i \in P
  <2>1. i \in 0..n /\ \A j \in 1..i : j = i \/ j \in 1..(i - 1)
    BY <1>1
  <2>2. CASE tags[i] \notin some
    <3>1. CASE \A j \in 1..(i - 1) : tags[j] \notin some
      BY <2>1, <2>2, <3>1
    <3>2. CASE \E t \in some : \A j \in 1..(i - 1) :
                 tags[j] \in some => PaysFirst(all, t, tags[j])
      BY <2>1, <2>2, <3>2
    <3>3. QED
      BY <1>7, <3>1, <3>2
  <2>3. CASE tags[i] \in some
    <3>1. CASE \A j \in 1..(i - 1) : tags[j] \notin some
      <4>1. \A j \in 1..i : tags[j] \in some => PaysFirst(all, tags[i], tags[j])
        BY <1>3, <2>1, <3>1
      <4>2. QED
        BY <2>1, <2>3, <4>1
    <3>2. CASE \E t \in some : \A j \in 1..(i - 1) :
                 tags[j] \in some => PaysFirst(all, t, tags[j])
      <4>1. PICK t \in some : \A j \in 1..(i - 1) :
                 tags[j] \in some => PaysFirst(all, t, tags[j])
        BY <3>2
      <4>2. CASE PaysFirst(all, t, tags[i])
        BY <2>1, <4>1, <4>2
      <4>3. CASE PaysFirst(all, tags[i], t)
        <5>1. \A j \in 1..i : tags[j] \in some => PaysFirst(all, tags[i], tags[j])
          BY <1>3, <1>5, <2>1, <2>3, <4>1, <4>3
        <5>2. QED
          BY <2>1, <2>3, <5>1
      <4>4. QED
        BY <1>4, <2>3, <4>2, <4>3
    <3>3. QED
      BY <1>7, <3>1, <3>2
  <2>4. QED
    BY <2>2, <2>3
<1>8. n \in P
  <2> HIDE DEF P
  <2>1. \A i \in 0..n : i \in P
    BY <1>1, <1>6, <1>7, Induction
  <2>2. QED
    BY <1>1, <2>1
<1>9. \A t \in some : \E i \in 1..n : tags[i] = t
  BY <1>1, <1>2
<1>10. some # {} => \E t \in some : \A u \in some : PaysFirst(all, t, u)
  BY <1>8, <1>9
<1>11. Victim(all) = IF some = {} THEN None
                     ELSE CHOOSE t \in some : \A u \in some : PaysFirst(all, t, u)
  BY DEF Victim, some, Stocked, PaysFirst
<1>12. \A t \in some : t # None
  BY <1>2, HubAssumption
<1>13. QED
  BY <1>10, <1>11, <1>12 DEF some

(* One turn of _enforce_total_limit. *)
Turn(now) ==
    IF TotalRanges(now) > MaxTotal /\ Victim(now) # None
    THEN [now EXCEPT ![Victim(now)] = Popped(@, 1)]
    ELSE now

(* A turn that takes a cycle takes it from the victim, and a turn that takes *)
(* none has found the limit met.                                            *)
LEMMA TurnSound ==
    ASSUME NEW now \in Buffers
    PROVE  /\ Turn(now) \in Buffers
           /\ \/ TotalRanges(now) <= MaxTotal /\ Turn(now) = now
              \/ LET v == Victim(now)
                 IN  /\ v \in Stocked(now)
                     /\ \A u \in Stocked(now) : PaysFirst(now, v, u)
                     /\ Turn(now)[v] \in Sound /\ Shrunk(now[v], Turn(now)[v])
                     /\ \A u \in Tags : u # v => Turn(now)[u] = now[u]
                     /\ BufferedCycles(Turn(now)) = BufferedCycles(now) - 1
<1> DEFINE v == Victim(now)
           new == Turn(now)
<1>1. TotalRanges(now) \in Nat /\ MaxTotal \in Nat
  BY CountsType, HubAssumption
<1>2. CASE TotalRanges(now) <= MaxTotal
  <2>1. new = now
    BY <1>1, <1>2 DEF Turn
  <2>2. QED
    BY <1>2, <2>1
<1>3. CASE TotalRanges(now) > MaxTotal
  <2>1. Stocked(now) # {}
    <3>1. SUFFICES ASSUME Stocked(now) = {} PROVE FALSE
      OBVIOUS
    <3>2. ASSUME NEW t \in Tags PROVE RangesOf(now)[t] = 0
      <4>1. CASE now[t] = None
        BY <4>1 DEF RangesOf
      <4>2. CASE now[t] # None
        <5>1. now[t] \in Sound /\ now[t].cycles = << >>
          BY <3>1, <4>2 DEF Stocked, Buffers
        <5>2. now[t].ranges = 0
          BY <5>1, RangeSumEmpty DEF Sound, Consistent
        <5>3. QED
          BY <4>2, <5>2 DEF RangesOf
      <4>3. QED
        BY <4>1, <4>2
    <3>3. TotalRanges(now) = 0
      <4>1. RangesOf(now) \in [Tags -> Nat] /\ TotalRanges(now) = OverTags(RangesOf(now))
        BY CountsType
      <4>2. QED
        BY <3>2, <4>1, OverTagsNatural
    <3>4. QED
      BY <1>1, <1>3, <3>3
  <2>2. v \in Stocked(now) /\ v # None /\ \A u \in Stocked(now) : PaysFirst(now, v, u)
    BY <2>1, VictimProperties
  <2>3. new = [now EXCEPT ![v] = Popped(@, 1)]
    BY <1>3, <2>2 DEF Turn
  <2> HIDE DEF v, new
  <2>4. v \in Tags /\ now[v] \in Sound /\ now[v].cycles # << >> /\ now[v] # None
    BY <2>2 DEF Stocked, Buffers
  <2>5. now[v].cycles \in Seq(Cycles) /\ Len(now[v].cycles) \in Nat \ {0}
    BY <2>4, SoundType, EmptySeq
  <2>6. 1 \in 0..Len(now[v].cycles)
    BY <2>5
  <2>7. /\ Popped(now[v], 1) \in Sound /\ Shrunk(now[v], Popped(now[v], 1))
        /\ Len(Popped(now[v], 1).cycles) = Len(now[v].cycles) - 1
    BY <2>4, <2>6, PoppedShrunk, PoppedSound
  <2>8. new[v] = Popped(now[v], 1) /\ \A u \in Tags : u # v => new[u] = now[u]
    BY <2>3, <2>4 DEF Buffers
  <2>9. new \in Buffers
    BY <2>3, <2>4, <2>7 DEF Buffers
  <2>10. BufferedCycles(new) = BufferedCycles(now) - 1
    <3>1. /\ CyclesOf(now) \in [Tags -> Nat] /\ CyclesOf(new) \in [Tags -> Nat]
          /\ BufferedCycles(now) = OverTags(CyclesOf(now))
          /\ BufferedCycles(new) = OverTags(CyclesOf(new))
          /\ BufferedCycles(now) \in Nat
      BY <2>9, CountsType
    <3>2. CyclesOf(now) \in [Tags -> Int] /\ CyclesOf(new) \in [Tags -> Int]
      BY <3>1
    <3>3. \A u \in Tags : u # v => CyclesOf(new)[u] = CyclesOf(now)[u]
      BY <2>8 DEF CyclesOf
    <3>4. CyclesOf(now)[v] = Len(now[v].cycles)
          /\ CyclesOf(new)[v] = Len(now[v].cycles) - 1
      BY <2>4, <2>7, <2>8, NotNone DEF CyclesOf
    <3>5. OverTags(CyclesOf(new)) =
            OverTags(CyclesOf(now)) + CyclesOf(new)[v] - CyclesOf(now)[v]
      BY <2>4, <3>2, <3>3, OverTagsChange
    <3>6. QED
      BY <2>5, <3>1, <3>4, <3>5
  <2>11. QED
    BY <2>2, <2>7, <2>8, <2>9, <2>10 DEF v, new
<1>4. QED
  BY <1>1, <1>2, <1>3

(* The turns, one after the other. *)
Limiting(v, all) ==
    /\ v \in [0..BufferedCycles(all) -> Buffers]
    /\ v[0] = all
    /\ \A k \in 1..BufferedCycles(all) : v[k] = Turn(v[k - 1])
    /\ v[BufferedCycles(all)] = Limited(all)

(* The turns of _enforce_total_limit, one by one. *)
LEMMA LimitingExists ==
    ASSUME NEW all \in Buffers
    PROVE  \E v : Limiting(v, all)
<1> DEFINE n == BufferedCycles(all)
           q == [i \in 1..n |-> i]
           step == [k \in 1..n |-> [now \in Buffers |-> Turn(now)]]
           Eq(f) == [t \in SUBSET (1..n) |->
                       IF t = {} THEN all ELSE Turn(f[t \ {Max(t)}])]
           it == CHOOSE f : f = Eq(f)
<1>1. n \in Nat /\ DOMAIN q = 1..n
  BY CountsType
<1>2. step \in [1..n -> [Buffers -> Buffers]]
  BY TurnSound
<1>3. \A k \in 1..n : \A now \in Buffers : step[k][now] = Turn(now)
  OBVIOUS
<1> HIDE DEF n, step
<1>4. \E f : f = Eq(f)
  <2>1. PICK f \in [SUBSET (1..n) -> Buffers] : ByPlaces(f, n, all, step)
    BY <1>1, <1>2, FoldExists, Zenon
  <2>2. \A t \in SUBSET (1..n) : f[t] = IF t = {} THEN all ELSE Turn(f[t \ {Max(t)}])
    <3> SUFFICES ASSUME NEW t \in SUBSET (1..n), t # {}
                 PROVE  f[t] = Turn(f[t \ {Max(t)}])
      BY <2>1 DEF ByPlaces
    <3>1. Max(t) \in 1..n /\ f[t \ {Max(t)}] \in Buffers
      BY <1>1, MaxProperties
    <3>2. QED
      BY <1>3, <2>1, <3>1 DEF ByPlaces
  <2>3. f = Eq(f)
    BY <2>2
  <2>4. QED
    BY <2>3
<1>5. it = Eq(it)
  BY <1>4
<1>6. Limited(all) = it[1..n]
  BY <1>1 DEF Limited, FoldLeft, MapThenFoldSet, Turn, n
<1> HIDE DEF it
<1>7. it[{}] = all
  BY <1>5
<1>8. ASSUME NEW t \in SUBSET (1..n), t # {}, it[t \ {Max(t)}] \in Buffers
      PROVE  it[t] = step[Max(t)][it[t \ {Max(t)}]]
  <2>1. Max(t) \in 1..n
    BY <1>1, <1>8, MaxProperties
  <2>2. it[t] = Turn(it[t \ {Max(t)}])
    BY <1>5, <1>8
  <2>3. QED
    BY <1>3, <1>8, <2>1, <2>2
<1>9. PICK v \in [0..n -> Buffers] : IsRun(v, n, all, step, it[1..n])
  <2>1. OverPlaces(it, n, Buffers, all, step)
    BY <1>7, <1>8 DEF OverPlaces
  <2>2. QED
    BY <1>1, <1>2, <2>1, FoldChain, Zenon
<1>10. ASSUME NEW k \in 1..n PROVE v[k] = Turn(v[k - 1])
  <2>1. k - 1 \in 0..n
    BY <1>1
  <2>2. v[k - 1] \in Buffers
    BY <1>9, <2>1
  <2>3. QED
    BY <1>3, <1>9, <2>2 DEF IsRun
<1>11. Limiting(v, all)
  BY <1>6, <1>9, <1>10 DEF n, IsRun, Limiting
<1>12. QED
  BY <1>11

(* What the buffers became by losing old cycles, ended sessions first. *)
Reduced(all, new) ==
    /\ \A t \in Tags : all[t] = None => new[t] = None
    /\ \A t \in Tags : all[t] # None => new[t] \in Sound /\ Shrunk(all[t], new[t])
    /\ \A t, u \in Tags :
          /\ all[t] # None /\ all[t].active
          /\ Len(new[t].cycles) < Len(all[t].cycles)
          /\ all[u] # None /\ ~all[u].active
          => new[u].cycles = << >>

(* One more turn of the total limit takes from ended sessions first, too. *)
LEMMA ReducedByTurn ==
    ASSUME NEW all \in Buffers, NEW now \in Buffers, Reduced(all, now)
    PROVE  Reduced(all, Turn(now))
<1> DEFINE new == Turn(now)
           v == Victim(now)
<1>1. CASE new = now
  BY <1>1
<1>2. CASE /\ v \in Stocked(now) /\ \A u \in Stocked(now) : PaysFirst(now, v, u)
           /\ new[v] \in Sound /\ Shrunk(now[v], new[v])
           /\ \A u \in Tags : u # v => new[u] = now[u]
  <2> HIDE DEF new, v
  <2>1. v \in Tags /\ now[v] # None /\ now[v] \in Sound
    BY <1>2 DEF Stocked, Buffers
  <2>2. all[v] # None /\ all[v] \in Sound /\ Shrunk(all[v], now[v])
    BY <2>1 DEF Reduced, Buffers
  <2>3. Shrunk(all[v], new[v])
    BY <1>2, <2>1, <2>2, ShrunkTransitive
  <2>4. ASSUME NEW t \in Tags, NEW u \in Tags, all[t] # None, all[t].active,
               Len(new[t].cycles) < Len(all[t].cycles), all[u] # None, ~all[u].active
        PROVE  new[u].cycles = << >>
    <3>1. CASE t = v
      <4>1. now[v].active /\ u # v /\ new[u] = now[u]
        BY <1>2, <2>2, <2>4, <3>1 DEF Shrunk, SameSession
      <4>2. now[u] \in Sound /\ now[u] # None /\ ~now[u].active
        BY <2>4, NotNone DEF Reduced, Shrunk, SameSession
      <4>3. ~PaysFirst(now, v, u)
        BY <4>1, <4>2 DEF PaysFirst
      <4>4. u \notin Stocked(now)
        BY <1>2, <4>3
      <4>5. QED
        BY <4>1, <4>2, <4>4 DEF Stocked
    <3>2. CASE t # v
      <4>1. new[t] = now[t]
        BY <1>2, <3>2
      <4>2. now[u].cycles = << >>
        BY <2>4, <4>1 DEF Reduced
      <4>3. u # v
        BY <1>2, <4>2 DEF Stocked
      <4>4. QED
        BY <1>2, <4>2, <4>3
    <3>3. QED
      BY <3>1, <3>2
  <2>5. \A t \in Tags : all[t] = None => new[t] = None
    BY <1>2, <2>2 DEF Reduced
  <2>6. \A t \in Tags : all[t] # None => new[t] \in Sound /\ Shrunk(all[t], new[t])
    BY <1>2, <2>3 DEF Reduced
  <2>7. QED
    BY <2>4, <2>5, <2>6 DEF Reduced, new
<1>3. QED
  BY <1>1, <1>2, TurnSound

(* _enforce_total_limit meets the limit, at the cost of ended sessions first, *)
(* and leaves all alone if it was met.                                        *)
LEMMA LimitedSound ==
    ASSUME NEW all \in Buffers
    PROVE  /\ Limited(all) \in Buffers /\ Reduced(all, Limited(all))
           /\ TotalRanges(Limited(all)) <= MaxTotal
           /\ TotalRanges(all) <= MaxTotal => Limited(all) = all
<1> DEFINE n == BufferedCycles(all)
<1>1. PICK v : Limiting(v, all)
  BY LimitingExists
<1>2. /\ n \in Nat /\ (\A k \in 0..n : v[k] \in Buffers) /\ v[0] = all
      /\ (\A k \in 1..n : v[k] = Turn(v[k - 1])) /\ v[n] = Limited(all)
      /\ n = BufferedCycles(all)
  BY <1>1, CountsType DEF Limiting
<1>3. MaxTotal \in Nat
  BY HubAssumption
<1> HIDE DEF n
<1> DEFINE P == {k \in 0..n : /\ Reduced(all, v[k])
                              /\ TotalRanges(v[k]) <= MaxTotal
                                 \/ BufferedCycles(v[k]) = n - k
                              /\ TotalRanges(all) <= MaxTotal => v[k] = all}
<1>4. 0 \in P
  <2>1. Reduced(all, all)
    <3>1. \A t \in Tags : all[t] # None => all[t] \in Sound /\ Shrunk(all[t], all[t])
      BY SoundType DEF Buffers
    <3>2. \A t \in Tags : all[t] # None => ~(Len(all[t].cycles) < Len(all[t].cycles))
      BY <3>1, SoundType
    <3>3. QED
      BY <3>1, <3>2 DEF Reduced
  <2>2. QED
    BY <1>2, <2>1
<1>5. ASSUME NEW k \in 1..n, k - 1 \in P PROVE k \in P
  <2>1. k - 1 \in 0..n /\ k \in 0..n
    BY <1>2
  <2>2. v[k - 1] \in Buffers /\ v[k] = Turn(v[k - 1]) /\ v[k] \in Buffers
    BY <1>2, <2>1
  <2>3. Reduced(all, v[k])
    BY <1>5, <2>2, ReducedByTurn
  <2>4. TotalRanges(v[k - 1]) \in Nat
    BY <2>2, CountsType
  <2>5. TotalRanges(v[k]) <= MaxTotal \/ BufferedCycles(v[k]) = n - k
    <3>1. CASE TotalRanges(v[k - 1]) <= MaxTotal
      <4>1. v[k] = v[k - 1]
        BY <1>3, <2>2, <2>4, <3>1 DEF Turn
      <4>2. QED
        BY <3>1, <4>1
    <3>2. CASE ~(TotalRanges(v[k - 1]) <= MaxTotal)
      <4>1. BufferedCycles(v[k]) = BufferedCycles(v[k - 1]) - 1
        BY <2>2, <3>2, TurnSound
      <4>2. BufferedCycles(v[k - 1]) = n - (k - 1)
        BY <1>5, <3>2
      <4>3. QED
        BY <1>2, <4>1, <4>2
    <3>3. QED
      BY <3>1, <3>2
  <2>6. TotalRanges(all) <= MaxTotal => v[k] = all
    <3>1. SUFFICES ASSUME TotalRanges(all) <= MaxTotal PROVE v[k] = all
      OBVIOUS
    <3>2. v[k - 1] = all
      BY <1>5, <3>1
    <3>3. QED
      BY <1>3, <2>2, <2>4, <3>1, <3>2 DEF Turn
  <2>7. QED
    BY <2>1, <2>3, <2>5, <2>6
<1>6. n \in P
  <2> HIDE DEF P
  <2>1. \A k \in 0..n : k \in P
    BY <1>2, <1>4, <1>5, Induction
  <2>2. QED
    BY <1>2, <2>1
<1>7. n \in 0..n
  BY <1>2
<1>8. TotalRanges(v[n]) <= MaxTotal
  <2>1. SUFFICES ASSUME BufferedCycles(v[n]) = 0 PROVE TotalRanges(v[n]) <= MaxTotal
    BY <1>2, <1>6
  <2>2. v[n] \in Buffers
    BY <1>2, <1>7
  <2>3. Turn(v[n]) \in Buffers
    BY <2>2, TurnSound
  <2>4. BufferedCycles(Turn(v[n])) \in Nat
    BY <2>3, CountsType
  <2>5. BufferedCycles(Turn(v[n])) # BufferedCycles(v[n]) - 1
    BY <2>1, <2>4
  <2>6. QED
    BY <2>2, <2>5, TurnSound
<1>9. QED
  BY <1>2, <1>6, <1>7, <1>8

-----------------------------------------------------------------------------
(* Pages and frames *)

Pages == [boot : Boots \cup {None}, sid : Boots \cup {None},
          rev : Revs \cup {None}, active : BOOLEAN, data : Seq(Cycles)]

Frames ==
    [type : {"session_start", "session_info"}, boot : Boots,
     sid : Boots \cup {None}, rev : Revs \cup {None}]
      \cup [type : {"session_end"}, boot : Boots, sid : Boots \cup {None}]
      \cup [type : {"append"}, boot : Boots, sid : Boots \cup {None},
            cycles : Seq(Cycles)]

(* When one sequence of cycles continues another. *)
LEMMA AscendingConcat ==
    ASSUME NEW a \in Seq(Cycles), NEW b \in Seq(Cycles)
    PROVE  Ascending(a \o b) <=> /\ Ascending(a) /\ Ascending(b)
                                 /\ \A i \in 1..Len(a), j \in 1..Len(b) : a[i].n < b[j].n
<1> DEFINE m == Len(a)
           n == Len(b)
           c == a \o b
<1>1. /\ m \in Nat /\ n \in Nat /\ DOMAIN a = 1..m /\ DOMAIN b = 1..n
      /\ DOMAIN c = 1..(m + n)
      /\ \A i \in 1..(m + n) : c[i] = IF i <= m THEN a[i] ELSE b[i - m]
  BY LenProperties, ConcatProperties
<1> HIDE DEF m, n, c
<1>2. \A i \in 1..m : i \in 1..(m + n) /\ c[i] = a[i]
  BY <1>1
<1>3. \A j \in 1..n : m + j \in 1..(m + n) /\ c[m + j] = b[j]
  <2> SUFFICES ASSUME NEW j \in 1..n PROVE m + j \in 1..(m + n) /\ c[m + j] = b[j]
    OBVIOUS
  <2>1. m + j \in 1..(m + n) /\ ~(m + j <= m) /\ (m + j) - m = j
    BY <1>1
  <2>2. QED
    BY <1>1, <2>1
<1>4. ASSUME Ascending(c)
      PROVE  /\ Ascending(a) /\ Ascending(b)
             /\ \A i \in 1..m, j \in 1..n : a[i].n < b[j].n
  <2>1. \A i, j \in 1..(m + n) : i < j => c[i].n < c[j].n
    BY <1>1, <1>4 DEF Ascending
  <2>2. Ascending(a)
    BY <1>1, <1>2, <2>1 DEF Ascending
  <2>3. Ascending(b)
    <3>1. ASSUME NEW i \in 1..n, NEW j \in 1..n, i < j PROVE b[i].n < b[j].n
      <4>1. m + i < m + j
        BY <1>1, <3>1
      <4>2. QED
        BY <1>3, <2>1, <4>1
    <3>2. QED
      BY <1>1, <3>1 DEF Ascending
  <2>4. ASSUME NEW i \in 1..m, NEW j \in 1..n PROVE a[i].n < b[j].n
    <3>1. i < m + j
      BY <1>1
    <3>2. QED
      BY <1>2, <1>3, <2>1, <3>1
  <2>5. QED
    BY <2>2, <2>3, <2>4
<1>5. ASSUME Ascending(a), Ascending(b), \A i \in 1..m, j \in 1..n : a[i].n < b[j].n
      PROVE  Ascending(c)
  <2>1. ASSUME NEW i \in 1..(m + n), NEW j \in 1..(m + n), i < j PROVE c[i].n < c[j].n
    <3>1. CASE j <= m
      <4>1. i \in 1..m /\ j \in 1..m
        BY <1>1, <2>1, <3>1
      <4>2. QED
        BY <1>1, <1>2, <1>5, <2>1, <4>1 DEF Ascending
    <3>2. CASE ~(j <= m) /\ i <= m
      <4>1. i \in 1..m /\ j - m \in 1..n
        BY <1>1, <3>2
      <4>2. c[i] = a[i] /\ c[j] = b[j - m]
        BY <1>1, <3>2
      <4>3. QED
        BY <1>5, <4>1, <4>2
    <3>3. CASE ~(i <= m)
      <4>1. i - m \in 1..n /\ j - m \in 1..n /\ i - m < j - m /\ ~(j <= m)
        BY <1>1, <2>1, <3>3
      <4>2. c[i] = b[i - m] /\ c[j] = b[j - m]
        BY <1>1, <3>3, <4>1
      <4>3. QED
        BY <1>1, <1>5, <4>1, <4>2 DEF Ascending
    <3>4. QED
      BY <3>1, <3>2, <3>3
  <2>2. QED
    BY <1>1, <2>1 DEF Ascending
<1>6. QED
  BY <1>4, <1>5 DEF m, n, c

(* The end of an ascending sequence ascends. *)
LEMMA AscendingEnds ==
    ASSUME NEW p \in Seq(Cycles), NEW c \in Seq(Cycles), Ends(p, c), Ascending(c)
    PROVE  Ascending(p)
<1>1. Len(p) \in Nat /\ Len(c) \in Nat /\ DOMAIN p = 1..Len(p) /\ DOMAIN c = 1..Len(c)
      /\ Len(p) <= Len(c)
  BY LenProperties DEF Ends
<1>2. ASSUME NEW i \in 1..Len(p), NEW j \in 1..Len(p), i < j PROVE p[i].n < p[j].n
  <2> DEFINE k == Len(c) - Len(p)
  <2>1. k + i \in 1..Len(c) /\ k + j \in 1..Len(c) /\ k + i < k + j
    BY <1>1, <1>2
  <2>2. p[i] = c[k + i] /\ p[j] = c[k + j]
    BY DEF Ends
  <2> HIDE DEF k
  <2>3. QED
    BY <1>1, <2>1, <2>2 DEF Ascending
<1>3. QED
  BY <1>1, <1>2 DEF Ascending

(* Cycles that continue what the page shows are all appended. *)
LEMMA JoinedProperties ==
    ASSUME NEW data \in Seq(Cycles), NEW cycles \in Seq(Cycles)
    PROVE  /\ Joined(data, cycles) \in Seq(Cycles)
           /\ Ascending(data \o cycles) => Joined(data, cycles) = data \o cycles
<1> DEFINE newer == {i \in 1..Len(cycles) : cycles[i].n > Last(data).n}
           T == newer \cup {Len(cycles) + 1}
           from == Min(T)
           part == SubSeq(cycles, from, Len(cycles))
<1>1. CASE data = << >>
  BY <1>1, ConcatEmptySeq DEF Joined
<1>2. CASE data # << >>
  <2>1. Len(cycles) \in Nat /\ Len(data) \in Nat \ {0}
    BY <1>2, LenProperties, EmptySeq
  <2>2. T \in SUBSET Nat /\ T \in SUBSET (1..(Len(cycles) + 1))
        /\ Len(cycles) + 1 \in T
    BY <2>1
  <2>3. from \in T /\ \A y \in T : from <= y
    BY <2>2, MinProperties
  <2>4. from \in 1..(Len(cycles) + 1)
    BY <2>2, <2>3
  <2>5. Joined(data, cycles) = data \o part
    BY <1>2 DEF Joined
  <2>6. part \in Seq(Cycles)
    <3> HIDE DEF from
    <3>1. Len(cycles) \in 0..Len(cycles)
      BY <2>1
    <3>2. QED
      BY <2>4, <3>1, Piece
  <2>7. Joined(data, cycles) \in Seq(Cycles)
    <3> HIDE DEF part
    <3>1. QED
      BY <2>5, <2>6, ConcatProperties
  <2>8. ASSUME Ascending(data \o cycles) PROVE part = cycles
    <3>1. CASE Len(cycles) = 0
      <4>1. T = {1}
        BY <3>1
      <4>2. from \in 1..1
        BY <2>4, <3>1
      <4>3. part = << >>
        BY <2>4, <2>6, <3>1, <4>2, SubSeqFull, EmptySeq
      <4>4. QED
        BY <3>1, <4>3, EmptySeq
    <3>2. CASE Len(cycles) # 0
      <4>1. Last(data).n < cycles[1].n
        BY <2>1, <2>8, <3>2, AscendingConcat DEF Last
      <4>2. Last(data) \in Cycles /\ cycles[1] \in Cycles
        BY <2>1, <3>2, ElementOfSeq DEF Last
      <4>3. 1 \in T
        BY <2>1, <3>2, <4>1, <4>2 DEF Cycles
      <4>4. from = 1
        <5> HIDE DEF T
        <5>1. from <= 1
          BY <2>3, <4>3
        <5>2. QED
          BY <2>1, <2>4, <5>1
      <4> HIDE DEF from
      <4>5. QED
        BY <4>4, SubSeqFull
    <3>3. QED
      BY <3>1, <3>2
  <2>9. QED
    BY <2>5, <2>7, <2>8
<1>3. QED
  BY <1>1, <1>2

(* The page keeps the end of what it holds, and always the last cycle. *)
LEMMA TrimmedProperties ==
    ASSUME NEW data \in Seq(Cycles)
    PROVE  /\ Trimmed(data) \in Seq(Cycles) /\ Ends(Trimmed(data), data)
           /\ data # << >> => /\ Trimmed(data) # << >>
                              /\ Last(Trimmed(data)) = Last(data)
<1> DEFINE n == Len(data)
           kept == {i \in 1..n : data[i].t >= Last(data).t - Trail}
           from == Min(kept)
           r == SubSeq(data, from, n)
<1>1. CASE data = << >>
  <2>1. Trimmed(data) = << >> /\ Len(data) = 0
    BY <1>1, EmptySeq DEF Trimmed
  <2>2. Ends(data, data)
    <3>1. 0 <= 0 /\ \A i \in 1..0 : FALSE
      OBVIOUS
    <3>2. QED
      BY <2>1, <3>1 DEF Ends
  <2>3. QED
    BY <1>1, <2>1, <2>2
<1>2. CASE data # << >>
  <2>1. n \in Nat \ {0} /\ Trail \in Nat
    BY <1>2, EmptySeq, HubAssumption
  <2>2. data[n] \in Cycles /\ Last(data) = data[n]
    BY <2>1, ElementOfSeq DEF Last
  <2>3. n \in kept /\ kept \in SUBSET Nat
    BY <2>1, <2>2 DEF Cycles
  <2>4. from \in kept
    BY <2>3, MinProperties
  <2>5. from \in 1..n
    BY <2>4
  <2> HIDE DEF from
  <2>6. /\ r \in Seq(Cycles) /\ Len(r) = n - from + 1
        /\ \A i \in 1..Len(r) : r[i] = data[from + i - 1]
    <3>1. from \in 1..(n + 1) /\ n \in 0..n /\ from <= n
      BY <2>1, <2>5
    <3>2. QED
      BY <3>1, Piece
  <2>7. Trimmed(data) = r
    BY <1>2 DEF Trimmed, from
  <2> HIDE DEF r
  <2>8. Ends(r, data)
    <3>1. \A i \in 1..Len(r) : from + i - 1 = n - Len(r) + i
      BY <2>1, <2>5, <2>6
    <3>2. Len(r) <= n
      BY <2>1, <2>5, <2>6
    <3>3. QED
      BY <2>6, <3>1, <3>2 DEF Ends
  <2>9. r # << >> /\ Last(r) = Last(data)
    <3>1. Len(r) \in 1..n /\ from + Len(r) - 1 = n
      BY <2>1, <2>5, <2>6
    <3>2. r[Len(r)] = data[n]
      BY <2>6, <3>1
    <3>3. QED
      BY <3>1, <3>2, EmptySeq DEF Last
  <2>10. QED
    BY <2>6, <2>7, <2>8, <2>9
<1>3. QED
  BY <1>1, <1>2

(* A page stays a page whatever frame comes. *)
LEMMA OnFrameType ==
    ASSUME NEW p \in Pages, NEW f \in Frames
    PROVE  OnFrame(p, f) \in Pages
<1>1. CASE f.type = "session_start"
  <2>1. f.boot \in Boots /\ f.sid \in Boots \cup {None} /\ f.rev \in Revs \cup {None}
    BY <1>1 DEF Frames
  <2>2. (IF f.boot = p.boot THEN p.data ELSE << >>) \in Seq(Cycles)
    BY EmptySeq DEF Pages
  <2>3. OnFrame(p, f) = OnSessionStart(p, f)
    BY <1>1 DEF OnFrame
  <2>4. QED
    BY <2>1, <2>2, <2>3 DEF Pages, OnSessionStart
<1>2. CASE f.type = "session_info"
  <2>1. f.boot \in Boots /\ f.sid \in Boots \cup {None} /\ f.rev \in Revs \cup {None}
    BY <1>2 DEF Frames
  <2>2. OnFrame(p, f) = OnSessionInfo(p, f)
    BY <1>2 DEF OnFrame
  <2>3. QED
    BY <2>1, <2>2 DEF Pages, OnSessionInfo
<1>3. CASE f.type = "session_end"
  <2>1. OnFrame(p, f) = OnSessionEnd(p, f)
    BY <1>3 DEF OnFrame
  <2>2. QED
    BY <2>1 DEF Pages, OnSessionEnd
<1>4. CASE f.type = "append"
  <2>1. f.sid \in Boots \cup {None} /\ f.cycles \in Seq(Cycles)
    BY <1>4 DEF Frames
  <2>2. OnFrame(p, f) = OnAppend(p, f)
    BY <1>4 DEF OnFrame
  <2>3. Trimmed(Joined(p.data, f.cycles)) \in Seq(Cycles)
    <3>1. p.data \in Seq(Cycles)
      BY DEF Pages
    <3>2. QED
      BY <2>1, <3>1, JoinedProperties, TrimmedProperties
  <2>4. QED
    BY <2>1, <2>2, <2>3 DEF Pages, OnAppend
<1>5. QED
  BY <1>1, <1>2, <1>3, <1>4 DEF Frames

(* The frames of one step, one after the other. *)
Receiving(v, p, out) ==
    /\ v \in [0..Len(out) -> Pages]
    /\ v[0] = p
    /\ \A k \in 1..Len(out) : v[k] = OnFrame(v[k - 1], out[k])
    /\ v[Len(out)] = FoldLeft(OnFrame, p, out)

(* The frames a page receives, one by one. *)
LEMMA ReceivingExists ==
    ASSUME NEW p \in Pages, NEW q \in Seq(Frames)
    PROVE  \E v : Receiving(v, p, q)
<1> DEFINE n == Len(q)
           step == [k \in 1..n |-> [r \in Pages |-> OnFrame(r, q[k])]]
           Eq(f) == [t \in SUBSET (1..n) |->
                       IF t = {} THEN p ELSE OnFrame(f[t \ {Max(t)}], q[Max(t)])]
           it == CHOOSE f : f = Eq(f)
<1>1. n \in Nat /\ DOMAIN q = 1..n /\ (\A k \in 1..n : q[k] \in Frames)
  BY LenProperties, ElementOfSeq
<1>2. step \in [1..n -> [Pages -> Pages]]
  BY <1>1, OnFrameType
<1>3. \A k \in 1..n : \A r \in Pages : step[k][r] = OnFrame(r, q[k])
  OBVIOUS
<1> HIDE DEF n, step
<1>4. \E f : f = Eq(f)
  <2>1. PICK f \in [SUBSET (1..n) -> Pages] : ByPlaces(f, n, p, step)
    BY <1>1, <1>2, FoldExists, Zenon
  <2>2. \A t \in SUBSET (1..n) :
           f[t] = IF t = {} THEN p ELSE OnFrame(f[t \ {Max(t)}], q[Max(t)])
    <3> SUFFICES ASSUME NEW t \in SUBSET (1..n), t # {}
                 PROVE  f[t] = OnFrame(f[t \ {Max(t)}], q[Max(t)])
      BY <2>1 DEF ByPlaces
    <3>1. Max(t) \in 1..n /\ f[t \ {Max(t)}] \in Pages
      BY <1>1, MaxProperties
    <3>2. QED
      BY <1>3, <2>1, <3>1 DEF ByPlaces
  <2>3. f = Eq(f)
    BY <2>2
  <2>4. QED
    BY <2>3
<1>5. it = Eq(it)
  BY <1>4
<1>6. FoldLeft(OnFrame, p, q) = it[1..n]
  BY <1>1 DEF FoldLeft, MapThenFoldSet
<1> HIDE DEF it
<1>7. it[{}] = p
  BY <1>5
<1>8. ASSUME NEW t \in SUBSET (1..n), t # {}, it[t \ {Max(t)}] \in Pages
      PROVE  it[t] = step[Max(t)][it[t \ {Max(t)}]]
  <2>1. Max(t) \in 1..n
    BY <1>1, <1>8, MaxProperties
  <2>2. it[t] = OnFrame(it[t \ {Max(t)}], q[Max(t)])
    BY <1>5, <1>8
  <2>3. QED
    BY <1>3, <1>8, <2>1, <2>2
<1>9. PICK v \in [0..n -> Pages] : IsRun(v, n, p, step, it[1..n])
  <2>1. OverPlaces(it, n, Pages, p, step)
    BY <1>7, <1>8 DEF OverPlaces
  <2>2. QED
    BY <1>1, <1>2, <2>1, FoldChain, Zenon
<1>10. ASSUME NEW k \in 1..n PROVE v[k] = OnFrame(v[k - 1], q[k])
  <2>1. k - 1 \in 0..n
    BY <1>1
  <2>2. v[k - 1] \in Pages
    BY <1>9, <2>1
  <2>3. QED
    BY <1>3, <1>9, <2>2 DEF IsRun
<1>11. Receiving(v, p, q)
  BY <1>6, <1>9, <1>10 DEF n, IsRun, Receiving
<1>12. QED
  BY <1>11

(* What a page is once it has received these frames. *)
Told(p, out) == FoldLeft(OnFrame, p, out)

(* To be told one frame more is to receive it last. *)
LEMMA ToldProperties ==
    ASSUME NEW p \in Pages, NEW out \in Seq(Frames)
    PROVE  /\ Told(p, out) \in Pages
           /\ Told(p, << >>) = p
           /\ \A f \in Frames : Told(p, Append(out, f)) = OnFrame(Told(p, out), f)
<1> DEFINE n == Len(out)
<1>1. PICK v : Receiving(v, p, out)
  BY ReceivingExists
<1>2. /\ n \in Nat /\ (\A k \in 0..n : v[k] \in Pages) /\ v[0] = p
      /\ (\A k \in 1..n : v[k] = OnFrame(v[k - 1], out[k]))
      /\ v[n] = Told(p, out)
  BY <1>1, LenProperties DEF Receiving, Told
<1>3. Told(p, << >>) = p
  <2>1. << >> \in Seq(Frames) /\ Len(<< >>) = 0
    BY EmptySeq
  <2>2. PICK w : Receiving(w, p, << >>)
    BY <2>1, ReceivingExists
  <2>3. QED
    BY <2>1, <2>2 DEF Receiving, Told
<1>4. ASSUME NEW f \in Frames PROVE Told(p, Append(out, f)) = OnFrame(Told(p, out), f)
  <2> DEFINE more == Append(out, f)
  <2>1. /\ more \in Seq(Frames) /\ Len(more) = n + 1
        /\ (\A i \in 1..n : more[i] = out[i]) /\ more[n + 1] = f
    BY AppendProperties
  <2> HIDE DEF more, n
  <2>2. PICK w : Receiving(w, p, more)
    BY <2>1, ReceivingExists
  <2>3. /\ w[0] = p /\ (\A k \in 1..(n + 1) : w[k] = OnFrame(w[k - 1], more[k]))
        /\ w[n + 1] = Told(p, more)
    BY <2>1, <2>2 DEF Receiving, Told
  <2> DEFINE P == {k \in 0..n : w[k] = v[k]}
  <2>4. 0 \in P
    BY <1>2, <2>3
  <2>5. ASSUME NEW k \in 1..n, k - 1 \in P PROVE k \in P
    <3>1. k \in 1..(n + 1) /\ k \in 0..n
      BY <1>2
    <3>2. w[k] = OnFrame(w[k - 1], out[k]) /\ v[k] = OnFrame(v[k - 1], out[k])
      BY <1>2, <2>1, <2>3, <3>1
    <3>3. QED
      BY <2>5, <3>1, <3>2
  <2>6. n \in P
    <3> HIDE DEF P
    <3>1. \A k \in 0..n : k \in P
      BY <1>2, <2>4, <2>5, Induction
    <3>2. QED
      BY <1>2, <3>1
  <2>7. w[n + 1] = OnFrame(w[n], f)
    <3>1. n + 1 \in 1..(n + 1) /\ (n + 1) - 1 = n
      BY <1>2
    <3>2. QED
      BY <2>1, <2>3, <3>1
  <2>8. QED
    BY <1>2, <2>3, <2>6, <2>7 DEF more
<1>5. n \in 0..n
  BY <1>2
<1>6. QED
  BY <1>2, <1>3, <1>4, <1>5

-----------------------------------------------------------------------------
(* What a page knows *)

SameBuffer(s, r) ==
    /\ r.cycles = s.cycles /\ r.pending = s.pending
    /\ r.last = s.last /\ r.ranges = s.ranges

(* The books do not depend on what is not in the buffer. *)
LEMMA SameBufferSound ==
    ASSUME NEW s \in Sound, NEW r \in Sessions, SameBuffer(s, r)
    PROVE  r \in Sound
BY DEF Sound, Consistent, SameBuffer

(* The cycles sent are the buffer without the pending ones at its end. *)
LEMMA SentProperties ==
    ASSUME NEW s \in Sound
    PROVE  /\ Sent(s) \in Seq(Cycles)
           /\ Len(Sent(s)) = Len(s.cycles) - Len(s.pending)
           /\ \A i \in 1..Len(Sent(s)) : Sent(s)[i] = s.cycles[i]
           /\ s.cycles = Sent(s) \o s.pending
<1> DEFINE c == s.cycles
           p == s.pending
           x == Sent(s)
<1>1. /\ c \in Seq(Cycles) /\ p \in Seq(Cycles) /\ Len(c) \in Nat /\ Len(p) \in Nat
      /\ Len(p) <= Len(c) /\ Ends(p, c)
  BY SoundType DEF Consistent
<1>2. x = SubSeq(c, 1, Len(c) - Len(p))
  BY DEF Sent
<1> HIDE DEF c, p, x
<1>3. 1 \in 1..(Len(c) + 1) /\ Len(c) - Len(p) \in 0..Len(c)
  BY <1>1
<1>4. /\ x \in Seq(Cycles) /\ Len(x) = Len(c) - Len(p)
      /\ \A i \in 1..Len(x) : x[i] = c[1 + i - 1]
  BY <1>1, <1>2, <1>3, Piece
<1>5. \A i \in 1..Len(x) : x[i] = c[i]
  BY <1>1, <1>4
<1>6. c = x \o p
  <2> DEFINE y == x \o p
  <2>1. y \in Seq(Cycles) /\ Len(y) = Len(c)
    BY <1>1, <1>4, ConcatProperties
  <2>2. ASSUME NEW i \in 1..Len(c) PROVE y[i] = c[i]
    <3>1. CASE i <= Len(x)
      BY <1>1, <1>4, <1>5, <3>1, ConcatProperties
    <3>2. CASE i > Len(x)
      <4>1. y[i] = p[i - Len(x)]
        BY <1>1, <1>4, <2>1, <3>2, ConcatProperties
      <4>2. i - Len(x) \in 1..Len(p)
        BY <1>1, <1>4, <3>2
      <4>3. p[i - Len(x)] = c[Len(c) - Len(p) + (i - Len(x))]
        BY <1>1, <4>2 DEF Ends
      <4>4. Len(c) - Len(p) + (i - Len(x)) = i
        BY <1>1, <1>4
      <4>5. QED
        BY <4>1, <4>3, <4>4
    <3>3. QED
      BY <1>1, <1>4, <3>1, <3>2
  <2> HIDE DEF y
  <2>3. y = c
    BY <1>1, <2>1, <2>2, SeqEqual
  <2>4. QED
    BY <2>3 DEF y
<1>7. QED
  BY <1>4, <1>5, <1>6 DEF c, p, x

(* What was sent of a shortened buffer is the end of what was sent of it. *)
LEMMA SentShrunk ==
    ASSUME NEW s \in Sound, NEW r \in Sound, Shrunk(s, r)
    PROVE  Ends(Sent(r), Sent(s))
<1> DEFINE c == Len(s.cycles)
           e == Len(r.cycles)
           p == Len(s.pending)
           q == Len(r.pending)
           a == Len(Sent(s))
           b == Len(Sent(r))
<1>1. c \in Nat /\ e \in Nat /\ p \in Nat /\ p <= c /\ q \in Nat /\ q <= e
  BY SoundType
<1>2. a = c - p /\ (\A i \in 1..a : Sent(s)[i] = s.cycles[i])
  BY SentProperties
<1>3. b = e - q /\ (\A i \in 1..b : Sent(r)[i] = r.cycles[i])
  BY SentProperties
<1>4. /\ e <= c /\ \A i \in 1..e : r.cycles[i] = s.cycles[c - e + i]
      /\ q = IF p <= e THEN p ELSE e
  BY DEF Shrunk, Ends
<1> HIDE DEF c, e, p, q, a, b
<1>5. b <= a
  BY <1>1, <1>2, <1>3, <1>4
<1>6. ASSUME NEW i \in 1..b PROVE Sent(r)[i] = Sent(s)[a - b + i]
  <2>1. q = p /\ i \in 1..e
    BY <1>1, <1>3, <1>4
  <2>2. a - b + i = c - e + i /\ a - b + i \in 1..a
    BY <1>1, <1>2, <1>3, <1>4, <2>1
  <2>3. Sent(r)[i] = r.cycles[i] /\ r.cycles[i] = s.cycles[c - e + i]
    BY <1>3, <1>4, <2>1
  <2>4. Sent(s)[a - b + i] = s.cycles[a - b + i]
    BY <1>2, <2>2
  <2>5. QED
    BY <2>2, <2>3, <2>4
<1>7. QED
  BY <1>5, <1>6 DEF Ends, a, b

(* What the page was told of the session's state. *)
Knows(p, s) ==
    IF s = None THEN p = Page
    ELSE p.boot = s.boot /\ p.active = s.active /\ p.rev = s.rev

(* What the page was sent of the session's cycles. *)
Continues(p, s) ==
    s # None =>
       /\ Ascending(p.data \o s.pending)
       /\ Ends(p.data, Sent(s)) \/ Ends(Sent(s), p.data)
       /\ p.data = << >> => Sent(s) = << >>
       /\ \A i \in 1..Len(p.data) : s.last # None /\ p.data[i].n <= s.last.n

(* A shortened buffer still continues what the page holds. *)
LEMMA ContinuesShrunk ==
    ASSUME NEW p \in Pages, NEW s \in Sound, NEW r \in Sound, Shrunk(s, r),
           Continues(p, s)
    PROVE  Continues(p, r)
<1> DEFINE d == p.data
           a == Sent(s)
           b == Sent(r)
<1>1. d \in Seq(Cycles) /\ a \in Seq(Cycles) /\ b \in Seq(Cycles) /\ s # None /\ r # None
  BY SentProperties, NotNone DEF Pages
<1>2. /\ Ascending(d \o s.pending) /\ (Ends(d, a) \/ Ends(a, d))
      /\ (d = << >> => a = << >>)
      /\ \A i \in 1..Len(d) : s.last # None /\ d[i].n <= s.last.n
  BY <1>1 DEF Continues
<1>3. Ends(b, a)
  BY SentShrunk
<1>4. /\ s.pending \in Seq(Cycles) /\ r.pending \in Seq(Cycles)
      /\ Ends(r.pending, s.pending) /\ r.last = s.last
  BY SoundType DEF Shrunk
<1> HIDE DEF d, a, b
<1>5. /\ Len(d) \in Nat /\ Len(a) \in Nat /\ Len(b) \in Nat
      /\ Len(s.pending) \in Nat /\ Len(r.pending) \in Nat
  BY <1>1, <1>4, LenProperties
<1>6. Ascending(d \o r.pending)
  <2>1. /\ Ascending(d) /\ Ascending(s.pending)
        /\ \A i \in 1..Len(d), j \in 1..Len(s.pending) : d[i].n < s.pending[j].n
    BY <1>1, <1>2, <1>4, AscendingConcat
  <2>2. Ascending(r.pending)
    BY <1>4, <2>1, AscendingEnds
  <2>3. ASSUME NEW i \in 1..Len(d), NEW j \in 1..Len(r.pending)
        PROVE  d[i].n < r.pending[j].n
    <3>1. /\ r.pending[j] = s.pending[Len(s.pending) - Len(r.pending) + j]
          /\ Len(r.pending) <= Len(s.pending)
      BY <1>4 DEF Ends
    <3>2. Len(s.pending) - Len(r.pending) + j \in 1..Len(s.pending)
      <4> DEFINE m == Len(s.pending)
                 l == Len(r.pending)
      <4>1. m \in Nat /\ l \in Nat /\ l <= m /\ j \in 1..l
        BY <1>5, <3>1
      <4> HIDE DEF m, l
      <4>2. m - l + j \in 1..m
        BY <4>1
      <4>3. QED
        BY <4>2 DEF m, l
    <3>3. QED
      BY <2>1, <3>1, <3>2
  <2>4. QED
    BY <1>1, <1>4, <2>1, <2>2, <2>3, AscendingConcat
<1>7. Ends(d, b) \/ Ends(b, d)
  <2>1. CASE Ends(a, d)
    BY <1>1, <1>3, <2>1, EndsTransitive
  <2>2. CASE Ends(d, a) /\ Len(d) <= Len(b)
    BY <1>1, <1>3, <2>2, EndsCompare
  <2>3. CASE Ends(d, a) /\ Len(b) <= Len(d)
    BY <1>1, <1>3, <2>3, EndsCompare
  <2>4. QED
    BY <1>2, <1>5, <2>1, <2>2, <2>3
<1>8. d = << >> => b = << >>
  <2> SUFFICES ASSUME d = << >> PROVE b = << >>
    OBVIOUS
  <2>1. Len(a) = 0 /\ Len(b) <= Len(a)
    BY <1>2, <1>3 DEF Ends
  <2>2. QED
    BY <1>1, <1>5, <2>1, EmptySeq
<1>9. QED
  BY <1>2, <1>4, <1>6, <1>7, <1>8 DEF Continues, d, b

(* New cycles are pending first: nothing was sent yet. *)
LEMMA ContinuesGrown ==
    ASSUME NEW p \in Pages, NEW s \in Sound, NEW r \in Sound, Grown(s, r), Later(s, r),
           Continues(p, s)
    PROVE  Continues(p, r)
<1> DEFINE d == p.data
           a == Sent(s)
           b == Sent(r)
<1>1. d \in Seq(Cycles) /\ a \in Seq(Cycles) /\ b \in Seq(Cycles) /\ s # None /\ r # None
  BY SentProperties, NotNone DEF Pages
<1>2. /\ Ascending(d \o s.pending) /\ (Ends(d, a) \/ Ends(a, d))
      /\ (d = << >> => a = << >>)
      /\ \A i \in 1..Len(d) : s.last # None /\ d[i].n <= s.last.n
  BY <1>1 DEF Continues
<1>3. PICK x \in Seq(Cycles) :
         /\ r.cycles = s.cycles \o x /\ r.pending = s.pending \o x
         /\ x = << >> => r = s
         /\ s.last # None => \A i \in 1..Len(x) : s.last.n < x[i].n
  BY DEF Grown
<1>4. /\ s.cycles \in Seq(Cycles) /\ s.pending \in Seq(Cycles)
      /\ r.cycles \in Seq(Cycles) /\ r.pending \in Seq(Cycles)
      /\ Len(s.cycles) \in Nat /\ Len(s.pending) \in Nat /\ Len(x) \in Nat
      /\ Len(s.pending) <= Len(s.cycles) /\ Len(d) \in Nat
      /\ Ascending(r.cycles) /\ Ascending(s.cycles) /\ Ends(r.pending, r.cycles)
  BY <1>1, <1>3, SoundType, LenProperties DEF Consistent
<1>5. /\ Len(r.cycles) = Len(s.cycles) + Len(x)
      /\ Len(r.pending) = Len(s.pending) + Len(x)
      /\ \A i \in 1..Len(s.cycles) : r.cycles[i] = s.cycles[i]
      /\ \A i \in 1..Len(s.pending) : r.pending[i] = s.pending[i]
      /\ \A i \in 1..Len(r.pending) : i > Len(s.pending) => r.pending[i] = x[i - Len(s.pending)]
  BY <1>3, <1>4, ConcatProperties
<1>6. b = a
  <2>1. Len(b) = Len(a) /\ Len(a) = Len(s.cycles) - Len(s.pending)
    <3> DEFINE c == Len(s.cycles)
               l == Len(s.pending)
               m == Len(x)
    <3>1. Len(a) = c - l /\ Len(b) = Len(r.cycles) - Len(r.pending)
      BY SentProperties
    <3>2. Len(r.cycles) = c + m /\ Len(r.pending) = l + m
      BY <1>5
    <3>3. c \in Nat /\ l \in Nat /\ m \in Nat
      BY <1>4
    <3> HIDE DEF c, l, m, a, b
    <3>4. (c + m) - (l + m) = c - l
      BY <3>3
    <3>5. QED
      BY <3>1, <3>2, <3>4 DEF c, l
  <2>2. ASSUME NEW i \in 1..Len(a) PROVE b[i] = a[i]
    <3>1. b[i] = r.cycles[i] /\ a[i] = s.cycles[i]
      BY <2>1, SentProperties
    <3>2. i \in 1..Len(s.cycles)
      BY <1>4, <2>1
    <3>3. QED
      BY <1>5, <3>1, <3>2
  <2> HIDE DEF a, b
  <2>3. QED
    BY <1>1, <2>1, <2>2, SeqEqual
<1>7. Ascending(d \o r.pending)
  <2>1. /\ Ascending(d) /\ Ascending(s.pending)
        /\ \A i \in 1..Len(d), j \in 1..Len(s.pending) : d[i].n < s.pending[j].n
    BY <1>1, <1>2, <1>4, AscendingConcat
  <2>2. Ascending(r.pending)
    BY <1>4, AscendingEnds
  <2>3. ASSUME NEW i \in 1..Len(d), NEW j \in 1..Len(r.pending)
        PROVE  d[i].n < r.pending[j].n
    <3>0. Len(s.pending) \in Nat /\ j \in Nat /\ 1 <= j
      BY <1>4, LenProperties
    <3>1. CASE j <= Len(s.pending)
      <4>1. j \in 1..Len(s.pending)
        BY <3>0, <3>1
      <4>2. r.pending[j] = s.pending[j]
        BY <1>5, <4>1
      <4>3. QED
        BY <2>1, <4>1, <4>2
    <3>2. CASE j > Len(s.pending)
      <4> DEFINE k == j - Len(s.pending)
      <4>1. r.pending[j] = x[k] /\ k \in 1..Len(x)
        BY <1>4, <1>5, <3>2
      <4> HIDE DEF k
      <4>2. s.last # None /\ d[i].n <= s.last.n /\ s.last.n < x[k].n
        BY <1>2, <1>3, <4>1
      <4> DEFINE z == x[k]
      <4>3. s.last.n \in Nat /\ d[i].n \in Nat /\ z.n \in Nat
        <5>1. d[i] \in Cycles /\ z \in Cycles
          BY <1>1, <1>3, <4>1, ElementOfSeq
        <5>2. QED
          BY <4>2, <5>1, LastType DEF Cycles
      <4>4. d[i].n <= s.last.n /\ s.last.n < z.n
        BY <4>2
      <4> HIDE DEF z
      <4>5. d[i].n < z.n
        BY <4>3, <4>4
      <4>6. QED
        BY <4>1, <4>5 DEF z
    <3>3. QED
      BY <1>4, <3>1, <3>2
  <2>4. QED
    BY <1>1, <1>4, <2>1, <2>2, <2>3, AscendingConcat
<1>8. ASSUME NEW i \in 1..Len(d) PROVE r.last # None /\ d[i].n <= r.last.n
  <2>1. s.last # None /\ d[i].n <= s.last.n
    BY <1>2
  <2>2. CASE r = s
    BY <2>1, <2>2
  <2>3. CASE r.last # None /\ s.last.n < r.last.n
    <3>1. s.last.n \in Nat /\ r.last.n \in Nat /\ d[i].n \in Nat
      <4>1. d[i] \in Cycles
        BY <1>1, ElementOfSeq
      <4>2. QED
        BY <2>1, <2>3, <4>1, LastType DEF Cycles
    <3>2. QED
      BY <2>1, <2>3, <3>1
  <2>4. QED
    BY <2>1, <2>2, <2>3 DEF Later
<1>9. QED
  BY <1>2, <1>6, <1>7, <1>8 DEF Continues

-----------------------------------------------------------------------------
(* The stages of a handler *)

Works == [s : Sound \cup {None}, ended : Seq(Boots), out : Seq(Frames)]

(* The page once it has the frames knows, and continues, the new session. *)
Abreast(p, w) == Knows(Told(p, w.out), w.s)
InStep(p, w) == Continues(Told(p, w.out), w.s)

(* The frames one stage adds tell a page what that stage did. *)
Carries(w, r) ==
    \A p \in Pages : Abreast(p, w) => Abreast(p, r) /\ (InStep(p, w) => InStep(p, r))

(* Stages that carry may follow one another. *)
LEMMA CarriesTransitive ==
    ASSUME NEW w, NEW x, NEW r, Carries(w, x), Carries(x, r)
    PROVE  Carries(w, r)
BY DEF Carries

(* The fields of the record a handler builds up. *)
LEMMA WorkType ==
    ASSUME NEW w \in Works
    PROVE  /\ w.s \in Sound \cup {None} /\ w.ended \in Seq(Boots) /\ w.out \in Seq(Frames)
           /\ w.s # None => w.s \in Sound
           /\ w = [s |-> w.s, ended |-> w.ended, out |-> w.out]
BY DEF Works

(* The frames of a session are frames. *)
LEMMA FramesType ==
    ASSUME NEW s \in Sessions
    PROVE  /\ StartFrame(s) \in Frames /\ InfoFrame(s) \in Frames
           /\ EndFrame(s) \in Frames /\ AppendFrame(s) \in Frames
BY SessionType DEF StartFrame, InfoFrame, EndFrame, AppendFrame, Frames

(* What a page does with the append of a session it knows. *)
LEMMA AppendContinues ==
    ASSUME NEW q \in Pages, NEW s \in Sound, s.pending # << >>,
           Knows(q, s),
           NEW r \in Sound, r = [s EXCEPT !.pending = << >>]
    PROVE  LET z == OnFrame(q, AppendFrame(s))
           IN  Knows(z, r) /\ (Continues(q, s) => Continues(z, r))
<1> DEFINE z == OnFrame(q, AppendFrame(s))
           d == q.data
           e == z.data
           x == Joined(d, s.pending)
           a == Sent(s)
           b == Sent(r)
<1>1. s \in Sessions /\ r \in Sessions /\ s # None /\ r # None
  BY NotNone, SoundType
<1>2. /\ r.boot = s.boot /\ r.active = s.active /\ r.rev = s.rev
      /\ r.cycles = s.cycles /\ r.last = s.last /\ r.pending = << >>
  BY <1>1 DEF Sessions
<1>3. q.boot = s.boot /\ q.active = s.active /\ q.rev = s.rev /\ q.boot # None
  BY <1>1, SessionType, HubAssumption DEF Knows
<1>4. /\ z.boot = q.boot /\ z.active = q.active /\ z.rev = q.rev
      /\ z.data = Trimmed(x)
  BY <1>3 DEF OnFrame, AppendFrame, OnAppend, Pages
<1>5. Knows(z, r)
  BY <1>1, <1>2, <1>3, <1>4 DEF Knows
<1>6. ASSUME Continues(q, s) PROVE Continues(z, r)
  <2>1. /\ d \in Seq(Cycles) /\ a \in Seq(Cycles) /\ b \in Seq(Cycles)
        /\ s.pending \in Seq(Cycles) /\ s.cycles \in Seq(Cycles)
        /\ Ends(s.pending, s.cycles)
        /\ \A i \in 1..Len(s.cycles) : s.last # None /\ s.cycles[i].n <= s.last.n
    BY SentProperties, SoundType DEF Pages, Consistent
  <2>2. /\ Ascending(d \o s.pending) /\ (Ends(d, a) \/ Ends(a, d))
        /\ \A i \in 1..Len(d) : s.last # None /\ d[i].n <= s.last.n
    BY <1>1, <1>6 DEF Continues
  <2>3. x = d \o s.pending /\ x \in Seq(Cycles)
    BY <2>1, <2>2, JoinedProperties
  <2>4. s.cycles = a \o s.pending
    BY SentProperties
  <2>5. b = s.cycles
    <3>1. r.cycles = b \o << >>
      BY <1>2, SentProperties
    <3>2. b \o << >> = b
      BY <2>1, ConcatEmptySeq
    <3>3. QED
      BY <1>2, <3>1, <3>2
  <2> HIDE DEF a, b, d, x
  <2>6. Ends(x, b) \/ Ends(b, x)
    <3>1. CASE Ends(d, a)
      BY <2>1, <2>3, <2>4, <2>5, <3>1, EndsConcat
    <3>2. CASE Ends(a, d)
      BY <2>1, <2>3, <2>4, <2>5, <3>2, EndsConcat
    <3>3. QED
      BY <2>2, <3>1, <3>2
  <2>7. /\ Len(d) \in Nat /\ Len(s.pending) \in Nat /\ 1 <= Len(s.pending)
        /\ Len(x) = Len(d) + Len(s.pending) /\ x # << >>
    <3>1. Len(d) \in Nat /\ Len(s.pending) \in Nat /\ Len(s.pending) # 0
      BY <2>1, LenProperties, EmptySeq
    <3>2. Len(x) = Len(d) + Len(s.pending)
      BY <2>1, <2>3, ConcatProperties
    <3>3. x # << >>
      BY <3>1, <3>2, <2>3, EmptySeq
    <3>4. QED
      BY <3>1, <3>2, <3>3
  <2>8. e = Trimmed(x) /\ e \in Seq(Cycles) /\ Ends(e, x) /\ e # << >>
    BY <1>4, <2>3, <2>7, TrimmedProperties
  <2> HIDE DEF e, z
  <2>9. Len(x) \in Nat /\ Len(e) \in Nat /\ Len(b) \in Nat /\ Len(e) <= Len(x)
    BY <2>1, <2>3, <2>8, LenProperties DEF Ends
  <2>10. Ends(e, b) \/ Ends(b, e)
    <3>1. CASE Ends(x, b)
      BY <2>1, <2>3, <2>8, <3>1, EndsTransitive
    <3>2. CASE Ends(b, x) /\ Len(b) <= Len(e)
      BY <2>1, <2>3, <2>8, <3>2, EndsCompare
    <3>3. CASE Ends(b, x) /\ Len(e) <= Len(b)
      BY <2>1, <2>3, <2>8, <3>3, EndsCompare
    <3>4. QED
      BY <2>6, <2>9, <3>1, <3>2, <3>3
  <2>11. Ascending(e \o r.pending)
    <3>1. Ascending(e)
      BY <2>2, <2>3, <2>8, AscendingEnds
    <3>2. e \o r.pending = e
      BY <1>2, <2>8, ConcatEmptySeq
    <3>3. QED
      BY <3>1, <3>2
  <2>12. ASSUME NEW i \in 1..Len(x) PROVE s.last # None /\ x[i].n <= s.last.n
    <3>1. CASE i <= Len(d)
      <4>1. i \in 1..Len(d) /\ x[i] = d[i]
        BY <2>1, <2>3, <2>7, <3>1, ConcatProperties
      <4>2. QED
        BY <2>2, <4>1
    <3>2. CASE i > Len(d)
      <4> DEFINE j == i - Len(d)
                 c == Len(s.cycles)
                 l == Len(s.pending)
      <4>1. x[i] = s.pending[j] /\ j \in 1..l
        BY <2>1, <2>3, <2>7, <3>2, ConcatProperties
      <4>2. /\ l <= c /\ c \in Nat /\ l \in Nat
            /\ \A k \in 1..l : s.pending[k] = s.cycles[c - l + k]
        BY <2>1, LenProperties DEF Ends
      <4> HIDE DEF j, c, l
      <4>3. c - l + j \in 1..c
        BY <4>1, <4>2
      <4>4. x[i] = s.cycles[c - l + j] /\ c - l + j \in 1..Len(s.cycles)
        BY <4>1, <4>2, <4>3 DEF c
      <4>5. QED
        BY <2>1, <4>4
    <3>3. QED
      BY <2>7, <3>1, <3>2
  <2>13. ASSUME NEW i \in 1..Len(e) PROVE r.last # None /\ e[i].n <= r.last.n
    <3>1. e[i] = x[Len(x) - Len(e) + i] /\ Len(x) - Len(e) + i \in 1..Len(x)
      <4>1. Len(x) - Len(e) + i \in 1..Len(x)
        BY <2>9
      <4>2. QED
        BY <2>8, <4>1 DEF Ends
    <3>2. QED
      BY <1>2, <2>12, <3>1
  <2>14. QED
    BY <2>8, <2>10, <2>11, <2>13 DEF Continues, e, b
<1>7. QED
  BY <1>5, <1>6

(* _flush sends the pending cycles, and nothing else changes. *)
LEMMA FlushedCarries ==
    ASSUME NEW w \in Works, w.s # None
    PROVE  LET r == Flushed(w)
           IN  /\ r \in Works /\ r.s \in Sound /\ SameSession(w.s, r.s)
               /\ r.s = [w.s EXCEPT !.pending = << >>]
               /\ r.s.cycles = w.s.cycles /\ r.s.last = w.s.last
               /\ r.s.ranges = w.s.ranges /\ r.s.pending = << >>
               /\ r.ended = w.ended
               /\ Carries(w, r)
<1> DEFINE s == w.s
           t == [s EXCEPT !.pending = << >>]
           r == Flushed(w)
<1>1. s \in Sound /\ s \in Sessions /\ Consistent(s)
  BY WorkType, SoundType
<1>2. /\ t \in Sessions /\ SameSession(s, t) /\ t.cycles = s.cycles /\ t.last = s.last
      /\ t.ranges = s.ranges /\ t.pending = << >>
  BY <1>1, EmptySeq DEF Sessions, SameSession
<1>3. t \in Sound
  <2>1. Ends(t.pending, t.cycles)
    BY <1>1, <1>2, SessionType, EmptySeq DEF Ends
  <2>2. Consistent(t)
    BY <1>1, <1>2, <2>1 DEF Consistent
  <2>3. QED
    BY <1>2, <2>2 DEF Sound
<1>4. CASE s.pending = << >>
  <2>1. r = w
    BY <1>4 DEF Flushed
  <2>2. t = s
    BY <1>1, <1>4 DEF Sessions
  <2>3. Carries(w, w)
    BY DEF Carries
  <2>4. QED
    BY <1>2, <1>3, <2>1, <2>2, <2>3
<1>5. CASE s.pending # << >>
  <2>1. r = [w EXCEPT !.s.pending = << >>, !.out = Append(@, AppendFrame(w.s))]
    BY <1>5 DEF Flushed
  <2>2. /\ r.s = t /\ r.ended = w.ended /\ r.out = Append(w.out, AppendFrame(s))
        /\ r = [s |-> t, ended |-> w.ended, out |-> Append(w.out, AppendFrame(s))]
    BY <2>1 DEF Works
  <2>3. /\ AppendFrame(s) \in Frames /\ w.out \in Seq(Frames) /\ w.ended \in Seq(Boots)
        /\ Append(w.out, AppendFrame(s)) \in Seq(Frames)
    BY <1>1, FramesType, WorkType, AppendProperties
  <2>4. r \in Works
    BY <1>3, <2>2, <2>3 DEF Works
  <2>5. ASSUME NEW p \in Pages, Abreast(p, w)
        PROVE  Abreast(p, r) /\ (InStep(p, w) => InStep(p, r))
    <3> DEFINE q == Told(p, w.out)
    <3>1. q \in Pages /\ Told(p, r.out) = OnFrame(q, AppendFrame(s))
      BY <2>2, <2>3, ToldProperties
    <3>2. Knows(q, s)
      BY <2>5 DEF Abreast
    <3> HIDE DEF q, t
    <3>3. /\ Knows(OnFrame(q, AppendFrame(s)), t)
          /\ Continues(q, s) => Continues(OnFrame(q, AppendFrame(s)), t)
      BY <1>1, <1>3, <1>5, <3>1, <3>2, AppendContinues DEF t
    <3>4. QED
      BY <2>2, <3>1, <3>3 DEF Abreast, InStep, q
  <2>6. Carries(w, r)
    BY <2>5 DEF Carries
  <2>7. QED
    BY <1>2, <1>3, <2>2, <2>4, <2>6
<1>6. QED
  BY <1>4, <1>5

(* Continues reads the buffer only. *)
LEMMA ContinuesSameBuffer ==
    ASSUME NEW p, NEW q, NEW s, NEW r, s # None, r # None, q.data = p.data, SameBuffer(s, r),
           Continues(p, s)
    PROVE  Continues(q, r)
BY DEF Continues, SameBuffer, Sent

(* The memory of ended boots keeps the boot that just ended, and the one before. *)
LEMMA Remembered ==
    ASSUME NEW q \in Seq(Boots), NEW boot \in Boots
    PROVE  LET r == Remember(q, boot)
           IN  /\ r \in Seq(Boots) /\ boot \in ToSet(r)
               /\ ToSet(r) \subseteq ToSet(q) \cup {boot}
               /\ r # << >> /\ r[Len(r)] = boot
               /\ q # << >> => q[Len(q)] \in ToSet(r)
<1> DEFINE all == Append(q, boot)
           n == Len(q)
           r == Remember(q, boot)
<1>1. /\ n \in Nat /\ all \in Seq(Boots) /\ Len(all) = n + 1 /\ all[n + 1] = boot
      /\ \A i \in 1..n : all[i] = q[i]
  BY AppendProperties, LenProperties
<1>2. EndedMemory \in Nat /\ EndedMemory >= 2
  BY HubAssumption
<1>3. ToSet(q) = {q[i] : i \in 1..n} /\ \A i \in 1..n : q[i] \in ToSet(q)
  BY LenProperties DEF ToSet
<1>4. CASE n + 1 > EndedMemory
  <2>1. r = Tail(all)
    BY <1>1, <1>4 DEF Remember
  <2> HIDE DEF all, r
  <2>2. all # << >>
    BY <1>1, EmptySeq
  <2>3. r \in Seq(Boots) /\ Len(r) = n /\ \A i \in 1..n : r[i] = all[i + 1]
    BY <1>1, <2>1, <2>2, HeadTailProperties
  <2>4. ToSet(r) = {r[i] : i \in 1..n}
    BY <2>3, LenProperties DEF ToSet
  <2>5. boot \in ToSet(r)
    <3>1. n \in 1..n
      BY <1>1, <1>2, <1>4
    <3>2. r[n] = boot
      BY <1>1, <2>3, <3>1
    <3>3. QED
      BY <2>4, <3>1, <3>2
  <2>6. ASSUME NEW i \in 1..n PROVE r[i] \in ToSet(q) \cup {boot}
    <3>1. i = n \/ i + 1 \in 1..n
      BY <1>1
    <3>2. QED
      BY <1>1, <1>3, <2>3, <3>1
  <2>7. r # << >> /\ r[Len(r)] = boot
    <3>1. Len(r) = n /\ n \in 1..n /\ n # 0
      BY <1>1, <1>2, <1>4, <2>3
    <3>2. QED
      BY <1>1, <2>3, <3>1, EmptySeq
  <2>8. q[n] \in ToSet(r)
    <3>1. n - 1 \in 1..n /\ n \in 1..n /\ (n - 1) + 1 = n
      BY <1>1, <1>2, <1>4
    <3>2. r[n - 1] = all[(n - 1) + 1]
      BY <2>3, <3>1
    <3>3. r[n - 1] = q[n]
      BY <1>1, <3>1, <3>2
    <3>4. QED
      BY <2>4, <3>1, <3>3
  <2>9. QED
    BY <2>3, <2>4, <2>5, <2>6, <2>7, <2>8 DEF n, r
<1>5. CASE ~(n + 1 > EndedMemory)
  <2>1. r = all
    BY <1>1, <1>5 DEF Remember
  <2> HIDE DEF all, r
  <2>2. ToSet(r) = {r[i] : i \in 1..(n + 1)}
    BY <1>1, <2>1, LenProperties DEF ToSet
  <2>3. n + 1 \in 1..(n + 1) /\ \A i \in 1..n : i \in 1..(n + 1)
    BY <1>1
  <2>4. \A i \in 1..(n + 1) : r[i] \in ToSet(q) \cup {boot}
    <3> TAKE i \in 1..(n + 1)
    <3>1. i = n + 1 \/ i \in 1..n
      BY <1>1
    <3>2. QED
      BY <1>1, <1>3, <2>1, <3>1
  <2>5. boot \in ToSet(r)
    BY <1>1, <2>1, <2>2, <2>3
  <2>6. \A b \in ToSet(q) : b \in ToSet(r)
    BY <1>1, <1>3, <2>1, <2>2, <2>3
  <2>7. r # << >> /\ r[Len(r)] = boot
    <3>1. Len(r) = n + 1 /\ n + 1 # 0
      BY <1>1, <2>1
    <3>2. QED
      BY <1>1, <2>1, <3>1, EmptySeq
  <2>8. q # << >> => q[n] \in ToSet(r)
    <3> SUFFICES ASSUME q # << >> PROVE q[n] \in ToSet(r)
      OBVIOUS
    <3>1. n # 0
      BY EmptySeq
    <3>2. n \in 1..n
      BY <1>1, <3>1
    <3>3. QED
      BY <1>3, <2>6, <3>2
  <2>9. QED
    BY <1>1, <2>1, <2>2, <2>4, <2>5, <2>7, <2>8 DEF r, n
<1>6. QED
  BY <1>4, <1>5

(* _end: the session is over, flushed, and every page that knew it knows. *)
LEMMA EndCarries ==
    ASSUME NEW w \in Works, w.s # None, NEW reason
    PROVE  LET r == End(w, reason)
           IN  /\ r \in Works /\ r.s \in Sound
               /\ r.s.boot = w.s.boot /\ r.s.sid = w.s.sid /\ r.s.rev = w.s.rev
               /\ ~r.s.active /\ r.s.age = w.s.age
               /\ r.s.cycles = w.s.cycles /\ r.s.last = w.s.last
               /\ r.s.ranges = w.s.ranges
               /\ r.ended = IF reason = "timeout" THEN w.ended
                            ELSE Remember(w.ended, w.s.boot)
               /\ Carries(w, r)
<1> DEFINE f == Flushed(w)
           t == [f.s EXCEPT !.active = FALSE]
           r == End(w, reason)
           out == IF f.s.active THEN Append(f.out, EndFrame(f.s)) ELSE f.out
           old == IF reason = "timeout" THEN f.ended ELSE Remember(f.ended, f.s.boot)
<1>1. /\ f \in Works /\ f.s \in Sound /\ SameSession(w.s, f.s)
      /\ f.s.cycles = w.s.cycles /\ f.s.last = w.s.last /\ f.s.ranges = w.s.ranges
      /\ f.ended = w.ended /\ Carries(w, f)
  BY FlushedCarries
<1>2. r = [s |-> t, ended |-> old, out |-> out]
  BY DEF End
<1> HIDE DEF f
<1>3. f.s \in Sessions /\ f.s # None
  BY <1>1, SoundType, NotNone
<1>4. /\ t \in Sessions /\ SameBuffer(f.s, t) /\ t.boot = f.s.boot /\ t.sid = f.s.sid
      /\ t.rev = f.s.rev /\ t.active = FALSE /\ t.age = f.s.age
  BY <1>3 DEF Sessions, SameBuffer
<1>5. t \in Sound /\ t # None
  BY <1>1, <1>4, SameBufferSound, NotNone
<1>6. EndFrame(f.s) \in Frames /\ f.out \in Seq(Frames) /\ out \in Seq(Frames)
  BY <1>1, <1>3, FramesType, WorkType, AppendProperties
<1>7. old \in Seq(Boots)
  BY <1>1, <1>3, WorkType, SessionType, Remembered
<1>8. r \in Works
  BY <1>2, <1>5, <1>6, <1>7 DEF Works
<1>9. ASSUME NEW p \in Pages, Abreast(p, f)
      PROVE  Abreast(p, r) /\ (InStep(p, f) => InStep(p, r))
  <2> DEFINE q == Told(p, f.out)
             z == Told(p, out)
  <2>1. q \in Pages /\ Knows(q, f.s)
    BY <1>6, <1>9, ToldProperties DEF Abreast
  <2>2. q.boot = f.s.boot /\ q.active = f.s.active /\ q.rev = f.s.rev
    BY <1>3, <2>1 DEF Knows
  <2>3. z.boot = q.boot /\ z.active = FALSE /\ z.rev = q.rev /\ z.data = q.data
    <3>1. CASE f.s.active
      <4>1. z = OnFrame(q, EndFrame(f.s))
        BY <1>6, <3>1, ToldProperties
      <4> HIDE DEF q, z
      <4>2. z = [q EXCEPT !.active = FALSE]
        BY <2>2, <4>1 DEF OnFrame, EndFrame, OnSessionEnd
      <4>3. QED
        BY <2>1, <4>2 DEF Pages
    <3>2. CASE ~f.s.active
      <4>1. z = q
        BY <3>2
      <4>2. f.s.active \in BOOLEAN
        BY <1>3, SessionType
      <4>3. QED
        BY <2>2, <3>2, <4>1, <4>2
    <3>3. QED
      BY <3>1, <3>2
  <2> HIDE DEF q, z, t
  <2>4. Knows(z, t)
    BY <1>4, <1>5, <2>2, <2>3 DEF Knows
  <2>5. Continues(q, f.s) => Continues(z, t)
    BY <1>3, <1>4, <1>5, <2>3, ContinuesSameBuffer
  <2>6. r.s = t /\ r.out = out
    BY <1>2
  <2>7. QED
    BY <2>4, <2>5, <2>6 DEF Abreast, InStep, q, z
<1>10. Carries(w, r)
  <2>1. Carries(f, r)
    BY <1>9 DEF Carries
  <2>2. QED
    BY <1>1, <2>1, CarriesTransitive
<1>11. /\ r.s = t /\ r.ended = old
  BY <1>2
<1>12. QED
  BY <1>1, <1>4, <1>5, <1>8, <1>10, <1>11 DEF SameSession, SameBuffer

Hellos == [tag : Tags, boot : Boots, rev : Revs \cup {None}]

(* What the memory of hellos says has a type. *)
LEMMA KnownRevType ==
    ASSUME NEW tag, NEW boot, hello \in Seq(Hellos)
    PROVE  KnownRev(tag, boot) \in Revs \cup {None}
<1>1. CASE Greeted(tag, boot)
  <2>1. PlaceOf(tag, boot) \in DOMAIN hello
    BY <1>1 DEF Greeted, PlaceOf
  <2>2. hello[PlaceOf(tag, boot)] \in Hellos
    BY <2>1, LenProperties, ElementOfSeq
  <2>3. QED
    BY <1>1, <2>2 DEF KnownRev, Hellos
<1>2. CASE ~Greeted(tag, boot)
  BY <1>2 DEF KnownRev
<1>3. QED
  BY <1>1, <1>2

(* What a hello said of the boot is in its session. *)
Greets(tag, s) ==
    /\ Greeted(tag, s.boot) => s.sid # None
    /\ KnownRev(tag, s.boot) # None => s.rev = KnownRev(tag, s.boot)

(* A new session has an empty buffer and what its hello said. *)
LEMMA NewSessionSound ==
    ASSUME NEW tag \in Tags, NEW boot \in Boots, hello \in Seq(Hellos)
    PROVE  LET s == NewSession(tag, boot)
           IN  /\ s \in Sound /\ Greets(tag, s) /\ s.boot = boot /\ s.active
               /\ s.cycles = << >> /\ s.pending = << >> /\ s.ranges = 0 /\ s.last = None
<1> DEFINE s == NewSession(tag, boot)
           rev == KnownRev(tag, boot)
<1>1. rev \in Revs \cup {None}
  BY KnownRevType
<1>2. << >> \in Seq(Cycles) /\ Len(<< >>) = 0
  BY EmptySeq
<1>3. boot # None
  BY HubAssumption
<1>4. s \in Sessions
  <2> HIDE DEF rev
  <2>1. QED
    BY <1>1, <1>2 DEF NewSession, Sessions, rev
<1>5. /\ s.boot = boot /\ s.active /\ s.cycles = << >> /\ s.pending = << >>
      /\ s.ranges = 0 /\ s.last = None
      /\ s.sid = IF Greeted(tag, boot) THEN boot ELSE None
      /\ s.rev = KnownRev(tag, boot)
  BY DEF NewSession
<1>6. Consistent(s)
  <2> HIDE DEF s
  <2>1. Ends(s.pending, s.cycles)
    BY <1>2, <1>5 DEF Ends
  <2>2. Ascending(s.cycles)
    BY <1>5 DEF Ascending
  <2>3. \A i \in 1..Len(s.cycles) : FALSE
    BY <1>2, <1>5
  <2>4. QED
    BY <1>5, <2>1, <2>2, <2>3, RangeSumEmpty DEF Consistent
<1>7. Greets(tag, s)
  BY <1>3, <1>5 DEF Greets
<1>8. QED
  BY <1>4, <1>5, <1>6, <1>7 DEF Sound

(* _start: pages that showed another boot, or none, show the new one. *)
LEMMA StartedCarries ==
    ASSUME NEW w \in Works, NEW tag \in Tags, NEW boot \in Boots, hello \in Seq(Hellos),
           w.s # None => w.s.boot # boot
    PROVE  LET r == Started(w, tag, boot)
           IN  /\ r \in Works /\ r.s = NewSession(tag, boot) /\ r.ended = w.ended
               /\ Carries(w, r)
<1> DEFINE s == NewSession(tag, boot)
           r == Started(w, tag, boot)
           out == Append(w.out, StartFrame(s))
<1>1. /\ s \in Sound /\ s \in Sessions /\ s # None /\ s.boot = boot /\ s.active
      /\ s.cycles = << >> /\ s.pending = << >>
  BY NewSessionSound, SoundType, NotNone
<1>2. r = [s |-> s, ended |-> w.ended, out |-> out]
  <2>1. r = [w EXCEPT !.s = s, !.out = Append(@, StartFrame(s))]
    BY DEF Started
  <2> HIDE DEF s, r
  <2>2. QED
    BY <2>1 DEF Works
<1> HIDE DEF s
<1>3. StartFrame(s) \in Frames /\ w.out \in Seq(Frames) /\ out \in Seq(Frames)
  BY <1>1, FramesType, WorkType, AppendProperties
<1>4. r \in Works
  BY <1>1, <1>2, <1>3, WorkType DEF Works
<1>5. ASSUME NEW p \in Pages, Abreast(p, w)
      PROVE  Abreast(p, r) /\ InStep(p, r)
  <2> DEFINE q == Told(p, w.out)
             z == Told(p, out)
  <2>1. q \in Pages /\ Knows(q, w.s) /\ z = OnFrame(q, StartFrame(s))
    BY <1>3, <1>5, ToldProperties DEF Abreast
  <2>2. q.boot # boot
    <3>1. CASE w.s = None
      BY <2>1, <3>1, HubAssumption DEF Knows, Page
    <3>2. CASE w.s # None
      BY <2>1, <3>2 DEF Knows
    <3>3. QED
      BY <3>1, <3>2
  <2>3. z.boot = s.boot /\ z.active = TRUE /\ z.rev = s.rev /\ z.data = << >>
    <3> HIDE DEF q, z
    <3>1. QED
      BY <1>1, <2>1, <2>2 DEF OnFrame, StartFrame, OnSessionStart
  <2> HIDE DEF q, z
  <2>4. Knows(z, s)
    <3>1. s.active = TRUE
      BY <1>1, SessionType
    <3>2. QED
      BY <1>1, <2>3, <3>1 DEF Knows
  <2>5. Continues(z, s)
    <3>1. Len(Sent(s)) = 0 /\ Sent(s) \in Seq(Cycles)
      BY <1>1, SentProperties, EmptySeq
    <3>2. Sent(s) = << >> /\ Len(<< >>) = 0
      BY <3>1, EmptySeq
    <3>3. z.data \o s.pending = << >>
      BY <1>1, <2>3, EmptySeq, ConcatEmptySeq
    <3>4. Ascending(z.data \o s.pending)
      BY <3>3 DEF Ascending
    <3>5. Ends(z.data, Sent(s))
      BY <2>3, <3>2 DEF Ends
    <3>6. \A i \in 1..Len(z.data) : FALSE
      BY <2>3, <3>2
    <3>7. QED
      BY <3>2, <3>4, <3>5, <3>6 DEF Continues
  <2>6. r.s = s /\ r.out = out
    BY <1>2
  <2>7. QED
    BY <2>4, <2>5, <2>6 DEF Abreast, InStep, z
<1>6. Carries(w, r)
  <2> HIDE DEF r
  <2>1. QED
    BY <1>5 DEF Carries
<1>7. r.s = s /\ r.ended = w.ended
  BY <1>2
<1>8. QED
  BY <1>4, <1>6, <1>7 DEF s

(* publish up to its loop: the session that takes the packet is that of the *)
(* packet's boot, and it runs.                                              *)
LEMMA OpenedCarries ==
    ASSUME NEW w \in Works, NEW tag \in Tags, NEW boot \in Boots, hello \in Seq(Hellos),
           w.s # None => Greets(tag, w.s)
    PROVE  LET r == Opened(w, tag, boot)
           IN  /\ r \in Works /\ r.s \in Sound /\ r.s.boot = boot /\ r.s.active
               /\ Greets(tag, r.s) /\ Carries(w, r)
               /\ r.ended = IF w.s # None /\ w.s.boot # boot
                            THEN Remember(w.ended, w.s.boot) ELSE w.ended
               /\ IF w.s # None /\ w.s.boot = boot
                  THEN SameBuffer(w.s, r.s)
                  ELSE r.s.cycles = << >> /\ r.s.ranges = 0 /\ r.s.last = None
<1> DEFINE r == Opened(w, tag, boot)
<1>1. w.s \in Sound \cup {None} /\ NewSession(tag, boot) \in Sound
  BY WorkType, NewSessionSound
<1>2. CASE w.s = None
  <2>1. r = Started(w, tag, boot)
    BY <1>2 DEF Opened
  <2>2. r \in Works /\ r.s = NewSession(tag, boot) /\ r.ended = w.ended /\ Carries(w, r)
    BY <1>2, <2>1, StartedCarries
  <2>3. QED
    BY <1>2, <2>2, NewSessionSound
<1>3. CASE w.s # None /\ w.s.boot # boot
  <2> DEFINE e == End(w, "new_session")
  <2>1. r = Started(e, tag, boot)
    BY <1>3 DEF Opened
  <2>2. /\ e \in Works /\ e.s \in Sound /\ e.s.boot = w.s.boot /\ Carries(w, e)
        /\ e.ended = Remember(w.ended, w.s.boot)
    BY <1>3, EndCarries
  <2> HIDE DEF e
  <2>3. r \in Works /\ r.s = NewSession(tag, boot) /\ r.ended = e.ended /\ Carries(e, r)
    BY <1>3, <2>1, <2>2, StartedCarries
  <2>4. Carries(w, r)
    BY <2>2, <2>3, CarriesTransitive
  <2>5. QED
    BY <1>3, <2>2, <2>3, <2>4, NewSessionSound
<1>4. CASE w.s # None /\ w.s.boot = boot /\ ~w.s.active
  <2> DEFINE t == [w.s EXCEPT !.active = TRUE]
             out == Append(w.out, StartFrame(t))
  <2>1. r = [s |-> t, ended |-> w.ended, out |-> out]
    BY <1>4 DEF Opened, Works
  <2>2. w.s \in Sound /\ w.s \in Sessions
    BY <1>1, <1>4, SoundType
  <2>3. /\ t \in Sessions /\ SameBuffer(w.s, t) /\ t.boot = boot /\ t.sid = w.s.sid
        /\ t.rev = w.s.rev /\ t.active = TRUE
    BY <1>4, <2>2 DEF Sessions, SameBuffer
  <2>4. t \in Sound /\ t # None
    BY <2>2, <2>3, SameBufferSound, NotNone
  <2> HIDE DEF t
  <2>5. StartFrame(t) \in Frames /\ w.out \in Seq(Frames) /\ out \in Seq(Frames)
    BY <2>3, FramesType, WorkType, AppendProperties
  <2>6. r \in Works
    BY <2>1, <2>4, <2>5, WorkType DEF Works
  <2>7. ASSUME NEW p \in Pages, Abreast(p, w)
        PROVE  Abreast(p, r) /\ (InStep(p, w) => InStep(p, r))
    <3> DEFINE q == Told(p, w.out)
               z == Told(p, out)
    <3>1. q \in Pages /\ Knows(q, w.s) /\ z = OnFrame(q, StartFrame(t))
      BY <2>5, <2>7, ToldProperties DEF Abreast
    <3>2. q.boot = boot
      BY <1>4, <3>1 DEF Knows
    <3> HIDE DEF q, z
    <3>3. z.boot = t.boot /\ z.active = TRUE /\ z.rev = t.rev /\ z.data = q.data
      BY <2>3, <3>1, <3>2 DEF OnFrame, StartFrame, OnSessionStart
    <3>4. Knows(z, t)
      BY <2>3, <2>4, <3>3 DEF Knows
    <3>5. Continues(q, w.s) => Continues(z, t)
      BY <1>4, <2>3, <2>4, <3>3, ContinuesSameBuffer
    <3>6. r.s = t /\ r.out = out
      BY <2>1
    <3>7. QED
      BY <3>4, <3>5, <3>6 DEF Abreast, InStep, q, z
  <2>8. Carries(w, r)
    BY <2>7 DEF Carries
  <2>9. Greets(tag, t)
    BY <1>4, <2>3 DEF Greets
  <2>10. r.s = t /\ r.ended = w.ended
    BY <2>1
  <2>11. QED
    BY <1>4, <2>3, <2>4, <2>6, <2>8, <2>9, <2>10
<1>5. CASE w.s # None /\ w.s.boot = boot /\ w.s.active
  <2>1. r = w
    BY <1>5 DEF Opened
  <2>2. Carries(w, w) /\ SameBuffer(w.s, w.s) /\ w.s \in Sound
    BY <1>1, <1>5 DEF Carries, SameBuffer
  <2>3. QED
    BY <1>5, <2>1, <2>2
<1>6. QED
  BY <1>2, <1>3, <1>4, <1>5

-----------------------------------------------------------------------------
(* The invariant *)

HubTypes ==
    /\ sessions \in Buffers
    /\ ended \in [Tags -> Seq(Boots)]
    /\ hello \in Seq(Hellos)
    /\ watching \in [Subs -> Tags \cup {None}]
    /\ pages \in [Subs -> Pages]

(* The memory has one entry per boot. *)
Once(memory) ==
    \A i, j \in 1..Len(memory) :
       IsOf(memory[i], memory[j].tag, memory[j].boot) => i = j

Sized(s) == Len(s.cycles) <= MaxCycles /\ s.ranges <= MaxRanges

Limits(all) ==
    /\ \A t \in Tags : all[t] # None => Sized(all[t])
    /\ TotalRanges(all) <= MaxTotal

AllGreeted == \A t \in Tags : sessions[t] # None => Greets(t, sessions[t])

AllKnow ==
    \A u \in Subs : watching[u] # None => Knows(pages[u], sessions[watching[u]])

AllContinue ==
    \A u \in Subs : watching[u] # None => Continues(pages[u], sessions[watching[u]])

HubInv ==
    /\ HubTypes
    /\ Once(hello)
    /\ Limits(sessions)
    /\ AllGreeted
    /\ AllKnow

(* What every handler but publish leaves of a session. *)
Kept(s, r) ==
    IF s = None THEN r = None
    ELSE /\ r \in Sound /\ r.boot = s.boot
         /\ r.cycles = s.cycles /\ r.last = s.last /\ r.ranges = s.ranges

AllKept == \A t \in Tags : Kept(sessions[t], sessions'[t])

(* Limits are kept by what keeps the buffers. *)
LEMMA LimitsKept ==
    ASSUME NEW all \in Buffers, NEW new \in Buffers, Limits(all),
           \A t \in Tags : Kept(all[t], new[t])
    PROVE  Limits(new)
<1>1. \A t \in Tags : (new[t] = None <=> all[t] = None)
                      /\ (new[t] # None => /\ new[t].cycles = all[t].cycles
                                           /\ new[t].ranges = all[t].ranges)
  BY NotNone DEF Kept
<1>2. RangesOf(new) = RangesOf(all)
  BY <1>1 DEF RangesOf
<1>3. TotalRanges(new) = TotalRanges(all)
  BY <1>2, CountsType
<1>4. QED
  BY <1>1, <1>3 DEF Limits, Sized

(* A broadcast tells every subscriber of a tag the frames of its tag. *)
LEMMA BroadcastTells ==
    ASSUME NEW out \in [Tags -> Seq(Frames)], pages \in [Subs -> Pages],
           watching \in [Subs -> Tags \cup {None}],
           Broadcast(out)
    PROVE  /\ pages' \in [Subs -> Pages]
           /\ \A u \in Subs : pages'[u] = IF watching[u] = None THEN pages[u]
                                          ELSE Told(pages[u], out[watching[u]])
<1>1. pages' = [u \in Subs |-> IF watching[u] = None THEN pages[u]
                               ELSE Told(pages[u], out[watching[u]])]
  BY DEF Broadcast, Told
<1>2. ASSUME NEW u \in Subs, watching[u] # None
      PROVE  Told(pages[u], out[watching[u]]) \in Pages
  <2>1. watching[u] \in Tags /\ out[watching[u]] \in Seq(Frames) /\ pages[u] \in Pages
    BY <1>2
  <2>2. QED
    BY <2>1, ToldProperties
<1>3. QED
  BY <1>1, <1>2

(* Where a handler starts from. *)
Before(t) == [s |-> sessions[t], ended |-> ended[t], out |-> << >>]

(* A page that has everything knows the session as it was. *)
LEMMA BeforeType ==
    ASSUME HubTypes, NEW t \in Tags
    PROVE  /\ Before(t) \in Works
           /\ \A p \in Pages : /\ Abreast(p, Before(t)) <=> Knows(p, sessions[t])
                               /\ InStep(p, Before(t)) <=> Continues(p, sessions[t])
<1>1. << >> \in Seq(Frames) /\ sessions[t] \in Sound \cup {None} /\ ended[t] \in Seq(Boots)
  BY EmptySeq DEF HubTypes, Buffers
<1>2. \A p \in Pages : Told(p, << >>) = p
  <2> TAKE p \in Pages
  <2>1. QED
    BY <1>1, ToldProperties
<1>3. QED
  BY <1>1, <1>2 DEF Before, Works, Abreast, InStep

(* If the work on every tag carries, every page knows the new sessions. *)
LEMMA Delivered ==
    ASSUME HubTypes, AllKnow,
           NEW work \in [Tags -> Works], \A t \in Tags : Carries(Before(t), work[t]),
           NEW out \in [Tags -> Seq(Frames)], \A t \in Tags : out[t] = work[t].out,
           \A t \in Tags : sessions'[t] = work[t].s,
           Broadcast(out), watching' = watching
    PROVE  pages' \in [Subs -> Pages] /\ AllKnow' /\ (AllContinue => AllContinue')
<1>1. /\ pages' \in [Subs -> Pages]
      /\ \A u \in Subs : pages'[u] = IF watching[u] = None THEN pages[u]
                                     ELSE Told(pages[u], out[watching[u]])
  BY BroadcastTells DEF HubTypes
<1>2. ASSUME NEW u \in Subs, watching[u] # None
      PROVE  /\ Knows(pages'[u], sessions'[watching[u]])
             /\ Continues(pages[u], sessions[watching[u]])
                  => Continues(pages'[u], sessions'[watching[u]])
  <2> DEFINE t == watching[u]
             p == pages[u]
  <2>1. t \in Tags /\ p \in Pages
    BY <1>2 DEF HubTypes
  <2>2. Knows(p, sessions[t])
    BY <1>2 DEF AllKnow
  <2>3. pages'[u] = Told(p, work[t].out) /\ sessions'[t] = work[t].s
    BY <1>1, <1>2, <2>1
  <2> HIDE DEF t, p
  <2>4. Abreast(p, Before(t)) /\ (InStep(p, Before(t)) <=> Continues(p, sessions[t]))
    BY <2>1, <2>2, BeforeType
  <2>5. Carries(Before(t), work[t])
    BY <2>1
  <2>6. Abreast(p, work[t]) /\ (InStep(p, Before(t)) => InStep(p, work[t]))
    BY <2>1, <2>4, <2>5 DEF Carries
  <2>7. /\ Knows(pages'[u], sessions'[t])
        /\ Continues(p, sessions[t]) => Continues(pages'[u], sessions'[t])
    BY <2>3, <2>4, <2>6 DEF Abreast, InStep
  <2>8. QED
    BY <2>7 DEF t, p
<1>3. QED
  BY <1>1, <1>2 DEF AllKnow, AllContinue

(* A page that subscribed to nothing. *)
LEMMA EmptyPage == Page \in Pages
BY EmptySeq DEF Page, Pages

(* No sessions have no ranges. *)
LEMMA NoRanges == TotalRanges([t \in Tags |-> None]) = 0
<1> DEFINE all == [t \in Tags |-> None]
<1>1. all \in Buffers
  BY DEF Buffers
<1>2. \A t \in Tags : RangesOf(all)[t] = 0
  BY DEF RangesOf
<1> HIDE DEF all
<1>3. TotalRanges(all) = OverTags(RangesOf(all)) /\ RangesOf(all) \in [Tags -> Nat]
  BY <1>1, CountsType
<1>4. OverTags(RangesOf(all)) = 0
  BY <1>2, <1>3, OverTagsNatural
<1>5. QED
  BY <1>3, <1>4 DEF all

(* The hub starts without sessions. *)
LEMMA InitHubInv == Init => HubInv
<1> SUFFICES ASSUME Init PROVE HubInv
  OBVIOUS
<1> USE DEF Init
<1>1. HubTypes
  BY EmptySeq, EmptyPage DEF HubTypes, Buffers
<1>2. Once(hello)
  <2>1. Len(hello) = 0
    BY EmptySeq
  <2>2. QED
    BY <2>1 DEF Once
<1>3. Limits(sessions)
  BY NoRanges, HubAssumption DEF Limits
<1>4. AllGreeted /\ AllKnow
  BY DEF AllGreeted, AllKnow
<1>5. QED
  BY <1>1, <1>2, <1>3, <1>4 DEF HubInv

-----------------------------------------------------------------------------
(* Handlers that keep the buffers *)

(* The part of the invariant a handler keeps that keeps the buffers. *)
LEMMA KeptInv ==
    ASSUME HubInv, sessions' \in [Tags -> Sessions \cup {None}], AllKept,
           ended' \in [Tags -> Seq(Boots)], watching' \in [Subs -> Tags \cup {None}]
    PROVE  sessions' \in Buffers /\ Limits(sessions')
<1>1. ASSUME NEW t \in Tags PROVE sessions'[t] \in Sound \cup {None}
  BY DEF AllKept, Kept
<1>2. sessions' \in Buffers
  BY <1>1 DEF Buffers
<1>3. QED
  <2>1. sessions \in Buffers /\ Limits(sessions)
    BY DEF HubInv, HubTypes
  <2>2. \A t \in Tags : Kept(sessions[t], sessions'[t])
    BY DEF AllKept
  <2>3. QED
    BY <1>2, <2>1, <2>2, LimitsKept

(* The clock changes the age of sessions only. *)
LEMMA ElapseKeeps ==
    ASSUME HubInv, Elapse
    PROVE  HubInv' /\ (AllContinue => AllContinue') /\ AllKept
<1>1. HubTypes
  BY DEF HubInv
<1>2. UNCHANGED <<ended, hello, watching, pages>>
  BY DEF Elapse
<1>3. ASSUME NEW t \in Tags
      PROVE  /\ sessions[t] = None => sessions'[t] = None
             /\ sessions[t] # None =>
                  /\ sessions'[t] \in Sound /\ sessions'[t] # None
                  /\ SameBuffer(sessions[t], sessions'[t])
                  /\ sessions'[t].boot = sessions[t].boot
                  /\ sessions'[t].sid = sessions[t].sid
                  /\ sessions'[t].rev = sessions[t].rev
                  /\ sessions'[t].active = sessions[t].active
  <2> DEFINE s == sessions[t]
             r == [s EXCEPT !.age = @ + 1]
  <2>1. sessions'[t] = IF s # None /\ s.active /\ s.age < Timeout THEN r ELSE s
    BY DEF Elapse
  <2>2. s \in Sound \cup {None}
    BY <1>1 DEF HubTypes, Buffers
  <2>3. CASE s = None
    BY <2>1, <2>3
  <2>4. CASE s # None
    <3>1. s \in Sound /\ s \in Sessions
      BY <2>2, <2>4, SoundType
    <3> HIDE DEF s
    <3>2. r \in Sessions /\ SameBuffer(s, r) /\ r.boot = s.boot /\ r.sid = s.sid
          /\ r.rev = s.rev /\ r.active = s.active
      BY <3>1 DEF Sessions, SameBuffer
    <3>3. r \in Sound
      BY <3>1, <3>2, SameBufferSound
    <3>4. SameBuffer(s, s)
      BY DEF SameBuffer
    <3> HIDE DEF r
    <3>5. QED
      BY <2>1, <2>4, <3>1, <3>2, <3>3, <3>4, NotNone DEF s
  <2>5. QED
    BY <2>3, <2>4
<1>4. AllKept
  BY <1>3 DEF AllKept, Kept, SameBuffer
<1>5. sessions' \in [Tags -> Sessions \cup {None}]
  <2>1. \A t \in Tags : sessions'[t] \in Sessions \cup {None}
    BY <1>3, SoundType
  <2>2. sessions' = [t \in Tags |-> sessions'[t]]
    BY DEF Elapse
  <2>3. QED
    BY <2>1, <2>2
<1>6. sessions' \in Buffers /\ Limits(sessions')
  BY <1>1, <1>2, <1>4, <1>5, KeptInv DEF HubTypes
<1>7. HubTypes'
  BY <1>1, <1>2, <1>6 DEF HubTypes
<1>8. AllGreeted'
  BY <1>2, <1>3 DEF HubInv, AllGreeted, Greets, Greeted, KnownRev, PlaceOf
<1>9. ASSUME NEW u \in Subs, watching[u] # None
      PROVE  /\ Knows(pages[u], sessions'[watching[u]])
             /\ Continues(pages[u], sessions[watching[u]])
                  => Continues(pages[u], sessions'[watching[u]])
  <2>1. watching[u] \in Tags /\ Knows(pages[u], sessions[watching[u]])
    BY <1>1, <1>9 DEF HubInv, HubTypes, AllKnow
  <2>2. Knows(pages[u], sessions'[watching[u]])
    BY <1>3, <2>1 DEF Knows
  <2>3. ASSUME Continues(pages[u], sessions[watching[u]])
        PROVE  Continues(pages[u], sessions'[watching[u]])
    <3>1. CASE sessions[watching[u]] = None
      BY <1>3, <2>1, <3>1 DEF Continues
    <3>2. CASE sessions[watching[u]] # None
      BY <1>3, <2>1, <2>3, <3>2, ContinuesSameBuffer
    <3>3. QED
      BY <3>1, <3>2
  <2>4. QED
    BY <2>2, <2>3
<1>10. AllKnow' /\ (AllContinue => AllContinue')
  BY <1>2, <1>9 DEF AllKnow, AllContinue
<1>11. QED
  BY <1>2, <1>4, <1>6, <1>7, <1>8, <1>10 DEF HubInv

(* tick on one tag. *)
LEMMA TickedCarries ==
    ASSUME HubTypes, NEW t \in Tags
    PROVE  LET w == Ticked(t)
           IN  /\ w \in Works /\ Carries(Before(t), w) /\ Kept(sessions[t], w.s)
               /\ sessions[t] # None => w.s.sid = sessions[t].sid /\ w.s.rev = sessions[t].rev
<1> DEFINE b == Before(t)
           f == Flushed(b)
           e == End(f, "timeout")
           w == Ticked(t)
<1>1. b \in Works /\ b.s = sessions[t] /\ b.ended = ended[t]
  BY BeforeType DEF Before
<1>2. w = IF b.s = None THEN b
          ELSE IF b.s.active /\ b.s.age >= Timeout THEN e ELSE f
  BY DEF Ticked, Before
<1> HIDE DEF b
<1>3. CASE b.s = None
  <2>1. w = b /\ Carries(b, b)
    BY <1>2, <1>3 DEF Carries
  <2>2. QED
    BY <1>1, <1>3, <2>1 DEF Kept, b
<1>4. CASE b.s # None
  <2>1. /\ f \in Works /\ f.s \in Sound /\ SameSession(b.s, f.s)
        /\ f.s.cycles = b.s.cycles /\ f.s.last = b.s.last /\ f.s.ranges = b.s.ranges
        /\ f.ended = b.ended /\ Carries(b, f) /\ f.s # None
    BY <1>1, <1>4, FlushedCarries, NotNone
  <2> HIDE DEF f
  <2>2. /\ e \in Works /\ e.s \in Sound /\ e.s.boot = f.s.boot /\ e.s.sid = f.s.sid
        /\ e.s.rev = f.s.rev /\ e.s.cycles = f.s.cycles /\ e.s.last = f.s.last
        /\ e.s.ranges = f.s.ranges /\ e.ended = f.ended /\ Carries(f, e)
    BY <2>1, EndCarries
  <2>3. Carries(b, e)
    BY <2>1, <2>2, CarriesTransitive
  <2> HIDE DEF e
  <2>4. w = e \/ w = f
    BY <1>2, <1>4
  <2> HIDE DEF w
  <2>5. /\ w \in Works /\ w.s \in Sound /\ w.s.boot = b.s.boot /\ w.s.sid = b.s.sid
        /\ w.s.rev = b.s.rev /\ w.s.cycles = b.s.cycles /\ w.s.last = b.s.last
        /\ w.s.ranges = b.s.ranges /\ w.ended = b.ended /\ Carries(b, w)
    BY <2>1, <2>2, <2>3, <2>4 DEF SameSession
  <2>6. QED
    BY <1>1, <1>4, <2>5 DEF Kept, b, w
<1>5. QED
  BY <1>3, <1>4

(* tick sends what is pending and ends what timed out. *)
LEMMA TickKeeps ==
    ASSUME HubInv, Tick
    PROVE  HubInv' /\ (AllContinue => AllContinue') /\ AllKept
<1> DEFINE work == [t \in Tags |-> Ticked(t)]
           out == [t \in Tags |-> Ticked(t).out]
<1>1. HubTypes /\ AllKnow
  BY DEF HubInv
<1>2. /\ sessions' = [t \in Tags |-> Ticked(t).s] /\ ended' = [t \in Tags |-> Ticked(t).ended]
      /\ Broadcast(out) /\ hello' = hello /\ watching' = watching
  BY DEF Tick
<1>3. \A t \in Tags : /\ Ticked(t) \in Works /\ Carries(Before(t), Ticked(t))
                      /\ Kept(sessions[t], Ticked(t).s)
                      /\ sessions[t] # None => /\ Ticked(t).s.sid = sessions[t].sid
                                               /\ Ticked(t).s.rev = sessions[t].rev
  BY <1>1, TickedCarries
<1>4. \A t \in Tags : /\ Ticked(t).s \in Sound \cup {None} /\ Ticked(t).ended \in Seq(Boots)
                      /\ Ticked(t).out \in Seq(Frames)
  BY <1>3, WorkType
<1>5. work \in [Tags -> Works] /\ out \in [Tags -> Seq(Frames)]
  BY <1>3, <1>4
<1>6. /\ \A t \in Tags : Carries(Before(t), work[t])
      /\ \A t \in Tags : out[t] = work[t].out
      /\ \A t \in Tags : sessions'[t] = work[t].s
  BY <1>2, <1>3
<1> HIDE DEF work, out
<1>7. pages' \in [Subs -> Pages] /\ AllKnow' /\ (AllContinue => AllContinue')
  BY <1>1, <1>2, <1>5, <1>6, Delivered
<1>8. AllKept
  BY <1>2, <1>3 DEF AllKept
<1>9. sessions' \in [Tags -> Sessions \cup {None}] /\ ended' \in [Tags -> Seq(Boots)]
  BY <1>2, <1>4, SoundType
<1>10. sessions' \in Buffers /\ Limits(sessions')
  BY <1>1, <1>2, <1>8, <1>9, KeptInv DEF HubTypes
<1>11. HubTypes'
  BY <1>1, <1>2, <1>7, <1>9, <1>10 DEF HubTypes
<1>12. AllGreeted'
  <2>1. \A t \in Tags : sessions'[t] # None =>
           /\ sessions[t] # None /\ sessions'[t].boot = sessions[t].boot
           /\ sessions'[t].sid = sessions[t].sid /\ sessions'[t].rev = sessions[t].rev
    BY <1>2, <1>3 DEF Kept
  <2>2. AllGreeted /\ hello' = hello
    BY <1>2 DEF HubInv
  <2>3. QED
    BY <2>1, <2>2 DEF AllGreeted, Greets, Greeted, KnownRev, PlaceOf
<1>13. QED
  BY <1>2, <1>7, <1>8, <1>10, <1>11, <1>12 DEF HubInv

(* Nothing happens to the sessions. *)
LEMMA NoSessionChange ==
    ASSUME HubInv, sessions' = sessions PROVE AllKept
<1>1. \A t \in Tags : Kept(sessions[t], sessions[t])
  BY DEF HubInv, HubTypes, Buffers, Kept
<1>2. QED
  BY <1>1 DEF AllKept

(* A page that leaves is empty. *)
LEMMA UnsubscribeKeeps ==
    ASSUME HubInv, NEW u \in Subs, Unsubscribe(u)
    PROVE  HubInv' /\ (AllContinue => AllContinue') /\ AllKept
<1>1. /\ watching' = [watching EXCEPT ![u] = None] /\ pages' = [pages EXCEPT ![u] = Page]
      /\ sessions' = sessions /\ ended' = ended /\ hello' = hello
  BY DEF Unsubscribe
<1>2. HubTypes'
  BY <1>1, EmptyPage DEF HubInv, HubTypes
<1>3. AllGreeted' /\ Once(hello') /\ Limits(sessions')
  BY <1>1 DEF HubInv, AllGreeted, Greets, Greeted, KnownRev, PlaceOf
<1>4. \A v \in Subs : watching'[v] # None =>
         v # u /\ watching'[v] = watching[v] /\ pages'[v] = pages[v]
  BY <1>1 DEF HubInv, HubTypes
<1>5. AllKnow' /\ (AllContinue => AllContinue')
  BY <1>1, <1>4 DEF HubInv, AllKnow, AllContinue
<1>6. QED
  BY <1>1, <1>2, <1>3, <1>5, NoSessionChange DEF HubInv

(* One turn of the fold that selects the recent cycles. *)
Selected(c, kept, x) == IF Last(c).t - x.t <= Trail THEN Append(kept, x) ELSE kept

Selecting(v, c) ==
    /\ v \in [0..Len(c) -> Seq(Cycles)]
    /\ v[0] = << >>
    /\ \A k \in 1..Len(c) : v[k] = Selected(c, v[k - 1], c[k])
    /\ v[Len(c)] = Recent(c)

(* The turns of the selection of recent cycles, one by one. *)
LEMMA SelectingExists ==
    ASSUME NEW q \in Seq(Cycles)
    PROVE  \E v : Selecting(v, q)
<1> DEFINE n == Len(q)
           A == Seq(Cycles)
           step == [k \in 1..n |-> [r \in A |-> Selected(q, r, q[k])]]
           Eq(f) == [t \in SUBSET (1..n) |->
                       IF t = {} THEN << >> ELSE Selected(q, f[t \ {Max(t)}], q[Max(t)])]
           it == CHOOSE f : f = Eq(f)
<1>1. n \in Nat /\ DOMAIN q = 1..n /\ (\A k \in 1..n : q[k] \in Cycles) /\ << >> \in A
  BY LenProperties, ElementOfSeq, EmptySeq
<1>2. step \in [1..n -> [A -> A]]
  <2>1. \A k \in 1..n : \A r \in A : Selected(q, r, q[k]) \in A
    BY <1>1, AppendProperties DEF Selected
  <2>2. QED
    BY <2>1
<1>3. \A k \in 1..n : \A r \in A : step[k][r] = Selected(q, r, q[k])
  OBVIOUS
<1> HIDE DEF n, step, A
<1>4. \E f : f = Eq(f)
  <2>1. PICK f \in [SUBSET (1..n) -> A] : ByPlaces(f, n, << >>, step)
    BY <1>1, <1>2, FoldExists, Zenon
  <2>2. \A t \in SUBSET (1..n) :
           f[t] = IF t = {} THEN << >> ELSE Selected(q, f[t \ {Max(t)}], q[Max(t)])
    <3> SUFFICES ASSUME NEW t \in SUBSET (1..n), t # {}
                 PROVE  f[t] = Selected(q, f[t \ {Max(t)}], q[Max(t)])
      BY <2>1 DEF ByPlaces
    <3>1. Max(t) \in 1..n /\ f[t \ {Max(t)}] \in A
      BY <1>1, MaxProperties
    <3>2. QED
      BY <1>3, <2>1, <3>1 DEF ByPlaces
  <2>3. f = Eq(f)
    BY <2>2
  <2>4. QED
    BY <2>3
<1>5. it = Eq(it)
  BY <1>4
<1>6. Recent(q) = it[1..n]
  BY <1>1 DEF Recent, FoldLeft, MapThenFoldSet, Selected
<1> HIDE DEF it
<1>7. it[{}] = << >>
  BY <1>5
<1>8. ASSUME NEW t \in SUBSET (1..n), t # {}, it[t \ {Max(t)}] \in A
      PROVE  it[t] = step[Max(t)][it[t \ {Max(t)}]]
  <2>1. Max(t) \in 1..n
    BY <1>1, <1>8, MaxProperties
  <2>2. it[t] = Selected(q, it[t \ {Max(t)}], q[Max(t)])
    BY <1>5, <1>8
  <2>3. QED
    BY <1>3, <1>8, <2>1, <2>2
<1>9. PICK v \in [0..n -> A] : IsRun(v, n, << >>, step, it[1..n])
  <2>1. OverPlaces(it, n, A, << >>, step)
    BY <1>7, <1>8 DEF OverPlaces
  <2>2. QED
    BY <1>1, <1>2, <2>1, FoldChain, Zenon
<1>10. ASSUME NEW k \in 1..n PROVE v[k] = Selected(q, v[k - 1], q[k])
  <2>1. k - 1 \in 0..n
    BY <1>1
  <2>2. v[k - 1] \in A
    BY <1>9, <2>1
  <2>3. QED
    BY <1>3, <1>9, <2>2 DEF IsRun
<1>11. Selecting(v, q)
  BY <1>6, <1>9, <1>10 DEF n, A, IsRun, Selecting
<1>12. QED
  BY <1>11

TimesAscending(c) == \A i, j \in 1..Len(c) : i < j => c[i].t <= c[j].t

(* Of cycles whose times ascend the recent ones are the last ones. *)
LEMMA RecentProperties ==
    ASSUME NEW c \in Seq(Cycles)
    PROVE  /\ Recent(c) \in Seq(Cycles)
           /\ TimesAscending(c) =>
                 Ends(Recent(c), c) /\ (c # << >> => Recent(c) # << >>)
<1> DEFINE n == Len(c)
           T == {i \in 1..n : Last(c).t - c[i].t <= Trail}
           m == Min(T \cup {n + 1})
<1>1. PICK v : Selecting(v, c)
  BY SelectingExists
<1>2. /\ n \in Nat /\ (\A k \in 0..n : v[k] \in Seq(Cycles)) /\ v[0] = << >>
      /\ (\A k \in 1..n : v[k] = IF k \in T THEN Append(v[k - 1], c[k]) ELSE v[k - 1])
      /\ v[n] = Recent(c)
  BY <1>1, LenProperties DEF Selecting, Selected
<1>3. Recent(c) \in Seq(Cycles)
  <2>1. n \in 0..n
    BY <1>2
  <2>2. QED
    BY <1>2, <2>1
<1>4. ASSUME TimesAscending(c)
      PROVE  Ends(Recent(c), c) /\ (c # << >> => Recent(c) # << >>)
  <2>1. m \in T \cup {n + 1} /\ \A y \in T \cup {n + 1} : m <= y
    <3>1. T \cup {n + 1} \in SUBSET Nat /\ T \cup {n + 1} # {}
      BY <1>2
    <3> HIDE DEF T
    <3>2. QED
      BY <3>1, MinProperties
  <2>2. ASSUME NEW i \in 1..n PROVE i \in T <=> m <= i
    <3>1. i \in T => m <= i
      BY <2>1
    <3>2. ASSUME m <= i PROVE i \in T
      <4>1. m \in T
        BY <1>2, <2>1, <3>2
      <4>2. m = i \/ m < i
        BY <3>2, <4>1
      <4>3. c[i] \in Cycles /\ c[m] \in Cycles /\ c[n] \in Cycles /\ Last(c) = c[n]
        <5>1. n \in 1..n
          BY <1>2
        <5>2. QED
          BY <4>1, <5>1, ElementOfSeq DEF Last
      <4>5. Trail \in Int /\ c[i].t \in Int /\ c[m].t \in Int /\ c[n].t \in Int
        <5> HIDE DEF T, m, n
        <5>1. \A x \in Cycles : x.t \in Int
          BY DEF Cycles
        <5>2. QED
          BY <4>3, <5>1, HubAssumption
      <4>4. c[m].t <= c[i].t
        <5>1. m \in 1..n
          BY <4>1
        <5> HIDE DEF T, m
        <5>2. m < i => c[m].t <= c[i].t
          BY <1>4, <5>1 DEF TimesAscending
        <5>3. QED
          BY <4>2, <4>5, <5>2
      <4>6. c[n].t - c[m].t <= Trail
        BY <4>1, <4>3
      <4>7. c[n].t - c[i].t <= Trail
        BY <4>4, <4>5, <4>6
      <4>8. QED
        BY <4>3, <4>7
    <3>3. QED
      BY <3>1, <3>2
  <2>3. n # 0 => m <= n
    <3> SUFFICES ASSUME n # 0 PROVE m <= n
      OBVIOUS
    <3>1. n \in 1..n
      BY <1>2
    <3>2. c[n] \in Cycles /\ Last(c) = c[n]
      BY <3>1, ElementOfSeq DEF Last
    <3>3. c[n].t - c[n].t = 0 /\ 0 <= Trail
      <4>1. c[n].t \in Int
        BY <3>2 DEF Cycles
      <4>2. 0 <= Trail
        BY HubAssumption
      <4>3. QED
        BY <4>1, <4>2
    <3>4. n \in T
      BY <3>1, <3>2, <3>3
    <3>5. QED
      BY <2>1, <3>4
  <2> DEFINE size(k) == IF m <= k THEN k - m + 1 ELSE 0
             P == {k \in 0..n : /\ Len(v[k]) = size(k)
                                 /\ \A j \in 1..size(k) : v[k][j] = c[m - 1 + j]}
  <2>4. m \in 1..(n + 1)
    BY <1>2, <2>1
  <2> HIDE DEF T, m
  <2>5. 0 \in P
    <3>1. size(0) = 0 /\ Len(v[0]) = 0
      BY <1>2, <2>4, EmptySeq
    <3>2. QED
      BY <1>2, <3>1
  <2>6. ASSUME NEW k \in 1..n, k - 1 \in P PROVE k \in P
    <3>1. k \in 0..n /\ k - 1 \in 0..n
      BY <1>2
    <3>2. /\ Len(v[k - 1]) = size(k - 1) /\ v[k - 1] \in Seq(Cycles)
          /\ \A j \in 1..size(k - 1) : v[k - 1][j] = c[m - 1 + j]
      BY <1>2, <2>6, <3>1
    <3>3. CASE m <= k
      <4>1. /\ size(k) = k - m + 1 /\ size(k - 1) = k - m /\ k - m \in Nat
            /\ (m - 1) + (k - m + 1) = k
        BY <2>4, <3>3
      <4>2. v[k] = Append(v[k - 1], c[k]) /\ c[k] \in Cycles
        BY <1>2, <2>2, <3>3, ElementOfSeq
      <4>3. /\ Len(v[k]) = (k - m) + 1 /\ v[k][(k - m) + 1] = c[k]
            /\ \A j \in 1..(k - m) : v[k][j] = v[k - 1][j]
        BY <3>2, <4>1, <4>2, AppendProperties
      <4>4. ASSUME NEW j \in 1..(k - m + 1) PROVE v[k][j] = c[m - 1 + j]
        <5>1. j \in 1..(k - m) \/ j = k - m + 1
          BY <4>1
        <5>2. QED
          BY <3>2, <4>1, <4>3, <5>1
      <4> HIDE DEF size
      <4>5. QED
        BY <3>1, <4>1, <4>3, <4>4
    <3>4. CASE ~(m <= k)
      <4>1. size(k) = 0 /\ size(k - 1) = 0
        BY <2>4, <3>4
      <4>2. v[k] = v[k - 1]
        BY <1>2, <2>2, <3>4
      <4> HIDE DEF size
      <4>3. QED
        BY <3>1, <3>2, <4>1, <4>2
    <3>5. QED
      BY <3>3, <3>4
  <2>7. n \in P
    <3> HIDE DEF P
    <3>1. \A k \in 0..n : k \in P
      BY <1>2, <2>5, <2>6, Induction
    <3>2. n \in 0..n
      BY <1>2
    <3>3. QED
      BY <3>1, <3>2
  <2>8. size(n) = n - m + 1
    BY <1>2, <2>4
  <2> HIDE DEF size
  <2>9. /\ Len(Recent(c)) = n - m + 1
        /\ \A j \in 1..(n - m + 1) : Recent(c)[j] = c[m - 1 + j]
    BY <1>2, <2>7, <2>8
  <2>10. n - m + 1 <= n /\ n - (n - m + 1) = m - 1
    BY <1>2, <2>4
  <2>11. Ends(Recent(c), c)
    <3> HIDE DEF n, P
    <3>1. /\ Len(Recent(c)) <= n
          /\ \A j \in 1..Len(Recent(c)) : Recent(c)[j] = c[n - Len(Recent(c)) + j]
      BY <2>9, <2>10
    <3>2. QED
      BY <3>1 DEF Ends, n
  <2>12. ASSUME c # << >> PROVE Recent(c) # << >>
    <3>1. n # 0
      BY <2>12, EmptySeq
    <3>2. n - m + 1 # 0
      BY <1>2, <2>3, <2>4, <3>1
    <3>3. QED
      BY <2>9, <3>2, EmptySeq
  <2>13. QED
    BY <2>11, <2>12
<1>5. QED
  BY <1>3, <1>4

(* A new subscriber gets the snapshot: what is known of the session and what *)
(* was sent of it.                                                           *)
LEMMA SubscribeKeeps ==
    ASSUME HubInv, NEW u \in Subs, NEW tag \in Tags, Subscribe(u, tag)
    PROVE  /\ HubInv' /\ AllKept
           /\ /\ AllContinue
              /\ sessions[tag] # None => TimesAscending(Sent(sessions[tag]))
              => AllContinue'
<1> DEFINE s == sessions[tag]
           q == OnFrame(Page, SnapshotFrame(s))
<1>1. /\ watching' = [watching EXCEPT ![u] = tag] /\ pages' = [pages EXCEPT ![u] = q]
      /\ sessions' = sessions /\ ended' = ended /\ hello' = hello
  BY DEF Subscribe
<1>2. s \in Sound \cup {None} /\ (s # None => s \in Sessions)
  BY SoundType DEF HubInv, HubTypes, Buffers
<1>3. s # None => Sent(s) \in Seq(Cycles) /\ Recent(Sent(s)) \in Seq(Cycles)
  BY <1>2, SentProperties, RecentProperties
<1>4. /\ s = None => q = Page
      /\ s # None => q = [boot |-> s.boot, sid |-> s.sid, rev |-> s.rev, active |-> s.active,
                          data |-> Recent(Sent(s))]
  BY DEF OnFrame, SnapshotFrame, OnSnapshot, Page
<1>5. q \in Pages /\ Knows(q, s)
  <2>1. CASE s = None
    BY <1>4, <2>1, EmptyPage DEF Knows
  <2>2. CASE s # None
    <3> HIDE DEF s
    <3>1. s \in Sessions /\ Recent(Sent(s)) \in Seq(Cycles)
      BY <1>2, <1>3, <2>2
    <3>2. QED
      BY <1>4, <2>2, <3>1, SessionType DEF Knows, Pages
  <2>3. QED
    BY <2>1, <2>2
<1>6. ASSUME s # None, TimesAscending(Sent(s)) PROVE Continues(q, s)
  <2> DEFINE a == Sent(s)
             d == q.data
  <2>1. /\ a \in Seq(Cycles) /\ d = Recent(a) /\ d \in Seq(Cycles)
        /\ Ends(d, a) /\ (a # << >> => d # << >>)
    BY <1>3, <1>4, <1>6, RecentProperties
  <2>2. /\ s.cycles = a \o s.pending /\ s.pending \in Seq(Cycles) /\ s.cycles \in Seq(Cycles)
        /\ Ascending(s.cycles) /\ Len(s.cycles) = Len(a) + Len(s.pending)
        /\ \A i \in 1..Len(s.cycles) : s.last # None /\ s.cycles[i].n <= s.last.n
        /\ \A i \in 1..Len(a) : a[i] = s.cycles[i]
    <3>1. s \in Sound
      BY <1>2, <1>6
    <3> HIDE DEF s
    <3>2. Len(s.cycles) \in Nat /\ Len(s.pending) \in Nat
      BY <3>1, SoundType
    <3>3. Len(a) = Len(s.cycles) - Len(s.pending)
      BY <3>1, SentProperties
    <3>4. Len(s.cycles) = Len(a) + Len(s.pending)
      BY <3>2, <3>3
    <3>5. QED
      BY <3>1, <3>4, SentProperties, SoundType DEF Consistent
  <2> HIDE DEF a, d, s, q
  <2>3. Ends(d \o s.pending, s.cycles)
    BY <2>1, <2>2, EndsConcat
  <2>4. d \o s.pending \in Seq(Cycles)
    BY <2>1, <2>2, ConcatProperties
  <2>5. Ascending(d \o s.pending)
    BY <2>2, <2>3, <2>4, AscendingEnds
  <2>6. ASSUME NEW i \in 1..Len(d) PROVE s.last # None /\ d[i].n <= s.last.n
    <3> DEFINE m == Len(a)
               l == Len(d)
               c == Len(s.cycles)
    <3>1. m \in Nat /\ l \in Nat /\ l <= m /\ c \in Nat /\ c = m + Len(s.pending)
          /\ Len(s.pending) \in Nat /\ (i \in 1..l => d[i] = a[m - l + i])
      BY <2>1, <2>2, LenProperties DEF Ends
    <3> HIDE DEF m, l, c
    <3>2. i \in 1..l
      BY DEF l
    <3>3. m - l + i \in 1..m /\ m - l + i \in 1..c
      BY <3>1, <3>2
    <3>4. d[i] = s.cycles[m - l + i]
      BY <2>2, <3>1, <3>2, <3>3 DEF m
    <3>5. QED
      BY <2>2, <3>3, <3>4 DEF c
  <2>7. QED
    BY <2>1, <2>5, <2>6 DEF Continues, a, d
<1> HIDE DEF q, s
<1>7. HubTypes'
  BY <1>1, <1>5 DEF HubInv, HubTypes
<1>8. AllGreeted' /\ Once(hello') /\ Limits(sessions')
  BY <1>1 DEF HubInv, AllGreeted, Greets, Greeted, KnownRev, PlaceOf
<1>9. \A v \in Subs : v # u => watching'[v] = watching[v] /\ pages'[v] = pages[v]
  BY <1>1 DEF HubInv, HubTypes
<1>10. watching'[u] = tag /\ pages'[u] = q
  BY <1>1 DEF HubInv, HubTypes
<1>11. AllKnow'
  BY <1>1, <1>5, <1>9, <1>10 DEF HubInv, AllKnow, s
<1>12. /\ AllContinue
       /\ sessions[tag] # None => TimesAscending(Sent(sessions[tag]))
       => AllContinue'
  <2> SUFFICES ASSUME AllContinue,
                      sessions[tag] # None => TimesAscending(Sent(sessions[tag]))
               PROVE  AllContinue'
    OBVIOUS
  <2>1. Continues(q, s)
    <3>1. CASE s = None
      BY <3>1 DEF Continues
    <3>2. CASE s # None
      BY <1>6, <3>2 DEF s
    <3>3. QED
      BY <3>1, <3>2
  <2>2. QED
    BY <1>1, <1>9, <1>10, <2>1 DEF AllContinue, s
<1>13. AllKept
  BY <1>1, NoSessionChange
<1>14. QED
  BY <1>7, <1>8, <1>11, <1>12, <1>13 DEF HubInv

-----------------------------------------------------------------------------
(* Hellos and commits *)

(* What a session learns is told by a session_start, to the pages of a      *)
(* running one, by a session_info or, when they need not know, by nothing.  *)
LEMMA Retold ==
    ASSUME HubTypes, NEW t \in Tags, sessions[t] # None,
           NEW r \in Sound, SameBuffer(sessions[t], r),
           r.boot = sessions[t].boot, r.active = sessions[t].active,
           NEW out \in {<< >>, <<StartFrame(r)>>, <<InfoFrame(r)>>},
           out = << >> => r.rev = sessions[t].rev,
           out = <<StartFrame(r)>> => r.active,
           out = <<InfoFrame(r)>> => r.rev # None \/ r.rev = sessions[t].rev
    PROVE  LET w == [s |-> r, ended |-> ended[t], out |-> out]
           IN  w \in Works /\ out \in Seq(Frames) /\ Carries(Before(t), w)
<1> DEFINE s == sessions[t]
           w == [s |-> r, ended |-> ended[t], out |-> out]
<1>1. r \in Sessions /\ r # None /\ s # None /\ ended[t] \in Seq(Boots)
  BY SoundType, NotNone DEF HubTypes
<1>2. StartFrame(r) \in Frames /\ InfoFrame(r) \in Frames /\ << >> \in Seq(Frames)
  BY <1>1, FramesType, EmptySeq
<1>3. \A f \in Frames : <<f>> \in Seq(Frames) /\ <<f>> = Append(<< >>, f)
  OBVIOUS
<1>4. out \in Seq(Frames) /\ w \in Works
  <2>1. out \in Seq(Frames)
    BY <1>2, <1>3
  <2>2. QED
    BY <1>1, <2>1 DEF Works
<1>5. ASSUME NEW p \in Pages, Abreast(p, Before(t))
      PROVE  Abreast(p, w) /\ (InStep(p, Before(t)) => InStep(p, w))
  <2> DEFINE z == Told(p, out)
  <2>1. Knows(p, s) /\ (InStep(p, Before(t)) <=> Continues(p, s))
    BY <1>5, BeforeType
  <2>2. p.boot = s.boot /\ p.active = s.active /\ p.rev = s.rev
    BY <1>1, <2>1 DEF Knows
  <2>3. /\ Told(p, << >>) = p
        /\ \A f \in Frames : Told(p, <<f>>) = OnFrame(p, f)
    BY <1>2, <1>3, ToldProperties
  <2>4. z.boot = r.boot /\ z.active = r.active /\ z.rev = r.rev /\ z.data = p.data
    <3>1. CASE out = << >>
      BY <2>2, <2>3, <3>1
    <3>2. CASE out = <<StartFrame(r)>>
      <4>1. z = OnFrame(p, StartFrame(r))
        BY <1>2, <2>3, <3>2
      <4>2. r.active = TRUE
        BY <1>1, <3>2, SessionType
      <4> HIDE DEF z
      <4>3. QED
        BY <2>2, <4>1, <4>2 DEF OnFrame, StartFrame, OnSessionStart
    <3>3. CASE out = <<InfoFrame(r)>>
      <4>1. z = OnFrame(p, InfoFrame(r))
        BY <1>2, <2>3, <3>3
      <4> HIDE DEF z
      <4>2. /\ z.boot = p.boot /\ z.active = p.active /\ z.data = p.data
            /\ z.rev = IF r.rev # None THEN r.rev ELSE p.rev
        BY <2>2, <4>1 DEF OnFrame, InfoFrame, OnSessionInfo, Pages
      <4>3. QED
        BY <2>2, <3>3, <4>2
    <3>4. QED
      BY <3>1, <3>2, <3>3
  <2> HIDE DEF z
  <2>5. Knows(z, r)
    BY <1>1, <2>4 DEF Knows
  <2>6. Continues(p, s) => Continues(z, r)
    BY <1>1, <2>4, ContinuesSameBuffer
  <2>7. QED
    BY <2>1, <2>5, <2>6 DEF Abreast, InStep, z
<1>6. QED
  BY <1>4, <1>5 DEF Carries

(* note_sessions after a commit. *)
LEMMA NoteSessionsKeeps ==
    ASSUME HubInv, NEW named \in SUBSET Tags, NoteSessions(named)
    PROVE  HubInv' /\ (AllContinue => AllContinue') /\ AllKept
<1> DEFINE new == [t \in Tags |-> IF Identified(t, named)
                                  THEN [sessions[t] EXCEPT !.sid = sessions[t].boot]
                                  ELSE sessions[t]]
           out == [t \in Tags |-> IF Identified(t, named) /\ ~sessions[t].active
                                  THEN <<InfoFrame(new[t])>> ELSE << >>]
           work == [t \in Tags |-> [s |-> new[t], ended |-> ended[t], out |-> out[t]]]
<1>1. HubTypes /\ AllKnow
  BY DEF HubInv
<1>2. /\ sessions' = new /\ Broadcast(out)
      /\ ended' = ended /\ hello' = hello /\ watching' = watching
  BY DEF NoteSessions
<1>3. ASSUME NEW t \in Tags
      PROVE  /\ work[t] \in Works /\ out[t] \in Seq(Frames) /\ Carries(Before(t), work[t])
             /\ new[t] \in Sessions \cup {None} /\ Kept(sessions[t], new[t])
             /\ sessions[t] # None => /\ sessions[t].sid # None => new[t].sid # None
                                      /\ new[t].rev = sessions[t].rev
  <2> DEFINE s == sessions[t]
  <2>1. s \in Sound \cup {None} /\ (s # None => s \in Sessions /\ s \in Sound)
    BY <1>1, SoundType DEF HubTypes, Buffers
  <2>2. CASE ~Identified(t, named)
    <3>1. new[t] = s /\ out[t] = << >> /\ work[t] = Before(t)
      BY <2>2 DEF Before
    <3>2. Kept(s, s)
      BY <2>1 DEF Kept
    <3>3. Carries(Before(t), Before(t)) /\ Before(t) \in Works
      BY <1>1, BeforeType DEF Carries
    <3>4. << >> \in Seq(Frames)
      BY EmptySeq
    <3> HIDE DEF new, out, work
    <3>5. QED
      BY <2>1, <3>1, <3>2, <3>3, <3>4
  <2>3. CASE Identified(t, named)
    <3> DEFINE r == [s EXCEPT !.sid = s.boot]
    <3>1. s # None /\ s \in Sound /\ s \in Sessions
      BY <2>1, <2>3 DEF Identified
    <3>2. new[t] = r
      BY <2>3
    <3>3. /\ r \in Sessions /\ SameBuffer(s, r) /\ r.boot = s.boot /\ r.active = s.active
          /\ r.rev = s.rev /\ r.sid = s.boot
      <4> HIDE DEF s
      <4>1. QED
        BY <3>1 DEF Sessions, SameBuffer
    <3>4. r \in Sound /\ r # None /\ r.sid # None
      BY <3>1, <3>3, SameBufferSound, NotNone, SessionType, HubAssumption
    <3>5. /\ out[t] = IF ~s.active THEN <<InfoFrame(r)>> ELSE << >>
          /\ work[t] = [s |-> r, ended |-> ended[t], out |-> out[t]]
      BY <2>3, <3>2
    <3> HIDE DEF new, out, work, r
    <3>6. out[t] \in {<< >>, <<StartFrame(r)>>, <<InfoFrame(r)>>}
      BY <3>5
    <3>7. out[t] # <<StartFrame(r)>>
      <4>1. << >> # <<StartFrame(r)>>
        OBVIOUS
      <4>2. <<InfoFrame(r)>> # <<StartFrame(r)>>
        <5>1. InfoFrame(r).type = "session_info" /\ StartFrame(r).type = "session_start"
          BY DEF InfoFrame, StartFrame
        <5>2. InfoFrame(r) # StartFrame(r)
          BY <5>1
        <5>3. QED
          BY <5>2
      <4>3. QED
        BY <3>5, <4>1, <4>2
    <3>8. work[t] \in Works /\ out[t] \in Seq(Frames) /\ Carries(Before(t), work[t])
      BY <1>1, <3>1, <3>3, <3>4, <3>5, <3>6, <3>7, Retold
    <3>9. Kept(s, r)
      BY <3>1, <3>3, <3>4 DEF Kept, SameBuffer
    <3>10. QED
      BY <3>2, <3>3, <3>4, <3>8, <3>9
  <2>4. QED
    BY <2>2, <2>3
<1>4. /\ work \in [Tags -> Works] /\ out \in [Tags -> Seq(Frames)]
      /\ new \in [Tags -> Sessions \cup {None}]
  BY <1>3
<1>5. /\ \A t \in Tags : Carries(Before(t), work[t])
      /\ \A t \in Tags : out[t] = work[t].out
      /\ \A t \in Tags : sessions'[t] = work[t].s
  BY <1>2, <1>3
<1>6. AllKept
  BY <1>2, <1>3 DEF AllKept
<1> HIDE DEF work, out
<1>7. pages' \in [Subs -> Pages] /\ AllKnow' /\ (AllContinue => AllContinue')
  BY <1>1, <1>2, <1>4, <1>5, Delivered
<1>8. sessions' \in Buffers /\ Limits(sessions')
  BY <1>1, <1>2, <1>4, <1>6, KeptInv DEF HubTypes
<1>9. HubTypes'
  BY <1>1, <1>2, <1>7, <1>8 DEF HubTypes
<1>10. AllGreeted'
  <2>1. \A t \in Tags : sessions'[t] # None =>
           /\ sessions[t] # None /\ sessions'[t].boot = sessions[t].boot
           /\ sessions[t].sid # None => sessions'[t].sid # None
           /\ sessions'[t].rev = sessions[t].rev
    BY <1>2, <1>3 DEF Kept
  <2>2. QED
    BY <1>2, <2>1 DEF HubInv, AllGreeted, Greets, Greeted, KnownRev, PlaceOf
<1>11. QED
  BY <1>2, <1>6, <1>7, <1>8, <1>9, <1>10 DEF HubInv

(* The memory without the key, then with the key at its end, then within its *)
(* limit.                                                                    *)
LEMMA NotedProperties ==
    ASSUME hello \in Seq(Hellos), Once(hello),
           NEW tag \in Tags, NEW boot \in Boots, NEW rev \in Revs \cup {None}
    PROVE  LET q == Noted(tag, boot, rev)
               e == [tag |-> tag, boot |-> boot, rev |-> rev]
           IN  /\ q \in Seq(Hellos) /\ Once(q)
               /\ \E j \in 1..Len(q) : q[j] = e
               /\ \A j \in 1..Len(q) :
                     \/ q[j] = e
                     \/ /\ ~IsOf(q[j], tag, boot)
                        /\ \E i \in 1..Len(hello) : hello[i] = q[j]
<1> DEFINE q == Noted(tag, boot, rev)
           e == [tag |-> tag, boot |-> boot, rev |-> rev]
           n == Len(hello)
           (* every entry of another key is an entry of hello, in order *)
           Rest(o) == /\ o \in Seq(Hellos)
                      /\ \A j \in 1..Len(o) : ~IsOf(o[j], tag, boot)
                      /\ \A j \in 1..Len(o) : \E i \in 1..n : hello[i] = o[j]
                      /\ Once(o)
           others == IF Greeted(tag, boot) THEN RemoveAt(hello, PlaceOf(tag, boot))
                     ELSE hello
           all == Append(others, e)
<1>1. /\ n \in Nat /\ DOMAIN hello = 1..n /\ (\A i \in 1..n : hello[i] \in Hellos)
      /\ e \in Hellos /\ HelloMemory \in Nat /\ HelloMemory >= 1
  <2>1. n \in Nat /\ DOMAIN hello = 1..n /\ (\A i \in 1..n : hello[i] \in Hellos)
    BY LenProperties, ElementOfSeq
  <2>2. e \in Hellos
    BY DEF Hellos
  <2>3. HelloMemory \in Nat /\ HelloMemory >= 1
    BY HubAssumption
  <2>4. QED
    BY <2>1, <2>2, <2>3
<1>2. Rest(others)
  <2>1. CASE ~Greeted(tag, boot)
    <3>1. \A j \in 1..n : ~IsOf(hello[j], tag, boot)
      BY <1>1, <2>1 DEF Greeted
    <3>2. others = hello
      BY <2>1
    <3> HIDE DEF others
    <3>3. QED
      BY <1>1, <3>1, <3>2
  <2>2. CASE Greeted(tag, boot)
    <3> DEFINE p == PlaceOf(tag, boot)
               a == SubSeq(hello, 1, p - 1)
               b == SubSeq(hello, p + 1, n)
               o == a \o b
    <3>1. p \in 1..n /\ IsOf(hello[p], tag, boot)
      BY <1>1, <2>2 DEF Greeted, PlaceOf
    <3>2. others = o
      BY <2>2 DEF RemoveAt
    <3> HIDE DEF p, others
    <3>3. /\ a \in Seq(Hellos) /\ Len(a) = p - 1
          /\ \A k \in 1..Len(a) : a[k] = hello[1 + k - 1]
      <4>1. 1 \in 1..(n + 1) /\ p - 1 \in 0..n
        BY <1>1, <3>1
      <4>2. /\ a \in Seq(Hellos) /\ Len(a) = IF 1 <= p - 1 THEN p - 1 - 1 + 1 ELSE 0
            /\ \A k \in 1..Len(a) : a[k] = hello[1 + k - 1]
        BY <4>1, Piece
      <4> HIDE DEF a
      <4>3. QED
        BY <1>1, <3>1, <4>2
    <3>4. /\ b \in Seq(Hellos) /\ Len(b) = n - p
          /\ \A k \in 1..Len(b) : b[k] = hello[p + 1 + k - 1]
      <4>1. p + 1 \in 1..(n + 1) /\ n \in 0..n
        BY <1>1, <3>1
      <4>2. /\ b \in Seq(Hellos) /\ Len(b) = IF p + 1 <= n THEN n - (p + 1) + 1 ELSE 0
            /\ \A k \in 1..Len(b) : b[k] = hello[p + 1 + k - 1]
        BY <4>1, Piece
      <4> HIDE DEF b, n
      <4>3. (IF p + 1 <= n THEN n - (p + 1) + 1 ELSE 0) = n - p
        BY <1>1, <3>1
      <4>4. QED
        BY <4>2, <4>3
    <3> HIDE DEF a, b
    <3>5. o \in Seq(Hellos) /\ Len(o) = n - 1
      <4>1. o \in Seq(Hellos) /\ Len(o) = Len(a) + Len(b)
        BY <3>3, <3>4, ConcatProperties
      <4> HIDE DEF o, n
      <4>2. (p - 1) + (n - p) = n - 1
        BY <1>1, <3>1
      <4>3. QED
        BY <3>3, <3>4, <4>1, <4>2
    <3> DEFINE at(k) == IF k < p THEN k ELSE k + 1
    <3>6. ASSUME NEW k \in 1..(n - 1)
          PROVE  at(k) \in 1..n /\ at(k) # p /\ o[k] = hello[at(k)]
      <4>1. CASE k < p
        <5>1. k \in 1..Len(a) /\ 1 + k - 1 = k
          BY <1>1, <3>1, <3>3, <4>1
        <5>2. o[k] = a[k]
          BY <3>3, <3>4, <5>1, ConcatProperties
        <5>3. a[k] = hello[k]
          BY <3>3, <5>1
        <5>4. at(k) = k /\ k \in 1..n /\ k # p
          BY <1>1, <3>1, <4>1
        <5>5. QED
          BY <5>2, <5>3, <5>4
      <4>2. CASE ~(k < p)
        <5>1. k - (p - 1) \in 1..(n - p) /\ p + 1 + (k - (p - 1)) - 1 = k + 1
          BY <1>1, <3>1, <4>2
        <5>2. o[k] = b[k - (p - 1)]
          <6>1. k \in 1..(Len(a) + Len(b)) /\ ~(k <= Len(a))
            BY <1>1, <3>1, <3>3, <3>4, <4>2
          <6>2. o[k] = b[k - Len(a)]
            BY <3>3, <3>4, <6>1, ConcatProperties
          <6>3. QED
            BY <3>3, <6>2
        <5>3. b[k - (p - 1)] = hello[k + 1]
          BY <3>4, <5>1
        <5>4. at(k) = k + 1 /\ k + 1 \in 1..n /\ k + 1 # p
          BY <1>1, <3>1, <4>2
        <5>5. QED
          BY <5>2, <5>3, <5>4
      <4>3. QED
        BY <4>1, <4>2
    <3>7. \A i, j \in 1..(n - 1) : at(i) = at(j) => i = j
      BY <1>1, <3>1
    <3> HIDE DEF at, o
    <3>8. \A i, j \in 1..n : IsOf(hello[i], hello[j].tag, hello[j].boot) => i = j
      BY DEF Once
    <3>9. \A k \in 1..(n - 1) : ~IsOf(o[k], tag, boot)
      <4> TAKE k \in 1..(n - 1)
      <4>1. at(k) \in 1..n /\ at(k) # p /\ o[k] = hello[at(k)]
        BY <3>6
      <4>2. ~IsOf(hello[at(k)], hello[p].tag, hello[p].boot)
        BY <3>1, <3>8, <4>1
      <4>3. QED
        BY <3>1, <4>1, <4>2 DEF IsOf
    <3>10. \A i, j \in 1..(n - 1) : IsOf(o[i], o[j].tag, o[j].boot) => i = j
      BY <3>6, <3>7, <3>8
    <3>11. Once(o)
      BY <3>5, <3>10 DEF Once
    <3>12. QED
      BY <3>2, <3>5, <3>6, <3>9, <3>11
  <2>3. QED
    BY <2>1, <2>2
<1>3. q = IF Len(all) > HelloMemory THEN Tail(all) ELSE all
  BY DEF Noted
<1> DEFINE m == Len(others)
<1> HIDE DEF others
<1>4. /\ m \in Nat /\ all \in Seq(Hellos) /\ Len(all) = m + 1 /\ all[m + 1] = e
      /\ \A j \in 1..m : all[j] = others[j]
  BY <1>1, <1>2, AppendProperties, LenProperties
<1> HIDE DEF all
<1>5. \A j \in 1..(m + 1) :
         \/ j = m + 1 /\ all[j] = e
         \/ /\ j \in 1..m /\ ~IsOf(all[j], tag, boot)
            /\ \E i \in 1..n : hello[i] = all[j]
  <2> TAKE j \in 1..(m + 1)
  <2>1. j = m + 1 \/ j \in 1..m
    BY <1>4
  <2>2. QED
    BY <1>2, <1>4, <2>1
<1>6. Once(all)
  <2> SUFFICES ASSUME NEW i \in 1..(m + 1), NEW j \in 1..(m + 1),
                      IsOf(all[i], all[j].tag, all[j].boot)
               PROVE  i = j
    BY <1>4 DEF Once
  <2>1. IsOf(e, tag, boot) /\ e.tag = tag /\ e.boot = boot
    BY DEF IsOf
  <2> HIDE DEF e, Rest
  <2>2. CASE i = m + 1 /\ j = m + 1
    BY <2>2
  <2>3. CASE i = m + 1 /\ j \in 1..m
    <3>1. ~IsOf(all[j], tag, boot)
      BY <1>4, <1>5, <2>3
    <3>2. all[j].tag = tag /\ all[j].boot = boot
      BY <1>4, <2>1, <2>3 DEF IsOf
    <3>3. QED
      BY <3>1, <3>2 DEF IsOf
  <2>4. CASE i \in 1..m /\ j = m + 1
    <3>1. ~IsOf(all[i], tag, boot)
      BY <1>4, <1>5, <2>4
    <3>2. QED
      BY <1>4, <2>1, <2>4, <3>1
  <2>5. CASE i \in 1..m /\ j \in 1..m
    <3>1. \A k, l \in 1..m : IsOf(others[k], others[l].tag, others[l].boot) => k = l
      BY <1>2 DEF Rest, Once
    <3>2. QED
      BY <1>4, <2>5, <3>1
  <2>6. i = m + 1 \/ i \in 1..m
    BY <1>4
  <2>7. j = m + 1 \/ j \in 1..m
    BY <1>4
  <2>8. QED
    BY <2>2, <2>3, <2>4, <2>5, <2>6, <2>7
<1> HIDE DEF q, e
<1>7. CASE ~(m + 1 > HelloMemory)
  <2>1. q = all
    BY <1>3, <1>4, <1>7
  <2>2. m + 1 \in 1..(m + 1)
    BY <1>4
  <2>3. QED
    BY <1>4, <1>5, <1>6, <2>1, <2>2 DEF q, e
<1>8. CASE m + 1 > HelloMemory
  <2>1. q = Tail(all) /\ all # << >> /\ 1 <= m
    BY <1>1, <1>3, <1>4, <1>8, EmptySeq
  <2>2. q \in Seq(Hellos) /\ Len(q) = m /\ \A j \in 1..m : q[j] = all[j + 1]
    BY <1>4, <2>1, HeadTailProperties
  <2>3. \A j \in 1..m : j + 1 \in 1..(m + 1)
    BY <1>4
  <2>4. m \in 1..m
    BY <1>4, <2>1
  <2>5. Once(q)
    <3> SUFFICES ASSUME NEW i \in 1..m, NEW j \in 1..m, IsOf(q[i], q[j].tag, q[j].boot)
                 PROVE  i = j
      BY <2>2 DEF Once
    <3>1. i + 1 \in 1..(m + 1) /\ j + 1 \in 1..(m + 1)
      BY <2>3
    <3>2. IsOf(all[i + 1], all[j + 1].tag, all[j + 1].boot)
      BY <2>2
    <3>3. i + 1 = j + 1
      BY <1>4, <1>6, <3>1, <3>2 DEF Once
    <3>4. QED
      BY <3>3
  <2>6. q[m] = e
    BY <1>4, <2>2, <2>4
  <2>7. \A j \in 1..m : \/ q[j] = e
                        \/ ~IsOf(q[j], tag, boot) /\ \E i \in 1..n : hello[i] = q[j]
    BY <1>5, <2>2, <2>3
  <2>8. QED
    BY <2>2, <2>4, <2>5, <2>6, <2>7 DEF q, e
<1>9. QED
  BY <1>4, <1>7, <1>8

(* What is known of a boot is what its one entry says. *)
LEMMA KnownOfEntry ==
    ASSUME hello \in Seq(Hellos), Once(hello), NEW i \in 1..Len(hello)
    PROVE  /\ Greeted(hello[i].tag, hello[i].boot)
           /\ KnownRev(hello[i].tag, hello[i].boot) = hello[i].rev
<1> DEFINE tag == hello[i].tag
           boot == hello[i].boot
<1>1. DOMAIN hello = 1..Len(hello) /\ IsOf(hello[i], tag, boot)
  BY LenProperties DEF IsOf
<1>2. Greeted(tag, boot)
  BY <1>1 DEF Greeted
<1>3. PlaceOf(tag, boot) \in 1..Len(hello) /\ IsOf(hello[PlaceOf(tag, boot)], tag, boot)
  BY <1>1, <1>2 DEF Greeted, PlaceOf
<1>4. PlaceOf(tag, boot) = i
  BY <1>3 DEF Once
<1>5. QED
  BY <1>2, <1>4 DEF KnownRev

(* The entry of a key that is greeted. *)
LEMMA EntryOf ==
    ASSUME hello \in Seq(Hellos), NEW tag, NEW boot, Greeted(tag, boot)
    PROVE  \E i \in 1..Len(hello) : IsOf(hello[i], tag, boot)
BY LenProperties DEF Greeted

(* A memory in which each entry of this key is an entry of the memory        *)
(* before: the key is known as before, or no more.                           *)
LEMMA KnownAsBefore ==
    ASSUME hello \in Seq(Hellos), Once(hello), hello' \in Seq(Hellos), Once(hello'),
           NEW tag, NEW boot,
           \A j \in 1..Len(hello') : IsOf(hello'[j], tag, boot) =>
              \E i \in 1..Len(hello) : hello[i] = hello'[j]
    PROVE  /\ Greeted(tag, boot)' => Greeted(tag, boot)
           /\ KnownRev(tag, boot)' # None => KnownRev(tag, boot)' = KnownRev(tag, boot)
<1>1. CASE ~Greeted(tag, boot)'
  BY <1>1 DEF KnownRev
<1>2. CASE Greeted(tag, boot)'
  <2>1. PICK j \in 1..Len(hello') : IsOf(hello'[j], tag, boot)
    BY <1>2, LenProperties DEF Greeted
  <2>2. PICK i \in 1..Len(hello) : hello[i] = hello'[j]
    BY <2>1
  <2>3. IsOf(hello[i], tag, boot) /\ hello[i].tag = tag /\ hello[i].boot = boot
    BY <2>1, <2>2 DEF IsOf
  <2>4. Greeted(tag, boot) /\ KnownRev(tag, boot) = hello[i].rev
    BY <2>3, KnownOfEntry
  <2>5. /\ PlaceOf(tag, boot)' \in 1..Len(hello')
        /\ IsOf(hello'[PlaceOf(tag, boot)'], tag, boot)
    BY <1>2, LenProperties DEF Greeted, PlaceOf
  <2>6. PlaceOf(tag, boot)' = j
    BY <2>1, <2>5 DEF Once, IsOf
  <2>7. KnownRev(tag, boot)' = hello'[j].rev
    BY <1>2, <2>6 DEF KnownRev
  <2>8. QED
    BY <2>2, <2>4, <2>7
<1>3. QED
  BY <1>1, <1>2

(* note_hello: the memory and the session of the boot learn the same. *)
LEMMA NoteHelloKeeps ==
    ASSUME HubInv, NEW tag \in Tags, NEW boot \in Boots, NEW given \in Revs \cup {None},
           NoteHello(tag, boot, given)
    PROVE  HubInv' /\ (AllContinue => AllContinue') /\ AllKept
<1> DEFINE rev == IF given = None THEN KnownRev(tag, boot) ELSE given
           e == [tag |-> tag, boot |-> boot, rev |-> rev]
           s == sessions[tag]
           new == [s EXCEPT !.sid = boot, !.rev = IF rev # None THEN rev ELSE @]
           frames == IF new.rev # s.rev /\ s.active THEN <<StartFrame(new)>>
                     ELSE IF new # s /\ ~s.active THEN <<InfoFrame(new)>>
                     ELSE << >>
           mine == s # None /\ s.boot = boot
<1>1. HubTypes /\ AllKnow /\ Once(hello) /\ hello \in Seq(Hellos)
  BY DEF HubInv, HubTypes
<1>2. /\ hello' = Noted(tag, boot, rev) /\ ended' = ended /\ watching' = watching
      /\ ~mine => sessions' = sessions /\ pages' = pages
      /\ mine => /\ sessions' = [sessions EXCEPT ![tag] = new]
                 /\ Broadcast(Only(tag, frames))
  BY DEF NoteHello
<1>3. rev \in Revs \cup {None} /\ boot # None
  BY <1>1, KnownRevType, HubAssumption
<1>4. s \in Sound \cup {None} /\ (s # None => s \in Sessions /\ s \in Sound)
  BY <1>1, SoundType DEF HubTypes, Buffers
<1> HIDE DEF rev
<1>5. mine => /\ new \in Sound /\ SameBuffer(s, new) /\ new.boot = boot /\ s.boot = boot
              /\ new.active = s.active /\ new.sid = boot
              /\ new.rev = IF rev # None THEN rev ELSE s.rev
              /\ s # None /\ new # None
  <2> SUFFICES ASSUME mine
               PROVE  /\ new \in Sound /\ SameBuffer(s, new) /\ new.boot = boot
                      /\ s.boot = boot /\ new.active = s.active /\ new.sid = boot
                      /\ new.rev = IF rev # None THEN rev ELSE s.rev
                      /\ s # None /\ new # None
    OBVIOUS
  <2>1. s \in Sessions /\ s \in Sound /\ s # None /\ s.boot = boot
    BY <1>4
  <2> HIDE DEF s
  <2>2. /\ new \in Sessions /\ SameBuffer(s, new) /\ new.boot = boot
        /\ new.active = s.active /\ new.sid = boot
        /\ new.rev = IF rev # None THEN rev ELSE s.rev
    BY <1>3, <2>1 DEF Sessions, SameBuffer
  <2> HIDE DEF new
  <2>3. new \in Sound
    BY <2>1, <2>2, SameBufferSound
  <2>4. QED
    BY <2>1, <2>2, <2>3, NotNone
<1>6. /\ hello' \in Seq(Hellos) /\ Once(hello')
      /\ \E j \in 1..Len(hello') : hello'[j] = e
      /\ \A j \in 1..Len(hello') :
            \/ hello'[j] = e
            \/ /\ ~IsOf(hello'[j], tag, boot)
               /\ \E i \in 1..Len(hello) : hello[i] = hello'[j]
  BY <1>1, <1>2, <1>3, NotedProperties
<1>7. AllKept /\ (mine => \A t \in Tags : sessions'[t] = IF t = tag THEN new ELSE sessions[t])
  <2>1. CASE ~mine
    BY <1>2, <2>1, NoSessionChange
  <2>2. CASE mine
    <3> HIDE DEF new
    <3>1. \A t \in Tags : sessions'[t] = IF t = tag THEN new ELSE sessions[t]
      BY <1>1, <1>2, <2>2 DEF HubTypes, Buffers
    <3>2. \A t \in Tags : Kept(sessions[t], sessions[t])
      BY <1>1 DEF HubTypes, Buffers, Kept
    <3>3. Kept(s, new)
      BY <1>5, <2>2 DEF Kept, SameBuffer
    <3>4. QED
      BY <3>1, <3>2, <3>3 DEF AllKept
  <2>3. QED
    BY <2>1, <2>2
<1>8. sessions' \in [Tags -> Sessions \cup {None}]
  <2>1. \A t \in Tags : sessions[t] \in Sessions \cup {None}
    BY <1>1, SoundType DEF HubTypes, Buffers
  <2>2. sessions \in [Tags -> Sessions \cup {None}]
    BY <1>1, <2>1 DEF HubTypes, Buffers
  <2> HIDE DEF new
  <2>3. mine => new \in Sessions
    BY <1>5, SoundType
  <2>4. QED
    BY <1>2, <2>2, <2>3
<1>9. sessions' \in Buffers /\ Limits(sessions')
  BY <1>1, <1>2, <1>7, <1>8, KeptInv DEF HubTypes
<1> HIDE DEF e
<1>10. AllGreeted'
  <2> SUFFICES ASSUME NEW t \in Tags, sessions'[t] # None
               PROVE  Greets(t, sessions[t])'
    BY DEF AllGreeted
  <2>1. CASE t = tag /\ mine
    <3>1. sessions'[t] = new
      BY <1>7, <2>1
    <3>2. PICK j \in 1..Len(hello') : hello'[j] = e
      BY <1>6
    <3>3. hello'[j].tag = tag /\ hello'[j].boot = boot /\ hello'[j].rev = rev
      BY <3>2 DEF e
    <3>4. IsOf(hello'[j], tag, boot)
      BY <3>3 DEF IsOf
    <3>5. Greeted(tag, boot)' /\ DOMAIN hello' = 1..Len(hello')
      BY <1>6, <3>4, LenProperties DEF Greeted
    <3>6. /\ PlaceOf(tag, boot)' \in 1..Len(hello')
          /\ IsOf(hello'[PlaceOf(tag, boot)'], tag, boot)
      BY <3>5 DEF Greeted, PlaceOf
    <3>7. PlaceOf(tag, boot)' = j
      BY <1>6, <3>3, <3>6 DEF Once
    <3>8. KnownRev(tag, boot)' = rev
      BY <3>3, <3>5, <3>7 DEF KnownRev
    <3>9. new.boot = boot /\ new.sid = boot /\ (rev # None => new.rev = rev)
      BY <1>5, <2>1
    <3> HIDE DEF new, mine, s
    <3>10. QED
      BY <1>3, <2>1, <3>1, <3>8, <3>9 DEF Greets
  <2>2. CASE ~(t = tag /\ mine)
    <3>1. sessions'[t] = sessions[t] /\ sessions[t] # None
      BY <1>2, <1>7, <2>2
    <3>2. ~(t = tag /\ sessions[t].boot = boot)
      BY <2>2, <3>1
    <3>0. PICK b : b = sessions[t].boot
      OBVIOUS
    <3>3. ASSUME NEW j \in 1..Len(hello'), IsOf(hello'[j], t, b)
          PROVE  \E i \in 1..Len(hello) : hello[i] = hello'[j]
      <4>1. hello'[j] # e
        BY <3>0, <3>2, <3>3 DEF IsOf, e
      <4>2. QED
        BY <1>6, <4>1
    <3>4. /\ Greeted(t, b)' => Greeted(t, b)
          /\ KnownRev(t, b)' # None => KnownRev(t, b)' = KnownRev(t, b)
      BY <1>1, <1>6, <3>3, KnownAsBefore
    <3>5. Greets(t, sessions[t])
      BY <3>1 DEF HubInv, AllGreeted
    <3>6. b = sessions[t].boot /\ b = sessions'[t].boot
      BY <3>0, <3>1
    <3>7. QED
      BY <3>1, <3>4, <3>5, <3>6 DEF Greets
  <2>3. QED
    BY <2>1, <2>2
<1>11. pages' \in [Subs -> Pages] /\ AllKnow' /\ (AllContinue => AllContinue')
  <2>1. CASE ~mine
    BY <1>1, <1>2, <2>1 DEF HubTypes, AllKnow, AllContinue
  <2>2. CASE mine
    <3> DEFINE out == Only(tag, frames)
               work == [t \in Tags |-> IF t = tag
                                       THEN [s |-> new, ended |-> ended[t], out |-> frames]
                                       ELSE Before(t)]
    <3>1. /\ frames \in {<< >>, <<StartFrame(new)>>, <<InfoFrame(new)>>}
          /\ frames = << >> => new.rev = s.rev
          /\ frames = <<StartFrame(new)>> => new.active
          /\ frames = <<InfoFrame(new)>> => new.rev # None \/ new.rev = s.rev
      <4>1. << >> # <<StartFrame(new)>> /\ << >> # <<InfoFrame(new)>>
        OBVIOUS
      <4>2. <<InfoFrame(new)>> # <<StartFrame(new)>>
        <5>1. InfoFrame(new).type = "session_info" /\ StartFrame(new).type = "session_start"
          BY DEF InfoFrame, StartFrame
        <5>2. InfoFrame(new) # StartFrame(new)
          BY <5>1
        <5>3. QED
          BY <5>2
      <4>3. /\ new.active = s.active
            /\ new.rev = IF rev # None THEN rev ELSE s.rev
        BY <1>5, <2>2
      <4>4. frames = IF new.rev # s.rev /\ s.active THEN <<StartFrame(new)>>
                     ELSE IF new # s /\ ~s.active THEN <<InfoFrame(new)>>
                     ELSE << >>
        OBVIOUS
      <4>5. s.active \in BOOLEAN /\ (new = s => new.rev = s.rev)
        BY <1>4, <2>2, SessionType
      <4> HIDE DEF frames, new, s
      <4>6. frames \in {<< >>, <<StartFrame(new)>>, <<InfoFrame(new)>>}
        BY <4>4
      <4>7. frames = << >> => new.rev = s.rev
        BY <4>1, <4>4, <4>5
      <4>8. frames = <<StartFrame(new)>> => new.active
        BY <4>1, <4>2, <4>3, <4>4
      <4>9. frames = <<InfoFrame(new)>> => new.rev # None \/ new.rev = s.rev
        BY <4>3
      <4>10. QED
        BY <4>6, <4>7, <4>8, <4>9
    <3> HIDE DEF frames, new
    <3>2. /\ [s |-> new, ended |-> ended[tag], out |-> frames] \in Works
          /\ frames \in Seq(Frames)
          /\ Carries(Before(tag), [s |-> new, ended |-> ended[tag], out |-> frames])
      BY <1>1, <1>5, <2>2, <3>1, Retold
    <3>3. \A t \in Tags : Before(t) \in Works /\ Carries(Before(t), Before(t))
      BY <1>1, BeforeType DEF Carries
    <3>4. work \in [Tags -> Works] /\ \A t \in Tags : Carries(Before(t), work[t])
      BY <3>2, <3>3
    <3>5. << >> \in Seq(Frames)
      BY EmptySeq
    <3>6. out \in [Tags -> Seq(Frames)] /\ \A t \in Tags : out[t] = work[t].out
      BY <3>2, <3>5 DEF Only, Before
    <3>7. \A t \in Tags : sessions'[t] = work[t].s
      BY <1>7, <2>2 DEF Before
    <3> HIDE DEF work, out
    <3>8. Broadcast(out)
      BY <1>2, <2>2 DEF out, frames
    <3>9. QED
      BY <1>1, <1>2, <3>4, <3>6, <3>7, <3>8, Delivered
  <2>3. QED
    BY <2>1, <2>2
<1>12. HubTypes'
  BY <1>1, <1>2, <1>6, <1>9, <1>11 DEF HubTypes
<1>13. QED
  BY <1>6, <1>7, <1>9, <1>10, <1>11, <1>12 DEF HubInv

-----------------------------------------------------------------------------
(* publish *)

(* Its stages: the session that takes the packet, with the cycles of the     *)
(* packet, within its own limits; then all sessions within the total limit;  *)
(* then the session ended by its tag or not.                                 *)
OpenedBy(p) == Opened(Before(p.tag), p.tag, p.boot)
FilledBy(p) == FoldLeft(Absorb, OpenedBy(p).s, p.cycles)
TrimmedBy(p) == [Trim(FilledBy(p)) EXCEPT !.age = 0]
StoredBy(p) == [sessions EXCEPT ![p.tag] = TrimmedBy(p)]
LimitedBy(p) == Limited(StoredBy(p))
DoneBy(p) == [OpenedBy(p) EXCEPT !.s = LimitedBy(p)[p.tag]]
FinalBy(p) == IF p.last THEN End(DoneBy(p), "tag_end") ELSE DoneBy(p)

(* publish is these stages. *)
LEMMA PublishStages ==
    ASSUME NEW p \in Packets, Publish(p)
    PROVE  /\ sessions' = [LimitedBy(p) EXCEPT ![p.tag] = FinalBy(p).s]
           /\ ended' = [ended EXCEPT ![p.tag] = FinalBy(p).ended]
           /\ Broadcast(Only(p.tag, FinalBy(p).out))
           /\ hello' = hello /\ watching' = watching
           /\ p.boot \notin ToSet(ended[p.tag])
BY DEF Publish, Refused, Before, OpenedBy, FilledBy, TrimmedBy, StoredBy, LimitedBy,
       DoneBy, FinalBy

(* The fields of a packet. *)
LEMMA PacketType ==
    ASSUME NEW p \in Packets
    PROVE  /\ p.tag \in Tags /\ p.boot \in Boots /\ p.last \in BOOLEAN
           /\ p.cycles \in Seq(RawCycles)
BY HubAssumption

(* The session that takes the packet is one of the packet's boot, runs, and *)
(* has the buffer it had, or an empty one.                                  *)
LEMMA OpenedByProperties ==
    ASSUME HubInv, NEW p \in Packets
    PROVE  LET s == sessions[p.tag]
               r == OpenedBy(p)
           IN  /\ r \in Works /\ r.s \in Sound /\ r.s.boot = p.boot /\ r.s.active
               /\ Greets(p.tag, r.s) /\ Carries(Before(p.tag), r)
               /\ r.ended = IF s # None /\ s.boot # p.boot
                            THEN Remember(ended[p.tag], s.boot) ELSE ended[p.tag]
               /\ IF s # None /\ s.boot = p.boot
                  THEN SameBuffer(s, r.s)
                  ELSE r.s.cycles = << >> /\ r.s.ranges = 0 /\ r.s.last = None
<1> DEFINE b == Before(p.tag)
<1>1. /\ p.tag \in Tags /\ p.boot \in Boots /\ hello \in Seq(Hellos) /\ HubTypes
  BY PacketType DEF HubInv, HubTypes
<1>2. b \in Works /\ b.s = sessions[p.tag] /\ b.ended = ended[p.tag]
  BY <1>1, BeforeType DEF Before
<1>3. b.s # None => Greets(p.tag, b.s)
  BY <1>1, <1>2 DEF HubInv, AllGreeted
<1> HIDE DEF b
<1>4. LET r == Opened(b, p.tag, p.boot)
      IN  /\ r \in Works /\ r.s \in Sound /\ r.s.boot = p.boot /\ r.s.active
          /\ Greets(p.tag, r.s) /\ Carries(b, r)
          /\ r.ended = IF b.s # None /\ b.s.boot # p.boot
                       THEN Remember(b.ended, b.s.boot) ELSE b.ended
          /\ IF b.s # None /\ b.s.boot = p.boot
             THEN SameBuffer(b.s, r.s)
             ELSE r.s.cycles = << >> /\ r.s.ranges = 0 /\ r.s.last = None
  BY <1>1, <1>2, <1>3, OpenedCarries
<1>5. OpenedBy(p) = Opened(b, p.tag, p.boot)
  BY DEF OpenedBy, b
<1>6. QED
  BY <1>2, <1>4, <1>5 DEF b

(* The buffer after the packet: grown by its cycles, then shortened. *)
LEMMA TrimmedByProperties ==
    ASSUME HubInv, NEW p \in Packets
    PROVE  LET o == OpenedBy(p).s
               f == FilledBy(p)
               r == TrimmedBy(p)
           IN  /\ f \in Sound /\ SameSession(o, f) /\ Grown(o, f) /\ Later(o, f)
               /\ Trim(f) \in Sound /\ Shrunk(f, Trim(f)) /\ (Fits(f) => Trim(f) = f)
               /\ r \in Sound /\ SameBuffer(Trim(f), r) /\ Fits(r)
               /\ r.boot = o.boot /\ r.sid = o.sid /\ r.rev = o.rev /\ r.active = o.active
<1> DEFINE o == OpenedBy(p).s
           f == FilledBy(p)
           t == Trim(f)
           r == TrimmedBy(p)
<1>1. o \in Sound /\ p.cycles \in Seq(RawCycles)
  BY OpenedByProperties, PacketType
<1>2. f = FoldLeft(Absorb, o, p.cycles)
  BY DEF FilledBy
<1> HIDE DEF o, f
<1>3. f \in Sound /\ SameSession(o, f) /\ Grown(o, f) /\ Later(o, f)
  BY <1>1, <1>2, FilledSound
<1>4. t \in Sound /\ Shrunk(f, t) /\ Fits(t) /\ (Fits(f) => t = f)
  BY <1>3, TrimSound
<1>5. r = [t EXCEPT !.age = 0]
  BY DEF TrimmedBy, f
<1> HIDE DEF t, r
<1>6. t \in Sessions
  BY <1>4, SoundType
<1>7. /\ r \in Sessions /\ SameBuffer(t, r) /\ r.boot = t.boot /\ r.sid = t.sid
      /\ r.rev = t.rev /\ r.active = t.active
  BY <1>5, <1>6 DEF Sessions, SameBuffer
<1>8. r \in Sound /\ Fits(r)
  BY <1>4, <1>7, SameBufferSound DEF SameBuffer, Fits, Fresh
<1>9. /\ r.boot = o.boot /\ r.sid = o.sid /\ r.rev = o.rev /\ r.active = o.active
  BY <1>3, <1>4, <1>7 DEF Shrunk, SameSession
<1>10. QED
  BY <1>3, <1>4, <1>7, <1>8, <1>9 DEF o, f, t, r

(* All sessions after the total limit. *)
LEMMA LimitedByProperties ==
    ASSUME HubInv, NEW p \in Packets
    PROVE  LET all == LimitedBy(p)
           IN  /\ StoredBy(p) \in Buffers /\ all \in Buffers
               /\ \A t \in Tags :
                     StoredBy(p)[t] = IF t = p.tag THEN TrimmedBy(p) ELSE sessions[t]
               /\ Reduced(StoredBy(p), all)
               /\ all[p.tag] \in Sound /\ Shrunk(TrimmedBy(p), all[p.tag])
               /\ \A t \in Tags : t # p.tag =>
                     IF sessions[t] = None THEN all[t] = None
                     ELSE all[t] \in Sound /\ Shrunk(sessions[t], all[t])
               /\ Limits(all)
               /\ TotalRanges(StoredBy(p)) <= MaxTotal => all = StoredBy(p)
<1> DEFINE all == LimitedBy(p)
           tag == p.tag
           old == StoredBy(p)
<1>1. tag \in Tags /\ sessions \in Buffers /\ TrimmedBy(p) \in Sound /\ Limits(sessions)
  BY PacketType, TrimmedByProperties DEF HubInv, HubTypes
<1>2. /\ old \in Buffers
      /\ \A t \in Tags : old[t] = IF t = tag THEN TrimmedBy(p) ELSE sessions[t]
  BY <1>1 DEF StoredBy, Buffers
<1>3. all = Limited(old)
  BY DEF LimitedBy
<1> HIDE DEF all, tag, old
<1>4. /\ all \in Buffers /\ Reduced(old, all) /\ TotalRanges(all) <= MaxTotal
      /\ TotalRanges(old) <= MaxTotal => all = old
  BY <1>2, <1>3, LimitedSound
<1>5. /\ \A t \in Tags : old[t] = None => all[t] = None
      /\ \A t \in Tags : old[t] # None => all[t] \in Sound /\ Shrunk(old[t], all[t])
  BY <1>4 DEF Reduced
<1>6. TrimmedBy(p) # None /\ Fits(TrimmedBy(p))
  BY <1>1, NotNone, TrimmedByProperties
<1>7. ASSUME NEW t \in Tags, all[t] # None PROVE Sized(all[t])
  <2>1. old[t] # None /\ all[t] \in Sound /\ Shrunk(old[t], all[t])
    BY <1>5, <1>7
  <2>2. Sized(old[t])
    BY <1>1, <1>2, <1>6, <2>1 DEF Limits, Sized, Fits
  <2>3. old[t] \in Sound
    BY <1>2, <2>1 DEF Buffers
  <2>4. /\ Len(all[t].cycles) <= Len(old[t].cycles) /\ all[t].ranges <= old[t].ranges
    BY <2>1 DEF Shrunk, Ends
  <2>5. /\ Len(all[t].cycles) \in Nat /\ Len(old[t].cycles) \in Nat
        /\ all[t].ranges \in Nat /\ old[t].ranges \in Nat
        /\ MaxCycles \in Nat /\ MaxRanges \in Nat
    BY <2>1, <2>3, SoundType, HubAssumption
  <2>6. QED
    BY <2>2, <2>4, <2>5 DEF Sized
<1>8. Limits(all)
  BY <1>4, <1>7 DEF Limits
<1>9. all[tag] \in Sound /\ Shrunk(TrimmedBy(p), all[tag])
  BY <1>1, <1>2, <1>5, <1>6
<1>10. \A t \in Tags : t # tag =>
          IF sessions[t] = None THEN all[t] = None
          ELSE all[t] \in Sound /\ Shrunk(sessions[t], all[t])
  BY <1>2, <1>5
<1>11. QED
  BY <1>2, <1>4, <1>8, <1>9, <1>10 DEF all, tag, old

(* A session with as much or less in its buffer: no page needs to be told. *)
LEMMA ShrunkCarries ==
    ASSUME NEW w \in Works, w.s \in Sound, NEW r \in Sound, Shrunk(w.s, r)
    PROVE  LET v == [w EXCEPT !.s = r]
           IN  v \in Works /\ v.s = r /\ v.ended = w.ended /\ v.out = w.out /\ Carries(w, v)
<1> DEFINE v == [w EXCEPT !.s = r]
<1>1. v \in Works /\ v.s = r /\ v.ended = w.ended /\ v.out = w.out
  BY DEF Works
<1> HIDE DEF v
<1>2. ASSUME NEW p \in Pages, Abreast(p, w)
      PROVE  Abreast(p, v) /\ (InStep(p, w) => InStep(p, v))
  <2>1. Told(p, w.out) \in Pages
    BY WorkType, ToldProperties
  <2>2. Knows(Told(p, w.out), r)
    BY <1>2, NotNone DEF Abreast, Knows, Shrunk, SameSession
  <2>3. Continues(Told(p, w.out), w.s) => Continues(Told(p, w.out), r)
    BY <2>1, ContinuesShrunk
  <2>4. QED
    BY <1>1, <2>2, <2>3 DEF Abreast, InStep
<1>3. QED
  BY <1>1, <1>2 DEF Carries, v

(* The work on the tag of the packet, as one stage. *)
LEMMA FinalByProperties ==
    ASSUME HubInv, NEW p \in Packets
    PROVE  LET r == FinalBy(p)
               s == LimitedBy(p)[p.tag]
           IN  /\ r \in Works /\ Carries(Before(p.tag), r)
               /\ r.s \in Sound /\ r.s.boot = p.boot
               /\ r.s.sid = s.sid /\ r.s.rev = s.rev /\ r.s.cycles = s.cycles
               /\ r.s.last = s.last /\ r.s.ranges = s.ranges
               /\ r.s.age = 0 /\ r.s.active = ~p.last
               /\ Greets(p.tag, r.s)
               /\ r.ended = IF p.last THEN Remember(OpenedBy(p).ended, p.boot)
                            ELSE OpenedBy(p).ended
<1> DEFINE b == Before(p.tag)
           o == OpenedBy(p)
           f == FilledBy(p)
           y == TrimmedBy(p)
           s == LimitedBy(p)[p.tag]
           g == [o EXCEPT !.s = f]
           d == DoneBy(p)
           r == FinalBy(p)
<1>1. /\ o \in Works /\ o.s \in Sound /\ o.s.boot = p.boot /\ Greets(p.tag, o.s)
      /\ o.s.active /\ Carries(b, o)
  BY OpenedByProperties
<1>2. /\ f \in Sound /\ SameSession(o.s, f) /\ Grown(o.s, f) /\ Later(o.s, f)
      /\ Trim(f) \in Sound /\ Shrunk(f, Trim(f))
      /\ y \in Sound /\ SameBuffer(Trim(f), y)
      /\ y.boot = o.s.boot /\ y.sid = o.s.sid /\ y.rev = o.s.rev /\ y.active = o.s.active
  BY TrimmedByProperties
<1>3. y.age = 0
  <2> DEFINE t == Trim(f)
  <2>1. t \in Sessions
    BY <1>2, SoundType
  <2>2. y = [t EXCEPT !.age = 0]
    BY DEF TrimmedBy
  <2> HIDE DEF t, y
  <2>3. QED
    BY <2>1, <2>2 DEF Sessions
<1>4. s \in Sound /\ Shrunk(y, s)
  BY LimitedByProperties
<1>5. d = [o EXCEPT !.s = s]
  BY DEF DoneBy
<1> HIDE DEF b, o, f, y, s, d
<1>6. d \in Works /\ d.s = s /\ d.ended = o.ended /\ d.out = o.out
  BY <1>1, <1>4, <1>5 DEF Works
<1>7. s.boot = y.boot /\ s.sid = y.sid /\ s.rev = y.rev /\ s.active = y.active
      /\ s.age = y.age
  BY <1>4 DEF Shrunk, SameSession
<1>8. ASSUME NEW q \in Pages, Abreast(q, o)
      PROVE  Abreast(q, d) /\ (InStep(q, o) => InStep(q, d))
  <2> DEFINE z == Told(q, o.out)
  <2>1. z \in Pages /\ Knows(z, o.s)
    BY <1>1, <1>8, WorkType, ToldProperties DEF Abreast
  <2> HIDE DEF z
  <2>2. Knows(z, s)
    BY <1>1, <1>2, <1>4, <1>7, <2>1, NotNone DEF Knows
  <2>3. ASSUME Continues(z, o.s) PROVE Continues(z, s)
    <3>1. Continues(z, f)
      BY <1>1, <1>2, <2>1, <2>3, ContinuesGrown
    <3>2. Continues(z, Trim(f))
      BY <1>2, <2>1, <3>1, ContinuesShrunk
    <3>3. Continues(z, y)
      <4> DEFINE t == Trim(f)
      <4>1. t # None /\ y # None /\ SameBuffer(t, y) /\ Continues(z, t)
        BY <1>2, <3>2, NotNone
      <4> HIDE DEF t
      <4>2. QED
        BY <4>1, ContinuesSameBuffer
    <3>4. QED
      BY <1>2, <1>4, <2>1, <3>3, ContinuesShrunk
  <2>4. QED
    BY <1>6, <2>2, <2>3 DEF Abreast, InStep, z
<1>9. Carries(b, d)
  <2>1. Carries(o, d)
    BY <1>8 DEF Carries
  <2>2. QED
    BY <1>1, <2>1, CarriesTransitive
<1>10. s.boot = p.boot /\ s.sid = o.s.sid /\ s.rev = o.s.rev
      /\ s.age = 0 /\ s.active
  BY <1>1, <1>2, <1>7, <1>3
<1>11. p.last \in BOOLEAN /\ s.active = TRUE
  BY <1>4, <1>10, PacketType, SoundType, SessionType
<1>12. CASE ~p.last
  <2>1. r = d
    BY <1>12 DEF FinalBy, d
  <2> HIDE DEF r
  <2>2. Greets(p.tag, s)
    BY <1>1, <1>10 DEF Greets
  <2>3. QED
    BY <1>4, <1>6, <1>9, <1>10, <1>12, <1>11, <2>1, <2>2 DEF r, s, b, o
<1>13. CASE p.last
  <2> DEFINE e == End(d, "tag_end")
  <2>1. r = e
    BY <1>13 DEF FinalBy, d
  <2>2. d.s # None
    BY <1>4, <1>6, NotNone
  <2>3. /\ e \in Works /\ e.s \in Sound
        /\ e.s.boot = d.s.boot /\ e.s.sid = d.s.sid /\ e.s.rev = d.s.rev
        /\ e.s.cycles = d.s.cycles /\ e.s.last = d.s.last /\ e.s.ranges = d.s.ranges
        /\ e.ended = Remember(d.ended, d.s.boot) /\ Carries(d, e)
        /\ ~e.s.active /\ e.s.age = d.s.age
    BY <1>6, <2>2, EndCarries
  <2> HIDE DEF r, e
  <2>4. Carries(b, e)
    BY <1>9, <2>3, CarriesTransitive
  <2>5. Greets(p.tag, e.s)
    BY <1>1, <1>6, <1>10, <2>3 DEF Greets
  <2>6. e.s.active = FALSE
    BY <2>3, SoundType, SessionType
  <2>7. QED
    BY <1>6, <1>10, <1>13, <1>11, <2>1, <2>3, <2>4, <2>5, <2>6 DEF r, s, b, o
<1>14. QED
  BY <1>12, <1>13, PacketType

(* publish keeps the invariant. *)
LEMMA PublishKeeps ==
    ASSUME HubInv, NEW p \in Packets, Publish(p)
    PROVE  HubInv' /\ (AllContinue => AllContinue')
<1> DEFINE tag == p.tag
           all == LimitedBy(p)
           r == FinalBy(p)
           out == Only(tag, r.out)
           work == [t \in Tags |-> IF t = tag THEN r ELSE [Before(t) EXCEPT !.s = all[t]]]
<1>1. /\ HubTypes /\ AllKnow /\ AllGreeted /\ Once(hello)
      /\ tag \in Tags /\ sessions \in Buffers
  BY PacketType DEF HubInv, HubTypes
<1>2. /\ sessions' = [all EXCEPT ![tag] = r.s] /\ ended' = [ended EXCEPT ![tag] = r.ended]
      /\ Broadcast(out) /\ hello' = hello /\ watching' = watching
  BY PublishStages
<1>3. /\ r \in Works /\ Carries(Before(tag), r) /\ r.s \in Sound /\ Greets(tag, r.s)
      /\ r.s.cycles = all[tag].cycles /\ r.s.ranges = all[tag].ranges
  BY FinalByProperties
<1>4. /\ all \in Buffers /\ Limits(all) /\ all[tag] \in Sound
      /\ \A t \in Tags : t # tag =>
            IF sessions[t] = None THEN all[t] = None
            ELSE all[t] \in Sound /\ Shrunk(sessions[t], all[t])
  BY LimitedByProperties
<1> HIDE DEF tag, all, r
<1>5. ASSUME NEW t \in Tags, t # tag
      PROVE  LET w == [Before(t) EXCEPT !.s = all[t]]
             IN  w \in Works /\ w.s = all[t] /\ w.out = << >> /\ Carries(Before(t), w)
  <2> DEFINE b == Before(t)
             w == [b EXCEPT !.s = all[t]]
  <2>1. b \in Works /\ b.s = sessions[t] /\ b.out = << >>
    BY <1>1, BeforeType DEF Before
  <2> HIDE DEF b
  <2>2. CASE sessions[t] = None
    <3>1. all[t] = None
      BY <1>4, <1>5, <2>2
    <3>2. w = b
      BY <2>1, <2>2, <3>1 DEF Works
    <3>3. Carries(b, b)
      BY DEF Carries
    <3>4. QED
      BY <2>1, <2>2, <3>1, <3>2, <3>3 DEF b
  <2>3. CASE sessions[t] # None
    <3>1. all[t] \in Sound /\ Shrunk(sessions[t], all[t]) /\ b.s \in Sound
      BY <1>1, <1>4, <1>5, <2>1, <2>3 DEF Buffers
    <3>2. w \in Works /\ w.s = all[t] /\ w.out = b.out /\ Carries(b, w)
      BY <2>1, <3>1, ShrunkCarries
    <3>3. QED
      BY <2>1, <3>2 DEF b
  <2>4. QED
    BY <2>2, <2>3
<1>6. work \in [Tags -> Works] /\ \A t \in Tags : Carries(Before(t), work[t])
  <2>1. \A t \in Tags : work[t] \in Works /\ Carries(Before(t), work[t])
    BY <1>3, <1>5
  <2>2. QED
    BY <2>1
<1>7. out \in [Tags -> Seq(Frames)] /\ \A t \in Tags : out[t] = work[t].out
  <2>1. r.out \in Seq(Frames) /\ << >> \in Seq(Frames)
    BY <1>3, WorkType, EmptySeq
  <2>2. \A t \in Tags : out[t] = IF t = tag THEN r.out ELSE << >>
    BY DEF Only
  <2>3. out \in [Tags -> Seq(Frames)]
    BY <2>1 DEF Only
  <2>4. QED
    BY <1>5, <2>2, <2>3
<1>8. \A t \in Tags : sessions'[t] = IF t = tag THEN r.s ELSE all[t]
  BY <1>2, <1>4 DEF Buffers
<1>9. \A t \in Tags : sessions'[t] = work[t].s
  BY <1>5, <1>8
<1> HIDE DEF work, out
<1>10. pages' \in [Subs -> Pages] /\ AllKnow' /\ (AllContinue => AllContinue')
  BY <1>1, <1>2, <1>6, <1>7, <1>9, Delivered
<1>11. sessions' \in Buffers /\ Limits(sessions')
  <2>1. sessions' \in Buffers
    BY <1>2, <1>3, <1>4 DEF Buffers
  <2>2. \A t \in Tags : /\ sessions'[t] = None <=> all[t] = None
                        /\ sessions'[t] # None => /\ sessions'[t].cycles = all[t].cycles
                                                  /\ sessions'[t].ranges = all[t].ranges
    BY <1>3, <1>4, <1>8, NotNone
  <2>3. RangesOf(sessions') = RangesOf(all)
    BY <2>2 DEF RangesOf
  <2>4. TotalRanges(sessions') = TotalRanges(all)
    BY <1>4, <2>1, <2>3, CountsType
  <2>5. QED
    BY <1>4, <2>1, <2>2, <2>4 DEF Limits, Sized
<1>12. ended' \in [Tags -> Seq(Boots)]
  BY <1>1, <1>2, <1>3, WorkType DEF HubTypes
<1>13. HubTypes'
  BY <1>1, <1>2, <1>10, <1>11, <1>12 DEF HubTypes
<1>14. AllGreeted'
  <2> SUFFICES ASSUME NEW t \in Tags, sessions'[t] # None
               PROVE  Greets(t, sessions[t])'
    BY DEF AllGreeted
  <2>1. Greets(t, sessions'[t])
    <3>1. CASE t = tag
      BY <1>3, <1>8, <3>1
    <3>2. CASE t # tag
      <4>1. /\ sessions[t] # None /\ sessions'[t] = all[t]
            /\ Shrunk(sessions[t], all[t]) /\ Greets(t, sessions[t])
        BY <1>1, <1>4, <1>8, <3>2 DEF AllGreeted
      <4>2. QED
        BY <4>1 DEF Greets, Shrunk, SameSession
    <3>3. QED
      BY <3>1, <3>2
  <2>2. QED
    BY <1>2, <2>1 DEF Greets, Greeted, KnownRev, PlaceOf
<1>15. QED
  BY <1>1, <1>2, <1>10, <1>11, <1>13, <1>14 DEF HubInv

-----------------------------------------------------------------------------
(* The invariant holds, and what follows from it *)

(* What a step does to the invariant, whichever handler runs. *)
LEMMA NextKeeps ==
    ASSUME HubInv, [Next]_vars
    PROVE  HubInv'
<1>1. CASE UNCHANGED vars
  BY <1>1 DEF vars, HubInv, HubTypes, Limits, Once, AllGreeted, Greets, Greeted, KnownRev,
              PlaceOf, AllKnow
<1>2. CASE \E p \in Packets : Publish(p)
  BY <1>2, PublishKeeps
<1>3. CASE \E p \in Packets : PublishStale(p)
  BY <1>1, <1>3 DEF PublishStale
<1>4. CASE \E tag \in Tags, boot \in Boots, rev \in Revs \cup {None} :
              NoteHello(tag, boot, rev)
  BY <1>4, NoteHelloKeeps
<1>5. CASE \E named \in SUBSET Tags : NoteSessions(named)
  BY <1>5, NoteSessionsKeeps
<1>6. CASE Elapse
  BY <1>6, ElapseKeeps
<1>7. CASE Tick
  BY <1>7, TickKeeps
<1>8. CASE \E u \in Subs : Unsubscribe(u)
  BY <1>8, UnsubscribeKeeps
<1>9. CASE \E u \in Subs, tag \in Tags : Subscribe(u, tag)
  BY <1>9, SubscribeKeeps
<1>10. QED
  BY <1>1, <1>2, <1>3, <1>4, <1>5, <1>6, <1>7, <1>8, <1>9 DEF Next

(* The hub's sessions, memories and pages have their types, the books of each *)
(* buffer balance within the limits, every session has what its hello said    *)
(* and every page knows its session, after any sequence of packets, hellos,   *)
(* commits, ticks and subscriptions.                                          *)
THEOREM HubInvariant == Spec => []HubInv
<1>1. Init => HubInv
  BY InitHubInv
<1>2. HubInv /\ [Next]_vars => HubInv'
  BY NextKeeps
<1>3. QED
  BY <1>1, <1>2, PTL DEF Spec

(* However a session changes, in publish, tick and note_hello, the pages that *)
(* watch it know its boot, if it runs and its configuration.                  *)
THEOREM PagesAgree == Spec => []PageAgrees
<1>1. HubInv => PageAgrees
  BY DEF HubInv, AllKnow, Knows, PageAgrees, Watched
<1>2. QED
  BY <1>1, HubInvariant, PTL

(* What a hello says reaches the session of its boot in whatever order hello, *)
(* first packet, commit and end come, and no later hello without config_rev   *)
(* takes it back.                                                             *)
THEOREM HellosReachSessions == Spec => []HelloReachesSession
<1>1. HubInv => HelloReachesSession
  BY DEF HubInv, AllGreeted, Greets, HelloReachesSession, Live
<1>2. QED
  BY <1>1, HubInvariant, PTL

(* The books of the ring buffers balance and no limit is exceeded, whatever   *)
(* packets come and however the buffers are trimmed.                          *)
THEOREM BuffersSound == Spec => []BufferSound
<1>1. HubInv => BufferSound
  <2> SUFFICES ASSUME HubInv PROVE BufferSound
    OBVIOUS
  <2>1. ASSUME NEW t \in Tags, Live(t)
        PROVE  /\ IsSuffix(sessions[t].pending, sessions[t].cycles)
               /\ sessions[t].ranges = RangeSum(sessions[t].cycles)
               /\ sessions[t].ranges <= MaxRanges
               /\ Len(sessions[t].cycles) <= MaxCycles
               /\ Ascending(sessions[t].cycles)
    <3> DEFINE s == sessions[t]
    <3>1. s \in Sound /\ Sized(s)
      BY <2>1 DEF Live, HubInv, HubTypes, Buffers, Limits
    <3> HIDE DEF s
    <3>2. /\ s.cycles \in Seq(Cycles) /\ s.pending \in Seq(Cycles) /\ Consistent(s)
      BY <3>1, SoundType
    <3>3. IsSuffix(s.pending, s.cycles)
      BY <3>2, SuffixByPlace DEF Consistent
    <3>4. QED
      BY <3>1, <3>2, <3>3 DEF Consistent, Sized, s
  <2>2. TotalRanges(sessions) <= MaxTotal
    BY DEF HubInv, Limits
  <2>3. QED
    BY <2>1, <2>2 DEF BufferSound
<1>2. QED
  BY <1>1, HubInvariant, PTL

(* A step that keeps the buffers keeps the boots and what is in the buffers.  *)
LEMMA KeptByAll ==
    ASSUME HubInv, [Next]_vars, ~\E p \in Packets : Publish(p)
    PROVE  AllKept
<1>1. CASE UNCHANGED vars
  BY <1>1, NoSessionChange DEF vars
<1>2. CASE \E p \in Packets : PublishStale(p)
  BY <1>1, <1>2 DEF PublishStale
<1>3. CASE \E tag \in Tags, boot \in Boots, rev \in Revs \cup {None} :
              NoteHello(tag, boot, rev)
  BY <1>3, NoteHelloKeeps
<1>4. CASE \E named \in SUBSET Tags : NoteSessions(named)
  BY <1>4, NoteSessionsKeeps
<1>5. CASE Elapse
  BY <1>5, ElapseKeeps
<1>6. CASE Tick
  BY <1>6, TickKeeps
<1>7. CASE \E u \in Subs : Unsubscribe(u)
  BY <1>7, UnsubscribeKeeps
<1>8. CASE \E u \in Subs, tag \in Tags : Subscribe(u, tag)
  BY <1>8, SubscribeKeeps
<1>9. QED
  BY <1>1, <1>2, <1>3, <1>4, <1>5, <1>6, <1>7, <1>8 DEF Next

(* What publish makes of each session. *)
LEMMA PublishedSessions ==
    ASSUME HubInv, NEW p \in Packets, Publish(p)
    PROVE  /\ sessions'[p.tag] = FinalBy(p).s
           /\ ended'[p.tag] = FinalBy(p).ended
           /\ \A t \in Tags : t # p.tag => sessions'[t] = LimitedBy(p)[t]
<1>1. /\ sessions' = [LimitedBy(p) EXCEPT ![p.tag] = FinalBy(p).s]
      /\ ended' = [ended EXCEPT ![p.tag] = FinalBy(p).ended]
  BY PublishStages
<1>2. LimitedBy(p) \in Buffers /\ ended \in [Tags -> Seq(Boots)] /\ p.tag \in Tags
  BY LimitedByProperties, PacketType DEF HubInv, HubTypes
<1>3. QED
  BY <1>1, <1>2 DEF Buffers

(* The memory q of ended boots holds the boot of a session exactly if its tag  *)
(* ended it.                                                                   *)
Recalls(q, s) == s # None => (s.boot \in ToSet(q) <=> EndedByTag(s))

AllRecalled == \A t \in Tags : Recalls(ended[t], sessions[t])

(* The session and its memory are, as far as ends go, what they were.          *)
SameEnds(t) ==
    /\ ended'[t] = ended[t]
    /\ sessions'[t] # None =>
         /\ sessions[t] # None /\ sessions'[t].boot = sessions[t].boot
         /\ EndedByTag(sessions'[t]) <=> EndedByTag(sessions[t])

(* The clock runs for the sessions that have not ended only.                   *)
LEMMA ElapseEnds ==
    ASSUME HubInv, Elapse, NEW t \in Tags
    PROVE  SameEnds(t)
<1> DEFINE s == sessions[t]
           r == [s EXCEPT !.age = @ + 1]
<1>1. /\ sessions'[t] = IF s # None /\ s.active /\ s.age < Timeout THEN r ELSE s
      /\ ended'[t] = ended[t]
  BY DEF Elapse
<1>2. CASE sessions'[t] = s
  BY <1>1, <1>2 DEF SameEnds
<1>3. CASE s # None /\ s.active /\ sessions'[t] = r
  <2>1. s \in Sessions
    BY <1>3, SoundType DEF HubInv, HubTypes, Buffers
  <2> HIDE DEF s
  <2>2. r.boot = s.boot /\ r.active = s.active
    BY <2>1 DEF Sessions
  <2> HIDE DEF r
  <2>3. ~EndedByTag(r) /\ ~EndedByTag(s)
    BY <1>3, <2>2 DEF EndedByTag
  <2>4. QED
    BY <1>1, <1>3, <2>2, <2>3 DEF SameEnds, s
<1>4. QED
  BY <1>1, <1>2, <1>3

(* tick ends only what timed out, which is not an end by the tag.              *)
LEMMA TickEnds ==
    ASSUME HubInv, Tick, NEW t \in Tags
    PROVE  SameEnds(t)
<1> DEFINE b == Before(t)
           f == Flushed(b)
           e == End(f, "timeout")
           w == Ticked(t)
<1>1. /\ sessions'[t] = w.s /\ ended'[t] = w.ended
      /\ b \in Works /\ b.s = sessions[t] /\ b.ended = ended[t]
  BY BeforeType DEF Tick, Before, HubInv
<1>2. w = IF b.s = None THEN b
          ELSE IF b.s.active /\ b.s.age >= Timeout THEN e ELSE f
  BY DEF Ticked, Before
<1> HIDE DEF b, w
<1>3. CASE b.s = None
  BY <1>1, <1>2, <1>3 DEF SameEnds
<1>4. CASE b.s # None
  <2>1. f \in Works /\ SameSession(b.s, f.s) /\ f.ended = b.ended /\ f.s # None
    BY <1>1, <1>4, FlushedCarries, NotNone
  <2>2. b.s \in Sessions
    BY <1>1, <1>4, WorkType, SoundType
  <2> HIDE DEF f
  <2>3. /\ e.s.boot = f.s.boot /\ e.s.age = f.s.age /\ ~e.s.active
        /\ e.ended = f.ended
    BY <2>1, EndCarries
  <2> HIDE DEF e
  <2>4. CASE b.s.active /\ b.s.age >= Timeout
    <3>1. w = e
      BY <1>2, <1>4, <2>4
    <3>2. b.s.age \in Nat /\ Timeout \in Nat
      BY <2>2, SessionType, HubAssumption
    <3>3. ~EndedByTag(b.s) /\ ~EndedByTag(e.s) /\ e.s.boot = b.s.boot
      BY <2>1, <2>3, <2>4, <3>2 DEF EndedByTag, SameSession
    <3>4. QED
      BY <1>1, <1>4, <2>1, <2>3, <3>1, <3>3 DEF SameEnds
  <2>5. CASE ~(b.s.active /\ b.s.age >= Timeout)
    <3>1. w = f
      BY <1>2, <1>4, <2>5
    <3>2. f.s.boot = b.s.boot /\ (EndedByTag(f.s) <=> EndedByTag(b.s))
      BY <2>1 DEF EndedByTag, SameSession
    <3>3. QED
      BY <1>1, <1>4, <2>1, <3>1, <3>2 DEF SameEnds
  <2>6. QED
    BY <2>4, <2>5
<1>5. QED
  BY <1>3, <1>4

(* What a hello or a commit says of a session ends nothing.                    *)
LEMMA NoteSessionsEnds ==
    ASSUME HubInv, NEW named \in SUBSET Tags, NoteSessions(named), NEW t \in Tags
    PROVE  SameEnds(t)
<1> DEFINE s == sessions[t]
           r == [s EXCEPT !.sid = s.boot]
<1>1. /\ sessions'[t] = IF Identified(t, named) THEN r ELSE s
      /\ ended'[t] = ended[t]
  BY DEF NoteSessions
<1>2. CASE ~Identified(t, named)
  BY <1>1, <1>2 DEF SameEnds
<1>3. CASE Identified(t, named)
  <2>1. s # None /\ s \in Sessions
    BY <1>3, SoundType DEF Identified, HubInv, HubTypes, Buffers
  <2> HIDE DEF s
  <2>2. r.boot = s.boot /\ r.active = s.active /\ r.age = s.age
    BY <2>1 DEF Sessions
  <2> HIDE DEF r
  <2>3. QED
    BY <1>1, <1>3, <2>1, <2>2 DEF SameEnds, EndedByTag, s
<1>4. QED
  BY <1>2, <1>3

LEMMA NoteHelloEnds ==
    ASSUME HubInv, NEW tag \in Tags, NEW boot \in Boots, NEW given \in Revs \cup {None},
           NoteHello(tag, boot, given), NEW t \in Tags
    PROVE  SameEnds(t)
<1> DEFINE rev == IF given = None THEN KnownRev(tag, boot) ELSE given
           s == sessions[tag]
           r == [s EXCEPT !.sid = boot, !.rev = IF rev # None THEN rev ELSE @]
<1>1. /\ ended' = ended
      /\ \/ sessions' = sessions
         \/ s # None /\ sessions' = [sessions EXCEPT ![tag] = r]
  BY DEF NoteHello
<1> HIDE DEF rev
<1>2. CASE sessions'[t] = sessions[t]
  BY <1>1, <1>2 DEF SameEnds
<1>3. CASE t = tag /\ s # None /\ sessions' = [sessions EXCEPT ![tag] = r]
  <2>1. s \in Sessions /\ sessions'[t] = r
    BY <1>3, SoundType DEF HubInv, HubTypes, Buffers
  <2> HIDE DEF s
  <2>2. r.boot = s.boot /\ r.active = s.active /\ r.age = s.age
    BY <2>1 DEF Sessions
  <2> HIDE DEF r
  <2>3. QED
    BY <1>1, <1>3, <2>1, <2>2 DEF SameEnds, EndedByTag, s
<1>4. QED
  BY <1>1, <1>2, <1>3 DEF HubInv, HubTypes, Buffers

(* publish: only a boot that is not remembered gets a session, and the packet  *)
(* that ends it has it remembered.                                             *)
LEMMA PublishEnds ==
    ASSUME HubInv, AllRecalled, NEW p \in Packets, Publish(p), NEW t \in Tags
    PROVE  /\ Recalls(ended'[t], sessions'[t])
           /\ Live(t) /\ sessions'[t].boot # sessions[t].boot
                => sessions[t].boot \in ToSet(ended'[t])
<1> DEFINE s == sessions[t]
           o == OpenedBy(p)
           r == FinalBy(p)
<1>1. /\ sessions'[p.tag] = r.s /\ ended'[p.tag] = r.ended
      /\ t # p.tag => sessions'[t] = LimitedBy(p)[t] /\ ended'[t] = ended[t]
  BY PublishedSessions, PublishStages, PacketType DEF HubInv, HubTypes
<1>2. CASE t # p.tag
  <2>1. CASE s = None
    BY <1>1, <1>2, <2>1, LimitedByProperties DEF Recalls, Live
  <2>2. CASE s # None
    <3>1. Shrunk(s, sessions'[t])
      BY <1>1, <1>2, <2>2, LimitedByProperties
    <3>2. /\ sessions'[t].boot = s.boot
          /\ EndedByTag(sessions'[t]) <=> EndedByTag(s)
      BY <3>1 DEF Shrunk, SameSession, EndedByTag
    <3>3. QED
      BY <1>1, <1>2, <2>2, <3>2 DEF AllRecalled, Recalls
  <2>3. QED
    BY <2>1, <2>2
<1>3. CASE t = p.tag
  <2>1. /\ r.s.boot = p.boot /\ r.s.age = 0 /\ r.s.active = ~p.last
        /\ r.ended = IF p.last THEN Remember(o.ended, p.boot) ELSE o.ended
    BY FinalByProperties
  <2>2. /\ p.boot \in Boots /\ p.last \in BOOLEAN /\ p.boot \notin ToSet(ended[t])
        /\ ended[t] \in Seq(Boots)
    BY <1>3, PacketType, PublishStages DEF HubInv, HubTypes
  <2>3. o.ended = IF s # None /\ s.boot # p.boot
                  THEN Remember(ended[t], s.boot) ELSE ended[t]
    BY <1>3, OpenedByProperties
  <2>4. s # None => s.boot \in Boots
    BY SoundType, SessionType DEF HubInv, HubTypes, Buffers
  <2> HIDE DEF s, o, r
  <2>5. /\ o.ended \in Seq(Boots) /\ p.boot \notin ToSet(o.ended)
        /\ s # None /\ s.boot # p.boot =>
             /\ o.ended # << >> /\ o.ended[Len(o.ended)] = s.boot
             /\ s.boot \in ToSet(o.ended)
    <3>1. CASE s # None /\ s.boot # p.boot
      <4> DEFINE q == Remember(ended[t], s.boot)
      <4>1. /\ q \in Seq(Boots) /\ s.boot \in ToSet(q)
            /\ ToSet(q) \subseteq ToSet(ended[t]) \cup {s.boot}
            /\ q # << >> /\ q[Len(q)] = s.boot
        BY <2>2, <2>4, <3>1, Remembered
      <4>2. o.ended = q
        BY <2>3, <3>1
      <4> HIDE DEF q
      <4>3. p.boot \notin ToSet(q)
        BY <2>2, <3>1, <4>1
      <4>4. QED
        BY <4>1, <4>2, <4>3
    <3>2. CASE ~(s # None /\ s.boot # p.boot)
      BY <2>2, <2>3, <3>2
    <3>3. QED
      BY <3>1, <3>2
  <2>6. p.last => /\ p.boot \in ToSet(r.ended)
                  /\ s # None /\ s.boot # p.boot => s.boot \in ToSet(r.ended)
    <3> DEFINE q == Remember(o.ended, p.boot)
    <3>1. /\ p.boot \in ToSet(q)
          /\ o.ended # << >> => o.ended[Len(o.ended)] \in ToSet(q)
      BY <2>2, <2>5, Remembered
    <3>2. p.last => r.ended = q
      BY <2>1
    <3> HIDE DEF q
    <3>3. QED
      BY <2>5, <3>1, <3>2
  <2>7. EndedByTag(r.s) <=> p.last
    <3>1. 0 < Timeout
      BY HubAssumption
    <3>2. EndedByTag(r.s) <=> ~r.s.active
      BY <2>1, <3>1 DEF EndedByTag
    <3>3. QED
      BY <2>1, <2>2, <3>2
  <2>8. r.s.boot \in ToSet(r.ended) <=> EndedByTag(r.s)
    BY <2>1, <2>2, <2>5, <2>6, <2>7
  <2>9. s # None /\ s.boot # r.s.boot => s.boot \in ToSet(r.ended)
    BY <2>1, <2>2, <2>5, <2>6
  <2>10. QED
    BY <1>1, <1>3, <2>8, <2>9 DEF Recalls, Live, s, r
<1>4. QED
  BY <1>2, <1>3

(* A step that is no publish ends no session by its tag, nor replaces it.      *)
LEMMA OthersEnd ==
    ASSUME HubInv, [Next]_vars, ~\E p \in Packets : Publish(p), NEW t \in Tags
    PROVE  SameEnds(t)
<1>1. CASE UNCHANGED <<sessions, ended>>
  BY <1>1 DEF SameEnds
<1>2. CASE UNCHANGED vars \/ \E p \in Packets : PublishStale(p)
  BY <1>1, <1>2 DEF PublishStale, vars
<1>3. CASE \E tag \in Tags, boot \in Boots, rev \in Revs \cup {None} :
              NoteHello(tag, boot, rev)
  BY <1>3, NoteHelloEnds
<1>4. CASE \E named \in SUBSET Tags : NoteSessions(named)
  BY <1>4, NoteSessionsEnds
<1>5. CASE Elapse
  BY <1>5, ElapseEnds
<1>6. CASE Tick
  BY <1>6, TickEnds
<1>7. CASE \E u \in Subs : Unsubscribe(u) \/ \E tag \in Tags : Subscribe(u, tag)
  BY <1>1, <1>7 DEF Unsubscribe, Subscribe
<1>8. QED
  BY <1>2, <1>3, <1>4, <1>5, <1>6, <1>7 DEF Next

(* A boot that was replaced or that its tag ended is over: whatever packets,   *)
(* timeouts, hellos and commits come, the memory holds the boot of a session   *)
(* exactly if the tag ended it, and that of a session that was replaced.       *)
THEOREM BootsEndForGood == Spec => EndedForGood
<1>1. Init => AllRecalled
  BY DEF Init, AllRecalled, Recalls
<1>2. ASSUME HubInv, AllRecalled, [Next]_vars, NEW t \in Tags
      PROVE  /\ Recalls(ended'[t], sessions'[t])
             /\ Live(t) /\ sessions'[t].boot # sessions[t].boot
                  => sessions[t].boot \in ToSet(ended'[t])
  <2>1. CASE \E p \in Packets : Publish(p)
    BY <1>2, <2>1, PublishEnds
  <2>2. CASE ~\E p \in Packets : Publish(p)
    <3>1. SameEnds(t) /\ Recalls(ended[t], sessions[t])
      BY <1>2, <2>2, OthersEnd DEF AllRecalled
    <3>2. Live(t) => sessions'[t].boot = sessions[t].boot
      BY <1>2, <2>2, KeptByAll DEF AllKept, Kept, Live
    <3>3. QED
      BY <3>1, <3>2 DEF SameEnds, Recalls
  <2>3. QED
    BY <2>1, <2>2
<1>3. HubInv /\ AllRecalled /\ [Next]_vars =>
        /\ AllRecalled'
        /\ \A tag \in Tags :
             Live(tag) /\ sessions'[tag].boot # sessions[tag].boot
               => sessions[tag].boot \in ToSet(ended'[tag])
  BY <1>2 DEF AllRecalled
<1>4. AllRecalled =>
        \A tag \in Tags : Live(tag) =>
          (sessions[tag].boot \in ToSet(ended[tag]) <=> EndedByTag(sessions[tag]))
  BY DEF AllRecalled, Recalls, Live
<1>5. QED
  BY <1>1, <1>3, <1>4, HubInvariant, PTL DEF Spec, EndedForGood

-----------------------------------------------------------------------------
(* Times that ascend *)

(* A raw seq and t some packet of the boot had. *)
Given(t, boot, seq, time) ==
    \E p \in Packets :
       /\ p.tag = t /\ p.boot = boot
       /\ \E i \in 1..Len(p.cycles) : p.cycles[i].seq = seq /\ p.cycles[i].t = time

(* The times of a buffer ascend up to the last one, whose raw values came in *)
(* a packet.                                                                 *)
Timed(t, s) ==
    /\ TimesAscending(s.cycles)
    /\ \A i \in 1..Len(s.cycles) : s.last # None /\ s.cycles[i].t <= s.last.tn
    /\ s.last # None => Given(t, s.boot, s.last.seq, s.last.t)

AllTimed ==
    \A t \in Tags : sessions[t] # None => Timed(t, sessions[t]) /\ Fresh(sessions[t])

(* The values of a cycle in a buffer. *)
LEMMA CycleTimes ==
    ASSUME NEW c \in Seq(Cycles), NEW i \in 1..Len(c)
    PROVE  c[i] \in Cycles /\ c[i].t \in Int /\ c[i].n \in Nat
<1>1. c[i] \in Cycles
  BY ElementOfSeq
<1>2. QED
  BY <1>1 DEF Cycles

(* One cycle more. *)
LEMMA AbsorbTimed ==
    ASSUME TimesAscend, NEW t, NEW s \in Sound, Timed(t, s),
           NEW p \in Packets, p.tag = t, p.boot = s.boot, NEW i \in 1..Len(p.cycles)
    PROVE  Timed(t, Absorb(s, p.cycles[i]))
<1> DEFINE c == p.cycles[i]
           r == Absorb(s, c)
<1>1. c \in RawCycles
  BY PacketType, ElementOfSeq
<1>2. s \in Sessions /\ s.cycles \in Seq(Cycles)
  BY SoundType
<1>3. Given(t, s.boot, c.seq, c.t)
  BY DEF Given
<1>4. r \in Sound /\ SameSession(s, r) /\ (r = s \/ \E x : Adds(s, c, x, r))
  BY <1>1, AbsorbSound
<1> HIDE DEF r
<1>5. CASE r = s
  BY <1>5 DEF r
<1>6. ASSUME NEW x, Adds(s, c, x, r) PROVE Timed(t, r)
  <2> DEFINE n == Len(s.cycles)
  <2>1. /\ x \in Cycles /\ r.cycles = Append(s.cycles, x)
        /\ r.last # None /\ r.last.seq = c.seq /\ r.last.t = c.t /\ x.t = r.last.tn
        /\ s.last # None => /\ SeqAdvances(c.seq, s.last.seq)
                            /\ r.last.tn = s.last.tn + TimeStep(c.t, s.last.t)
    BY <1>6 DEF Adds
  <2>2. /\ n \in Nat /\ Len(r.cycles) = n + 1 /\ r.cycles[n + 1] = x
        /\ \A k \in 1..n : r.cycles[k] = s.cycles[k]
    BY <1>2, <2>1, AppendProperties, LenProperties
  <2>3. ASSUME s.last # None PROVE TimeStep(c.t, s.last.t) >= 0
    <3>1. PICK q \in Packets :
             /\ q.tag = t /\ q.boot = s.boot
             /\ \E j \in 1..Len(q.cycles) : /\ q.cycles[j].seq = s.last.seq
                                            /\ q.cycles[j].t = s.last.t
      BY <2>3 DEF Timed, Given
    <3>2. PICK j \in 1..Len(q.cycles) : /\ q.cycles[j].seq = s.last.seq
                                        /\ q.cycles[j].t = s.last.t
      BY <3>1
    <3>3. SeqAdvances(c.seq, s.last.seq)
      BY <2>1, <2>3
    <3>4. SeqAdvances(p.cycles[i].seq, q.cycles[j].seq)
             => TimeStep(p.cycles[i].t, q.cycles[j].t) >= 0
      BY <3>1 DEF TimesAscend
    <3>5. QED
      BY <3>2, <3>3, <3>4
  <2>4. ASSUME NEW k \in 1..n PROVE s.cycles[k].t <= x.t /\ s.cycles[k].t \in Int
    <3>1. s.last # None /\ s.cycles[k].t <= s.last.tn
      BY DEF Timed
    <3>2. TimeStep(c.t, s.last.t) \in Int /\ s.last.tn \in Int /\ s.cycles[k].t \in Int
      BY <1>1, <1>2, <3>1, Steps, LastType, CycleTimes
    <3>3. x.t = s.last.tn + TimeStep(c.t, s.last.t) /\ TimeStep(c.t, s.last.t) >= 0
      BY <2>1, <2>3, <3>1
    <3>4. QED
      BY <3>1, <3>2, <3>3
  <2>5. x.t \in Int
    BY <2>1 DEF Cycles
  <2> HIDE DEF n, c
  <2>6. TimesAscending(r.cycles)
    <3> SUFFICES ASSUME NEW k \in 1..(n + 1), NEW l \in 1..(n + 1), k < l
                 PROVE  r.cycles[k].t <= r.cycles[l].t
      BY <2>2 DEF TimesAscending
    <3>1. k \in 1..n
      BY <2>2
    <3>2. CASE l = n + 1
      BY <2>2, <2>4, <3>1, <3>2
    <3>3. CASE l \in 1..n
      BY <2>2, <3>1, <3>3 DEF Timed, TimesAscending, n
    <3>4. l = n + 1 \/ l \in 1..n
      BY <2>2
    <3>5. QED
      BY <3>2, <3>3, <3>4
  <2>7. ASSUME NEW k \in 1..Len(r.cycles) PROVE r.last # None /\ r.cycles[k].t <= r.last.tn
    <3>1. k = n + 1 \/ k \in 1..n
      BY <2>2
    <3>2. CASE k = n + 1
      BY <2>1, <2>2, <2>5, <3>2
    <3>3. CASE k \in 1..n
      BY <2>1, <2>2, <2>4, <3>3
    <3>4. QED
      BY <3>1, <3>2, <3>3
  <2>8. Given(t, r.boot, r.last.seq, r.last.t)
    BY <1>3, <1>4, <2>1 DEF SameSession
  <2>9. QED
    BY <2>6, <2>7, <2>8 DEF Timed
<1>7. QED
  BY <1>4, <1>5, <1>6 DEF r

(* All cycles of a packet. *)
LEMMA FilledTimed ==
    ASSUME TimesAscend, NEW t, NEW s \in Sound, Timed(t, s),
           NEW p \in Packets, p.tag = t, p.boot = s.boot
    PROVE  Timed(t, FoldLeft(Absorb, s, p.cycles))
<1> DEFINE n == Len(p.cycles)
<1>1. p.cycles \in Seq(RawCycles) /\ n \in Nat
  BY PacketType, LenProperties
<1>2. PICK v : Filling(v, s, p.cycles)
  BY <1>1, FillingExists
<1>3. /\ v \in [0..n -> Sound] /\ v[0] = s
      /\ (\A k \in 1..n : v[k] = Absorb(v[k - 1], p.cycles[k]))
      /\ v[n] = FoldLeft(Absorb, s, p.cycles)
  BY <1>2 DEF Filling
<1> DEFINE P == {k \in 0..n : Timed(t, v[k]) /\ v[k].boot = s.boot}
<1>4. 0 \in P
  BY <1>1, <1>3
<1>5. ASSUME NEW k \in 1..n, k - 1 \in P PROVE k \in P
  <2> DEFINE r == v[k - 1]
  <2>1. r \in Sound /\ Timed(t, r) /\ r.boot = s.boot /\ k \in 0..n
    BY <1>1, <1>3, <1>5
  <2>2. v[k] = Absorb(r, p.cycles[k])
    BY <1>3
  <2>3. p.cycles[k] \in RawCycles
    BY <1>1, ElementOfSeq
  <2> HIDE DEF r
  <2>4. Timed(t, v[k])
    BY <2>1, <2>2, AbsorbTimed
  <2>5. v[k].boot = s.boot
    BY <2>1, <2>2, <2>3, AbsorbSound DEF SameSession
  <2>6. QED
    BY <2>1, <2>4, <2>5
<1> HIDE DEF P
<1>6. \A k \in 0..n : k \in P
  BY <1>1, <1>4, <1>5, Induction
<1>7. n \in 0..n
  BY <1>1
<1>8. n \in P
  BY <1>6, <1>7
<1>9. QED
  BY <1>3, <1>8 DEF P

(* The end of a buffer. *)
LEMMA ShrunkTimed ==
    ASSUME NEW t, NEW s \in Sound, NEW r \in Sound, Shrunk(s, r), Timed(t, s)
    PROVE  Timed(t, r) /\ (Fresh(s) => Fresh(r))
<1> DEFINE c == Len(s.cycles)
           e == Len(r.cycles)
<1>1. c \in Nat /\ e \in Nat /\ s.cycles \in Seq(Cycles) /\ r.cycles \in Seq(Cycles)
  BY SoundType
<1>2. /\ e <= c /\ \A i \in 1..e : r.cycles[i] = s.cycles[c - e + i]
      /\ r.last = s.last /\ r.boot = s.boot
  BY DEF Shrunk, Ends, SameSession
<1>3. /\ \A i, j \in 1..c : i < j => s.cycles[i].t <= s.cycles[j].t
      /\ \A i \in 1..c : s.last # None /\ s.cycles[i].t <= s.last.tn
      /\ s.last # None => Given(t, s.boot, s.last.seq, s.last.t)
  BY DEF Timed, TimesAscending
<1>4. \A i \in 1..c : s.cycles[i].t \in Int
  BY <1>1, CycleTimes
<1>5. ASSUME Fresh(s), r.cycles # << >> PROVE Last(r.cycles).t - r.cycles[1].t <= Retention
  <2>1. e # 0
    BY <1>1, <1>5, EmptySeq
  <2> HIDE DEF c, e
  <2>2. /\ 1 \in 1..e /\ e \in 1..e /\ c - e + 1 \in 1..c /\ c - e + e = c
        /\ 1 \in 1..c /\ c \in 1..c
    BY <1>1, <1>2, <2>1
  <2>3. s.cycles # << >>
    <3>1. Len(s.cycles) # 0
      BY <2>2 DEF c
    <3>2. QED
      BY <3>1, EmptySeq
  <2>4. s.cycles[c].t - s.cycles[1].t <= Retention
    BY <1>5, <2>3 DEF Fresh, Last, c
  <2>5. s.cycles[1].t <= s.cycles[c - e + 1].t
    <3>1. c - e + 1 = 1 \/ 1 < c - e + 1
      BY <2>2
    <3>2. QED
      BY <1>3, <1>4, <2>2, <3>1
  <2>6. r.cycles[e] = s.cycles[c] /\ r.cycles[1] = s.cycles[c - e + 1]
    BY <1>2, <2>2
  <2>7. Retention \in Int
    BY HubAssumption
  <2>8. r.cycles[e].t - r.cycles[1].t <= Retention
    <3>1. /\ s.cycles[c].t \in Int /\ s.cycles[1].t \in Int
          /\ s.cycles[c - e + 1].t \in Int
      BY <1>4, <2>2
    <3>2. QED
      BY <2>4, <2>5, <2>6, <2>7, <3>1
  <2>9. QED
    BY <2>8 DEF Last, e
<1> HIDE DEF c, e
<1>6. \A i \in 1..e : c - e + i \in 1..c
  BY <1>1, <1>2
<1>7. TimesAscending(r.cycles)
  <2> SUFFICES ASSUME NEW i \in 1..e, NEW j \in 1..e, i < j
               PROVE  r.cycles[i].t <= r.cycles[j].t
    BY DEF TimesAscending, e
  <2>1. c - e + i < c - e + j
    BY <1>1
  <2>2. QED
    BY <1>2, <1>3, <1>6, <2>1
<1>8. \A i \in 1..e : r.last # None /\ r.cycles[i].t <= r.last.tn
  BY <1>2, <1>3, <1>6
<1>9. r.last # None => Given(t, r.boot, r.last.seq, r.last.t)
  BY <1>2, <1>3
<1>10. QED
  BY <1>5, <1>7, <1>8, <1>9 DEF Timed, Fresh, e

(* Timed reads boot, cycles and last only. *)
LEMMA SameTimed ==
    ASSUME NEW t, NEW s, NEW r, Timed(t, s), r.boot = s.boot, r.cycles = s.cycles,
           r.last = s.last
    PROVE  Timed(t, r) /\ (Fresh(s) => Fresh(r))
BY DEF Timed, Fresh

(* The session that takes the packet, and with the packet's cycles. *)
LEMMA FilledByTimed ==
    ASSUME TimesAscend, HubInv, AllTimed, NEW p \in Packets
    PROVE  /\ Timed(p.tag, OpenedBy(p).s) /\ Timed(p.tag, FilledBy(p))
           /\ Timed(p.tag, TrimmedBy(p)) /\ Fresh(TrimmedBy(p))
<1> DEFINE o == OpenedBy(p).s
           s == sessions[p.tag]
           f == FilledBy(p)
           y == TrimmedBy(p)
<1>1. /\ o \in Sound /\ o.boot = p.boot
      /\ IF s # None /\ s.boot = p.boot
         THEN SameBuffer(s, o)
         ELSE o.cycles = << >> /\ o.last = None
  BY OpenedByProperties
<1>2. s # None => Timed(p.tag, s)
  BY PacketType DEF AllTimed
<1> HIDE DEF o, s
<1>3. Timed(p.tag, o)
  <2>1. CASE s # None /\ s.boot = p.boot
    BY <1>1, <1>2, <2>1, SameTimed DEF SameBuffer
  <2>2. CASE o.cycles = << >> /\ o.last = None
    <3>1. Len(o.cycles) = 0
      BY <2>2, EmptySeq
    <3>2. QED
      BY <2>2, <3>1 DEF Timed, TimesAscending
  <2>3. QED
    BY <1>1, <2>1, <2>2
<1>4. f = FoldLeft(Absorb, o, p.cycles)
  BY DEF FilledBy, o
<1>5. Timed(p.tag, f)
  BY <1>1, <1>3, <1>4, FilledTimed
<1>6. /\ f \in Sound /\ Trim(f) \in Sound /\ Shrunk(f, Trim(f))
      /\ y \in Sound /\ SameBuffer(Trim(f), y) /\ Fits(y)
      /\ y.boot = o.boot /\ f.boot = o.boot
  BY TrimmedByProperties DEF SameSession, o
<1> HIDE DEF f, y
<1>7. Timed(p.tag, Trim(f)) /\ Trim(f).boot = f.boot
  BY <1>5, <1>6, ShrunkTimed DEF Shrunk, SameSession
<1> DEFINE z == Trim(f)
<1>8. Timed(p.tag, z) /\ y.boot = z.boot /\ y.cycles = z.cycles /\ y.last = z.last
  BY <1>6, <1>7 DEF SameBuffer
<1> HIDE DEF z
<1>9. Timed(p.tag, y)
  BY <1>8, SameTimed
<1>10. QED
  BY <1>3, <1>5, <1>6, <1>9 DEF Fits, o, f, y

(* Every step keeps the times ascending. *)
LEMMA NextTimed ==
    ASSUME TimesAscend, HubInv, AllTimed, [Next]_vars
    PROVE  AllTimed'
<1>1. CASE ~\E p \in Packets : Publish(p)
  <2>1. ASSUME NEW t \in Tags, sessions'[t] # None
        PROVE  Timed(t, sessions'[t]) /\ Fresh(sessions'[t])
    <3> DEFINE s == sessions[t]
               r == sessions'[t]
    <3>1. s # None /\ r.boot = s.boot /\ r.cycles = s.cycles /\ r.last = s.last
      BY <1>1, <2>1, KeptByAll DEF AllKept, Kept
    <3>2. Timed(t, s) /\ Fresh(s)
      BY <3>1 DEF AllTimed
    <3> HIDE DEF s, r
    <3>3. Timed(t, r) /\ Fresh(r)
      BY <3>1, <3>2, SameTimed
    <3>4. QED
      BY <3>3 DEF r
  <2>2. QED
    BY <2>1 DEF AllTimed, Timed, TimesAscending, Fresh
<1>2. ASSUME NEW p \in Packets, Publish(p) PROVE AllTimed'
  <2>1. ASSUME NEW t \in Tags, sessions'[t] # None
        PROVE  Timed(t, sessions'[t]) /\ Fresh(sessions'[t])
    <3>1. CASE t = p.tag
      <4> DEFINE y == TrimmedBy(p)
                 a == LimitedBy(p)[p.tag]
                 r == FinalBy(p).s
      <4>1. Timed(t, y) /\ Fresh(y) /\ y \in Sound /\ y.boot = p.boot
        BY <3>1, FilledByTimed, TrimmedByProperties, OpenedByProperties
      <4>2. a \in Sound /\ Shrunk(y, a)
        BY LimitedByProperties
      <4>3. r.boot = p.boot /\ r.cycles = a.cycles /\ r.last = a.last
        BY FinalByProperties
      <4>4. sessions'[t] = r
        BY <1>2, <3>1, PublishedSessions
      <4> HIDE DEF y, a, r
      <4>5. Timed(t, a) /\ Fresh(a)
        BY <4>1, <4>2, ShrunkTimed
      <4>6. r.boot = a.boot
        BY <4>1, <4>2, <4>3 DEF Shrunk, SameSession
      <4>7. QED
        BY <4>3, <4>4, <4>5, <4>6, SameTimed
    <3>2. CASE t # p.tag
      <4> DEFINE s == sessions[t]
                 r == LimitedBy(p)[t]
      <4>1. sessions'[t] = r
        BY <1>2, <3>2, PublishedSessions
      <4>2. s # None /\ r \in Sound /\ Shrunk(s, r)
        BY <2>1, <3>2, <4>1, LimitedByProperties
      <4>3. s \in Sound /\ Timed(t, s) /\ Fresh(s)
        BY <4>2 DEF HubInv, HubTypes, Buffers, AllTimed
      <4> HIDE DEF s, r
      <4>4. QED
        BY <4>1, <4>2, <4>3, ShrunkTimed
    <3>3. QED
      BY <3>1, <3>2
  <2>2. QED
    BY <2>1 DEF AllTimed, Timed, TimesAscending, Fresh
<1>3. QED
  BY <1>1, <1>2

(* Every step keeps the pages in step with what was sent. *)
LEMMA NextContinues ==
    ASSUME HubInv, AllTimed, AllContinue, [Next]_vars
    PROVE  AllContinue'
<1>1. CASE UNCHANGED vars
  BY <1>1 DEF vars, AllContinue
<1>2. CASE \E p \in Packets : Publish(p)
  BY <1>2, PublishKeeps
<1>3. CASE \E p \in Packets : PublishStale(p)
  BY <1>1, <1>3 DEF PublishStale
<1>4. CASE \E tag \in Tags, boot \in Boots, rev \in Revs \cup {None} :
              NoteHello(tag, boot, rev)
  BY <1>4, NoteHelloKeeps
<1>5. CASE \E named \in SUBSET Tags : NoteSessions(named)
  BY <1>5, NoteSessionsKeeps
<1>6. CASE Elapse
  BY <1>6, ElapseKeeps
<1>7. CASE Tick
  BY <1>7, TickKeeps
<1>8. CASE \E u \in Subs : Unsubscribe(u)
  BY <1>8, UnsubscribeKeeps
<1>9. ASSUME NEW u \in Subs, NEW tag \in Tags, Subscribe(u, tag)
      PROVE  AllContinue'
  <2>1. ASSUME sessions[tag] # None PROVE TimesAscending(Sent(sessions[tag]))
    <3> DEFINE s == sessions[tag]
    <3>1. s \in Sound /\ Timed(tag, s)
      BY <2>1 DEF HubInv, HubTypes, Buffers, AllTimed
    <3> HIDE DEF s
    <3>2. /\ Len(Sent(s)) = Len(s.cycles) - Len(s.pending)
          /\ \A i \in 1..Len(Sent(s)) : Sent(s)[i] = s.cycles[i]
          /\ Len(s.cycles) \in Nat /\ Len(s.pending) \in Nat
      BY <3>1, SentProperties, SoundType
    <3>3. \A i \in 1..Len(Sent(s)) : i \in 1..Len(s.cycles)
      BY <3>2
    <3>4. QED
      BY <3>1, <3>2, <3>3 DEF Timed, TimesAscending, s
  <2>2. QED
    BY <1>9, <2>1, SubscribeKeeps
<1>10. QED
  BY <1>1, <1>2, <1>3, <1>4, <1>5, <1>6, <1>7, <1>8, <1>9 DEF Next

(* When the clock of each tag ascends, the times in every buffer ascend within *)
(* Retention, and every page continues what was sent of its session.           *)
THEOREM TimesInvariant ==
    ASSUME TimesAscend
    PROVE  Spec => [](HubInv /\ AllTimed /\ AllContinue)
<1>1. Init => HubInv /\ AllTimed /\ AllContinue
  BY InitHubInv DEF Init, AllTimed, AllContinue
<1>2. HubInv /\ AllTimed /\ AllContinue /\ [Next]_vars
        => (HubInv /\ AllTimed /\ AllContinue)'
  BY NextKeeps, NextTimed, NextContinues
<1>3. QED
  BY <1>1, <1>2, PTL DEF Spec

(* Neither hole nor overlap between the snapshot and the appends: when the    *)
(* clock of each tag ascends, what a page holds and what the hub has sent end *)
(* in the same cycles and the pending ones continue them, whatever trims,     *)
(* limits and restarts come between.                                          *)
THEOREM PagesContinue ==
    ASSUME TimesAscend
    PROVE  Spec => []PageContinues
<1>1. HubInv /\ AllContinue => PageContinues
  <2> SUFFICES ASSUME HubInv, AllContinue, NEW u \in Subs,
                      watching[u] # None, Watched(u) # None
               PROVE  LET s == Watched(u)
                          data == pages[u].data
                      IN  /\ Ascending(data \o s.pending)
                          /\ IsSuffix(data, Sent(s)) \/ IsSuffix(Sent(s), data)
                          /\ data = << >> =>
                                \A i \in DOMAIN Sent(s) :
                                   Last(Sent(s)).t - Sent(s)[i].t > Trail
    BY DEF PageContinues
  <2> DEFINE s == Watched(u)
             data == pages[u].data
  <2>1. s = sessions[watching[u]] /\ watching[u] \in Tags /\ s # None
    BY DEF Watched, HubInv, HubTypes
  <2>2. s \in Sound /\ data \in Seq(Cycles) /\ Continues(pages[u], s)
    BY <2>1 DEF HubInv, HubTypes, Buffers, Pages, AllContinue
  <2>3. /\ Ascending(data \o s.pending)
        /\ Ends(data, Sent(s)) \/ Ends(Sent(s), data)
        /\ data = << >> => Sent(s) = << >>
    BY <2>1, <2>2 DEF Continues
  <2> HIDE DEF s, data
  <2>4. Sent(s) \in Seq(Cycles)
    BY <2>2, SentProperties
  <2>5. IsSuffix(data, Sent(s)) \/ IsSuffix(Sent(s), data)
    BY <2>2, <2>3, <2>4, SuffixByPlace
  <2>6. DOMAIN << >> = {}
    OBVIOUS
  <2>7. data = << >> =>
           \A i \in DOMAIN Sent(s) : Last(Sent(s)).t - Sent(s)[i].t > Trail
    BY <2>3, <2>6
  <2>8. QED
    BY <2>3, <2>5, <2>7 DEF s, data
<1>2. Spec => [](HubInv /\ AllTimed /\ AllContinue)
  BY TimesInvariant
<1>3. QED
  BY <1>1, <1>2, PTL

(* A packet that brought its session nothing new leaves every buffer as it was. *)
LEMMA IdlePublish ==
    ASSUME TimesAscend, HubInv, AllTimed, NEW p \in Packets, Publish(p),
           sessions[p.tag] # None, Idle(p.tag), NEW t \in Tags, sessions[t] # None
    PROVE  sessions'[t].cycles = sessions[t].cycles
<1> DEFINE tag == p.tag
           s == sessions[tag]
           o == OpenedBy(p).s
           f == FilledBy(p)
           y == TrimmedBy(p)
           a == LimitedBy(p)[tag]
           r == FinalBy(p).s
<1>1. tag \in Tags /\ s \in Sound /\ Limits(sessions) /\ Fresh(s) /\ sessions \in Buffers
  BY PacketType DEF HubInv, HubTypes, Buffers, AllTimed
<1>2. /\ sessions'[tag] = r
      /\ \A u \in Tags : u # tag => sessions'[u] = LimitedBy(p)[u]
  BY PublishedSessions
<1>3. /\ r.boot = p.boot /\ r.last = a.last /\ r.cycles = a.cycles
  BY FinalByProperties
<1>4. a \in Sound /\ Shrunk(y, a)
  BY LimitedByProperties
<1>5. /\ f \in Sound /\ Later(o, f) /\ Trim(f) \in Sound /\ Shrunk(f, Trim(f))
      /\ Fits(f) => Trim(f) = f
      /\ y \in Sound /\ SameBuffer(Trim(f), y)
  BY TrimmedByProperties
<1>6. r.last = s.last /\ r.boot = s.boot
  BY <1>2 DEF Idle
<1>7. o \in Sound /\ SameBuffer(s, o)
  BY <1>3, <1>6, OpenedByProperties
<1>8. \A u \in Tags : StoredBy(p)[u] = IF u = tag THEN y ELSE sessions[u]
  BY LimitedByProperties
<1>9. TotalRanges(StoredBy(p)) <= MaxTotal => LimitedBy(p) = StoredBy(p)
  BY LimitedByProperties
<1>10. StoredBy(p) \in Buffers
  BY LimitedByProperties
<1> DEFINE z == Trim(f)
<1>11. /\ f \in Sound /\ Later(o, f) /\ z \in Sound /\ Shrunk(f, z)
       /\ Fits(f) => z = f
       /\ y \in Sound /\ SameBuffer(z, y)
  BY <1>5
<1> HIDE DEF s, o, f, y, a, r, z
<1>12. f.last = s.last
  BY <1>3, <1>4, <1>6, <1>11 DEF Shrunk, SameBuffer
<1>13. f = o
  <2>1. CASE s.last = None
    BY <1>11, <1>12, <2>1 DEF Later
  <2>2. CASE s.last # None
    <3>1. o.last = s.last
      BY <1>7 DEF SameBuffer
    <3>2. s.last.n \in Nat
      BY <1>1, <2>2, LastType
    <3>3. ~(o.last.n < f.last.n)
      BY <1>12, <3>1, <3>2
    <3>4. QED
      BY <1>11, <2>2, <3>1, <3>3 DEF Later
  <2>3. QED
    BY <2>1, <2>2
<1>14. Fits(f)
  <2>1. Sized(s)
    BY <1>1, NotNone DEF Limits, s
  <2>2. f.cycles = s.cycles /\ f.ranges = s.ranges
    BY <1>7, <1>13 DEF SameBuffer
  <2>3. QED
    BY <1>1, <2>1, <2>2 DEF Fits, Sized, Fresh
<1>15. y.cycles = s.cycles /\ y.ranges = s.ranges
  BY <1>7, <1>11, <1>13, <1>14 DEF SameBuffer
<1>16. LimitedBy(p) = StoredBy(p)
  <2>1. RangesOf(StoredBy(p)) = RangesOf(sessions)
    <3>1. y # None /\ s # None
      BY <1>1, <1>11, NotNone
    <3>2. \A u \in Tags : (IF StoredBy(p)[u] = None THEN 0 ELSE StoredBy(p)[u].ranges)
                            = (IF sessions[u] = None THEN 0 ELSE sessions[u].ranges)
      BY <1>8, <1>15, <3>1 DEF s
    <3>3. QED
      BY <3>2 DEF RangesOf
  <2>2. TotalRanges(StoredBy(p)) = TotalRanges(sessions)
    BY <1>1, <1>10, <2>1, CountsType
  <2>3. QED
    BY <1>1, <1>9, <2>2 DEF Limits
<1>17. CASE t = tag
  <2>1. a = y
    BY <1>1, <1>8, <1>16 DEF a
  <2>2. QED
    BY <1>2, <1>3, <1>15, <1>17, <2>1 DEF s
<1>18. CASE t # tag
  BY <1>2, <1>8, <1>16, <1>18
<1>19. QED
  BY <1>17, <1>18

(* The total limit takes from ended sessions first: when the clock of each    *)
(* tag ascends, an active session of which nothing new came loses cycles only *)
(* when the ended ones have none left.                                        *)
THEOREM EndedSessionsPayFirst ==
    ASSUME TimesAscend
    PROVE  Spec => EndedGiveWayFirst
<1>1. ASSUME HubInv, AllTimed, [Next]_vars, NEW t \in Tags, NEW u \in Tags,
             Live(t), sessions[t].active, Idle(t),
             Len(sessions'[t].cycles) < Len(sessions[t].cycles),
             Live(u), ~sessions[u].active, Idle(u)
      PROVE  sessions'[u].cycles = << >>
  <2>1. sessions[t] # None /\ sessions[u] # None /\ sessions[t] \in Sound
    BY <1>1 DEF Live, HubInv, HubTypes, Buffers
  <2>2. sessions'[t].cycles # sessions[t].cycles
    <3>1. Len(sessions[t].cycles) \in Nat
      BY <2>1, SoundType
    <3>2. QED
      BY <1>1, <3>1
  <2>3. PICK p \in Packets : Publish(p)
    <3>1. CASE ~\E p \in Packets : Publish(p)
      BY <1>1, <2>1, <2>2, <3>1, KeptByAll DEF AllKept, Kept
    <3>2. QED
      BY <3>1
  <2>4. t # p.tag /\ u # p.tag
    BY <1>1, <2>1, <2>2, <2>3, IdlePublish
  <2>5. sessions'[t] = LimitedBy(p)[t] /\ sessions'[u] = LimitedBy(p)[u]
    BY <1>1, <2>3, <2>4, PublishedSessions
  <2>6. StoredBy(p)[t] = sessions[t] /\ StoredBy(p)[u] = sessions[u]
    BY <1>1, <2>4, LimitedByProperties
  <2>7. Reduced(StoredBy(p), LimitedBy(p))
    BY <1>1, LimitedByProperties
  <2>8. QED
    BY <1>1, <2>1, <2>5, <2>6, <2>7 DEF Reduced
<1>2. HubInv /\ AllTimed /\ AllContinue /\ [Next]_vars =>
        [\A t, u \in Tags :
           (/\ Live(t) /\ sessions[t].active /\ Idle(t)
            /\ Len(sessions'[t].cycles) < Len(sessions[t].cycles)
            /\ Live(u) /\ ~sessions[u].active /\ Idle(u))
             => sessions'[u].cycles = << >>]_vars
  BY <1>1
<1>3. Spec => [](HubInv /\ AllTimed /\ AllContinue)
  BY TimesInvariant
<1>4. QED
  BY <1>2, <1>3, PTL DEF Spec, EndedGiveWayFirst
-----------------------------------------------------------------------------
(* publish, cycle by cycle: what those who know the packets need of it *)

(* The session the packet p belongs to takes its cycles one after the other, *)
(* v[k] after the k-th, and keeps an end of what they leave.                 *)
TakesIn(p, v) ==
    LET old == sessions[p.tag]
        n == Len(p.cycles)
    IN  /\ v \in [0..n -> Sound]
        /\ IF old # None /\ old.boot = p.boot
           THEN v[0].cycles = old.cycles /\ v[0].last = old.last
           ELSE v[0].cycles = << >> /\ v[0].last = None
        /\ \A k \in 1..n : v[k] = Absorb(v[k - 1], p.cycles[k])
        /\ sessions'[p.tag] \in Sound /\ sessions'[p.tag].boot = p.boot
        /\ sessions'[p.tag].last = v[n].last
        /\ Ends(sessions'[p.tag].cycles, v[n].cycles)

(* Every other session only loses cycles. *)
OthersShrink(p) ==
    \A t \in Tags : t # p.tag =>
        IF sessions[t] = None THEN sessions'[t] = None
        ELSE /\ sessions[t] \in Sound /\ sessions'[t] \in Sound
             /\ Shrunk(sessions[t], sessions'[t])

(* What publish does to the sessions. *)
LEMMA PublishTakesIn ==
    ASSUME HubInv, NEW p \in Packets, Publish(p)
    PROVE  (\E v : TakesIn(p, v)) /\ OthersShrink(p)
<1> DEFINE old == sessions[p.tag]
           n == Len(p.cycles)
           o == OpenedBy(p).s
           f == FilledBy(p)
           y == TrimmedBy(p)
           a == LimitedBy(p)[p.tag]
           r == FinalBy(p).s
<1>1. p.tag \in Tags /\ p.cycles \in Seq(RawCycles) /\ n \in Nat
  BY PacketType, LenProperties
<1>2. /\ o \in Sound /\ f = FoldLeft(Absorb, o, p.cycles)
      /\ IF old # None /\ old.boot = p.boot THEN SameBuffer(old, o)
         ELSE o.cycles = << >> /\ o.last = None
  BY OpenedByProperties DEF FilledBy
<1>3. /\ f \in Sound /\ Trim(f) \in Sound /\ Shrunk(f, Trim(f))
      /\ y \in Sound /\ SameBuffer(Trim(f), y)
  BY TrimmedByProperties
<1>4. a \in Sound /\ Shrunk(y, a)
  BY LimitedByProperties
<1>5. r \in Sound /\ r.boot = p.boot /\ r.cycles = a.cycles /\ r.last = a.last
  BY FinalByProperties
<1>6. sessions'[p.tag] = r /\ \A t \in Tags : t # p.tag => sessions'[t] = LimitedBy(p)[t]
  BY PublishedSessions
<1>7. OthersShrink(p)
  <2>1. ASSUME NEW t \in Tags, t # p.tag
        PROVE  IF sessions[t] = None THEN sessions'[t] = None
               ELSE /\ sessions[t] \in Sound /\ sessions'[t] \in Sound
                    /\ Shrunk(sessions[t], sessions'[t])
    <3>1. IF sessions[t] = None THEN LimitedBy(p)[t] = None
          ELSE LimitedBy(p)[t] \in Sound /\ Shrunk(sessions[t], LimitedBy(p)[t])
      BY <2>1, LimitedByProperties
    <3>2. sessions[t] # None => sessions[t] \in Sound
      BY DEF HubInv, HubTypes, Buffers
    <3>3. QED
      BY <1>6, <2>1, <3>1, <3>2
  <2>2. QED
    BY <2>1 DEF OthersShrink
<1>8. PICK v : Filling(v, o, p.cycles)
  BY <1>1, <1>2, FillingExists
<1> HIDE DEF o, f, y, a, r, old
<1>9. /\ v \in [0..n -> Sound] /\ v[0] = o /\ v[n] = f
      /\ \A k \in 1..n : v[k] = Absorb(v[k - 1], p.cycles[k])
  BY <1>2, <1>8 DEF Filling
<1>10. r.last = f.last /\ Ends(r.cycles, f.cycles)
  <2> DEFINE z == Trim(f)
  <2>1. z.cycles = y.cycles /\ z.last = y.last /\ z.last = f.last
        /\ Ends(z.cycles, f.cycles) /\ z \in Sound
    BY <1>3 DEF SameBuffer, Shrunk
  <2> HIDE DEF z
  <2>2. a.last = f.last /\ Ends(a.cycles, y.cycles)
    BY <1>4, <2>1 DEF Shrunk
  <2>3. a.cycles \in Seq(Cycles) /\ y.cycles \in Seq(Cycles) /\ f.cycles \in Seq(Cycles)
    BY <1>3, <1>4, SoundType
  <2>4. Ends(a.cycles, f.cycles)
    BY <2>1, <2>2, <2>3, EndsTransitive
  <2>5. QED
    BY <1>5, <2>2, <2>4
<1>11. IF old # None /\ old.boot = p.boot
       THEN v[0].cycles = old.cycles /\ v[0].last = old.last
       ELSE v[0].cycles = << >> /\ v[0].last = None
  BY <1>2, <1>9 DEF SameBuffer
<1>12. TakesIn(p, v)
  BY <1>5, <1>6, <1>9, <1>10, <1>11 DEF TakesIn, old
<1>13. QED
  BY <1>7, <1>12

=============================================================================
