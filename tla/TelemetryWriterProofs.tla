------------------------ MODULE TelemetryWriterProofs ------------------------
(***************************************************************************)
(* Proofs about TelemetryWriter, for any limits and any sizes of packets:  *)
(* packets are committed in the order of their arrival, none twice; run()  *)
(* returns with nothing left to write; and the statistics explain every    *)
(* row that was received.                                                  *)
(*                                                                         *)
(* What the argument rests on: the batch is taken whole before the write   *)
(* is awaited, so that what is stored, what is being written and what      *)
(* waits stand one behind the other at any time; and nothing is submitted  *)
(* once the transport is closed, which comes before the request to stop.   *)
(* The books need that the rows of packets are the sum of their partial    *)
(* sums, which FoldLeft does not say by itself: the lemmas about numbers   *)
(* and folds come first.                                                   *)
(***************************************************************************)
EXTENDS TelemetryWriter, SequenceTheorems, WellFoundedInduction, TLAPS

Rising(packets) ==
    \A i, j \in DOMAIN packets : i < j => packets[i].id < packets[j].id

\* Stored, being written and waiting, one behind the other.
InOrder ==
    /\ Rising(batch) /\ Rising(pending)
    /\ \A i \in DOMAIN batch, j \in DOMAIN pending : batch[i].id < pending[j].id
    /\ \A i \in DOMAIN pending : pending[i].id <= submitted
    /\ \A i \in DOMAIN batch : batch[i].id <= submitted
    /\ \A i \in DOMAIN stored : stored[i] <= submitted
    /\ \A i, j \in DOMAIN stored : i < j => stored[i] < stored[j]
    /\ \A i \in DOMAIN stored, j \in DOMAIN pending : stored[i] < pending[j].id
    /\ outcome # "committed" =>
         \A i \in DOMAIN stored, j \in DOMAIN batch : stored[i] < batch[j].id

\* A batch belongs to a write; the last one takes all there will ever be.
LastWrite ==
    /\ outcome # "none" => task \in {"flushing", "draining"}
    /\ task \notin {"flushing", "draining"} => batch = << >>
    /\ task \in {"draining", "stopped"} => stopping /\ pending = << >>
    /\ stopping => ~open

WriterInv == TypeOK /\ InOrder /\ LastWrite

\* The books balance, and the counters are numbers.
BooksInv ==
    /\ Accounted
    /\ stats \in [written : Int, failed : Int, dropped : Int]
    /\ received \in Int

------------------------------------------------------------------------------
(* Numbers *)

(* A nonempty set of naturals has the least element Min chooses. *)
LEMMA MinProperties ==
    ASSUME NEW T \in SUBSET Nat, T # {}
    PROVE  Min(T) \in T /\ \A y \in T : Min(T) <= y
<1>1. PICK x \in T : \A y \in T : ~ (<<y, x>> \in OpToRel(<, Nat))
  BY NatLessThanWellFounded, WFMin
<1>2. ASSUME NEW y \in T PROVE x <= y
  <2>1. <<y, x>> \in OpToRel(<, Nat) <=> y < x
    BY DEF OpToRel
  <2>2. ~(y < x)
    BY <1>1, <2>1
  <2>3. QED
    BY <2>2
<1>3. QED
  BY <1>2 DEF Min

(* Induction up to n, over the set of the numbers that have the property. *)
LEMMA Induction ==
    ASSUME NEW n \in Nat, NEW P,
           0 \in P, \A i \in 1..n : i - 1 \in P => i \in P
    PROVE  \A i \in 0..n : i \in P
<1> DEFINE T == {i \in 0..n : i \notin P}
<1> SUFFICES ASSUME T # {} PROVE FALSE
  OBVIOUS
<1>1. T \in SUBSET Nat
  OBVIOUS
<1>2. Min(T) \in T /\ \A y \in T : Min(T) <= y
  BY <1>1, MinProperties
<1>3. PICK m \in T : \A y \in T : m <= y
  BY <1>2
<1>4. m \in 1..n /\ m \notin P
  BY <1>3
<1>5. m - 1 \notin T
  BY <1>3, <1>4
<1>6. QED
  BY <1>4, <1>5

(* A nonempty set of positions has the greatest element Max chooses. *)
LEMMA MaxProperties ==
    ASSUME NEW n \in Nat, NEW T \in SUBSET (1..n), T # {}
    PROVE  Max(T) \in T /\ \A y \in T : Max(T) >= y
<1> DEFINE U == {n - y : y \in T}
<1>1. U \in SUBSET Nat /\ U # {}
  <2>1. \A y \in T : n - y \in Nat
    OBVIOUS
  <2>2. QED
    BY <2>1
<1>2. Min(U) \in U /\ \A z \in U : Min(U) <= z
  BY <1>1, MinProperties
<1>3. PICK x \in T : Min(U) = n - x
  BY <1>2
<1>4. ASSUME NEW y \in T PROVE x >= y
  <2>1. n - y \in U
    OBVIOUS
  <2>2. n - x <= n - y
    BY <1>2, <1>3, <2>1
  <2>3. QED
    BY <2>2
<1>5. QED
  BY <1>4 DEF Max

(* The greatest of the first k places, and what is left without it. *)
LEMMA PrefixMax ==
    ASSUME NEW n \in Nat, NEW k \in 1..n
    PROVE  /\ 1..k \in SUBSET (1..n) /\ 1..k # {}
           /\ Max(1..k) = k /\ (1..k) \ {Max(1..k)} = 1..(k - 1)
<1>1. 1..k \in SUBSET (1..n) /\ k \in 1..k
  OBVIOUS
<1>2. Max(1..k) \in 1..k /\ \A y \in 1..k : Max(1..k) >= y
  BY <1>1, MaxProperties
<1>3. Max(1..k) = k
  BY <1>1, <1>2
<1>4. QED
  BY <1>1, <1>3

-----------------------------------------------------------------------------
(* Folds *)

(* FoldLeft chooses a function of the sets of places, `step' being what the *)
(* item at a place does.                                                    *)
ByPlaces(f, n, base, step) ==
    \A t \in SUBSET (1..n) :
       f[t] = IF t = {} THEN base ELSE step[Max(t)][f[t \ {Max(t)}]]

OverPlaces(it, n, A, base, step) ==
    /\ it[{}] = base
    /\ \A t \in SUBSET (1..n) :
          t # {} /\ it[t \ {Max(t)}] \in A => it[t] = step[Max(t)][it[t \ {Max(t)}]]

(* What becomes of `base', one item after the other.                        *)
IsRun(v, n, base, step, end) ==
    /\ v[0] = base
    /\ \A k \in 1..n : v[k] = step[k][v[k - 1]]
    /\ v[n] = end

(* A fold over the places of a sequence exists as a function of the sets of *)
(* places still to be folded.                                               *)
LEMMA FoldExists ==
    ASSUME NEW n \in Nat, NEW A, NEW base \in A, NEW step \in [1..n -> [A -> A]]
    PROVE  \E f \in [SUBSET (1..n) -> A] : ByPlaces(f, n, base, step)
<1> USE DEF ByPlaces
<1> DEFINE Right(f, m) ==
             /\ f \in [SUBSET (1..m) -> A]
             /\ \A t \in SUBSET (1..m) :
                  f[t] = IF t = {} THEN base ELSE step[Max(t)][f[t \ {Max(t)}]]
           P == {m \in 0..n : \E f : Right(f, m)}
<1>1. 0 \in P
  <2> DEFINE f == [t \in SUBSET (1..0) |-> base]
  <2>1. SUBSET (1..0) = {{}}
    OBVIOUS
  <2>2. Right(f, 0)
    BY <2>1
  <2>3. \E h : Right(h, 0)
    <3> HIDE DEF Right, f
    <3>1. QED
      BY <2>2
  <2> HIDE DEF Right
  <2>4. QED
    BY <2>3
<1>2. ASSUME NEW m \in 1..n, m - 1 \in P PROVE m \in P
  <2>1. PICK f : Right(f, m - 1)
    BY <1>2
  <2> DEFINE g == [t \in SUBSET (1..m) |->
                     IF m \in t THEN step[m][f[t \ {m}]] ELSE f[t]]
  <2>2. \A t \in SUBSET (1..m) : m \in t => Max(t) = m /\ t \ {m} \in SUBSET (1..(m - 1))
    <3> SUFFICES ASSUME NEW t \in SUBSET (1..m), m \in t
                 PROVE  Max(t) = m /\ t \ {m} \in SUBSET (1..(m - 1))
      OBVIOUS
    <3>1. m \in Nat /\ t # {}
      OBVIOUS
    <3>2. Max(t) \in t /\ \A y \in t : Max(t) >= y
      BY <3>1, MaxProperties
    <3>3. Max(t) \in 1..m /\ Max(t) >= m
      BY <3>2
    <3>4. Max(t) = m
      BY <3>1, <3>3
    <3>5. t \ {m} \in SUBSET (1..(m - 1))
      OBVIOUS
    <3>6. QED
      BY <3>4, <3>5
  <2>3. \A t \in SUBSET (1..m) : m \notin t => t \in SUBSET (1..(m - 1))
    OBVIOUS
  <2>4. \A t \in SUBSET (1..m) : g[t] \in A
    <3> SUFFICES ASSUME NEW t \in SUBSET (1..m) PROVE g[t] \in A
      OBVIOUS
    <3>1. CASE m \in t
      <4>1. f[t \ {m}] \in A
        BY <2>1, <2>2, <3>1
      <4>2. step[m][f[t \ {m}]] \in A
        BY <4>1
      <4>3. QED
        BY <3>1, <4>2
    <3>2. CASE m \notin t
      BY <2>1, <2>3, <3>2
    <3>3. QED
      BY <3>1, <3>2
  <2>5. \A t \in SUBSET (1..m) :
          g[t] = IF t = {} THEN base ELSE step[Max(t)][g[t \ {Max(t)}]]
    <3> SUFFICES ASSUME NEW t \in SUBSET (1..m)
                 PROVE  g[t] = IF t = {} THEN base
                               ELSE step[Max(t)][g[t \ {Max(t)}]]
      OBVIOUS
    <3>1. CASE m \in t
      <4>1. Max(t) = m /\ t \ {m} \in SUBSET (1..(m - 1)) /\ t # {}
        BY <2>2, <3>1
      <4>2. t \ {m} \in SUBSET (1..m) /\ m \notin t \ {m}
        OBVIOUS
      <4>3. g[t \ {m}] = f[t \ {m}]
        BY <4>2
      <4>4. g[t] = step[m][f[t \ {m}]]
        BY <3>1
      <4>5. QED
        BY <4>1, <4>3, <4>4
    <3>2. CASE m \notin t /\ t # {}
      <4>1. t \in SUBSET (1..(m - 1))
        BY <2>3, <3>2
      <4>2. Max(t) \in t
        <5>1. m \in Nat
          OBVIOUS
        <5>2. QED
          BY <3>2, <5>1, MaxProperties
      <4>3. t \ {Max(t)} \in SUBSET (1..m) /\ m \notin t \ {Max(t)}
        BY <3>2
      <4>4. g[t] = f[t] /\ g[t \ {Max(t)}] = f[t \ {Max(t)}]
        BY <3>2, <4>3
      <4>5. f[t] = step[Max(t)][f[t \ {Max(t)}]]
        BY <2>1, <3>2, <4>1
      <4>6. QED
        BY <3>2, <4>4, <4>5
    <3>3. CASE t = {}
      <4>1. {} \in SUBSET (1..(m - 1)) /\ m \notin {}
        OBVIOUS
      <4>2. f[{}] = base
        BY <2>1, <4>1
      <4>3. QED
        BY <3>3, <4>2
    <3>4. QED
      BY <3>1, <3>2, <3>3
  <2>6. Right(g, m)
    <3>1. g = [t \in SUBSET (1..m) |-> g[t]]
      OBVIOUS
    <3> HIDE DEF g
    <3>2. g \in [SUBSET (1..m) -> A]
      BY <2>4, <3>1
    <3>3. QED
      BY <2>5, <3>1, <3>2
  <2>7. \E h : Right(h, m)
    <3> HIDE DEF Right, g
    <3>1. QED
      BY <2>6
  <2> HIDE DEF Right
  <2>8. QED
    BY <2>7
<1>3. n \in P
  <2> HIDE DEF P
  <2>1. \A i \in 0..n : i \in P
    BY <1>1, <1>2, Induction
  <2>2. QED
    BY <2>1
<1>4. QED
  BY <1>3

(* What that function makes of the first items, one after the other.       *)
LEMMA FoldChain ==
    ASSUME NEW n \in Nat, NEW A, NEW base \in A, NEW step \in [1..n -> [A -> A]],
           NEW it, OverPlaces(it, n, A, base, step)
    PROVE  \E v \in [0..n -> A] : IsRun(v, n, base, step, it[1..n])
<1> USE DEF IsRun, OverPlaces
<1> DEFINE v == [k \in 0..n |-> it[1..k]]
<1>1. v[0] = base
  <2>1. 1..0 = {}
    OBVIOUS
  <2>2. QED
    BY <2>1
<1>2. \A k \in 1..n : v[k - 1] \in A => v[k] = step[k][v[k - 1]]
  <2> SUFFICES ASSUME NEW k \in 1..n, v[k - 1] \in A PROVE v[k] = step[k][v[k - 1]]
    OBVIOUS
  <2>1. 1..k \in SUBSET (1..n) /\ 1..k # {} /\ Max(1..k) = k
        /\ (1..k) \ {Max(1..k)} = 1..(k - 1)
    BY PrefixMax
  <2>2. v[k - 1] = it[1..(k - 1)] /\ v[k] = it[1..k]
    OBVIOUS
  <2> HIDE DEF v
  <2>3. QED
    BY <2>1, <2>2
<1>3. \A k \in 0..n : v[k] \in A
  <2> DEFINE P == {k \in 0..n : v[k] \in A}
  <2> HIDE DEF v
  <2>1. 0 \in P
    BY <1>1
  <2>2. \A i \in 1..n : i - 1 \in P => i \in P
    BY <1>2
  <2> HIDE DEF P
  <2>3. \A i \in 0..n : i \in P
    BY <2>1, <2>2, Induction
  <2>4. QED
    BY <2>3 DEF P
<1>4. v \in [0..n -> A] /\ v[n] = it[1..n]
  BY <1>3
<1> HIDE DEF v
<1>5. \A k \in 1..n : v[k] = step[k][v[k - 1]]
  BY <1>2, <1>3
<1>6. QED
  BY <1>1, <1>4, <1>5

(* Sums *)

(* A packet has a number of rows. *)
LEMMA PacketRows ==
    ASSUME NEW p \in Packet
    PROVE  p.rows \in Int
<1>1. p.rows \in RowCounts
  BY DEF Packet
<1>2. RowCounts \subseteq Int
  BY WriterAssumption
<1>3. QED
  BY <1>1, <1>2

(* The partial sums of the rows of a sequence of packets. *)
SumsUp(v, q) ==
    /\ v \in [0..Len(q) -> Int]
    /\ v[0] = 0
    /\ \A k \in 1..Len(q) : v[k] = v[k - 1] + q[k].rows
    /\ v[Len(q)] = RowsOf(q)

(* The rows of packets are the last of their partial sums. *)
LEMMA PartialSums ==
    ASSUME NEW q \in Seq(Packet)
    PROVE  \E v : SumsUp(v, q)
<1> DEFINE n == Len(q)
           step == [k \in 1..n |-> [x \in Int |-> x + q[k].rows]]
           Eq(f) == [t \in SUBSET (1..n) |->
                       IF t = {} THEN 0 ELSE f[t \ {Max(t)}] + q[Max(t)].rows]
           it == CHOOSE f : f = Eq(f)
<1>1. n \in Nat /\ DOMAIN q = 1..n /\ (\A k \in 1..n : q[k].rows \in Int) /\ 0 \in Int
  <2>1. \A k \in 1..n : q[k] \in Packet
    BY ElementOfSeq
  <2>2. QED
    BY <2>1, LenProperties, PacketRows
<1>2. step \in [1..n -> [Int -> Int]]
  BY <1>1
<1>3. \A k \in 1..n : \A x \in Int : step[k][x] = x + q[k].rows
  OBVIOUS
<1> HIDE DEF n, step
<1>4. \E f : f = Eq(f)
  <2>1. PICK f \in [SUBSET (1..n) -> Int] : ByPlaces(f, n, 0, step)
    BY <1>1, <1>2, FoldExists, Zenon
  <2>2. \A t \in SUBSET (1..n) :
           f[t] = IF t = {} THEN 0 ELSE f[t \ {Max(t)}] + q[Max(t)].rows
    <3> SUFFICES ASSUME NEW t \in SUBSET (1..n), t # {}
                 PROVE  f[t] = f[t \ {Max(t)}] + q[Max(t)].rows
      BY <2>1 DEF ByPlaces
    <3>1. Max(t) \in 1..n /\ f[t \ {Max(t)}] \in Int
      BY <1>1, MaxProperties
    <3>2. QED
      BY <1>3, <2>1, <3>1 DEF ByPlaces
  <2>3. f = Eq(f)
    BY <2>2
  <2>4. QED
    BY <2>3
<1>5. it = Eq(it)
  BY <1>4
<1>6. RowsOf(q) = it[1..n]
  BY <1>1 DEF RowsOf, FoldLeft, MapThenFoldSet
<1> HIDE DEF it
<1>7. it[{}] = 0
  BY <1>5
<1>8. ASSUME NEW t \in SUBSET (1..n), t # {}, it[t \ {Max(t)}] \in Int
      PROVE  it[t] = step[Max(t)][it[t \ {Max(t)}]]
  <2>1. Max(t) \in 1..n
    BY <1>1, <1>8, MaxProperties
  <2>2. it[t] = it[t \ {Max(t)}] + q[Max(t)].rows
    BY <1>5, <1>8
  <2>3. QED
    BY <1>3, <1>8, <2>1, <2>2
<1>9. PICK v \in [0..n -> Int] : IsRun(v, n, 0, step, it[1..n])
  <2>1. OverPlaces(it, n, Int, 0, step)
    BY <1>7, <1>8 DEF OverPlaces
  <2>2. QED
    BY <1>1, <1>2, <2>1, FoldChain, Zenon
<1>10. ASSUME NEW k \in 1..n PROVE v[k] = v[k - 1] + q[k].rows
  <2>1. k - 1 \in 0..n
    BY <1>1
  <2>2. v[k - 1] \in Int
    BY <1>9, <2>1
  <2>3. QED
    BY <1>3, <1>9, <2>2 DEF IsRun
<1>11. SumsUp(v, q)
  BY <1>6, <1>9, <1>10 DEF n, IsRun, SumsUp
<1>12. QED
  BY <1>11

(* Their number is an integer. *)
LEMMA RowsOfType ==
    ASSUME NEW q \in Seq(Packet) PROVE RowsOf(q) \in Int
<1>1. PICK v : SumsUp(v, q)
  BY PartialSums
<1>2. Len(q) \in 0..Len(q)
  BY LenProperties
<1>3. QED
  BY <1>1, <1>2 DEF SumsUp

(* The rows of two sequences of packets, one after the other.               *)
LEMMA RowsOfConcat ==
    ASSUME NEW p \in Seq(Packet), NEW q \in Seq(Packet)
    PROVE  RowsOf(p \o q) = RowsOf(p) + RowsOf(q)
<1> DEFINE m == Len(p)
           n == Len(q)
<1>1. m \in Nat /\ n \in Nat
  BY LenProperties
<1>2. /\ p \o q \in Seq(Packet) /\ Len(p \o q) = m + n
      /\ \A i \in 1..(m + n) : (p \o q)[i] = IF i <= m THEN p[i] ELSE q[i - m]
  BY ConcatProperties
<1>3. PICK v : SumsUp(v, p)
  BY PartialSums
<1>4. PICK w : SumsUp(w, q)
  BY PartialSums
<1>5. PICK u : SumsUp(u, p \o q)
  BY <1>2, PartialSums
<1> HIDE DEF m, n
<1>6. /\ v[0] = 0 /\ (\A k \in 0..m : v[k] \in Int)
      /\ (\A k \in 1..m : v[k] = v[k - 1] + p[k].rows) /\ v[m] = RowsOf(p)
  BY <1>3 DEF SumsUp, m
<1>7. /\ w[0] = 0 /\ (\A k \in 0..n : w[k] \in Int)
      /\ (\A k \in 1..n : w[k] = w[k - 1] + q[k].rows) /\ w[n] = RowsOf(q)
  BY <1>4 DEF SumsUp, n
<1>8. /\ u[0] = 0 /\ (\A k \in 0..(m + n) : u[k] \in Int)
      /\ \A k \in 1..(m + n) : u[k] = u[k - 1] + (IF k <= m THEN p[k].rows ELSE q[k - m].rows)
      /\ u[m + n] = RowsOf(p \o q)
  <2>1. u \in [0..(m + n) -> Int] /\ u[0] = 0 /\ u[m + n] = RowsOf(p \o q)
    BY <1>2, <1>5 DEF SumsUp
  <2>2. \A k \in 1..(m + n) : u[k] = u[k - 1] + (p \o q)[k].rows
    BY <1>2, <1>5 DEF SumsUp
  <2>3. QED
    BY <1>2, <2>1, <2>2
<1> DEFINE P == {k \in 0..m : u[k] = v[k]}
           Q == {k \in 0..n : u[m + k] = v[m] + w[k]}
<1>9. \A k \in 0..m : k \in P
  <2>1. 0 \in P
    BY <1>1, <1>6, <1>8
  <2>2. ASSUME NEW k \in 1..m, k - 1 \in P PROVE k \in P
    <3>1. k \in 1..(m + n) /\ k <= m /\ k \in 0..m
      BY <1>1
    <3>2. u[k] = u[k - 1] + p[k].rows /\ v[k] = v[k - 1] + p[k].rows /\ u[k - 1] = v[k - 1]
      BY <1>6, <1>8, <2>2, <3>1
    <3>3. QED
      BY <3>1, <3>2
  <2> HIDE DEF P
  <2>3. QED
    BY <1>1, <2>1, <2>2, Induction
<1>10. \A k \in 0..n : k \in Q
  <2>1. 0 \in Q
    <3>1. m \in P
      <4> HIDE DEF P
      <4>1. QED
        BY <1>1, <1>9
    <3>2. u[m + 0] = v[m] /\ v[m] \in Int
      BY <1>1, <1>6, <3>1
    <3>3. QED
      BY <1>1, <1>7, <3>2
  <2>2. ASSUME NEW k \in 1..n, k - 1 \in Q PROVE k \in Q
    <3>1. m + k \in 1..(m + n) /\ ~(m + k <= m) /\ k \in 0..n /\ k - 1 \in 0..n
          /\ (m + k) - 1 = m + (k - 1) /\ (m + k) - m = k
      BY <1>1
    <3>2. u[m + k] = u[m + (k - 1)] + q[k].rows /\ w[k] = w[k - 1] + q[k].rows
      BY <1>7, <1>8, <3>1
    <3>3. u[m + (k - 1)] = v[m] + w[k - 1]
      BY <2>2
    <3>4. q[k].rows \in Int /\ v[m] \in Int /\ w[k - 1] \in Int
      <4>1. q[k] \in Packet
        BY ElementOfSeq DEF n
      <4>2. q[k].rows \in Int
        BY <4>1, PacketRows
      <4>3. m \in 0..m /\ k - 1 \in 0..n
        BY <1>1, <3>1
      <4>4. QED
        BY <1>6, <1>7, <4>2, <4>3
    <3>5. u[m + k] = v[m] + w[k]
      BY <3>2, <3>3, <3>4
    <3>6. QED
      BY <3>1, <3>5
  <2> HIDE DEF Q
  <2>3. QED
    BY <1>1, <2>1, <2>2, Induction
<1>11. n \in Q
  BY <1>1, <1>10
<1>12. QED
  BY <1>6, <1>7, <1>8, <1>11

(* No packets have no rows, and one packet its own. *)
LEMMA RowsOfOne ==
    /\ RowsOf(<< >>) = 0
    /\ \A p \in Packet : RowsOf(<<p>>) = p.rows
<1>1. << >> \in Seq(Packet) /\ Len(<< >>) = 0
  BY EmptySeq
<1>2. RowsOf(<< >>) = 0
  <2>1. PICK v : SumsUp(v, << >>)
    BY <1>1, PartialSums
  <2>2. QED
    BY <1>1, <2>1 DEF SumsUp
<1>3. ASSUME NEW p \in Packet PROVE RowsOf(<<p>>) = p.rows
  <2> DEFINE q == <<p>>
  <2>1. q \in Seq(Packet) /\ Len(q) = 1 /\ q[1] = p /\ p.rows \in Int
    BY PacketRows
  <2> HIDE DEF q
  <2>2. PICK v : SumsUp(v, q)
    BY <2>1, PartialSums
  <2>3. v[0] = 0 /\ v[1] = v[1 - 1] + q[1].rows /\ v[1] = RowsOf(q)
    BY <2>1, <2>2 DEF SumsUp
  <2>4. RowsOf(q) = p.rows
    BY <2>1, <2>3
  <2>5. QED
    BY <2>4 DEF q
<1>4. QED
  BY <1>2, <1>3

(* Dropping the first k packets of a queue drops their rows. *)
LEMMA RowsOfParts ==
    ASSUME NEW q \in Seq(Packet), NEW k \in 0..Len(q)
    PROVE  /\ RowsOf(SubSeq(q, 1, k)) \in Int
           /\ RowsOf(q) = RowsOf(SubSeq(q, 1, k)) + RowsOf(SubSeq(q, k + 1, Len(q)))
<1> DEFINE n == Len(q)
           old == SubSeq(q, 1, k)
           new == SubSeq(q, k + 1, n)
<1>1. n \in Nat /\ k \in 0..n /\ (\A i \in 1..n : q[i] \in Packet)
  BY LenProperties, ElementOfSeq
<1> HIDE DEF n
<1>2. old \in Seq(Packet)
  <2>1. \A i \in 1..k : q[i] \in Packet
    BY <1>1
  <2>2. QED
    BY <1>1, <2>1, SubSeqProperties
<1>3. new \in Seq(Packet)
  <2>1. \A i \in (k + 1)..n : q[i] \in Packet
    BY <1>1
  <2>2. QED
    BY <1>1, <2>1, SubSeqProperties
<1>4. old \o new = q
  <2>1. SubSeq(q, 1, k) \o SubSeq(q, k + 1, n) = SubSeq(q, 1, n)
    <3>1. 1 \in 1..(n + 1) /\ k \in (1 - 1)..n /\ n \in k..n
      BY <1>1
    <3>2. QED
      BY <3>1, ConcatAdjacentSubSeq DEF n
  <2>2. SubSeq(q, 1, n) = q
    BY SubSeqFull DEF n
  <2>3. QED
    BY <2>1, <2>2
<1> HIDE DEF old, new
<1>5. RowsOf(old) \in Int /\ RowsOf(old \o new) = RowsOf(old) + RowsOf(new)
  BY <1>2, <1>3, RowsOfType, RowsOfConcat
<1>6. QED
  BY <1>4, <1>5 DEF old, new, n

------------------------------------------------------------------------------
(* submit                                                                   *)

\* submit drops some of the oldest packets, but never the newest.
LEMMA ExcessRange ==
    ASSUME NEW all \in Seq(Packet), all # << >>, NEW rows
    PROVE  Excess(all, rows) \in 0..(Len(all) - 1)
<1> DEFINE enough(k) == \/ k = Len(all) - 1
                        \/ rows - RowsOf(SubSeq(all, 1, k)) <= MaxPendingRows
           T == {k \in 0..(Len(all) - 1) : enough(k)}
<1>1. Len(all) \in Nat \ {0}
  BY EmptySeq
<1>2. Len(all) - 1 \in T /\ T \in SUBSET Nat
  BY <1>1
<1>3. PICK k \in T : \A j \in T : k <= j
  BY <1>2, MinProperties
<1> HIDE DEF enough
<1>4. \A j \in 0..(k - 1) : ~enough(j)
  BY <1>1, <1>3
<1>5. \E m \in 0..(Len(all) - 1) : enough(m) /\ \A j \in 0..(m - 1) : ~enough(j)
  BY <1>3, <1>4
<1>6. Excess(all, rows)
        = CHOOSE m \in 0..(Len(all) - 1) : enough(m) /\ \A j \in 0..(m - 1) : ~enough(j)
  BY DEF Excess, enough
<1> QED BY <1>5, <1>6

\* What is left of a queue without its first k packets.
LEMMA DropFirst ==
    ASSUME NEW q \in Seq(Packet), NEW k \in 0..Len(q)
    PROVE  /\ SubSeq(q, k + 1, Len(q)) \in Seq(Packet)
           /\ DOMAIN SubSeq(q, k + 1, Len(q)) = 1..(Len(q) - k)
           /\ \A i \in 1..(Len(q) - k) : SubSeq(q, k + 1, Len(q))[i] = q[i + k]
<1>1. Len(q) \in Nat /\ \A i \in 1..Len(q) : q[i] \in Packet
  BY LenProperties, ElementOfSeq
<1>2. \A i \in (k + 1)..Len(q) : q[i] \in Packet
  BY <1>1
<1>3. k + 1 \in Int /\ Len(q) \in Int
  BY <1>1
<1> DEFINE s == SubSeq(q, k + 1, Len(q))
<1>4. /\ s \in Seq(Packet)
      /\ Len(s) = IF k + 1 <= Len(q) THEN Len(q) - (k + 1) + 1 ELSE 0
      /\ \A i \in 1..(Len(q) - (k + 1) + 1) : s[i] = q[k + 1 + i - 1]
  BY <1>2, <1>3, SubSeqProperties
<1> HIDE DEF s
<1>5. Len(s) = Len(q) - k /\ \A i \in 1..(Len(q) - k) : s[i] = q[i + k]
  BY <1>1, <1>4
<1>6. DOMAIN s = 1..Len(s)
  BY <1>4, LenProperties
<1> QED BY <1>4, <1>5, <1>6 DEF s

LEMMA SubmitStep ==
    ASSUME WriterInv, NEW n \in RowCounts, Submit(n)
    PROVE  WriterInv'
<1> DEFINE new == [id |-> submitted + 1, rows |-> n]
           all == Append(pending, new)
           k == Excess(all, pendingRows + n)
<1>1. /\ submitted \in Nat /\ submitted' = submitted + 1 /\ submitted' \in 0..MaxSubmitted
      /\ open /\ pending \in Seq(Packet) /\ new \in Packet
      /\ UNCHANGED <<open, stopping, task, batch, outcome, stored>>
  BY WriterAssumption DEF WriterInv, TypeOK, Submit, Packet
<1>2. /\ all \in Seq(Packet) /\ Len(all) = Len(pending) + 1 /\ Len(pending) \in Nat
      /\ \A i \in 1..Len(pending) : all[i] = pending[i]
      /\ all[Len(pending) + 1] = new /\ all # << >>
  BY <1>1, AppendProperties, LenProperties
<1>3. k \in 0..(Len(all) - 1)
  BY <1>2, ExcessRange
<1>4. pending' = SubSeq(all, k + 1, Len(all))
  BY DEF Submit
<1>5. DOMAIN pending = 1..Len(pending)
  BY <1>1, LenProperties
<1> HIDE DEF k, all
<1>6. /\ pending' \in Seq(Packet)
      /\ DOMAIN pending' = 1..(Len(all) - k)
      /\ \A i \in 1..(Len(all) - k) : pending'[i] = all[i + k]
  BY <1>2, <1>3, <1>4, DropFirst
\* Each packet that waits now waited before, or is the new one.
<1>7. \A i \in DOMAIN pending' :
         \/ i + k \in DOMAIN pending /\ pending'[i] = pending[i + k]
         \/ i + k = Len(pending) + 1 /\ pending'[i].id = submitted + 1
  BY <1>2, <1>3, <1>5, <1>6 DEF new
<1>8. \A i \in DOMAIN pending : pending[i].id \in Nat /\ pending[i].id <= submitted
  <2>1. \A i \in 1..Len(pending) : pending[i] \in Packet
    BY <1>1, ElementOfSeq
  <2> QED BY <1>5, <2>1 DEF WriterInv, InOrder, Packet
<1>9. \A i \in DOMAIN batch : batch[i].id \in Nat /\ batch[i].id <= submitted
  <2>1. DOMAIN batch = 1..Len(batch) /\ \A i \in 1..Len(batch) : batch[i] \in Packet
    BY LenProperties, ElementOfSeq DEF WriterInv, TypeOK
  <2> QED BY <2>1 DEF WriterInv, InOrder, Packet
<1>10. \A i \in DOMAIN stored : stored[i] \in Nat /\ stored[i] <= submitted
  <2>1. DOMAIN stored = 1..Len(stored) /\ \A i \in 1..Len(stored) : stored[i] \in 1..MaxSubmitted
    BY LenProperties, ElementOfSeq DEF WriterInv, TypeOK
  <2> QED BY <2>1 DEF WriterInv, InOrder
<1>11. TypeOK'
  BY <1>1, <1>6 DEF WriterInv, TypeOK, Submit
<1>12. InOrder'
  <2>1. Rising(pending)'
    <3> SUFFICES ASSUME NEW i \in DOMAIN pending', NEW j \in DOMAIN pending', i < j
                 PROVE  pending'[i].id < pending'[j].id
      BY DEF Rising
    <3>1. i \in Int /\ j \in Int /\ k \in Int /\ i + k < j + k
      BY <1>3, <1>6
    <3>2. i + k \in DOMAIN pending /\ pending'[i] = pending[i + k]
      BY <1>2, <1>3, <1>5, <1>6, <3>1
    <3>3. CASE j + k \in DOMAIN pending /\ pending'[j] = pending[j + k]
      BY <3>1, <3>2, <3>3 DEF WriterInv, InOrder, Rising
    <3>4. CASE pending'[j].id = submitted + 1
      <4>1. pending[i + k].id \in Nat /\ pending[i + k].id <= submitted
        BY <1>8, <3>2
      <4> QED BY <1>1, <3>2, <3>4, <4>1
    <3> QED BY <1>7, <3>3, <3>4
  <2>2. \A i \in DOMAIN batch, j \in DOMAIN pending' : batch[i].id < pending'[j].id
    BY <1>1, <1>7, <1>9 DEF WriterInv, InOrder
  <2>3. \A i \in DOMAIN stored, j \in DOMAIN pending' : stored[i] < pending'[j].id
    BY <1>1, <1>7, <1>10 DEF WriterInv, InOrder
  <2>4. \A i \in DOMAIN pending' : pending'[i].id <= submitted'
    BY <1>1, <1>7, <1>8
  <2>5. /\ \A i \in DOMAIN batch : batch[i].id <= submitted'
        /\ \A i \in DOMAIN stored : stored[i] <= submitted'
    BY <1>1, <1>9, <1>10
  <2> QED BY <1>1, <2>1, <2>2, <2>3, <2>4, <2>5 DEF WriterInv, InOrder, Rising
<1>13. LastWrite'
  BY <1>1 DEF WriterInv, LastWrite
<1> QED BY <1>11, <1>12, <1>13 DEF WriterInv

------------------------------------------------------------------------------
(* run, flush and the thread                                                *)

\* What the task does between two awaits: it takes all that waits as the next
\* batch, or has none.
LEMMA TaskStep ==
    ASSUME WriterInv, outcome' = "none", wakeup' \in BOOLEAN,
           UNCHANGED <<open, stopping, submitted, stored>>,
           \/ LoopHead
           \/ task' = "flushing" /\ TakeBatch
           \/ task = "draining" /\ task' = "stopped" /\ batch' = << >> /\ pending' = pending
    PROVE  WriterInv'
<1>1. \/ /\ task' \in {"flushing", "draining"}
         /\ batch' = pending /\ pending' = << >>
      \/ /\ task' \in {"waiting", "stopped"}
         /\ batch' = << >> /\ pending' = pending
  BY DEF LoopHead, TakeBatch
<1>2. task' \in {"draining", "stopped"} => stopping /\ pending' = << >>
  BY DEF WriterInv, LastWrite, LoopHead, TakeBatch
<1>3. << >> \in Seq(Packet) /\ DOMAIN << >> = {}
  BY EmptySeq
<1>4. TypeOK'
  <2>1. open' \in BOOLEAN /\ wakeup' \in BOOLEAN /\ stopping' \in BOOLEAN
    BY DEF WriterInv, TypeOK
  <2>2. /\ task' \in {"created", "waiting", "flushing", "draining", "stopped"}
        /\ outcome' \in {"none", "committed", "failed"}
    BY <1>1
  <2>3. /\ pending' \in Seq(Packet) /\ batch' \in Seq(Packet)
        /\ submitted' \in 0..MaxSubmitted /\ stored' \in Seq(1..MaxSubmitted)
    BY <1>1, <1>3 DEF WriterInv, TypeOK
  <2> QED BY <2>1, <2>2, <2>3 DEF TypeOK
<1>5. InOrder'
  BY <1>1, <1>3 DEF WriterInv, InOrder, Rising
<1>6. LastWrite'
  <2>1. stopping' = stopping /\ open' = open /\ (stopping => ~open)
    BY DEF WriterInv, LastWrite
  <2>2. task' \in {"draining", "stopped"} => stopping' /\ pending' = << >>
    BY <1>2, <2>1
  <2>3. /\ outcome' # "none" => task' \in {"flushing", "draining"}
        /\ task' \notin {"flushing", "draining"} => batch' = << >>
    BY <1>1
  <2> QED BY <2>1, <2>2, <2>3 DEF LastWrite
<1> QED BY <1>4, <1>5, <1>6 DEF WriterInv

LEMMA CommitStep ==
    ASSUME WriterInv, Commit
    PROVE  WriterInv'
<1>1. /\ outcome = "none" /\ outcome' = "committed" /\ task \in {"flushing", "draining"}
      /\ stored' = stored \o Ids(batch)
      /\ UNCHANGED <<open, pending, wakeup, stopping, task, batch, submitted>>
  BY DEF Commit, Writing
<1> DEFINE ids == Ids(batch)
<1>2. /\ DOMAIN batch = 1..Len(batch) /\ Len(batch) \in Nat
      /\ \A i \in 1..Len(batch) : batch[i].id \in 1..MaxSubmitted
  <2>1. batch \in Seq(Packet)
    BY DEF WriterInv, TypeOK
  <2>2. \A i \in 1..Len(batch) : batch[i] \in Packet
    BY <2>1, ElementOfSeq
  <2> QED BY <2>1, <2>2, LenProperties DEF Packet
<1>3. /\ ids \in Seq(1..MaxSubmitted) /\ Len(ids) = Len(batch)
      /\ \A i \in 1..Len(batch) : ids[i] = batch[i].id
  BY <1>2 DEF Ids
<1> HIDE DEF ids
<1>4. /\ stored \in Seq(1..MaxSubmitted) /\ Len(stored) \in Nat
      /\ DOMAIN stored = 1..Len(stored)
      /\ \A i \in 1..Len(stored) : stored[i] \in 1..MaxSubmitted
  BY LenProperties, ElementOfSeq DEF WriterInv, TypeOK
<1>5. /\ stored' \in Seq(1..MaxSubmitted)
      /\ Len(stored') = Len(stored) + Len(batch)
      /\ \A i \in 1..(Len(stored) + Len(batch)) :
            stored'[i] = IF i <= Len(stored) THEN stored[i] ELSE ids[i - Len(stored)]
  <2>1. stored' = stored \o ids
    BY <1>1 DEF ids
  <2>2. /\ stored \o ids \in Seq(1..MaxSubmitted)
        /\ Len(stored \o ids) = Len(stored) + Len(ids)
        /\ \A i \in 1..(Len(stored) + Len(ids)) :
              (stored \o ids)[i] = IF i <= Len(stored) THEN stored[i]
                                  ELSE ids[i - Len(stored)]
    BY <1>3, <1>4, ConcatProperties
  <2> QED BY <1>3, <2>1, <2>2
<1>6. DOMAIN stored' = 1..(Len(stored) + Len(batch))
  BY <1>5, LenProperties
<1>7. \A i \in DOMAIN stored' :
         \/ i \in DOMAIN stored /\ stored'[i] = stored[i]
         \/ /\ i > Len(stored) /\ i - Len(stored) \in DOMAIN batch
            /\ stored'[i] = batch[i - Len(stored)].id
  <2> SUFFICES ASSUME NEW i \in 1..(Len(stored) + Len(batch))
               PROVE  \/ i \in 1..Len(stored) /\ stored'[i] = stored[i]
                      \/ /\ i > Len(stored) /\ i - Len(stored) \in 1..Len(batch)
                         /\ stored'[i] = batch[i - Len(stored)].id
    BY <1>2, <1>4, <1>6
  <2>1. CASE i <= Len(stored)
    BY <1>2, <1>4, <1>5, <2>1
  <2>2. CASE ~(i <= Len(stored))
    <3>1. i > Len(stored) /\ i - Len(stored) \in 1..Len(batch)
      BY <1>2, <1>4, <2>2
    <3> QED BY <1>3, <1>5, <2>2, <3>1
  <2> QED BY <2>1, <2>2
<1>8. TypeOK'
  BY <1>1, <1>5 DEF WriterInv, TypeOK
<1>9. InOrder'
  <2>1. \A i, j \in DOMAIN stored' : i < j => stored'[i] < stored'[j]
    <3> SUFFICES ASSUME NEW i \in DOMAIN stored', NEW j \in DOMAIN stored', i < j
                 PROVE  stored'[i] < stored'[j]
      OBVIOUS
    <3>1. i \in Int /\ j \in Int /\ Len(stored) \in Int
      BY <1>4, <1>6
    <3>2. CASE j \in DOMAIN stored /\ stored'[j] = stored[j]
      BY <1>4, <1>7, <3>1, <3>2 DEF WriterInv, InOrder
    <3>3. CASE /\ j > Len(stored) /\ j - Len(stored) \in DOMAIN batch
               /\ stored'[j] = batch[j - Len(stored)].id
      <4>1. CASE i \in DOMAIN stored /\ stored'[i] = stored[i]
        BY <1>1, <3>3, <4>1 DEF WriterInv, InOrder
      <4>2. CASE /\ i > Len(stored) /\ i - Len(stored) \in DOMAIN batch
                 /\ stored'[i] = batch[i - Len(stored)].id
        <5>1. i - Len(stored) < j - Len(stored)
          BY <3>1
        <5> QED BY <3>3, <4>2, <5>1 DEF WriterInv, InOrder, Rising
      <4> QED BY <1>7, <4>1, <4>2
    <3> QED BY <1>7, <3>2, <3>3
  <2>2. \A i \in DOMAIN stored', j \in DOMAIN pending : stored'[i] < pending[j].id
    BY <1>7 DEF WriterInv, InOrder
  <2>3. \A i \in DOMAIN stored' : stored'[i] <= submitted
    BY <1>7 DEF WriterInv, InOrder
  <2> QED BY <1>1, <2>1, <2>2, <2>3 DEF WriterInv, InOrder, Rising
<1>10. LastWrite'
  BY <1>1 DEF WriterInv, LastWrite
<1> QED BY <1>8, <1>9, <1>10 DEF WriterInv

------------------------------------------------------------------------------
(* The theorems                                                             *)

LEMMA WriterInvInit == Init => WriterInv
<1>1. << >> \in Seq(Packet) /\ << >> \in Seq(1..MaxSubmitted) /\ DOMAIN << >> = {}
  BY EmptySeq
<1>2. Init => TypeOK
  <2> SUFFICES ASSUME Init PROVE TypeOK
    OBVIOUS
  <2>1. open \in BOOLEAN /\ wakeup \in BOOLEAN /\ stopping \in BOOLEAN
    BY DEF Init
  <2>2. submitted \in 0..MaxSubmitted
    BY WriterAssumption DEF Init
  <2> QED BY <1>1, <2>1, <2>2 DEF Init, TypeOK
<1>3. Init => InOrder /\ LastWrite
  BY <1>1 DEF Init, InOrder, Rising, LastWrite
<1> QED BY <1>2, <1>3 DEF WriterInv

\* WriterInv holds at all times.
THEOREM WriterInvariance == Spec => []WriterInv
<1>1. WriterInv /\ [Next]_vars => WriterInv'
  <2> SUFFICES ASSUME WriterInv, [Next]_vars PROVE WriterInv'
    OBVIOUS
  <2> USE DEF TypeOK, LastWrite
  <2>1. ASSUME NEW n \in RowCounts, Submit(n) PROVE WriterInv'
    BY <2>1, SubmitStep
  <2>2. CASE Run
    BY <2>2, TaskStep DEF Run, WriterInv
  <2>3. CASE Wake \/ TimeOut
    BY <2>3, TaskStep DEF Wake, TimeOut, AfterWait, WriterInv
  <2>4. CASE Resume
    <3>1. \/ LoopHead
          \/ task = "draining" /\ task' = "stopped" /\ batch' = << >> /\ pending' = pending
      BY <2>4 DEF Resume, WriterInv
    <3> QED BY <2>4, <3>1, TaskStep DEF Resume, WriterInv
  <2>5. CASE Commit
    BY <2>5, CommitStep
  <2>6. CASE Fail
    BY <2>6 DEF Fail, Writing, WriterInv, InOrder, Rising
  <2>7. CASE CloseTransport \/ RequestStop
    <3>1. /\ open' \in BOOLEAN /\ wakeup' \in BOOLEAN /\ stopping' \in BOOLEAN
          /\ UNCHANGED <<pending, task, batch, outcome, submitted, stored>>
          /\ stopping' => ~open'
          /\ stopping => stopping'
      <4>1. CASE CloseTransport
        BY <4>1 DEF CloseTransport, WriterInv
      <4>2. CASE RequestStop
        BY <4>2 DEF RequestStop, WriterInv
      <4> QED BY <2>7, <4>1, <4>2
    <3>2. TypeOK'
      BY <3>1 DEF WriterInv
    <3>3. InOrder'
      BY <3>1 DEF WriterInv, InOrder, Rising
    <3>4. LastWrite'
      BY <3>1 DEF WriterInv
    <3> QED BY <3>2, <3>3, <3>4 DEF WriterInv
  <2>8. CASE UNCHANGED vars
    BY <2>8 DEF vars, WriterInv, InOrder, Rising
  <2> QED BY <2>1, <2>2, <2>3, <2>4, <2>5, <2>6, <2>7, <2>8 DEF Next
<1> QED BY <1>1, WriterInvInit, PTL DEF Spec

\* What reaches the database comes in the order of arrival and once, whatever
\* fails or is dropped (TelemetryWriter.flush and submit of ingest/writer.py).
THEOREM CommitsInOrder == Spec => []WrittenInOrder
<1>1. WriterInv => WrittenInOrder
  <2> SUFFICES ASSUME WriterInv, outcome # "committed", NEW i \in DOMAIN stored,
                      NEW p \in ToSet(batch \o pending)
               PROVE  stored[i] < p.id
    BY DEF WriterInv, InOrder, WrittenInOrder
  <2>1. /\ batch \in Seq(Packet) /\ pending \in Seq(Packet)
        /\ DOMAIN batch = 1..Len(batch) /\ DOMAIN pending = 1..Len(pending)
        /\ Len(batch) \in Nat /\ Len(pending) \in Nat
    BY LenProperties DEF WriterInv, TypeOK
  <2> DEFINE q == batch \o pending
  <2>2. /\ q \in Seq(Packet) /\ Len(q) = Len(batch) + Len(pending)
        /\ \A j \in 1..(Len(batch) + Len(pending)) :
              q[j] = IF j <= Len(batch) THEN batch[j] ELSE pending[j - Len(batch)]
    BY <2>1, ConcatProperties
  <2>3. DOMAIN q = 1..(Len(batch) + Len(pending))
    BY <2>2, LenProperties
  <2> HIDE DEF q
  <2>4. PICK j \in DOMAIN q : p = q[j]
    BY DEF ToSet, q
  <2>5. \/ j \in DOMAIN batch /\ p = batch[j]
        \/ j - Len(batch) \in DOMAIN pending /\ p = pending[j - Len(batch)]
    BY <2>1, <2>2, <2>3, <2>4
  <2> QED BY <2>5 DEF WriterInv, InOrder
<1> QED BY <1>1, WriterInvariance, PTL

\* A run() that has returned leaves nothing queued and no write under way, so
\* that the connection may be closed (IngestService.stop, TelemetryWriter.run).
THEOREM NothingLeftBehind == Spec => []StopDrains
<1>1. WriterInv => StopDrains
  BY DEF WriterInv, LastWrite, StopDrains
<1> QED BY <1>1, WriterInvariance, PTL

\* The types of the variables of the writer.
THEOREM WriterTypes == Spec => []TypeOK
<1>1. WriterInv => TypeOK
  BY DEF WriterInv
<1> QED BY <1>1, WriterInvariance, PTL

------------------------------------------------------------------------------
(* The books                                                                *)

\* What submit drops leaves the sum, and so do a batch and its end.
LEMMA SubmitBooks ==
    ASSUME WriterInv, BooksInv, NEW n \in RowCounts, Submit(n)
    PROVE  BooksInv'
<1> DEFINE new == [id |-> submitted + 1, rows |-> n]
           all == Append(pending, new)
           k == Excess(all, pendingRows + n)
           old == SubSeq(all, 1, k)
<1>1. /\ pending \in Seq(Packet) /\ batch \in Seq(Packet) /\ n \in Int
      /\ stats \in [written : Int, failed : Int, dropped : Int]
      /\ received \in Int /\ Accounted
  BY WriterAssumption DEF WriterInv, TypeOK, BooksInv
<1>2. new \in Packet /\ new.rows = n
  BY WriterAssumption DEF WriterInv, TypeOK, Submit, Packet
<1>3. /\ received' = received + n
      /\ pending' = SubSeq(all, k + 1, Len(all))
      /\ pendingRows' = pendingRows + n - RowsOf(old)
      /\ stats' = [stats EXCEPT !.dropped = @ + RowsOf(old)]
      /\ batch' = batch
  BY DEF Submit
<1> HIDE DEF new
<1>4. all \in Seq(Packet) /\ all # << >> /\ all = pending \o <<new>>
  BY <1>1, <1>2, AppendProperties, AppendIsConcat
<1>5. RowsOf(all) = RowsOf(pending) + n
  <2>1. <<new>> \in Seq(Packet) /\ RowsOf(<<new>>) = n
    BY <1>2, RowsOfOne
  <2>2. QED
    BY <1>1, <1>4, <2>1, RowsOfConcat
<1> HIDE DEF all
<1>6. k \in 0..Len(all)
  <2>1. k \in 0..(Len(all) - 1) /\ Len(all) \in Nat
    BY <1>4, ExcessRange, LenProperties
  <2>2. QED
    BY <2>1
<1> HIDE DEF k
<1>7. RowsOf(old) \in Int /\ RowsOf(all) = RowsOf(old) + RowsOf(pending')
  BY <1>3, <1>4, <1>6, RowsOfParts
<1>8. RowsOf(pending) \in Int /\ RowsOf(batch) \in Int
  BY <1>1, RowsOfType
<1> HIDE DEF old
<1>9. RowsOf(pending') \in Int
  <2>1. pending' \in Seq(Packet)
    BY SubmitStep DEF WriterInv, TypeOK
  <2>2. QED
    BY <2>1, RowsOfType
<1>10. pendingRows' = RowsOf(pending')
  <2>1. pendingRows' = RowsOf(pending) + n - RowsOf(old)
    BY <1>1, <1>3 DEF Accounted
  <2>2. RowsOf(pending) + n = RowsOf(old) + RowsOf(pending')
    BY <1>5, <1>7
  <2>3. PICK a \in Int, b \in Int, c \in Int :
           a = RowsOf(pending) /\ b = RowsOf(old) /\ c = RowsOf(pending')
    BY <1>7, <1>8, <1>9
  <2>4. pendingRows' = a + n - b /\ a + n = b + c
    BY <2>1, <2>2, <2>3
  <2>5. pendingRows' = c
    BY <1>1, <2>4
  <2>6. QED
    BY <2>3, <2>5
<1>11. /\ stats' \in [written : Int, failed : Int, dropped : Int]
       /\ stats'.written = stats.written /\ stats'.failed = stats.failed
       /\ stats'.dropped = stats.dropped + RowsOf(old)
  <2>1. PICK w \in Int, f \in Int, d \in Int :
           stats = [written |-> w, failed |-> f, dropped |-> d]
    BY <1>1
  <2>2. PICK gone \in Int : gone = RowsOf(old)
    BY <1>7
  <2>3. stats' = [written |-> w, failed |-> f, dropped |-> d + gone]
    BY <1>3, <2>1, <2>2
  <2>4. d + gone \in Int
    OBVIOUS
  <2>5. QED
    BY <2>1, <2>2, <2>3, <2>4
<1>12. received' = stats'.written + stats'.failed + stats'.dropped + pendingRows'
                     + RowsOf(batch')
  <2>1. PICK w \in Int, f \in Int, d \in Int, q \in Int, b \in Int, gone \in Int :
           /\ w = stats.written /\ f = stats.failed /\ d = stats.dropped
           /\ q = RowsOf(pending) /\ b = RowsOf(batch) /\ gone = RowsOf(old)
    BY <1>1, <1>7, <1>8
  <2>2. received = w + f + d + q + b /\ pendingRows = q
    BY <1>1, <2>1 DEF Accounted
  <2>3. /\ stats'.written = w /\ stats'.failed = f /\ stats'.dropped = d + gone
        /\ pendingRows' = q + n - gone /\ RowsOf(batch') = b
        /\ received' = (w + f + d + q + b) + n
    BY <1>3, <1>11, <2>1, <2>2
  <2>4. (w + f + d + q + b) + n = w + f + (d + gone) + (q + n - gone) + b
    BY <1>1
  <2>5. QED
    BY <2>3, <2>4
<1>13. QED
  BY <1>1, <1>3, <1>10, <1>11, <1>12 DEF BooksInv, Accounted

\* The task takes a new batch only when the rows of the last one are counted,
\* which is to say: when there is none.
LEMMA TaskBooks ==
    ASSUME WriterInv, BooksInv, received' = received,
           \/ outcome # "none" /\ stats' = Counted
           \/ batch = << >> /\ stats' = stats,
           \/ LoopHead
           \/ TakeBatch
           \/ batch' = << >> /\ UNCHANGED <<pending, pendingRows>>
    PROVE  BooksInv'
<1>1. /\ pending \in Seq(Packet) /\ batch \in Seq(Packet)
      /\ stats \in [written : Int, failed : Int, dropped : Int]
      /\ received \in Int /\ Accounted
  BY DEF WriterInv, TypeOK, BooksInv
<1>2. RowsOf(pending) \in Int /\ RowsOf(batch) \in Int /\ RowsOf(<< >>) = 0
  BY <1>1, RowsOfType, RowsOfOne
<1>3. \/ batch' = pending /\ pending' = << >> /\ pendingRows' = 0
      \/ batch' = << >> /\ pending' = pending /\ pendingRows' = pendingRows
  BY DEF LoopHead, TakeBatch
<1>4. PICK w \in Int, f \in Int, d \in Int, q \in Int, b \in Int :
         /\ w = stats.written /\ f = stats.failed /\ d = stats.dropped
         /\ q = RowsOf(pending) /\ b = RowsOf(batch)
  BY <1>1, <1>2
<1>5. received = w + f + d + q + b /\ pendingRows = q
  BY <1>1, <1>4 DEF Accounted
<1>6. PICK x \in Int, y \in Int :
         /\ stats' = [written |-> x, failed |-> y, dropped |-> d]
         /\ x + y = w + f + b
  <2>1. stats = [written |-> w, failed |-> f, dropped |-> d]
    BY <1>1, <1>4
  <2>2. CASE outcome # "none" /\ stats' = Counted
    <3>1. \/ stats' = [stats EXCEPT !.written = @ + RowsOf(batch)]
          \/ stats' = [stats EXCEPT !.failed = @ + RowsOf(batch)]
      BY <2>2 DEF Counted
    <3>2. \/ stats' = [written |-> w + b, failed |-> f, dropped |-> d]
          \/ stats' = [written |-> w, failed |-> f + b, dropped |-> d]
      BY <1>4, <2>1, <3>1
    <3>3. w + b \in Int /\ f + b \in Int
          /\ (w + b) + f = w + f + b /\ w + (f + b) = w + f + b
      OBVIOUS
    <3>4. QED
      BY <3>2, <3>3
  <2>3. CASE batch = << >> /\ stats' = stats
    <3>1. b = 0
      BY <1>2, <1>4, <2>3
    <3>2. w + f = w + f + b
      BY <3>1
    <3>3. QED
      BY <2>1, <2>3, <3>2
  <2>4. QED
    BY <2>2, <2>3
<1>7. /\ stats' \in [written : Int, failed : Int, dropped : Int]
      /\ stats'.written = x /\ stats'.failed = y /\ stats'.dropped = d
  BY <1>6
<1>8. /\ pendingRows' = RowsOf(pending')
      /\ received' = stats'.written + stats'.failed + stats'.dropped + pendingRows'
                      + RowsOf(batch')
  <2>1. \/ RowsOf(batch') = q /\ RowsOf(pending') = 0 /\ pendingRows' = 0
        \/ RowsOf(batch') = 0 /\ RowsOf(pending') = q /\ pendingRows' = q
    BY <1>2, <1>3, <1>4, <1>5
  <2>2. received' = w + f + d + q + b
    BY <1>5
  <2>3. x + y + d + 0 + q = w + f + d + q + b /\ x + y + d + q + 0 = w + f + d + q + b
    BY <1>6
  <2>4. received' = x + y + d + pendingRows' + RowsOf(batch')
    BY <2>1, <2>2, <2>3
  <2>5. QED
    BY <1>7, <2>1, <2>4
<1>9. QED
  BY <1>1, <1>7, <1>8 DEF BooksInv, Accounted

\* Every row that was received is written, failed, dropped, waiting or in the
\* batch under way (_stats and _pending_rows of TelemetryWriter).
THEOREM RowsAccounted == Spec => []Accounted
<1>1. Init => BooksInv
  <2> SUFFICES ASSUME Init PROVE BooksInv
    OBVIOUS
  <2>1. /\ pending = << >> /\ batch = << >> /\ pendingRows = 0 /\ received = 0
        /\ stats = [written |-> 0, failed |-> 0, dropped |-> 0]
    BY DEF Init
  <2>2. RowsOf(<< >>) = 0
    BY RowsOfOne
  <2>3. QED
    BY <2>1, <2>2 DEF BooksInv, Accounted
<1>2. WriterInv /\ BooksInv /\ [Next]_vars => BooksInv'
  <2> SUFFICES ASSUME WriterInv, BooksInv, [Next]_vars PROVE BooksInv'
    OBVIOUS
  <2>1. ASSUME NEW n \in RowCounts, Submit(n) PROVE BooksInv'
    BY <2>1, SubmitBooks
  <2>2. CASE Run
    <3>1. batch = << >>
      BY <2>2 DEF Run, WriterInv, LastWrite
    <3>2. QED
      BY <2>2, <3>1, TaskBooks DEF Run
  <2>3. CASE Wake \/ TimeOut
    <3>1. batch = << >> /\ AfterWait
      BY <2>3 DEF Wake, TimeOut, WriterInv, LastWrite
    <3>2. LoopHead \/ TakeBatch
      BY <3>1 DEF AfterWait
    <3>3. received' = received /\ stats' = stats
      BY <3>1 DEF AfterWait
    <3>4. QED
      BY <3>1, <3>2, <3>3, TaskBooks
  <2>4. CASE Resume
    <3>1. /\ outcome # "none" /\ stats' = Counted /\ received' = received
          /\ LoopHead \/ (batch' = << >> /\ UNCHANGED <<pending, pendingRows>>)
      BY <2>4 DEF Resume
    <3>2. QED
      BY <3>1, TaskBooks
  <2>5. CASE Commit \/ Fail \/ CloseTransport \/ RequestStop \/ UNCHANGED vars
    <3>1. UNCHANGED <<pending, pendingRows, batch, stats, received>>
      BY <2>5 DEF Commit, Fail, CloseTransport, RequestStop, vars
    <3>2. QED
      BY <3>1 DEF BooksInv, Accounted
  <2>6. QED
    BY <2>1, <2>2, <2>3, <2>4, <2>5 DEF Next
<1>3. BooksInv => Accounted
  BY DEF BooksInv
<1>4. QED
  BY <1>1, <1>2, <1>3, WriterInvariance, PTL DEF Spec
==============================================================================
