--------------------------- MODULE LiveQueueProofs ---------------------------
(***************************************************************************)
(* Proofs about LiveQueue, for every MaxFrames >= 3: the queue of a        *)
(* connection keeps its bound, its sender never sleeps on a frame, no hole *)
(* in the stream goes unreported, only frames of the subscription in force *)
(* are sent, and the control frames keep their order.                      *)
(***************************************************************************)
EXTENDS LiveQueue, SequenceTheorems, WellFoundedInduction, TLAPS

-----------------------------------------------------------------------------
(* Sequences *)

(* A nonempty set of naturals has the least element Min chooses. *)
LEMMA MinProperties ==
    ASSUME NEW T \in SUBSET Nat, T # {}
    PROVE  Min(T) \in T /\ \A y \in T : Min(T) <= y
<1>1. \E x \in T : \A y \in T : ~ (<<y, x>> \in OpToRel(<, Nat))
  BY NatLessThanWellFounded, WFMin
<1>2. \E x \in T : \A y \in T : x <= y
  <2>1. PICK x \in T : \A y \in T : ~ (<<y, x>> \in OpToRel(<, Nat))
    BY <1>1
  <2>2. ASSUME NEW y \in T PROVE x <= y
    <3>1. <<y, x>> \in OpToRel(<, Nat) <=> y < x
      BY DEF OpToRel
    <3>2. ~(y < x)
      BY <2>1, <3>1
    <3>3. x \in Nat /\ y \in Nat
      OBVIOUS
    <3>. QED BY <3>2, <3>3
  <2>. QED BY <2>2
<1>. QED BY <1>2 DEF Min

(* What RemoveAt returns. *)
LEMMA RemoveAtProperties ==
    ASSUME NEW S, NEW q \in Seq(S), NEW i \in 1..Len(q)
    PROVE  /\ RemoveAt(q, i) \in Seq(S)
           /\ Len(RemoveAt(q, i)) = Len(q) - 1
           /\ \A j \in 1..(Len(q) - 1) :
                 RemoveAt(q, i)[j] = IF j < i THEN q[j] ELSE q[j + 1]
<1> DEFINE a == SubSeq(q, 1, i - 1)
           b == SubSeq(q, i + 1, Len(q))
<1>1. Len(q) \in Nat /\ \A k \in 1..Len(q) : q[k] \in S
  BY LenProperties, ElementOfSeq
<1>2. /\ a \in Seq(S) /\ Len(a) = i - 1
      /\ \A k \in 1..(i - 1) : a[k] = q[k]
  <2>1. \A k \in 1..(i - 1) : q[k] \in S
    BY <1>1
  <2>2. /\ a \in Seq(S)
        /\ Len(a) = IF 1 <= i - 1 THEN (i - 1) - 1 + 1 ELSE 0
        /\ \A k \in 1..((i - 1) - 1 + 1) : a[k] = q[1 + k - 1]
    BY <2>1, SubSeqProperties
  <2>. HIDE DEF a
  <2>. QED BY <2>2
<1>3. /\ b \in Seq(S) /\ Len(b) = Len(q) - i
      /\ \A k \in 1..(Len(q) - i) : b[k] = q[i + k]
  <2>1. \A k \in (i + 1)..Len(q) : q[k] \in S
    BY <1>1
  <2>2. /\ b \in Seq(S)
        /\ Len(b) = IF i + 1 <= Len(q) THEN Len(q) - (i + 1) + 1 ELSE 0
        /\ \A k \in 1..(Len(q) - (i + 1) + 1) : b[k] = q[(i + 1) + k - 1]
    BY <1>1, <2>1, SubSeqProperties
  <2>. HIDE DEF b
  <2>. QED BY <1>1, <2>2
<1>4. RemoveAt(q, i) = a \o b
  BY DEF RemoveAt
<1>. HIDE DEF a, b
<1>5. /\ a \o b \in Seq(S)
      /\ Len(a \o b) = Len(a) + Len(b)
      /\ \A k \in 1..(Len(a) + Len(b)) :
            (a \o b)[k] = IF k <= Len(a) THEN a[k] ELSE b[k - Len(a)]
  BY <1>2, <1>3, ConcatProperties
<1>. QED BY <1>1, <1>2, <1>3, <1>4, <1>5

(* r is the sequence q without its element k. *)
Without(q, r, k) ==
    /\ r \in Seq(Frame)
    /\ Len(r) = Len(q) - 1
    /\ \A j \in 1..(Len(q) - 1) : r[j] = IF j < k THEN q[j] ELSE q[j + 1]

(* RemoveOldest removes one frame of the kind, or there is none. *)
LEMMA RemoveOldestProperties ==
    ASSUME NEW q \in Seq(Frame), NEW kind
    PROVE  \/ /\ RemoveOldest(q, kind) = q
              /\ \A i \in 1..Len(q) : q[i].kind # kind
           \/ \E k \in 1..Len(q) :
                q[k].kind = kind /\ Without(q, RemoveOldest(q, kind), k)
<1> DEFINE at == {i \in DOMAIN q : q[i].kind = kind}
<1>1. DOMAIN q = 1..Len(q) /\ Len(q) \in Nat
  BY LenProperties
<1>2. CASE at = {}
  BY <1>1, <1>2 DEF RemoveOldest
<1>3. CASE at # {}
  <2>1. at \in SUBSET Nat
    BY <1>1
  <2>2. Min(at) \in at
    BY <1>3, <2>1, MinProperties
  <2> DEFINE k == Min(at)
  <2>3. RemoveOldest(q, kind) = RemoveAt(q, k)
    BY <1>3 DEF RemoveOldest
  <2>4. k \in 1..Len(q) /\ q[k].kind = kind
    BY <1>1, <2>2
  <2>5. Without(q, RemoveAt(q, k), k)
    BY <2>4, RemoveAtProperties DEF Without
  <2>. HIDE DEF k
  <2>. QED BY <2>3, <2>4, <2>5
<1>. QED BY <1>2, <1>3

-----------------------------------------------------------------------------
(* The queue *)

(* A queue of three or more frames holds one that carries the loss count. *)
LEMMA ThreeFramesCarry ==
    ASSUME NEW q \in Seq(Frame), Len(q) >= 3, Unique(q)
    PROVE  Carrier(q)
<1>1. Len(q) \in Nat /\ \A i \in 1..Len(q) : q[i] \in Frame
  BY LenProperties, ElementOfSeq
<1>2. \A i \in 1..Len(q) : q[i].kind \in LostCarrying \cup {"snapshot", "error"}
  BY <1>1 DEF Frame, Kinds, LostCarrying
<1>3. 1 \in 1..Len(q) /\ 2 \in 1..Len(q) /\ 3 \in 1..Len(q)
  BY <1>1
<1>. QED BY <1>2, <1>3 DEF Carrier, Unique

(* What taking one frame out of a queue preserves. *)
LEMMA WithoutProperties ==
    ASSUME NEW q \in Seq(Frame), NEW r, NEW k \in 1..Len(q), Without(q, r, k)
    PROVE  /\ \A j \in 1..Len(r) : \E i \in 1..Len(q) : i # k /\ r[j] = q[i]
           /\ Unique(q) => Unique(r)
           /\ Unique(q) /\ q[k].kind = "error"
                 => \A j \in 1..Len(r) : r[j].kind # "error"
           /\ q[k].kind \notin LostCarrying /\ Carrier(q) => Carrier(r)
<1>1. Len(q) \in Nat
  BY LenProperties
<1>2. \A j \in 1..Len(r) : \E i \in 1..Len(q) : i # k /\ r[j] = q[i]
  BY <1>1 DEF Without
<1>3. ASSUME Unique(q) PROVE Unique(r)
  <2> DEFINE At(j) == IF j < k THEN j ELSE j + 1
  <2>1. ASSUME NEW i \in 1..Len(r), NEW j \in 1..Len(r),
               r[i].kind = r[j].kind, r[i].kind \in {"snapshot", "error"}
        PROVE  i = j
    <3>1. /\ At(i) \in 1..Len(q) /\ r[i] = q[At(i)]
          /\ At(j) \in 1..Len(q) /\ r[j] = q[At(j)]
      BY <1>1 DEF Without
    <3>2. At(i) = At(j) => i = j
      BY <1>1 DEF Without
    <3>. HIDE DEF At
    <3>. QED BY <1>3, <2>1, <3>1, <3>2 DEF Unique
  <2>. QED BY <2>1 DEF Unique
<1>4. Unique(q) /\ q[k].kind = "error" => \A j \in 1..Len(r) : r[j].kind # "error"
  BY <1>2 DEF Unique
<1>5. ASSUME q[k].kind \notin LostCarrying, Carrier(q) PROVE Carrier(r)
  <2>1. PICK i \in 1..Len(q) : q[i].kind \in LostCarrying
    BY <1>5 DEF Carrier
  <2>2. i # k
    BY <1>5, <2>1
  <2>3. CASE i < k
    BY <1>1, <2>1, <2>3 DEF Carrier, Without
  <2>4. CASE i > k
    <3>1. i - 1 \in 1..Len(r) /\ r[i - 1] = q[i]
      BY <1>1, <2>4 DEF Without
    <3>. QED BY <2>1, <3>1 DEF Carrier
  <2>. QED BY <2>2, <2>3, <2>4
<1>. QED BY <1>2, <1>3, <1>4, <1>5

(* Replacing the pending error by a new frame: one error at the most, and   *)
(* no frame that carries the loss count is touched.                         *)
LEMMA SupersededProperties ==
    ASSUME NEW q \in Seq(Frame), NEW f \in Frame, Shaped(q), NEW g \in Nat,
           Current(q, g), f.gen = g, f.kind # "snapshot" \/ q = << >>
    PROVE  LET full == Append(Superseded(q, f), f)
           IN  /\ full \in Seq(Frame)
               /\ Len(full) \in 1..(Len(q) + 1)
               /\ Unique(full)
               /\ Current(full, g)
               /\ Len(full) > MaxFrames + 1 =>
                     \A i \in 1..(Len(full) - 1) : full[i].kind # "append"
               /\ Carrier(q) => Carrier(full)
<1> DEFINE s == Superseded(q, f)
           full == Append(s, f)
<1>1. Len(q) \in Nat
  BY LenProperties
<1>2. /\ s \in Seq(Frame)
      /\ Len(s) <= Len(q)
      /\ Unique(s)
      /\ \A j \in 1..Len(s) : \E i \in 1..Len(q) : s[j] = q[i]
      /\ Carrier(q) => Carrier(s)
      /\ f.kind = "error" => \A j \in 1..Len(s) : s[j].kind # "error"
  <2>1. CASE s = q /\ (f.kind = "error" => \A i \in 1..Len(q) : q[i].kind # "error")
    BY <1>1, <2>1 DEF Shaped
  <2>2. CASE f.kind = "error" /\ \E k \in 1..Len(q) : q[k].kind = "error" /\ Without(q, s, k)
    <3>1. PICK k \in 1..Len(q) : q[k].kind = "error" /\ Without(q, s, k)
      BY <2>2
    <3>2. "error" \notin LostCarrying
      BY DEF LostCarrying
    <3>3. s \in Seq(Frame) /\ Len(s) <= Len(q)
      BY <1>1, <3>1 DEF Without
    <3>. HIDE DEF s
    <3>. QED BY <3>1, <3>2, <3>3, WithoutProperties DEF Shaped
  <2>. QED BY <2>1, <2>2, RemoveOldestProperties DEF Superseded
<1>. HIDE DEF s
<1>3. Len(s) \in Nat
  BY <1>2, LenProperties
<1>4. /\ full \in Seq(Frame)
      /\ Len(full) = Len(s) + 1
      /\ \A j \in 1..Len(s) : full[j] = s[j]
      /\ full[Len(full)] = f
  BY <1>2, AppendProperties
<1>. HIDE DEF full
<1>5. \A j \in 1..Len(full) : j \in 1..Len(s) \/ j = Len(full)
  BY <1>3, <1>4
<1>6. f.kind = "snapshot" => \A j \in 1..Len(s) : FALSE
  BY <1>1, <1>2, <1>3, EmptySeq
<1>7. Unique(full)
  <2>1. ASSUME NEW i \in 1..Len(full), NEW j \in 1..Len(full),
               full[i].kind = full[j].kind, full[i].kind \in {"snapshot", "error"}
        PROVE  i = j
    <3>1. CASE i \in 1..Len(s) /\ j \in 1..Len(s)
      BY <1>2, <1>4, <2>1, <3>1 DEF Unique
    <3>2. CASE i = Len(full) /\ j = Len(full)
      BY <3>2
    <3>3. CASE i \in 1..Len(s) /\ j = Len(full)
      BY <1>2, <1>4, <1>6, <2>1, <3>3
    <3>4. CASE i = Len(full) /\ j \in 1..Len(s)
      BY <1>2, <1>4, <1>6, <2>1, <3>4
    <3>. QED BY <1>5, <3>1, <3>2, <3>3, <3>4
  <2>. QED BY <2>1 DEF Unique
<1>8. Current(full, g)
  BY <1>2, <1>4, <1>5 DEF Current
<1>9. Len(full) > MaxFrames + 1 =>
         \A i \in 1..(Len(full) - 1) : full[i].kind # "append"
  BY <1>1, <1>2, <1>3, <1>4, QueueAssumption DEF Shaped
<1>10. Carrier(q) => Carrier(full)
  BY <1>2, <1>3, <1>4 DEF Carrier
<1>11. full = Append(Superseded(q, f), f)
  BY DEF full, s
<1>. QED BY <1>1, <1>2, <1>3, <1>4, <1>7, <1>8, <1>9, <1>10, <1>11

(* Shedding one append brings a queue that was shaped before the last frame *)
(* back into shape, and leaves a frame that carries the loss count.         *)
LEMMA ShedProperties ==
    ASSUME NEW q \in Seq(Frame), Unique(q), NEW g, Current(q, g),
           Len(q) > MaxFrames + 1 =>
              \A i \in 1..(Len(q) - 1) : q[i].kind # "append"
    PROVE  /\ Shed(q) \in Seq(Frame)
           /\ Unique(Shed(q))
           /\ Current(Shed(q), g)
           /\ Len(Shed(q)) > MaxFrames =>
                 \A i \in 1..Len(Shed(q)) : Shed(q)[i].kind # "append"
           /\ \/ Shed(q) = q
              \/ Len(Shed(q)) = Len(q) - 1 /\ Carrier(Shed(q))
<1> DEFINE r == Shed(q)
<1>1. Len(q) \in Nat
  BY LenProperties
<1>2. CASE r = q /\ (Len(q) > MaxFrames => \A i \in 1..Len(q) : q[i].kind # "append")
  BY <1>2
<1>3. CASE /\ Len(q) > MaxFrames
           /\ \E k \in 1..Len(q) : q[k].kind = "append" /\ Without(q, r, k)
  <2>1. PICK k \in 1..Len(q) : q[k].kind = "append" /\ Without(q, r, k)
    BY <1>3
  <2>2. /\ r \in Seq(Frame)
        /\ Len(r) = Len(q) - 1
        /\ \A j \in 1..(Len(q) - 1) : r[j] = IF j < k THEN q[j] ELSE q[j + 1]
    BY <2>1 DEF Without
  <2>. HIDE DEF r
  <2>3. Unique(r) /\ \A j \in 1..Len(r) : \E i \in 1..Len(q) : i # k /\ r[j] = q[i]
    BY <2>1, WithoutProperties
  <2>4. Current(r, g)
    BY <2>3 DEF Current
  <2>5. Len(r) > MaxFrames => \A i \in 1..Len(r) : r[i].kind # "append"
    <3>1. SUFFICES ASSUME Len(r) > MaxFrames
                   PROVE  \A i \in 1..Len(r) : r[i].kind # "append"
      OBVIOUS
    <3>2. \A i \in 1..(Len(q) - 1) : q[i].kind # "append"
      BY <1>1, <2>2, <3>1, QueueAssumption
    <3>3. k = Len(q)
      BY <1>1, <2>1, <3>2
    <3>. QED BY <1>1, <2>2, <3>2, <3>3
  <2>6. Carrier(r)
    BY <1>1, <1>3, <2>2, <2>3, ThreeFramesCarry, QueueAssumption
  <2>. QED BY <2>2, <2>3, <2>4, <2>5, <2>6 DEF r
<1>. QED BY <1>2, <1>3, RemoveOldestProperties DEF Shed

(* Subscriber.push on a shaped queue of one subscription.                   *)
LEMMA PushProperties ==
    ASSUME NEW q \in Seq(Frame), NEW f \in Frame, NEW n \in Nat, NEW g \in Nat,
           Shaped(q), Current(q, g), f.gen = g,
           f.kind # "snapshot" \/ q = << >>,
           overflowed \in BOOLEAN, ready \in BOOLEAN,
           Push(q, n, f)
    PROVE  /\ frames' \in Seq(Frame)
           /\ lost' \in Nat
           /\ overflowed' \in BOOLEAN
           /\ ready' \in BOOLEAN
           /\ Shaped(frames')
           /\ Current(frames', g)
           /\ \/ overflowed'
              \/ lost' = n /\ (Carrier(q) => Carrier(frames'))
              \/ Carrier(frames')
           /\ \/ ready'
              \/ overflowed /\ frames' = q /\ ready' = ready
<1>1. CASE overflowed
  BY <1>1 DEF Push
<1>2. CASE ~overflowed
  <2> DEFINE full == Append(Superseded(q, f), f)
             kept == Shed(full)
  <2>1. /\ lost' = n + (Len(full) - Len(kept))
        /\ overflowed' = (Len(kept) > HardLimit)
        /\ frames' = IF Len(kept) > HardLimit THEN << >> ELSE kept
        /\ ready' = TRUE
    BY <1>2 DEF Push
  <2>2. /\ full \in Seq(Frame)
        /\ Unique(full)
        /\ Current(full, g)
        /\ Len(full) > MaxFrames + 1 =>
              \A i \in 1..(Len(full) - 1) : full[i].kind # "append"
        /\ Carrier(q) => Carrier(full)
    BY SupersededProperties
  <2>. HIDE DEF full
  <2>3. /\ kept \in Seq(Frame)
        /\ Unique(kept)
        /\ Current(kept, g)
        /\ Len(kept) > MaxFrames =>
              \A i \in 1..Len(kept) : kept[i].kind # "append"
        /\ \/ kept = full
           \/ Len(kept) = Len(full) - 1 /\ Carrier(kept)
    BY <2>2, ShedProperties
  <2>. HIDE DEF kept
  <2>4. Len(full) \in Nat /\ Len(kept) \in Nat
    BY <2>2, <2>3, LenProperties
  <2>5. CASE Len(kept) > HardLimit
    <3>1. frames' = << >> /\ overflowed' = TRUE /\ ready' = TRUE
      BY <2>1, <2>5
    <3>2. << >> \in Seq(Frame) /\ Len(<< >>) = 0
      BY EmptySeq
    <3>3. Shaped(<< >>) /\ Current(<< >>, g)
      BY <3>2, QueueAssumption DEF Shaped, Unique, Current, HardLimit
    <3>4. lost' \in Nat
      BY <2>1, <2>3, <2>4
    <3>. QED BY <3>1, <3>2, <3>3, <3>4
  <2>6. CASE ~(Len(kept) > HardLimit)
    <3>1. frames' = kept /\ overflowed' \in BOOLEAN /\ ready' = TRUE
      BY <2>1, <2>6
    <3>2. Len(kept) <= HardLimit
      BY <2>4, <2>6, QueueAssumption DEF HardLimit
    <3>3. Shaped(kept)
      BY <2>3, <3>2 DEF Shaped
    <3>4. lost' \in Nat
      BY <2>1, <2>3, <2>4
    <3>5. CASE kept = full
      BY <2>1, <2>2, <2>3, <2>4, <3>1, <3>3, <3>4, <3>5
    <3>6. CASE Len(kept) = Len(full) - 1 /\ Carrier(kept)
      BY <2>3, <3>1, <3>3, <3>4, <3>6
    <3>. QED BY <2>3, <3>5, <3>6
  <2>. QED BY <2>5, <2>6
<1>. QED BY <1>1, <1>2

-----------------------------------------------------------------------------
(* The invariant *)

(* A new connection has queued and lost nothing.                           *)
LEMMA InitInv == Init => Inv
<1>. SUFFICES ASSUME Init PROVE Inv
  OBVIOUS
<1>1. << >> \in Seq(Frame) /\ Len(<< >>) = 0
  BY EmptySeq
<1>2. NoFrame \in Frame
  BY DEF NoFrame, Frame, Kinds
<1>3. TypeOK
  BY <1>1, <1>2 DEF Init, TypeOK, PcValues
<1>4. QueueShape /\ FramesOwned
  BY <1>1, QueueAssumption
     DEF Init, QueueShape, FramesOwned, Shaped, Unique, Current, HardLimit
<1>5. LossReported /\ NoLostWakeup
  BY DEF Init, LossReported, NoLostWakeup
<1>. QED BY <1>3, <1>4, <1>5 DEF Inv

(* The steps that push a frame on the queue without touching the sender:    *)
(* a broadcast and a rejected message.                                      *)
LEMMA PushKeepsInv ==
    ASSUME Inv, NEW kind \in BroadcastKinds \cup {"error"},
           Push(frames, lost, New(kind)),
           UNCHANGED <<subscription, sender, receiving, connected, reported>>
    PROVE  Inv'
<1>. USE DEF Inv, QueueShape, FramesOwned, subscription, sender
<1>1. /\ New(kind) \in Frame
      /\ New(kind).gen = generation
      /\ New(kind).kind # "snapshot"
  BY QueueAssumption DEF New, Frame, Kinds, TypeOK
<1>2. /\ frames' \in Seq(Frame) /\ lost' \in Nat
      /\ overflowed' \in BOOLEAN /\ ready' \in BOOLEAN
      /\ Shaped(frames') /\ Current(frames', generation)
      /\ \/ overflowed'
         \/ lost' = lost /\ (Carrier(frames) => Carrier(frames'))
         \/ Carrier(frames')
      /\ \/ ready'
         \/ overflowed /\ frames' = frames /\ ready' = ready
  BY <1>1, PushProperties DEF TypeOK
<1>3. TypeOK'
  BY <1>2 DEF TypeOK
<1>4. LossReported'
  <2>1. SUFFICES ASSUME ~overflowed', ~Carrier(frames')
                 PROVE  LossReported'
    BY DEF LossReported, CarriesLoss
  <2>2. lost' = lost /\ ~Carrier(frames)
    BY <1>2, <2>1
  <2>. QED BY <2>2 DEF LossReported, CarriesLoss, Push
<1>5. NoLostWakeup'
  BY <1>2 DEF NoLostWakeup, Push
<1>. QED BY <1>2, <1>3, <1>4, <1>5

(* A new subscription starts with its snapshot alone and no loss.           *)
LEMMA SubscribeInv == Inv /\ Subscribe => Inv'
<1>. SUFFICES ASSUME Inv, Subscribe PROVE Inv'
  OBVIOUS
<1>. USE DEF Inv, QueueShape, FramesOwned, sender
<1> DEFINE f == [kind |-> "snapshot", gen |-> generation + 1]
<1>1. /\ << >> \in Seq(Frame) /\ Len(<< >>) = 0
      /\ f \in Frame /\ f.gen = generation + 1 /\ generation + 1 \in Nat
  BY EmptySeq DEF Frame, Kinds, TypeOK
<1>2. Shaped(<< >>) /\ Current(<< >>, generation + 1)
  BY <1>1, QueueAssumption DEF Shaped, Unique, Current, HardLimit
<1>3. /\ Push(<< >>, 0, f)
      /\ generation' = generation + 1
      /\ subscribed' = TRUE /\ reported' = 0
      /\ UNCHANGED <<pc, sending, seen, receiving, connected>>
  BY DEF Subscribe
<1>. HIDE DEF f
<1>4. /\ frames' \in Seq(Frame) /\ lost' \in Nat
      /\ overflowed' \in BOOLEAN /\ ready' \in BOOLEAN
      /\ Shaped(frames') /\ Current(frames', generation + 1)
      /\ \/ overflowed'
         \/ lost' = 0
         \/ Carrier(frames')
      /\ \/ ready'
         \/ overflowed /\ frames' = << >> /\ ready' = ready
  BY <1>1, <1>2, <1>3, PushProperties DEF TypeOK
<1>5. TypeOK'
  BY <1>1, <1>3, <1>4 DEF TypeOK
<1>6. LossReported'
  BY <1>3, <1>4 DEF LossReported, CarriesLoss
<1>7. NoLostWakeup'
  BY <1>3, <1>4 DEF NoLostWakeup
<1>. QED BY <1>3, <1>4, <1>5, <1>6, <1>7

(* Without a subscription the queue is empty, so nothing is owed.           *)
LEMMA UnsubscribeInv == Inv /\ Unsubscribe => Inv'
<1>. SUFFICES ASSUME Inv, Unsubscribe PROVE Inv'
  OBVIOUS
<1>. USE DEF Inv, QueueShape, FramesOwned, sender, Unsubscribe
<1>1. << >> \in Seq(Frame) /\ Len(<< >>) = 0
  BY EmptySeq
<1>2. Shaped(frames') /\ Current(frames', generation')
  BY <1>1, QueueAssumption DEF Shaped, Unique, Current, HardLimit
<1>3. TypeOK'
  <2>1. frames' = << >>
    OBVIOUS
  <2>2. frames' \in Seq(Frame)
    BY <1>1, <2>1
  <2>3. /\ lost' = 0 /\ reported' = 0 /\ subscribed' = FALSE
        /\ generation \in Nat /\ generation' = generation + 1
    BY DEF TypeOK
  <2>4. lost' \in Nat /\ reported' \in Nat /\ generation' \in Nat
    BY <2>3
  <2>5. subscribed' \in BOOLEAN
    BY <2>3, Zenon
  <2>. QED BY <2>2, <2>4, <2>5 DEF TypeOK
<1>4. LossReported' /\ NoLostWakeup'
  BY DEF LossReported, NoLostWakeup
<1>. QED BY <1>2, <1>3, <1>4

(* Taking the oldest frame: the ones left were all behind it.               *)
LEMMA TailProperties ==
    ASSUME NEW q \in Seq(Frame), NEW g, q # << >>, Shaped(q), Current(q, g)
    PROVE  /\ Head(q) \in Frame /\ Head(q).gen = g
           /\ Tail(q) \in Seq(Frame)
           /\ Shaped(Tail(q)) /\ Current(Tail(q), g)
           /\ Carrier(q) => Carrier(Tail(q)) \/ Head(q).kind \in LostCarrying
<1>1. /\ Len(q) \in Nat \ {0}
      /\ Tail(q) \in Seq(Frame)
      /\ Len(Tail(q)) = Len(q) - 1
      /\ \A i \in 1..Len(Tail(q)) : Tail(q)[i] = q[i + 1]
      /\ Head(q) \in Frame /\ Head(q) = q[1]
  BY HeadTailProperties, EmptySeq
<1>2. Shaped(Tail(q))
  BY <1>1, QueueAssumption DEF Shaped, Unique, HardLimit
<1>3. Head(q).gen = g /\ Current(Tail(q), g)
  BY <1>1 DEF Current
<1>4. ASSUME Carrier(q), Head(q).kind \notin LostCarrying PROVE Carrier(Tail(q))
  <2>1. PICK i \in 1..Len(q) : q[i].kind \in LostCarrying
    BY <1>4 DEF Carrier
  <2>2. i - 1 \in 1..Len(Tail(q)) /\ Tail(q)[i - 1] = q[i]
    BY <1>1, <1>4, <2>1
  <2>. QED BY <2>1, <2>2 DEF Carrier
<1>. QED BY <1>1, <1>2, <1>3, <1>4

(* The sender takes the first frame, of the subscription in force.          *)
LEMMA NextFrameInv == Inv /\ NextFrame => Inv'
<1>. SUFFICES ASSUME Inv, NextFrame PROVE Inv'
  OBVIOUS
<1>. USE DEF Inv, QueueShape, FramesOwned, subscription
<1>1. /\ Head(frames) \in Frame /\ Head(frames).gen = generation
      /\ frames' \in Seq(Frame)
      /\ Shaped(frames') /\ Current(frames', generation)
      /\ Carrier(frames) => Carrier(frames') \/ Head(frames).kind \in LostCarrying
  BY TailProperties DEF NextFrame, TypeOK
<1>2. CASE Head(frames).kind \in AnchorCarrying
  <2>1. /\ pc' = "reading" /\ sending' = Head(frames) /\ seen' = generation
        /\ UNCHANGED <<lost, overflowed, ready, generation, subscribed,
                       receiving, connected, reported>>
    BY <1>2 DEF NextFrame
  <2>2. TypeOK'
    BY <1>1, <2>1 DEF TypeOK, PcValues
  <2>3. LossReported'
    BY <1>1, <2>1 DEF LossReported, CarriesLoss, NextFrame
  <2>. QED BY <1>1, <2>1, <2>2, <2>3 DEF NoLostWakeup
<1>3. CASE Head(frames).kind \notin AnchorCarrying
  <2>1. /\ pc' = "sending" /\ sending' = Head(frames) /\ seen' = seen
        /\ reported' = IF Head(frames).kind \in LostCarrying THEN lost ELSE reported
        /\ UNCHANGED <<lost, overflowed, ready, generation, subscribed,
                       receiving, connected>>
    BY <1>3 DEF NextFrame, StartSend
  <2>2. TypeOK'
    BY <1>1, <2>1 DEF TypeOK, PcValues
  <2>3. LossReported'
    BY <1>1, <2>1 DEF LossReported, CarriesLoss, NextFrame, TypeOK
  <2>. QED BY <1>1, <2>1, <2>2, <2>3 DEF NoLostWakeup
<1>. QED BY <1>2, <1>3

(* The steps that change neither the queue nor the loss counter.            *)
LEMMA SenderInv ==
    Inv /\ (NextEmpty \/ NextOverflow \/ Wake \/ AnchorsRead \/ SendDone \/ SenderEnds)
      => Inv'
<1>. USE DEF Inv, QueueShape, FramesOwned, queue, subscription
<1>1. ASSUME Inv, NextEmpty PROVE Inv'
  BY <1>1 DEF NextEmpty, TypeOK, PcValues, LossReported, CarriesLoss, NoLostWakeup
<1>2. ASSUME Inv, NextOverflow PROVE Inv'
  BY <1>2 DEF NextOverflow, TypeOK, PcValues, LossReported, CarriesLoss, NoLostWakeup
<1>3. ASSUME Inv, Wake PROVE Inv'
  BY <1>3 DEF Wake, TypeOK, PcValues, LossReported, CarriesLoss, NoLostWakeup
<1>4. NoFrame \in Frame
  BY DEF NoFrame, Frame, Kinds
<1>5. ASSUME Inv, AnchorsRead PROVE Inv'
  <2>1. TypeOK'
    BY <1>4, <1>5 DEF AnchorsRead, StartSend, TypeOK, PcValues
  <2>2. LossReported'
    BY <1>5 DEF AnchorsRead, StartSend, LossReported, CarriesLoss, TypeOK
  <2>3. NoLostWakeup'
    BY <1>5 DEF AnchorsRead, StartSend, NoLostWakeup
  <2>. QED BY <1>5, <2>1, <2>2, <2>3 DEF AnchorsRead, StartSend
<1>6. ASSUME Inv, SendDone PROVE Inv'
  BY <1>4, <1>6 DEF SendDone, TypeOK, PcValues, LossReported, CarriesLoss, NoLostWakeup
<1>7. ASSUME Inv, SenderEnds PROVE Inv'
  BY <1>4, <1>7 DEF SenderEnds, TypeOK, PcValues, LossReported, CarriesLoss, NoLostWakeup
<1>. QED BY <1>1, <1>2, <1>3, <1>5, <1>6, <1>7

(* A connection that begins or ends has an empty queue and nothing lost.    *)
LEMMA NewConnectionInv ==
    ASSUME Inv, NewConnection, receiving' \in BOOLEAN, connected' \in BOOLEAN,
           pc' \in {"next", "done"}
    PROVE  Inv'
<1>. USE DEF Inv, QueueShape, FramesOwned, NewConnection
<1>1. << >> \in Seq(Frame) /\ Len(<< >>) = 0
  BY EmptySeq
<1>2. NoFrame \in Frame
  BY DEF NoFrame, Frame, Kinds
<1>3. Shaped(frames') /\ Current(frames', generation')
  BY <1>1, QueueAssumption DEF Shaped, Unique, Current, HardLimit
<1>4. TypeOK'
  BY <1>1, <1>2 DEF TypeOK, PcValues
<1>. QED BY <1>3, <1>4 DEF LossReported, NoLostWakeup

(* Every step keeps the invariant. *)
LEMMA NextInv == Inv /\ [Next]_vars => Inv'
<1>. SUFFICES ASSUME Inv, [Next]_vars PROVE Inv'
  OBVIOUS
<1>1. ASSUME NEW kind \in BroadcastKinds, Broadcast(kind) PROVE Inv'
  BY <1>1, PushKeepsInv DEF Broadcast
<1>2. CASE Reject
  BY <1>2, PushKeepsInv DEF Reject
<1>3. CASE Subscribe
  BY <1>3, SubscribeInv
<1>4. CASE Unsubscribe
  BY <1>4, UnsubscribeInv
<1>5. CASE Disconnect
  BY <1>5 DEF Disconnect, Inv, QueueShape, FramesOwned, queue, subscription, sender,
              TypeOK, LossReported, CarriesLoss, NoLostWakeup
<1>6. CASE NextFrame
  BY <1>6, NextFrameInv
<1>7. CASE NextEmpty \/ NextOverflow \/ Wake \/ AnchorsRead \/ SendDone \/ SenderEnds
  BY <1>7, SenderInv
<1>8. CASE Teardown
  BY <1>8, NewConnectionInv DEF Teardown
<1>9. CASE Connect
  BY <1>9, NewConnectionInv DEF Connect
<1>10. CASE UNCHANGED vars
  BY <1>10 DEF vars, Inv, QueueShape, FramesOwned, TypeOK, LossReported,
               CarriesLoss, NoLostWakeup
<1>. QED BY <1>1, <1>2, <1>3, <1>4, <1>5, <1>6, <1>7, <1>8, <1>9, <1>10 DEF Next

-----------------------------------------------------------------------------
(* The theorems *)

(* The invariant holds in every reachable state. *)
THEOREM Invariance == Spec => []Inv
<1>. QED BY InitInv, NextInv, PTL DEF Spec

(* Subscriber keeps its types: in particular the counter of shed appends    *)
(* never goes below zero.                                                   *)
THEOREM TypeCorrect == Spec => []TypeOK
<1>1. Inv => TypeOK
  BY DEF Inv
<1>. QED BY Invariance, <1>1, PTL

(* Subscriber.push keeps the queue within twice max_frames, and one round   *)
(* of its shedding loop suffices.                                           *)
THEOREM QueueBounded == Spec => []QueueShape
<1>1. Inv => QueueShape
  BY DEF Inv
<1>. QED BY Invariance, <1>1, PTL

(* The reason lost is put on control frames too: every shed append is       *)
(* reported, or still has a frame that will report it.                      *)
THEOREM LossIsReported == Spec => []LossReported
<1>1. Inv => LossReported
  BY DEF Inv
<1>. QED BY Invariance, <1>1, PTL

(* Subscriber.next never waits for its Event while frames are queued.       *)
THEOREM SenderAwake == Spec => []NoLostWakeup
<1>1. Inv => NoLostWakeup
  BY DEF Inv
<1>. QED BY Invariance, <1>1, PTL

(* _send_frames never puts a frame of an earlier subscription on the wire.  *)
THEOREM SendsAreCurrent == Spec => SendsCurrentSubscription
<1> DEFINE A == pc' = "sending" /\ pc # "sending" => sending'.gen = generation'
<1>1. Inv /\ [Next]_vars => [A]_vars
  <2>. SUFFICES ASSUME Inv, Next, pc' = "sending", pc # "sending"
                PROVE  sending'.gen = generation'
    OBVIOUS
  <2>1. CASE NextFrame
    <3>1. sending' = Head(frames) /\ generation' = generation
      BY <2>1 DEF NextFrame, StartSend, subscription
    <3>2. Head(frames).gen = generation
      BY <2>1, TailProperties DEF NextFrame, Inv, TypeOK, QueueShape, FramesOwned
    <3>. QED BY <3>1, <3>2
  <2>2. CASE AnchorsRead
    BY <2>2 DEF AnchorsRead, StartSend, subscription, Inv, FramesOwned
  <2>3. CASE ~NextFrame /\ ~AnchorsRead
    BY <2>3 DEF Next, Broadcast, Subscribe, Unsubscribe, Reject, Disconnect,
                NextEmpty, NextOverflow, Wake, SendDone, SenderEnds, Teardown,
                Connect, sender
  <2>. QED BY <2>1, <2>2, <2>3
<1>. QED BY Invariance, <1>1, PTL DEF Spec, SendsCurrentSubscription

-----------------------------------------------------------------------------
(* The control frames *)

(* Induction up to n, over the set of the numbers that have the property. *)
LEMMA Induction ==
    ASSUME NEW n \in Nat, NEW P,
           0 \in P, \A i \in 1..n : i - 1 \in P => i \in P
    PROVE  \A i \in 0..n : i \in P
<1> DEFINE T == {i \in 0..n : i \notin P}
<1> SUFFICES ASSUME T # {} PROVE FALSE
  OBVIOUS
<1>1. T \in SUBSET Nat
  OBVIOUS
<1>2. Min(T) \in T /\ \A y \in T : Min(T) <= y
  BY <1>1, MinProperties
<1>3. PICK m \in T : \A y \in T : m <= y
  BY <1>2
<1>4. m \in 1..n /\ m \notin P
  BY <1>3
<1>5. m - 1 \notin T
  BY <1>3, <1>4
<1>6. QED
  BY <1>4, <1>5

(* q after f was looked at.                                                 *)
Looked(q, f) == IF Control(f) THEN Append(q, f) ELSE q

(* v[i] is what is found among the first i of n frames of s.                *)
Search(v, s, n) ==
    v[0] = << >> /\ \A i \in 1..n : v[i] = Looked(v[i - 1], s[i])

(* A look at one more frame keeps the controls a sequence of frames.        *)
LEMMA LookedType ==
    ASSUME NEW q \in Seq(Frame), NEW f \in Frame
    PROVE  Looked(q, f) \in Seq(Frame)
<1>1. Append(q, f) \in Seq(Frame)
  BY AppendProperties
<1>. QED BY <1>1 DEF Looked

(* The controls found up to each place of a sequence exist.                 *)
LEMMA SearchExists ==
    ASSUME NEW n \in Nat, NEW s, \A i \in 1..n : s[i] \in Frame
    PROVE  \E v \in [0..n -> Seq(Frame)] : Search(v, s, n)
<1> DEFINE P == {k \in 0..n : \E v \in [0..k -> Seq(Frame)] : Search(v, s, k)}
<1>1. 0 \in P
  <2> DEFINE v == [i \in 0..0 |-> << >>]
  <2>1. << >> \in Seq(Frame)
    BY EmptySeq
  <2>2. v \in [0..0 -> Seq(Frame)] /\ v[0] = << >>
    BY <2>1
  <2>3. Search(v, s, 0)
    BY <2>2 DEF Search
  <2>. QED BY <2>2, <2>3
<1>2. ASSUME NEW k \in 1..n, k - 1 \in P PROVE k \in P
  <2>1. PICK v \in [0..(k - 1) -> Seq(Frame)] : Search(v, s, k - 1)
    BY <1>2
  <2> DEFINE w == [i \in 0..k |-> IF i = k THEN Looked(v[k - 1], s[k]) ELSE v[i]]
  <2>2. v \in [0..(k - 1) -> Seq(Frame)]
    BY <2>1
  <2>3. Looked(v[k - 1], s[k]) \in Seq(Frame)
    BY <2>2, LookedType
  <2>4. w \in [0..k -> Seq(Frame)]
    BY <2>2, <2>3
  <2>5. w[0] = << >>
    BY <2>1 DEF Search
  <2>6. ASSUME NEW i \in 1..k PROVE w[i] = Looked(w[i - 1], s[i])
    <3>1. w[i - 1] = v[i - 1]
      OBVIOUS
    <3>2. CASE i = k
      BY <3>1, <3>2
    <3>3. CASE i # k
      <4>1. w[i] = v[i] /\ i \in 1..(k - 1)
        BY <3>3
      <4>. QED BY <2>1, <3>1, <4>1 DEF Search
    <3>. QED BY <3>2, <3>3
  <2>7. Search(w, s, k)
    BY <2>5, <2>6 DEF Search
  <2>. QED BY <2>4, <2>7
<1>. HIDE DEF P
<1>3. n \in P
  BY <1>1, <1>2, Induction
<1>. QED BY <1>3 DEF P

(* Two searches agree.                                                      *)
LEMMA SearchUnique ==
    ASSUME NEW n \in Nat, NEW s, NEW v, NEW w,
           Search(v, s, n), Search(w, s, n)
    PROVE  v[n] = w[n]
<1> DEFINE P == {i \in 0..n : v[i] = w[i]}
<1>1. 0 \in P
  BY DEF Search
<1>2. ASSUME NEW i \in 1..n, i - 1 \in P PROVE i \in P
  BY <1>2 DEF Search
<1>. HIDE DEF P
<1>3. n \in P
  BY <1>1, <1>2, Induction
<1>. QED BY <1>3 DEF P

(* Controls is where the search ends.                                       *)
LEMMA ControlsSearch ==
    ASSUME NEW s \in Seq(Frame), NEW n \in Nat, n = Len(s)
    PROVE  \E v \in [0..n -> Seq(Frame)] : Search(v, s, n) /\ Controls(s) = v[n]
<1>1. \A i \in 1..n : s[i] \in Frame
  BY ElementOfSeq
<1>2. PICK v \in [0..n -> Seq(Frame)] : Search(v, s, n)
  BY <1>1, SearchExists
<1> DEFINE F(f) == [i \in 0..n |->
              IF i = 0 THEN << >>
              ELSE IF Control(s[i]) THEN Append(f[i - 1], s[i]) ELSE f[i - 1]]
           u == CHOOSE f : f = F(f)
<1>3. v = F(v)
  <2>1. v \in [0..n -> Seq(Frame)] /\ v[0] = << >>
    BY <1>2 DEF Search
  <2>2. ASSUME NEW i \in 1..n
        PROVE  v[i] = IF Control(s[i]) THEN Append(v[i - 1], s[i]) ELSE v[i - 1]
    BY <1>2 DEF Search, Looked
  <2>3. \A i \in 0..n : v[i] = IF i = 0 THEN << >>
              ELSE IF Control(s[i]) THEN Append(v[i - 1], s[i]) ELSE v[i - 1]
    <3>1. \A i \in 0..n : i = 0 \/ i \in 1..n
      OBVIOUS
    <3>. QED BY <2>1, <2>2, <3>1, Zenon
  <2>. QED BY <2>1, <2>3
<1>4. u = F(u)
  BY <1>3
<1>5. Controls(s) = u[n]
  BY DEF Controls
<1>. HIDE DEF u
<1>6. DOMAIN u = 0..n /\ u[0] = << >>
  BY <1>4
<1>7. ASSUME NEW i \in 1..n PROVE u[i] = Looked(u[i - 1], s[i])
  <2>1. i \in 0..n /\ i # 0
    OBVIOUS
  <2>2. u[i] = F(u)[i]
    BY <1>4
  <2>. QED BY <2>1, <2>2 DEF Looked
<1>8. Search(u, s, n)
  BY <1>6, <1>7 DEF Search
<1>9. u[n] = v[n]
  BY <1>2, <1>8, SearchUnique
<1>. QED BY <1>2, <1>5, <1>9

(* How to recognise a concatenation.                                        *)
LEMMA ConcatIs ==
    ASSUME NEW s \in Seq(Frame), NEW t \in Seq(Frame), NEW q \in Seq(Frame),
           Len(q) = Len(s) + Len(t), \A i \in 1..Len(s) : q[i] = s[i],
           \A i \in 1..Len(t) : q[Len(s) + i] = t[i]
    PROVE  q = s \o t
<1> DEFINE c == s \o t
           m == Len(s)
           n == Len(t)
<1>1. m \in Nat /\ n \in Nat
  BY LenProperties
<1>2. /\ Len(q) = m + n /\ \A i \in 1..m : q[i] = s[i]
      /\ \A i \in 1..n : q[m + i] = t[i]
  OBVIOUS
<1>3. /\ c \in Seq(Frame) /\ Len(c) = m + n
      /\ \A i \in 1..(m + n) : c[i] = IF i <= m THEN s[i] ELSE t[i - m]
  BY ConcatProperties
<1>. HIDE DEF c, m, n
<1>4. ASSUME NEW i \in 1..(m + n) PROVE q[i] = c[i]
  <2>1. CASE i <= m
    BY <1>3, <1>1, <1>2, <2>1
  <2>2. CASE i > m
    <3>1. i - m \in 1..n /\ m + (i - m) = i
      BY <1>1, <2>2
    <3>2. q[m + (i - m)] = t[i - m]
      BY <1>2, <3>1
    <3>. QED BY <1>3, <1>1, <2>2, <3>1, <3>2
  <2>. QED BY <1>1, <2>1, <2>2
<1>5. q = c
  BY <1>3, <1>4, <1>2, SeqEqual
<1>. QED BY <1>5 DEF c

(* Append joins a sequence of one frame behind.                             *)
LEMMA AppendJoins ==
    ASSUME NEW s \in Seq(Frame), NEW f \in Frame
    PROVE  <<f>> \in Seq(Frame) /\ Append(s, f) = s \o <<f>>
<1>1. <<f>> \in Seq(Frame)
  OBVIOUS
<1>2. Append(s, f) = s \o <<f>>
  BY AppendIsConcat, Zenon
<1>. QED BY <1>1, <1>2

(* Joining, one frame longer.                                               *)
LEMMA AppendBehind ==
    ASSUME NEW s \in Seq(Frame), NEW t \in Seq(Frame), NEW f \in Frame
    PROVE  Append(s \o t, f) = s \o Append(t, f)
<1>1. s \o t \in Seq(Frame)
  BY ConcatProperties
<1> DEFINE one == <<f>>
<1>2. one \in Seq(Frame) /\ Append(t, f) = t \o one
  BY AppendJoins
<1>3. Append(s \o t, f) = (s \o t) \o one
  BY <1>1, AppendJoins
<1>. HIDE DEF one
<1>4. (s \o t) \o one = s \o (t \o one)
  BY <1>2, ConcatAssociative
<1>. QED BY <1>2, <1>3, <1>4

(* The controls of two sequences, one behind the other.                     *)
LEMMA ControlsConcat ==
    ASSUME NEW a \in Seq(Frame), NEW b \in Seq(Frame)
    PROVE  Controls(a \o b) = Controls(a) \o Controls(b)
<1>1. PICK m \in Nat, n \in Nat : m = Len(a) /\ n = Len(b)
  BY LenProperties
<1>2. PICK l \in Nat : l = m + n /\ m <= l
  BY <1>1
<1> DEFINE c == a \o b
<1>3. /\ c \in Seq(Frame) /\ Len(c) = l
      /\ \A i \in 1..m : c[i] = a[i]
      /\ \A i \in 1..n : c[m + i] = b[i]
  BY <1>1, <1>2, ConcatProperties
<1>. HIDE DEF c
<1>4. PICK u \in [0..m -> Seq(Frame)] : Search(u, a, m) /\ Controls(a) = u[m]
  BY <1>1, ControlsSearch
<1>5. PICK v \in [0..n -> Seq(Frame)] : Search(v, b, n) /\ Controls(b) = v[n]
  BY <1>1, ControlsSearch
<1>6. PICK w : Search(w, c, l) /\ Controls(c) = w[l]
  BY <1>2, <1>3, ControlsSearch
<1>7. w[m] = u[m] /\ u[m] \in Seq(Frame)
  <2>1. ASSUME NEW i \in 1..m PROVE w[i] = Looked(w[i - 1], a[i])
    <3>1. i \in 1..l
      BY <1>1, <1>2
    <3>2. w[i] = Looked(w[i - 1], c[i])
      BY <1>6, <3>1 DEF Search
    <3>. QED BY <1>3, <3>2
  <2>2. Search(w, a, m)
    BY <1>6, <2>1 DEF Search
  <2>3. w[m] = u[m]
    BY <1>1, <1>4, <2>2, SearchUnique
  <2>4. m \in 0..m
    BY <1>1
  <2>. QED BY <2>3, <2>4
<1> DEFINE Q == {i \in 0..n : w[m + i] = u[m] \o v[i]}
<1>8. 0 \in Q
  <2>1. u[m] \o << >> = u[m]
    BY <1>7, ConcatEmptySeq
  <2>2. v[0] = << >> /\ m + 0 = m /\ 0 \in 0..n
    BY <1>1, <1>5 DEF Search
  <2>3. w[m + 0] = u[m] \o v[0] /\ 0 \in 0..n
    BY <1>7, <2>1, <2>2
  <2>. QED BY <2>3
<1>9. ASSUME NEW i \in 1..n, i - 1 \in Q PROVE i \in Q
  <2>1. /\ m + i \in 1..l /\ (m + i) - 1 = m + (i - 1)
        /\ i - 1 \in 0..n /\ i \in 0..n
    BY <1>1, <1>2
  <2>2. w[m + i] = Looked(w[m + (i - 1)], b[i])
    BY <1>3, <1>6, <2>1 DEF Search
  <2>3. w[m + i] = Looked(u[m] \o v[i - 1], b[i])
    BY <1>9, <2>2
  <2>4. v[i] = Looked(v[i - 1], b[i])
    BY <1>5 DEF Search
  <2>5. v[i - 1] \in Seq(Frame) /\ b[i] \in Frame
    BY <1>1, <2>1, ElementOfSeq
  <2>6. Append(u[m] \o v[i - 1], b[i]) = u[m] \o Append(v[i - 1], b[i])
    BY <1>7, <2>5, AppendBehind
  <2>7. w[m + i] = u[m] \o v[i]
    BY <2>3, <2>4, <2>6, Zenon DEF Looked
  <2>. QED BY <2>1, <2>7
<1>. HIDE DEF Q
<1>10. n \in Q
  <2>1. \A i \in 0..n : i \in Q
    BY <1>1, <1>8, <1>9, Induction, Zenon
  <2>2. n \in 0..n
    BY <1>1
  <2>. QED BY <2>1, <2>2
<1>11. w[l] = u[m] \o v[n]
  BY <1>2, <1>10 DEF Q
<1>. QED BY <1>4, <1>5, <1>6, <1>11 DEF c

(* The controls of a queue are frames.                                      *)
LEMMA ControlsType ==
    ASSUME NEW s \in Seq(Frame)
    PROVE  Controls(s) \in Seq(Frame)
<1>1. Len(s) \in Nat /\ Len(s) \in 0..Len(s)
  BY LenProperties
<1>2. PICK v \in [0..Len(s) -> Seq(Frame)] : Search(v, s, Len(s)) /\ Controls(s) = v[Len(s)]
  BY <1>1, ControlsSearch
<1>. QED BY <1>1, <1>2

(* The controls of none and of one.                                         *)
LEMMA ControlsShort ==
    /\ Controls(<< >>) = << >>
    /\ \A f \in Frame : Controls(<<f>>) = IF Control(f) THEN <<f>> ELSE << >>
<1>1. << >> \in Seq(Frame) /\ Len(<< >>) = 0
  BY EmptySeq
<1>2. Controls(<< >>) = << >>
  <2>1. PICK v : Search(v, << >>, 0) /\ Controls(<< >>) = v[0]
    BY <1>1, ControlsSearch
  <2>. QED BY <2>1 DEF Search
<1>3. ASSUME NEW f \in Frame
      PROVE  Controls(<<f>>) = IF Control(f) THEN <<f>> ELSE << >>
  <2> DEFINE s == <<f>>
  <2>1. s \in Seq(Frame) /\ Len(s) = 1 /\ s[1] = f
    OBVIOUS
  <2>. HIDE DEF s
  <2>2. PICK v : Search(v, s, 1) /\ Controls(s) = v[1]
    BY <2>1, ControlsSearch
  <2>3. v[1] = Looked(<< >>, f)
    BY <2>1, <2>2 DEF Search
  <2>4. Append(<< >>, f) = <<f>>
    OBVIOUS
  <2>. QED BY <2>2, <2>3, <2>4 DEF Looked, s
<1>. QED BY <1>2, <1>3

(* A frame that is no control may be taken out.                             *)
LEMMA ControlsWithout ==
    ASSUME NEW q \in Seq(Frame), NEW k \in 1..Len(q), ~Control(q[k]),
           NEW r, Without(q, r, k)
    PROVE  Controls(r) = Controls(q)
<1>1. PICK n \in Nat : n = Len(q) /\ \A i \in 1..n : q[i] \in Frame
  BY LenProperties, ElementOfSeq
<1>2. k \in 1..n /\ n \in Nat
  BY <1>1
<1> DEFINE a == SubSeq(q, 1, k - 1)
           b == SubSeq(q, k + 1, n)
           one == <<q[k]>>
<1>3. /\ a \in Seq(Frame) /\ Len(a) = k - 1
      /\ \A i \in 1..(k - 1) : a[i] = q[i]
  <2>1. \A i \in 1..(k - 1) : q[i] \in Frame
    BY <1>1
  <2>2. /\ a \in Seq(Frame)
        /\ Len(a) = IF 1 <= k - 1 THEN (k - 1) - 1 + 1 ELSE 0
        /\ \A i \in 1..((k - 1) - 1 + 1) : a[i] = q[1 + i - 1]
    BY <2>1, SubSeqProperties
  <2>. HIDE DEF a
  <2>. QED BY <2>2
<1>4. /\ b \in Seq(Frame) /\ Len(b) = n - k
      /\ \A i \in 1..(n - k) : b[i] = q[k + i]
  <2>1. \A i \in (k + 1)..n : q[i] \in Frame
    BY <1>1
  <2>2. /\ b \in Seq(Frame)
        /\ Len(b) = IF k + 1 <= n THEN n - (k + 1) + 1 ELSE 0
        /\ \A i \in 1..(n - (k + 1) + 1) : b[i] = q[(k + 1) + i - 1]
    BY <2>1, SubSeqProperties
  <2>. HIDE DEF b
  <2>. QED BY <1>2, <2>2
<1>5. one \in Seq(Frame) /\ Len(one) = 1 /\ one[1] = q[k]
  BY <1>1
<1>6. Controls(one) = << >>
  BY <1>1, ControlsShort
<1>. HIDE DEF a, b, one
<1>7. r = a \o b
  <2>1. r \in Seq(Frame) /\ Len(r) = (k - 1) + (n - k)
    BY <1>1, <1>2 DEF Without
  <2>2. \A i \in 1..(n - 1) : r[i] = IF i < k THEN q[i] ELSE q[i + 1]
    BY <1>1 DEF Without
  <2>3. \A i \in 1..(k - 1) : r[i] = a[i]
    BY <1>2, <1>3, <2>2
  <2>4. ASSUME NEW i \in 1..(n - k) PROVE r[(k - 1) + i] = b[i]
    <3>1. (k - 1) + i \in 1..(n - 1) /\ ~((k - 1) + i < k) /\ (k - 1) + i + 1 = k + i
      BY <1>2
    <3>. QED BY <1>4, <2>2, <3>1
  <2>5. /\ Len(r) = Len(a) + Len(b)
        /\ \A i \in 1..Len(a) : r[i] = a[i]
        /\ \A i \in 1..Len(b) : r[Len(a) + i] = b[i]
    BY <1>3, <1>4, <2>1, <2>3, <2>4
  <2>. QED BY <1>3, <1>4, <2>1, <2>5, ConcatIs
<1> DEFINE t == one \o b
<1>8. /\ t \in Seq(Frame) /\ Len(t) = (n - k) + 1
      /\ \A i \in 1..((n - k) + 1) : t[i] = q[(k - 1) + i]
  <2>1. /\ t \in Seq(Frame) /\ Len(t) = 1 + (n - k)
        /\ \A i \in 1..(1 + (n - k)) : t[i] = IF i <= 1 THEN one[i] ELSE b[i - 1]
    <3>1. /\ t \in Seq(Frame) /\ Len(t) = Len(one) + Len(b)
          /\ \A i \in 1..(Len(one) + Len(b)) :
                t[i] = IF i <= Len(one) THEN one[i] ELSE b[i - Len(one)]
      BY <1>4, <1>5, ConcatProperties
    <3>. HIDE DEF t
    <3>. QED BY <1>2, <1>4, <1>5, <3>1
  <2>. HIDE DEF t
  <2>2. ASSUME NEW i \in 1..((n - k) + 1) PROVE t[i] = q[(k - 1) + i]
    <3>1. CASE i = 1
      BY <1>2, <1>5, <2>1, <3>1
    <3>2. CASE i # 1
      <4>1. i - 1 \in 1..(n - k) /\ k + (i - 1) = (k - 1) + i /\ ~(i <= 1)
        BY <1>2, <3>2
      <4>2. t[i] = b[i - 1]
        BY <1>2, <2>1, <4>1
      <4>3. b[i - 1] = q[k + (i - 1)]
        BY <1>4, <4>1
      <4>. QED BY <4>1, <4>2, <4>3
    <3>. QED BY <3>1, <3>2
  <2>. QED BY <1>2, <2>1, <2>2
<1>. HIDE DEF t
<1>9. q = a \o t
  <2>1. (k - 1) + ((n - k) + 1) = n
    BY <1>2
  <2>2. /\ Len(q) = Len(a) + Len(t)
        /\ \A i \in 1..Len(a) : q[i] = a[i]
        /\ \A i \in 1..Len(t) : q[Len(a) + i] = t[i]
    BY <1>1, <1>3, <1>8, <2>1
  <2>. QED BY <1>3, <1>8, <2>2, ConcatIs
<1>10. Controls(r) = Controls(a) \o Controls(b)
  BY <1>3, <1>4, <1>7, ControlsConcat
<1>11. Controls(q) = Controls(a) \o Controls(t)
  BY <1>3, <1>8, <1>9, ControlsConcat
<1>12. Controls(t) = Controls(b)
  <2>1. Controls(t) = Controls(one) \o Controls(b)
    BY <1>4, <1>5, ControlsConcat DEF t
  <2>2. Controls(b) \in Seq(Frame)
    BY <1>4, ControlsType
  <2>. QED BY <1>6, <2>1, <2>2, ConcatEmptySeq
<1>. QED BY <1>10, <1>11, <1>12

(* The oldest frame that is shed or superseded is no control.               *)
LEMMA RemoveOldestControls ==
    ASSUME NEW q \in Seq(Frame), NEW kind \in {"append", "error"}
    PROVE  /\ Controls(RemoveOldest(q, kind)) = Controls(q)
           /\ RemoveOldest(q, kind) \in Seq(Frame)
<1>1. CASE RemoveOldest(q, kind) = q
  BY <1>1
<1>2. CASE \E k \in 1..Len(q) : q[k].kind = kind /\ Without(q, RemoveOldest(q, kind), k)
  <2>1. PICK k \in 1..Len(q) : q[k].kind = kind /\ Without(q, RemoveOldest(q, kind), k)
    BY <1>2
  <2>2. ~Control(q[k])
    BY <2>1 DEF Control
  <2>. QED BY <2>1, <2>2, ControlsWithout DEF Without
<1>. QED BY <1>1, <1>2, RemoveOldestProperties

(* A push that does not overflow the queue adds its frame, if a control, to *)
(* the controls that wait already.                                          *)
LEMMA PushControls ==
    ASSUME NEW q \in Seq(Frame), NEW n, NEW f \in Frame, Push(q, n, f), ~overflowed'
    PROVE  \/ frames' = q
           \/ /\ frames' \in Seq(Frame)
              /\ Controls(frames') = Controls(q) \o Controls(<<f>>)
<1>1. CASE overflowed
  BY <1>1 DEF Push
<1>2. CASE ~overflowed
  <2> DEFINE s == Superseded(q, f)
             full == Append(s, f)
  <2>1. frames' = Shed(full)
    BY <1>2 DEF Push
  <2>2. s \in Seq(Frame) /\ Controls(s) = Controls(q)
    BY RemoveOldestControls DEF Superseded
  <2>. HIDE DEF s
  <2>3. <<f>> \in Seq(Frame) /\ full = s \o <<f>>
    BY <2>2, AppendJoins
  <2>4. full \in Seq(Frame) /\ Controls(full) = Controls(q) \o Controls(<<f>>)
    BY <2>2, <2>3, ConcatProperties, ControlsConcat
  <2>. HIDE DEF full
  <2>5. Shed(full) \in Seq(Frame) /\ Controls(Shed(full)) = Controls(full)
    BY <2>4, RemoveOldestControls DEF Shed
  <2>. QED BY <2>1, <2>4, <2>5
<1>. QED BY <1>1, <1>2

(* One frame in front of a queue is its head, and the queue its tail.       *)
LEMMA OneInFront ==
    ASSUME NEW f \in Frame, NEW q \in Seq(Frame)
    PROVE  /\ <<f>> \o q # << >>
           /\ Head(<<f>> \o q) = f /\ Tail(<<f>> \o q) = q
<1> DEFINE one == <<f>>
           c == one \o q
<1>1. one \in Seq(Frame) /\ Len(one) = 1 /\ one[1] = f
  OBVIOUS
<1>. HIDE DEF one
<1>2. PICK n \in Nat : n = Len(q)
  BY LenProperties
<1>3. /\ c \in Seq(Frame) /\ Len(c) = 1 + n
      /\ \A i \in 1..(1 + n) : c[i] = IF i <= 1 THEN one[i] ELSE q[i - 1]
  <2>1. /\ c \in Seq(Frame) /\ Len(c) = Len(one) + Len(q)
        /\ \A i \in 1..(Len(one) + Len(q)) :
              c[i] = IF i <= Len(one) THEN one[i] ELSE q[i - Len(one)]
    BY <1>1, ConcatProperties
  <2>. HIDE DEF c
  <2>. QED BY <1>1, <1>2, <2>1
<1>. HIDE DEF c
<1>4. c # << >> /\ c[1] = f
  BY <1>1, <1>2, <1>3, EmptySeq
<1>5. /\ Tail(c) \in Seq(Frame) /\ Len(Tail(c)) = n
      /\ \A i \in 1..n : Tail(c)[i] = c[i + 1]
  BY <1>2, <1>3, <1>4, HeadTailProperties
<1>6. \A i \in 1..n : Tail(c)[i] = q[i]
  BY <1>2, <1>3, <1>5
<1>7. Tail(c) = q
  BY <1>2, <1>5, <1>6, SeqEqual
<1>8. Head(c) = c[1]
  BY <1>3, <1>4
<1>. QED BY <1>4, <1>7, <1>8 DEF c, one

(* A queue that is not empty is its head in front of its tail.              *)
LEMMA HeadAndTail ==
    ASSUME NEW q \in Seq(Frame), q # << >>
    PROVE  /\ Head(q) \in Frame /\ Tail(q) \in Seq(Frame)
           /\ q = <<Head(q)>> \o Tail(q)
<1> DEFINE one == <<Head(q)>>
           t == Tail(q)
<1>1. PICK n \in Nat : n = Len(q) /\ n >= 1
  BY LenProperties, EmptySeq
<1>2. /\ Head(q) \in Frame /\ t \in Seq(Frame)
      /\ Len(t) = n - 1 /\ \A i \in 1..(n - 1) : t[i] = q[i + 1]
  BY <1>1, HeadTailProperties
<1>3. Head(q) = q[1]
  OBVIOUS
<1>4. one \in Seq(Frame) /\ Len(one) = 1 /\ one[1] = q[1]
  BY <1>2, <1>3
<1>. HIDE DEF one, t
<1>5. /\ Len(q) = Len(one) + Len(t)
      /\ \A i \in 1..Len(one) : q[i] = one[i]
      /\ \A i \in 1..Len(t) : q[Len(one) + i] = t[i]
  BY <1>1, <1>2, <1>4
<1>6. q = one \o t
  BY <1>2, <1>4, <1>5, ConcatIs
<1>. QED BY <1>2, <1>6 DEF one, t

(* Every sequence is a prefix of what continues it.                         *)
LEMMA PrefixOfConcat ==
    ASSUME NEW s \in Seq(Frame), NEW t \in Seq(Frame)
    PROVE  IsPrefix(s, s \o t)
<1>1. PICK m \in Nat, n \in Nat : m = Len(s) /\ n = Len(t)
  BY LenProperties
<1> DEFINE c == s \o t
           b == SubSeq(s, 1, m)
           d == SubSeq(c, 1, m)
<1>2. c \in Seq(Frame) /\ Len(c) = m + n /\ \A i \in 1..m : c[i] = s[i]
  BY <1>1, ConcatProperties
<1>3. \A i \in 1..m : s[i] \in Frame
  BY <1>1, ElementOfSeq
<1>. HIDE DEF c
<1>4. /\ b \in Seq(Frame) /\ Len(b) = IF 1 <= m THEN m - 1 + 1 ELSE 0
      /\ \A i \in 1..(m - 1 + 1) : b[i] = s[1 + i - 1]
  BY <1>1, <1>3, SubSeqProperties
<1>5. /\ d \in Seq(Frame) /\ Len(d) = IF 1 <= m THEN m - 1 + 1 ELSE 0
      /\ \A i \in 1..(m - 1 + 1) : d[i] = c[1 + i - 1]
  BY <1>1, <1>2, <1>3, SubSeqProperties
<1>. HIDE DEF b, d
<1>6. Len(b) = m /\ Len(d) = m /\ \A i \in 1..m : b[i] = d[i]
  BY <1>1, <1>2, <1>4, <1>5
<1>7. b = d
  BY <1>4, <1>5, <1>6, SeqEqual
<1>8. m <= m + n
  BY <1>1
<1>. QED BY <1>1, <1>2, <1>7, <1>8 DEF IsPrefix, b, c, d

(* A sequence is a prefix of itself.                                        *)
LEMMA PrefixOfItself ==
    ASSUME NEW s \in Seq(Frame)
    PROVE  IsPrefix(s, s)
<1>1. << >> \in Seq(Frame) /\ s \o << >> = s
  BY EmptySeq, ConcatEmptySeq
<1>. QED BY <1>1, PrefixOfConcat

(* Waiting frames, of which the first leaves: its controls are behind it.   *)
LEMMA FirstLeaves ==
    ASSUME NEW f \in Frame, NEW q \in Seq(Frame)
    PROVE  LET old == Controls(<<f>> \o q)
           IN  \/ IsPrefix(old, Controls(q))
               \/ old # << >> /\ Controls(q) = Tail(old) /\ f = Head(old)
<1> DEFINE one == <<f>>
           old == Controls(one \o q)
<1>1. one \in Seq(Frame)
  OBVIOUS
<1>2. Controls(q) \in Seq(Frame)
  BY ControlsType
<1>3. old = Controls(one) \o Controls(q)
  BY <1>1, ControlsConcat
<1>4. CASE Control(f)
  <2>1. old = one \o Controls(q)
    BY <1>3, <1>4, ControlsShort
  <2>2. /\ one \o Controls(q) # << >>
        /\ Head(one \o Controls(q)) = f /\ Tail(one \o Controls(q)) = Controls(q)
    BY <1>2, OneInFront
  <2>. QED BY <2>1, <2>2
<1>5. CASE ~Control(f)
  <2>1. Controls(one) = << >>
    BY <1>5, ControlsShort
  <2>2. old = Controls(q)
    BY <1>2, <1>3, <2>1, ConcatEmptySeq
  <2>. QED BY <1>2, <2>2, PrefixOfItself
<1>. QED BY <1>4, <1>5

(* What the sender holds for its subscription, then what is queued.         *)
Waiting == Held \o frames

(* What waits to be sent is a sequence of frames.                           *)
LEMMA WaitingType == TypeOK => Held \in Seq(Frame) /\ Waiting \in Seq(Frame)
<1>. SUFFICES ASSUME TypeOK PROVE Held \in Seq(Frame) /\ Waiting \in Seq(Frame)
  OBVIOUS
<1>1. << >> \in Seq(Frame) /\ <<sending>> \in Seq(Frame)
  BY EmptySeq DEF TypeOK
<1>2. Held \in Seq(Frame)
  BY <1>1 DEF Held
<1>. QED BY <1>2, ConcatProperties DEF Waiting, TypeOK

(* A push leaves the controls that wait in front.                           *)
LEMMA PushKeepsControls ==
    ASSUME TypeOK, NEW kind \in Kinds, Push(frames, lost, New(kind)), ~overflowed',
           Held' = Held
    PROVE  IsPrefix(Controls(Waiting), Controls(Waiting)')
<1>1. New(kind) \in Frame /\ frames \in Seq(Frame)
  BY DEF New, Frame, TypeOK
<1>2. Held \in Seq(Frame) /\ Waiting \in Seq(Frame) /\ Controls(Waiting) \in Seq(Frame)
  BY WaitingType, ControlsType
<1>3. Controls(Waiting)' = Controls(Held \o frames')
  BY DEF Waiting, Controls
<1>4. CASE frames' = frames
  <2>1. Controls(Waiting)' = Controls(Waiting)
    BY <1>3, <1>4 DEF Waiting
  <2>. QED BY <1>2, <2>1, PrefixOfItself
<1>5. CASE frames' # frames
  <2> DEFINE one == <<New(kind)>>
             more == Controls(one)
  <2>1. one \in Seq(Frame)
    BY <1>1
  <2>2. /\ frames' \in Seq(Frame)
        /\ Controls(frames') = Controls(frames) \o more
    BY <1>1, <1>5, PushControls
  <2>. HIDE DEF one
  <2>3. more \in Seq(Frame) /\ Controls(frames) \in Seq(Frame) /\ Controls(Held) \in Seq(Frame)
    BY <1>1, <1>2, <2>1, ControlsType
  <2>. HIDE DEF more
  <2>4. Controls(Held \o frames') = Controls(Held) \o (Controls(frames) \o more)
    <3>1. Controls(Held \o frames') = Controls(Held) \o Controls(frames')
      BY <1>2, <2>2, ControlsConcat
    <3>. QED BY <2>2, <3>1
  <2>5. Controls(Waiting) = Controls(Held) \o Controls(frames)
    BY <1>1, <1>2, ControlsConcat DEF Waiting
  <2>6. Controls(Waiting)' = Controls(Waiting) \o more
    <3> DEFINE x == Controls(Held)
               y == Controls(frames)
    <3>1. x \in Seq(Frame) /\ y \in Seq(Frame) /\ more \in Seq(Frame)
      BY <2>3
    <3>2. /\ Controls(Waiting) = x \o y
          /\ Controls(Waiting)' = x \o (y \o more)
      BY <1>3, <2>4, <2>5
    <3>. HIDE DEF x, y
    <3>3. (x \o y) \o more = x \o (y \o more)
      BY <3>1, ConcatAssociative
    <3>. QED BY <3>2, <3>3
  <2>. QED BY <1>2, <2>3, <2>6, PrefixOfConcat
<1>. QED BY <1>4, <1>5

(* A step either keeps the controls in front, or sends the first.           *)
LEMMA ControlsStep ==
    ASSUME TypeOK, Next, connected, connected', generation' = generation, ~overflowed'
    PROVE  LET old == Controls(Waiting)
               new == Controls(Waiting)'
           IN  \/ IsPrefix(old, new)
               \/ /\ pc # "sending" /\ pc' = "sending"
                  /\ old # << >> /\ new = Tail(old) /\ sending' = Head(old)
<1>1. /\ Held \in Seq(Frame) /\ Waiting \in Seq(Frame) /\ frames \in Seq(Frame)
      /\ Controls(Waiting) \in Seq(Frame) /\ generation \in Nat
  BY WaitingType, ControlsType DEF TypeOK
<1>2. ASSUME NEW kind \in BroadcastKinds, Broadcast(kind)
      PROVE  IsPrefix(Controls(Waiting), Controls(Waiting)')
  <2>1. kind \in Kinds /\ Push(frames, lost, New(kind)) /\ Held' = Held
    BY <1>2, QueueAssumption DEF Broadcast, Held, Kinds, sender, subscription
  <2>. QED BY <2>1, PushKeepsControls
<1>3. CASE Reject
  <2>1. "error" \in Kinds /\ Push(frames, lost, New("error")) /\ Held' = Held
    BY <1>3 DEF Reject, Held, Kinds, sender, subscription
  <2>. QED BY <2>1, PushKeepsControls
<1>4. ~Subscribe /\ ~Unsubscribe /\ ~Teardown /\ ~Connect
  BY <1>1 DEF Subscribe, Unsubscribe, Teardown, Connect
<1>5. CASE Held' = Held /\ frames' = frames
  <2>1. Controls(Waiting)' = Controls(Waiting)
    BY <1>5 DEF Waiting
  <2>. QED BY <1>1, <2>1, PrefixOfItself
<1>6. CASE Disconnect \/ NextEmpty \/ NextOverflow \/ Wake \/ SendDone \/ SenderEnds
  <2>1. Held' = Held /\ frames' = frames
    BY <1>6 DEF Disconnect, NextEmpty, NextOverflow, Wake, SendDone, SenderEnds,
                Held, queue, subscription, sender
  <2>. QED BY <1>5, <2>1
<1>7. CASE NextFrame
  <2> DEFINE f == Head(frames)
             q == Tail(frames)
  <2>1. pc = "next" /\ frames' = q /\ frames # << >> /\ Held = << >>
    BY <1>7 DEF NextFrame, Held
  <2>2. f \in Frame /\ q \in Seq(Frame) /\ frames = <<f>> \o q
    BY <1>1, <2>1, HeadAndTail
  <2>3. Waiting = frames
    BY <1>1, <2>1, ConcatEmptySeq DEF Waiting
  <2>. HIDE DEF f, q
  <2>4. CASE f.kind \in AnchorCarrying
    <3>1. Held' = <<f>>
      BY <1>7, <2>4 DEF NextFrame, Held, subscription, f
    <3>2. Waiting' = Waiting
      BY <2>1, <2>2, <2>3, <3>1 DEF Waiting
    <3>3. Controls(Waiting)' = Controls(Waiting)
      BY <3>2 DEF Controls
    <3>. QED BY <1>1, <3>3, PrefixOfItself
  <2>5. CASE f.kind \notin AnchorCarrying
    <3>1. pc' = "sending" /\ sending' = f /\ Held' = << >>
      BY <1>7, <2>5 DEF NextFrame, StartSend, Held, f
    <3>2. Waiting' = q
      BY <2>1, <2>2, <3>1, ConcatEmptySeq DEF Waiting
    <3>3. Controls(Waiting)' = Controls(q)
      BY <3>2 DEF Controls
    <3>. QED BY <2>1, <2>2, <2>3, <3>1, <3>3, FirstLeaves
  <2>. QED BY <2>4, <2>5
<1>8. CASE AnchorsRead
  <2>1. pc = "reading" /\ frames' = frames /\ sending \in Frame /\ generation' = generation
    BY <1>8 DEF AnchorsRead, queue, subscription, TypeOK
  <2>2. CASE generation = seen
    <3>1. pc' = "sending" /\ sending' = sending
      BY <1>8, <2>2 DEF AnchorsRead, StartSend
    <3>2. Held = <<sending>> /\ Held' = << >>
      BY <2>1, <2>2, <3>1 DEF Held
    <3>3. Waiting = <<sending>> \o frames /\ Waiting' = frames
      BY <1>1, <2>1, <3>2, ConcatEmptySeq DEF Waiting
    <3>4. Controls(Waiting)' = Controls(frames)
      BY <3>3 DEF Controls
    <3>. QED BY <1>1, <2>1, <3>1, <3>3, <3>4, FirstLeaves
  <2>3. CASE generation # seen
    <3>1. pc' = "next"
      BY <1>8, <2>3 DEF AnchorsRead, StartSend
    <3>2. Held = << >> /\ Held' = << >>
      BY <2>1, <2>3, <3>1 DEF Held
    <3>. QED BY <1>5, <2>1, <3>2
  <2>. QED BY <2>2, <2>3
<1>. QED BY <1>2, <1>3, <1>4, <1>6, <1>7, <1>8 DEF Next

(* Subscriber.push sheds appends and errors only, and _send_frames sends in *)
(* order: within a subscription no control frame is lost, or overtaken by   *)
(* another, except by a close.                                              *)
THEOREM ControlsAreKept == Spec => ControlsKept
<1> DEFINE Step == LET old == Controls(Held \o frames)
                       new == Controls(Held' \o frames')
                   IN  connected' /\ connected /\ generation' = generation /\ ~overflowed'
                       => \/ IsPrefix(old, new)
                          \/ /\ pc # "sending" /\ pc' = "sending"
                             /\ old # << >> /\ new = Tail(old) /\ sending' = Head(old)
<1>1. Inv /\ [Next]_vars => [Step]_vars
  <2>. SUFFICES ASSUME Inv, Next PROVE Step
    OBVIOUS
  <2>1. TypeOK
    BY DEF Inv
  <2>2. Controls(Waiting)' = Controls(Held' \o frames')
    BY DEF Waiting, Controls
  <2>. QED BY <2>1, <2>2, ControlsStep DEF Waiting
<1>. QED BY Invariance, <1>1, PTL DEF Spec, ControlsKept

=============================================================================
