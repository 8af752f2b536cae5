-------------------------- MODULE SessionStoreProofs --------------------------
(***************************************************************************)
(* Proofs about SessionStore, for any keys, cycles and requests and any    *)
(* number of packets and crashes: what is recorded stays, the first of two *)
(* equal cycles is kept, and the hub knows nothing that the tables do not. *)
(***************************************************************************)
EXTENDS SessionStore, SequenceTheorems, FiniteSetTheorems, WellFoundedInduction, TLAPS

\* A hello that was written returns what its row holds, and goes on to hold.
CallsTrue ==
    \A c \in Calls :
        /\ calls[c].stage # "idle" => calls[c].key \in Keys
        /\ calls[c].stage = "written" =>
             /\ session[calls[c].key] # None
             /\ calls[c].id = session[calls[c].key].id
             /\ calls[c].got # None => session[calls[c].key].rev = calls[c].got

\* What the hub knows is recorded.
MemoryTrue ==
    \A key \in Keys :
        /\ live[key].id # None => session[key] # None /\ live[key].id = session[key].id
        /\ live[key].rev # None => session[key] # None /\ session[key].rev = live[key].rev

\* A config_rev that the hub does not know is on its way to it.
Reported ==
    count.crashes = 0 =>
        \A key \in Keys : session[key] # None /\ session[key].rev # None =>
            \/ live[key].rev = session[key].rev
            \/ \E c \in Calls : /\ calls[c].stage = "written" /\ calls[c].key = key
                                /\ calls[c].got = session[key].rev

\* Packets wait in the order in which they were received, behind all recorded.
Ascending(s) == \A i, j \in DOMAIN s : i < j => s[i].id < s[j].id

Arrivals ==
    /\ Ascending(queue) /\ Ascending(batch)
    /\ \A i \in DOMAIN queue : queue[i].id <= count.received
    /\ \A i \in DOMAIN batch : /\ batch[i].id <= count.received
                               /\ \A j \in DOMAIN queue : batch[i].id < queue[j].id
    /\ \A cell \in Keys \X Seqs : fix[cell] # None =>
         /\ fix[cell].id <= count.received
         /\ \A j \in DOMAIN queue : fix[cell].id < queue[j].id
         /\ result = "none" => \A i \in DOMAIN batch : fix[cell].id < batch[i].id

\* What a committed batch left.
Committed ==
    /\ batch = << >> => result = "none"
    /\ result = "committed" =>
         \A i \in DOMAIN batch :
             /\ session[batch[i].key] # None
             /\ fix[<<batch[i].key, batch[i].seq>>] # None
             /\ fix[<<batch[i].key, batch[i].seq>>].id <= batch[i].id

StoreInv == /\ TypeOK
            /\ CallsTrue
            /\ MemoryTrue
            /\ Reported
            /\ Arrivals
            /\ Committed

-----------------------------------------------------------------------------
(* Least and greatest times, and numbers of new rows *)

LEMMA Least ==
    ASSUME NEW T \in SUBSET Nat, T # {}
    PROVE  Min(T) \in T /\ \A y \in T : Min(T) <= y
<1>1. PICK x \in T : \A y \in T : ~(<<y, x>> \in OpToRel(<, Nat))
  BY NatLessThanWellFounded, WFMin
<1>2. \A y \in T : x <= y
  <2> SUFFICES ASSUME NEW y \in T PROVE x <= y
    OBVIOUS
  <2>1. <<y, x>> \in OpToRel(<, Nat) <=> y < x
    BY DEF OpToRel
  <2>2. ~(y < x) /\ x \in Nat /\ y \in Nat
    BY <1>1, <2>1
  <2>3. QED
    BY <2>2
<1>3. QED
  BY <1>2 DEF Min

(* The greatest is what is nearest to the bound.                            *)
LEMMA Greatest ==
    ASSUME NEW n \in Nat, NEW T \in SUBSET (0..n), T # {}
    PROVE  Max(T) \in T /\ \A y \in T : Max(T) >= y
<1> DEFINE D == {n - x : x \in T}
<1>1. D \in SUBSET Nat /\ D # {}
  <2>1. \A x \in T : n - x \in Nat
    OBVIOUS
  <2>2. QED
    BY <2>1
<1>2. Min(D) \in D /\ \A d \in D : Min(D) <= d
  BY <1>1, Least
<1>3. PICK x \in T : Min(D) = n - x
  BY <1>2
<1>4. \A y \in T : x >= y
  <2> SUFFICES ASSUME NEW y \in T PROVE x >= y
    OBVIOUS
  <2>1. n - x <= n - y
    BY <1>2, <1>3
  <2>2. x \in Nat /\ y \in Nat
    OBVIOUS
  <2>3. QED
    BY <2>1, <2>2
<1>5. QED
  BY <1>4 DEF Max

LEMMA TimesProperties ==
    ASSUME TypeOK, NEW key \in Keys, Times(key) # {}
    PROVE  Min(Times(key)) \in 0..MaxTime /\ Max(Times(key)) \in 0..MaxTime
<1>1. ToSet(batch) \subseteq Packets
  BY LenProperties DEF TypeOK, ToSet
<1>2. Times(key) \subseteq 0..MaxTime
  BY <1>1 DEF Times, Packets
<1>3. MaxTime \in Nat /\ Times(key) \subseteq Nat
  BY <1>2, StoreAssumption
<1>4. QED
  BY <1>2, <1>3, Least, Greatest

(* The keys that a batch makes rows for are finitely many.                  *)
LEMMA FreshKeysFinite ==
    ASSUME TypeOK, NEW S \in SUBSET FreshKeys
    PROVE  Cardinality(S) \in Nat
<1> DEFINE Named == {batch[i].key : i \in DOMAIN batch}
<1>1. IsFiniteSet(DOMAIN batch)
  <2>1. Len(batch) \in Nat /\ DOMAIN batch = 1..Len(batch)
    BY LenProperties DEF TypeOK
  <2>2. QED
    BY <2>1, FS_Interval
<1>2. IsFiniteSet(Named)
  <2> DEFINE f == [i \in DOMAIN batch |-> batch[i].key]
  <2>1. f \in Surjection(DOMAIN batch, Named)
    BY DEF Surjection
  <2>2. QED
    BY <1>1, <2>1, FS_Surjection
<1>3. FreshKeys \subseteq Named
  <2> SUFFICES ASSUME NEW key \in FreshKeys PROVE key \in Named
    OBVIOUS
  <2>1. PICK q \in ToSet(batch) : q.key = key
    BY DEF FreshKeys, Times
  <2>2. PICK i \in DOMAIN batch : q = batch[i]
    BY <2>1 DEF ToSet
  <2>3. QED
    BY <2>1, <2>2
<1>4. IsFiniteSet(S)
  BY <1>2, <1>3, FS_Subset
<1>5. QED
  BY <1>4, FS_CardinalityType

LEMMA NewIdIsNat ==
    ASSUME TypeOK, NEW key \in Keys
    PROVE  NewId(key) \in Nat /\ lastId + Cardinality(FreshKeys) \in Nat
<1>1. \A S \in SUBSET FreshKeys : Cardinality(S) \in Nat
  BY FreshKeysFinite
<1>2. lastId \in Nat
  BY DEF TypeOK
<1> DEFINE first(k) == Min({i \in DOMAIN batch : batch[i].key = k})
<1> DEFINE Before == {k \in FreshKeys : first(k) <= first(key)}
<1>3. NewId(key) = lastId + Cardinality(Before)
  BY DEF NewId
<1>4. Before \in SUBSET FreshKeys
  OBVIOUS
<1> HIDE DEF Before
<1>5. QED
  BY <1>1, <1>2, <1>3, <1>4

-----------------------------------------------------------------------------
(* Types *)

LEMMA EarlierLater ==
    ASSUME NEW a \in 0..MaxTime, NEW b \in 0..MaxTime
    PROVE  /\ Earlier(a, b) \in 0..MaxTime /\ Earlier(a, b) <= a
           /\ Later(a, b) \in 0..MaxTime /\ Later(a, b) >= a
BY StoreAssumption DEF Earlier, Later

(* The row that a hello leaves: what was in it stays.                       *)
LEMMA HelloRowProperties ==
    ASSUME TypeOK, NEW key \in Keys, NEW rev \in {Rev, None}, NEW now \in 0..MaxTime
    PROVE  /\ HelloRow(key, rev, now) \in Rows
           /\ session[key] # None =>
                /\ HelloRow(key, rev, now).id = session[key].id
                /\ HelloRow(key, rev, now).started = session[key].started
                /\ HelloRow(key, rev, now).seen >= session[key].seen
                /\ session[key].rev # None =>
                     HelloRow(key, rev, now).rev = session[key].rev
<1>1. CASE session[key] = None
  <2>1. lastId + 1 \in Nat
    BY DEF TypeOK
  <2>2. QED
    BY <1>1, <2>1 DEF HelloRow, Rows
<1>2. CASE session[key] # None
  <2> DEFINE row == session[key]
  <2>1. /\ row \in Rows /\ row.seen \in 0..MaxTime /\ row.rev \in {Rev, None}
        /\ row.started \in 0..MaxTime /\ row.id \in Nat
    BY <1>2 DEF TypeOK, Rows
  <2>2. /\ Coalesce(rev, row.rev) \in {Rev, None}
        /\ row.rev # None => Coalesce(rev, row.rev) = row.rev
    BY <2>1 DEF Coalesce
  <2>3. Later(row.seen, now) \in 0..MaxTime /\ Later(row.seen, now) >= row.seen
    BY <2>1, EarlierLater
  <2>4. HelloRow(key, rev, now) =
          [row EXCEPT !.rev = Coalesce(rev, row.rev), !.seen = Later(row.seen, now)]
    BY <1>2 DEF HelloRow
  <2> HIDE DEF row
  <2>5. /\ HelloRow(key, rev, now) \in Rows
        /\ HelloRow(key, rev, now).id = row.id
        /\ HelloRow(key, rev, now).started = row.started
        /\ HelloRow(key, rev, now).seen = Later(row.seen, now)
        /\ HelloRow(key, rev, now).rev = Coalesce(rev, row.rev)
    <3>1. Coalesce(rev, row.rev) \in {Rev, None} /\ Later(row.seen, now) \in 0..MaxTime
      BY <2>2, <2>3
    <3>2. PICK r \in {Rev, None}, s \in 0..MaxTime :
            r = Coalesce(rev, row.rev) /\ s = Later(row.seen, now)
      BY <3>1
    <3>3. HelloRow(key, rev, now) = [row EXCEPT !.rev = r, !.seen = s]
      BY <2>4, <3>2
    <3>4. /\ [row EXCEPT !.rev = r, !.seen = s] \in Rows
          /\ [row EXCEPT !.rev = r, !.seen = s].id = row.id
          /\ [row EXCEPT !.rev = r, !.seen = s].started = row.started
          /\ [row EXCEPT !.rev = r, !.seen = s].seen = s
          /\ [row EXCEPT !.rev = r, !.seen = s].rev = r
      BY <2>1, <3>2 DEF Rows
    <3>5. QED
      BY <3>2, <3>3, <3>4
  <2>6. QED
    BY <2>2, <2>3, <2>5 DEF row
<1>3. QED
  BY <1>1, <1>2

(* The row that a batch leaves.                                             *)
LEMMA TouchedProperties ==
    ASSUME TypeOK, NEW key \in Keys, Times(key) # {}, NEW id,
           session[key] = None => id \in Nat
    PROVE  /\ Touched(key, id) \in Rows
           /\ session[key] # None =>
                /\ Touched(key, id).id = session[key].id
                /\ Touched(key, id).started <= session[key].started
                /\ Touched(key, id).seen >= session[key].seen
                /\ Touched(key, id).rev = session[key].rev
           /\ session[key] = None => Touched(key, id).rev = None
<1> DEFINE lo == Min(Times(key))
<1> DEFINE hi == Max(Times(key))
<1>1. lo \in 0..MaxTime /\ hi \in 0..MaxTime
  BY TimesProperties
<1>2. CASE session[key] = None
  <2>1. Touched(key, id) = [id |-> id, rev |-> None, started |-> lo, seen |-> hi]
    BY <1>2 DEF Touched
  <2> HIDE DEF lo, hi
  <2>2. QED
    BY <1>1, <1>2, <2>1 DEF Rows
<1>3. CASE session[key] # None
  <2> DEFINE row == session[key]
  <2>1. row \in Rows /\ row.seen \in 0..MaxTime /\ row.started \in 0..MaxTime
    BY <1>3 DEF TypeOK, Rows
  <2>2. Touched(key, id) = [row EXCEPT !.started = Earlier(row.started, lo),
                                       !.seen = Later(row.seen, hi)]
    BY <1>3 DEF Touched
  <2> HIDE DEF lo, hi, row
  <2>3. /\ Earlier(row.started, lo) \in 0..MaxTime
        /\ Earlier(row.started, lo) <= row.started
        /\ Later(row.seen, hi) \in 0..MaxTime /\ Later(row.seen, hi) >= row.seen
    BY <1>1, <2>1, EarlierLater
  <2>4. /\ Touched(key, id) \in Rows
        /\ Touched(key, id).id = row.id
        /\ Touched(key, id).rev = row.rev
        /\ Touched(key, id).started = Earlier(row.started, lo)
        /\ Touched(key, id).seen = Later(row.seen, hi)
    <3>1. Earlier(row.started, lo) \in 0..MaxTime /\ Later(row.seen, hi) \in 0..MaxTime
      BY <2>3
    <3>2. PICK a \in 0..MaxTime, b \in 0..MaxTime :
            a = Earlier(row.started, lo) /\ b = Later(row.seen, hi)
      BY <3>1
    <3>3. Touched(key, id) = [row EXCEPT !.started = a, !.seen = b]
      BY <2>2, <3>2
    <3>4. /\ [row EXCEPT !.started = a, !.seen = b] \in Rows
          /\ [row EXCEPT !.started = a, !.seen = b].id = row.id
          /\ [row EXCEPT !.started = a, !.seen = b].rev = row.rev
          /\ [row EXCEPT !.started = a, !.seen = b].started = a
          /\ [row EXCEPT !.started = a, !.seen = b].seen = b
      BY <2>1, <3>2 DEF Rows
    <3>5. QED
      BY <3>2, <3>3, <3>4
  <2>5. QED
    BY <1>3, <2>3, <2>4 DEF row
<1>4. QED
  BY <1>2, <1>3

(* The row of a cycle after a batch: as it was, or of its first packet.     *)
LEMMA InsertCycleProperties ==
    ASSUME TypeOK, NEW cell \in Keys \X Seqs
    PROVE  /\ InsertCycle(cell) \in Cycles \cup {None}
           /\ fix[cell] # None => InsertCycle(cell) = fix[cell]
           /\ \A i \in Sent(cell) :
                /\ InsertCycle(cell) # None
                /\ fix[cell] = None =>
                     \E m \in DOMAIN batch : m <= i /\ InsertCycle(cell).id = batch[m].id
           /\ fix[cell] = None /\ InsertCycle(cell) # None =>
                \E m \in DOMAIN batch : InsertCycle(cell).id = batch[m].id
<1>1. CASE fix[cell] # None \/ Sent(cell) = {}
  <2>1. InsertCycle(cell) = fix[cell]
    BY <1>1 DEF InsertCycle
  <2>2. QED
    BY <1>1, <2>1 DEF TypeOK
<1>2. CASE fix[cell] = None /\ Sent(cell) # {}
  <2> DEFINE m == Min(Sent(cell))
  <2>1. Sent(cell) \subseteq DOMAIN batch /\ Sent(cell) \subseteq Nat
    BY LenProperties DEF Sent, TypeOK
  <2>2. m \in Sent(cell) /\ \A i \in Sent(cell) : m <= i
    BY <1>2, <2>1, Least
  <2>3. InsertCycle(cell) = [id |-> batch[m].id, at |-> batch[m].at]
    BY <1>2 DEF InsertCycle
  <2> HIDE DEF m
  <2>4. batch[m] \in Packets /\ m \in DOMAIN batch
    BY <2>1, <2>2, LenProperties DEF TypeOK
  <2>5. InsertCycle(cell) \in Cycles /\ InsertCycle(cell).id = batch[m].id
    BY <2>3, <2>4 DEF Packets, Cycles
  <2>6. InsertCycle(cell) # None
    BY <2>5, StoreAssumption
  <2>7. QED
    BY <1>2, <2>2, <2>4, <2>5, <2>6
<1>3. QED
  BY <1>1, <1>2

(* What memory of the hub a hello or a batch leaves.                        *)
LEMMA MemoryTypes ==
    ASSUME NEW known \in Memory, NEW id \in Nat \cup {None}, NEW rev \in {Rev, None}
    PROVE  /\ Heard(known, id, rev) \in Memory
           /\ [known EXCEPT !.id = id] \in Memory
           /\ Unknown \in Memory
BY DEF Memory, Heard, Coalesce, Unknown

(* Every action keeps the types.                                            *)
LEMMA TypesStep ==
    ASSUME TypeOK, CallsTrue, Committed, [Next]_vars
    PROVE  TypeOK'
<1>1. ASSUME NEW c \in Calls, NEW key \in Keys, NEW rev \in {Rev, None},
             HelloArrives(c, key, rev)
      PROVE  TypeOK'
  <2>1. [Idle EXCEPT !.key = key, !.rev = rev, !.now = clock, !.stage = "writing"]
          \in Hellos
    BY DEF Idle, Hellos, TypeOK
  <2>2. calls' \in [Calls -> Hellos]
    BY <1>1, <2>1 DEF HelloArrives, TypeOK
  <2>3. count' \in [received : Nat, hellos : Nat, crashes : Nat]
    BY <1>1 DEF HelloArrives, TypeOK
  <2>4. QED
    BY <1>1, <2>2, <2>3 DEF HelloArrives, TypeOK
<1>2. ASSUME NEW c \in Calls, Hello(c) PROVE TypeOK'
  <2> DEFINE row == HelloRow(calls[c].key, calls[c].rev, calls[c].now)
  <2>1. /\ calls[c] \in Hellos /\ calls[c].stage = "writing" /\ calls[c].key \in Keys
        /\ calls[c].rev \in {Rev, None} /\ calls[c].now \in 0..MaxTime
    BY <1>2 DEF Hello, TypeOK, CallsTrue, Hellos
  <2>2. row \in Rows /\ row.id \in Nat /\ row.rev \in {Rev, None}
    BY <2>1, HelloRowProperties DEF Rows
  <2>3. /\ session' = [session EXCEPT ![calls[c].key] = row]
        /\ calls' = [calls EXCEPT ![c].stage = "written", ![c].id = row.id,
                                  ![c].got = row.rev]
    BY <1>2 DEF Hello
  <2> HIDE DEF row
  <2>4. session' \in [Keys -> Rows \cup {None}]
    BY <2>2, <2>3 DEF TypeOK
  <2>5. \A h \in Hellos :
          [h EXCEPT !.stage = "written", !.id = row.id, !.got = row.rev] \in Hellos
    BY <2>2 DEF Hellos
  <2>6. calls' \in [Calls -> Hellos]
    BY <2>3, <2>5 DEF TypeOK
  <2>7. lastId' \in Nat
    BY <1>2 DEF Hello, NumbersUsed, TypeOK
  <2>8. QED
    BY <1>2, <2>4, <2>6, <2>7 DEF Hello, TypeOK
<1>3. ASSUME NEW c \in Calls, HelloReturns(c) PROVE TypeOK'
  <2>1. /\ calls[c].key \in Keys /\ calls[c].id \in Nat \cup {None}
        /\ calls[c].got \in {Rev, None}
    BY <1>3 DEF HelloReturns, CallsTrue, TypeOK, Hellos
  <2>2. live' \in [Keys -> Memory]
    BY <1>3, <2>1, MemoryTypes DEF HelloReturns, TypeOK
  <2>3. Idle \in Hellos
    BY StoreAssumption DEF Idle, Hellos
  <2>4. QED
    BY <1>3, <2>2, <2>3 DEF HelloReturns, TypeOK
<1>4. ASSUME NEW key \in Keys, NEW seq \in Seqs, Receive(key, seq) PROVE TypeOK'
  <2>1. count.received + 1 \in Nat
    BY DEF TypeOK
  <2>2. [id |-> count.received + 1, key |-> key, seq |-> seq, at |-> clock] \in Packets
    BY <2>1 DEF Packets, TypeOK
  <2>3. queue' \in Seq(Packets)
    BY <1>4, <2>2, AppendProperties DEF Receive, TypeOK
  <2>4. count' \in [received : Nat, hellos : Nat, crashes : Nat]
    BY <1>4, <2>1 DEF Receive, TypeOK
  <2>5. QED
    BY <1>4, <2>3, <2>4 DEF Receive, TypeOK
<1>5. CASE TakeBatch
  <2>1. PICK k \in DOMAIN queue : batch' = SubSeq(queue, k, Len(queue))
    BY <1>5 DEF TakeBatch
  <2>2. Len(queue) \in Nat /\ k \in 1..Len(queue) /\ queue \in Seq(Packets)
    BY LenProperties DEF TypeOK
  <2>3. batch' \in Seq(Packets)
    BY <2>1, <2>2, SubSeqProperties
  <2>4. QED
    BY <1>5, <2>3, EmptySeq DEF TakeBatch, TypeOK
<1>6. CASE WritePackets
  <2>1. ASSUME NEW key \in Keys PROVE session'[key] \in Rows \cup {None}
    <3>1. CASE Times(key) = {}
      BY <1>6, <3>1 DEF WritePackets, TypeOK
    <3>2. CASE Times(key) # {}
      BY <1>6, <3>2, TouchedProperties, NewIdIsNat DEF WritePackets
    <3>3. QED
      BY <3>1, <3>2
  <2>2. session' \in [Keys -> Rows \cup {None}]
    BY <1>6, <2>1 DEF WritePackets
  <2>3. lastId' \in Nat
    <3>1. Cardinality(FreshKeys) \in Nat
      BY FreshKeysFinite
    <3>2. QED
      BY <1>6, <3>1 DEF WritePackets, TypeOK
  <2>4. fix' \in [Keys \X Seqs -> Cycles \cup {None}]
    BY <1>6, InsertCycleProperties DEF WritePackets
  <2>5. QED
    BY <1>6, <2>2, <2>3, <2>4 DEF WritePackets, TypeOK
<1>7. CASE WriteFails
  BY <1>7 DEF WriteFails, TypeOK
<1>8. CASE FlushReturns
  <2>1. ASSUME NEW key \in Keys PROVE live'[key] \in Memory
    <3>1. CASE result = "committed" /\ Times(key) # {} /\ live[key].id = None
      <4>1. PICK i \in DOMAIN batch : batch[i].key = key
        BY <3>1 DEF Times, ToSet
      <4>2. session[key].id \in Nat
        BY <3>1, <4>1 DEF Committed, TypeOK, Rows
      <4>3. QED
        BY <1>8, <3>1, <4>2, MemoryTypes DEF FlushReturns, TypeOK
    <3>2. CASE ~(result = "committed" /\ Times(key) # {} /\ live[key].id = None)
      BY <1>8, <3>2 DEF FlushReturns, TypeOK
    <3>3. QED
      BY <3>1, <3>2
  <2>2. live' \in [Keys -> Memory]
    BY <1>8, <2>1 DEF FlushReturns
  <2>3. QED
    BY <1>8, <2>2, EmptySeq DEF FlushReturns, TypeOK
<1>9. CASE Elapse
  BY <1>9, StoreAssumption DEF Elapse, TypeOK
<1>10. CASE Crash
  <2>1. Idle \in Hellos /\ Unknown \in Memory
    BY StoreAssumption DEF Idle, Hellos, Unknown, Memory
  <2>2. count' \in [received : Nat, hellos : Nat, crashes : Nat]
    BY <1>10 DEF Crash, TypeOK
  <2>3. QED
    BY <1>10, <2>1, <2>2, EmptySeq DEF Crash, TypeOK
<1>11. CASE UNCHANGED vars
  BY <1>11 DEF vars, TypeOK
<1>12. QED
  BY <1>1, <1>2, <1>3, <1>4, <1>5, <1>6, <1>7, <1>8, <1>9, <1>10, <1>11 DEF Next

-----------------------------------------------------------------------------
(* What is recorded stays *)

SessionStays(key) ==
    session[key] # None =>
        /\ session'[key] # None
        /\ session'[key].id = session[key].id
        /\ session'[key].started <= session[key].started
        /\ session'[key].seen >= session[key].seen
        /\ session[key].rev # None => session'[key].rev = session[key].rev

LEMMA SessionsStay ==
    ASSUME TypeOK, CallsTrue, [Next]_vars
    PROVE  \A key \in Keys : SessionStays(key)
<1> SUFFICES ASSUME NEW key \in Keys, session[key] # None PROVE SessionStays(key)
  BY DEF SessionStays
<1>1. session[key] \in Rows /\ session[key].started <= session[key].started
      /\ session[key].seen >= session[key].seen
  BY DEF TypeOK, Rows
<1>2. CASE session' = session
  BY <1>1, <1>2 DEF SessionStays
<1>3. ASSUME NEW c \in Calls, Hello(c) PROVE SessionStays(key)
  <2> DEFINE row == HelloRow(calls[c].key, calls[c].rev, calls[c].now)
  <2>1. session' = [session EXCEPT ![calls[c].key] = row] /\ calls[c].key \in Keys
    BY <1>3 DEF Hello, CallsTrue
  <2>2. CASE calls[c].key = key
    <3>1. calls[c].rev \in {Rev, None} /\ calls[c].now \in 0..MaxTime
      BY DEF TypeOK, Hellos
    <3>2. /\ row \in Rows /\ row.id = session[key].id
          /\ row.started = session[key].started /\ row.seen >= session[key].seen
          /\ session[key].rev # None => row.rev = session[key].rev
      BY <2>2, <3>1, HelloRowProperties
    <3>3. session'[key] = row
      BY <2>1, <2>2 DEF TypeOK
    <3> HIDE DEF row
    <3>4. QED
      BY <1>1, <3>2, <3>3, StoreAssumption DEF SessionStays
  <2>3. CASE calls[c].key # key
    <3>1. session'[key] = session[key]
      BY <2>1, <2>3 DEF TypeOK
    <3>2. QED
      BY <1>1, <3>1 DEF SessionStays
  <2>4. QED
    BY <2>2, <2>3
<1>4. CASE WritePackets
  <2>1. CASE Times(key) = {}
    <3>1. session'[key] = session[key]
      BY <1>4, <2>1 DEF WritePackets
    <3>2. QED
      BY <1>1, <3>1 DEF SessionStays
  <2>2. CASE Times(key) # {}
    <3>1. session'[key] = Touched(key, None)
      BY <1>4, <2>2 DEF WritePackets
    <3>2. /\ Touched(key, None) \in Rows
          /\ Touched(key, None).id = session[key].id
          /\ Touched(key, None).started <= session[key].started
          /\ Touched(key, None).seen >= session[key].seen
          /\ Touched(key, None).rev = session[key].rev
      BY <2>2, TouchedProperties
    <3>3. QED
      BY <3>1, <3>2, StoreAssumption DEF SessionStays
  <2>3. QED
    BY <2>1, <2>2
<1>5. ASSUME NEW c \in Calls,
             \/ \E k \in Keys, rev \in {Rev, None} : HelloArrives(c, k, rev)
             \/ HelloReturns(c)
      PROVE  session' = session
  BY <1>5 DEF HelloArrives, HelloReturns
<1>6. (\E k \in Keys, seq \in Seqs : Receive(k, seq)) => session' = session
  BY DEF Receive
<1>7. TakeBatch \/ WriteFails \/ FlushReturns \/ Elapse \/ Crash \/ UNCHANGED vars
        => session' = session
  BY DEF TakeBatch, WriteFails, FlushReturns, Elapse, Crash, vars
<1>8. QED
  BY <1>2, <1>3, <1>4, <1>5, <1>6, <1>7 DEF Next

LEMMA CyclesStay ==
    ASSUME TypeOK, [Next]_vars
    PROVE  \A cell \in Keys \X Seqs : fix[cell] # None => fix'[cell] = fix[cell]
<1>1. CASE WritePackets
  BY <1>1, InsertCycleProperties DEF WritePackets
<1>2. ASSUME ~WritePackets PROVE fix' = fix
  BY <1>2 DEF Next, HelloArrives, Hello, HelloReturns, Receive, TakeBatch, WriteFails,
              FlushReturns, Elapse, Crash, vars
<1>3. QED
  BY <1>1, <1>2

-----------------------------------------------------------------------------
(* What the hub is told *)

LEMMA CallsStep ==
    ASSUME TypeOK, TypeOK', CallsTrue, [Next]_vars
    PROVE  CallsTrue'
<1> SUFFICES ASSUME NEW d \in Calls
             PROVE  /\ calls'[d].stage # "idle" => calls'[d].key \in Keys
                    /\ calls'[d].stage = "written" =>
                         /\ session'[calls'[d].key] # None
                         /\ calls'[d].id = session'[calls'[d].key].id
                         /\ calls'[d].got # None =>
                              session'[calls'[d].key].rev = calls'[d].got
  BY DEF CallsTrue
<1>1. CASE calls'[d] = calls[d]
  <2>1. calls[d].stage # "idle" => calls[d].key \in Keys
    BY DEF CallsTrue
  <2>2. CASE calls[d].stage = "written"
    <3>1. /\ calls[d].key \in Keys /\ session[calls[d].key] # None
          /\ calls[d].id = session[calls[d].key].id
          /\ calls[d].got # None => session[calls[d].key].rev = calls[d].got
      BY <2>2 DEF CallsTrue
    <3>2. SessionStays(calls[d].key)
      BY <3>1, SessionsStay
    <3>3. QED
      BY <1>1, <3>1, <3>2 DEF SessionStays
  <2>3. QED
    BY <1>1, <2>1, <2>2
<1>2. ASSUME NEW key \in Keys, NEW rev \in {Rev, None}, HelloArrives(d, key, rev),
             calls'[d] # calls[d]
      PROVE  calls'[d].stage = "writing" /\ calls'[d].key \in Keys
  BY <1>2 DEF HelloArrives, TypeOK, Idle
<1>3. CASE Hello(d)
  <2> DEFINE key == calls[d].key
  <2> DEFINE row == HelloRow(key, calls[d].rev, calls[d].now)
  <2>1. /\ key \in Keys /\ calls[d].rev \in {Rev, None} /\ calls[d].now \in 0..MaxTime
        /\ calls[d] \in Hellos
    BY <1>3 DEF Hello, CallsTrue, TypeOK, Hellos
  <2>2. row \in Rows
    BY <2>1, HelloRowProperties
  <2>3. /\ session' = [session EXCEPT ![key] = row]
        /\ calls' = [calls EXCEPT ![d].stage = "written", ![d].id = row.id,
                                  ![d].got = row.rev]
    BY <1>3 DEF Hello
  <2> HIDE DEF row
  <2>4. session'[key] = row
    BY <2>1, <2>3 DEF TypeOK
  <2>5. calls'[d].key = key /\ calls'[d].id = row.id /\ calls'[d].got = row.rev
    BY <2>1, <2>3 DEF TypeOK, Hellos
  <2>6. row # None
    BY <2>2, StoreAssumption
  <2>7. QED
    BY <2>1, <2>4, <2>5, <2>6
<1>4. ASSUME NEW c \in Calls, c # d,
             \/ \E key \in Keys, rev \in {Rev, None} : HelloArrives(c, key, rev)
             \/ Hello(c) \/ HelloReturns(c)
      PROVE  calls'[d] = calls[d]
  BY <1>4 DEF HelloArrives, Hello, HelloReturns, TypeOK
<1>5. CASE HelloReturns(d) \/ Crash
  <2>1. calls'[d].stage = "idle"
    BY <1>5 DEF HelloReturns, Crash, TypeOK, Idle
  <2>2. QED
    BY <2>1
<1>6. (\E key \in Keys, seq \in Seqs : Receive(key, seq)) => calls'[d] = calls[d]
  BY DEF Receive
<1>7. TakeBatch \/ WritePackets \/ WriteFails \/ FlushReturns \/ Elapse \/ UNCHANGED vars
        => calls'[d] = calls[d]
  BY DEF TakeBatch, WritePackets, WriteFails, FlushReturns, Elapse, vars
<1>8. QED
  BY <1>1, <1>2, <1>3, <1>4, <1>5, <1>6, <1>7 DEF Next

LEMMA MemoryStep ==
    ASSUME TypeOK, CallsTrue, MemoryTrue, Committed, [Next]_vars
    PROVE  MemoryTrue'
<1> SUFFICES ASSUME NEW key \in Keys
             PROVE  /\ live'[key].id # None =>
                         session'[key] # None /\ live'[key].id = session'[key].id
                    /\ live'[key].rev # None =>
                         session'[key] # None /\ session'[key].rev = live'[key].rev
  BY DEF MemoryTrue
<1>1. SessionStays(key)
  BY SessionsStay
<1>2. CASE live'[key] = live[key]
  BY <1>1, <1>2 DEF MemoryTrue, SessionStays
<1>3. ASSUME NEW c \in Calls, HelloReturns(c), calls[c].key = key PROVE
        /\ live'[key] = [id |-> calls[c].id, rev |-> Coalesce(calls[c].got, live[key].rev)]
        /\ session'[key] = session[key] /\ session[key] # None
        /\ calls[c].id = session[key].id
        /\ calls[c].got # None => session[key].rev = calls[c].got
  BY <1>3 DEF HelloReturns, Heard, TypeOK, CallsTrue
<1>4. ASSUME NEW c \in Calls, HelloReturns(c), calls[c].key # key
      PROVE  live'[key] = live[key]
  BY <1>4 DEF HelloReturns, TypeOK
<1>5. ASSUME NEW c \in Calls, HelloReturns(c), calls[c].key = key
      PROVE  /\ live'[key].id # None =>
                  session'[key] # None /\ live'[key].id = session'[key].id
             /\ live'[key].rev # None =>
                  session'[key] # None /\ session'[key].rev = live'[key].rev
  <2>1. /\ live'[key].id = calls[c].id
        /\ live'[key].rev = IF calls[c].got # None THEN calls[c].got ELSE live[key].rev
    <3>1. live'[key] = [id |-> calls[c].id,
                        rev |-> Coalesce(calls[c].got, live[key].rev)]
      BY <1>3, <1>5
    <3>2. QED
      BY <3>1 DEF Coalesce
  <2>2. CASE calls[c].got # None
    BY <1>3, <1>5, <2>1, <2>2
  <2>3. CASE calls[c].got = None
    BY <1>3, <1>5, <2>1, <2>3 DEF MemoryTrue
  <2>4. QED
    BY <2>2, <2>3
<1>6. CASE FlushReturns
  <2>1. CASE result = "committed" /\ Times(key) # {} /\ live[key].id = None
    <3>1. PICK i \in DOMAIN batch : batch[i].key = key
      BY <2>1 DEF Times, ToSet
    <3>2. session[key] # None /\ session' = session
      BY <1>6, <2>1, <3>1 DEF Committed, FlushReturns
    <3>3. live'[key].id = session[key].id /\ live'[key].rev = live[key].rev
      BY <1>6, <2>1 DEF FlushReturns, TypeOK, Memory
    <3>4. QED
      BY <3>2, <3>3 DEF MemoryTrue
  <2>2. CASE ~(result = "committed" /\ Times(key) # {} /\ live[key].id = None)
    BY <1>2, <1>6, <2>2 DEF FlushReturns
  <2>3. QED
    BY <2>1, <2>2
<1>7. CASE Crash
  BY <1>7 DEF Crash, Unknown
<1>8. ASSUME NEW c \in Calls,
             \/ \E k \in Keys, rev \in {Rev, None} : HelloArrives(c, k, rev)
             \/ Hello(c)
      PROVE  live' = live
  BY <1>8 DEF HelloArrives, Hello
<1>9. (\E k \in Keys, seq \in Seqs : Receive(k, seq)) => live' = live
  BY DEF Receive
<1>10. TakeBatch \/ WritePackets \/ WriteFails \/ Elapse \/ UNCHANGED vars => live' = live
  BY DEF TakeBatch, WritePackets, WriteFails, Elapse, vars
<1>11. QED
  BY <1>2, <1>4, <1>5, <1>6, <1>7, <1>8, <1>9, <1>10 DEF Next

LEMMA ReportedStep ==
    ASSUME TypeOK, CallsTrue, Reported, [Next]_vars
    PROVE  Reported'
<1> DEFINE Due(c, key) == /\ calls[c].stage = "written" /\ calls[c].key = key
                          /\ calls[c].got = session[key].rev
<1> SUFFICES ASSUME count'.crashes = 0,
                    NEW key \in Keys, session'[key] # None, session'[key].rev # None
             PROVE  \/ live'[key].rev = session'[key].rev
                    \/ \E c \in Calls : Due(c, key)'
  BY DEF Reported
<1>1. count.crashes = 0 /\ ~Crash
  <2>1. count.crashes \in Nat
    BY DEF TypeOK
  <2>2. ~Crash
    BY <2>1 DEF Crash, TypeOK
  <2>3. QED
    BY <2>1, <2>2 DEF Next, HelloArrives, Hello, HelloReturns, Receive, TakeBatch,
       WritePackets, WriteFails, FlushReturns, Elapse, vars, TypeOK
<1>2. session[key] # None /\ session[key].rev # None =>
        live[key].rev = session[key].rev \/ \E c \in Calls : Due(c, key)
  BY <1>1 DEF Reported
<1>3. ASSUME session'[key] = session[key], live'[key].rev = live[key].rev,
             \A c \in Calls : Due(c, key) => calls'[c] = calls[c]
      PROVE  \/ live'[key].rev = session'[key].rev
             \/ \E c \in Calls : Due(c, key)'
  BY <1>2, <1>3
<1>4. ASSUME NEW c \in Calls, NEW k \in Keys, NEW rev \in {Rev, None},
             HelloArrives(c, k, rev)
      PROVE  \/ live'[key].rev = session'[key].rev
             \/ \E d \in Calls : Due(d, key)'
  <2>1. session' = session /\ live' = live /\ calls[c].stage = "idle"
    BY <1>4 DEF HelloArrives
  <2>2. \A d \in Calls : d # c => calls'[d] = calls[d]
    BY <1>4 DEF HelloArrives, TypeOK
  <2>3. QED
    BY <1>3, <2>1, <2>2
<1>5. ASSUME NEW c \in Calls, Hello(c)
      PROVE  \/ live'[key].rev = session'[key].rev
             \/ \E d \in Calls : Due(d, key)'
  <2> DEFINE row == HelloRow(calls[c].key, calls[c].rev, calls[c].now)
  <2>1. /\ live' = live /\ calls[c].stage = "writing" /\ calls[c].key \in Keys
        /\ session' = [session EXCEPT ![calls[c].key] = row]
        /\ calls' = [calls EXCEPT ![c].stage = "written", ![c].id = row.id,
                                  ![c].got = row.rev]
    BY <1>5 DEF Hello, CallsTrue
  <2> HIDE DEF row
  <2>2. CASE calls[c].key = key
    <3>1. session'[key] = row
      BY <2>1, <2>2 DEF TypeOK
    <3>2. calls'[c].stage = "written" /\ calls'[c].key = key /\ calls'[c].got = row.rev
      BY <2>1, <2>2 DEF TypeOK, Hellos
    <3>3. QED
      BY <3>1, <3>2
  <2>3. CASE calls[c].key # key
    <3>1. session'[key] = session[key]
      BY <2>1, <2>3 DEF TypeOK
    <3>2. \A d \in Calls : d # c => calls'[d] = calls[d]
      BY <2>1 DEF TypeOK
    <3>3. QED
      BY <1>3, <2>1, <3>1, <3>2
  <2>4. QED
    BY <2>2, <2>3
<1>6. ASSUME NEW c \in Calls, HelloReturns(c)
      PROVE  \/ live'[key].rev = session'[key].rev
             \/ \E d \in Calls : Due(d, key)'
  <2>1. /\ session' = session /\ calls[c].stage = "written"
        /\ \A d \in Calls : d # c => calls'[d] = calls[d]
    BY <1>6 DEF HelloReturns, TypeOK
  <2>2. CASE calls[c].key = key
    <3>1. live'[key].rev = IF calls[c].got # None THEN calls[c].got ELSE live[key].rev
      BY <1>6, <2>2 DEF HelloReturns, Heard, Coalesce, TypeOK
    <3>2. calls[c].got # None => session[key].rev = calls[c].got
      BY <2>1, <2>2 DEF CallsTrue
    <3>3. CASE calls[c].got # None
      BY <2>1, <3>1, <3>2, <3>3
    <3>4. CASE calls[c].got = None
      <4>1. live'[key].rev = live[key].rev /\ ~Due(c, key)
        BY <2>1, <3>1, <3>4
      <4>2. QED
        BY <1>3, <2>1, <4>1
    <3>5. QED
      BY <3>3, <3>4
  <2>3. CASE calls[c].key # key
    <3>1. live'[key] = live[key]
      BY <1>6, <2>3 DEF HelloReturns, TypeOK
    <3>2. QED
      BY <1>3, <2>1, <2>3, <3>1
  <2>4. QED
    BY <2>2, <2>3
<1>7. CASE WritePackets
  <2>1. live' = live /\ calls' = calls
    BY <1>7 DEF WritePackets
  <2>2. session[key] # None /\ session'[key].rev = session[key].rev
    <3>1. CASE Times(key) = {}
      BY <1>7, <3>1 DEF WritePackets
    <3>2. CASE Times(key) # {}
      <4>1. session'[key] = Touched(key, IF session[key] = None THEN NewId(key) ELSE None)
        BY <1>7, <3>2 DEF WritePackets
      <4>2. session[key] = None => session'[key].rev = None
        BY <3>2, <4>1, NewIdIsNat, TouchedProperties
      <4>3. session[key] # None => session'[key].rev = session[key].rev
        BY <3>2, <4>1, TouchedProperties
      <4>4. QED
        BY <4>2, <4>3
    <3>3. QED
      BY <3>1, <3>2
  <2>3. QED
    BY <1>2, <2>1, <2>2
<1>8. CASE FlushReturns
  <2>1. session' = session /\ calls' = calls
    BY <1>8 DEF FlushReturns
  <2>2. live'[key].rev = live[key].rev
    BY <1>8 DEF FlushReturns, TypeOK, Memory
  <2>3. QED
    BY <1>3, <2>1, <2>2
<1>9. ASSUME session' = session, live' = live, calls' = calls
      PROVE  \/ live'[key].rev = session'[key].rev
             \/ \E d \in Calls : Due(d, key)'
  BY <1>3, <1>9
<1>10. (\E k \in Keys, seq \in Seqs : Receive(k, seq))
        => session' = session /\ live' = live /\ calls' = calls
  BY DEF Receive
<1>11. TakeBatch \/ WriteFails \/ Elapse \/ UNCHANGED vars
        => session' = session /\ live' = live /\ calls' = calls
  BY DEF TakeBatch, WriteFails, Elapse, vars
<1> HIDE DEF Due
<1>12. QED
  BY <1>1, <1>4, <1>5, <1>6, <1>7, <1>8, <1>9, <1>10, <1>11 DEF Next

-----------------------------------------------------------------------------
(* Which cycles are kept *)

LEMMA ArrivalTypes ==
    ASSUME TypeOK
    PROVE  /\ Len(queue) \in Nat /\ DOMAIN queue = 1..Len(queue)
           /\ Len(batch) \in Nat /\ DOMAIN batch = 1..Len(batch)
           /\ \A i \in DOMAIN queue : queue[i] \in Packets /\ queue[i].id \in Nat
           /\ \A i \in DOMAIN batch : batch[i] \in Packets /\ batch[i].id \in Nat
           /\ \A cell \in Keys \X Seqs : fix[cell] # None => fix[cell].id \in Nat
           /\ count.received \in Nat
<1>1. /\ Len(queue) \in Nat /\ DOMAIN queue = 1..Len(queue)
      /\ \A i \in DOMAIN queue : queue[i] \in Packets
  BY LenProperties DEF TypeOK
<1>2. /\ Len(batch) \in Nat /\ DOMAIN batch = 1..Len(batch)
      /\ \A i \in DOMAIN batch : batch[i] \in Packets
  BY LenProperties DEF TypeOK
<1>3. \A p \in Packets : p.id \in Nat
  BY DEF Packets
<1>4. \A cell \in Keys \X Seqs : fix[cell] # None => fix[cell].id \in Nat
  BY DEF TypeOK, Cycles
<1>5. QED
  BY <1>1, <1>2, <1>3, <1>4 DEF TypeOK

LEMMA ReceiveArrivals ==
    ASSUME TypeOK, Arrivals, NEW key \in Keys, NEW seq \in Seqs, Receive(key, seq)
    PROVE  Arrivals'
<1> DEFINE n == Len(queue)
<1> DEFINE p == [id |-> count.received + 1, key |-> key, seq |-> seq, at |-> clock]
<1>1. /\ queue' = Append(queue, p) /\ p.id = count.received + 1
      /\ count'.received = count.received + 1
      /\ UNCHANGED <<fix, batch, result>>
  BY DEF Receive, TypeOK
<1> HIDE DEF p
<1>2. n \in Nat /\ DOMAIN queue = 1..n /\ DOMAIN batch = 1..Len(batch)
  BY ArrivalTypes
<1>3. /\ DOMAIN queue' = 1..n + 1 /\ queue'[n + 1] = p
      /\ \A i \in 1..n : queue'[i] = queue[i]
  BY <1>1, <1>2 DEF TypeOK
<1>4. \A i \in DOMAIN queue' :
        \/ i \in 1..n /\ queue'[i] = queue[i]
        \/ i = n + 1 /\ queue'[i].id = count.received + 1
  BY <1>1, <1>2, <1>3
<1>5. \A i \in 1..n : queue[i].id \in Nat /\ queue[i].id <= count.received
  BY <1>2, ArrivalTypes DEF Arrivals
<1>6. Ascending(queue')
  <2> SUFFICES ASSUME NEW i \in DOMAIN queue', NEW j \in DOMAIN queue', i < j
               PROVE  queue'[i].id < queue'[j].id
    BY DEF Ascending
  <2>1. i \in 1..n /\ queue'[i] = queue[i]
    BY <1>2, <1>3, <1>4
  <2>2. CASE j \in 1..n /\ queue'[j] = queue[j]
    BY <1>2, <2>1, <2>2 DEF Arrivals, Ascending
  <2>3. CASE j = n + 1 /\ queue'[j].id = count.received + 1
    BY <1>5, <2>1, <2>3, ArrivalTypes
  <2>4. QED
    BY <1>4, <2>2, <2>3
<1>7. \A i \in DOMAIN queue' : queue'[i].id <= count'.received
  BY <1>1, <1>4, <1>5, ArrivalTypes
<1>8. \A i \in DOMAIN batch : /\ batch[i].id <= count'.received
                              /\ \A j \in DOMAIN queue' : batch[i].id < queue'[j].id
  <2>1. \A i \in DOMAIN batch : batch[i].id \in Nat /\ batch[i].id <= count.received
    BY ArrivalTypes DEF Arrivals
  <2>2. \A i \in DOMAIN batch, j \in 1..n : batch[i].id < queue[j].id
    BY <1>2 DEF Arrivals
  <2>3. QED
    BY <1>1, <1>4, <2>1, <2>2, ArrivalTypes
<1>9. \A cell \in Keys \X Seqs : fix[cell] # None =>
        /\ fix[cell].id <= count'.received
        /\ \A j \in DOMAIN queue' : fix[cell].id < queue'[j].id
  <2>1. \A cell \in Keys \X Seqs : fix[cell] # None =>
          /\ fix[cell].id \in Nat /\ fix[cell].id <= count.received
          /\ \A j \in 1..n : fix[cell].id < queue[j].id
    BY <1>2, ArrivalTypes DEF Arrivals
  <2>2. QED
    BY <1>1, <1>4, <2>1, ArrivalTypes
<1>10. QED
  BY <1>1, <1>6, <1>7, <1>8, <1>9 DEF Arrivals, Ascending

LEMMA TakeBatchArrivals ==
    ASSUME TypeOK, Arrivals, TakeBatch
    PROVE  Arrivals'
<1>1. PICK k \in DOMAIN queue : batch' = SubSeq(queue, k, Len(queue))
  BY DEF TakeBatch
<1>2. queue' = << >> /\ UNCHANGED <<fix, result, count>>
  BY DEF TakeBatch
<1>3. Len(queue) \in Nat /\ DOMAIN queue = 1..Len(queue) /\ k \in 1..Len(queue)
  BY ArrivalTypes
<1>4. /\ DOMAIN batch' = 1..(Len(queue) - k + 1)
      /\ \A i \in DOMAIN batch' : batch'[i] = queue[k + i - 1]
  <2>1. \A i \in k..Len(queue) : queue[i] \in Packets
    BY <1>3, ArrivalTypes
  <2>2. /\ batch' \in Seq(Packets)
        /\ Len(batch') = IF k <= Len(queue) THEN Len(queue) - k + 1 ELSE 0
        /\ \A i \in 1..Len(queue) - k + 1 : batch'[i] = queue[k + i - 1]
    BY <1>1, <1>3, <2>1, SubSeqProperties
  <2>3. QED
    BY <1>3, <2>2, LenProperties
<1>5. \A i \in DOMAIN batch' : k + i - 1 \in DOMAIN queue
  BY <1>3, <1>4
<1>6. Ascending(batch')
  <2> SUFFICES ASSUME NEW i \in DOMAIN batch', NEW j \in DOMAIN batch', i < j
               PROVE  batch'[i].id < batch'[j].id
    BY DEF Ascending
  <2>1. k + i - 1 < k + j - 1
    BY <1>3, <1>4
  <2>2. QED
    BY <1>4, <1>5, <2>1 DEF Arrivals, Ascending
<1>7. /\ \A i \in DOMAIN batch' : batch'[i].id <= count.received
      /\ \A cell \in Keys \X Seqs : fix[cell] # None =>
           /\ fix[cell].id <= count.received
           /\ \A i \in DOMAIN batch' : fix[cell].id < batch'[i].id
  BY <1>4, <1>5 DEF Arrivals
<1>8. DOMAIN queue' = {}
  BY <1>2, EmptySeq
<1>9. QED
  BY <1>2, <1>6, <1>7, <1>8 DEF Arrivals, Ascending

LEMMA ArrivalsStep ==
    ASSUME TypeOK, Arrivals, [Next]_vars
    PROVE  Arrivals'
<1>1. CASE WritePackets
  <2>1. /\ result' = "committed" /\ UNCHANGED <<queue, batch, count>>
        /\ fix' = [cell \in Keys \X Seqs |-> InsertCycle(cell)]
    BY <1>1 DEF WritePackets
  <2>2. ASSUME NEW cell \in Keys \X Seqs, fix'[cell] # None
        PROVE  /\ fix'[cell].id <= count.received
               /\ \A j \in DOMAIN queue : fix'[cell].id < queue[j].id
    <3>1. CASE fix[cell] # None
      BY <2>1, <3>1, InsertCycleProperties DEF Arrivals
    <3>2. CASE fix[cell] = None
      <4>1. PICK m \in DOMAIN batch : fix'[cell].id = batch[m].id
        BY <2>1, <2>2, <3>2, InsertCycleProperties
      <4>2. QED
        BY <4>1 DEF Arrivals
    <3>3. QED
      BY <3>1, <3>2
  <2>3. QED
    BY <2>1, <2>2 DEF Arrivals, Ascending
<1>2. CASE WriteFails
  BY <1>2 DEF WriteFails, Arrivals, Ascending
<1>3. CASE FlushReturns
  <2>1. DOMAIN batch' = {} /\ UNCHANGED <<queue, fix, count>>
    BY <1>3, EmptySeq DEF FlushReturns
  <2>2. QED
    BY <2>1 DEF Arrivals, Ascending
<1>4. CASE Crash
  <2>1. /\ DOMAIN batch' = {} /\ DOMAIN queue' = {}
        /\ fix' = fix /\ count'.received = count.received
    BY <1>4, EmptySeq DEF Crash, TypeOK
  <2>2. QED
    BY <2>1 DEF Arrivals, Ascending
<1>5. ASSUME UNCHANGED <<queue, batch, fix, result>>, count'.received = count.received
      PROVE  Arrivals'
  BY <1>5 DEF Arrivals, Ascending
<1>6. Elapse \/ UNCHANGED vars
        => UNCHANGED <<queue, batch, fix, result>> /\ count'.received = count.received
  BY DEF Elapse, vars
<1>7. \A c \in Calls :
        (\/ \E key \in Keys, rev \in {Rev, None} : HelloArrives(c, key, rev)
         \/ Hello(c) \/ HelloReturns(c))
        => UNCHANGED <<queue, batch, fix, result>> /\ count'.received = count.received
  BY DEF HelloArrives, Hello, HelloReturns, TypeOK
<1>8. QED
  BY <1>1, <1>2, <1>3, <1>4, <1>5, <1>6, <1>7, ReceiveArrivals, TakeBatchArrivals
     DEF Next

LEMMA CommittedStep ==
    ASSUME TypeOK, TypeOK', CallsTrue, Arrivals, Committed, [Next]_vars
    PROVE  Committed'
<1>1. CASE WritePackets
  <2>1. batch # << >> /\ batch' = batch /\ result = "none" /\ result' = "committed"
    BY <1>1 DEF WritePackets
  <2> SUFFICES ASSUME NEW i \in DOMAIN batch
               PROVE  /\ session'[batch[i].key] # None
                      /\ fix'[<<batch[i].key, batch[i].seq>>] # None
                      /\ fix'[<<batch[i].key, batch[i].seq>>].id <= batch[i].id
    BY <2>1 DEF Committed
  <2> DEFINE key == batch[i].key
  <2> DEFINE cell == <<batch[i].key, batch[i].seq>>
  <2>2. batch[i] \in Packets /\ key \in Keys /\ cell \in Keys \X Seqs
    BY ArrivalTypes DEF Packets
  <2>3. session'[key] # None
    <3>1. batch[i].at \in Times(key)
      BY DEF Times, ToSet
    <3>2. Touched(key, IF session[key] = None THEN NewId(key) ELSE None) \in Rows
      BY <2>2, <3>1, TouchedProperties, NewIdIsNat
    <3>3. session'[key] = Touched(key, IF session[key] = None THEN NewId(key) ELSE None)
      BY <1>1, <2>2, <3>1 DEF WritePackets
    <3>4. QED
      BY <3>2, <3>3, StoreAssumption
  <2>4. i \in Sent(cell)
    BY DEF Sent
  <2>5. fix'[cell] = InsertCycle(cell)
    BY <1>1, <2>2 DEF WritePackets
  <2>6. fix'[cell] # None
    BY <2>2, <2>4, <2>5, InsertCycleProperties
  <2>7. fix'[cell].id <= batch[i].id
    <3>1. CASE fix[cell] # None
      <4>1. fix'[cell] = fix[cell] /\ fix[cell].id < batch[i].id
        BY <2>1, <2>2, <2>5, <3>1, InsertCycleProperties DEF Arrivals
      <4>2. fix[cell].id \in Nat /\ batch[i].id \in Nat
        BY <2>2, <3>1, ArrivalTypes
      <4>3. QED
        BY <4>1, <4>2
    <3>2. CASE fix[cell] = None
      <4>1. PICK m \in DOMAIN batch : m <= i /\ fix'[cell].id = batch[m].id
        BY <2>2, <2>4, <2>5, <3>2, InsertCycleProperties
      <4>2. m \in Nat /\ i \in Nat /\ batch[m].id \in Nat /\ batch[i].id \in Nat
        BY ArrivalTypes
      <4>3. m = i \/ m < i
        BY <4>1, <4>2
      <4>4. m < i => batch[m].id < batch[i].id
        BY DEF Arrivals, Ascending
      <4>5. QED
        BY <4>1, <4>2, <4>3, <4>4
    <3>3. QED
      BY <3>1, <3>2
  <2>8. QED
    BY <2>3, <2>6, <2>7
<1>2. ASSUME batch' = batch, result' = result PROVE Committed'
  <2> SUFFICES ASSUME result = "committed", NEW i \in DOMAIN batch
               PROVE  /\ session'[batch[i].key] # None
                      /\ fix'[<<batch[i].key, batch[i].seq>>] # None
                      /\ fix'[<<batch[i].key, batch[i].seq>>].id <= batch[i].id
    BY <1>2 DEF Committed
  <2>1. batch[i].key \in Keys /\ <<batch[i].key, batch[i].seq>> \in Keys \X Seqs
    BY ArrivalTypes DEF Packets
  <2>2. /\ session[batch[i].key] # None
        /\ fix[<<batch[i].key, batch[i].seq>>] # None
        /\ fix[<<batch[i].key, batch[i].seq>>].id <= batch[i].id
    BY DEF Committed
  <2>3. QED
    BY <2>1, <2>2, SessionsStay, CyclesStay DEF SessionStays
<1>3. CASE TakeBatch
  <2>1. PICK k \in DOMAIN queue : batch' = SubSeq(queue, k, Len(queue))
    BY <1>3 DEF TakeBatch
  <2>2. result' = result /\ result = "none"
    BY <1>3 DEF TakeBatch, Committed
  <2>3. QED
    BY <2>2 DEF Committed
<1>4. CASE WriteFails
  BY <1>4 DEF WriteFails, Committed
<1>5. CASE FlushReturns \/ Crash
  <2>1. batch' = << >> /\ result' = "none"
    BY <1>5 DEF FlushReturns, Crash
  <2>2. QED
    BY <2>1 DEF Committed
<1>6. \A c \in Calls :
        (\/ \E key \in Keys, rev \in {Rev, None} : HelloArrives(c, key, rev)
         \/ Hello(c) \/ HelloReturns(c)) => batch' = batch /\ result' = result
  BY DEF HelloArrives, Hello, HelloReturns
<1>7. (\E key \in Keys, seq \in Seqs : Receive(key, seq))
        => batch' = batch /\ result' = result
  BY DEF Receive
<1>8. Elapse \/ UNCHANGED vars => batch' = batch /\ result' = result
  BY DEF Elapse, vars
<1>9. QED
  BY <1>1, <1>2, <1>3, <1>4, <1>5, <1>6, <1>7, <1>8 DEF Next

-----------------------------------------------------------------------------
(* The invariant and what follows *)

LEMMA InitInv ==
    ASSUME Init
    PROVE  StoreInv
<1> USE DEF Init
<1>1. TypeOK
  <2>1. Idle \in Hellos /\ Unknown \in Memory
    BY StoreAssumption DEF Idle, Hellos, Unknown, Memory
  <2>2. 0 \in 0..MaxTime
    BY StoreAssumption
  <2>3. QED
    BY <2>1, <2>2, EmptySeq DEF TypeOK
<1>2. CallsTrue /\ MemoryTrue /\ Reported
  BY DEF CallsTrue, MemoryTrue, Reported, Idle, Unknown
<1>3. Arrivals /\ Committed
  <2>1. DOMAIN queue = {} /\ DOMAIN batch = {}
    BY EmptySeq
  <2>2. QED
    BY <2>1 DEF Arrivals, Ascending, Committed
<1>4. QED
  BY <1>1, <1>2, <1>3 DEF StoreInv

LEMMA StepInv ==
    ASSUME StoreInv, [Next]_vars
    PROVE  StoreInv'
<1>1. TypeOK /\ CallsTrue /\ MemoryTrue /\ Reported /\ Arrivals /\ Committed
  BY DEF StoreInv
<1>2. TypeOK'
  BY <1>1, TypesStep
<1>3. CallsTrue' /\ MemoryTrue' /\ Reported'
  BY <1>1, <1>2, CallsStep, MemoryStep, ReportedStep
<1>4. Arrivals' /\ Committed'
  BY <1>1, <1>2, ArrivalsStep, CommittedStep
<1>5. QED
  BY <1>2, <1>3, <1>4 DEF StoreInv

(* In every behaviour of the store the invariant holds.                     *)
THEOREM StoreInvariance == Spec => []StoreInv
<1>1. Init => StoreInv
  BY InitInv
<1>2. StoreInv /\ [Next]_vars => StoreInv'
  BY StepInv
<1>3. QED
  BY <1>1, <1>2, PTL DEF Spec

(* The types of tables, requests and queue.                                 *)
THEOREM StoreTypes == Spec => []TypeOK
<1>1. StoreInv => TypeOK
  BY DEF StoreInv
<1>2. QED
  BY <1>1, StoreInvariance, PTL

(* A session keeps its id and its config_rev, its span only widens, and a   *)
(* cycle is never rewritten: hello, write_packets, rollbacks and crashes.   *)
THEOREM NothingRewritten == Spec => RecordsStay
<1> DEFINE Stays ==
      /\ \A key \in Keys : session[key] # None =>
            /\ session'[key] # None
            /\ session'[key].id = session[key].id
            /\ session'[key].started <= session[key].started
            /\ session'[key].seen >= session[key].seen
            /\ session[key].rev # None => session'[key].rev = session[key].rev
      /\ \A cell \in Keys \X Seqs : fix[cell] # None => fix'[cell] = fix[cell]
<1>1. StoreInv /\ [Next]_vars => [Stays]_vars
  <2> SUFFICES ASSUME StoreInv, [Next]_vars PROVE Stays
    OBVIOUS
  <2>1. TypeOK /\ CallsTrue
    BY DEF StoreInv
  <2>2. QED
    BY <2>1, SessionsStay, CyclesStay DEF SessionStays
<1>2. RecordsStay <=> [][Stays]_vars
  BY DEF RecordsStay
<1> HIDE DEF Stays
<1>3. QED
  BY <1>1, <1>2, StoreInvariance, PTL DEF Spec

(* INSERT OR IGNORE, and the order of queue and batch, keep the first of    *)
(* the cycles with one (session_id, seq).                                   *)
THEOREM FirstIsKept == Spec => []FirstReceivedKept
<1>1. StoreInv => FirstReceivedKept
  <2> SUFFICES ASSUME StoreInv, result = "committed", NEW p \in ToSet(batch)
               PROVE  /\ fix[<<p.key, p.seq>>] # None
                      /\ fix[<<p.key, p.seq>>].id <= p.id
    BY DEF FirstReceivedKept
  <2>1. PICK i \in DOMAIN batch : batch[i] = p
    BY DEF ToSet
  <2>2. QED
    BY <2>1 DEF StoreInv, Committed
<1>2. QED
  BY <1>1, StoreInvariance, PTL

(* The hub knows nothing that the tables do not hold; unless the server was *)
(* started again it knows every config_rev once no hello is under way.      *)
THEOREM HubAgrees == Spec => []LiveAgrees
<1>1. StoreInv => LiveAgrees
  <2> SUFFICES ASSUME StoreInv, NEW key \in Keys
               PROVE  /\ live[key].id # None =>
                           session[key] # None /\ live[key].id = session[key].id
                      /\ live[key].rev # None => session[key].rev = live[key].rev
                      /\ /\ count.crashes = 0 /\ session[key] # None
                         /\ \A c \in Calls : calls[c].key # key
                         => live[key].rev = session[key].rev
    BY DEF LiveAgrees
  <2>1. /\ live[key].id # None =>
             session[key] # None /\ live[key].id = session[key].id
        /\ live[key].rev # None => session[key].rev = live[key].rev
    BY DEF StoreInv, MemoryTrue
  <2>2. ASSUME count.crashes = 0, session[key] # None,
               \A c \in Calls : calls[c].key # key
        PROVE  live[key].rev = session[key].rev
    <3>1. CASE session[key].rev = None
      BY <2>1, <3>1
    <3>2. CASE session[key].rev # None
      BY <2>2, <3>2 DEF StoreInv, Reported
    <3>3. QED
      BY <3>1, <3>2
  <2>3. QED
    BY <2>1, <2>2
<1>2. QED
  BY <1>1, StoreInvariance, PTL

=============================================================================
