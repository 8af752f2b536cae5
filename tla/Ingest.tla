-------------------------------- MODULE Ingest --------------------------------
(***************************************************************************)
(* The way of the telemetry from the tags to the two views of it: the      *)
(* datagrams (Packet), the receiver with its loss tracker (ingest/udp.py), *)
(* the hand-over to writer and hub (IngestService.dispatch), the rows      *)
(* (store/telemetry.py) and the answers of the query API (Query).  The hub *)
(* is LiveHub, whose variables and Publish are used as they are.           *)
(*                                                                         *)
(* UDP reorders, repeats and loses datagrams and may damage them.  `net'   *)
(* holds all that the tags send, from the beginning, since they may arrive *)
(* after any delay; one that is never taken from it was lost.              *)
(* What the tags really measured is CycleOf, so that stored and shown      *)
(* cycles can be compared with it.                                         *)
(***************************************************************************)
EXTENDS Query

CONSTANTS
    Keys,         \* sessions: pairs <<tag, boot>>
    Length,       \* how many cycles each session has
    Ending,       \* the sessions whose last packet carries the last flag
    BatchCycles,  \* the largest number of cycles in a packet
    CycleOf(_),   \* what a tag measured in its i-th cycle, without seq and t
    Origins,      \* raw values of seq and t at the first cycle: [seq, t]
    Asks,         \* what the page may ask for: [from, to, max]
    MaxSessions,  \* SeqTracker.max_sessions
    MaxCycles, MaxRanges, MaxTotal, Retention, Trail, EndedMemory,  \* of LiveHub
    MaxSeq,       \* bound on the unwrapped seq of the hub
    MaxQueue,     \* bound on the packets waiting for the writer
    MaxFaults     \* bound on datagrams repeated or damaged

(* What a tag may have measured in a cycle.                                 *)
RangeRecords == [anchor : Anchors, status : Nat, d : Int, el : Nat, kf : 0..KfMax]
Measurements ==
    [flags : SUBSET FixFlagsKnown, used : Nat, x : Int, resid : Nat,
     kx : Int, krej : Nat, ranges : Seq(RangeRecords)]

(* What a ghost keeps of the cycles received of a session.                  *)
Received == [from : Nat, got : SUBSET Nat]

ASSUME IngestAssumption ==
    /\ Keys \subseteq Tags \X {k[2] : k \in Keys}
    /\ Length \in [Keys -> Nat \ {0}] /\ Ending \subseteq Keys
    /\ {BatchCycles, MaxSessions} \subseteq Nat \ {0}
    /\ \A k \in Keys : 2 * Length[k] <= SeqWrap + 1
    /\ \A k \in Keys : \A i \in 0..(Length[k] - 1) : CycleOf(i) \in Measurements
    /\ Origins \subseteq [seq : 0..(SeqWrap - 1), t : 0..(TimeWrap - 1)]
    /\ None \notin Received /\ None \notin Int
    /\ IsFiniteSet(Anchors) /\ TotalPoints \in Nat
    /\ \A q \in Asks : /\ {q.from, q.to} \subseteq Int \cup {None}
                       /\ q.max \in Nat /\ q.max >= MaxPointsMin

VARIABLES
    origin,   \* where the tags' counters start
    net,      \* datagrams under way, by the cycles they carry
    faults,   \* how many were repeated or damaged
    tracker,  \* SeqTracker.sessions, least recently heard first
    stats,    \* ReceiveStats and the totals of SeqTracker
    queue,    \* packets handed to the writer and not yet written
    table,    \* sessions in the order of their ids
    fixes,    \* per session its rows of position_fix
    samples,  \* per session its rows of range_sample
    sessions, ended, hello, watching, pages,  \* of LiveHub
    heard,    \* ghost: sessions in the order they were last heard
    since     \* ghost: what was received of a session since it is tracked

hubVars == <<sessions, ended, hello, watching, pages>>
storeVars == <<queue, table, fixes, samples>>
vars == <<origin, net, faults, tracker, stats, storeVars, hubVars, heard, since>>

(* The hub, whose subscribers are left out, and with them clock and hellos. *)
Hub == INSTANCE LiveHub WITH
    Boots <- {k[2] : k \in Keys}, Revs <- {}, Subs <- {}, Packets <- {},
    Timeout <- 1, HelloMemory <- 1

ASSUME HubConstants == Hub!HubAssumption

-----------------------------------------------------------------------------
(* What a tag sends *)

(* CycleRecord: the i-th cycle, one unit of time after the one before.      *)
Cycle(i) ==
    LET c == CycleOf(i)
    IN  [seq |-> (origin.seq + i) % SeqWrap, t |-> (origin.t + i) % TimeWrap,
         flags |-> c.flags, used |-> c.used, x |-> c.x, resid |-> c.resid,
         kx |-> c.kx, krej |-> c.krej, ranges |-> c.ranges]

(* The packet of a datagram under way.                                      *)
PacketOf(m) ==
    [tag |-> m.key[1], boot |-> m.key[2], last |-> m.last,
     seq |-> Cycle(m.first).seq, t |-> Cycle(m.first).t,
     cycles |-> [i \in 1..m.count |-> Cycle(m.first + i - 1)]]

(* The ways to send `length' cycles in packets of at most BatchCycles: the  *)
(* sets of cycles a packet begins with.                                     *)
Splits(length) ==
    {starts \in SUBSET (0..(length - 1)) :
        /\ 0 \in starts
        /\ \A i \in 0..(length - 1) :
             \E first \in starts : first <= i /\ i - first < BatchCycles}

(* The datagrams of a session for one of them.                              *)
Datagrams(k, starts) ==
    LET end(first) == Min({i \in starts \cup {Length[k]} : i > first})
    IN  {[key |-> k, first |-> first, count |-> end(first) - first,
          last |-> k \in Ending /\ end(first) = Length[k]] : first \in starts}

(* What the network may make of a datagram, as far as its format shows it.  *)
Damage(d) ==
    LET record(c) == [d EXCEPT !.cycles[1] = c]
    IN  {[d EXCEPT !.size = HeaderSize - 1], [d EXCEPT !.size = @ - 1],
         [d EXCEPT !.magic = "?"], [d EXCEPT !.version = Version - 1],
         [d EXCEPT !.flags = @ \cup {"unknown"}], [d EXCEPT !.reserved = 1],
         [d EXCEPT !.tag = None], [d EXCEPT !.count = 0], [d EXCEPT !.count = @ + 1],
         [d EXCEPT !.anchorN = 0], [d EXCEPT !.anchorN = @ + 1],
         record([d.cycles[1] EXCEPT !.flags = @ \cup {"unknown"}]),
         record([d.cycles[1] EXCEPT !.ranges[1].anchor = None]),
         record([d.cycles[1] EXCEPT !.ranges[1].kf = KfMax + 1])}

-----------------------------------------------------------------------------
(* SeqTracker *)

KeyOf(p) == <<p.tag, p.boot>>

Fresh(p) == [key |-> KeyOf(p), next |-> p.seq, received |-> 0, lost |-> 0, late |-> 0]

TrackerKeys == {tracker[i].key : i \in DOMAIN tracker}

(* SeqTracker.sessions.get, or a new SessionSeqState.                       *)
StateOf(p) ==
    IF KeyOf(p) \in TrackerKeys
    THEN CHOOSE s \in ToSet(tracker) : s.key = KeyOf(p)
    ELSE Fresh(p)

(* Bug: the gap is not taken modulo 2^32.                                   *)
Bug_Gap(p, s) == IF p.seq >= s.next THEN p.seq - s.next ELSE SeqWrap - 1

Gap(p, s) == (p.seq - s.next) % SeqWrap

(* A packet from half the range ahead on is one that comes late.            *)
Ahead(p, s) == 2 * Gap(p, s) < SeqWrap

Counted(p, s) ==
    LET count == Len(p.cycles)
    IN  IF Ahead(p, s)
        THEN [s EXCEPT !.lost = @ + Gap(p, s), !.next = (p.seq + count) % SeqWrap,
                       !.received = @ + count]
        ELSE [s EXCEPT !.late = @ + count, !.received = @ + count]

(* A sequence without the first item, if any, that is at one of the places. *)
Without(items, places) ==
    IF places = {} THEN items ELSE RemoveAt(items, Min(places))

(* The other sessions; a new one may push out the first.                    *)
Others(p) ==
    LET rest == Without(tracker, {i \in DOMAIN tracker : tracker[i].key = KeyOf(p)})
    IN  IF Len(rest) >= MaxSessions THEN Tail(rest) ELSE rest

(* Bug: a session stays where it was first put.                             *)
Bug_Observed(p) ==
    LET new == Counted(p, StateOf(p))
    IN  IF p.last THEN Others(p)
        ELSE IF KeyOf(p) \in TrackerKeys
        THEN [i \in DOMAIN tracker |-> IF tracker[i].key = KeyOf(p) THEN new ELSE tracker[i]]
        ELSE Append(Others(p), new)

(* observe: the session goes to the end, or is deleted after its last.      *)
Observed(p) ==
    IF p.last THEN Others(p) ELSE Append(Others(p), Counted(p, StateOf(p)))

Observe(p) ==
    LET s == StateOf(p)
        new == KeyOf(p) \notin TrackerKeys
    IN  /\ tracker' = Observed(p)
        /\ stats' = [stats EXCEPT
             !.accepted = @ + 1,
             !.lost = @ + (IF Ahead(p, s) THEN Gap(p, s) ELSE 0),
             !.late = @ + (IF Ahead(p, s) THEN 0 ELSE Len(p.cycles)),
             !.evicted = @ + (IF new /\ Len(tracker) >= MaxSessions THEN 1 ELSE 0)]

(* What a ghost knows of a packet that is tracked: its true cycles.         *)
Remember(m) ==
    LET k == m.key
        carried == m.first..(m.first + m.count - 1)
        now == IF since[k] = None THEN [from |-> m.first, got |-> carried]
               ELSE [since[k] EXCEPT !.got = @ \cup carried]
    IN  /\ heard' = Append(Without(heard, {i \in DOMAIN heard : heard[i] = k}), k)
        /\ since' = [j \in Keys |->
             IF \A s \in ToSet(tracker') : s.key # j THEN None
             ELSE IF j = k THEN now ELSE since[j]]

-----------------------------------------------------------------------------
(* datagram_received *)

(* publish takes the packet in, or drops one of a session that is over.     *)
ToHub(p) == Hub!Publish(p) \/ Hub!PublishStale(p)

(* The hub counts the ranges of a cycle only.                               *)
Light(p) ==
    [tag |-> p.tag, boot |-> p.boot, last |-> p.last,
     cycles |-> [i \in DOMAIN p.cycles |->
        [seq |-> p.cycles[i].seq, t |-> p.cycles[i].t, r |-> Len(p.cycles[i].ranges)]]]

(* An intact datagram: tracker, then dispatch to writer and hub.            *)
Accept(m, again) ==
    LET d == Encoded(PacketOf(m))
        p == Decoded(d)
    IN  /\ Rejection(d) = None /\ Len(queue) < MaxQueue
        /\ again => faults < MaxFaults
        /\ net' = IF again THEN net ELSE net \ {m}
        /\ faults' = IF again THEN faults + 1 ELSE faults
        /\ Observe(p)
        /\ Remember(m)
        /\ queue' = Append(queue, p)
        /\ ToHub(Light(p))
        /\ UNCHANGED <<origin, table, fixes, samples>>

(* A damaged one, which is dropped whole, and counted, if it is recognised. *)
ArriveDamaged(m) ==
    /\ faults < MaxFaults /\ Len(queue) < MaxQueue
    /\ net' = net \ {m}
    /\ faults' = faults + 1
    /\ \E d \in Damage(Encoded(PacketOf(m))) :
         IF Rejection(d) # None
         THEN /\ stats' = [stats EXCEPT !.dropped = @ + 1]
              /\ UNCHANGED <<tracker, queue, hubVars, heard, since>>
         ELSE /\ Observe(Decoded(d)) /\ Remember(m)
              /\ queue' = Append(queue, Decoded(d))
              /\ ToHub(Light(Decoded(d)))
    /\ UNCHANGED <<origin, table, fixes, samples>>

-----------------------------------------------------------------------------
(* write_packets *)

Known(c, flag) == flag \in c.flags

(* The row of position_fix: what is not valid becomes NULL.                 *)
FixRow(c) ==
    LET ok == Known(c, "ok")
        kok == Known(c, "kf_ok")
    IN  [seq |-> c.seq, t |-> c.t, ok |-> ok,
         x |-> IF ok THEN c.x ELSE None,
         used |-> c.used, resid |-> c.resid,
         kok |-> kok, kupd |-> kok /\ Known(c, "kf_updated"),
         kinit |-> kok /\ Known(c, "kf_init"),
         kx |-> IF kok THEN c.kx ELSE None, krej |-> c.krej]

SampleRow(c, r) ==
    [seq |-> c.seq, t |-> c.t, anchor |-> r.anchor, status |-> r.status,
     d |-> IF r.status = StatusOk THEN r.d ELSE None, el |-> r.el, kf |-> r.kf]

(* INSERT OR IGNORE: of an anchor given twice in a cycle, the first.        *)
SampleRows(c) ==
    {SampleRow(c, c.ranges[i]) : i \in {j \in DOMAIN c.ranges :
        \A h \in 1..(j - 1) : c.ranges[h].anchor # c.ranges[j].anchor}}

(* _insert_cycle: a cycle whose fix is there already is dropped whole.      *)
Inserted(w, c) ==
    IF \E r \in w.fix : r.seq = c.seq THEN w
    ELSE [fix |-> w.fix \cup {FixRow(c)}, sample |-> w.sample \cup SampleRows(c)]

InsertedAll(w, p) == FoldLeft(Inserted, w, p.cycles)

(* The rows of a session after those of its packets that are queued.        *)
RowsAfter(k) ==
    FoldLeft(LAMBDA w, p : IF KeyOf(p) = k THEN InsertedAll(w, p) ELSE w,
             [fix |-> fixes[k], sample |-> samples[k]], queue)

(* One batch with all that is queued, in the order it came.                 *)
Write ==
    LET enter(tab, p) == IF KeyOf(p) \in ToSet(tab) THEN tab ELSE Append(tab, KeyOf(p))
    IN  /\ queue # << >>
        /\ table' = FoldLeft(enter, table, queue)
        /\ fixes' = [k \in Keys |-> RowsAfter(k).fix]
        /\ samples' = [k \in Keys |-> RowsAfter(k).sample]
        /\ queue' = << >>
        /\ UNCHANGED <<origin, net, faults, tracker, stats, hubVars, heard, since>>

-----------------------------------------------------------------------------
Init ==
    /\ origin \in Origins
    /\ \E split \in [Keys -> UNION {Splits(Length[k]) : k \in Keys}] :
         /\ \A k \in Keys : split[k] \in Splits(Length[k])
         /\ net = UNION {Datagrams(k, split[k]) : k \in Keys}
    /\ \A m \in net : Encodable(PacketOf(m))
    /\ faults = 0
    /\ tracker = << >>
    /\ stats = [accepted |-> 0, dropped |-> 0, lost |-> 0, late |-> 0, evicted |-> 0]
    /\ queue = << >> /\ table = << >>
    /\ fixes = [k \in Keys |-> {}] /\ samples = [k \in Keys |-> {}]
    /\ Hub!Init
    /\ heard = << >>
    /\ since = [k \in Keys |-> None]

Next ==
    \/ \E m \in net : ArriveDamaged(m) \/ \E again \in BOOLEAN : Accept(m, again)
    \/ Write

Spec == Init /\ [][Next]_vars

-----------------------------------------------------------------------------
(* Properties *)

Tracked(k) == CHOOSE s \in ToSet(tracker) : s.key = k

(* The loss the tracker estimates is never too low, and too high by no more *)
(* than the cycles that came late, in whatever order packets come, over the *)
(* wrap of seq, and after a session was forgotten and heard again: counted  *)
(* from where its tracking began.                                           *)
LossEstimate ==
    \A k \in Keys : since[k] # None =>
        LET s == Tracked(k)
            end == Max(since[k].got) + 1
            missing == Cardinality((since[k].from..(end - 1)) \ since[k].got)
        IN  /\ s.next = (origin.seq + end) % SeqWrap
            /\ missing <= s.lost /\ s.lost <= missing + s.late

(* At its limit the tracker forgets the session it heard least recently,    *)
(* and otherwise only one that ended.                                       *)
ForgetsOldest ==
    [][\A k \in Keys : since[k] # None /\ since'[k] = None
         => \/ Last(heard') = k
            \/ /\ Len(tracker) = MaxSessions
               /\ \A s \in ToSet(tracker') :
                    \E i, j \in DOMAIN heard' :
                       heard'[i] = k /\ heard'[j] = s.key /\ i < j]_vars

(* The number of the cycle a raw seq stands for.                            *)
Index(seq) == (seq - origin.seq) % SeqWrap

(* What is stored of a cycle is what its tag sent of it, the fix with all   *)
(* its ranges: nothing of a damaged datagram, and no mixture.               *)
StoredAsSent ==
    \A k \in Keys :
        LET seqs == {f.seq : f \in fixes[k]}
            stored == {Index(q) : q \in seqs}
        IN  /\ stored \subseteq 0..(Length[k] - 1)
            /\ fixes[k] = {FixRow(Cycle(i)) : i \in stored}
            /\ samples[k] = UNION {SampleRows(Cycle(i)) : i \in stored}

All(k) == Track(fixes[k], None, None, Cardinality(fixes[k]) + MaxPointsMin).data

(* The sessions of the database, when nothing waits to be written: what is  *)
(* asked while something waits was asked, of the same rows, before it came. *)
Written == IF queue = << >> THEN ToSet(table) ELSE {}

(* Neighbours of a sequence of [seq, t] are less than half of TimeWrap      *)
(* apart, without which nobody can count the wraps of t.                    *)
Dense(rows) ==
    \A i \in 2..Len(rows) :
        2 * (Index(rows[i].seq % SeqWrap) - Index(rows[i - 1].seq % SeqWrap)) < TimeWrap

(* Replay shows true distances: seq and t of any two stored cycles differ   *)
(* by what lies between them, across the wraps of both and with any cycles  *)
(* missing, and dt is given exactly where the cycle before is stored.       *)
ReplayIsTrue ==
    \A k \in Written :
        LET rows == All(k)
            at(i) == Index(rows[i].seq % SeqWrap)
        IN  /\ \A i, j \in DOMAIN rows : i < j =>
                 /\ rows[j].seq - rows[i].seq = at(j) - at(i)
                 /\ Dense(rows) => rows[j].t - rows[i].t = at(j) - at(i)
            /\ \A i \in DOMAIN rows :
                 rows[i].dt # None <=> \E j \in DOMAIN rows : at(j) = at(i) - 1

(* What was shown live is shown again in replay once it is written: the     *)
(* same columns, seq and t shifted at most as a whole.  The hub unwraps     *)
(* from cycle to cycle and drops late cycles, the query unwraps from the    *)
(* extremes and by the order of seq.                                        *)
ReplayShowsLive ==
    \A k \in Written :
        LET s == sessions[k[1]]
            shown == s.cycles
            rows == All(k)
            raw(c) == Cycle(Index(c.n % SeqWrap))
            like(c) == FixColumn(c.n, c.t, c.dt, FixRow(raw(c)))
            at(c) == CHOOSE i \in DOMAIN rows : rows[i].seq % SeqWrap = c.n % SeqWrap
            live == [i \in DOMAIN shown |-> [seq |-> shown[i].n, t |-> shown[i].t]]
        IN  (s # None /\ s.boot = k[2]) =>
              \A i \in DOMAIN shown :
                LET row == rows[at(shown[i])]
                    first == rows[at(shown[1])]
                IN  /\ row.seq - first.seq = shown[i].n - shown[1].n
                    /\ (Dense(live) /\ Dense(rows)) =>
                          row.t - first.t = shown[i].t - shown[1].t
                    /\ shown[i].dt # None => row.dt = shown[i].dt
                    /\ row = [like(shown[i]) EXCEPT !.seq = row.seq, !.t = row.t,
                                                    !.dt = row.dt]

IdOf(k) == CHOOSE id \in DOMAIN table : table[id] = k

TrackOf(k, q) == GetTrack(table, fixes, IdOf(k), q.from, q.to, q.max)

RangesOf(k, q) == GetRanges(table, fixes, samples, IdOf(k), None, q.from, q.to, q.max)

(* Thinning out costs no end and no period: at most max_points rows of the  *)
(* time range, in even steps from its first to its last, each as it is in   *)
(* the whole track, with the period of the whole track.                     *)
ThinnedFairly ==
    \A k \in Written : LET all == All(k) IN \A q \in Asks :
        LET answer == TrackOf(k, q)
            full == Within(all, q.from, q.to)
            thin == answer.body.data
        IN  answer.status = 200 =>
              /\ answer.body.total = Len(full) /\ Len(thin) <= q.max
              /\ full # << >> => Last(thin) = Last(full)
              /\ \A i \in 1..(Len(thin) - 1) :
                    thin[i] = full[(i - 1) * answer.body.stride + 1]

(* Track and ranges lie on each other: a range has the seq and t of the     *)
(* track at its cycle, even of an anchor first heard after a wrap; an       *)
(* anchor heard in every cycle is thinned out at the same cycles; and all   *)
(* anchors together stay within their limit.                                *)
RangesOnTrack ==
    \A k \in Written :
      LET at(rows) == {[seq |-> rows[i].seq, t |-> rows[i].t] : i \in DOMAIN rows}
          whole == at(All(k))
          budget == Cardinality(Asked(samples[k], None))
      IN  \A q \in Asks :
        LET track == TrackOf(k, q)
            ranges == RangesOf(k, q)
            points(a) == Len(ranges.body[a].data)
            heardBy == DOMAIN ranges.body
            thin == at(track.body.data)
        IN  /\ track.status = ranges.status
            /\ track.status = 200 =>
                 /\ \A a \in heardBy :
                      /\ at(ranges.body[a].data) \subseteq whole
                      /\ (ranges.body[a].total = track.body.total
                          /\ PerAnchorPoints(q.max, budget) = q.max) =>
                           at(ranges.body[a].data) = thin
                 /\ \A a \in heardBy : Cardinality(heardBy) * points(a)
                                          <= Max({TotalPoints, MaxPointsMin * budget})

(* The summary and the list of sessions count what the track and the ranges *)
(* show and what is really missing of what the tag sent in between, and the *)
(* periods they average are those of neighbouring cycles.  The ranges of an *)
(* anchor are compared one by one if they are not too many to be shown.     *)
SummaryAgrees ==
    \A k \in Written :
        LET summary == GetSummary(table, fixes, samples, IdOf(k)).body
            info == summary.session
            rows == All(k)
            held == {Index(f.seq) : f \in fixes[k]}
            ranges(a) == Ranges(fixes[k], samples[k], a, None, None, TotalPoints)[a]
            dts == Picked([i \in DOMAIN rows |-> rows[i].dt],
                          {i \in DOMAIN rows : rows[i].dt # None})
            listed == ListSessions(table, fixes, Len(table))
        IN  /\ info.cycles = Len(rows)
            /\ info.missing = Cardinality((Min(held)..Max(held)) \ held)
            /\ info.okCycles = Cardinality({i \in DOMAIN rows : rows[i].ok})
            /\ summary.kfOk = Cardinality({i \in DOMAIN rows : rows[i].kx # None})
            /\ summary.period = <<Total(dts), Len(dts)>>
            /\ \A a \in DOMAIN summary.anchors :
                 LET shown == ranges(a)
                     counts == summary.anchors[a]
                 IN  /\ counts.samples = shown.total
                     /\ shown.stride = 1 =>
                          counts.ok = Cardinality({i \in DOMAIN shown.data :
                                                    shown.data[i].d # None})
            /\ listed[Len(table) + 1 - IdOf(k)] = [key |-> k, info |-> info]

=============================================================================
