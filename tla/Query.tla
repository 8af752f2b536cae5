-------------------------------- MODULE Query --------------------------------
(***************************************************************************)
(* The answers of the query API (store/query.py, columns.py and the GET    *)
(* routes of routes_sessions.py) as operators of the stored rows: seq and  *)
(* t unwrapped, the rows of a time range thinned out to max_points, and    *)
(* what is counted.  The queries read under the lock of the store, so each *)
(* is a function of one state of the tables.                               *)
(*                                                                         *)
(* fixes: the rows of position_fix of one session, a set of [seq, t, ok,   *)
(* x, used, resid, kok, kupd, kinit, kx, krej]; samples: those of          *)
(* range_sample, a set of [seq, t, anchor, status, d, el, kf].  Means are  *)
(* given as <<sum, count>>.                                                *)
(***************************************************************************)
EXTENDS Packet, FiniteSets, SequencesExt

CONSTANT
    TotalPoints   \* RANGES_TOTAL_POINTS_LIMIT

MaxPointsMin == 2

(* ORDER BY a number: the numbers of a finite set in their order.           *)
Ascending(numbers) ==
    CHOOSE order \in [1..Cardinality(numbers) -> numbers] :
        \A i, j \in DOMAIN order : i < j => order[i] < order[j]

(* WHERE: the rows at some of the places, in the order they have.           *)
Picked(rows, places) ==
    LET at == Ascending(places) IN [i \in DOMAIN at |-> rows[at[i]]]

Total(values) == FoldLeft(LAMBDA sum, value : sum + value, 0, values)

-----------------------------------------------------------------------------
(* Thinning out *)

(* stride_for: the quotient rounded up.                                     *)
StrideFor(total, maxPoints) ==
    IF total <= maxPoints THEN 1
    ELSE -((-(total - 1)) \div (maxPoints - 1))

(* Bug: the quotient is rounded down.                                       *)
Bug_Stride(total, maxPoints) ==
    IF total <= maxPoints THEN 1 ELSE (total - 1) \div (maxPoints - 1)

(* _STRIDE, the same in the integer arithmetic of SQL.                      *)
Stride(total, maxPoints) ==
    IF total <= maxPoints THEN 1
    ELSE (total + maxPoints - 3) \div (maxPoints - 1)

(* The row numbers that stay: every stride-th and the last.                 *)
Kept(total, stride) ==
    {rn \in 0..(total - 1) : rn % stride = 0 \/ rn = total - 1}

(* per_anchor_points *)
PerAnchorPoints(maxPoints, anchors) ==
    IF anchors <= 0 THEN maxPoints
    ELSE Max({MaxPointsMin, Min({maxPoints, TotalPoints \div anchors})})

(* The rows of a sequence that stay, with total and stride: Decimated.      *)
Decimated(rows, maxPoints) ==
    LET total == Len(rows)
        stride == IF total = 0 THEN 1 ELSE Stride(total, maxPoints)
    IN  [total |-> total, stride |-> stride,
         data |-> Picked(rows, {rn + 1 : rn \in Kept(total, stride)})]

-----------------------------------------------------------------------------
(* Unwrapping *)

(* Bug: half the range is taken for a wrap one too early.                   *)
Bug_SeqWrapped(fixes) ==
    LET seqs == {r.seq : r \in fixes}
    IN  2 * (Max(seqs) - Min(seqs) + 2) > SeqWrap

(* seq_wrapped: the extremes are half the range apart or more.              *)
SeqWrapped(fixes) ==
    LET seqs == {r.seq : r \in fixes}
    IN  2 * (Max(seqs) - Min(seqs)) >= SeqWrap

(* seq_n: if seq wrapped, its lower half comes after the upper one.         *)
SeqN(seq, wrapped) == seq + IF wrapped /\ 2 * seq < SeqWrap THEN SeqWrap ELSE 0

(* Bug: the rows stay in the order of the raw seq.                          *)
Bug_Numbered(fixes, wrapped) ==
    LET rows == {[row |-> r, n |-> SeqN(r.seq, wrapped)] : r \in fixes}
    IN  CHOOSE order \in [1..Cardinality(rows) -> rows] :
            \A i, j \in DOMAIN order : i < j => order[i].row.seq < order[j].row.seq

(* The rows in the order of seq_n; seq is unique within a session.          *)
Numbered(fixes, wrapped) ==
    LET rows == {[row |-> r, n |-> SeqN(r.seq, wrapped)] : r \in fixes}
    IN  CHOOSE order \in [1..Cardinality(rows) -> rows] :
            \A i, j \in DOMAIN order : i < j => order[i].n < order[j].n

(* t_n, which grows by TimeWrap with every step back of more than half of   *)
(* it, and dt, the time since the cycle just before if that is stored.      *)
Timed(rows) ==
    LET wraps(i) == Cardinality({j \in 2..i :
                       2 * (rows[j - 1].row.t - rows[j].row.t) > TimeWrap})
        t(i) == rows[i].row.t + TimeWrap * wraps(i)
    IN  [i \in DOMAIN rows |->
           [row |-> rows[i].row, n |-> rows[i].n, t |-> t(i),
            dt |-> IF i > 1 /\ rows[i].n - rows[i - 1].n = 1
                   THEN t(i) - t(i - 1) ELSE None]]

(* _normalized and the dt of `track': the rows in the order of seq_n.       *)
Unwrapped(fixes) == Timed(Numbered(fixes, SeqWrapped(fixes)))

(* _TIME_RANGE *)
Within(rows, from, to) ==
    Picked(rows, {i \in DOMAIN rows : /\ from # None => rows[i].t >= from
                                      /\ to # None => rows[i].t <= to})

-----------------------------------------------------------------------------
(* Columns.  Live frames and answers are built by the same two `add'.       *)

(* FixColumns.add *)
FixColumn(n, t, dt, f) ==
    [seq |-> n, t |-> t, dt |-> dt, ok |-> f.ok,
     x |-> IF f.ok THEN f.x ELSE None,
     used |-> f.used, resid |-> f.resid,
     kok |-> f.kok, kupd |-> f.kok /\ f.kupd, kinit |-> f.kok /\ f.kinit,
     kx |-> IF f.kok THEN f.kx ELSE None, krej |-> f.krej]

(* RangeColumns.add *)
RangeColumn(n, t, s) ==
    [seq |-> n, t |-> t, anchor |-> s.anchor, status |-> s.status,
     d |-> IF s.status = StatusOk THEN s.d ELSE None, el |-> s.el, kf |-> s.kf]

-----------------------------------------------------------------------------
(* QueryStore *)

(* track *)
Track(fixes, from, to, maxPoints) ==
    LET thin == Decimated(Within(IF fixes = {} THEN << >> ELSE Unwrapped(fixes),
                                 from, to), maxPoints)
    IN  [thin EXCEPT !.data =
           [i \in DOMAIN @ |-> FixColumn(@[i].n, @[i].t, @[i].dt, @[i].row)]]

(* The anchors a query of `anchor', None for all, is about.                 *)
Asked(samples, anchor) ==
    {s.anchor : s \in {q \in samples : anchor \in {None, q.anchor}}}

(* Bug: every anchor's samples are unwrapped on their own.                  *)
Bug_Joined(fixes, samples, a) ==
    LET mine == {s \in samples : s.anchor = a}
        rows == Unwrapped(mine)
    IN  [i \in DOMAIN rows |-> [n |-> rows[i].n, t |-> rows[i].t, sample |-> rows[i].row]]

(* The samples of an anchor with seq_n and t_n of the fix with their seq.   *)
Joined(fixes, samples, a) ==
    LET mine == {s \in samples : s.anchor = a}
        rows == Unwrapped(fixes)
        met == Picked(rows, {i \in DOMAIN rows : \E s \in mine : s.seq = rows[i].row.seq})
    IN  [i \in DOMAIN met |->
           [n |-> met[i].n, t |-> met[i].t,
            sample |-> CHOOSE s \in mine : s.seq = met[i].row.seq]]

(* ranges: an anchor without a sample in the time range is left out.        *)
Ranges(fixes, samples, anchor, from, to, maxPoints) ==
    LET asked == Asked(samples, anchor)
        points == PerAnchorPoints(maxPoints, Cardinality(asked))
        rows == [a \in asked |-> Within(Joined(fixes, samples, a), from, to)]
        thin(a) == Decimated(rows[a], points)
    IN  [a \in {b \in asked : rows[b] # << >>} |->
           [thin(a) EXCEPT !.data =
              [i \in DOMAIN @ |-> RangeColumn(@[i].n, @[i].t, @[i].sample)]]]

(* SessionInfo.expected_cycles *)
Expected(first, last, cycles) == IF first = None THEN 0 ELSE last - first + 1

(* SessionInfo: the aggregates of _FIX_AGGREGATE with expected_cycles,      *)
(* missing_cycles and the two rates.                                        *)
SessionInfo(fixes) ==
    LET rows == IF fixes = {} THEN << >> ELSE Unwrapped(fixes)
        cycles == Len(rows)
        oks == Cardinality({r \in fixes : r.ok})
        ts == {rows[i].t : i \in DOMAIN rows}
        first == IF cycles = 0 THEN None ELSE rows[1].n
        last == IF cycles = 0 THEN None ELSE rows[cycles].n
        expected == Expected(first, last, cycles)
        missing == Max({0, expected - cycles})
    IN  [cycles |-> cycles, okCycles |-> oks, first |-> first, last |-> last,
         firstT |-> IF cycles = 0 THEN None ELSE Min(ts),
         lastT |-> IF cycles = 0 THEN None ELSE Max(ts),
         expected |-> expected, missing |-> missing,
         fixRate |-> <<oks, cycles>>, lossRate |-> <<missing, expected>>]

(* AnchorStats, summed over the groups by status.                           *)
AnchorStats(samples, a) ==
    LET mine == {s \in samples : s.anchor = a}
        good == {s \in mine : s.status = StatusOk}
        timed == {s \in mine : s.el # None}
    IN  [samples |-> Cardinality(mine), ok |-> Cardinality(good),
         statuses |-> [st \in {s.status : s \in mine} |->
                         Cardinality({s \in mine : s.status = st})],
         elapsed |-> <<MapThenSumSet(LAMBDA s : s.el, timed), Cardinality(timed)>>,
         elapsedMax |-> IF timed = {} THEN None ELSE Max({s.el : s \in timed}),
         distance |-> <<MapThenSumSet(LAMBDA s : s.d, good), Cardinality(good)>>]

(* The time since the row before, if there is one: t_n - lag(t_n).          *)
Steps(rows) ==
    [i \in DOMAIN rows |-> IF i = 1 THEN None ELSE rows[i].t - rows[i - 1].t]

(* Bug: a period is taken across a gap too.                                 *)
Bug_Periods(rows) == Picked(Steps(rows), 2..Len(rows))

(* The periods of `summary': between neighbours in seq.                     *)
Periods(rows) ==
    Picked(Steps(rows), {i \in 2..Len(rows) : rows[i].n - rows[i - 1].n = 1})

(* summary *)
Summary(fixes, samples) ==
    LET rows == IF fixes = {} THEN << >> ELSE Unwrapped(fixes)
        periods == Periods(rows)
        solved == {r \in fixes : r.ok}
        used == {r.used : r \in fixes}
        filtered == {r \in fixes : r.kok}
    IN  [session |-> SessionInfo(fixes),
         residual |-> <<MapThenSumSet(LAMBDA r : r.resid * r.resid, solved), Cardinality(solved)>>,
         period |-> <<Total(periods), Len(periods)>>,
         periodMax |-> IF periods = << >> THEN None ELSE Max(ToSet(periods)),
         usedMin |-> IF used = {} THEN None ELSE Min(used),
         usedMax |-> IF used = {} THEN None ELSE Max(used),
         kfOk |-> Cardinality(filtered),
         kfPredicted |-> Cardinality({r \in filtered : ~r.kupd}),
         kfInit |-> Cardinality({r \in filtered : r.kinit}),
         kfRejected |-> MapThenSumSet(LAMBDA r : r.krej, fixes),
         anchors |-> [a \in Asked(samples, None) |-> AnchorStats(samples, a)]]

-----------------------------------------------------------------------------
(* What is answered of a session and of its summary (api/schemas.py); the   *)
(* coordinates go along as ConfigStore!SnapshotForSession gives them.       *)

(* to_session_out: only of the times, the first and the last are answered.  *)
SessionOut(info) ==
    [f \in DOMAIN info \ {"first", "last", "expected"} |-> info[f]]

(* AnchorSummaryOut: of the sums their means.                               *)
AnchorSummaryOut(stats) ==
    [samples |-> stats.samples, ok |-> stats.ok, success |-> <<stats.ok, stats.samples>>,
     elapsed |-> stats.elapsed, elapsedMax |-> stats.elapsedMax,
     distance |-> stats.distance, statuses |-> stats.statuses]

(* to_summary_out *)
SummaryOut(summary) ==
    [summary EXCEPT !.session = SessionOut(@),
                    !.anchors = [a \in DOMAIN @ |-> AnchorSummaryOut(@[a])]]

-----------------------------------------------------------------------------
(* The GET routes: an answer is its status and body.  `table' is the        *)
(* sessions in the order of their ids, fixes and samples are per session.   *)

Found(table, id) == id \in DOMAIN table

Refusal(table, id, from, to) ==
    IF from # None /\ to # None /\ from > to THEN 400
    ELSE IF ~Found(table, id) THEN 404 ELSE 200

GetTrack(table, fixes, id, from, to, maxPoints) ==
    LET status == Refusal(table, id, from, to)
    IN  [status |-> status,
         body |-> IF status # 200 THEN None
                  ELSE Track(fixes[table[id]], from, to, maxPoints)]

GetRanges(table, fixes, samples, id, anchor, from, to, maxPoints) ==
    LET status == Refusal(table, id, from, to)
    IN  [status |-> status,
         body |-> IF status # 200 THEN None
                  ELSE Ranges(fixes[table[id]], samples[table[id]], anchor,
                              from, to, maxPoints)]

GetSummary(table, fixes, samples, id) ==
    IF Found(table, id)
    THEN [status |-> 200,
          body |-> SummaryOut(Summary(fixes[table[id]], samples[table[id]]))]
    ELSE [status |-> 404, body |-> None]

(* list_sessions: the newest first.                                         *)
ListSessions(table, fixes, limit) ==
    LET newest == Reverse(SubSeq(table, Max({1, Len(table) - limit + 1}), Len(table)))
    IN  [i \in DOMAIN newest |->
           [key |-> newest[i], info |-> SessionOut(SessionInfo(fixes[newest[i]]))]]

=============================================================================
