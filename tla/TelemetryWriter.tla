--------------------------- MODULE TelemetryWriter ---------------------------
(***************************************************************************)
(* The way of a received packet into the database: the queue and the task  *)
(* of TelemetryWriter (ingest/writer.py), the write that runs in a thread, *)
(* and the shutdown of IngestService (ingest/service.py).                  *)
(*                                                                         *)
(* Three actors interleave: the UDP callback (Submit), the task run(),     *)
(* which is atomic between its awaits, and the thread that writes a batch. *)
(* A packet is the number of its submission and its row count.  What the   *)
(* database makes of a batch is all (its own duplicates included) or       *)
(* nothing, for a batch is one transaction (SessionStore).                 *)
(***************************************************************************)
EXTENDS Integers, Sequences, SequencesExt

CONSTANTS
    RowCounts,       \* the row counts a packet may have
    FlushRows,       \* FLUSH_ROWS
    MaxPendingRows,  \* MAX_PENDING_ROWS
    MaxSubmitted     \* bound on the packets submitted

ASSUME WriterAssumption ==
    /\ RowCounts \subseteq Nat \ {0}
    /\ FlushRows \in Nat \ {0}
    /\ MaxPendingRows \in Nat
    /\ MaxSubmitted \in Nat

VARIABLES
    open,         \* the UDP transport delivers datagrams
    pending,      \* _pending: a sequence of [id, rows]
    pendingRows,  \* _pending_rows
    wakeup,       \* _wakeup.is_set()
    stopping,     \* _stopping
    task,         \* where run() is
    batch,        \* the packets the write of flush() was given
    outcome,      \* of that write: "none", "committed" or "failed"
    stats,        \* written (duplicate ones too), failed and dropped rows
    submitted,    \* how many packets were submitted
    received,     \* and their rows
    stored        \* the database: ids of packets in the order of their commits

vars == <<open, pending, pendingRows, wakeup, stopping, task, batch, outcome,
          stats, submitted, received, stored>>

RowsOf(packets) == FoldLeft(LAMBDA sum, p : sum + p.rows, 0, packets)

Ids(packets) == [i \in DOMAIN packets |-> packets[i].id]

-----------------------------------------------------------------------------
(* submit *)

(* How many of the oldest packets the while loop of submit drops: as few as *)
(* bring the rows under the limit, and never the newest.                    *)
Excess(all, rows) ==
    LET enough(k) == \/ k = Len(all) - 1
                     \/ rows - RowsOf(SubSeq(all, 1, k)) <= MaxPendingRows
    IN  CHOOSE k \in 0..(Len(all) - 1) : enough(k) /\ \A j \in 0..(k - 1) : ~enough(j)

(* Bug: run() is woken only by exactly FLUSH_ROWS rows.                     *)
Bug_Submit(n) ==
    LET all == Append(pending, [id |-> submitted + 1, rows |-> n])
        k == Excess(all, pendingRows + n)
        gone == RowsOf(SubSeq(all, 1, k))
    IN  /\ open /\ submitted < MaxSubmitted
        /\ submitted' = submitted + 1
        /\ received' = received + n
        /\ pending' = SubSeq(all, k + 1, Len(all))
        /\ pendingRows' = pendingRows + n - gone
        /\ stats' = [stats EXCEPT !.dropped = @ + gone]
        /\ wakeup' = (wakeup \/ pendingRows' = FlushRows)
        /\ UNCHANGED <<open, stopping, task, batch, outcome, stored>>

Submit(n) ==
    LET all == Append(pending, [id |-> submitted + 1, rows |-> n])
        k == Excess(all, pendingRows + n)
        gone == RowsOf(SubSeq(all, 1, k))
    IN  /\ open /\ submitted < MaxSubmitted
        /\ submitted' = submitted + 1
        /\ received' = received + n
        /\ pending' = SubSeq(all, k + 1, Len(all))
        /\ pendingRows' = pendingRows + n - gone
        /\ stats' = [stats EXCEPT !.dropped = @ + gone]
        /\ wakeup' = (wakeup \/ pendingRows' >= FlushRows)
        /\ UNCHANGED <<open, stopping, task, batch, outcome, stored>>

-----------------------------------------------------------------------------
(* run and flush.  `task' is "created" before run() was first scheduled,    *)
(* "waiting" in wait_for, "flushing" or "draining" while the write of its   *)
(* loop or the last one is under way, and "stopped" when it returned.       *)

(* The batch is taken before the write is awaited.                          *)
TakeBatch ==
    /\ batch' = pending
    /\ pending' = << >>
    /\ pendingRows' = 0

(* Bug: run returns without the last flush.                                 *)
Bug_LoopHead ==
    /\ task' = IF stopping THEN "stopped" ELSE "waiting"
    /\ batch' = << >>
    /\ UNCHANGED <<pending, pendingRows>>

(* The head of the loop, reached with no write under way.                   *)
LoopHead ==
    \/ /\ ~stopping
       /\ task' = "waiting" /\ batch' = << >>
       /\ UNCHANGED <<pending, pendingRows>>
    \/ /\ stopping /\ pending # << >>
       /\ task' = "draining" /\ TakeBatch
    \/ /\ stopping /\ pending = << >>
       /\ task' = "stopped" /\ batch' = << >>
       /\ UNCHANGED <<pending, pendingRows>>

Run ==
    /\ task = "created"
    /\ LoopHead
    /\ UNCHANGED <<open, wakeup, stopping, outcome, stats, submitted, received, stored>>

(* Bug: a timer that fires writes only a queue of FLUSH_ROWS.               *)
Bug_AfterWait ==
    /\ wakeup' = FALSE
    /\ IF pendingRows >= FlushRows THEN task' = "flushing" /\ TakeBatch ELSE LoopHead
    /\ UNCHANGED <<open, stopping, outcome, stats, submitted, received, stored>>

(* What follows the wait: the Event is cleared, then flush() begins.        *)
AfterWait ==
    /\ wakeup' = FALSE
    /\ IF pending # << >> THEN task' = "flushing" /\ TakeBatch ELSE LoopHead
    /\ UNCHANGED <<open, stopping, outcome, stats, submitted, received, stored>>

Wake == task = "waiting" /\ wakeup /\ AfterWait

TimeOut == task = "waiting" /\ AfterWait

(* The thread: write_packets commits, or raises and leaves nothing behind.  *)
Writing == task \in {"flushing", "draining"} /\ outcome = "none"

Commit ==
    /\ Writing
    /\ outcome' = "committed"
    /\ stored' = stored \o Ids(batch)
    /\ UNCHANGED <<open, pending, pendingRows, wakeup, stopping, task, batch,
                   stats, submitted, received>>

Fail ==
    /\ Writing
    /\ outcome' = "failed"
    /\ UNCHANGED <<open, pending, pendingRows, wakeup, stopping, task, batch,
                   stats, submitted, received, stored>>

(* Bug: a batch that failed is not counted.                                 *)
Bug_Counted ==
    IF outcome = "committed" THEN [stats EXCEPT !.written = @ + RowsOf(batch)]
    ELSE stats

Counted ==
    IF outcome = "committed" THEN [stats EXCEPT !.written = @ + RowsOf(batch)]
    ELSE [stats EXCEPT !.failed = @ + RowsOf(batch)]

(* Bug: a batch that failed goes back into the queue behind the newer ones. *)
Bug_Resume ==
    /\ outcome # "none"
    /\ outcome' = "none"
    /\ stats' = IF outcome = "committed" THEN Counted ELSE stats
    /\ IF outcome = "failed"
       THEN /\ task' = "waiting" /\ batch' = << >>
            /\ pending' = pending \o batch
            /\ pendingRows' = pendingRows + RowsOf(batch)
       ELSE IF task = "flushing" THEN LoopHead
            ELSE /\ task' = "stopped" /\ batch' = << >>
                 /\ UNCHANGED <<pending, pendingRows>>
    /\ UNCHANGED <<open, wakeup, stopping, submitted, received, stored>>

(* The rest of flush(), back on the loop, up to the next wait.              *)
Resume ==
    /\ outcome # "none"
    /\ outcome' = "none"
    /\ stats' = Counted
    /\ IF task = "flushing" THEN LoopHead
       ELSE /\ task' = "stopped" /\ batch' = << >>
            /\ UNCHANGED <<pending, pendingRows>>
    /\ UNCHANGED <<open, wakeup, stopping, submitted, received, stored>>

-----------------------------------------------------------------------------
(* IngestService.stop: the transport is closed, the task of the statistics  *)
(* is awaited, then run() is asked to stop.                                 *)

CloseTransport ==
    /\ open
    /\ open' = FALSE
    /\ UNCHANGED <<pending, pendingRows, wakeup, stopping, task, batch, outcome,
                   stats, submitted, received, stored>>

RequestStop ==
    /\ ~open /\ ~stopping
    /\ stopping' = TRUE
    /\ wakeup' = TRUE
    /\ UNCHANGED <<open, pending, pendingRows, task, batch, outcome,
                   stats, submitted, received, stored>>

-----------------------------------------------------------------------------
Init ==
    /\ open = TRUE
    /\ pending = << >> /\ pendingRows = 0
    /\ wakeup = FALSE /\ stopping = FALSE
    /\ task = "created"
    /\ batch = << >> /\ outcome = "none"
    /\ stats = [written |-> 0, failed |-> 0, dropped |-> 0]
    /\ submitted = 0 /\ received = 0
    /\ stored = << >>

Next ==
    \/ \E n \in RowCounts : Submit(n)
    \/ Run \/ Wake \/ TimeOut \/ Resume
    \/ Commit \/ Fail
    \/ CloseTransport \/ RequestStop

Spec == Init /\ [][Next]_vars

(* The event loop runs what is ready, the thread ends, and a stop() that    *)
(* was begun goes on.  Nothing is assumed of the timer of wait_for.         *)
FairSpec ==
    /\ Spec
    /\ WF_vars(Run) /\ WF_vars(Wake) /\ WF_vars(Resume)
    /\ WF_vars(Commit \/ Fail)
    /\ WF_vars(RequestStop)

-----------------------------------------------------------------------------
(* Properties *)

Packet == [id : 1..MaxSubmitted, rows : RowCounts]

(* The counters of rows are sums over the queue: Accounted.                 *)
TypeOK ==
    /\ open \in BOOLEAN /\ wakeup \in BOOLEAN /\ stopping \in BOOLEAN
    /\ pending \in Seq(Packet) /\ batch \in Seq(Packet)
    /\ task \in {"created", "waiting", "flushing", "draining", "stopped"}
    /\ outcome \in {"none", "committed", "failed"}
    /\ submitted \in 0..MaxSubmitted
    /\ stored \in Seq(1..MaxSubmitted)

(* The statistics explain every row: what was received was written, failed, *)
(* was dropped, waits, or is in the batch that is being written.            *)
Accounted ==
    /\ pendingRows = RowsOf(pending)
    /\ received = stats.written + stats.failed + stats.dropped + pendingRows
                  + RowsOf(batch)

(* Packets reach the database in the order of their arrival and none twice, *)
(* whatever fails or is dropped between them: "the first one wins" between  *)
(* duplicates then means the first received.                                *)
WrittenInOrder ==
    /\ \A i, j \in DOMAIN stored : i < j => stored[i] < stored[j]
    /\ outcome # "committed" =>
         \A i \in DOMAIN stored, p \in ToSet(batch \o pending) : stored[i] < p.id

(* When run() has returned, after which the connection is closed, nothing   *)
(* is left to write and no write is under way.                              *)
StopDrains ==
    task = "stopped" => pending = << >> /\ batch = << >> /\ outcome = "none"

(* FLUSH_ROWS rows are written without the help of the timer, even when     *)
(* they come in while a write is under way.                                 *)
FullQueueFlushed == pendingRows >= FlushRows ~> pendingRows < FlushRows

(* With the timer, no packet waits for others to come.                      *)
EveryPacketLeaves ==
    WF_vars(TimeOut) =>
        \A id \in 1..MaxSubmitted :
            id \in ToSet(Ids(pending)) ~> id \notin ToSet(Ids(pending))

=============================================================================
