# Verification of the UWB location server

TLA+ models of `location_server` (a FastAPI/asyncio server that hands out anchor
configurations, collects the telemetry of UWB tags over UDP into SQLite, and shows
it live and in replay on a web page), the TLC runs that check them, and the
theorems TLAPS proves about them. Paths below are relative to the repository; the
package is `src/location_server`, the design document `doc/server-design.md`.

## 1. The system

| Part | State | Operations | Talks to |
| --- | --- | --- | --- |
| UDP receiver (`ingest/udp.py`, `ingest/packet.py`) | per session the expected `seq`, loss counters | `datagram_received`, `observe` (gap, late, eviction at 1024) | `IngestService.dispatch` calls the writer, then the hub |
| Telemetry writer (`ingest/writer.py`, `ingest/service.py`) | queue of packets with its row count, an Event, a stop flag, statistics | `submit`, `run`, `flush`, `request_stop`, `IngestService.stop` | the store (in a thread), `note_sessions` of the hub |
| Telemetry store (`store/telemetry.py`) | tables `session`, `position_fix`, `range_sample` | `hello`, `write_packets`, each one transaction under the lock | called by `POST /hello` and the writer |
| Live hub (`live/hub.py`) | per tag the current session with ring buffer and pending cycles, ended boots, memory of hellos, subscribers | `publish`, `note_hello`, `note_sessions`, `tick`, `subscribe`, `unsubscribe` | pushes frames to `Subscriber` queues |
| Live connection (`Subscriber`, `api/routes_live.py`) | frame queue, loss counter, generation, two tasks | `push`, `reset`, `next`, `_receive_ops`, `_send_frames`, `live` | reads anchors from the configuration store in a thread |
| Page (`static/js`) | what it shows of the subscription; reconnect and resync timers; replay tokens | `onFrame`, `noteLost`, `requestResync`, `startLive`, `openReplay` | WebSocket and query API |
| Configuration store (`store/anchors.py`) | current anchors, one row per revision, anchors per revision | `put_anchor`, `replace_anchors`, `put_telemetry`, `snapshot_at` | `GET /config` with ETag, live frames, summaries |
| Query store (`store/query.py`) | none of its own | unwrapping of `seq` and `t`, decimation, aggregation | replay |
| Migrations (`db.py`) | `user_version` | one transaction per version | start-up |

One event loop runs everything except SQLite, which is reached from threads
(`asyncio.to_thread`, FastAPI's thread pool) over one connection and one lock. So
what is hard is: what happens at an `await` (the subscription changes while anchors
are read; packets arrive while a batch is written; stop arrives at any of them); in
which order hello, UDP, commit, timeout and end of a session come; late and repeated
UDP packets around the 32-bit wraps of `seq` and `t`; queues and buffers at their
limits; failing writes; a killed server; a page that is slow or reconnects.
`PROJECT.json` lists these hazards at their lines, with the properties for each.

What makes each part correct:

- connection: bounded memory; control frames never lost; a lost append always
  reported; never a frame of an old subscription; an overflowed connection ends;
- hub and page: the page agrees with the hub; snapshot and appends join without hole
  or overlap; replaced and ended boots stay ended, timed out ones may return; books of the ring buffer balance;
- writer: every row accounted for; order of arrival kept; nothing left at stop;
  no waiting beyond the timer, nor for it when the queue is full;
- store: one session per boot, a span that covers its cycles, the first of two equal
  cycles kept, `config_rev` never lost, the hub never ahead of the database;
- configuration: revisions immutable and consecutive, the cached one never stale
  behind a 304; query: same `seq` and `t` as the live view, last row always kept.

## 2. Modules

| Module | Models | Checked by |
| --- | --- | --- |
| `LiveQueue` | one connection: `Subscriber` and the tasks of `routes_live.py` | `live_queue` |
| `LivePage` | operators: what a frame does to the page | through `LiveHub` |
| `LiveHub` | the hub, with pages that receive every frame | `hub_*`, and through `Ingest` |
| `TelemetryWriter` | queue, task, write thread, shutdown | `writer` |
| `SessionStore` | rows, hellos, batches, the hub's knowledge | `store*` |
| `ConfigStore` | edits, revisions, delivery to tags, anchors of a session | `config*` |
| `AnchorCli` | `ConfigStore` with an operator who applies files | `config` |
| `Packet` | operators: decoding and encoding of a datagram | through `Ingest` |
| `Query` | operators: the answers of the query API | through `Ingest` |
| `Ingest` | UDP, receiver and tracker, with `LiveHub`, rows and `Query` | `ingest` |
| `PageView` | what the page promises its user | refined by `Client` |
| `Client` | the page's control: connection, selection, timers, answers | `client` |
| `Startup` | processes that start on one database file | `startup` |
| `MC...` | values and symmetry for the runs | |
| `...Proofs` | theorems about the module of that name | TLAPS |

`AnchorCli` extends `ConfigStore`, `Ingest` extends `Query` (which extends `Packet`)
and instantiates `LiveHub`, `LiveHub` extends `LivePage`, `Client` instantiates
`PageView` under a refinement mapping.

Definitions named `Bug_...` are plausible errors in the definition that follows
them; each property of a passing run is violated when one of them replaces the
definition it resembles.

### LiveQueue

A handler is atomic up to its next await. The sender awaits in four places, the
values of `pc`: the Event (`waiting`), the anchor lookup (`reading`), `send_text`
(`sending`), `close` (`closing`). The receiver is `Subscribe`, `Unsubscribe`,
`Reject` and `Disconnect`; the hub is `Broadcast`; `live()` is `Teardown` and
`Connect`. A frame is its kind and the subscription it was queued for. `reported` is
a ghost: the last loss count put on a frame. `session_info` is shed, kept and
decorated exactly as `session_start` is, so the run leaves it out of
`BroadcastKinds`; the theorems include it. `Shed` removes at most one append where
`push` loops: `QueueShape` shows that there is never a second one to remove.

Queue and hub are separate models: `LiveHub` assumes a queue that loses nothing,
`LiveQueue` shows what the page is told when it does lose something.

### LiveHub and LivePage

Handlers of the hub do not await, so each is one action: `Publish` includes trimming,
the total limit and the end on the packet's last flag; `Tick` flushes every session
and ends the silent ones. A session's boot stands for its `session_id`, which is
unique per (tag, boot). Instead of the monotonic clock a session has an age since its
last packet (`Elapse`). Unwrapped values are kept as the code computes them, from raw
values modulo `SeqWrap` and `TimeWrap`, small stand-ins for 2^32. `Trim` and
`Limited` state the loops by what they remove; `Victim` breaks ties by a fixed order
of the tags, as the code does by the order of its dictionary. `pages` are updated by
the operators of `LivePage` in the same step that broadcasts.

### TelemetryWriter

`task` is the place of `run()`: not yet scheduled, in `wait_for`, in the write of its
loop, in the last write, returned. `Commit` and `Fail` are the thread's, `Resume` is
the rest of `flush()` on the loop, so packets and the stop request come between them.
`Wake` and `TimeOut` are the two ways `wait_for` ends. A batch is all or nothing;
rows the database ignores as duplicates count as written.

### SessionStore

A hello takes its time on arrival, writes in a thread, reports to the hub when
resumed; packets take theirs when received and are written with a batch. The
lock and the transaction make each write one step, and nothing orders the threads or
the resumptions. A tag sends one `config_rev` per boot, or none. `Crash` kills the
server: queue, calls and the hub's memory go, the tables stay. What the hub knows is
an abstraction of `LiveHub`'s `hello` and `sid`, without its memory limits.

### ConfigStore

All threads share one SQLite connection, so a reader would see the rows of another
thread's open transaction: `work` is the connection's view, `dbs` what is committed,
`lock` the lock of the store. The values of `pc` are the statements of an edit, from
the wait for the lock to `commit`; `Fail` is an exception in one of them and the
rollback of `Transaction.__exit__`, `Restart` a stop or kill of the process and its
start on a database file, since README.md asks for one file per experiment. A
revision's number is its place in `meta`; host, port and batch size are one value, an
anchor is a place and its `enabled` flag. `answers` and the `used` of a session are
ghosts: what an administrator was told, and what the tag really had in its cache. The
tag (firmware of another repository) is known from `routes_config.py` and
server-design.md section 7: it asks once at its start and uses its cache on 304 or
when it gets no answer.

### AnchorCli

`apply` of `anchor_cli.py` beside the edits of `ConfigStore`: the file is checked
(`Check`), the table is read and compared, and the file is posted whole, or nothing is
sent if nothing differs. `Post` makes the server's thread wait with the file as its
request; `Done`, `Refused`, `PostFails` and `RestartServer` are the ways the request
ends, among them an answer that is lost after the commit. The rules for a file are there
twice, as the tool writes them and as `AnchorBulkIn` does: the tool shares no code with
the server. A coordinate of a file has one digit more than one of the table, so that
rounding and range can disagree. `claims` is a ghost: what the tool said.

### Packet, Query and Ingest

`Packet` has the checks of `decode_packet` in their order, each with its reason, and
both directions of the format; a flags byte is the set of its bits. `Query` has the
queries of `store/query.py` as functions of the rows of one session: SQL's window
functions become sequences in the order of `seq_n`, `Ascending` is its ORDER BY and
`Picked` its WHERE. `FixColumn` and `RangeColumn` are the `add` that live frames and
answers share.

In `Ingest` all datagrams of the tags are under way from the start (`net`), since any
may arrive after any delay; one that is never taken is lost, one taken without being
removed comes again, `Damage` lists what a damaged one may look like. `Accept` is
`datagram_received` with everything it calls: decoding, `SeqTracker.observe`, the
writer's queue and the hub's `publish`, the action of `LiveHub` itself. `Write` is a
batch. The hub's limits are constants, too large to be reached in the run (they are
`hub_buffers`' question) and any at all in the proofs. Rows,
tracker and answers are compared with what the tags really measured (`CycleOf`), which
no part of the server sees. `heard` and `since` are ghosts of the tracker's properties.

What the wraps make possible is bounded by the code's own rule: a session longer than
half the range of `seq` cannot be put in order (`IngestAssumption`), and a pause of half
the range of `t` or more cannot be told from a wrap (`Dense`). `PacketAssumption` says that
null is no id, and that `seq` has an even range, whose half is a number; `HubConstants`
is the assumption of `LiveHub`, for its instance.

### Client and PageView

The page is one event loop; its state is `state` of `main.js` and a `LiveSource`. What
is awaited is a set: answers of the query API come in any order or fail, `zooms` are
timers that run, a list that was asked for may come after the user selected something
else. The connection carries subscriptions up and frames down, in order; the server is
the subscriber of `LiveQueue` seen from outside. After `ws.close()` no message of that
socket arrives, and what was on its way is gone. Data is whose it is (`shown.of`), of
which boot, and with or without a hole that dropped appends left.

`PageView` says what the user is promised: what is shown is what is selected, or nothing,
or, only while the first answer to a selected tag is due, frames of tags watched
before on the same connection. These are real: an append names no tag, and a page
without a boot takes any (`Fed`). `ShowsSelected` is the refinement, safety and liveness,
with the mapping above it.

### Startup

Several processes of several releases start on one SQLite file. `file` is what is
committed, `durable` what a power failure leaves of it under `synchronous = NORMAL`,
`work` what the transaction of the lock's holder sees. `ReadVersion` reads
`user_version` outside of any transaction, as the code does; `Apply` is one statement.
A statement that was applied before is an error: the scripts create and alter without
`IF NOT EXISTS`. Kills, power failures, failing statements and a lock that is not given
back within SQLite's busy timeout are faults; without the last a process that is
suspended while it holds the lock would make every other one give up.

## 3. Runs

| Run | Bounds | States | Shows |
| --- | --- | --- | --- |
| `live_queue` | soft limit 3 (hard 6), loss up to 2, 2 subscriptions per connection, any number of connections | 116 615 | `LossReported`, `NoLostWakeup`, `SendsCurrentSubscription`, `ControlsKept`, `OverflowCloses`, `LossReachesPage` |
| `hub_sessions` | 1 tag, 3 boots, 2 revisions, memories of 2, 1 page | 12 148 | `PageAgrees`, `HelloReachesSession`, `EndedForGood` |
| `hub_buffers` | wraps at 4 and 6, buffer of 3 cycles or 4 ranges, unwrapped `seq` to 6 | 7 140 | `BufferSound`, `PageContinues`, `PendingSent` |
| `hub_total` | 3 tags, 4 ranges in total, 3 per session, a boot that may end and come back | 10 783 | `EndedGiveWayFirst` |
| `writer` | 4 packets of 1, 2 or 5 rows, flush at 3, limit 4 | 41 230 | `Accounted`, `WrittenInOrder`, `StopDrains`, `FullQueueFlushed`, `EveryPacketLeaves` |
| `store` | 2 boots, 2 `seq`, 2 hellos, 2 packets, 3 times, 1 crash | 2 039 498 | `FirstReceivedKept`, `LiveAgrees`, `RecordsStay` |
| `config` | 2 threads, 2 anchors, 3 places and the flag, 2 telemetry settings, 1 tag, 3 edits, 8 files, 1 database | 751 696 | `RevisionsWhole`, `AnswersHold`, `SessionTables`, `EtagSound`, `ToldIsTrue` |
| `ingest` | 3 tags with 4, 1 and 1 cycles in packets of 1 or 2, wraps at 8 and 4, tracker of 2, 1 datagram repeated or damaged, 3 questions | 72 544 | `LossEstimate`, `StoredAsSent`, `ReplayIsTrue`, `ReplayShowsLive`, `ThinnedFairly`, `RangesOnTrack`, `SummaryAgrees`, `ForgetsOldest` |
| `client` | 2 tags, 2 sessions (one thinned out), 2 windows, 3 choices of the user, 2 faults, 2 frames under way | 272 344 | `HolesHidden`, `DetailOfWindow`, `HolesHeal`, `ShowsSelected` |
| `startup` | 3 servers of 2 releases, scripts of 2, 2 and 1 statements, 4 starts, 1 fault | 329 956 | `SchemaWhole`, `OneComesUp` |

Two more runs show disagreements, below.

Why the bounds are enough. Three is the smallest queue whose loss reporting can be
right (one snapshot and one error carry no counter), and six frames reach the hard
limit. Three boots with a memory of two let a boot be forgotten while a packet of it
is under way. `MaxSeq` past `SeqWrap` takes the session over the wrap, `SeqWrap = 4`
has a step of exactly half, and two-cycle packets overrun a buffer of three with
cycles that are still pending. A packet of five rows exceeds the writer's limit
alone, two of two rows jump over the flush threshold. Two hellos and two packets are
the smallest set in which each kind races with itself and with the other. Three
edits are an anchor's creation, its removal by a bulk and its creation again, or two
that race and one after them; there is a file for each rule of `AnchorBulkIn` and one on
each side of a rounding boundary. Four cycles wrap `seq` and `t` (one origin is just
before both wraps), leave every pattern of gaps, and need thinning out at two and
three points; three sessions overrun a tracker of two, and one is heard again after it
was forgotten. Three choices of a user are a selection, another one and the return to
the first, each with its answers due; two faults are a drop and a broken connection.
Three servers are two that race and one, of an older release, that comes in between.

Some stops are real, and only there deadlock is not checked: a writer that was
stopped, a store, a network, a user or an operator with nothing left to send or to do
within the bounds.

### Fairness

- `LiveQueue`: the sender and `Teardown`. The event loop runs every ready task, and
  the anchor lookup, `send_text` and `close` return or raise: a peer that stops
  reading is dropped by the WebSocket server's ping timeout. Nothing is assumed of
  the hub or the page.
- `LiveHub`: `Tick`, which `run()` calls for ever and whose exceptions it catches.
- `TelemetryWriter`: the task when it can run, the thread, and a `stop()` that was
  begun. `FullQueueFlushed` holds without any assumption on the timer;
  `EveryPacketLeaves` assumes it.
- `Client`: a socket that is connecting opens or closes, what is under way on an open
  one arrives, timers fire, and a `fetch` is answered or fails. Nothing is assumed of the
  user or of the tags.
- `Startup`: each process that can go on does. Nothing is assumed of the operator, the
  faults or the checkpoints.

### Disagreements found

- `store_started`: `started_at` is not the earlier of hello and UDP
  (server-design.md:427) when the hello comes first but is written second, since the
  UPDATE of `hello` does not lower it.
- `config_etag`: the ETag is the revision's number (models.py:88), and every database
  file counts from 1. With one file per experiment (README.md:75) a tag that fetched
  revision 2 of one file is answered 304 at revision 2 of another, although
  server-design.md:407 gives 304 only to an unchanged configuration.

Three smaller ones have no run. An id committed between a session's last append and its end
never reaches the page: the hub sends no `session_info` for a running session because
"append and `session_start` carry it" (server-design.md:647), and the page ignores the
id in `session_end` (main.js:451). A boot ended by `tag_end` and then replaced is put
into the deque twice (hub.py:515), so fewer than `ENDED_BOOTS_PER_TAG` (hub.py:67) boots
are remembered. And `lostTotal`, "since the page was opened" (main.js:39), is reset with
every tag that is selected (main.js:511).

Not claimed by any document: the writer's limit counts the queue only, so up to twice
`MAX_PENDING_ROWS` are in memory while a full batch is stuck. And `apply` posts without
a precondition, so an edit made between its two requests is replaced though the
difference never showed it; `ToldIsTrue` says what may be relied on nevertheless.

## 4. Proofs

`LiveQueueProofs` proves, for every soft limit of at least three and every bound,

- `Invariance`: `Spec => []Inv`, and from it `TypeCorrect`, `QueueBounded`,
  `LossIsReported`, `SenderAwake`;
- `SendsAreCurrent`: the action property `SendsCurrentSubscription`;
- `ControlsAreKept`: the action property `ControlsKept`.

The only assumption is `QueueAssumption`. `Inv` adds `FramesOwned` to the four
invariants of the run: every queued frame belongs to the subscription in force, and
`seen` is that of the frame whose anchors are read. Without it neither
`SendsCurrentSubscription` nor, for a frame dropped because the subscription
changed, `LossReported` is inductive. Why the counter cannot be orphaned: an append is
shed only if more than `MaxFrames >= 3` frames are queued; `QueueShape` leaves room
for at most one snapshot and one error among them, so after the removal one frame
that carries the counter remains (`ThreeFramesCarry`). The queue lemmas
(`RemoveOldestProperties`, `ShedProperties`, `PushProperties`) say what each
operation preserves; the step lemmas treat `Push`, `Subscribe`, `NextFrame` and the
other actions in turn. `ControlsKept` needs what `Controls`, a recursive function,
returns: `ControlsConcat` (the controls of two sequences joined are theirs, joined)
follows by `Induction` over a set of lengths, and with it `ControlsWithout`, taking out a
frame that is no control changes nothing, which covers shedding and superseding alike.
`ControlsStep` then goes through the actions: all but one leave the waiting controls in
front, and the one that sends takes the first.

`ConfigStoreProofs` proves, for any number of threads, tags, anchors and revisions,

- `AlwaysWhole`: `RevisionsWhole`, on any databases. A commit copies the connection's
  view, so `WholeInv` also says that the view is whole when a thread is about to commit
  and that a thread inside a transaction holds the lock;
- `EditsKept`: `AnswersHold`, on any databases. `LedgerInv` says that the connection's view
  keeps every committed revision unchanged, with exactly one more from `_append_revision`
  to the commit; `AppendKeeps` and `SnapshotKeeps` are the two statements that could
  break it. `Staged` says, for each place an edit may be at, what of its request is in
  that view already, so that at the commit the whole request is (`AnswerInv`);
- `SessionsRecover` and `NotModifiedIsTrue`: `SessionTables` and `EtagSound`, under the
  hypothesis `OneDatabase`, without which `config_etag` refutes the second.
  `HistoryInv` adds to `LedgerInv` that what tags and sessions hold is what its revision
  delivers;
- `ConfigTypes`: `TypeOK`. The number of a revision stays within the bound because each edit
  under way has room for the one it may add (`Room`), which needs `Workers` to be finite;
- `ToolUsesStore`: every behaviour of `AnchorCli` is one of `ConfigStore` (`CliSpec => Spec`),
  so that all the above holds beside the tool too;
- `ClaimsTrue`: `ToldIsTrue`. The thread that works for the tool has its file as its request
  while the tool waits (`CliPlace`), and a table that passed the tool's rules passes those of
  the server, rounded as the server rounds.

`TelemetryWriterProofs` proves, for any queue limit, batch sizes and number of packets,
`CommitsInOrder` (`WrittenInOrder`) and `NothingLeftBehind` (`StopDrains`) from
`WriterInv`, and `RowsAccounted` (`Accounted`) from `WriterInv` and `BooksInv`. The batch is taken whole before the await, so `InOrder` can say that what is
stored, the batch and the queue lie one behind another in the order of arrival, except
that a committed batch is already stored; an eviction from the queue keeps that order.
`LastWrite` says that nothing is put into the queue once the last batch has been taken.
`Accounted` is a statement about sums over sequences: `FoldExists` and `FoldChain` make the
fold of the model a chain of partial sums (by `Induction`, over a set of numbers instead of a
predicate), from which `RowsOfConcat` and `RowsOfParts` follow.

`StartupProofs` proves, for any set of servers of any releases and scripts of any
length, `SchemaAlwaysWhole` (`SchemaWhole`) and `ServersHaveTheirSchema`: a server that
came up finds the whole script of its own version. `user_version` is read outside the
transaction that applies a script, so a server may take the lock with an old version in
mind. `ReadsOld` says that it can only be too old, and `AppliesScript` that it is then
stopped by the first statement, which another server has already applied; a server that
gets past that statement has the file's own version (`CommitsNext`). `OneMigrates` is the
write lock.

`LiveHubProofs` proves, for any tags, boots, packets, pages and limits,

- `HubInvariant`: `HubInv`, of which `BuffersSound` (`BufferSound`), `HellosReachSessions`
  (`HelloReachesSession`) and `PagesAgree` (`PageAgrees`) are parts or follow;
- `BootsEndForGood` (`EndedForGood`), from `HubInv` and `AllRecalled`: the memory of ended boots
  holds the boot of a tag's session exactly if the tag ended it;
- `PagesContinue` (`PageContinues`) and `EndedSessionsPayFirst` (`EndedGiveWayFirst`), under the
  hypothesis `TimesAscend`, from `HubInv`, `AllTimed` and `AllContinue` (`TimesInvariant`).

A handler is a chain of stages: publish opens a session (and so may end another), takes in one
cycle after another, trims the buffer, enforces the total limit, flushes and ends. Between them
the books are right but the limits need not be, and the pages, who get all frames at the end,
are behind. So a stage is a function of a work state (the session, the ended boots and the
frames so far), and each has a lemma with three parts: the session stays `Sound` (`pending` is
the end of the buffer, the count of ranges is right, `seq` ascends to the last one), a page
that would agree after the frames so far still does (`Carries`), and what the hub remembers of
hellos still holds of the session (`Greets`). Taking in the cycles
of a packet (`FilledSound`), `Trim` and `Limited` are folds or recursive functions: each gets an
invariant over its steps, and what they remove is a prefix of the buffer.

`EndedForGood` is what the protocol says of late packets (server-design.md:679-681): those of a
boot that was replaced or ended itself are dropped, those of one that fell silent resume its
session. `active` alone does not tell the two ends apart. The age of the session does: a packet
sets it to 0, the clock stops for a session that ended, and a timeout needs `Timeout`
(`EndedByTag`), which is why `HubAssumption` wants `Timeout` positive (3 s in the code). The
proof follows the session of a tag through every step: only publish changes an end by the tag
or the memory (`OthersEnd`), and it opens a session for no boot the memory holds and remembers
the one it closes (`PublishEnds`). `EndedMemory` of two is needed: a packet that replaces a
session and is the last of its own boot puts both into the memory. For how long a boot of an
earlier session is remembered is not claimed.

`TimesAscend` says of the packets that a tag's clock does not go back: of two cycles of a boot,
the later one by the rule of `seq` has no smaller `t` by the rule of `t`. A tag that sends what
it measures, in runs of less than 2^31 ms (24 days), does so; `MCLiveHub` assumes it of the
runs' packets (`PacketsAscend`), which TLC evaluates. Only the two properties above need it. The
page cuts its data at the first cycle that is recent enough and the hub filters its snapshot,
which is the same only if `t` ascends (`RecentProperties`); and a packet from the past would
make the cut of `Retention` take cycles of a session to which nothing new came.

`SessionStoreProofs` proves, for any rows, calls, boots and numbers of packets,

- `NothingRewritten`: the action property `RecordsStay`;
- `FirstIsKept`: `FirstReceivedKept`. `Arrivals` puts table, batch and queue in the order
  of arrival, and `Committed` says what a committed batch left in the table;
- `HubAgrees`: `LiveAgrees`. A written hello returns what its row holds, and the row keeps
  it (`CallsTrue`); what the hub remembers is recorded (`MemoryTrue`); and, without a
  restart, a `config_rev` that the hub does not know yet is on its way to it in a written
  hello (`Reported`). That is why the answer of a hello must carry the row's `config_rev`
  and not its own.

`StoreInv` gives ids a type only: that two sessions never share one is neither needed by
these properties nor proved.

`ClientProofs` proves, for any tags, sessions, windows and bounds, `HolesAreMarked`
(`HolesHidden`), `DetailFollowsWindow` (`DetailOfWindow`) and `ShowsOnlySelected`: every
behaviour of `Client` satisfies `ViewSafety`, the initial condition and the steps of
`PageView` under the mapping of `ShowsSelected`. `PageInv` rests on three counters. A
token is given once, so an answer with the token in force is for the session that is
selected (`Answers`). Zooms are numbered, and the last is for the window that is shown
(`Zooming`). And a frame behind a gap carries a larger total of losses than the page will
have noted when the frame arrives (`Counted`), so the page cannot take it without
noticing.

`IngestProofs` proves, for any tags, sessions, ways to split them into packets, wraps,
limits and orders of arrival,

- `RoundTrip` and `DamageRejected`, of the format: a packet that can be encoded comes out of
  `Decoded` as it went in, and no damage gets past the checks. So every packet that leaves
  the receiver is one that a tag sent;
- `LossEstimated`: `LossEstimate`. `Sent` says of the datagrams under way that no two share a
  cycle, since a tag sends each cycle once; `Tracks` says of each session in the tracker
  that `next` is behind the last cycle received, and that `lost` and `late` enclose what is
  missing. A packet ahead makes its gap missing and lost at once; one that comes late fills
  as many missing cycles as it adds to `late`, or fewer if it was a repetition. A session
  has at most half the range of `seq`, so the gap tells the two apart (`GapOf`): a packet
  is at most `Length - 1` cycles ahead, which is below the half, or `Length` cycles behind,
  which is not, since `2 * Length <= SeqWrap` (`IngestAssumption` with an even `SeqWrap`);
- `OldestForgotten`: `ForgetsOldest`. `Ordered` says that the tracker lists its sessions in
  the order in which they were last heard;
- `StoredTrue`: `StoredAsSent`. `Handed` says that the queue holds packets of the tags only
  and that the rows are those of true cycles. A batch is a fold over packets, each a fold over
  cycles: `FoldStays` carries the statement through both;
- the answers of the query API: `ReplayTrue` (`ReplayIsTrue`), `ThinnedTrue`
  (`ThinnedFairly`), `RangesLieOnTrack` (`RangesOnTrack`), `SummaryTrue` (`SummaryAgrees`), and
  `StridesAgree`, that the stride of Python and that of SQL are the same. The invariant is
  `Answerable`: `Sent`, `Tracks`, `Handed` and that a session of the table has rows;
- `ReplayedAsShown`: `ReplayShowsLive`, from `Answerable` and `Shown`.

An answer is a function of the rows, so its proof is about what the query computes. `Orders`
says that a function lists a set of numbers in ascending order; such a list exists
(`OrderExists`), is the only one (`OrderIsUnique`) and so is what `Ascending` chooses. The rows
of a session are those of some of its cycles (`Handed`), and a view (`IsView`) is their list with
the number they are counted from and their times. `ViewExists` is the core: unwrapping from
the extremes numbers the rows `base + i`, where `base` is the raw `seq` of the first cycle or
one turn before it. The extremes are at least half the range apart exactly if the stored cycles
lie on both sides of a wrap, because a session has at most half the range
(`IngestAssumption`); and the times grow from row to row by what unwrapping takes for the step
(`Spaced`), which is the true one if the step is less than half the range (`StepIs`, from which
`TimesAgree` follows by `Induction`). Everything else is about places in that list: a time range is
a set of places (`WithinIs`), thinning out a subsequence with its ends (`Thinning`, with the
arithmetic of the stride), the samples of an anchor are at the places of their fixes
(`JoinedIs`), of which no two are the same (`SampleParts`), and a count of rows is a count of
places (`ShownCounts`, `CountSamples`).

For `ReplayedAsShown` the hub of `Ingest` is looked at through `LiveHubProofs` (`Books`, an
instance): the packets a tag sends satisfy its assumption (`HubOf`), each step of the hub keeps
`HubInv` (`PublishKeeps`), and `PublishTakesIn` says that the buffer after a packet is the end of
what absorbing its cycles one by one gives. `Due` are the cycles of a session that are stored or
queued. `Shown` says that for some base the cycles of the buffer and the last one are due,
each with its own number, neighbours as far apart in `t` as unwrapping has it, and with a
period only if the cycle before is due too. A cycle whose raw `seq` advances is a later one
(`StepAhead`), again because of the length of a session, so absorbing it keeps that
(`AbsorbHolds`); whatever is cut off leaves the end of the buffer (`HoldsEnd`), so the limits of
the hub do not matter; and a batch moves what is queued to the rows (`DueStays`). With
an empty queue all that is due is a row of the view (`DueStored`), and the two ways to unwrap
meet there.

The assumptions are those the modules name (`QueueAssumption`, `ConfigAssumption`,
`WriterAssumption`, `StartupAssumption`, `StoreAssumption`, `ClientAssumption`,
`PacketAssumption`, `IngestAssumption`, `HubAssumption`, `HubConstants`), which TLC evaluates in
the runs.

Model-checked only:

- liveness (`OverflowCloses`, `LossReachesPage`, `PendingSent`, `FullQueueFlushed`,
  `EveryPacketLeaves`, `HolesHeal`, `OneComesUp` and the part of `ShowsSelected` that is
  not safety): it needs the fairness of the specifications, and with it ENABLED. Every
  invariant and every safety property of the passing runs is proved.

## 5. What is left out

- The write token (`api/auth.py`): one comparison of a header with a setting.
- Charts, metrics and playback of the page: drawing and floating-point statistics; they
  read the data `Client` and `LivePage` are about and change nothing of it.
- `survey_solve.py` and `filter_compare.py`: least squares, outlier tests and statistics
  over real numbers, which TLC has not; what can be said of them without arithmetic
  (an argument is parsed, a file is written) is not worth a model.
- `dump_udp.py` prints what `decode_packet` returns and sends packets of
  `encode_packet`, both in `Packet`; `check_doc_sync.py` compares texts; the
  commands of `anchor_cli.py` other than `apply` are one request each.
- Bytes, JSON, names and units: a field is a value of a small set. Where a conversion
  decides something (rounding of coordinates, flags, NULL for what is not valid, ids
  written twice) it is modelled.
- `kf_sigma_mean` of a session's summary (query.py:380): one more average of a column.
- A COMMIT that fails: which errors SQLite rolls back by itself is not in this code.
