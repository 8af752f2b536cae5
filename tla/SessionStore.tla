---------------------------- MODULE SessionStore ----------------------------
(***************************************************************************)
(* The rows of TelemetryStore (store/telemetry.py) under the two callers   *)
(* that race for them: POST /api/v1/hello (api/routes_sessions.py) and the *)
(* batches of TelemetryWriter, and what each tells the live hub once its   *)
(* transaction is over.                                                    *)
(*                                                                         *)
(* A hello takes the time when it arrives, writes in a thread, and reports *)
(* to the hub when the event loop resumes it; a packet takes the time when *)
(* it is received, waits in the queue, and is written with its batch.  The *)
(* lock makes each transaction one step, and nothing orders the threads or *)
(* the resumptions of different hellos.                                    *)
(*                                                                         *)
(* A key is a (tag_id, boot_id), and a tag sends one config_rev per boot,  *)
(* or none.  fw_version, coalesced as config_rev is, is left out, and so   *)
(* are the ranges, which stay or go with their cycle.  The queue may lose  *)
(* its oldest packets (TelemetryWriter).                                   *)
(***************************************************************************)
EXTENDS Integers, Sequences, FiniteSets, SequencesExt, FiniteSetsExt

CONSTANTS
    None,         \* null, and no row
    Keys,         \* [tag_id, boot_id]
    Seqs,         \* seq of a cycle
    Rev,          \* config_rev of every boot
    Calls,        \* hello requests that may be under way together
    MaxTime,      \* bound on the wall clock
    MaxReceived,  \* bound on the packets received
    MaxHellos,    \* bound on the hellos made
    MaxCrashes    \* bound on the times the server is killed

(* Rows of session and position_fix, and packets.                           *)
Rows == [id : Nat, rev : {Rev, None}, started : 0..MaxTime, seen : 0..MaxTime]
Cycles == [id : Nat, at : 0..MaxTime]
Packets == [id : Nat, key : Keys, seq : Seqs, at : 0..MaxTime]

ASSUME StoreAssumption ==
    /\ None \notin Keys \cup Seqs \cup {Rev} \cup Rows \cup Cycles
    /\ {MaxTime, MaxReceived, MaxHellos, MaxCrashes} \subseteq Nat

VARIABLES
    clock,    \* utc_now_text()
    session,  \* table session: per key None or its row
    lastId,   \* sqlite_sequence of session.id
    fix,      \* table position_fix: per key and seq None or its row
    calls,    \* the hellos under way
    queue,    \* packets received and not yet in a batch
    batch,    \* the batch of the writer
    result,   \* of its transaction: "none", "committed" or "failed"
    live,     \* what LiveHub knows: per key session id and config_rev
    count     \* packets received, hellos made and crashes so far

vars == <<clock, session, lastId, fix, calls, queue, batch, result, live, count>>

Idle == [key |-> None, rev |-> None, now |-> 0, stage |-> "idle",
         id |-> None, got |-> None]

Unknown == [id |-> None, rev |-> None]

Earlier(a, b) == IF a <= b THEN a ELSE b
Later(a, b) == IF a >= b THEN a ELSE b
Coalesce(a, b) == IF a # None THEN a ELSE b

-----------------------------------------------------------------------------
(* hello *)

HelloArrives(c, key, rev) ==
    /\ calls[c].stage = "idle" /\ count.hellos < MaxHellos
    /\ calls' = [calls EXCEPT ![c] = [Idle EXCEPT !.key = key, !.rev = rev,
                                                  !.now = clock, !.stage = "writing"]]
    /\ count' = [count EXCEPT !.hellos = @ + 1]
    /\ UNCHANGED <<clock, session, lastId, fix, queue, batch, result, live>>

(* Bug: an omitted config_rev overwrites the one in the row.                *)
Bug_HelloRow(key, rev, now) ==
    IF session[key] = None
    THEN [id |-> lastId + 1, rev |-> rev, started |-> now, seen |-> now]
    ELSE [session[key] EXCEPT !.rev = rev, !.seen = Later(@, now)]

(* The row after TelemetryStore.hello: UPDATE, or else INSERT.              *)
HelloRow(key, rev, now) ==
    IF session[key] = None
    THEN [id |-> lastId + 1, rev |-> rev, started |-> now, seen |-> now]
    ELSE [session[key] EXCEPT !.rev = Coalesce(rev, @), !.seen = Later(@, now)]

(* AUTOINCREMENT: only an INSERT takes a number.                            *)
NumbersUsed(key) == IF session[key] = None THEN lastId + 1 ELSE lastId

Hello(c) ==
    LET call == calls[c]
        row == HelloRow(call.key, call.rev, call.now)
    IN  /\ call.stage = "writing"
        /\ session' = [session EXCEPT ![call.key] = row]
        /\ lastId' = NumbersUsed(call.key)
        /\ calls' = [calls EXCEPT ![c].stage = "written", ![c].id = row.id,
                                  ![c].got = row.rev]
        /\ UNCHANGED <<clock, fix, queue, batch, result, live, count>>

(* Bug: a hello without config_rev erases the one known.                    *)
Bug_Heard(known, id, rev) == [id |-> id, rev |-> rev]

(* note_hello *)
Heard(known, id, rev) == [id |-> id, rev |-> Coalesce(rev, known.rev)]

(* post_hello goes on and answers.                                          *)
HelloReturns(c) ==
    LET call == calls[c]
    IN  /\ call.stage = "written"
        /\ live' = [live EXCEPT ![call.key] = Heard(@, call.id, call.got)]
        /\ calls' = [calls EXCEPT ![c] = Idle]
        /\ UNCHANGED <<clock, session, lastId, fix, queue, batch, result, count>>

-----------------------------------------------------------------------------
(* Packets *)

Receive(key, seq) ==
    /\ count.received < MaxReceived
    /\ count' = [count EXCEPT !.received = @ + 1]
    /\ queue' = Append(queue, [id |-> count.received + 1, key |-> key,
                               seq |-> seq, at |-> clock])
    /\ UNCHANGED <<clock, session, lastId, fix, calls, batch, result, live>>

(* The writer takes the queue, of which the oldest packets may be gone.     *)
TakeBatch ==
    /\ batch = << >>
    /\ \E k \in DOMAIN queue : batch' = SubSeq(queue, k, Len(queue))
    /\ queue' = << >>
    /\ UNCHANGED <<clock, session, lastId, fix, calls, result, live, count>>

(* When the packets of a key in the batch were received.                    *)
Times(key) == {p.at : p \in {q \in ToSet(batch) : q.key = key}}

FreshKeys == {key \in Keys : Times(key) # {} /\ session[key] = None}

(* _touch_session; id is the number a new row gets.                         *)
Touched(key, id) ==
    IF session[key] = None
    THEN [id |-> id, rev |-> None, started |-> Min(Times(key)), seen |-> Max(Times(key))]
    ELSE [session[key] EXCEPT !.started = Earlier(@, Min(Times(key))),
                              !.seen = Later(@, Max(Times(key)))]

(* The packets of the batch with a cycle, by their places.                  *)
Sent(cell) == {i \in DOMAIN batch : <<batch[i].key, batch[i].seq>> = cell}

(* Bug: a cycle that comes again replaces the row.                          *)
Bug_InsertCycle(cell) ==
    IF Sent(cell) = {} THEN fix[cell]
    ELSE LET p == batch[Max(Sent(cell))] IN [id |-> p.id, at |-> p.at]

(* _insert_cycle for each packet: INSERT OR IGNORE.                         *)
InsertCycle(cell) ==
    IF fix[cell] # None \/ Sent(cell) = {} THEN fix[cell]
    ELSE LET p == batch[Min(Sent(cell))] IN [id |-> p.id, at |-> p.at]

(* The number a new row of a key gets: keys come in the order of `seen', in *)
(* which the batch first names them.                                        *)
NewId(key) ==
    LET first(k) == Min({i \in DOMAIN batch : batch[i].key = k})
    IN  lastId + Cardinality({k \in FreshKeys : first(k) <= first(key)})

(* write_packets commits...                                                 *)
WritePackets ==
    /\ batch # << >> /\ result = "none"
    /\ session' = [key \in Keys |->
                     IF Times(key) = {} THEN session[key]
                     ELSE Touched(key, IF session[key] = None THEN NewId(key) ELSE None)]
    /\ lastId' = lastId + Cardinality(FreshKeys)
    /\ fix' = [cell \in Keys \X Seqs |-> InsertCycle(cell)]
    /\ result' = "committed"
    /\ UNCHANGED <<clock, calls, queue, batch, live, count>>

(* ... or is rolled back.                                                   *)
WriteFails ==
    /\ batch # << >> /\ result = "none"
    /\ result' = "failed"
    /\ UNCHANGED <<clock, session, lastId, fix, calls, queue, batch, live, count>>

(* The end of flush(): note_sessions for the sessions of the batch.         *)
FlushReturns ==
    /\ result # "none"
    /\ live' = [key \in Keys |->
                  IF result = "committed" /\ Times(key) # {} /\ live[key].id = None
                  THEN [live[key] EXCEPT !.id = session[key].id]
                  ELSE live[key]]
    /\ batch' = << >>
    /\ result' = "none"
    /\ UNCHANGED <<clock, session, lastId, fix, calls, queue, count>>

-----------------------------------------------------------------------------
Elapse ==
    /\ clock < MaxTime
    /\ clock' = clock + 1
    /\ UNCHANGED <<session, lastId, fix, calls, queue, batch, result, live, count>>

(* The process is killed and started again: the tables stay.                *)
Crash ==
    /\ count.crashes < MaxCrashes
    /\ count' = [count EXCEPT !.crashes = @ + 1]
    /\ calls' = [c \in Calls |-> Idle]
    /\ queue' = << >>
    /\ batch' = << >>
    /\ result' = "none"
    /\ live' = [key \in Keys |-> Unknown]
    /\ UNCHANGED <<clock, session, lastId, fix>>

Init ==
    /\ clock = 0
    /\ session = [key \in Keys |-> None]
    /\ lastId = 0
    /\ fix = [cell \in Keys \X Seqs |-> None]
    /\ calls = [c \in Calls |-> Idle]
    /\ queue = << >> /\ batch = << >> /\ result = "none"
    /\ live = [key \in Keys |-> Unknown]
    /\ count = [received |-> 0, hellos |-> 0, crashes |-> 0]

Next ==
    \/ \E c \in Calls :
          \/ \E key \in Keys, rev \in {Rev, None} : HelloArrives(c, key, rev)
          \/ Hello(c) \/ HelloReturns(c)
    \/ \E key \in Keys, seq \in Seqs : Receive(key, seq)
    \/ TakeBatch \/ WritePackets \/ WriteFails \/ FlushReturns
    \/ Elapse \/ Crash

Spec == Init /\ [][Next]_vars

-----------------------------------------------------------------------------
(* Properties *)

(* What the variables hold.                                                 *)
Hellos == [key : Keys \cup {None}, rev : {Rev, None}, now : 0..MaxTime,
           stage : {"idle", "writing", "written"}, id : Nat \cup {None}, got : {Rev, None}]
Memory == [id : Nat \cup {None}, rev : {Rev, None}]

TypeOK ==
    /\ clock \in 0..MaxTime /\ lastId \in Nat
    /\ session \in [Keys -> Rows \cup {None}]
    /\ fix \in [Keys \X Seqs -> Cycles \cup {None}]
    /\ calls \in [Calls -> Hellos] /\ live \in [Keys -> Memory]
    /\ queue \in Seq(Packets) /\ batch \in Seq(Packets)
    /\ result \in {"none", "committed", "failed"}
    /\ count \in [received : Nat, hellos : Nat, crashes : Nat]

(* Of the cycles with one (session_id, seq) the first received is kept: no  *)
(* packet of a committed batch finds a later one in its place.              *)
FirstReceivedKept ==
    result = "committed" =>
        \A p \in ToSet(batch) :
            fix[<<p.key, p.seq>>] # None /\ fix[<<p.key, p.seq>>].id <= p.id

(* What is recorded stays, restarts of the server included: a session keeps *)
(* its id, its span only widens, a config_rev is never taken back, and a    *)
(* cycle is never rewritten.                                                *)
RecordsStay ==
    [][/\ \A key \in Keys : session[key] # None =>
            /\ session'[key] # None
            /\ session'[key].id = session[key].id
            /\ session'[key].started <= session[key].started
            /\ session'[key].seen >= session[key].seen
            /\ session[key].rev # None => session'[key].rev = session[key].rev
       /\ \A cell \in Keys \X Seqs : fix[cell] # None => fix'[cell] = fix[cell]]_vars

(* The hub never knows what the tables do not hold, and once no hello of a  *)
(* key is under way it knows the config_rev of its row, unless the server   *)
(* was started again since.                                                 *)
LiveAgrees ==
    \A key \in Keys :
        /\ live[key].id # None => session[key] # None /\ live[key].id = session[key].id
        /\ live[key].rev # None => session[key].rev = live[key].rev
        /\ count.crashes = 0 /\ session[key] # None
           /\ (\A c \in Calls : calls[c].key # key)
              => live[key].rev = session[key].rev

(* The documentation's claim that started_at is the time of the hello or of *)
(* the first packet, whichever was earlier, for a hello that was recorded.  *)
StartedEarliest ==
    \A c \in Calls : calls[c].stage = "written" =>
        session[calls[c].key].started <= calls[c].now

=============================================================================
