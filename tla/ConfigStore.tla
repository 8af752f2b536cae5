----------------------------- MODULE ConfigStore -----------------------------
(***************************************************************************)
(* The anchors and the configuration revisions of store/anchors.py, the    *)
(* handlers that edit them (threads of the server's pool) and the delivery *)
(* of a configuration to tags by api/routes_config.py.                     *)
(*                                                                         *)
(* All threads share ONE SQLite connection.  Whoever reads it sees what an *)
(* open transaction has written so far (work); a lock keeps readers out.   *)
(* What is committed is in dbs.  The server runs on the database `open` of *)
(* several: README.md tells to take another file for each experiment.      *)
(*                                                                         *)
(* A revision's number is its place in `meta`; what a revision carries     *)
(* besides anchors is one value (where a tag sends its telemetry).  A      *)
(* coordinate table maps ids to a place and the flag `enabled`.            *)
(***************************************************************************)
EXTENDS Naturals, Sequences, FiniteSets

CONSTANTS Workers,      \* threads that serve edits
          Tags,
          AnchorIds, Places,
          Telemetries,  \* values of host, port and batch_cycles
          Databases,
          MaxRev,       \* bound: revisions of a database
          NoOne         \* the lock is free, a tag has no cached configuration

ASSUME ConfigAssumption ==
    /\ MaxRev \in Nat \ {0}
    /\ IsFiniteSet(Workers)
    /\ NoOne \notin Workers
    /\ Databases # {} /\ Telemetries # {}

VARIABLES dbs,       \* [Databases -> what is committed]
          open,      \* the database the server runs on
          work,      \* what its connection sees
          lock,      \* the thread inside `with self._lock`
          pc, req,   \* [Workers -> where a thread is, what it was asked]
          made,      \* [Workers -> put_anchor's `created`]
          answers,   \* successful answers to edits, with their database
          cache,     \* [Tags -> the configuration in a tag's NVS]
          sessions   \* [Databases -> config_rev and the anchors really used]

vars == <<dbs, open, work, lock, pc, req, made, answers, cache, sessions>>
edit == <<lock, pc, req, made, answers>>

Anchor == [at: Places, enabled: BOOLEAN]
Tables == UNION {[S -> Anchor] : S \in SUBSET AnchorIds}
Empty == [i \in {} |-> i]

\* INSERT ... ON CONFLICT DO UPDATE of the rows `new`
Upsert(rows, new) ==
    [i \in DOMAIN rows \cup DOMAIN new |-> IF i \in DOMAIN new THEN new[i] ELSE rows[i]]

Requests ==
    [op: {"put"}, table: {t \in Tables : Cardinality(DOMAIN t) = 1}]
      \cup [op: {"bulk"}, table: Tables \ {Empty}]
      \cup [op: {"telemetry"}, to: Telemetries]

ASSUME NoRequest == NoOne \notin Requests

Steps == {"clear", "write", "revision", "snapshot", "commit"}

------------------------------------------------------------------------------
\* What the store reads

Rev(db) == Len(db.meta)

\* The rows of config_anchor for a revision; a revision may have none.
Rows(db, r) == IF r \in DOMAIN db.snaps THEN db.snaps[r] ELSE Empty

CurrentSnapshot(db) ==
    [rev |-> Rev(db), meta |-> db.meta[Rev(db)], anchors |-> db.anchors]

SnapshotAt(db, r) == [rev |-> r, meta |-> db.meta[r], anchors |-> Rows(db, r)]

\* Bug: a session is shown the anchors as they are now.
Bug_SnapshotForSession(db, r) == CurrentSnapshot(db)

SnapshotForSession(db, r) ==
    IF r \in 1..Rev(db) THEN SnapshotAt(db, r) ELSE CurrentSnapshot(db)

Enabled(table) ==
    [i \in {j \in DOMAIN table : table[j].enabled} |-> table[i]]

\* What a tag is sent: disabled anchors are left out.
ConfigOut(snapshot) == [snapshot EXCEPT !.anchors = Enabled(@)]

\* models.py's ETag is made of the revision alone.
Etag(config) == config.rev

------------------------------------------------------------------------------
\* migrate() seeds revision 1: no anchors, telemetry off
Fresh(to) == [anchors |-> Empty, meta |-> <<to>>, snaps |-> Empty]

Init == /\ \E to \in Telemetries : dbs = [d \in Databases |-> Fresh(to)]
        /\ open \in Databases
        /\ work = dbs[open]
        /\ lock = NoOne
        /\ pc = [w \in Workers |-> "idle"]
        /\ req = [w \in Workers |-> NoOne]
        /\ made = [w \in Workers |-> FALSE]
        /\ answers = {}
        /\ cache = [t \in Tags |-> NoOne]
        /\ sessions = [d \in Databases |-> {}]

\* A valid edit comes in; its thread will wait for the lock.
Ask(w) ==
    /\ pc[w] = "idle"
    /\ Rev(dbs[open]) + Cardinality({v \in Workers : pc[v] # "idle"}) < MaxRev
    /\ \E r \in Requests : req' = [req EXCEPT ![w] = r]
    /\ pc' = [pc EXCEPT ![w] = "waiting"]
    /\ UNCHANGED <<dbs, open, work, lock, made, answers, cache, sessions>>

\* The lock is taken and BEGIN IMMEDIATE succeeds ...
Begin(w) ==
    /\ pc[w] = "waiting" /\ lock = NoOne
    /\ lock' = w
    /\ pc' = [pc EXCEPT ![w] = CASE req[w].op = "bulk" -> "clear"
                                 [] req[w].op = "put" -> "write"
                                 [] OTHER -> "revision"]
    /\ UNCHANGED <<dbs, open, work, req, made, answers, cache, sessions>>

\* ... or fails, and the lock is given back with nothing written.
BeginFails(w) ==
    /\ pc[w] = "waiting" /\ lock = NoOne
    /\ pc' = [pc EXCEPT ![w] = "idle"]
    /\ req' = [req EXCEPT ![w] = NoOne]
    /\ UNCHANGED <<dbs, open, work, lock, made, answers, cache, sessions>>

Goto(w, from, to) ==
    /\ pc[w] = from
    /\ pc' = [pc EXCEPT ![w] = to]
    /\ UNCHANGED <<dbs, open, lock, req, answers, cache, sessions>>

\* replace_anchors deletes every row first.
Clear(w) == /\ Goto(w, "clear", "write")
            /\ work' = [work EXCEPT !.anchors = Empty]
            /\ UNCHANGED made

\* Bug: INSERT OR IGNORE: rows that exist keep their values.
Bug_Write(w) ==
    /\ Goto(w, "write", "revision")
    /\ made' = [made EXCEPT ![w] = /\ req[w].op = "put"
                                   /\ DOMAIN req[w].table \cap DOMAIN work.anchors = {}]
    /\ work' = [work EXCEPT !.anchors = Upsert(req[w].table, @)]

\* The rows of the request are inserted, or updated where the id exists.
Write(w) ==
    /\ Goto(w, "write", "revision")
    /\ made' = [made EXCEPT ![w] = /\ req[w].op = "put"
                                   /\ DOMAIN req[w].table \cap DOMAIN work.anchors = {}]
    /\ work' = [work EXCEPT !.anchors = Upsert(@, req[w].table)]

\* Bug: other settings for telemetry are written into the current revision.
Bug_AppendRevision(w) ==
    /\ Goto(w, "revision", "snapshot")
    /\ work' = IF req[w].op = "telemetry"
                  THEN [work EXCEPT !.meta[Rev(work)] = req[w].to]
                  ELSE [work EXCEPT !.meta = Append(@, work.meta[Rev(work)])]
    /\ UNCHANGED made

\* _append_revision: the next number; what is not given is inherited.
AppendRevision(w) ==
    LET to == IF req[w].op = "telemetry" THEN req[w].to ELSE work.meta[Rev(work)]
    IN  /\ Goto(w, "revision", "snapshot")
        /\ work' = [work EXCEPT !.meta = Append(@, to)]
        /\ UNCHANGED made

\* Bug: no snapshot when only the telemetry settings change.
Bug_WriteSnapshot(w) ==
    /\ Goto(w, "snapshot", "commit")
    /\ work' = IF req[w].op = "telemetry" THEN work
                  ELSE [work EXCEPT !.snaps = Upsert(@, [r \in {Rev(work)} |-> work.anchors])]
    /\ UNCHANGED made

\* _write_snapshot of the table as _list_anchors reads it.
WriteSnapshot(w) ==
    /\ Goto(w, "snapshot", "commit")
    /\ work' = [work EXCEPT !.snaps = Upsert(@, [r \in {Rev(work)} |-> work.anchors])]
    /\ UNCHANGED made

Release(w) == /\ lock' = NoOne
              /\ pc' = [pc EXCEPT ![w] = "idle"]
              /\ req' = [req EXCEPT ![w] = NoOne]
              /\ made' = [made EXCEPT ![w] = FALSE]

Commit(w) ==
    /\ pc[w] = "commit"
    /\ dbs' = [dbs EXCEPT ![open] = work]
    /\ answers' = answers \cup {[db |-> open, asked |-> req[w], created |-> made[w],
                                 snapshot |-> CurrentSnapshot(work)]}
    /\ Release(w)
    /\ UNCHANGED <<open, work, cache, sessions>>

\* A statement raises: __exit__ rolls the transaction back.
Fail(w) ==
    /\ pc[w] \in Steps \ {"commit"}
    /\ work' = dbs[open]
    /\ Release(w)
    /\ UNCHANGED <<dbs, open, answers, cache, sessions>>

\* The process is killed, or stopped, at any point and started on a database.
Restart(d) ==
    /\ open' = d
    /\ work' = dbs[d]
    /\ lock' = NoOne
    /\ pc' = [w \in Workers |-> "idle"]
    /\ req' = [w \in Workers |-> NoOne]
    /\ made' = [w \in Workers |-> FALSE]
    /\ UNCHANGED <<dbs, answers, cache, sessions>>

\* If-None-Match names the configuration that will be sent: 304.
NotModified(t, config) == cache[t] # NoOne /\ Etag(cache[t]) = Etag(config)

\* GET /config at a tag's start; nothing changes on 304, or if it gets no answer.
GetConfig(t) ==
    LET config == ConfigOut(CurrentSnapshot(work))
    IN  /\ lock = NoOne
        /\ ~NotModified(t, config)
        /\ cache' = [cache EXCEPT ![t] = config]
        /\ UNCHANGED <<dbs, open, work, edit, sessions>>

\* POST /hello: the run starts with the cached table, and says its revision.
Hello(t) ==
    /\ lock = NoOne
    /\ cache[t] # NoOne
    /\ sessions' = [sessions EXCEPT ![open] =
                      @ \cup {[config_rev |-> cache[t].rev, used |-> cache[t].anchors]}]
    /\ UNCHANGED <<dbs, open, work, edit, cache>>

Next == \/ \E w \in Workers : \/ Ask(w) \/ Begin(w) \/ BeginFails(w)
                              \/ Clear(w) \/ Write(w) \/ AppendRevision(w)
                              \/ WriteSnapshot(w) \/ Commit(w) \/ Fail(w)
        \/ \E t \in Tags : GetConfig(t) \/ Hello(t)
        \/ \E d \in Databases : Restart(d)

Spec == Init /\ [][Next]_vars

------------------------------------------------------------------------------
DbType(db) == /\ db.anchors \in Tables
              /\ db.meta \in Seq(Telemetries) /\ Rev(db) \in 1..MaxRev
              /\ DOMAIN db.snaps \subseteq 1..Rev(db)
              /\ \A r \in DOMAIN db.snaps : db.snaps[r] \in Tables

\* Types, and whose turn it is: a thread is inside a transaction exactly while
\* it holds the lock, and the connection differs from the file only then.
TypeOK ==
    /\ \A d \in Databases : DbType(dbs[d])
    /\ open \in Databases
    /\ DbType(work)
    /\ lock \in Workers \cup {NoOne}
    /\ pc \in [Workers -> Steps \cup {"idle", "waiting"}]
    /\ made \in [Workers -> BOOLEAN]
    /\ \A w \in Workers : /\ (pc[w] = "idle") = (req[w] = NoOne)
                          /\ pc[w] # "idle" => req[w] \in Requests
                          /\ (pc[w] \in Steps) = (lock = w)
    /\ lock = NoOne => work = dbs[open]

\* What is committed is whole, whatever failed or was killed before it: the last
\* revision's snapshot is the anchor table itself (store/anchors.py, header).
RevisionsWhole ==
    \A d \in Databases : Rows(dbs[d], Rev(dbs[d])) = dbs[d].anchors

\* An edit that was answered stays, and did what it was asked: its revision
\* holds, now and later, the table and settings of the answer; a put changed its
\* anchor alone and says `created` only if the revision before lacked it (the
\* docstring of put_anchor), a bulk left nothing but its own, however edits of
\* several threads overlap, fail or are killed.
AnswersHold ==
    \A a \in answers :
        LET db == dbs[a.db]
            rev == a.snapshot.rev
            before == SnapshotAt(db, rev - 1)
            asked == a.asked
        IN  /\ rev \in 2..Rev(db)
            /\ a.snapshot = SnapshotAt(db, rev)
            /\ a.snapshot.meta =
                 IF asked.op = "telemetry" THEN asked.to ELSE before.meta
            /\ a.snapshot.anchors =
                 CASE asked.op = "put" -> Upsert(before.anchors, asked.table)
                   [] asked.op = "bulk" -> asked.table
                   [] asked.op = "telemetry" -> before.anchors
            /\ asked.op = "put" =>
                 a.created = (DOMAIN asked.table \cap DOMAIN before.anchors = {})

\* The coordinates a session's run used are found again by its revision, though
\* anchors are moved, disabled or deleted later (store/anchors.py, header).
SessionTables ==
    \A d \in Databases : \A s \in sessions[d] :
        Enabled(SnapshotForSession(dbs[d], s.config_rev).anchors) = s.used

\* A tag that would be answered 304 has the current configuration: "if the
\* configuration has not changed, the tag uses its cache" (routes_config.py).
EtagSound ==
    \A t \in Tags :
        LET now == ConfigOut(CurrentSnapshot(dbs[open])) IN
        NotModified(t, now) => cache[t] = now
==============================================================================
