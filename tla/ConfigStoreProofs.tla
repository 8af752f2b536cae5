-------------------------- MODULE ConfigStoreProofs --------------------------
(***************************************************************************)
(* Proofs about ConfigStore, and about AnchorCli, the operator's tool on   *)
(* top of it: for any number of threads, tags, anchors, databases,         *)
(* revisions and files.                                                    *)
(*                                                                         *)
(* RevisionsWhole speaks of what is committed, but a commit copies the     *)
(* connection's view; so the invariant also says that this view is whole   *)
(* when a thread is about to commit, and that no other thread writes then. *)
(* For AnswersHold it says more of the view: at each statement, what the   *)
(* thread's request makes of the database that the transaction found.      *)
(***************************************************************************)
EXTENDS AnchorCli, FiniteSetTheorems, TLAPS

Whole(db) == Rows(db, Rev(db)) = db.anchors

Fields(db) == DOMAIN db = {"anchors", "meta", "snaps"}

OneWriter == \A w \in Workers : pc[w] \in Steps => lock = w

CommitsWhole == \A w \in Workers : pc[w] = "commit" => Whole(work)

WholeInv == /\ DOMAIN dbs = Databases /\ open \in Databases
            /\ DOMAIN pc = Workers
            /\ Fields(work)
            /\ \A d \in Databases : Fields(dbs[d])
            /\ OneWriter
            /\ CommitsWhole
            /\ RevisionsWhole

\* The rows written for the last revision are the ones read back.
LEMMA SnapshotMakesWhole ==
    ASSUME NEW db, Fields(db)
    PROVE  LET new == [db EXCEPT !.snaps = Upsert(@, [r \in {Rev(db)} |-> db.anchors])]
           IN  Fields(new) /\ Whole(new)
<1> DEFINE new == [db EXCEPT !.snaps = Upsert(@, [r \in {Rev(db)} |-> db.anchors])]
           rows == Upsert(db.snaps, [r \in {Rev(db)} |-> db.anchors])
<1>1. Fields(new) /\ new.snaps = rows /\ new.meta = db.meta
      /\ new.anchors = db.anchors
  BY DEF Fields
<1>2. Rev(db) \in DOMAIN rows /\ rows[Rev(db)] = db.anchors
  BY DEF Upsert
<1>3. Rev(new) = Rev(db)
  BY <1>1 DEF Rev
<1>4. Rows(new, Rev(new)) = db.anchors
  BY <1>1, <1>2, <1>3 DEF Rows
<1> QED BY <1>1, <1>4 DEF Whole

LEMMA WholeInit == Init => WholeInv
<1> SUFFICES ASSUME Init PROVE WholeInv
  OBVIOUS
<1>1. PICK to \in Telemetries : dbs = [d \in Databases |-> Fresh(to)]
  BY DEF Init
<1>2. \A d \in Databases : Fields(dbs[d]) /\ Whole(dbs[d])
  <2>1. Fields(Fresh(to)) /\ Whole(Fresh(to))
    <3>1. Fresh(to).snaps = Empty /\ Fresh(to).anchors = Empty
      BY DEF Fresh
    <3>2. DOMAIN Empty = {}
      BY DEF Empty
    <3>3. Rows(Fresh(to), Rev(Fresh(to))) = Empty
      BY <3>1, <3>2 DEF Rows
    <3> QED BY <3>1, <3>3 DEF Fields, Whole, Fresh
  <2> QED BY <1>1, <2>1
<1>3. OneWriter /\ CommitsWhole
  BY DEF Init, OneWriter, CommitsWhole, Steps
<1> QED BY <1>1, <1>2, <1>3 DEF Init, WholeInv, RevisionsWhole, Whole

LEMMA WholeStep == WholeInv /\ [Next]_vars => WholeInv'
<1> SUFFICES ASSUME WholeInv, [Next]_vars PROVE WholeInv'
  OBVIOUS
<1> USE ConfigAssumption
\* A step of a thread that leaves the files alone and does not reach a commit.
<1>a. ASSUME NEW w \in Workers, pc[w] \in Steps,
             NEW to \in Steps \ {"commit"}, pc' = [pc EXCEPT ![w] = to],
             UNCHANGED <<dbs, open, lock>>, Fields(work')
      PROVE  WholeInv'
  BY <1>a DEF WholeInv, OneWriter, CommitsWhole, RevisionsWhole, Steps
\* A step that leaves files and connection alone and takes nobody to a step.
<1>b. ASSUME UNCHANGED <<dbs, open, lock, work>>, DOMAIN pc' = Workers,
             \A w \in Workers : pc'[w] \in Steps => pc'[w] = pc[w]
      PROVE  WholeInv'
  BY <1>b DEF WholeInv, OneWriter, CommitsWhole, RevisionsWhole, Steps
<1>1. ASSUME NEW w \in Workers, Ask(w) PROVE WholeInv'
  BY <1>1, <1>b DEF Ask, WholeInv, Steps
<1>2. ASSUME NEW w \in Workers, Begin(w) PROVE WholeInv'
  <2>1. \A v \in Workers : pc[v] \notin Steps
    BY <1>2 DEF Begin, WholeInv, OneWriter
  <2>2. pc' = [pc EXCEPT ![w] = pc'[w]] /\ pc'[w] # "commit"
    BY <1>2 DEF Begin, WholeInv
  <2> QED BY <1>2, <2>1, <2>2
          DEF Begin, WholeInv, OneWriter, CommitsWhole, RevisionsWhole, Steps
<1>3. ASSUME NEW w \in Workers, BeginFails(w) PROVE WholeInv'
  BY <1>3, <1>b DEF BeginFails, WholeInv, Steps
<1>4. ASSUME NEW w \in Workers, Clear(w) PROVE WholeInv'
  <2>1. Fields(work')
    BY <1>4 DEF Clear, WholeInv, Fields
  <2> QED BY <1>4, <2>1, <1>a DEF Clear, Goto, Steps
<1>5. ASSUME NEW w \in Workers, Write(w) PROVE WholeInv'
  <2>1. Fields(work')
    BY <1>5 DEF Write, WholeInv, Fields
  <2> QED BY <1>5, <2>1, <1>a DEF Write, Goto, Steps
<1>6. ASSUME NEW w \in Workers, AppendRevision(w) PROVE WholeInv'
  <2>1. Fields(work')
    BY <1>6 DEF AppendRevision, WholeInv, Fields
  <2> QED BY <1>6, <2>1, <1>a DEF AppendRevision, Goto, Steps
<1>7. ASSUME NEW w \in Workers, WriteSnapshot(w) PROVE WholeInv'
  <2>1. Fields(work') /\ Whole(work')
    BY <1>7, SnapshotMakesWhole DEF WriteSnapshot, WholeInv
  <2>2. pc[w] \in Steps /\ pc' = [pc EXCEPT ![w] = "commit"]
        /\ UNCHANGED <<dbs, open, lock>>
    BY <1>7 DEF WriteSnapshot, Goto, Steps
  <2> QED BY <2>1, <2>2
          DEF WholeInv, OneWriter, CommitsWhole, RevisionsWhole, Steps, Whole
<1>8. ASSUME NEW w \in Workers, Commit(w) PROVE WholeInv'
  <2>1. Whole(work) /\ Fields(work) /\ \A v \in Workers : pc[v] \in Steps => v = w
    BY <1>8 DEF Commit, WholeInv, OneWriter, CommitsWhole, Steps
  <2>2. \A d \in Databases : dbs'[d] = dbs[d] \/ dbs'[d] = work
    BY <1>8 DEF Commit, WholeInv
  <2>3. \A d \in Databases : Fields(dbs'[d]) /\ Whole(dbs'[d])
    BY <2>1, <2>2 DEF WholeInv, RevisionsWhole, Whole
  <2>4. \A v \in Workers : pc'[v] \notin Steps
    BY <1>8, <2>1 DEF Commit, Release, WholeInv, Steps
  <2> QED BY <1>8, <2>3, <2>4
          DEF Commit, Release, WholeInv, OneWriter, CommitsWhole, RevisionsWhole,
              Whole, Steps
<1>9. ASSUME NEW w \in Workers, Fail(w) PROVE WholeInv'
  <2>1. \A v \in Workers : pc[v] \in Steps => v = w
    BY <1>9 DEF Fail, WholeInv, OneWriter, Steps
  <2>2. \A v \in Workers : pc'[v] \notin Steps
    BY <1>9, <2>1 DEF Fail, Release, WholeInv, Steps
  <2> QED BY <1>9, <2>2
          DEF Fail, Release, WholeInv, OneWriter, CommitsWhole, RevisionsWhole, Steps
<1>10. ASSUME NEW t \in Tags, GetConfig(t) \/ Hello(t) PROVE WholeInv'
  BY <1>10, <1>b DEF GetConfig, Hello, edit, WholeInv
<1>11. ASSUME NEW d \in Databases, Restart(d) PROVE WholeInv'
  BY <1>11 DEF Restart, WholeInv, OneWriter, CommitsWhole, RevisionsWhole, Steps
<1>12. CASE UNCHANGED vars
  BY <1>12, <1>b DEF vars, WholeInv
<1> QED
  BY <1>1, <1>2, <1>3, <1>4, <1>5, <1>6, <1>7, <1>8, <1>9, <1>10, <1>11, <1>12
  DEF Next

\* Whatever edits overlap, fail or are killed, on whatever databases: the last
\* committed revision's snapshot is the anchor table (store/anchors.py, header).
THEOREM AlwaysWhole == Spec => []RevisionsWhole
<1>1. WholeInv => RevisionsWhole
  BY DEF WholeInv
<1> QED BY WholeInit, WholeStep, <1>1, PTL DEF Spec
------------------------------------------------------------------------------
(***************************************************************************)
(* Revisions are history.  Kept: a later state of a database has every     *)
(* revision of an earlier one, unchanged.  The connection's view keeps     *)
(* what is committed, so a commit loses nothing, and a configuration that  *)
(* a tag holds stays the one its revision delivers - as long as the server *)
(* stays on one database.                                                  *)
(***************************************************************************)
Kept(old, new) ==
    /\ Rev(old) <= Rev(new)
    /\ \A r \in 1..Rev(old) : /\ new.meta[r] = old.meta[r]
                              /\ Rows(new, r) = Rows(old, r)

Delivers(db, config) == /\ config.rev \in 1..Rev(db)
                        /\ config = ConfigOut(SnapshotAt(db, config.rev))

Recovers(db, s) == /\ s.config_rev \in 1..Rev(db)
                   /\ s.used = Enabled(Rows(db, s.config_rev))

HasRevision(db) == db.meta \in Seq(Telemetries) /\ Rev(db) >= 1

OneDatabase == \A d, e \in Databases : d = e

WorkKeeps ==
    /\ HasRevision(work) /\ \A d \in Databases : HasRevision(dbs[d])
    /\ lock = NoOne => work = dbs[open]
    /\ \A w \in Workers :
         /\ pc[w] \in {"clear", "write", "revision"} => Rev(work) = Rev(dbs[open])
         /\ pc[w] \in {"snapshot", "commit"} => Rev(work) = Rev(dbs[open]) + 1
    /\ Kept(dbs[open], work)

HeldDelivered ==
    /\ \A t \in Tags : cache[t] # NoOne => Delivers(dbs[open], cache[t])
    /\ DOMAIN cache = Tags /\ DOMAIN sessions = Databases
    /\ \A d \in Databases : \A s \in sessions[d] : Recovers(dbs[d], s)

\* Settings for telemetry that a thread was asked to store are settings.
Asked == /\ DOMAIN req = Workers
         /\ \A w \in Workers : pc[w] # "idle" /\ req[w].op = "telemetry"
                                 => req[w].to \in Telemetries

LedgerInv == WholeInv /\ Asked /\ WorkKeeps

HistoryInv == LedgerInv /\ HeldDelivered

LEMMA DeliversStays ==
    ASSUME NEW old, NEW new, Kept(old, new), HasRevision(old), HasRevision(new)
    PROVE  /\ \A c : Delivers(old, c) => Delivers(new, c)
           /\ \A s : Recovers(old, s) => Recovers(new, s)
<1>1. \A r \in 1..Rev(old) : r \in 1..Rev(new) /\ SnapshotAt(new, r) = SnapshotAt(old, r)
  BY DEF Kept, HasRevision, Rev, SnapshotAt
<1>2. \A c : Delivers(old, c) => Delivers(new, c)
  BY <1>1 DEF Delivers
<1>3. \A s : Recovers(old, s) => Recovers(new, s)
  BY <1>1 DEF Recovers, Kept
<1> QED BY <1>2, <1>3

\* What GET /config sends is what its revision delivers.
LEMMA CurrentDelivers ==
    ASSUME NEW db, Whole(db), HasRevision(db)
    PROVE  /\ CurrentSnapshot(db) = SnapshotAt(db, Rev(db))
           /\ Delivers(db, ConfigOut(CurrentSnapshot(db)))
           /\ ConfigOut(CurrentSnapshot(db)).rev = Rev(db)
<1>1. CurrentSnapshot(db) = SnapshotAt(db, Rev(db))
  BY DEF CurrentSnapshot, SnapshotAt, Whole
<1>2. ConfigOut(CurrentSnapshot(db)).rev = Rev(db)
  BY DEF ConfigOut, CurrentSnapshot
<1>3. Rev(db) \in 1..Rev(db)
  BY DEF HasRevision, Rev
<1> QED BY <1>1, <1>2, <1>3 DEF Delivers

LEMMA AppendKeeps ==
    ASSUME NEW old, NEW db, NEW to \in Telemetries, Fields(db), HasRevision(db),
           HasRevision(old), Kept(old, db)
    PROVE  LET new == [db EXCEPT !.meta = Append(@, to)]
           IN  HasRevision(new) /\ Rev(new) = Rev(db) + 1 /\ Kept(old, new)
<1> DEFINE new == [db EXCEPT !.meta = Append(@, to)]
<1>1. new.meta = Append(db.meta, to) /\ new.snaps = db.snaps
  BY DEF Fields
<1>2. HasRevision(new) /\ Rev(new) = Rev(db) + 1
  BY <1>1 DEF HasRevision, Rev
<1>3. \A r \in 1..Rev(db) : new.meta[r] = db.meta[r]
  BY <1>1 DEF HasRevision, Rev
<1>4. \A r : Rows(new, r) = Rows(db, r)
  BY <1>1 DEF Rows
<1>5. Rev(old) \in Nat /\ Rev(db) \in Nat
  BY DEF HasRevision, Rev
<1>6. Kept(old, new)
  <2>1. Rev(old) <= Rev(new)
    BY <1>2, <1>5 DEF Kept
  <2>2. \A r \in 1..Rev(old) : r \in 1..Rev(db)
    BY <1>5 DEF Kept
  <2> QED BY <1>3, <1>4, <2>1, <2>2 DEF Kept
<1> QED BY <1>2, <1>6

LEMMA SnapshotKeeps ==
    ASSUME NEW old, NEW db, Fields(db), HasRevision(db), HasRevision(old),
           Kept(old, db), Rev(db) = Rev(old) + 1
    PROVE  LET new == [db EXCEPT !.snaps = Upsert(@, [r \in {Rev(db)} |-> db.anchors])]
           IN  HasRevision(new) /\ Rev(new) = Rev(db) /\ Kept(old, new)
<1> DEFINE rows == Upsert(db.snaps, [r \in {Rev(db)} |-> db.anchors])
           new == [db EXCEPT !.snaps = Upsert(@, [r \in {Rev(db)} |-> db.anchors])]
<1>1. new.meta = db.meta /\ new.snaps = rows
  BY DEF Fields
<1>2. Rev(new) = Rev(db) /\ HasRevision(new)
  BY <1>1 DEF Rev, HasRevision
<1>3. \A r \in 1..Rev(old) : Rows(new, r) = Rows(db, r)
  <2> TAKE r \in 1..Rev(old)
  <2>1. r # Rev(db)
    BY DEF HasRevision, Rev
  <2>2. (r \in DOMAIN rows) = (r \in DOMAIN db.snaps)
    BY <2>1 DEF Upsert
  <2>3. r \in DOMAIN db.snaps => rows[r] = db.snaps[r]
    BY <2>1 DEF Upsert
  <2> QED BY <1>1, <2>2, <2>3 DEF Rows
<1> QED BY <1>1, <1>2, <1>3 DEF Kept
LEMMA HistoryInit == Init => HistoryInv
<1> SUFFICES ASSUME Init PROVE HistoryInv
  OBVIOUS
<1>1. WholeInv
  BY WholeInit
<1>2. PICK to \in Telemetries : dbs = [d \in Databases |-> Fresh(to)]
  BY DEF Init
<1>3. HasRevision(Fresh(to))
  BY DEF Fresh, HasRevision, Rev
<1>4. \A d \in Databases : HasRevision(dbs[d])
  BY <1>2, <1>3
<1>5. open \in Databases /\ work = dbs[open]
  BY DEF Init
<1>6. Kept(dbs[open], work)
  BY <1>4, <1>5 DEF Kept, HasRevision, Rev
<1>7. WorkKeeps
  BY <1>4, <1>5, <1>6 DEF Init, WorkKeeps
<1>8. HeldDelivered /\ Asked
  BY DEF Init, HeldDelivered, Asked
<1> QED BY <1>1, <1>7, <1>8 DEF HistoryInv, LedgerInv

LEMMA AskedStep == WholeInv /\ Asked /\ [Next]_vars => Asked'
<1> SUFFICES ASSUME WholeInv, Asked, [Next]_vars PROVE Asked'
  OBVIOUS
<1>a. ASSUME UNCHANGED req, NEW w \in Workers, pc[w] # "idle", NEW to,
             pc' = [pc EXCEPT ![w] = to]
      PROVE  Asked'
  BY <1>a DEF Asked, WholeInv
<1>b. ASSUME NEW w \in Workers, pc' = [pc EXCEPT ![w] = "idle"],
             req' = [req EXCEPT ![w] = NoOne]
      PROVE  Asked'
  BY <1>b DEF Asked, WholeInv
<1>1. ASSUME NEW w \in Workers, Ask(w) PROVE Asked'
  <2>1. PICK r \in Requests : req' = [req EXCEPT ![w] = r]
    BY <1>1 DEF Ask
  <2>2. r.op = "telemetry" => r.to \in Telemetries
    BY DEF Requests
  <2>3. pc' = [pc EXCEPT ![w] = "waiting"]
    BY <1>1 DEF Ask
  <2> QED BY <2>1, <2>2, <2>3 DEF Asked, WholeInv
<1>2. ASSUME NEW w \in Workers, Begin(w) PROVE Asked'
  <2>1. UNCHANGED req /\ pc[w] # "idle"
    BY <1>2 DEF Begin
  <2>2. \A v \in Workers : v # w => pc'[v] = pc[v]
    BY <1>2 DEF Begin, WholeInv
  <2> QED BY <2>1, <2>2 DEF Asked
<1>3. ASSUME NEW w \in Workers,
             Clear(w) \/ Write(w) \/ AppendRevision(w) \/ WriteSnapshot(w)
      PROVE  Asked'
  BY <1>3, <1>a DEF Clear, Write, AppendRevision, WriteSnapshot, Goto
<1>4. ASSUME NEW w \in Workers, BeginFails(w) \/ Commit(w) \/ Fail(w) PROVE Asked'
  BY <1>4, <1>b DEF BeginFails, Commit, Fail, Release
<1>5. ASSUME NEW t \in Tags, GetConfig(t) \/ Hello(t) PROVE Asked'
  BY <1>5 DEF GetConfig, Hello, edit, Asked
<1>6. ASSUME NEW d \in Databases, Restart(d) PROVE Asked'
  BY <1>6 DEF Restart, Asked
<1>7. CASE UNCHANGED vars
  BY <1>7 DEF vars, Asked
<1> QED BY <1>1, <1>2, <1>3, <1>4, <1>5, <1>6, <1>7 DEF Next

\* Neither numbers nor lock need the server to stay on one database.
LEMMA LedgerStep == LedgerInv /\ [Next]_vars => LedgerInv'
<1> SUFFICES ASSUME LedgerInv, [Next]_vars PROVE LedgerInv'
  OBVIOUS
<1> USE ConfigAssumption
<1>0. WholeInv'
  BY WholeStep DEF LedgerInv
<1>d. Asked'
  BY AskedStep DEF LedgerInv
\* A thread's step inside its transaction: only that thread is inside one.
<1>b. ASSUME NEW w \in Workers, pc[w] \in Steps, NEW to \in Steps,
             pc' = [pc EXCEPT ![w] = to], UNCHANGED <<dbs, open, lock>>,
             HasRevision(work'), Kept(dbs[open], work'),
             to \in {"clear", "write", "revision"} => Rev(work') = Rev(dbs[open]),
             to \in {"snapshot", "commit"} => Rev(work') = Rev(dbs[open]) + 1
      PROVE  WorkKeeps'
  <2>1. lock = w /\ w # NoOne /\ \A v \in Workers : pc[v] \in Steps => v = w
    BY <1>b DEF LedgerInv, WholeInv, OneWriter
  <2>2. \A v \in Workers : pc'[v] \in Steps => v = w
    BY <1>b, <2>1 DEF LedgerInv, WholeInv
  <2>3. pc'[w] = to
    BY <1>b DEF LedgerInv, WholeInv
  <2> QED BY <1>b, <2>1, <2>2, <2>3 DEF LedgerInv, WorkKeeps, Steps
\* No thread is inside a transaction, and the connection sees what is committed.
<1>c. ASSUME \A v \in Workers : pc'[v] \notin Steps, open' \in Databases,
             work' = dbs'[open'], \A d \in Databases : HasRevision(dbs'[d])
      PROVE  WorkKeeps'
  <2>1. Kept(dbs'[open'], work')
    BY <1>c DEF Kept, HasRevision, Rev
  <2> QED BY <1>c, <2>1 DEF WorkKeeps, Steps
<1>1. ASSUME NEW w \in Workers, Ask(w) \/ BeginFails(w) PROVE LedgerInv'
  <2>1. \A v \in Workers : pc'[v] \in Steps => pc'[v] = pc[v]
    BY <1>1 DEF Ask, BeginFails, LedgerInv, WholeInv, Steps
  <2>2. UNCHANGED <<dbs, open, work, lock, cache, sessions>>
    BY <1>1 DEF Ask, BeginFails
  <2>3. WorkKeeps'
    BY <2>1, <2>2 DEF LedgerInv, WorkKeeps, Steps
  <2> QED BY <1>0, <1>d, <2>2, <2>3 DEF LedgerInv
<1>2. ASSUME NEW w \in Workers, Begin(w) PROVE LedgerInv'
  <2>1. work = dbs[open]
    BY <1>2 DEF Begin, LedgerInv, WorkKeeps
  <2>2. \A v \in Workers : pc[v] \notin Steps
    BY <1>2 DEF Begin, LedgerInv, WholeInv, OneWriter
  <2>3. \A v \in Workers : pc'[v] \notin {"snapshot", "commit"}
    BY <1>2, <2>2 DEF Begin, LedgerInv, WholeInv, Steps
  <2>4. UNCHANGED <<dbs, open, work, cache, sessions>> /\ lock' # NoOne
    BY <1>2 DEF Begin
  <2>5. WorkKeeps'
    BY <2>1, <2>3, <2>4 DEF LedgerInv, WorkKeeps
  <2> QED BY <1>0, <1>d, <2>4, <2>5 DEF LedgerInv
<1>3. ASSUME NEW w \in Workers, Clear(w) \/ Write(w) PROVE LedgerInv'
  <2>1. work'.meta = work.meta /\ work'.snaps = work.snaps
    BY <1>3 DEF Clear, Write, LedgerInv, WholeInv, Fields
  <2>2. HasRevision(work') /\ Rev(work') = Rev(work) /\ Kept(dbs[open], work')
    BY <2>1 DEF LedgerInv, WorkKeeps, HasRevision, Rev, Kept, Rows
  <2>3. Rev(work) = Rev(dbs[open])
    BY <1>3 DEF Clear, Write, Goto, LedgerInv, WorkKeeps
  <2>4. WorkKeeps'
    <3>1. CASE Clear(w)
      BY <3>1, <2>2, <2>3, <1>b DEF Clear, Goto, Steps
    <3>2. CASE Write(w)
      BY <3>2, <2>2, <2>3, <1>b DEF Write, Goto, Steps
    <3> QED BY <1>3, <3>1, <3>2
  <2> QED BY <1>0, <1>d, <2>4 DEF LedgerInv
<1>4. ASSUME NEW w \in Workers, AppendRevision(w) PROVE LedgerInv'
  <2> DEFINE to == IF req[w].op = "telemetry" THEN req[w].to ELSE work.meta[Rev(work)]
  <2>1. pc[w] = "revision" /\ pc' = [pc EXCEPT ![w] = "snapshot"]
        /\ work' = [work EXCEPT !.meta = Append(@, to)]
        /\ UNCHANGED <<dbs, open, lock, cache, sessions>>
    BY <1>4 DEF AppendRevision, Goto
  <2>2. Rev(work) = Rev(dbs[open]) /\ Fields(work) /\ HasRevision(work)
        /\ HasRevision(dbs[open]) /\ Kept(dbs[open], work)
    BY <2>1 DEF LedgerInv, WorkKeeps, WholeInv
  <2>3. to \in Telemetries
    <3>1. work.meta[Rev(work)] \in Telemetries
      BY <2>2 DEF HasRevision, Rev
    <3> QED BY <2>1, <3>1 DEF LedgerInv, Asked
  <2>4. HasRevision(work') /\ Rev(work') = Rev(work) + 1 /\ Kept(dbs[open], work')
    <3> HIDE DEF to
    <3> QED BY <2>1, <2>2, <2>3, AppendKeeps
  <2>5. WorkKeeps'
    BY <2>1, <2>2, <2>4, <1>b DEF Steps
  <2> QED BY <1>0, <1>d, <2>1, <2>5 DEF LedgerInv
<1>5. ASSUME NEW w \in Workers, WriteSnapshot(w) PROVE LedgerInv'
  <2>1. pc[w] = "snapshot" /\ pc' = [pc EXCEPT ![w] = "commit"]
        /\ work' = [work EXCEPT !.snaps = Upsert(@, [r \in {Rev(work)} |-> work.anchors])]
        /\ UNCHANGED <<dbs, open, lock, cache, sessions>>
    BY <1>5 DEF WriteSnapshot, Goto
  <2>2. Rev(work) = Rev(dbs[open]) + 1 /\ Fields(work) /\ HasRevision(work)
        /\ HasRevision(dbs[open]) /\ Kept(dbs[open], work)
    BY <2>1 DEF LedgerInv, WorkKeeps, WholeInv
  <2>3. HasRevision(work') /\ Rev(work') = Rev(work) /\ Kept(dbs[open], work')
    BY <2>1, <2>2, SnapshotKeeps
  <2>4. WorkKeeps'
    BY <2>1, <2>2, <2>3, <1>b DEF Steps
  <2> QED BY <1>0, <1>d, <2>1, <2>4 DEF LedgerInv
<1>6. ASSUME NEW w \in Workers, Commit(w) PROVE LedgerInv'
  <2>1. pc[w] = "commit" /\ dbs' = [dbs EXCEPT ![open] = work] /\ open \in Databases
        /\ pc' = [pc EXCEPT ![w] = "idle"] /\ DOMAIN dbs = Databases
        /\ UNCHANGED <<open, work, cache, sessions>>
    BY <1>6 DEF Commit, Release, LedgerInv, WholeInv
  <2>2. \A v \in Workers : pc'[v] \notin Steps
    BY <2>1 DEF LedgerInv, WholeInv, OneWriter, Steps
  <2>3. dbs'[open'] = work' /\ \A d \in Databases : HasRevision(dbs'[d])
    BY <2>1 DEF LedgerInv, WorkKeeps
  <2>4. WorkKeeps'
    BY <2>1, <2>2, <2>3, <1>c
  <2> QED BY <1>0, <1>d, <2>4 DEF LedgerInv
<1>7. ASSUME NEW w \in Workers, Fail(w) PROVE LedgerInv'
  <2>1. pc[w] \in Steps /\ pc' = [pc EXCEPT ![w] = "idle"] /\ work' = dbs[open]
        /\ UNCHANGED <<dbs, open, cache, sessions>>
    BY <1>7 DEF Fail, Release
  <2>2. \A v \in Workers : pc'[v] \notin Steps
    BY <2>1 DEF LedgerInv, WholeInv, OneWriter, Steps
  <2>3. WorkKeeps'
    BY <2>1, <2>2, <1>c DEF LedgerInv, WholeInv, WorkKeeps
  <2> QED BY <1>0, <1>d, <2>1, <2>3 DEF LedgerInv
<1>8. ASSUME NEW d \in Databases, Restart(d) PROVE LedgerInv'
  <2>1. open' = d /\ work' = dbs[d] /\ UNCHANGED <<dbs, cache, sessions>>
        /\ \A v \in Workers : pc'[v] \notin Steps
    BY <1>8 DEF Restart, Steps
  <2>2. WorkKeeps'
    BY <2>1, <1>c DEF LedgerInv, WorkKeeps
  <2> QED BY <1>0, <1>d, <2>2 DEF LedgerInv
<1>9. ASSUME NEW t \in Tags, GetConfig(t) \/ Hello(t) PROVE LedgerInv'
  <2>1. UNCHANGED <<dbs, open, work, lock, pc>>
    BY <1>9 DEF GetConfig, Hello, edit
  <2>2. WorkKeeps'
    BY <2>1 DEF LedgerInv, WorkKeeps
  <2> QED BY <1>0, <1>d, <2>2 DEF LedgerInv
<1>10. CASE UNCHANGED vars
  <2>1. WorkKeeps'
    BY <1>10 DEF vars, LedgerInv, WorkKeeps
  <2> QED BY <1>0, <1>d, <2>1 DEF LedgerInv
<1> QED
  BY <1>1, <1>2, <1>3, <1>4, <1>5, <1>6, <1>7, <1>8, <1>9, <1>10 DEF Next

LEMMA HistoryStep ==
    ASSUME OneDatabase PROVE HistoryInv /\ [Next]_vars => HistoryInv'
<1> SUFFICES ASSUME HistoryInv, [Next]_vars PROVE HeldDelivered'
  BY LedgerStep DEF HistoryInv
<1> USE ConfigAssumption
<1>0. LedgerInv /\ WholeInv /\ WorkKeeps /\ HeldDelivered
  BY DEF HistoryInv, LedgerInv
\* What tags and sessions hold stays, when the files stay.
<1>a. ASSUME UNCHANGED <<dbs, cache, sessions>>, open' = open PROVE HeldDelivered'
  BY <1>0, <1>a DEF HeldDelivered
<1>1. ASSUME NEW w \in Workers,
             \/ Ask(w) \/ Begin(w) \/ BeginFails(w) \/ Clear(w) \/ Write(w)
             \/ AppendRevision(w) \/ WriteSnapshot(w) \/ Fail(w)
      PROVE  HeldDelivered'
  BY <1>1, <1>a DEF Ask, Begin, BeginFails, Clear, Write, AppendRevision, WriteSnapshot,
                    Fail, Goto
<1>2. ASSUME NEW w \in Workers, Commit(w) PROVE HeldDelivered'
  <2>1. dbs' = [dbs EXCEPT ![open] = work] /\ open \in Databases /\ DOMAIN dbs = Databases
        /\ UNCHANGED <<open, cache, sessions>>
    BY <1>0, <1>2 DEF Commit, WholeInv
  <2>2. Kept(dbs[open], work) /\ HasRevision(dbs[open]) /\ HasRevision(work)
    BY <1>0, <2>1 DEF WorkKeeps
  <2>3. \A d \in Databases : d = open /\ dbs'[d] = work
    BY <2>1 DEF OneDatabase
  <2> QED BY <1>0, <2>1, <2>2, <2>3, DeliversStays DEF HeldDelivered
<1>3. ASSUME NEW d \in Databases, Restart(d) PROVE HeldDelivered'
  BY <1>0, <1>3, <1>a DEF Restart, OneDatabase, WholeInv
<1>4. ASSUME NEW t \in Tags, GetConfig(t) PROVE HeldDelivered'
  <2> DEFINE config == ConfigOut(CurrentSnapshot(work))
  <2>1. work = dbs[open] /\ cache' = [cache EXCEPT ![t] = config]
        /\ UNCHANGED <<dbs, open, sessions>>
    BY <1>0, <1>4 DEF GetConfig, edit, WorkKeeps
  <2>2. Delivers(dbs[open], config)
    BY <1>0, <2>1, CurrentDelivers DEF WholeInv, RevisionsWhole, Whole, WorkKeeps
  <2> HIDE DEF config
  <2> QED BY <1>0, <2>1, <2>2 DEF HeldDelivered
<1>5. ASSUME NEW t \in Tags, Hello(t) PROVE HeldDelivered'
  <2> DEFINE s == [config_rev |-> cache[t].rev, used |-> cache[t].anchors]
  <2>1. cache[t] # NoOne /\ sessions' = [sessions EXCEPT ![open] = @ \cup {s}]
        /\ UNCHANGED <<dbs, open, cache>>
    BY <1>5 DEF Hello, edit
  <2>2. Delivers(dbs[open], cache[t])
    BY <1>0, <2>1 DEF HeldDelivered
  <2>3. cache[t].anchors = Enabled(Rows(dbs[open], cache[t].rev))
    BY <2>2 DEF Delivers, ConfigOut, SnapshotAt
  <2>4. Recovers(dbs[open], s)
    BY <2>2, <2>3 DEF Delivers, Recovers
  <2> HIDE DEF s
  <2> QED BY <1>0, <2>1, <2>4 DEF HeldDelivered, WholeInv
<1>6. CASE UNCHANGED vars
  BY <1>6, <1>a DEF vars
<1> QED BY <1>1, <1>2, <1>3, <1>4, <1>5, <1>6 DEF Next

LEMMA HistoryAlways == ASSUME OneDatabase PROVE Spec => []HistoryInv
BY HistoryInit, HistoryStep, PTL DEF Spec

\* On one database, the coordinates a session's run used are found again by its
\* revision, whatever is edited later.
THEOREM SessionsRecover == ASSUME OneDatabase PROVE Spec => []SessionTables
<1>1. HistoryInv => SessionTables
  <2> SUFFICES ASSUME HistoryInv, NEW d \in Databases, NEW s \in sessions[d]
               PROVE  Enabled(SnapshotForSession(dbs[d], s.config_rev).anchors) = s.used
    BY DEF SessionTables
  <2>1. Recovers(dbs[d], s)
    BY DEF HistoryInv, HeldDelivered
  <2> QED BY <2>1 DEF Recovers, SnapshotForSession, SnapshotAt
<1> QED BY <1>1, HistoryAlways, PTL

\* On one database, a tag that is answered 304 has the current configuration.
THEOREM NotModifiedIsTrue == ASSUME OneDatabase PROVE Spec => []EtagSound
<1>1. HistoryInv => EtagSound
  <2> DEFINE db == dbs[open]
             now == ConfigOut(CurrentSnapshot(db))
  <2> SUFFICES ASSUME HistoryInv, NEW t \in Tags, cache[t] # NoOne,
                      cache[t].rev = now.rev
               PROVE  cache[t] = now
    BY DEF EtagSound, NotModified, Etag
  <2>1. cache[t] = ConfigOut(SnapshotAt(db, cache[t].rev))
    BY DEF HistoryInv, HeldDelivered, Delivers
  <2>2. Whole(db) /\ HasRevision(db)
    BY DEF HistoryInv, LedgerInv, WholeInv, RevisionsWhole, Whole, WorkKeeps
  <2>3. now.rev = Rev(db) /\ CurrentSnapshot(db) = SnapshotAt(db, Rev(db))
    BY <2>2, CurrentDelivers
  <2> QED BY <2>1, <2>3
<1> QED BY <1>1, HistoryAlways, PTL
------------------------------------------------------------------------------
(***************************************************************************)
(* What an answer says.  Staged: how far the thread inside the transaction *)
(* has come, what the connection sees is what its request makes of what    *)
(* was committed when it began.  Holds: what AnswersHold says of one       *)
(* answer and its database.                                                *)
(***************************************************************************)
\* The table and the settings that a request makes of a database.
Result(r, old) == CASE r.op = "put" -> Upsert(old.anchors, r.table)
                    [] r.op = "bulk" -> r.table
                    [] r.op = "telemetry" -> old.anchors

Settings(r, old) == IF r.op = "telemetry" THEN r.to ELSE old.meta[Rev(old)]

Creates(r, old) == DOMAIN r.table \cap DOMAIN old.anchors = {}

StagedAt(at, r, m, old, db) ==
    /\ at = "clear" => r.op = "bulk"
    /\ at = "write" => \/ r.op = "put" /\ db.anchors = old.anchors
                       \/ r.op = "bulk" /\ db.anchors = Empty
    /\ at \in {"revision", "snapshot", "commit"} =>
          /\ db.anchors = Result(r, old)
          /\ r.op = "put" => m = Creates(r, old)
    /\ at \in {"clear", "write", "revision"} => db.meta = old.meta
    /\ at \in {"snapshot", "commit"} => db.meta = Append(old.meta, Settings(r, old))

Staged ==
    /\ made \in [Workers -> BOOLEAN]
    /\ \A w \in Workers : pc[w] # "idle" => req[w] \in Requests
    /\ \A w \in Workers :
          pc[w] \in Steps => StagedAt(pc[w], req[w], made[w], dbs[open], work)

Holds(a, db) ==
    LET rev == a.snapshot.rev
        before == SnapshotAt(db, rev - 1)
        asked == a.asked
    IN  /\ rev \in 2..Rev(db)
        /\ a.snapshot = SnapshotAt(db, rev)
        /\ a.snapshot.meta =
             IF asked.op = "telemetry" THEN asked.to ELSE before.meta
        /\ a.snapshot.anchors =
             CASE asked.op = "put" -> Upsert(before.anchors, asked.table)
               [] asked.op = "bulk" -> asked.table
               [] asked.op = "telemetry" -> before.anchors
        /\ asked.op = "put" =>
             a.created = (DOMAIN asked.table \cap DOMAIN before.anchors = {})

AllHold == \A a \in answers : a.db \in Databases /\ Holds(a, dbs[a.db])

AnswerInv == LedgerInv /\ Staged /\ AllHold

\* A request is one of three, and its table is a table.
LEMMA RequestKinds ==
    ASSUME NEW r \in Requests
    PROVE  /\ \/ r.op = "put" \/ r.op = "bulk" \/ r.op = "telemetry"
           /\ r.op \in {"put", "bulk"} => r.table \in Tables
BY DEF Requests

\* Rows inserted into an empty table are that table.
LEMMA UpsertEmpty ==
    ASSUME NEW table \in Tables
    PROVE  Upsert(Empty, table) = table
<1>1. PICK S \in SUBSET AnchorIds : table \in [S -> Anchor]
  BY DEF Tables
<1>2. DOMAIN Empty = {} /\ DOMAIN table = S
  BY <1>1 DEF Empty
<1>3. Upsert(Empty, table) = [i \in S |-> table[i]]
  BY <1>2 DEF Upsert
<1>4. QED
  BY <1>1, <1>3

\* What an answer says of a database stays true of what comes after.
LEMMA HoldsStays ==
    ASSUME NEW a, NEW old, NEW new, Kept(old, new), HasRevision(old), HasRevision(new),
           Holds(a, old)
    PROVE  Holds(a, new)
<1> DEFINE rev == a.snapshot.rev
<1>1. rev \in 2..Rev(old) /\ Rev(old) \in Nat /\ Rev(new) \in Nat /\ Rev(old) <= Rev(new)
  BY DEF Holds, HasRevision, Rev, Kept
<1>2. rev \in 1..Rev(old) /\ rev - 1 \in 1..Rev(old) /\ rev \in 2..Rev(new)
  BY <1>1
<1>3. SnapshotAt(new, rev) = SnapshotAt(old, rev)
  BY <1>2 DEF Kept, SnapshotAt
<1>4. SnapshotAt(new, rev - 1) = SnapshotAt(old, rev - 1)
  BY <1>2 DEF Kept, SnapshotAt
<1>5. QED
  BY <1>2, <1>3, <1>4 DEF Holds

\* The answer to an edit that commits says what the edit did.
LEMMA CommitHolds ==
    ASSUME NEW old, NEW db, NEW r \in Requests, NEW m, NEW a,
           HasRevision(old), HasRevision(db), Whole(old), Whole(db), Kept(old, db),
           StagedAt("commit", r, m, old, db),
           a.asked = r, a.created = m, a.snapshot = CurrentSnapshot(db)
    PROVE  Holds(a, db)
<1> DEFINE n == Rev(old)
<1>1. /\ db.anchors = Result(r, old)
      /\ r.op = "put" => m = Creates(r, old)
      /\ db.meta = Append(old.meta, Settings(r, old))
  BY DEF StagedAt
<1>2. /\ n \in Nat /\ n >= 1 /\ Rev(db) = n + 1 /\ db.meta[n + 1] = Settings(r, old)
  BY <1>1 DEF HasRevision, Rev
<1>3. CurrentSnapshot(db) = SnapshotAt(db, n + 1) /\ CurrentSnapshot(db).rev = n + 1
  BY <1>2, CurrentDelivers DEF CurrentSnapshot
<1>4. n \in 1..n /\ n + 1 \in 2..Rev(db) /\ n + 1 - 1 = n
  BY <1>2
<1>5. db.meta[n] = old.meta[n] /\ Rows(db, n) = old.anchors
  BY <1>4 DEF Kept, Whole
<1> HIDE DEF n
<1>6. SnapshotAt(db, n).meta = old.meta[n] /\ SnapshotAt(db, n).anchors = old.anchors
  BY <1>5 DEF SnapshotAt
<1>7. a.snapshot.rev = n + 1 /\ a.snapshot.meta = Settings(r, old)
      /\ a.snapshot.anchors = Result(r, old) /\ a.snapshot = SnapshotAt(db, n + 1)
  <2>1. /\ CurrentSnapshot(db).rev = Rev(db) /\ CurrentSnapshot(db).meta = db.meta[Rev(db)]
        /\ CurrentSnapshot(db).anchors = db.anchors
    BY DEF CurrentSnapshot
  <2>2. QED
    BY <1>1, <1>2, <1>3, <2>1
<1>8. Settings(r, old) = IF r.op = "telemetry" THEN r.to ELSE SnapshotAt(db, n).meta
  BY <1>6 DEF Settings, n
<1>9. Result(r, old) = CASE r.op = "put" -> Upsert(SnapshotAt(db, n).anchors, r.table)
                         [] r.op = "bulk" -> r.table
                         [] r.op = "telemetry" -> SnapshotAt(db, n).anchors
  BY <1>6 DEF Result
<1>10. r.op = "put" => m = (DOMAIN r.table \cap DOMAIN SnapshotAt(db, n).anchors = {})
  BY <1>1, <1>6, Zenon DEF Creates
<1>11. /\ a.snapshot.meta = IF r.op = "telemetry" THEN r.to ELSE SnapshotAt(db, n).meta
       /\ a.snapshot.anchors = CASE r.op = "put" -> Upsert(SnapshotAt(db, n).anchors, r.table)
                                 [] r.op = "bulk" -> r.table
                                 [] r.op = "telemetry" -> SnapshotAt(db, n).anchors
  BY <1>7, <1>8, <1>9
<1>12. a.snapshot.rev - 1 = n
  BY <1>4, <1>7
<1>13. a.snapshot.rev \in 2..Rev(db) /\ a.snapshot = SnapshotAt(db, a.snapshot.rev)
  BY <1>4, <1>7
<1>14. r.op = "put" => a.created = (DOMAIN r.table \cap DOMAIN SnapshotAt(db, n).anchors = {})
  BY <1>10, Zenon
<1>15. QED
  BY <1>11, <1>12, <1>13, <1>14, Zenon DEF Holds

LEMMA AnswerInit == Init => AnswerInv
<1> SUFFICES ASSUME Init PROVE AnswerInv
  OBVIOUS
<1>1. LedgerInv
  BY HistoryInit DEF HistoryInv
<1>2. Staged /\ AllHold
  BY DEF Init, Staged, AllHold, Steps
<1>3. QED
  BY <1>1, <1>2 DEF AnswerInv

LEMMA StagedStep == LedgerInv /\ Staged /\ [Next]_vars => Staged'
<1> SUFFICES ASSUME LedgerInv, Staged, [Next]_vars PROVE Staged'
  OBVIOUS
<1> USE ConfigAssumption
<1>0. /\ DOMAIN pc = Workers /\ DOMAIN req = Workers /\ made \in [Workers -> BOOLEAN]
      /\ \A v \in Workers : pc[v] \in Steps => lock = v
      /\ lock = NoOne => work = dbs[open]
      /\ Fields(work)
  BY DEF LedgerInv, Staged, WholeInv, OneWriter, Asked, WorkKeeps
\* Threads stay where they are, or are outside.
<1>a. ASSUME UNCHANGED <<dbs, open, work>>, made' \in [Workers -> BOOLEAN],
             \A v \in Workers : \/ pc'[v] = "idle"
                                \/ pc'[v] = "waiting" /\ req'[v] \in Requests
                                \/ pc'[v] = pc[v] /\ req'[v] = req[v] /\ made'[v] = made[v]
      PROVE  Staged'
  BY <1>a DEF Staged, Steps
\* One thread moves on inside its transaction.
<1>b. ASSUME NEW w \in Workers, lock = w \/ lock = NoOne, req[w] \in Requests,
             UNCHANGED <<dbs, open, req>>,
             NEW to \in Steps, pc' = [pc EXCEPT ![w] = to],
             NEW m \in BOOLEAN, made' = [made EXCEPT ![w] = m],
             StagedAt(to, req[w], m, dbs[open], work')
      PROVE  Staged'
  <2>1. \A v \in Workers \ {w} : pc'[v] \notin Steps
    BY <1>0, <1>b
  <2>2. pc'[w] = to /\ made'[w] = m /\ req'[w] = req[w] /\ made' \in [Workers -> BOOLEAN]
    BY <1>0, <1>b
  <2>3. \A v \in Workers : pc'[v] # "idle" => req'[v] \in Requests
    BY <1>0, <1>b DEF Staged
  <2>4. QED
    BY <1>b, <2>1, <2>2, <2>3 DEF Staged
\* All threads are outside.
<1>c. ASSUME made' \in [Workers -> BOOLEAN],
             \A v \in Workers : \/ pc'[v] = "idle"
                                \/ pc'[v] = "waiting" /\ req'[v] \in Requests
      PROVE  Staged'
  BY <1>c DEF Staged, Steps
<1>1. ASSUME NEW w \in Workers, Ask(w) \/ BeginFails(w) PROVE Staged'
  <2>1. UNCHANGED <<dbs, open, work, made>>
    BY <1>1 DEF Ask, BeginFails
  <2>2. \/ pc'[w] = "idle"
        \/ pc'[w] = "waiting" /\ req'[w] \in Requests
    BY <1>0, <1>1 DEF Ask, BeginFails
  <2>3. \A v \in Workers \ {w} : pc'[v] = pc[v] /\ req'[v] = req[v]
    BY <1>0, <1>1 DEF Ask, BeginFails
  <2>4. QED
    BY <1>0, <1>a, <2>1, <2>2, <2>3
<1>2. ASSUME NEW w \in Workers, Begin(w) PROVE Staged'
  <2>1. /\ lock = NoOne /\ pc[w] = "waiting" /\ work = dbs[open]
        /\ UNCHANGED <<dbs, open, work, req, made>> /\ req[w] \in Requests
    BY <1>0, <1>2 DEF Begin, Staged
  <2> DEFINE to == CASE req[w].op = "bulk" -> "clear"
                     [] req[w].op = "put" -> "write"
                     [] OTHER -> "revision"
  <2>2. pc' = [pc EXCEPT ![w] = to] /\ to \in Steps
    BY <1>2 DEF Begin, Steps
  <2>3. StagedAt(to, req[w], made[w], dbs[open], work')
    BY <2>1, RequestKinds DEF StagedAt, Result
  <2> HIDE DEF to
  <2>4. made' = [made EXCEPT ![w] = made[w]] /\ made[w] \in BOOLEAN
    BY <1>0, <2>1
  <2>5. QED
    BY <1>b, <2>1, <2>2, <2>3, <2>4
<1>3. ASSUME NEW w \in Workers,
             Clear(w) \/ Write(w) \/ AppendRevision(w) \/ WriteSnapshot(w)
      PROVE  Staged'
  <2>1. /\ pc[w] \in Steps /\ lock = w /\ req[w] \in Requests
        /\ UNCHANGED <<dbs, open, req>>
        /\ StagedAt(pc[w], req[w], made[w], dbs[open], work)
    <3>1. pc[w] \in Steps /\ UNCHANGED <<dbs, open, req>> /\ pc[w] # "idle"
      BY <1>3 DEF Clear, Write, AppendRevision, WriteSnapshot, Goto, Steps
    <3>2. QED
      BY <1>0, <3>1 DEF Staged
  <2>2. /\ UNCHANGED made => made' = [made EXCEPT ![w] = made[w]]
        /\ made[w] \in BOOLEAN
    BY <1>0
  <2>3. CASE Clear(w)
    <3>1. pc[w] = "clear" /\ pc' = [pc EXCEPT ![w] = "write"] /\ UNCHANGED made
          /\ work'.anchors = Empty /\ work'.meta = work.meta
      BY <1>0, <2>3 DEF Clear, Goto, Fields
    <3>2. StagedAt("write", req[w], made[w], dbs[open], work')
      BY <2>1, <3>1 DEF StagedAt
    <3>3. QED
      BY <1>b, <2>1, <2>2, <3>1, <3>2 DEF Steps
  <2>4. CASE Write(w)
    <3> DEFINE m == /\ req[w].op = "put"
                    /\ DOMAIN req[w].table \cap DOMAIN work.anchors = {}
    <3>1. /\ pc[w] = "write" /\ pc' = [pc EXCEPT ![w] = "revision"]
          /\ made' = [made EXCEPT ![w] = m]
          /\ work'.anchors = Upsert(work.anchors, req[w].table) /\ work'.meta = work.meta
      BY <1>0, <2>4 DEF Write, Goto, Fields
    <3>2. work'.anchors = Result(req[w], dbs[open])
      <4>1. CASE req[w].op = "put" /\ work.anchors = dbs[open].anchors
        BY <3>1, <4>1 DEF Result
      <4>2. CASE req[w].op = "bulk" /\ work.anchors = Empty
        BY <2>1, <3>1, <4>2, RequestKinds, UpsertEmpty DEF Result
      <4>3. QED
        BY <2>1, <3>1, <4>1, <4>2 DEF StagedAt
    <3>3. StagedAt("revision", req[w], m, dbs[open], work')
      BY <2>1, <3>1, <3>2 DEF StagedAt, Creates
    <3>4. m \in BOOLEAN
      OBVIOUS
    <3> HIDE DEF m
    <3>5. QED
      BY <1>b, <2>1, <3>1, <3>3, <3>4 DEF Steps
  <2>5. CASE AppendRevision(w)
    <3>1. /\ pc[w] = "revision" /\ pc' = [pc EXCEPT ![w] = "snapshot"] /\ UNCHANGED made
          /\ work'.anchors = work.anchors
          /\ work'.meta = Append(work.meta, IF req[w].op = "telemetry" THEN req[w].to
                                               ELSE work.meta[Rev(work)])
      BY <1>0, <2>5 DEF AppendRevision, Goto, Fields
    <3>2. StagedAt("snapshot", req[w], made[w], dbs[open], work')
      BY <2>1, <3>1 DEF StagedAt, Settings, Rev
    <3>3. QED
      BY <1>b, <2>1, <2>2, <3>1, <3>2 DEF Steps
  <2>6. CASE WriteSnapshot(w)
    <3>1. /\ pc[w] = "snapshot" /\ pc' = [pc EXCEPT ![w] = "commit"] /\ UNCHANGED made
          /\ work'.anchors = work.anchors /\ work'.meta = work.meta
      BY <1>0, <2>6 DEF WriteSnapshot, Goto, Fields
    <3>2. StagedAt("commit", req[w], made[w], dbs[open], work')
      BY <2>1, <3>1 DEF StagedAt
    <3>3. QED
      BY <1>b, <2>1, <2>2, <3>1, <3>2 DEF Steps
  <2>7. QED
    BY <1>3, <2>3, <2>4, <2>5, <2>6
<1>4. ASSUME NEW w \in Workers, Commit(w) \/ Fail(w) PROVE Staged'
  <2>1. /\ pc[w] \in Steps /\ pc' = [pc EXCEPT ![w] = "idle"]
        /\ req' = [req EXCEPT ![w] = NoOne] /\ made' = [made EXCEPT ![w] = FALSE]
    BY <1>4 DEF Commit, Fail, Release, Steps
  <2>2. \A v \in Workers \ {w} : pc'[v] = pc[v] /\ pc[v] \notin Steps /\ req'[v] = req[v]
    BY <1>0, <2>1
  <2>3. \A v \in Workers : pc'[v] \notin Steps
    BY <1>0, <2>1, <2>2 DEF Steps
  <2>4. \A v \in Workers : pc'[v] # "idle" => req'[v] \in Requests
    BY <1>0, <2>1, <2>2 DEF Staged
  <2>5. made' \in [Workers -> BOOLEAN]
    BY <1>0, <2>1
  <2>6. QED
    BY <2>3, <2>4, <2>5 DEF Staged
<1>5. ASSUME NEW t \in Tags, GetConfig(t) \/ Hello(t) PROVE Staged'
  BY <1>0, <1>5, <1>a DEF GetConfig, Hello, edit
<1>6. ASSUME NEW d \in Databases, Restart(d) PROVE Staged'
  BY <1>6, <1>c DEF Restart
<1>7. CASE UNCHANGED vars
  BY <1>0, <1>7, <1>a DEF vars
<1>8. QED
  BY <1>1, <1>2, <1>3, <1>4, <1>5, <1>6, <1>7 DEF Next

LEMMA AnswerStep == AnswerInv /\ [Next]_vars => AnswerInv'
<1> SUFFICES ASSUME AnswerInv, [Next]_vars PROVE AllHold'
  BY LedgerStep, StagedStep DEF AnswerInv
<1>0. LedgerInv /\ WholeInv /\ WorkKeeps /\ Staged /\ AllHold
  BY DEF AnswerInv, LedgerInv
<1>a. ASSUME UNCHANGED <<dbs, answers>> PROVE AllHold'
  BY <1>0, <1>a DEF AllHold
<1>1. ASSUME NEW w \in Workers,
             \/ Ask(w) \/ Begin(w) \/ BeginFails(w) \/ Clear(w) \/ Write(w)
             \/ AppendRevision(w) \/ WriteSnapshot(w) \/ Fail(w)
      PROVE  AllHold'
  BY <1>1, <1>a DEF Ask, Begin, BeginFails, Clear, Write, AppendRevision, WriteSnapshot,
                    Fail, Goto
<1>2. ASSUME NEW w \in Workers, Commit(w) PROVE AllHold'
  <2> DEFINE a == [db |-> open, asked |-> req[w], created |-> made[w],
                   snapshot |-> CurrentSnapshot(work)]
  <2>1. /\ pc[w] = "commit" /\ dbs' = [dbs EXCEPT ![open] = work]
        /\ answers' = answers \cup {a} /\ open \in Databases /\ DOMAIN dbs = Databases
    BY <1>0, <1>2 DEF Commit, WholeInv
  <2>2. /\ Kept(dbs[open], work) /\ HasRevision(dbs[open]) /\ HasRevision(work)
        /\ Whole(dbs[open]) /\ Whole(work)
    BY <1>0, <2>1 DEF WorkKeeps, WholeInv, CommitsWhole, RevisionsWhole, Whole
  <2>3. req[w] \in Requests /\ StagedAt("commit", req[w], made[w], dbs[open], work)
    BY <1>0, <2>1 DEF Staged, Steps
  <2>4. a.db = open /\ a.asked = req[w] /\ a.created = made[w]
        /\ a.snapshot = CurrentSnapshot(work)
    OBVIOUS
  <2> HIDE DEF a
  <2>5. Holds(a, work)
    BY <2>2, <2>3, <2>4, CommitHolds
  <2>6. ASSUME NEW b \in answers PROVE Holds(b, dbs'[b.db]) /\ b.db \in Databases
    <3>1. CASE b.db = open
      BY <1>0, <2>1, <2>2, <3>1, HoldsStays DEF AllHold
    <3>2. CASE b.db # open
      BY <1>0, <2>1, <3>2 DEF AllHold
    <3>3. QED
      BY <3>1, <3>2
  <2>7. QED
    BY <2>1, <2>4, <2>5, <2>6 DEF AllHold
<1>3. ASSUME NEW t \in Tags, GetConfig(t) \/ Hello(t) PROVE AllHold'
  BY <1>3, <1>a DEF GetConfig, Hello, edit
<1>4. ASSUME NEW d \in Databases, Restart(d) PROVE AllHold'
  BY <1>4, <1>a DEF Restart
<1>5. CASE UNCHANGED vars
  BY <1>5, <1>a DEF vars
<1>6. QED
  BY <1>1, <1>2, <1>3, <1>4, <1>5 DEF Next

\* An edit that was answered did what it was asked, and stays: whatever edits of
\* any number of threads overlap, fail or are killed (put_anchor and
\* replace_anchors of store/anchors.py).
THEOREM EditsKept == Spec => []AnswersHold
<1>1. AnswerInv => AnswersHold
  BY DEF AnswerInv, AllHold, Holds, AnswersHold
<1> QED BY AnswerInit, AnswerStep, <1>1, PTL DEF Spec
------------------------------------------------------------------------------
(***************************************************************************)
(* Types.  That no database gets more than MaxRev revisions needs a count: *)
(* each thread that is at work may append one, and a request is taken in   *)
(* only while there is room for all of them (Room).                        *)
(***************************************************************************)
Busy == {w \in Workers : pc[w] # "idle"}

Room == Rev(dbs[open]) + Cardinality(Busy) <= MaxRev

TypeInv == LedgerInv /\ Staged /\ TypeOK /\ Room

\* The functions a TypeOK of the threads needs, separated from the databases.
ThreadsOK ==
    /\ lock \in Workers \cup {NoOne}
    /\ pc \in [Workers -> Steps \cup {"idle", "waiting"}]
    /\ made \in [Workers -> BOOLEAN]
    /\ \A w \in Workers : /\ (pc[w] = "idle") = (req[w] = NoOne)
                          /\ pc[w] # "idle" => req[w] \in Requests
                          /\ (pc[w] \in Steps) = (lock = w)

LEMMA TablesClosed ==
    /\ Empty \in Tables
    /\ \A s, t \in Tables : Upsert(s, t) \in Tables
<1>1. Empty \in Tables
  <2>1. Empty \in [{} -> Anchor] /\ {} \in SUBSET AnchorIds
    BY DEF Empty
  <2>2. QED
    BY <2>1 DEF Tables
<1>2. ASSUME NEW s \in Tables, NEW t \in Tables PROVE Upsert(s, t) \in Tables
  <2>1. PICK S \in SUBSET AnchorIds : s \in [S -> Anchor]
    BY DEF Tables
  <2>2. PICK T \in SUBSET AnchorIds : t \in [T -> Anchor]
    BY DEF Tables
  <2>3. S \cup T \in SUBSET AnchorIds /\ DOMAIN s = S /\ DOMAIN t = T
    BY <2>1, <2>2
  <2>4. Upsert(s, t) = [i \in S \cup T |-> IF i \in T THEN t[i] ELSE s[i]]
    BY <2>3 DEF Upsert
  <2>5. Upsert(s, t) \in [S \cup T -> Anchor]
    BY <2>1, <2>2, <2>4
  <2>6. QED
    BY <2>3, <2>5 DEF Tables
<1>3. QED
  BY <1>1, <1>2

\* What the four statements of an edit make of a database.
LEMMA StatementsType ==
    ASSUME NEW db, Fields(db), DbType(db), NEW new, Fields(new)
    PROVE  /\ new.anchors \in Tables /\ new.meta = db.meta /\ new.snaps = db.snaps
                => DbType(new)
           /\ \A to \in Telemetries :
                /\ Rev(db) < MaxRev /\ new.anchors = db.anchors /\ new.snaps = db.snaps
                /\ new.meta = Append(db.meta, to)
                => DbType(new)
           /\ /\ new.anchors = db.anchors /\ new.meta = db.meta
              /\ new.snaps = Upsert(db.snaps, [r \in {Rev(db)} |-> db.anchors])
              => DbType(new)
<1> USE ConfigAssumption
<1>1. ASSUME new.anchors \in Tables, new.meta = db.meta, new.snaps = db.snaps
      PROVE  DbType(new)
  BY <1>1 DEF DbType, Rev
<1>2. ASSUME NEW to \in Telemetries, Rev(db) < MaxRev, new.anchors = db.anchors,
             new.snaps = db.snaps, new.meta = Append(db.meta, to)
      PROVE  DbType(new)
  <2>1. new.meta \in Seq(Telemetries) /\ Rev(new) = Rev(db) + 1 /\ Rev(db) \in 1..MaxRev
    BY <1>2 DEF DbType, Rev
  <2>2. Rev(new) \in 1..MaxRev /\ 1..Rev(db) \subseteq 1..Rev(new)
    BY <1>2, <2>1
  <2>3. QED
    BY <1>2, <2>1, <2>2 DEF DbType
<1>3. ASSUME new.anchors = db.anchors, new.meta = db.meta,
             new.snaps = Upsert(db.snaps, [r \in {Rev(db)} |-> db.anchors])
      PROVE  DbType(new)
  <2> DEFINE row == [r \in {Rev(db)} |-> db.anchors]
             both == DOMAIN db.snaps \cup {Rev(db)}
  <2>1. Rev(new) = Rev(db) /\ Rev(db) \in 1..MaxRev /\ new.meta \in Seq(Telemetries)
    BY <1>3 DEF DbType, Rev
  <2>2. DOMAIN row = {Rev(db)} /\ row[Rev(db)] = db.anchors
    OBVIOUS
  <2>3. new.snaps = [i \in both |-> IF i \in {Rev(db)} THEN row[i] ELSE db.snaps[i]]
    BY <1>3, <2>2 DEF Upsert
  <2>4. DOMAIN new.snaps = both
        /\ \A i \in both : new.snaps[i] = IF i = Rev(db) THEN db.anchors ELSE db.snaps[i]
    BY <2>3
  <2>5. both \subseteq 1..Rev(new)
    BY <2>1 DEF DbType
  <2>6. QED
    BY <1>3, <2>1, <2>4, <2>5 DEF DbType
<1>4. QED
  BY <1>1, <1>2, <1>3

LEMMA BusyFinite == IsFiniteSet(Busy) /\ Cardinality(Busy) \in Nat
<1>1. Busy \in SUBSET Workers
  BY DEF Busy
<1>2. QED
  BY <1>1, ConfigAssumption, FS_Subset, FS_CardinalityType

LEMMA TypeInit == Init => TypeInv
<1> SUFFICES ASSUME Init PROVE TypeInv
  OBVIOUS
<1>1. PICK to \in Telemetries : dbs = [d \in Databases |-> Fresh(to)]
  BY DEF Init
<1>2. DbType(Fresh(to)) /\ Rev(Fresh(to)) = 1
  <2>1. Fresh(to).anchors = Empty /\ Fresh(to).meta = <<to>> /\ Fresh(to).snaps = Empty
        /\ DOMAIN Empty = {} /\ Rev(Fresh(to)) = 1
    BY DEF Fresh, Empty, Rev
  <2>2. QED
    BY <2>1, TablesClosed, ConfigAssumption DEF DbType
<1>3. Busy = {}
  BY DEF Init, Busy
<1>4. Room
  <2>1. Cardinality(Busy) = 0
    BY <1>3, FS_EmptySet
  <2>2. Rev(dbs[open]) = 1
    BY <1>1, <1>2 DEF Init
  <2>3. QED
    BY <2>1, <2>2, ConfigAssumption DEF Room
<1>5. TypeOK
  BY <1>1, <1>2, ConfigAssumption DEF Init, TypeOK, Steps
<1>6. QED
  BY <1>4, <1>5, AnswerInit DEF TypeInv, AnswerInv

LEMMA ThreadsStep == LedgerInv /\ ThreadsOK /\ [Next]_vars => ThreadsOK'
<1> SUFFICES ASSUME LedgerInv, ThreadsOK, [Next]_vars PROVE ThreadsOK'
  OBVIOUS
<1> USE ConfigAssumption, NoRequest
<1>0. /\ DOMAIN pc = Workers /\ DOMAIN req = Workers /\ made \in [Workers -> BOOLEAN]
      /\ lock \in Workers \cup {NoOne}
  BY DEF LedgerInv, WholeInv, Asked, ThreadsOK
<1>a. ASSUME UNCHANGED <<lock, pc, req, made>> PROVE ThreadsOK'
  BY <1>a DEF ThreadsOK
\* A thread moves on inside its transaction.
<1>b. ASSUME NEW w \in Workers, pc[w] \in Steps, NEW to \in Steps,
             pc' = [pc EXCEPT ![w] = to], UNCHANGED <<lock, req>>,
             made' \in [Workers -> BOOLEAN]
      PROVE  ThreadsOK'
  <2>1. pc' \in [Workers -> Steps \cup {"idle", "waiting"}]
    BY <1>b DEF ThreadsOK
  <2>2. pc'[w] = to /\ lock = w /\ pc[w] # "idle" /\ to # "idle"
        /\ \A v \in Workers \ {w} : pc'[v] = pc[v]
    BY <1>0, <1>b DEF ThreadsOK, Steps
  <2>3. QED
    BY <1>b, <2>1, <2>2 DEF ThreadsOK
\* A thread is done: it gives the lock back if it holds it.
<1>c. ASSUME NEW w \in Workers, pc' = [pc EXCEPT ![w] = "idle"],
             req' = [req EXCEPT ![w] = NoOne], made' \in [Workers -> BOOLEAN],
             lock' = NoOne, lock = NoOne \/ lock = w
      PROVE  ThreadsOK'
  <2>1. pc' \in [Workers -> Steps \cup {"idle", "waiting"}]
    BY <1>c DEF ThreadsOK
  <2>2. pc'[w] = "idle" /\ req'[w] = NoOne /\ lock' # w
        /\ \A v \in Workers \ {w} : pc'[v] = pc[v] /\ req'[v] = req[v] /\ lock # v /\ lock' # v
    BY <1>0, <1>c
  <2>3. "idle" \notin Steps
    BY DEF Steps
  <2>4. QED
    BY <1>c, <2>1, <2>2, <2>3 DEF ThreadsOK
<1>1. ASSUME NEW w \in Workers, Ask(w) PROVE ThreadsOK'
  <2>1. PICK r \in Requests : req' = [req EXCEPT ![w] = r]
    BY <1>1 DEF Ask
  <2>2. pc[w] = "idle" /\ pc' = [pc EXCEPT ![w] = "waiting"] /\ UNCHANGED <<lock, made>>
    BY <1>1 DEF Ask
  <2>3. pc' \in [Workers -> Steps \cup {"idle", "waiting"}]
    BY <2>2 DEF ThreadsOK
  <2>4. pc'[w] = "waiting" /\ req'[w] = r /\ r # NoOne /\ lock # w
    BY <1>0, <2>1, <2>2 DEF ThreadsOK, Steps
  <2>5. \A v \in Workers \ {w} : pc'[v] = pc[v] /\ req'[v] = req[v]
    BY <1>0, <2>1, <2>2
  <2>6. QED
    BY <2>2, <2>3, <2>4, <2>5 DEF ThreadsOK, Steps
<1>2. ASSUME NEW w \in Workers, Begin(w) PROVE ThreadsOK'
  <2> DEFINE to == CASE req[w].op = "bulk" -> "clear"
                     [] req[w].op = "put" -> "write"
                     [] OTHER -> "revision"
  <2>1. pc[w] = "waiting" /\ lock = NoOne /\ lock' = w /\ UNCHANGED <<req, made>>
        /\ pc' = [pc EXCEPT ![w] = to] /\ to \in Steps /\ to # "idle"
    BY <1>2 DEF Begin, Steps
  <2> HIDE DEF to
  <2>2. pc' \in [Workers -> Steps \cup {"idle", "waiting"}]
    BY <2>1 DEF ThreadsOK
  <2>3. pc'[w] = to /\ \A v \in Workers \ {w} : pc'[v] = pc[v] /\ lock # v /\ lock' # v
    BY <1>0, <2>1
  <2>4. QED
    BY <2>1, <2>2, <2>3 DEF ThreadsOK
<1>3. ASSUME NEW w \in Workers, BeginFails(w) PROVE ThreadsOK'
  BY <1>0, <1>3, <1>c DEF BeginFails
<1>4. ASSUME NEW w \in Workers, Clear(w) \/ AppendRevision(w) \/ WriteSnapshot(w)
      PROVE  ThreadsOK'
  BY <1>0, <1>4, <1>b DEF Clear, AppendRevision, WriteSnapshot, Goto, Steps
<1>5. ASSUME NEW w \in Workers, Write(w) PROVE ThreadsOK'
  <2>1. made' \in [Workers -> BOOLEAN]
    BY <1>0, <1>5 DEF Write
  <2>2. QED
    BY <1>5, <1>b, <2>1 DEF Write, Goto, Steps
<1>6. ASSUME NEW w \in Workers, Commit(w) \/ Fail(w) PROVE ThreadsOK'
  <2>1. pc[w] \in Steps /\ Release(w)
    BY <1>6 DEF Commit, Fail, Steps
  <2>2. lock = w
    BY <2>1 DEF ThreadsOK
  <2>3. QED
    BY <1>0, <1>c, <2>1, <2>2 DEF Release
<1>7. ASSUME NEW t \in Tags, GetConfig(t) \/ Hello(t) PROVE ThreadsOK'
  BY <1>7, <1>a DEF GetConfig, Hello, edit
<1>8. ASSUME NEW d \in Databases, Restart(d) PROVE ThreadsOK'
  BY <1>8 DEF Restart, ThreadsOK, Steps
<1>9. CASE UNCHANGED vars
  BY <1>9, <1>a DEF vars
<1>10. QED
  BY <1>1, <1>2, <1>3, <1>4, <1>5, <1>6, <1>7, <1>8, <1>9 DEF Next

LEMMA TypeStep == TypeInv /\ [Next]_vars => TypeInv'
<1> SUFFICES ASSUME TypeInv, [Next]_vars PROVE TypeInv'
  OBVIOUS
<1> USE ConfigAssumption
<1> DEFINE DbsOK == /\ \A d \in Databases : DbType(dbs[d])
                    /\ DbType(work)
                    /\ lock = NoOne => work = dbs[open]
<1>0. /\ LedgerInv /\ WholeInv /\ WorkKeeps /\ Asked /\ Staged /\ TypeOK /\ Room
      /\ open \in Databases /\ DOMAIN dbs = Databases
      /\ Fields(work) /\ \A d \in Databases : Fields(dbs[d])
      /\ DbsOK /\ ThreadsOK
      /\ pc \in [Workers -> Steps \cup {"idle", "waiting"}]
  BY DEF TypeInv, LedgerInv, WholeInv, TypeOK, ThreadsOK
<1>1. LedgerInv' /\ Staged' /\ ThreadsOK'
  BY <1>0, LedgerStep, StagedStep, ThreadsStep
<1>2. ASSUME DbsOK', Room' PROVE TypeInv'
  BY <1>1, <1>2 DEF TypeInv, LedgerInv, WholeInv, TypeOK, ThreadsOK
<1>3. /\ Rev(dbs[open]) \in Nat /\ Cardinality(Busy) \in Nat
      /\ \A w \in Busy : Rev(dbs[open]) < MaxRev
  <2>1. Rev(dbs[open]) \in Nat
    BY <1>0 DEF DbType
  <2>2. Cardinality(Busy) \in Nat /\ IsFiniteSet(Busy)
    BY BusyFinite
  <2>3. ASSUME NEW w \in Busy PROVE Cardinality(Busy) >= 1
    <3>1. Cardinality(Busy) # 0
      BY <2>2, <2>3, FS_EmptySet
    <3>2. QED
      BY <2>2, <3>1
  <2>4. QED
    BY <1>0, <2>1, <2>2, <2>3 DEF Room
\* Nobody starts or ends, and nothing is committed.
<1>a. ASSUME UNCHANGED <<dbs, open>>, Busy' = Busy PROVE Room'
  BY <1>0, <1>a DEF Room
\* A thread ends.
<1>b. ASSUME NEW w \in Workers, pc' = [pc EXCEPT ![w] = "idle"], pc[w] # "idle"
      PROVE  Cardinality(Busy') = Cardinality(Busy) - 1
  <2>1. Busy' = Busy \ {w} /\ w \in Busy
    BY <1>0, <1>b DEF Busy
  <2>2. QED
    BY <2>1, BusyFinite, FS_RemoveElement
<1>c. ASSUME NEW w \in Workers, pc[w] # "idle", NEW to, to # "idle",
             pc' = [pc EXCEPT ![w] = to]
      PROVE  Busy' = Busy
  BY <1>0, <1>c DEF Busy
<1>4. ASSUME NEW w \in Workers, Ask(w) PROVE TypeInv'
  <2>1. /\ UNCHANGED <<dbs, open, work, lock>> /\ pc[w] = "idle"
        /\ pc' = [pc EXCEPT ![w] = "waiting"]
        /\ Rev(dbs[open]) + Cardinality(Busy) < MaxRev
    BY <1>4 DEF Ask, Busy
  <2>2. Busy' = Busy \cup {w} /\ w \notin Busy
    BY <1>0, <2>1 DEF Busy
  <2>3. Cardinality(Busy') = Cardinality(Busy) + 1
    BY <2>2, BusyFinite, FS_AddElement
  <2>4. Room'
    BY <1>3, <2>1, <2>3 DEF Room
  <2>5. QED
    BY <1>0, <1>2, <2>1, <2>4
<1>5. ASSUME NEW w \in Workers, Begin(w) PROVE TypeInv'
  <2> DEFINE to == CASE req[w].op = "bulk" -> "clear"
                     [] req[w].op = "put" -> "write"
                     [] OTHER -> "revision"
  <2>1. /\ UNCHANGED <<dbs, open, work>> /\ lock = NoOne /\ pc[w] # "idle"
        /\ pc' = [pc EXCEPT ![w] = to] /\ to # "idle"
    BY <1>5 DEF Begin
  <2> HIDE DEF to
  <2>2. Busy' = Busy
    BY <1>c, <2>1
  <2>3. QED
    BY <1>0, <1>2, <1>a, <2>1, <2>2
<1>6. ASSUME NEW w \in Workers, BeginFails(w) PROVE TypeInv'
  <2>1. /\ UNCHANGED <<dbs, open, work, lock>> /\ pc[w] # "idle"
        /\ pc' = [pc EXCEPT ![w] = "idle"]
    BY <1>6 DEF BeginFails
  <2>2. Cardinality(Busy') = Cardinality(Busy) - 1
    BY <1>b, <2>1
  <2>3. Room'
    BY <1>0, <1>3, <2>1, <2>2 DEF Room
  <2>4. QED
    BY <1>0, <1>2, <2>1, <2>3
<1>7. ASSUME NEW w \in Workers,
             Clear(w) \/ Write(w) \/ AppendRevision(w) \/ WriteSnapshot(w)
      PROVE  TypeInv'
  <2>1. UNCHANGED <<dbs, open, lock>> /\ pc[w] \in Steps /\ pc[w] # "idle" /\ w \in Busy
    BY <1>7 DEF Clear, Write, AppendRevision, WriteSnapshot, Goto, Steps, Busy
  <2>2. lock # NoOne
    BY <1>0, <2>1 DEF ThreadsOK
  <2>3. Busy' = Busy
    BY <1>7, <1>c DEF Clear, Write, AppendRevision, WriteSnapshot, Goto
  <2>4. Fields(work')
    BY <1>1 DEF LedgerInv, WholeInv
  <2>5. DbType(work')
    <3>1. CASE Clear(w)
      <4>1. work'.anchors = Empty /\ work'.meta = work.meta /\ work'.snaps = work.snaps
        BY <1>0, <3>1 DEF Clear, Fields
      <4>2. QED
        BY <1>0, <2>4, <4>1, TablesClosed, StatementsType
    <3>2. CASE Write(w)
      <4>1. /\ work'.anchors = Upsert(work.anchors, req[w].table)
            /\ work'.meta = work.meta /\ work'.snaps = work.snaps
        BY <1>0, <3>2 DEF Write, Fields
      <4>2. req[w].table \in Tables
        <5>1. req[w] \in Requests /\ req[w].op \in {"put", "bulk"}
          BY <1>0, <2>1, <3>2 DEF Staged, StagedAt, Write, Goto
        <5>2. QED
          BY <5>1, RequestKinds
      <4>3. work'.anchors \in Tables
        BY <1>0, <4>1, <4>2, TablesClosed DEF DbType
      <4>4. QED
        BY <1>0, <2>4, <4>1, <4>3, StatementsType
    <3>3. CASE AppendRevision(w)
      <4> DEFINE to == IF req[w].op = "telemetry" THEN req[w].to ELSE work.meta[Rev(work)]
      <4>1. /\ work'.anchors = work.anchors /\ work'.snaps = work.snaps
            /\ work'.meta = Append(work.meta, to) /\ pc[w] = "revision"
        BY <1>0, <3>3 DEF AppendRevision, Goto, Fields
      <4>2. to \in Telemetries
        <5>1. work.meta[Rev(work)] \in Telemetries
          BY <1>0 DEF WorkKeeps, HasRevision, Rev
        <5>2. QED
          BY <1>0, <2>1, <5>1 DEF Asked
      <4> HIDE DEF to
      <4>3. Rev(work) = Rev(dbs[open])
        BY <1>0, <4>1 DEF WorkKeeps
      <4>4. Rev(work) < MaxRev
        BY <1>3, <2>1, <4>3
      <4>5. QED
        BY <1>0, <2>4, <4>1, <4>2, <4>4, StatementsType
    <3>4. CASE WriteSnapshot(w)
      <4>1. /\ work'.anchors = work.anchors /\ work'.meta = work.meta
            /\ work'.snaps = Upsert(work.snaps, [r \in {Rev(work)} |-> work.anchors])
        BY <1>0, <3>4 DEF WriteSnapshot, Fields
      <4>2. QED
        BY <1>0, <2>4, <4>1, StatementsType
    <3>5. QED
      BY <1>7, <3>1, <3>2, <3>3, <3>4
  <2>6. DbsOK'
    BY <1>0, <2>1, <2>2, <2>5
  <2>7. QED
    BY <1>2, <1>a, <2>1, <2>3, <2>6
<1>8. ASSUME NEW w \in Workers, Commit(w) PROVE TypeInv'
  <2>1. /\ dbs' = [dbs EXCEPT ![open] = work] /\ UNCHANGED <<open, work>>
        /\ pc' = [pc EXCEPT ![w] = "idle"] /\ pc[w] = "commit"
    BY <1>8 DEF Commit, Release
  <2>2. DbsOK'
    BY <1>0, <2>1
  <2>3. dbs'[open'] = work /\ Rev(work) = Rev(dbs[open]) + 1
    BY <1>0, <2>1 DEF WorkKeeps
  <2>4. Cardinality(Busy') = Cardinality(Busy) - 1
    BY <1>b, <2>1
  <2>5. Room'
    BY <1>0, <1>3, <2>3, <2>4 DEF Room
  <2>6. QED
    BY <1>2, <2>2, <2>5
<1>9. ASSUME NEW w \in Workers, Fail(w) PROVE TypeInv'
  <2>1. /\ UNCHANGED <<dbs, open>> /\ work' = dbs[open]
        /\ pc' = [pc EXCEPT ![w] = "idle"] /\ pc[w] # "idle"
    BY <1>9 DEF Fail, Release, Steps
  <2>2. Cardinality(Busy') = Cardinality(Busy) - 1
    BY <1>b, <2>1
  <2>3. Room'
    BY <1>0, <1>3, <2>1, <2>2 DEF Room
  <2>4. QED
    BY <1>0, <1>2, <2>1, <2>3
<1>10. ASSUME NEW t \in Tags, GetConfig(t) \/ Hello(t) PROVE TypeInv'
  <2>1. UNCHANGED <<dbs, open, work, lock, pc>>
    BY <1>10 DEF GetConfig, Hello, edit
  <2>2. Busy' = Busy
    BY <2>1 DEF Busy
  <2>3. QED
    BY <1>0, <1>2, <1>a, <2>1, <2>2
<1>11. ASSUME NEW d \in Databases, Restart(d) PROVE TypeInv'
  <2>1. /\ open' = d /\ work' = dbs[d] /\ UNCHANGED dbs
        /\ pc' = [w \in Workers |-> "idle"]
    BY <1>11 DEF Restart
  <2>2. Busy' = {}
    BY <2>1 DEF Busy
  <2>3. Cardinality(Busy') = 0
    BY <2>2, FS_EmptySet
  <2>4. Rev(dbs[d]) \in 1..MaxRev
    BY <1>0 DEF DbType
  <2>5. Room'
    BY <2>1, <2>3, <2>4 DEF Room
  <2>6. QED
    BY <1>0, <1>2, <2>1, <2>5
<1>12. CASE UNCHANGED vars
  <2>1. Busy' = Busy
    BY <1>12 DEF vars, Busy
  <2>2. QED
    BY <1>0, <1>2, <1>a, <1>12, <2>1 DEF vars
<1>13. QED
  BY <1>4, <1>5, <1>6, <1>7, <1>8, <1>9, <1>10, <1>11, <1>12 DEF Next

LEMMA TypeAlways == Spec => []TypeInv
BY TypeInit, TypeStep, PTL DEF Spec

\* Every variable has its type, a thread is inside a transaction exactly while it
\* holds the lock, and the connection differs from the file only then.
THEOREM ConfigTypes == Spec => []TypeOK
<1>1. TypeInv => TypeOK
  BY DEF TypeInv
<1>2. QED
  BY <1>1, TypeAlways, PTL

------------------------------------------------------------------------------
(***************************************************************************)
(* The operator's tool, AnchorCli.  Composed with it the server is still   *)
(* the ConfigStore, so all of the above holds of it too.  A claim speaks   *)
(* of a committed revision, which stays; that it is true when it is made   *)
(* needs that the thread which serves the tool has the file's request      *)
(* (CliPlace), and what its revision will hold (Staged).                   *)
(***************************************************************************)

\* The server behind the tool, and the others that edit, is the ConfigStore.
THEOREM ToolUsesStore == CliSpec => Spec
<1>1. CliInit => Init
  BY DEF CliInit
<1>2. [CliNext]_cliVars => [Next]_vars
  BY DEF CliNext, cliVars, Load, NothingToSend, ShowDifference, Post, PostFails, Done,
         Refused, Thread, RestartServer, Next
<1>3. QED
  BY <1>1, <1>2, PTL DEF CliSpec, Spec

\* What the tool says of a file.
Told(c) == /\ c.db \in Databases /\ c.doc \in Documents /\ Check(c.doc)
           /\ c.rev \in 1..Rev(dbs[c.db])
           /\ Rows(dbs[c.db], c.rev) = Table(c.doc)

AllTold == \A c \in claims : Told(c)

Serves(w, doc) == /\ w \in Workers
                  /\ pc[w] # "idle"
                  /\ req[w] = [op |-> "bulk", table |-> Table(doc)]

CliPlace == \/ cli.at = "off"
            \/ /\ cli.at \in {"loaded", "posting", "answer"}
               /\ {"at", "doc"} \subseteq DOMAIN cli
               /\ cli.doc \in Documents /\ Check(cli.doc)
               /\ cli.at = "answer" => Serves(cli.by, cli.doc)

CliInv == TypeInv /\ CliPlace /\ AllTold

\* As many ids as entries when no id is there twice.
LEMMA IdsCounted ==
    ASSUME NEW doc \in Documents, NoIdTwice(doc)
    PROVE  Cardinality({doc[i].id : i \in DOMAIN doc}) = Len(doc)
<1> DEFINE n == Len(doc)
           ids == {doc[i].id : i \in 1..n}
           f == [i \in 1..n |-> doc[i].id]
<1>1. n \in Nat /\ DOMAIN doc = 1..n
  BY CliAssumption
<1>2. IsFiniteSet(1..n) /\ Cardinality(1..n) = n
  <2> HIDE DEF n
  <2>1. IsFiniteSet(1..n) /\ Cardinality(1..n) = IF 1 > n THEN 0 ELSE n - 1 + 1
    BY <1>1, FS_Interval
  <2>2. QED
    BY <1>1, <2>1
<1>3. f \in Bijection(1..n, ids)
  <2>1. f \in [1..n -> ids] /\ \A y \in ids : \E i \in 1..n : f[i] = y
    OBVIOUS
  <2>2. \A i, j \in 1..n : f[i] = f[j] => i = j
    BY <1>1 DEF NoIdTwice
  <2>3. QED
    BY <2>1, <2>2 DEF Bijection, Injection, Surjection, IsInjective
<1> HIDE DEF n, ids, f
<1>4. Cardinality(ids) = n
  BY <1>2, <1>3, FS_Bijection DEF ExistsBijection
<1>5. QED
  BY <1>1, <1>4 DEF ids, n

\* A file that passes the tool's check is one that the server takes.
LEMMA CheckedAccepted ==
    ASSUME NEW doc \in Documents, Check(doc) PROVE Accepted(doc)
BY IdsCounted DEF Check, Accepted

\* No difference is marked only between equal tables.
LEMMA NothingMarked ==
    ASSUME NEW s \in Tables, NEW doc, Marked(s, Table(doc)) = {}
    PROVE  s = Table(doc)
<1> DEFINE t == Table(doc)
<1>1. t = [a \in DOMAIN t |-> t[a]]
  BY DEF Table
<1>2. s = [a \in DOMAIN s |-> s[a]]
  BY DEF Tables
<1> HIDE DEF t
<1>3. \A a \in DOMAIN s \cup DOMAIN t : a \in DOMAIN s /\ a \in DOMAIN t /\ s[a] = t[a]
  BY DEF Marked, t
<1>4. DOMAIN s = DOMAIN t
  BY <1>3
<1>5. s = t
  BY <1>1, <1>2, <1>3, <1>4
<1>6. QED
  BY <1>5 DEF t

LEMMA CliInitInv == CliInit => CliInv
BY TypeInit DEF CliInit, CliInv, CliPlace, AllTold, Off

\* A step of the server leaves what was said true.
LEMMA ToldStays ==
    ASSUME TypeInv, [Next]_vars, NEW c, Told(c) PROVE Told(c)'
<1>1. /\ LedgerInv /\ DOMAIN dbs = Databases /\ open \in Databases
      /\ Kept(dbs[open], work)
      /\ HasRevision(work) /\ \A d \in Databases : HasRevision(dbs[d])
  BY DEF TypeInv, LedgerInv, WholeInv, WorkKeeps
<1>2. UNCHANGED dbs \/ dbs' = [dbs EXCEPT ![open] = work]
  BY DEF Next, vars, Ask, Begin, BeginFails, Clear, Write, AppendRevision, WriteSnapshot,
         Commit, Fail, Goto, GetConfig, Hello, Restart
<1>3. CASE UNCHANGED dbs \/ c.db # open
  <2>1. dbs'[c.db] = dbs[c.db]
    BY <1>1, <1>2, <1>3 DEF Told
  <2>2. QED
    BY <2>1 DEF Told
<1>4. CASE dbs' = [dbs EXCEPT ![open] = work] /\ c.db = open
  <2>1. dbs'[c.db] = work
    BY <1>1, <1>4
  <2>2. Rows(work, c.rev) = Rows(dbs[c.db], c.rev)
    BY <1>1, <1>4 DEF Kept, Told
  <2>3. c.rev \in 1..Rev(work)
    BY <1>1, <1>4 DEF Kept, Told, HasRevision, Rev
  <2>4. QED
    BY <2>1, <2>2, <2>3 DEF Told
<1>5. QED
  BY <1>2, <1>3, <1>4

\* A thread that does not serve the tool leaves the one that does at work.
LEMMA ServesStays ==
    ASSUME TypeInv, NEW v \in Workers, NEW doc, Serves(v, doc),
           NEW w \in Workers,
           \/ Ask(w) \/ Begin(w) \/ Clear(w) \/ Write(w) \/ AppendRevision(w)
           \/ WriteSnapshot(w)
           \/ w # v /\ (BeginFails(w) \/ Commit(w) \/ Fail(w))
    PROVE  Serves(v, doc)'
<1>1. DOMAIN pc = Workers /\ DOMAIN req = Workers /\ pc[v] # "idle"
      /\ req[v] = [op |-> "bulk", table |-> Table(doc)]
  BY DEF TypeInv, LedgerInv, WholeInv, Asked, Serves
<1>2. req'[v] = req[v] /\ pc'[v] # "idle"
  <2>1. CASE Ask(w)
    <3>1. w # v
      BY <1>1, <2>1 DEF Ask
    <3>2. QED
      BY <1>1, <2>1, <3>1 DEF Ask
  <2>2. CASE Begin(w)
    BY <1>1, <2>2 DEF Begin
  <2>3. CASE Clear(w) \/ Write(w) \/ AppendRevision(w) \/ WriteSnapshot(w)
    BY <1>1, <2>3 DEF Clear, Write, AppendRevision, WriteSnapshot, Goto
  <2>4. CASE w # v /\ (BeginFails(w) \/ Commit(w) \/ Fail(w))
    BY <1>1, <2>4 DEF BeginFails, Commit, Fail, Release
  <2>5. QED
    BY <2>1, <2>2, <2>3, <2>4
<1>3. QED
  BY <1>1, <1>2 DEF Serves

LEMMA CliStep == CliInv /\ [CliNext]_cliVars => CliInv'
<1> SUFFICES ASSUME CliInv, [CliNext]_cliVars PROVE CliInv'
  OBVIOUS
<1>1. TypeInv /\ CliPlace /\ AllTold
  BY DEF CliInv
<1>2. [Next]_vars
  BY DEF CliNext, cliVars, Load, NothingToSend, ShowDifference, Post, PostFails, Done,
         Refused, Thread, RestartServer, Next
<1>3. TypeInv' /\ \A c \in claims : Told(c)'
  BY <1>1, <1>2, TypeStep, ToldStays DEF AllTold
<1>a. ASSUME UNCHANGED claims PROVE AllTold'
  BY <1>3, <1>a DEF AllTold
<1>b. ASSUME cli' = Off PROVE CliPlace'
  BY <1>b DEF CliPlace, Off
<1>4. /\ open \in Databases /\ DOMAIN dbs = Databases /\ work.anchors \in Tables
      /\ \A d \in Databases : Whole(dbs[d])
      /\ lock = NoOne => work = dbs[open]
      /\ HasRevision(work)
  BY <1>1 DEF TypeInv, LedgerInv, WholeInv, RevisionsWhole, Whole, TypeOK, DbType, WorkKeeps
<1>5. ASSUME NEW doc \in Documents, Load(doc) PROVE CliInv'
  <2>1. cli' = [at |-> "loaded", doc |-> doc] /\ Check(doc) /\ UNCHANGED claims
    BY <1>5 DEF Load
  <2>2. CliPlace'
    BY <2>1 DEF CliPlace
  <2>3. QED
    BY <1>3, <1>a, <2>1, <2>2 DEF CliInv
<1>6. CASE NothingToSend
  <2>1. /\ cli.at = "loaded" /\ work = dbs[open] /\ cli' = Off /\ UNCHANGED vars
        /\ Marked(work.anchors, Table(cli.doc)) = {} /\ Claim(cli.doc)
    BY <1>4, <1>6 DEF NothingToSend
  <2>2. cli.doc \in Documents /\ Check(cli.doc)
    BY <1>1, <2>1 DEF CliPlace
  <2>3. work.anchors = Table(cli.doc)
    BY <1>4, <2>1, NothingMarked
  <2>4. Rev(work) \in 1..Rev(work) /\ Rows(work, Rev(work)) = work.anchors
    BY <1>4, <2>1 DEF HasRevision, Rev, Whole
  <2> DEFINE c == [db |-> open, rev |-> Rev(work), doc |-> cli.doc]
  <2>5. c.db = open /\ c.rev = Rev(work) /\ c.doc = cli.doc
    OBVIOUS
  <2> HIDE DEF c
  <2>6. dbs' = dbs
    BY <2>1 DEF vars
  <2>7. Told(c)
    BY <1>4, <2>1, <2>2, <2>3, <2>4, <2>5 DEF Told
  <2>8. AllTold'
    <3>1. claims' = claims \cup {c}
      BY <2>1 DEF Claim, c
    <3>2. \A d \in claims \cup {c} : Told(d)
      BY <1>1, <2>7 DEF AllTold
    <3>3. QED
      BY <2>6, <3>1, <3>2 DEF AllTold, Told
  <2>9. QED
    BY <1>3, <1>b, <2>1, <2>8 DEF CliInv
<1>7. CASE ShowDifference
  <2>1. cli.at = "loaded" /\ UNCHANGED claims /\ (cli' = [cli EXCEPT !.at = "posting"] \/ cli' = Off)
    BY <1>7 DEF ShowDifference
  <2>2. CliPlace'
    BY <1>1, <2>1 DEF CliPlace, Off
  <2>3. QED
    BY <1>3, <1>a, <2>1, <2>2 DEF CliInv
<1>8. CASE PostFails
  BY <1>3, <1>8, <1>a, <1>b DEF PostFails, CliInv
<1>9. ASSUME NEW w \in Workers, Post(w) PROVE CliInv'
  <2>1. /\ cli.at = "posting" /\ Ask(w) /\ UNCHANGED claims
        /\ cli' = [at |-> "answer", doc |-> cli.doc, by |-> w]
        /\ req'[w] = [op |-> "bulk", table |-> Table(cli.doc)]
    BY <1>9 DEF Post
  <2>2. DOMAIN pc = Workers
    BY <1>1 DEF TypeInv, LedgerInv, WholeInv
  <2>3. pc'[w] # "idle"
    BY <2>1, <2>2 DEF Ask
  <2>4. CliPlace'
    BY <1>1, <2>1, <2>3 DEF CliPlace, Serves
  <2>5. QED
    BY <1>3, <1>a, <2>1, <2>4 DEF CliInv
<1>10. ASSUME NEW w \in Workers, Done(w) PROVE CliInv'
  <2>1. /\ cli.at = "answer" /\ cli.by = w /\ Commit(w) /\ cli' = Off
        /\ Claim(cli.doc) \/ UNCHANGED claims
    BY <1>10 DEF Done, Served
  <2>2. /\ cli.doc \in Documents /\ Check(cli.doc) /\ pc[w] = "commit"
        /\ req[w] = [op |-> "bulk", table |-> Table(cli.doc)]
    BY <1>1, <2>1 DEF CliPlace, Serves, Commit
  <2>3. work.anchors = Table(cli.doc)
    <3>1. StagedAt("commit", req[w], made[w], dbs[open], work)
      BY <1>1, <2>2 DEF TypeInv, Staged, Steps
    <3>2. work.anchors = Result(req[w], dbs[open])
      BY <3>1 DEF StagedAt
    <3>3. req[w].op = "bulk" /\ req[w].table = Table(cli.doc)
      BY <2>2
    <3>4. QED
      BY <3>2, <3>3 DEF Result
  <2>4. dbs'[open] = work /\ Whole(work) /\ open' = open /\ work' = work
    BY <1>1, <1>4, <2>1, <2>2 DEF Commit, TypeInv, LedgerInv, WholeInv, CommitsWhole
  <2>5. Rev(work) \in 1..Rev(work) /\ Rows(work, Rev(work)) = work.anchors
    BY <1>4, <2>4 DEF HasRevision, Rev, Whole
  <2> DEFINE c == [db |-> open, rev |-> Rev(work), doc |-> cli.doc]
  <2>6. c.db = open /\ c.rev = Rev(work) /\ c.doc = cli.doc
    OBVIOUS
  <2> HIDE DEF c
  <2>7. AllTold'
    <3>1. claims' \subseteq claims \cup {c}
      BY <2>1 DEF Claim, c
    <3>2. ASSUME NEW d \in claims' PROVE Told(d)'
      <4>1. CASE d \in claims
        BY <1>3, <4>1
      <4>2. CASE d = c
        BY <1>4, <2>2, <2>3, <2>4, <2>5, <2>6, <4>2 DEF Told
      <4>3. QED
        BY <3>1, <3>2, <4>1, <4>2
    <3>3. QED
      BY <3>2 DEF AllTold
  <2>8. QED
    BY <1>3, <1>b, <2>1, <2>7 DEF CliInv
<1>11. ASSUME NEW w \in Workers, Refused(w) PROVE CliInv'
  BY <1>3, <1>11, <1>a, <1>b DEF Refused, CliInv
<1>12. ASSUME NEW w \in Workers, Thread(w), UNCHANGED <<cli, claims>> PROVE CliInv'
  <2>1. CASE cli.at = "answer"
    <3>1. cli.by \in Workers /\ Serves(cli.by, cli.doc)
      BY <1>1, <2>1 DEF CliPlace, Serves
    <3>2. PICK v \in Workers, doc \in {cli.doc} : v = cli.by /\ Serves(v, doc)
      BY <3>1
    <3>3. \/ Ask(w) \/ Begin(w) \/ Clear(w) \/ Write(w) \/ AppendRevision(w)
          \/ WriteSnapshot(w)
          \/ w # v /\ (BeginFails(w) \/ Commit(w) \/ Fail(w))
      BY <1>12, <2>1, <3>2 DEF Thread, Served
    <3>4. Serves(v, doc)'
      BY <1>1, <3>2, <3>3, ServesStays
    <3>5. QED
      BY <1>1, <1>3, <1>12, <1>a, <2>1, <3>2, <3>4 DEF CliInv, CliPlace
  <2>2. CASE cli.at # "answer"
    BY <1>1, <1>3, <1>12, <1>a, <2>2 DEF CliInv, CliPlace
  <2>3. QED
    BY <2>1, <2>2
<1>13. ASSUME NEW t \in Tags, GetConfig(t) \/ Hello(t), UNCHANGED <<cli, claims>>
       PROVE  CliInv'
  <2>1. UNCHANGED <<pc, req>>
    BY <1>13 DEF GetConfig, Hello, edit
  <2>2. QED
    BY <1>1, <1>3, <1>13, <1>a, <2>1 DEF CliInv, CliPlace, Serves
<1>14. ASSUME NEW d \in Databases, RestartServer(d) PROVE CliInv'
  BY <1>1, <1>3, <1>14, <1>a DEF RestartServer, CliInv, CliPlace, Off
<1>15. CASE UNCHANGED cliVars
  BY <1>1, <1>3, <1>15, <1>a DEF cliVars, vars, CliInv, CliPlace, Serves
<1>16. QED
  BY <1>5, <1>6, <1>7, <1>8, <1>9, <1>10, <1>11, <1>12, <1>13, <1>14, <1>15 DEF CliNext

\* When the tool has ended well, the server would take the file, and the table of
\* the revision it named is the file's, and stays it (cmd_apply of anchor_cli.py).
THEOREM ClaimsTrue == CliSpec => []ToldIsTrue
<1>1. CliInv => ToldIsTrue
  <2> SUFFICES ASSUME CliInv, NEW c \in claims
               PROVE  /\ Accepted(c.doc)
                      /\ SnapshotAt(dbs[c.db], c.rev).anchors = Table(c.doc)
    BY DEF ToldIsTrue
  <2>1. Told(c)
    BY DEF CliInv, AllTold
  <2>2. QED
    BY <2>1, CheckedAccepted DEF Told, SnapshotAt
<1>2. QED
  BY CliInitInv, CliStep, <1>1, PTL DEF CliSpec
==============================================================================
