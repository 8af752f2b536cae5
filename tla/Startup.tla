------------------------------- MODULE Startup -------------------------------
(***************************************************************************)
(* The start of a server process on its SQLite file: connect and migrate   *)
(* of db.py, the lifespan of api/app.py and start and stop of              *)
(* ingest/service.py.                                                      *)
(*                                                                         *)
(* Several processes may be started on one file (an operator starts a      *)
(* second one, a supervisor restarts one while the other still stops), of  *)
(* different releases: server s knows the migrations 1..Known[s].  One     *)
(* process at a time has the write lock of SQLite, from BEGIN IMMEDIATE on; *)
(* what it wrote is in `work' and reaches `file' at COMMIT.  With           *)
(* synchronous = NORMAL a commit outlives the process, but survives a power *)
(* failure only from the next checkpoint of the WAL on (`durable').        *)
(*                                                                         *)
(* A statement of migration v is <<v, i>>; they are CREATE and ALTER        *)
(* without IF NOT EXISTS, so executing one a second time is an error.       *)
(***************************************************************************)
EXTENDS Naturals, FiniteSets

CONSTANTS
    Servers,
    Known,        \* [Servers -> the last migration of the server's release]
    Statements,   \* a sequence: how many statements each migration has
    Nobody,       \* the lock, or the UDP port, is free
    MaxStarts,    \* bound on the starts
    MaxFaults     \* bound on kills, power failures, timeouts and failed statements

Versions == DOMAIN Statements

ASSUME StartupAssumption ==
    /\ Versions \subseteq Nat \ {0}
    /\ \A v \in Versions : \A u \in 1..v : u \in Versions
    /\ Statements \in [Versions -> Nat \ {0}]
    /\ Known \in [Servers -> Versions]
    /\ Nobody \notin Servers
    /\ MaxStarts \in Nat /\ MaxFaults \in Nat

VARIABLES
    file,      \* what is committed
    durable,   \* what a power failure leaves of it
    lock,      \* who has the write lock
    work,      \* what its transaction sees
    at,        \* [Servers -> where the process is]
    current,   \* [Servers -> migrate()'s current]
    next,      \* [Servers -> the statement of the script to be executed]
    port,      \* who is bound to the UDP port
    starts, faults

vars == <<file, durable, lock, work, at, current, next, port, starts, faults>>
bounds == <<starts, faults>>

\* The statements of the migrations up to v; the rows of revision 1 they leave.
Script(v) ==
    UNION {{u} \X (1..Statements[u]) : u \in {w \in Versions : w <= v}}

Schema(v) == [version |-> v, applied |-> Script(v), seeds |-> IF v = 0 THEN 0 ELSE 1]

------------------------------------------------------------------------------
(* Helpers: what a process does besides moving to another place.            *)

Goto(s, from, to) == at[s] = from /\ at' = [at EXCEPT ![s] = to]

\* The process ends, or raises out of the lifespan: SQLite rolls back what it
\* had begun, the socket is closed.
Leave(s) == /\ lock' = IF lock = s THEN Nobody ELSE lock
            /\ port' = IF port = s THEN Nobody ELSE port

Fault == faults < MaxFaults /\ faults' = faults + 1

------------------------------------------------------------------------------
(* migrate                                                                  *)

Start(s) ==
    /\ starts < MaxStarts /\ starts' = starts + 1
    /\ Goto(s, "off", "opened")
    /\ UNCHANGED <<file, durable, lock, work, current, next, port, faults>>

\* Bug: what is in the WAL is not seen.
Bug_ReadVersion(s) ==
    /\ Goto(s, "opened", "migrating")
    /\ current' = [current EXCEPT ![s] = durable.version]
    /\ UNCHANGED <<file, durable, lock, work, next, port, bounds>>

\* user_version is read before, and outside of, any transaction.
ReadVersion(s) ==
    /\ Goto(s, "opened", "migrating")
    /\ current' = [current EXCEPT ![s] = file.version]
    /\ UNCHANGED <<file, durable, lock, work, next, port, bounds>>

Missing(s) == current[s] < Known[s]
Version(s) == current[s] + 1

Begin(s) ==
    /\ Goto(s, "migrating", "applying")
    /\ Missing(s)
    /\ lock = Nobody /\ lock' = s
    /\ work' = file
    /\ next' = [next EXCEPT ![s] = 1]
    /\ UNCHANGED <<file, durable, current, port, bounds>>

\* The lock is not given back within the busy timeout of five seconds, for which
\* a process must be slow or suspended: migrate raises.
BeginFails(s) ==
    /\ Goto(s, "migrating", "off")
    /\ Missing(s)
    /\ lock # Nobody
    /\ Fault
    /\ UNCHANGED <<file, durable, lock, work, current, next, port, starts>>

More(s) == at[s] = "applying" /\ next[s] <= Statements[Version(s)]
Statement(s) == <<Version(s), next[s]>>

\* Bug: executescript(), which commits before it executes.
Bug_Apply(s) ==
    /\ More(s)
    /\ Statement(s) \notin work.applied
    /\ file' = work
    /\ work' = [work EXCEPT !.applied = @ \cup {Statement(s)}]
    /\ next' = [next EXCEPT ![s] = @ + 1]
    /\ UNCHANGED <<durable, lock, at, current, port, bounds>>

Apply(s) ==
    /\ More(s)
    /\ Statement(s) \notin work.applied
    /\ work' = [work EXCEPT !.applied = @ \cup {Statement(s)}]
    /\ next' = [next EXCEPT ![s] = @ + 1]
    /\ UNCHANGED <<file, durable, lock, at, current, port, bounds>>

\* The table or column is there already (another process was faster), or the
\* statement fails for a reason of its own: ROLLBACK, and migrate raises.
ApplyFails(s) ==
    /\ More(s)
    /\ \/ Statement(s) \in work.applied /\ UNCHANGED faults
       \/ Fault
    /\ at' = [at EXCEPT ![s] = "off"]
    /\ Leave(s)
    /\ UNCHANGED <<file, durable, work, current, next, starts>>

\* _seed_initial_config after the first script, then PRAGMA user_version.
Finish(s) ==
    /\ ~More(s)
    /\ Goto(s, "applying", "committing")
    /\ work' = [work EXCEPT !.seeds = IF Version(s) = 1 THEN @ + 1 ELSE @,
                            !.version = Version(s)]
    /\ UNCHANGED <<file, durable, lock, current, next, port, bounds>>

Commit(s) ==
    /\ Goto(s, "committing", "migrating")
    /\ file' = work
    /\ lock' = Nobody
    /\ current' = [current EXCEPT ![s] = Version(s)]
    /\ UNCHANGED <<durable, work, next, port, bounds>>

------------------------------------------------------------------------------
(* The lifespan                                                             *)

Migrated(s) ==
    /\ ~Missing(s)
    /\ Goto(s, "migrating", "binding")
    /\ UNCHANGED <<file, durable, lock, work, current, next, port, bounds>>

\* IngestService.start binds the UDP port ...
Bind(s) ==
    /\ Goto(s, "binding", "serving")
    /\ port = Nobody /\ port' = s
    /\ UNCHANGED <<file, durable, lock, work, current, next, bounds>>

\* ... or raises: the finally closes what there is, and the start has failed.
BindFails(s) ==
    /\ Goto(s, "binding", "off")
    /\ port # Nobody
    /\ UNCHANGED <<file, durable, lock, work, current, next, port, bounds>>

\* The writer, or an edit, holds the lock for a while; rows are not modelled.
BeginWrite(s) ==
    /\ at[s] \in {"serving", "draining"}
    /\ lock = Nobody /\ lock' = s
    /\ work' = file
    /\ UNCHANGED <<file, durable, at, current, next, port, bounds>>

EndWrite(s) ==
    /\ at[s] \in {"serving", "draining"}
    /\ lock = s /\ lock' = Nobody
    /\ UNCHANGED <<file, durable, work, at, current, next, port, bounds>>

\* stop() closes the transport; the writer goes on until its queue is empty.
Stop(s) ==
    /\ Goto(s, "serving", "draining")
    /\ port' = Nobody
    /\ UNCHANGED <<file, durable, lock, work, current, next, bounds>>

\* The writer has returned; the hub is cancelled, the connection closed.
Close(s) ==
    /\ Goto(s, "draining", "off")
    /\ lock # s
    /\ UNCHANGED <<file, durable, lock, work, current, next, port, bounds>>

------------------------------------------------------------------------------
(* Faults                                                                   *)

Kill(s) ==
    /\ at[s] # "off"
    /\ Fault
    /\ at' = [at EXCEPT ![s] = "off"]
    /\ Leave(s)
    /\ UNCHANGED <<file, durable, work, current, next, starts>>

Checkpoint ==
    /\ durable # file
    /\ durable' = file
    /\ UNCHANGED <<file, lock, work, at, current, next, port, bounds>>

PowerFails ==
    /\ Fault
    /\ file' = durable
    /\ lock' = Nobody
    /\ at' = [s \in Servers |-> "off"]
    /\ port' = Nobody
    /\ UNCHANGED <<durable, work, current, next, starts>>

------------------------------------------------------------------------------
Init ==
    /\ file = Schema(0) /\ durable = Schema(0) /\ work = Schema(0)
    /\ lock = Nobody /\ port = Nobody
    /\ at = [s \in Servers |-> "off"]
    /\ current = [s \in Servers |-> 0]
    /\ next = [s \in Servers |-> 1]
    /\ starts = 0 /\ faults = 0

\* What a process does of itself, and will not put off for ever.
Proceed(s) ==
    \/ ReadVersion(s)
    \/ Begin(s) \/ Apply(s) \/ ApplyFails(s) \/ Finish(s) \/ Commit(s)
    \/ Migrated(s) \/ Bind(s) \/ BindFails(s)
    \/ EndWrite(s) \/ Close(s)

Next ==
    \/ \E s \in Servers : \/ Start(s) \/ Proceed(s) \/ BeginWrite(s) \/ Stop(s)
                          \/ BeginFails(s) \/ Kill(s)
    \/ Checkpoint \/ PowerFails

Spec == Init /\ [][Next]_vars

\* Each process runs; nothing is assumed of the operator, the faults or the
\* checkpoints.
FairSpec == Spec /\ \A s \in Servers : WF_vars(Proceed(s))

------------------------------------------------------------------------------
Places == {"off", "opened", "migrating", "applying", "committing", "binding",
           "serving", "draining"}

Db == [version : Versions \cup {0}, applied : SUBSET (Versions \X Nat), seeds : Nat]

TypeOK ==
    /\ file \in Db /\ durable \in Db /\ work \in Db
    /\ lock \in Servers \cup {Nobody} /\ port \in Servers \cup {Nobody}
    /\ at \in [Servers -> Places]
    /\ current \in [Servers -> Versions \cup {0}]
    /\ next \in [Servers -> Nat \ {0}]
    /\ starts \in 0..MaxStarts /\ faults \in 0..MaxFaults

\* A file has, at any time and after whatever failed, the whole of the scripts
\* up to its version, nothing of the next one, and one first revision: "the
\* whole migration is one transaction" (_split_statements).
SchemaWhole ==
    file = Schema(file.version) /\ durable = Schema(durable.version)

\* A process that got past migrate() works on a file that has all its release
\* needs, though others started, failed or migrated further in between.
ServesItsSchema ==
    \A s \in Servers :
        at[s] \in {"binding", "serving", "draining"} => Script(Known[s]) \subseteq file.applied

\* Processes that are started at once may make each other fail, but not all of
\* them: unless a fault comes between, one gets to serve (or one did and was
\* stopped since), whatever earlier faults left behind.
OneComesUp ==
    \A n \in 0..MaxFaults :
        (faults = n /\ \E s \in Servers : at[s] = "opened")
            ~> \/ faults # n
               \/ \E s \in Servers : at[s] \in {"serving", "draining"}
==============================================================================
