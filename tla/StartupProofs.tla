---------------------------- MODULE StartupProofs ----------------------------
(***************************************************************************)
(* Proofs about Startup, for any number of processes, releases and         *)
(* migrations, and any number of faults.                                   *)
(*                                                                         *)
(* What keeps the schema whole although user_version is read outside of    *)
(* the transaction: a process whose `current' is old finds the first       *)
(* statement of its script applied already and fails; so whoever gets past *)
(* the first statement has read the version the file still has.            *)
(***************************************************************************)
EXTENDS Startup, TLAPS

Passed == {"binding", "serving", "draining"}
Writing == {"applying", "committing"}

\* Only the holder of the lock is inside a migration.
OneMigrates == \A s \in Servers : at[s] \in Writing => lock = s

\* A process never believes the file to be newer than it is.
ReadsOld ==
    \A s \in Servers : at[s] \in {"migrating"} \cup Writing \cup Passed
                          => current[s] <= file.version

\* The transaction of a process that applies its script.
AppliesScript ==
    \A s \in Servers : at[s] = "applying" =>
        /\ Missing(s)
        /\ next[s] \in 1..(Statements[Version(s)] + 1)
        /\ next[s] > 1 => current[s] = file.version
        /\ work = [version |-> file.version, seeds |-> file.seeds,
                   applied |-> file.applied \cup {Version(s)} \X (1..(next[s] - 1))]

CommitsNext ==
    \A s \in Servers : at[s] = "committing" =>
        /\ Missing(s)
        /\ current[s] = file.version
        /\ work = Schema(Version(s))

HasItsRelease == \A s \in Servers : at[s] \in Passed => ~Missing(s)

SchemaInv == /\ TypeOK
             /\ SchemaWhole
             /\ OneMigrates
             /\ ReadsOld
             /\ AppliesScript
             /\ CommitsNext
             /\ HasItsRelease

------------------------------------------------------------------------------
(* Scripts                                                                  *)

LEMMA VersionNumbers == Versions \cup {0} \subseteq Nat /\ 0 \notin Versions
BY StartupAssumption

LEMMA VersionFacts ==
    /\ \A v \in Versions : Statements[v] \in Nat \ {0}
    /\ \A s \in Servers : Known[s] \in Versions
BY StartupAssumption

LEMMA ScriptElements ==
    ASSUME NEW v, NEW u, NEW i
    PROVE  <<u, i>> \in Script(v)
             <=> u \in Versions /\ u <= v /\ i \in 1..Statements[u]
BY DEF Script

\* The next version's script adds the statements of the next migration.
LEMMA ScriptNext ==
    ASSUME NEW v \in Versions \cup {0}, v + 1 \in Versions
    PROVE  Script(v + 1) = Script(v) \cup {v + 1} \X (1..Statements[v + 1])
<1>1. Versions \subseteq Nat /\ v \in Nat
  BY VersionNumbers
<1>2. \A w \in Versions : w <= v + 1 <=> w <= v \/ w = v + 1
  BY <1>1
<1>3. {w \in Versions : w <= v + 1} = {w \in Versions : w <= v} \cup {v + 1}
  BY <1>1, <1>2
<1> QED BY <1>3 DEF Script

LEMMA ScriptGrows ==
    ASSUME NEW v \in Versions \cup {0}, NEW u \in Versions \cup {0}, u <= v
    PROVE  Script(u) \subseteq Script(v)
<1>1. Versions \subseteq Nat /\ v \in Nat /\ u \in Nat
  BY VersionNumbers
<1>2. \A w \in Nat : w <= u => w <= v
  BY <1>1
<1>3. {w \in Versions : w <= u} \subseteq {w \in Versions : w <= v}
  BY <1>1, <1>2
<1> QED BY <1>3 DEF Script

LEMMA SchemaType ==
    ASSUME NEW v \in Versions \cup {0}
    PROVE  Schema(v) \in Db
<1>1. Script(v) \subseteq Versions \X Nat
  BY VersionFacts, VersionNumbers DEF Script
<1> QED BY <1>1 DEF Schema, Db

\* A release's missing migration is one of the migrations.
LEMMA MissingVersion ==
    ASSUME NEW s \in Servers, TypeOK, Missing(s)
    PROVE  Version(s) \in Versions /\ Version(s) = current[s] + 1 /\ current[s] \in Nat
<1>1. current[s] \in Versions \cup {0} /\ Known[s] \in Versions
  BY VersionFacts DEF TypeOK
<1>2. current[s] \in Nat /\ Known[s] \in Nat
  BY <1>1, VersionNumbers
<1>3. current[s] + 1 \in 1..Known[s]
  BY <1>2 DEF Missing
<1> QED BY <1>1, <1>2, <1>3, StartupAssumption DEF Version

------------------------------------------------------------------------------
(* The invariant                                                            *)

LEMMA SchemaInvInit == Init => SchemaInv
<1> SUFFICES ASSUME Init PROVE SchemaInv
  OBVIOUS
<1>1. Schema(0) \in Db /\ Schema(0).version = 0
  BY SchemaType DEF Schema
<1>2. TypeOK
  BY <1>1, StartupAssumption DEF Init, TypeOK, Places
<1>3. SchemaWhole
  BY <1>1 DEF Init, SchemaWhole
<1> QED
  BY <1>2, <1>3 DEF Init, SchemaInv, OneMigrates, ReadsOld, AppliesScript, CommitsNext,
     HasItsRelease, Writing, Passed

\* Steps that touch neither the file nor a transaction: whoever moves gives up
\* or begins anew, and nobody else loses the lock.
LEMMA Undisturbed ==
    ASSUME SchemaInv, TypeOK', SchemaWhole',
           UNCHANGED <<file, work, current, next>>,
           \A r \in Servers : \/ at'[r] \in {"off", "opened"}
                              \/ at'[r] = at[r] /\ (lock = r => lock' = r)
    PROVE  SchemaInv'
<1>1. OneMigrates'
  BY DEF SchemaInv, OneMigrates, Writing
<1>2. ReadsOld'
  BY DEF SchemaInv, ReadsOld, Writing, Passed
<1>3. AppliesScript'
  BY DEF SchemaInv, AppliesScript, Missing, Version
<1>4. CommitsNext'
  BY DEF SchemaInv, CommitsNext, Missing, Version
<1>5. HasItsRelease'
  BY DEF SchemaInv, HasItsRelease, Missing, Passed
<1> QED BY <1>1, <1>2, <1>3, <1>4, <1>5 DEF SchemaInv

\* Nobody is inside a migration but the holder of the lock: what a step does to
\* `work' disturbs no one else.
LEMMA OnlyHolder ==
    ASSUME SchemaInv, NEW s \in Servers, lock \in {s, Nobody},
           NEW r \in Servers, r # s
    PROVE  at[r] \notin Writing
BY StartupAssumption DEF SchemaInv, OneMigrates

LEMMA StartStep ==
    ASSUME SchemaInv, NEW s \in Servers, Start(s) PROVE SchemaInv'
<1>1. TypeOK'
  BY StartupAssumption DEF SchemaInv, Start, Goto, TypeOK, Places
<1>2. SchemaWhole'
  BY DEF SchemaInv, Start, SchemaWhole
<1> QED BY <1>1, <1>2, Undisturbed DEF SchemaInv, Start, Goto, TypeOK

LEMMA BeginFailsStep ==
    ASSUME SchemaInv, NEW s \in Servers, BeginFails(s) PROVE SchemaInv'
<1>1. TypeOK'
  BY StartupAssumption DEF SchemaInv, BeginFails, Goto, Fault, TypeOK, Places
<1>2. SchemaWhole'
  BY DEF SchemaInv, BeginFails, SchemaWhole
<1> QED BY <1>1, <1>2, Undisturbed DEF SchemaInv, BeginFails, Goto, TypeOK

LEMMA ApplyFailsStep ==
    ASSUME SchemaInv, NEW s \in Servers, ApplyFails(s) PROVE SchemaInv'
<1>1. TypeOK'
  BY StartupAssumption DEF SchemaInv, ApplyFails, Leave, Fault, TypeOK, Places
<1>2. SchemaWhole'
  BY DEF SchemaInv, ApplyFails, SchemaWhole
<1> QED BY <1>1, <1>2, Undisturbed DEF SchemaInv, ApplyFails, Leave, TypeOK

LEMMA KillStep ==
    ASSUME SchemaInv, NEW s \in Servers, Kill(s) PROVE SchemaInv'
<1>1. TypeOK'
  BY StartupAssumption DEF SchemaInv, Kill, Leave, Fault, TypeOK, Places
<1>2. SchemaWhole'
  BY DEF SchemaInv, Kill, SchemaWhole
<1> QED BY <1>1, <1>2, Undisturbed DEF SchemaInv, Kill, Leave, TypeOK

LEMMA CheckpointStep ==
    ASSUME SchemaInv, Checkpoint PROVE SchemaInv'
<1>1. TypeOK'
  BY DEF SchemaInv, Checkpoint, TypeOK, bounds
<1>2. SchemaWhole'
  BY DEF SchemaInv, Checkpoint, SchemaWhole
<1> QED BY <1>1, <1>2, Undisturbed DEF SchemaInv, Checkpoint

\* The file may go back to an older version, but then nobody is left who has
\* read the newer one.
LEMMA PowerFailsStep ==
    ASSUME SchemaInv, PowerFails PROVE SchemaInv'
<1>1. TypeOK'
  BY StartupAssumption DEF SchemaInv, PowerFails, Fault, TypeOK, Places
<1>2. SchemaWhole'
  BY DEF SchemaInv, PowerFails, SchemaWhole
<1>3. \A r \in Servers : at'[r] = "off"
  BY DEF PowerFails
<1> QED
  BY <1>1, <1>2, <1>3 DEF SchemaInv, OneMigrates, ReadsOld, AppliesScript, CommitsNext,
     HasItsRelease, Writing, Passed

LEMMA ReadVersionStep ==
    ASSUME SchemaInv, NEW s \in Servers, ReadVersion(s) PROVE SchemaInv'
BY VersionNumbers, VersionFacts DEF ReadVersion, Goto, bounds, TypeOK, Places, Db,
   SchemaInv, SchemaWhole, OneMigrates, ReadsOld, AppliesScript, CommitsNext,
   HasItsRelease, Missing, Version, Writing, Passed

\* The steps of the lifespan and of a server at work move between places where
\* no migration is under way.
LEMMA ServingStep ==
    ASSUME SchemaInv, NEW s \in Servers,
           \/ Migrated(s) \/ Bind(s) \/ BindFails(s)
           \/ EndWrite(s) \/ Stop(s) \/ Close(s)
    PROVE  SchemaInv'
<1> USE VersionNumbers, VersionFacts DEF Goto, Leave, bounds, TypeOK, Places, Db,
    SchemaInv, SchemaWhole, OneMigrates, ReadsOld, AppliesScript, CommitsNext,
    HasItsRelease, Missing, Version, Writing, Passed
<1>1. CASE Migrated(s)
  BY <1>1 DEF Migrated
<1>2. CASE Bind(s)
  BY <1>2 DEF Bind
<1>3. CASE BindFails(s)
  BY <1>3 DEF BindFails
<1>4. CASE EndWrite(s)
  BY <1>4 DEF EndWrite
<1>5. CASE Stop(s)
  BY <1>5 DEF Stop
<1>6. CASE Close(s)
  BY <1>6 DEF Close
<1> QED BY <1>1, <1>2, <1>3, <1>4, <1>5, <1>6

LEMMA BeginWriteStep ==
    ASSUME SchemaInv, NEW s \in Servers, BeginWrite(s) PROVE SchemaInv'
<1>1. TypeOK'
  BY DEF SchemaInv, BeginWrite, TypeOK, bounds
<1>2. SchemaWhole'
  BY DEF SchemaInv, BeginWrite, SchemaWhole
<1>3. \A r \in Servers : at[r] \notin Writing
  BY OnlyHolder DEF BeginWrite, Writing
<1>4. OneMigrates' /\ AppliesScript' /\ CommitsNext'
  BY <1>3 DEF BeginWrite, OneMigrates, AppliesScript, CommitsNext, Writing
<1>5. ReadsOld'
  BY DEF SchemaInv, BeginWrite, ReadsOld
<1>6. HasItsRelease'
  BY DEF SchemaInv, BeginWrite, HasItsRelease, Missing
<1> QED BY <1>1, <1>2, <1>4, <1>5, <1>6 DEF SchemaInv

------------------------------------------------------------------------------
(* The migration                                                            *)

LEMMA BeginStep ==
    ASSUME SchemaInv, NEW s \in Servers, Begin(s) PROVE SchemaInv'
<1>1. TypeOK'
  BY DEF SchemaInv, Begin, Goto, TypeOK, Places, bounds
<1>2. SchemaWhole'
  BY DEF SchemaInv, Begin, SchemaWhole
<1>3. \A r \in Servers : r # s => at'[r] = at[r] /\ at[r] \notin Writing
  BY OnlyHolder DEF SchemaInv, Begin, Goto, TypeOK
<1>4. at'[s] = "applying" /\ lock' = s /\ at[s] = "migrating"
  BY DEF SchemaInv, Begin, Goto, TypeOK
<1>5. OneMigrates' /\ CommitsNext'
  BY <1>3, <1>4 DEF OneMigrates, CommitsNext, Writing
<1>6. ReadsOld'
  BY <1>3, <1>4 DEF SchemaInv, Begin, ReadsOld, Writing, Passed
<1>7. AppliesScript'
  <2>1. /\ Missing(s)' /\ next'[s] = 1 /\ work' = file /\ file' = file
        /\ Version(s)' = Version(s)
    BY DEF SchemaInv, Begin, Missing, Version, TypeOK
  <2>2. Version(s) \in Versions /\ Statements[Version(s)] \in Nat \ {0}
    BY MissingVersion, VersionFacts DEF SchemaInv, Begin
  <2>3. file = [version |-> file.version, seeds |-> file.seeds,
                applied |-> file.applied \cup {Version(s)} \X (1..(1 - 1))]
    BY DEF SchemaInv, TypeOK, Db
  <2> QED BY <1>3, <1>4, <2>1, <2>2, <2>3 DEF AppliesScript, Writing
<1>8. HasItsRelease'
  BY <1>3, <1>4 DEF SchemaInv, Begin, HasItsRelease, Missing, Passed
<1> QED BY <1>1, <1>2, <1>5, <1>6, <1>7, <1>8 DEF SchemaInv

\* A statement that can be executed shows that the version read was the file's.
LEMMA AppliesFresh ==
    ASSUME SchemaInv, NEW s \in Servers, More(s), Statement(s) \notin work.applied
    PROVE  current[s] = file.version
<1>1. /\ at[s] = "applying" /\ Missing(s) /\ next[s] \in Nat \ {0}
      /\ next[s] > 1 => current[s] = file.version
      /\ file.applied \subseteq work.applied
  BY DEF SchemaInv, More, AppliesScript, TypeOK
<1>2. /\ Version(s) \in Versions /\ Version(s) = current[s] + 1 /\ current[s] \in Nat
      /\ Statements[Version(s)] \in Nat \ {0}
  BY <1>1, MissingVersion, VersionFacts DEF SchemaInv
<1>3. CASE next[s] = 1
  <2>1. file.applied = Script(file.version)
    BY DEF SchemaInv, SchemaWhole, Schema
  <2>2. ~(Version(s) <= file.version)
    BY <1>1, <1>2, <1>3, <2>1, ScriptElements DEF Statement
  <2>3. current[s] <= file.version /\ file.version \in Nat
    BY <1>1, VersionNumbers DEF SchemaInv, ReadsOld, Writing, TypeOK, Db
  <2> QED BY <1>2, <2>2, <2>3
<1> QED BY <1>1, <1>3

LEMMA ApplyStep ==
    ASSUME SchemaInv, NEW s \in Servers, Apply(s) PROVE SchemaInv'
<1>1. at[s] = "applying" /\ lock = s /\ Missing(s) /\ next[s] \in Nat \ {0}
  BY DEF SchemaInv, Apply, More, AppliesScript, OneMigrates, Writing, TypeOK
<1>2. /\ Version(s) \in Versions /\ Version(s) \in Nat
      /\ Statements[Version(s)] \in Nat \ {0}
  BY <1>1, MissingVersion, VersionFacts, VersionNumbers DEF SchemaInv
<1>3. current[s] = file.version
  BY AppliesFresh DEF Apply
<1>4. TypeOK'
  <2>1. Statement(s) \in Versions \X Nat
    BY <1>1, <1>2 DEF Statement
  <2>2. work' \in Db
    BY <2>1 DEF SchemaInv, TypeOK, Apply, Db
  <2> QED BY <1>1, <2>2 DEF SchemaInv, Apply, TypeOK, bounds
<1>5. \A r \in Servers : r # s => at[r] \notin Writing
  BY <1>1, OnlyHolder
<1>6. AppliesScript'
  <2>1. /\ next'[s] = next[s] + 1 /\ next[s] <= Statements[Version(s)]
        /\ at' = at /\ current' = current /\ file' = file
    BY DEF SchemaInv, Apply, More, TypeOK
  <2>2. work = [version |-> file.version, seeds |-> file.seeds,
                applied |-> file.applied \cup {Version(s)} \X (1..(next[s] - 1))]
    BY <1>1 DEF SchemaInv, AppliesScript
  <2>3. {Version(s)} \X (1..next[s])
          = {Version(s)} \X (1..(next[s] - 1)) \cup {<<Version(s), next[s]>>}
    <3>1. 1..next[s] = (1..(next[s] - 1)) \cup {next[s]}
      BY <1>1
    <3> QED BY <3>1
  <2>4. work' = [version |-> file.version, seeds |-> file.seeds,
                 applied |-> file.applied \cup {Version(s)} \X (1..next[s])]
    BY <2>2, <2>3 DEF Apply, Statement
  <2>5. Missing(s)' /\ Version(s)' = Version(s) /\ next'[s] - 1 = next[s]
    BY <1>1, <2>1 DEF Missing, Version
  <2>6. next'[s] \in 1..(Statements[Version(s)] + 1)
    BY <1>1, <1>2, <2>1
  <2>7. /\ Missing(s)'
        /\ next'[s] \in 1..(Statements[Version(s)'] + 1)
        /\ current'[s] = file'.version
        /\ work' = [version |-> file'.version, seeds |-> file'.seeds,
                    applied |-> file'.applied \cup {Version(s)'} \X (1..(next'[s] - 1))]
    BY <1>3, <2>1, <2>4, <2>5, <2>6
  <2> QED BY <1>5, <2>1, <2>7 DEF AppliesScript, Writing
<1>7. SchemaWhole' /\ OneMigrates' /\ ReadsOld' /\ HasItsRelease'
  BY DEF SchemaInv, Apply, SchemaWhole, OneMigrates, ReadsOld, HasItsRelease, Missing
<1>8. CommitsNext'
  BY <1>1, <1>5 DEF Apply, CommitsNext, Writing
<1> QED BY <1>4, <1>6, <1>7, <1>8 DEF SchemaInv

LEMMA FinishStep ==
    ASSUME SchemaInv, NEW s \in Servers, Finish(s) PROVE SchemaInv'
<1>1. /\ at[s] = "applying" /\ lock = s /\ Missing(s)
      /\ at' = [at EXCEPT ![s] = "committing"]
  BY DEF SchemaInv, Finish, Goto, AppliesScript, OneMigrates, Writing
<1>2. /\ Version(s) \in Versions /\ Version(s) = current[s] + 1 /\ current[s] \in Nat
      /\ Statements[Version(s)] \in Nat \ {0}
  BY <1>1, MissingVersion, VersionFacts DEF SchemaInv
<1>3. next[s] = Statements[Version(s)] + 1 /\ next[s] > 1
  BY <1>1, <1>2 DEF SchemaInv, AppliesScript, Finish, More
<1>4. /\ current[s] = file.version
      /\ work = [version |-> file.version, seeds |-> file.seeds,
                 applied |-> file.applied \cup {Version(s)} \X (1..(next[s] - 1))]
  BY <1>1, <1>3 DEF SchemaInv, AppliesScript
<1>5. work' = Schema(Version(s))
  <2>1. file.applied = Script(current[s]) /\ file.seeds = IF current[s] = 0 THEN 0 ELSE 1
    BY <1>4 DEF SchemaInv, SchemaWhole, Schema
  <2>2. next[s] - 1 = Statements[current[s] + 1]
    BY <1>2, <1>3
  <2>3. work.applied = Script(Version(s))
    BY <1>1, <1>2, <1>4, <2>1, <2>2, ScriptNext DEF SchemaInv, TypeOK
  <2>4. (IF Version(s) = 1 THEN work.seeds + 1 ELSE work.seeds) = 1
    BY <1>2, <1>4, <2>1
  <2>5. work' = [version |-> Version(s), applied |-> work.applied,
                 seeds |-> IF Version(s) = 1 THEN work.seeds + 1 ELSE work.seeds]
    BY <1>4 DEF Finish
  <2>6. Version(s) # 0
    BY <1>2
  <2> QED BY <2>3, <2>4, <2>5, <2>6 DEF Schema
<1>6. TypeOK'
  <2>1. work' \in Db
    BY <1>2, <1>5, SchemaType
  <2> QED BY <1>1, <2>1 DEF SchemaInv, Finish, TypeOK, Places, bounds
<1>7. \A r \in Servers : r # s => at'[r] = at[r] /\ at[r] \notin Writing
  BY <1>1, OnlyHolder DEF SchemaInv, TypeOK
<1>8. at'[s] = "committing"
  BY <1>1 DEF SchemaInv, TypeOK
<1>9. CommitsNext'
  <2>1. current' = current /\ file' = file
    BY DEF Finish
  <2>2. Missing(s)' /\ Version(s)' = Version(s)
    BY <1>1, <2>1 DEF Missing, Version
  <2>3. work' = Schema(Version(s))'
    BY <1>5, <2>2 DEF Schema, Script
  <2> QED BY <1>4, <1>7, <2>1, <2>2, <2>3 DEF CommitsNext, Writing
<1>10. SchemaWhole' /\ OneMigrates' /\ AppliesScript'
  BY <1>1, <1>7, <1>8 DEF SchemaInv, Finish, SchemaWhole, OneMigrates, AppliesScript, Writing
<1>11. ReadsOld' /\ HasItsRelease'
  BY <1>1, <1>7, <1>8
     DEF SchemaInv, Finish, ReadsOld, HasItsRelease, Missing, Writing, Passed
<1> QED BY <1>6, <1>9, <1>10, <1>11 DEF SchemaInv

LEMMA CommitStep ==
    ASSUME SchemaInv, NEW s \in Servers, Commit(s) PROVE SchemaInv'
<1>1. /\ at[s] = "committing" /\ at' = [at EXCEPT ![s] = "migrating"]
      /\ lock = s /\ Missing(s) /\ current[s] = file.version
      /\ file' = Schema(Version(s)) /\ current' = [current EXCEPT ![s] = Version(s)]
  BY DEF SchemaInv, Commit, Goto, OneMigrates, CommitsNext, Writing
<1>2. Version(s) \in Versions /\ Version(s) = current[s] + 1 /\ current[s] \in Nat
  BY <1>1, MissingVersion DEF SchemaInv
<1>3. TypeOK'
  BY <1>1, <1>2 DEF SchemaInv, Commit, TypeOK, Places, bounds
<1>4. file'.version = Version(s)
  BY <1>1 DEF Schema
<1>5. SchemaWhole'
  BY <1>1, <1>4 DEF SchemaInv, Commit, SchemaWhole, Schema, Script
<1>6. \A r \in Servers : /\ at'[r] \notin Writing
                         /\ r # s => at'[r] = at[r] /\ current'[r] = current[r]
  BY <1>1, OnlyHolder DEF SchemaInv, TypeOK, Writing
<1>7. at'[s] = "migrating" /\ current'[s] = Version(s)
  BY <1>1 DEF SchemaInv, TypeOK
<1>8. OneMigrates' /\ AppliesScript' /\ CommitsNext'
  BY <1>6 DEF OneMigrates, AppliesScript, CommitsNext, Writing
<1>9. ReadsOld'
  <2> SUFFICES ASSUME NEW r \in Servers, at'[r] \in {"migrating"} \cup Writing \cup Passed
               PROVE  current'[r] <= file'.version
    BY DEF ReadsOld
  <2>1. CASE r = s
    BY <1>2, <1>4, <1>7, <2>1
  <2>2. CASE r # s
    <3>1. current[r] <= current[s] /\ current'[r] = current[r]
      BY <1>1, <1>6, <2>2 DEF SchemaInv, ReadsOld
    <3>2. current[r] \in Nat
      BY VersionNumbers DEF SchemaInv, TypeOK
    <3> QED BY <1>2, <1>4, <3>1, <3>2
  <2> QED BY <2>1, <2>2
<1>10. HasItsRelease'
  BY <1>6, <1>7 DEF SchemaInv, HasItsRelease, Missing, Passed
<1> QED BY <1>3, <1>5, <1>8, <1>9, <1>10 DEF SchemaInv

------------------------------------------------------------------------------
(* The theorems                                                             *)

\* SchemaInv holds at all times.
THEOREM SchemaInvariance == Spec => []SchemaInv
<1>1. SchemaInv /\ [Next]_vars => SchemaInv'
  <2> SUFFICES ASSUME SchemaInv, [Next]_vars PROVE SchemaInv'
    OBVIOUS
  <2>1. CASE UNCHANGED vars
    BY <2>1, Undisturbed DEF vars, SchemaInv, SchemaWhole, TypeOK
  <2>2. CASE Checkpoint \/ PowerFails
    BY <2>2, CheckpointStep, PowerFailsStep
  <2>3. ASSUME NEW s \in Servers, \/ Start(s) \/ Proceed(s) \/ BeginWrite(s)
                                  \/ Stop(s) \/ BeginFails(s) \/ Kill(s)
        PROVE  SchemaInv'
    <3>1. CASE Start(s) \/ BeginFails(s) \/ ApplyFails(s) \/ Kill(s)
      BY <3>1, StartStep, BeginFailsStep, ApplyFailsStep, KillStep
    <3>2. CASE ReadVersion(s) \/ Begin(s) \/ Apply(s) \/ Finish(s) \/ Commit(s)
      BY <3>2, ReadVersionStep, BeginStep, ApplyStep, FinishStep, CommitStep
    <3>3. CASE \/ Migrated(s) \/ Bind(s) \/ BindFails(s)
               \/ EndWrite(s) \/ Stop(s) \/ Close(s)
      BY <3>3, ServingStep
    <3>4. CASE BeginWrite(s)
      BY <3>4, BeginWriteStep
    <3> QED BY <2>3, <3>1, <3>2, <3>3, <3>4 DEF Proceed
  <2> QED BY <2>1, <2>2, <2>3 DEF Next
<1> QED BY <1>1, SchemaInvInit, PTL DEF Spec

\* A file, and what a power failure leaves of it, has the whole of the scripts
\* up to its version and nothing else (migrate, _split_statements of db.py).
THEOREM SchemaAlwaysWhole == Spec => []SchemaWhole
<1>1. SchemaInv => SchemaWhole
  BY DEF SchemaInv
<1> QED BY <1>1, SchemaInvariance, PTL

\* Whoever got past migrate() has all that its release needs in the file, though
\* others migrated it further or failed (migrate of db.py, lifespan of app.py).
THEOREM ServersHaveTheirSchema == Spec => []ServesItsSchema
<1>1. SchemaInv => ServesItsSchema
  <2> SUFFICES ASSUME SchemaInv, NEW s \in Servers, at[s] \in Passed
               PROVE  Script(Known[s]) \subseteq file.applied
    BY DEF ServesItsSchema, Passed
  <2>1. file.version \in Versions \cup {0} /\ current[s] \in Versions \cup {0}
    BY DEF SchemaInv, TypeOK, Db
  <2>2. Known[s] \in Versions /\ Known[s] <= current[s] /\ current[s] <= file.version
    BY <2>1, VersionNumbers, VersionFacts DEF SchemaInv, HasItsRelease, ReadsOld, Missing
  <2>3. Known[s] <= file.version
    BY <2>1, <2>2, VersionNumbers
  <2>4. Script(Known[s]) \subseteq Script(file.version)
    BY <2>1, <2>2, <2>3, ScriptGrows
  <2>5. file.applied = Script(file.version)
    BY DEF SchemaInv, SchemaWhole, Schema
  <2> QED BY <2>4, <2>5
<1> QED BY <1>1, SchemaInvariance, PTL

\* The types of the variables; the version a process read is one there is.
THEOREM StartupTypes == Spec => []TypeOK
<1>1. SchemaInv => TypeOK
  BY DEF SchemaInv
<1> QED BY <1>1, SchemaInvariance, PTL
==============================================================================
