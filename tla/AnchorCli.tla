------------------------------ MODULE AnchorCli ------------------------------
(***************************************************************************)
(* `apply' of tools/anchor_cli.py, the operator's tool that replaces the   *)
(* anchor table by a file, composed with the server of ConfigStore, whose  *)
(* table others edit at the same time.                                     *)
(*                                                                         *)
(* The tool checks the file by the server's rules, GETs the table and      *)
(* compares, and posts the whole file unless nothing differs.  It shares   *)
(* no code with the server, so the rules are here twice: as written in the *)
(* tool and as written in api/schemas.py and units.py.                     *)
(*                                                                         *)
(* A file is a sequence of entries.  Of a coordinate there is one axis: in *)
(* a file in tenths of a millimetre, in the table in millimetres.          *)
(***************************************************************************)
EXTENDS ConfigStore, Integers

CONSTANTS
    Documents,  \* the files an operator may pass
    Edits,      \* bound: the requests of others
    CoordMax,   \* COORD_MM_MAX
    MaxEntries  \* BULK_ANCHORS_MAX

ASSUME CliAssumption ==
    /\ CoordMax \in Nat /\ MaxEntries \in Nat
    /\ Edits \subseteq Requests
    /\ -CoordMax..CoordMax = Places
    /\ \A doc \in Documents :
          /\ Len(doc) \in Nat /\ DOMAIN doc = 1..Len(doc)
          /\ \A i \in DOMAIN doc : doc[i].at \in Int /\ doc[i].enabled \in BOOLEAN

VARIABLES
    cli,     \* the tool: where it is, its file, the thread that serves it
    claims   \* what it said: that the table of a revision is that of a file

cliVars == <<vars, cli, claims>>

Off == [at |-> "off"]

\* ROUND_HALF_UP of decimal: half goes away from zero.
HalfUp(t) == IF t >= 0 THEN (t + 5) \div 10 ELSE -((5 - t) \div 10)

Table(doc) == [a \in {doc[i].id : i \in DOMAIN doc} |->
                LET i == CHOOSE j \in DOMAIN doc : doc[j].id = a
                IN  [at |-> HalfUp(doc[i].at), enabled |-> doc[i].enabled]]

NoIdTwice(doc) == \A i, j \in DOMAIN doc : doc[i].id = doc[j].id => i = j

------------------------------------------------------------------------------
\* _check_document, before anything is sent.
Check(doc) ==
    /\ Len(doc) \in 1..MaxEntries
    /\ NoIdTwice(doc)
    /\ \A i \in DOMAIN doc : /\ doc[i].id \in AnchorIds
                             /\ doc[i].at \in -10 * CoordMax..10 * CoordMax

\* AnchorBulkIn: Meters for a coordinate, check_anchor_id, the count, no id twice.
Accepted(doc) ==
    /\ Len(doc) \in 1..MaxEntries
    /\ \A i \in DOMAIN doc : /\ doc[i].at \in -10 * CoordMax..10 * CoordMax
                             /\ doc[i].id \in AnchorIds
    /\ Cardinality({doc[i].id : i \in DOMAIN doc}) = Len(doc)

\* Bug: anchors that the file leaves out do not count as a change.
Bug_Marked(before, after) ==
    {a \in DOMAIN after : ~(a \in DOMAIN before /\ before[a] = after[a])}

\* The anchors that _print_diff marks: added, removed or changed.
Marked(before, after) ==
    {a \in DOMAIN before \cup DOMAIN after :
        ~(a \in DOMAIN before /\ a \in DOMAIN after /\ before[a] = after[a])}

Claim(doc) == claims' = claims \cup {[db |-> open, rev |-> Rev(work), doc |-> doc]}

------------------------------------------------------------------------------
\* The tool is started on a file; one that fails the check ends it.
Load(doc) ==
    /\ cli = Off
    /\ Check(doc)
    /\ cli' = [at |-> "loaded", doc |-> doc]
    /\ UNCHANGED <<vars, claims>>

\* GET /anchors shows no difference: nothing is sent.
NothingToSend ==
    /\ cli.at = "loaded" /\ lock = NoOne
    /\ Marked(work.anchors, Table(cli.doc)) = {}
    /\ Claim(cli.doc)
    /\ cli' = Off
    /\ UNCHANGED vars

\* There is a difference; with --dry-run, that is all.
ShowDifference ==
    /\ cli.at = "loaded" /\ lock = NoOne
    /\ Marked(work.anchors, Table(cli.doc)) # {}
    /\ \/ cli' = [cli EXCEPT !.at = "posting"]
       \/ cli' = Off
    /\ UNCHANGED <<vars, claims>>

\* POST /anchors:bulk, without a precondition, arrives at a thread: AnchorBulkIn
\* accepts the file and the thread will wait for the lock ...
Post(w) ==
    /\ cli.at = "posting"
    /\ Accepted(cli.doc)
    /\ Ask(w)
    /\ req'[w] = [op |-> "bulk", table |-> Table(cli.doc)]
    /\ cli' = [at |-> "answer", doc |-> cli.doc, by |-> w]
    /\ UNCHANGED claims

\* ... or nobody listens, or the file is refused: exit status 1.
PostFails ==
    /\ cli.at = "posting"
    /\ cli' = Off
    /\ UNCHANGED <<vars, claims>>

Served(w) == cli.at = "answer" /\ cli.by = w

\* The edit is committed and its revision printed, or the answer is lost.
Done(w) ==
    /\ Served(w)
    /\ Commit(w)
    /\ Claim(cli.doc) \/ UNCHANGED claims
    /\ cli' = Off

\* The edit fails: exit status 1, and the operator may try again.
Refused(w) ==
    /\ Served(w)
    /\ BeginFails(w) \/ Fail(w)
    /\ cli' = Off
    /\ UNCHANGED claims

\* The server is killed: the tool's connection breaks.
RestartServer(d) ==
    /\ Restart(d)
    /\ cli' = IF cli.at = "answer" THEN Off ELSE cli
    /\ UNCHANGED claims

Thread(w) ==
    \/ Ask(w) /\ req'[w] \in Edits
    \/ Begin(w) \/ Clear(w) \/ Write(w) \/ AppendRevision(w) \/ WriteSnapshot(w)
    \/ ~Served(w) /\ (BeginFails(w) \/ Commit(w) \/ Fail(w))

CliInit == Init /\ cli = Off /\ claims = {}

CliNext ==
    \/ \E doc \in Documents : Load(doc)
    \/ NothingToSend \/ ShowDifference \/ PostFails
    \/ \E w \in Workers : \/ Post(w) \/ Done(w) \/ Refused(w)
                          \/ Thread(w) /\ UNCHANGED <<cli, claims>>
    \/ \E t \in Tags : (GetConfig(t) \/ Hello(t)) /\ UNCHANGED <<cli, claims>>
    \/ \E d \in Databases : RestartServer(d)

CliSpec == CliInit /\ [][CliNext]_cliVars

------------------------------------------------------------------------------
\* When the tool ends with status 0, having said "no change" or a revision, the
\* server would take the file, and the table of that revision is the file's:
\* however others edit, fail or restart between its requests, and also when an
\* earlier try was applied and its answer lost (_check_document, cmd_apply).
ToldIsTrue ==
    \A c \in claims :
        /\ Accepted(c.doc)
        /\ SnapshotAt(dbs[c.db], c.rev).anchors = Table(c.doc)
==============================================================================
