------------------------------ MODULE LivePage ------------------------------
(***************************************************************************)
(* What the live page keeps of one subscription (static/js/main.js and     *)
(* SessionData in static/js/model.js) and how a frame changes it.  No      *)
(* state of its own: LiveHub lets its pages receive the frames it          *)
(* broadcasts through these operators.                                     *)
(*                                                                         *)
(* A frame is a record with type, boot, sid, rev, active and cycles; the   *)
(* fields a type does not carry are not read for it.  A cycle is           *)
(* [n: its unwrapped seq, t: its unwrapped time, dt: the time since the    *)
(* cycle just before it or None, r: its range count].                      *)
(***************************************************************************)
EXTENDS Integers, Sequences, SequencesExt, FiniteSetsExt

CONSTANTS
    None,      \* null
    Trail      \* TRAIL_MS: what the page keeps, and the history it asks for

Page == [boot |-> None, sid |-> None, rev |-> None, active |-> FALSE,
         data |-> << >>]

(* SessionData.append: the first cycles are skipped until one is newer than *)
(* the last one shown.                                                      *)
Joined(data, cycles) ==
    IF data = << >> THEN cycles
    ELSE LET newer == {i \in 1..Len(cycles) : cycles[i].n > Last(data).n}
         IN  data \o SubSeq(cycles, Min(newer \cup {Len(cycles) + 1}), Len(cycles))

(* SessionData.trimBefore(lastT - TRAIL_MS), whose binary search finds the  *)
(* first cycle to keep as long as t ascends, as it does in what a tag sends.*)
Trimmed(data) ==
    LET kept == {i \in 1..Len(data) : data[i].t >= Last(data).t - Trail}
    IN  IF data = << >> THEN data ELSE SubSeq(data, Min(kept), Len(data))

OnSnapshot(p, f) ==
    [boot |-> f.boot, sid |-> f.sid, rev |-> f.rev, active |-> f.active,
     data |-> f.cycles]

(* The same boot coming back keeps its trail.                               *)
OnSessionStart(p, f) ==
    [boot |-> f.boot, sid |-> f.sid, rev |-> f.rev, active |-> TRUE,
     data |-> IF f.boot = p.boot THEN p.data ELSE << >>]

OnAppend(p, f) ==
    IF p.boot # None /\ f.boot # p.boot THEN p
    ELSE [p EXCEPT !.sid = IF f.sid # None THEN f.sid ELSE @,
                   !.data = Trimmed(Joined(@, f.cycles))]

(* Only `active' changes: the session_id of the frame is not read.          *)
OnSessionEnd(p, f) ==
    IF f.boot = p.boot THEN [p EXCEPT !.active = FALSE] ELSE p

OnSessionInfo(p, f) ==
    IF f.boot # p.boot THEN p
    ELSE [p EXCEPT !.sid = IF f.sid # None THEN f.sid ELSE @,
                   !.rev = IF f.rev # None THEN f.rev ELSE @]

(* onFrame *)
OnFrame(p, f) ==
    CASE f.type = "snapshot"      -> OnSnapshot(p, f)
      [] f.type = "session_start" -> OnSessionStart(p, f)
      [] f.type = "append"        -> OnAppend(p, f)
      [] f.type = "session_end"   -> OnSessionEnd(p, f)
      [] f.type = "session_info"  -> OnSessionInfo(p, f)

=============================================================================
