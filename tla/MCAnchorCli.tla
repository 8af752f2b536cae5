----------------------------- MODULE MCAnchorCli -----------------------------
(* Two threads that serve edits are interchangeable.  The files are right ones, *)
(* and one for each rule that a file can break; the others' edits move, disable, *)
(* add and remove anchors and switch the telemetry.                             *)
EXTENDS AnchorCli, TLC

CONSTANTS a1, a2, bad, off, on

Enter(a, t, e) == [id |-> a, at |-> t, enabled |-> e]

MCDocuments == {
    <<Enter(a1, 0, TRUE)>>,
    <<Enter(a1, 7, TRUE), Enter(a2, -5, FALSE)>>,
    \* these round into the range
    <<Enter(a1, 14, TRUE)>>, <<Enter(a1, -14, TRUE)>>,
    << >>,
    <<Enter(a1, 0, TRUE), Enter(a1, 10, TRUE)>>,
    <<Enter(bad, 0, TRUE)>>,
    <<Enter(a1, 0, TRUE), Enter(a2, 0, TRUE), Enter(bad, 0, TRUE)>> }

MCPlaces == -1..1

At(p, e) == [at |-> p, enabled |-> e]

MCEdits ==
    [op : {"put"}, table : {a1 :> At(1, TRUE), a1 :> At(0, FALSE), a2 :> At(-1, TRUE)}]
      \cup [op : {"bulk"}, table : {a1 :> At(1, TRUE) @@ a2 :> At(-1, FALSE)}]
      \cup [op : {"telemetry"}, to : Telemetries]

Threads == Permutations(Workers)
==============================================================================
