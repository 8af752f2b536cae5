------------------------------ MODULE PageView ------------------------------
(***************************************************************************)
(* What the page promises its user, whatever the network does: it shows    *)
(* the source that is selected, a live tag or a stored session, or nothing *)
(* until that has come.  Client implements it.                             *)
(*                                                                         *)
(* While the first answer to a selected tag is due, frames of tags watched *)
(* before may still arrive on the same connection and be shown; a stored   *)
(* session never shows anything else, and may fail to load.                *)
(***************************************************************************)
CONSTANTS None, Tags, Sessions

Sources == Tags \cup Sessions

VARIABLES
    source,  \* what is selected
    shown,   \* whose data is shown, None for nothing
    due      \* the answer to the selection is not yet here

vars == <<source, shown, due>>

Init ==
    /\ source \in Sources
    /\ shown = None
    /\ due = TRUE

(* What was shown is never shown as what is now selected.                   *)
Select(s) ==
    /\ source' = s
    /\ shown' = None
    /\ due' = TRUE

Answer ==
    /\ shown' = source
    /\ due' = FALSE
    /\ UNCHANGED source

Fail ==
    /\ source \in Sessions /\ due
    /\ due' = FALSE
    /\ UNCHANGED <<source, shown>>

Straggler ==
    /\ source \in Tags /\ due
    /\ shown' \in Tags
    /\ UNCHANGED <<source, due>>

Next ==
    \/ \E s \in Sources : Select(s)
    \/ Answer \/ Fail \/ Straggler

(* A selection is answered, unless another takes its place.                 *)
Answered ==
    \A s \in Sources : (due /\ source = s) ~> (~due \/ source # s)

Spec == Init /\ [][Next]_vars /\ Answered

=============================================================================
