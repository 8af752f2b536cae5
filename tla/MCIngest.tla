------------------------------ MODULE MCIngest ------------------------------
(***************************************************************************)
(* What the tags measure in the run of Ingest, and what is asked for.      *)
(* Every cycle hears a1, only the later ones a2; the cycles differ in what *)
(* the tag could solve, and where it could not its values are garbage, 9.  *)
(***************************************************************************)
EXTENDS Ingest

CONSTANTS t1, t2, t3, a1, a2

Measured(anchor, status) ==
    [anchor |-> anchor, status |-> status, d |-> IF status = StatusOk THEN 4 ELSE 9,
     el |-> 2, kf |-> 1]

FlagsOf(i) ==
    CASE i % 3 = 0 -> {"ok", "3d", "kf_ok", "kf_init"}
      [] i % 3 = 1 -> {"kf_ok", "kf_updated"}
      [] i % 3 = 2 -> {"ok", "kf_updated"}

MCCycleOf(i) ==
    [flags |-> FlagsOf(i), used |-> i % 2, x |-> IF "ok" \in FlagsOf(i) THEN 1 ELSE 9,
     resid |-> i, kx |-> IF "kf_ok" \in FlagsOf(i) THEN 2 ELSE 9, krej |-> i % 2,
     ranges |-> IF i < 2 THEN <<Measured(a1, i % 2)>>
                ELSE <<Measured(a1, StatusOk), Measured(a2, i % 2)>>]

MCKeys == {<<t1, 1>>, <<t2, 1>>, <<t3, 1>>}

MCLength == [k \in MCKeys |-> IF k[1] = t1 THEN 4 ELSE 1]

MCEnding == {<<t3, 1>>}

(* Far from the wraps and just before them.                                 *)
MCOrigins == {[seq |-> 2, t |-> 0], [seq |-> 5, t |-> 3]}

Ask(from, to, max) == [from |-> from, to |-> to, max |-> max]

MCAsks == {Ask(None, None, 2), Ask(None, None, 3), Ask(1, 5, 2)}

=============================================================================
