----------------------------- MODULE MCStartup -----------------------------
(* Two servers of the current release and one of the release before it, with *)
(* scripts of two, two and one statements.                                   *)
EXTENDS Startup, Sequences, TLC

CONSTANTS s1, s2, s3

MCStatements == <<2, 2, 1>>
MCKnown == s1 :> 3 @@ s2 :> 3 @@ s3 :> 2
============================================================================
