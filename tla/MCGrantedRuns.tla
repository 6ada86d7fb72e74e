--------------------------- MODULE MCGrantedRuns ---------------------------
(***************************************************************************)
(* One working directory; one Run of two cases, or two Runs of one case.   *)
(***************************************************************************)
EXTENDS GrantedRuns, TLC

CONSTANTS a1, a2, c1, c2

SharedRun == (c1 :> a1) @@ (c2 :> a1)
SharedScript == (a1 :> <<c1, c2>>)
TwoRuns == (c1 :> a1) @@ (c2 :> a2)
TwoScripts == (a1 :> <<c1>>) @@ (a2 :> <<c2>>)
ScriptLengths == (c1 :> 2) @@ (c2 :> 1)
OneTurn == (c1 :> 1) @@ (c2 :> 1)
=============================================================================
