-------------------------- MODULE MCRunnerSystem --------------------------
(***************************************************************************)
(* Small systems: one or two runners, a case of two turns and a case of    *)
(* one turn.                                                               *)
(***************************************************************************)
EXTENDS RunnerSystem, TLC

CONSTANTS c1, c2

TwoCases == <<c1, c2>>
OneCase == <<c1>>
ScriptLengths == (c1 :> 2) @@ (c2 :> 1)
OneLength == (c1 :> 2)

\* The first turn of c1 comes with an observation request.
Watched == {<<c1, 0>>}

Symmetry == Permutations(Runners)
=============================================================================
