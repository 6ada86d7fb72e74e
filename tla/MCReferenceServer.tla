------------------------- MODULE MCReferenceServer -------------------------
(***************************************************************************)
(* A small orchestrator: a case of two turns and a case of one turn in one *)
(* project, and a key of this and of another project.                      *)
(***************************************************************************)
EXTENDS ReferenceServer, TLC

CONSTANTS c1, c2, k1, k2, p1, p2

ScriptLengths == (c1 :> 2) @@ (c2 :> 1)

OneProject == [c \in {c1, c2} |-> p1]
TwoKeys == (k1 :> p1) @@ (k2 :> p2)

\* Runners and idempotency keys are only ever compared.
Symmetry == Permutations(Runners) \union Permutations(IdemKeys)
=============================================================================
