----------------------------- MODULE MCJobQueue -----------------------------
(* Instances of JobQueue for TLC. *)
EXTENDS JobQueue, TLC

CONSTANTS r1, r2, seal, extract, app, tool, w1, w2

\* The app runs worker w1, the drain binary runs w2.
HomeTwo == (w1 :> app) @@ (w2 :> tool)
HomeSolo == w1 :> app
PriorityDef == (seal :> 1) @@ (extract :> 5)

RowSymmetry == Permutations(RowIds)
=============================================================================
