-------------------------- MODULE MCAssignmentFlow --------------------------
(***************************************************************************)
(* Instances of AssignmentFlow for TLC.  The engines are alike, and so are *)
(* the queries that write the table: nothing orders them, the invariants   *)
(* quantify over all of them, and no liveness is checked.                  *)
(***************************************************************************)
EXTENDS AssignmentFlow, TLC

Symmetric == Permutations(Engines) \cup Permutations(WriteGroup)
=============================================================================
