---------------------------- MODULE MCSchemaFlow ----------------------------
(***************************************************************************)
(* SchemaFlow for TLC.  Nothing tells the engines apart, so the resolver's *)
(* placements are taken up to their names: the first version puts q1 on    *)
(* e1.  (Symmetry would do the same, were there no liveness to check.)     *)
(***************************************************************************)
EXTENDS SchemaFlow

CONSTANTS q1, e1

MCInit == Init /\ asg[1].owner[q1] = e1

MCSpec ==
    /\ MCInit /\ [][Next]_schemaVars
    /\ \A p \in RouterProcs : WF_schemaVars(UNCHANGED <<edits, broken>> /\ RouterStep(p))
=============================================================================
