------------------------ MODULE MCPhaseOrchestrator ------------------------
(***************************************************************************)
(* Instances of PhaseOrchestrator for TLC, and its refinement of           *)
(* PhaseLifecycle.  The refinement is claimed of calls that do not overlap *)
(* (one process in every role): .meta is read and written back whole, so   *)
(* two overlapping calls can undo each other's statuses.                   *)
(***************************************************************************)
EXTENDS PhaseOrchestrator

StatusOnDisk ==
    [p \in Phase |-> IF meta = NoMeta THEN "not_started" ELSE meta[p].status]

Lifecycle == INSTANCE PhaseLifecycle WITH status <- StatusOnDisk

(***************************************************************************)
(* Calls one after the other step every phase through its life: a phase    *)
(* begins only with its prerequisites met and ends only from in_progress,  *)
(* a failed phase stays failed until it is run again, a schema design is   *)
(* confirmed only out of its review, and nothing else moves.               *)
(***************************************************************************)
LifecycleSpec == Lifecycle!Spec
=============================================================================
