------------------------------ MODULE JobStore ------------------------------
(***************************************************************************)
(* What one job keeps in the artifact store, shared by the processes that  *)
(* work on it: the local API, scripts/run_assessment.py and the            *)
(* scripts/run_*.py entry points.  There is no lock.  One read or one      *)
(* write of one file is atomic (LocalArtifactStore.write_json replaces the *)
(* file); a read followed by a write is two steps.                         *)
(*                                                                         *)
(*   meta     .meta/<job>.json, the orchestrator's PhaseProgression        *)
(*   marker   <db>/<job>/_status.json                                      *)
(*   review   a valid decisions/assignment_review.json exists              *)
(*   arts     the artifacts that exist, by the phase step that writes them *)
(***************************************************************************)
EXTENDS Phases, Sequences, Naturals

CONSTANTS
    Engines,        \* target engines of the fan-out phases
    NoEngine,       \* the engine of a marker of a phase that has none
    AnyEngine,      \* job_status.ANY_ENGINE
    NoMeta,         \* .meta/<job>.json does not exist
    LlmMode,        \* LocalOrchestrator.llm_mode: "none" or "bedrock"
    AnalysisMarked  \* is a selected engine one of the four _infer_progression looks for

ASSUME StoreAssumption ==
    /\ NoEngine \notin Engines
    /\ AnyEngine \notin Engines \cup {NoEngine}
    /\ NoMeta \notin Progression
    /\ LlmMode \in {"none", "bedrock"}
    /\ AnalysisMarked \in BOOLEAN

VARIABLES meta, marker, review, arts

storeVars == <<meta, marker, review, arts>>

Artifact == {"collector", "triage", "analysis", "assignment",
             "reality_check", "schema", "report"}

(***************************************************************************)
(* _status.json                                                            *)
(***************************************************************************)
MarkerStatus == {"ABSENT", "FAILED", "SUPERSEDED", "CANCELLED"}

Marker == [status : MarkerStatus,
           phase  : ScriptPhase \cup {"none"},
           engine : Engines \cup {NoEngine}]

PlainMarker(status) == [status |-> status, phase |-> "none", engine |-> NoEngine]

FailureMarker(phase, engine) ==
    [status |-> "FAILED", phase |-> phase, engine |-> engine]

(* _job_is_real: collect has written its output.                           *)
JobIsReal == "collector" \in arts

(* What clear_failure_marker compares before it supersedes the marker.     *)
Clears(m, phase, engine) ==
    /\ m.status = "FAILED"
    /\ m.phase = phase
    /\ engine = AnyEngine \/ m.engine = engine

(***************************************************************************)
(* _infer_progression: the phases COMPLETED as read off the artifacts.     *)
(* The code asks for ANY marker of a phase, so the collector's output      *)
(* alone completes collect_triage; only four of the six engines' analyses  *)
(* are looked for; and nothing after reality_check is ever inferred.       *)
(***************************************************************************)
InferredPhases ==
    {p \in Phase :
        \/ p = "collect_triage" /\ {"collector", "triage"} \cap arts # {}
        \/ p = "analysis" /\ "analysis" \in arts /\ AnalysisMarked
        \/ p \in {"assignment", "reality_check"} /\ p \in arts}

InferProgression ==
    [p \in Phase |-> [status |-> IF p \in InferredPhases THEN "completed"
                                                         ELSE "not_started",
                      skip   |-> "none",
                      error  |-> FALSE]]

(* _load_progression: the stored progression, or the inferred one.         *)
LoadProgression == IF meta = NoMeta THEN InferProgression ELSE meta

(***************************************************************************)
(* is_assignment_reviewed and .meta's own record of the review gate, the   *)
(* way _is_awaiting_assignment_approval reads the two.                     *)
(***************************************************************************)
ApprovalGiven ==
    \/ meta # NoMeta /\ meta["assignment_review"].status = "completed"
    \/ review

StoreTypeOK ==
    /\ meta \in Progression \cup {NoMeta}
    /\ marker \in Marker
    /\ review \in BOOLEAN
    /\ arts \subseteq Artifact
=============================================================================
