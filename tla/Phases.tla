------------------------------- MODULE Phases -------------------------------
(***************************************************************************)
(* The phase contract of the assessment pipeline: the phases, the statuses *)
(* a phase record takes, which phase must be done before which, and the    *)
(* one way a record is rewritten.  Everything here is a constant-level     *)
(* operator; the modules that keep a progression in a variable use them.   *)
(*                                                                         *)
(* Of a PhaseRecord the model keeps what a later step reads: its status,   *)
(* why it was skipped, and whether it carries an error message.            *)
(* Timestamps, iteration counts and current_phase (which no code reads to  *)
(* decide anything) are left out.                                          *)
(***************************************************************************)

Phase == {"collect_triage", "analysis", "assignment", "reality_check",
          "assignment_review", "schema_design", "load_test", "synthesis"}

PhaseStatus == {"not_started", "in_progress", "completed", "failed",
                "awaiting_review", "skipped"}

SkipReason == {"none", "no_llm"}

PhaseRecord == [status : PhaseStatus, skip : SkipReason, error : BOOLEAN]

(* Only schema design is ever skipped, and only a skipped record says why. *)
Progression ==
    {prog \in [Phase -> PhaseRecord] :
        \A p \in Phase : prog[p].skip # "none" =>
            p = "schema_design" /\ prog[p].status = "skipped"}

(* PHASE_PREREQUISITES.  Every list in the code holds at most one phase.   *)
Prerequisites(p) ==
    CASE p = "collect_triage"    -> {}
      [] p = "analysis"          -> {"collect_triage"}
      [] p = "assignment"        -> {"analysis"}
      [] p = "reality_check"     -> {"assignment"}
      [] p = "assignment_review" -> {"reality_check"}
      [] p = "schema_design"     -> {"assignment_review"}
      [] OTHER                   -> {"schema_design"}

(* SKIP_SATISFIES_PREREQUISITE: the one skip a later phase accepts.        *)
SkipAccepted(p, q) == p = "synthesis" /\ q = "schema_design"

(* _prerequisite_met: COMPLETED, or skipped for the reason p accepts.      *)
PrerequisiteMet(prog, p, q) ==
    \/ prog[q].status = "completed"
    \/ /\ SkipAccepted(p, q)
       /\ prog[q].status = "skipped"
       /\ prog[q].skip = "no_llm"

Unmet(prog, p) == {q \in Prerequisites(p) : ~PrerequisiteMet(prog, p, q)}

NewProgression ==
    [p \in Phase |-> [status |-> "not_started", skip |-> "none", error |-> FALSE]]

(***************************************************************************)
(* _set_phase_status.  A skip reason is kept only by a skipped record; an  *)
(* error message is set by a failure and never taken back.                 *)
(***************************************************************************)
SetPhaseStatusKeepingSkip(prog, p, status, skip) ==    \* a mutant of the next
    [prog EXCEPT ![p] =
        [status |-> status,
         skip   |-> IF status = "skipped" THEN skip ELSE @.skip,
         error  |-> @.error \/ status = "failed"]]

SetPhaseStatus(prog, p, status, skip) ==
    [prog EXCEPT ![p] =
        [status |-> status,
         skip   |-> IF status = "skipped" THEN skip ELSE "none",
         error  |-> @.error \/ status = "failed"]]

(* The names scripts/run_*.py give their own phases: collect and triage    *)
(* are two scripts and one phase of the orchestrator.                      *)
ScriptPhase == (Phase \ {"collect_triage"}) \cup {"collect", "triage"}

(* _SCRIPT_PHASES_FOR                                                      *)
ScriptPhasesFor(p) ==
    IF p = "collect_triage" THEN <<"collect", "triage">> ELSE <<p>>

FanOutPhases == {"analysis", "schema_design"}
=============================================================================
