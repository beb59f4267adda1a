--------------------------- MODULE PhaseLifecycle ---------------------------
(***************************************************************************)
(* What the orchestrators promise of a job's phases (Orchestrator in       *)
(* base.py and the statuses of phase_models.py): a phase begins only when  *)
(* its prerequisites are met, ends from in_progress alone, a schema design *)
(* that has ended is completed only out of its review, and every phase     *)
(* keeps the status it has while another is at work.                       *)
(***************************************************************************)
EXTENDS Phases

VARIABLE status

NotStarted == [p \in Phase |-> "not_started"]

(* The phases that leave artifacts a fresh progression is inferred from.   *)
Inferable == {"collect_triage", "analysis", "assignment", "reality_check"}

Met(p) ==
    \A q \in Prerequisites(p) :
        \/ status[q] = "completed"
        \/ SkipAccepted(p, q) /\ status[q] = "skipped"

Outcomes(p) ==
    {"completed", "failed"}
        \cup (IF p \in FanOutPhases THEN {"awaiting_review"} ELSE {})
        \cup (IF p = "schema_design" THEN {"skipped"} ELSE {})

Init == status = NotStarted

Infer ==
    /\ status = NotStarted
    /\ \E done \in SUBSET Inferable :
          status' = [p \in Phase |-> IF p \in done THEN "completed" ELSE "not_started"]

(* A new job under the same id starts over.                                *)
Restart == status' = [NotStarted EXCEPT !["collect_triage"] = "in_progress"]

Begin(p) ==
    /\ Met(p)
    /\ status' = [status EXCEPT ![p] = "in_progress"]

End(p) ==
    /\ status[p] = "in_progress"
    /\ \E s \in Outcomes(p) : status' = [status EXCEPT ![p] = s]

(* The review of the schemas: the user confirms them, or                   *)
(* run_assessment.py --all goes on to the synthesis.                       *)
Confirm ==
    /\ status["schema_design"] = "awaiting_review"
    /\ status' = [status EXCEPT !["schema_design"] = "completed"]

(* run_assessment.py records the reality check it ran itself, and the      *)
(* review.                                                                 *)
AdoptReview ==
    status' = [status EXCEPT !["reality_check"] = "completed",
                             !["assignment_review"] = "completed"]

Next ==
    \/ Infer \/ Restart \/ Confirm \/ AdoptReview
    \/ \E p \in Phase : Begin(p) \/ End(p)

Spec == Init /\ [][Next]_status
=============================================================================
