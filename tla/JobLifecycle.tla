---------------------------- MODULE JobLifecycle ----------------------------
(***************************************************************************)
(* One job with everybody who works on it: the API's phase routes and      *)
(* run_assessment.py (PhaseOrchestrator), the scripts (PhaseScripts), and  *)
(* the user who cancels the job through the API.                           *)
(*                                                                         *)
(* The API is one event loop whose handlers do not await: a resume and a   *)
(* cancel never overlap.  The scripts are processes of their own.          *)
(***************************************************************************)
EXTENDS PhaseOrchestrator, PhaseScripts

CONSTANT
    Overlap   \* FALSE: everybody waits for the others to be done

ASSUME LifecycleAssumption ==
    /\ Overlap \in BOOLEAN
    /\ ApiProcs \cap (CliProcs \cup LibProcs) = {}

VARIABLE
    cancelling   \* DELETE /{job} has read the status and is about to write

jobVars == <<storeVars, orchVars, scriptVars, cancelling>>

(***************************************************************************)
(* _infer_status, in the order of its reads.  The waits for an external    *)
(* LLM's answer, which only turn RUNNING into WAITING, are left out.       *)
(***************************************************************************)
InferStatus ==
    CASE marker.status = "CANCELLED" -> "CANCELLED"
      [] marker.status # "CANCELLED" /\ "report" \in arts -> "SUCCEEDED"
      [] OTHER ->
           IF marker.status = "FAILED" THEN "FAILED"
           ELSE IF meta # NoMeta /\ \E p \in Phase : meta[p].status = "failed" THEN "FAILED"
           ELSE IF meta # NoMeta /\ \E p \in Phase : meta[p].status = "awaiting_review"
                THEN "WAITING"
           ELSE IF "assignment" \in arts /\ "schema" \notin arts /\ ~ApprovalGiven THEN "WAITING"
           ELSE "RUNNING"

Terminal == {"SUCCEEDED", "CANCELLED", "FAILED"}

ApiIdle == \A self \in ApiProcs : At(self, "idle")
ScriptsIdle == \A self \in ScriptProcs : InScript(self, "idle")
OthersIdle(self) == \A other \in Procs \ {self} : At(other, "idle")

-----------------------------------------------------------------------------
(* cancel_assessment: describe_execution.  A job that is over, or that has *)
(* no directory, is left as it is.                                         *)
CancelRead ==
    /\ ApiIdle
    /\ ~cancelling
    /\ arts # {} \/ marker.status # "ABSENT"
    /\ InferStatus \notin Terminal
    /\ cancelling' = TRUE
    /\ UNCHANGED <<storeVars, orchVars, scriptVars>>

(* stop_execution *)
CancelWrite ==
    /\ cancelling
    /\ marker' = PlainMarker("CANCELLED")
    /\ cancelling' = FALSE
    /\ UNCHANGED <<meta, review, arts, orchVars, scriptVars>>

Cancel ==
    \/ CancelRead /\ (Overlap \/ (ScriptsIdle /\ \A self \in Procs : At(self, "idle")))
    \/ CancelWrite

OrchestratorStep(self) ==
    /\ self \in ApiProcs => ~cancelling
    /\ Overlap \/ (ScriptsIdle /\ ~cancelling /\ OthersIdle(self))
    /\ Step(self)
    /\ UNCHANGED <<scriptVars, cancelling>>

(* A script that rewrites .meta may be the first to show a phase's         *)
(* prerequisites met.                                                      *)
ScriptActs(self) ==
    /\ Overlap \/ (/\ ~cancelling
                   /\ \A p \in Procs : At(p, "idle")
                   /\ \A other \in ScriptProcs \ {self} : InScript(other, "idle"))
    /\ ScriptStep(self)
    /\ unlocked' = IF meta' = meta THEN unlocked ELSE unlocked \cup Startable(meta')
    /\ UNCHANGED <<orch, calls, cancelling>>

JobInit ==
    /\ ScriptStoreInit
    /\ orch = [self \in Procs |-> Idle]
    /\ calls = 0
    /\ unlocked = Startable(NewProgression)
                    \cup (IF meta = NoMeta THEN {} ELSE Startable(meta))
    /\ ScriptInit
    /\ cancelling = FALSE

JobNext ==
    \/ Cancel
    \/ \E self \in Procs : OrchestratorStep(self)
    \/ \E self \in ScriptProcs : ScriptActs(self)

JobSpec == JobInit /\ [][JobNext]_jobVars

-----------------------------------------------------------------------------
(***************************************************************************)
(* A job that shows as CANCELLED is one no API process is working on, nor  *)
(* will start to: cancelling blocks any further API-driven phase.          *)
(***************************************************************************)
CancelledStopsApi == marker.status = "CANCELLED" => ApiIdle

(* "a cancelled job must never flip back to looking finished or running"   *)
(* (_infer_status): once CANCELLED, always CANCELLED.                      *)
CancelledIsFinal ==
    [][InferStatus = "CANCELLED" => InferStatus' = "CANCELLED"]_jobVars

(***************************************************************************)
(* "A job already in a terminal status [...] can't be cancelled"           *)
(* (cancel_assessment): a job that is over is not made to look CANCELLED.  *)
(* Not kept: the job can end between CancelRead and CancelWrite.           *)
(***************************************************************************)
NoFabricatedCancel ==
    [][InferStatus' = "CANCELLED" => InferStatus \notin {"SUCCEEDED", "FAILED"}]_jobVars

(***************************************************************************)
(* While the orchestrator runs a phase the job does not show as failed by  *)
(* a script of that same phase: "Resuming that one phase must therefore    *)
(* clear both script phases' markers" (_SCRIPT_PHASES_FOR).                *)
(***************************************************************************)
ResumeClearsMarker ==
    \A self \in Procs :
        At(self, "run") /\ orch[self].op = "resume" =>
            ~(/\ marker.status = "FAILED"
              /\ marker.phase \in IF orch[self].cur = "collect_triage"
                                  THEN {"collect", "triage"} ELSE {orch[self].cur})
=============================================================================
